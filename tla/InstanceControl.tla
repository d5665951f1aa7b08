-------------------------- MODULE InstanceControl --------------------------
(***************************************************************************)
(* The instance control plane of nephosd: Run and Terminate requests, the  *)
(* instance reconciler, the Podman service it drives, and the private hook *)
(* handler that plumbs a container's network interface (ENI) while Podman  *)
(* starts it.                                                              *)
(*                                                                         *)
(* The reconciler handles one instance at a time, but every call it makes  *)
(* is a step of its own: requests commit in between, and the hook handler  *)
(* runs in another goroutine.  A Podman call may fail, may take effect and *)
(* lose its reply, or may time out (10s) and take effect later.            *)
(*                                                                         *)
(* Podman is external.  From how internal/compute/podman uses it: one      *)
(* container per instance name; a fresh ID for every container; operations *)
(* on a container exclude each other, so that a delete waits for a start   *)
(* and its hook; a start fails when the hook fails.                        *)
(*                                                                         *)
(* A hint that is enqueued wakes Run (NoLostWakeup of WorkQueue), so the   *)
(* channel `wake` is left out and a request enqueues as it commits.        *)
(***************************************************************************)
EXTENDS QueueOps

CONSTANTS Instances,      \* instance IDs, ordered as SQLite orders them
          Addresses,      \* assignable addresses of the one subnet
          PageSize,       \* rows per page of a Sweep (100 in the code)
          MaxContainers,  \* bound on the containers made per instance
          ByHand          \* whether containers are also removed by hand

ASSUME InstanceAssumption ==
  /\ Instances \subseteq Nat \ {0} /\ IsFiniteSet(Instances)
  /\ Addresses \subseteq Nat \ {0}
  /\ PageSize \in Nat \ {0} /\ MaxContainers \in Nat /\ ByHand \in BOOLEAN

VARIABLES
  (* SQLite *)
  row,       \* instance rows
  used,      \* IDs drawn so far
  lease,     \* the private address of the instance's ENI row; kept for
             \* reference when the row is gone
  netReady,  \* the rows of the subnet and its VPC are converged
  (* Podman and the kernel *)
  ctr,       \* the container of each name
  eni,       \* the router's end of each instance's interface
  (* daemon memory *)
  pending, retries,  \* the hint queue, see QueueOps
  pc,        \* where the reconciler's goroutine is
  sweeping,  \* it is inside Sweep
  after,     \* Sweep: the page read last
  todo,      \* Sweep: what remains of the page
  cur,       \* the instance being reconciled, or None
  snap,      \* its row as read
  made       \* runtimeID: what Create returned

db == <<row, used, lease, netReady>>
world == <<ctr, eni>>
queue == <<pending, retries>>
sweep == <<sweeping, after, todo>>
vars == <<db, world, queue, sweep, cur, snap, made, pc>>

None == 0
NoRow == [state |-> "none", gen |-> 0, obs |-> 0, rid |-> None, del |-> FALSE]
NewRow == [state |-> "pending", gen |-> 1, obs |-> 0, rid |-> None, del |-> FALSE]
Rows == [state : {"none", "pending", "running", "failed", "shutting-down"},
         gen : 0..2, obs : 0..1, rid : 0..MaxContainers, del : BOOLEAN]

(* A container is made, goes through the hook's three steps when started,  *)
(* runs and exits; Podman goes on to report one as running that was "lost" *)
(* with the appliance.  `id` stays when it is removed, for the next one to *)
(* differ; `late` is a call that timed out and has yet to take effect.     *)
Hooked == {"hook", "plumb", "verify"}
Reported == {"running", "lost"}
Statuses == {"none", "created", "exited"} \cup Hooked \cup Reported
Containers ==
  [id : 0..MaxContainers, late : {"no", "create", "delete"}, st : Statuses]
NoContainer == [id |-> None, late |-> "no", st |-> "none"]
Changed(c, late, st) == [id |-> c.id, late |-> late, st |-> st]

TypeOK ==
  /\ row \in [Instances -> Rows] /\ used \subseteq Instances
  /\ lease \in [Instances -> Addresses \cup {None}] /\ netReady \in BOOLEAN
  /\ ctr \in [Instances -> Containers]
  /\ eni \in [Instances -> {"none", "live", "stale"}]
  /\ pending \subseteq Instances /\ Cardinality(pending) <= QueueLimit
  /\ retries \subseteq Instances /\ Cardinality(retries) <= QueueLimit
  /\ pc \in {"down", "page", "each", "pop", "load", "ready", "inspect", "create", "bind",
             "retain", "undo", "discard", "reload", "start", "starting", "check",
             "record", "delete", "unplug", "finish", "fail"}
  /\ sweeping \in BOOLEAN /\ after \subseteq Instances /\ todo \subseteq Instances
  /\ cur \in Instances \cup {None} /\ snap \in Rows /\ made \in 0..MaxContainers

(* A row with another state and observed generation, or runtime ID.        *)
Observed(r, state, obs) ==
  [state |-> state, gen |-> r.gen, obs |-> obs, rid |-> r.rid, del |-> r.del]
BoundTo(r, id) ==
  [state |-> r.state, gen |-> r.gen, obs |-> r.obs, rid |-> id, del |-> r.del]

Exists(i) == row[i].state # "none"
Present(i, id) == ctr[i].st # "none" /\ ctr[i].id = id

Init ==
  /\ row = [i \in Instances |-> NoRow] /\ used = {}
  /\ lease = [i \in Instances |-> None] /\ netReady = FALSE
  /\ ctr = [i \in Instances |-> NoContainer] /\ eni = [i \in Instances |-> "none"]
  /\ pending = {} /\ retries = {}
  /\ pc = "down" /\ sweeping = FALSE /\ after = {} /\ todo = {}
  /\ cur = None /\ snap = NoRow /\ made = None

-----------------------------------------------------------------------------
(* The appliance's life.  An exit ends every container and takes every     *)
(* namespace and every call under way with it.  The entrypoint empties     *)
(* /run/netns and /run/nephos but nothing of Podman's, so that Podman may  *)
(* report a container that ran as running afterwards.                      *)

Start ==
  /\ pc = "down"
  /\ pc' = "page" /\ sweeping' = TRUE
  /\ UNCHANGED <<db, world, queue, after, todo, cur, snap, made>>

Exit ==
  /\ pc' = "down" /\ sweeping' = FALSE /\ after' = {} /\ todo' = {}
  /\ cur' = None /\ snap' = NoRow /\ made' = None
  /\ pending' = {} /\ retries' = {}
  /\ \E lost \in SUBSET {i \in Instances : ctr[i].st \in Reported} :
       ctr' = [i \in Instances |->
                 Changed(ctr[i], "no",
                         IF i \in lost THEN "lost"
                         ELSE IF ctr[i].st \in Hooked \cup Reported THEN "exited"
                         ELSE ctr[i].st)]
  /\ eni' = [i \in Instances |-> "none"]
  /\ UNCHANGED db

Crash == pc # "down" /\ Exit

-----------------------------------------------------------------------------
(* Requests, and the network's reconciler.                                 *)

Request == pc # "down" /\ UNCHANGED <<world, retries, sweep, cur, snap, made, pc>>

Leased == {lease[j] : j \in {k \in Instances : Exists(k)}}

(* nextPrivateIP: the lowest address no ENI row of the subnet has.         *)
NextPrivateIP(taken) ==
  LET free == Addresses \ taken
  IN  CHOOSE a \in free : \A b \in free : a <= b

(* Run that overlooks the leases.                                          *)
RunInstanceAnyAddress(i) ==
  /\ Request
  /\ i \notin used
  /\ row' = [row EXCEPT ![i] = NewRow]
  /\ used' = used \cup {i}
  /\ lease' = [lease EXCEPT ![i] = NextPrivateIP({})]
  /\ pending' = AddPending(pending, i)
  /\ UNCHANGED netReady

(* Instances.Run; it is refused when the subnet has no free address.       *)
RunInstance(i) ==
  /\ Request
  /\ i \notin used /\ Addresses \ Leased # {}
  /\ row' = [row EXCEPT ![i] = NewRow]
  /\ used' = used \cup {i}
  /\ lease' = [lease EXCEPT ![i] = NextPrivateIP(Leased)]
  /\ pending' = AddPending(pending, i)
  /\ UNCHANGED netReady

(* MarkInstanceTerminating.                                                *)
MarkTerminating(r) ==
  [state |-> "shutting-down", gen |-> r.gen + 1, obs |-> r.obs, rid |-> r.rid, del |-> TRUE]

(* Instances.Terminate; repeating it changes nothing.                      *)
Terminate(i) ==
  /\ Request
  /\ Exists(i) /\ ~row[i].del
  /\ row' = [row EXCEPT ![i] = MarkTerminating(@)]
  /\ pending' = AddPending(pending, i)
  /\ UNCHANGED <<used, lease, netReady>>

NetworkConverges ==
  /\ pc # "down" /\ ~netReady
  /\ netReady' = TRUE
  /\ UNCHANGED <<row, used, lease, world, queue, sweep, cur, snap, made, pc>>

NetworkFails ==
  /\ pc # "down" /\ netReady
  /\ netReady' = FALSE
  /\ UNCHANGED <<row, used, lease, world, queue, sweep, cur, snap, made, pc>>

-----------------------------------------------------------------------------
(* Run and Sweep.                                                          *)

Pop(i) ==
  /\ pc = "pop" /\ i \in pending
  /\ pending' = pending \ {i}
  /\ cur' = i /\ pc' = "load"
  /\ UNCHANGED <<db, world, retries, sweep, snap, made>>

RetryTick(due) ==
  /\ pc = "pop" /\ pending = {} /\ due \subseteq retries /\ due # {}
  /\ pending' \in AddDue(pending, due)
  /\ UNCHANGED <<db, world, retries, sweep, cur, snap, made, pc>>

Resync ==
  /\ pc = "pop" /\ pending = {}
  /\ pc' = "page" /\ sweeping' = TRUE
  /\ UNCHANGED <<db, world, queue, after, todo, cur, snap, made>>

(* ListInstancePage; a page is reconciled before the next one is read.     *)
SweepPage ==
  LET rest == {i \in Instances : Exists(i) /\ \A j \in after : j < i}
      page == {i \in rest : Cardinality({j \in rest : j < i}) < PageSize}
  IN  /\ pc = "page" /\ page # {}
      /\ todo' = page /\ after' = page
      /\ pc' = "each"
      /\ UNCHANGED <<db, world, queue, sweeping, cur, snap, made>>

SweepEach(i) ==
  /\ pc = "each" /\ i \in todo /\ \A j \in todo : i <= j
  /\ todo' = todo \ {i}
  /\ cur' = i /\ pc' = "load"
  /\ UNCHANGED <<db, world, queue, sweeping, after, snap, made>>

SweepPageDone ==
  /\ pc = "each" /\ todo = {}
  /\ pc' = "page"
  /\ UNCHANGED <<db, world, queue, sweep, cur, snap, made>>

(* Sweep that keeps its cursor for the next one.                           *)
SweepDoneKeepsCursor ==
  /\ pc = "page" /\ ~\E i \in Instances : Exists(i) /\ \A j \in after : j < i
  /\ sweeping' = FALSE /\ pc' = "pop"
  /\ UNCHANGED <<db, world, queue, after, todo, cur, snap, made>>

SweepDone ==
  /\ pc = "page" /\ ~\E i \in Instances : Exists(i) /\ \A j \in after : j < i
  /\ sweeping' = FALSE /\ after' = {} /\ pc' = "pop"
  /\ UNCHANGED <<db, world, queue, todo, cur, snap, made>>

-----------------------------------------------------------------------------
(* reconcileLocked.                                                        *)

Return ==
  /\ pc' = IF sweeping THEN "each" ELSE "pop"
  /\ cur' = None /\ snap' = NoRow /\ made' = None
  /\ UNCHANGED sweep

ClearRetry == retries' = retries \ {cur} /\ UNCHANGED pending
Requeue == pending' = AddPending(pending, cur) /\ UNCHANGED retries

(* A step of the reconciler to `next` that touches nothing else.           *)
Goto(next) == pc' = next /\ UNCHANGED <<db, queue, sweep, cur, snap, made>>

LoadGone ==
  /\ pc = "load" /\ ~Exists(cur)
  /\ ClearRetry /\ Return
  /\ UNCHANGED <<db, world>>

Load ==
  /\ pc = "load" /\ Exists(cur)
  /\ snap' = row[cur]
  /\ pc' = IF row[cur].del THEN "delete" ELSE "ready"
  /\ UNCHANGED <<db, world, queue, sweep, cur, made>>

(* Without its prerequisites an instance waits for a hint or a resync.     *)
NotReady ==
  /\ pc = "ready" /\ ~netReady
  /\ Return
  /\ UNCHANGED <<db, world, queue>>

Ready ==
  /\ pc = "ready" /\ netReady
  /\ Goto(IF snap.state = "running" /\ snap.obs = snap.gen /\ snap.rid # None
          THEN "inspect" ELSE "create")
  /\ UNCHANGED world

InspectRunning ==
  /\ pc = "inspect" /\ Present(cur, snap.rid) /\ ctr[cur].st \in Reported
  /\ ClearRetry /\ Return
  /\ UNCHANGED <<db, world>>

(* A stopped container is started again; a missing one is an error.        *)
InspectStopped ==
  /\ pc = "inspect" /\ ctr[cur].st \notin Reported
  /\ Goto(IF Present(cur, snap.rid) THEN "create" ELSE "fail")
  /\ UNCHANGED world

InspectFails == pc \in {"inspect", "check"} /\ Goto("fail") /\ UNCHANGED world

(* Podman makes a container of the name.                                   *)
Make(i) ==
  /\ ctr[i].st = "none" /\ ctr[i].id < MaxContainers
  /\ ctr' = [ctr EXCEPT ![i] = [id |-> ctr[i].id + 1, late |-> "no", st |-> "created"]]
  /\ UNCHANGED eni

(* EnsureImage and Create: rediscover the container of the name or make it.*)
CreateFound ==
  /\ pc = "create" /\ ctr[cur].st # "none"
  /\ made' = ctr[cur].id /\ pc' = "bind"
  /\ UNCHANGED <<db, world, queue, sweep, cur, snap>>

CreateNew ==
  /\ pc = "create" /\ Make(cur)
  /\ made' = ctr[cur].id + 1 /\ pc' = "bind"
  /\ UNCHANGED <<db, queue, sweep, cur, snap>>

(* It fails, loses its reply, or times out and is carried out later.       *)
CreateFails ==
  /\ pc = "create" /\ Goto("fail")
  /\ \/ UNCHANGED world
     \/ Make(cur)
     \/ /\ ctr[cur].st = "none" /\ ctr[cur].id < MaxContainers
        /\ ctr' = [ctr EXCEPT ![cur] = Changed(@, "create", @.st)]
        /\ UNCHANGED eni

(* RecordRuntimeID.                                                        *)
RecordRuntimeID ==
  /\ pc = "bind"
  /\ IF /\ Exists(cur) /\ row[cur].gen = snap.gen /\ ~row[cur].del
        /\ row[cur].rid \in {None, made}
     THEN row' = [row EXCEPT ![cur] = BoundTo(@, made)] /\ pc' = "reload"
     ELSE UNCHANGED row /\ pc' = "retain"
  /\ UNCHANGED <<used, lease, netReady, world, queue, sweep, cur, snap, made>>

(* createdDuringStateChange: RetainTerminatingRuntimeID.                   *)
RetainTerminatingRuntimeID ==
  /\ pc = "retain"
  /\ IF row[cur].del /\ row[cur].rid = None
     THEN row' = [row EXCEPT ![cur] = BoundTo(@, made)] /\ pc' = "undo"
     ELSE UNCHANGED row /\ pc' = "discard"
  /\ UNCHANGED <<used, lease, netReady, world, queue, sweep, cur, snap, made>>

(* Podman removes a container, and its namespace with its end of the link. *)
Remove(i) ==
  /\ ctr' = [ctr EXCEPT ![i] = Changed(@, "no", "none")]
  /\ eni' = [eni EXCEPT ![i] = IF @ = "live" THEN "stale" ELSE @]

(* Delete succeeds, or fails without effect or with a later one.           *)
Delete(i, id) ==
  \/ Present(i, id) /\ ctr[i].st \notin Hooked /\ Remove(i)
  \/ ~Present(i, id) /\ UNCHANGED world

DeleteError(i, id) ==
  \/ UNCHANGED world
  \/ /\ Present(i, id)
     /\ ctr' = [ctr EXCEPT ![i] = Changed(@, "delete", @.st)]
     /\ UNCHANGED eni

(* createdDuringStateChange: the immediate Delete, and its failures.       *)
Undo ==
  /\ pc \in {"undo", "discard"} /\ Delete(cur, made)
  /\ Requeue /\ Return
  /\ UNCHANGED db

UndoFails ==
  /\ pc = "undo" /\ DeleteError(cur, made)
  /\ snap' = row[cur] /\ pc' = "fail"
  /\ UNCHANGED <<db, queue, sweep, cur, made>>

DiscardFails == pc = "discard" /\ Exit

Reload ==
  /\ pc = "reload"
  /\ IF row[cur].del
     THEN Requeue /\ Return
     ELSE snap' = row[cur] /\ pc' = "start" /\ UNCHANGED <<queue, sweep, cur, made>>
  /\ UNCHANGED <<db, world>>

(* Start: Podman enters the hook, or is in it since a start that timed     *)
(* out, or answers 304 because it takes the container to be running.       *)
StartContainer ==
  /\ pc = "start" /\ Present(cur, made)
  /\ ctr' = [ctr EXCEPT ![cur] =
                Changed(@, @.late, IF @.st \in {"created", "exited"} THEN "hook" ELSE @.st)]
  /\ Goto("starting")
  /\ UNCHANGED eni

StartMissing == pc = "start" /\ ~Present(cur, made) /\ Goto("fail") /\ UNCHANGED world

(* Start returns once the hook is over.                                    *)
Started ==
  /\ pc = "starting" /\ ctr[cur].st \notin Hooked
  /\ Goto(IF Present(cur, made) /\ ctr[cur].st \in Reported THEN "check" ELSE "fail")
  /\ UNCHANGED world

StartFails == pc \in {"start", "starting"} /\ Goto("fail") /\ UNCHANGED world

(* The Inspect after Start.                                                *)
Check ==
  /\ pc = "check"
  /\ Goto(IF Present(cur, made) /\ ctr[cur].st \in Reported THEN "record" ELSE "fail")
  /\ UNCHANGED world

(* sameInstanceDecision.                                                   *)
Same ==
  /\ Exists(cur)
  /\ row[cur].gen = snap.gen /\ row[cur].del = snap.del /\ row[cur].rid = snap.rid

(* RecordInstance(running) on whatever row is there now.                   *)
RecordRunningAnyway ==
  /\ pc = "record"
  /\ row' = [row EXCEPT ![cur] = Observed(@, "running", snap.gen)]
  /\ ClearRetry /\ Return
  /\ UNCHANGED <<used, lease, netReady, world>>

RecordRunning ==
  /\ pc = "record"
  /\ IF Same
     THEN /\ row' = [row EXCEPT ![cur] = Observed(@, "running", snap.gen)]
          /\ ClearRetry
     ELSE UNCHANGED row /\ Requeue
  /\ Return
  /\ UNCHANGED <<used, lease, netReady, world>>

(* fail without backoff.                                                   *)
FailAtOnce ==
  /\ pc = "fail"
  /\ row' = IF Same THEN [row EXCEPT ![cur] = Observed(@, "failed", @.obs)] ELSE row
  /\ Requeue /\ Return
  /\ UNCHANGED <<used, lease, netReady, world>>

(* fail: RecordInstance(failed), then retry.                               *)
Fail ==
  /\ pc = "fail"
  /\ IF Same
     THEN /\ row' = [row EXCEPT ![cur] = Observed(@, "failed", @.obs)]
          /\ retries' = AddRetry(retries, cur)
          /\ UNCHANGED pending
     ELSE UNCHANGED row /\ Requeue
  /\ Return
  /\ UNCHANGED <<used, lease, netReady, world>>

-----------------------------------------------------------------------------
(* terminate.                                                              *)

(* terminate going on to the ENI before Podman has removed the container.  *)
TerminateAsync ==
  /\ pc = "delete" /\ Goto("unplug")
  /\ ctr' = [ctr EXCEPT ![cur] =
                Changed(@, IF Present(cur, snap.rid) THEN "delete" ELSE @.late, @.st)]
  /\ UNCHANGED eni

TerminateContainer ==
  /\ pc = "delete" /\ Goto("unplug")
  /\ IF snap.rid = None THEN UNCHANGED world ELSE Delete(cur, snap.rid)

TerminateContainerFails ==
  /\ pc = "delete" /\ snap.rid # None
  /\ DeleteError(cur, snap.rid) /\ Goto("fail")

(* DeleteENI, whatever namespace the other end was in.                     *)
DeleteENI ==
  /\ pc = "unplug" /\ Goto("finish")
  /\ eni' = [eni EXCEPT ![cur] = "none"]
  /\ UNCHANGED ctr

DeleteENIFails == pc = "unplug" /\ Goto("fail") /\ UNCHANGED world

(* FinishInstanceTermination: the ENI row goes, and its address with it.   *)
FinishInstanceTermination ==
  /\ pc = "finish"
  /\ IF Same /\ row[cur].del
     THEN row' = [row EXCEPT ![cur] = NoRow] /\ ClearRetry
     ELSE UNCHANGED row /\ Requeue
  /\ Return
  /\ UNCHANGED <<used, lease, netReady, world>>

-----------------------------------------------------------------------------
(* The hook, called by Podman while it starts container i.                 *)

Hook(i, from, to) ==
  /\ pc # "down" /\ ctr[i].st = from
  /\ ctr' = [ctr EXCEPT ![i] = Changed(@, @.late, to)]
  /\ UNCHANGED <<db, queue, sweep, cur, snap, made, pc>>

(* The container is that of a live instance.                               *)
Identified(i) == Exists(i) /\ ~row[i].del /\ row[i].rid = ctr[i].id

(* The transaction that checks identity and prerequisites.                 *)
HookIdentify(i) ==
  /\ Hook(i, "hook", IF Identified(i) /\ netReady THEN "plumb" ELSE "exited")
  /\ UNCHANGED eni

(* EnsureENI refuses the link of an earlier namespace.                     *)
HookPlumb(i) ==
  /\ Hook(i, "plumb", IF eni[i] = "stale" THEN "exited" ELSE "verify")
  /\ eni' = [eni EXCEPT ![i] = IF @ = "stale" THEN @ ELSE "live"]

(* EnsureENI fails or times out, and takes its new link away, unless that  *)
(* fails too.                                                              *)
HookPlumbFails(i) ==
  /\ Hook(i, "plumb", "exited")
  /\ \/ UNCHANGED eni
     \/ eni[i] = "none" /\ eni' = [eni EXCEPT ![i] = "stale"]

(* The second look; a refusal leaves the link to terminate.                *)
HookVerify(i) ==
  /\ Hook(i, "verify", IF Identified(i) THEN "running" ELSE "exited")
  /\ eni' = [eni EXCEPT ![i] = IF Identified(i) THEN @ ELSE "stale"]

-----------------------------------------------------------------------------
(* Podman and the kernel on their own.                                     *)

Outside == pc # "down" /\ UNCHANGED <<db, queue, sweep, cur, snap, made, pc>>

(* A call that timed out takes effect.                                     *)
LateEffect(i) ==
  /\ Outside
  /\ \/ ctr[i].late = "create" /\ Make(i)
     \/ ctr[i].late = "delete" /\ ctr[i].st \notin Hooked /\ Remove(i)

(* A container ends, or Podman finds out that it has.                      *)
ContainerExits(i) ==
  /\ Outside /\ ctr[i].st \in Reported
  /\ ctr' = [ctr EXCEPT ![i] = Changed(@, @.late, "exited")]
  /\ eni' = [eni EXCEPT ![i] = IF @ = "live" THEN "stale" ELSE @]

(* The kernel removes a pair once one of its namespaces is gone.           *)
KernelReaps(i) ==
  /\ Outside /\ eni[i] = "stale"
  /\ eni' = [eni EXCEPT ![i] = "none"]
  /\ UNCHANGED ctr

RemovedByHand(i) == ByHand /\ Outside /\ ctr[i].st \notin Hooked \cup {"none"} /\ Remove(i)

-----------------------------------------------------------------------------
Requests ==
  \/ \E i \in Instances : RunInstance(i) \/ Terminate(i)
  \/ NetworkConverges

HookHandler == \E i \in Instances : HookIdentify(i) \/ HookPlumb(i) \/ HookVerify(i)

Reconcile ==
  \/ LoadGone \/ Load \/ NotReady \/ Ready \/ InspectRunning \/ InspectStopped
  \/ CreateFound \/ CreateNew \/ RecordRuntimeID \/ RetainTerminatingRuntimeID \/ Undo
  \/ Reload \/ StartContainer \/ StartMissing \/ Started \/ Check \/ RecordRunning \/ Fail
  \/ TerminateContainer \/ DeleteENI \/ FinishInstanceTermination

Worker ==
  \/ Reconcile \/ SweepPage \/ SweepPageDone \/ SweepDone
  \/ \E i \in Instances : Pop(i) \/ SweepEach(i)

CallFails ==
  \/ CreateFails \/ InspectFails \/ StartFails \/ UndoFails \/ DiscardFails
  \/ TerminateContainerFails \/ DeleteENIFails
  \/ \E i \in Instances : HookPlumbFails(i)

Fault ==
  \/ Crash \/ NetworkFails \/ CallFails
  \/ \E i \in Instances : ContainerExits(i) \/ RemovedByHand(i)

Environment == \E i \in Instances : LateEffect(i) \/ KernelReaps(i)

Select == Resync \/ \E due \in SUBSET Instances : RetryTick(due)

Next == Start \/ Requests \/ HookHandler \/ Worker \/ Select \/ Environment \/ Fault

(* Goroutines and Podman keep running, the kernel cleans up, the network   *)
(* converges (EventuallySettled of NetworkControl), and an exit is         *)
(* followed by `nephos up`.  Resync's tick waits for select.               *)
Safety == Init /\ [][Next]_vars
Fairness ==
  /\ WF_vars(Worker) /\ SF_vars(Resync) /\ WF_vars(Start) /\ WF_vars(NetworkConverges)
  /\ \A i \in Instances : /\ WF_vars(HookIdentify(i) \/ HookPlumb(i) \/ HookVerify(i))
                          /\ WF_vars(LateEffect(i) \/ KernelReaps(i))
Spec == Safety /\ Fairness

-----------------------------------------------------------------------------
(* Properties.                                                             *)

(* Once an instance's row, and with it the lease of its address, is gone,  *)
(* no router link of it is left and no container of it that ever ran:      *)
(* whatever calls failed, timed out or raced the termination, and although *)
(* the hook plumbs in another goroutine.                                   *)
LeaseOutlivesInterface ==
  \A i \in Instances :
    ~Exists(i) => eni[i] = "none" /\ ctr[i].st \in {"none", "created"}

(* An address on a router link, or leased by a row, belongs to no other    *)
(* instance.                                                               *)
AddressExclusive ==
  \A i, j \in Instances :
    i # j /\ Exists(j) /\ (Exists(i) \/ eni[i] # "none") => lease[i] # lease[j]

(* A termination that has committed stays in force: an outcome that was    *)
(* still under way (a start that succeeds, a late inspection) does not     *)
(* make the row running or observed again.                                 *)
TerminationIsFinal ==
  \A i \in Instances :
    row[i].del => row[i].state \in {"shutting-down", "failed"} /\ row[i].obs < row[i].gen

(* The reconciler puts an instance straight back into the queue only when  *)
(* its row is no longer the one it acted on; any other pass that did not   *)
(* succeed waits for its backoff.                                          *)
RequeuedOnlyWhenChanged ==
  [][pc' # pc /\ cur # None /\ cur \in pending' \ pending => row[cur] # snap]_vars

(* Once faults stop, terminating instances go away and all others are      *)
(* recorded and observed as running and do run, with their interface.  An  *)
(* instance that ran when the appliance stopped is the exception, for as   *)
(* long as Podman reports it as running: a pass of the reconciler ends     *)
(* there (instance.go:180), and a restart of instances is not claimed yet. *)
Served ==
  \A i \in Instances :
    Exists(i) => /\ row[i].state = "running" /\ row[i].obs = row[i].gen
                 /\ ctr[i].st = "lost" \/ (ctr[i].st = "running" /\ eni[i] = "live")
EventuallyServed == <>[][~Fault]_vars => <>[]Served

(* "FinishInstanceTermination releases its lease only after owned runtime  *)
(* and ENI teardown": a row that is gone leaves no container behind.       *)
TerminatedLeavesNothing ==
  \A i \in Instances : i \in used /\ ~Exists(i) => ctr[i].st = "none"

=============================================================================
