--------------------------- MODULE NetworkControl ---------------------------
(***************************************************************************)
(* The VPC and subnet control plane of nephosd: the service operations     *)
(* that write desired state to SQLite, the VPC reconciler (Controller)     *)
(* that drives the kernel towards it and writes back what it observed, the *)
(* namespaces and gateway addresses it drives, and restarts of the         *)
(* appliance, which keep the database and lose everything else.            *)
(*                                                                         *)
(* SQLite has one connection, so each transaction or statement is one      *)
(* step.  A reconcile is four steps (read the VPC, read its subnets, call  *)
(* the engine, record the result) and requests commit between any two.     *)
(*                                                                         *)
(* IDs are drawn at random and never drawn twice; a subnet's VPC and CIDR  *)
(* block never change after creation, so both are functions of its ID.     *)
(* Names, zones, timestamps, reasons and events are left out.              *)
(***************************************************************************)
EXTENDS QueueOps

CONSTANTS VPCs,        \* VPC IDs, ordered as SQLite orders them
          Subnets,     \* subnet IDs
          Blocks,      \* CIDR blocks, pairwise disjoint
          VPCOf,       \* the VPC a subnet is created in
          Block,       \* the block a subnet is created with
          Strays,      \* namespaces with a Nephos name and no VPC row
          PageSize     \* rows per page of a Sweep (100 in the code)

ASSUME NetworkAssumption ==
  /\ VPCs \subseteq Nat \ {0}
  /\ IsFiniteSet(VPCs)
  /\ VPCs \cap Subnets = {} /\ VPCs \cap Strays = {}
  /\ VPCOf \in [Subnets -> VPCs]
  /\ Block \in [Subnets -> Blocks]
  /\ PageSize \in Nat \ {0}

VARIABLES
  (* SQLite *)
  row,        \* the row of each ID, or NoRow
  used,       \* IDs drawn so far
  occupied,   \* subnets with at least one instance row
  (* kernel, under /run/netns, which is a fresh tmpfs at every start *)
  ns,         \* what is at the VPC's mount point
  gws,        \* blocks whose gateway address is on the VPC's router link
  stray,      \* stray namespaces present
  tampered,   \* VPCs whose namespace was removed by hand since the engine's
              \* last success
  lost,       \* VPCs whose namespace went with a restart, likewise
  (* daemon memory *)
  pending, retries, wake,  \* the hint queue, see QueueOps
  hints,      \* VPCs whose change is committed and not yet hinted
  swept,      \* the startup Sweep has returned
  pc,         \* where the controller's goroutine is
  sweeping,   \* it is inside Sweep, not in Run's pop loop
  cur,        \* the VPC being reconciled, or NoVPC
  snap,       \* its row as read
  kids,       \* its subnets' rows as read
  failed,     \* effectErr # nil
  wanted,     \* Sweep: VPCs listed so far
  todo        \* Sweep: what remains of the current loop

db == <<row, used, occupied>>
kernel == <<ns, gws, stray, tampered, lost>>
queue == <<pending, retries, wake, hints>>
reading == <<cur, snap, kids, failed>>
sweep == <<swept, sweeping, wanted, todo>>
vars == <<db, kernel, queue, reading, sweep, pc>>

NoVPC == 0
NoRow == [state |-> "none", gen |-> 0, obs |-> 0, del |-> FALSE]
NewRow == [state |-> "pending", gen |-> 1, obs |-> 0, del |-> FALSE]
NoKids == [s \in Subnets |-> NoRow]
IDs == VPCs \cup Subnets
States == {"none", "pending", "available", "failed", "deleting"}
Rows == [state : States, gen : 0..2, obs : 0..1, del : BOOLEAN]

TypeOK ==
  /\ row \in [IDs -> Rows] /\ used \subseteq IDs /\ occupied \subseteq Subnets
  /\ ns \in [VPCs -> {"absent", "file", "ns"}]
  /\ gws \in [VPCs -> SUBSET Blocks]
  /\ stray \subseteq Strays /\ tampered \subseteq VPCs /\ lost \subseteq VPCs
  /\ pending \subseteq VPCs /\ Cardinality(pending) <= QueueLimit
  /\ retries \subseteq VPCs /\ Cardinality(retries) <= QueueLimit
  /\ hints \subseteq VPCs
  /\ wake \in BOOLEAN /\ swept \in BOOLEAN /\ sweeping \in BOOLEAN
  /\ pc \in {"down", "page", "list", "orphans", "each", "pop", "select",
             "load", "children", "effect", "record"}
  /\ cur \in VPCs \cup {NoVPC}
  /\ snap \in Rows /\ kids \in [Subnets -> Rows] /\ failed \in BOOLEAN
  /\ wanted \subseteq VPCs /\ todo \subseteq VPCs \cup Strays

Exists(x) == row[x].state # "none"
Children(v) == {s \in Subnets : VPCOf[s] = v /\ Exists(s)}
Gateways(rows) == {Block[s] : s \in {t \in Subnets : rows[t].state # "none" /\ ~rows[t].del}}

(* What instance_network.go and the hook require of a VPC and of a subnet  *)
(* before an instance may be started in it.                                *)
Converged(x) == row[x].state = "available" /\ row[x].obs = row[x].gen /\ ~row[x].del

Init ==
  /\ row = [x \in IDs |-> NoRow] /\ used = {} /\ occupied = {}
  /\ ns = [v \in VPCs |-> "absent"] /\ gws = [v \in VPCs |-> {}]
  /\ stray = {} /\ tampered = {} /\ lost = {}
  /\ pending = {} /\ retries = {} /\ wake = FALSE /\ hints = {}
  /\ cur = NoVPC /\ snap = NoRow /\ kids = NoKids /\ failed = FALSE
  /\ swept = FALSE /\ sweeping = FALSE /\ wanted = {} /\ todo = {}
  /\ pc = "down"

-----------------------------------------------------------------------------
(* The daemon's life.                                                      *)

(* serve: the API answers from here on; the startup Sweep begins.          *)
Start ==
  /\ pc = "down"
  /\ pc' = "page" /\ sweeping' = TRUE
  /\ UNCHANGED <<db, kernel, queue, reading, swept, wanted, todo>>

(* The daemon's exit ends the appliance: the entrypoint exits with it.     *)
Exit ==
  /\ pc' = "down"
  /\ ns' = [v \in VPCs |-> "absent"] /\ gws' = [v \in VPCs |-> {}]
  /\ stray' = {} /\ tampered' = {} /\ lost' = {v \in VPCs : Exists(v)}
  /\ pending' = {} /\ retries' = {} /\ wake' = FALSE /\ hints' = {}
  /\ cur' = NoVPC /\ snap' = NoRow /\ kids' = NoKids /\ failed' = FALSE
  /\ swept' = FALSE /\ sweeping' = FALSE /\ wanted' = {} /\ todo' = {}
  /\ UNCHANGED db

Crash == pc # "down" /\ Exit

-----------------------------------------------------------------------------
(* The service's requests, each one transaction.  A request that is        *)
(* refused, or that repeats a delete, changes nothing.                     *)

Request == pc # "down" /\ UNCHANGED <<kernel, pending, retries, wake, reading, sweep, pc>>

(* MarkVPCDeleting, MarkSubnetDeleting.                                    *)
MarkDeleting(r) == [state |-> "deleting", gen |-> r.gen + 1, obs |-> r.obs, del |-> TRUE]

CreateVPC(v) ==
  /\ Request
  /\ v \notin used
  /\ row' = [row EXCEPT ![v] = NewRow]
  /\ used' = used \cup {v}
  /\ hints' = hints \cup {v}
  /\ UNCHANGED occupied

(* DeleteVPC that only counts the subnets which are not being deleted.     *)
DeleteVPCIgnoringDeleting(v) ==
  /\ Request
  /\ Exists(v) /\ ~row[v].del
  /\ \A s \in Children(v) : row[s].del
  /\ row' = [row EXCEPT ![v] = MarkDeleting(@)]
  /\ hints' = hints \cup {v}
  /\ UNCHANGED <<used, occupied>>

DeleteVPC(v) ==
  /\ Request
  /\ Exists(v) /\ ~row[v].del
  /\ Children(v) = {}
  /\ row' = [row EXCEPT ![v] = MarkDeleting(@)]
  /\ hints' = hints \cup {v}
  /\ UNCHANGED <<used, occupied>>

(* Siblings count even while they are being deleted.                       *)
CreateSubnet(s) ==
  /\ Request
  /\ s \notin used
  /\ Exists(VPCOf[s]) /\ ~row[VPCOf[s]].del
  /\ \A t \in Children(VPCOf[s]) : Block[t] # Block[s]
  /\ row' = [row EXCEPT ![s] = NewRow]
  /\ used' = used \cup {s}
  /\ hints' = hints \cup {VPCOf[s]}
  /\ UNCHANGED occupied

DeleteSubnet(s) ==
  /\ Request
  /\ Exists(s) /\ ~row[s].del
  /\ s \notin occupied
  /\ row' = [row EXCEPT ![s] = MarkDeleting(@)]
  /\ hints' = hints \cup {VPCOf[s]}
  /\ UNCHANGED <<used, occupied>>

(* Instances.Run, as far as the subnet is concerned.                       *)
RunInstance(s) ==
  /\ Request
  /\ Exists(s) /\ ~row[s].del
  /\ occupied' = occupied \cup {s}
  /\ UNCHANGED <<row, used, hints>>

(* FinishInstanceTermination of the subnet's last instance.                *)
LastInstanceGone(s) ==
  /\ Request
  /\ s \in occupied
  /\ occupied' = occupied \ {s}
  /\ UNCHANGED <<row, used, hints>>

(* The request's Enqueue, after its commit.                                *)
Enqueue(v) ==
  /\ pc # "down" /\ v \in hints
  /\ hints' = hints \ {v}
  /\ pending' = AddPending(pending, v)
  /\ wake' = TRUE
  /\ UNCHANGED <<db, kernel, retries, reading, sweep, pc>>

-----------------------------------------------------------------------------
(* Run: pop hints until there are none, then wait for a case of select.    *)

Pop(v) ==
  /\ pc = "pop" /\ v \in pending
  /\ pending' = pending \ {v}
  /\ cur' = v /\ pc' = "load"
  /\ UNCHANGED <<db, kernel, retries, wake, hints, snap, kids, failed, sweep>>

PopEmpty ==
  /\ pc = "pop" /\ pending = {}
  /\ pc' = "select"
  /\ UNCHANGED <<db, kernel, queue, reading, sweep>>

Wake ==
  /\ pc = "select" /\ wake
  /\ wake' = FALSE /\ pc' = "pop"
  /\ UNCHANGED <<db, kernel, pending, retries, hints, reading, sweep>>

RetryTick(due) ==
  /\ pc = "select" /\ due \subseteq retries
  /\ pending' \in AddDue(pending, due)
  /\ pc' = "pop"
  /\ UNCHANGED <<db, kernel, retries, wake, hints, reading, sweep>>

Resync ==
  /\ pc = "select"
  /\ pc' = "page" /\ sweeping' = TRUE
  /\ UNCHANGED <<db, kernel, queue, reading, swept, wanted, todo>>

-----------------------------------------------------------------------------
(* Sweep: list every VPC row page by page, remove the namespaces that      *)
(* belong to none, reconcile every VPC listed.                             *)

(* ListVPCPage after the last ID listed, which is the greatest one.        *)
SweepPage ==
  LET rest == {v \in VPCs : Exists(v) /\ \A u \in wanted : u < v}
      page == {v \in rest : Cardinality({u \in rest : u < v}) < PageSize}
  IN  /\ pc = "page"
      /\ wanted' = wanted \cup page
      /\ pc' = IF page = {} THEN "list" ELSE "page"
      /\ UNCHANGED <<db, kernel, queue, reading, swept, sweeping, todo>>

(* A listing that skips a reserved name which is no namespace mount.       *)
SweepListTolerant ==
  /\ pc = "list"
  /\ todo' = ({v \in VPCs : ns[v] = "ns"} \cup stray) \ wanted
  /\ pc' = "orphans"
  /\ UNCHANGED <<db, kernel, queue, reading, swept, sweeping, wanted>>

(* ListVPCNames fails on a reserved name that is no namespace mount, and   *)
(* that error ends the daemon.                                             *)
SweepList ==
  /\ pc = "list"
  /\ IF \E v \in VPCs : ns[v] = "file"
     THEN Exit
     ELSE /\ todo' = ({v \in VPCs : ns[v] = "ns"} \cup stray) \ wanted
          /\ pc' = "orphans"
          /\ UNCHANGED <<db, kernel, queue, reading, swept, sweeping, wanted>>

SweepOrphan(n) ==
  /\ pc = "orphans" /\ n \in todo
  /\ todo' = todo \ {n}
  /\ stray' = stray \ {n}
  /\ ns' = [v \in VPCs |-> IF v = n THEN "absent" ELSE ns[v]]
  /\ gws' = [v \in VPCs |-> IF v = n THEN {} ELSE gws[v]]
  /\ UNCHANGED <<db, tampered, lost, queue, reading, swept, sweeping, wanted, pc>>

(* An orphan that cannot be removed ends the daemon.                       *)
SweepOrphanFails == pc = "orphans" /\ todo # {} /\ Exit

SweepOrphansDone ==
  /\ pc = "orphans" /\ todo = {}
  /\ todo' = wanted /\ pc' = "each"
  /\ UNCHANGED <<db, kernel, queue, reading, swept, sweeping, wanted>>

SweepEach(v) ==
  /\ pc = "each" /\ v \in todo /\ \A u \in todo : v <= u
  /\ todo' = todo \ {v}
  /\ cur' = v /\ pc' = "load"
  /\ UNCHANGED <<db, kernel, queue, snap, kids, failed, swept, sweeping, wanted>>

SweepDone ==
  /\ pc = "each" /\ todo = {}
  /\ wanted' = {} /\ sweeping' = FALSE
  /\ swept' = TRUE /\ pc' = "pop"
  /\ UNCHANGED <<db, kernel, queue, reading, todo>>

-----------------------------------------------------------------------------
(* reconcileLocked.                                                        *)

Return ==
  /\ pc' = IF sweeping THEN "each" ELSE "pop"
  /\ cur' = NoVPC /\ snap' = NoRow /\ kids' = NoKids /\ failed' = FALSE
  /\ UNCHANGED sweep

(* GetVPC finds nothing: clearRetry.                                       *)
LoadGone ==
  /\ pc = "load" /\ ~Exists(cur)
  /\ retries' = retries \ {cur}
  /\ Return
  /\ UNCHANGED <<db, kernel, pending, wake, hints>>

Load ==
  /\ pc = "load" /\ Exists(cur)
  /\ snap' = row[cur] /\ pc' = "children"
  /\ UNCHANGED <<db, kernel, queue, cur, kids, failed, sweep>>

(* ListSubnetsByVPC, a second read; a deleting VPC with subnets is fatal.  *)
LoadChildren ==
  /\ pc = "children"
  /\ IF snap.del /\ Children(cur) # {}
     THEN Exit
     ELSE /\ kids' = [s \in Subnets |-> IF VPCOf[s] = cur THEN row[s] ELSE NoRow]
          /\ pc' = "effect"
          /\ UNCHANGED <<db, kernel, queue, cur, snap, failed, sweep>>

Effect ==
  /\ pc = "effect" /\ pc' = "record"
  /\ UNCHANGED <<db, queue, cur, snap, kids, sweep, stray>>

(* netns.Delete, netns.Ensure and the router's gateways succeed.  Both     *)
(* refuse a mount point that is a plain file.                              *)
EffectSucceeds ==
  /\ Effect
  /\ ns[cur] # "file"
  /\ failed' = FALSE
  /\ ns' = [ns EXCEPT ![cur] = IF snap.del THEN "absent" ELSE "ns"]
  /\ gws' = [gws EXCEPT ![cur] = IF snap.del THEN {} ELSE Gateways(kids)]
  /\ tampered' = tampered \ {cur} /\ lost' = lost \ {cur}

EffectRefused ==
  /\ Effect
  /\ ns[cur] = "file"
  /\ failed' = TRUE
  /\ UNCHANGED <<ns, gws, tampered, lost>>

(* DeleteVPC fails: nothing happened, or the namespace is unmounted and    *)
(* its mount point could not be removed.                                   *)
DeleteFails ==
  /\ Effect
  /\ snap.del /\ ns[cur] # "file"
  /\ failed' = TRUE
  /\ \/ UNCHANGED <<ns, gws>>
     \/ /\ ns[cur] = "ns"
        /\ ns' = [ns EXCEPT ![cur] = "file"]
        /\ gws' = [gws EXCEPT ![cur] = {}]
  /\ UNCHANGED <<tampered, lost>>

(* EnsureVPC fails before it changed anything, or between making the mount *)
(* point and mounting on it (and the file could not be removed), or while  *)
(* it removes stale gateways and then adds missing ones.                   *)
EnsureFails ==
  /\ Effect
  /\ ~snap.del /\ ns[cur] # "file"
  /\ failed' = TRUE
  /\ \/ UNCHANGED <<ns, gws>>
     \/ /\ ns[cur] = "absent"
        /\ ns' = [ns EXCEPT ![cur] = "file"]
        /\ UNCHANGED gws
     \/ LET old == gws[cur]
            new == Gateways(kids)
        IN  \E removed \in SUBSET (old \ new), added \in SUBSET (new \ old) :
              /\ added # {} => removed = old \ new
              /\ ns' = [ns EXCEPT ![cur] = "ns"]
              /\ gws' = [gws EXCEPT ![cur] = (old \ removed) \cup added]
  /\ UNCHANGED <<tampered, lost>>

(* The checks RecordTopology makes before it writes anything.              *)
SameDesired(current, applied) ==
  /\ (current.state = "none") = (applied.state = "none")
  /\ current.gen = applied.gen /\ current.del = applied.del

(* A staleness check of the VPC row alone, without its children.           *)
StaleVPCOnly == ~SameDesired(row[cur], snap)

Stale ==
  \/ ~SameDesired(row[cur], snap)
  \/ \E s \in Subnets : VPCOf[s] = cur /\ ~SameDesired(row[s], kids[s])

(* recordVPCStatus, recordSubnetStatus.                                    *)
Observed(r) ==
  [state |-> IF failed THEN "failed" ELSE "available", gen |-> r.gen,
   obs |-> IF failed THEN r.obs ELSE r.gen, del |-> r.del]

RecordStale ==
  /\ pc = "record" /\ Stale
  /\ pending' = AddPending(pending, cur)
  /\ wake' = TRUE
  /\ Return
  /\ UNCHANGED <<db, kernel, retries, hints>>

(* RecordTopology that deletes rows whatever became of the teardown.       *)
RecordIgnoringFailure ==
  /\ pc = "record" /\ ~Stale
  /\ row' = [x \in IDs |->
               IF x # cur /\ x \notin Children(cur) THEN row[x]
               ELSE IF row[x].del THEN NoRow
               ELSE Observed(row[x])]
  /\ retries' = IF failed THEN AddRetry(retries, cur) ELSE retries \ {cur}
  /\ Return
  /\ UNCHANGED <<used, occupied, kernel, pending, wake, hints>>

RecordTopology ==
  /\ pc = "record" /\ ~Stale
  /\ row' = [x \in IDs |->
               IF x # cur /\ x \notin Children(cur) THEN row[x]
               ELSE IF row[x].del /\ ~failed THEN NoRow
               ELSE Observed(row[x])]
  /\ retries' = IF failed THEN AddRetry(retries, cur) ELSE retries \ {cur}
  /\ Return
  /\ UNCHANGED <<used, occupied, kernel, pending, wake, hints>>

-----------------------------------------------------------------------------
(* Drift: an operator removes a namespace, or makes one of a Nephos name.  *)

RemovedByHand(v) ==
  /\ pc # "down" /\ ns[v] = "ns"
  /\ ns' = [ns EXCEPT ![v] = "absent"]
  /\ gws' = [gws EXCEPT ![v] = {}]
  /\ tampered' = tampered \cup {v}
  /\ UNCHANGED <<db, stray, lost, queue, reading, sweep, pc>>

MadeByHand(n) ==
  /\ pc # "down" /\ n \notin stray
  /\ stray' = stray \cup {n}
  /\ UNCHANGED <<db, ns, gws, tampered, lost, queue, reading, sweep, pc>>

-----------------------------------------------------------------------------
Service ==
  \/ \E v \in VPCs : CreateVPC(v) \/ DeleteVPC(v) \/ Enqueue(v)
  \/ \E s \in Subnets : \/ CreateSubnet(s) \/ DeleteSubnet(s)
                        \/ RunInstance(s) \/ LastInstanceGone(s)

EffectFails == DeleteFails \/ EnsureFails

Drift == (\E v \in VPCs : RemovedByHand(v)) \/ (\E n \in Strays : MadeByHand(n))

(* Everything that goes wrong of itself.                                   *)
Fault == Crash \/ EffectFails \/ SweepOrphanFails \/ Drift

Reconcile ==
  \/ LoadGone \/ Load \/ LoadChildren
  \/ EffectSucceeds \/ EffectRefused
  \/ RecordStale \/ RecordTopology

Sweep ==
  \/ SweepPage \/ SweepList \/ SweepOrphansDone \/ SweepDone
  \/ \E n \in VPCs \cup Strays : SweepOrphan(n)
  \/ \E v \in VPCs : SweepEach(v)

Worker == Reconcile \/ Sweep \/ PopEmpty \/ \E v \in VPCs : Pop(v)

Select == Wake \/ Resync \/ \E due \in SUBSET VPCs : RetryTick(due)

Next == Start \/ Service \/ Worker \/ Select \/ Fault

(* Safety needs no fairness.  For convergence: goroutines keep running; a  *)
(* resync tick waits in its channel until select takes it, and select      *)
(* chooses at random; someone runs `nephos up` after an exit.              *)
Safety == Init /\ [][Next]_vars
Fairness == WF_vars(Worker) /\ SF_vars(Resync) /\ WF_vars(Start)
Spec == Safety /\ Fairness

-----------------------------------------------------------------------------
(* Properties.                                                             *)

(* What is in the kernel is backed by rows: a VPC row is deleted only when *)
(* nothing is left at its mount point, and a subnet row only when its      *)
(* gateway is gone from the router (or serves a later subnet with the same *)
(* block).  RecordTopology deletes rows after an engine call that may have *)
(* been made for an older snapshot; this says it never does so too early,  *)
(* across failures, restarts and concurrent requests.                      *)
KernelBackedByRows ==
  \A v \in VPCs :
    /\ ns[v] # "absent" => Exists(v)
    /\ \A b \in gws[v] : \E s \in Children(v) : Block[s] = b

(* A VPC or subnet that the instance controller and the hook take for      *)
(* ready (available, observed = generation, no deletion intent) really has *)
(* its namespace and its gateway, unless a restart or an operator took the *)
(* namespace and the engine has not succeeded since.  This is what the     *)
(* staleness check of RecordTopology and the listing of all rows before    *)
(* Sweep's orphan removal are for.                                         *)
ConvergedIsApplied ==
  \A v \in VPCs \ (lost \cup tampered) :
    Converged(v) =>
      /\ ns[v] = "ns"
      /\ \A s \in Children(v) : Converged(s) => Block[s] \in gws[v]

(* The startup Sweep of a restarted appliance leaves no VPC that says it   *)
(* is ready and is not: the engine succeeded for it, or its failure is     *)
(* recorded.  ("Individual failures are recorded on those resources.")     *)
StartupFailuresRecorded == swept => \A v \in lost \ tampered : ~Converged(v)

(* Desired state never contradicts itself: a deleting VPC has no subnets,  *)
(* a subnet's VPC exists, and a subnet with instances exists and is not    *)
(* being deleted.  The checks are made by different requests in different  *)
(* transactions; reconcilers delete rows in between.                       *)
DependencyOrder ==
  /\ \A s \in Subnets : Exists(s) => Exists(VPCOf[s]) /\ ~row[VPCOf[s]].del
  /\ \A s \in occupied : Exists(s) /\ ~row[s].del

(* The daemon never ends with "deleting VPC still has subnets": although   *)
(* the VPC and its subnets are read in two statements, no request can slip *)
(* a subnet in between once the deletion intent was read.                  *)
NeverFatalOnChildren == pc = "children" /\ snap.del => Children(cur) = {}

(* The state requests ask for, with nothing left over.                     *)
Settled ==
  /\ \A x \in IDs : Exists(x) => Converged(x)
  /\ \A v \in VPCs : /\ ns[v] = IF Exists(v) THEN "ns" ELSE "absent"
                     /\ gws[v] = {Block[s] : s \in Children(v)}
  /\ stray = {}

(* Once faults stop, everything requested is eventually in place, every    *)
(* delete complete, drift repaired and every stray namespace removed: even *)
(* if hints were lost in a restart or dropped by a full queue, and even if *)
(* a failed engine call left a mount point that only a restart can clear.  *)
EventuallySettled == <>[][~Fault]_vars => <>[]Settled

=============================================================================
