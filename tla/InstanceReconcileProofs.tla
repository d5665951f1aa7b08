----------------------- MODULE InstanceReconcileProofs ----------------------
(***************************************************************************)
(* The inductive invariant of InstanceControl, and that the steps which    *)
(* leave containers and links alone preserve it (and an exit, which takes  *)
(* them all); InstanceControlProofs has the other steps and the theorems.  *)
(*                                                                         *)
(* The strengthening says that a container that was ever started is the    *)
(* one recorded in its instance's row (Bound), what the reconciler may     *)
(* still rely on at each of its steps (Control), and therefore that the    *)
(* container is gone for good once terminate has passed its Delete.        *)
(***************************************************************************)
EXTENDS InstanceControl, QueueProofs

(* Where a container is that was started.                                  *)
WasStarted == Hooked \cup Reported \cup {"exited"}

(* A row's generation says whether it was marked; absent rows are reset.   *)
RowShape ==
  \A i \in Instances :
    /\ Exists(i) =>
         /\ i \in used /\ row[i].gen = IF row[i].del THEN 2 ELSE 1
         /\ row[i].del => row[i].state \in {"shutting-down", "failed"}
    /\ ~Exists(i) => row[i] = NoRow

(* A container that was started is the one its instance's row names.       *)
Bound ==
  \A i \in Instances :
    /\ ctr[i].st # "none" => ctr[i].id # None
    /\ ctr[i].st \in WasStarted => Exists(i) /\ row[i].rid = ctr[i].id

(* A link and a lease belong to an instance that has a row.                *)
Links == \A i \in Instances : eni[i] # "none" => Exists(i)

Leases == \A i, j \in Instances : i # j /\ Exists(i) /\ Exists(j) => lease[i] # lease[j]

DataInv == RowShape /\ Bound /\ Links /\ Leases

(* What the reconciler relies on: a launch acts for a row it read unmarked,*)
(* a start for the runtime ID it has recorded, and a termination passes    *)
(* Delete and DeleteENI only with the container and then the link gone.    *)
Control ==
  /\ pc \notin {"down", "page", "each", "pop"} => cur \in Instances
  /\ pc \in {"ready", "inspect", "create", "bind", "reload", "start", "starting",
             "check", "record"} => ~snap.del
  /\ pc \in {"reload", "start"} => Exists(cur) /\ row[cur].rid = made
  /\ pc \in {"delete", "unplug", "finish"} =>
       Exists(cur) /\ row[cur].del /\ snap.rid = row[cur].rid
  /\ pc \in {"unplug", "finish"} => ctr[cur].st \notin WasStarted
  /\ pc = "finish" => eni[cur] = "none"

Inv == TypeOK /\ DataInv /\ Control

-----------------------------------------------------------------------------
(* The bounds in TypeOK, in the form the lemmas of QueueProofs speak of.   *)
LEMMA TypeBounds ==
  TypeOK => /\ IsFiniteSet(Instances)
            /\ Bounded(pending, Instances) /\ Bounded(retries, Instances)
BY InstanceAssumption DEF TypeOK, Bounded

(* The initial rows and containers.                                        *)
LEMMA Constants ==
  /\ NoRow \in Rows /\ NewRow \in Rows /\ NoContainer \in Containers
  /\ None \notin Instances /\ None \in 0..MaxContainers
BY InstanceAssumption DEF NoRow, NewRow, NoContainer, Rows, Containers, None, Statuses

(* The data invariant is kept by a step that leaves rows and world alone.  *)
LEMMA DataUnchanged == DataInv /\ UNCHANGED <<row, used, lease, world>> => DataInv'
<1> SUFFICES ASSUME DataInv, UNCHANGED <<row, used, lease, world>> PROVE DataInv'
  OBVIOUS
<1> USE DEF DataInv, world, Exists
<1>1. RowShape'
  BY DEF RowShape
<1>2. Bound'
  BY DEF Bound
<1>3. Links' /\ Leases'
  BY DEF Links, Leases
<1> QED
  BY <1>1, <1>2, <1>3

(* The initial state.                                                      *)
LEMMA InvInit == Init => Inv
<1> SUFFICES ASSUME Init PROVE Inv
  OBVIOUS
<1> USE Constants DEF Init
<1>1. TypeOK
  <2>1. Cardinality({}) <= QueueLimit
    BY EmptyBounded DEF Bounded
  <2>2. Cardinality(pending) <= QueueLimit /\ Cardinality(retries) <= QueueLimit
    BY <2>1
  <2> QED
    BY Zenon, <2>2 DEF TypeOK
<1>2. DataInv
  BY DEF DataInv, RowShape, Bound, Links, Leases, Exists, NoRow, NoContainer, WasStarted, Hooked, Reported
<1>3. Control
  BY DEF Control
<1> QED
  BY <1>1, <1>2, <1>3 DEF Inv

(* An exit stops what runs and takes every link.                           *)
LEMMA ExitStep == Inv /\ Exit => Inv'
<1> SUFFICES ASSUME Inv, Exit PROVE Inv'
  OBVIOUS
<1> USE DEF Inv, db
<1>a. PICK lost \in SUBSET {i \in Instances : ctr[i].st \in Reported} :
        ctr' = [i \in Instances |->
                  Changed(ctr[i], "no",
                          IF i \in lost THEN "lost"
                          ELSE IF ctr[i].st \in Hooked \cup Reported THEN "exited"
                          ELSE ctr[i].st)]
  BY Zenon DEF Exit
<1>0. ASSUME NEW i \in Instances
      PROVE  /\ ctr'[i] \in Containers /\ ctr'[i].id = ctr[i].id
             /\ ctr'[i].st \in WasStarted => ctr[i].st \in WasStarted
             /\ ctr'[i].st = "none" <=> ctr[i].st = "none"
  <2> DEFINE st == IF i \in lost THEN "lost"
                   ELSE IF ctr[i].st \in Hooked \cup Reported THEN "exited"
                   ELSE ctr[i].st
  <2>1. ctr[i] \in Containers
    BY DEF TypeOK
  <2>2. ctr[i].st \in Statuses
    BY <2>1 DEF Containers
  <2>3. st \in Statuses
    BY <2>2 DEF Statuses, Hooked, Reported
  <2>4. /\ st \in WasStarted => ctr[i].st \in WasStarted
        /\ st = "none" <=> ctr[i].st = "none"
    BY <2>2 DEF Statuses, WasStarted, Hooked, Reported
  <2>5. ctr'[i] = Changed(ctr[i], "no", st)
    BY <1>a
  <2> HIDE DEF st
  <2> QED
    BY <2>1, <2>3, <2>4, <2>5 DEF Containers, Changed
<1> USE DEF Exit
<1>1. TypeOK'
  <2>1. Cardinality({}) <= QueueLimit
    BY EmptyBounded DEF Bounded
  <2>2. Cardinality(pending') <= QueueLimit /\ Cardinality(retries') <= QueueLimit
    BY <2>1
  <2>3. ctr' \in [Instances -> Containers]
    BY <1>a, <1>0
  <2> QED
    BY Zenon, <2>2, <2>3, Constants DEF TypeOK
<1>2. DataInv'
  <2>1. RowShape' /\ Leases'
    BY DEF DataInv, RowShape, Leases, Exists
  <2>2. Bound'
    BY <1>0 DEF DataInv, Bound, Exists, WasStarted, Hooked, Reported
  <2>3. Links'
    BY DEF Links
  <2> QED
    BY <2>1, <2>2, <2>3 DEF DataInv
<1>3. Control'
  BY DEF Control
<1> QED
  BY <1>1, <1>2, <1>3

-----------------------------------------------------------------------------
(* Run and Sweep: the queue, the page and pc change.                       *)
LEMMA LoopStep ==
  Inv /\ (Start \/ Resync \/ SweepPageDone \/ SweepDone \/ NetworkConverges \/ NetworkFails)
    => Inv'
<1> SUFFICES ASSUME Inv, Start \/ Resync \/ SweepPageDone \/ SweepDone
                         \/ NetworkConverges \/ NetworkFails
             PROVE  Inv'
  OBVIOUS
<1> USE DEF Start, Resync, SweepPageDone, SweepDone, NetworkConverges, NetworkFails,
            db, queue, sweep
<1>1. TypeOK'
  BY Zenon DEF Inv, TypeOK, world
<1>2. DataInv'
  BY DataUnchanged DEF Inv
<1>3. Control'
  BY DEF Inv, Control, Exists, world
<1> QED
  BY <1>1, <1>2, <1>3 DEF Inv

(* Sweep reads a page.                                                     *)
LEMMA SweepPageStep == Inv /\ SweepPage => Inv'
<1> SUFFICES ASSUME Inv, SweepPage PROVE Inv'
  OBVIOUS
<1> USE DEF db, queue
<1>1. PICK page \in SUBSET Instances :
        /\ todo' = page /\ after' = page /\ pc' = "each"
        /\ UNCHANGED <<db, world, queue, sweeping, cur, snap, made>>
  BY Zenon DEF SweepPage
<1>2. TypeOK'
  BY <1>1 DEF Inv, TypeOK, world
<1>3. DataInv'
  BY <1>1, DataUnchanged DEF Inv
<1>4. Control'
  BY <1>1 DEF Control
<1> QED
  BY <1>2, <1>3, <1>4 DEF Inv

(* An instance is taken from the queue or from the page.                   *)
LEMMA TakeStep == ASSUME NEW i \in Instances, Inv, Pop(i) \/ SweepEach(i) PROVE Inv'
<1> USE DEF Pop, SweepEach, db, sweep, queue
<1>1. Bounded(pending', Instances)
  <2>1. pending' = pending \/ pending' = pending \ {i}
    OBVIOUS
  <2> QED
    BY Zenon, <2>1, TypeBounds, RemoveBounded DEF Inv
<1>2. TypeOK'
  BY <1>1 DEF Inv, TypeOK, world, Bounded
<1>3. DataInv'
  BY Zenon, DataUnchanged DEF Inv
<1>4. Control'
  BY DEF Inv, Control
<1> QED
  BY <1>2, <1>3, <1>4 DEF Inv

(* Due retries are offered to the queue.                                   *)
LEMMA RetryTickStep == ASSUME NEW due \in SUBSET Instances, Inv, RetryTick(due) PROVE Inv'
<1> USE DEF RetryTick, db, sweep, queue
<1>1. Bounded(pending', Instances)
  BY TypeBounds, AddDueBounded DEF Inv
<1>2. TypeOK'
  BY <1>1 DEF Inv, TypeOK, world, Bounded
<1>3. DataInv'
  BY Zenon, DataUnchanged DEF Inv
<1>4. Control'
  BY DEF Inv, Control
<1> QED
  BY <1>2, <1>3, <1>4 DEF Inv

-----------------------------------------------------------------------------
(* reconcileLocked.                                                        *)

(* Its bookkeeping keeps both maps within the limit.                       *)
LEMMA QueueStep ==
  ASSUME TypeOK, cur \in Instances,
         \/ ClearRetry \/ Requeue \/ UNCHANGED queue
         \/ retries' = AddRetry(retries, cur) /\ UNCHANGED pending
  PROVE  Bounded(pending', Instances) /\ Bounded(retries', Instances)
<1>1. ClearRetry => Bounded(pending', Instances) /\ Bounded(retries', Instances)
  BY Zenon, TypeBounds, RemoveBounded DEF ClearRetry
<1>2. Requeue => Bounded(pending', Instances) /\ Bounded(retries', Instances)
  BY TypeBounds, AddPendingBounded DEF Requeue
<1>3. UNCHANGED queue => Bounded(pending', Instances) /\ Bounded(retries', Instances)
  BY TypeBounds DEF queue
<1>4. retries' = AddRetry(retries, cur) /\ UNCHANGED pending
        => Bounded(pending', Instances) /\ Bounded(retries', Instances)
  BY TypeBounds, AddRetryBounded
<1> QED
  BY <1>1, <1>2, <1>3, <1>4

(* A reconcile ends.                                                       *)
LEMMA ReturnStep ==
  ASSUME TypeOK, cur \in Instances, Return, DataInv',
         \/ ClearRetry \/ Requeue \/ UNCHANGED queue
         \/ retries' = AddRetry(retries, cur) /\ UNCHANGED pending,
         UNCHANGED <<used, lease, netReady>>,
         row' \in [Instances -> Rows], ctr' \in [Instances -> Containers],
         eni' \in [Instances -> {"none", "live", "stale"}]
  PROVE  Inv'
<1>1. Bounded(pending', Instances) /\ Bounded(retries', Instances)
  BY Zenon, QueueStep
<1>2. TypeOK'
  BY <1>1, Constants DEF TypeOK, Return, sweep, Bounded
<1>3. Control'
  BY DEF Control, Return
<1> QED
  BY <1>2, <1>3 DEF Inv

(* It ends with nothing done.                                              *)
LEMMA QuietReturnStep ==
  Inv /\ (LoadGone \/ NotReady \/ InspectRunning \/ (Reload /\ row[cur].del)) => Inv'
<1> SUFFICES ASSUME Inv, LoadGone \/ NotReady \/ InspectRunning \/ (Reload /\ row[cur].del)
             PROVE  Inv'
  OBVIOUS
<1>1. cur \in Instances
  BY DEF Inv, Control, LoadGone, NotReady, InspectRunning, Reload
<1>2. Return /\ (ClearRetry \/ Requeue \/ UNCHANGED queue) /\ UNCHANGED <<db, world>>
  BY DEF LoadGone, NotReady, InspectRunning, Reload
<1>3. DataInv'
  BY <1>2, DataUnchanged DEF Inv, db
<1> QED
  BY <1>1, <1>2, <1>3, ReturnStep DEF Inv, TypeOK, db, world

(* It goes on with nothing done.                                           *)
LEMMA QuietStep ==
  Inv /\ \/ Load \/ Ready \/ InspectStopped \/ InspectFails \/ CreateFound
         \/ (Reload /\ ~row[cur].del) \/ StartMissing \/ Started \/ StartFails \/ Check
         \/ DeleteENIFails
    => Inv'
<1> SUFFICES ASSUME Inv, \/ Load \/ Ready \/ InspectStopped \/ InspectFails \/ CreateFound
                         \/ (Reload /\ ~row[cur].del) \/ StartMissing \/ Started
                         \/ StartFails \/ Check \/ DeleteENIFails
             PROVE  Inv'
  OBVIOUS
<1>1. cur \in Instances
  BY DEF Inv, Control, Load, Ready, InspectStopped, InspectFails, CreateFound, Reload,
         StartMissing, Started, StartFails, Check, DeleteENIFails
<1>2. UNCHANGED <<db, world, queue, sweep, cur>>
  BY DEF Load, Ready, InspectStopped, InspectFails, CreateFound, Reload,
         StartMissing, Started, StartFails, Check, DeleteENIFails, Goto
<1>3. snap' \in {snap, row[cur]} /\ made' \in {made, ctr[cur].id}
  BY DEF Load, Ready, InspectStopped, InspectFails, CreateFound, Reload,
         StartMissing, Started, StartFails, Check, DeleteENIFails, Goto
<1>4. TypeOK'
  <2>1. row[cur] \in Rows /\ ctr[cur].id \in 0..MaxContainers
    BY <1>1 DEF Inv, TypeOK, Containers
  <2>2. snap' \in Rows /\ made' \in 0..MaxContainers
    BY <1>3, <2>1 DEF Inv, TypeOK
  <2>3. pc' \in {"delete", "ready", "inspect", "create", "fail", "bind", "start", "check",
                 "record"}
    BY DEF Load, Ready, InspectStopped, InspectFails, CreateFound, Reload,
           StartMissing, Started, StartFails, Check, DeleteENIFails, Goto
  <2> QED
    BY <1>2, <2>2, <2>3 DEF Inv, TypeOK, db, world, queue, sweep
<1>5. DataInv'
  BY <1>2, DataUnchanged DEF Inv, db
<1>6. Control'
  <2>1. CASE Load
    BY <1>1, <2>1 DEF Inv, Control, Load, Exists, db
  <2>2. CASE Reload /\ ~row[cur].del
    BY <1>1, <2>2 DEF Inv, Control, Reload, Exists, db
  <2>3. CASE \/ Ready \/ InspectStopped \/ InspectFails \/ CreateFound \/ StartMissing
             \/ Started \/ StartFails \/ Check \/ DeleteENIFails
    BY <1>1, <2>3 DEF Inv, Control, Ready, InspectStopped, InspectFails, CreateFound,
       StartMissing, Started, StartFails, Check, DeleteENIFails, Goto
  <2> QED
    BY <2>1, <2>2, <2>3
<1> QED
  BY <1>4, <1>5, <1>6 DEF Inv

-----------------------------------------------------------------------------
(* Steps that write a row.                                                 *)

(* A row written in place of an instance's row.                            *)
LEMMA RowStep ==
  ASSUME TypeOK, DataInv, NEW i \in Instances, NEW r \in Rows,
         row' = [row EXCEPT ![i] = r], UNCHANGED <<used, lease, world>>, Exists(i),
         r.state # "none" =>
           /\ r.gen = IF r.del THEN 2 ELSE 1
           /\ r.del => r.state \in {"shutting-down", "failed"}
           /\ ctr[i].st \in WasStarted => r.rid = ctr[i].id,
         r.state = "none" => r = NoRow /\ ctr[i].st \notin WasStarted /\ eni[i] = "none"
  PROVE  DataInv' /\ row' \in [Instances -> Rows]
<1>1. \A j \in Instances : row'[j] = IF j = i THEN r ELSE row[j]
  BY DEF TypeOK
<1>2. \A j \in Instances : Exists(j)' => Exists(j)
  BY <1>1 DEF Exists
<1>3. RowShape'
  BY <1>1, <1>2 DEF DataInv, RowShape, Exists
<1>4. Bound'
  BY <1>1 DEF DataInv, Bound, Exists, world
<1>5. Links'
  BY <1>1 DEF DataInv, Links, Exists, world
<1>6. Leases'
  BY <1>2 DEF DataInv, Leases
<1>7. row' \in [Instances -> Rows]
  BY DEF TypeOK
<1> QED
  BY <1>3, <1>4, <1>5, <1>6, <1>7 DEF DataInv

(* What the other forms of a row are made of.                              *)
LEMMA RowForms ==
  ASSUME NEW r \in Rows
  PROVE  /\ \A s \in {"pending", "running", "failed", "shutting-down"}, o \in 0..1 :
              /\ Observed(r, s, o) \in Rows /\ Observed(r, s, o).state = s
              /\ Observed(r, s, o).gen = r.gen /\ Observed(r, s, o).del = r.del
              /\ Observed(r, s, o).rid = r.rid
         /\ \A id \in 0..MaxContainers :
              /\ BoundTo(r, id) \in Rows /\ BoundTo(r, id).state = r.state
              /\ BoundTo(r, id).gen = r.gen /\ BoundTo(r, id).del = r.del
              /\ BoundTo(r, id).rid = id
         /\ r.gen = 1 =>
              /\ MarkTerminating(r) \in Rows /\ MarkTerminating(r).state = "shutting-down"
              /\ MarkTerminating(r).gen = 2 /\ MarkTerminating(r).del
              /\ MarkTerminating(r).rid = r.rid
BY DEF Rows, Observed, BoundTo, MarkTerminating

(* Terminate, while the reconciler is anywhere.                            *)
LEMMA TerminateStep == ASSUME NEW i \in Instances, Inv, Terminate(i) PROVE Inv'
<1>1. row[i] \in Rows /\ Exists(i) /\ ~row[i].del /\ row[i].gen = 1
  BY DEF Terminate, Inv, TypeOK, DataInv, RowShape
<1>2. DataInv' /\ row' \in [Instances -> Rows]
  <2>1. ctr[i].st \in WasStarted => row[i].rid = ctr[i].id
    BY DEF Inv, DataInv, Bound
  <2> DEFINE r == MarkTerminating(row[i])
  <2>2. r \in Rows /\ r.state = "shutting-down" /\ r.gen = 2 /\ r.del /\ r.rid = row[i].rid
    BY <1>1, RowForms
  <2>3. row' = [row EXCEPT ![i] = r] /\ UNCHANGED <<used, lease, world>>
    BY DEF Terminate, Request
  <2> HIDE DEF r
  <2> QED
    BY Zenon, <1>1, <2>1, <2>2, <2>3, RowStep DEF Inv
<1>3. Bounded(pending', Instances)
  BY TypeBounds, AddPendingBounded DEF Inv, Terminate
<1>4. TypeOK'
  BY <1>2, <1>3 DEF Inv, TypeOK, Terminate, Request, world, sweep, Bounded
<1>5. \A j \in Instances : /\ Exists(j) => Exists(j)'
                           /\ row'[j].rid = row[j].rid
                           /\ row[j].del => row'[j].del
  BY <1>1, RowForms DEF Inv, TypeOK, Terminate, Exists
<1>6. Control'
  BY <1>5 DEF Inv, Control, Terminate, Request, world
<1> QED
  BY <1>2, <1>4, <1>6 DEF Inv

(* Run: the address it picks is leased to nobody.                          *)
LEMMA RunInstanceStep == ASSUME NEW i \in Instances, Inv, RunInstance(i) PROVE Inv'
<1> DEFINE a == NextPrivateIP(Leased)
<1>1. a \in Addresses \ Leased
  <2>1. Addresses \ Leased \in SUBSET Nat /\ Addresses \ Leased # {}
    BY Zenon, InstanceAssumption DEF RunInstance
  <2>2. \E m \in Addresses \ Leased : \A y \in Addresses \ Leased : m <= y
    BY Zenon, <2>1, LeastNat
  <2> QED
    BY Zenon, <2>2 DEF NextPrivateIP
<1> HIDE DEF a
<1>2. row' = [row EXCEPT ![i] = NewRow] /\ lease' = [lease EXCEPT ![i] = a]
      /\ used' = used \cup {i} /\ pending' = AddPending(pending, i)
      /\ UNCHANGED <<netReady, retries, world, sweep, cur, snap, made, pc>>
  BY DEF RunInstance, Request, a
<1>3. ~Exists(i)
  BY DEF RunInstance, Inv, DataInv, RowShape
<1>4. \A j \in Instances : /\ row'[j] = IF j = i THEN NewRow ELSE row[j]
                           /\ lease'[j] = IF j = i THEN a ELSE lease[j]
  BY <1>2 DEF Inv, TypeOK
<1>5. TypeOK'
  <2>1. Bounded(pending', Instances)
    BY <1>2, TypeBounds, AddPendingBounded DEF Inv
  <2> QED
    BY <1>1, <1>2, <2>1, Constants DEF Inv, TypeOK, world, sweep, Bounded
<1>6. RowShape'
  BY <1>2, <1>4 DEF Inv, DataInv, RowShape, Exists, NewRow
<1>7. Bound' /\ Links'
  BY <1>2, <1>3, <1>4 DEF Inv, DataInv, Bound, Links, Exists, NewRow, world
<1>8. Leases'
  <2>1. \A j \in Instances : Exists(j) => lease[j] # a
    BY <1>1 DEF Leased
  <2> QED
    BY <1>4, <2>1 DEF Inv, DataInv, Leases, Exists
<1>9. Control'
  BY <1>2, <1>3, <1>4 DEF Inv, Control, Exists, world
<1> QED
  BY <1>5, <1>6, <1>7, <1>8, <1>9 DEF Inv, DataInv

(* RecordRuntimeID, and RetainTerminatingRuntimeID when that was refused:  *)
(* a row without a runtime ID has no container that was started.           *)
LEMMA BindStep == Inv /\ (RecordRuntimeID \/ RetainTerminatingRuntimeID) => Inv'
<1> SUFFICES ASSUME Inv, RecordRuntimeID \/ RetainTerminatingRuntimeID PROVE Inv'
  OBVIOUS
<1> DEFINE r == BoundTo(row[cur], made)
<1>1. cur \in Instances /\ row[cur] \in Rows /\ made \in 0..MaxContainers
  BY DEF Inv, TypeOK, Control, RecordRuntimeID, RetainTerminatingRuntimeID
<1>2. r \in Rows /\ r.state = row[cur].state /\ r.gen = row[cur].gen /\ r.del = row[cur].del
      /\ r.rid = made
  BY <1>1, RowForms
<1>3. \/ row' = row
      \/ /\ row' = [row EXCEPT ![cur] = r]
         /\ Exists(cur) /\ row[cur].rid \in {None, made}
  BY <1>1 DEF RecordRuntimeID, RetainTerminatingRuntimeID, Inv, DataInv, RowShape, NoRow
<1>4. UNCHANGED <<used, lease, netReady, world, queue, sweep, cur, snap, made>>
  BY DEF RecordRuntimeID, RetainTerminatingRuntimeID
<1>5. pc' \in {"reload", "retain", "undo", "discard"}
      /\ (pc' = "reload" => Exists(cur) /\ row' = [row EXCEPT ![cur] = r])
  BY DEF RecordRuntimeID, RetainTerminatingRuntimeID
<1> HIDE DEF r
<1>6. DataInv' /\ row' \in [Instances -> Rows]
  <2>1. CASE row' = row
    BY <1>4, <2>1, DataUnchanged DEF Inv, TypeOK
  <2>2. CASE row' # row
    <3>1. row' = [row EXCEPT ![cur] = r] /\ Exists(cur) /\ row[cur].rid \in {None, made}
      BY <1>3, <2>2
    <3>2. ctr[cur].st \in WasStarted => r.rid = ctr[cur].id
      BY <1>1, <1>2, <3>1 DEF Inv, DataInv, Bound, WasStarted, Hooked, Reported
    <3>3. r.gen = (IF r.del THEN 2 ELSE 1) /\ (r.del => r.state \in {"shutting-down", "failed"})
          /\ r.state # "none"
      BY <1>1, <1>2, <3>1 DEF Inv, DataInv, RowShape, Exists
    <3> QED
      BY Zenon, <1>1, <1>2, <1>4, <3>1, <3>2, <3>3, RowStep DEF Inv
  <2> QED
    BY <2>1, <2>2
<1>7. TypeOK'
  BY <1>4, <1>5, <1>6 DEF Inv, TypeOK, world, queue, sweep
<1>8. Control'
  <2>1. ASSUME pc' = "reload" PROVE Exists(cur)' /\ row'[cur].rid = made
    <3>1. row'[cur] = r
      BY <1>1, <1>5, <2>1 DEF Inv, TypeOK
    <3> QED
      BY <1>2, <1>4, <1>5, <2>1, <3>1 DEF Exists
  <2>2. pc' = "reload" => ~snap.del
    BY DEF Inv, Control, RecordRuntimeID, RetainTerminatingRuntimeID
  <2> QED
    BY <1>1, <1>4, <1>5, <2>1, <2>2 DEF Control
<1> QED
  BY <1>6, <1>7, <1>8 DEF Inv

(* RecordInstance: the row is still the one that was acted on, or nothing  *)
(* is recorded.                                                            *)
LEMMA RecordStep == Inv /\ (RecordRunning \/ Fail) => Inv'
<1> SUFFICES ASSUME Inv, RecordRunning \/ Fail PROVE Inv'
  OBVIOUS
<1>1. cur \in Instances /\ row[cur] \in Rows
  BY DEF Inv, TypeOK, Control, RecordRunning, Fail
<1>2. PICK s \in {"running", "failed"}, o \in 0..1 :
        /\ row' \in {row, [row EXCEPT ![cur] = Observed(row[cur], s, o)]}
        /\ row' # row => Exists(cur) /\ (row[cur].del => s = "failed")
  <2>1. CASE RecordRunning
    <3>1. Same => snap.gen = 1 /\ ~row[cur].del /\ Exists(cur)
      BY <1>1, <2>1 DEF RecordRunning, Same, Inv, Control, DataInv, RowShape
    <3> QED
      BY <2>1, <3>1 DEF RecordRunning
  <2>2. CASE Fail
    <3>1. row[cur].obs \in 0..1
      BY <1>1 DEF Rows
    <3> QED
      BY <2>2, <3>1 DEF Fail, Same
  <2> QED
    BY <2>1, <2>2
<1> DEFINE r == Observed(row[cur], s, o)
<1>3. r \in Rows /\ r.state = s /\ r.gen = row[cur].gen /\ r.del = row[cur].del
      /\ r.rid = row[cur].rid
  BY <1>1, RowForms
<1>4. /\ Return /\ UNCHANGED <<used, lease, netReady, world>>
      /\ \/ ClearRetry \/ Requeue
         \/ retries' = AddRetry(retries, cur) /\ UNCHANGED pending
  BY DEF RecordRunning, Fail
<1>5. DataInv' /\ row' \in [Instances -> Rows]
  <2>1. CASE row' = row
    BY <1>4, <2>1, DataUnchanged DEF Inv, TypeOK
  <2>2. CASE row' # row
    <3>1. row' = [row EXCEPT ![cur] = r] /\ Exists(cur) /\ (r.del => s = "failed")
      BY <1>2, <1>3, <2>2
    <3> HIDE DEF r
    <3>2. ctr[cur].st \in WasStarted => r.rid = ctr[cur].id
      BY <1>1, <1>3 DEF Inv, DataInv, Bound
    <3>3. r.gen = (IF r.del THEN 2 ELSE 1) /\ (r.del => r.state \in {"shutting-down", "failed"})
          /\ r.state # "none"
      BY <1>1, <1>3, <3>1 DEF Inv, DataInv, RowShape
    <3> QED
      BY Zenon, <1>1, <1>3, <1>4, <3>1, <3>2, <3>3, RowStep DEF Inv
  <2> QED
    BY <2>1, <2>2
<1> QED
  BY <1>1, <1>4, <1>5, ReturnStep DEF Inv, TypeOK, world

(* FinishInstanceTermination deletes the row of an instance that has       *)
(* neither a link nor a container that was started.                        *)
LEMMA FinishStep == Inv /\ FinishInstanceTermination => Inv'
<1> SUFFICES ASSUME Inv, FinishInstanceTermination PROVE Inv'
  OBVIOUS
<1>1. cur \in Instances /\ Exists(cur) /\ ctr[cur].st \notin WasStarted /\ eni[cur] = "none"
  BY DEF Inv, Control, FinishInstanceTermination
<1>2. /\ Return /\ UNCHANGED <<used, lease, netReady, world>>
      /\ ClearRetry \/ Requeue
      /\ row' \in {row, [row EXCEPT ![cur] = NoRow]}
  BY DEF FinishInstanceTermination
<1>3. DataInv' /\ row' \in [Instances -> Rows]
  <2>1. CASE row' = row
    BY <1>2, <2>1, DataUnchanged DEF Inv, TypeOK
  <2>2. CASE row' = [row EXCEPT ![cur] = NoRow]
    <3>1. NoRow \in Rows /\ NoRow.state = "none"
      BY Constants DEF NoRow
    <3> QED
      BY Zenon, <1>1, <1>2, <2>2, <3>1, RowStep DEF Inv
  <2> QED
    BY <1>2, <2>1, <2>2
<1> QED
  BY <1>1, <1>2, <1>3, ReturnStep DEF Inv, TypeOK, world

=============================================================================
