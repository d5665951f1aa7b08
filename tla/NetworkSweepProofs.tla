------------------------ MODULE NetworkSweepProofs --------------------------
(***************************************************************************)
(* The inductive invariant of NetworkControl, and that Run, Sweep and the  *)
(* reads of a reconcile preserve it; NetworkReconcileProofs has the engine *)
(* calls and the write-back, NetworkControlProofs the requests, the        *)
(* operator and the theorems.                                              *)
(*                                                                         *)
(* The safety properties are not inductive alone.  The strengthening says  *)
(* what the controller's snapshot still tells about the rows while         *)
(* requests change them (Snapshot), what the kernel looks like between the *)
(* engine call and the write-back (Applied), and that Sweep's listing has  *)
(* not passed over a VPC that has a namespace (Listing).                   *)
(***************************************************************************)
EXTENDS NetworkControl, QueueProofs

(* A row's generation says whether it was marked; absent rows are reset.   *)
RowShape ==
  \A x \in IDs :
    /\ Exists(x) => x \in used /\ row[x].gen = IF row[x].del THEN 2 ELSE 1
    /\ ~Exists(x) => row[x] = NoRow

(* Rows only disappear at a write-back and only gain deletion intent, so   *)
(* what was read is still there, perhaps marked; and what the engine was   *)
(* not asked to provide is not converged.                                  *)
Snapshot ==
  /\ pc \in {"load", "children", "effect", "record"} => cur \in VPCs
  /\ pc \in {"children", "effect", "record"} =>
       /\ Exists(cur)
       /\ snap.state # "none"
       /\ snap.del => row[cur].del
  /\ pc \in {"effect", "record"} =>
       \A s \in Subnets :
         /\ kids[s].state # "none" =>
              VPCOf[s] = cur /\ Exists(s) /\ (kids[s].del => row[s].del)
         /\ VPCOf[s] = cur /\ Converged(s) =>
              kids[s].state # "none" /\ ~kids[s].del

(* After a successful engine call the kernel has what the snapshot asked   *)
(* for, unless the namespace was removed by hand since.                    *)
Applied ==
  pc = "record" /\ ~failed =>
    /\ snap.del => ns[cur] = "absent" /\ gws[cur] = {}
    /\ ~snap.del =>
         /\ gws[cur] \subseteq Gateways(kids)
         /\ cur \notin tampered => ns[cur] = "ns" /\ gws[cur] = Gateways(kids)

(* Sweep begins with nothing listed; in it, a VPC with a namespace is      *)
(* listed, or beyond the pages read so far.                                *)
Listing ==
  /\ pc \in {"down", "pop", "select"} => ~sweeping
  /\ pc \in {"page", "list", "orphans", "each"} => sweeping
  /\ ~sweeping => wanted = {}
  /\ pc \in {"page", "list"} =>
       \A v \in VPCs :
         ns[v] # "absent" => v \in wanted \/ (pc = "page" /\ \A u \in wanted : u < v)
  /\ pc = "orphans" => todo \cap VPCs = {}

Inv ==
  /\ TypeOK /\ RowShape /\ DependencyOrder
  /\ KernelBackedByRows /\ ConvergedIsApplied
  /\ Snapshot /\ Applied /\ Listing

-----------------------------------------------------------------------------
(* The bounds in TypeOK, in the form the lemmas of QueueProofs speak of.   *)
LEMMA TypeBounds ==
  TypeOK => /\ IsFiniteSet(VPCs)
            /\ Bounded(pending, VPCs) /\ Bounded(retries, VPCs)
BY NetworkAssumption DEF TypeOK, Bounded

(* What holds of rows and kernel alone.                                    *)
DataInv == RowShape /\ DependencyOrder /\ KernelBackedByRows /\ ConvergedIsApplied

(* It is kept by a step that leaves both alone.                            *)
LEMMA DataKept ==
  ASSUME DataInv, row' = row, used' = used, occupied' = occupied,
         ns' = ns, gws' = gws, tampered' = tampered, lost' = lost
  PROVE  DataInv'
<1> USE DEF Exists, Children, Converged
<1>1. RowShape' /\ DependencyOrder'
  BY DEF DataInv, RowShape, DependencyOrder
<1>2. KernelBackedByRows'
  BY DEF DataInv, KernelBackedByRows
<1>3. ConvergedIsApplied'
  BY DEF DataInv, ConvergedIsApplied
<1> QED
  BY <1>1, <1>2, <1>3 DEF DataInv

LEMMA DataUnchanged == DataInv /\ UNCHANGED <<db, kernel>> => DataInv'
BY DataKept DEF db, kernel

(* The initial state.                                                      *)
LEMMA InvInit == Init => Inv
<1> SUFFICES ASSUME Init PROVE Inv
  OBVIOUS
<1> USE DEF Init, NoRow, Exists
<1>1. TypeOK
  <2>1. Cardinality(pending) <= QueueLimit /\ Cardinality(retries) <= QueueLimit
    <3>1. Cardinality({}) <= QueueLimit
      BY EmptyBounded DEF Bounded
    <3> QED
      BY <3>1
  <2>2. NoRow \in Rows
    BY DEF Rows, States
  <2> QED
    BY Zenon, <2>1, <2>2 DEF TypeOK, NoKids
<1>2. RowShape
  BY DEF RowShape
<1>3. DependencyOrder
  BY DEF DependencyOrder, IDs
<1>4. KernelBackedByRows
  BY DEF KernelBackedByRows
<1>5. ConvergedIsApplied
  BY DEF ConvergedIsApplied, Converged, IDs
<1>6. Snapshot /\ Applied /\ Listing
  BY DEF Snapshot, Applied, Listing
<1> QED
  BY <1>1, <1>2, <1>3, <1>4, <1>5, <1>6 DEF Inv

(* An exit loses the kernel and with it every obligation to it.            *)
LEMMA ExitStep == Inv /\ Exit => Inv'
<1> SUFFICES ASSUME Inv, Exit PROVE Inv'
  OBVIOUS
<1> USE DEF Exit, Inv, db, Exists
<1>1. TypeOK'
  <2>1. Cardinality({}) <= QueueLimit
    BY EmptyBounded DEF Bounded
  <2>2. Cardinality(pending') <= QueueLimit /\ Cardinality(retries') <= QueueLimit
    BY <2>1
  <2>3. NoRow \in Rows
    BY DEF Rows, States, NoRow
  <2> QED
    BY Zenon, <2>2, <2>3 DEF TypeOK, NoKids
<1>2. RowShape'
  BY DEF RowShape
<1>3. DependencyOrder'
  BY DEF DependencyOrder
<1>4. KernelBackedByRows'
  BY DEF KernelBackedByRows
<1>5. ConvergedIsApplied'
  BY DEF ConvergedIsApplied, Converged
<1>6. Snapshot' /\ Applied' /\ Listing'
  BY DEF Snapshot, Applied, Listing
<1> QED
  BY <1>1, <1>2, <1>3, <1>4, <1>5, <1>6

(* Start, the pop loop and the cases of select: the queue and pc change.   *)
LEMMA LoopStep ==
  Inv /\ (Start \/ PopEmpty \/ Wake \/ Resync) => Inv'
<1> SUFFICES ASSUME Inv, Start \/ PopEmpty \/ Wake \/ Resync PROVE Inv'
  OBVIOUS
<1> USE DEF Start, PopEmpty, Wake, Resync, queue, reading, sweep
<1>1. TypeOK'
  BY Zenon DEF Inv, TypeOK, db, kernel
<1>2. DataInv'
  BY DataUnchanged DEF Inv, DataInv
<1>3. Snapshot' /\ Applied'
  BY DEF Inv, Snapshot, Applied
<1>4. Listing'
  BY DEF Inv, Listing, kernel
<1> QED
  BY <1>1, <1>2, <1>3, <1>4 DEF Inv, DataInv

(* Enqueue by a request.                                                   *)
LEMMA EnqueueStep == ASSUME NEW v \in VPCs, Inv, Enqueue(v) PROVE Inv'
<1> USE DEF Enqueue, reading, sweep
<1>1. TypeOK'
  <2>1. Bounded(pending', VPCs)
    BY TypeBounds, AddPendingBounded DEF Inv
  <2> QED
    BY <2>1 DEF Inv, TypeOK, db, kernel, Bounded
<1>2. DataInv'
  BY DataUnchanged DEF Inv, DataInv
<1>3. Snapshot'
  BY DEF Inv, Snapshot, Exists, Converged, db
<1>4. Applied'
  BY DEF Inv, Applied, kernel, Gateways
<1>5. Listing'
  BY DEF Inv, Listing, kernel
<1> QED
  BY <1>1, <1>2, <1>3, <1>4, <1>5 DEF Inv, DataInv

(* Run takes a hint.                                                       *)
LEMMA PopStep == ASSUME NEW v \in VPCs, Inv, Pop(v) PROVE Inv'
<1> USE DEF Pop, sweep
<1>1. TypeOK'
  <2>1. Bounded(pending', VPCs)
    BY Zenon, TypeBounds, RemoveBounded DEF Inv
  <2> QED
    BY <2>1 DEF Inv, TypeOK, db, kernel, Bounded
<1>2. DataInv'
  BY DataUnchanged DEF Inv, DataInv
<1>3. Snapshot' /\ Applied' /\ Listing'
  BY DEF Inv, Snapshot, Applied, Listing
<1> QED
  BY <1>1, <1>2, <1>3 DEF Inv, DataInv

(* Due retries are offered to the queue.                                   *)
LEMMA RetryTickStep == ASSUME NEW due \in SUBSET VPCs, Inv, RetryTick(due) PROVE Inv'
<1> USE DEF RetryTick, reading, sweep
<1>1. TypeOK'
  <2>1. Bounded(pending', VPCs)
    BY TypeBounds, AddDueBounded DEF Inv
  <2> QED
    BY <2>1 DEF Inv, TypeOK, db, kernel, Bounded
<1>2. DataInv'
  BY DataUnchanged DEF Inv, DataInv
<1>3. Snapshot' /\ Applied' /\ Listing'
  BY DEF Inv, Snapshot, Applied, Listing
<1> QED
  BY <1>1, <1>2, <1>3 DEF Inv, DataInv

-----------------------------------------------------------------------------
(* Sweep reads a page: what it leaves out comes later.                     *)
LEMMA SweepPageStep == Inv /\ SweepPage => Inv'
<1> SUFFICES ASSUME Inv, SweepPage PROVE Inv'
  OBVIOUS
<1> DEFINE rest == {v \in VPCs : Exists(v) /\ \A u \in wanted : u < v}
           page == {v \in rest : Cardinality({u \in rest : u < v}) < PageSize}
<1>1. /\ pc = "page" /\ wanted' = wanted \cup page
      /\ pc' = IF page = {} THEN "list" ELSE "page"
      /\ UNCHANGED <<db, kernel, queue, reading, swept, sweeping, todo>>
  BY DEF SweepPage
<1>2. page \subseteq VPCs /\ rest \in SUBSET VPCs
  OBVIOUS
<1>3. /\ page = {} => rest = {}
      /\ \A v \in rest \ page : \A u \in page : u < v
  <2>1. rest \in SUBSET Nat /\ IsFiniteSet(rest) /\ PageSize \in Nat \ {0}
    BY Zenon, <1>2, NetworkAssumption, FS_Subset
  <2> HIDE DEF rest
  <2> QED
    BY Zenon, <2>1, FirstPage
<1> HIDE DEF page
<1>4. TypeOK'
  BY <1>1, <1>2 DEF Inv, TypeOK, db, kernel, queue, reading
<1>5. DataInv'
  BY <1>1, DataUnchanged DEF Inv, DataInv
<1>6. Snapshot' /\ Applied'
  BY <1>1 DEF Inv, Snapshot, Applied
<1>7. Listing'
  <2>1. ASSUME NEW v \in VPCs, ns[v] # "absent"
        PROVE  v \in wanted' \/ (pc' = "page" /\ \A u \in wanted' : u < v)
    <3>1. v \in wanted \/ v \in rest
      BY <1>1, <2>1 DEF Inv, Listing, KernelBackedByRows
    <3>2. CASE v \in rest \ page
      BY <1>1, <1>3, <3>2
    <3> QED
      BY <1>1, <3>1, <3>2
  <2>2. sweeping /\ pc' \in {"page", "list"}
    BY <1>1 DEF Inv, Listing, TypeOK
  <2> QED
    BY <1>1, <2>1, <2>2 DEF Listing, kernel
<1> QED
  BY <1>4, <1>5, <1>6, <1>7 DEF Inv, DataInv

(* Sweep finds its orphans: none of them is a VPC's namespace.             *)
LEMMA SweepListStep == Inv /\ SweepList => Inv'
<1> SUFFICES ASSUME Inv, SweepList, ~Exit PROVE Inv'
  BY ExitStep
<1>1. /\ pc = "list" /\ pc' = "orphans" /\ \A v \in VPCs : ns[v] # "file"
      /\ todo' = ({v \in VPCs : ns[v] = "ns"} \cup stray) \ wanted
      /\ UNCHANGED <<db, kernel, queue, reading, swept, sweeping, wanted>>
  BY DEF SweepList
<1>2. TypeOK'
  BY <1>1 DEF Inv, TypeOK, db, kernel, queue, reading
<1>3. DataInv'
  BY <1>1, DataUnchanged DEF Inv, DataInv
<1>4. Snapshot' /\ Applied'
  BY <1>1 DEF Snapshot, Applied
<1>5. Listing'
  <2>1. todo' \cap VPCs = {}
    BY Zenon, <1>1, NetworkAssumption DEF Inv, Listing, TypeOK
  <2>2. sweeping'
    BY <1>1 DEF Inv, Listing
  <2> QED
    BY <1>1, <2>1, <2>2 DEF Listing
<1> QED
  BY Zenon, <1>2, <1>3, <1>4, <1>5 DEF Inv, DataInv

(* So removing an orphan leaves every VPC as it is.                        *)
LEMMA SweepOrphanStep == ASSUME NEW n \in VPCs \cup Strays, Inv, SweepOrphan(n) PROVE Inv'
<1>1. n \notin VPCs
  BY DEF Inv, Listing, SweepOrphan
<1>2. ns' = ns /\ gws' = gws
  BY <1>1 DEF Inv, TypeOK, SweepOrphan
<1>3. /\ pc' = "orphans" /\ pc = "orphans" /\ todo' \subseteq todo /\ stray' \subseteq stray
      /\ row' = row /\ used' = used /\ occupied' = occupied
      /\ tampered' = tampered /\ lost' = lost /\ wanted' = wanted /\ sweeping' = sweeping
      /\ UNCHANGED <<queue, reading, swept>>
  BY DEF SweepOrphan, db
<1>4. TypeOK'
  BY <1>2, <1>3 DEF Inv, TypeOK, SweepOrphan, db, queue, reading
<1>5. DataInv'
  BY Zenon, <1>2, <1>3, DataKept DEF Inv, DataInv
<1>6. Snapshot' /\ Applied'
  BY <1>3 DEF Snapshot, Applied
<1>7. Listing'
  BY <1>3 DEF Inv, Listing
<1> QED
  BY Zenon, <1>4, <1>5, <1>6, <1>7 DEF Inv, DataInv

(* Sweep's last loop.                                                      *)
LEMMA SweepLoopStep ==
  Inv /\ (SweepOrphansDone \/ SweepDone \/ \E v \in VPCs : SweepEach(v)) => Inv'
<1> SUFFICES ASSUME Inv, SweepOrphansDone \/ SweepDone \/ \E v \in VPCs : SweepEach(v)
             PROVE  Inv'
  OBVIOUS
<1> USE DEF SweepOrphansDone, SweepDone, SweepEach, queue, reading
<1>1. TypeOK'
  BY Zenon DEF Inv, TypeOK, db, kernel
<1>2. DataInv'
  BY DataUnchanged DEF Inv, DataInv
<1>3. Snapshot' /\ Applied' /\ Listing'
  BY DEF Inv, Snapshot, Applied, Listing
<1> QED
  BY <1>1, <1>2, <1>3 DEF Inv, DataInv

-----------------------------------------------------------------------------
(* A reconcile reads its VPC.                                              *)
LEMMA LoadStep == Inv /\ Load => Inv'
<1> SUFFICES ASSUME Inv, Load PROVE Inv'
  OBVIOUS
<1>1. /\ pc = "load" /\ pc' = "children" /\ snap' = row[cur] /\ Exists(cur)
      /\ UNCHANGED <<db, kernel>> /\ UNCHANGED <<queue, cur, kids, failed, sweep>>
  BY DEF Load
<1>2. cur \in VPCs /\ row[cur] \in Rows
  BY <1>1 DEF Inv, Snapshot, TypeOK, IDs
<1>3. TypeOK'
  BY <1>1, <1>2 DEF Inv, TypeOK, db, kernel, queue, sweep
<1>4. DataInv'
  BY <1>1, DataUnchanged DEF Inv, DataInv
<1>5. Snapshot' /\ Applied'
  BY <1>1, <1>2 DEF Snapshot, Applied, Exists, db
<1>6. Listing'
  BY <1>1 DEF Inv, Listing, sweep
<1> QED
  BY Zenon, <1>3, <1>4, <1>5, <1>6 DEF Inv, DataInv

(* A reconcile reads its VPC's subnets, and the fatal case cannot occur.   *)
LEMMA LoadChildrenStep == Inv /\ LoadChildren => Inv'
<1> SUFFICES ASSUME Inv, LoadChildren, ~Exit PROVE Inv'
  BY ExitStep
<1>1. /\ pc = "children" /\ pc' = "effect"
      /\ kids' = [s \in Subnets |-> IF VPCOf[s] = cur THEN row[s] ELSE NoRow]
      /\ UNCHANGED <<db, kernel>> /\ UNCHANGED <<queue, cur, snap, failed, sweep>>
  BY DEF LoadChildren
<1>2. \A s \in Subnets : row[s] \in Rows /\ NoRow \in Rows
  BY DEF Inv, TypeOK, IDs, Rows, States, NoRow
<1>3. TypeOK'
  BY <1>1, <1>2 DEF Inv, TypeOK, db, kernel, queue, sweep
<1>4. DataInv'
  BY <1>1, DataUnchanged DEF Inv, DataInv
<1>5. Snapshot'
  <2>1. row' = row /\ cur' = cur /\ snap' = snap
    BY <1>1 DEF db
  <2> QED
    BY <1>1, <2>1 DEF Inv, Snapshot, Exists, Converged, NoRow
<1>6. Applied'
  BY <1>1 DEF Applied
<1>7. Listing'
  BY <1>1 DEF Inv, Listing, sweep
<1> QED
  BY Zenon, <1>3, <1>4, <1>5, <1>6, <1>7 DEF Inv, DataInv

(* A reconcile ends without touching rows or kernel.                       *)
LEMMA ReturnStep ==
  ASSUME Inv, Return, UNCHANGED <<db, kernel, hints>>, pc \in {"load", "record"},
         Bounded(pending', VPCs), Bounded(retries', VPCs), wake' \in BOOLEAN
  PROVE  Inv'
<1> USE DEF Return, sweep
<1>1. TypeOK'
  <2>1. NoRow \in Rows
    BY DEF Rows, States, NoRow
  <2> QED
    BY Zenon, <2>1 DEF Inv, TypeOK, db, kernel, NoKids, Bounded
<1>2. DataInv'
  BY DataUnchanged DEF Inv, DataInv
<1>3. Snapshot' /\ Applied'
  BY DEF Snapshot, Applied
<1>4. Listing'
  BY DEF Inv, Listing
<1> QED
  BY Zenon, <1>1, <1>2, <1>3, <1>4 DEF Inv, DataInv

(* The VPC is gone: clearRetry.                                            *)
LEMMA LoadGoneStep == Inv /\ LoadGone => Inv'
<1> SUFFICES ASSUME Inv, LoadGone PROVE Inv'
  OBVIOUS
<1>1. Bounded(pending', VPCs) /\ Bounded(retries', VPCs) /\ wake' \in BOOLEAN
  BY Zenon, TypeBounds, RemoveBounded DEF Inv, LoadGone, TypeOK
<1> QED
  BY <1>1, ReturnStep DEF LoadGone

(* The snapshot is stale: nothing is recorded and the VPC is hinted again. *)
LEMMA RecordStaleStep == Inv /\ RecordStale => Inv'
<1> SUFFICES ASSUME Inv, RecordStale PROVE Inv'
  OBVIOUS
<1>1. cur \in VPCs
  BY DEF Inv, Snapshot, RecordStale
<1>2. Bounded(pending', VPCs) /\ Bounded(retries', VPCs) /\ wake' \in BOOLEAN
  BY <1>1, TypeBounds, AddPendingBounded DEF Inv, RecordStale
<1> QED
  BY <1>2, ReturnStep DEF RecordStale

=============================================================================
