------------------------ MODULE NetworkControlProofs ------------------------
(***************************************************************************)
(* The safety properties of NetworkControl for any number of VPCs,         *)
(* subnets and blocks, any page size and any queue limit: the requests and *)
(* the operator preserve the invariant of NetworkSweepProofs as well, and  *)
(* the properties follow from it.                                          *)
(***************************************************************************)
EXTENDS NetworkReconcileProofs

-----------------------------------------------------------------------------
(* A request that writes one row, new or newly marked: nothing it writes   *)
(* is converged, and nothing that was read disappears.                     *)
LEMMA WriteStep ==
  ASSUME Inv, Request, NEW x \in IDs, NEW r \in Rows,
         row' = [row EXCEPT ![x] = r],
         used' = used \cup {x}, occupied' = occupied, hints' \subseteq VPCs,
         r.state \in {"pending", "deleting"}, r.gen = IF r.del THEN 2 ELSE 1,
         row[x].del => r.del,
         DependencyOrder'
  PROVE  Inv'
<1> USE DEF Request, reading, sweep
<1>1. \A y \in IDs : row'[y] = IF y = x THEN r ELSE row[y]
  BY DEF Inv, TypeOK
<1>2. TypeOK'
  BY DEF Inv, TypeOK, kernel
<1>3. RowShape'
  BY <1>1 DEF Inv, RowShape, Exists
<1>4. \A y \in IDs :
        /\ Exists(y) => Exists(y)'
        /\ Converged(y)' => Converged(y) /\ y # x
        /\ row[y].del => row'[y].del
  BY <1>1 DEF Exists, Converged
<1>5. VPCs \subseteq IDs /\ Subnets \subseteq IDs
  BY DEF IDs
<1>6. KernelBackedByRows'
  <2>1. \A v \in VPCs : Children(v) \subseteq Children(v)'
    BY <1>4, <1>5 DEF Children
  <2>2. ns' = ns /\ gws' = gws
    BY DEF kernel
  <2> QED
    BY Zenon, <1>4, <1>5, <2>1, <2>2 DEF Inv, KernelBackedByRows
<1>7. ConvergedIsApplied'
  <2>1. ASSUME NEW v \in VPCs, NEW s \in Children(v)', Converged(s)'
        PROVE  s \in Children(v) /\ Converged(s)
    BY <1>1, <1>4, <1>5, <2>1 DEF Children, Exists
  <2> QED
    BY Zenon, <1>4, <1>5, <2>1 DEF Inv, ConvergedIsApplied, kernel
<1>8. Snapshot'
  BY Zenon, <1>4, <1>5 DEF Inv, Snapshot
<1>9. Applied'
  BY DEF Inv, Applied, kernel, Gateways
<1>10. Listing'
  BY DEF Inv, Listing, kernel
<1> QED
  BY <1>2, <1>3, <1>6, <1>7, <1>8, <1>9, <1>10 DEF Inv

(* A new row, and a marked row, have the shape WriteStep asks for.         *)
LEMMA WrittenRows ==
  /\ NewRow \in Rows /\ NewRow.state = "pending" /\ NewRow.gen = 1 /\ ~NewRow.del
  /\ \A r \in Rows : r.gen = 1 =>
       LET m == MarkDeleting(r)
       IN  m \in Rows /\ m.state = "deleting" /\ m.gen = 2 /\ m.del
<1>1. /\ 0 \in 0..1 /\ 1 \in 0..2 /\ 2 \in 0..2
      /\ "pending" \in States /\ "deleting" \in States
  BY DEF States
<1>2. NewRow \in Rows
  BY Zenon, <1>1, RowOf DEF NewRow
<1>3. ASSUME NEW r \in Rows, r.gen = 1 PROVE MarkDeleting(r) \in Rows
  <2>1. MarkDeleting(r) = [state |-> "deleting", gen |-> 2, obs |-> r.obs, del |-> TRUE]
    BY <1>3 DEF MarkDeleting, Rows
  <2>2. r.obs \in 0..1
    BY DEF Rows
  <2> QED
    BY Zenon, <1>1, <2>1, <2>2, RowOf
<1>4. ASSUME NEW r \in Rows, r.gen = 1
      PROVE  MarkDeleting(r).state = "deleting" /\ MarkDeleting(r).gen = 2 /\ MarkDeleting(r).del
  BY <1>4 DEF MarkDeleting, Rows
<1> QED
  BY <1>2, <1>3, <1>4 DEF NewRow

(* CreateVPC, DeleteVPC.                                                   *)
LEMMA VPCRequestStep ==
  ASSUME NEW v \in VPCs, Inv, CreateVPC(v) \/ DeleteVPC(v) PROVE Inv'
<1>1. v \in IDs /\ row[v] \in Rows /\ \A s \in Subnets : s \in IDs /\ s # v
  BY NetworkAssumption DEF Inv, TypeOK, IDs
<1>2. CASE CreateVPC(v)
  <2>1. ~Exists(v) /\ ~row[v].del
    BY <1>1, <1>2 DEF CreateVPC, Inv, RowShape, NoRow
  <2>2. DependencyOrder'
    BY <1>1, <1>2, <2>1, NetworkAssumption, WrittenRows
       DEF CreateVPC, Inv, TypeOK, DependencyOrder, Exists
  <2>3. Request /\ row' = [row EXCEPT ![v] = NewRow] /\ used' = used \cup {v}
        /\ occupied' = occupied /\ hints' \subseteq VPCs
    BY <1>2 DEF CreateVPC, Inv, TypeOK
  <2> QED
    BY Zenon, <1>1, <2>1, <2>2, <2>3, WrittenRows, WriteStep
<1>3. CASE DeleteVPC(v)
  <2>1. row[v].gen = 1 /\ v \in used
    BY <1>1, <1>3 DEF DeleteVPC, Inv, RowShape
  <2>2. DependencyOrder'
    BY <1>1, <1>3, <2>1, NetworkAssumption
       DEF DeleteVPC, Inv, TypeOK, DependencyOrder, Exists, Children
  <2>3. Request /\ row' = [row EXCEPT ![v] = MarkDeleting(row[v])] /\ used' = used \cup {v}
        /\ occupied' = occupied /\ hints' \subseteq VPCs
    BY <1>3, <2>1 DEF DeleteVPC, Inv, TypeOK
  <2> QED
    BY Zenon, <1>1, <2>1, <2>2, <2>3, WrittenRows, WriteStep
<1> QED
  BY <1>2, <1>3

(* CreateSubnet, DeleteSubnet.                                             *)
LEMMA SubnetRequestStep ==
  ASSUME NEW s \in Subnets, Inv, CreateSubnet(s) \/ DeleteSubnet(s) PROVE Inv'
<1>1. s \in IDs /\ row[s] \in Rows /\ VPCOf[s] \in VPCs /\ \A v \in VPCs : v \in IDs /\ s # v
  BY NetworkAssumption DEF Inv, TypeOK, IDs
<1>2. CASE CreateSubnet(s)
  <2>1. ~Exists(s) /\ ~row[s].del
    BY <1>1, <1>2 DEF CreateSubnet, Inv, RowShape, NoRow
  <2>2. DependencyOrder'
    BY <1>1, <1>2, <2>1, NetworkAssumption, WrittenRows
       DEF CreateSubnet, Inv, TypeOK, DependencyOrder, Exists, IDs
  <2>3. Request /\ row' = [row EXCEPT ![s] = NewRow] /\ used' = used \cup {s}
        /\ occupied' = occupied /\ hints' \subseteq VPCs
    BY Zenon, <1>1, <1>2 DEF CreateSubnet, Inv, TypeOK
  <2> QED
    BY Zenon, <1>1, <2>1, <2>2, <2>3, WrittenRows, WriteStep
<1>3. CASE DeleteSubnet(s)
  <2>1. row[s].gen = 1 /\ s \in used
    BY <1>1, <1>3 DEF DeleteSubnet, Inv, RowShape
  <2>2. DependencyOrder'
    BY <1>1, <1>3, <2>1, NetworkAssumption, WrittenRows
       DEF DeleteSubnet, Inv, TypeOK, DependencyOrder, Exists, IDs
  <2>3. Request /\ row' = [row EXCEPT ![s] = MarkDeleting(row[s])] /\ used' = used \cup {s}
        /\ occupied' = occupied /\ hints' \subseteq VPCs
    BY <1>1, <1>3, <2>1 DEF DeleteSubnet, Inv, TypeOK
  <2> QED
    BY Zenon, <1>1, <2>1, <2>2, <2>3, WrittenRows, WriteStep
<1> QED
  BY <1>2, <1>3

(* RunInstance, LastInstanceGone.                                          *)
LEMMA OccupancyStep ==
  ASSUME NEW s \in Subnets, Inv, RunInstance(s) \/ LastInstanceGone(s) PROVE Inv'
<1> USE DEF RunInstance, LastInstanceGone, Request, reading, sweep
<1>1. TypeOK'
  BY DEF Inv, TypeOK, kernel
<1>2. RowShape' /\ DependencyOrder'
  BY DEF Inv, RowShape, DependencyOrder, Exists
<1>3. KernelBackedByRows' /\ ConvergedIsApplied'
  <2>1. row' = row /\ ns' = ns /\ gws' = gws /\ lost' = lost /\ tampered' = tampered
    BY DEF kernel
  <2>2. \A v : Children(v)' = Children(v)
    BY <2>1 DEF Children, Exists
  <2> QED
    BY Zenon, <2>1, <2>2
       DEF Inv, KernelBackedByRows, ConvergedIsApplied, Exists, Converged
<1>5. Snapshot'
  BY DEF Inv, Snapshot, Exists, Converged
<1>6. Applied' /\ Listing'
  BY DEF Inv, Applied, Listing, kernel, Gateways
<1> QED
  BY <1>1, <1>2, <1>3, <1>5, <1>6 DEF Inv

(* A namespace is removed by hand.                                         *)
LEMMA RemovedByHandStep == ASSUME NEW v \in VPCs, Inv, RemovedByHand(v) PROVE Inv'
<1> USE DEF RemovedByHand, db, queue, reading, sweep
<1>1. TypeOK'
  BY DEF Inv, TypeOK
<1>2. \A u \in VPCs :
        /\ ns'[u] = IF u = v THEN "absent" ELSE ns[u]
        /\ gws'[u] = IF u = v THEN {} ELSE gws[u]
  BY DEF Inv, TypeOK
<1>3. RowShape' /\ DependencyOrder'
  BY DEF Inv, RowShape, DependencyOrder, Exists
<1>4. KernelBackedByRows'
  BY <1>2 DEF Inv, KernelBackedByRows, Exists, Children
<1>5. ConvergedIsApplied'
  BY <1>2 DEF Inv, ConvergedIsApplied, Exists, Children, Converged
<1>6. Snapshot'
  BY DEF Inv, Snapshot, Exists, Converged
<1>7. Applied'
  <2>1. pc = "record" => cur \in VPCs
    BY DEF Inv, Snapshot
  <2>2. Gateways(kids)' = Gateways(kids)
    BY DEF Gateways
  <2> QED
    BY <1>2, <2>1, <2>2 DEF Inv, Applied
<1>8. Listing'
  BY <1>2 DEF Inv, Listing
<1> QED
  BY <1>1, <1>3, <1>4, <1>5, <1>6, <1>7, <1>8 DEF Inv

(* A stray namespace is made by hand.                                      *)
LEMMA MadeByHandStep == ASSUME NEW n \in Strays, Inv, MadeByHand(n) PROVE Inv'
<1> USE DEF MadeByHand, db, queue, reading, sweep
<1>1. TypeOK'
  BY DEF Inv, TypeOK
<1>2. RowShape' /\ DependencyOrder'
  BY DEF Inv, RowShape, DependencyOrder, Exists
<1>3. KernelBackedByRows' /\ ConvergedIsApplied'
  BY DEF Inv, KernelBackedByRows, ConvergedIsApplied, Exists, Children, Converged
<1>4. Snapshot' /\ Applied'
  BY DEF Inv, Snapshot, Applied, Gateways, Exists, Converged
<1>5. Listing'
  BY DEF Inv, Listing
<1> QED
  BY <1>1, <1>2, <1>3, <1>4, <1>5 DEF Inv

(* A step that changes nothing.                                            *)
LEMMA StutterStep == Inv /\ UNCHANGED vars => Inv'
<1> SUFFICES ASSUME Inv, UNCHANGED vars PROVE Inv'
  OBVIOUS
<1> USE DEF vars, queue, reading, sweep
<1>1. TypeOK'
  BY DEF Inv, TypeOK, db, kernel
<1>2. DataInv'
  BY DataUnchanged DEF Inv, DataInv
<1>3. Snapshot'
  BY DEF Inv, Snapshot, Exists, Converged, db
<1>4. Applied' /\ Listing'
  BY DEF Inv, Applied, Listing, Gateways, kernel
<1> QED
  BY <1>1, <1>2, <1>3, <1>4 DEF Inv, DataInv

-----------------------------------------------------------------------------
(* The invariant is inductive.                                             *)
LEMMA InvStep == Inv /\ [Next]_vars => Inv'
<1> SUFFICES ASSUME Inv, [Next]_vars PROVE Inv'
  OBVIOUS
<1>1. CASE Service
  BY <1>1, EnqueueStep, VPCRequestStep, SubnetRequestStep, OccupancyStep DEF Service
<1>2. CASE Reconcile
  <2>1. CASE EffectRefused
    BY <2>1, NoEffectStep DEF EffectRefused
  <2> QED
    BY <1>2, <2>1, LoadGoneStep, LoadStep, LoadChildrenStep, EffectSucceedsStep,
       RecordStaleStep, RecordTopologyStep DEF Reconcile
<1>3. CASE Sweep
  BY <1>3, SweepPageStep, SweepListStep, SweepOrphanStep, SweepLoopStep DEF Sweep
<1>4. CASE Start \/ Select \/ PopEmpty \/ \E v \in VPCs : Pop(v)
  BY <1>4, LoopStep, RetryTickStep, PopStep DEF Select
<1>5. CASE Fault
  BY <1>5, ExitStep, DeleteFailsStep, EnsureFailsStep, RemovedByHandStep, MadeByHandStep
     DEF Fault, Crash, EffectFails, SweepOrphanFails, Drift
<1>6. CASE UNCHANGED vars
  BY <1>6, StutterStep
<1> QED
  BY <1>1, <1>2, <1>3, <1>4, <1>5, <1>6 DEF Next, Worker

(* So it always holds.                                                     *)
LEMMA InvAlways == Safety => []Inv
BY InvInit, InvStep, PTL DEF Safety

(* Types, with the queue within its limit and no row marked twice.         *)
THEOREM TypeCorrect == Safety => []TypeOK
<1>1. Inv => TypeOK
  BY DEF Inv
<1> QED
  BY <1>1, InvAlways, PTL

(* RecordTopology deletes no row whose namespace or gateway is still in    *)
(* the kernel.                                                             *)
THEOREM RowsOutliveKernel == Safety => []KernelBackedByRows
<1>1. Inv => KernelBackedByRows
  BY DEF Inv
<1> QED
  BY <1>1, InvAlways, PTL

(* What the instance controller and the hook take for ready is ready.      *)
THEOREM ConvergedMeansApplied == Safety => []ConvergedIsApplied
<1>1. Inv => ConvergedIsApplied
  BY DEF Inv
<1> QED
  BY <1>1, InvAlways, PTL

(* The dependency checks of the requests keep desired state consistent.    *)
THEOREM DependenciesKept == Safety => []DependencyOrder
<1>1. Inv => DependencyOrder
  BY DEF Inv
<1> QED
  BY <1>1, InvAlways, PTL

(* reconcileLocked never meets a deleting VPC that has subnets.            *)
THEOREM ChildrenNeverFatal == Safety => []NeverFatalOnChildren
<1>1. Inv => NeverFatalOnChildren
  BY DEF Inv, Snapshot, DependencyOrder, NeverFatalOnChildren, Children
<1> QED
  BY <1>1, InvAlways, PTL

=============================================================================
