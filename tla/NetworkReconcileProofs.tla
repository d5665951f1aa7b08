------------------------ MODULE NetworkReconcileProofs ----------------------
(* The invariant of NetworkSweepProofs is preserved by the engine calls    *)
(* and by the write-back of a reconcile.                                   *)
EXTENDS NetworkSweepProofs

-----------------------------------------------------------------------------
(* The engine calls.  Each must keep the gateways of converged subnets and *)
(* add none that no row asks for.                                          *)

(* What the engine is asked for is asked for by rows, and includes what is *)
(* converged.                                                              *)
LEMMA GatewaysOfSnapshot ==
  ASSUME Inv, pc \in {"effect", "record"}
  PROVE  /\ Gateways(kids) \subseteq Blocks
         /\ \A b \in Gateways(kids) : \E s \in Children(cur) : Block[s] = b
         /\ \A s \in Children(cur) : Converged(s) => Block[s] \in Gateways(kids)
BY NetworkAssumption DEF Inv, Snapshot, Gateways, Children

(* Every engine call that changes nothing but the mount point and gateways *)
(* of its VPC, keeps gateways backed by rows, and keeps what is converged. *)
LEMMA EffectStep ==
  ASSUME Inv, Effect, failed' \in BOOLEAN,
         NEW n \in {"absent", "file", "ns"}, NEW g \in SUBSET Blocks,
         ns' = [ns EXCEPT ![cur] = n], gws' = [gws EXCEPT ![cur] = g],
         tampered' \in {tampered, tampered \ {cur}},
         lost' \in {lost, lost \ {cur}},
         g \subseteq gws[cur] \cup Gateways(kids),
         Converged(cur) /\ cur \notin lost' \cup tampered' =>
           n = "ns" /\ \A s \in Children(cur) : Converged(s) => Block[s] \in g,
         Applied'
  PROVE  Inv'
<1>1. cur \in VPCs /\ Exists(cur)
  BY DEF Inv, Snapshot, Effect
<1>2. TypeOK'
  BY <1>1 DEF Inv, TypeOK, Effect, db, queue, sweep
<1>3. /\ row' = row /\ used' = used /\ occupied' = occupied
      /\ cur' = cur /\ snap' = snap /\ kids' = kids
      /\ pc = "effect" /\ pc' = "record" /\ sweeping' = sweeping /\ wanted' = wanted
  BY DEF Effect, db, sweep
<1>4. \A u \in VPCs : /\ ns'[u] = IF u = cur THEN n ELSE ns[u]
                     /\ gws'[u] = IF u = cur THEN g ELSE gws[u]
  BY DEF Inv, TypeOK
<1>5. \A x : Exists(x)' = Exists(x) /\ Children(x)' = Children(x) /\ Converged(x)' = Converged(x)
  BY <1>3 DEF Exists, Children, Converged
<1>6. RowShape' /\ DependencyOrder'
  BY <1>3 DEF Inv, RowShape, DependencyOrder, Exists
<1>7. KernelBackedByRows'
  <2>1. \A b \in g : \E s \in Children(cur) : Block[s] = b
    BY Zenon, <1>1, <1>3, GatewaysOfSnapshot DEF Inv, KernelBackedByRows
  <2>2. SUFFICES ASSUME NEW u \in VPCs
                 PROVE  /\ ns'[u] # "absent" => Exists(u)
                        /\ \A b \in gws'[u] : \E s \in Children(u) : Block[s] = b
    BY Zenon, <1>5 DEF KernelBackedByRows
  <2>3. CASE u = cur
    BY <1>1, <1>4, <2>1, <2>3
  <2>4. CASE u # cur
    BY <1>4, <2>4 DEF Inv, KernelBackedByRows
  <2> QED
    BY <2>3, <2>4
<1>8. ConvergedIsApplied'
  <2>1. SUFFICES ASSUME NEW u \in VPCs, u \notin lost' \cup tampered', Converged(u)
                 PROVE  /\ ns'[u] = "ns"
                        /\ \A s \in Children(u) : Converged(s) => Block[s] \in gws'[u]
    BY Zenon, <1>5 DEF ConvergedIsApplied
  <2>2. CASE u = cur
    BY <1>4, <2>1, <2>2
  <2>3. CASE u # cur
    <3>1. u \notin lost \cup tampered
      BY <2>1, <2>3
    <3> QED
      BY <1>4, <2>1, <2>3, <3>1 DEF Inv, ConvergedIsApplied
  <2> QED
    BY <2>2, <2>3
<1>9. Snapshot'
  BY <1>3, <1>5 DEF Inv, Snapshot
<1>10. Listing'
  BY <1>3 DEF Inv, Listing
<1> QED
  BY <1>2, <1>6, <1>7, <1>8, <1>9, <1>10 DEF Inv

(* The engine succeeds.                                                    *)
LEMMA EffectSucceedsStep == Inv /\ EffectSucceeds => Inv'
<1> SUFFICES ASSUME Inv, EffectSucceeds PROVE Inv'
  OBVIOUS
<1> DEFINE n == IF snap.del THEN "absent" ELSE "ns"
           g == IF snap.del THEN {} ELSE Gateways(kids)
<1>1. /\ Effect /\ failed' = FALSE
      /\ ns' = [ns EXCEPT ![cur] = n] /\ gws' = [gws EXCEPT ![cur] = g]
      /\ tampered' = tampered \ {cur} /\ lost' = lost \ {cur}
  BY DEF EffectSucceeds
<1>2. cur \in VPCs /\ (snap.del => row[cur].del)
  BY <1>1 DEF Inv, Snapshot, Effect
<1>3. /\ g \subseteq Blocks /\ g \subseteq Gateways(kids)
      /\ ~snap.del => \A s \in Children(cur) : Converged(s) => Block[s] \in g
  BY <1>1, GatewaysOfSnapshot DEF Effect
<1>4. Converged(cur) => ~snap.del
  BY <1>2 DEF Converged
<1>5. Applied'
  <2>1. snap' = snap /\ cur' = cur /\ Gateways(kids)' = Gateways(kids)
    BY Zenon, <1>1 DEF Effect, Gateways
  <2>2. ns'[cur] = n /\ gws'[cur] = g
    BY <1>1, <1>2 DEF Inv, TypeOK
  <2> QED
    BY <2>1, <2>2 DEF Applied
<1> QED
  <2>1. n \in {"absent", "file", "ns"}
    OBVIOUS
  <2> HIDE DEF g
  <2>2. Converged(cur) => n = "ns" /\ \A s \in Children(cur) : Converged(s) => Block[s] \in g
    BY <1>3, <1>4
  <2> HIDE DEF n
  <2> QED
    BY Zenon, <1>1, <1>3, <1>5, <2>1, <2>2, EffectStep

(* After a failure there is nothing to record as applied.                  *)
LEMMA FailureApplied == failed' => Applied'
BY DEF Applied

(* The engine refuses a mount point that is a plain file, or fails before  *)
(* it did anything.                                                        *)
LEMMA NoEffectStep ==
  ASSUME Inv, Effect, failed' = TRUE, UNCHANGED <<ns, gws, tampered, lost>>
  PROVE  Inv'
<1>1. cur \in VPCs
  BY DEF Inv, Snapshot, Effect
<1>2. /\ ns' = [ns EXCEPT ![cur] = ns[cur]] /\ gws' = [gws EXCEPT ![cur] = gws[cur]]
      /\ ns[cur] \in {"absent", "file", "ns"} /\ gws[cur] \in SUBSET Blocks
  BY <1>1 DEF Inv, TypeOK
<1>3. Converged(cur) /\ cur \notin lost' \cup tampered' =>
        ns[cur] = "ns" /\ \A s \in Children(cur) : Converged(s) => Block[s] \in gws[cur]
  BY <1>1 DEF Inv, ConvergedIsApplied
<1> QED
  BY Zenon, <1>2, <1>3, FailureApplied, EffectStep

(* DeleteVPC fails; its VPC is marked, so nothing was converged.           *)
LEMMA DeleteFailsStep == Inv /\ DeleteFails => Inv'
<1> SUFFICES ASSUME Inv, DeleteFails PROVE Inv'
  OBVIOUS
<1>1. CASE UNCHANGED <<ns, gws>>
  BY <1>1, NoEffectStep DEF DeleteFails
<1>2. CASE /\ ns' = [ns EXCEPT ![cur] = "file"]
           /\ gws' = [gws EXCEPT ![cur] = {}]
  <2>1. ~Converged(cur)
    BY DEF Inv, Snapshot, DeleteFails, Effect, Converged
  <2>2. Effect /\ failed' = TRUE /\ tampered' = tampered /\ lost' = lost
    BY DEF DeleteFails
  <2> DEFINE g == {}
  <2>3. g \in SUBSET Blocks /\ g \subseteq gws[cur] \cup Gateways(kids)
    OBVIOUS
  <2> HIDE DEF g
  <2>4. gws' = [gws EXCEPT ![cur] = g]
    BY <1>2 DEF g
  <2> QED
    BY Zenon, <1>2, <2>1, <2>2, <2>3, <2>4, FailureApplied, EffectStep
<1> QED
  BY <1>1, <1>2 DEF DeleteFails

(* EnsureVPC fails half way: it never removes a gateway it was asked for.  *)
LEMMA EnsureFailsStep == Inv /\ EnsureFails => Inv'
<1> SUFFICES ASSUME Inv, EnsureFails PROVE Inv'
  OBVIOUS
<1>1. /\ Effect /\ failed' = TRUE /\ pc = "effect"
      /\ tampered' = tampered /\ lost' = lost /\ cur \in VPCs
  BY DEF Inv, Snapshot, EnsureFails, Effect
<1>2. CASE UNCHANGED <<ns, gws>>
  BY <1>1, <1>2, NoEffectStep
<1>3. CASE /\ ns[cur] = "absent"
           /\ ns' = [ns EXCEPT ![cur] = "file"]
           /\ UNCHANGED gws
  <2>1. gws' = [gws EXCEPT ![cur] = gws[cur]] /\ gws[cur] \in SUBSET Blocks
    BY <1>1, <1>3 DEF Inv, TypeOK
  <2>2. Converged(cur) => cur \in lost' \cup tampered'
    BY <1>1, <1>3 DEF Inv, ConvergedIsApplied
  <2> QED
    BY Zenon, <1>1, <1>3, <2>1, <2>2, FailureApplied, EffectStep
<1>4. ASSUME NEW removed \in SUBSET (gws[cur] \ Gateways(kids)),
             NEW added \in SUBSET (Gateways(kids) \ gws[cur]),
             ns' = [ns EXCEPT ![cur] = "ns"],
             gws' = [gws EXCEPT ![cur] = (gws[cur] \ removed) \cup added]
      PROVE  Inv'
  <2> DEFINE g == (gws[cur] \ removed) \cup added
  <2>1. g \in SUBSET Blocks /\ g \subseteq gws[cur] \cup Gateways(kids)
    BY <1>1, GatewaysOfSnapshot DEF Inv, TypeOK
  <2>2. Converged(cur) /\ cur \notin lost' \cup tampered' =>
          \A s \in Children(cur) : Converged(s) => Block[s] \in g
    BY <1>1, GatewaysOfSnapshot DEF Inv, ConvergedIsApplied
  <2> HIDE DEF g
  <2>3. gws' = [gws EXCEPT ![cur] = g]
    BY <1>4 DEF g
  <2> QED
    BY Zenon, <1>1, <1>4, <2>1, <2>2, <2>3, FailureApplied, EffectStep
<1> QED
  BY Zenon, <1>2, <1>3, <1>4 DEF EnsureFails

-----------------------------------------------------------------------------
(* Values of a row's fields make a row.                                    *)
LEMMA RowOf ==
  ASSUME NEW st \in States, NEW g \in 0..2, NEW o \in 0..1, NEW d \in BOOLEAN
  PROVE  [state |-> st, gen |-> g, obs |-> o, del |-> d] \in Rows
BY DEF Rows

(* The write-back of a snapshot that is not stale: rows are deleted only   *)
(* where the kernel has nothing left of them, and marked as converged only *)
(* where it has everything.                                                *)
LEMMA RecordTopologyStep == Inv /\ RecordTopology => Inv'
<1> SUFFICES ASSUME Inv, RecordTopology PROVE Inv'
  OBVIOUS
<1> DEFINE touched(x) == x = cur \/ x \in Children(cur)
           removed(x) == touched(x) /\ row[x].del /\ ~failed
<1>1. /\ pc = "record" /\ cur \in VPCs /\ Exists(cur)
      /\ UNCHANGED <<used, occupied, kernel, pending, wake, hints>>
      /\ Return
  BY DEF RecordTopology, Inv, Snapshot
<1>2. \A x \in IDs : row'[x] = IF ~touched(x) THEN row[x]
                               ELSE IF removed(x) THEN NoRow ELSE Observed(row[x])
  BY DEF RecordTopology
<1>3. /\ snap.del = row[cur].del
      /\ \A s \in Children(cur) : kids[s].state # "none" /\ kids[s].del = row[s].del
  BY DEF RecordTopology, Stale, SameDesired, Exists, Children, Inv, Snapshot
<1>4. \A x \in IDs :
        /\ row[x] \in Rows
        /\ Exists(x)' <=> Exists(x) /\ ~removed(x)
        /\ Exists(x)' => row'[x].del = row[x].del /\ row'[x].gen = row[x].gen
  <2> SUFFICES ASSUME NEW x \in IDs
               PROVE  /\ row[x] \in Rows
                      /\ Exists(x)' <=> Exists(x) /\ ~removed(x)
                      /\ Exists(x)' => row'[x].del = row[x].del /\ row'[x].gen = row[x].gen
    OBVIOUS
  <2>1. row[x] \in Rows
    BY DEF Inv, TypeOK
  <2>2. Observed(row[x]).state # "none" /\ Observed(row[x]).del = row[x].del
        /\ Observed(row[x]).gen = row[x].gen
    BY <2>1 DEF Observed, Rows
  <2>3. touched(x) => Exists(x)
    BY <1>1 DEF Children
  <2> QED
    BY <1>2, <2>1, <2>2, <2>3 DEF Exists, NoRow
<1>5. cur \in IDs /\ Subnets \subseteq IDs /\ VPCs \subseteq IDs
      /\ (\A v \in VPCs : v # cur => ~touched(v)) /\ (\A s \in Subnets : s # cur)
  BY <1>1, NetworkAssumption DEF IDs, Children
<1>6. TypeOK'
  <2>1. row' \in [IDs -> Rows]
    <3>1. ASSUME NEW x \in IDs PROVE row'[x] \in Rows
      <4>1. NoRow \in Rows /\ row[x] \in Rows
        BY <1>4 DEF NoRow, Rows, States
      <4>2. ASSUME touched(x), ~removed(x) PROVE Observed(row[x]) \in Rows
        <5>1. ~failed => row[x].gen = 1
          BY <1>1, <4>2 DEF Inv, RowShape, Children
        <5>2. CASE failed
          BY <4>1, <5>2 DEF Observed, Rows, States
        <5>3. CASE ~failed
          <6>1. Observed(row[x]) = [state |-> "available", gen |-> row[x].gen, obs |-> 1,
                                    del |-> row[x].del]
            BY <4>1, <5>1, <5>3 DEF Observed, Rows
          <6>2. /\ 1 \in 0..1 /\ "available" \in States
                /\ row[x].gen \in 0..2 /\ row[x].del \in BOOLEAN
            BY <4>1 DEF States, Rows
          <6> QED
            BY <6>1, <6>2, RowOf
        <5> QED
          BY <5>2, <5>3
      <4> QED
        BY <1>2, <4>1, <4>2
    <3>2. row' = [x \in IDs |-> row'[x]]
      BY DEF RecordTopology
    <3> QED
      BY <3>1, <3>2
  <2>2. Bounded(retries', VPCs)
    BY Zenon, <1>1, TypeBounds, AddRetryBounded, RemoveBounded DEF Inv, RecordTopology
  <2>3. NoRow \in Rows
    BY DEF Rows, States, NoRow
  <2> QED
    BY Zenon, <1>1, <2>1, <2>2, <2>3 DEF Inv, TypeOK, kernel, Return, sweep, NoKids, Bounded
<1>7. RowShape'
  <2>1. \A x \in IDs : ~Exists(x)' => row'[x] = NoRow
    <3>1. \A x \in IDs : touched(x) => Exists(x)
      BY <1>1 DEF Children
    <3> QED
      BY <1>2, <1>4, <3>1 DEF Inv, RowShape
  <2> QED
    BY <1>1, <1>4, <2>1 DEF Inv, RowShape
<1>8. DependencyOrder'
  <2>1. ASSUME NEW s \in Subnets, Exists(s)'
        PROVE  Exists(VPCOf[s])' /\ ~row'[VPCOf[s]].del
    <3>1. VPCOf[s] \in VPCs /\ Exists(VPCOf[s]) /\ ~row[VPCOf[s]].del
      BY <1>4, <1>5, <2>1, NetworkAssumption DEF Inv, DependencyOrder
    <3> QED
      BY <1>4, <1>5, <3>1
  <2>2. ASSUME NEW s \in occupied PROVE Exists(s)' /\ ~row'[s].del
    <3>1. s \in Subnets /\ Exists(s) /\ ~row[s].del
      BY DEF Inv, TypeOK, DependencyOrder
    <3> QED
      BY <1>4, <1>5, <3>1
  <2> QED
    BY <1>1, <2>1, <2>2 DEF DependencyOrder
<1>9. KernelBackedByRows'
  <2> SUFFICES ASSUME NEW v \in VPCs
               PROVE  /\ ns[v] # "absent" => Exists(v)'
                      /\ \A b \in gws[v] : \E s \in Children(v)' : Block[s] = b
    BY <1>1 DEF KernelBackedByRows, kernel
  <2>1. ASSUME ns[v] # "absent" PROVE Exists(v)'
    BY <1>1, <1>3, <1>4, <1>5, <2>1 DEF Inv, KernelBackedByRows, Applied
  <2>2. ASSUME NEW b \in gws[v] PROVE \E s \in Children(v)' : Block[s] = b
    <3>1. CASE v = cur /\ ~failed
      <4>1. b \in Gateways(kids)
        BY <1>1, <2>2, <3>1 DEF Inv, Applied
      <4>2. PICK s \in Subnets : kids[s].state # "none" /\ ~kids[s].del /\ Block[s] = b
        BY <4>1 DEF Gateways
      <4>3. s \in Children(cur) /\ ~row[s].del
        BY <1>1, <1>3, <4>2 DEF Inv, Snapshot, Children
      <4>4. Exists(s)'
        BY <1>4, <1>5, <4>3 DEF Children
      <4> QED
        BY <3>1, <4>2, <4>3, <4>4 DEF Children
    <3>2. CASE v # cur \/ failed
      <4>1. PICK s \in Children(v) : Block[s] = b
        BY <2>2 DEF Inv, KernelBackedByRows
      <4>2. Exists(s)'
        BY <1>4, <1>5, <3>2, <4>1 DEF Children
      <4> QED
        BY <4>1, <4>2 DEF Children
    <3> QED
      BY <3>1, <3>2
  <2> QED
    BY <2>1, <2>2
<1>10. ConvergedIsApplied'
  <2> SUFFICES ASSUME NEW v \in VPCs, v \notin lost \cup tampered, Converged(v)'
               PROVE  /\ ns[v] = "ns"
                      /\ \A s \in Children(v)' : Converged(s)' => Block[s] \in gws[v]
    BY <1>1 DEF ConvergedIsApplied, kernel
  <2>1. CASE v = cur
    <3>1. ~failed /\ ~row[cur].del
      <4>1. row'[cur].state = "available" /\ ~row'[cur].del
        BY <2>1 DEF Converged
      <4>2. ~removed(cur) /\ row'[cur] = Observed(row[cur])
        BY <1>2, <1>5, <4>1 DEF NoRow
      <4>3. Observed(row[cur]).state = "available" => ~failed
        BY DEF Observed
      <4> QED
        BY <4>1, <4>2, <4>3
    <3>2. ns[cur] = "ns" /\ gws[cur] = Gateways(kids)
      BY <1>1, <1>3, <2>1, <3>1 DEF Inv, Applied
    <3>3. ASSUME NEW s \in Children(v)', Converged(s)' PROVE Block[s] \in Gateways(kids)
      <4>1. s \in Children(cur) /\ ~row[s].del
        BY <1>4, <1>5, <2>1, <3>3 DEF Children, Converged
      <4> QED
        BY <1>3, <4>1 DEF Gateways, Children
    <3> QED
      BY <2>1, <3>2, <3>3
  <2>2. CASE v # cur
    <3>1. Converged(v)
      BY <1>2, <1>5, <2>2 DEF Converged
    <3>2. ASSUME NEW s \in Children(v)', Converged(s)'
          PROVE  s \in Children(v) /\ Converged(s)
      <4>1. s \in Subnets /\ VPCOf[s] = v /\ ~touched(s)
        BY <1>5, <2>2, <3>2 DEF Children
      <4> QED
        BY <1>2, <1>5, <3>2, <4>1 DEF Children, Converged, Exists
    <3> QED
      BY <3>1, <3>2 DEF Inv, ConvergedIsApplied
  <2> QED
    BY <2>1, <2>2
<1>11. Snapshot' /\ Applied' /\ Listing'
  BY <1>1 DEF Inv, Return, sweep, Snapshot, Applied, Listing
<1> QED
  BY <1>6, <1>7, <1>8, <1>9, <1>10, <1>11 DEF Inv

=============================================================================
