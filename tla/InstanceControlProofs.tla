----------------------- MODULE InstanceControlProofs ------------------------
(***************************************************************************)
(* The safety properties of InstanceControl for any number of instances,   *)
(* addresses and containers, any page size and any queue limit, with and   *)
(* without containers removed by hand: the steps of Podman, the hook, the  *)
(* kernel and the reconciler's calls to them preserve the invariant of     *)
(* InstanceReconcileProofs as well, and the properties follow from it.     *)
(***************************************************************************)
EXTENDS InstanceReconcileProofs

-----------------------------------------------------------------------------
(* Steps of Podman, the hook and the kernel.                               *)

(* They start no container, and make a link only for one that was started. *)
Tame ==
  /\ UNCHANGED db
  /\ ctr' \in [Instances -> Containers]
  /\ eni' \in [Instances -> {"none", "live", "stale"}]
  /\ \A i \in Instances :
       /\ ctr'[i].st # "none" => ctr'[i].id # None
       /\ ctr'[i].st \in WasStarted => ctr[i].st \in WasStarted /\ ctr'[i].id = ctr[i].id
       /\ eni'[i] # "none" => eni[i] # "none" \/ ctr[i].st \in WasStarted

(* Such a step keeps the data invariant.                                   *)
LEMMA TameData == DataInv /\ Tame => DataInv'
<1> SUFFICES ASSUME DataInv, Tame PROVE DataInv'
  OBVIOUS
<1>1. row' = row /\ used' = used /\ lease' = lease
  BY DEF Tame, db
<1>2. RowShape' /\ Leases'
  BY <1>1 DEF DataInv, RowShape, Leases, Exists
<1>3. Bound'
  BY <1>1 DEF DataInv, Bound, Exists, Tame
<1>4. Links'
  BY <1>1 DEF DataInv, Links, Bound, Exists, Tame
<1> QED
  BY <1>2, <1>3, <1>4 DEF DataInv

(* And the whole invariant, when the reconciler does not move.             *)
LEMMA TameStep ==
  Inv /\ Tame /\ UNCHANGED <<queue, sweep, cur, snap, made, pc>> => Inv'
<1> SUFFICES ASSUME Inv, Tame, UNCHANGED <<queue, sweep, cur, snap, made, pc>> PROVE Inv'
  OBVIOUS
<1>1. TypeOK'
  BY DEF Inv, TypeOK, Tame, db, queue, sweep
<1>2. DataInv'
  BY TameData DEF Inv
<1>3. Control'
  <2>1. row' = row
    BY DEF Tame, db
  <2>2. cur \in Instances => /\ ctr'[cur].st \in WasStarted => ctr[cur].st \in WasStarted
                             /\ eni'[cur] # "none" => eni[cur] # "none"
                                                      \/ ctr[cur].st \in WasStarted
    BY DEF Tame
  <2> QED
    BY <2>1, <2>2 DEF Inv, Control, Exists
<1> QED
  BY <1>1, <1>2, <1>3 DEF Inv

(* A step that changes one container and its link.                         *)
LEMMA OneContainer ==
  ASSUME Inv, UNCHANGED db, NEW i \in Instances,
         NEW c \in Containers, NEW e \in {"none", "live", "stale"},
         ctr' = [ctr EXCEPT ![i] = c], eni' = [eni EXCEPT ![i] = e],
         c.st # "none" => c.id # None,
         c.st \in WasStarted => ctr[i].st \in WasStarted /\ c.id = ctr[i].id,
         e # "none" => eni[i] # "none" \/ ctr[i].st \in WasStarted
  PROVE  Tame
<1>1. \A j \in Instances : /\ ctr'[j] = IF j = i THEN c ELSE ctr[j]
                           /\ eni'[j] = IF j = i THEN e ELSE eni[j]
  BY DEF Inv, TypeOK
<1>2. ctr' \in [Instances -> Containers] /\ eni' \in [Instances -> {"none", "live", "stale"}]
  BY DEF Inv, TypeOK
<1>3. \A j \in Instances : ctr[j].st # "none" => ctr[j].id # None
  BY DEF Inv, DataInv, Bound
<1> QED
  BY <1>1, <1>2, <1>3 DEF Tame

(* An untouched link is one written with its own value.                    *)
LEMMA SameLink ==
  ASSUME Inv, NEW i \in Instances, UNCHANGED eni
  PROVE  eni' = [eni EXCEPT ![i] = eni[i]] /\ eni[i] \in {"none", "live", "stale"}
BY DEF Inv, TypeOK

(* What Changed yields.                                                    *)
LEMMA ChangedForm ==
  ASSUME NEW c \in Containers, NEW late \in {"no", "create", "delete"},
         NEW st \in Statuses
  PROVE  /\ Changed(c, late, st) \in Containers
         /\ Changed(c, late, st).id = c.id /\ Changed(c, late, st).st = st
BY DEF Containers, Changed

(* Nothing happens.                                                        *)
LEMMA NothingTame == Inv /\ UNCHANGED <<db, world>> => Tame
BY DEF Inv, DataInv, Bound, TypeOK, Tame, world

(* A container is made.                                                    *)
LEMMA MakeTame == ASSUME Inv, NEW i \in Instances, UNCHANGED db, Make(i) PROVE Tame
<1> DEFINE c == [id |-> ctr[i].id + 1, late |-> "no", st |-> "created"]
<1>1. c \in Containers /\ c.st = "created" /\ c.id # None
  BY InstanceAssumption DEF Make, Inv, TypeOK, Containers, Statuses, None
<1>2. ctr' = [ctr EXCEPT ![i] = c] /\ UNCHANGED eni
  BY DEF Make
<1> HIDE DEF c
<1>3. c.st \notin WasStarted
  BY <1>1 DEF WasStarted, Hooked, Reported
<1> QED
  BY Zenon, <1>1, <1>2, <1>3, SameLink, OneContainer

(* A container is removed.                                                 *)
LEMMA RemoveTame == ASSUME Inv, NEW i \in Instances, UNCHANGED db, Remove(i) PROVE Tame
<1> DEFINE c == Changed(ctr[i], "no", "none")
           e == IF eni[i] = "live" THEN "stale" ELSE eni[i]
<1>1. c \in Containers /\ c.st = "none"
  BY ChangedForm DEF Inv, TypeOK, Statuses
<1>2. e \in {"none", "live", "stale"} /\ (e # "none" => eni[i] # "none")
  BY DEF Inv, TypeOK
<1>3. ctr' = [ctr EXCEPT ![i] = c] /\ eni' = [eni EXCEPT ![i] = e]
  BY DEF Remove
<1> HIDE DEF c, e
<1>4. c.st \notin WasStarted
  BY <1>1 DEF WasStarted, Hooked, Reported
<1> QED
  BY Zenon, <1>1, <1>2, <1>3, <1>4, OneContainer

(* A call is left pending on a container.                                  *)
LEMMA LateTame ==
  ASSUME Inv, NEW i \in Instances, NEW late \in {"no", "create", "delete"}, UNCHANGED <<db, eni>>,
         ctr' = [ctr EXCEPT ![i] = Changed(ctr[i], late, ctr[i].st)]
  PROVE  Tame
<1> DEFINE c == Changed(ctr[i], late, ctr[i].st)
<1>1. c \in Containers /\ c.st = ctr[i].st /\ c.id = ctr[i].id
  <2>1. ctr[i] \in Containers
    BY DEF Inv, TypeOK
  <2>2. ctr[i].st \in Statuses
    BY <2>1 DEF Containers
  <2> QED
    BY <2>1, <2>2 DEF Containers, Changed
<1>2. c.st # "none" => c.id # None
  BY <1>1 DEF Inv, DataInv, Bound
<1>3. ctr' = [ctr EXCEPT ![i] = c] /\ UNCHANGED db
  OBVIOUS
<1>4. eni' = [eni EXCEPT ![i] = eni[i]] /\ eni[i] \in {"none", "live", "stale"}
  BY SameLink
<1> HIDE DEF c
<1> QED
  BY Zenon, <1>1, <1>2, <1>3, <1>4, OneContainer

(* A started container goes on, and so does its link.                      *)
LEMMA StartedTame ==
  ASSUME Inv, NEW i \in Instances, ctr[i].st \in WasStarted, NEW st \in WasStarted,
         NEW e \in {"none", "live", "stale"}, UNCHANGED db,
         ctr' = [ctr EXCEPT ![i] = Changed(ctr[i], ctr[i].late, st)],
         eni' = [eni EXCEPT ![i] = e]
  PROVE  Tame
<1> DEFINE c == Changed(ctr[i], ctr[i].late, st)
<1>1. c \in Containers /\ c.st = st /\ c.id = ctr[i].id
  <2>1. ctr[i] \in Containers
    BY DEF Inv, TypeOK
  <2>2. ctr[i].late \in {"no", "create", "delete"}
    BY <2>1 DEF Containers
  <2>3. st \in Statuses
    BY DEF WasStarted, Statuses
  <2> QED
    BY <2>1, <2>2, <2>3 DEF Containers, Changed
<1>2. c.id # None
  BY <1>1 DEF Inv, DataInv, Bound, WasStarted, Hooked, Reported
<1>3. ctr' = [ctr EXCEPT ![i] = c]
  OBVIOUS
<1> HIDE DEF c
<1> QED
  BY Zenon, <1>1, <1>2, <1>3, OneContainer

(* The hook handler and a container that exits.                            *)
LEMMA HookStep ==
  ASSUME NEW i \in Instances, Inv,
         HookIdentify(i) \/ HookPlumb(i) \/ HookPlumbFails(i) \/ HookVerify(i) \/ ContainerExits(i)
  PROVE  Inv'
<1>1. UNCHANGED db /\ UNCHANGED <<queue, sweep, cur, snap, made, pc>>
  BY DEF HookIdentify, HookPlumb, HookPlumbFails, HookVerify, ContainerExits, Hook, Outside
<1>2. ctr[i].st \in WasStarted
  BY DEF HookIdentify, HookPlumb, HookPlumbFails, HookVerify, ContainerExits, Hook,
         WasStarted, Hooked, Reported
<1>3. PICK st \in WasStarted : ctr' = [ctr EXCEPT ![i] = Changed(ctr[i], ctr[i].late, st)]
  BY DEF HookIdentify, HookPlumb, HookPlumbFails, HookVerify, ContainerExits, Hook,
         WasStarted, Hooked, Reported
<1>4. PICK e \in {"none", "live", "stale"} : eni' = [eni EXCEPT ![i] = e]
  <2>1. eni[i] \in {"none", "live", "stale"} /\ (UNCHANGED eni => eni' = [eni EXCEPT ![i] = eni[i]])
    BY SameLink DEF Inv, TypeOK
  <2> QED
    BY <2>1 DEF HookIdentify, HookPlumb, HookPlumbFails, HookVerify, ContainerExits
<1>5. Tame
  BY Zenon, <1>1, <1>2, <1>3, <1>4, StartedTame
<1> QED
  BY Zenon, <1>1, <1>5, TameStep

(* Late effects, removal by hand, and the kernel.                          *)
LEMMA OutsideStep ==
  ASSUME NEW i \in Instances, Inv, LateEffect(i) \/ RemovedByHand(i) \/ KernelReaps(i)
  PROVE  Inv'
<1>1. UNCHANGED db /\ UNCHANGED <<queue, sweep, cur, snap, made, pc>>
  BY DEF LateEffect, RemovedByHand, KernelReaps, Outside
<1>2. CASE LateEffect(i) \/ RemovedByHand(i)
  <2>1. Make(i) \/ Remove(i)
    BY <1>2 DEF LateEffect, RemovedByHand
  <2>2. Tame
    BY Zenon, <1>1, <2>1, MakeTame, RemoveTame
  <2> QED
    BY Zenon, <1>1, <2>2, TameStep
<1>3. CASE KernelReaps(i)
  <2>1. Tame
    BY <1>1, <1>3 DEF KernelReaps, Tame, Inv, TypeOK, DataInv, Bound
  <2> QED
    BY Zenon, <1>1, <2>1, TameStep
<1> QED
  BY <1>2, <1>3

-----------------------------------------------------------------------------
(* The calls of the reconciler.                                            *)

(* Delete, whatever comes of it.                                           *)
LEMMA DeleteTame ==
  ASSUME Inv, NEW i \in Instances, NEW id, UNCHANGED db, Delete(i, id) \/ DeleteError(i, id)
  PROVE  Tame
<1>1. \/ UNCHANGED world
      \/ Remove(i)
      \/ ctr' = [ctr EXCEPT ![i] = Changed(ctr[i], "delete", ctr[i].st)] /\ UNCHANGED eni
  BY DEF Delete, DeleteError
<1>2. "delete" \in {"no", "create", "delete"} /\ UNCHANGED db
  OBVIOUS
<1> QED
  BY Zenon, <1>1, <1>2, NothingTame, RemoveTame, LateTame

(* A call that starts nothing, after which the reconciler goes on.         *)
LEMMA CallStep ==
  ASSUME Inv, Tame, Control', UNCHANGED <<queue, sweep, cur>>,
         snap' \in Rows, made' \in 0..MaxContainers,
         pc' \in {"bind", "fail", "unplug", "finish"}
  PROVE  Inv'
<1>1. TypeOK'
  BY DEF Inv, TypeOK, Tame, db, queue, sweep
<1>2. DataInv'
  BY Zenon, TameData DEF Inv
<1> QED
  BY <1>1, <1>2 DEF Inv

(* Create.                                                                 *)
LEMMA CreateStep == Inv /\ (CreateNew \/ CreateFails) => Inv'
<1> SUFFICES ASSUME Inv, CreateNew \/ CreateFails PROVE Inv'
  OBVIOUS
<1>1. cur \in Instances /\ ~snap.del
  BY DEF Inv, Control, CreateNew, CreateFails
<1>2. UNCHANGED db /\ UNCHANGED <<queue, sweep, cur>> /\ UNCHANGED snap
  BY DEF CreateNew, CreateFails, Goto
<1>3. Tame
  <2>1. \/ UNCHANGED world
        \/ Make(cur)
        \/ ctr' = [ctr EXCEPT ![cur] = Changed(ctr[cur], "create", ctr[cur].st)] /\ UNCHANGED eni
    BY DEF CreateNew, CreateFails
  <2>2. "create" \in {"no", "create", "delete"}
    OBVIOUS
  <2> QED
    BY Zenon, <1>1, <1>2, <2>1, <2>2, NothingTame, MakeTame, LateTame
<1>4. pc' \in {"bind", "fail"} /\ made' \in 0..MaxContainers
  BY <1>1, InstanceAssumption DEF CreateNew, CreateFails, Goto, Make, Inv, TypeOK, Containers
<1>5. Control'
  BY <1>1, <1>2, <1>4 DEF Control
<1> QED
  BY <1>2, <1>3, <1>4, <1>5, CallStep DEF Inv, TypeOK

(* A Delete that fails.                                                    *)
LEMMA DeleteFailsStep == Inv /\ (UndoFails \/ TerminateContainerFails) => Inv'
<1> SUFFICES ASSUME Inv, UndoFails \/ TerminateContainerFails PROVE Inv'
  OBVIOUS
<1>1. cur \in Instances
  BY DEF Inv, Control, UndoFails, TerminateContainerFails
<1>2. /\ UNCHANGED db /\ UNCHANGED <<queue, sweep, cur>> /\ UNCHANGED made
      /\ snap' \in Rows /\ pc' = "fail"
  BY <1>1 DEF UndoFails, TerminateContainerFails, Goto, Inv, TypeOK
<1>3. Tame
  <2>1. \E id : DeleteError(cur, id)
    BY DEF UndoFails, TerminateContainerFails
  <2> QED
    BY Zenon, <1>1, <1>2, <2>1, DeleteTame
<1>4. Control'
  BY <1>1, <1>2 DEF Control
<1> QED
  BY <1>2, <1>3, <1>4, CallStep DEF Inv, TypeOK

(* createdDuringStateChange is over.                                       *)
LEMMA UndoStep == Inv /\ Undo => Inv'
<1> SUFFICES ASSUME Inv, Undo PROVE Inv'
  OBVIOUS
<1>1. cur \in Instances /\ Return /\ Requeue /\ UNCHANGED db /\ Delete(cur, made)
  BY DEF Inv, Control, Undo
<1>2. Tame
  BY Zenon, <1>1, DeleteTame
<1>3. DataInv'
  BY Zenon, <1>2, TameData DEF Inv
<1> QED
  BY <1>1, <1>2, <1>3, ReturnStep DEF Inv, TypeOK, Tame, db

(* terminate's Delete: no container of the instance that was started is    *)
(* left, for it would be the one that the row names.                       *)
LEMMA TerminateContainerStep == Inv /\ TerminateContainer => Inv'
<1> SUFFICES ASSUME Inv, TerminateContainer PROVE Inv'
  OBVIOUS
<1>1. cur \in Instances /\ Exists(cur) /\ row[cur].del /\ snap.rid = row[cur].rid
  BY DEF Inv, Control, TerminateContainer
<1>2. /\ UNCHANGED db /\ UNCHANGED <<queue, sweep, cur>> /\ UNCHANGED <<snap, made>>
      /\ pc' = "unplug"
  BY DEF TerminateContainer, Goto
<1>3. Tame
  BY Zenon, <1>1, <1>2, NothingTame, DeleteTame DEF TerminateContainer
<1>4. ctr'[cur].st \notin WasStarted
  <2>1. ctr[cur].st \in WasStarted => ctr[cur].st # "none" /\ ctr[cur].id # None
                                      /\ snap.rid = ctr[cur].id
    BY <1>1 DEF Inv, DataInv, Bound, WasStarted, Hooked, Reported
  <2>2. CASE Remove(cur)
    BY Zenon, <1>1, <2>2, ChangedForm DEF Remove, Inv, TypeOK, WasStarted, Hooked, Reported, Changed
  <2>3. CASE UNCHANGED world /\ (snap.rid = None \/ ~Present(cur, snap.rid))
    BY <1>1, <2>1, <2>3 DEF Present, world
  <2> QED
    BY <2>2, <2>3 DEF TerminateContainer, Delete
<1>5. Control'
  <2>1. row' = row
    BY <1>2 DEF db
  <2> QED
    BY <1>1, <1>2, <1>4, <2>1 DEF Control, Exists
<1> QED
  BY <1>2, <1>3, <1>5, CallStep DEF Inv, TypeOK

(* DeleteENI.                                                              *)
LEMMA DeleteENIStep == Inv /\ DeleteENI => Inv'
<1> SUFFICES ASSUME Inv, DeleteENI PROVE Inv'
  OBVIOUS
<1>1. /\ cur \in Instances /\ Exists(cur) /\ row[cur].del /\ snap.rid = row[cur].rid
      /\ ctr[cur].st \notin WasStarted
  BY DEF Inv, Control, DeleteENI
<1>2. /\ UNCHANGED db /\ UNCHANGED <<queue, sweep, cur>> /\ UNCHANGED <<snap, made, ctr>>
      /\ pc' = "finish" /\ eni' = [eni EXCEPT ![cur] = "none"]
  BY DEF DeleteENI, Goto
<1>3. Tame
  BY <1>1, <1>2 DEF Tame, Inv, TypeOK, DataInv, Bound
<1>4. Control'
  <2>1. row' = row /\ eni'[cur] = "none"
    BY <1>1, <1>2 DEF db, Inv, TypeOK
  <2> QED
    BY <1>1, <1>2, <2>1 DEF Control, Exists
<1> QED
  BY <1>2, <1>3, <1>4, CallStep DEF Inv, TypeOK

(* Start: the container is the one that the row names.                     *)
LEMMA StartContainerStep == Inv /\ StartContainer => Inv'
<1> SUFFICES ASSUME Inv, StartContainer PROVE Inv'
  OBVIOUS
<1> DEFINE st == IF ctr[cur].st \in {"created", "exited"} THEN "hook" ELSE ctr[cur].st
           c == Changed(ctr[cur], ctr[cur].late, st)
<1>1. /\ cur \in Instances /\ ~snap.del /\ Exists(cur) /\ row[cur].rid = ctr[cur].id
      /\ ctr[cur].st # "none" /\ ctr[cur].id # None
  BY DEF Inv, Control, StartContainer, Present, DataInv, Bound
<1>2. /\ UNCHANGED db /\ UNCHANGED <<queue, sweep, cur>> /\ UNCHANGED <<snap, made, eni>>
      /\ pc' = "starting" /\ ctr' = [ctr EXCEPT ![cur] = c]
  BY DEF StartContainer, Goto
<1>3. c \in Containers /\ c.id = ctr[cur].id
  BY <1>1 DEF Inv, TypeOK, Containers, Changed, Statuses, Hooked, Reported
<1> HIDE DEF st, c
<1>4. \A j \in Instances : ctr'[j] = IF j = cur THEN c ELSE ctr[j]
  BY <1>2 DEF Inv, TypeOK
<1>5. TypeOK'
  BY Zenon, <1>2, <1>3 DEF Inv, TypeOK, db, queue, sweep
<1>6. DataInv'
  <2>1. row' = row /\ used' = used /\ lease' = lease
    BY <1>2 DEF db
  <2>2. RowShape' /\ Leases' /\ Links'
    BY <1>2, <2>1 DEF Inv, DataInv, RowShape, Leases, Links, Exists
  <2>3. Bound'
    BY <1>1, <1>3, <1>4, <2>1 DEF Inv, DataInv, Bound, Exists
  <2> QED
    BY <2>2, <2>3 DEF DataInv
<1>7. Control'
  BY <1>1, <1>2 DEF Control
<1> QED
  BY <1>5, <1>6, <1>7 DEF Inv

(* A step that changes nothing.                                            *)
LEMMA StutterStep == Inv /\ UNCHANGED vars => Inv'
<1> SUFFICES ASSUME Inv, UNCHANGED vars PROVE Inv'
  OBVIOUS
<1>1. UNCHANGED <<db, world>> /\ UNCHANGED <<queue, sweep, cur, snap, made, pc>>
  BY DEF vars
<1> QED
  BY <1>1, NothingTame, TameStep

-----------------------------------------------------------------------------
(* The invariant is inductive.                                             *)
LEMMA InvStep == Inv /\ [Next]_vars => Inv'
<1> SUFFICES ASSUME Inv, [Next]_vars PROVE Inv'
  OBVIOUS
<1>1. CASE Start \/ Select
  BY <1>1, LoopStep, RetryTickStep DEF Select
<1>2. CASE Requests
  BY <1>2, LoopStep, RunInstanceStep, TerminateStep DEF Requests
<1>3. CASE HookHandler
  BY <1>3, HookStep DEF HookHandler
<1>4. CASE Reconcile
  BY <1>4, QuietReturnStep, QuietStep, CreateStep, BindStep, UndoStep, StartContainerStep,
     RecordStep, TerminateContainerStep, DeleteENIStep, FinishStep
     DEF Reconcile
<1>5. CASE Worker
  BY <1>4, <1>5, LoopStep, SweepPageStep, TakeStep DEF Worker
<1>6. CASE Environment
  BY <1>6, OutsideStep DEF Environment
<1>7. CASE CallFails
  BY <1>7, CreateStep, QuietStep, DeleteFailsStep, ExitStep, HookStep
     DEF CallFails, DiscardFails
<1>8. CASE Fault
  BY <1>7, <1>8, ExitStep, LoopStep, HookStep, OutsideStep DEF Fault, Crash
<1>9. CASE UNCHANGED vars
  BY <1>9, StutterStep
<1> QED
  BY <1>1, <1>2, <1>3, <1>5, <1>6, <1>8, <1>9 DEF Next

(* So it always holds.                                                     *)
LEMMA InvAlways == Safety => []Inv
BY InvInit, InvStep, PTL DEF Safety

(* Types, with the queue within its limit and no row marked twice.         *)
THEOREM TypeCorrect == Safety => []TypeOK
<1>1. Inv => TypeOK
  BY DEF Inv
<1> QED
  BY <1>1, InvAlways, PTL

(* FinishInstanceTermination releases a lease only when the router has no  *)
(* link of the instance and Podman no container of it that ever ran.       *)
THEOREM LeasesOutliveInterfaces == Safety => []LeaseOutlivesInterface
<1>1. Inv => LeaseOutlivesInterface
  <2> SUFFICES ASSUME Inv, NEW i \in Instances, ~Exists(i)
               PROVE  eni[i] = "none" /\ ctr[i].st \in {"none", "created"}
    BY DEF LeaseOutlivesInterface
  <2>1. eni[i] = "none" /\ ctr[i].st \notin WasStarted
    BY DEF Inv, DataInv, Bound, Links
  <2>2. ctr[i].st \in Statuses
    BY DEF Inv, TypeOK, Containers
  <2> QED
    BY <2>1, <2>2 DEF WasStarted, Statuses
<1> QED
  BY <1>1, InvAlways, PTL

(* nextPrivateIP and the order of terminate give no address to two         *)
(* instances, on the router's links or in the rows.                        *)
THEOREM AddressesExclusive == Safety => []AddressExclusive
<1>1. Inv => AddressExclusive
  BY DEF Inv, DataInv, Links, Leases, AddressExclusive
<1> QED
  BY <1>1, InvAlways, PTL

(* No outcome recorded by RecordInstance revokes a termination.            *)
THEOREM TerminationsFinal == Safety => []TerminationIsFinal
<1>1. Inv => TerminationIsFinal
  <2> SUFFICES ASSUME Inv, NEW i \in Instances, row[i].del
               PROVE  row[i].state \in {"shutting-down", "failed"} /\ row[i].obs < row[i].gen
    BY DEF TerminationIsFinal
  <2>1. row[i].obs \in 0..1
    BY DEF Inv, TypeOK, Rows
  <2>2. Exists(i)
    BY DEF Inv, DataInv, RowShape, NoRow
  <2> QED
    BY <2>1, <2>2 DEF Inv, DataInv, RowShape
<1> QED
  BY <1>1, InvAlways, PTL

=============================================================================
