-------------------------- MODULE WorkQueueProofs --------------------------
(* The queue stays within its bound and loses no wakeup, for any number of *)
(* keys and requests and any queue limit.                                  *)
EXTENDS WorkQueue, QueueProofs

(* TypeOK with its bounds in the form the lemmas of QueueProofs speak of.  *)
LEMMA TypeBounds ==
  TypeOK => /\ IsFiniteSet(Keys)
            /\ Bounded(pending, Keys) /\ Bounded(retries, Keys)
BY WorkQueueAssumption DEF TypeOK, Bounded

(* Initially the queue is empty.                                           *)
LEMMA TypeInit == Init => TypeOK
<1>1. Cardinality({}) <= QueueLimit
  BY EmptyBounded DEF Bounded
<1>2. Init => hinter \in [Hinters -> [at : {"idle", "insert", "signal"}, keys : SUBSET Keys]]
  BY DEF Init, Idle
<1>3. Init => commits \in 0..MaxCommits
  BY WorkQueueAssumption DEF Init
<1>4. Init => Cardinality(pending) <= QueueLimit /\ Cardinality(retries) <= QueueLimit
  BY <1>1 DEF Init
<1> QED
  BY Zenon, <1>2, <1>3, <1>4 DEF Init, TypeOK

(* Every step keeps both maps within queueLimit.                           *)
LEMMA TypeStep == TypeOK /\ [Next]_vars => TypeOK'
<1> SUFFICES ASSUME TypeOK, [Next]_vars PROVE TypeOK'
  OBVIOUS
<1> USE TypeBounds DEF queue
<1>1. ASSUME NEW h \in Hinters, NEW k \in Keys, Commit(h, k) PROVE TypeOK'
  BY <1>1, WorkQueueAssumption DEF Commit, TypeOK
<1>2. ASSUME NEW h \in Hinters, HintInsert(h) PROVE TypeOK'
  <2>1. PICK k \in hinter[h].keys : pending' = AddPending(pending, k)
    BY <1>2 DEF HintInsert
  <2>2. k \in Keys
    BY <2>1 DEF TypeOK
  <2>3. Bounded(pending', Keys)
    BY <2>1, <2>2, AddPendingBounded
  <2> QED
    BY <1>2, <2>3 DEF HintInsert, TypeOK, Bounded
<1>3. ASSUME NEW h \in Hinters, HintSignal(h) PROVE TypeOK'
  BY <1>3 DEF HintSignal, TypeOK, Idle
<1>4. ASSUME NEW k \in Keys, Pop(k) PROVE TypeOK'
  <2>1. Bounded(pending', Keys)
    BY <1>4, RemoveBounded DEF Pop
  <2> QED
    BY <1>4, <2>1 DEF Pop, TypeOK, Bounded
<1>5. ASSUME NEW k \in Keys, SweepNext(k) PROVE TypeOK'
  BY <1>5 DEF SweepNext, TypeOK
<1>6. CASE PopEmpty \/ SweepDone \/ Wake \/ Resync
  BY Zenon, <1>6 DEF PopEmpty, SweepDone, Wake, Resync, TypeOK
<1>7. CASE Read
  BY <1>7 DEF Read, TypeOK
<1>8. CASE FinishStale
  <2>1. PICK k \in cur : pending' = AddPending(pending, k)
    BY <1>8 DEF FinishStale
  <2>2. Bounded(pending', Keys)
    BY <2>1, AddPendingBounded DEF TypeOK
  <2> QED
    BY <1>8, <2>2 DEF FinishStale, Return, TypeOK, Bounded
<1>9. CASE FinishOK
  <2>1. Bounded(retries', Keys)
    BY <1>9, RemoveBounded DEF FinishOK
  <2> QED
    BY <1>9, <2>1 DEF FinishOK, Return, TypeOK, Bounded
<1>10. CASE FinishFailed
  <2>1. PICK k \in cur : retries' = AddRetry(retries, k)
    BY <1>10 DEF FinishFailed
  <2>2. Bounded(retries', Keys)
    BY <2>1, AddRetryBounded DEF TypeOK
  <2> QED
    BY <1>10, <2>2 DEF FinishFailed, Return, TypeOK, Bounded
<1>11. ASSUME NEW due \in SUBSET Keys, Tick(due) PROVE TypeOK'
  <2>1. Bounded(pending', Keys)
    BY <1>11, AddDueBounded DEF Tick
  <2> QED
    BY <1>11, <2>1 DEF Tick, TypeOK, Bounded
<1>12. CASE UNCHANGED vars
  BY <1>12 DEF vars, TypeOK
<1> QED
  BY <1>1, <1>2, <1>3, <1>4, <1>5, <1>6, <1>7, <1>8, <1>9, <1>10, <1>11, <1>12
     DEF Next, Request, Worker, Finish

(* Enqueue and retry never take their maps beyond queueLimit.              *)
THEOREM QueueBounded == Spec => []TypeOK
BY TypeInit, TypeStep, PTL DEF Spec

(* Every step keeps a token, or one about to be sent, whenever Run waits   *)
(* in select with a hint in the queue.                                     *)
LEMMA WakeupStep == TypeOK /\ NoLostWakeup /\ [Next]_vars => NoLostWakeup'
<1> SUFFICES ASSUME TypeOK, NoLostWakeup, [Next]_vars PROVE NoLostWakeup'
  OBVIOUS
<1> USE DEF queue
<1>1. ASSUME NEW h \in Hinters, NEW k \in Keys, Commit(h, k) PROVE NoLostWakeup'
  BY <1>1 DEF Commit, TypeOK, NoLostWakeup
<1>2. ASSUME NEW h \in Hinters, HintInsert(h) PROVE NoLostWakeup'
  BY <1>2 DEF HintInsert, TypeOK, NoLostWakeup
<1>3. ASSUME NEW h \in Hinters, HintSignal(h) PROVE NoLostWakeup'
  BY <1>3 DEF HintSignal, NoLostWakeup
<1>4. CASE PopEmpty
  BY <1>4 DEF PopEmpty, NoLostWakeup
<1>5. ASSUME pc' # "select" PROVE NoLostWakeup'
  BY <1>5 DEF NoLostWakeup
<1>6. CASE Finish \/ Read \/ SweepDone \/ Wake \/ Resync
  BY <1>5, <1>6 DEF Finish, FinishStale, FinishOK, FinishFailed, Return, Read,
                    SweepDone, Wake, Resync
<1>7. ASSUME NEW k \in Keys, Pop(k) \/ SweepNext(k) PROVE NoLostWakeup'
  BY <1>5, <1>7 DEF Pop, SweepNext
<1>8. ASSUME NEW due \in SUBSET Keys, Tick(due) PROVE NoLostWakeup'
  BY <1>5, <1>8 DEF Tick
<1>9. CASE UNCHANGED vars
  BY <1>9 DEF vars, NoLostWakeup
<1> QED
  BY <1>1, <1>2, <1>3, <1>4, <1>6, <1>7, <1>8, <1>9 DEF Next, Request, Worker

(* Run never sleeps on a hint: Enqueue inserts before it signals, and one  *)
(* token in the one-slot channel is enough for any number of hints.        *)
THEOREM WakeupNotLost == Spec => []NoLostWakeup
<1>1. Init => NoLostWakeup
  BY DEF Init, NoLostWakeup
<1> QED
  BY <1>1, QueueBounded, WakeupStep, PTL DEF Spec

=============================================================================
