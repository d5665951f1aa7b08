---------------------------- MODULE QueueProofs ----------------------------
(* What the queue operations of QueueOps preserve, and what a page of IDs  *)
(* is, for both reconcilers.                                               *)
EXTENDS QueueOps, FiniteSetTheorems, WellFoundedInduction, TLAPS

(* A set of IDs that fits the queue.                                       *)
Bounded(q, S) == q \subseteq S /\ Cardinality(q) <= QueueLimit

(* The empty queue fits.                                                   *)
LEMMA EmptyBounded ==
  ASSUME NEW S
  PROVE  Bounded({}, S)
BY FS_EmptySet, QueueLimitAssumption DEF Bounded

(* Enqueue never takes `pending` beyond queueLimit.                        *)
LEMMA AddPendingBounded ==
  ASSUME NEW S, IsFiniteSet(S), NEW q, Bounded(q, S), NEW id \in S
  PROVE  Bounded(AddPending(q, id), S)
<1>1. IsFiniteSet(q) /\ Cardinality(q) \in Nat
  BY FS_Subset, FS_CardinalityType DEF Bounded
<1>2. Cardinality(q \cup {id}) = IF id \in q THEN Cardinality(q) ELSE Cardinality(q) + 1
  BY Zenon, <1>1, FS_AddElement
<1>3. Cardinality(q) < QueueLimit => Cardinality(q \cup {id}) <= QueueLimit
  BY <1>1, <1>2, QueueLimitAssumption
<1> QED
  BY <1>3 DEF Bounded, AddPending

(* retry never takes `retries` beyond queueLimit.                          *)
LEMMA AddRetryBounded ==
  ASSUME NEW S, IsFiniteSet(S), NEW q, Bounded(q, S), NEW id \in S
  PROVE  Bounded(AddRetry(q, id), S)
<1>1. IsFiniteSet(q) /\ Cardinality(q) \in Nat
  BY FS_Subset, FS_CardinalityType DEF Bounded
<1>2. CASE id \in q
  <2>1. q \cup {id} = q
    BY <1>2
  <2> QED
    BY <2>1, <1>2 DEF Bounded, AddRetry
<1>3. CASE id \notin q
  <2>1. Cardinality(q \cup {id}) = Cardinality(q) + 1
    BY Zenon, <1>1, <1>3, FS_AddElement
  <2> QED
    BY <1>1, <1>3, <2>1, QueueLimitAssumption DEF Bounded, AddRetry
<1> QED
  BY <1>2, <1>3

(* enqueueDueRetries never takes `pending` beyond queueLimit.              *)
LEMMA AddDueBounded ==
  ASSUME NEW S, NEW q, Bounded(q, S), NEW due \in SUBSET S, NEW r \in AddDue(q, due)
  PROVE  Bounded(r, S)
BY QueueLimitAssumption DEF Bounded, AddDue

(* pop and clearRetry keep the bound.                                      *)
LEMMA RemoveBounded ==
  ASSUME NEW S, IsFiniteSet(S), NEW q, Bounded(q, S), NEW T
  PROVE  Bounded(q \ T, S)
<1>1. IsFiniteSet(q) /\ Cardinality(q) \in Nat /\ q \ T \in SUBSET q
  BY FS_Subset, FS_CardinalityType DEF Bounded
<1>2. Cardinality(q \ T) <= Cardinality(q) /\ Cardinality(q \ T) \in Nat
  BY <1>1, FS_Subset, FS_CardinalityType
<1> QED
  BY <1>1, <1>2, QueueLimitAssumption DEF Bounded

(* A nonempty set of naturals has a least element.                         *)
LEMMA LeastNat ==
  ASSUME NEW T \in SUBSET Nat, T # {}
  PROVE  \E m \in T : \A y \in T : m <= y
<1>1. PICK m \in T : \A y \in T : ~ (<<y, m>> \in OpToRel(<, Nat))
  BY Zenon, NatLessThanWellFounded, WFMin
<1>2. \A y \in T : ~(y < m)
  BY Zenon, <1>1 DEF OpToRel
<1> QED
  BY <1>2

(* The first `size` elements of a set of IDs, a page of a Sweep: none only *)
(* if the set is empty, and everything else comes after them.              *)
LEMMA FirstPage ==
  ASSUME NEW rest \in SUBSET Nat, IsFiniteSet(rest), NEW size \in Nat \ {0}
  PROVE  LET page == {v \in rest : Cardinality({u \in rest : u < v}) < size}
         IN  /\ page = {} => rest = {}
             /\ \A v \in rest \ page : \A u \in page : u < v
<1> DEFINE below(v) == {u \in rest : u < v}
           page == {v \in rest : Cardinality(below(v)) < size}
<1>1. rest \subseteq Nat /\ IsFiniteSet(rest) /\ size \in Nat \ {0}
  OBVIOUS
<1>2. ASSUME NEW v \in rest PROVE IsFiniteSet(below(v)) /\ Cardinality(below(v)) \in Nat
  <2>1. below(v) \in SUBSET rest
    OBVIOUS
  <2>2. IsFiniteSet(below(v))
    BY ONLY <1>1, <2>1, FS_Subset
  <2> QED
    BY ONLY <2>2, FS_CardinalityType
<1>3. ASSUME rest # {} PROVE page # {}
  <2>1. PICK m \in rest : \A y \in rest : m <= y
    BY <1>1, <1>3, LeastNat
  <2>2. below(m) = {}
    <3>1. \A y \in rest : ~(y < m)
      BY <1>1, <2>1
    <3> QED
      BY Zenon, <3>1
  <2>3. Cardinality(below(m)) = 0
    BY <2>2, FS_EmptySet
  <2>4. m \in page
    <3> HIDE DEF below
    <3> QED
      BY <1>1, <2>1, <2>3
  <2> QED
    BY <2>4
<1>4. ASSUME NEW v \in rest, v \notin page, NEW u \in page PROVE u < v
  <2>1. SUFFICES ASSUME ~(u < v) PROVE FALSE
    OBVIOUS
  <2>2. u \in rest /\ v <= u
    BY <1>1, <2>1
  <2>3. below(v) \in SUBSET below(u)
    <3>1. \A w \in rest : w < v => w < u
      BY <1>1, <2>2
    <3> QED
      BY Zenon, <3>1
  <2>4. Cardinality(below(v)) <= Cardinality(below(u))
    BY <1>2, <2>2, <2>3, FS_Subset
  <2>5. Cardinality(below(u)) < size /\ Cardinality(below(v)) >= size
    BY <1>1, <1>2, <1>4, <2>2
  <2> QED
    BY <1>1, <1>2, <2>2, <2>4, <2>5
<1> QED
  BY Zenon, <1>3, <1>4

=============================================================================
