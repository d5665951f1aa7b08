------------------------------ MODULE WorkQueue ------------------------------
(***************************************************************************)
(* The queue of QueueOps at work: request goroutines that commit a change  *)
(* and then hint it (Enqueue is two steps: the insertion under mu, then a  *)
(* non-blocking send on the one-slot channel `wake`), and the single       *)
(* goroutine in Run that pops, reconciles, waits in select and resyncs.    *)
(*                                                                         *)
(* What a reconcile does is left to NetworkControl and InstanceControl.    *)
(* Here it reads the committed state of its key and then ends in one of    *)
(* three ways: the write-back finds the key changed since the read (stale, *)
(* Enqueue), or it succeeds (clearRetry), or the effect failed (retry).    *)
(* `dirty` is the set of keys with a committed change no reconcile has     *)
(* read yet; it is what hints are for.                                     *)
(***************************************************************************)
EXTENDS QueueOps

CONSTANTS Keys,         \* resource IDs
          Hinters,      \* goroutines that serve API requests
          MaxCommits    \* bound on the number of committed changes

ASSUME WorkQueueAssumption == IsFiniteSet(Keys) /\ MaxCommits \in Nat

VARIABLES pending,      \* Controller.pending
          retries,      \* the keys of Controller.retries
          wake,         \* TRUE when the channel `wake` holds its token
          hinter,       \* what each request goroutine is doing
          pc,           \* where Run is
          cur,          \* the keys being reconciled: {} or one key
          todo,         \* keys a Sweep has still to visit
          dirty,        \* committed changes not yet read
          commits       \* number of changes committed so far

queue == <<pending, retries, wake>>
vars == <<pending, retries, wake, hinter, pc, cur, todo, dirty, commits>>

Idle == [at |-> "idle", keys |-> {}]

TypeOK ==
  /\ pending \subseteq Keys /\ Cardinality(pending) <= QueueLimit
  /\ retries \subseteq Keys /\ Cardinality(retries) <= QueueLimit
  /\ wake \in BOOLEAN
  /\ hinter \in [Hinters -> [at : {"idle", "insert", "signal"}, keys : SUBSET Keys]]
  /\ pc \in {"pop", "select", "sweep", "read", "finish", "sread", "sfinish"}
  /\ cur \subseteq Keys
  /\ todo \subseteq Keys
  /\ dirty \subseteq Keys
  /\ commits \in 0..MaxCommits

Init ==
  /\ pending = {} /\ retries = {} /\ wake = FALSE
  /\ hinter = [h \in Hinters |-> Idle]
  /\ pc = "pop" /\ cur = {} /\ todo = {}
  /\ dirty = {} /\ commits = 0

-----------------------------------------------------------------------------
(* A request goroutine.                                                    *)

(* The service's transaction commits; the hint follows it.                 *)
Commit(h, k) ==
  /\ hinter[h].at = "idle"
  /\ commits < MaxCommits
  /\ commits' = commits + 1
  /\ dirty' = dirty \cup {k}
  /\ hinter' = [hinter EXCEPT ![h] = [at |-> "insert", keys |-> {k}]]
  /\ UNCHANGED <<queue, pc, cur, todo>>

(* Enqueue, under mu.                                                      *)
HintInsert(h) ==
  /\ hinter[h].at = "insert"
  /\ \E k \in hinter[h].keys : pending' = AddPending(pending, k)
  /\ hinter' = [hinter EXCEPT ![h].at = "signal"]
  /\ UNCHANGED <<retries, wake, pc, cur, todo, dirty, commits>>

(* Enqueue, the non-blocking send: a token already there is enough.        *)
HintSignal(h) ==
  /\ hinter[h].at = "signal"
  /\ wake' = TRUE
  /\ hinter' = [hinter EXCEPT ![h] = Idle]
  /\ UNCHANGED <<pending, retries, pc, cur, todo, dirty, commits>>

-----------------------------------------------------------------------------
(* The reconciler's goroutine.                                             *)

Pop(k) ==
  /\ pc = "pop" /\ k \in pending
  /\ pending' = pending \ {k}
  /\ cur' = {k} /\ pc' = "read"
  /\ UNCHANGED <<retries, wake, hinter, todo, dirty, commits>>

(* Run going back to select after one hint, whatever else is pending.      *)
PopOnce ==
  /\ pc = "pop"
  /\ pc' = "select"
  /\ UNCHANGED <<queue, hinter, cur, todo, dirty, commits>>

PopEmpty ==
  /\ pc = "pop" /\ pending = {}
  /\ pc' = "select"
  /\ UNCHANGED <<queue, hinter, cur, todo, dirty, commits>>

Wake ==
  /\ pc = "select" /\ wake
  /\ wake' = FALSE /\ pc' = "pop"
  /\ UNCHANGED <<pending, retries, hinter, cur, todo, dirty, commits>>

(* retries.C: the entries of `due` have reached their due time.  They stay *)
(* in the table, due again retryMax later, until clearRetry.               *)
Tick(due) ==
  /\ pc = "select"
  /\ due \subseteq retries
  /\ pending' \in AddDue(pending, due)
  /\ pc' = "pop"
  /\ UNCHANGED <<retries, wake, hinter, cur, todo, dirty, commits>>

(* A Sweep of a stale list: only the keys the queue knows of.              *)
ResyncHinted ==
  /\ pc = "select"
  /\ todo' = pending \cup retries /\ pc' = "sweep"
  /\ UNCHANGED <<queue, hinter, cur, dirty, commits>>

(* resync.C: a Sweep visits every persisted key, hinted or not.            *)
Resync ==
  /\ pc = "select"
  /\ todo' = Keys /\ pc' = "sweep"
  /\ UNCHANGED <<queue, hinter, cur, dirty, commits>>

SweepNext(k) ==
  /\ pc = "sweep" /\ k \in todo
  /\ todo' = todo \ {k}
  /\ cur' = {k} /\ pc' = "sread"
  /\ UNCHANGED <<queue, hinter, dirty, commits>>

SweepDone ==
  /\ pc = "sweep" /\ todo = {}
  /\ pc' = "pop"
  /\ UNCHANGED <<queue, hinter, cur, todo, dirty, commits>>

(* The reconcile reads what is committed for its key.                      *)
Read ==
  /\ pc \in {"read", "sread"}
  /\ dirty' = dirty \ cur
  /\ pc' = IF pc = "read" THEN "finish" ELSE "sfinish"
  /\ UNCHANGED <<queue, hinter, cur, todo, commits>>

Return ==
  /\ cur' = {}
  /\ pc' = IF pc = "finish" THEN "pop" ELSE "sweep"
  /\ UNCHANGED <<hinter, todo, dirty, commits>>

(* ErrStaleSnapshot: the key changed after it was read; hint it again.     *)
FinishStale ==
  /\ pc \in {"finish", "sfinish"}
  /\ \E k \in cur \cap dirty : pending' = AddPending(pending, k)
  /\ wake' = TRUE
  /\ Return
  /\ UNCHANGED retries

(* The write-back succeeded: clearRetry.                                   *)
FinishOK ==
  /\ pc \in {"finish", "sfinish"}
  /\ cur \cap dirty = {}
  /\ retries' = retries \ cur
  /\ Return
  /\ UNCHANGED <<pending, wake>>

(* The effect failed and its failure is recorded: retry.                   *)
FinishFailed ==
  /\ pc \in {"finish", "sfinish"}
  /\ cur \cap dirty = {}
  /\ \E k \in cur : retries' = AddRetry(retries, k)
  /\ Return
  /\ UNCHANGED <<pending, wake>>

Finish == FinishStale \/ FinishOK \/ FinishFailed

Request(h) == (\E k \in Keys : Commit(h, k)) \/ HintInsert(h) \/ HintSignal(h)

Worker ==
  \/ \E k \in Keys : Pop(k) \/ SweepNext(k)
  \/ PopEmpty \/ SweepDone \/ Read \/ Finish

Next ==
  \/ \E h \in Hinters : Request(h)
  \/ Worker \/ Wake \/ Resync
  \/ \E due \in SUBSET Keys : Tick(due)

(* Goroutines keep running.  In select Go chooses among the ready cases at *)
(* random, and a ticker's channel keeps its tick until it is received, so  *)
(* a case that is ready at every visit of select is chosen eventually.     *)
(* An entry of `retries` reaches its due time, so it is eventually offered.*)
(* Ticks with nothing due also bring Run back to pop; they are not assumed *)
(* fair, so what holds under HintFairness holds by the wakeups alone.      *)
HintFairness ==
  /\ WF_vars(Worker)
  /\ SF_vars(Wake)
  /\ \A h \in Hinters : WF_vars(HintInsert(h)) /\ WF_vars(HintSignal(h))
  /\ \A k \in Keys : SF_vars(\E due \in SUBSET Keys : k \in due /\ Tick(due))

(* Resync is taken or not; the properties that need it say so.             *)
Spec == Init /\ [][Next]_vars /\ HintFairness

-----------------------------------------------------------------------------
(* No lost wakeup: Run never sits in select with a hint in the queue       *)
(* unless a token is in `wake` or an Enqueue is about to send one.  This   *)
(* is the argument for Enqueue's order (insert, then signal) and for a     *)
(* one-slot channel being enough for any number of hints.                  *)
NoLostWakeup ==
  pc = "select" /\ pending # {} =>
    wake \/ \E h \in Hinters : hinter[h].at = "signal"

(* Every committed change is read by a later reconcile, even if its hint   *)
(* found the queue full, as long as resyncs are taken (controller.go:      *)
(* "startup and periodic sweeps repair any dropped enqueue").              *)
CommittedChangeIsRead ==
  []<><<Resync>>_vars => \A k \in Keys : (k \in dirty) ~> (k \notin dirty)

(* A key whose effect failed is reconciled again without another request:  *)
(* its table entry is offered to the queue until a reconcile takes it.     *)
FailedKeyIsRetried == \A k \in Keys : (k \in retries) ~> (k \in cur)

=============================================================================
