------------------------------ MODULE QueueOps ------------------------------
(***************************************************************************)
(* The bounded, deduplicated hint queue that both reconcilers carry        *)
(* (internal/reconcile: Controller and InstanceController hold identical   *)
(* copies of it).  Its maps are modelled as the sets of their keys:        *)
(* `pending` maps IDs to struct{}, `retries` maps IDs to an attempt count  *)
(* and a due time.  The due time becomes a choice of which entries are due.*)
(***************************************************************************)
EXTENDS Naturals, FiniteSets

CONSTANT QueueLimit     \* queueLimit: the bound on both maps

ASSUME QueueLimitAssumption == QueueLimit \in Nat \ {0}

(* Enqueue, map part: a full queue drops the hint, even a duplicate one.   *)
AddPending(pending, id) ==
  IF Cardinality(pending) < QueueLimit THEN pending \cup {id} ELSE pending

(* retry: a full table drops an ID that has no entry yet; an ID that has   *)
(* one keeps it, with a later due time.                                    *)
AddRetry(retries, id) ==
  IF Cardinality(retries) >= QueueLimit /\ id \notin retries
  THEN retries
  ELSE retries \cup {id}

(* enqueueDueRetries giving up as a whole when the last entry would fill   *)
(* the queue: an off-by-one of AddDue.                                     *)
AddDueStrict(pending, due) ==
  LET all == pending \cup due
  IN  IF Cardinality(all) < QueueLimit THEN {all} ELSE {pending}

(* enqueueDueRetries: the possible contents of `pending` once the due      *)
(* entries have been offered to it, in the unspecified order in which Go   *)
(* iterates over a map, until the queue is full.                           *)
AddDue(pending, due) ==
  LET all == pending \cup due
  IN  IF Cardinality(all) <= QueueLimit
      THEN {all}
      ELSE {q \in SUBSET all : pending \subseteq q /\ Cardinality(q) = QueueLimit}

=============================================================================
