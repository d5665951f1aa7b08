--------------------------- MODULE EventDelivery ---------------------------
(***************************************************************************)
(* What the event stream promises a client that reconnects with the ID of  *)
(* the last event it has: every committed event once, in the order of the  *)
(* commits, and none that was not committed.                               *)
(***************************************************************************)
EXTENDS Naturals, Sequences

VARIABLES published,   \* how many events are committed
          seen         \* the IDs of the events delivered

Init == published = 0 /\ seen = <<>>

Publish == published' = published + 1 /\ UNCHANGED seen

Deliver ==
  /\ Len(seen) < published
  /\ seen' = Append(seen, Len(seen) + 1)
  /\ UNCHANGED published

Next == Publish \/ Deliver

Spec == Init /\ [][Next]_<<published, seen>>

=============================================================================
