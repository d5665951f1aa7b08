---------------------------- MODULE EventStream ----------------------------
(***************************************************************************)
(* The durable event log and its stream over HTTP: transactions that       *)
(* append, the handler that reads the log in batches after its cursor and  *)
(* writes to the connection, and a client that reconnects with the ID of   *)
(* the last event it received.                                             *)
(*                                                                         *)
(* An event is its ID.  AUTOINCREMENT gives the next ID when the event is  *)
(* inserted, a rollback takes it back, and the event is visible from the   *)
(* commit on.  SQLite has one connection, so that a transaction excludes   *)
(* every other and every read.                                             *)
(***************************************************************************)
EXTENDS Naturals, Sequences, FiniteSets

CONSTANTS Batch,       \* events per read (100 in the code)
          MaxEvents    \* bound on the events ever inserted

VARIABLES
  table,       \* IDs of the committed events
  inserting,   \* IDs inserted by transactions under way
  seq,         \* the last ID given
  open,        \* the client is connected
  cursor,      \* the handler's cursor
  batch,       \* IDs it has read and not written
  wire,        \* IDs written and not received
  got          \* IDs the client has received, in order

database == <<table, inserting, seq>>
handler == <<open, cursor, batch, wire>>
vars == <<database, handler, got>>

Init ==
  /\ table = {} /\ inserting = {} /\ seq = 0
  /\ open = FALSE /\ cursor = 0 /\ batch = {} /\ wire = <<>> /\ got = <<>>

-----------------------------------------------------------------------------
(* Transactions that append an event.                                      *)

Insert ==
  /\ inserting = {} /\ seq < MaxEvents
  /\ seq' = seq + 1 /\ inserting' = inserting \cup {seq + 1}
  /\ UNCHANGED <<table, handler, got>>

Commit ==
  /\ \E e \in inserting : table' = table \cup {e} /\ inserting' = inserting \ {e}
  /\ UNCHANGED <<seq, handler, got>>

Rollback ==
  /\ inserting = {seq}
  /\ inserting' = {} /\ seq' = seq - 1
  /\ UNCHANGED <<table, handler, got>>

-----------------------------------------------------------------------------
(* GetEvents.                                                              *)

(* A Last-Event-ID that is not looked at.                                  *)
NoLastEventID == 0

(* The client's Last-Event-ID; none stands for 0.                          *)
LastEventID == IF got = <<>> THEN 0 ELSE got[Len(got)]

Connect ==
  /\ ~open
  /\ open' = TRUE /\ cursor' = LastEventID /\ batch' = {} /\ wire' = <<>>
  /\ UNCHANGED <<database, got>>

(* EventsAfter: the first Batch events whose ID is greater.                *)
EventsAfter(c) ==
  {e \in table : e > c /\ Cardinality({f \in table : c < f /\ f < e}) < Batch}

(* A handler that ends at the first read which finds nothing: it never     *)
(* looks at what was committed afterwards.                                 *)
ReadOnce ==
  /\ open /\ batch = {} /\ cursor = LastEventID
  /\ inserting = {} /\ EventsAfter(cursor) # {} /\ got = <<>>
  /\ batch' = EventsAfter(cursor)
  /\ UNCHANGED <<database, open, cursor, wire, got>>

(* A read of the log, at the ticker when the last one found nothing.       *)
Read ==
  /\ open /\ batch = {}
  /\ inserting = {} /\ EventsAfter(cursor) # {}
  /\ batch' = EventsAfter(cursor)
  /\ UNCHANGED <<database, open, cursor, wire, got>>

Write(e) ==
  /\ open /\ e \in batch /\ \A f \in batch : e <= f
  /\ batch' = batch \ {e} /\ cursor' = e /\ wire' = Append(wire, e)
  /\ UNCHANGED <<database, open, got>>

(* The client goes away, a write fails, or the read or the daemon does.    *)
(* What was not received is lost with the connection.                      *)
Disconnect ==
  /\ open
  /\ open' = FALSE /\ cursor' = 0 /\ batch' = {} /\ wire' = <<>>
  /\ UNCHANGED <<database, got>>

(* The client.                                                             *)
Receive ==
  /\ wire # <<>>
  /\ got' = Append(got, Head(wire)) /\ wire' = Tail(wire)
  /\ UNCHANGED <<database, open, cursor, batch>>

-----------------------------------------------------------------------------
Writer == Insert \/ Commit \/ Rollback
Stream == Connect \/ Read \/ (\E e \in 1..MaxEvents : Write(e)) \/ Receive

Next == Writer \/ Stream \/ Disconnect

(* A transaction ends, the handler and the client go on, and a client that *)
(* lost its connection connects again.  Transactions without end do not    *)
(* keep a read waiting: database/sql gives its one connection to waiters   *)
(* in turn.                                                                *)
Safety == Init /\ [][Next]_vars
Spec == Safety /\ WF_vars(Stream) /\ SF_vars(Read) /\ WF_vars(Commit \/ Rollback)

-----------------------------------------------------------------------------
(* Properties.                                                             *)

Published == IF inserting = {} THEN seq ELSE seq - 1

(* The stream keeps the promise of EventDelivery, across disconnections    *)
(* with events read but not written and written but not received.          *)
Delivery == INSTANCE EventDelivery
              WITH published <- Published, seen <- got
DeliveryPromise == Delivery!Spec

(* A client that keeps its connection from some time on has, once commits  *)
(* pause, every committed event: the handler polls, so that what a read    *)
(* missed by a moment is read later.                                       *)
EventuallyReceived ==
  <>[][~Disconnect /\ ~Commit]_vars => <>[](table = {got[i] : i \in 1..Len(got)})

=============================================================================
