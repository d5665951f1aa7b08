----------------------------- MODULE MCClients -----------------------------
(***************************************************************************)
(* What clients see, for TLC: commands of the CLI, and the event stream.   *)
(* The two share no state and no property relates them (a command does not *)
(* read events), so each behaviour takes the steps of one of them, `part'. *)
(*                                                                         *)
(* Names are 2, which looks like an ID, and 12 and 13, which do not; IDs   *)
(* are small numbers.                                                      *)
(***************************************************************************)
EXTENDS Commands

CONSTANTS Batch, MaxEvents

VARIABLES part,
          table, inserting, seq, open, cursor, batch, wire, got   \* of EventStream

Stream == INSTANCE EventStream

streamVars == <<table, inserting, seq, open, cursor, batch, wire, got>>
allVars == <<part, vars, streamVars>>

Ask(kind, verb, ref, name, wait) ==
  [kind |-> kind, verb |-> verb, ref |-> ref, name |-> name, wait |-> wait,
   params |-> [limit |-> {}, token |-> {}]]

Paged(kind, limit, after) ==
  [Ask(kind, "list", 0, 0, FALSE) EXCEPT !.params = [limit |-> limit, token |-> after]]

(* References by ID and by name; creates in a parent, creates without one, *)
(* and waits.                                                              *)
MCAsked ==
  {Ask("vpc", "delete", ref, 0, FALSE) : ref \in {2, 12}}
    \cup {Ask("subnet", "describe", 2, 0, FALSE), Ask("instance", "delete", 12, 0, FALSE)}
    \cup {Paged("vpc", {3}, {}), Paged("subnet", {}, {EncodePageToken("vpc", 1)}),
          Paged("instance", {1}, {EncodePageToken("instance", 1)})}
    \cup {Ask("vpc", verb, 12, 12, TRUE) : verb \in {"create", "delete"}}
    \cup {Ask("subnet", "create", 2, 12, TRUE), Ask("subnet", "delete", 1, 0, TRUE)}
    \cup {Ask("instance", verb, 1, 12, TRUE) : verb \in {"create", "delete"}}

Shell == part = "commands" /\ Command /\ UNCHANGED <<part, streamVars>>
Rest == part = "commands" /\ Others /\ UNCHANGED <<part, streamVars>>
Streaming(A) == part = "stream" /\ A /\ UNCHANGED <<part, vars>>

(* Where the behaviour is about the stream, one command stands still.      *)
ClientsInit ==
  /\ part \in {"commands", "stream"}
  /\ Init /\ Stream!Init
  /\ part = "stream" => cmd = Paged("vpc", {3}, {}) /\ drawn = {}

ClientsNext == Shell \/ Rest \/ Streaming(Stream!Next)

(* The fairness of Commands and that of EventStream.                       *)
ClientsSpec ==
  /\ ClientsInit /\ [][ClientsNext]_allVars
  /\ WF_allVars(Shell)
  /\ WF_allVars(Streaming(Stream!Stream)) /\ SF_allVars(Streaming(Stream!Read))
  /\ WF_allVars(Streaming(Stream!Commit \/ Stream!Rollback))

-----------------------------------------------------------------------------
(* Every command ends, whatever other clients do and whatever gets lost    *)
(* (network_client.go:53, network_wait.go:24).                             *)
EveryCommandEnds == part = "commands" => CommandEnds

(* The stream keeps the promise of EventDelivery, across disconnections    *)
(* with events read but not written and written but not received.          *)
DeliveryPromise == Stream!DeliveryPromise

(* A client that keeps its connection from some time on has, once commits  *)
(* pause, every committed event.                                           *)
EventuallyReceived == Stream!EventuallyReceived
=============================================================================
