---------------------------- MODULE MCAppliance ----------------------------
(***************************************************************************)
(* The appliance for TLC.  A behaviour is about one of three situations:   *)
(* "guest", the container alone, under every fault and on volumes of every *)
(* age; "one", a terminal with all commands; "two", two terminals whose    *)
(* commands interfere, with containers and volumes removed meanwhile.  In  *)
(* the last two the container may only be killed.                          *)
(***************************************************************************)
EXTENDS Appliance

CONSTANTS p1, p2, t1, t2, AllFaults, AllSchemas

VARIABLE part

Alone == INSTANCE Guest WITH GuestFaults <- AllFaults, Schemas <- AllSchemas

outside == <<docker, creds, cli>>

Job(op, limits, explicit) == [op |-> op, limits |-> limits, explicit |-> explicit]

(* up with the default limits, with limits of one's own and with more than *)
(* the host has, down, and status.                                         *)
MCJobs ==
  {Job("up", 1, FALSE), Job("up", 2, TRUE), Job("up", 3, TRUE), Job("down", 0, FALSE),
   Job("status", 0, FALSE)}

JobsOf(p) ==
  CASE part = "one" -> IF p = p1 THEN MCJobs ELSE {}
    [] part = "two" -> IF p = p1 THEN {Job("up", 1, FALSE)}
                       ELSE {Job("up", 2, TRUE), Job("down", 0, FALSE)}
    [] OTHER -> {}

(* The token of a volume that replaces another is the second.              *)
Within ==
  /\ \A p \in Procs : job[p] \in JobsOf(p) \cup {NoJob}
  /\ part = "one" => removals <= 1
  /\ part # "guest" => (tokenFile = t2 => removals = MaxRemovals)

Commands(A) == part # "guest" /\ A /\ UNCHANGED part
Container(A) == part = "guest" /\ A /\ UNCHANGED <<part, outside>>

MCInit ==
  \/ part = "guest" /\ Alone!GuestInit /\ NothingDone /\ owner = "none"
  \/ part \in {"one", "two"} /\ Init

MCNext ==
  \/ Commands(Next) /\ Within'
  \/ Container(Boot \/ Term \/ Alone!Disk \/ Alone!GuestNext)

(* The fairness of Guest for the container alone, and of Appliance.        *)
allVars == <<part, vars>>
MCSpec ==
  /\ MCInit /\ [][MCNext]_allVars
  /\ \A p \in Procs : WF_allVars(Commands(Command(p)))
  /\ WF_allVars(Container(Script)) /\ WF_allVars(Container(Guard))
  /\ WF_allVars(Container(Alone!Daemon))
  /\ \A p \in Parts :
       WF_allVars(Container(Alone!End(p) /\ (daemon \in {"join", "abort"} \/ sigterm)))

-----------------------------------------------------------------------------
(* Once a volume holds a token, every daemon started on it serves that     *)
(* one: kills, failed starts and restarts never replace it                 *)
(* (credentials/token.go:18), and a loss of power only before the kernel   *)
(* has written back the file, which is not synced (token.go:40).  Nothing  *)
(* else but `docker volume rm` does.                                       *)
TokenKeptByGuest == [][part = "guest" => KeepsToken]_allVars

(* The loss of Podman, or of any part of nephosd, ends the container: it   *)
(* neither stays half alive nor hangs in its shutdown (nephosd/main.go,    *)
(* entrypoint.sh).                                                         *)
GuestFailsClosed == part = "guest" => FailsClosed
=============================================================================
