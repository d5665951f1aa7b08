-------------------------- MODULE ConsoleContract --------------------------
(***************************************************************************)
(* What `nephos console` promises a script that runs it: the command's     *)
(* output is printed in order, and the process returns the command's exit  *)
(* status only when the command has ended and all of its output has been   *)
(* printed.  Everything else is reported as a failure, at any time.        *)
(***************************************************************************)
EXTENDS Naturals

CONSTANTS Streams, Statuses, Unknown, Failures

VARIABLES
  written,    \* chunks the command has written, per stream
  ended,      \* its exit status, or Unknown
  shown,      \* chunks printed by the CLI, per stream
  returned    \* the CLI's exit code, or Unknown

contract == <<written, ended, shown, returned>>

Init ==
  /\ written = [s \in Streams |-> 0] /\ shown = [s \in Streams |-> 0]
  /\ ended = Unknown /\ returned = Unknown

Write(s) ==
  /\ ended = Unknown
  /\ written' = [written EXCEPT ![s] = @ + 1]
  /\ UNCHANGED <<ended, shown, returned>>

End(c) ==
  /\ ended = Unknown /\ ended' = c
  /\ UNCHANGED <<written, shown, returned>>

Show(s) ==
  /\ returned = Unknown /\ shown[s] < written[s]
  /\ shown' = [shown EXCEPT ![s] = @ + 1]
  /\ UNCHANGED <<written, ended, returned>>

Report ==
  /\ returned = Unknown /\ ended # Unknown /\ shown = written
  /\ returned' = ended
  /\ UNCHANGED <<written, ended, shown>>

Fail(f) ==
  /\ returned = Unknown /\ returned' = f
  /\ UNCHANGED <<written, ended, shown>>

Next ==
  \/ \E s \in Streams : Write(s) \/ Show(s)
  \/ \E c \in Statuses : End(c)
  \/ Report
  \/ \E f \in Failures : Fail(f)

Spec == Init /\ [][Next]_contract
=============================================================================
