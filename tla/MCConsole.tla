----------------------------- MODULE MCConsole -----------------------------
(***************************************************************************)
(* Console for TLC.  A behaviour has one of five sets of faults.  Those    *)
(* that may strike at every step leave the command its stdout only, the    *)
(* others its stderr too.  A client that is not the CLI has no input but   *)
(* its frames, and the terminal changes its size only where the daemon may *)
(* be stopped.                                                             *)
(***************************************************************************)
EXTENDS Console

MCFaultSets ==
  {{"stop", "podman"}, {"shutdown"}, {"lose"}, {"local"}, {"other"}}

(* Input, an end of stdin and a frame that is never valid after the start. *)
MCOtherFrames == {InputFrame, EOFFrame, StartFrame(FALSE)}

Within ==
  /\ faults \cap {"lose", "local", "other"} # {} => emitted[2] = 0
  /\ "other" \in faults => typed = 0
  /\ "shutdown" \notin faults => resizes = 0

MCSpec == Init /\ [][Next /\ Within']_vars /\ Fairness
=============================================================================
