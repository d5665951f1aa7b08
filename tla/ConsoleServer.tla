--------------------------- MODULE ConsoleServer ---------------------------
(***************************************************************************)
(* nephosd's side of a console: GetInstanceConsole and bridgeConsole       *)
(* (internal/apiserver/console.go).                                        *)
(*                                                                         *)
(* The bridge runs one goroutine per output stream (`pump`), one that      *)
(* waits for the exit status (`waiter`), one that reads the client         *)
(* (`reader`) and the handler itself, joined by the channel `events` and   *)
(* the one-element channel `inputDone`.  `handler` is where the handler is:*)
(*                                                                         *)
(*   "idle" -> "check" -> "start" -> "create" -> "attach" -> "bridge"      *)
(*   "bridge" -> "exit" (session.Close) -> "tell" (the exit message) ->    *)
(*   "bye" (close handshake) -> "cancel" -> "close" -> "join" -> "done"    *)
(*   any of these -> "report" (writeConsoleError) -> "sorry" -> "cancel"   *)
(***************************************************************************)
EXTENDS ConsoleExec

CONSTANTS
  EventCap,     \* capacity of the events channel (8 in the code)
  FaultSets     \* which faults may happen together: see ConsoleFaults

VARIABLES
  faults,       \* the faults of this behaviour, one of FaultSets
  handler,
  ctx,          \* the bridge's context: "live" or "cancelled"
  events,       \* the events channel
  inputDone,    \* readConsoleInput has returned (it always returns an error)
  pump,         \* per channel: "off", "read", "send", "fail" or "done"
  waiter,       \* "off", "output", "wait", "exit", "error" or "done"
  reader,       \* "off", "read", "write" or "done"
  sawEOF,       \* the reader has passed on stdin_eof
  reap          \* the removal of the exec session: "no", "done", "failed", or
                \* "unknown", never tried because Exec did not learn its ID

serverVars ==
  <<handler, ctx, events, inputDone, pump, waiter, reader, sawEOF, reap>>

workers == <<pump, waiter, reader, sawEOF>>

ConsoleFaults == {"stop", "lose", "podman", "shutdown", "local", "other"}

(***************************************************************************)
(* GetInstanceConsole up to the bridge.                                    *)
(***************************************************************************)

(* consoleReady and the other checks before the upgrade. *)
Accept ==
  /\ handler = "check"
  /\ \/ instance = "ready" /\ link = "none"
        /\ link' = "open" /\ handler' = "start"
     \/ instance = "gone" /\ handler' = "refused" /\ UNCHANGED link
     \/ link = "lost" /\ handler' = "done" /\ UNCHANGED link
  /\ UNCHANGED <<tty, toServer, toClient, execVars, ctx, events, inputDone,
                 workers, reap>>

(* The first message: a valid start, and an instance still running after   *)
(* it.  The five-second timeout closes the connection.                     *)
ReadStart ==
  /\ handler = "start"
  /\ \/ /\ toServer # <<>>
        /\ LET frame == Head(toServer)
               ok == frame.kind = "text" /\ ParseClientText(frame)
                       /\ frame.type = "start"
           IN handler' = IF ok /\ instance = "ready" THEN "create" ELSE "report"
        /\ toServer' = Tail(toServer) /\ UNCHANGED link
     \/ /\ (toServer = <<>> /\ "lose" \in faults) \/ link # "open"
        /\ link' = Closed /\ handler' = "report" /\ UNCHANGED toServer
  /\ UNCHANGED <<tty, toClient, execVars, ctx, events, inputDone, workers, reap>>

(* Exec's inspect and create requests, either of which may be refused.     *)
(* When the reply to the second is lost, late or has no valid ID, Exec     *)
(* returns the error and Podman keeps the session it made.                 *)
Create ==
  /\ handler = "create"
  /\ \/ ExecCreate /\ handler' = "attach" /\ UNCHANGED reap
     \/ /\ instance = "gone" \/ "podman" \in faults
        /\ handler' = "report" /\ UNCHANGED <<exec, reap>>
     \/ /\ ExecCreate /\ "podman" \in faults
        /\ handler' = "report" /\ reap' = "unknown"
  /\ UNCHANGED <<wire, instance, status, emitted, stream, attach, demux, ctx,
                 events, inputDone, workers>>

AttachOrLeave ==
  /\ handler = "attach" /\ handler' = "report"
  /\ UNCHANGED <<wire, execVars, ctx, events, inputDone, workers, reap>>

(* Exec attaches and the bridge starts its goroutines; or a step of the    *)
(* attachment fails and Exec removes the session it created, which may run *)
(* by then.                                                                *)
Attach ==
  /\ handler = "attach"
  /\ \/ /\ ExecAttach /\ handler' = "bridge"
        /\ pump' = [c \in Channels |-> IF tty /\ c = 2 THEN "done" ELSE "read"]
        /\ waiter' = "output" /\ reader' = "read" /\ UNCHANGED <<sawEOF, reap>>
     \/ /\ exec = "removed" \/ "podman" \in faults
        /\ \/ RemoveExec /\ reap' = "done"
           \/ /\ "podman" \in faults /\ reap' = "failed"
              /\ exec' \in {exec} \cup (IF exec = "created" THEN {"running"} ELSE {})
        /\ handler' = "report" /\ UNCHANGED <<workers, attach, demux>>
  /\ UNCHANGED <<wire, instance, status, emitted, stream, ctx, events, inputDone>>

(***************************************************************************)
(* The bridge's goroutines.                                                *)
(***************************************************************************)

(* A pump reads a chunk from its pipe. *)
PumpRead(channel) ==
  /\ pump[channel] = "read" /\ DemuxChunk(channel)
  /\ pump' = [pump EXCEPT ![channel] = "send"]
  /\ UNCHANGED <<wire, instance, exec, status, emitted, attach, demux, handler,
                 ctx, events, inputDone, waiter, reader, sawEOF, reap>>

(* Its pipe has ended: EOF ends the pump, an error is reported first. *)
PumpEnd(channel) ==
  /\ pump[channel] = "read"
  /\ \/ demux = "eof" /\ pump' = [pump EXCEPT ![channel] = "done"]
     \/ /\ demux = "error" \/ attach = "closed"
        /\ pump' = [pump EXCEPT ![channel] = "fail"]
  /\ UNCHANGED <<wire, execVars, handler, ctx, events, inputDone, waiter, reader,
                 sawEOF, reap>>

SendWithoutContext(event) ==
  Len(events) < EventCap /\ events' = Append(events, event)

(* sendConsoleEvent: the channel has room, or the context is done. *)
SendConsoleEvent(event) ==
  \/ Len(events) < EventCap /\ events' = Append(events, event)
  \/ ctx = "cancelled" /\ UNCHANGED events

PumpSend(channel) ==
  /\ \/ /\ pump[channel] = "send"
        /\ SendConsoleEvent(<<"output", channel>>)
        /\ pump' = [pump EXCEPT ![channel] = "read"]
     \/ /\ pump[channel] = "fail" /\ SendConsoleEvent(<<"error">>)
        /\ pump' = [pump EXCEPT ![channel] = "done"]
  /\ UNCHANGED <<wire, execVars, handler, ctx, inputDone, waiter, reader, sawEOF,
                 reap>>

OutputAssumed == TRUE

OutputDrained == \A c \in Channels : pump[c] = "done"

(* output.Wait, then session.Wait, then the final event. *)
Wait ==
  /\ \/ waiter = "output" /\ OutputDrained /\ waiter' = "wait"
        /\ UNCHANGED events
     \/ waiter = "wait" /\ UNCHANGED events
        /\ \/ ctx = "cancelled" /\ waiter' = "error"
           \/ ExecEnded /\ \E outcome \in WaitOutcomes : waiter' = outcome
           \/ ExecEnded /\ "podman" \in faults /\ waiter' = "error"
     \/ /\ waiter = "exit" /\ SendConsoleEvent(<<"exit", status>>)
        /\ waiter' = "done"
     \/ waiter = "error" /\ SendConsoleEvent(<<"error">>) /\ waiter' = "done"
  /\ UNCHANGED <<wire, execVars, handler, ctx, inputDone, pump, reader, sawEOF,
                 reap>>

(* What readConsoleInput does with one frame: "write" it to the command's  *)
(* stdin, go on, or return an error.                                       *)
InputStep(frame) ==
  IF frame.kind = "binary"
  THEN IF ParseInputFrame(frame) /\ ~sawEOF THEN "write" ELSE "done"
  ELSE IF ~ParseClientText(frame) THEN "done"
  ELSE CASE frame.type = "stdin_eof" -> IF tty \/ sawEOF THEN "done" ELSE "eof"
         [] frame.type = "resize" -> IF tty THEN "resize" ELSE "done"
         [] frame.type = "start" -> "done"

(* readConsoleInput.  A resize or a close of stdin fails when the session  *)
(* is closed; the read fails when the connection or the context is gone.   *)
ReadInput ==
  /\ reader = "read"
  /\ \/ /\ toServer # <<>> /\ toServer' = Tail(toServer)
        /\ LET step == InputStep(Head(toServer))
               failed == attach # "open" \/ exec \in {"exited", "removed"}
           IN /\ sawEOF' = (sawEOF \/ step = "eof")
              /\ reader' = CASE step = "write" -> "write"
                             [] step = "done" -> "done"
                             [] step = "resize" ->
                                  IF failed THEN "done" ELSE "read"
                             [] step = "eof" ->
                                  IF attach = "open" THEN "read" ELSE "done"
     \/ /\ link # "open" \/ ctx = "cancelled"
        /\ reader' = "done" /\ UNCHANGED <<toServer, sawEOF>>
  /\ inputDone' = (reader' = "done")
  /\ UNCHANGED <<tty, link, toClient, execVars, handler, ctx, events, pump,
                 waiter, reap>>

(* Stdin().Write: taken by the command, or refused by a closed peer.  A    *)
(* command that does not read its stdin blocks it: there is no deadline.   *)
StdinWrite(taken) ==
  /\ reader = "write"
  /\ IF taken THEN StdinTaken /\ reader' = "read" /\ UNCHANGED inputDone
     ELSE StdinRefused /\ reader' = "done" /\ inputDone' = TRUE
  /\ UNCHANGED <<wire, execVars, handler, ctx, events, pump, waiter, sawEOF, reap>>

(***************************************************************************)
(* The handler's loop and its way out.                                     *)
(***************************************************************************)

(* One turn of the select: the reader has ended or an event arrives.       *)
(* Output is written on; an exit closes the session's connection first; a  *)
(* write to a dead connection fails.  The third case, a context that is    *)
(* done, cannot happen here: the server gives an upgraded request a        *)
(* context that only the handler's return cancels.                         *)
Select ==
  /\ handler = "bridge"
  /\ \/ inputDone /\ handler' = "report" /\ UNCHANGED <<events, toClient, attach>>
     \/ /\ events # <<>> /\ events' = Tail(events)
        /\ LET event == Head(events)
           IN \/ event[1] = "error" /\ handler' = "report"
                 /\ UNCHANGED <<toClient, attach>>
              \/ event[1] = "exit" /\ handler' = "exit" /\ CloseIO
                 /\ UNCHANGED toClient
              \/ /\ event[1] = "output" /\ UNCHANGED attach
                 /\ IF link = "open"
                    THEN /\ SendToClient(<<OutputFrame(event[2])>>)
                         /\ UNCHANGED handler
                    ELSE handler' = "report" /\ UNCHANGED toClient
  /\ UNCHANGED <<tty, link, toServer, instance, exec, status, emitted, stream,
                 demux, ctx, inputDone, workers, reap>>

(* execSession.Close waits for the demultiplexer and removes the session,  *)
(* once.                                                                   *)
SessionClose ==
  /\ ExecEnded
  /\ IF reap # "no" THEN UNCHANGED <<exec, reap>>
     ELSE \/ RemoveExec /\ reap' = "done"
          \/ "podman" \in faults /\ reap' = "failed" /\ UNCHANGED exec

CloseBeforeExit ==
  /\ handler = "exit" /\ SessionClose
  /\ handler' = IF reap' = "done" THEN "tell" ELSE "report"
  /\ UNCHANGED <<wire, instance, status, emitted, stream, attach, demux, ctx,
                 events, inputDone, workers>>

(* The exit message and the normal close frame. *)
TellExit ==
  /\ handler = "tell"
  /\ IF link = "open"
     THEN /\ handler' = "bye"
          /\ SendToClient(<<[kind |-> "exit", code |-> status],
                            [kind |-> "close", status |-> "normal"]>>)
     ELSE handler' = "report" /\ UNCHANGED toClient
  /\ UNCHANGED <<tty, link, toServer, execVars, ctx, events, inputDone, workers,
                 reap>>

(* writeConsoleError: the error message and a policy close frame. *)
WriteConsoleError ==
  /\ handler = "report"
  /\ IF link = "open"
     THEN /\ handler' = "sorry"
          /\ SendToClient(<<[kind |-> "error"],
                            [kind |-> "close", status |-> "policy"]>>)
     ELSE handler' = "cancel" /\ UNCHANGED toClient
  /\ UNCHANGED <<tty, link, toServer, execVars, ctx, events, inputDone, workers,
                 reap>>

(* conn.Close returns when the peer has answered, or after five seconds.   *)
(* A normal close that fails is reported, on a connection already closed.  *)
CloseHandshake ==
  /\ handler \in {"bye", "sorry"}
  /\ \/ link # "open" /\ UNCHANGED link
     \/ link = "open" /\ "lose" \in faults /\ link' = "closed"
  /\ handler' \in {"cancel"} \cup IF handler = "bye" THEN {"report"} ELSE {}
  /\ UNCHANGED <<tty, toServer, toClient, execVars, ctx, events, inputDone,
                 workers, reap>>

(* The deferred cancel, which also ends a pending read of the connection,  *)
(* and the beginning of session.Close.  Without a session (Exec failed)    *)
(* the handler just returns.                                               *)
Cancel ==
  /\ handler = "cancel"
  /\ IF waiter = "off"
     THEN handler' = "done" /\ link' = Closed /\ UNCHANGED <<ctx, attach>>
     ELSE /\ handler' = "close" /\ ctx' = "cancelled" /\ CloseIO
          /\ link' = Closed
  /\ UNCHANGED <<tty, toServer, toClient, instance, exec, status, emitted, stream,
                 demux, events, inputDone, workers, reap>>

CloseSession ==
  /\ handler = "close" /\ SessionClose /\ handler' = "join"
  /\ UNCHANGED <<wire, instance, status, emitted, stream, attach, demux, ctx,
                 events, inputDone, workers>>

(* workers.Wait, and the deferred conn.CloseNow. *)
Join ==
  /\ handler = "join" /\ OutputDrained /\ waiter = "done" /\ reader = "done"
  /\ handler' = "done" /\ link' = Closed
  /\ UNCHANGED <<tty, toServer, toClient, execVars, ctx, events, inputDone,
                 workers, reap>>

(* The daemon's process ends.  http.Server.Shutdown does not know an       *)
(* upgraded connection, so the handler is not run to its end.              *)
DaemonExits ==
  /\ "shutdown" \in faults
  /\ handler \notin {"idle", "done", "refused", "dead"}
  /\ handler' = "dead" /\ link' = "lost" /\ toServer' = <<>> /\ toClient' = <<>>
  /\ CloseIO /\ demux' = IF demux = "reading" THEN "error" ELSE demux
  /\ pump' = [c \in Channels |-> "done"] /\ waiter' = "done"
  /\ reader' = "done" /\ events' = <<>>
  /\ UNCHANGED <<tty, instance, exec, status, emitted, stream, ctx, inputDone,
                 sawEOF, reap>>

ServerTypeOK ==
  /\ handler \in {"idle", "check", "start", "create", "attach", "bridge", "exit",
                  "tell", "bye", "report", "sorry", "cancel", "close", "join",
                  "done", "refused", "dead"}
  /\ ctx \in {"live", "cancelled"}
  /\ Len(events) <= EventCap
  /\ inputDone \in BOOLEAN /\ sawEOF \in BOOLEAN
  /\ pump \in [Channels -> {"off", "read", "send", "fail", "done"}]
  /\ waiter \in {"off", "output", "wait", "exit", "error", "done"}
  /\ reader \in {"off", "read", "write", "done"}
  /\ reap \in {"no", "done", "failed", "unknown"}
=============================================================================
