--------------------------- MODULE ConsoleClient ---------------------------
(***************************************************************************)
(* `nephos console` (cmd/nephos/console.go): runConsole, consoleSession    *)
(* and the two goroutines it joins, readLocalConsoleInput and              *)
(* readRemoteConsole.                                                      *)
(***************************************************************************)
EXTENDS ConsoleServer

CONSTANTS
  MaxInputs,    \* chunks and end markers the local stdin yields, at most
  MaxResizes,   \* size changes of the local terminal, at most
  MaxPending,   \* frames such a client has on the way, at most
  OtherFrames   \* frames a client other than the CLI may send

VARIABLES
  main,         \* "begin", "dial", "run", "await", "join" or "done"
  local,        \* readLocalConsoleInput: "off", "read" or "done"
  inputs,       \* the input channel (one slot stands for its eight)
  typed,        \* inputs read so far
  resizes,      \* resizes sent so far
  remote,       \* readRemoteConsole: "off", "read", "final" or "done"
  exit,         \* the status of the exit message, while it is "final"
  printed,      \* chunks written to stdout and stderr, per channel
  result,       \* the result channel: "none", "ok" or "error"
  code,         \* what the process will return
  terminal      \* the local terminal: "cooked" or "raw"

clientVars == <<main, local, inputs, typed, resizes, remote, exit, printed,
                result, code, terminal>>

exitFailure == 1
exitUsage == 2

(* Everything before the dial: arguments, terminal, credential, name.  Any *)
(* of it may end the command.                                              *)
RunConsole ==
  /\ main = "begin"
  /\ \/ main' = "dial" /\ handler' = "check" /\ UNCHANGED code
     \/ /\ "local" \in faults /\ main' = "done" /\ UNCHANGED handler
        /\ code' \in {exitFailure, exitUsage}
  /\ UNCHANGED <<wire, execVars, ctx, events, inputDone, workers, reap, local,
                 inputs, typed, resizes, remote, exit, printed, result, terminal>>

(* The dial succeeds: raw mode, the start frame and the two goroutines.    *)
(* It fails on a refusal, on a dead daemon and after ten seconds.          *)
Dialed ==
  /\ main = "dial"
  /\ \/ /\ link = "open" /\ SendToServer(StartFrame(tty)) /\ main' = "run"
        /\ terminal' = IF tty THEN "raw" ELSE "cooked"
        /\ local' = "read" /\ remote' = "read" /\ UNCHANGED <<link, code>>
     \/ /\ \/ handler \in {"refused", "dead"} \/ link \in {"closed", "lost"}
           \/ handler = "check" /\ "lose" \in faults
        /\ main' = "done" /\ code' = exitFailure
        /\ link' = IF link = "none" THEN "lost" ELSE link
        /\ UNCHANGED <<toServer, terminal, local, remote>>
  /\ UNCHANGED <<tty, toClient, execVars, serverVars, inputs, typed, resizes,
                 exit, printed, result>>

(* readLocalConsoleInput: a chunk, the end of stdin, or a read error.      *)
(* Once the session is over the poll sees the cancelled context.           *)
ReadLocalConsoleInput ==
  /\ local = "read"
  /\ \/ /\ inputs = <<>> /\ typed < MaxInputs /\ typed' = typed + 1
        /\ \/ inputs' = <<"data">> /\ UNCHANGED local
           \/ inputs' = <<"eof">> /\ local' = "done"
           \/ "local" \in faults /\ inputs' = <<"error">> /\ local' = "done"
     \/ main = "join" /\ local' = "done" /\ UNCHANGED <<inputs, typed>>
  /\ UNCHANGED <<wire, execVars, serverVars, main, resizes, remote, exit, printed,
                 result, code, terminal>>

RemoteResult(ok) ==
  remote' = "done" /\ result' = (IF ok THEN "ok" ELSE "error") /\ UNCHANGED exit

(* readRemoteConsole.  Output is printed, an exit is kept until the        *)
(* connection has closed normally, and everything else is a failure.  The  *)
(* WebSocket library answers a close frame with one of its own.            *)
ReadRemoteConsole ==
  /\ remote \in {"read", "final"}
  /\ \/ /\ toClient # <<>> /\ toClient' = Tail(toClient)
        /\ LET frame == Head(toClient)
           IN \/ /\ frame.kind = "close" /\ link' = Closed
                 /\ RemoteResult(remote = "final" /\ frame.status = "normal")
                 /\ UNCHANGED printed
              \/ /\ frame.kind # "close" /\ remote = "final"
                 /\ RemoteResult(FALSE) /\ UNCHANGED <<link, printed>>
              \/ /\ frame.kind = "binary" /\ remote = "read" /\ UNCHANGED link
                 /\ \/ /\ printed' = [printed EXCEPT ![frame.channel] = @ + 1]
                       /\ UNCHANGED <<remote, exit, result>>
                    \/ /\ "local" \in faults \/ main = "join"
                       /\ RemoteResult(FALSE) /\ UNCHANGED printed
              \/ /\ frame.kind = "exit" /\ remote = "read" /\ remote' = "final"
                 /\ exit' = frame.code /\ UNCHANGED <<link, printed, result>>
              \/ /\ frame.kind = "error" /\ remote = "read"
                 /\ RemoteResult(FALSE) /\ UNCHANGED <<link, printed>>
     \/ /\ link = "lost" \/ (link = "closed" /\ toClient = <<>>) \/ main = "join"
        /\ RemoteResult(FALSE) /\ UNCHANGED <<link, toClient, printed>>
  /\ UNCHANGED <<tty, toServer, execVars, serverVars, main, local, inputs, typed,
                 resizes, code, terminal>>

(* consoleSession returns c: its context is cancelled and the connection   *)
(* closed, and it waits for its goroutines.                                *)
Return(c) ==
  /\ main' = "join" /\ code' = c
  /\ link' = Closed

TakeResult ==
  /\ main \in {"run", "await"} /\ result # "none"
  /\ Return(IF result = "ok" THEN exit ELSE exitFailure)
  /\ UNCHANGED <<tty, toClient, toServer, execVars, serverVars, local, inputs, typed,
                 resizes, remote, exit, printed, result, terminal>>

(* An input event.  When its frame cannot be sent the result decides.      *)
SendInput ==
  /\ main = "run" /\ inputs # <<>> /\ inputs' = <<>>
  /\ IF Head(inputs) = "error" \/ (Head(inputs) = "eof" /\ tty)
     THEN Return(exitFailure) /\ UNCHANGED toServer
     ELSE /\ IF link = "open"
             THEN /\ SendToServer(IF Head(inputs) = "eof" THEN EOFFrame
                                  ELSE InputFrame)
                  /\ UNCHANGED main
             ELSE main' = "await" /\ UNCHANGED toServer
          /\ UNCHANGED <<link, code>>
  /\ UNCHANGED <<tty, toClient, execVars, serverVars, local, typed, resizes,
                 remote, exit, printed, result, terminal>>

(* The ticker finds that the terminal has another size. *)
SendResize ==
  /\ main = "run" /\ tty /\ resizes < MaxResizes /\ resizes' = resizes + 1
  /\ IF link = "open"
     THEN SendToServer(ResizeFrame) /\ UNCHANGED <<main, code, link>>
     ELSE Return(exitFailure) /\ UNCHANGED toServer
  /\ UNCHANGED <<tty, toClient, execVars, serverVars, local, inputs, typed,
                 remote, exit, printed, result, terminal>>

(* A signal cancels the command's context. *)
Interrupt ==
  /\ main = "run" /\ "local" \in faults /\ Return(exitFailure)
  /\ UNCHANGED <<tty, toClient, toServer, execVars, serverVars, local, inputs, typed,
                 resizes, remote, exit, printed, result, terminal>>

(* The goroutines have stopped: the terminal is restored and the outputs   *)
(* are closed, and a failure of either makes the command fail.             *)
Finish ==
  /\ main = "join" /\ local = "done" /\ remote = "done"
  /\ main' = "done" /\ terminal' = "cooked"
  /\ \/ UNCHANGED code
     \/ "local" \in faults /\ code' = exitFailure
  /\ UNCHANGED <<wire, execVars, serverVars, local, inputs, typed, resizes, remote,
                 exit, printed, result>>

(* A client other than the CLI, with the same reader, sends what it likes. *)
SendOther(frame) ==
  /\ "other" \in faults
  /\ main = "run" /\ link = "open" /\ Len(toServer) < MaxPending /\ SendToServer(frame)
  /\ UNCHANGED <<tty, link, toClient, execVars, serverVars, clientVars>>

ClientTypeOK ==
  /\ main \in {"begin", "dial", "run", "await", "join", "done"}
  /\ local \in {"off", "read", "done"}
  /\ inputs \in {<<>>, <<"data">>, <<"eof">>, <<"error">>}
  /\ typed \in 0..MaxInputs /\ resizes \in 0..MaxResizes
  /\ remote \in {"off", "read", "final", "done"}
  /\ exit \in ExitCodes \cup {NoStatus}
  /\ printed \in [Channels -> 0..MaxChunks]
  /\ result \in {"none", "ok", "error"}
  /\ code \in ExitCodes \cup {NoStatus, exitFailure, exitUsage}
  /\ terminal \in {"cooked", "raw"}
=============================================================================
