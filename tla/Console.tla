------------------------------ MODULE Console ------------------------------
(***************************************************************************)
(* A console session end to end: the CLI, the WebSocket, nephosd's bridge, *)
(* the Podman exec session and the command, with the faults that `faults`  *)
(* allows: the instance stops ("stop"), the network drops or delays        *)
(* ("lose"), Podman refuses a request ("podman"), the daemon's process     *)
(* ends ("shutdown"), the CLI's own terminal, files or user interfere      *)
(* ("local"), and the client is not the CLI ("other").                     *)
(***************************************************************************)
EXTENDS ConsoleClient

ASSUME ConsoleAssumption ==
  /\ ExitCodes \subseteq 0..255 /\ FaultSets \subseteq SUBSET ConsoleFaults
  /\ EventCap \in Nat \ {0} /\ {MaxChunks, MaxInputs, MaxResizes} \subseteq Nat

vars == <<faults, wire, execVars, serverVars, clientVars>>

Init ==
  /\ faults \in FaultSets /\ tty \in BOOLEAN
  /\ link = "none" /\ toServer = <<>> /\ toClient = <<>>
  /\ instance = "ready" /\ exec = "none" /\ status = NoStatus
  /\ emitted = [c \in Channels |-> 0] /\ stream = <<>>
  /\ attach = "none" /\ demux = "off"
  /\ handler = "idle" /\ ctx = "live" /\ events = <<>> /\ inputDone = FALSE
  /\ pump = [c \in Channels |-> "off"] /\ waiter = "off" /\ reader = "off"
  /\ sawEOF = FALSE /\ reap = "no"
  /\ main = "begin" /\ local = "off" /\ inputs = <<>> /\ typed = 0 /\ resizes = 0
  /\ remote = "off" /\ exit = NoStatus /\ printed = [c \in Channels |-> 0]
  /\ result = "none" /\ code = NoStatus /\ terminal = "cooked"

(* The command and Podman, whose steps change the exec session only. *)
Environment ==
  /\ \/ \E c \in Channels : Emit(c)
     \/ EndOutput
     \/ \E s \in ExitCodes : Exit(s)
     \/ "stop" \in faults /\ StopInstance
  /\ UNCHANGED <<wire, serverVars, clientVars>>

Network == "lose" \in faults /\ Lose /\ UNCHANGED <<execVars, serverVars, clientVars>>

Demultiplexer == DemuxEnd /\ UNCHANGED <<wire, serverVars, clientVars>>

Worker ==
  \/ \E c \in Channels : PumpRead(c) \/ PumpEnd(c) \/ PumpSend(c)
  \/ Wait
  \/ ReadInput
  \/ StdinWrite(FALSE)

Handler ==
  \/ Accept \/ ReadStart \/ Create \/ Attach \/ Select \/ CloseBeforeExit
  \/ TellExit \/ WriteConsoleError \/ CloseHandshake \/ Cancel \/ CloseSession
  \/ Join

Server == Worker \/ Handler \/ StdinWrite(TRUE) \/ DaemonExits

ClientMain == Dialed \/ TakeResult \/ SendInput \/ Finish

Client ==
  \/ RunConsole \/ ClientMain \/ ReadLocalConsoleInput \/ ReadRemoteConsole
  \/ SendResize \/ Interrupt
  \/ \E f \in OtherFrames : SendOther(f)

Next ==
  /\ \/ Environment
     \/ Network
     \/ Demultiplexer
     \/ Server /\ UNCHANGED clientVars
     \/ Client
  /\ UNCHANGED faults

Safety == Init /\ [][Next]_vars

(* Every goroutine of the daemon and of the CLI is scheduled.  The command *)
(* owes nothing: it need not read its stdin, write or end, and the user    *)
(* need not type.                                                          *)
Steadily(A) == A /\ UNCHANGED faults

Fairness ==
  /\ WF_vars(Steadily(Demultiplexer))
  /\ \A c \in Channels :
       WF_vars(Steadily((PumpRead(c) \/ PumpEnd(c) \/ PumpSend(c)) /\ UNCHANGED clientVars))
  /\ WF_vars(Steadily(Wait /\ UNCHANGED clientVars))
  /\ WF_vars(Steadily((ReadInput \/ StdinWrite(FALSE)) /\ UNCHANGED clientVars))
  /\ WF_vars(Steadily(Handler /\ UNCHANGED clientVars))
  /\ WF_vars(Steadily(ClientMain))
  /\ WF_vars(Steadily(ReadRemoteConsole))
  /\ WF_vars(Steadily(local = "read" /\ local' = "done" /\ ReadLocalConsoleInput))

Spec == Safety /\ Fairness

(***************************************************************************)
(* Properties.                                                             *)
(***************************************************************************)

(* Every variable of the session has its type. *)
TypeOK ==
  /\ tty \in BOOLEAN /\ link \in {"none", "open", "closed", "lost"}
  /\ \A i \in 1..Len(toClient) : toClient[i] \in ServerFrames
  /\ ExecTypeOK /\ ServerTypeOK /\ ClientTypeOK

(* The whole session, under every fault, is a correct implementation of    *)
(* ConsoleContract: whatever the interleaving of pumps, waiter, reader and *)
(* client, the process returns the command's status only after all of its  *)
(* output has been printed, and a failure otherwise.                       *)
Contract == INSTANCE ConsoleContract
              WITH Streams <- Channels, Statuses <- ExitCodes,
                   Unknown <- NoStatus, Failures <- {exitFailure, exitUsage},
                   written <- emitted, ended <- status, shown <- printed,
                   returned <- IF main = "done" THEN code ELSE NoStatus

KeepsContract == Contract!Spec

(* The exec session is gone from Podman before the client can learn the    *)
(* exit status: bridgeConsole closes the session before it writes the exit *)
(* message.  A handler that has returned leaves no exec session and no     *)
(* goroutine behind, unless Podman refused the removal or Exec was never   *)
(* told the session's ID (exec.go:42-47 returns without removing it); a    *)
(* CLI that has returned leaves its terminal as it found it.               *)
NothingLeftBehind ==
  /\ TypeOK
  /\ (remote = "final" \/ \E i \in 1..Len(toClient) : toClient[i].kind = "exit")
       => exec = "removed"
  /\ handler = "done" =>
       /\ exec \in {"none", "removed"} \/ reap \in {"failed", "unknown"}
       /\ demux # "reading" /\ reader \in {"off", "done"}
       /\ waiter \in {"off", "done"}
  /\ main = "done" => terminal = "cooked" /\ local # "read" /\ remote # "read"

(* A command that has ended, or whose instance has stopped, ends the       *)
(* session on both sides: no goroutine waits for ever on a full events     *)
(* channel, a pipe, the other goroutines or the close handshake.           *)
SessionEnds ==
  handler = "bridge" /\ exec \in {"exited", "removed"}
    ~> handler \in {"done", "dead"} /\ main = "done"
=============================================================================
