---------------------------- MODULE ConsoleExec ----------------------------
(***************************************************************************)
(* One Podman exec session: Client.Exec, execSession and its demultiplexer *)
(* (internal/compute/podman/exec.go), with the command and Podman itself   *)
(* as the environment.                                                     *)
(*                                                                         *)
(* `exec` is Podman's exec object: "none", "created", "running", "silent"  *)
(* (the command's output has ended), "exited" or "removed".  Output is     *)
(* counted in chunks per channel, because a channel is a FIFO from the     *)
(* command to the terminal.                                                *)
(***************************************************************************)
EXTENDS ConsoleWire

CONSTANTS
  MaxChunks,    \* chunks a command writes on each channel, at most
  NoStatus      \* no exit status yet

VARIABLES
  instance,     \* the API's view of the instance: "ready" or "gone"
  exec,         \* Podman's exec object
  status,       \* the exit status Podman has recorded
  emitted,      \* chunks the command has written, per channel
  stream,       \* chunks in the attach connection, as their channels
  attach,       \* our end of the attach connection: "none", "open", "closed"
  demux         \* readOutput: "off", "reading", "eof" or "error"

execVars == <<instance, exec, status, emitted, stream, attach, demux>>

ExecEnded == demux \in {"eof", "error"}    \* close(s.done)

(***************************************************************************)
(* The command and Podman.                                                 *)
(***************************************************************************)
Emit(channel) ==
  /\ exec = "running" /\ emitted[channel] < MaxChunks
  /\ tty => channel = 1
  /\ emitted' = [emitted EXCEPT ![channel] = @ + 1]
  /\ stream' = Append(stream, channel)
  /\ UNCHANGED <<instance, exec, status, attach, demux>>

EndOutput ==
  /\ exec = "running" /\ exec' = "silent"
  /\ UNCHANGED <<instance, status, emitted, stream, attach, demux>>

Exit(code) ==
  /\ exec = "silent" /\ exec' = "exited" /\ status' = code
  /\ UNCHANGED <<instance, emitted, stream, attach, demux>>

(* The controller terminates the instance and Podman removes its sessions. *)
StopInstance ==
  /\ instance = "ready" /\ instance' = "gone"
  /\ exec' = IF exec = "none" THEN "none" ELSE "removed"
  /\ UNCHANGED <<status, emitted, stream, attach, demux>>

(***************************************************************************)
(* Exec and readOutput.                                                    *)
(***************************************************************************)

(* validateExec, inspectOwned and the creation of the session.  A start    *)
(* frame that ParseClientText accepted always passes validateExec.         *)
ExecCreate == instance = "ready" /\ exec = "none" /\ exec' = "created"

(* Dial, the start request and its upgrade, and the two output pipes. *)
ExecAttach ==
  /\ exec = "created"
  /\ exec' = "running" /\ attach' = "open" /\ demux' = "reading"

(* removeExec: force stops the command, and finding nothing is success. *)
RemoveExec == exec' = "removed"

(* demux and io.Copy hand one chunk to a pump that is reading its pipe. *)
DemuxChunk(channel) ==
  /\ demux = "reading" /\ attach = "open"
  /\ stream # <<>> /\ Head(stream) = channel
  /\ stream' = Tail(stream)

(* readOutput ends: the stream is over, or its connection has failed. *)
DemuxEnd ==
  /\ demux = "reading"
  /\ \/ attach = "closed" /\ demux' = "error"
     \/ /\ attach = "open" /\ stream = <<>>
        /\ exec \in {"silent", "exited", "removed"} /\ demux' = "eof"
     \/ attach = "open" /\ exec = "removed" /\ demux' = "error"
  /\ UNCHANGED <<instance, exec, status, emitted, stream, attach>>

(* closeIO: our end of the connection and of the pipes. *)
CloseIO == attach' = IF attach = "open" THEN "closed" ELSE attach

(* What execSession.Wait returns once the demultiplexer has ended.  It     *)
(* polls while Podman says the command is running.                         *)
WaitOutcomes ==
  IF demux = "error" THEN {"error"}
  ELSE IF exec = "exited" THEN {"exit"}
  ELSE IF exec = "removed" THEN {"error"} ELSE {}

(* Stdin().Write.  Podman's end is gone once the command's output ended;   *)
(* until it notices, the write may still be taken.                         *)
StdinTaken == attach = "open" /\ exec \in {"running", "silent"}

StdinRefused == attach # "open" \/ exec \in {"silent", "exited", "removed"}

ExecTypeOK ==
  /\ instance \in {"ready", "gone"}
  /\ exec \in {"none", "created", "running", "silent", "exited", "removed"}
  /\ status \in ExitCodes \cup {NoStatus}
  /\ emitted \in [Channels -> 0..MaxChunks]
  /\ stream \in Seq(Channels)
  /\ attach \in {"none", "open", "closed"}
  /\ demux \in {"off", "reading", "eof", "error"}
=============================================================================
