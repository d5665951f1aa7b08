---------------------------- MODULE ConsoleWire ----------------------------
(***************************************************************************)
(* The WebSocket between `nephos console` and nephosd, and the shared      *)
(* message format of internal/tunnel/console.                              *)
(*                                                                         *)
(* A frame keeps what the parsers look at.  A client's text frame has a    *)
(* type, the optional fields of the JSON object, and `strict`, which says  *)
(* that it is one JSON object of at most 4 KiB with known fields only.  A  *)
(* client's binary frame is well formed when it has channel byte 0 and at  *)
(* most 64 KiB.  The server only sends what ParseServerText and            *)
(* ParseOutputFrame accept.                                                *)
(***************************************************************************)
EXTENDS Naturals, Sequences

CONSTANT ExitCodes    \* statuses a command can end with, within 0..255

VARIABLES
  tty,        \* the client's mode: an interactive PTY or a one-shot command
  link,       \* "none", "open", "closed" (by a peer) or "lost" (by the network)
  toServer,   \* frames on their way to nephosd
  toClient    \* frames on their way to the CLI

wire == <<tty, link, toServer, toClient>>

Channels == {1, 2}    \* stdout and stderr

ClientText(type, strict, mode, argv, dims) ==
  [kind |-> "text", type |-> type, strict |-> strict, mode |-> mode,
   argv |-> argv, dims |-> dims]

StartFrame(pty) ==
  ClientText("start", TRUE, IF pty THEN "yes" ELSE "no", TRUE,
             IF pty THEN "set" ELSE "absent")

EOFFrame == ClientText("stdin_eof", TRUE, "absent", FALSE, "absent")

ResizeFrame == ClientText("resize", TRUE, "absent", FALSE, "set")

InputFrame == [kind |-> "binary", wellFormed |-> TRUE]

ParseInputFrame(frame) == frame.kind = "binary" /\ frame.wellFormed

(* Whether ParseClientText accepts a text frame. *)
ParseClientText(frame) ==
  /\ frame.strict
  /\ \/ /\ frame.type = "start"
        /\ frame.mode # "absent" /\ frame.argv
        /\ frame.dims = IF frame.mode = "yes" THEN "set" ELSE "absent"
     \/ frame.type = "resize" /\ frame.dims = "set"
     \/ frame.type = "stdin_eof"

OutputFrame(channel) == [kind |-> "binary", channel |-> channel]

(* What ParseOutputFrame and ParseServerText accept, and the close frames. *)
ServerFrames ==
  [kind : {"binary"}, channel : Channels] \cup
  [kind : {"exit"}, code : ExitCodes] \cup
  [kind : {"error"}] \cup
  [kind : {"close"}, status : {"normal", "policy"}]

(* Write and Close frames reach the peer while the connection is open.     *)
SendToClient(frames) == toClient' = toClient \o frames

SendToServer(frame) == toServer' = Append(toServer, frame)

(* CloseNow, and the answer of a peer to a close frame. *)
Closed == IF link = "open" THEN "closed" ELSE link

(* The network drops the connection with everything on it. *)
Lose ==
  /\ link = "open"
  /\ link' = "lost" /\ toServer' = <<>> /\ toClient' = <<>>
  /\ UNCHANGED tty
=============================================================================
