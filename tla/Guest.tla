-------------------------------- MODULE Guest --------------------------------
(***************************************************************************)
(* The inside of the appliance container: the entrypoint script that       *)
(* prepares it and supervises Podman and nephosd, and nephosd's own start, *)
(* run and shutdown.  The data volume keeps the API token and the schema   *)
(* of the state database from one start to the next.                       *)
(*                                                                         *)
(* nephosd runs four parts as goroutines: the API server, the hook server  *)
(* and the two reconcilers.  Each puts its result in a channel of capacity *)
(* one when it ends; serve takes every result exactly once.                *)
(***************************************************************************)
EXTENDS Integers, FiniteSets

CONSTANTS
  Tokens,         \* tokens a daemon may draw
  SchemaVersion,  \* the schema the daemon is built for (4)
  Schemas,        \* schema versions a volume may come with
  GuestFaults     \* "preflight", "podman", "part", "sweep", "disk", "kill", "power"

ASSUME GuestAssumption == SchemaVersion \in Nat /\ Schemas \subseteq Nat

VARIABLES
  entry,          \* the script: "off", "preflight", "probe", "supervise" or "cleanup"
  podman,         \* is the Podman service alive?
  guard,          \* the guard subshell: "none", "watching" or "gone"
  daemon,         \* nephosd: "none", "token", "create", "write", "store", "hook",
                  \* "sweep", "abort", "run", "join" or "exited"
  sigterm,        \* has nephosd been told to stop?
  tokenFile,      \* on the volume: "absent", "empty" or a token
  durable,        \* is the token file on the disk as it reads?
  schema,         \* on the volume: the version and the migrations applied
  served,         \* the token nephosd accepts, or "none"
  ready,          \* the flag the health endpoint reports
  alive,          \* the parts that run
  results,        \* the parts whose result is in its channel
  taken           \* the parts whose result serve has taken

volume == <<tokenFile, durable, schema>>
process == <<served, ready, alive, results, taken>>
guestVars == <<entry, podman, guard, daemon, sigterm, volume, process>>

Servers == {"api", "hook"}
Parts == Servers \cup {"vpc", "instance"}

Fault(kind) == kind \in GuestFaults

NewVolume(version) ==
  /\ tokenFile = "absent" /\ durable = TRUE
  /\ schema = [version |-> version, applied |-> 1..version]

Off ==
  /\ entry = "off" /\ podman = FALSE /\ guard = "none" /\ daemon = "none"
  /\ sigterm = FALSE /\ served = "none" /\ ready = FALSE
  /\ alive = {} /\ results = {} /\ taken = {}

(* Everything in the container ends with its first process.                *)
TurnOff ==
  /\ entry' = "off" /\ podman' = FALSE /\ guard' = "none" /\ daemon' = "none"
  /\ sigterm' = FALSE /\ served' = "none" /\ ready' = FALSE
  /\ alive' = {} /\ results' = {} /\ taken' = {}

-----------------------------------------------------------------------------
(* The script.                                                             *)

Boot ==
  /\ entry = "off" /\ entry' = "preflight"
  /\ UNCHANGED <<podman, guard, daemon, sigterm, volume, process>>

(* cgroups, limits, disk, fresh tmpfs mounts, probes of the kernel and the *)
(* import of the image; then Podman is started.                            *)
Preflight ==
  /\ entry = "preflight"
  /\ \/ entry' = "probe" /\ podman' = TRUE /\ UNCHANGED <<guard, daemon, sigterm, process>>
     \/ Fault("preflight") /\ TurnOff
  /\ UNCHANGED volume

(* Wait for Podman's socket to answer, at most twenty times.               *)
Probe ==
  /\ entry = "probe"
  /\ IF podman THEN /\ entry' = "supervise" /\ daemon' = "token" /\ guard' = "watching"
                    /\ UNCHANGED <<podman, sigterm, process>>
     ELSE entry' = "cleanup" /\ UNCHANGED <<podman, guard, daemon, sigterm, process>>
  /\ UNCHANGED volume

(* The guard asks Podman every second and stops nephosd when it is gone.   *)
Guard ==
  /\ guard = "watching" /\ ~podman /\ guard' = "gone"
  /\ sigterm' = (daemon \notin {"none", "exited"})
  /\ UNCHANGED <<entry, podman, daemon, volume, process>>

(* The script's wait for nephosd returns.                                  *)
Supervise ==
  /\ entry = "supervise" /\ daemon = "exited" /\ entry' = "cleanup"
  /\ UNCHANGED <<podman, guard, daemon, sigterm, volume, process>>

(* A TERM: before its traps are set the script just dies.                  *)
Term ==
  /\ \/ entry = "preflight" /\ TurnOff
     \/ /\ entry \in {"probe", "supervise"} /\ entry' = "cleanup"
        /\ UNCHANGED <<podman, guard, daemon, sigterm, process>>
  /\ UNCHANGED volume

(* The exit trap: stop the children and wait for them.                     *)
Cleanup ==
  /\ entry = "cleanup"
  /\ \/ /\ podman \/ guard = "watching" \/ (daemon \notin {"none", "exited"} /\ ~sigterm)
        /\ podman' = FALSE /\ guard' = "gone" /\ sigterm' = (daemon \notin {"none", "exited"})
        /\ UNCHANGED <<entry, daemon, process>>
     \/ /\ ~podman /\ guard # "watching" /\ daemon \in {"none", "exited"}
        /\ TurnOff
  /\ UNCHANGED volume

(* SIGKILL: what was written stays in the kernel's cache.                  *)
Kill == entry # "off" /\ Fault("kill") /\ TurnOff /\ UNCHANGED volume

(* The kernel writes the token file back in its own time: LoadOrCreate     *)
(* does not sync it.  A loss of power before that may take the content or  *)
(* the file itself; SQLite syncs what it commits.                          *)
Writeback ==
  /\ ~durable /\ durable' = TRUE
  /\ UNCHANGED <<entry, podman, guard, daemon, sigterm, tokenFile, schema, process>>

PowerLoss ==
  /\ Fault("power") /\ TurnOff
  /\ tokenFile' \in {tokenFile} \cup (IF durable THEN {} ELSE {"absent", "empty"})
  /\ durable' = TRUE /\ UNCHANGED schema

PodmanDies ==
  /\ podman /\ Fault("podman") /\ podman' = FALSE
  /\ UNCHANGED <<entry, guard, daemon, sigterm, volume, process>>

-----------------------------------------------------------------------------
(* nephosd.                                                                *)

Supervision == UNCHANGED <<entry, podman, guard, sigterm>>

Step(next) == daemon' = next /\ Supervision

(* A token for every start, over the one that is there.                    *)
LoadAlwaysNew ==
  /\ daemon = "token" /\ Step("create")
  /\ UNCHANGED <<volume, process>>

(* Any content of the file is taken for a token.                           *)
LoadUnchecked ==
  /\ daemon = "token"
  /\ IF tokenFile = "absent" THEN Step("create") /\ UNCHANGED process
     ELSE Step("store") /\ served' = tokenFile /\ UNCHANGED <<ready, alive, results, taken>>
  /\ UNCHANGED volume

(* The token's first half: read the file, if there is one.                 *)
Load ==
  /\ daemon = "token"
  /\ CASE tokenFile = "absent" -> Step("create") /\ UNCHANGED process
       [] tokenFile = "empty"  -> Step("exited") /\ UNCHANGED process
       [] OTHER -> /\ Step("store") /\ served' = tokenFile
                   /\ UNCHANGED <<ready, alive, results, taken>>
  /\ UNCHANGED volume

(* The second half: an empty file, then its content.                       *)
CreateToken ==
  /\ daemon = "create" /\ Step("write") /\ tokenFile' = "empty" /\ durable' = FALSE
  /\ UNCHANGED <<schema, process>>

WriteToken(t) ==
  /\ daemon = "write"
  /\ \/ /\ Step("store") /\ tokenFile' = t /\ durable' = FALSE /\ served' = t
        /\ UNCHANGED <<schema, ready, alive, results, taken>>
     \/ Fault("disk") /\ Step("exited") /\ UNCHANGED <<volume, process>>

(* All missing migrations and the version, in one transaction.             *)
Migrate(s) ==
  [version |-> SchemaVersion, applied |-> s.applied \cup (s.version + 1)..SchemaVersion]

(* Open's transaction; a version from a later release is refused.          *)
Open ==
  /\ daemon = "store"
  /\ LET migrated == Migrate(schema)
     IN  IF sigterm \/ schema.version > SchemaVersion \/ ~(1..SchemaVersion \subseteq migrated.applied)
         THEN Step("exited") /\ UNCHANGED schema
         ELSE Step("hook") /\ schema' = migrated
  /\ UNCHANGED <<tokenFile, durable, process>>

(* The private socket; then the two servers begin to serve.                *)
Listen ==
  /\ daemon = "hook"
  /\ IF sigterm THEN Step("exited") /\ UNCHANGED process
     ELSE Step("sweep") /\ alive' = Servers /\ UNCHANGED <<served, ready, results, taken>>
  /\ UNCHANGED volume

(* The two startup sweeps.                                                 *)
Sweep ==
  /\ daemon = "sweep"
  /\ \/ /\ ~sigterm /\ Step("run") /\ ready' = TRUE /\ alive' = alive \cup {"vpc", "instance"}
        /\ UNCHANGED <<served, results, taken>>
     \/ (sigterm \/ Fault("sweep")) /\ Step("abort") /\ UNCHANGED process
  /\ UNCHANGED volume

(* A part ends: by itself with an error, or because it is told to.         *)
End(p) ==
  /\ p \in alive
  /\ Fault("part") \/ daemon \in {"join", "abort"} \/ (sigterm /\ p \in {"vpc", "instance"})
  /\ alive' = alive \ {p} /\ results' = results \cup {p}
  /\ UNCHANGED <<entry, podman, guard, daemon, sigterm, volume, served, ready, taken>>

(* A select that does not watch the hook server.                           *)
SelectWithoutHook ==
  /\ daemon = "run" /\ Step("join") /\ ready' = FALSE
  /\ \/ sigterm /\ UNCHANGED <<results, taken>>
     \/ \E p \in results \ {"hook"} : results' = results \ {p} /\ taken' = {p}
  /\ UNCHANGED <<volume, served, alive>>

(* serve's select: a signal, or the first part to end.                     *)
Select ==
  /\ daemon = "run" /\ Step("join") /\ ready' = FALSE
  /\ \/ sigterm /\ UNCHANGED <<results, taken>>
     \/ \E p \in results : results' = results \ {p} /\ taken' = {p}
  /\ UNCHANGED <<volume, served, alive>>

(* Taking the result of every part, the one the select took included.      *)
Waited == IF daemon = "abort" THEN Servers ELSE Parts

Join ==
  /\ daemon \in {"join", "abort"}
  /\ \/ /\ \E p \in results \ taken : results' = results \ {p} /\ taken' = taken \cup {p}
        /\ UNCHANGED <<daemon, served, ready, alive>>
     \/ /\ taken = Waited /\ daemon' = "exited"
        /\ served' = "none" /\ UNCHANGED <<ready, alive, results, taken>>
  /\ Supervision /\ UNCHANGED volume

GetHealth ==
  IF "api" \notin alive THEN "unhealthy" ELSE IF ready THEN "ready" ELSE "starting"

-----------------------------------------------------------------------------

Daemon ==
  \/ Load \/ CreateToken \/ (\E t \in Tokens : WriteToken(t)) \/ Open \/ Listen
  \/ Sweep \/ Select \/ Join

Script == Preflight \/ Probe \/ Supervise \/ Cleanup

GuestNext ==
  \/ Script \/ Guard \/ Kill \/ PodmanDies \/ Daemon
  \/ \E p \in Parts : End(p)

(* The host's disk and power.                                              *)
Disk == Writeback \/ PowerLoss

(* The container's processes run, and a part that is told to end does.     *)
GuestFairness ==
  /\ WF_guestVars(Script) /\ WF_guestVars(Guard) /\ WF_guestVars(Daemon)
  /\ \A p \in Parts : WF_guestVars(End(p) /\ (daemon \in {"join", "abort"} \/ sigterm))

GuestInit == Off /\ \E v \in Schemas : NewVolume(v)
GuestSpec == GuestInit /\ [][Boot \/ Term \/ Disk \/ GuestNext]_guestVars /\ GuestFairness

-----------------------------------------------------------------------------

(* An appliance that answers "ready" serves the token its volume keeps, on *)
(* a database that every migration up to the daemon's version has gone     *)
(* through, whatever crashes came before.                                  *)
ReadyIsSound ==
  GetHealth = "ready" =>
    /\ served = tokenFile /\ served \in Tokens
    /\ schema = [version |-> SchemaVersion, applied |-> 1..SchemaVersion]

(* A step that leaves the volume its token, or loses one that had not yet  *)
(* reached the disk, with everything else that runs.                       *)
KeepsToken ==
  tokenFile \in Tokens => tokenFile' = tokenFile \/ (~durable /\ entry' = "off")

(* The loss of Podman, or of any part of nephosd, ends the container: it   *)
(* neither stays half alive nor hangs in its shutdown.                     *)
FailsClosed ==
  /\ (entry = "supervise" /\ ~podman) ~> (entry = "off")
  /\ (daemon = "run" /\ alive # Parts) ~> (entry = "off")
=============================================================================
