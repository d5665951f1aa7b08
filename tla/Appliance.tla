----------------------------- MODULE Appliance -----------------------------
(***************************************************************************)
(* `nephos up`, `down` and `status`: commands on one Docker container and  *)
(* one data volume with fixed names, run by several terminals at once,     *)
(* while the appliance inside (Guest) starts, crashes and restarts and     *)
(* while somebody removes the container or the volume with Docker itself.  *)
(* Every call to Docker is one step, and may fail.  The host keeps its     *)
(* power here: Guest's Disk is not part of this module.                    *)
(*                                                                         *)
(* The three resource limits are one number.  A container is ours when its *)
(* label, its volume and its image all are.                                *)
(***************************************************************************)
EXTENDS Guest

CONSTANTS
  Procs,          \* terminals
  Jobs,           \* commands: records of op, limits and explicit
  MinLimit,       \* least limits the appliance works with
  HostLimit,      \* what the Docker host has
  MaxRemovals     \* bound on `docker rm` and `docker volume rm`

VARIABLES
  container,      \* None, or its owner, volume, image, limits and running
  owner,          \* of the volume: "none", "nephos" or "other"
  creds,          \* ~/.nephos/credentials: "none", "partial" or a token
  job, pc,        \* of every terminal
  copied,         \* the token file it has copied from the container
  temp,           \* its temporary file: "none", "partial" or a token
  stale,          \* has something been removed since its command inspected the
                  \* container?
  removals

cli == <<job, pc, copied, temp, stale>>
docker == <<container, owner, removals>>
vars == <<guestVars, docker, creds, cli>>

None == [owner |-> "none", volume |-> "none", image |-> "none", limits |-> 0, running |-> FALSE]
Ours(limits) ==
  [owner |-> "nephos", volume |-> "nephos", image |-> "nephos", limits |-> limits, running |-> FALSE]
Others ==
  {[owner |-> "other", volume |-> "other", image |-> "other", limits |-> MinLimit, running |-> FALSE],
   [owner |-> "nephos", volume |-> "nephos", image |-> "other", limits |-> MinLimit, running |-> FALSE]}

-----------------------------------------------------------------------------
(* Checks.                                                                 *)

VerifyContainer(c) == c.owner = "nephos" /\ c.volume = "nephos" /\ c.image = "nephos"

LimitsFit(limits) == MinLimit <= limits /\ limits <= HostLimit

CheckRequestedLimits(actual, j) == actual > 0 /\ (j.explicit => actual = j.limits)

Running == IF VerifyContainer(container) THEN entry # "off" ELSE container.running

-----------------------------------------------------------------------------
(* A command's steps.                                                      *)

Ended == {"ok", "failed"}
NoJob == [op |-> "none", limits |-> 0, explicit |-> FALSE]

At(p, op, point) == job[p].op = op /\ pc[p] = point
Go(p, point) == pc' = [pc EXCEPT ![p] = point] /\ UNCHANGED <<job, copied, stale>>
Exit(p, outcome) ==
  /\ pc' = [pc EXCEPT ![p] = outcome] /\ job' = [job EXCEPT ![p] = NoJob]
  /\ copied' = [copied EXCEPT ![p] = "none"] /\ stale' = [stale EXCEPT ![p] = FALSE]
Fail(p) == Exit(p, "failed")

Quiet == UNCHANGED <<guestVars, docker, creds>>

Begin(p, j) ==
  /\ pc[p] \in Ended
  /\ job' = [job EXCEPT ![p] = j] /\ pc' = [pc EXCEPT ![p] = "ping"]
  /\ Quiet /\ UNCHANGED <<copied, temp, stale>>

(* Ping; and for up, Info and ImageExists.                                 *)
Ping(p) ==
  /\ pc[p] = "ping"
  /\ Go(p, "inspect") \/ Fail(p)
  /\ Quiet /\ UNCHANGED temp

UpInspect(p) ==
  /\ At(p, "up", "inspect")
  /\ \/ /\ container = None
        /\ IF LimitsFit(job[p].limits) THEN Go(p, "volume") ELSE Fail(p)
     \/ /\ container # None
        /\ IF /\ VerifyContainer(container)
              /\ CheckRequestedLimits(container.limits, job[p])
              /\ LimitsFit(container.limits)
           THEN Go(p, IF Running THEN "runs" ELSE "owned") ELSE Fail(p)
     \/ Fail(p)
  /\ Quiet /\ UNCHANGED temp

UpInspectVolume(p) ==
  /\ At(p, "up", "volume")
  /\ \/ owner = "none" /\ Go(p, "createVolume")
     \/ owner = "other" /\ Fail(p)
     \/ owner = "nephos" /\ Go(p, "create")
     \/ Fail(p)
  /\ Quiet /\ UNCHANGED temp

(* Docker leaves a volume that is there as it is.                          *)
CreateVolume(p) ==
  /\ At(p, "up", "createVolume")
  /\ \/ owner' = (IF owner = "none" THEN "nephos" ELSE owner) /\ Go(p, "create")
     \/ Fail(p) /\ UNCHANGED owner
  /\ UNCHANGED <<guestVars, container, removals, creds, temp>>

(* A create that takes the container that is there for its own.            *)
CreateOrReuse(p) ==
  /\ At(p, "up", "create") /\ Go(p, "owned")
  /\ container' = (IF container = None THEN Ours(job[p].limits) ELSE container)
  /\ owner' = (IF owner = "none" THEN "other" ELSE owner)
  /\ UNCHANGED <<guestVars, removals, creds, temp>>

(* Docker refuses a second container of the name, and makes an unlabelled  *)
(* volume for a container whose volume is missing.                         *)
Create(p) ==
  /\ At(p, "up", "create")
  /\ \/ /\ container = None /\ container' = Ours(job[p].limits)
        /\ owner' = (IF owner = "none" THEN "other" ELSE owner) /\ Go(p, "owned")
     \/ Fail(p) /\ UNCHANGED <<container, owner>>
  /\ UNCHANGED <<guestVars, removals, creds, temp>>

UpCheckVolume(p) ==
  /\ At(p, "up", "owned") \/ At(p, "up", "runs")
  /\ \/ owner = "nephos" /\ Go(p, IF pc[p] = "runs" THEN "ready" ELSE "start")
     \/ Fail(p)
  /\ Quiet /\ UNCHANGED temp

(* Docker starts whatever container has the name; one that runs already    *)
(* keeps running.                                                          *)
Start(p) ==
  /\ At(p, "up", "start")
  /\ \/ /\ VerifyContainer(container) /\ Go(p, "ready") /\ UNCHANGED container
        /\ IF entry = "off" THEN Boot ELSE UNCHANGED guestVars
     \/ /\ container # None /\ ~VerifyContainer(container) /\ Go(p, "ready")
        /\ container' = [container EXCEPT !.running = TRUE] /\ UNCHANGED guestVars
     \/ Fail(p) /\ UNCHANGED <<container, guestVars>>
  /\ UNCHANGED <<owner, removals, creds, temp>>

(* A wait without a deadline.                                              *)
WaitReadyForever(p) ==
  /\ At(p, "up", "ready")
  /\ (GetHealth = "ready" /\ Go(p, "copy")) \/ (~Running /\ Fail(p))
  /\ Quiet /\ UNCHANGED temp

(* The round of the wait that ends it: ready, stopped or out of time.      *)
WaitReady(p) ==
  /\ At(p, "up", "ready")
  /\ (GetHealth = "ready" /\ Go(p, "copy")) \/ Fail(p)
  /\ Quiet /\ UNCHANGED temp

(* From whatever container has the name, if it has the file.               *)
CopyFile(p) ==
  /\ At(p, "up", "copy")
  /\ \/ /\ container # None /\ container.volume = "nephos" /\ tokenFile # "absent"
        /\ copied' = [copied EXCEPT ![p] = tokenFile]
        /\ pc' = [pc EXCEPT ![p] = "save"] /\ UNCHANGED <<job, stale>>
     \/ Fail(p)
  /\ Quiet /\ UNCHANGED temp

(* Save: check the archive's token and make a temporary file.              *)
Save(p) ==
  /\ At(p, "up", "save")
  /\ IF copied[p] = "empty" THEN Fail(p) /\ UNCHANGED temp
     ELSE Go(p, "write") /\ temp' = [temp EXCEPT ![p] = "partial"]
  /\ Quiet

(* Write and sync it; a failure removes it.                                *)
WriteTemp(p) ==
  /\ At(p, "up", "write")
  /\ \/ Go(p, "rename") /\ temp' = [temp EXCEPT ![p] = copied[p]]
     \/ Fail(p) /\ temp' = [temp EXCEPT ![p] = "none"]
  /\ Quiet

(* A rename that spares a credential that is there.                        *)
RenameNew(p) ==
  /\ At(p, "up", "rename") /\ Exit(p, "ok")
  /\ creds' = (IF creds = "none" THEN temp[p] ELSE creds) /\ temp' = [temp EXCEPT ![p] = "none"]
  /\ UNCHANGED <<guestVars, docker>>

Rename(p) ==
  /\ At(p, "up", "rename") /\ temp' = [temp EXCEPT ![p] = "none"]
  /\ (Exit(p, "ok") /\ creds' = temp[p]) \/ (Fail(p) /\ UNCHANGED creds)
  /\ UNCHANGED <<guestVars, docker>>

DownInspect(p) ==
  /\ At(p, "down", "inspect")
  /\ \/ container = None /\ Exit(p, "ok")
     \/ container # None /\ ~VerifyContainer(container) /\ Fail(p)
     \/ container # None /\ VerifyContainer(container) /\ ~Running /\ Exit(p, "ok")
     \/ container # None /\ VerifyContainer(container) /\ Running /\ Go(p, "stop")
     \/ Fail(p)
  /\ Quiet /\ UNCHANGED temp

(* Docker sends TERM, waits and at last kills: the volume is left as       *)
(* nephosd has it when that is over.                                       *)
Stop(p) ==
  /\ At(p, "down", "stop")
  /\ \/ /\ container # None /\ Exit(p, "ok")
        /\ IF VerifyContainer(container)
           THEN TurnOff /\ UNCHANGED <<volume, container>>
           ELSE container' = [container EXCEPT !.running = FALSE] /\ UNCHANGED guestVars
     \/ Fail(p) /\ UNCHANGED <<container, guestVars>>
  /\ UNCHANGED <<owner, removals, creds, temp>>

StatusInspect(p) ==
  /\ At(p, "status", "inspect")
  /\ \/ container = None /\ Exit(p, "ok")
     \/ container # None /\ VerifyContainer(container) /\ Running /\ Go(p, "health")
     \/ container # None /\ VerifyContainer(container) /\ ~Running /\ Exit(p, "ok")
     \/ Fail(p)
  /\ Quiet /\ UNCHANGED temp

StatusHealth(p) ==
  /\ At(p, "status", "health") /\ (Exit(p, "ok") \/ Fail(p))
  /\ Quiet /\ UNCHANGED temp

(* The terminal is closed.  A temporary file it leaves is never read.      *)
Die(p) ==
  /\ pc[p] \notin Ended /\ Fail(p) /\ temp' = [temp EXCEPT ![p] = "none"]
  /\ Quiet

-----------------------------------------------------------------------------
(* Docker, used directly.                                                  *)

Removal ==
  /\ removals' = removals + 1
  /\ stale' = [p \in Procs |-> pc[p] \notin Ended \cup {"ping", "inspect"}]

RemoveContainer ==
  /\ VerifyContainer(container) /\ ~Running /\ removals < MaxRemovals
  /\ container' = None /\ Removal
  /\ UNCHANGED <<guestVars, owner, creds, job, pc, copied, temp>>

RemoveVolume ==
  /\ owner = "nephos" /\ container = None /\ removals < MaxRemovals
  /\ owner' = "none" /\ Removal
  /\ tokenFile' = "absent" /\ durable' = TRUE /\ schema' = [version |-> 0, applied |-> {}]
  /\ UNCHANGED <<container, creds, job, pc, copied, temp>>
  /\ UNCHANGED <<entry, podman, guard, daemon, sigterm, process>>

(* Somebody else's container takes the name while nobody has it, which may *)
(* be between any two calls of a command.                                  *)
OtherContainer ==
  /\ container = None
  /\ container' \in Others
  /\ UNCHANGED <<guestVars, owner, removals, creds, cli>>

-----------------------------------------------------------------------------

Up(p) ==
  \/ UpInspect(p) \/ UpInspectVolume(p) \/ CreateVolume(p) \/ Create(p) \/ UpCheckVolume(p)
  \/ Start(p) \/ WaitReady(p) \/ CopyFile(p) \/ Save(p) \/ WriteTemp(p) \/ Rename(p)
Down(p) == DownInspect(p) \/ Stop(p)
StatusOf(p) == StatusInspect(p) \/ StatusHealth(p)

Command(p) == Ping(p) \/ Up(p) \/ Down(p) \/ StatusOf(p)

Inside == GuestNext /\ UNCHANGED <<docker, creds, cli>>

NothingDone ==
  /\ container = None /\ owner \in {"none", "other"} /\ creds = "none" /\ removals = 0
  /\ job = [p \in Procs |-> NoJob] /\ pc = [p \in Procs |-> "ok"]
  /\ copied = [p \in Procs |-> "none"] /\ temp = [p \in Procs |-> "none"]
  /\ stale = [p \in Procs |-> FALSE]

Init == Off /\ NewVolume(0) /\ NothingDone

Next ==
  \/ \E p \in Procs : Command(p) \/ Die(p) \/ (\E j \in Jobs : Begin(p, j))
  \/ Inside \/ RemoveContainer \/ RemoveVolume \/ OtherContainer

(* A command that has begun runs; the container need not.                  *)
Spec == Init /\ [][Next]_vars /\ \A p \in Procs : WF_vars(Command(p))

-----------------------------------------------------------------------------

(* The credential file only ever changes to a whole token, whichever       *)
(* commands are cut short, run at the same time or copy the token while    *)
(* nephosd is writing it.  An `up` that succeeds leaves the token of the   *)
(* volume there, and has made or found a container of the limits that were *)
(* asked for, unless the container or the volume was removed while it ran. *)
UpDelivers ==
  [][/\ creds' # creds => creds' \in Tokens
     /\ \A p \in Procs :
          pc[p] = "rename" /\ pc'[p] = "ok" /\ ~stale[p] =>
            /\ creds' = tokenFile
            /\ job[p].explicit => container.limits = job[p].limits]_vars

(* Nephos starts and stops no container but its own: one that appears      *)
(* under its name between two of its calls to Docker is refused, by        *)
(* verifyContainer or by Docker's create (lifecycle.go:90, 97, 147).       *)
(* Start and Stop go by the name without another look (docker.go:146,      *)
(* 154), so that a command whose own container was removed after it had    *)
(* inspected it is the one that may reach the container in its place.      *)
Touches(p) == pc[p] \in {"start", "stop"} /\ pc'[p] # pc[p]
OthersUntouched ==
  [][container # None /\ ~VerifyContainer(container) /\ container' # container =>
       \E p \in Procs : stale[p] /\ Touches(p)]_vars

(* Every command ends, whatever the appliance does.                        *)
CommandsEnd == \A p \in Procs : (pc[p] = "ping") ~> (pc[p] \in Ended)
=============================================================================
