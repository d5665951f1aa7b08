------------------------------ MODULE Commands ------------------------------
(***************************************************************************)
(* One command of the CLI on a resource: create (run), list, describe and  *)
(* delete (terminate), with `--wait`, while other clients and the          *)
(* reconcilers change the tables between its requests.  Each request is    *)
(* one step that reads or writes the database; its answer may be lost.  An *)
(* attempt at a create that was given up may still be carried out later.   *)
(*                                                                         *)
(* A reference is an ID or a name, and a name may look like an ID: both    *)
(* are numbers, and LooksLikeID says which could be IDs.                   *)
(***************************************************************************)
EXTENDS ResourceReads

CONSTANTS
  IDs,          \* resource IDs that may be drawn
  Names,        \* names other clients give
  Asked,        \* the commands: records of kind, verb, ref, name, wait, params
  WalkLimit,    \* page size of name resolution (100 in the code)
  Attempts      \* attempts at a create (3 in the code)

VARIABLES
  db,
  drawn,        \* IDs drawn so far, in the walked table and by the command
  cmd,
  pc,           \* "begin", "lookup", "walk", "create", "list", "describe",
                \* "delete", "wait" or "done"
  token, seen, match,    \* resolveVPC's local variables
  tries,        \* attempts at the create
  late,         \* an attempt that was given up: "no", "pending" in the server,
                \* or "made" the row when it got there
  made,         \* the row the create has committed, if any
  target,       \* the row the command acts on, if known
  reason,       \* why the command failed
  code,         \* the exit code, or -1 while it runs
  steady,       \* rows the reference has meant ever since the command began
  wasUp         \* rows of the command's kind that have been available or running

walk == <<token, seen, match>>
vars == <<db, drawn, cmd, pc, walk, tries, late, made, target, reason, code, steady, wasUp>>

-----------------------------------------------------------------------------
(* The kinds of resources.                                                 *)

Parent(kind) == CASE kind = "subnet" -> "vpc" [] kind = "instance" -> "subnet"

(* The kind the reference is resolved in: a create resolves its parent.    *)
Walked(c) == IF c.verb = "create" /\ c.kind # "vpc" THEN Parent(c.kind) ELSE c.kind

Table(d, kind) ==
  CASE kind = "vpc" -> d.vpcs [] kind = "subnet" -> d.subnets [] kind = "instance" -> d.instances

GetOf(kind, id) ==
  CASE kind = "vpc" -> GetVpc(db, id)
    [] kind = "subnet" -> GetSubnetRow(db, id)
    [] kind = "instance" -> GetInstanceRow(db, id)

ListOf(kind, params) ==
  CASE kind = "vpc" -> ListVpcs(db, params)
    [] kind = "subnet" -> ListSubnetsPage(db, params)
    [] kind = "instance" -> ListInstances(db, params)

Insert(d, kind, id, parent, name) ==
  CASE kind = "vpc" -> InsertVPC(d, id, name, <<0, 0>>)
    [] kind = "subnet" -> InsertSubnet(d, id, parent, name, <<0, 0>>)
    [] kind = "instance" -> InsertENI(InsertInstance(d, id, parent, name), id, parent, id)

Mark(d, kind, id) ==
  CASE kind = "vpc" -> MarkVPCDeleting(d, id)
    [] kind = "subnet" -> MarkSubnetDeleting(d, id)
    [] kind = "instance" -> MarkInstanceTerminating(d, id)

Update(d, kind, id, state, obs) ==
  CASE kind = "vpc" -> UpdateVPCStatus(d, id, state, obs)
    [] kind = "subnet" -> UpdateSubnetStatus(d, id, state, obs)
    [] kind = "instance" -> UpdateInstanceStatus(d, id, state, obs)

Drop(d, kind, id) ==
  CASE kind = "vpc" -> DeleteVPCRow(d, id)
    [] kind = "subnet" -> DeleteSubnetRow(d, id)
    [] kind = "instance" -> DeleteInstance(DeleteInstanceENI(d, id), id)

Dependents(d, kind, id) ==
  CASE kind = "vpc" -> ListSubnetsByVPC(d, id)
    [] kind = "subnet" -> {i \in DOMAIN d.instances : d.instances[i].subnet = id}
    [] kind = "instance" -> {}

Up(kind) == IF kind = "instance" THEN "running" ELSE "available"

LooksLikeID(ref) == ref \in IDs

(* What a reference means: the row with that ID, or else with that name.   *)
Meant(d, c) ==
  LET table == Table(d, Walked(c))
  IN  IF LooksLikeID(c.ref) /\ c.ref \in DOMAIN table THEN {c.ref} ELSE Named(table, c.ref)

Resolving == pc \in {"begin", "lookup", "walk"}

(* Every step that writes the database keeps account of what the reference *)
(* still means while the command resolves it, and of the rows that came up.*)
Write(d) ==
  /\ db' = d
  /\ wasUp' = wasUp \cup {i \in DOMAIN Table(d, cmd.kind) : Table(d, cmd.kind)[i].state = Up(cmd.kind)}
  /\ steady' = IF Resolving THEN steady \cap Meant(d, cmd) ELSE steady

-----------------------------------------------------------------------------
(* Other clients and the reconcilers.                                      *)

Draw(id) == id \in IDs \ drawn /\ drawn' = drawn \cup {id}

OthersCreate(id, name) ==
  LET kind == Walked(cmd)
  IN  /\ Draw(id) /\ Named(Table(db, kind), name) = {}
      /\ Write(Insert(db, kind, id, 0, name))
      /\ UNCHANGED <<cmd, pc, walk, tries, late, made, target, reason, code>>

OthersDelete(id) ==
  LET kind == Walked(cmd)
  IN  /\ id \in DOMAIN Table(db, kind) /\ ~Table(db, kind)[id].del
      /\ Dependents(db, kind, id) = {}
      /\ Write(Mark(db, kind, id))
      /\ UNCHANGED <<drawn, cmd, pc, walk, tries, late, made, target, reason, code>>

(* A reconciler records the outcome of its work on a row: one that is being*)
(* deleted, or the command's own.  The state of other rows is read by      *)
(* nothing here.                                                           *)
Reconcile(kind, id, ok) ==
  LET row == Table(db, kind)[id]
  IN  /\ id \in DOMAIN Table(db, kind)
      /\ (row.del /\ ok) \/ (kind = cmd.kind /\ id \in made \cup target)
      /\ Write(IF ok /\ row.del THEN Drop(db, kind, id)
               ELSE Update(db, kind, id, IF ok THEN Up(kind) ELSE "failed",
                           IF ok THEN row.gen ELSE row.obs))
      /\ UNCHANGED <<drawn, cmd, pc, walk, tries, late, made, target, reason, code>>

-----------------------------------------------------------------------------
(* The command.                                                            *)

Reading == UNCHANGED <<db, drawn, cmd, steady, wasUp>>

Go(next) == pc' = next /\ UNCHANGED <<reason, code>>
Fail(why) == pc' = "done" /\ reason' = why /\ code' = 1
Succeed == pc' = "done" /\ code' = 0 /\ UNCHANGED reason

(* Options, credential and client; then the first request of the command.  *)
RunResource ==
  /\ pc = "begin"
  /\ \/ Fail("local") /\ UNCHANGED target
     \/ /\ cmd.verb # "list" /\ ~(cmd.verb = "create" /\ cmd.kind = "vpc")
        /\ Go(IF LooksLikeID(cmd.ref) THEN "lookup" ELSE "walk") /\ UNCHANGED target
     \/ /\ cmd.verb = "list" \/ (cmd.verb = "create" /\ cmd.kind = "vpc")
        /\ Go(cmd.verb) /\ UNCHANGED target
  /\ Reading /\ UNCHANGED <<walk, tries, late, made>>

Resolved(id) == target' = {id} /\ Go(cmd.verb)

(* The ID form of a reference: anything but "not found" settles it.        *)
LookUp(kind) ==
  /\ pc = "lookup"
  /\ LET answer == GetOf(kind, cmd.ref)
     IN  \/ answer.status = 200 /\ Resolved(cmd.ref)
         \/ answer.status = 404 /\ Go("walk") /\ UNCHANGED target
         \/ Fail("transport") /\ UNCHANGED target
  /\ UNCHANGED walk

(* One page of the walk by name.                                           *)
WalkPage(kind) ==
  /\ pc = "walk"
  /\ \/ /\ LET page == ListOf(kind, [limit |-> {WalkLimit}, token |-> token])
               hits == {i \in page.items : Table(db, kind)[i].name = cmd.ref}
               last == page.next = NoToken
           IN  /\ match' = match \cup hits
               /\ token' = {page.next} /\ seen' = seen \cup {page.next}
               /\ \/ Cardinality(match') > 1 /\ Fail("ambiguous") /\ UNCHANGED target
                  \/ /\ Cardinality(match') <= 1 /\ last /\ match' = {}
                     /\ Fail("not found") /\ UNCHANGED target
                  \/ /\ Cardinality(match') = 1 /\ last
                     /\ Resolved(CHOOSE i \in match' : TRUE)
                  \/ /\ Cardinality(match') <= 1 /\ ~last /\ UNCHANGED target
                     /\ IF page.next \in seen THEN Fail("repeated token") ELSE Go("walk")
     \/ Fail("transport") /\ UNCHANGED <<target, walk>>

Resolve(kind) ==
  /\ Walked(cmd) = kind
  /\ LookUp(kind) \/ WalkPage(kind)
  /\ Reading /\ UNCHANGED <<tries, late, made>>

ResolveVPC == Resolve("vpc")
ResolveSubnet == Resolve("subnet")
ResolveInstance == Resolve("instance")

(* What the server does with an attempt at the create: its key finds the   *)
(* row of an earlier attempt, or the request is refused, or a row is made. *)
CreateRefused ==
  \/ Named(Table(db, cmd.kind), cmd.name) # {}
  \/ /\ cmd.kind # "vpc"
     /\ LET parents == Table(db, Walked(cmd))
        IN  \A p \in target : p \in DOMAIN parents => parents[p].del

Make(id) ==
  /\ Draw(id) /\ made' = made \cup {id}
  /\ Write(Insert(db, cmd.kind, id, Given(target, 0), cmd.name))

Untouched == UNCHANGED <<db, drawn, steady, wasUp, made>>

(* The answer, or no answer and another attempt.                           *)
Answered(row) ==
  IF row = {} THEN Fail("refused") /\ UNCHANGED target
  ELSE target' = row /\ IF cmd.wait THEN Go("wait") ELSE Succeed

Unanswered ==
  /\ IF tries' = Attempts THEN Fail("transport") ELSE Go("create")
  /\ UNCHANGED target

(* An attempt with a key of its own.                                       *)
CreateFreshKey(kind, id) ==
  /\ pc = "create" /\ cmd.kind = kind /\ tries' = tries + 1
  /\ \/ ~CreateRefused /\ Make(id) /\ (Answered({id}) \/ Unanswered)
     \/ CreateRefused /\ Untouched /\ (Answered({}) \/ Unanswered)
     \/ Untouched /\ Unanswered
  /\ UNCHANGED <<cmd, walk, late>>

(* An attempt at a create; every attempt of a command has the same key.    *)
Create(kind, id) ==
  /\ pc = "create" /\ cmd.kind = kind /\ tries' = tries + 1
  /\ \/ /\ \/ made # {} /\ Untouched /\ (Answered(made) \/ Unanswered)
           \/ made = {} /\ ~CreateRefused /\ Make(id) /\ (Answered({id}) \/ Unanswered)
           \/ made = {} /\ CreateRefused /\ Untouched /\ (Answered({}) \/ Unanswered)
        /\ UNCHANGED late
     \/ /\ Untouched /\ Unanswered      \* lost on the way, or late
        /\ late' \in {late} \cup (IF late = "no" THEN {"pending"} ELSE {})
  /\ UNCHANGED <<cmd, walk>>

(* The server gets to an attempt the command has given up on; once another *)
(* one has made the row, the key makes it a replay.                        *)
LateCreate(id) ==
  /\ late = "pending" /\ made = {} /\ ~CreateRefused
  /\ Make(id) /\ late' = "made"
  /\ UNCHANGED <<cmd, pc, walk, tries, target, reason, code>>

(* list and describe: one request, printed.                                *)
Show(kind) ==
  /\ pc \in {"list", "describe"} /\ cmd.kind = kind
  /\ LET answer == IF pc = "list" THEN ListOf(kind, cmd.params)
                   ELSE GetOf(kind, CHOOSE i \in target : TRUE)
     IN  \/ answer.status = 200 /\ Succeed
         \/ answer.status # 200 /\ Fail("refused")
         \/ Fail("transport")
  /\ Reading /\ UNCHANGED <<walk, tries, late, made, target>>

(* delete is sent once.                                                    *)
Delete(kind) ==
  /\ pc = "delete" /\ cmd.kind = kind
  /\ \E id \in target :
       LET rows == Table(db, kind)
           refused == id \notin DOMAIN rows \/ Dependents(db, kind, id) # {}
       IN  \/ refused /\ Fail("refused") /\ UNCHANGED <<db, steady, wasUp>>
           \/ /\ ~refused
              /\ Write(IF rows[id].del THEN db ELSE Mark(db, kind, id))
              /\ \/ IF cmd.wait THEN Go("wait") ELSE Succeed
                 \/ Fail("transport")
           \/ Fail("transport") /\ UNCHANGED <<db, steady, wasUp>>
  /\ UNCHANGED <<drawn, cmd, walk, tries, late, made, target>>

(* A wait that takes any answer without a resource for its deletion.       *)
WaitAnyError(kind) ==
  /\ pc = "wait" /\ cmd.kind = kind
  /\ \E id \in target :
       LET answer == GetOf(kind, id)
       IN  \/ cmd.verb = "delete" /\ Succeed      \* a failed request
           \/ cmd.verb = "create" /\ answer.status = 200 /\ answer.row.state = Up(kind) /\ Succeed
           \/ Fail("timeout")
  /\ Reading /\ UNCHANGED <<walk, tries, late, made, target>>

(* A wait without a deadline.                                              *)
WaitForever(kind) ==
  /\ pc = "wait" /\ cmd.kind = kind
  /\ \E id \in target :
       LET answer == GetOf(kind, id)
       IN  \/ answer.status = 404 /\ IF cmd.verb = "delete" THEN Succeed ELSE Fail("refused")
           \/ answer.status = 200 /\ answer.row.state = "failed" /\ Fail("failed")
           \/ cmd.verb = "create" /\ answer.status = 200 /\ answer.row.state = Up(kind) /\ Succeed
  /\ Reading /\ UNCHANGED <<walk, tries, late, made, target>>

(* A poll of the wait that ends it.  A transport error and a state in      *)
(* between leave it polling until its deadline.                            *)
Wait(kind) ==
  /\ pc = "wait" /\ cmd.kind = kind
  /\ \E id \in target :
       LET answer == GetOf(kind, id)
       IN  \/ answer.status = 404 /\ IF cmd.verb = "delete" THEN Succeed ELSE Fail("refused")
           \/ answer.status = 200 /\ answer.row.state = "failed" /\ Fail("failed")
           \/ cmd.verb = "create" /\ answer.status = 200 /\ answer.row.state = Up(kind) /\ Succeed
           \/ Fail("timeout")
  /\ Reading /\ UNCHANGED <<walk, tries, late, made, target>>

RunVPC ==
  \/ \E id \in IDs : Create("vpc", id)
  \/ Show("vpc") \/ Delete("vpc")
RunSubnet ==
  \/ \E id \in IDs : Create("subnet", id)
  \/ Show("subnet") \/ Delete("subnet")
InstanceCommand ==
  \/ \E id \in IDs : Create("instance", id)
  \/ Show("instance") \/ Delete("instance")

WaitVPC == Wait("vpc")
WaitSubnet == Wait("subnet")
WaitInstance == Wait("instance")

Command ==
  \/ RunResource \/ ResolveVPC \/ ResolveSubnet \/ ResolveInstance
  \/ RunVPC \/ RunSubnet \/ InstanceCommand
  \/ WaitVPC \/ WaitSubnet \/ WaitInstance

Others ==
  \/ \E id \in IDs, name \in Names : OthersCreate(id, name)
  \/ \E id \in IDs : OthersDelete(id) \/ LateCreate(id)
  \/ \E kind \in {cmd.kind, Walked(cmd)}, id \in IDs, ok \in BOOLEAN : Reconcile(kind, id, ok)

(* Some rows are there before the command begins.                          *)
Init ==
  /\ cmd \in Asked
  /\ \E there \in SUBSET IDs, name \in [IDs -> Names] :
       /\ \A i, j \in there : i # j => name[i] # name[j]
       /\ \A i \in IDs \ there : name[i] = CHOOSE n \in Names : TRUE
       /\ drawn = there
       /\ db = FoldSet(LAMBDA i, d : Insert(d, Walked(cmd), i, 0, name[i]), EmptyDB, there)
  /\ pc = "begin" /\ token = {} /\ seen = {} /\ match = {} /\ tries = 0 /\ late = "no"
  /\ made = {} /\ target = {} /\ reason = "none" /\ code = -1
  /\ steady = Meant(db, cmd) /\ wasUp = {}

Next == Command \/ Others

(* The command's process runs.  Nobody else need do anything.              *)
Spec == Init /\ [][Next]_vars /\ WF_vars(Command)

-----------------------------------------------------------------------------

(* A resource that a name or an ID has meant for the whole of a command's  *)
(* resolution is the one the command acts on: the walk over the pages does *)
(* not miss it, find a second one or find another, however many resources  *)
(* other clients create and delete between its requests.                   *)
ReferenceFound ==
  /\ reason \in {"not found", "ambiguous", "repeated token"} => steady = {}
  /\ pc \in {"create", "describe", "delete"} => \A id \in target : steady \subseteq {id}

(* What a successful `--wait` says is true: a deleted resource is gone and *)
(* stays gone, and a created one has been available or running.            *)
WaitTellsTruth ==
  code = 0 /\ cmd.wait =>
    \A id \in target :
      IF cmd.verb = "delete" THEN id \notin DOMAIN Table(db, cmd.kind) ELSE id \in wasUp

(* Whichever of its attempts get through, in whatever order, a create      *)
(* makes at most one resource and reports that one.  It says "refused"     *)
(* only when it has left none behind, but for an attempt it gave up        *)
(* earlier and that the server carries out later (network.go:179-191).     *)
CreatesOnce ==
  cmd.verb = "create" =>
    /\ Cardinality(made) <= 1
    /\ code = 0 => target = made /\ made # {}
    /\ reason = "refused" /\ late # "made" => made \cap DOMAIN Table(db, cmd.kind) = {}

(* Every command ends, whatever the others do and whatever gets lost.      *)
CommandEnds == <>(pc = "done")
=============================================================================
