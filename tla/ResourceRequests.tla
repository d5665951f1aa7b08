-------------------------- MODULE ResourceRequests --------------------------
(***************************************************************************)
(* Requests that write, from the client's retries through the HTTP handler *)
(* to the transaction: creates with an idempotency key, deletes, and what  *)
(* the reconcilers record in between.                                      *)
(*                                                                         *)
(* A client sends a create up to Attempts times with one key.  An attempt  *)
(* it has given up on may still be in the server and commit after its      *)
(* successor, so attempts are calls of their own.  A handler reads the     *)
(* clock before its transaction; SQLite's one connection makes the         *)
(* transaction one step.                                                   *)
(***************************************************************************)
EXTENDS ResourceStore, SequencesExt

CONSTANTS Clients,
          Requests,     \* what a client may ask: records with the fields
                        \* op, key, workspace, name, parent, cidr and id
          VPCIDs, SubnetIDs, InstanceIDs,   \* IDs that may be drawn
          Attempts,     \* attempts at a create (3 in the code)
          TTL,          \* how long a key is kept (24 hours)
          MaxClock,     \* bound on the clock
          MaxFailures   \* bound on the failures reconcilers record

VARIABLES db,
          clock,
          asked,     \* each client's request, or None
          tries,     \* the attempt the client waits for
          call,      \* the calls, by client and attempt
          made,      \* every creation ever committed
          failures   \* failures recorded so far

vars == <<db, clock, asked, tries, call, made, failures>>

None == [status |-> 0]
NoKey == ""
Creates == {"create-vpc", "create-subnet", "run-instance"}
Drawn == {m.id : m \in made}

NoCall == [st |-> "none", at |-> 0, reply |-> None]

Init ==
  /\ db = EmptyDB /\ clock = 0 /\ made = {} /\ failures = 0
  /\ asked = [c \in Clients |-> None] /\ tries = [c \in Clients |-> 0]
  /\ call = [c \in Clients |-> [n \in 1..Attempts |-> NoCall]]

-----------------------------------------------------------------------------
(* The client.                                                             *)

Ask(c, r) ==
  /\ asked[c] = None
  /\ asked' = [asked EXCEPT ![c] = r]
  /\ tries' = [tries EXCEPT ![c] = 1]
  /\ call' = [call EXCEPT ![c][1].st = "sent"]
  /\ UNCHANGED <<db, clock, made, failures>>

(* No answer in time, or it is lost: a create is sent again with the same  *)
(* key.                                                                    *)
Retry(c) ==
  /\ asked[c] # None /\ asked[c].op \in Creates /\ tries[c] < Attempts
  /\ tries' = [tries EXCEPT ![c] = @ + 1]
  /\ call' = [call EXCEPT ![c][tries[c] + 1].st = "sent"]
  /\ UNCHANGED <<db, clock, asked, made, failures>>

(* The command ends with the answer to its last attempt, or without one.   *)
(* The client's next command comes when no call of this one is left in the *)
(* server; calls not received by then are lost.                            *)
Finish(c) ==
  /\ asked[c] # None
  /\ \/ call[c][tries[c]].st = "answered"
     \/ asked[c].op \notin Creates \/ tries[c] = Attempts
  /\ \A n \in 1..Attempts : call[c][n].st # "handling"
  /\ asked' = [asked EXCEPT ![c] = None] /\ tries' = [tries EXCEPT ![c] = 0]
  /\ call' = [call EXCEPT ![c] = [n \in 1..Attempts |-> NoCall]]
  /\ UNCHANGED <<db, clock, made, failures>>

-----------------------------------------------------------------------------
(* The handler.  Refusals carry a status; a service error passes through.  *)

Refusal(status) == [status |-> status]

(* The first failing check decides; each is a condition and its refusal.   *)
FirstFailing(checks) ==
  LET i == SelectInSeq(checks, LAMBDA check : check[1])
  IN  IF i = 0 THEN None ELSE checks[i][2]

(* checkWorkspace and required, before the service is called.              *)
CheckWorkspace(r) == <<r.workspace # "default", Refusal(404)>>
Required(r) == <<r.op \in Creates /\ r.name = "", Refusal(400)>>
ValidCIDR(r) == <<r.op \in {"create-vpc", "create-subnet"} /\ ~Accepted(r.cidr), Refusal(400)>>

Reply(c, n, reply) ==
  call' = [call EXCEPT ![c][n] = [@ EXCEPT !.st = "answered", !.reply = reply]]

(* The handler refuses the request, or calls the service, which reads the  *)
(* clock.                                                                  *)
Receive(c, n) ==
  LET refusal == FirstFailing(<<CheckWorkspace(asked[c]), Required(asked[c]),
                               ValidCIDR(asked[c])>>)
  IN  /\ call[c][n].st = "sent"
      /\ \/ refusal # None /\ Reply(c, n, refusal)
         \/ /\ refusal = None
            /\ call' = [call EXCEPT ![c][n] = [@ EXCEPT !.st = "handling", !.at = clock]]
      /\ UNCHANGED <<db, clock, asked, tries, made, failures>>

(* The connection breaks, the daemon restarts or the transaction fails and *)
(* is rolled back: the call has no effect.                                 *)
Abort(c, n) ==
  /\ call[c][n].st = "handling"
  /\ call' = [call EXCEPT ![c][n] = [@ EXCEPT !.st = "over", !.at = 0]]
  /\ UNCHANGED <<db, clock, asked, tries, made, failures>>

-----------------------------------------------------------------------------
(* Idempotency keys.  The payload hash stands for the payload, in which    *)
(* the range is the one ParseCIDR has masked.                              *)

HashPayload(r) == <<r.name, r.parent, ParseCIDR(r.cidr)>>

(* loadReplay: the record of the key, if there is one that has not expired.*)
LoadReplay(r, at) ==
  {db.keys[k] : k \in IF r.key = NoKey THEN {} ELSE
     {h \in GetIdempotency(db, r.op, r.key) : db.keys[h].expires > at}}

(* saveReplay after the transaction, which a crash leaves undone.          *)
SaveReplayLost(d, r, response, at) == d

SaveReplay(d, r, response, at) ==
  IF r.key = NoKey THEN d
  ELSE PutIdempotency(d, r.op, r.key,
         [hash |-> HashPayload(r), response |-> response, expires |-> at + TTL])

(* A call in the service whose key decides it, or does not.                *)
Handling(c, n, op) ==
  /\ call[c][n].st = "handling" /\ asked[c].op = op
  /\ UNCHANGED <<clock, asked, tries, failures>>
Recorded(c, n) == LoadReplay(asked[c], call[c][n].at)

(* A replay of the resource as it is now.                                  *)
ReplayCurrent(c, n) ==
  /\ Handling(c, n, asked[c].op) /\ asked[c].op \in Creates
  /\ \E record \in Recorded(c, n) :
       Reply(c, n, IF record.response.id \in DOMAIN db.vpcs
                   THEN [record.response EXCEPT !.row = db.vpcs[record.response.id]]
                   ELSE Refusal(404))
  /\ UNCHANGED <<db, made>>

(* The replay is the original response, whatever became of the resource.   *)
Replay(c, n) ==
  /\ Handling(c, n, asked[c].op) /\ asked[c].op \in Creates
  /\ \E record \in Recorded(c, n) :
       Reply(c, n, IF record.hash = HashPayload(asked[c]) THEN record.response ELSE Refusal(409))
  /\ UNCHANGED <<db, made>>

-----------------------------------------------------------------------------
(* Creates that no record answers.                                         *)

Response(id, row) == [status |-> 201, id |-> id, row |-> row]

(* The end of every create: the event, the replay record and the answer.   *)
Created(c, n, d, type, id, row, indexes) ==
  LET r == asked[c]
      at == call[c][n].at
      response == Response(id, row)
  IN  /\ db' = SaveReplay(InsertEvent(d, type, id, "pending", 1), r, response, at)
      /\ made' = made \cup {[op |-> r.op, key |-> r.key, hash |-> HashPayload(r), id |-> id,
                             at |-> at, response |-> response, indexes |-> indexes]}
      /\ Reply(c, n, response)

CreateVPC(c, n, id) ==
  LET r == asked[c]
      d == InsertVPC(AllocateIndex(db), id, r.name, ParseCIDR(r.cidr))
  IN  /\ Handling(c, n, "create-vpc") /\ Recorded(c, n) = {}
      /\ \/ GetVPCByName(db, r.name) # {} /\ Reply(c, n, Refusal(409)) /\ UNCHANGED <<db, made>>
         \/ GetVPCByName(db, r.name) = {} /\ Created(c, n, d, "vpc", id, d.vpcs[id], {d.index})

(* The checks of CreateSubnet, in their order.                             *)
SubnetRefusal(r) ==
  LET vpcs == GetVPC(db, r.parent)
      siblings == ListSubnetsByVPC(db, r.parent)
  IN  FirstFailing(<<
        <<vpcs = {}, Refusal(404)>>,
        <<\E v \in vpcs : db.vpcs[v].del, Refusal(409)>>,
        <<\E v \in vpcs : ~ValidateSubnetRange(db.vpcs[v].cidr, ParseCIDR(r.cidr)), Refusal(400)>>,
        <<~ValidateSubnetDisjoint(ParseCIDR(r.cidr), {db.subnets[s].cidr : s \in siblings}), Refusal(409)>>,
        <<GetSubnetByName(db, r.name) # {}, Refusal(409)>> >>)

CreateSubnet(c, n, id) ==
  LET r == asked[c]
      d == InsertSubnet(AllocateIndex(db), id, r.parent, r.name, ParseCIDR(r.cidr))
      refusal == SubnetRefusal(r)
  IN  /\ Handling(c, n, "create-subnet") /\ Recorded(c, n) = {}
      /\ \/ refusal # None /\ Reply(c, n, refusal) /\ UNCHANGED <<db, made>>
         \/ refusal = None /\ Created(c, n, d, "subnet", id, d.subnets[id], {d.index})

RunRefusal(r) ==
  LET subnets == GetSubnet(db, r.parent)
  IN  FirstFailing(<<
        <<subnets = {}, Refusal(404)>>,
        <<\E s \in subnets : db.subnets[s].del, Refusal(409)>>,
        <<GetInstanceByName(db, r.name) # {}, Refusal(409)>>,
        <<\E s \in subnets : Exhausted(db.subnets[s].cidr, ListENIAddresses(db, s)), Refusal(409)>> >>)

(* Run: the instance and its ENI take an index each.                       *)
RunInstance(c, n, id) ==
  LET r == asked[c]
      refusal == RunRefusal(r)
      ip == NextPrivateIP(db.subnets[r.parent].cidr, ListENIAddresses(db, r.parent))
      instance == InsertInstance(AllocateIndex(db), id, r.parent, r.name)
      d == InsertENI(AllocateIndex(instance), id, r.parent, ip)
  IN  /\ Handling(c, n, "run-instance") /\ Recorded(c, n) = {}
      /\ \/ refusal # None /\ Reply(c, n, refusal) /\ UNCHANGED <<db, made>>
         \/ /\ refusal = None
            /\ Created(c, n, d, "instance", id, d.instances[id], {instance.index, d.index})

-----------------------------------------------------------------------------
(* Deletes.  Repeating one answers with the row and changes nothing.       *)

Accepted202(id, row) == [status |-> 202, id |-> id, row |-> row]

(* The end of every delete.                                                *)
Deleted(c, n, refusal, del, type, id, d, row, old) ==
  /\ \/ refusal # None /\ Reply(c, n, refusal) /\ UNCHANGED db
     \/ refusal = None /\ del /\ Reply(c, n, Accepted202(id, old)) /\ UNCHANGED db
     \/ /\ refusal = None /\ ~del
        /\ db' = InsertEvent(d, type, id, row.state, row.gen)
        /\ Reply(c, n, Accepted202(id, row))
  /\ UNCHANGED made

DeleteVPC(c, n) ==
  LET id == asked[c].id
      refusal == FirstFailing(<<<<GetVPC(db, id) = {}, Refusal(404)>>,
                                <<ListSubnetsByVPC(db, id) # {}, Refusal(409)>>>>)
      d == MarkVPCDeleting(db, id)
  IN  /\ Handling(c, n, "delete-vpc")
      /\ Deleted(c, n, refusal, db.vpcs[id].del, "vpc", id, d, d.vpcs[id], db.vpcs[id])

DeleteSubnet(c, n) ==
  LET id == asked[c].id
      refusal == FirstFailing(<<<<GetSubnet(db, id) = {}, Refusal(404)>>,
                                <<CountInstancesInSubnet(db, id) # 0, Refusal(409)>>>>)
      d == MarkSubnetDeleting(db, id)
  IN  /\ Handling(c, n, "delete-subnet")
      /\ Deleted(c, n, refusal, db.subnets[id].del, "subnet", id, d, d.subnets[id], db.subnets[id])

TerminateInstance(c, n) ==
  LET id == asked[c].id
      refusal == FirstFailing(<<<<GetInstance(db, id) = {}, Refusal(404)>>>>)
      d == MarkInstanceTerminating(db, id)
  IN  /\ Handling(c, n, "terminate")
      /\ Deleted(c, n, refusal, db.instances[id].del, "instance", id, d, d.instances[id],
                 db.instances[id])

-----------------------------------------------------------------------------
(* What the reconcilers record, once their staleness checks have passed    *)
(* (NetworkControl and InstanceControl are about those).                   *)

Outcome(ok) == IF ok THEN "available" ELSE "failed"
ObservedGen(row, ok) == IF ok THEN row.gen ELSE row.obs
Unchanged(row, state, obs) == row.state = state /\ row.obs = obs

(* recordVPCStatus with an event only when it fails.                       *)
RecordVPCStatusQuietly(d, v, ok) ==
  LET d1 == UpdateVPCStatus(d, v, Outcome(ok), ObservedGen(d.vpcs[v], ok))
  IN  IF ok THEN d1 ELSE InsertEvent(d1, "vpc", v, "failed", d.vpcs[v].gen)

RecordVPCStatus(d, v, ok) ==
  LET row == d.vpcs[v]
  IN  IF Unchanged(row, Outcome(ok), ObservedGen(row, ok)) THEN d
      ELSE InsertEvent(UpdateVPCStatus(d, v, Outcome(ok), ObservedGen(row, ok)),
                       "vpc", v, Outcome(ok), row.gen)

RecordSubnetStatus(d, s, ok) ==
  LET row == d.subnets[s]
  IN  IF row.del /\ ok
      THEN InsertEvent(DeleteSubnetRow(d, s), "subnet", s, "deleted", row.gen)
      ELSE IF Unchanged(row, Outcome(ok), ObservedGen(row, ok)) THEN d
      ELSE InsertEvent(UpdateSubnetStatus(d, s, Outcome(ok), ObservedGen(row, ok)),
                       "subnet", s, Outcome(ok), row.gen)

RecordTopology(v, ok) ==
  LET row == db.vpcs[v]
      children == SetToSortSeq(ListSubnetsByVPC(db, v), <)
  IN  db' = IF row.del /\ ok
            THEN InsertEvent(DeleteVPCRow(db, v), "vpc", v, "deleted", row.gen)
            ELSE FoldLeft(LAMBDA d, s : RecordSubnetStatus(d, s, ok), RecordVPCStatus(db, v, ok), children)

RecordInstance(i, ok) ==
  LET row == db.instances[i]
      eni == GetPrimaryENI(db, i)
      state == IF ok THEN "running" ELSE "failed"
      d == UpdateInstanceStatus(db, i, state, ObservedGen(row, ok))
      d1 == IF row.del THEN d
            ELSE UpdateInstanceENIStatus(d, i, Outcome(ok), IF ok THEN 1 ELSE eni.obs)
  IN  /\ ok => ~row.del
      /\ db' = IF Unchanged(row, state, ObservedGen(row, ok)) THEN db
               ELSE InsertEvent(d1, "instance", i, state, row.gen)

FinishInstanceTermination(i) ==
  /\ db.instances[i].del
  /\ db' = InsertEvent(DeleteInstance(DeleteInstanceENI(db, i), i),
                       "instance", i, "deleted", db.instances[i].gen)

Reconcile(ok) ==
  /\ \/ \E v \in DOMAIN db.vpcs : RecordTopology(v, ok)
     \/ \E i \in DOMAIN db.instances : RecordInstance(i, ok) \/ (ok /\ FinishInstanceTermination(i))
  /\ failures' = failures + IF ok THEN 0 ELSE 1
  /\ failures' <= MaxFailures
  /\ UNCHANGED <<clock, asked, tries, call, made>>

Tick ==
  /\ clock < MaxClock
  /\ clock' = clock + 1
  /\ UNCHANGED <<db, asked, tries, call, made, failures>>

-----------------------------------------------------------------------------
Serve(c, n) ==
  \/ Receive(c, n) \/ Abort(c, n) \/ Replay(c, n)
  \/ \E id \in VPCIDs \ Drawn : CreateVPC(c, n, id)
  \/ \E id \in SubnetIDs \ Drawn : CreateSubnet(c, n, id)
  \/ \E id \in InstanceIDs \ Drawn : RunInstance(c, n, id)
  \/ DeleteVPC(c, n) \/ DeleteSubnet(c, n) \/ TerminateInstance(c, n)

Next ==
  \/ \E c \in Clients : \/ \E r \in Requests : Ask(c, r)
                        \/ Retry(c) \/ Finish(c)
                        \/ \E n \in 1..Attempts : Serve(c, n)
  \/ \E ok \in BOOLEAN : Reconcile(ok)
  \/ Tick

Spec == Init /\ [][Next]_vars

-----------------------------------------------------------------------------
(* Properties.                                                             *)

TypeOK ==
  /\ clock \in 0..MaxClock /\ failures \in 0..MaxFailures
  /\ \A c \in Clients :
       /\ asked[c] \in Requests \cup {None} /\ tries[c] \in 0..Attempts
       /\ \A n \in 1..Attempts :
            call[c][n].st \in {"none", "sent", "handling", "answered", "over"}
  /\ DOMAIN db.vpcs \subseteq VPCIDs /\ DOMAIN db.subnets \subseteq SubnetIDs
  /\ DOMAIN db.instances \subseteq InstanceIDs /\ DOMAIN db.enis = DOMAIN db.instances
  /\ \A x \in DOMAIN db.vpcs : db.vpcs[x].obs <= db.vpcs[x].gen

(* One idempotency key creates one resource within its lifetime, although  *)
(* attempts the client has given up on run in the server beside later ones *)
(* and commit in any order, and whether or not the first resource still    *)
(* exists.                                                                 *)
OncePerKey ==
  \A a, b \in made :
    a # b /\ a.key # NoKey /\ a.op = b.op /\ a.key = b.key =>
      a.at + TTL <= b.at \/ b.at + TTL <= a.at

(* A successful create answers with the original response of a creation    *)
(* made with its key and its parameters, and not yet expired when the      *)
(* request was received, "even if reconciliation changes state or the      *)
(* resource is deleted" (migration 0002).                                  *)
AnswerIsOriginal ==
  \A c \in Clients : \A n \in 1..Attempts :
    LET k == call[c][n]
    IN  k.st = "answered" /\ k.reply.status = 201 =>
          \E m \in made : /\ m.response = k.reply
                          /\ m.op = asked[c].op /\ m.key = asked[c].key
                          /\ m.hash = HashPayload(asked[c])
                          /\ m.at + TTL > k.at

(* The event log alone reproduces the tables: the last event of a resource *)
(* has the state and generation of its row, is "deleted" when the row is   *)
(* gone, and a deleted resource has no later event.  Eight statements in   *)
(* six transactions write rows and events; a reader of the stream relies   *)
(* on their agreement.                                                     *)
Table(type) ==
  CASE type = "vpc" -> db.vpcs [] type = "subnet" -> db.subnets [] type = "instance" -> db.instances

EventsTellTheRows ==
  \A m \in made :
    LET log == db.events[m.id]
        last == log[Len(log)]
        table == Table(last.type)
    IN  /\ Head(log).state = "pending"
        /\ \A k \in 1..(Len(log) - 1) : log[k].state # "deleted" /\ log[k].gen <= log[k + 1].gen
        /\ IF m.id \in DOMAIN table
           THEN last.state = table[m.id].state /\ last.gen = table[m.id].gen
           ELSE last.state = "deleted"

(* Desired state holds together across the tables, whichever requests and  *)
(* reconcilers' deletions interleave: parents exist and are not being      *)
(* deleted, names are unique, and no address of a subnet is leased twice,  *)
(* terminating instances included.  A short index, from which the kernel's *)
(* names of namespaces and links are made, is never given to a second      *)
(* resource, not even after the first is gone.                             *)
TablesConsistent ==
  /\ TypeOK
  /\ \A a, b \in made : a # b => a.indexes \cap b.indexes = {}
  /\ \A s \in DOMAIN db.subnets :
       db.subnets[s].vpc \in DOMAIN db.vpcs /\ ~db.vpcs[db.subnets[s].vpc].del
  /\ \A i \in DOMAIN db.instances :
       db.instances[i].subnet \in DOMAIN db.subnets /\ ~db.subnets[db.instances[i].subnet].del
  /\ \A table \in {db.vpcs, db.subnets, db.instances} :
       \A x, y \in DOMAIN table : x # y => table[x].name # table[y].name
  /\ \A i, j \in DOMAIN db.enis :
       i # j /\ db.enis[i].subnet = db.enis[j].subnet => db.enis[i].ip # db.enis[j].ip

(* What a range means: the set of its addresses.                           *)
Members(p) == {a \in Addresses : p.addr <= a /\ a < p.addr + Size(p)}
Ranges(v) == {db.subnets[s].cidr : s \in ListSubnetsByVPC(db, v)}

(* No address is in two subnets of a VPC (those being deleted included),   *)
(* and none is outside the VPC: the containment tests of Overlaps and      *)
(* ValidateSubnetRange, made on masked prefixes, mean what they say of the *)
(* addresses, whatever host bits the request had.  The engine, which       *)
(* checks the ranges again (desiredGateways), never refuses what the       *)
(* service accepted.                                                       *)
RangesDisjoint ==
  /\ \A s \in DOMAIN db.subnets :
       Members(db.subnets[s].cidr) \subseteq Members(db.vpcs[db.subnets[s].vpc].cidr)
  /\ \A s, t \in DOMAIN db.subnets :
       s # t /\ db.subnets[s].vpc = db.subnets[t].vpc =>
         Members(db.subnets[s].cidr) \cap Members(db.subnets[t].cidr) = {}
  /\ \A v \in DOMAIN db.vpcs : EngineAccepts(db.vpcs[v].cidr, Ranges(v))

(* A leased address is one the engine will plumb: inside its subnet, none  *)
(* of the five reserved ones (which reservedAddress names), and no         *)
(* subnet's gateway.  A subnet is exhausted exactly when all the others    *)
(* are leased, so the loop of nextPrivateIP neither stops early nor runs   *)
(* past the broadcast address.                                             *)
LeasesAssignable ==
  \A s \in DOMAIN db.subnets :
    LET cidr == db.subnets[s].cidr
        leases == ListENIAddresses(db, s)
    IN  /\ \A a \in leases : /\ PlumbingAccepts(cidr, a)
                             /\ ~ReservedAddress(cidr, a)
                             /\ \A t \in Ranges(db.subnets[s].vpc) : a # Gateway(t)
        /\ Exhausted(cidr, leases) = (leases = {a \in Members(cidr) : ~ReservedAddress(cidr, a)})

=============================================================================
