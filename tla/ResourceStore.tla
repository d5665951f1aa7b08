--------------------------- MODULE ResourceStore ---------------------------
(***************************************************************************)
(* The tables of the state database and the statements the service and the *)
(* reconcilers run on them.  A database is a record of tables, a table a   *)
(* function from IDs to rows; a statement that writes is an operator from  *)
(* databases to databases, and a transaction a composition of them.        *)
(*                                                                         *)
(* There is one workspace.  IDs are numbers, for their order; an ENI has   *)
(* the ID of its instance, which has exactly one.  Left out: timestamps of *)
(* rows and events, zones, MAC addresses, reasons, and the runtime ID of   *)
(* an instance, which InstanceControl is about.                            *)
(***************************************************************************)
EXTENDS Addressing, Sequences, TLC

EmptyDB ==
  [vpcs |-> <<>>, subnets |-> <<>>, instances |-> <<>>, enis |-> <<>>,
   events |-> <<>>, keys |-> <<>>, index |-> 0]

(* INSERT and DELETE of one row.                                           *)
With(table, id, row) == id :> row @@ table
Without(table, id) == [x \in DOMAIN table \ {id} |-> table[x]]
Named(table, name) == {x \in DOMAIN table : table[x].name = name}
Status(row, state, obs) == [row EXCEPT !.state = state, !.obs = obs]

(* A page: the `limit` first rows after an ID.                             *)
Page(table, after, limit) ==
  {x \in DOMAIN table : x > after /\ Cardinality({y \in DOMAIN table : after < y /\ y < x}) < limit}

-----------------------------------------------------------------------------
(* kernel_indexes: AUTOINCREMENT counts up whatever rows are deleted.      *)

(* An index without AUTOINCREMENT: one more than the greatest in use.      *)
AllocateIndexAfterLive(d) ==
  LET live == {d.vpcs[v].index : v \in DOMAIN d.vpcs}
                \cup {d.subnets[s].index : s \in DOMAIN d.subnets}
                \cup {d.instances[i].index : i \in DOMAIN d.instances}
                \cup {d.enis[i].index : i \in DOMAIN d.enis}
  IN  [d EXCEPT !.index = Max(live \cup {0}) + 1]

AllocateIndex(d) == [d EXCEPT !.index = @ + 1]

-----------------------------------------------------------------------------
(* vpcs.                                                                   *)

InsertVPC(d, id, name, cidr) ==
  [d EXCEPT !.vpcs = With(@, id,
     [name |-> name, cidr |-> cidr, index |-> d.index,
      state |-> "pending", gen |-> 1, obs |-> 0, del |-> FALSE])]

GetVPC(d, id) == {x \in DOMAIN d.vpcs : x = id}
GetVPCByName(d, name) == Named(d.vpcs, name)
ListVPCPage(d, after, limit) == Page(d.vpcs, after, limit)

MarkVPCDeleting(d, id) ==
  [d EXCEPT !.vpcs[id] = [@ EXCEPT !.state = "deleting", !.del = TRUE, !.gen = @ + 1]]
UpdateVPCStatus(d, id, state, obs) == [d EXCEPT !.vpcs[id] = Status(@, state, obs)]
DeleteVPCRow(d, id) == [d EXCEPT !.vpcs = Without(@, id)]

-----------------------------------------------------------------------------
(* subnets.                                                                *)

InsertSubnet(d, id, vpc, name, cidr) ==
  [d EXCEPT !.subnets = With(@, id,
     [vpc |-> vpc, name |-> name, cidr |-> cidr, index |-> d.index,
      state |-> "pending", gen |-> 1, obs |-> 0, del |-> FALSE])]

GetSubnet(d, id) == {x \in DOMAIN d.subnets : x = id}
GetSubnetByName(d, name) == Named(d.subnets, name)
ListSubnetPage(d, after, limit) == Page(d.subnets, after, limit)
ListSubnetsByVPC(d, vpc) == {s \in DOMAIN d.subnets : d.subnets[s].vpc = vpc}

MarkSubnetDeleting(d, id) ==
  [d EXCEPT !.subnets[id] = [@ EXCEPT !.state = "deleting", !.del = TRUE, !.gen = @ + 1]]
UpdateSubnetStatus(d, id, state, obs) == [d EXCEPT !.subnets[id] = Status(@, state, obs)]
DeleteSubnetRow(d, id) == [d EXCEPT !.subnets = Without(@, id)]

-----------------------------------------------------------------------------
(* instances and enis.                                                     *)

InsertInstance(d, id, subnet, name) ==
  [d EXCEPT !.instances = With(@, id,
     [subnet |-> subnet, name |-> name, index |-> d.index,
      state |-> "pending", gen |-> 1, obs |-> 0, del |-> FALSE])]

InsertENI(d, id, subnet, ip) ==
  [d EXCEPT !.enis = With(@, id,
     [subnet |-> subnet, ip |-> ip, index |-> d.index, state |-> "pending", obs |-> 0])]

GetInstance(d, id) == {x \in DOMAIN d.instances : x = id}
GetInstanceByName(d, name) == Named(d.instances, name)
GetPrimaryENI(d, id) == d.enis[id]
ListInstancePage(d, after, limit) == Page(d.instances, after, limit)
CountInstancesInSubnet(d, subnet) ==
  Cardinality({i \in DOMAIN d.instances : d.instances[i].subnet = subnet})

ListENIAddresses(d, subnet) ==
  {d.enis[i].ip : i \in {j \in DOMAIN d.enis : d.enis[j].subnet = subnet}}

MarkInstanceTerminating(d, id) ==
  [d EXCEPT !.instances[id] = [@ EXCEPT !.state = "shutting-down", !.del = TRUE, !.gen = @ + 1]]
UpdateInstanceStatus(d, id, state, obs) == [d EXCEPT !.instances[id] = Status(@, state, obs)]
UpdateInstanceENIStatus(d, id, state, obs) == [d EXCEPT !.enis[id] = Status(@, state, obs)]
DeleteInstanceENI(d, id) == [d EXCEPT !.enis = Without(@, id)]
DeleteInstance(d, id) == [d EXCEPT !.instances = Without(@, id)]

-----------------------------------------------------------------------------
(* events, kept apart for each resource (EventStream is about their order  *)
(* across resources), and idempotency_requests.                            *)

InsertEvent(d, type, id, state, gen) ==
  LET log == IF id \in DOMAIN d.events THEN d.events[id] ELSE <<>>
  IN  [d EXCEPT !.events =
         With(@, id, Append(log, [type |-> type, state |-> state, gen |-> gen]))]

GetIdempotency(d, op, key) == {k \in DOMAIN d.keys : k = <<op, key>>}

(* INSERT ... ON CONFLICT DO UPDATE: an expired record is overwritten.     *)
PutIdempotency(d, op, key, record) == [d EXCEPT !.keys = With(@, <<op, key>>, record)]

=============================================================================
