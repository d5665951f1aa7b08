------------------------ MODULE MCResourceRequests ------------------------
(***************************************************************************)
(* Instances of ResourceRequests for TLC.  A behaviour has one of three    *)
(* workloads, each with the bounds its question needs: what each client    *)
(* asks, how often, and with which IDs.                                    *)
(***************************************************************************)
EXTENDS ResourceRequests

VARIABLE load

Request(op, key, name, parent, cidr, id) ==
  [op |-> op, key |-> key, workspace |-> "default", name |-> name, parent |-> parent,
   cidr |-> cidr, id |-> id]

Whole == [addr |-> 0, bits |-> 1]
High == [addr |-> 8, bits |-> 2]

(* Creates of one kind that share a key, with equal parameters (a retry,   *)
(* and a range that only differs in its host bits) and with different ones *)
(* (another client), and a delete.                                         *)
Keys ==
  [requests |-> <<{Request("create-vpc", "k", "a", 0, Whole, 0)},
                  {Request("create-vpc", "k", "b", 0, Whole, 0),
                   Request("create-vpc", "k", "a", 0, [Whole EXCEPT !.addr = 5], 0),
                   Request("delete-vpc", NoKey, "", 0, Whole, 1)}>>,
   beside |-> TRUE, clock |-> 1, failures |-> 0, records |-> TRUE, ids |-> {1, 2}]

(* Creates and deletes up and down the tree of resources, and one request  *)
(* the handler refuses.                                                    *)
Tree ==
  [requests |-> <<
     {[Request("create-vpc", NoKey, "a", 0, Whole, 0) EXCEPT !.workspace = "other"],
      Request("create-vpc", NoKey, "a", 0, Whole, 0),
      Request("create-subnet", NoKey, "a", 1, Whole, 0),
      Request("create-subnet", NoKey, "b", 1, High, 0),
      Request("run-instance", NoKey, "a", 11, Whole, 0),
      Request("run-instance", NoKey, "b", 11, Whole, 0),
      Request("terminate", NoKey, "", 0, Whole, 21),
      Request("delete-subnet", NoKey, "", 0, Whole, 11),
      Request("delete-vpc", NoKey, "", 0, Whole, 1)}, {}>>,
   beside |-> FALSE, clock |-> 0, failures |-> 1, records |-> TRUE, ids |-> {1, 11, 12, 21, 22}]

(* Ranges of every length, with and without host bits, and instances until *)
(* a subnet of the longest prefix is exhausted.                            *)
VPCRanges == [addr : {5}, bits : 0..3] \cup [addr : {16}, bits : {1}]
SubnetRanges == [addr : {0, 11}, bits : 1..3] \cup [addr : {22}, bits : {2}]
Plan ==
  [requests |-> <<
     {Request("create-vpc", NoKey, "a", 0, p, 0) : p \in VPCRanges}
     \cup {Request("create-subnet", NoKey, "a", 1, p, 0) : p \in SubnetRanges}
     \cup {Request("create-subnet", NoKey, "b", 1, p, 0) : p \in SubnetRanges}
     \cup {Request("run-instance", NoKey, name, 11, Whole, 0) : name \in {"a", "b", "c"}}, {}>>,
   beside |-> FALSE, clock |-> 0, failures |-> 0, records |-> FALSE, ids |-> {1, 11, 12, 21, 22, 23}]

Workload == [keys |-> Keys, tree |-> Tree, plan |-> Plan]
MCRequests == UNION {Workload[w].requests[c] : w \in DOMAIN Workload, c \in Clients}

(* Where attempts are not beside each other, a create is sent again only   *)
(* when its call was cut off.  Reconcilers may record nothing.  IDs are    *)
(* told apart by nothing but requests that name them, so that they may as  *)
(* well be drawn in order.                                                 *)
Within ==
  LET bound == Workload[load]
  IN  /\ \A c \in Clients : /\ asked[c] # None => asked[c] \in bound.requests[c]
                            /\ ~bound.beside /\ tries[c] > 1 => call[c][1].st = "over"
      /\ clock <= bound.clock /\ failures <= bound.failures
      /\ \A x \in DOMAIN db.events : bound.records \/ Len(db.events[x]) = 1
      /\ Drawn \subseteq bound.ids
      /\ \A ids \in {VPCIDs, SubnetIDs, InstanceIDs} :
           \A x \in ids \cap Drawn, y \in ids : y < x => y \in Drawn

MCInit == Init /\ load \in DOMAIN Workload
MCNext == Next /\ UNCHANGED load /\ Within'
MCSpec == MCInit /\ [][MCNext]_<<vars, load>>

=============================================================================
