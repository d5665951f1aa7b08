---------------------------- MODULE EniPlumbing ----------------------------
(***************************************************************************)
(* How the network engine connects instances to one VPC's router           *)
(* (src/internal/network/topology/eni_linux.go, eni_policy_linux.go): one  *)
(* step for every change of a pair or of the nft table, with the reads and *)
(* checks before it; any of them may fail, and so may the undoing of what  *)
(* a failed operation made.  EnsureENI and DeleteENI hold the engine's     *)
(* lock from their first kernel call to their last, so `call' is the one   *)
(* operation that runs.  An ENI stands for its ID, short index, address    *)
(* and MAC, which are fixed together.                                      *)
(*                                                                         *)
(* The kernel is part of the state: a veth pair dies as a whole with one   *)
(* of its ends or with a namespace, a link that goes down loses its routes *)
(* and an nft script takes effect as a whole or not at all.  A namespace   *)
(* whose descriptor is open does not die (the target that OpenInstance     *)
(* pinned is open for as long as the operation runs).                      *)
(***************************************************************************)
EXTENDS FiniteSets

CONSTANTS ENIs,      \* the ENIs of the VPC
          Spaces,    \* network namespaces of containers
          Of,        \* the ENI of the instance each namespace belongs to
          Foreign    \* what a link or a table that Nephos did not make is marked with

ASSUME EniAssumption ==
    /\ Of \in [Spaces -> ENIs]
    /\ Foreign \notin Spaces \union {"none", "empty", "nephos"}

VARIABLES router,    \* the link ve<index> of each ENI in the VPC's namespace
          peer,      \* the ENI's link in each container namespace
          table,     \* the nft table inet nephos: whose it is and its set eni_sources
          gateway,   \* the subnet's gateway address is on the router's dummy link
          call,      \* the operation that holds the engine's lock
          left,      \* ENIs whose new pair a failed operation could not take
                     \* away, until it is completed or gone (history)
          served     \* ENIs whose latest completed EnsureENI succeeded (history)

vars == <<router, peer, table, gateway, call, left, served>>

NoLink == [mark |-> "none"]
Unmarked == [mark |-> "empty"]

\* The ownership marker, and the markers parseENIAlias accepts.
ENIAlias(i, n) == [mark |-> "nephos", eni |-> i, space |-> n]
ParsesAsENIAlias(alias) == alias.mark = "nephos"

Alien == [alias |-> [mark |-> Foreign], up |-> TRUE, space |-> Foreign, route |-> FALSE]
Absent == [alias |-> NoLink, up |-> FALSE, space |-> Foreign, route |-> FALSE]
NewRouter(n) == [alias |-> Unmarked, up |-> FALSE, space |-> n, route |-> FALSE]
NoPeer == [alias |-> NoLink, name |-> "none", up |-> FALSE, address |-> FALSE, routes |-> FALSE]
NewPeer == [NoPeer EXCEPT !.alias = Unmarked, !.name = "vp"]
AlienPeer == [NoPeer EXCEPT !.alias = [mark |-> Foreign], !.name = "eth0"]

Idle == [at |-> "idle"]
Resting == call = Idle

Init ==
    /\ router \in [ENIs -> {Absent, Alien}]
    /\ peer \in [Spaces -> {NoPeer, AlienPeer}]
    /\ table \in {[mark |-> "none", sources |-> {}], [mark |-> Foreign, sources |-> {}]}
    /\ gateway = FALSE
    /\ call = Idle
    /\ left = {}
    /\ served = {}

Goto(point) == call' = [call EXCEPT !.at = point]
At(point) == call.at = point
Router == router[call.eni]
Alias == ENIAlias(call.eni, call.space)

----------------------------------------------------------------------------
(* Failure.  Once the link was read back, a failed EnsureENI that created  *)
(* it deletes it again, which takes the peer with it; but the error of     *)
(* that LinkDel is ignored, and a marker that could not be read back       *)
(* leaves no link to give to it (eni_linux.go:105, 114).                   *)

PairMade == call.created /\ ~At("add")
Undone ==
    /\ PairMade /\ ~At("readback")
    /\ router' = [router EXCEPT ![call.eni] = Absent]
    /\ peer' = [peer EXCEPT ![call.space] = NoPeer]
    /\ UNCHANGED left
NotUndone ==
    /\ left' = IF PairMade THEN left \union {call.eni} ELSE left
    /\ UNCHANGED <<router, peer>>

\* A version that leaves the undoing to the next attempt.
FailKeepingPair ==
    /\ ~Resting
    /\ call' = Idle
    /\ left' = IF At("readback") THEN left \union {call.eni} ELSE left
    /\ UNCHANGED <<router, peer, table, gateway, served>>

Fail ==
    /\ ~Resting
    /\ call' = Idle
    /\ Undone \/ NotUndone
    /\ UNCHANGED <<table, gateway, served>>

----------------------------------------------------------------------------
(* The source checks: every link ve* must be one of ours, then one nft     *)
(* script replaces the whole table.                                        *)

SourcesInstallable ==
    /\ \A i \in ENIs : router[i] # Absent => ParsesAsENIAlias(router[i].alias)
    /\ table.mark # Foreign

\* A version that renders only the entry of the ENI at hand.
RenderOwnSource ==
    [mark |-> "nephos", sources |-> {<<call.eni, call.eni>>}]

RenderENISourceChecks ==
    [mark |-> "nephos",
     sources |-> {<<i, router[i].alias.eni>> : i \in {j \in ENIs : router[j] # Absent}}]

ApplyENISourceChecks ==
    /\ SourcesInstallable
    /\ table' = RenderENISourceChecks

----------------------------------------------------------------------------
(* EnsureENI.                                                              *)

EnsureENI(n) ==
    /\ Resting
    /\ call' = [at |-> "find", eni |-> Of[n], space |-> n, created |-> FALSE]
    /\ UNCHANGED <<router, peer, table, gateway, left, served>>

\* The gateway must be ready, a link that is there must carry exactly this
\* marker, and a new one needs a namespace without eth0; Fail is the refusal.
Find ==
    /\ At("find")
    /\ gateway
    /\ \/ /\ Router.alias = Alias
          /\ Goto("quiesce")
       \/ /\ Router = Absent
          /\ peer[call.space].name # "eth0"
          /\ call' = [call EXCEPT !.at = "add", !.created = TRUE]
    /\ UNCHANGED <<router, peer, table, gateway, left, served>>

LinkAdd ==
    /\ At("add")
    /\ peer[call.space] = NoPeer
    /\ router' = [router EXCEPT ![call.eni] = NewRouter(call.space)]
    /\ peer' = [peer EXCEPT ![call.space] = NewPeer]
    /\ Goto("readback")
    /\ UNCHANGED <<table, gateway, left, served>>

ReadBack ==
    /\ At("readback")
    /\ Goto("mark")
    /\ UNCHANGED <<router, peer, table, gateway, left, served>>

MarkRouter ==
    /\ At("mark")
    /\ router' = [router EXCEPT ![call.eni].alias = Alias]
    /\ Goto("quiesce")
    /\ UNCHANGED <<peer, table, gateway, left, served>>

Quiesce ==
    /\ At("quiesce")
    /\ router' = [router EXCEPT ![call.eni].up = FALSE, ![call.eni].route = FALSE]
    /\ served' = served \ {call.eni}
    /\ Goto("peer")
    /\ UNCHANGED <<peer, table, gateway, left>>

\* The sysctls are set, the peer must be in the pinned namespace, be the other
\* end of this pair and carry our marker (or none, on a link just made).
QuiescePeer ==
    /\ At("peer")
    /\ Router.space = call.space
    /\ \/ peer[call.space].alias = Alias
       \/ call.created /\ peer[call.space].alias = Unmarked
    /\ peer' = [peer EXCEPT ![call.space].up = FALSE, ![call.space].routes = FALSE]
    /\ Goto("peermark")
    /\ UNCHANGED <<router, table, gateway, left, served>>

MarkPeer ==
    /\ At("peermark")
    /\ peer' = [peer EXCEPT ![call.space].alias = Alias]
    /\ Goto("peername")
    /\ UNCHANGED <<router, table, gateway, left, served>>

NamePeer ==
    /\ At("peername")
    /\ peer' = [peer EXCEPT ![call.space].name = "eth0"]
    /\ Goto("peeraddress")
    /\ UNCHANGED <<router, table, gateway, left, served>>

AddressPeer ==
    /\ At("peeraddress")
    /\ peer' = [peer EXCEPT ![call.space].address = TRUE]
    /\ Goto("checks")
    /\ UNCHANGED <<router, table, gateway, left, served>>

InstallChecks ==
    /\ At("checks")
    /\ ApplyENISourceChecks
    /\ Goto("peerup")
    /\ UNCHANGED <<router, peer, gateway, left, served>>

ActivatePeer ==
    /\ At("peerup")
    /\ peer' = [peer EXCEPT ![call.space].up = TRUE]
    /\ Goto("peerroutes")
    /\ UNCHANGED <<router, table, gateway, left, served>>

RoutePeer ==
    /\ At("peerroutes")
    /\ peer' = [peer EXCEPT ![call.space].routes = TRUE]
    /\ Goto("up")
    /\ UNCHANGED <<router, table, gateway, left, served>>

Activate ==
    /\ At("up")
    /\ router' = [router EXCEPT ![call.eni].up = TRUE]
    /\ Goto("route")
    /\ UNCHANGED <<peer, table, gateway, left, served>>

\* A version that takes the host route of an existing pair for still there.
HostRouteOfNew ==
    /\ At("route")
    /\ router' = [router EXCEPT ![call.eni].route = @ \/ call.created]
    /\ served' = served \union {call.eni}
    /\ call' = Idle
    /\ left' = left \ {call.eni}
    /\ UNCHANGED <<peer, table, gateway>>

HostRoute ==
    /\ At("route")
    /\ router' = [router EXCEPT ![call.eni].route = TRUE]
    /\ served' = served \union {call.eni}
    /\ call' = Idle
    /\ left' = left \ {call.eni}
    /\ UNCHANGED <<peer, table, gateway>>

----------------------------------------------------------------------------
(* DeleteENI: a missing link is no error, a link that is not this ENI's    *)
(* is refused; then the checks are rendered from the links that are left.  *)

DeleteENI(i) ==
    /\ Resting
    /\ call' = [at |-> "unlink", eni |-> i, space |-> Foreign, created |-> FALSE]
    /\ UNCHANGED <<router, peer, table, gateway, left, served>>

WithoutPair(n) == [m \in Spaces |-> IF m = n THEN NoPeer ELSE peer[m]]

\* A version that trusts the link's name.
UnlinkByName ==
    /\ At("unlink")
    /\ router' = [router EXCEPT ![call.eni] = Absent]
    /\ peer' = WithoutPair(Router.space)
    /\ left' = left \ {call.eni}
    /\ served' = served \ {call.eni}
    /\ Goto("clean")
    /\ UNCHANGED <<table, gateway>>

Unlink ==
    /\ At("unlink")
    /\ Router # Absent => ParsesAsENIAlias(Router.alias) /\ Router.alias.eni = call.eni
    /\ router' = [router EXCEPT ![call.eni] = Absent]
    /\ peer' = WithoutPair(Router.space)
    /\ left' = left \ {call.eni}
    /\ served' = served \ {call.eni}
    /\ Goto("clean")
    /\ UNCHANGED <<table, gateway>>

Clean ==
    /\ At("clean")
    /\ ApplyENISourceChecks
    /\ call' = Idle
    /\ UNCHANGED <<router, peer, gateway, left, served>>

----------------------------------------------------------------------------
(* Around the engine.                                                      *)

\* EnsureVPC, under the same lock, adds and removes the gateway address.
EnsureVPC ==
    /\ Resting
    /\ gateway' = ~gateway
    /\ UNCHANGED <<router, peer, table, call, left, served>>

\* A container stops: its namespace goes, with the pair, unless it is pinned;
\* the next start of the instance has a namespace without links.
SpaceDies(n) ==
    /\ ~Resting => call.space # n
    /\ peer[n] # NoPeer
    /\ peer' = [peer EXCEPT ![n] = NoPeer]
    /\ router' = [i \in ENIs |-> IF router[i].space = n THEN Absent ELSE router[i]]
    /\ left' = left \ {i \in ENIs : router[i].space = n}
    /\ served' = served \ {i \in ENIs : router[i].space = n}
    /\ UNCHANGED <<table, gateway, call>>

Steps ==
    \/ Find \/ LinkAdd \/ ReadBack \/ MarkRouter \/ Quiesce
    \/ QuiescePeer \/ MarkPeer \/ NamePeer \/ AddressPeer
    \/ InstallChecks \/ ActivatePeer \/ RoutePeer \/ Activate \/ HostRoute
    \/ Unlink \/ Clean

Next ==
    \/ \E n \in Spaces : EnsureENI(n) \/ SpaceDies(n)
    \/ \E i \in ENIs : DeleteENI(i)
    \/ Steps
    \/ Fail
    \/ EnsureVPC

Spec == Init /\ [][Next]_vars

----------------------------------------------------------------------------
Own(i) == router[i] # Absent /\ router[i] # Alien

\* No end of a pair is up before the table lets exactly the ENI's own address
\* in from its link, and it stays so whatever is plumbed, deleted or failed
\* around it ("Install anti-spoof before either end becomes active",
\* eni_linux.go:186).
CheckedBeforeActive ==
    \A i \in ENIs :
        Own(i) /\ (router[i].up \/ peer[router[i].space].up) =>
            /\ router[i].alias = ENIAlias(i, router[i].space)
            /\ {s \in table.sources : s[1] = i} = {<<i, i>>}

\* A failed operation leaves no new live pair (eni_linux.go:100): at rest a
\* pair of ours was completely configured once, or it is what an EnsureENI made
\* that neither succeeded nor could undo it (or could not even read it back),
\* and then both ends are still down, however often it was tried again since.
FailureLeavesNoPair ==
    Resting =>
        \A i \in ENIs : Own(i) =>
            LET p == peer[router[i].space]
            IN  \/ /\ p.alias = router[i].alias
                   /\ p.name = "eth0"
                   /\ p.address
                \/ i \in left /\ ~router[i].up /\ ~p.up

\* What EnsureENI reported as done stays done until its own pair is plumbed
\* again, deleted or dies with its namespace: both ends are up, addressed and
\* routed, whatever other operations did to the shared table and links.
ServedStaysConnected ==
    \A i \in served :
        LET p == peer[router[i].space]
        IN  /\ router[i].alias = ENIAlias(i, router[i].space)
            /\ router[i].up /\ router[i].route
            /\ p.name = "eth0" /\ p.address /\ p.up /\ p.routes

\* Links and tables that Nephos did not make are never changed, whatever name
\* they have ("refusing foreign ...").
ForeignKept ==
    [][/\ \A i \in ENIs : router[i] = Alien => router'[i] = Alien
       /\ \A n \in Spaces : peer[n] = AlienPeer => peer'[n] \in {AlienPeer, NoPeer}
       /\ table.mark = Foreign => table' = table]_vars
============================================================================
