-------------------------- MODULE EniPlumbingProofs --------------------------
(***************************************************************************)
(* Proofs about EniPlumbing, for any number of ENIs and namespaces: no end *)
(* of a pair is up without its source check, what was served stays         *)
(* connected and a failure leaves no half-made pair, but for one that it   *)
(* could not take away and that is down.                                   *)
(***************************************************************************)
EXTENDS EniPlumbing, TLAPS

\* Where an EnsureENI is once its link carries the marker, and the later
\* stretches on which each part of the pair is known.
Routed == {"route"}
Activating == {"up", "route"}
PeerUp == {"peerroutes", "up", "route"}
Checked == {"peerup", "peerroutes", "up", "route"}
Addressed == {"checks", "peerup", "peerroutes", "up", "route"}
NamedPeer == {"peeraddress", "checks", "peerup", "peerroutes", "up", "route"}
MarkedPeer == {"peername", "peeraddress", "checks", "peerup", "peerroutes", "up", "route"}
PeerDown == {"peermark", "peername", "peeraddress", "checks", "peerup"}
Quiesced == {"peer", "peermark", "peername", "peeraddress", "checks", "peerup",
             "peerroutes", "up", "route"}
Marked == {"quiesce", "peer", "peermark", "peername", "peeraddress", "checks", "peerup",
           "peerroutes", "up", "route"}
Made == {"readback", "mark"}
Ensuring == {"find", "add", "readback", "mark", "quiesce", "peer", "peermark",
             "peername", "peeraddress", "checks", "peerup", "peerroutes", "up", "route"}
Deleting == {"unlink", "clean"}

PeerLinks == [alias : {NoPeer.alias, AlienPeer.alias, Unmarked} \union
                      {ENIAlias(Of[n], n) : n \in Spaces},
              name : {"none", "vp", "eth0"}, up : BOOLEAN, address : BOOLEAN, routes : BOOLEAN]

\* A link of ours leads to a namespace of its ENI and is unmarked or marked so.
LinkOK(i) ==
    Own(i) =>
        /\ router[i].space \in Spaces
        /\ Of[router[i].space] = i
        /\ router[i].alias \in {Unmarked, ENIAlias(i, router[i].space)}

Links == [alias : {Absent.alias, Alien.alias, Unmarked} \union {ENIAlias(Of[n], n) : n \in Spaces},
          up : BOOLEAN, space : Spaces \union {Foreign}, route : BOOLEAN]

Typed ==
    /\ router \in [ENIs -> Links]
    /\ peer \in [Spaces -> PeerLinks]
    /\ \A i \in ENIs : LinkOK(i)
    /\ \A s \in table.sources : \E i \in ENIs : s = <<i, i>>
    /\ left \subseteq ENIs
    /\ served \subseteq ENIs

Calls == [at : Ensuring \union Deleting, eni : ENIs, space : Spaces \union {Foreign},
          created : BOOLEAN]

\* What a running EnsureENI has achieved so far.
EnsureProgress ==
    /\ call \in Calls
    /\ call.at \in Ensuring
    /\ call.space \in Spaces /\ call.eni = Of[call.space]
    /\ call.at = "find" => call.created = FALSE
    /\ call.at \in {"add"} \union Made => call.created
    /\ call.at = "add" => Router = Absent
    /\ call.at \in Made => Router = NewRouter(call.space) /\ peer[call.space] = NewPeer
    /\ call.at \in Marked =>
          /\ Own(call.eni)
          /\ Router.alias = Alias
          /\ Router.space = call.space
    /\ call.created /\ call.at \in {"quiesce", "peer"} => ~Router.up /\ peer[call.space] = NewPeer
    /\ call.at \in Quiesced \ Routed => ~Router.up
    /\ call.at \in PeerDown => ~peer[call.space].up
    /\ call.at \in MarkedPeer => peer[call.space].alias = Alias
    /\ call.at \in NamedPeer => peer[call.space].name = "eth0"
    /\ call.at \in Addressed => peer[call.space].address
    /\ call.at \in Checked => <<call.eni, call.eni>> \in table.sources
    /\ call.at \in PeerUp => peer[call.space].up
    /\ call.at \in Activating => peer[call.space].routes
    /\ call.at \in Routed => Router.up
    /\ call.created \/ call.at \in Quiesced => call.eni \notin served

Progress ==
    \/ call = Idle
    \/ /\ call \in Calls
       /\ call.at \in Deleting
       /\ call.created = FALSE /\ call.space = Foreign
    \/ EnsureProgress

\* The pair is complete but for being up.
Configured(i) ==
    LET p == peer[router[i].space]
    IN  p.alias = router[i].alias /\ p.name = "eth0" /\ p.address

\* The pair is what a failed operation could not take away, and down.
Leftover(i) ==
    i \in left /\ ~router[i].up /\ ~peer[router[i].space].up

Protected(i) ==
    Own(i) /\ (router[i].up \/ peer[router[i].space].up) =>
        /\ router[i].alias = ENIAlias(i, router[i].space)
        /\ <<i, i>> \in table.sources

Complete(i) ==
    Own(i) => Configured(i) \/ Leftover(i) \/ (call # Idle /\ call.created /\ call.eni = i)

Connected(i) ==
    i \in served =>
        /\ Own(i) /\ Configured(i)
        /\ router[i].alias = ENIAlias(i, router[i].space)
        /\ router[i].up /\ router[i].route
        /\ peer[router[i].space].up /\ peer[router[i].space].routes

IInv ==
    /\ Typed
    /\ Progress
    /\ \A i \in ENIs : Protected(i) /\ Complete(i) /\ Connected(i)

----------------------------------------------------------------------------
\* Markers of different kinds, ENIs or namespaces differ; only ours parses.
LEMMA Markers ==
    /\ \A i, n : /\ ENIAlias(i, n).mark = "nephos" /\ ENIAlias(i, n).eni = i
                 /\ ENIAlias(i, n).space = n
                 /\ ENIAlias(i, n) \notin {NoLink, Unmarked, Alien.alias}
    /\ \A i, n, j, m : ENIAlias(i, n) = ENIAlias(j, m) => i = j /\ n = m
    /\ Unmarked # NoLink /\ Unmarked # Alien.alias /\ Absent.alias = NoLink
    /\ ~ParsesAsENIAlias(Unmarked) /\ ~ParsesAsENIAlias(NoLink) /\ ~ParsesAsENIAlias(Alien.alias)
<1>1. \A i, n : /\ ENIAlias(i, n).mark = "nephos" /\ ENIAlias(i, n).eni = i
               /\ ENIAlias(i, n).space = n
    BY DEF ENIAlias
<1>2. Unmarked.mark = "empty" /\ NoLink.mark = "none" /\ Alien.alias.mark = Foreign /\ Absent.alias = NoLink
    BY DEF Unmarked, NoLink, Alien, Absent
<1> QED
    BY <1>1, <1>2, EniAssumption DEF ParsesAsENIAlias

\* The fields of the fixed links.
LEMMA FixedLinks ==
    /\ Absent.space = Foreign /\ Alien.space = Foreign
    /\ \A n : NewRouter(n).alias = Unmarked /\ NewRouter(n).space = n /\ ~NewRouter(n).up
    /\ ~NewPeer.up
    BY DEF Absent, Alien, NewRouter, NewPeer, NoPeer

\* A link is ours exactly if it leads to a container's namespace.
LEMMA OwnBySpace ==
    ASSUME Typed
    PROVE  \A i \in ENIs : Own(i) <=> router[i].space \in Spaces
<1>1. Absent.space = Foreign /\ Alien.space = Foreign
    BY DEF Absent, Alien
<1> QED
    BY <1>1, EniAssumption DEF Typed, LinkOK, Own

\* A step that leaves an ENI's link, its peer and its entry of the table as they
\* are keeps the ENI's properties, unless the operation is creating its link.
LEMMA PairKept ==
    ASSUME IInv, NEW j \in ENIs,
           router'[j] = router[j],
           Own(j) => peer'[router[j].space] = peer[router[j].space],
           Own(j) /\ <<j, j>> \in table.sources => <<j, j>> \in table'.sources,
           j \in left => j \in left',
           j \in served' => j \in served,
           ~(call # Idle /\ call.created /\ call.eni = j)
    PROVE  (Protected(j) /\ Complete(j) /\ Connected(j))'
<1>1. Own(j)' <=> Own(j)
    BY DEF Own, Absent, Alien
<1>2. Protected(j) /\ Complete(j) /\ Connected(j)
    BY DEF IInv
<1>3. Protected(j)'
    BY <1>1, <1>2 DEF Protected, ENIAlias
<1>4. Configured(j) /\ Own(j) => Configured(j)'
    BY DEF Configured
<1>5. Leftover(j) /\ Own(j) => Leftover(j)'
    BY DEF Leftover
<1>6. Complete(j)'
    BY <1>1, <1>2, <1>4, <1>5 DEF Complete
<1>7. Connected(j)'
    BY <1>1, <1>2, <1>4 DEF Connected, ENIAlias
<1> QED
    BY <1>3, <1>6, <1>7

\* An ENI without a link has them trivially.
LEMMA PairGone ==
    ASSUME NEW j \in ENIs, router'[j] = Absent, j \notin served'
    PROVE  (Protected(j) /\ Complete(j) /\ Connected(j))'
<1>1. ~Own(j)'
    BY DEF Own, Absent, NoLink
<1> QED
    BY <1>1 DEF Protected, Complete, Connected

USE DEF Ensuring, Deleting, Made, Marked, Quiesced, PeerDown, MarkedPeer, NamedPeer, Addressed,
        Checked, PeerUp, Activating, Routed

\* What is known of a running EnsureENI, and that a move to another of its
\* points changes nothing else of it.
LEMMA RunningEnsure ==
    ASSUME IInv, call.at \in Ensuring
    PROVE  /\ call \in Calls /\ call # Idle
           /\ call.space \in Spaces /\ call.eni \in ENIs /\ call.eni = Of[call.space]
           /\ \A point \in Ensuring : Goto(point) =>
                 /\ call' \in Calls /\ call'.at = point /\ call'.eni = call.eni
                 /\ call'.space = call.space /\ call'.created = call.created /\ call' # Idle
<1>1. call.at # "idle"
    OBVIOUS
<1>2. call # Idle /\ Idle.at = "idle"
    BY <1>1 DEF Idle
<1>3. call \in Calls /\ call.space \in Spaces /\ call.eni \in ENIs /\ call.eni = Of[call.space]
    BY <1>2, EniAssumption DEF IInv, Progress, EnsureProgress, Calls
<1> QED
    BY <1>2, <1>3 DEF Goto, Calls

\* A step of an EnsureENI that touches only its own ENI's link, its own
\* namespace's peer and no other entry of the table leaves the others as they are.
LEMMA OthersKept ==
    ASSUME IInv, call.at \in Ensuring,
           \A j \in ENIs : j # call.eni => router'[j] = router[j],
           \A n \in Spaces : n # call.space => peer'[n] = peer[n],
           \A j \in ENIs : Own(j) /\ <<j, j>> \in table.sources => <<j, j>> \in table'.sources,
           left \ {call.eni} \subseteq left',
           served' \subseteq served \union {call.eni}
    PROVE  \A j \in ENIs : j # call.eni => (Protected(j) /\ Complete(j) /\ Connected(j))'
<1> SUFFICES ASSUME NEW j \in ENIs, j # call.eni
             PROVE  (Protected(j) /\ Complete(j) /\ Connected(j))'
    OBVIOUS
<1>1. Own(j) => router[j].space \in Spaces /\ router[j].space # call.space
    BY RunningEnsure DEF IInv, Typed, LinkOK
<1>2. Own(j) => peer'[router[j].space] = peer[router[j].space]
    BY <1>1
<1> QED
    BY <1>2, PairKept

\* A step of an EnsureENI on a marked link that goes on to another point: the
\* ENI at hand keeps its properties when the link stays the same, what was
\* configured of the peer stays so, an end that is up has its source check and
\* no end of a leftover comes up before the peer is configured.
LEMMA OwnKept ==
    ASSUME IInv, call.at \in Marked, NEW point \in Ensuring, Goto(point),
           router'[call.eni].alias = Router.alias, router'[call.eni].space = Router.space,
           Configured(call.eni) =>
               LET p == peer'[call.space]
               IN  p.alias = Alias /\ p.name = "eth0" /\ p.address,
           router'[call.eni].up \/ peer'[call.space].up =>
               <<call.eni, call.eni>> \in table'.sources,
           Leftover(call.eni) /\ (router'[call.eni].up \/ peer'[call.space].up) =>
               LET p == peer'[call.space]
               IN  p.alias = Alias /\ p.name = "eth0" /\ p.address,
           left' = left, call.eni \notin served'
    PROVE  \A j \in ENIs : j = call.eni => (Protected(j) /\ Complete(j) /\ Connected(j))'
<1> SUFFICES ASSUME NEW j \in ENIs, j = call.eni
             PROVE  (Protected(j) /\ Complete(j) /\ Connected(j))'
    OBVIOUS
<1>1. call.at \in Ensuring
    OBVIOUS
<1>2. Own(j) /\ router[j].alias = Alias /\ router[j].space = call.space
    BY <1>1, RunningEnsure DEF IInv, Progress, EnsureProgress, Router
<1>3. Protected(j)'
    BY <1>1, <1>2, RunningEnsure DEF Protected, Router, Alias
<1>4. CASE call.created
    BY <1>1, <1>3, <1>4, RunningEnsure DEF Complete, Connected
<1>5. CASE ~call.created
  <2>1. Configured(j) \/ Leftover(j)
    BY <1>2, <1>5 DEF IInv, Complete
  <2>2. Configured(j)' \/ Leftover(j)'
    BY <1>2, <2>1 DEF Configured, Leftover, Router
  <2> QED
    BY <1>3, <2>2 DEF Complete, Connected
<1> QED
    BY <1>4, <1>5

\* The same for all of the invariant but the operation's progress.
LEMMA MarkedStep ==
    ASSUME IInv, call.at \in Marked, NEW point \in Ensuring, Goto(point),
           router' \in [ENIs -> Links], peer' \in [Spaces -> PeerLinks],
           \A j \in ENIs : j # call.eni => router'[j] = router[j],
           \A n \in Spaces : n # call.space => peer'[n] = peer[n],
           router'[call.eni].alias = Router.alias, router'[call.eni].space = Router.space,
           peer'[call.space].alias \in {peer[call.space].alias, Alias},
           peer'[call.space].name \in {peer[call.space].name, "eth0"},
           peer[call.space].address => peer'[call.space].address,
           router'[call.eni].up \/ peer'[call.space].up =>
               <<call.eni, call.eni>> \in table'.sources,
           Leftover(call.eni) /\ (router'[call.eni].up \/ peer'[call.space].up) =>
               LET p == peer'[call.space]
               IN  p.alias = Alias /\ p.name = "eth0" /\ p.address,
           \A j \in ENIs : Own(j) /\ <<j, j>> \in table.sources => <<j, j>> \in table'.sources,
           \A s \in table'.sources : \E i \in ENIs : s = <<i, i>>,
           left' = left, served' \subseteq served, call.eni \notin served'
    PROVE  /\ Typed'
           /\ \A j \in ENIs : (Protected(j) /\ Complete(j) /\ Connected(j))'
           /\ router'[call.eni] # Absent /\ router'[call.eni] # Alien
<1>1. call.at \in Ensuring
    OBVIOUS
<1>2. Own(call.eni) /\ Router.alias = Alias /\ Router.space = call.space
    BY <1>1, RunningEnsure DEF IInv, Progress, EnsureProgress
<1>3. router'[call.eni] # Absent /\ router'[call.eni] # Alien
    BY <1>1, <1>2, RunningEnsure, FixedLinks, EniAssumption
<1>4. ASSUME NEW j \in ENIs
      PROVE  LinkOK(j)'
  <2>1. CASE j = call.eni
    BY <1>1, <1>2, <2>1, RunningEnsure DEF LinkOK, Alias
  <2>2. CASE j # call.eni
    BY <2>2 DEF IInv, Typed, LinkOK, Own, Absent, Alien, Unmarked, ENIAlias
  <2> QED
    BY <2>1, <2>2
<1>5. Typed'
    BY <1>4 DEF IInv, Typed
<1>6. Configured(call.eni) =>
          LET p == peer'[call.space]
          IN  p.alias = Alias /\ p.name = "eth0" /\ p.address
    BY <1>2 DEF Configured, Router
<1>7. \A j \in ENIs : j = call.eni => (Protected(j) /\ Complete(j) /\ Connected(j))'
    BY <1>6, OwnKept
<1>8. \A j \in ENIs : j # call.eni => (Protected(j) /\ Complete(j) /\ Connected(j))'
    BY <1>1, OthersKept
<1> QED
    BY <1>3, <1>5, <1>7, <1>8

\* The peer is taken down, and loses its routes.
LEMMA QuiescePeerStep ==
    ASSUME IInv, QuiescePeer
    PROVE  IInv'
<1>1. call.at = "peer" /\ call.at \in Ensuring /\ Goto("peermark")
    BY DEF QuiescePeer, At
<1>2. /\ Router.alias = Alias /\ Router.space = call.space
      /\ ~Router.up /\ call.eni \notin served
    BY <1>1, RunningEnsure DEF IInv, Progress, EnsureProgress
<1>3. /\ \A n \in Spaces : n # call.space => peer'[n] = peer[n]
      /\ peer' \in [Spaces -> PeerLinks]
      /\ peer'[call.space].alias = peer[call.space].alias
      /\ peer'[call.space].name = peer[call.space].name
      /\ peer'[call.space].up = FALSE
      /\ peer'[call.space].address = peer[call.space].address
      /\ peer'[call.space].routes = FALSE
    BY <1>1, RunningEnsure DEF IInv, Typed, QuiescePeer, PeerLinks, Alias
<1>4. UNCHANGED <<router, table, left, served>>
    BY DEF QuiescePeer
<1>5. \A s \in table.sources : \E i \in ENIs : s = <<i, i>>
    BY DEF IInv, Typed
<1>6. /\ Typed'
      /\ \A j \in ENIs : (Protected(j) /\ Complete(j) /\ Connected(j))'
      /\ router'[call.eni] # Absent /\ router'[call.eni] # Alien
    BY <1>1, <1>2, <1>3, <1>4, <1>5, MarkedStep DEF Router, IInv, Typed
<1>7. EnsureProgress'
  <2>1. /\ call' \in Calls /\ call'.at = "peermark" /\ call'.eni = call.eni
        /\ call'.space = call.space
        /\ call.space \in Spaces /\ call.eni = Of[call.space]
    BY <1>1, RunningEnsure
  <2>2. Own(call.eni)'
    BY <1>6, <2>1 DEF Own, Absent, Alien, NoLink
  <2> QED
    BY <1>2, <1>3, <1>4, <2>1, <2>2 DEF EnsureProgress, Router, Alias, ENIAlias
<1> QED
    BY <1>6, <1>7 DEF IInv, Progress

\* The peer, still down, gets the marker.
LEMMA MarkPeerStep ==
    ASSUME IInv, MarkPeer
    PROVE  IInv'
<1>1. call.at = "peermark" /\ call.at \in Ensuring /\ Goto("peername")
    BY DEF MarkPeer, At
<1>2. /\ Router.alias = Alias /\ Router.space = call.space
      /\ ~Router.up /\ call.eni \notin served
      /\ ~peer[call.space].up
    BY <1>1, RunningEnsure DEF IInv, Progress, EnsureProgress
<1>3. /\ \A n \in Spaces : n # call.space => peer'[n] = peer[n]
      /\ peer' \in [Spaces -> PeerLinks]
      /\ peer'[call.space].alias = Alias
      /\ peer'[call.space].name = peer[call.space].name
      /\ peer'[call.space].up = peer[call.space].up
      /\ peer'[call.space].address = peer[call.space].address
      /\ peer'[call.space].routes = peer[call.space].routes
    BY <1>1, RunningEnsure DEF IInv, Typed, MarkPeer, PeerLinks, Alias
<1>4. UNCHANGED <<router, table, left, served>>
    BY DEF MarkPeer
<1>5. \A s \in table.sources : \E i \in ENIs : s = <<i, i>>
    BY DEF IInv, Typed
<1>6. /\ Typed'
      /\ \A j \in ENIs : (Protected(j) /\ Complete(j) /\ Connected(j))'
      /\ router'[call.eni] # Absent /\ router'[call.eni] # Alien
    BY <1>1, <1>2, <1>3, <1>4, <1>5, MarkedStep DEF Router, IInv, Typed
<1>7. EnsureProgress'
  <2>1. /\ call' \in Calls /\ call'.at = "peername" /\ call'.eni = call.eni
        /\ call'.space = call.space
        /\ call.space \in Spaces /\ call.eni = Of[call.space]
    BY <1>1, RunningEnsure
  <2>2. Own(call.eni)'
    BY <1>6, <2>1 DEF Own, Absent, Alien, NoLink
  <2> QED
    BY <1>2, <1>3, <1>4, <2>1, <2>2 DEF EnsureProgress, Router, Alias, ENIAlias
<1> QED
    BY <1>6, <1>7 DEF IInv, Progress

\* The peer, still down, becomes eth0.
LEMMA NamePeerStep ==
    ASSUME IInv, NamePeer
    PROVE  IInv'
<1>1. call.at = "peername" /\ call.at \in Ensuring /\ Goto("peeraddress")
    BY DEF NamePeer, At
<1>2. /\ Router.alias = Alias /\ Router.space = call.space
      /\ ~Router.up /\ call.eni \notin served
      /\ ~peer[call.space].up /\ peer[call.space].alias = Alias
    BY <1>1, RunningEnsure DEF IInv, Progress, EnsureProgress
<1>3. /\ \A n \in Spaces : n # call.space => peer'[n] = peer[n]
      /\ peer' \in [Spaces -> PeerLinks]
      /\ peer'[call.space].alias = peer[call.space].alias
      /\ peer'[call.space].name = "eth0"
      /\ peer'[call.space].up = peer[call.space].up
      /\ peer'[call.space].address = peer[call.space].address
      /\ peer'[call.space].routes = peer[call.space].routes
    BY <1>1, RunningEnsure DEF IInv, Typed, NamePeer, PeerLinks, Alias
<1>4. UNCHANGED <<router, table, left, served>>
    BY DEF NamePeer
<1>5. \A s \in table.sources : \E i \in ENIs : s = <<i, i>>
    BY DEF IInv, Typed
<1>6. /\ Typed'
      /\ \A j \in ENIs : (Protected(j) /\ Complete(j) /\ Connected(j))'
      /\ router'[call.eni] # Absent /\ router'[call.eni] # Alien
    BY <1>1, <1>2, <1>3, <1>4, <1>5, MarkedStep DEF Router, IInv, Typed
<1>7. EnsureProgress'
  <2>1. /\ call' \in Calls /\ call'.at = "peeraddress" /\ call'.eni = call.eni
        /\ call'.space = call.space
        /\ call.space \in Spaces /\ call.eni = Of[call.space]
    BY <1>1, RunningEnsure
  <2>2. Own(call.eni)'
    BY <1>6, <2>1 DEF Own, Absent, Alien, NoLink
  <2> QED
    BY <1>2, <1>3, <1>4, <2>1, <2>2 DEF EnsureProgress, Router, Alias, ENIAlias
<1> QED
    BY <1>6, <1>7 DEF IInv, Progress

\* The peer, still down, gets the ENI's address.
LEMMA AddressPeerStep ==
    ASSUME IInv, AddressPeer
    PROVE  IInv'
<1>1. call.at = "peeraddress" /\ call.at \in Ensuring /\ Goto("checks")
    BY DEF AddressPeer, At
<1>2. /\ Router.alias = Alias /\ Router.space = call.space
      /\ ~Router.up /\ call.eni \notin served
      /\ ~peer[call.space].up /\ peer[call.space].alias = Alias
      /\ peer[call.space].name = "eth0"
    BY <1>1, RunningEnsure DEF IInv, Progress, EnsureProgress
<1>3. /\ \A n \in Spaces : n # call.space => peer'[n] = peer[n]
      /\ peer' \in [Spaces -> PeerLinks]
      /\ peer'[call.space].alias = peer[call.space].alias
      /\ peer'[call.space].name = peer[call.space].name
      /\ peer'[call.space].up = peer[call.space].up
      /\ peer'[call.space].address = TRUE
      /\ peer'[call.space].routes = peer[call.space].routes
    BY <1>1, RunningEnsure DEF IInv, Typed, AddressPeer, PeerLinks, Alias
<1>4. UNCHANGED <<router, table, left, served>>
    BY DEF AddressPeer
<1>5. \A s \in table.sources : \E i \in ENIs : s = <<i, i>>
    BY DEF IInv, Typed
<1>6. /\ Typed'
      /\ \A j \in ENIs : (Protected(j) /\ Complete(j) /\ Connected(j))'
      /\ router'[call.eni] # Absent /\ router'[call.eni] # Alien
    BY <1>1, <1>2, <1>3, <1>4, <1>5, MarkedStep DEF Router, IInv, Typed
<1>7. EnsureProgress'
  <2>1. /\ call' \in Calls /\ call'.at = "checks" /\ call'.eni = call.eni
        /\ call'.space = call.space
        /\ call.space \in Spaces /\ call.eni = Of[call.space]
    BY <1>1, RunningEnsure
  <2>2. Own(call.eni)'
    BY <1>6, <2>1 DEF Own, Absent, Alien, NoLink
  <2> QED
    BY <1>2, <1>3, <1>4, <2>1, <2>2 DEF EnsureProgress, Router, Alias, ENIAlias
<1> QED
    BY <1>6, <1>7 DEF IInv, Progress

\* The peer comes up, its source check being installed.
LEMMA ActivatePeerStep ==
    ASSUME IInv, ActivatePeer
    PROVE  IInv'
<1>1. call.at = "peerup" /\ call.at \in Ensuring /\ Goto("peerroutes")
    BY DEF ActivatePeer, At
<1>2. /\ Router.alias = Alias /\ Router.space = call.space
      /\ ~Router.up /\ call.eni \notin served
      /\ peer[call.space].alias = Alias /\ peer[call.space].name = "eth0"
      /\ peer[call.space].address /\ <<call.eni, call.eni>> \in table.sources
    BY <1>1, RunningEnsure DEF IInv, Progress, EnsureProgress
<1>3. /\ \A n \in Spaces : n # call.space => peer'[n] = peer[n]
      /\ peer' \in [Spaces -> PeerLinks]
      /\ peer'[call.space].alias = peer[call.space].alias
      /\ peer'[call.space].name = peer[call.space].name
      /\ peer'[call.space].up = TRUE
      /\ peer'[call.space].address = peer[call.space].address
      /\ peer'[call.space].routes = peer[call.space].routes
    BY <1>1, RunningEnsure DEF IInv, Typed, ActivatePeer, PeerLinks, Alias
<1>4. UNCHANGED <<router, table, left, served>>
    BY DEF ActivatePeer
<1>5. \A s \in table.sources : \E i \in ENIs : s = <<i, i>>
    BY DEF IInv, Typed
<1>6. /\ Typed'
      /\ \A j \in ENIs : (Protected(j) /\ Complete(j) /\ Connected(j))'
      /\ router'[call.eni] # Absent /\ router'[call.eni] # Alien
    BY <1>1, <1>2, <1>3, <1>4, <1>5, MarkedStep DEF Router, IInv, Typed
<1>7. EnsureProgress'
  <2>1. /\ call' \in Calls /\ call'.at = "peerroutes" /\ call'.eni = call.eni
        /\ call'.space = call.space
        /\ call.space \in Spaces /\ call.eni = Of[call.space]
    BY <1>1, RunningEnsure
  <2>2. Own(call.eni)'
    BY <1>6, <2>1 DEF Own, Absent, Alien, NoLink
  <2> QED
    BY <1>2, <1>3, <1>4, <2>1, <2>2 DEF EnsureProgress, Router, Alias, ENIAlias
<1> QED
    BY <1>6, <1>7 DEF IInv, Progress

\* The peer gets its routes.
LEMMA RoutePeerStep ==
    ASSUME IInv, RoutePeer
    PROVE  IInv'
<1>1. call.at = "peerroutes" /\ call.at \in Ensuring /\ Goto("up")
    BY DEF RoutePeer, At
<1>2. /\ Router.alias = Alias /\ Router.space = call.space
      /\ ~Router.up /\ call.eni \notin served
      /\ peer[call.space].alias = Alias /\ peer[call.space].name = "eth0"
      /\ peer[call.space].address /\ <<call.eni, call.eni>> \in table.sources
      /\ peer[call.space].up
    BY <1>1, RunningEnsure DEF IInv, Progress, EnsureProgress
<1>3. /\ \A n \in Spaces : n # call.space => peer'[n] = peer[n]
      /\ peer' \in [Spaces -> PeerLinks]
      /\ peer'[call.space].alias = peer[call.space].alias
      /\ peer'[call.space].name = peer[call.space].name
      /\ peer'[call.space].up = peer[call.space].up
      /\ peer'[call.space].address = peer[call.space].address
      /\ peer'[call.space].routes = TRUE
    BY <1>1, RunningEnsure DEF IInv, Typed, RoutePeer, PeerLinks, Alias
<1>4. UNCHANGED <<router, table, left, served>>
    BY DEF RoutePeer
<1>5. \A s \in table.sources : \E i \in ENIs : s = <<i, i>>
    BY DEF IInv, Typed
<1>6. /\ Typed'
      /\ \A j \in ENIs : (Protected(j) /\ Complete(j) /\ Connected(j))'
      /\ router'[call.eni] # Absent /\ router'[call.eni] # Alien
    BY <1>1, <1>2, <1>3, <1>4, <1>5, MarkedStep DEF Router, IInv, Typed
<1>7. EnsureProgress'
  <2>1. /\ call' \in Calls /\ call'.at = "up" /\ call'.eni = call.eni
        /\ call'.space = call.space
        /\ call.space \in Spaces /\ call.eni = Of[call.space]
    BY <1>1, RunningEnsure
  <2>2. Own(call.eni)'
    BY <1>6, <2>1 DEF Own, Absent, Alien, NoLink
  <2> QED
    BY <1>2, <1>3, <1>4, <2>1, <2>2 DEF EnsureProgress, Router, Alias, ENIAlias
<1> QED
    BY <1>6, <1>7 DEF IInv, Progress

\* The link is taken down; its ENI no longer counts as served.
LEMMA QuiesceStep ==
    ASSUME IInv, Quiesce
    PROVE  IInv'
<1>1. call.at = "quiesce" /\ call.at \in Ensuring /\ Goto("peer")
    BY DEF Quiesce, At
<1>2. /\ Router.alias = Alias /\ Router.space = call.space
      /\ Own(call.eni) /\ (call.created => peer[call.space] = NewPeer)
    BY <1>1, RunningEnsure DEF IInv, Progress, EnsureProgress
<1>3. /\ \A j \in ENIs : j # call.eni => router'[j] = router[j]
      /\ router' \in [ENIs -> Links]
      /\ router'[call.eni].alias = Router.alias
      /\ router'[call.eni].up = FALSE
      /\ router'[call.eni].space = Router.space
    BY <1>1, <1>2, RunningEnsure DEF IInv, Typed, Quiesce, Links, Router
<1>4. UNCHANGED <<peer, table, left>> /\ served' \subseteq served /\ call.eni \notin served'
    BY <1>2 DEF Quiesce
<1>5. /\ \A s \in table.sources : \E i \in ENIs : s = <<i, i>>
      /\ peer \in [Spaces -> PeerLinks]
      /\ peer[call.space].up => <<call.eni, call.eni>> \in table.sources
      /\ Leftover(call.eni) => ~peer[call.space].up
    BY <1>1, <1>2, RunningEnsure DEF IInv, Typed, Protected, Own, Router, Leftover
<1>6. /\ Typed'
      /\ \A j \in ENIs : (Protected(j) /\ Complete(j) /\ Connected(j))'
      /\ router'[call.eni] # Absent /\ router'[call.eni] # Alien
    BY <1>1, <1>2, <1>3, <1>4, <1>5, MarkedStep
<1>7. EnsureProgress'
  <2>1. /\ call' \in Calls /\ call'.at = "peer" /\ call'.eni = call.eni
        /\ call'.space = call.space
        /\ call'.created = call.created
        /\ call.space \in Spaces /\ call.eni = Of[call.space]
    BY <1>1, RunningEnsure
  <2>2. Own(call.eni)'
    BY <1>6, <2>1 DEF Own, Absent, Alien, NoLink
  <2> QED
    BY <1>2, <1>3, <1>4, <2>1, <2>2 DEF EnsureProgress, Router, Alias, ENIAlias
<1> QED
    BY <1>6, <1>7 DEF IInv, Progress

\* The link comes up last, its peer being configured and its source check installed.
LEMMA ActivateStep ==
    ASSUME IInv, Activate
    PROVE  IInv'
<1>1. call.at = "up" /\ call.at \in Ensuring /\ Goto("route")
    BY DEF Activate, At
<1>2. /\ Router.alias = Alias /\ Router.space = call.space
      /\ call.eni \notin served /\ <<call.eni, call.eni>> \in table.sources
      /\ peer[call.space].alias = Alias /\ peer[call.space].name = "eth0"
      /\ peer[call.space].address /\ peer[call.space].up /\ peer[call.space].routes
    BY <1>1, RunningEnsure DEF IInv, Progress, EnsureProgress
<1>3. /\ \A j \in ENIs : j # call.eni => router'[j] = router[j]
      /\ router' \in [ENIs -> Links]
      /\ router'[call.eni].alias = Router.alias
      /\ router'[call.eni].up = TRUE
      /\ router'[call.eni].space = Router.space
    BY <1>1, <1>2, RunningEnsure DEF IInv, Typed, Activate, Links, Router
<1>4. UNCHANGED <<peer, table, left>> /\ served' \subseteq served /\ call.eni \notin served'
    BY <1>2 DEF Activate
<1>5. /\ \A s \in table.sources : \E i \in ENIs : s = <<i, i>>
      /\ peer \in [Spaces -> PeerLinks]
      /\ <<call.eni, call.eni>> \in table.sources
    BY <1>1, <1>2, RunningEnsure DEF IInv, Typed, Protected, Own, Router
<1>6. /\ Typed'
      /\ \A j \in ENIs : (Protected(j) /\ Complete(j) /\ Connected(j))'
      /\ router'[call.eni] # Absent /\ router'[call.eni] # Alien
    BY <1>1, <1>2, <1>3, <1>4, <1>5, MarkedStep
<1>7. EnsureProgress'
  <2>1. /\ call' \in Calls /\ call'.at = "route" /\ call'.eni = call.eni
        /\ call'.space = call.space
        /\ call.space \in Spaces /\ call.eni = Of[call.space]
    BY <1>1, RunningEnsure
  <2>2. Own(call.eni)'
    BY <1>6, <2>1 DEF Own, Absent, Alien, NoLink
  <2> QED
    BY <1>2, <1>3, <1>4, <2>1, <2>2 DEF EnsureProgress, Router, Alias, ENIAlias
<1> QED
    BY <1>6, <1>7 DEF IInv, Progress

\* An operation starts on a link of its own or on none.  While a pair is made it
\* is not complete, but neither end is up and its creator takes it away again.
LEMMA FindStep ==
    ASSUME IInv, Find
    PROVE  IInv'
<1>1. call.at = "find" /\ call.at \in Ensuring /\ call.created = FALSE
    BY RunningEnsure DEF Find, At, IInv, Progress, EnsureProgress
<1>2. Typed'
    BY DEF Find, IInv, Typed, LinkOK, Own, Absent, Alien
<1>3. /\ call' \in Calls /\ call'.eni = call.eni /\ call'.space = call.space
      /\ call'.at \in {"quiesce", "add"} /\ call' # Idle
      /\ call'.created = (call'.at = "add")
    BY <1>1, RunningEnsure DEF Find, Goto, Calls, Idle
<1>4. ASSUME Router.alias = Alias, call'.at = "quiesce"
      PROVE  Progress'
  <2>1. Own(call.eni)
    BY <1>4, Markers DEF Own, Router, Alias, Absent
  <2>2. Router.space = call.space
    BY <1>1, <1>4, <2>1, RunningEnsure, Markers DEF IInv, Typed, LinkOK, Router, Alias
  <2> QED
    BY <1>1, <1>3, <1>4, <2>1, <2>2, RunningEnsure DEF Find, Progress, EnsureProgress, Router, Alias, Own
<1>5. ASSUME Router = Absent, call'.at = "add"
      PROVE  Progress'
  <2>1. ~Own(call.eni) /\ call.eni \notin served
    BY <1>1, <1>5, RunningEnsure DEF Own, Router, IInv, Connected
  <2> QED
    BY <1>1, <1>3, <1>5, <2>1, RunningEnsure DEF Find, Progress, EnsureProgress, Router
<1>6. Progress'
  <2>1. \/ Router.alias = Alias /\ call'.at = "quiesce"
        \/ Router = Absent /\ call'.at = "add"
    BY <1>1, RunningEnsure DEF Find, Goto, Calls
  <2> QED
    BY <1>4, <1>5, <2>1
<1>7. ASSUME NEW j \in ENIs
      PROVE  (Protected(j) /\ Complete(j) /\ Connected(j))'
    BY <1>1, PairKept DEF Find
<1> QED
    BY <1>2, <1>6, <1>7 DEF IInv

\* The new pair is unmarked and down.
LEMMA LinkAddStep ==
    ASSUME IInv, LinkAdd
    PROVE  IInv'
<1>1. call.at = "add" /\ call.at \in Ensuring /\ Goto("readback")
    BY DEF LinkAdd, At
<1>2. call.created /\ Router = Absent /\ call.eni \notin served
    BY <1>1, RunningEnsure DEF IInv, Progress, EnsureProgress
<1>3. /\ \A j \in ENIs : j # call.eni => router'[j] = router[j]
      /\ \A n \in Spaces : n # call.space => peer'[n] = peer[n]
      /\ router'[call.eni] = NewRouter(call.space) /\ peer'[call.space] = NewPeer
    BY <1>1, RunningEnsure DEF LinkAdd, IInv, Typed
<1>4. /\ NewRouter(call.space).space = call.space /\ NewRouter(call.space).alias = Unmarked
      /\ NewRouter(call.space).up = FALSE /\ NewPeer.up = FALSE
      /\ NewRouter(call.space) \in Links /\ NewPeer \in PeerLinks
    BY <1>1, RunningEnsure DEF NewRouter, NewPeer, NoPeer, Links, PeerLinks
<1>5. Typed'
  <2>1. router' \in [ENIs -> Links] /\ peer' \in [Spaces -> PeerLinks]
    BY <1>1, <1>4, RunningEnsure DEF LinkAdd, IInv, Typed
  <2>2. ASSUME NEW j \in ENIs
        PROVE  LinkOK(j)'
    <3>1. CASE j = call.eni
      BY <1>1, <1>3, <1>4, <3>1, RunningEnsure DEF LinkOK
    <3>2. CASE j # call.eni
      BY <1>3, <3>2 DEF IInv, Typed, LinkOK, Own, Absent, Alien, Unmarked, ENIAlias
    <3> QED
      BY <3>1, <3>2
  <2> QED
    BY <2>1, <2>2 DEF Typed, LinkAdd, IInv
<1>6. Progress'
    BY <1>1, <1>2, <1>3, RunningEnsure DEF LinkAdd, Progress, EnsureProgress, Router, NewRouter, NewPeer, NoPeer, Unmarked, NoLink
<1>7. \A j \in ENIs : j # call.eni => (Protected(j) /\ Complete(j) /\ Connected(j))'
    BY <1>1, <1>3, RunningEnsure, OthersKept DEF LinkAdd
<1>8. ASSUME NEW j \in ENIs, j = call.eni
      PROVE  (Protected(j) /\ Complete(j) /\ Connected(j))'
  <2>1. ~router'[j].up /\ ~peer'[router'[j].space].up /\ j \notin served'
    BY <1>2, <1>3, <1>8, FixedLinks DEF LinkAdd
  <2>2. call' # Idle /\ call'.created /\ call'.eni = j
    BY <1>1, <1>2, <1>8, RunningEnsure
  <2> QED
    BY <2>1, <2>2 DEF Protected, Complete, Connected
<1> QED
    BY <1>5, <1>6, <1>7, <1>8 DEF IInv

\* From here on a failure takes the pair away.
LEMMA ReadBackStep ==
    ASSUME IInv, ReadBack
    PROVE  IInv'
<1>1. call.at = "readback" /\ call.at \in Ensuring /\ Goto("mark")
    BY DEF ReadBack, At
<1>2. /\ call.created /\ Router = NewRouter(call.space) /\ peer[call.space] = NewPeer
      /\ call.eni \notin served
    BY <1>1, RunningEnsure DEF IInv, Progress, EnsureProgress
<1>3. NewRouter(call.space).space = call.space /\ NewRouter(call.space).up = FALSE /\ NewPeer.up = FALSE
    BY DEF NewRouter, NewPeer, NoPeer
<1>4. Typed'
    BY DEF ReadBack, IInv, Typed, LinkOK, Own, Absent, Alien
<1>5. Progress'
    BY <1>1, <1>2, RunningEnsure DEF ReadBack, Progress, EnsureProgress, Router, NewRouter, NewPeer, NoPeer
<1>6. \A j \in ENIs : j # call.eni => (Protected(j) /\ Complete(j) /\ Connected(j))'
    BY <1>1, RunningEnsure, OthersKept DEF ReadBack
<1>7. ASSUME NEW j \in ENIs, j = call.eni
      PROVE  (Protected(j) /\ Complete(j) /\ Connected(j))'
  <2>1. ~router'[j].up /\ ~peer'[router'[j].space].up /\ j \notin served'
    BY <1>2, <1>3, <1>7, FixedLinks DEF ReadBack, Router
  <2>2. call' # Idle /\ call'.created /\ call'.eni = j
    BY <1>1, <1>2, <1>7, RunningEnsure
  <2> QED
    BY <2>1, <2>2 DEF Protected, Complete, Connected
<1> QED
    BY <1>4, <1>5, <1>6, <1>7 DEF IInv

\* The new link, still down, gets the marker.
LEMMA MarkRouterStep ==
    ASSUME IInv, MarkRouter
    PROVE  IInv'
<1>1. call.at = "mark" /\ call.at \in Ensuring /\ Goto("quiesce")
    BY DEF MarkRouter, At
<1>2. /\ call.created /\ Router = NewRouter(call.space) /\ peer[call.space] = NewPeer
      /\ call.eni \notin served
    BY <1>1, RunningEnsure DEF IInv, Progress, EnsureProgress
<1>3. /\ \A j \in ENIs : j # call.eni => router'[j] = router[j]
      /\ router'[call.eni].alias = Alias /\ router'[call.eni].space = call.space
      /\ router'[call.eni].up = FALSE /\ NewPeer.up = FALSE
      /\ router' \in [ENIs -> Links]
  <2>1. router' = [router EXCEPT ![call.eni].alias = Alias]
    BY DEF MarkRouter
  <2>2. NewRouter(call.space).space = call.space /\ NewRouter(call.space).up = FALSE /\ NewPeer.up = FALSE
    BY DEF NewRouter, NewPeer, NoPeer
  <2>3. Alias \in {ENIAlias(Of[n], n) : n \in Spaces}
    BY <1>1, RunningEnsure DEF Alias
  <2>4. router \in [ENIs -> Links] /\ call.eni \in ENIs
    BY <1>1, RunningEnsure DEF IInv, Typed
  <2>5. /\ \A j \in ENIs : j # call.eni => router'[j] = router[j]
        /\ router'[call.eni] = [router[call.eni] EXCEPT !.alias = Alias]
    BY <2>1, <2>4
  <2>6. /\ router'[call.eni].alias = Alias /\ router'[call.eni].space = Router.space
        /\ router'[call.eni].up = Router.up /\ router'[call.eni] \in Links
    BY <2>3, <2>4, <2>5 DEF Links, Router
  <2>7. router' \in [ENIs -> Links]
    BY <2>1, <2>4, <2>6
  <2> QED
    BY <1>2, <2>2, <2>5, <2>6, <2>7
<1>4. Own(call.eni)'
    BY <1>1, <1>3, RunningEnsure, EniAssumption DEF Own, Absent, Alien
<1>5. Typed'
  <2>1. ASSUME NEW j \in ENIs
        PROVE  LinkOK(j)'
    <3>1. CASE j = call.eni
      BY <1>1, <1>3, <3>1, RunningEnsure DEF LinkOK, Alias
    <3>2. CASE j # call.eni
      BY <1>3, <3>2 DEF IInv, Typed, LinkOK, Own, Absent, Alien, Unmarked, ENIAlias
    <3> QED
      BY <3>1, <3>2
  <2> QED
    BY <1>3, <2>1 DEF Typed, MarkRouter, IInv
<1>6. Progress'
    BY <1>1, <1>2, <1>3, <1>4, RunningEnsure
       DEF MarkRouter, Progress, EnsureProgress, Router, Alias, NewPeer, NoPeer, Own, ENIAlias
<1>7. \A j \in ENIs : j # call.eni => (Protected(j) /\ Complete(j) /\ Connected(j))'
    BY <1>1, <1>3, RunningEnsure, OthersKept DEF MarkRouter
<1>8. ASSUME NEW j \in ENIs, j = call.eni
      PROVE  (Protected(j) /\ Complete(j) /\ Connected(j))'
  <2>1. ~router'[j].up /\ ~peer'[router'[j].space].up /\ j \notin served'
    BY <1>2, <1>3, <1>8, FixedLinks DEF MarkRouter, Router
  <2>2. call' # Idle /\ call'.created /\ call'.eni = j
    BY <1>1, <1>2, <1>8, RunningEnsure
  <2> QED
    BY <2>1, <2>2 DEF Protected, Complete, Connected
<1> QED
    BY <1>5, <1>6, <1>7, <1>8 DEF IInv

\* An nft script that succeeds leaves exactly one entry per link, its own.
LEMMA SourcesRendered ==
    ASSUME Typed, ApplyENISourceChecks
    PROVE  /\ \A j \in ENIs : Own(j) => <<j, j>> \in table'.sources
           /\ \A s \in table'.sources : \E i \in ENIs : s = <<i, i>>
<1>1. table'.sources = {<<i, router[i].alias.eni>> : i \in {j \in ENIs : router[j] # Absent}}
    BY DEF ApplyENISourceChecks, RenderENISourceChecks
<1>2. ASSUME NEW j \in ENIs, router[j] # Absent
      PROVE  router[j].alias.eni = j
  <2>1. ParsesAsENIAlias(router[j].alias)
    BY <1>2 DEF ApplyENISourceChecks, SourcesInstallable
  <2>2. Own(j)
    BY <1>2, <2>1, Markers DEF Own
  <2> QED
    BY <2>1, <2>2, Markers DEF Typed, LinkOK
<1> QED
    BY <1>1, <1>2 DEF Own

\* The source check is installed while both ends are down.
LEMMA InstallChecksStep ==
    ASSUME IInv, InstallChecks
    PROVE  IInv'
<1>1. call.at = "checks" /\ call.at \in Ensuring /\ Goto("peerup")
    BY DEF InstallChecks, At
<1>2. /\ Own(call.eni) /\ Router.alias = Alias /\ Router.space = call.space
      /\ ~Router.up /\ ~peer[call.space].up /\ call.eni \notin served
      /\ peer[call.space].alias = Alias /\ peer[call.space].name = "eth0"
      /\ peer[call.space].address
    BY <1>1, RunningEnsure DEF IInv, Progress, EnsureProgress
<1>3. /\ \A j \in ENIs : Own(j) => <<j, j>> \in table'.sources
      /\ \A s \in table'.sources : \E i \in ENIs : s = <<i, i>>
    BY SourcesRendered DEF IInv, InstallChecks
<1>4. UNCHANGED <<router, peer, left, served>>
    BY DEF InstallChecks
<1>5. router \in [ENIs -> Links] /\ peer \in [Spaces -> PeerLinks]
    BY DEF IInv, Typed
<1>6. /\ Typed'
      /\ \A j \in ENIs : (Protected(j) /\ Complete(j) /\ Connected(j))'
      /\ router'[call.eni] # Absent /\ router'[call.eni] # Alien
    BY <1>1, <1>2, <1>3, <1>4, <1>5, RunningEnsure, MarkedStep DEF Router
<1>7. EnsureProgress'
  <2>1. /\ call' \in Calls /\ call'.at = "peerup" /\ call'.eni = call.eni
        /\ call'.space = call.space
        /\ call.space \in Spaces /\ call.eni = Of[call.space]
    BY <1>1, RunningEnsure
  <2>2. Own(call.eni)'
    BY <1>6, <2>1 DEF Own, Absent, Alien, NoLink
  <2>3. <<call.eni, call.eni>> \in table'.sources
    BY <1>1, <1>2, <1>3, RunningEnsure
  <2> QED
    BY <1>2, <1>4, <2>1, <2>2, <2>3 DEF EnsureProgress, Router, Alias, ENIAlias
<1> QED
    BY <1>6, <1>7 DEF IInv, Progress

\* The host route completes the pair, which is served from now on.
LEMMA HostRouteStep ==
    ASSUME IInv, HostRoute
    PROVE  IInv'
<1>1. call.at = "route" /\ call.at \in Ensuring /\ call' = Idle
    BY DEF HostRoute, At
<1>2. /\ Own(call.eni) /\ Router.alias = Alias /\ Router.space = call.space /\ Router.up
      /\ peer[call.space].alias = Alias /\ peer[call.space].name = "eth0" /\ peer[call.space].address
      /\ peer[call.space].up /\ peer[call.space].routes
      /\ <<call.eni, call.eni>> \in table.sources
    BY <1>1, RunningEnsure DEF IInv, Progress, EnsureProgress
<1>3. /\ \A j \in ENIs : j # call.eni => router'[j] = router[j]
      /\ router'[call.eni] = [Router EXCEPT !.route = TRUE]
      /\ router' \in [ENIs -> Links]
    BY <1>1, RunningEnsure DEF HostRoute, IInv, Typed, Links, Router
<1>4. /\ router'[call.eni].alias = Alias /\ router'[call.eni].space = call.space
      /\ router'[call.eni].up /\ router'[call.eni].route
    BY <1>1, <1>2, <1>3, RunningEnsure DEF IInv, Typed, Links, Router
<1>5. router'[call.eni] # Absent /\ router'[call.eni] # Alien
  <2>1. router'[call.eni].space # Foreign
    BY <1>1, <1>4, RunningEnsure, EniAssumption
  <2> QED
    BY <2>1, FixedLinks
<1>6. Typed'
  <2>1. ASSUME NEW j \in ENIs
        PROVE  LinkOK(j)'
    <3>1. CASE j = call.eni
      BY <1>1, <1>4, <3>1, RunningEnsure DEF LinkOK, Alias
    <3>2. CASE j # call.eni
      BY <1>3, <3>2 DEF IInv, Typed, LinkOK, Own, Absent, Alien, Unmarked, ENIAlias
    <3> QED
      BY <3>1, <3>2
  <2>2. served' \subseteq ENIs
    BY <1>1, RunningEnsure DEF HostRoute, IInv, Typed
  <2> QED
    BY <1>3, <2>1, <2>2 DEF Typed, HostRoute, IInv
<1>7. \A j \in ENIs : j # call.eni => (Protected(j) /\ Complete(j) /\ Connected(j))'
    BY <1>1, <1>3, RunningEnsure, OthersKept DEF HostRoute
<1>8. ASSUME NEW j \in ENIs, j = call.eni
      PROVE  (Protected(j) /\ Complete(j) /\ Connected(j))'
  <2>1. Configured(j)'
    BY <1>2, <1>4, <1>8 DEF HostRoute, Configured
  <2>2. router'[j].alias = ENIAlias(j, router'[j].space)
    BY <1>4, <1>8 DEF Alias
  <2>3. <<j, j>> \in table'.sources
    BY <1>2, <1>8 DEF HostRoute
  <2>4. peer'[router'[j].space].up /\ peer'[router'[j].space].routes
    BY <1>2, <1>4, <1>8 DEF HostRoute
  <2>5. Own(j)'
    BY <1>5, <1>8 DEF Own, Absent, Alien, NoLink
  <2> QED
    BY <1>4, <1>8, <2>1, <2>2, <2>3, <2>4, <2>5 DEF Protected, Complete, Connected
<1> QED
    BY <1>1, <1>6, <1>7, <1>8 DEF IInv, Progress, EnsureProgress, Idle

\* The operations' beginnings and the gateway change nothing of the pairs.
LEMMA BeginStep ==
    ASSUME IInv, \/ \E n \in Spaces : EnsureENI(n)
                 \/ \E i \in ENIs : DeleteENI(i)
                 \/ EnsureVPC
    PROVE  IInv'
<1>1. /\ Resting /\ UNCHANGED <<router, peer, table, left, served>>
    BY DEF EnsureENI, DeleteENI, EnsureVPC
<1>2. Typed'
    BY <1>1 DEF IInv, Typed, LinkOK, Own, Absent, Alien
<1>3. Progress'
  <2>1. CASE EnsureVPC
    BY <2>1 DEF EnsureVPC, Resting, Progress, EnsureProgress, Idle
  <2>2. ASSUME NEW n \in Spaces, EnsureENI(n)
        PROVE  Progress'
    BY <2>2, EniAssumption DEF EnsureENI, Progress, EnsureProgress, Calls
  <2>3. ASSUME NEW i \in ENIs, DeleteENI(i)
        PROVE  Progress'
    BY <2>3 DEF DeleteENI, Progress, EnsureProgress, Calls
  <2> QED
    BY <2>1, <2>2, <2>3
<1>4. ASSUME NEW j \in ENIs
      PROVE  (Protected(j) /\ Complete(j) /\ Connected(j))'
    BY <1>1, PairKept DEF Resting
<1> QED
    BY <1>2, <1>3, <1>4 DEF IInv

\* Links that go leave the remaining ones well-formed.
LEMMA LinksCleared ==
    ASSUME Typed, \A j \in ENIs : router'[j] \in {router[j], Absent}
    PROVE  \A j \in ENIs : LinkOK(j)'
<1> SUFFICES ASSUME NEW j \in ENIs PROVE LinkOK(j)'
    OBVIOUS
<1>1. CASE router'[j] = Absent
    BY <1>1 DEF LinkOK, Own, Absent, NoLink
<1>2. CASE router'[j] = router[j]
    BY <1>2 DEF Typed, LinkOK, Own, Absent, Alien, Unmarked, ENIAlias
<1> QED
    BY <1>1, <1>2

\* The absent link and the absent peer are well-formed.
LEMMA AbsentTyped == Absent \in Links /\ NoPeer \in PeerLinks /\ Idle.at = "idle"
    BY DEF Absent, Links, NoPeer, PeerLinks, Idle, Alien

\* A pair that a running EnsureENI made is configured, or both its ends are down.
LEMMA PairBeingMade ==
    ASSUME IInv, call # Idle, call.created, call.at # "add"
    PROVE  /\ call.eni \in ENIs /\ call.eni \notin served
           /\ Configured(call.eni) \/ (~Router.up /\ ~peer[Router.space].up)
<1>1. EnsureProgress
    BY DEF IInv, Progress
<1>2. call.eni \in ENIs /\ call.eni \notin served /\ call.at \in Made \union Marked
    BY <1>1 DEF EnsureProgress, Calls
<1>3. CASE call.at \in Made
    BY <1>1, <1>2, <1>3, FixedLinks DEF EnsureProgress
<1>4. CASE call.at \in {"quiesce", "peer"}
    BY <1>1, <1>2, <1>4, FixedLinks DEF EnsureProgress
<1>5. CASE call.at \in PeerDown \ Addressed
    BY <1>1, <1>2, <1>5 DEF EnsureProgress
<1>6. CASE call.at \in Addressed
    BY <1>1, <1>2, <1>6 DEF EnsureProgress, Configured, Router
<1> QED
    BY <1>2, <1>3, <1>4, <1>5, <1>6

\* A failure that undoes nothing: the operation had not made a pair, or it could
\* not take it away, and then the pair is configured or a leftover.
LEMMA FailKeepsStep ==
    ASSUME IInv, Fail, NotUndone
    PROVE  IInv'
<1>1. /\ call' = Idle /\ call # Idle
      /\ router' = router /\ peer' = peer /\ table' = table /\ served' = served
      /\ left' = IF PairMade THEN left \union {call.eni} ELSE left
    BY DEF Fail, Resting, NotUndone
<1>2. call.eni \in ENIs
    BY <1>1 DEF IInv, Progress, EnsureProgress, Calls
<1>3. Typed'
    BY <1>1, <1>2 DEF IInv, Typed, LinkOK, Own, Absent, Alien
<1>4. ASSUME NEW j \in ENIs
      PROVE  (Protected(j) /\ Complete(j) /\ Connected(j))'
  <2>1. CASE ~(call.created /\ call.eni = j)
    BY <1>1, <2>1, PairKept
  <2>2. CASE call.created /\ call.eni = j /\ At("add")
    <3>1. router[j] = Absent /\ j \notin served
      BY <1>1, <2>2 DEF IInv, Progress, EnsureProgress, At, Router
    <3> QED
      BY <1>1, <3>1, PairGone
  <2>3. CASE call.created /\ call.eni = j /\ ~At("add")
    <3>1. /\ j \notin served'
          /\ Configured(j) \/ (~router[j].up /\ ~peer[router[j].space].up)
      BY <1>1, <2>3, PairBeingMade DEF At, Router
    <3>2. j \in left'
      BY <1>1, <2>3 DEF PairMade
    <3>3. Configured(j)' \/ Leftover(j)'
      BY <1>1, <3>1, <3>2 DEF Configured, Leftover
    <3>4. Protected(j)'
      BY <1>1 DEF IInv, Protected, Own, ENIAlias, Absent, Alien
    <3> QED
      BY <3>1, <3>3, <3>4 DEF Complete, Connected
  <2> QED
    BY <2>1, <2>2, <2>3
<1> QED
    BY <1>1, <1>3, <1>4 DEF IInv, Progress, EnsureProgress, Idle

\* A failure that deletes the link it made, and the peer with it.
LEMMA FailUndoesStep ==
    ASSUME IInv, Fail, Undone
    PROVE  IInv'
<1>1. /\ call' = Idle /\ call # Idle
      /\ router' = [router EXCEPT ![call.eni] = Absent]
      /\ peer' = [peer EXCEPT ![call.space] = NoPeer]
      /\ table' = table /\ served' = served /\ left' = left /\ call.created
    BY DEF Fail, Resting, Undone, PairMade
<1>2. call.at \in Ensuring /\ call.eni \notin served
    BY <1>1 DEF IInv, Progress, EnsureProgress
<1>3. /\ router'[call.eni] = Absent /\ peer'[call.space] = NoPeer
      /\ \A j \in ENIs : j # call.eni => router'[j] = router[j]
      /\ \A n \in Spaces : n # call.space => peer'[n] = peer[n]
      /\ router' \in [ENIs -> Links] /\ peer' \in [Spaces -> PeerLinks]
    BY <1>1, <1>2, RunningEnsure, AbsentTyped DEF IInv, Typed
<1>4. \A j \in ENIs : LinkOK(j)'
    BY <1>3, LinksCleared DEF IInv
<1>5. Typed'
    BY <1>1, <1>3, <1>4 DEF IInv, Typed
<1>6. \A j \in ENIs : j # call.eni => (Protected(j) /\ Complete(j) /\ Connected(j))'
    BY <1>1, <1>2, <1>3, OthersKept
<1>7. \A j \in ENIs : j = call.eni => (Protected(j) /\ Complete(j) /\ Connected(j))'
    BY <1>1, <1>2, <1>3, PairGone
<1> QED
    BY <1>1, <1>5, <1>6, <1>7 DEF IInv, Progress, EnsureProgress, Idle

\* What is known of a running DeleteENI.
LEMMA RunningDelete ==
    ASSUME IInv, call.at \in Deleting
    PROVE  /\ call \in Calls /\ call # Idle /\ call.eni \in ENIs
           /\ call.space = Foreign /\ call.created = FALSE
    BY AbsentTyped DEF IInv, Progress, EnsureProgress, Calls

\* Deleting an ENI's link takes its own peer and no other ENI's.
LEMMA UnlinkStep ==
    ASSUME IInv, Unlink
    PROVE  IInv'
<1>1. /\ call.at = "unlink" /\ call.at \in Deleting /\ Goto("clean")
      /\ table' = table /\ left' = left \ {call.eni} /\ served' = served \ {call.eni}
    BY DEF Unlink, At
<1>2. /\ call' \in Calls /\ call'.at = "clean" /\ call'.created = FALSE /\ call'.space = Foreign
    BY <1>1, RunningDelete DEF Goto, Calls
<1>3. /\ router'[call.eni] = Absent
      /\ \A j \in ENIs : j # call.eni => router'[j] = router[j]
      /\ \A n \in Spaces : n # Router.space => peer'[n] = peer[n]
      /\ router' \in [ENIs -> Links] /\ peer' \in [Spaces -> PeerLinks]
    BY <1>1, RunningDelete, AbsentTyped DEF IInv, Typed, Unlink, WithoutPair
<1>4. \A j \in ENIs : LinkOK(j)'
    BY <1>3, LinksCleared DEF IInv
<1>5. Typed'
    BY <1>1, <1>3, <1>4 DEF IInv, Typed
<1>6. ASSUME NEW j \in ENIs
      PROVE  (Protected(j) /\ Complete(j) /\ Connected(j))'
  <2>1. CASE j = call.eni
    BY <1>1, <1>3, <2>1, PairGone
  <2>2. CASE j # call.eni
    <3>1. Own(j) => router[j].space \in Spaces /\ Of[router[j].space] = j
      BY DEF IInv, Typed, LinkOK
    <3>2. Router.space \in Spaces => Of[Router.space] = call.eni
      BY <1>1, RunningDelete, OwnBySpace DEF IInv, Typed, LinkOK, Router
    <3>3. Own(j) => peer'[router[j].space] = peer[router[j].space]
      BY <1>3, <2>2, <3>1, <3>2
    <3> QED
      BY <1>1, <1>3, <2>2, <3>3, RunningDelete, PairKept
  <2> QED
    BY <2>1, <2>2
<1> QED
    BY <1>2, <1>5, <1>6 DEF IInv, Progress, EnsureProgress

\* Rendering the table after a deletion keeps the entry of every link left.
LEMMA CleanStep ==
    ASSUME IInv, Clean
    PROVE  IInv'
<1>1. /\ call.at \in Deleting /\ call' = Idle
      /\ UNCHANGED <<router, peer, left, served>>
    BY DEF Clean, At
<1>2. /\ \A j \in ENIs : Own(j) => <<j, j>> \in table'.sources
      /\ \A s \in table'.sources : \E i \in ENIs : s = <<i, i>>
    BY SourcesRendered DEF IInv, Clean
<1>3. Typed'
    BY <1>1, <1>2 DEF IInv, Typed, LinkOK, Own, Absent, Alien
<1>4. \A j \in ENIs : (Protected(j) /\ Complete(j) /\ Connected(j))'
    BY <1>1, <1>2, RunningDelete, PairKept
<1> QED
    BY <1>1, <1>3, <1>4 DEF IInv, Progress, EnsureProgress, Idle

\* A namespace that goes takes its pair; the running operation's one stays.
LEMMA SpaceDiesStep ==
    ASSUME IInv, NEW n \in Spaces, SpaceDies(n)
    PROVE  IInv'
<1> DEFINE Dead == {i \in ENIs : router[i].space = n}
<1>1. /\ call' = call /\ table' = table
      /\ left' = left \ Dead /\ served' = served \ Dead
      /\ call # Idle => call.space # n
    BY DEF SpaceDies, Resting
<1>2. /\ \A j \in Dead : router'[j] = Absent
      /\ \A j \in ENIs : j \notin Dead => router'[j] = router[j]
      /\ \A m \in Spaces : m # n => peer'[m] = peer[m]
      /\ router' \in [ENIs -> Links] /\ peer' \in [Spaces -> PeerLinks]
    BY AbsentTyped DEF SpaceDies, IInv, Typed
<1>3. \A j \in ENIs : LinkOK(j)'
    BY <1>2, LinksCleared DEF IInv
<1>4. Typed'
    BY <1>1, <1>2, <1>3 DEF IInv, Typed
<1>5. Progress'
  <2>1. CASE call = Idle
    BY <1>1, <2>1 DEF Progress, EnsureProgress, Idle
  <2>2. CASE call # Idle /\ call.at \in Deleting
    BY <1>1, <2>2, RunningDelete DEF Progress, EnsureProgress, Calls
  <2>3. CASE call # Idle /\ call.at \in Ensuring
    <3>1. /\ call \in Calls /\ call.eni \in ENIs /\ call.space \in Spaces /\ call.space # n
          /\ peer'[call.space] = peer[call.space]
      BY <1>1, <1>2, <2>3, RunningEnsure
    <3>2. call.at # "find" => router'[call.eni] = router[call.eni]
      <4>1. CASE call.at = "add"
        BY <1>2, <2>3, <3>1, <4>1 DEF IInv, Progress, EnsureProgress, Router
      <4>2. CASE call.at \in Made
        <5>1. router[call.eni] = NewRouter(call.space)
          BY <2>3, <4>2 DEF IInv, Progress, EnsureProgress, Router
        <5>2. router[call.eni].space = call.space
          BY <5>1, FixedLinks
        <5> QED
          BY <1>2, <3>1, <5>2
      <4>3. CASE call.at \in Marked
        <5>1. router[call.eni].space = call.space
          BY <2>3, <4>3 DEF IInv, Progress, EnsureProgress, Router
        <5> QED
          BY <1>2, <3>1, <5>1
      <4> QED
        BY <2>3, <4>1, <4>2, <4>3
    <3>3. call.at \in Marked => Own(call.eni)'
      BY <1>1, <2>3, <3>2 DEF IInv, Progress, EnsureProgress, Own, Absent, Alien
    <3>4. call.created \/ call.at \in Quiesced => call.eni \notin served'
      BY <1>1, <2>3 DEF IInv, Progress, EnsureProgress
    <3> QED
      BY <1>1, <2>3, <3>1, <3>2, <3>3, <3>4
         DEF IInv, Progress, EnsureProgress, Router, Alias, ENIAlias, NewRouter, NewPeer, NoPeer, Unmarked, Absent
  <2> QED
    BY <2>1, <2>2, <2>3 DEF IInv, Progress, EnsureProgress
<1>6. ASSUME NEW j \in ENIs
      PROVE  (Protected(j) /\ Complete(j) /\ Connected(j))'
  <2>1. CASE j \in Dead
    BY <1>1, <1>2, <2>1, PairGone
  <2>2. CASE j \notin Dead
    <3>1. Own(j) => peer'[router[j].space] = peer[router[j].space]
      BY <1>2, <2>2, OwnBySpace DEF IInv
    <3>2. CASE ~(call # Idle /\ call.created /\ call.eni = j)
      BY <1>1, <1>2, <2>2, <3>1, <3>2, PairKept
    <3>3. CASE call # Idle /\ call.created /\ call.eni = j
      <4>1. j \notin served'
        BY <1>1, <3>3, RunningDelete DEF IInv, Progress, EnsureProgress
      <4>2. Own(j)' <=> Own(j)
        BY <1>2, <2>2 DEF Own, Absent, Alien
      <4>3. Protected(j)'
        BY <1>1, <1>2, <2>2, <3>1, <4>2 DEF IInv, Protected, ENIAlias
      <4> QED
        BY <1>1, <3>3, <4>1, <4>3 DEF Complete, Connected, Idle
    <3> QED
      BY <3>2, <3>3
  <2> QED
    BY <2>1, <2>2
<1> QED
    BY <1>4, <1>5, <1>6 DEF IInv

\* The invariant holds before the engine's first operation.
LEMMA InitIInv == Init => IInv
<1> SUFFICES ASSUME Init PROVE IInv
    OBVIOUS
<1>1. router \in [ENIs -> {Absent, Alien}] /\ \A j \in ENIs : ~Own(j)
    BY DEF Init, Own
<1>2. Absent \in Links /\ Alien \in Links
    BY AbsentTyped DEF Links, Alien
<1>3. NoPeer \in PeerLinks /\ AlienPeer \in PeerLinks
    BY DEF NoPeer, AlienPeer, PeerLinks
<1>4. router \in [ENIs -> Links] /\ peer \in [Spaces -> PeerLinks]
    BY <1>1, <1>2, <1>3 DEF Init
<1>5. table.sources = {}
    BY DEF Init
<1>6. Typed
    BY <1>1, <1>4, <1>5 DEF Init, Typed, LinkOK
<1> QED
    BY <1>1, <1>6 DEF Init, IInv, Progress, EnsureProgress, Protected, Complete, Connected

\* Every step, and stuttering, keeps the invariant.
LEMMA NextIInv == IInv /\ [Next]_vars => IInv'
<1> SUFFICES ASSUME IInv, [Next]_vars PROVE IInv'
    OBVIOUS
<1>1. CASE UNCHANGED vars
  <2>1. UNCHANGED <<router, peer, table, call, left, served>>
    BY <1>1 DEF vars
  <2>2. Typed'
    BY <2>1 DEF IInv, Typed, LinkOK, Own
  <2>3. Progress'
    BY <2>1 DEF IInv, Progress, EnsureProgress, Router, Alias, Own
  <2>4. \A j \in ENIs : Protected(j)'
    BY <2>1 DEF IInv, Protected, Own
  <2>5. \A j \in ENIs : Complete(j)'
    BY <2>1 DEF IInv, Complete, Configured, Leftover, Own
  <2>6. \A j \in ENIs : Connected(j)'
    BY <2>1 DEF IInv, Connected, Configured, Own
  <2> QED
    BY <2>2, <2>3, <2>4, <2>5, <2>6 DEF IInv
<1>2. CASE \/ \E n \in Spaces : EnsureENI(n)
           \/ \E i \in ENIs : DeleteENI(i)
           \/ EnsureVPC
    BY <1>2, BeginStep
<1>3. CASE \E n \in Spaces : SpaceDies(n)
    BY <1>3, SpaceDiesStep
<1>4. CASE Fail
    BY <1>4, FailKeepsStep, FailUndoesStep DEF Fail
<1>5. CASE Steps
  <2>1. CASE Find \/ LinkAdd \/ ReadBack \/ MarkRouter \/ Quiesce
    BY <2>1, FindStep, LinkAddStep, ReadBackStep, MarkRouterStep, QuiesceStep
  <2>2. CASE QuiescePeer \/ MarkPeer \/ NamePeer \/ AddressPeer
    BY <2>2, QuiescePeerStep, MarkPeerStep, NamePeerStep, AddressPeerStep
  <2>3. CASE InstallChecks \/ ActivatePeer \/ RoutePeer \/ Activate \/ HostRoute
    BY <2>3, InstallChecksStep, ActivatePeerStep, RoutePeerStep, ActivateStep, HostRouteStep
  <2>4. CASE Unlink \/ Clean
    BY <2>4, UnlinkStep, CleanStep
  <2> QED
    BY <1>5, <2>1, <2>2, <2>3, <2>4 DEF Steps
<1> QED
    BY <1>1, <1>2, <1>3, <1>4, <1>5 DEF Next

----------------------------------------------------------------------------
\* The strengthening all three invariants follow from.
THEOREM PlumbingInvariant == Spec => []IInv
    BY InitIInv, NextIInv, PTL DEF Spec

\* No end of a pair is up before the table holds exactly its own source check
\* (the order of EnsureENI's steps, eni_linux.go:186-215).
THEOREM CheckedAlways == Spec => []CheckedBeforeActive
<1>1. IInv => CheckedBeforeActive
  <2> SUFFICES ASSUME IInv, NEW i \in ENIs,
                      Own(i) /\ (router[i].up \/ peer[router[i].space].up)
               PROVE  /\ router[i].alias = ENIAlias(i, router[i].space)
                      /\ {s \in table.sources : s[1] = i} = {<<i, i>>}
    BY DEF CheckedBeforeActive
  <2>1. router[i].alias = ENIAlias(i, router[i].space) /\ <<i, i>> \in table.sources
    BY DEF IInv, Protected
  <2>2. \A s \in table.sources : \E j \in ENIs : s = <<j, j>>
    BY DEF IInv, Typed
  <2> QED
    BY <2>1, <2>2
<1> QED
    BY <1>1, PlumbingInvariant, PTL

\* A failed operation leaves no half-made pair (the deferred LinkDel,
\* eni_linux.go:100-107), or, if that fails too or the pair could not be read
\* back, only one whose ends are both down and stay so in every later attempt
\* until it is configured.
THEOREM NoHalfMadePair == Spec => []FailureLeavesNoPair
<1>1. IInv => FailureLeavesNoPair
    BY DEF IInv, Complete, Configured, Leftover, FailureLeavesNoPair, Resting
<1> QED
    BY <1>1, PlumbingInvariant, PTL

\* What EnsureENI reported as done stays connected until its own pair is
\* plumbed again, deleted or gone with its namespace (eni_linux.go:224).
THEOREM ServedAlways == Spec => []ServedStaysConnected
<1>1. IInv => ServedStaysConnected
    BY DEF IInv, Typed, Connected, Configured, ServedStaysConnected
<1> QED
    BY <1>1, PlumbingInvariant, PTL
=============================================================================
