----------------------------- MODULE Addressing -----------------------------
(***************************************************************************)
(* CIDR blocks and private addresses: what the service accepts as a VPC or *)
(* subnet range, when two ranges overlap, and which address of a subnet an *)
(* instance gets.  An address is a number of Width bits (32 in the code),  *)
(* a prefix an address and a number of leading bits.                       *)
(***************************************************************************)
EXTENDS Naturals, FiniteSets, FiniteSetsExt

CONSTANTS Width,    \* bits of an address (32 in the code)
          MinBits,  \* shortest prefix accepted (16)
          MaxBits   \* longest prefix accepted (28)

(* A subnet of the longest prefix still has an address to give away, after *)
(* the five that are reserved.                                             *)
ASSUME AddressingAssumption ==
  /\ Width \in Nat /\ MinBits \in Nat /\ MaxBits \in Nat
  /\ MinBits <= MaxBits /\ MaxBits + 3 <= Width

Addresses == 0..(2^Width - 1)

Size(p) == 2^(Width - p.bits)

(* netip.Prefix.Masked and netip.Prefix.Contains.                          *)
Masked(p) == [addr |-> p.addr - (p.addr % Size(p)), bits |-> p.bits]
PrefixContains(p, a) == p.addr \div Size(p) = a \div Size(p)

(* The checks of ParseCIDR, and the prefix it returns, host bits masked.   *)
Accepted(p) == p.bits \in MinBits..MaxBits
ParseCIDR(p) == Masked(p)

ValidateSubnetRange(vpc, subnet) ==
  vpc.bits <= subnet.bits /\ PrefixContains(Masked(vpc), Masked(subnet).addr)

(* Overlaps that only asks whether the first range contains the second.    *)
OverlapsOneWay(a, b) == PrefixContains(Masked(a), Masked(b).addr)

Overlaps(a, b) ==
  PrefixContains(Masked(a), Masked(b).addr) \/ PrefixContains(Masked(b), Masked(a).addr)

ValidateSubnetDisjoint(subnet, siblings) == \A s \in siblings : ~Overlaps(subnet, s)

Gateway(p) == Masked(p).addr + 1

FirstAssignable(p) == Masked(p).addr + 4

(* The address with all host bits set.                                     *)
Broadcast(p) == p.addr + (Size(p) - 1)

(* The offset is a uint32, but never negative for a contained address.     *)
ReservedAddress(p, a) ==
  /\ PrefixContains(p, a)
  /\ LET offset == a - Masked(p).addr
     IN  offset <= 3 \/ offset = Size(p) - 1

(* The loop with <= in the place of #.                                     *)
CandidatesToBroadcast(p) == FirstAssignable(p)..Broadcast(p)

(* The loop of nextPrivateIP: the addresses it looks at, in order, and the *)
(* one it returns.  It never passes the broadcast address, because the     *)
(* first address it looks at is below it.                                  *)
Candidates(p) == FirstAssignable(p)..(Broadcast(p) - 1)

Exhausted(p, used) == Candidates(p) \subseteq used
NextPrivateIP(p, used) == Min(Candidates(p) \ used)

(* What EnsureENI requires of the address it is told to plumb.             *)
PlumbingAccepts(p, a) ==
  /\ PrefixContains(p, a)
  /\ a >= p.addr + 4
  /\ PrefixContains(p, a + 1)

(* What desiredGateways requires of a VPC's ranges before the engine       *)
(* touches the kernel.                                                     *)
EngineAccepts(vpc, subnets) ==
  /\ Accepted(vpc) /\ vpc = Masked(vpc)
  /\ \A s \in subnets : /\ s = Masked(s)
                        /\ s.bits \in vpc.bits..MaxBits
                        /\ PrefixContains(vpc, s.addr)
                        /\ \A prior \in subnets \ {s} : ~Overlaps(s, prior)

=============================================================================
