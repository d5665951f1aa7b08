-------------------------- MODULE MCNetworkEngine --------------------------
(***************************************************************************)
(* The network engine for TLC: the plumbing of ENIs, the VPC's router and  *)
(* the hook's way to a namespace.  They share no state here (EniPlumbing   *)
(* has the router as its gateway, HookTarget has EnsureENI as one step)    *)
(* and no property relates two of them, so each behaviour takes the steps  *)
(* of one of them, `part'; interleavings with the others would add none.   *)
(*                                                                         *)
(* Two ENIs are in one VPC: the first instance has two namespaces (a       *)
(* container and the one that replaces it), the second one.                *)
(***************************************************************************)
EXTENDS EniPlumbing, Naturals

CONSTANTS e1, e2, s1, s2, s3, Gateways, Runtimes, Appliance, MaxBirths

MCENIs == {e1, e2}
MCSpaces == {s1, s2, s3}
MCOf == [n \in MCSpaces |-> IF n = s3 THEN e2 ELSE e1]

VARIABLES part,                                 \* what this behaviour is about
          mount, space, host, operation, done,  \* of VPCRouter
          process, births, hook, handler        \* of HookTarget

VPC == INSTANCE VPCRouter WITH call <- operation
Hook == INSTANCE HookTarget

routerVars == <<mount, space, host, operation, done>>
hookVars == <<process, births, hook, handler>>

EngineInit ==
    /\ part \in {"eni", "vpc", "hook"}
    /\ Init /\ VPC!Init /\ Hook!Init
    /\ part # "eni" => /\ router = [i \in ENIs |-> Absent]
                       /\ peer = [n \in Spaces |-> NoPeer]
                       /\ table.mark = "none"
    /\ part # "vpc" => mount = "absent"

EngineNext ==
    \/ part = "eni" /\ Next /\ UNCHANGED <<part, routerVars, hookVars>>
    \/ part = "vpc" /\ VPC!Next /\ UNCHANGED <<part, vars, hookVars>>
    \/ part = "hook" /\ Hook!Next /\ UNCHANGED <<part, vars, routerVars>>

EngineSpec == EngineInit /\ [][EngineNext]_<<part, vars, routerVars, hookVars>>

----------------------------------------------------------------------------
\* An EnsureVPC that succeeds while nobody interferes leaves exactly the
\* desired router, whatever failed operations had left (vpc_linux.go:37).
EnsuredIsExact == VPC!EnsuredIsExact

\* The engine changes nothing but what it made: neither strange addresses and
\* rules (vpc_linux.go:195) nor the network of the appliance itself, although
\* the VPC's namespace may be unmounted at any time (netns_linux.go:115).
StrangeKept == VPC!StrangeKept

\* A container goes on only when its own namespace was plumbed (client.go:44),
\* although PIDs are reused between reads of /proc (instance_linux.go:27).
StartedIsPlumbed == Hook!StartedIsPlumbed
============================================================================
