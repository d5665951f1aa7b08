----------------------------- MODULE VPCRouter -----------------------------
(***************************************************************************)
(* How the network engine brings one VPC's namespace to its desired state  *)
(* (src/internal/network/netns/netns_linux.go, topology/vpc_linux.go,      *)
(* policy_linux.go): the mount point, the thread that enters the           *)
(* namespace, the router's dummy link, sysctls, gateway addresses and      *)
(* policy rules, one step for every call that changes them, with the reads *)
(* before it; any of them may fail.  The next EnsureVPC, perhaps with      *)
(* other subnets, goes on from what a failed one left.  The engine's lock  *)
(* admits one operation at a time; an operator inside the appliance is not *)
(* bound by it.  The loopback link, which nothing here depends on, is      *)
(* left out.                                                               *)
(***************************************************************************)
EXTENDS FiniteSets

CONSTANTS Gateways,   \* gateway addresses of the subnets the VPC may have
          Foreign     \* an address that no subnet has

VARIABLES mount,      \* what is at /run/netns/nx<index>: absent, file, netns
          space,      \* network state inside the VPC's namespace
          host,       \* network state of the appliance's own namespace
          call,       \* the operation that holds the lock
          done        \* the gateways of an EnsureVPC that succeeded undisturbed, until
                      \* anything else happens (history)

vars == <<mount, space, host, call, done>>

\* Addresses of the router link as <<address, label>>, policy rules as
\* <<priority, content>>; "ours" is the label, or the content, the engine uses.
Fresh == [router |-> "none", sysctls |-> {}, addresses |-> {}, rules |-> {}]
Own == [router |-> "none", sysctls |-> {}, addresses |-> {<<Foreign, "eth0">>}, rules |-> {}]
Ours(S) == {<<x, "ours">> : x \in S}
Strange == {x \in space.addresses : x[2] # "ours"}

Idle == [at |-> "idle"]
Never == [never |-> TRUE]
Resting == call = Idle
At(point) == call.at = point
Goto(point) == call' = [call EXCEPT !.at = point]

Init ==
    /\ mount \in {"absent", "file"}
    /\ space = Fresh /\ host = Own
    /\ call = Idle /\ done = Never

\* The thread's calls change the namespace the thread is in.
Here == IF call.where = "vpc" THEN space ELSE host
Change(state) ==
    /\ space' = IF call.where = "vpc" THEN state ELSE space
    /\ host' = IF call.where = "vpc" THEN host ELSE state
    /\ UNCHANGED <<mount, done>>

Fail ==
    /\ ~Resting
    /\ call' = Idle
    /\ UNCHANGED <<mount, space, host, done>>

----------------------------------------------------------------------------
(* netns.Ensure.                                                           *)

EnsureVPC(gateways) ==
    /\ Resting
    /\ call' = [at |-> "mount", where |-> "host", want |-> gateways, existing |-> {}, quiet |-> TRUE]
    /\ done' = Never
    /\ UNCHANGED <<mount, space, host>>

\* An existing namespace is kept, a file that is not one is refused.
MountPoint ==
    /\ At("mount")
    /\ \/ mount = "netns" /\ Goto("enter") /\ UNCHANGED mount
       \/ mount = "absent" /\ mount' = "file" /\ Goto("bind")
    /\ UNCHANGED <<space, host, done>>

\* unshare and bind mount on a thread that is not used again.
Bind ==
    /\ At("bind")
    /\ mount = "file"
    /\ mount' = "netns" /\ space' = Fresh
    /\ Goto("enter")
    /\ UNCHANGED <<host, done>>

\* After a failure the mount point is removed, if that works.
BindFails ==
    /\ At("bind")
    /\ mount' = "absent"
    /\ call' = Idle
    /\ UNCHANGED <<space, host, done>>

----------------------------------------------------------------------------
(* netns.Do and WithHandle.                                                *)

\* A version that goes on when the namespace cannot be entered.
EnterUnchecked ==
    /\ At("enter")
    /\ call' = [call EXCEPT !.at = "links",
                            !.where = IF mount = "netns" THEN "vpc" ELSE "host"]
    /\ UNCHANGED <<mount, space, host, done>>

Enter ==
    /\ At("enter")
    /\ mount = "netns"
    /\ call' = [call EXCEPT !.at = "links", !.where = "vpc"]
    /\ UNCHANGED <<mount, space, host, done>>

----------------------------------------------------------------------------
(* The router inside the namespace.                                        *)

\* ensureRouterLinks: a missing dummy link is added; one of another type is
\* refused.
RouterLinkAdd ==
    /\ At("links")
    /\ Here.router # "other"
    /\ Change([Here EXCEPT !.router = IF @ = "none" THEN "down" ELSE @])
    /\ Goto("linkup")

RouterLinkSetUp ==
    /\ At("linkup")
    /\ Here.router \in {"down", "up"}
    /\ Change([Here EXCEPT !.router = "up"])
    /\ Goto("forward")

\* setNamespaceSysctl, three times; the last one is the link's own.
SetNamespaceSysctl(key, next) ==
    /\ At(key)
    /\ key = "nxr0" => Here.router # "none"
    /\ Change([Here EXCEPT !.sysctls = @ \union {key}])
    /\ Goto(next)

Sysctls ==
    \/ SetNamespaceSysctl("forward", "default")
    \/ SetNamespaceSysctl("default", "nxr0")
    \/ SetNamespaceSysctl("nxr0", "list")

\* reconcileGateways lists the addresses once and works on the list.
AddrList ==
    /\ At("list")
    /\ Here.router # "none"
    /\ call' = [call EXCEPT !.at = "stale", !.existing = Here.addresses]
    /\ UNCHANGED <<mount, space, host, done>>

AddrDel(x) ==
    /\ x \in Here.addresses
    /\ Change([Here EXCEPT !.addresses = @ \ {x}])
    /\ call' = [call EXCEPT !.existing = @ \ {x}]

\* First loop: listed gateways that are stale go, anything strange is refused.
RemoveStale ==
    /\ At("stale")
    /\ \/ \E x \in call.existing \ Ours(call.want) : x[2] = "ours" /\ AddrDel(x)
       \/ /\ call.existing \subseteq Ours(call.want)
          /\ Goto("add")
          /\ UNCHANGED <<mount, space, host, done>>

\* Second loop: what is wanted and was not listed.
AddGateways ==
    /\ At("add")
    /\ \/ \E x \in Ours(call.want) \ call.existing :
             /\ x \notin Here.addresses
             /\ Change([Here EXCEPT !.addresses = @ \union {x}])
             /\ call' = [call EXCEPT !.existing = @ \union {x}]
       \/ /\ Ours(call.want) \subseteq call.existing
          /\ Goto("local")
          /\ UNCHANGED <<mount, space, host, done>>

\* The rules of the namespace the thread is in, with every attribute the kernel tells.
ListKernelPolicyRules == Here.rules

\* A version that looks for the priority only.
RuleAcceptedByPriority(priority) == TRUE

\* A rule at the priority must be the wanted one.
RuleAccepted(priority) == \A x \in ListKernelPolicyRules : x[1] = priority => x[2] = "ours"

EnsureRule(priority, next) ==
    /\ RuleAccepted(priority)
    /\ LET found == \E x \in ListKernelPolicyRules : x[1] = priority
       IN  Change([Here EXCEPT !.rules =
                      IF found THEN @ ELSE @ \union {<<priority, "ours">>}])
    /\ Goto(next)

LocalRule == At("local") /\ EnsureRule("local", "drop")
DropRule == At("drop") /\ EnsureRule("drop", "finish")

\* EnsureVPC returns nil.
Finish ==
    /\ At("finish")
    /\ call' = Idle
    /\ done' = IF call.quiet THEN [want |-> call.want] ELSE Never
    /\ UNCHANGED <<mount, space, host>>

----------------------------------------------------------------------------
(* netns.Delete: a file that is not a namespace is refused; the mount point *)
(* stays when it cannot be removed after the unmount.                      *)

DeleteVPC ==
    /\ Resting
    /\ call' = [at |-> "unmount", where |-> "host", want |-> {}, existing |-> {}, quiet |-> TRUE]
    /\ done' = Never
    /\ UNCHANGED <<mount, space, host>>

DeleteAbsent ==
    /\ At("unmount")
    /\ mount = "absent"
    /\ call' = Idle
    /\ UNCHANGED <<mount, space, host, done>>

Unmount ==
    /\ At("unmount")
    /\ mount = "netns"
    /\ mount' = "file" /\ space' = Fresh
    /\ Goto("remove")
    /\ UNCHANGED <<host, done>>

Remove ==
    /\ At("remove")
    /\ mount' = "absent"
    /\ call' = Idle
    /\ UNCHANGED <<space, host, done>>

----------------------------------------------------------------------------
(* An operator, or a program run by hand in the appliance.                 *)

Disturb ==
    /\ done' = Never
    /\ call' = IF Resting THEN call ELSE [call EXCEPT !.quiet = FALSE]

Drift(state) ==
    /\ mount = "netns" /\ state # space
    /\ space' = state
    /\ Disturb
    /\ UNCHANGED <<mount, host>>

ByHand ==
    \/ Drift([space EXCEPT !.addresses = @ \union {<<Foreign, "other">>}])
    \/ \E g \in Gateways : Drift([space EXCEPT !.addresses = @ \ {<<g, "ours">>}])
    \/ \E p \in {"local", "drop"} :
          \/ Drift([space EXCEPT !.rules = @ \union {<<p, "other">>}])
          \/ Drift([space EXCEPT !.rules = @ \ {<<p, "ours">>}])
    \/ \E link \in {"none", "other"} :
          Drift([space EXCEPT !.router = link, !.addresses = {}, !.sysctls = @ \ {"nxr0"}])
    \/ space.router = "up" /\ Drift([space EXCEPT !.router = "down"])
    \/ \E key \in space.sysctls : Drift([space EXCEPT !.sysctls = @ \ {key}])

\* An operator removes the mount, or the file that a failed Delete left.
UnmountByHand ==
    /\ mount # "absent"
    /\ mount' = IF mount = "netns" THEN "file" ELSE "absent"
    /\ space' = IF ~Resting /\ call.where = "vpc" THEN space ELSE Fresh
    /\ Disturb
    /\ UNCHANGED host

Router ==
    \/ MountPoint \/ Bind \/ BindFails \/ Enter \/ RouterLinkAdd \/ RouterLinkSetUp
    \/ Sysctls \/ AddrList \/ RemoveStale \/ AddGateways \/ LocalRule \/ DropRule \/ Finish
    \/ DeleteAbsent \/ Unmount \/ Remove

Next ==
    \/ \E gateways \in SUBSET Gateways : EnsureVPC(gateways)
    \/ DeleteVPC
    \/ Router
    \/ Fail
    \/ ByHand
    \/ UnmountByHand

Spec == Init /\ [][Next]_vars

----------------------------------------------------------------------------
\* An EnsureVPC that succeeds while nobody interferes leaves exactly the
\* desired router, whatever earlier operations that failed half way, for other
\* subnets, had left: no stale gateway, none missing, both policy rules, the
\* link up and all sysctls (EnsureVPC, vpc_linux.go:37).
EnsuredIsExact ==
    done # Never =>
        /\ mount = "netns"
        /\ space = [router |-> "up", sysctls |-> {"forward", "default", "nxr0"},
                    addresses |-> Ours(done.want), rules |-> Ours({"local", "drop"})]

\* The engine changes nothing but what it made.  Strange addresses and policy
\* rules are refused, never removed ("unmanaged router address",
\* vpc_linux.go:195); and the appliance's own network is never touched,
\* although the namespace may be unmounted between the check of the mount point
\* and the thread's setns ("never reuse a switched thread", netns_linux.go:115).
StrangeKept ==
    [][/\ host' = host
       /\ mount = "netns" /\ mount' = "netns" /\ ~ByHand =>
            /\ Strange \subseteq space'.addresses
            /\ {x \in space.rules : x[2] # "ours"} \subseteq space'.rules]_vars
============================================================================
