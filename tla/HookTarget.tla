----------------------------- MODULE HookTarget -----------------------------
(***************************************************************************)
(* From the createRuntime hook to the pinned network namespace: the hook   *)
(* binary (src/cmd/nephos-hook, src/internal/hook) decodes the OCI state   *)
(* and posts runtime ID and PID to the daemon, whose handler proves which  *)
(* container the PID belongs to (src/internal/network/netns/               *)
(* instance_linux.go) and plumbs into that namespace.                      *)
(*                                                                         *)
(* The hook has 10 seconds and the handler 9, the handler may wait for the *)
(* engine's lock in between, and a container whose hook failed is torn     *)
(* down: the PID may be free, and be another process's, at every step of   *)
(* the handler.  Each runtime has one start, its hook and its handler; all *)
(* of them get the same PID in turn.                                       *)
(***************************************************************************)
EXTENDS Naturals

CONSTANTS Runtimes,     \* containers of instances
          Appliance,    \* the appliance: its cgroup, its network and user namespace
          MaxBirths     \* bound on the processes that get the PID

VARIABLES process,    \* the process that has the PID
          births,     \* how many had it
          hook,       \* per runtime: where its hook binary is
          handler     \* per runtime: where the handler of its request is, and what it holds

vars == <<process, births, hook, handler>>

Nobody == [birth |-> 0]

\* What a process of a container is, before and after it entered the
\* namespaces that its runtime made, and any other process of the appliance.
InContainer(r) == [cgroup |-> r, net |-> r, user |-> r, root |-> r]
BetweenNamespaces(r) == [cgroup |-> r, net |-> Appliance, user |-> r, root |-> r]
BeforeNamespaces(r) == [cgroup |-> r, net |-> Appliance, user |-> Appliance, root |-> Appliance]
InAppliance == [cgroup |-> Appliance, net |-> Appliance, user |-> Appliance, root |-> Appliance]

Kinds ==
    {InAppliance} \union
    UNION {{InContainer(r), BetweenNamespaces(r), BeforeNamespaces(r)} : r \in Runtimes}

\* The user namespace that owns a network namespace.
Owner(net) == net

NoHandler == [at |-> "none", dir |-> 0, net |-> Appliance, user |-> Appliance]

Init ==
    /\ process = Nobody
    /\ births = 0
    /\ hook = [r \in Runtimes |-> "none"]
    /\ handler = [r \in Runtimes |-> NoHandler]

Born(kind) ==
    /\ process = Nobody
    /\ births < MaxBirths
    /\ births' = births + 1
    /\ process' = [birth |-> births + 1, is |-> kind]

----------------------------------------------------------------------------
(* The operating system and the runtime.                                   *)

\* crun has made the container's process and calls the hook.
CreateRuntime(r) ==
    /\ hook[r] = "none"
    /\ Born(InContainer(r))
    /\ hook' = [hook EXCEPT ![r] = "decode"]
    /\ UNCHANGED handler

OtherProcess(kind) ==
    /\ Born(kind)
    /\ UNCHANGED <<hook, handler>>

ProcessExits ==
    /\ process # Nobody
    /\ process' = Nobody
    /\ UNCHANGED <<births, hook, handler>>

----------------------------------------------------------------------------
(* nephos-hook.                                                            *)

HookFails(r) ==
    /\ hook[r] \in {"decode", "posted"}
    /\ hook' = [hook EXCEPT ![r] = "failed"]
    /\ UNCHANGED <<process, births, handler>>

\* One bounded OCI state, a valid request, a POST to the private socket.
DecodeState(r) ==
    /\ hook[r] = "decode"
    /\ hook' = [hook EXCEPT ![r] = "posted"]
    /\ handler' = [handler EXCEPT ![r].at = "received"]
    /\ UNCHANGED <<process, births>>

\* Only 204 No Content is success.
Plumb(r) ==
    /\ hook[r] = "posted"
    /\ handler[r].at \in {"answered", "refused"}
    /\ hook' = [hook EXCEPT ![r] = IF handler[r].at = "answered" THEN "ok" ELSE "failed"]
    /\ UNCHANGED <<process, births, handler>>

----------------------------------------------------------------------------
(* The handler of POST /plumb.                                             *)

Points == {"received", "identified", "process", "net", "cgroup", "mapping", "user",
           "pinned", "plumbed"}

\* A check fails, a file cannot be read, or the 9 seconds are over.
Refuse(r) ==
    /\ handler[r].at \in Points
    /\ handler' = [handler EXCEPT ![r] = [NoHandler EXCEPT !.at = "refused"]]
    /\ UNCHANGED <<process, births, hook>>

Handle(r, from, to) ==
    /\ handler[r].at = from
    /\ handler' = [handler EXCEPT ![r].at = to]
    /\ UNCHANGED <<process, births, hook>>

\* A version that opens /proc/<pid> for every read.
ReadableByPID(r) == process # Nobody

\* The process directory that was opened still has its process.
Readable(r) == process # Nobody /\ process.birth = handler[r].dir

\* The row names this runtime and its network is converged.
Identify(r) == Handle(r, "received", "identified")

OpenProcess(r) ==
    /\ handler[r].at = "identified"
    /\ process # Nobody
    /\ handler' = [handler EXCEPT ![r].at = "process", ![r].dir = process.birth]
    /\ UNCHANGED <<process, births, hook>>

\* ns/net stays what it is from here on, whatever becomes of the process.
OpenNet(r) ==
    /\ handler[r].at = "process"
    /\ Readable(r)
    /\ process.is.net # Appliance
    /\ handler' = [handler EXCEPT ![r].at = "net", ![r].net = process.is.net]
    /\ UNCHANGED <<process, births, hook>>

RuntimeCgroupMatches(r) ==
    /\ Readable(r)
    /\ process.is.cgroup = r
    /\ Handle(r, "net", "cgroup")

ValidateRootMapping(r) ==
    /\ Readable(r)
    /\ process.is.root # Appliance
    /\ Handle(r, "cgroup", "mapping")

OpenUser(r) ==
    /\ handler[r].at = "mapping"
    /\ Readable(r)
    /\ process.is.user # Appliance
    /\ handler' = [handler EXCEPT ![r].at = "user", ![r].user = process.is.user]
    /\ UNCHANGED <<process, births, hook>>

OpenInstance(r) ==
    /\ Owner(handler[r].net) = handler[r].user
    /\ Handle(r, "user", "pinned")

\* WithFD and WithInstanceHandle: EnsureENI works in the pinned namespace.
EnsureENI(r) == Handle(r, "pinned", "plumbed")

\* The second look at the row, and 204.
Answer(r) == Handle(r, "plumbed", "answered")

Handler(r) ==
    \/ Identify(r) \/ OpenProcess(r) \/ OpenNet(r) \/ RuntimeCgroupMatches(r)
    \/ ValidateRootMapping(r) \/ OpenUser(r) \/ OpenInstance(r) \/ EnsureENI(r) \/ Answer(r)
    \/ Refuse(r)

Next ==
    \/ \E k \in Kinds : OtherProcess(k)
    \/ ProcessExits
    \/ \E r \in Runtimes :
          CreateRuntime(r) \/ HookFails(r) \/ DecodeState(r) \/ Plumb(r) \/ Handler(r)

Spec == Init /\ [][Next]_vars

----------------------------------------------------------------------------
\* The namespace that a request pins and plumbs is that of the container it
\* names, although the container's process may exit and its PID go to another
\* process, also of another container, between any two reads of /proc
\* ("Opening the process directory once prevents PID reuse between proc
\* reads", instance_linux.go:27); and a container goes on only after that: the
\* hook exits with 0 only on the handler's 204, never on account of another
\* container's request.
StartedIsPlumbed ==
    \A r \in Runtimes :
        /\ handler[r].at \in {"pinned", "plumbed", "answered"} => handler[r].net = r
        /\ hook[r] = "ok" => handler[r].at = "answered"
============================================================================
