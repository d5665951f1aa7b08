# Verification of the Nephos control plane

Nephos is a local appliance with an AWS-like API. The daemon `nephosd` keeps
desired state in SQLite, serves a REST API that changes it, and runs two
reconcilers that bring the kernel (network namespaces, links, addresses) and
Podman (instance containers) to it. This directory holds TLA+ models of that
control plane, TLC configurations that check them on small instances, and TLAPS
proofs of their main safety properties for every size.

## The system

| Part | Source | Modelled by |
|---|---|---|
| Hint queue, retry table, `Run`'s select | `internal/reconcile/controller.go`, `instance.go` | `QueueOps`, `WorkQueue` |
| VPC reconciler and `Sweep` | `internal/reconcile/controller.go`, `network.go`, `internal/store/reconcile.go` | `NetworkControl` |
| Instance reconciler | `internal/reconcile/instance.go`, `internal/store/instance_reconcile.go` | `InstanceControl` |
| Ranges and addresses | `internal/service/validate.go`, `ipam.go` | `Addressing`, `ResourceRequests` |
| Tables, requests, idempotency keys | `internal/store`, `internal/service`, `internal/apiserver` | `ResourceStore`, `ResourceRequests` |
| Reads, pages, the CLI's commands and waits | `internal/service/pagination.go`, `internal/apiserver`, `cmd/nephos` | `ResourceReads`, `Commands` |
| Event log and stream | `internal/store/events.go`, `internal/apiserver/events.go` | `EventStream`, `EventDelivery` |
| Console | `internal/apiserver/console.go`, `internal/compute/podman/exec.go`, `internal/tunnel/console`, `cmd/nephos/console.go` | `Console...` |
| Router namespaces and gateways | `internal/network/topology/vpc_linux.go`, `internal/network/netns` | `VPCRouter`; `NetworkControl` |
| ENI plumbing | `internal/network/topology/eni_linux.go`, `eni_policy_linux.go` | `EniPlumbing`; `InstanceControl` |
| Hook binary and handler, lookup of namespaces | `cmd/nephos-hook`, `internal/hook`, `internal/network/netns/instance_linux.go` | `HookTarget`; `InstanceControl` |
| Podman client | `internal/compute/podman` | `InstanceControl`, `ConsoleExec` (Podman itself is external) |
| Daemon and entrypoint, token, migrations | `cmd/nephosd/main.go`, `images/appliance/entrypoint.sh`, `internal/credentials`, `internal/store/store.go` | `Guest`; both control modules for what a restart leaves |
| `nephos up`, `down`, `status` | `internal/appliance`, `cmd/nephos/lifecycle.go` | `Appliance`, composed with `Guest` |

How they interact: a request commits one transaction and then hints the
reconciler of the resource (`Enqueue`). A reconciler handles one key at a time:
it reads the row, acts on the kernel or on Podman, and writes back what it
observed, provided the row is still the one it read (`ErrStaleSnapshot`
otherwise). While Podman starts a container it runs a hook, which asks the
daemon over a private socket to plumb the container's interface; that handler
runs concurrently with the reconcilers. A ticker offers failed keys again with
backoff, another one triggers a `Sweep` of all rows every 60 seconds. When the
daemon exits the appliance exits; the next start finds the database, no namespace,
and the containers, which are dead although Podman may report some as running.

SQLite is opened with one connection, so every transaction and every single
statement is one atomic step, and everything may happen between two of them.

## Modules

**QueueOps** gives the bounded map operations of `Enqueue`, `retry` and
`enqueueDueRetries` as operators on key sets. Due times are abstracted to a
choice of which entries are due.

**WorkQueue** runs them: request goroutines that commit, insert and signal in
three steps, and the goroutine in `Run`. `dirty` holds the keys with a committed
change no reconcile has read.

**NetworkControl** is the VPC control plane. `row` is SQLite, `ns` and `gws` are
what is mounted under `/run/netns` and which gateways the router link has;
`pending`, `retries`, `wake` and `hints` are the queue; `cur`, `snap`, `kids` and
`failed` are the local variables of `reconcileLocked`. There is one action per
request, per case of `select`, and per step of `Sweep` and `reconcileLocked`.
`ns` tells a mounted namespace from a leftover plain file, because `Ensure`,
`Delete` and `List` all refuse the latter. The history variables `lost` and
`tampered` hold the VPCs whose namespace went with a restart, or by hand, and for
which the engine has not succeeded since.

**InstanceControl** is the instance control plane. `row` and `lease` are SQLite;
`netReady` is what `instanceNetwork.Ready` computes from the rows of the subnet
and VPC; `ctr` is Podman's container of each name, with a call that timed out and
takes effect later in `late`; `eni` is the router's end of each interface (`stale`
when the namespace of the other end is gone). A container that ran when the
appliance stopped may be `lost` afterwards: dead, and running for Podman, whose run
directories `entrypoint.sh` does not refresh. Every call of `reconcileLocked`,
`terminate` and `createdDuringStateChange` is a step, and so are the three steps
of the hook handler. Podman is external; from the way the client uses it the
model assumes one container per name, fresh IDs, operations on a container that
exclude each other (so that a delete waits for a start and its hook), and that a
start fails when the hook fails. The channel `wake` is left out here:
`NoLostWakeup` shows that a hint in the queue is always followed by a pop.

**Addressing** has the arithmetic of prefixes and of the address an instance
gets, over addresses of `Width` bits instead of 32. The properties `RangesDisjoint`
and `LeasesAssignable` of ResourceRequests compare it with what the words mean,
ranges being sets of addresses.

**ResourceStore** holds the tables and the statements on them as operators from
databases to databases. **ResourceRequests** composes them to transactions: the
HTTP handler's checks, replay of an idempotency key, the change, its event and
the stored answer, with clients that retry, attempts that commit after they were
given up, and a clock that expires keys. **ResourceReads** adds get and list, and
**Commands** runs one CLI command over them (resolve a reference, create with
retries, delete, wait), while other clients and the reconcilers change the
tables between its requests and an attempt it has given up may commit late.

**EventDelivery** states what a client of the event stream may rely on; it has
two numbers, of events published and seen. **EventStream** is the log with its
transactions, the handler's batches and cursor, and a reconnecting client, and
implements EventDelivery with `published <- Published, seen <- got`.

**ConsoleWire**, **ConsoleExec**, **ConsoleServer** and **ConsoleClient** are the
parts of a console session, each extending the one below it: the frames, the
Podman exec session, the daemon's bridge with its five goroutines and two
channels, and the CLI with its two. **Console** puts their actions together with
the faults; **ConsoleContract** is what a script that runs `nephos console` may
rely on, and Console implements it. Podman may keep a session whose ID `Exec` never
learned, because the reply to its creation was lost, late or invalid, or whose
removal it refused; `reap` tells these cases.

**Guest** is the inside of the appliance: the entrypoint script with its Podman
guard, and `nephosd` from opening its files to its graceful end, on a volume that
outlives it. `durable` tells whether the token file has reached the disk:
`LoadOrCreate` does not sync it, so a loss of power may empty or remove it, while
SQLite syncs what it commits. **Appliance** extends Guest with Docker, the credential file and
several concurrent `up`, `down` and `status` commands, so that a command waits
for a guest that really starts, writes its token and may die. Somebody else's
container may take the name whenever it is free. The host keeps its power there.

**VPCRouter** and **EniPlumbing** are the network engine, one step for every call
that changes a link, an address, a rule, a sysctl or the nft table, each of which
may fail. The engine's mutex admits one operation at a time
(`call`); what varies is what earlier failures, other namespaces and an operator
have left. EniPlumbing's kernel knows that a pair dies with an end or a
namespace, that a link loses its routes when it goes down, and that an nft script
is atomic. A failed `EnsureENI` that made the pair deletes it, or fails to: the
error of the deferred `LinkDel` is ignored, a `LinkByName` that fails at
line 95 returns before the `defer`, and one that fails at line 114 leaves it no link
to delete (a panic in that `LinkDel` is not modelled).
`left` holds the ENIs this happened to. NetworkControl and InstanceControl use the
result of these operations as one step: `EnsuredIsExact`, `ServedStaysConnected` and
`FailureLeavesNoPair` show what that step may leave behind.

**HookTarget** follows a container start from the OCI state to the pinned
namespace while PIDs are reused.

The **MC** modules hold the constants of the runs that a cfg cannot express, and
put components that share no state side by side in one run (see below).

**QueueProofs**, **WorkQueueProofs**, **NetworkSweepProofs**,
**NetworkReconcileProofs**, **NetworkControlProofs**, **InstanceReconcileProofs**,
**InstanceControlProofs** and **EniPlumbingProofs** hold the proofs. `NetworkSweepProofs` and
`InstanceReconcileProofs` define the inductive invariants and prove the first
steps; the `...ControlProofs` modules end with the theorems.

In each module the definitions directly above an action with a comment of the
form "... that ..." (`RecordIgnoringFailure`, `TerminateAsync`, `ReplayCurrent`, ...) are mutations
of it: plausible bugs under which a property fails. They are part of no
specification.

## Runs

| Run | Instance | Shows |
|---|---|---|
| `queue` | WorkQueue: 2 keys, 2 requests at a time, queue and retry table of 1 | no lost wakeup; a failed key is retried without a resync; a change whose hint was dropped is read after a resync |
| `network` | 1 VPC, 2 subnets with one block, 1 stray, queue and page of 1 | rows and kernel agree, the fatal error on children is unreachable, and once faults stop everything settles |
| `network_startup` | 1 VPC, 1 subnet | **violated**, finding 1 |
| `instance_single` | 1 instance | a failed pass waits for backoff; once faults stop the instance runs, with its link, or is gone, or is `lost` |
| `instance_pair` | 2 instances, 1 address, containers also removed by hand | address and link exclusivity; terminations are final |
| `instance_leak` | 1 instance | **violated**, finding 2 |
| `instance_replaced` | 1 instance, container removed by hand | **violated**, finding 3 |
| `resources` | ResourceRequests under three workloads: retries with one key, a tree of resources, ranges of every size | a key creates once and answers alike; events tell the rows; tables consistent, indexes used once; subnets disjoint; every lease assignable, up to exhaustion |
| `clients` | Commands (3 IDs, pages of 1, lost replies, late attempts) beside EventStream (5 events, batches of 2) | references are found, waits tell the truth, one creation per command, commands end; the stream implements EventDelivery and catches up |
| `console` | 1 chunk per stream, event channel of 1, five sets of faults | implements ConsoleContract; exec reaped before the exit message, nothing left behind that the daemon knows of; when the command ends, so do both sides |
| `appliance` | Guest alone under every fault, on every schema version; 1 terminal with every command; 2 terminals that interfere | readiness is sound, a token on the disk is kept, failures close the container; the credential is whole and the right one, foreign containers untouched except by a command whose own was removed under it, commands end |
| `engine` | EniPlumbing (2 ENIs, 3 namespaces), VPCRouter (2 gateways), HookTarget (2 containers on one PID) | checks before traffic, failures undone or left down, others stay connected, foreign objects kept; success means exactly the desired router; no start without its own plumbing |

Side by side. `clients`, `appliance` and `engine` check several components, and
`resources` and `console` several workloads or fault sets, in one run. A variable
(`part`, `load`, `faults`) is chosen in the initial state and never changes, and
a behaviour takes only the steps of that part; fairness is stated for the steps of
the part. So the reachable states are the union of those of the parts. No
property relates two of them, and they share no state, so interleaving them would
reach no further violation. The components that do share state are composed:
Commands over ResourceReads and the tables, Appliance over Guest, Console
over its four layers, the reconcilers with queue, kernel, Podman and hook.

The five fault sets of `console` are: the instance stops and Podman fails; the
daemon shuts down; the connection is lost; the local terminal and the user
interfere; a client that is not the CLI sends input, an end of input and a second
start frame in any order.

Bounds. A queue and a page of 1 make overflow and paging happen with one or two
keys. Two subnets with the same block reach the reuse of a gateway, and pages of
one row a Sweep that overlaps with a creation. IDs are used once, which bounds
every history: a row has generation 1 and, once deleted, 2. Two instances and one
address reach the reuse of an address; two containers per instance reach the
replacement of one. `MaxCommits` bounds the changes in WorkQueue; `Attempts`,
`TTL`, `MaxClock` and `MaxFailures` the requests of ResourceRequests. Five address
bits leave room for subnets of four sizes, with reserved addresses at both ends,
and for their exhaustion. Two attempts and a key that lives for one tick reach the
replay, the conflict, the expiry and an attempt that commits late. Five events in
batches of two reach full, partial and empty batches. In the console one chunk per
stream and an event channel of one slot (8 in the code) reach every full and empty
channel; a larger channel only hides the waiting. Pages of one row and three IDs
reach a row that vanishes under a page token and one that appears behind it. Two
namespaces of one ENI reach a container that is replaced while the old pair
exists. The proofs remove these bounds for the safety properties they state.

Fairness. Goroutines keep running (weak fairness of the worker's steps and of the
hook). In `select` Go chooses at random among ready cases and a ticker's channel
keeps its tick, so a resync is taken eventually although hints keep arriving
(strong fairness). An appliance that exited is started again by its operator (weak
fairness of `Start`); Docker has no restart policy for it. Podman carries out late
calls and the kernel removes a pair whose namespace is gone. In InstanceControl
the network converges again, which is `EventuallySettled`. The event handler and
transactions go on (weak fairness), and its ticker is served although the
connection is lost again and again (strong fairness of `Read`). In Guest the
script, its guard and the daemon go on, and a part of the daemon that is told to
end does. In Console each goroutine of both programs goes on by itself when it
can; the command, the user and the network do not have to. A CLI command and an
appliance command go on (weak fairness of the whole command); the two-minute
limits of their waits make them end. No fault is fair, and the liveness properties
are conditional on faults stopping.

### Findings

1. `network_startup`: the API serves before the startup Sweep. If `EnsureVPC`
   fails in that Sweep while a request changes the VPC's subnets, the write-back
   is stale, the failure is dropped, and the daemon reports ready with a VPC that
   reads `available` and has no namespace. `docs/ARCHITECTURE.md:491-493`:
   "Individual failures are recorded on those resources."
2. `instance_leak`: a container whose ID was never recorded (lost or late reply
   of Create, or a crash before `RecordRuntimeID`) outlives its instance's
   termination. `internal/store/instance_reconcile.go:87`: "releases its lease
   only after owned runtime and ENI teardown." `LeaseOutlivesInterface` shows what
   remains true: such a container never ran and no link is left. A design for the
   collection of runtime orphans exists and is not implemented.
3. `instance_replaced`: when a recorded container has vanished, each pass
   creates a replacement, is refused its ID, deletes it and enqueues the unchanged
   instance at once. `docs/ARCHITECTURE.md:480`: "`failed` states carry an
   actionable reason and are retried with backoff."

### What the properties leave open

Some properties name an exception, because the code has it and no document claims
otherwise; the model reaches each of them.

- `EventuallyServed`: an instance that ran when the appliance stopped stays `lost`
  for as long as Podman reports it as running. The reconciler's pass ends at
  `instance.go:180`; `docs/tests/M1-slice3-local-verification.md:124` makes no claim
  of a restart of instances, and the design of slice 4 adds what is missing.
- `NothingLeftBehind`: an exec session whose ID was never learned, or whose removal
  Podman refused, stays.
- `TokenKeptByGuest`: a token that was served may be gone after a loss of power
  before it was written back; the next `up` delivers the new one. An empty file
  stops every later start (`token.go:17`, "fail closed"), until somebody removes it.
- `OthersUntouched`: `Start` and `Stop` name the container and do not look at it
  again, so that a command reaches the container of somebody else when its own was
  removed, and the name taken, since it inspected it.
- `CreatesOnce`: a create may say "refused" and an attempt it gave up earlier may
  make the resource afterwards (never two of them).
- `FailureLeavesNoPair`: a pair that could not be taken away stays, with both ends
  down.

Two behaviours of the console are in the model without a run of their own, and
the properties are stated around them. A frame of input that arrives after the
command has ended makes `Stdin().Write` fail, and the `select` of `bridgeConsole`
may take this error instead of the exit event; `nephos console` then exits with 1,
where `docs/ARCHITECTURE.md:425-426` speaks of "preserving output bytes and the
command's exit status". ConsoleContract therefore allows a failure in place of the
status, and never another status. And the only reader of the connection may be
blocked in a write to a command that does not read its stdin, so that nobody
notices that the client is gone; `SessionEnds` therefore starts from the end of the
command.

## Proofs

Checked by TLAPS for every value of the constants that satisfies the named
assumptions (finite sets of IDs, positive limits, constants of their type).

- `WorkQueueProofs!QueueBounded` and `WakeupNotLost`: the queue's bounds and
  `NoLostWakeup`, each inductive together with the type invariant. The bounds rest
  on the lemmas of `QueueProofs` about each map operation.
- `NetworkControlProofs`: `TypeCorrect`, `RowsOutliveKernel`,
  `ConvergedMeansApplied`, `DependenciesKept` and `ChildrenNeverFatal`, all from one
  inductive invariant `Inv` (in `NetworkSweepProofs`). The properties alone are
  not inductive, because they say nothing of a reconcile under way. `Inv` adds:
  `RowShape` (generation, deletion intent and existence determine each other),
  `Snapshot` (the rows that were read are still there, perhaps marked for deletion
  since, and what the engine was not asked to provide is not converged),
  `Applied` (between the engine call and the write-back the kernel has what the
  snapshot asked for, or `failed` is set), and `Listing` (in a Sweep, a VPC with a
  namespace is listed or lies beyond the pages read so far; so no orphan is a VPC's
  namespace).
- `InstanceControlProofs`: `TypeCorrect`, `LeasesOutliveInterfaces`,
  `AddressesExclusive` and `TerminationsFinal`, again from one invariant (in
  `InstanceReconcileProofs`). The argument: a container that was ever started is
  the one its instance's row names (`Bound`), because a start follows
  `RecordRuntimeID` and a recorded ID is never replaced. Hence when terminate's
  `Delete` of the recorded ID returns, no started container of the instance is
  left and none can start again while the reconciler is in terminate; so no hook
  runs that could make a link after `DeleteENI`, and `FinishInstanceTermination`
  finds neither (`Control` carries this from step to step). Links belong to
  rows (`Links`), and two rows never share an address (`Leases`), since
  `nextPrivateIP` returns one no row has. All steps of Podman, the hook and the
  kernel share the shape `Tame`: they start no container, and make a link only for
  one that was started.
- `EniPlumbingProofs`: `CheckedAlways`, `NoHalfMadePair` and `ServedAlways`, for any
  number of ENIs and namespaces and any failures, from the inductive invariant
  `IInv`. The properties speak of links that are up or of an engine at rest;
  `IInv` adds what holds in between: `Progress` ties the position of the operation
  under way to what its pair and the table have by then, `Protected` says that a
  pair with an end up is marked and has its own source in the table, `Complete`
  that a pair of no running operation is either fully configured or one that could
  not be taken away and is down, and `Connected` that an interface reported as done has
  its routes unless the running operation is its own. The argument turns on
  `applyENISourceChecks` rendering the table from the markers of all links: an
  operation on one ENI leaves the sources of the others as they were, because
  their markers are untouched.

`TypeCorrect` (twice), `QueueBounded` and `DependenciesKept` are proved and not
listed in a run: the queue's bounds, the shape of the rows and the order of
dependencies hold for every size, that of the runs included. The same invariant
proves `KernelBackedByRows` and `ConvergedIsApplied` for any number of VPCs, where
a Sweep's pages overlap with creations; the `network` run has one VPC.

Only model-checked: the modules without a proof module named above (the
refinements of `EventDelivery` and `ConsoleContract` among them), the action
properties `ForeignKept`, `StrangeKept`, `TokenKeptByGuest`, `UpDelivers`,
`OthersUntouched` and `RequeuedOnlyWhenChanged`, and everything temporal under
fairness (`CommittedChangeIsRead`, `FailedKeyIsRetried`, `EventuallySettled`,
`EventuallyServed`, `EventuallyReceived`, `SessionEnds`, `GuestFailsClosed`,
`EveryCommandEnds`, `CommandsEnd`), which is out of the prover's reach.
Addressing's operators are compared with their reference definitions for prefixes
of five bits, not proved for 32.

## Not modelled

- Database errors inside the reconcilers, other than a missing row.
- Bearer tokens, Host and Origin checks, routing and encoding of HTTP, which keep
  no state; the generated code (`pkg/client`, `apiserver/generated`, `sqlc`), which
  is modelled through the handlers and statements that use it.
- Flag parsing, tables and JSON printed by the CLI; terminal modes of the console.
- Image pulls and the HTTP encoding of the Podman and Docker clients.
- The random parts of IDs, tokens and keys: they are distinct values.
- Heartbeats of the event stream, and times other than "due", "expired" and "timed
  out".
- The spikes and test fixtures, which the product does not use.

- NetworkControl and InstanceControl in one state space. Each has what it needs of
  the other (`occupied` subnets there, `netReady` here); that a running container
  is not plumbed again after its VPC's namespace was made anew, which
  `docs/ARCHITECTURE.md:509` names as still to be done, needs both.

Four hazards of modelled code are covered by no property and are listed in
`PROJECT.json` with the reason: the two behaviours of the console above, a
console's exec that stays in Podman when the daemon exits or never learned its ID,
and a container that passes for running although its VPC was made anew or the
appliance restarted.
