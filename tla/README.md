# A TLA+ model of open-simulator

open-simulator answers "what would happen if these applications were deployed on
this cluster?". It fills a fake API server with the nodes and pods of the cluster,
runs a real kube-scheduler against it, feeds it the pods of the applications one
at a time, and reports where each one went. This directory holds TLA+
specifications of that program, the configurations that check them with TLC, and
proofs that TLAPS checks.

## 1. Inventory

| Component | State | Operations | What must be right |
|---|---|---|---|
| **Simulate / Simulator** `pkg/simulator/core.go`, `simulator.go` | position in the workload, `sim.status.stopReason`, the unbuffered channel `simulatorStop`, the result | `NewSimulator`, `RunCluster`, `ScheduleApp`, `schedulePods`, `update`, `getClusterNodeStatus`, `Close` | a token is that of the pod waited for; a failure is charged to the pod that failed; each pod is on a node or in the list; every wait ends |
| **Simon plugin** `plugin/simon.go` | none of its own | `Score`, `NormalizeScore`, `BindPodToNode` | a bound pod exists and is bound once |
| **Open-Local plugin** `plugin/open-local.go` | an annotation of the node object | `Filter`, `Score`, `Bind` | bookings are neither lost nor left over |
| **GPU share plugin** `plugin/open-gpu-share.go`, `pkg/type/open-gpu-share/cache` | devices per node, pods per device, pods between Reserve and Bind | `Filter`, `Reserve`, `Unreserve`, `Bind`, `AllocateGpuId` | no device holds more than its memory; the annotation agrees with the cache |
| **Embedded kube-scheduler** (vendored) | activeQ, backoffQ, unschedulableQ; its cache of nodes and assumed pods | `scheduleOne`, binding goroutines, event handlers, flush timers | counts every bound pod; nothing runs for a pod that is gone |
| **Fake API server and informers** (vendored) | objects; a bounded channel per watch; the indexer; an unbounded buffer per listener | create, update, patch, delete, list, watch | every change reaches every listener, in order |
| **Workload expansion** `simulator/utils.go`, `pkg/utils` | the result of a call, its two mutexes and its WaitGroup; the manifests, which are written on | manifests to pods, on slices of goroutines; pods of DaemonSets, one per node | every manifest gives its pods, once; an invalid one gives an error; a later call is not changed by an earlier one |
| **Apply** `pkg/apply` | selected applications, number of new nodes, the last choice of the user, the last result | prepare, simulate, look at limits, show, ask, add nodes | every round simulates the same manifests on the nodes asked for; success is said of the nodes asked for, within the limits; a round ends or asks |
| **Server** `pkg/server` | two try-locks, informers of a live cluster | deploy, scale | a lock is held by a request under way only; no pod is simulated twice, and none that keeps still is left out; what is scaled is simulated in its new form only |
| **Algorithms** `pkg/algo`, **charts** `pkg/chart`, **commands** `cmd` | none | sorting, rendering, flags | input and output only |

How they interact. The goroutine that called `Simulate` writes pods to the fake API
server. The reflector of the pod informer takes the watch events off a bounded
channel, updates the indexer and hands each event to three listeners: the
simulator's own handler, the scheduler's pending-pod handler and its assigned-pod
handler. Each listener is a goroutine with an unbounded buffer, so events of one
listener stay in order and events of two listeners do not. The pending-pod handler
fills activeQ; `scheduleOne` pops a pod, picks a node, counts the pod in the cache
(assume) and leaves the rest to a binding goroutine, which calls the Bind plugins.
Whichever way it ends, the pod object is written: with a node, or with the condition
`Unschedulable` or `SchedulerError`. That write comes back to the simulator's
handler, whose `update` notes the reason and sends on `simulatorStop`. The caller,
which has been waiting there, goes on. Everything depends on this token being that
of the pod the caller has just created.

Around `Simulate` stand two callers. `Apply` parses manifests once and calls it in a
loop: each round copies new nodes off one object, expands all manifests again (plain
workloads on goroutines, DaemonSets node by node) and shows or judges the result. The
server calls it from HTTP handlers: each puts its input together from the caches of
informers that follow a live cluster, list after list, behind a try-lock.

Hard behaviours: the order of the events of different listeners; a failed pod that is
deleted while the scheduler still has it in a queue; retries by timers a second or a
minute later; storage read from a snapshot and booked from a fresh read; Close, which
has to wake a scheduler that it has just cancelled; the bounded watch channel; two lists
of pods read while the cluster moves on; manifests and node templates that every round
of the loop writes on; goroutines that append to one slice.
`PROJECT.json` lists each at its line under `hazards`.

## 2. Modules

| Module | Content |
|---|---|
| `Simulator` | the whole of one `Simulate`: caller, fake API server, informers, scheduler loop, queues, cache, binding goroutines, `update`, `Close` |
| `Simulation` | what `Simulate` promises: a sequential machine that decides the pods one after the other |
| `SimulatorInvariant` | the inductive invariants, in named parts: `Baton` for the hand-over of tokens, `Life` for each pod by itself, and those behind the cache, the report and the storage annotation |
| `MCSimulator` | instances for TLC: three pods, the test pod, two nodes |
| `SimulatorProofs` | type correctness of `Simulator`, `Baton`, and what follows from it about tokens, reasons, placements and the channel |
| `PlacementProofs` | `Life`; capacity, cache, report and storage; `Simulator` implements `Simulation` |
| `Sums` | lemmas about sums over finite sets, as `MapThenSumSet` computes them |
| `GpuShare` | the GPU share plugin and its cache, next to open-local, which writes the same node objects |
| `MCGpuShare` | instances for TLC: five pods, two nodes with three devices |
| `GpuProofs` | the cache of the GPU plugin counts what pods hold |
| `DeviceProofs` | what `AllocateGpuId` finds, what a device holds, what the node objects say |
| `Expand` | the goroutines of `GetValidPodExcludeDaemonSet`, their mutex and WaitGroup |
| `Apply` | the loop of `apply.go` on top of `Expand`: prompts, new nodes, DaemonSets, a simulation, the limits |
| `MCApply` | an instance for TLC: four applications, a node and up to two new ones, a pod whose node is gone |
| `ExpandProofs` | every manifest expanded once, for lists and slices of any size |
| `ApplyProofs` | `Apply` drives `Expand` as it is meant to be; every round is like the first; what success means |
| `Server` | the two handlers of the REST server over the caches of informers |
| `MCServer` | an instance for TLC: a rollout, a StatefulSet's pod that is replaced, a DaemonSet; three requests |
| `ServerProofs` | locks, and what a request simulates, for any cluster and any requests |

`Simulator` implements `Simulation` (`Sequential == INSTANCE Simulation WITH ...`, checked
as `ImplementsSequential`). `GpuShare` stands beside `Simulator`, not on top of it: it
keeps of the caller, the informers and the queues only what `Simulator` shows them to
do together, one token per pod update and one new pod per token (`OneAtATime`), and
looks into the plugin calls that `Simulator` takes for granted. `Apply` extends `Expand`
and steps through it in every round. Of a simulation it keeps the results that `Simulate` may
return (`Outcomes`), with what `Simulator` shows of them: a pod that names its node is on
it, unchecked, or in no list if the node is gone; the others are placed where the nodes
have room, or reported; and where a binding may fail, any pod may be in no list
(`empty_report` below). It and `Server` also keep the ways `Simulate` fails: an error, or no
return at all (`foreign_wait`, `error_return`, `close_race`).

### State and code

`Simulator`:

| Variables | Code |
|---|---|
| `pc`, `pos`, `created` | where the caller is: `Simulate`, `syncClusterResourceList`, the loop of `schedulePods`, `Close` |
| `stopReason` | `sim.status.stopReason`; of the text only the pod it names is kept |
| `failedPods`, `outcome`, `nodeStatus` | the result |
| `store`, `nodeDisk` | the objects in the tracker: a pod's node and the reason of its condition; the storage annotation of a node |
| `watching`, `podWatch`, `lister` | the pod watch, its channel, the indexer |
| `simQ`, `schedQ`, `assignedQ`, `nodeQ` | what is on its way to `update`, to the pending-pod, assigned-pod and node handlers |
| `spc`, `scur`, `cancelled` | the goroutine of `Scheduler.Run`, the pod of `scheduleOne`, its context |
| `seen`, `seenDisk`, `cache` | the nodes the scheduler knows, with their annotation; the node each pod is counted on |
| `queued`, `moved`, `retries` | the sub-queue of each pod; whether a move request came after the last Pop |
| `binding` | the binding goroutine of each pod |
| `handler`, `closed`, `panicked` | `update` blocked in its send; the channel; the end of the process |

`GpuShare`:

| Variables | Code |
|---|---|
| `pos`, `awaited`, `tokens` | the loop of `schedulePods`, and the reasons that come back to it in order |
| `store`, `nodeObj` | the pods, with their `gpu-index`; the node objects, with the GPU and the storage annotation |
| `stage`, `target`, `retries` | where the scheduling attempt of each pod is, and the node it was given |
| `known` | the condition in the scheduler's copy of each pod, which Reserve copies and Bind writes |
| `read` | the node object that Reserve, Unreserve or open-local's Bind has read and will write back |
| `podMap`, `knownPods` | `GpuNodeInfo.devs[i].podMap` of each node, `SchedulerCache.knownPods` |
| `copies`, `lock` | `podToUpdateCacheMap`, the mutex of the plugin |

`Expand`:

| Variables | Code |
|---|---|
| `resources`, `caller` | the argument of the call, and where its caller is |
| `stage`, `wg`, `mu` | the goroutines, the WaitGroup, the mutex on `pods` (the one on `rstErr` guards a single assignment) |
| `seen`, `pods`, `rstErr` | `pods` as `append` reads it, as it is, and the error that is returned |

`Apply`:

| Variables | Code |
|---|---|
| `pc`, `answer` | where `Run` is and how it ended |
| `selected`, `newNodeNum`, `choose`, `result` | the variables of `Run` of those names (`selectedResourceList` by position) |
| `part`, `todo`, `input` | how far one `Simulate` has expanded the cluster (0) and the applications; the DaemonSets and nodes still to visit; the pods so far |
| `round`, `nodes` | whose random names the new nodes have; the nodes of the round |
| `pinned` | the node written into the affinity of each DaemonSet's own template |

`Server`:

| Variables | Code |
|---|---|
| `podCache`, `workloadCache` | what the informers' listers return: the phase of each pod; ReplicaSets, StatefulSets and DaemonSets |
| `lock` | `deployLock`, `scaleLock` |
| `pc`, `code` | where each handler is, and the status it answered |
| `local` | `ClusterResource` and `pendingPods` of the handler, `selectedObjs` of `removePodsOfApp` and the StatefulSets it has still to get, and two history fields for the properties |

Every action names the function it stands for, and `PROJECT.json` gives its lines.
Steps end where the code passes a lock, a channel or the API server, so that whatever
another goroutine can do in between, the model lets it do. `Schedule` (snapshot,
filter, score) and `assume` are one step: the loop is the only goroutine that adds
assumed pods, and a later snapshot would only make it better informed. `removePodsOfApp`
asks the informers several times, and they move on in between: one step lists the
ReplicaSets, one gets each StatefulSet, and the last goes through the pods.

What is abstracted: order within activeQ (any pod may be popped); scores (any feasible
node may be taken); the text of conditions (a patch with an equal reason may or may
not change the object); one number for CPU, memory and the rest, one for storage. In
`GpuShare`: whether open-local accepts a pod (it may refuse any); the names of devices
and pods in the annotation (what each device holds is kept). In `Expand`: of a manifest
its number of pods and whether `MakeValidPod` accepts them; a pod is named by its worker,
the position of its manifest and an ordinal. In `Apply`: which pods the
scheduler places (any that the nodes can hold together) and what open-local books (any
share of `VGShares`); which manifests have storage or devices, so that a binding may fail,
is the constant `MayFail`, and if one of them is simulated the result may miss any pod, for
a retry shifts the tokens of the others; taints and selectors of a DaemonSet are the set
of nodes it suits. In `Server`: nodes, and the kinds
of objects that are copied whole.

## 3. Runs

Proofs apart, each question is asked of TLC once, on the smallest instance where the
interesting cases happen. The runs of `Simulator` use three pods, the test pod that
`Close` creates, and two nodes with room for two units and for one. Three pods are what it
takes for one to be failed and deleted while a second is on its way and a third still to
come; two nodes are what it takes for scoring to happen and for one to be known before the
other.

| Run | What it asks | Properties |
|---|---|---|
| `core` | a pod that names its node, CPU requests that do not all fit, a late watch, failing applications, a node written before the watch opens; watch channels of size 2 | `TypeOK`, `OneAtATime`, `RightBlame`, `Conserved`, `ReportIsFinal`, `NoOvercommit`, `CacheExact`, `NoPanic`, `PlacementFinal`, `Baton`, `ImplementsSequential` |
| `storage` | storage requests, one too many, so that bindings fail; a name given twice, applications that fail to expand; weak fairness | `DiskAccounted`, `RightBlame`, `CacheExact`, `WaitEnds`, `CloseReturns` |
| `retry` | one pod comes back from a timer, while bindings fail | `NoOvercommit`, `Life`, `FailedStayGone` |
| `gpu` | a pod of one device, one of four pieces, one that asks for a device by name, one that runs already, one that wants storage only; bindings fail and one pod comes back | `TypeOK`, `DeviceFits`, `CacheCounts`, `NodeObjectKept`, `ReserveFinds`, `AllocationExact` |
| `server` | a Deployment in the middle of a rollout, a StatefulSet's pod replaced under its name, a DaemonSet; one request that deploys, one that scales all three, one that scales what is not there; `Simulate` may not return | `TypeOK`, `LockMatchesFlight`, `EachPodOnce`, `ScaledAnew` |
| `apply` | slices of two pods, with a rest of one and of none; an application that may not fit, one whose binding may fail, one whose last pod is invalid, one whose DaemonSet is; a pod of the cluster on its node and one whose node is gone; a user who ticks any of them, types -1, 1 or 2 nodes, looks, leaves or never answers; a limit of 60% | `ApplyTypeOK`, `ExpandedOnce`, `RoundsAlike`, `SuccessHolds`, `EndsOrAsks` |

`core` also answers the question left in `core.go` ("must understand why channel is
full"): a deletion, and the creation of the next pod, are what the watch holds when the
reflector is slow, and each pod that names its node adds one. The pod of `core` that
names its node is the first, so no deletion precedes it and two are still enough; with
a channel of one `NoPanic` fails, and a row of pods that name their node fills any
channel as fast as the caller writes. Nodes have a watch of their own, and
`syncClusterResourceList` writes them in a row too: a cluster of more than a thousand nodes
may fill it. Section 4 proves that two, and the number of nodes, are enough when no pod
names its node or asks for storage (a booking is a write to a node as well).

In `server`, `EachPodOnce` and `ScaledAnew` are about pods and workloads that keep still
or were known all along: what changes between two lists is counted as it is seen, and
the history fields `moved` and `lasting` say which those are. `LockMatchesFlight` includes
the request whose `Simulate` never returns: it keeps its lock and every later one is
refused.

In `apply`, a node has three units, one of them used by the pod of the cluster, and the
applications ask for four and for one: at 60% the first needs two new nodes, the second
one, both together are over the limit with any number typed, and with no new node pods
are left over. `SuccessHolds` allows one percent, for the float that is
cut to an integer.

In `gpu`, devices are large enough for one pod and a piece, so that the tightest fit, the
packing of several pieces on one device and its spill to the next all happen, and five
pods do not all fit. `DeviceFits` and `CacheCounts` compare the cache with what the pods
themselves say they hold. `DeviceFits` spares a device that a pod came with by name: such
a pod is not checked when it is scheduled, and not even counted when it runs already,
because `BuildCacheFromPodList` has no caller. `NodeObjectKept` is about the time before
a timer brings a pod back; after that, Reserve of the returning pod and open-local's
Bind of another one overlap, and the later write undoes the earlier one. Of the storage
pods it leaves out those that name their node, which no plugin sees.

The other runs find what the code does against what its comments and documents say:

| Run | Property | What happens |
|---|---|---|
| `foreign_wait` | `WaitEnds` | a pod with another `schedulerName` is waited for, and no handler sends a token for it |
| `error_return` | `ErrorReturns` | an error before `RunCluster` runs into the deferred `Close`, which waits for a scheduler that was never started |
| `close_race` | `CloseEnds` | the scheduler, between two pods, sees the cancellation and stops before the test pod arrives |
| `empty_report` | `EmptyMeansPlaced` | a binding fails with `SchedulerError`, which `update` does not take for a failure: the pod is neither placed nor reported |
| `node_lag` | `ReportedUnfit` | a pod is tried before the scheduler has heard of the nodes and is reported although it fits |
| `apply_limits` | `LimitsAdjust` | all pods fit and a limit is exceeded: the loop prints the reason and simulates the same cluster again, for ever; the user is not asked and no node is added |

`WaitEnds` also fails when the watch of the pod informer opens after the first pod was
created (`LateWatch`): the fake API server replays nothing. `storage` leaves that out
(`LateWatch = FALSE`), and all its pods are those of the default scheduler.

Bounds. `MaxRetries` bounds the pods that leave a queue by a timer: 0 where the run is
about what happens within the first second (backoff starts at one second, unschedulableQ
is flushed every thirty), 1 in `retry` and `gpu`, where one late pod is what it takes to
shift all tokens by one. `Settled` (in `GpuShare`, a guard of `Retry`) says that a timer
of a second is slower than the goroutines that deal with the events of the last attempt.
`ChanSize` stands for `watch.DefaultChanSize`: 2 where nothing piles up, 9 where retries
pile up events of pods and bookings events of nodes. The queues of the listeners, which
the code leaves unbounded, need no bound: the workload is finite. `Changing` bounds the
workloads that come and go during a run of `server` (the new ReplicaSet of the rollout),
and a pod there only grows older, so the cluster comes to rest. `Numbers` bounds what a
user may type; `RoutinePodNum` is 2 for 100. `round` is the parity of the round: nodes of
the last round and of this one differ, and none older matters.

Fairness. Each goroutine gets weak fairness: the caller, the reflector, each listener,
`update` (whose send is matched by a receive of the caller), the scheduler's loop and
each binding goroutine. The Go scheduler is preemptive and each of these steps, once
enabled, stays enabled until taken: the buffers are unbounded and the channel has a
single sender. The timers (`Retry`) have no fairness: a simulation may well be over
before they fire. `Apply` has weak fairness of `Run`, everything the program does by itself: it
runs until it prompts or ends. `User` has none, for a user may never answer. Deadlock is
not checked: `Simulate` and `Run` return, requests are answered, and the model stops.

## 4. Proofs

TLAPS proves, for every workload, every set of nodes, every request and every channel
size:

| Theorem | Property | Assumes, besides `SimulatorAssumptions` |
|---|---|---|
| `SimulatorProofs!TypeCorrect` | `TypeOK` | nothing |
| `SimulatorProofs!BatonHeld` | `Baton` | `MaxRetries = 0` |
| `SimulatorProofs!OnlyTheAwaited` | `OneAtATime` | `MaxRetries = 0` |
| `SimulatorProofs!OwnReason` | `RightBlame` | `MaxRetries = 0` |
| `SimulatorProofs!PlacedStays` | `PlacementFinal` | `MaxRetries = 0` |
| `SimulatorProofs!ReportStaysTrue` | `ReportIsFinal` | `MaxRetries = 0` |
| `SimulatorProofs!TwoAreEnough` | `NoPanic` | `MaxRetries = 0`, `NoStorage`, no pod names its node, `ChanSize >= 2`, `ChanSize` at least the number of nodes |
| `PlacementProofs!LifeHeld` | `Life` | `DistinctNames`; for any `MaxRetries` |
| `PlacementProofs!CapacityKept` | `NoOvercommit` | `DistinctNames`, `NamedRequestNothing`; for any `MaxRetries` |
| `PlacementProofs!FailedNeverReturn` | `FailedStayGone` | `DistinctNames`; for any `MaxRetries` |
| `PlacementProofs!CacheFollows` | `CacheExact` | `MaxRetries = 0` |
| `PlacementProofs!EachPodOnce` | `Conserved` | `MaxRetries = 0`, `DistinctNames`, `NoStorage` |
| `PlacementProofs!StorageAccounted` | `DiskAccounted` | `MaxRetries = 0`, `NamedStoreNothing` |
| `PlacementProofs!SimulatesSequentially` | `ImplementsSequential` | `MaxRetries = 0`, `DistinctNames`, `NoStorage`, `NamedRequestNothing` |
| `GpuProofs!CacheIsExact` | `CacheCounts` | nothing; for any `MaxRetries` |
| `DeviceProofs!GpuTyped` | `TypeOK` | nothing; for any `MaxRetries` |
| `DeviceProofs!AllocatesExactly` | `AllocationExact` | nothing; for any `MaxRetries` |
| `DeviceProofs!ReserveKeepsFinding` | `ReserveFinds` | nothing; for any `MaxRetries` |
| `DeviceProofs!DevicesHoldTheirLoad` | `DeviceFits` | nothing; for any `MaxRetries` |
| `DeviceProofs!NodeObjectsKept` | `NodeObjectKept` | nothing (the property itself ends with the first retry) |
| `ServerProofs!TypeCorrect` | `TypeOK` | nothing |
| `ServerProofs!LocksMatch` | `LockMatchesFlight` | nothing |
| `ServerProofs!PodsSimulatedOnce` | `EachPodOnce` | `NamesAreUnique` |
| `ServerProofs!ScalingIsAnew` | `ScaledAnew` | nothing |
| `ExpandProofs!ExpandTypeCorrect` | `ExpandTypeOK` | nothing |
| `ExpandProofs!ExpandsOnce` | `ExpandedOnce` | nothing |
| `ApplyProofs!ApplyExpands` | (every behaviour of `Apply` is one of `Expand`) | nothing |
| `ApplyProofs!ApplyExpandsOnce` | `ExpandedOnce` | nothing |
| `ApplyProofs!EveryRoundAlike` | `RoundsAlike` | nothing |
| `ApplyProofs!SuccessIsTrue` | `SuccessHolds` | nothing |
| `ApplyProofs!ApplyTypeCorrect` | `ApplyTypeOK` | nothing |

(The last column leaves out the assumptions each module states on its own constants.)
`MaxRetries = 0` is the first second of a simulation. It cannot be dropped: a pod whose
binding failed is retried during the wait for another pod, which takes its token and
its reason, and `RightBlame` fails; with GPUs, that other pod may be bound by then, and is
deleted while the GPU cache keeps its devices. `CacheExact` and
`DiskAccounted` fail too: the caller, with the token of one pod in hand, takes another off
whose binding is under way, so that what was booked and counted for it is not on a node.

`DistinctNames` says that no name is given twice to `schedulePods`: a pod that failed and
was deleted would be created again under the name that the scheduler still has in a queue,
and have two attempts at a time. `NamedRequestNothing` and `NamedStoreNothing` are about
pods that come with a node, of the cluster or of an application: the scheduler does not
check that they fit, so a cluster that is overcommitted from the start stays so; they may
be any pods that request nothing. `NoStorage` is what `empty_report` shows: with storage a
binding may fail, and the pod is then neither placed nor reported, so `Conserved` and the
refinement do not hold. `SuccessIsTrue` needs no such assumption because `SuccessHolds`
has the case in it: where a binding of the round can fail, or a pod names a node that is
gone, it promises the nodes and the limits and not that the pod is placed. In both cases
the list of unscheduled pods may be empty and `Run` prints "Simulation success!" with a
pod on no node. `NamesAreUnique` says that a kind and a name tell a workload, and a name a
Deployment: an owner reference has no namespace, and without it scaling one application
drops the pods of its namesake.

The argument for the tokens. None of the properties is inductive: `RightBlame` says
nothing of where a reason comes from, `OneAtATime` nothing of the events still on their
way. `Baton` (`SimulatorInvariant`) says what they rest on:

- `Exclusive`, `HolderOwed`: of the seven places a hand-over passes (watch channel,
  pending-pod buffer, activeQ, `scheduleOne`, binding goroutine, listener buffer, blocked
  send) only one holds a pod, and it is the pod the caller waits for. So when a token is
  received there is no other, and the next creation starts from empty places.
- `WatchShape`, `Unwatched`, `DistinctCreations`, `ListerBehind`: what the watch channel
  may look like. A failed pod's deletion can still be there when the next pod is created,
  and pods that name their node may be in between; without these the reflector's step
  could not tell which handler an event goes to.
- `FreshInScheduler`, `UpdatesCurrent`: what the scheduler and `update` work on is the
  object as it is in the API server. This makes the condition `update` reads the one
  that was just written.
- `OnlyPendingFail`, `ReasonOfOwed`: the reason in `sim.status` is that of the pod
  waited for, and a pod with a reason has no node; `RightBlame` and `PlacementFinal` need
  them.
- `CallerState`, `ShortWatch`: the program position decides who is owed, and at most two
  events are in the watch.

The proof first shows how little most steps touch: `BatonFrame` for those that leave
the hand-over alone, `BatonQuiet` for the caller's steps before anything is created,
`BatonCreation` for the two creations, `WriteBack` for the three writes that end an
attempt (bound, unschedulable, binding error), and then one lemma per action that passes
the baton on. `BatonStep` joins them. From there: only the pod created,
received or owed is ever written (`OneWriter`), from which the action properties follow,
and the watch has room at every write (`WatchRoom`).

The argument for placements (`PlacementProofs`). With retries there is no baton, and what
is left is about each pod by itself. `Life` follows a pod from its creation to its removal
from the scheduler's cache: it is created once (`CreatedOnce`); it is in activeQ, in
`scheduleOne` or in a binding goroutine, in one of them at a time (`OneAttempt`); what is
attempted has no node (`AttemptUnassigned`); events of one pod arrive in order
(`EventOrder`) and its removal from the cache last (`RemovedLast`); and from `assume` on
the cache counts it on its node until its binding fails or it is deleted (`Counted`). It
is proved action by action for one pod, most actions being a frame for all pods but one.
`NoOvercommit` follows: what is on a node is counted (`Counted`), and what is counted fits
(`CacheFits`), because `assume` adds no more than the filter saw room for and every other
step only takes pods out of the sum. Without `Life` nothing keeps `assume` from counting
anew a pod that is already bound elsewhere.

`FailedStayGone` needs of `Life` only that a deleted pod has no creation ahead of it.
`CacheExact` has the other direction, that the cache counts nothing beyond: `PlacementKnown`
says that watch, indexer and the assigned-pod buffer agree with the API server on every node,
which `Baton` makes inductive. `DiskAccounted` needs `Booked`, that nobody
writes the annotation between the read and the write of a Bind, since only one pod is
ever in a binding goroutine.

The argument for the report and the refinement. `Judged` says why a pod the caller is
done with is decided: without storage no binding fails (`NoBindError`), so every event on its way
to `update` tells of a node or of `Unschedulable` (`TellingUpdates`), and the token that
the caller collects comes with one or the other (`AnsweredWait`). `AllDecided` carries that
over the workload. Under the mapping (a pod is decided when its token is collected, or when it is
created with a node) only `Collect` and the end of `Simulate` are steps of `Simulation`;
all other steps leave the mapped state alone, `CallerFrame` and `PlacementFinal` showing that no
decided pod moves. That the step of `Collect` finds room on the node is `CacheFits`.

The argument for the expansion. `ExpandProofs!Inv`: the WaitGroup counts the goroutines
that have not ended (`Counted`), what a goroutine has read of the result is current
while it holds the mutex (`Exclusive`), a goroutine that ended has handed over its pods or
left an error (`HandedOver`), and nothing else is in the result (`NothingElse`). So when
`Wait` is over, the result is the union of what the goroutines made; that this is each
manifest once is arithmetic on slices (`SomeWorker`, `OneWorker`).

The argument for the loop. Each step of `Apply` is a step of `Expand` or leaves it alone,
so `Inv` holds in it too. `RoundInv` adds what a round has put together so far: all pods
of the parts before, those of this part's plain workloads, and those of the DaemonSets
and nodes already visited (`SoFar`), on the nodes of this round (`RoundNodes`). It holds
whatever is in `pinned`, since the template's node is replaced each time: that is what
frees a round from the rounds before it.

`SuccessHolds` says nothing of the states before the verdict. `ResultInv` does: from the
simulation until new nodes are asked for, also while the result is only shown again, the
result is that of the nodes and pods of this round, and an empty list means that all pods
are placed whose binding cannot fail and whose node is there (`Kept`); and from the verdict
on, what is used is `Within` the limits, which is arithmetic on the quotient that is cut to
an integer (`ShareWithin`). That these sums are numbers at all takes `Sums`: the pods of a
round are finitely many.

The argument for the GPU cache. `CacheCounts` does not say why an entry that is no longer
held must be a leftover of a retry. `GpuProofs!CacheInv` does: the scheduler works only on
pods that were created without a node and have none (`Unplaced`), so a pod holds nothing
when Reserve gives it devices and, after Reserve, nothing but its copy; the entries of
each device are those of its holders and of pods bound and then deleted (`Counted`); and
before the first retry a token is that of the pod waited for, which is not bound if the
reason is `Unschedulable` (`Flow`), so there the deletion frees what was never given.
Unreserve finds exactly the entries Reserve made, since the copy it goes by is of the
same attempt. How many devices there are, what they hold and which are chosen is not
used there.

`DeviceProofs` adds that. `AllocateGpuId` is a loop with two pointers; `Packed` is its
rounds, a function on the naturals, and `Packs` its loop invariant: the devices passed are
full, the list has as many of each as fit, and after as many rounds as there are devices
and pieces the loop has stopped. (Where the last round is needed, the least counterexample
is taken: a rule of induction has an operator for a parameter.) That gives
`AllocationFinds`, so `AllocationExact`, and the types of the lists (`TypeInv`), which
also says that the mutex is held from the read of a node to its write. `ReserveFinds` is
inductive with `LoopOne` (the scheduler's loop has one pod at a time) once room is seen to
grow only: between Filter and Reserve other pods can only be taken off (`RoomGrows`,
`StillFinds`). `DeviceFits` counts what pods say they hold, the allocation what the cache
says; `FitInv` says it of the cache: the pods entered on a device, those with named
devices left out, never sum up to more than its memory, and a pod that comes with named
devices keeps them. For `NodeObjectKept`, `NodeInv` says what the others have to leave
alone: what a plugin has read is still what is stored when it writes (one pod at a time,
before the first retry), the GPU part of a node with no reservation unwritten is what the
cache exports, and the storage part has every storage pod from its booking on.

Sums (`NoOvercommit`, `DeviceFits`, `DiskAccounted`, `SuccessHolds`). `MapThenSumSet` is
defined by a recursive function that picks an element of the set that is left. `Sums`
proves, from the well-foundedness of strict inclusion, that such a function exists and is
unique and that the order does not matter, and from that how a sum changes when an element
enters, leaves, or changes its summand.

The argument for the server. Types and locks are inductive as they stand. `Lists`
says of each program point what of the lists is decided: a pod that has not moved since
is in the running list or the pending one by its phase, minus those the request removed.
What is removed is only the application's (`Selections`): whatever the informers do between
two questions of `removePodsOfApp`, what it has selected fits the request. `Anew` is the
converse for the workloads that lasted: each that has been asked for is selected
(`Picked`), so none of its pods is left.

Every invariant and action property of the passing runs is a theorem, and each run but one
meets the assumptions in the last column. Only model-checked: `NoPanic` in `core`, where
a pod names its node; and the liveness properties (`WaitEnds`, `CloseReturns`, `EndsOrAsks`
and the counterexamples), which need fairness and ENABLED, out of the prover's reach.

## 5. Not modelled

- Preemption: all pods have the same priority, so there is never a victim.
- Affinity moves (`AssignedPodAdded` with matching terms), permit plugins, extenders.
- The expiry of assumed pods after 30 seconds, resyncs and relists.
- A workload with a pod `test/test` (the name of the pod that `Close` creates).
- `sim.status.stopReason` is a string written and read by two goroutines; the channel
  orders the two accesses as long as one pod is on its way, which is `OneAtATime`. After
  a retry the accesses race, and a torn string is not modelled.
- The choice of volume group or device in open-local.
- In the GPU plugin: `Score`; the number of devices left whole, which Reserve writes into
  a copy of the node's allocatable quantity and so never publishes; devices whose
  capacity changes; keys of `podToUpdateCacheMap` that collide (namespace and name are
  joined without a separator).
- Reading manifests, from files, charts or a live cluster, and the flags and reports of
  the command line: input and output. Of a manifest that fails, the text of the error.
- In `GpuShare`, properties of what the code does not keep: the devices of pods that are
  deleted after a retry, and those of pods that come with their devices named.
- In `Apply`: labels and annotations of new nodes; which limit is exceeded; amounts of
  memory whose `MilliValue` overflows; DaemonSets whose affinity has a selector without
  terms, on which nothing can be written.
- In `Server`: nodes and the other objects that are listed and passed on; relists and
  resyncs of the informers; two handlers that simulate at the same time share
  `watch.DefaultChanSize`, to which both write the same value.
- The queues of `pkg/algo`: they order an application's pods, and `Workload` is any order.

## 6. Plan

Done: the hand-over of one pod at a time (`Simulator`, `Simulation`, `SimulatorInvariant`),
the GPU share plugin (`GpuShare`), the expansion, the loop and the server (`Expand`, `Apply`,
`Server`), and theorems for every safety property of theirs.

1. Proofs: `Conserved` with storage, for the pods whose binding does not fail; `NoOvercommit`
   relative to what a cluster has on its nodes from the start; of a request of the server
   that reads changing lists, what is true of each pod in between.
2. Priorities and preemption in `Simulator`, with the victims the report leaves out and
   the GPU cache keeps.
3. The queues of `pkg/algo`: whether their orders are orders at all, and what an unstable
   sort makes of them.
