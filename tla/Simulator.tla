------------------------------ MODULE Simulator ------------------------------
(***************************************************************************)
(* One call of Simulate (pkg/simulator/core.go): the calling goroutine,    *)
(* the fake API server, the informers and their listeners, the embedded    *)
(* kube-scheduler, its binding goroutines and Simulator.update, which      *)
(* hands the caller a token on the unbuffered channel simulatorStop for    *)
(* every pod update it sees.                                               *)
(*                                                                         *)
(* Every pod has the same priority, so preemption finds no victim.  A pod  *)
(* requests Cpu (any resource the scheduler's own cache counts) and Disk   *)
(* (open-local storage, counted in an annotation of the node object).      *)
(* Where the code sends messages or formats reasons, only the pod that the *)
(* message is about is kept.                                               *)
(***************************************************************************)
EXTENDS Integers, Sequences, FiniteSets, FiniteSetsExt

CONSTANTS
    Pod,            \* the pods of the workload and TestPod
    TestPod,        \* the pod Close creates to wake the scheduler up
    Node,           \* the nodes of the cluster
    NodeOrder,      \* the order in which RunCluster creates them
    Workload,       \* the pods given to schedulePods, in order
    NodeName,       \* spec.nodeName of each pod when it is created
    Ours,           \* the pods whose schedulerName is the default one
    Cpu, CpuCap,    \* requests of the pods, capacity of the nodes
    Disk, DiskCap,  \* the same for open-local storage
    MayRefuse,      \* the cluster or an application may fail to expand into pods
    ChanSize,       \* watch.DefaultChanSize
    LateWatch,      \* a reflector may list before the first object and watch after it
    MaxRetries,     \* bound on the pods that leave backoffQ/unschedulableQ by a timer
    Absent, Unbound, NoPod

Where == Node \cup {Absent, Unbound}
Reason == {"none", "Unschedulable", "SchedulerError"}
Object == [node: Where, reason: Reason]
NoObject == [node |-> Absent, reason |-> "none"]

ASSUME SimulatorAssumptions ==
    /\ Absent \notin Node /\ Unbound \notin Node /\ Absent # Unbound
    /\ NoPod \notin Pod /\ IsFiniteSet(Pod)
    /\ TestPod \in Pod /\ TestPod \in Ours
    /\ Ours \subseteq Pod
    /\ NodeOrder \in Seq(Node)
    /\ Workload \in Seq(Pod \ {TestPod})
    /\ NodeName \in [Pod -> Node \cup {Unbound}] /\ NodeName[TestPod] = Unbound
    /\ Cpu \in [Pod -> Nat] /\ CpuCap \in [Node -> Nat]
    /\ Disk \in [Pod -> Nat] /\ DiskCap \in [Node -> Nat]
    /\ Disk[TestPod] = 0
    /\ MayRefuse \in BOOLEAN /\ LateWatch \in BOOLEAN
    /\ ChanSize \in Nat \ {0} /\ MaxRetries \in Nat

VARIABLES
    \* the goroutine that called Simulate
    pc, pos, created, stopReason, failedPods, outcome, nodeStatus,
    \* the fake API server: pods, the storage annotation of the nodes
    store, nodeDisk,
    \* pod reflector, its indexer, and the queues of the listeners
    watching, podWatch, lister, simQ, schedQ, assignedQ, nodeQ,
    \* Scheduler.Run, its cache and its queue
    spc, scur, cancelled, seen, seenDisk, cache, queued, moved, retries,
    \* one binding goroutine per assumed pod
    binding,
    \* Simulator.update blocked in its send; the channel; a panic
    handler, closed, panicked

mainVars == <<pc, pos, created, stopReason, failedPods, outcome, nodeStatus>>
infVars == <<watching, lister, simQ, schedQ, assignedQ>>
loopVars == <<spc, scur, cancelled>>
cacheVars == <<seen, seenDisk, cache>>
queueVars == <<queued, moved, retries>>
chanVars == <<handler, closed>>
podVars == <<store, podWatch, panicked>>
diskVars == <<nodeDisk, nodeQ>>
vars == <<mainVars, infVars, loopVars, cacheVars, queueVars, chanVars, podVars,
          diskVars, binding>>

BindStep == {"none", "local", "write", "simon", "forget", "requeue", "patch"}
NoBind == [step |-> "none", node |-> Unbound, read |-> 0]

Cur == Workload[pos]

-----------------------------------------------------------------------------
(* The fake API server: an object write followed by the watch event, which *)
(* panics when the watcher's channel is full.                              *)

Publish(p, o) ==
    /\ store' = [store EXCEPT ![p] = o]
    /\ podWatch' = IF watching THEN Append(podWatch, [pod |-> p, obj |-> o])
                               ELSE podWatch
    /\ panicked' = (panicked \/ (watching /\ Len(podWatch) >= ChanSize))

(* Nodes are written likewise.  A watch that opens after the first nodes   *)
(* has lost them.  nodeQ is the channel and the buffer of the listener     *)
(* behind it: how much of it is still in the channel is left open.         *)
PublishNode(n, disk) ==
    \/ /\ nodeQ' = Append(nodeQ, [node |-> n, disk |-> disk])
       /\ panicked' \in {panicked, panicked \/ Len(nodeQ) >= ChanSize}
    \/ /\ LateWatch /\ seen = {} /\ nodeQ = <<>>
       /\ UNCHANGED <<nodeQ, panicked>>

(* Mutant: the failure is never written to the pod.                        *)
PatchNothing(p, r) == UNCHANGED podVars

(* updatePod patches the condition only when it differs from the one in    *)
(* the pod it was given; the message may differ when the reason does not.  *)
PatchCondition(p, r) ==
    \/ /\ store[p].node # Absent
       /\ Publish(p, [store[p] EXCEPT !.reason = r])
    \/ /\ store[p].node = Absent \/ lister[p].reason = r
       /\ UNCHANGED podVars

-----------------------------------------------------------------------------
(* The scheduling queue.  queued[p] is the sub-queue that holds p, moved   *)
(* says that a move request came after the last Pop.                       *)

QueueAdd(p) == queued' = [queued EXCEPT ![p] = "active"] /\ UNCHANGED moved

QueueDelete(p) == queued' = [queued EXCEPT ![p] = "no"] /\ UNCHANGED moved

MoveAll ==
    /\ queued' = [p \in Pod |-> IF queued[p] = "unschedulable" THEN "backoff"
                                                             ELSE queued[p]]
    /\ moved' = TRUE

(* The scheduler's Error function: back into the queue, if the informer    *)
(* still has the pod and no sub-queue holds it.                            *)
Requeue(p) ==
    /\ queued' = IF lister[p].node = Absent \/ queued[p] # "no" THEN queued
                 ELSE [queued EXCEPT ![p] = IF moved THEN "backoff"
                                                     ELSE "unschedulable"]
    /\ UNCHANGED moved

-----------------------------------------------------------------------------
(* What the plugins of the profile answer.                                 *)

CpuUsed(n) == MapThenSumSet(LAMBDA q : Cpu[q], {q \in Pod : cache[q] = n})

(* Mutant: off by one.                                                     *)
AlmostFits(p, n) == Cpu[p] = 0 \/ CpuUsed(n) + Cpu[p] <= CpuCap[n] + 1

(* A pod that requests nothing fits on a node that is overcommitted.       *)
NodeResourcesFit(p, n) == Cpu[p] = 0 \/ CpuUsed(n) + Cpu[p] <= CpuCap[n]

LocalFilter(p, n) == Disk[p] = 0 \/ seenDisk[n] + Disk[p] <= DiskCap[n]

(* Mutant: Bind trusts the snapshot of the scheduler.                      *)
LocalFitsSnapshot(p, n) == LocalFilter(p, n)

(* Score and Bind of open-local read the node from the API server, Filter  *)
(* reads it from the scheduler's snapshot.                                 *)
LocalFits(p, n) == Disk[p] = 0 \/ nodeDisk[n] + Disk[p] <= DiskCap[n]

Feasible(p) == {n \in seen : NodeResourcesFit(p, n) /\ LocalFilter(p, n)}

(* A single feasible node is taken without scoring; otherwise one node     *)
(* that open-local cannot score fails the whole cycle.                     *)
ScoreFails(p) ==
    /\ \E m, n \in Feasible(p) : m # n
    /\ \E n \in Feasible(p) : ~LocalFits(p, n)

-----------------------------------------------------------------------------
(* The goroutine that called Simulate.                                     *)

(* GetValidPodExcludeDaemonSet fails before the scheduler is started.      *)
RefuseCluster ==
    /\ pc = "start" /\ MayRefuse
    /\ pc' = "close" /\ outcome' = "error"
    /\ UNCHANGED <<pos, created, stopReason, failedPods, nodeStatus, infVars, loopVars,
                   cacheVars, queueVars, chanVars, podVars, diskVars, binding>>

RunScheduler ==
    /\ pc = "start"
    /\ pc' = "nodes" /\ spc' = "loop"
    /\ UNCHANGED <<pos, created, stopReason, failedPods, outcome, nodeStatus, infVars,
                   scur, cancelled, cacheVars, queueVars, chanVars, podVars, diskVars,
                   binding>>

CreateNode ==
    /\ pc = "nodes" /\ created < Len(NodeOrder)
    /\ created' = created + 1
    /\ PublishNode(NodeOrder[created + 1], 0)
    /\ UNCHANGED <<pc, pos, stopReason, failedPods, outcome, nodeStatus, infVars,
                   loopVars, cacheVars, queueVars, chanVars, store, podWatch, nodeDisk,
                   binding>>

NodesCreated ==
    /\ pc = "nodes" /\ created = Len(NodeOrder)
    /\ pc' = "create"
    /\ UNCHANGED <<pos, created, stopReason, failedPods, outcome, nodeStatus, infVars,
                   loopVars, cacheVars, queueVars, chanVars, podVars, diskVars, binding>>

(* A resource of the cluster cannot be copied, or the next application     *)
(* does not expand: Simulate returns the error.                            *)
RefuseApp ==
    /\ pc \in {"nodes", "create"} /\ MayRefuse
    /\ pc' = "close" /\ outcome' = "error"
    /\ UNCHANGED <<pos, created, stopReason, failedPods, nodeStatus, infVars, loopVars,
                   cacheVars, queueVars, chanVars, podVars, diskVars, binding>>

(* Mutant: no wait.                                                        *)
NeverAwait == "collect"

(* update() is triggered when a pod without nodeName is handled.           *)
AfterCreate == IF NodeName[Cur] = Unbound THEN "wait" ELSE "collect"

(* The first half of the loop body of schedulePods: create the pod, and    *)
(* wait for a token unless it names its node.                              *)
CreatePod ==
    /\ pc = "create" /\ pos <= Len(Workload)
    /\ store[Cur].node = Absent
    /\ Publish(Cur, [node |-> NodeName[Cur], reason |-> "none"])
    /\ pc' = AfterCreate
    /\ UNCHANGED <<pos, created, stopReason, failedPods, outcome, nodeStatus, infVars,
                   loopVars, cacheVars, queueVars, chanVars, diskVars, binding>>

(* The tracker refuses a second object of the same name.                   *)
CreatePodFails ==
    /\ pc = "create" /\ pos <= Len(Workload)
    /\ store[Cur].node # Absent
    /\ pc' = "close" /\ outcome' = "error"
    /\ UNCHANGED <<pos, created, stopReason, failedPods, nodeStatus, infVars, loopVars,
                   cacheVars, queueVars, chanVars, podVars, diskVars, binding>>

(* The rendezvous on simulatorStop, in schedulePods and in Close.          *)
Receive ==
    /\ handler # NoPod
    /\ \/ pc = "wait" /\ pc' = "collect"
       \/ pc = "waitTest" /\ pc' = "shut"
    /\ handler' = NoPod
    /\ UNCHANGED <<pos, created, stopReason, failedPods, outcome, nodeStatus, infVars,
                   loopVars, cacheVars, queueVars, closed, podVars, diskVars, binding>>

(* Mutants: the reason outlives the pod; the pod is not listed.            *)
ReportFailedKeepingReason ==
    /\ Publish(Cur, NoObject)
    /\ failedPods' = Append(failedPods, [pod |-> Cur, why |-> stopReason])
    /\ UNCHANGED stopReason

DropFailed ==
    /\ Publish(Cur, NoObject)
    /\ stopReason' = NoPod
    /\ UNCHANGED failedPods

ReportFailed ==
    /\ Publish(Cur, NoObject)
    /\ failedPods' = Append(failedPods, [pod |-> Cur, why |-> stopReason])
    /\ stopReason' = NoPod

(* The second half of the loop body: a stop reason in sim.status makes the *)
(* current pod a failed one.                                               *)
Collect ==
    /\ pc = "collect"
    /\ pc' = "create" /\ pos' = pos + 1
    /\ \/ /\ stopReason = NoPod
          /\ UNCHANGED <<stopReason, failedPods, podVars>>
       \/ stopReason # NoPod /\ ReportFailed
    /\ UNCHANGED <<created, outcome, nodeStatus, infVars, loopVars, cacheVars, queueVars,
                   chanVars, diskVars, binding>>

(* The last schedulePods returned: Simulate builds its result.             *)
GetClusterNodeStatus ==
    /\ pc = "create" /\ pos > Len(Workload)
    /\ pc' = "close" /\ outcome' = "ok"
    /\ nodeStatus' = [n \in Node |-> {p \in Pod : store[p].node = n}]
    /\ UNCHANGED <<pos, created, stopReason, failedPods, infVars, loopVars, cacheVars,
                   queueVars, chanVars, podVars, diskVars, binding>>

(* The deferred Close: cancel the scheduler's context, then create a pod   *)
(* so that NextPod returns.                                                *)
CancelScheduler ==
    /\ pc = "close"
    /\ pc' = "createTest" /\ cancelled' = TRUE
    /\ UNCHANGED <<pos, created, stopReason, failedPods, outcome, nodeStatus, infVars,
                   spc, scur, cacheVars, queueVars, chanVars, podVars, diskVars, binding>>

(* Mutant: Close does not wait for the token of its pod.                   *)
CreateTestPodOnly ==
    /\ pc = "createTest"
    /\ pc' = "shut"
    /\ Publish(TestPod, [node |-> Unbound, reason |-> "none"])
    /\ UNCHANGED <<pos, created, stopReason, failedPods, outcome, nodeStatus, infVars,
                   loopVars, cacheVars, queueVars, chanVars, diskVars, binding>>

CreateTestPod ==
    /\ pc = "createTest"
    /\ pc' = "waitTest"
    /\ Publish(TestPod, [node |-> Unbound, reason |-> "none"])
    /\ UNCHANGED <<pos, created, stopReason, failedPods, outcome, nodeStatus, infVars,
                   loopVars, cacheVars, queueVars, chanVars, diskVars, binding>>

CloseChannel ==
    /\ pc = "shut"
    /\ pc' = "done" /\ closed' = TRUE
    /\ UNCHANGED <<pos, created, stopReason, failedPods, outcome, nodeStatus, infVars,
                   loopVars, cacheVars, queueVars, handler, podVars, diskVars, binding>>

MainStep ==
    \/ RefuseCluster \/ RunScheduler \/ CreateNode \/ NodesCreated
    \/ RefuseApp \/ CreatePod \/ CreatePodFails \/ Receive \/ Collect
    \/ GetClusterNodeStatus \/ CancelScheduler \/ CreateTestPod \/ CloseChannel

-----------------------------------------------------------------------------
(* Informers.  A listener is a goroutine with an unbounded buffer.         *)

StartWatch ==
    /\ ~watching /\ watching' = TRUE
    /\ UNCHANGED <<mainVars, lister, simQ, schedQ, assignedQ, loopVars, cacheVars,
                   queueVars, chanVars, podVars, diskVars, binding>>

(* Mutant: the handler has an AddFunc, too.                                *)
NotifiesAlways(old, new) == new # Absent

(* The handler of NewSimulator has an UpdateFunc only.                     *)
NotifiesUpdate(old, new) == old # Absent /\ new # Absent

(* The pod reflector and the shared informer: the indexer takes the object *)
(* and every listener gets what the filter of its handler leaves.          *)
PodInformer ==
    /\ podWatch # <<>>
    /\ LET p == Head(podWatch).pod
           o == Head(podWatch).obj
           old == lister[p].node
       IN /\ lister' = [lister EXCEPT ![p] = o]
          /\ simQ' = IF p \in Ours /\ NotifiesUpdate(old, o.node)
                     THEN Append(simQ, [pod |-> p, obj |-> o]) ELSE simQ
          /\ schedQ' = IF p \notin Ours \/ (old = Unbound <=> o.node = Unbound) THEN schedQ
                       ELSE Append(schedQ, [pod |-> p, add |-> o.node = Unbound])
          /\ assignedQ' = IF old \in Node <=> o.node \in Node THEN assignedQ
                          ELSE Append(assignedQ, [pod |-> p, node |-> o.node])
    /\ podWatch' = Tail(podWatch)
    /\ UNCHANGED <<mainVars, watching, loopVars, cacheVars, queueVars, chanVars, store,
                   panicked, diskVars, binding>>

(* addPodToSchedulingQueue, deletePodFromSchedulingQueue                   *)
HandlePending ==
    /\ schedQ # <<>>
    /\ IF Head(schedQ).add THEN QueueAdd(Head(schedQ).pod) ELSE QueueDelete(Head(schedQ).pod)
    /\ schedQ' = Tail(schedQ)
    /\ UNCHANGED <<mainVars, watching, lister, simQ, assignedQ, loopVars, cacheVars,
                   retries, chanVars, podVars, diskVars, binding>>

(* addPodToCache, deletePodFromCache                                       *)
HandleAssigned ==
    /\ assignedQ # <<>>
    /\ LET p == Head(assignedQ).pod
           n == Head(assignedQ).node
       IN \/ /\ n \in Node
             /\ cache' = [cache EXCEPT ![p] = n]
             /\ moved' = TRUE /\ UNCHANGED queued
          \/ /\ n \notin Node
             /\ cache' = [cache EXCEPT ![p] = Unbound]
             /\ MoveAll
    /\ assignedQ' = Tail(assignedQ)
    /\ UNCHANGED <<mainVars, watching, lister, simQ, schedQ, loopVars, seen, seenDisk,
                   retries, chanVars, podVars, diskVars, binding>>

(* addNodeToCache, updateNodeInCache: an update of the annotation moves    *)
(* pods only when there is none to move.                                   *)
HandleNode ==
    /\ nodeQ # <<>>
    /\ LET n == Head(nodeQ).node IN
       /\ seen' = seen \cup {n}
       /\ seenDisk' = [seenDisk EXCEPT ![n] = Head(nodeQ).disk]
       /\ \/ /\ n \notin seen \/ \A p \in Pod : queued[p] # "unschedulable"
             /\ MoveAll
          \/ /\ n \in seen /\ \E p \in Pod : queued[p] = "unschedulable"
             /\ UNCHANGED <<queued, moved>>
    /\ nodeQ' = Tail(nodeQ)
    /\ UNCHANGED <<mainVars, infVars, loopVars, cache, retries, chanVars, podVars,
                   nodeDisk, binding>>

(* Mutant: the condition is not looked at.                                 *)
AnyCondition(o) == TRUE

IsUnschedulable(o) == o.reason = "Unschedulable"

(* Simulator.update: note the reason, then send.                           *)
Update ==
    /\ simQ # <<>> /\ handler = NoPod
    /\ stopReason' = IF IsUnschedulable(Head(simQ).obj) THEN Head(simQ).pod
                                                       ELSE stopReason
    /\ handler' = Head(simQ).pod
    /\ simQ' = Tail(simQ)
    /\ UNCHANGED <<pc, pos, created, failedPods, outcome, nodeStatus, watching, lister,
                   schedQ, assignedQ, loopVars, cacheVars, queueVars, closed, podVars,
                   diskVars, binding>>

SendOnClosedChannel ==
    /\ handler # NoPod /\ closed
    /\ panicked' = TRUE
    /\ UNCHANGED <<mainVars, infVars, loopVars, cacheVars, queueVars, chanVars, store,
                   podWatch, diskVars, binding>>

InformerStep ==
    \/ StartWatch \/ PodInformer \/ HandlePending \/ HandleAssigned \/ HandleNode
    \/ Update \/ SendOnClosedChannel

-----------------------------------------------------------------------------
(* Scheduler.Run: scheduleOne in a loop until the context is cancelled,    *)
(* which the loop notices only between two pods.                           *)

EnterScheduleOne ==
    /\ spc = "loop" /\ ~cancelled
    /\ spc' = "pop"
    /\ UNCHANGED <<mainVars, infVars, scur, cancelled, cacheVars, queueVars, chanVars,
                   podVars, diskVars, binding>>

StopScheduler ==
    /\ spc = "loop" /\ cancelled
    /\ spc' = "stopped"
    /\ UNCHANGED <<mainVars, infVars, scur, cancelled, cacheVars, queueVars, chanVars,
                   podVars, diskVars, binding>>

(* Mutant: a pod popped after the cancellation is dropped.                 *)
NextPodUnlessCancelled(p) ==
    /\ spc = "pop" /\ queued[p] = "active" /\ ~cancelled
    /\ spc' = "cycle" /\ scur' = p
    /\ queued' = [queued EXCEPT ![p] = "no"] /\ moved' = FALSE
    /\ UNCHANGED <<mainVars, infVars, cancelled, cacheVars, retries, chanVars, podVars,
                   diskVars, binding>>

NextPod(p) ==
    /\ spc = "pop" /\ queued[p] = "active"
    /\ spc' = "cycle" /\ scur' = p
    /\ queued' = [queued EXCEPT ![p] = "no"] /\ moved' = FALSE
    /\ UNCHANGED <<mainVars, infVars, cancelled, cacheVars, retries, chanVars, podVars,
                   diskVars, binding>>

(* Mutant: the cache counts a pod only when the informer reports it.       *)
AssumeNothing(p, n) == UNCHANGED cache

AssumePod(p, n) == cache' = [cache EXCEPT ![p] = n]

(* Schedule found a node: assume the pod and start its binding goroutine.  *)
Assume(n) ==
    /\ spc = "cycle" /\ n \in Feasible(scur)
    /\ cancelled \/ ~ScoreFails(scur)
    /\ AssumePod(scur, n)
    /\ binding' = [binding EXCEPT ![scur] =
                     [step |-> IF Disk[scur] > 0 THEN "local" ELSE "simon",
                      node |-> n, read |-> 0]]
    /\ spc' = "loop" /\ scur' = NoPod
    /\ UNCHANGED <<mainVars, infVars, cancelled, seen, seenDisk, queueVars, chanVars,
                   podVars, diskVars>>

(* Schedule failed; with a cancelled context the parallel filters may      *)
(* examine only some of the nodes, or none.                                *)
ScheduleFails ==
    /\ spc = "cycle"
    /\ cancelled \/ Feasible(scur) = {} \/ ScoreFails(scur)
    /\ spc' = "fail"
    /\ UNCHANGED <<mainVars, infVars, scur, cancelled, cacheVars, queueVars, chanVars,
                   podVars, diskVars, binding>>

RequeueUnschedulable ==
    /\ spc = "fail"
    /\ Requeue(scur)
    /\ spc' = "patch"
    /\ UNCHANGED <<mainVars, infVars, scur, cancelled, cacheVars, retries, chanVars,
                   podVars, diskVars, binding>>

(* Mutant: the loop keeps the pod it is done with.                         *)
RecordUnschedulableOnly ==
    /\ spc = "patch"
    /\ PatchCondition(scur, "Unschedulable")
    /\ spc' = "loop"
    /\ UNCHANGED <<mainVars, infVars, scur, cancelled, cacheVars, queueVars, chanVars,
                   diskVars, binding>>

RecordUnschedulable ==
    /\ spc = "patch"
    /\ PatchCondition(scur, "Unschedulable")
    /\ spc' = "loop" /\ scur' = NoPod
    /\ UNCHANGED <<mainVars, infVars, cancelled, cacheVars, queueVars, chanVars, diskVars,
                   binding>>

(* flushBackoffQCompleted after a second, flushUnschedulableQLeftover      *)
(* after a minute: by then the goroutines have dealt with every event of   *)
(* the pod's last attempt (an assumption on time).                         *)
Settled(p) ==
    /\ p \notin {scur, handler} /\ binding[p].step = "none"
    /\ ~(pc = "collect" /\ p = Cur)
    /\ \A q \in {podWatch, simQ, schedQ} : \A i \in DOMAIN q : q[i].pod # p

Retry(p) ==
    /\ queued[p] \in {"backoff", "unschedulable"} /\ Settled(p)
    /\ retries < MaxRetries
    /\ retries' = retries + 1
    /\ moved' = (moved \/ queued[p] = "unschedulable")
    /\ queued' = [queued EXCEPT ![p] = "active"]
    /\ UNCHANGED <<mainVars, infVars, loopVars, cacheVars, chanVars, podVars, diskVars,
                   binding>>

SchedulerStep ==
    \/ EnterScheduleOne \/ StopScheduler \/ ScheduleFails \/ RequeueUnschedulable
    \/ RecordUnschedulable
    \/ \E p \in Pod : NextPod(p)
    \/ \E n \in Node : Assume(n)

-----------------------------------------------------------------------------
(* The binding goroutine of p: the Bind plugins in order, open-local and   *)
(* then Simon; a failure forgets the pod, requeues it and patches it.      *)

Goto(p, step) == binding' = [binding EXCEPT ![p].step = step]

LocalBindGet(p) ==
    /\ binding[p].step = "local"
    /\ LET n == binding[p].node
       IN \/ LocalFits(p, n) /\ binding' = [binding EXCEPT ![p].step = "write",
                                                          ![p].read = nodeDisk[n]]
          \/ ~LocalFits(p, n) /\ Goto(p, "forget")
    /\ UNCHANGED <<mainVars, infVars, loopVars, cacheVars, queueVars, chanVars, podVars,
                   diskVars>>

LocalBindUpdate(p) ==
    /\ binding[p].step = "write"
    /\ LET n == binding[p].node
           requested == binding[p].read + Disk[p]
       IN /\ nodeDisk' = [nodeDisk EXCEPT ![n] = requested]
          /\ PublishNode(n, requested)
    /\ Goto(p, "simon")
    /\ UNCHANGED <<mainVars, infVars, loopVars, cacheVars, queueVars, chanVars, store,
                   podWatch>>

(* Mutant: the object is written back whether or not it is still there.    *)
BindBlindly(p) ==
    /\ binding[p].step = "simon"
    /\ Publish(p, [store[p] EXCEPT !.node = binding[p].node])
    /\ binding' = [binding EXCEPT ![p] = NoBind]
    /\ UNCHANGED <<mainVars, infVars, loopVars, cacheVars, queueVars, chanVars, diskVars>>

BindPodToNode(p) ==
    /\ binding[p].step = "simon"
    /\ \/ /\ store[p].node # Absent
          /\ Publish(p, [store[p] EXCEPT !.node = binding[p].node])
          /\ binding' = [binding EXCEPT ![p] = NoBind]
       \/ /\ store[p].node = Absent
          /\ Goto(p, "forget") /\ UNCHANGED podVars
    /\ UNCHANGED <<mainVars, infVars, loopVars, cacheVars, queueVars, chanVars, diskVars>>

(* Mutant: the assumed pod is not forgotten.                               *)
ForgetNothing(p) ==
    /\ binding[p].step = "forget"
    /\ Goto(p, "requeue")
    /\ UNCHANGED <<mainVars, infVars, loopVars, cacheVars, queueVars, chanVars, podVars,
                   diskVars>>

ForgetPod(p) ==
    /\ binding[p].step = "forget"
    /\ cache' = [cache EXCEPT ![p] = Unbound]
    /\ Goto(p, "requeue")
    /\ UNCHANGED <<mainVars, infVars, loopVars, seen, seenDisk, queueVars, chanVars,
                   podVars, diskVars>>

RequeueRejected(p) ==
    /\ binding[p].step = "requeue"
    /\ Requeue(p) /\ Goto(p, "patch")
    /\ UNCHANGED <<mainVars, infVars, loopVars, cacheVars, retries, chanVars, podVars,
                   diskVars>>

RecordBindError(p) ==
    /\ binding[p].step = "patch"
    /\ PatchCondition(p, "SchedulerError")
    /\ binding' = [binding EXCEPT ![p] = NoBind]
    /\ UNCHANGED <<mainVars, infVars, loopVars, cacheVars, queueVars, chanVars, diskVars>>

Bind(p) ==
    \/ LocalBindGet(p) \/ LocalBindUpdate(p) \/ BindPodToNode(p)
    \/ ForgetPod(p) \/ RequeueRejected(p) \/ RecordBindError(p)

-----------------------------------------------------------------------------
Init ==
    /\ pc = "start" /\ pos = 1 /\ created = 0 /\ stopReason = NoPod
    /\ failedPods = <<>> /\ outcome = "none" /\ nodeStatus = [n \in Node |-> {}]
    /\ store = [p \in Pod |-> NoObject] /\ nodeDisk = [n \in Node |-> 0]
    /\ watching \in {TRUE, ~LateWatch}
    /\ podWatch = <<>> /\ lister = [p \in Pod |-> NoObject]
    /\ simQ = <<>> /\ schedQ = <<>> /\ assignedQ = <<>> /\ nodeQ = <<>>
    /\ spc = "off" /\ scur = NoPod /\ cancelled = FALSE
    /\ seen = {} /\ seenDisk = [n \in Node |-> 0] /\ cache = [p \in Pod |-> Unbound]
    /\ queued = [p \in Pod |-> "no"] /\ moved = FALSE /\ retries = 0
    /\ binding = [p \in Pod |-> NoBind]
    /\ handler = NoPod /\ closed = FALSE /\ panicked = FALSE

(* A panic ends the process.                                               *)
Next ==
    /\ ~panicked
    /\ \/ MainStep \/ InformerStep \/ SchedulerStep
       \/ \E p \in Pod : Retry(p) \/ Bind(p)

Spec == Init /\ [][Next]_vars

(* Every goroutine that can run eventually runs; the timers behind Retry   *)
(* promise nothing within the run.                                         *)
Running(A) == ~panicked /\ A

Fairness ==
    /\ WF_vars(Running(MainStep))
    /\ WF_vars(Running(StartWatch)) /\ WF_vars(Running(PodInformer))
    /\ WF_vars(Running(HandlePending)) /\ WF_vars(Running(HandleAssigned))
    /\ WF_vars(Running(HandleNode)) /\ WF_vars(Running(Update))
    /\ WF_vars(Running(SchedulerStep))
    /\ \A p \in Pod : WF_vars(Running(Bind(p)))

FairSpec == Spec /\ Fairness

-----------------------------------------------------------------------------
(* Properties.                                                             *)

PodEvent == [pod: Pod, obj: Object]

CallerType ==
    /\ pc \in {"start", "nodes", "create", "wait", "collect", "close", "createTest",
              "waitTest", "shut", "done"}
    /\ pos \in 1 .. Len(Workload) + 1 /\ (pc \in {"wait", "collect"} => pos <= Len(Workload))
    /\ created \in 0 .. Len(NodeOrder)
    /\ stopReason \in Pod \cup {NoPod}
    /\ failedPods \in Seq([pod: Pod, why: Pod])
    /\ outcome \in {"none", "ok", "error"}
    /\ nodeStatus \in [Node -> SUBSET Pod]

StoreType ==
    /\ store \in [Pod -> Object] /\ podWatch \in Seq(PodEvent)
    /\ watching \in BOOLEAN /\ panicked \in BOOLEAN

NodeType == nodeDisk \in [Node -> Nat] /\ nodeQ \in Seq([node: Node, disk: Nat])

InformerType ==
    /\ lister \in [Pod -> Object] /\ simQ \in Seq(PodEvent)
    /\ schedQ \in Seq([pod: Pod, add: BOOLEAN])
    /\ assignedQ \in Seq([pod: Pod, node: Where])

LoopType ==
    /\ spc \in {"off", "loop", "pop", "cycle", "fail", "patch", "stopped"}
    /\ pc = "start" => spc = "off"
    /\ scur \in Pod \cup {NoPod} /\ (scur # NoPod <=> spc \in {"cycle", "fail", "patch"})
    /\ cancelled \in BOOLEAN

CacheType ==
    /\ seen \in SUBSET Node /\ seenDisk \in [Node -> Nat]
    /\ cache \in [Pod -> Node \cup {Unbound}]

QueueType ==
    /\ queued \in [Pod -> {"no", "active", "backoff", "unschedulable"}]
    /\ moved \in BOOLEAN /\ retries \in 0 .. MaxRetries

BindingType ==
    /\ binding \in [Pod -> [step: BindStep, node: Node \cup {Unbound}, read: Nat]]
    /\ \A p \in Pod : binding[p].step # "none" => binding[p].node \in Node

ChannelType == handler \in Pod \cup {NoPod} /\ closed \in BOOLEAN

(* Every variable keeps its type; the scheduler's loop holds a pod exactly  *)
(* between NextPod and the end of scheduleOne, and a binding goroutine      *)
(* always has a node of the cluster.                                        *)
TypeOK ==
    /\ CallerType /\ StoreType /\ NodeType /\ InformerType /\ LoopType /\ CacheType
    /\ QueueType /\ BindingType /\ ChannelType

Failed == {failedPods[i].pod : i \in DOMAIN failedPods}

(* p owes the caller a token: it is somewhere between the write that       *)
(* creates it and the receive of the token for it.                         *)
InPipeline(p) ==
    \/ p \in {scur, handler} \/ queued[p] = "active" \/ binding[p].step # "none"
    \/ \E i \in DOMAIN schedQ : schedQ[i] = [pod |-> p, add |-> TRUE]
    \/ \E i \in DOMAIN simQ : simQ[i].pod = p
    \/ /\ p \in Ours /\ NodeName[p] = Unbound
       /\ \E i \in DOMAIN podWatch : podWatch[i].pod = p /\ podWatch[i].obj.node # Absent

(* schedulePods hands the scheduler one pod at a time: whatever the        *)
(* informers, the scheduler and the binding goroutines do, the only pod    *)
(* that may be on its way is the one the caller is waiting for             *)
(* (simulator.go, the wait in schedulePods and in Close).                  *)
OneAtATime ==
    \A p \in Pod :
        InPipeline(p) => \/ pc = "wait" /\ p = Cur
                         \/ pc = "waitTest" /\ p = TestPod

(* The reason read after the wait is the reason of the pod waited for:     *)
(* sim.status is written by Simulator.update on the listener's goroutine   *)
(* and read and reset by schedulePods.                                     *)
RightBlame == \A i \in DOMAIN failedPods : failedPods[i].why = failedPods[i].pod

(* A pod of a finished simulation is on a node of the report or in the     *)
(* list of unscheduled pods, and never in both (core.go, the result).      *)
Conserved ==
    outcome = "ok" =>
        \A p \in {Workload[i] : i \in DOMAIN Workload} :
            (\E n \in Node : p \in nodeStatus[n]) <=> p \notin Failed

(* The report is taken before Close; nothing that still runs then changes  *)
(* where a pod of the workload is.                                         *)
ReportIsFinal ==
    outcome = "ok" =>
        \A n \in Node : nodeStatus[n] = {p \in Pod \ {TestPod} : store[p].node = n}

CpuOnNode(n) == MapThenSumSet(LAMBDA p : Cpu[p], {p \in Pod : store[p].node = n})
DiskOnNode(n) ==
    MapThenSumSet(LAMBDA p : Disk[p],
                  {p \in Pod : \/ store[p].node = n
                               \/ (binding[p].step = "simon" /\ binding[p].node = n)})

(* The pods bound to a node fit on it, although the scheduler decides from *)
(* its own cache and binds on goroutines of their own.                     *)
NoOvercommit == \A n \in Node : CpuOnNode(n) <= CpuCap[n]

(* The scheduler's cache counts a pod from before its binding to the end:  *)
(* there is no moment at which a bound pod is not counted, and what is     *)
(* counted without being bound has its binding under way.                  *)
CacheExact ==
    \A p \in Pod :
        /\ NodeName[p] = Unbound /\ store[p].node \in Node => cache[p] = store[p].node
        /\ cache[p] # Unbound => \/ store[p].node = cache[p]
                                 \/ binding[p].step \in {"local", "write", "simon", "forget"}

(* The storage annotation of a node is the sum of what its pods requested: *)
(* no booking is lost between the Get and the Update of open-local's Bind, *)
(* and none outlives a failed binding.                                     *)
DiskAccounted ==
    \A n \in Node : nodeDisk[n] = DiskOnNode(n) /\ nodeDisk[n] <= DiskCap[n]

(* No channel of a watcher fills up and nothing is sent on simulatorStop   *)
(* once it is closed.                                                      *)
NoPanic == ~panicked

(* A reported pod is really unschedulable: when the caller takes it off,   *)
(* there is no node with room for it.                                      *)
ReportedUnfit ==
    pc = "collect" /\ stopReason # NoPod =>
        \A n \in Node : \/ Cpu[Cur] # 0 /\ CpuOnNode(n) + Cpu[Cur] > CpuCap[n]
                       \/ ~LocalFits(Cur, n)

(* An empty list of unscheduled pods means that every pod of the workload  *)
(* has a node in the report (core.go, the result of Simulate).             *)
EmptyMeansPlaced ==
    outcome = "ok" /\ failedPods = <<>> =>
        \A i \in DOMAIN Workload : \E n \in Node : Workload[i] \in nodeStatus[n]

(* A placed pod stays where it is: schedulePods deletes only pods that have *)
(* no node, and nothing binds a pod twice.                                  *)
PlacementFinal ==
    [][\A p \in Pod : store[p].node \in Node => store'[p].node = store[p].node]_vars

(* What was taken off the simulation never comes back, although the        *)
(* scheduler may still have it queued, assumed or in a binding goroutine.  *)
FailedStayGone == [][\A p \in Failed : store'[p].node = Absent]_vars

(* Simulate implements the sequential Simulation: a pod counts as decided  *)
(* when the caller has taken its token and moved on.                       *)
Decided == {Workload[i] : i \in 1 .. pos - 1}

Sequential == INSTANCE Simulation WITH
    next <- pos,
    home <- [p \in Pod |-> IF p \in Decided \ Failed THEN store[p].node ELSE Unbound],
    rejected <- [i \in DOMAIN failedPods |-> failedPods[i].pod],
    result <- outcome

ImplementsSequential == Sequential!Spec

(* An error, too, is returned: Close, deferred by Simulate, does not keep   *)
(* the caller (core.go).                                                    *)
ErrorReturns == outcome = "error" ~> pc = "done"

(* The wait in Close ends, because the scheduler takes the pod that Close   *)
(* creates for it (simulator.go, Close).                                    *)
CloseEnds == pc = "waitTest" ~> pc = "done"

(* The wait in schedulePods ends: whatever becomes of the pod, update() is  *)
(* called for it (simulator.go, schedulePods).                              *)
WaitEnds == pc = "wait" ~> pc # "wait"

(* Close returns and the scheduler stops, if the scheduler was waiting for *)
(* a pod when Close created its own.                                       *)
CloseReturns == pc = "waitTest" /\ spc = "pop" ~> pc = "done" /\ spc = "stopped"

=============================================================================
