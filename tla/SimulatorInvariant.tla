------------------------- MODULE SimulatorInvariant -------------------------
(***************************************************************************)
(* Why the token on simulatorStop is always that of the pod the caller     *)
(* waits for.  While no pod is retried, one baton travels through the      *)
(* goroutines: the watch event that creates the pod, the scheduling queue, *)
(* the scheduler's loop, the binding goroutine, the watch event of the     *)
(* update, the listener's buffer, the blocked send.  At each stage the     *)
(* other ones are empty.                                                   *)
(***************************************************************************)
EXTENDS Simulator

Fresh == [node |-> Unbound, reason |-> "none"]

(* The pod the caller waits for, if it waits.                              *)
Owed == CASE pc = "wait" -> {Cur} [] pc = "waitTest" -> {TestPod} [] OTHER -> {}

(* An event that leads to a token.                                         *)
IsToken(e) == e.pod \in Ours /\ NodeName[e.pod] = Unbound /\ e.obj.node # Absent
IsDeletion(e) == e.obj.node = Absent

NonePending == \A i \in DOMAIN schedQ : ~schedQ[i].add
NoneActive == \A p \in Pod : queued[p] # "active"
NoneBinding == \A p \in Pod : binding[p].step = "none"

Exclusive ==
    /\ podWatch # <<>> => NonePending
    /\ ~(podWatch = <<>> /\ NonePending) => NoneActive
    /\ ~(podWatch = <<>> /\ NonePending /\ NoneActive) => scur = NoPod
    /\ ~(podWatch = <<>> /\ NonePending /\ NoneActive /\ scur = NoPod) => NoneBinding
    /\ ~(podWatch = <<>> /\ NonePending /\ NoneActive /\ scur = NoPod /\ NoneBinding)
         => simQ = <<>>
    /\ ~(/\ podWatch = <<>> /\ NonePending /\ NoneActive /\ scur = NoPod /\ NoneBinding
         /\ simQ = <<>>)
         => handler = NoPod

(* Whoever holds the baton is owed.                                        *)
HolderOwed ==
    /\ \A i \in DOMAIN podWatch : IsToken(podWatch[i]) => podWatch[i].pod \in Owed
    /\ \A i \in DOMAIN schedQ : schedQ[i].add => schedQ[i].pod \in Owed
    /\ \A p \in Pod : queued[p] = "active" => p \in Owed
    /\ scur # NoPod => scur \in Owed
    /\ \A p \in Pod : binding[p].step # "none" => p \in Owed
    /\ \A i \in DOMAIN simQ : simQ[i].pod \in Owed
    /\ handler # NoPod => handler \in Owed

(* A deletion is the first event of the watch, a token the last, and what  *)
(* is between creates pods that name their node.                           *)
WatchShape ==
    \A i \in DOMAIN podWatch :
        LET e == podWatch[i] IN
        /\ IsToken(e) => i = Len(podWatch) /\ e.obj = store[e.pod]
        /\ IsToken(e) /\ e.obj = Fresh =>
             \/ lister[e.pod].node = Absent
             \/ i # 1 /\ podWatch[1].pod = e.pod /\ IsDeletion(podWatch[1])
        /\ IsToken(e) /\ e.obj # Fresh => i = 1 /\ lister[e.pod] = Fresh
        /\ IsDeletion(e) => i = 1 /\ NodeName[e.pod] = Unbound
        /\ ~IsDeletion(e) => store[e.pod].node # Absent
        /\ ~IsDeletion(e) /\ NodeName[e.pod] # Unbound =>
             lister[e.pod].node = Absent /\ e.obj.node = NodeName[e.pod]

(* Before the watch is open nothing is on its way and nothing is indexed.  *)
Unwatched == ~watching => podWatch = <<>> /\ \A p \in Pod : lister[p].node = Absent

DistinctCreations ==
    \A i, j \in DOMAIN podWatch :
        /\ ~IsDeletion(podWatch[i]) /\ ~IsDeletion(podWatch[j])
        /\ podWatch[i].pod = podWatch[j].pod
        => i = j

(* The indexer has a pod the API server has not only while the deletion    *)
(* is on its way.                                                          *)
ListerBehind ==
    \A p \in Pod :
        store[p].node = Absent /\ lister[p].node # Absent =>
            podWatch # <<>> /\ podWatch[1].pod = p /\ IsDeletion(podWatch[1])

(* What the scheduler works on is as the caller created it.                *)
FreshInScheduler ==
    /\ \A i \in DOMAIN schedQ :
         schedQ[i].add => /\ i = Len(schedQ)
                          /\ store[schedQ[i].pod] = Fresh /\ lister[schedQ[i].pod] = Fresh
    /\ \A p \in Pod :
         queued[p] = "active" \/ scur = p \/ binding[p].step # "none" =>
             store[p] = Fresh /\ lister[p] = Fresh

UpdatesCurrent ==
    /\ Len(simQ) <= 1
    /\ \A i \in DOMAIN simQ : simQ[i].obj = store[simQ[i].pod]

OnlyPendingFail == \A p \in Pod : store[p].reason = "Unschedulable" => store[p].node = Unbound

ReasonOfOwed ==
    stopReason # NoPod =>
        \/ /\ pc = "wait" /\ handler = Cur /\ stopReason = Cur
           /\ store[Cur].node = Unbound
        \/ /\ pc = "collect" /\ stopReason = Cur
           /\ store[Cur].node = Unbound /\ NodeName[Cur] = Unbound
        \/ pc \in {"waitTest", "shut", "done"}

CallerState ==
    /\ pc = "wait" => NodeName[Cur] = Unbound
    /\ pc = "collect" /\ NodeName[Cur] = Unbound => podWatch = <<>>
    /\ pc \notin {"waitTest", "shut", "done"} => store[TestPod].node = Absent
    /\ closed => pc = "done"

(* With no pod that names its node, a deletion and a creation are all the  *)
(* watcher's channel ever holds.                                           *)
ShortWatch ==
    (\A p \in Pod : NodeName[p] = Unbound) =>
        Len(podWatch) <= IF pc \in {"wait", "waitTest"} THEN 2 ELSE 1

(* The inductive invariant: one holder, who is owed, and buffers that hold *)
(* what a single hand-over puts into them.  It needs MaxRetries = 0.       *)
Baton ==
    /\ Exclusive /\ HolderOwed /\ WatchShape /\ Unwatched /\ DistinctCreations /\ ListerBehind
    /\ FreshInScheduler /\ UpdatesCurrent /\ OnlyPendingFail /\ ReasonOfOwed /\ CallerState
    /\ ShortWatch

-----------------------------------------------------------------------------
(* What holds of a pod by itself, whatever the timers bring back: it is    *)
(* created once, one attempt to schedule it is under way at a time, and    *)
(* none after it got a node.                                               *)

(* schedulePods or Close has yet to create p.                              *)
MayCreate(p) ==
    \/ /\ pc \in {"start", "nodes", "create"}
       /\ \E i \in pos .. Len(Workload) : Workload[i] = p
    \/ /\ pc \in {"wait", "collect"}
       /\ \E i \in pos + 1 .. Len(Workload) : Workload[i] = p
    \/ p = TestPod /\ pc \notin {"waitTest", "shut", "done"}

AddPending(p) == \E i \in DOMAIN schedQ : schedQ[i].pod = p /\ schedQ[i].add

Attempted(p) ==
    AddPending(p) \/ queued[p] # "no" \/ scur = p \/ binding[p].step # "none"

UnboundEvent(p) ==
    \E i \in DOMAIN podWatch : podWatch[i].pod = p /\ podWatch[i].obj.node = Unbound

(* p has a node, or had one: in the store, on the watch, in the indexer,   *)
(* or in an event for the scheduler's cache.                               *)
Assigned(p) ==
    \/ store[p].node \in Node \/ lister[p].node \in Node
    \/ \E i \in DOMAIN podWatch : podWatch[i].pod = p /\ podWatch[i].obj.node \in Node
    \/ \E i \in DOMAIN assignedQ : assignedQ[i].pod = p

Untouched(p) ==
    /\ store[p].node = Absent /\ lister[p].node = Absent
    /\ \A i \in DOMAIN podWatch : podWatch[i].pod # p
    /\ ~Attempted(p) /\ ~Assigned(p)

CreatedOnce(p) == MayCreate(p) => Untouched(p)

(* The stages of an attempt exclude each other; a pod that failed may be   *)
(* queued while its condition is patched.                                  *)
OneAttempt(p) ==
    /\ \A i, j \in DOMAIN schedQ :
         schedQ[i].pod = p /\ schedQ[i].add /\ schedQ[j].pod = p /\ schedQ[j].add => i = j
    /\ AddPending(p) => queued[p] = "no" /\ scur # p /\ binding[p].step = "none"
    /\ queued[p] = "active" => scur # p /\ binding[p].step = "none"
    /\ scur = p => binding[p].step = "none" /\ (queued[p] = "no" \/ spc = "patch")
    /\ binding[p].step \notin {"none", "patch"} => queued[p] = "no"

(* What is attempted has no node, and the indexer shows it while it        *)
(* exists; before the indexer shows it nothing is attempted.               *)
AttemptUnassigned(p) ==
    /\ Attempted(p) => ~Assigned(p) /\ (store[p].node = Absent \/ lister[p].node = Unbound)
    /\ UnboundEvent(p) /\ lister[p].node # Unbound => ~Attempted(p) /\ ~Assigned(p)

(* Events arrive in the order unbound, bound, deleted.                     *)
EventOrder(p) ==
    /\ \A i, j \in DOMAIN podWatch :
         podWatch[i].pod = p /\ podWatch[j].pod = p /\ i < j =>
             /\ podWatch[i].obj.node = Absent => podWatch[j].obj.node = Absent
             /\ podWatch[i].obj.node \in Node => podWatch[j].obj.node # Unbound
    /\ \A i \in DOMAIN podWatch :
         podWatch[i].pod = p /\ IsDeletion(podWatch[i]) => store[p].node = Absent
    /\ lister[p].node \in Node => ~UnboundEvent(p)

(* Nothing of p follows its removal from the scheduler's cache.            *)
RemovedLast(p) ==
    \A i \in DOMAIN assignedQ :
        assignedQ[i].pod = p /\ assignedQ[i].node \notin Node =>
            /\ store[p].node = Absent
            /\ \A j \in DOMAIN podWatch : podWatch[j].pod = p => IsDeletion(podWatch[j])
            /\ \A j \in DOMAIN assignedQ :
                 i < j /\ assignedQ[j].pod = p => assignedQ[j].node \notin Node

(* The cache counts p on its node from the start of its binding on.        *)
Counted(p) ==
    /\ store[p].node \in Node => cache[p] = store[p].node
    /\ \A i \in DOMAIN podWatch :
         podWatch[i].pod = p /\ podWatch[i].obj.node \in Node => cache[p] = podWatch[i].obj.node
    /\ \A i \in DOMAIN assignedQ :
         assignedQ[i].pod = p /\ assignedQ[i].node \in Node => cache[p] = assignedQ[i].node
    /\ binding[p].step \in {"local", "write", "simon"} => cache[p] = binding[p].node

LifeOf(p) ==
    /\ CreatedOnce(p) /\ OneAttempt(p) /\ AttemptUnassigned(p) /\ EventOrder(p)
    /\ RemovedLast(p) /\ Counted(p)

(* The names of the pods given to schedulePods differ.                     *)
DistinctNames == \A i, j \in DOMAIN Workload : Workload[i] = Workload[j] => i = j

(* The invariant about the pods that the scheduler places.  It needs       *)
(* distinct names.                                                         *)
Life == \A p \in Pod : NodeName[p] = Unbound => LifeOf(p)

(* What the scheduler's cache counts fits.  It needs Life, and that a pod  *)
(* which names its node requests nothing.                                  *)
CacheFits == \A n \in Node : CpuUsed(n) <= CpuCap[n]

-----------------------------------------------------------------------------
(* The watch, the indexer and the cache's listener agree with the API      *)
(* server about a pod that has a node, and a binding is for the node that  *)
(* the cache has.  It makes CacheExact inductive, with MaxRetries = 0.     *)
PlacementKnown ==
    /\ \A p \in Pod : lister[p].node \in Node => store[p].node = lister[p].node
    /\ \A i \in DOMAIN podWatch :
         LET e == podWatch[i] IN
         e.obj.node \in Node \/ store[e.pod].node \in Node => e.obj.node = store[e.pod].node
    /\ \A i \in DOMAIN assignedQ :
         /\ assignedQ[i].node \in Node
         /\ store[assignedQ[i].pod].node = assignedQ[i].node
    /\ \A p \in Pod :
         binding[p].step \in {"local", "write", "simon"} => cache[p] = binding[p].node

-----------------------------------------------------------------------------
(* Nobody writes the storage annotation between the Get and the Update of  *)
(* open-local's Bind.  It makes DiskAccounted inductive, with MaxRetries   *)
(* = 0, if a pod that names its node asks for no storage.                  *)
NamedStoreNothing == \A p \in Pod : NodeName[p] # Unbound => Disk[p] = 0

Booked ==
    \A p \in Pod :
        LET n == binding[p].node IN
        binding[p].step = "write" =>
            binding[p].read = nodeDisk[n] /\ nodeDisk[n] + Disk[p] <= DiskCap[n]

-----------------------------------------------------------------------------
(* Without storage every attempt ends with a node or with a reason, and    *)
(* the caller gets the one or the other: why each pod of the workload is   *)
(* in the report or in the list.  It needs MaxRetries = 0.                 *)
NoStorage == \A p \in Pod : Disk[p] = 0

NoBindError ==
    \A p \in Pod : binding[p].step \in {"none", "simon"} /\ store[p].reason # "SchedulerError"

(* An update says that the pod has a node, or that there is none for it.   *)
TellingUpdates ==
    \A i \in DOMAIN simQ : simQ[i].obj.node \in Node \/ simQ[i].obj.reason = "Unschedulable"

Answered == stopReason = Cur \/ store[Cur].node \in Node

AnsweredWait ==
    /\ pc = "wait" /\ handler # NoPod => Answered
    /\ pc = "collect" /\ NodeName[Cur] = Unbound => Answered
    /\ pc = "collect" /\ NodeName[Cur] # Unbound => store[Cur].node = NodeName[Cur]

AllDecided ==
    \A i \in 1 .. pos - 1 : Workload[i] \in Failed \/ store[Workload[i]].node \in Node

ResultAtEnd ==
    /\ pc \in {"start", "nodes", "create", "wait", "collect"} => outcome = "none"
    /\ outcome = "ok" => pos = Len(Workload) + 1

Judged == NoBindError /\ TellingUpdates /\ AnsweredWait /\ AllDecided /\ ResultAtEnd
=============================================================================
