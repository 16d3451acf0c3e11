------------------------------ MODULE GpuShare ------------------------------
(***************************************************************************)
(* The GPU share plugin (pkg/simulator/plugin/open-gpu-share.go) and its   *)
(* cache of devices (pkg/type/open-gpu-share/cache), while schedulePods    *)
(* feeds the scheduler.  Filter and Reserve run on the scheduler's loop,   *)
(* Bind and Unreserve on the binding goroutine of each pod; Reserve,       *)
(* Unreserve and open-local's Bind each read a node object from the fake   *)
(* API server and write it back whole, with no resource version.           *)
(*                                                                         *)
(* Of schedulePods, the informers and the queues, which module Simulator   *)
(* describes, only the outcome is kept: a token for every pod update, in   *)
(* order, and a caller that creates the next pod when it has one.  Any     *)
(* node that passes the filter may be chosen, open-local may refuse any    *)
(* pod that asks for storage.                                              *)
(***************************************************************************)
EXTENDS Integers, Sequences, FiniteSets, FiniteSetsExt, SequencesExt

CONSTANTS
    Pod, Node,
    Workload,         \* the pods given to schedulePods, in order
    NodeName,         \* spec.nodeName of each pod when it is created
    GpuMem, GpuNum,   \* annotations gpu-mem (per device) and gpu-count
    Preset,           \* the devices named by gpu-index, <<>> for none
    Storage,          \* the pods that ask for open-local storage
    Count, TotalMem,  \* capacity of the nodes: devices, and memory of them all
    MaxRetries,       \* bound on the pods that come back by a timer
    Absent, Unbound, NoPod

Devs(n) == 0 .. Count[n] - 1
DevMem(n) == TotalMem[n] \div Count[n]
Ids == Seq(Nat)
NoCopy == [node |-> Unbound, ids |-> <<>>]

ASSUME GpuShareAssumptions ==
    /\ Absent \notin Node /\ Unbound \notin Node /\ Absent # Unbound
    /\ NoPod \notin Pod /\ IsFiniteSet(Pod)
    /\ Workload \in Seq(Pod) /\ IsInjective(Workload)
    /\ NodeName \in [Pod -> Node \cup {Unbound}]
    /\ GpuMem \in [Pod -> Nat] /\ GpuNum \in [Pod -> Nat]
    /\ \A p \in Pod : Preset[p] \in Ids
    /\ Storage \subseteq Pod
    /\ Count \in [Node -> Nat] /\ TotalMem \in [Node -> Nat]
    /\ MaxRetries \in Nat

VARIABLES
    pos, awaited, tokens,   \* schedulePods, and the reasons on their way to it
    store, nodeObj,         \* the objects of the fake API server
    stage, target, retries, \* where the scheduler is with each pod
    known,                  \* the condition in the scheduler's copy of each pod
    read,                   \* the node object each pod's goroutine has read
    podMap, knownPods,      \* the cache: pods per device, pods known
    copies, lock            \* podToUpdateCacheMap and the plugin's mutex

callerVars == <<pos, awaited, tokens>>
cacheVars == <<podMap, knownPods>>
pluginVars == <<copies, lock>>
vars == <<callerVars, store, nodeObj, stage, target, retries, known, read,
          cacheVars, pluginVars>>

\* Where an attempt to schedule a pod is: on the loop, in its binding goroutine.
OnLoop == {"chosen", "reserving"}
InBinding == {"reserved", "storageRead", "booked", "rejected"}
Stage == {"idle", "queued", "waiting", "unreserving", "undone"} \cup OnLoop \cup InBinding

-----------------------------------------------------------------------------
(* The devices of a node.                                                  *)

(* How many times d occurs in a list of devices.                           *)
Times(d, ids) == Cardinality({i \in DOMAIN ids : ids[i] = d})

(* Mutant: a pod that holds a device twice is counted once.                *)
CountedOnce(n, d) == MapThenSumSet(LAMBDA r : GpuMem[r.pod], podMap[n][d])

GetUsedGpuMemory(n, d) ==
    MapThenSumSet(LAMBDA r : GpuMem[r.pod] * Times(d, r.ids), podMap[n][d])

Idle(n, d) == DevMem(n) - GetUsedGpuMemory(n, d)

(* One device: the tightest fit, the first of equals.                      *)
TightestFit(n, mem) ==
    LET fits == {d \in Devs(n) : Idle(n, d) >= mem}
        tight == {d \in fits : \A e \in fits : Idle(n, d) <= Idle(n, e)}
    IN  IF fits = {} THEN <<>> ELSE <<Min(tight)>>

(* Mutant: at most one container of the pod on a device.                   *)
Spread(n, mem, num) ==
    LET fits == {d \in Devs(n) : Idle(n, d) >= mem}
    IN  IF Cardinality(fits) < num THEN <<>>
        ELSE SubSeq(SetToSortSeq(fits, <), 1, num)

(* A round of the loop for several: another container on the device, if it *)
(* has room for one, or the next device.                                   *)
Advance(n, mem, num, at) ==
    IF at.dev = Count[n] \/ Len(at.ids) = num THEN at
    ELSE IF Idle(n, at.dev) - mem * Times(at.dev, at.ids) >= mem
         THEN [at EXCEPT !.ids = Append(@, at.dev)]
         ELSE [at EXCEPT !.dev = @ + 1]

(* Several: device after device, each filled before the next is looked at. *)
Packed(n, mem, num) ==
    LET round[k \in Nat] == IF k = 0 THEN [dev |-> 0, ids |-> <<>>]
                            ELSE Advance(n, mem, num, round[k - 1])
        list == round[Count[n] + num].ids
    IN  IF Len(list) = num THEN list ELSE <<>>

(* The devices p gets on n, <<>> if none are found.  Named devices are     *)
(* given as they are, whatever else they hold.                             *)
AllocateGpuId(p, n) ==
    CASE GpuMem[p] = 0 \/ GpuNum[p] = 0 \/ Count[n] = 0 -> <<>>
      [] OTHER -> IF Preset[p] # <<>> THEN Preset[p]
                  ELSE IF GpuNum[p] = 1 THEN TightestFit(n, GpuMem[p])
                  ELSE Packed(n, GpuMem[p], GpuNum[p])

(* Mutant: only the node is looked at, not its devices.                    *)
FilterByNodeOnly(p, n) == GpuMem[p] = 0 \/ TotalMem[n] >= GpuMem[p]

Filter(p, n) ==
    GpuMem[p] = 0 \/ (TotalMem[n] >= GpuMem[p] /\ AllocateGpuId(p, n) # <<>>)

(* The annotation of a node: what each device holds.                       *)
Export(n) == [d \in Devs(n) |-> GetUsedGpuMemory(n, d)]

-----------------------------------------------------------------------------
(* The cache.  Devices the node does not have are skipped; a pod that was  *)
(* given none that exist is not remembered.                                *)

Entry(p, copy) == [pod |-> p, ids |-> copy.ids]
On(copy) == Range(copy.ids) \cap Devs(copy.node)

AddOrUpdatePod(p, copy) ==
    /\ podMap' = [podMap EXCEPT ![copy.node] =
                     [d \in Devs(copy.node) |->
                         IF d \in On(copy)
                         THEN {r \in @[d] : r.pod # p} \cup {Entry(p, copy)}
                         ELSE @[d]]]
    /\ knownPods' = IF On(copy) = {} THEN knownPods ELSE knownPods \cup {p}

(* Mutant: the pod is forgotten, its devices are not freed.                *)
ForgetOnly(p, copy) == knownPods' = knownPods \ {p} /\ UNCHANGED podMap

RemovePod(p, copy) ==
    /\ podMap' = [podMap EXCEPT ![copy.node] =
                     [d \in Devs(copy.node) |->
                         IF d \in On(copy) THEN {r \in @[d] : r.pod # p} ELSE @[d]]]
    /\ knownPods' = knownPods \ {p}

-----------------------------------------------------------------------------
(* schedulePods, and the updates that give it its tokens.                  *)

(* A pod that names its node is not waited for, and no plugin sees it: the *)
(* cache is not built from the pods of the cluster.                        *)
CreatePod ==
    /\ awaited = NoPod /\ pos < Len(Workload)
    /\ LET p == Workload[pos + 1] IN
           /\ store' = [store EXCEPT ![p].node = NodeName[p]]
           /\ IF NodeName[p] = Unbound
              THEN awaited' = p /\ stage' = [stage EXCEPT ![p] = "queued"]
              ELSE UNCHANGED <<awaited, stage>>
    /\ pos' = pos + 1
    /\ UNCHANGED <<tokens, nodeObj, target, retries, known, read, cacheVars, pluginVars>>

(* A token with the reason Unschedulable deletes the pod waited for.       *)
Receive ==
    /\ awaited # NoPod /\ tokens # <<>>
    /\ tokens' = Tail(tokens) /\ awaited' = NoPod
    /\ IF Head(tokens) = "Unschedulable"
       THEN /\ store' = [store EXCEPT ![awaited].node = Absent]
            /\ stage' = [stage EXCEPT ![awaited] =
                            IF @ \in {"queued", "waiting"} THEN "idle" ELSE @]
       ELSE UNCHANGED <<store, stage>>
    /\ UNCHANGED <<pos, nodeObj, target, retries, known, read, cacheVars, pluginVars>>

(* A failed attempt.  The error function takes the pod from the informer   *)
(* for the next attempt: no update reaches the queue's copy, the fake API  *)
(* server gives no resource versions.  Then updatePod patches the          *)
(* condition; an equal one may change nothing.                             *)
PatchCondition(p, reason) ==
    /\ known' = [known EXCEPT ![p] = store[p].reason]
    /\ \/ /\ store[p].node # Absent
          /\ store' = [store EXCEPT ![p].reason = reason]
          /\ tokens' = Append(tokens, reason)
       \/ /\ store[p].node = Absent \/ store[p].reason = reason
          /\ UNCHANGED <<store, tokens>>

-----------------------------------------------------------------------------
(* The scheduler's loop.                                                   *)

LoopFree == \A q \in Pod : stage[q] \notin OnLoop

Choose(p, n) ==
    /\ stage[p] = "queued" /\ LoopFree
    /\ Filter(p, n)
    /\ stage' = [stage EXCEPT ![p] = "chosen"]
    /\ target' = [target EXCEPT ![p] = n]
    /\ UNCHANGED <<callerVars, store, nodeObj, retries, known, read, cacheVars, pluginVars>>

FitsNowhere(p) ==
    /\ stage[p] = "queued" /\ LoopFree
    /\ \A n \in Node : ~Filter(p, n)
    /\ stage' = [stage EXCEPT ![p] = "waiting"]
    /\ PatchCondition(p, "Unschedulable")
    /\ UNCHANGED <<pos, awaited, nodeObj, target, retries, read, cacheVars, pluginVars>>

ReserveNoGpu(p) ==
    /\ stage[p] = "chosen" /\ GpuMem[p] = 0
    /\ stage' = [stage EXCEPT ![p] = "reserved"]
    /\ UNCHANGED <<callerVars, store, nodeObj, target, retries, known, read, cacheVars,
                   pluginVars>>

(* Reserve under the lock, up to the node object.  That it finds devices   *)
(* once Filter has is ReserveFinds.                                        *)
Reserve(p) ==
    LET n == target[p]
        copy == [node |-> n, ids |-> AllocateGpuId(p, n)]
    IN  /\ stage[p] = "chosen" /\ GpuMem[p] > 0
        /\ lock = NoPod
        /\ copy.ids # <<>>
        /\ copies' = [copies EXCEPT ![p] = copy]
        /\ read' = [read EXCEPT ![p] = nodeObj[n]]
        /\ AddOrUpdatePod(p, copy)
        /\ lock' = p
        /\ stage' = [stage EXCEPT ![p] = "reserving"]
        /\ UNCHANGED <<callerVars, store, nodeObj, target, retries, known>>

(* Mutant: the annotation is left as it was read.                          *)
WriteBackOnly(p) == nodeObj' = [nodeObj EXCEPT ![target[p]] = read[p]]

(* Reserve and Unreserve end in writing back the object they read, with    *)
(* the annotation that the cache gives by then.                            *)
UpdateNode(p) ==
    nodeObj' = [nodeObj EXCEPT ![target[p]] = [read[p] EXCEPT !.gpu = Export(target[p])]]

ReserveUpdate(p) ==
    /\ stage[p] = "reserving"
    /\ UpdateNode(p)
    /\ lock' = NoPod
    /\ stage' = [stage EXCEPT ![p] = "reserved"]
    /\ UNCHANGED <<callerVars, store, target, retries, known, read, cacheVars, copies>>

-----------------------------------------------------------------------------
(* The binding goroutine of p.                                             *)

Goto(p, s) == stage' = [stage EXCEPT ![p] = s]

(* open-local's Bind reads the node and refuses it or goes on.             *)
LocalBindGet(p) ==
    /\ stage[p] = "reserved" /\ p \in Storage
    /\ \/ read' = [read EXCEPT ![p] = nodeObj[target[p]]] /\ Goto(p, "storageRead")
       \/ Goto(p, "rejected") /\ UNCHANGED read
    /\ UNCHANGED <<callerVars, store, nodeObj, target, retries, known, cacheVars, pluginVars>>

LocalBindUpdate(p) ==
    /\ stage[p] = "storageRead"
    /\ nodeObj' = [nodeObj EXCEPT ![target[p]] =
                      [read[p] EXCEPT !.local = @ \cup {p}]]
    /\ Goto(p, "booked")
    /\ UNCHANGED <<callerVars, store, target, retries, known, read, cacheVars, pluginVars>>

AfterLocalBind(p) == stage[p] = "booked" \/ (stage[p] = "reserved" /\ p \notin Storage)

(* The write of a bound pod.  The GPU plugin writes the copy that Reserve  *)
(* made of the scheduler's pod, with the condition it had; Simon's Bind    *)
(* writes what it has just read.                                           *)
WriteBound(p, n, ids, reason) ==
    /\ store[p].node # Absent
    /\ store' = [store EXCEPT ![p] = [node |-> n, ids |-> ids, reason |-> reason]]
    /\ tokens' = Append(tokens, reason)
    /\ Goto(p, "idle")

Bind(p) ==
    /\ AfterLocalBind(p) /\ GpuMem[p] > 0
    /\ lock = NoPod
    /\ \/ /\ WriteBound(p, copies[p].node, copies[p].ids, known[p])
          /\ copies' = [copies EXCEPT ![p] = NoCopy]
       \/ /\ store[p].node = Absent /\ Goto(p, "rejected")
          /\ UNCHANGED <<store, tokens, copies>>
    /\ UNCHANGED <<pos, awaited, nodeObj, target, retries, known, read, cacheVars, lock>>

BindNoGpu(p) ==
    /\ AfterLocalBind(p) /\ GpuMem[p] = 0
    /\ \/ WriteBound(p, target[p], <<>>, store[p].reason)
       \/ /\ store[p].node = Absent /\ Goto(p, "rejected")
          /\ UNCHANGED <<store, tokens>>
    /\ UNCHANGED <<pos, awaited, nodeObj, target, retries, known, read, cacheVars, pluginVars>>

UnreserveNoCopy(p) ==
    /\ stage[p] = "rejected" /\ copies[p] = NoCopy
    /\ lock = NoPod
    /\ Goto(p, "undone")
    /\ UNCHANGED <<callerVars, store, nodeObj, target, retries, known, read, cacheVars, pluginVars>>

(* Unreserve up to the node object.  The entry of podToUpdateCacheMap      *)
(* stays; the next Reserve of the pod replaces it.                         *)
Unreserve(p) ==
    /\ stage[p] = "rejected" /\ copies[p] # NoCopy
    /\ lock = NoPod
    /\ read' = [read EXCEPT ![p] = nodeObj[target[p]]]
    /\ RemovePod(p, copies[p])
    /\ lock' = p
    /\ Goto(p, "unreserving")
    /\ UNCHANGED <<callerVars, store, nodeObj, target, retries, known, copies>>

(* Mutant: the mutex is kept.                                              *)
UnreserveUpdateKeepingLock(p) ==
    /\ stage[p] = "unreserving"
    /\ UpdateNode(p)
    /\ Goto(p, "undone")
    /\ UNCHANGED <<callerVars, store, target, retries, known, read, cacheVars, copies, lock>>

UnreserveUpdate(p) ==
    /\ stage[p] = "unreserving"
    /\ UpdateNode(p)
    /\ lock' = NoPod
    /\ Goto(p, "undone")
    /\ UNCHANGED <<callerVars, store, target, retries, known, read, cacheVars, copies>>

RecordBindError(p) ==
    /\ stage[p] = "undone"
    /\ Goto(p, "waiting")
    /\ PatchCondition(p, "SchedulerError")
    /\ UNCHANGED <<pos, awaited, nodeObj, target, retries, read, cacheVars, pluginVars>>

(* A timer of the scheduling queue, a second or more later: every token of *)
(* the attempt has been received by then.                                  *)
Retry(p) ==
    /\ stage[p] = "waiting" /\ store[p].node = Unbound
    /\ tokens = <<>>
    /\ retries < MaxRetries
    /\ retries' = retries + 1
    /\ Goto(p, "queued")
    /\ UNCHANGED <<callerVars, store, nodeObj, target, known, read, cacheVars, pluginVars>>

-----------------------------------------------------------------------------

Init ==
    /\ pos = 0 /\ awaited = NoPod /\ tokens = <<>>
    /\ store = [p \in Pod |-> [node |-> Absent, ids |-> Preset[p], reason |-> "none"]]
    /\ nodeObj = [n \in Node |-> [gpu |-> [d \in Devs(n) |-> 0], local |-> {}]]
    /\ stage = [p \in Pod |-> "idle"]
    /\ target = [p \in Pod |-> Unbound]
    /\ retries = 0
    /\ known = [p \in Pod |-> "none"]
    /\ read = [p \in Pod |-> [gpu |-> <<>>, local |-> {}]]
    /\ podMap = [n \in Node |-> [d \in Devs(n) |-> {}]]
    /\ knownPods = {}
    /\ copies = [p \in Pod |-> NoCopy]
    /\ lock = NoPod

BindingStep(p) ==
    \/ LocalBindGet(p) \/ LocalBindUpdate(p) \/ Bind(p) \/ BindNoGpu(p)
    \/ UnreserveNoCopy(p) \/ Unreserve(p) \/ UnreserveUpdate(p) \/ RecordBindError(p)

Next ==
    \/ CreatePod \/ Receive
    \/ \E p \in Pod :
          \/ \E n \in Node : Choose(p, n)
          \/ FitsNowhere(p) \/ ReserveNoGpu(p) \/ Reserve(p) \/ ReserveUpdate(p)
          \/ BindingStep(p)
          \/ Retry(p)

Spec == Init /\ [][Next]_vars

-----------------------------------------------------------------------------
(* Types.                                                                  *)

NodeObject(n) == [gpu: [Devs(n) -> Nat], local: SUBSET Pod]
Copy == [node: Node \cup {Unbound}, ids: Ids]

(* The variables hold what their declarations say; the lock is held        *)
(* exactly from the read of a node to its write in Reserve and Unreserve.  *)
TypeOK ==
    /\ pos \in 0 .. Len(Workload) /\ awaited \in Pod \cup {NoPod}
    /\ tokens \in Seq({"none", "Unschedulable", "SchedulerError"})
    /\ store \in [Pod -> [node: Node \cup {Absent, Unbound}, ids: Ids,
                          reason: {"none", "Unschedulable", "SchedulerError"}]]
    /\ \A n \in Node : nodeObj[n] \in NodeObject(n)
    /\ stage \in [Pod -> Stage] /\ target \in [Pod -> Node \cup {Unbound}]
    /\ retries \in 0 .. MaxRetries
    /\ known \in [Pod -> {"none", "Unschedulable", "SchedulerError"}]
    /\ \A n \in Node : \A d \in Devs(n) : podMap[n][d] \in SUBSET [pod: Pod, ids: Ids]
    /\ knownPods \subseteq Pod
    /\ copies \in [Pod -> Copy]
    /\ \A p \in Pod : lock = p <=> stage[p] \in {"reserving", "unreserving"}

-----------------------------------------------------------------------------
(* What pods hold, whatever the cache says: a bound pod by its annotation, *)
(* a pod between Reserve and Bind or Unreserve by its copy.                *)

Reserved(p) == GpuMem[p] > 0 /\ stage[p] \in {"reserving"} \cup InBinding

Holding(p) ==
    CASE Reserved(p) -> copies[p]
      [] ~Reserved(p) /\ GpuMem[p] > 0 /\ store[p].node \in Node ->
             [node |-> store[p].node, ids |-> store[p].ids]
      [] OTHER -> NoCopy

Holders(n, d) == {p \in Pod : Holding(p).node = n /\ d \in Range(Holding(p).ids)}

Load(n, d) ==
    MapThenSumSet(LAMBDA p : GpuMem[p] * Times(d, Holding(p).ids), Holders(n, d))

(* No device is given out beyond its memory, counting what is reserved     *)
(* while several pods bind, unless one of its pods came with its devices   *)
(* named: such a pod is not checked, or, on the cluster, not even counted. *)
DeviceFits ==
    \A n \in Node : \A d \in Devs(n) :
        Load(n, d) <= DevMem(n) \/ \E p \in Holders(n, d) : Preset[p] # <<>>

(* The cache counts every pod that the scheduler gave a device, with the   *)
(* devices that its annotation names, and besides them only pods that were *)
(* deleted, which takes a retry: nobody is charged twice and nothing is    *)
(* left over by a failed binding.                                          *)
CacheCounts ==
    \A n \in Node : \A d \in Devs(n) :
        LET given == {p \in Holders(n, d) : NodeName[p] = Unbound}
            held == {Entry(p, Holding(p)) : p \in given}
        IN
        /\ held \subseteq podMap[n][d]
        /\ \A r \in podMap[n][d] \ held :
               store[r.pod].node = Absent /\ retries > 0

(* Two plugins write the same node object whole and without a resource     *)
(* version.  As long as no pod comes back by a timer neither loses what    *)
(* the other wrote: between two reservations the annotation that Apply     *)
(* reports is what the cache counts, and the storage of each pod that the  *)
(* scheduler bound is in the object; no plugin sees a pod that names its   *)
(* node.                                                                   *)
NodeObjectKept ==
    retries = 0 =>
        /\ lock = NoPod => \A n \in Node : nodeObj[n].gpu = Export(n)
        /\ \A p \in Storage : NodeName[p] = Unbound /\ store[p].node \in Node =>
              p \in nodeObj[store[p].node].local

(* What Filter promised Reserve finds: between the two only other pods'    *)
(* Unreserve may touch the devices.                                        *)
ReserveFinds ==
    \A p \in Pod :
        stage[p] = "chosen" /\ GpuMem[p] > 0 => AllocateGpuId(p, target[p]) # <<>>

(* How many pieces of mem all devices of n have room for.                  *)
Room(n, mem) == MapThenSumSet(LAMBDA d : IF Idle(n, d) > 0 THEN Idle(n, d) \div mem ELSE 0,
                              Devs(n))

(* The greedy allocation misses nothing: it finds devices exactly if there *)
(* is room for gpu-count pieces of gpu-mem, as many as asked for, and puts *)
(* no more on a device than is idle there.                                 *)
AllocationExact ==
    \A p \in Pod : \A n \in Node :
        GpuMem[p] > 0 /\ GpuNum[p] > 0 /\ Preset[p] = <<>> =>
            LET ids == AllocateGpuId(p, n) IN
            /\ ids # <<>> <=> Room(n, GpuMem[p]) >= GpuNum[p]
            /\ ids # <<>> =>
                   /\ Len(ids) = GpuNum[p]
                   /\ \A d \in Range(ids) :
                          d \in Devs(n) /\ GpuMem[p] * Times(d, ids) <= Idle(n, d)

=============================================================================
