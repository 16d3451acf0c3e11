--------------------------- MODULE SimulatorProofs ---------------------------
(***************************************************************************)
(* Theorems about Simulator for every workload, cluster and channel size.  *)
(***************************************************************************)
EXTENDS SimulatorInvariant, SequenceTheorems, TLAPS

-----------------------------------------------------------------------------
(* What the elements of the sequences are.                                 *)

LEMMA CreatedNode ==
  ASSUME CallerType, created < Len(NodeOrder)
  PROVE  NodeOrder[created + 1] \in Node
  BY SimulatorAssumptions DEF CallerType, SimulatorAssumptions

LEMMA CurIsPod ==
  ASSUME CallerType, pos <= Len(Workload)
  PROVE  Cur \in Pod /\ Cur # TestPod
  BY SimulatorAssumptions DEF CallerType, Cur, SimulatorAssumptions

LEMMA AppendElement ==
  ASSUME NEW S, NEW q \in Seq(S), NEW e \in S
  PROVE  /\ Append(q, e) \in Seq(S)
         /\ Len(Append(q, e)) = Len(q) + 1
         /\ \A i \in 1 .. Len(q) : Append(q, e)[i] = q[i]
         /\ Append(q, e)[Len(q) + 1] = e
  OBVIOUS

LEMMA WatchHead ==
  ASSUME StoreType, podWatch # <<>>
  PROVE  /\ Head(podWatch).pod \in Pod /\ Head(podWatch).obj \in Object
         /\ Head(podWatch).obj.node \in Where
<1>1. Head(podWatch) \in PodEvent
  BY HeadTailProperties DEF StoreType
<1> QED
  BY <1>1 DEF PodEvent, Object

LEMMA SimHead ==
  ASSUME InformerType, simQ # <<>>
  PROVE  Head(simQ).pod \in Pod
<1>1. Head(simQ) \in PodEvent
  BY HeadTailProperties DEF InformerType
<1> QED
  BY <1>1 DEF PodEvent

LEMMA NodeHead ==
  ASSUME NodeType, nodeQ # <<>>
  PROVE  Head(nodeQ).node \in Node /\ Head(nodeQ).disk \in Nat
<1>1. Head(nodeQ) \in [node: Node, disk: Nat]
  BY HeadTailProperties DEF NodeType
<1> QED
  BY <1>1

-----------------------------------------------------------------------------
(* Type correctness, for any number of retries.                            *)

LEMMA Frame ==
  /\ CallerType /\ UNCHANGED mainVars => CallerType'
  /\ StoreType /\ UNCHANGED <<podVars, watching>> => StoreType'
  /\ NodeType /\ UNCHANGED diskVars => NodeType'
  /\ InformerType /\ UNCHANGED <<lister, simQ, schedQ, assignedQ>> => InformerType'
  /\ LoopType /\ UNCHANGED <<loopVars, pc>> => LoopType'
  /\ CacheType /\ UNCHANGED cacheVars => CacheType'
  /\ QueueType /\ UNCHANGED queueVars => QueueType'
  /\ BindingType /\ UNCHANGED binding => BindingType'
  /\ ChannelType /\ UNCHANGED chanVars => ChannelType'
  BY DEF mainVars, podVars, diskVars, loopVars, cacheVars, queueVars, chanVars, CallerType,
     StoreType, NodeType, InformerType, LoopType, CacheType, QueueType, BindingType,
     ChannelType

LEMMA PublishType ==
  ASSUME StoreType, UNCHANGED watching, NEW p \in Pod, NEW o \in Object, Publish(p, o)
  PROVE  StoreType'
<1>1. store' \in [Pod -> Object]
  BY DEF StoreType, Publish
<1>2. podWatch' \in Seq(PodEvent)
  <2>1. [pod |-> p, obj |-> o] \in PodEvent
    BY DEF PodEvent
  <2> QED
    BY <2>1, AppendElement DEF StoreType, Publish
<1>3. panicked' \in BOOLEAN
  BY DEF StoreType, Publish
<1> QED
  BY <1>1, <1>2, <1>3 DEF StoreType

LEMMA PodInformerType ==
  ASSUME TypeOK, PodInformer
  PROVE  InformerType'
<1> DEFINE p == Head(podWatch).pod
           o == Head(podWatch).obj
<1>0. p \in Pod /\ o \in Object /\ o.node \in Where
  BY WatchHead DEF TypeOK, PodInformer
<1>1. lister' \in [Pod -> Object]
  BY <1>0 DEF TypeOK, InformerType, PodInformer
<1>2. simQ' \in Seq(PodEvent)
  <2>1. [pod |-> p, obj |-> o] \in PodEvent
    BY <1>0 DEF PodEvent
  <2> QED
    BY <2>1, AppendElement DEF TypeOK, InformerType, PodInformer
<1>3. schedQ' \in Seq([pod: Pod, add: BOOLEAN])
  <2>1. [pod |-> p, add |-> o.node = Unbound] \in [pod: Pod, add: BOOLEAN]
    BY <1>0
  <2> QED
    BY <2>1, AppendElement DEF TypeOK, InformerType, PodInformer
<1>4. assignedQ' \in Seq([pod: Pod, node: Where])
  <2>1. [pod |-> p, node |-> o.node] \in [pod: Pod, node: Where]
    BY <1>0
  <2> QED
    BY <2>1, AppendElement DEF TypeOK, InformerType, PodInformer
<1> QED
  BY <1>1, <1>2, <1>3, <1>4 DEF InformerType

LEMMA PublishNodeType ==
  ASSUME StoreType, NodeType, nodeDisk' \in [Node -> Nat], UNCHANGED <<store, podWatch, watching>>,
         NEW n \in Node, NEW d \in Nat, PublishNode(n, d)
  PROVE  NodeType' /\ StoreType'
<1>1. nodeQ' \in Seq([node: Node, disk: Nat])
  <2> DEFINE e == [node |-> n, disk |-> d]
  <2>1. nodeQ' \in {nodeQ, Append(nodeQ, e)}
    BY Zenon DEF PublishNode
  <2>2. e \in [node: Node, disk: Nat] /\ nodeQ \in Seq([node: Node, disk: Nat])
    BY DEF NodeType
  <2> HIDE DEF e
  <2>3. Append(nodeQ, e) \in Seq([node: Node, disk: Nat])
    BY <2>2, AppendElement
  <2> QED
    BY <2>1, <2>2, <2>3
<1>2. panicked' \in BOOLEAN
  <2>1. panicked \in BOOLEAN /\ (panicked \/ Len(nodeQ) >= ChanSize) \in BOOLEAN
    BY DEF StoreType
  <2> QED
    BY <2>1, Zenon DEF PublishNode
<1> QED
  BY <1>1, <1>2 DEF NodeType, StoreType

LEMMA PatchType ==
  ASSUME StoreType, UNCHANGED watching, NEW p \in Pod, NEW r \in Reason,
         PatchCondition(p, r)
  PROVE  StoreType'
  <1>1. CASE store[p].node # Absent /\ Publish(p, [store[p] EXCEPT !.reason = r])
    <2>1. [store[p] EXCEPT !.reason = r] \in Object
      BY DEF StoreType, Object
    <2> QED
      BY <1>1, <2>1, PublishType
  <1>2. CASE UNCHANGED podVars
    BY <1>2 DEF StoreType, podVars
  <1> QED
    BY <1>1, <1>2 DEF PatchCondition

THEOREM TypeCorrect == Spec => []TypeOK
<1>1. Init => TypeOK
  <2> SUFFICES ASSUME Init PROVE TypeOK
    OBVIOUS
  <2>1. CallerType
    <3>1. 1 \in 1 .. Len(Workload) + 1 /\ 0 \in 0 .. Len(NodeOrder)
      BY SimulatorAssumptions, LenProperties DEF SimulatorAssumptions
    <3> QED
      BY <3>1, EmptySeq DEF Init, CallerType
  <2>2. StoreType
    <3>1. NoObject \in Object
      BY DEF NoObject, Object, Where, Reason
    <3>2. watching \in BOOLEAN
      BY SimulatorAssumptions DEF Init, SimulatorAssumptions
    <3> QED
      BY <3>1, <3>2, EmptySeq DEF Init, StoreType
  <2>3. InformerType
    <3>1. NoObject \in Object
      BY DEF NoObject, Object, Where, Reason
    <3> QED
      BY <3>1, EmptySeq DEF Init, InformerType
  <2>4. NodeType
    BY EmptySeq DEF Init, NodeType
  <2>5. LoopType /\ CacheType /\ ChannelType
    BY DEF Init, LoopType, CacheType, ChannelType
  <2>6. QueueType
    <3>1. retries \in 0 .. MaxRetries
      BY SimulatorAssumptions DEF Init, SimulatorAssumptions
    <3> QED
      BY <3>1 DEF Init, QueueType
  <2>7. BindingType
    BY DEF Init, BindingType, NoBind, BindStep
  <2> QED
    BY <2>1, <2>2, <2>3, <2>4, <2>5, <2>6, <2>7 DEF TypeOK
<1>2. TypeOK /\ [Next]_vars => TypeOK'
  <2> SUFFICES ASSUME TypeOK, [Next]_vars PROVE TypeOK'
    OBVIOUS
  <2>1. CASE RefuseCluster
    <3>1. CallerType'
      BY <2>1 DEF TypeOK, CallerType, RefuseCluster, mainVars
    <3>2. LoopType'
      BY <2>1 DEF TypeOK, LoopType, RefuseCluster, loopVars, mainVars
    <3> QED
      BY <2>1, Frame, <3>1, <3>2 DEF TypeOK, RefuseCluster, infVars
  <2>2. CASE RunScheduler
    <3>1. CallerType'
      BY <2>2 DEF TypeOK, CallerType, RunScheduler, mainVars
    <3>2. LoopType'
      BY <2>2 DEF TypeOK, LoopType, RunScheduler, loopVars, mainVars
    <3> QED
      BY <2>2, Frame, <3>1, <3>2 DEF TypeOK, RunScheduler, infVars
  <2>3. CASE CreateNode
    <3>1. CallerType'
      BY <2>3, SimulatorAssumptions DEF TypeOK, CallerType, CreateNode, mainVars, SimulatorAssumptions
    <3>2. LoopType'
      BY <2>3 DEF TypeOK, LoopType, CreateNode, loopVars, mainVars
    <3>3. NodeType' /\ StoreType'
      <4>1. NodeOrder[created + 1] \in Node /\ nodeDisk' \in [Node -> Nat]
        BY <2>3, CreatedNode DEF TypeOK, NodeType, CreateNode
      <4> QED
        BY <2>3, <4>1, PublishNodeType DEF TypeOK, CreateNode, infVars
    <3> QED
      BY <2>3, Frame, <3>1, <3>2, <3>3 DEF TypeOK, CreateNode, infVars
  <2>4. CASE NodesCreated
    <3>1. CallerType'
      BY <2>4 DEF TypeOK, CallerType, NodesCreated, mainVars
    <3>2. LoopType'
      BY <2>4 DEF TypeOK, LoopType, NodesCreated, loopVars, mainVars
    <3> QED
      BY <2>4, Frame, <3>1, <3>2 DEF TypeOK, NodesCreated, infVars
  <2>5. CASE RefuseApp
    <3>1. CallerType'
      BY <2>5 DEF TypeOK, CallerType, RefuseApp, mainVars
    <3>2. LoopType'
      BY <2>5 DEF TypeOK, LoopType, RefuseApp, loopVars, mainVars
    <3> QED
      BY <2>5, Frame, <3>1, <3>2 DEF TypeOK, RefuseApp, infVars
  <2>6. CASE CreatePod
    <3>1. CallerType'
      BY <2>6 DEF TypeOK, CallerType, CreatePod, mainVars, AfterCreate
    <3>2. LoopType'
      BY <2>6 DEF TypeOK, LoopType, CreatePod, loopVars, mainVars, AfterCreate
    <3>3. StoreType'
      BY <2>6, CurIsPod, PublishType, SimulatorAssumptions DEF TypeOK, StoreType, CreatePod, podVars, infVars, Object, Where, Reason, SimulatorAssumptions
    <3> QED
      BY <2>6, Frame, <3>1, <3>2, <3>3 DEF TypeOK, CreatePod, infVars
  <2>7. CASE CreatePodFails
    <3>1. CallerType'
      BY <2>7 DEF TypeOK, CallerType, CreatePodFails, mainVars
    <3>2. LoopType'
      BY <2>7 DEF TypeOK, LoopType, CreatePodFails, loopVars, mainVars
    <3> QED
      BY <2>7, Frame, <3>1, <3>2 DEF TypeOK, CreatePodFails, infVars
  <2>8. CASE Receive
    <3>1. CallerType'
      BY <2>8 DEF TypeOK, CallerType, Receive, mainVars
    <3>2. LoopType'
      BY <2>8 DEF TypeOK, LoopType, Receive, loopVars, mainVars
    <3>3. ChannelType'
      BY <2>8 DEF TypeOK, ChannelType, Receive, chanVars
    <3> QED
      BY <2>8, Frame, <3>1, <3>2, <3>3 DEF TypeOK, Receive, infVars
  <2>9. CASE Collect
    <3>1. CallerType'
      <4>1. Cur \in Pod /\ pos <= Len(Workload)
        BY <2>9, CurIsPod DEF TypeOK, CallerType, Collect
      <4>2. failedPods' \in Seq([pod: Pod, why: Pod]) /\ stopReason' \in Pod \cup {NoPod}
        <5>1. CASE stopReason = NoPod /\ UNCHANGED <<stopReason, failedPods, podVars>>
          BY <5>1 DEF TypeOK, CallerType
        <5>2. CASE stopReason # NoPod /\ ReportFailed
          <6>1. [pod |-> Cur, why |-> stopReason] \in [pod: Pod, why: Pod]
            BY <4>1, <5>2 DEF TypeOK, CallerType
          <6> QED
            BY <5>2, <6>1, AppendElement DEF TypeOK, CallerType, ReportFailed
        <5> QED
          BY <2>9, <5>1, <5>2 DEF Collect
      <4> QED
        BY <2>9, <4>1, <4>2 DEF TypeOK, CallerType, Collect
    <3>2. LoopType'
      BY <2>9 DEF TypeOK, LoopType, Collect, loopVars, mainVars
    <3>3. StoreType'
      <4>1. CASE UNCHANGED podVars
        BY <2>9, <4>1, Frame DEF TypeOK, Collect, infVars
      <4>2. CASE ReportFailed
        <5>1. Cur \in Pod /\ NoObject \in Object
          BY <2>9, CurIsPod DEF TypeOK, CallerType, Collect, NoObject, Object, Where, Reason
        <5> QED
          BY <2>9, <4>2, <5>1, PublishType DEF TypeOK, Collect, ReportFailed, infVars
      <4> QED
        BY <2>9, <4>1, <4>2 DEF Collect
    <3> QED
      BY <2>9, Frame, <3>1, <3>2, <3>3 DEF TypeOK, Collect, infVars
  <2>10. CASE GetClusterNodeStatus
    <3>1. CallerType'
      BY <2>10 DEF TypeOK, CallerType, GetClusterNodeStatus, mainVars
    <3>2. LoopType'
      BY <2>10 DEF TypeOK, LoopType, GetClusterNodeStatus, loopVars, mainVars
    <3> QED
      BY <2>10, Frame, <3>1, <3>2 DEF TypeOK, GetClusterNodeStatus, infVars
  <2>11. CASE CancelScheduler
    <3>1. CallerType'
      BY <2>11 DEF TypeOK, CallerType, CancelScheduler, mainVars
    <3>2. LoopType'
      BY <2>11 DEF TypeOK, LoopType, CancelScheduler, loopVars, mainVars
    <3> QED
      BY <2>11, Frame, <3>1, <3>2 DEF TypeOK, CancelScheduler, infVars
  <2>12. CASE CreateTestPod
    <3>1. CallerType'
      BY <2>12 DEF TypeOK, CallerType, CreateTestPod, mainVars
    <3>2. LoopType'
      BY <2>12 DEF TypeOK, LoopType, CreateTestPod, loopVars, mainVars
    <3>3. StoreType'
      BY <2>12, PublishType, SimulatorAssumptions DEF TypeOK, StoreType, CreateTestPod, podVars, infVars, Object, Where, Reason, SimulatorAssumptions
    <3> QED
      BY <2>12, Frame, <3>1, <3>2, <3>3 DEF TypeOK, CreateTestPod, infVars
  <2>13. CASE CloseChannel
    <3>1. CallerType'
      BY <2>13 DEF TypeOK, CallerType, CloseChannel, mainVars
    <3>2. LoopType'
      BY <2>13 DEF TypeOK, LoopType, CloseChannel, loopVars, mainVars
    <3>3. ChannelType'
      BY <2>13 DEF TypeOK, ChannelType, CloseChannel, chanVars
    <3> QED
      BY <2>13, Frame, <3>1, <3>2, <3>3 DEF TypeOK, CloseChannel, infVars
  <2>14. CASE StartWatch
    <3>1. StoreType'
      BY <2>14 DEF TypeOK, StoreType, StartWatch, podVars, infVars
    <3>2. InformerType'
      BY <2>14 DEF TypeOK, InformerType, StartWatch, infVars
    <3> QED
      BY <2>14, Frame, <3>1, <3>2 DEF TypeOK, StartWatch, mainVars
  <2>15. CASE PodInformer
    <3>1. StoreType'
      BY <2>15 DEF TypeOK, StoreType, PodInformer, podVars, infVars
    <3>2. InformerType'
      BY <2>15, PodInformerType DEF TypeOK, InformerType, PodInformer, infVars
    <3> QED
      BY <2>15, Frame, <3>1, <3>2 DEF TypeOK, PodInformer, mainVars
  <2>16. CASE HandlePending
    <3>1. InformerType'
      BY <2>16 DEF TypeOK, InformerType, HandlePending, infVars
    <3>2. QueueType'
      BY <2>16 DEF TypeOK, QueueType, HandlePending, queueVars, InformerType, QueueAdd, QueueDelete
    <3> QED
      BY <2>16, Frame, <3>1, <3>2 DEF TypeOK, HandlePending, mainVars, infVars
  <2>17. CASE HandleAssigned
    <3>1. InformerType'
      BY <2>17 DEF TypeOK, InformerType, HandleAssigned, infVars
    <3>2. CacheType'
      BY <2>17 DEF TypeOK, CacheType, HandleAssigned, cacheVars, InformerType, Where
    <3>3. QueueType'
      BY <2>17 DEF TypeOK, QueueType, HandleAssigned, queueVars, MoveAll
    <3> QED
      BY <2>17, Frame, <3>1, <3>2, <3>3 DEF TypeOK, HandleAssigned, mainVars, infVars
  <2>18. CASE HandleNode
    <3>1. NodeType'
      BY <2>18 DEF TypeOK, NodeType, HandleNode, diskVars
    <3>2. CacheType'
      BY <2>18, NodeHead DEF TypeOK, CacheType, HandleNode, cacheVars
    <3>3. QueueType'
      BY <2>18 DEF TypeOK, QueueType, HandleNode, queueVars, MoveAll
    <3> QED
      BY <2>18, Frame, <3>1, <3>2, <3>3 DEF TypeOK, HandleNode, mainVars, infVars
  <2>19. CASE Update
    <3>1. CallerType'
      BY <2>19, SimHead DEF TypeOK, CallerType, Update, mainVars
    <3>2. LoopType'
      BY <2>19 DEF TypeOK, LoopType, Update, loopVars, mainVars
    <3>3. InformerType'
      BY <2>19 DEF TypeOK, InformerType, Update, infVars
    <3>4. ChannelType'
      BY <2>19, SimHead DEF TypeOK, ChannelType, Update, chanVars
    <3> QED
      BY <2>19, Frame, <3>1, <3>2, <3>3, <3>4 DEF TypeOK, Update, infVars
  <2>20. CASE SendOnClosedChannel
    <3>1. StoreType'
      BY <2>20 DEF TypeOK, StoreType, SendOnClosedChannel, podVars, infVars
    <3> QED
      BY <2>20, Frame, <3>1 DEF TypeOK, SendOnClosedChannel, mainVars, infVars
  <2>21. CASE EnterScheduleOne
    <3>1. LoopType'
      BY <2>21 DEF TypeOK, LoopType, EnterScheduleOne, loopVars, mainVars
    <3> QED
      BY <2>21, Frame, <3>1 DEF TypeOK, EnterScheduleOne, mainVars, infVars
  <2>22. CASE StopScheduler
    <3>1. LoopType'
      BY <2>22 DEF TypeOK, LoopType, StopScheduler, loopVars, mainVars
    <3> QED
      BY <2>22, Frame, <3>1 DEF TypeOK, StopScheduler, mainVars, infVars
  <2>23. CASE ScheduleFails
    <3>1. LoopType'
      BY <2>23 DEF TypeOK, LoopType, ScheduleFails, loopVars, mainVars
    <3> QED
      BY <2>23, Frame, <3>1 DEF TypeOK, ScheduleFails, mainVars, infVars
  <2>24. CASE RequeueUnschedulable
    <3>1. LoopType'
      BY <2>24 DEF TypeOK, LoopType, RequeueUnschedulable, loopVars, mainVars
    <3>2. QueueType'
      BY <2>24 DEF TypeOK, QueueType, RequeueUnschedulable, queueVars, LoopType, Requeue
    <3> QED
      BY <2>24, Frame, <3>1, <3>2 DEF TypeOK, RequeueUnschedulable, mainVars, infVars
  <2>25. CASE RecordUnschedulable
    <3>1. LoopType'
      BY <2>25 DEF TypeOK, LoopType, RecordUnschedulable, loopVars, mainVars
    <3>2. StoreType'
      BY <2>25, PatchType DEF TypeOK, RecordUnschedulable, LoopType, infVars, Reason
    <3> QED
      BY <2>25, Frame, <3>1, <3>2 DEF TypeOK, RecordUnschedulable, mainVars, infVars
  <2>26. ASSUME NEW p \in Pod, NextPod(p) PROVE TypeOK'
    <3>1. LoopType'
      BY <2>26, SimulatorAssumptions DEF TypeOK, LoopType, NextPod, loopVars, mainVars, SimulatorAssumptions
    <3>2. QueueType'
      BY <2>26 DEF TypeOK, QueueType, NextPod, queueVars
    <3> QED
      BY <2>26, Frame, <3>1, <3>2 DEF TypeOK, NextPod, mainVars, infVars
  <2>27. ASSUME NEW n \in Node, Assume(n) PROVE TypeOK'
    <3>1. LoopType'
      BY <2>27 DEF TypeOK, LoopType, Assume, loopVars, mainVars, CallerType
    <3>2. CacheType'
      BY <2>27 DEF TypeOK, CacheType, Assume, cacheVars, LoopType, AssumePod
    <3>3. BindingType'
      BY <2>27 DEF TypeOK, BindingType, Assume, LoopType, BindStep
    <3> QED
      BY <2>27, Frame, <3>1, <3>2, <3>3 DEF TypeOK, Assume, mainVars, infVars
  <2>28. ASSUME NEW p \in Pod, Retry(p) PROVE TypeOK'
    <3>1. QueueType'
      <4>1. queued' \in [Pod -> {"no", "active", "backoff", "unschedulable"}]
        BY <2>28 DEF TypeOK, QueueType, Retry
      <4>2. moved' \in BOOLEAN
        BY <2>28 DEF Retry
      <4>3. retries' \in 0 .. MaxRetries
        BY <2>28, SimulatorAssumptions DEF TypeOK, QueueType, Retry, SimulatorAssumptions
      <4> QED
        BY <4>1, <4>2, <4>3 DEF QueueType
    <3> QED
      BY <2>28, Frame, <3>1 DEF TypeOK, Retry, mainVars, infVars
  <2>29. ASSUME NEW p \in Pod, LocalBindGet(p) PROVE TypeOK'
    <3>1. BindingType'
      <4> DEFINE n == binding[p].node
      <4>1. n \in Node /\ nodeDisk[n] \in Nat
        BY <2>29 DEF TypeOK, BindingType, NodeType, LocalBindGet
      <4>2. CASE binding' = [binding EXCEPT ![p].step = "write", ![p].read = nodeDisk[n]]
        BY <4>1, <4>2 DEF TypeOK, BindingType, BindStep
      <4>3. CASE Goto(p, "forget")
        BY <4>1, <4>3 DEF TypeOK, BindingType, BindStep, Goto
      <4> QED
        BY <2>29, <4>2, <4>3 DEF LocalBindGet
    <3> QED
      BY <2>29, Frame, <3>1 DEF TypeOK, LocalBindGet, mainVars, infVars
  <2>30. ASSUME NEW p \in Pod, LocalBindUpdate(p) PROVE TypeOK'
    <3>1. NodeType' /\ StoreType'
      <4> DEFINE n == binding[p].node
                 requested == binding[p].read + Disk[p]
      <4>1. n \in Node /\ requested \in Nat
        BY <2>30, SimulatorAssumptions DEF TypeOK, LocalBindUpdate, BindingType, SimulatorAssumptions
      <4>2. nodeDisk' = [nodeDisk EXCEPT ![n] = requested] /\ PublishNode(n, requested)
        BY <2>30 DEF LocalBindUpdate
      <4> HIDE DEF n, requested
      <4>3. nodeDisk' \in [Node -> Nat]
        BY <4>1, <4>2 DEF TypeOK, NodeType
      <4> QED
        BY <2>30, <4>1, <4>2, <4>3, PublishNodeType DEF TypeOK, LocalBindUpdate, infVars
    <3>2. BindingType'
      BY <2>30 DEF TypeOK, BindingType, LocalBindUpdate, Goto, BindStep
    <3> QED
      BY <2>30, Frame, <3>1, <3>2 DEF TypeOK, LocalBindUpdate, mainVars, infVars
  <2>31. ASSUME NEW p \in Pod, BindPodToNode(p) PROVE TypeOK'
    <3>1. StoreType'
      BY <2>31, PublishType DEF TypeOK, StoreType, BindPodToNode, podVars, infVars, BindingType, Object, Where
    <3>2. BindingType'
      BY <2>31 DEF TypeOK, BindingType, BindPodToNode, Goto, BindStep, NoBind
    <3> QED
      BY <2>31, Frame, <3>1, <3>2 DEF TypeOK, BindPodToNode, mainVars, infVars
  <2>32. ASSUME NEW p \in Pod, ForgetPod(p) PROVE TypeOK'
    <3>1. CacheType'
      BY <2>32 DEF TypeOK, CacheType, ForgetPod, cacheVars
    <3>2. BindingType'
      BY <2>32 DEF TypeOK, BindingType, ForgetPod, Goto, BindStep
    <3> QED
      BY <2>32, Frame, <3>1, <3>2 DEF TypeOK, ForgetPod, mainVars, infVars
  <2>33. ASSUME NEW p \in Pod, RequeueRejected(p) PROVE TypeOK'
    <3>1. QueueType'
      BY <2>33 DEF TypeOK, QueueType, RequeueRejected, queueVars, Requeue
    <3>2. BindingType'
      BY <2>33 DEF TypeOK, BindingType, RequeueRejected, Goto, BindStep
    <3> QED
      BY <2>33, Frame, <3>1, <3>2 DEF TypeOK, RequeueRejected, mainVars, infVars
  <2>34. ASSUME NEW p \in Pod, RecordBindError(p) PROVE TypeOK'
    <3>1. StoreType'
      BY <2>34, PatchType DEF TypeOK, RecordBindError, infVars, Reason
    <3>2. BindingType'
      BY <2>34 DEF TypeOK, BindingType, RecordBindError, BindStep, NoBind
    <3> QED
      BY <2>34, Frame, <3>1, <3>2 DEF TypeOK, RecordBindError, mainVars, infVars
  <2>35. CASE UNCHANGED vars
    BY <2>35, Frame DEF vars, TypeOK, mainVars, infVars
  <2> QED
    BY <2>1, <2>2, <2>3, <2>4, <2>5, <2>6, <2>7, <2>8, <2>9, <2>10, <2>11, <2>12, <2>13, <2>14, <2>15, <2>16, <2>17, <2>18, <2>19, <2>20, <2>21, <2>22, <2>23, <2>24, <2>25, <2>26, <2>27, <2>28, <2>29, <2>30, <2>31, <2>32, <2>33, <2>34, <2>35 DEF Next, MainStep, InformerStep, SchedulerStep, Bind
<1> QED
  BY <1>1, <1>2, PTL DEF Spec

-----------------------------------------------------------------------------
(***************************************************************************)
(* While no pod is retried, the token on simulatorStop is that of the pod  *)
(* the caller waits for: Baton is inductive, for every workload, cluster   *)
(* and channel size, and what it implies for the caller.                   *)
(***************************************************************************)

-----------------------------------------------------------------------------
(* The pod that is owed.                                                   *)

LEMMA OwedPod ==
  ASSUME NEW p
  PROVE  p \in Owed <=> (pc = "wait" /\ p = Cur) \/ (pc = "waitTest" /\ p = TestPod)
  BY DEF Owed

LEMMA OwedUnbound ==
  ASSUME CallerState, NEW p \in Owed
  PROVE  NodeName[p] = Unbound
  BY OwedPod, SimulatorAssumptions DEF CallerState, SimulatorAssumptions

(* Nobody holds the baton.                                                 *)
Idle ==
    /\ NonePending /\ NoneActive /\ scur = NoPod /\ NoneBinding
    /\ simQ = <<>> /\ handler = NoPod

NoToken == \A i \in DOMAIN podWatch : ~IsToken(podWatch[i])

LEMMA EmptyDomain ==
  ASSUME NEW S, NEW q \in Seq(S), \A i \in DOMAIN q : FALSE
  PROVE  q = <<>>
<1>1. Len(q) = 0
  <2>1. Len(q) \in Nat /\ DOMAIN q = 1 .. Len(q)
    BY LenProperties
  <2>2. CASE Len(q) # 0
    <3>1. 1 \in DOMAIN q
      BY <2>1, <2>2
    <3> QED
      BY <3>1
  <2> QED
    BY <2>2
<1> QED
  BY <1>1, EmptySeq

(* While the caller does not wait, nobody holds it.                        *)
LEMMA NotWaiting ==
  ASSUME TypeOK, HolderOwed, pc \notin {"wait", "waitTest"}
  PROVE  Idle /\ NoToken
<1>1. Owed = {}
  BY DEF Owed
<1>2. NonePending /\ NoneActive /\ NoneBinding /\ NoToken
  BY <1>1 DEF HolderOwed, NonePending, NoneActive, NoneBinding, NoToken
<1>3. scur = NoPod /\ handler = NoPod
  BY <1>1 DEF HolderOwed
<1>4. simQ = <<>>
  <2>1. \A i \in DOMAIN simQ : FALSE
    BY <1>1 DEF HolderOwed
  <2> QED
    BY <2>1, EmptyDomain DEF TypeOK, InformerType
<1> QED
  BY <1>2, <1>3, <1>4 DEF Idle

(* A step that hands nothing over, writes nothing and does not move the    *)
(* caller, whatever it does to the sub-queues of pods that wait for a      *)
(* timer, to the cache, to the nodes and to the steps of a binding.        *)
StandsStill ==
    /\ UNCHANGED <<pc, pos, stopReason, closed, podWatch, schedQ, scur, simQ, handler, store,
                   lister>>
    /\ watching => watching'
    /\ \A p \in Pod : queued'[p] = "active" => queued[p] = "active"
    /\ \A p \in Pod : binding'[p].step # "none" => binding[p].step # "none"

LEMMA BatonFrame ==
  ASSUME Baton, StandsStill
  PROVE  Baton'
<1>1. Owed' = Owed /\ (NonePending' <=> NonePending)
  BY DEF StandsStill, Owed, Cur, NonePending
<1>2. (NoneActive => NoneActive') /\ (NoneBinding => NoneBinding')
  BY DEF StandsStill, NoneActive, NoneBinding
<1>3. Exclusive'
  BY <1>1, <1>2 DEF Baton, Exclusive, StandsStill
<1>4. HolderOwed'
  BY <1>1 DEF Baton, HolderOwed, StandsStill, IsToken
<1>5. WatchShape'
  BY DEF Baton, WatchShape, StandsStill, IsToken, IsDeletion
<1>6. Unwatched'
  BY DEF Baton, Unwatched, StandsStill
<1>7. DistinctCreations' /\ ListerBehind'
  BY DEF Baton, DistinctCreations, ListerBehind, StandsStill, IsDeletion
<1>8. FreshInScheduler'
  BY DEF Baton, FreshInScheduler, StandsStill
<1>9. UpdatesCurrent' /\ OnlyPendingFail'
  BY DEF Baton, UpdatesCurrent, OnlyPendingFail, StandsStill
<1>10. ReasonOfOwed' /\ CallerState' /\ ShortWatch'
  BY DEF Baton, ReasonOfOwed, CallerState, ShortWatch, StandsStill, Cur
<1> QED
  BY <1>3, <1>4, <1>5, <1>6, <1>7, <1>8, <1>9, <1>10 DEF Baton

(* A step of the caller between two states in which it owes nothing.       *)
Early == {"start", "nodes", "create", "close", "createTest"}

LEMMA BatonQuiet ==
  ASSUME TypeOK, Baton, pc \in Early, pc' \in Early,
         UNCHANGED <<pos, stopReason, closed, podWatch, schedQ, scur, simQ, handler, store,
                     lister, watching, queued, binding>>
  PROVE  Baton'
<1>0. Idle /\ NoToken
  BY NotWaiting DEF Early, Baton
<1>1. Idle' /\ NoToken'
  BY <1>0 DEF Idle, NoToken, NonePending, NoneActive, NoneBinding, IsToken
<1>3. Exclusive'
  BY <1>1 DEF Idle, Exclusive
<1>4. HolderOwed'
  BY <1>1 DEF HolderOwed, Idle, NoToken, NonePending, NoneActive, NoneBinding
<1>5. WatchShape'
  BY DEF Baton, WatchShape, IsToken, IsDeletion
<1>6. Unwatched'
  BY DEF Baton, Unwatched
<1>7. DistinctCreations' /\ ListerBehind'
  BY DEF Baton, DistinctCreations, ListerBehind, IsDeletion
<1>8. FreshInScheduler'
  BY DEF Baton, FreshInScheduler
<1>9. UpdatesCurrent' /\ OnlyPendingFail'
  BY DEF Baton, UpdatesCurrent, OnlyPendingFail
<1>10. ReasonOfOwed'
  BY DEF Baton, ReasonOfOwed, Early
<1>11. CallerState'
  BY DEF Baton, CallerState, Early
<1>12. ShortWatch'
  BY DEF Baton, ShortWatch, Early
<1> QED
  BY <1>3, <1>4, <1>5, <1>6, <1>7, <1>8, <1>9, <1>10, <1>11, <1>12 DEF Baton

-----------------------------------------------------------------------------
(* Writes of a pod.                                                        *)

LEMMA WatchElement ==
  ASSUME StoreType, NEW i \in DOMAIN podWatch
  PROVE  /\ podWatch[i].pod \in Pod /\ podWatch[i].obj \in Object
         /\ i \in Nat /\ 1 <= i /\ i <= Len(podWatch)
<1>1. podWatch[i] \in PodEvent /\ i \in 1 .. Len(podWatch)
  BY ElementOfSeq, LenProperties DEF StoreType
<1> QED
  BY <1>1, LenProperties DEF PodEvent, StoreType

(* What a write does to the tracker and to the channel of the watch.       *)
Written(p, o) ==
    /\ store'[p] = o
    /\ \A q \in Pod : q # p => store'[q] = store[q]
    /\ \A i \in DOMAIN podWatch : i \in DOMAIN podWatch' /\ podWatch'[i] = podWatch[i]
    /\ \A i \in DOMAIN podWatch' :
         \/ i \in DOMAIN podWatch /\ podWatch'[i] = podWatch[i]
         \/ /\ watching /\ i = Len(podWatch') /\ i = Len(podWatch) + 1
            /\ podWatch'[i] = [pod |-> p, obj |-> o]
    /\ watching => Len(podWatch') = Len(podWatch) + 1
    /\ ~watching => podWatch' = podWatch

LEMMA PublishWrites ==
  ASSUME StoreType, NEW p \in Pod, NEW o \in Object, Publish(p, o)
  PROVE  Written(p, o)
<1>1. store'[p] = o /\ \A q \in Pod : q # p => store'[q] = store[q]
  BY DEF StoreType, Publish
<1>2. CASE watching
  <2> DEFINE e == [pod |-> p, obj |-> o]
  <2>1. e \in PodEvent /\ podWatch \in Seq(PodEvent) /\ podWatch' = Append(podWatch, e)
    BY <1>2 DEF PodEvent, StoreType, Publish
  <2> HIDE DEF e
  <2>2. /\ podWatch' \in Seq(PodEvent) /\ Len(podWatch') = Len(podWatch) + 1
        /\ \A i \in 1 .. Len(podWatch) : podWatch'[i] = podWatch[i]
        /\ podWatch'[Len(podWatch) + 1] = e
    BY <2>1, AppendElement
  <2>3. /\ DOMAIN podWatch = 1 .. Len(podWatch) /\ DOMAIN podWatch' = 1 .. Len(podWatch')
        /\ Len(podWatch) \in Nat
    BY <2>1, <2>2, LenProperties
  <2>4. \A i \in DOMAIN podWatch : i \in DOMAIN podWatch' /\ podWatch'[i] = podWatch[i]
    BY <2>2, <2>3
  <2>5. \A i \in DOMAIN podWatch' :
          \/ i \in DOMAIN podWatch /\ podWatch'[i] = podWatch[i]
          \/ /\ i = Len(podWatch') /\ i = Len(podWatch) + 1
             /\ podWatch'[i] = e
    BY <2>2, <2>3
  <2> QED
    BY <1>1, <1>2, <2>2, <2>4, <2>5 DEF Written, e
<1>3. CASE ~watching
  <2>1. podWatch' = podWatch
    BY <1>3 DEF Publish
  <2> QED
    BY <1>1, <1>3, <2>1 DEF Written
<1> QED
  BY <1>2, <1>3

LEMMA LenDomain ==
  ASSUME NEW S, NEW q \in Seq(S)
  PROVE  Len(q) \in Nat /\ DOMAIN q = 1 .. Len(q) /\ (q = <<>> <=> Len(q) = 0)
  BY LenProperties, EmptySeq

LEMMA WatchEmpty ==
  ASSUME StoreType
  PROVE  /\ Len(podWatch) \in Nat
         /\ podWatch = <<>> <=> Len(podWatch) = 0
         /\ podWatch = <<>> => \A i \in DOMAIN podWatch : FALSE
         /\ podWatch # <<>> => 1 \in DOMAIN podWatch
<1>1. Len(podWatch) \in Nat /\ DOMAIN podWatch = 1 .. Len(podWatch)
  BY LenProperties DEF StoreType
<1>2. podWatch = <<>> <=> Len(podWatch) = 0
  BY EmptySeq DEF StoreType
<1> QED
  BY <1>1, <1>2

(* The scheduler writes the pod it holds: the baton goes back to the watch. *)
LEMMA WriteBack ==
  ASSUME TypeOK, TypeOK', Baton, NEW p \in Owed, p \in Pod, NEW o \in Object, Publish(p, o),
         o.node # Absent, o # Fresh, o.reason = "Unschedulable" => o.node = Unbound,
         store[p] = Fresh, lister[p] = Fresh,
         podWatch = <<>>, NonePending, NoneActive, simQ = <<>>, handler = NoPod,
         scur' = NoPod, NoneBinding',
         UNCHANGED <<pc, pos, stopReason, closed, schedQ, simQ, handler, lister, watching,
                     queued>>
  PROVE  Baton'
<1>0. Written(p, o)
  BY PublishWrites DEF TypeOK
<1>1. Owed' = Owed /\ NonePending' /\ NoneActive' /\ simQ' = <<>> /\ handler' = NoPod
  BY DEF Owed, Cur, NonePending, NoneActive
<1>2. /\ \A i \in DOMAIN podWatch' : /\ i = 1 /\ Len(podWatch') = 1
                                     /\ podWatch'[i] = [pod |-> p, obj |-> o]
      /\ Len(podWatch') <= 1
      /\ watching \/ podWatch' = <<>>
  BY <1>0, WatchEmpty DEF Written, TypeOK
<1>3. Exclusive'
  BY <1>1 DEF Exclusive
<1>4. HolderOwed'
  <2>1. \A i \in DOMAIN podWatch' : IsToken(podWatch[i])' => podWatch'[i].pod \in Owed'
    BY <1>1, <1>2
  <2> QED
    BY <1>1, <2>1 DEF HolderOwed, NonePending, NoneActive, NoneBinding
<1>5. WatchShape'
  <2>1. NodeName[p] = Unbound
    BY OwedUnbound DEF Baton
  <2> QED
    BY <1>0, <1>2, <2>1 DEF WatchShape, IsToken, IsDeletion, Written
<1>6. Unwatched'
  BY <1>2 DEF Unwatched, Baton
<1>7. DistinctCreations'
  BY <1>2 DEF DistinctCreations
<1>8. ListerBehind'
  BY <1>0 DEF ListerBehind, Baton, Written
<1>9. FreshInScheduler'
  <2>1. NonePending' /\ NoneActive' /\ scur' = NoPod /\ NoneBinding'
    BY <1>1
  <2>2. NoPod \notin Pod
    BY SimulatorAssumptions DEF SimulatorAssumptions
  <2> QED
    BY <2>1, <2>2 DEF FreshInScheduler, NonePending, NoneActive, NoneBinding
<1>10. UpdatesCurrent'
  BY <1>1 DEF UpdatesCurrent
<1>11. OnlyPendingFail'
  BY <1>0 DEF OnlyPendingFail, Baton, Written
<1>12. ReasonOfOwed'
  <2>1. stopReason # NoPod => pc = "waitTest"
    <3>1. pc \in {"wait", "waitTest"}
      BY OwedPod
    <3>2. pc = "wait" => Cur # NoPod
      BY CurIsPod, SimulatorAssumptions DEF TypeOK, CallerType, SimulatorAssumptions
    <3> QED
      BY <3>1, <3>2 DEF Baton, ReasonOfOwed
  <2> QED
    BY <2>1 DEF ReasonOfOwed
<1>13. CallerState'
  <2>1. pc # "collect" /\ (pc = "wait" => p = Cur /\ p # TestPod)
    BY OwedPod, CurIsPod DEF TypeOK, CallerType
  <2>2. TestPod \in Pod /\ pc \in {"wait", "waitTest"}
    BY OwedPod, SimulatorAssumptions DEF SimulatorAssumptions
  <2> QED
    BY <1>0, <2>1, <2>2 DEF CallerState, Baton, Written, Cur
<1>14. ShortWatch'
  <2>1. Len(podWatch') <= 1 /\ Len(podWatch') \in Nat
    BY <1>2, LenProperties DEF TypeOK, StoreType
  <2> QED
    BY <2>1 DEF ShortWatch
<1> QED
  BY <1>3, <1>4, <1>5, <1>6, <1>7, <1>8, <1>9, <1>10, <1>11, <1>12, <1>13, <1>14 DEF Baton

-----------------------------------------------------------------------------
(* The caller.                                                             *)

LEMMA BatonCreation ==
  ASSUME TypeOK, TypeOK', Baton, NEW p \in Pod, NEW o \in Object,
         o = [node |-> NodeName[p], reason |-> "none"], Publish(p, o),
         pc \in {"create", "createTest"}, store[p].node = Absent,
         NodeName[p] = Unbound => Owed' = {p},
         \/ pc' = "waitTest" /\ p = TestPod
         \/ pc' = "wait" /\ p = Cur /\ p # TestPod /\ NodeName[p] = Unbound
         \/ pc' = "collect" /\ p = Cur /\ p # TestPod /\ NodeName[p] # Unbound,
         UNCHANGED <<pos, stopReason, closed, schedQ, scur, simQ, handler, lister, watching,
                     queued, binding>>
  PROVE  Baton'
<1>0. Written(p, o) /\ Idle /\ NoToken
  BY PublishWrites, NotWaiting DEF TypeOK, Baton
<1>1. Idle'
  BY <1>0 DEF Idle, NonePending, NoneActive, NoneBinding
<1>2. NodeName[p] # Absent /\ NoPod \notin Pod /\ TestPod \in Pod /\ NodeName[TestPod] = Unbound
  BY SimulatorAssumptions DEF SimulatorAssumptions
<1>3. Exclusive'
  BY <1>1 DEF Exclusive, Idle
<1>4. HolderOwed'
  <2>1. \A i \in DOMAIN podWatch' : IsToken(podWatch[i])' => podWatch'[i].pod \in Owed'
    BY <1>0 DEF Written, NoToken, IsToken
  <2> QED
    BY <1>1, <2>1 DEF HolderOwed, Idle, NonePending, NoneActive, NoneBinding
<1>5. WatchShape'
  <2> SUFFICES ASSUME NEW i \in DOMAIN podWatch'
               PROVE  LET e == podWatch'[i] IN
                      /\ IsToken(e) => i = Len(podWatch') /\ e.obj = store'[e.pod]
                      /\ IsToken(e) /\ e.obj = Fresh =>
                           \/ lister'[e.pod].node = Absent
                           \/ /\ i # 1 /\ podWatch'[1].pod = e.pod
                              /\ IsDeletion(podWatch'[1])
                      /\ IsToken(e) /\ e.obj # Fresh => i = 1 /\ lister'[e.pod] = Fresh
                      /\ IsDeletion(e) => i = 1 /\ NodeName[e.pod] = Unbound
                      /\ ~IsDeletion(e) => store'[e.pod].node # Absent
                      /\ ~IsDeletion(e) /\ NodeName[e.pod] # Unbound =>
                           lister'[e.pod].node = Absent /\ e.obj.node = NodeName[e.pod]
    BY DEF WatchShape, IsToken, IsDeletion
  <2>1. CASE i \in DOMAIN podWatch /\ podWatch'[i] = podWatch[i]
    <3> DEFINE e == podWatch[i]
    <3>1. ~IsToken(e) /\ e.pod \in Pod
      BY <1>0, <2>1, WatchElement DEF NoToken, TypeOK
    <3>2. IsDeletion(e) => i = 1 /\ NodeName[e.pod] = Unbound
      BY <2>1 DEF Baton, WatchShape
    <3>3. ~IsDeletion(e) => store[e.pod].node # Absent
      BY <2>1 DEF Baton, WatchShape
    <3>4. ~IsDeletion(e) /\ NodeName[e.pod] # Unbound =>
            lister[e.pod].node = Absent /\ e.obj.node = NodeName[e.pod]
      BY <2>1 DEF Baton, WatchShape
    <3>5. ~IsDeletion(e) => store'[e.pod].node # Absent
      BY <1>0, <3>1, <3>3 DEF Written
    <3> QED
      BY <2>1, <3>1, <3>2, <3>4, <3>5
  <2>2. CASE /\ watching /\ i = Len(podWatch') /\ i = Len(podWatch) + 1
             /\ podWatch'[i] = [pod |-> p, obj |-> o]
    <3>1. store'[p] = o /\ o.node # Absent
      BY <1>0, <1>2 DEF Written
    <3>2. lister[p].node # Absent =>
            i # 1 /\ podWatch'[1].pod = p /\ IsDeletion(podWatch'[1]) /\ NodeName[p] = Unbound
      <4> SUFFICES ASSUME lister[p].node # Absent
                   PROVE  /\ i # 1 /\ podWatch'[1].pod = p /\ IsDeletion(podWatch'[1])
                          /\ NodeName[p] = Unbound
        OBVIOUS
      <4>1. podWatch # <<>> /\ podWatch[1].pod = p /\ IsDeletion(podWatch[1])
        BY DEF Baton, ListerBehind
      <4>2. 1 \in DOMAIN podWatch /\ Len(podWatch) \in Nat /\ Len(podWatch) # 0
        BY <4>1, WatchEmpty DEF TypeOK
      <4>3. podWatch'[1] = podWatch[1] /\ i # 1
        BY <1>0, <2>2, <4>2 DEF Written
      <4>4. NodeName[podWatch[1].pod] = Unbound
        BY <4>1, <4>2 DEF Baton, WatchShape
      <4> QED
        BY <4>1, <4>3, <4>4
    <3>3. IsToken(podWatch'[i]) => o = Fresh
      BY <2>2 DEF IsToken, Fresh
    <3> QED
      BY <2>2, <3>1, <3>2, <3>3 DEF IsDeletion
  <2> QED
    BY <1>0, <2>1, <2>2 DEF Written
<1>6. Unwatched'
  BY <1>0 DEF Unwatched, Baton, Written
<1>7. DistinctCreations'
  <2>1. \A i \in DOMAIN podWatch : ~IsDeletion(podWatch[i]) => podWatch[i].pod # p
    BY DEF Baton, WatchShape
  <2>2. \A i, j \in DOMAIN podWatch :
          /\ ~IsDeletion(podWatch[i]) /\ ~IsDeletion(podWatch[j])
          /\ podWatch[i].pod = podWatch[j].pod
          => i = j
    BY DEF Baton, DistinctCreations
  <2> SUFFICES ASSUME NEW i \in DOMAIN podWatch', NEW j \in DOMAIN podWatch',
                      ~IsDeletion(podWatch'[i]), ~IsDeletion(podWatch'[j]),
                      podWatch'[i].pod = podWatch'[j].pod
               PROVE  i = j
    BY DEF DistinctCreations, IsDeletion
  <2> QED
    BY <1>0, <2>1, <2>2 DEF Written
<1>8. ListerBehind'
  <2> SUFFICES ASSUME NEW q \in Pod, store'[q].node = Absent, lister'[q].node # Absent
               PROVE  podWatch' # <<>> /\ podWatch'[1].pod = q /\ IsDeletion(podWatch'[1])
    BY DEF ListerBehind, IsDeletion
  <2>1. store[q].node = Absent
    BY <1>0, <1>2 DEF Written
  <2>2. podWatch # <<>> /\ podWatch[1].pod = q /\ IsDeletion(podWatch[1])
    BY <2>1 DEF Baton, ListerBehind
  <2>3. 1 \in DOMAIN podWatch
    BY <2>2, WatchEmpty DEF TypeOK
  <2>4. podWatch'[1] = podWatch[1] /\ 1 \in DOMAIN podWatch'
    BY <1>0, <2>3 DEF Written
  <2> QED
    BY <2>2, <2>4
<1>9. FreshInScheduler'
  BY <1>1, <1>2 DEF FreshInScheduler, Idle, NonePending, NoneActive, NoneBinding
<1>10. UpdatesCurrent'
  BY <1>1 DEF UpdatesCurrent, Idle
<1>11. OnlyPendingFail'
  BY <1>0 DEF OnlyPendingFail, Baton, Written
<1>12. ReasonOfOwed'
  BY DEF Baton, ReasonOfOwed
<1>13. CallerState'
  BY <1>0, <1>2 DEF CallerState, Baton, Written, Cur
<1>14. ShortWatch'
  <2>1. (\A q \in Pod : NodeName[q] = Unbound) => Len(podWatch) <= 1
    BY DEF Baton, ShortWatch
  <2>2. Len(podWatch') = Len(podWatch) + 1 \/ podWatch' = podWatch
    BY <1>0 DEF Written
  <2>3. (\A q \in Pod : NodeName[q] = Unbound) => Len(podWatch') <= 2
    BY <2>1, <2>2, WatchEmpty DEF TypeOK
  <2> QED
    BY <2>3 DEF ShortWatch
<1> QED
  BY <1>3, <1>4, <1>5, <1>6, <1>7, <1>8, <1>9, <1>10, <1>11, <1>12, <1>13, <1>14 DEF Baton

LEMMA BatonCreatePod ==
  ASSUME TypeOK, TypeOK', Baton, CreatePod
  PROVE  Baton'
<1> DEFINE o == [node |-> NodeName[Cur], reason |-> "none"]
<1>1. Cur \in Pod /\ Cur # TestPod /\ NodeName[Cur] \in Node \cup {Unbound}
  BY CurIsPod, SimulatorAssumptions DEF TypeOK, CreatePod, SimulatorAssumptions
<1>2. o \in Object
  BY <1>1 DEF Object, Where, Reason
<1>3. NodeName[Cur] = Unbound => Owed' = {Cur}
  <2>1. NodeName[Cur] = Unbound => pc' = "wait" /\ Cur' = Cur
    BY DEF CreatePod, AfterCreate, Cur
  <2> QED
    BY <2>1 DEF Owed
<1> QED
  BY <1>1, <1>2, <1>3, BatonCreation
     DEF CreatePod, AfterCreate, infVars, loopVars, queueVars, chanVars

LEMMA BatonCreateTestPod ==
  ASSUME TypeOK, TypeOK', Baton, CreateTestPod
  PROVE  Baton'
<1> DEFINE o == [node |-> NodeName[TestPod], reason |-> "none"]
<1>1. TestPod \in Pod /\ NodeName[TestPod] = Unbound
  BY SimulatorAssumptions DEF SimulatorAssumptions
<1>2. o \in Object
  BY <1>1 DEF Object, Where, Reason
<1>3. Owed' = {TestPod}
  BY DEF CreateTestPod, Owed
<1>4. store[TestPod].node = Absent
  BY DEF CreateTestPod, Baton, CallerState
<1> QED
  BY <1>1, <1>2, <1>3, <1>4, BatonCreation
     DEF CreateTestPod, infVars, loopVars, queueVars, chanVars

LEMMA BatonReceive ==
  ASSUME TypeOK, TypeOK', Baton, Receive
  PROVE  Baton'
<1>1. /\ podWatch = <<>> /\ NonePending /\ NoneActive /\ scur = NoPod /\ NoneBinding
      /\ simQ = <<>>
  <2>1. handler # NoPod /\ Exclusive
    BY DEF Receive, Baton
  <2> QED
    BY <2>1 DEF Exclusive
<1>2. UNCHANGED <<pos, stopReason, podWatch, schedQ, scur, simQ, store, lister, watching,
                  queued, binding, closed>>
  BY DEF Receive, infVars, loopVars, queueVars, podVars
<1>3. podWatch' = <<>> /\ Idle'
  BY <1>1, <1>2 DEF Receive, Idle, NonePending, NoneActive, NoneBinding
<1>4. Len(podWatch') = 0 /\ \A i \in DOMAIN podWatch' : FALSE
  BY <1>3, WatchEmpty DEF TypeOK, StoreType
<1>5. Exclusive'
  BY <1>3 DEF Exclusive, Idle
<1>6. HolderOwed'
  BY <1>3, <1>4 DEF HolderOwed, Idle, NonePending, NoneActive, NoneBinding
<1>7. WatchShape' /\ DistinctCreations'
  BY <1>4 DEF WatchShape, DistinctCreations
<1>8. Unwatched' /\ ListerBehind' /\ OnlyPendingFail'
  BY <1>2 DEF Unwatched, ListerBehind, OnlyPendingFail, Baton, IsDeletion
<1>9. FreshInScheduler' /\ UpdatesCurrent'
  BY <1>2 DEF FreshInScheduler, UpdatesCurrent, Baton
<1>10. ReasonOfOwed'
  BY <1>2 DEF ReasonOfOwed, Receive, Baton, CallerState, Cur
<1>11. CallerState'
  BY <1>2, <1>3 DEF CallerState, Receive, Baton, Cur
<1>12. ShortWatch'
  BY <1>4 DEF ShortWatch
<1> QED
  BY <1>5, <1>6, <1>7, <1>8, <1>9, <1>10, <1>11, <1>12 DEF Baton

LEMMA BatonCollect ==
  ASSUME TypeOK, TypeOK', Baton, Collect
  PROVE  Baton'
<1>0. Idle /\ NoToken /\ pc = "collect" /\ pc' = "create"
  BY NotWaiting DEF Collect, Baton
<1>1. UNCHANGED <<schedQ, scur, simQ, lister, watching, queued, binding, closed, handler>>
  BY DEF Collect, infVars, loopVars, queueVars, chanVars
<1>2. Idle' /\ Owed' = {}
  BY <1>0, <1>1 DEF Idle, NonePending, NoneActive, NoneBinding, Owed
<1>3. Cur \in Pod /\ Cur # TestPod /\ NoPod \notin Pod
  BY <1>0, CurIsPod, SimulatorAssumptions DEF TypeOK, CallerType, SimulatorAssumptions
<1>4. Exclusive'
  BY <1>2 DEF Exclusive, Idle
<1>5. FreshInScheduler' /\ UpdatesCurrent'
  BY <1>2, <1>3 DEF FreshInScheduler, UpdatesCurrent, Idle, NonePending, NoneActive, NoneBinding
<1>6. CASE stopReason = NoPod /\ UNCHANGED <<stopReason, podVars>>
  <2>1. UNCHANGED <<podWatch, store>> /\ stopReason' = NoPod
    BY <1>6 DEF podVars
  <2>2. NoToken'
    BY <1>0, <2>1 DEF NoToken, IsToken
  <2>3. HolderOwed'
    BY <1>2, <2>2 DEF HolderOwed, Idle, NoToken, NonePending, NoneActive, NoneBinding
  <2>4. WatchShape'
    BY <1>1, <2>1 DEF WatchShape, Baton, IsToken, IsDeletion
  <2>5. DistinctCreations' /\ Unwatched' /\ ListerBehind' /\ OnlyPendingFail'
    BY <1>1, <2>1 DEF DistinctCreations, Unwatched, ListerBehind, OnlyPendingFail, Baton,
       IsDeletion
  <2>6. ReasonOfOwed' /\ CallerState'
    BY <1>0, <1>1, <2>1 DEF ReasonOfOwed, CallerState, Baton
  <2>7. ShortWatch'
    BY <1>0, <2>1 DEF ShortWatch, Baton
  <2> QED
    BY <1>4, <1>5, <2>3, <2>4, <2>5, <2>6, <2>7 DEF Baton
<1>7. CASE stopReason # NoPod /\ ReportFailed
  <2>0. NoObject \in Object
    BY DEF NoObject, Object, Where, Reason
  <2>1. Written(Cur, NoObject) /\ stopReason' = NoPod
    BY <1>3, <1>7, <2>0, PublishWrites DEF TypeOK, ReportFailed
  <2>2. NodeName[Cur] = Unbound /\ podWatch = <<>>
    BY <1>0, <1>7 DEF Baton, ReasonOfOwed, CallerState
  <2>3. /\ \A i \in DOMAIN podWatch' : /\ i = 1 /\ Len(podWatch') = 1
                                       /\ podWatch'[i] = [pod |-> Cur, obj |-> NoObject]
        /\ Len(podWatch') <= 1
        /\ ~watching => podWatch' = <<>>
        /\ watching => Len(podWatch') = 1
    BY <2>1, <2>2, WatchEmpty DEF Written, TypeOK
  <2>4. NoToken'
    BY <2>3 DEF NoToken, IsToken, NoObject
  <2>5. HolderOwed'
    BY <1>2, <2>4 DEF HolderOwed, Idle, NoToken, NonePending, NoneActive, NoneBinding
  <2>6. WatchShape'
    BY <2>2, <2>3 DEF WatchShape, IsToken, IsDeletion, NoObject
  <2>7. Unwatched'
    BY <1>1, <2>3 DEF Unwatched, Baton
  <2>8. DistinctCreations'
    BY <2>3 DEF DistinctCreations
  <2>9. ListerBehind'
    <3> SUFFICES ASSUME NEW q \in Pod, store'[q].node = Absent, lister'[q].node # Absent
                 PROVE  podWatch' # <<>> /\ podWatch'[1].pod = q /\ IsDeletion(podWatch'[1])
      BY DEF ListerBehind, IsDeletion
    <3>1. q = Cur
      BY <1>1, <2>1, <2>2 DEF Baton, ListerBehind, Written
    <3>2. watching
      BY <1>1 DEF Baton, Unwatched
    <3>3. podWatch' # <<>> /\ 1 \in DOMAIN podWatch'
      <4>1. Len(podWatch') = 1 /\ podWatch' \in Seq(PodEvent)
        BY <2>3, <3>2 DEF TypeOK, StoreType
      <4>2. DOMAIN podWatch' = 1 .. Len(podWatch') /\ (podWatch' = <<>> <=> Len(podWatch') = 0)
        BY <4>1, LenDomain
      <4> QED
        BY <4>1, <4>2
    <3> QED
      BY <2>3, <3>1, <3>3 DEF IsDeletion, NoObject
  <2>10. OnlyPendingFail'
    BY <2>1 DEF OnlyPendingFail, Baton, Written, NoObject
  <2>11. ReasonOfOwed'
    BY <2>1 DEF ReasonOfOwed
  <2>12. CallerState'
    <3>1. TestPod \in Pod
      BY SimulatorAssumptions DEF SimulatorAssumptions
    <3>2. store'[TestPod].node = Absent
      BY <1>0, <1>3, <2>1, <3>1 DEF CallerState, Baton, Written
    <3> QED
      BY <1>0, <1>1, <3>2 DEF CallerState, Baton
  <2>13. ShortWatch'
    BY <1>0, <2>3 DEF ShortWatch
  <2> QED
    BY <1>4, <1>5, <2>5, <2>6, <2>7, <2>8, <2>9, <2>10, <2>11, <2>12, <2>13 DEF Baton
<1> QED
  BY <1>6, <1>7 DEF Collect

LEMMA BatonCloseChannel ==
  ASSUME TypeOK, TypeOK', Baton, CloseChannel
  PROVE  Baton'
<1>0. Idle /\ NoToken /\ pc = "shut" /\ pc' = "done"
  BY NotWaiting DEF CloseChannel, Baton
<1>1. UNCHANGED <<pos, stopReason, podWatch, schedQ, scur, simQ, store, lister, watching,
                  queued, binding, handler>>
  BY DEF CloseChannel, infVars, loopVars, queueVars, podVars
<1>2. Idle' /\ NoToken'
  BY <1>0, <1>1 DEF Idle, NoToken, NonePending, NoneActive, NoneBinding, IsToken
<1>3. Exclusive' /\ HolderOwed'
  BY <1>2 DEF Exclusive, HolderOwed, Idle, NoToken, NonePending, NoneActive, NoneBinding
<1>4. WatchShape'
  BY <1>1 DEF WatchShape, Baton, IsToken, IsDeletion
<1>5. DistinctCreations' /\ Unwatched' /\ ListerBehind' /\ OnlyPendingFail'
  BY <1>1 DEF DistinctCreations, Unwatched, ListerBehind, OnlyPendingFail, Baton, IsDeletion
<1>6. FreshInScheduler' /\ UpdatesCurrent'
  BY <1>1 DEF FreshInScheduler, UpdatesCurrent, Baton
<1>7. ReasonOfOwed' /\ CallerState'
  BY <1>0, <1>1 DEF ReasonOfOwed, CallerState, Baton
<1>8. ShortWatch'
  BY <1>0, <1>1 DEF ShortWatch, Baton
<1> QED
  BY <1>3, <1>4, <1>5, <1>6, <1>7, <1>8 DEF Baton

-----------------------------------------------------------------------------
(* The informers.                                                          *)

LEMMA TailShift ==
  ASSUME NEW S, NEW q \in Seq(S), q # <<>>
  PROVE  /\ 1 \in DOMAIN q /\ Head(q) = q[1] /\ Len(Tail(q)) = Len(q) - 1
         /\ \A i \in DOMAIN Tail(q) :
              /\ i \in Nat /\ i # 0 /\ i + 1 \in DOMAIN q /\ Tail(q)[i] = q[i + 1]
         /\ Len(q) \in Nat /\ Len(q) >= 1
<1>1. /\ Len(q) \in Nat /\ DOMAIN q = 1 .. Len(q) /\ Len(q) # 0
  BY LenDomain
<1>2. /\ Tail(q) \in Seq(S) /\ Len(Tail(q)) = Len(q) - 1
      /\ \A i \in 1 .. Len(Tail(q)) : Tail(q)[i] = q[i + 1]
  BY HeadTailProperties
<1>3. DOMAIN Tail(q) = 1 .. Len(Tail(q)) /\ Head(q) = q[1]
  BY <1>2, LenDomain
<1> QED
  BY <1>1, <1>2, <1>3

LEMMA WatchTail ==
  ASSUME StoreType, podWatch # <<>>, podWatch' = Tail(podWatch)
  PROVE  /\ 1 \in DOMAIN podWatch /\ Head(podWatch) = podWatch[1]
         /\ \A i \in DOMAIN podWatch' :
              /\ i \in Nat /\ i # 0 /\ i + 1 \in DOMAIN podWatch
              /\ podWatch'[i] = podWatch[i + 1]
         /\ Len(podWatch) \in Nat /\ Len(podWatch') = Len(podWatch) - 1
  BY TailShift DEF StoreType

(* What an event does to the indexer and to the two handlers that matter.  *)
LEMMA EventHandlers ==
  ASSUME TypeOK, PodInformer, NEW e, e = podWatch[1]
  PROVE  /\ e.pod \in Pod /\ e.obj \in Object
         /\ lister'[e.pod] = e.obj
         /\ \A q \in Pod : q # e.pod => lister'[q] = lister[q]
         /\ \/ /\ e.pod \in Ours /\ lister[e.pod].node # Absent /\ e.obj.node # Absent
               /\ simQ' = Append(simQ, e)
            \/ /\ e.pod \notin Ours \/ lister[e.pod].node = Absent \/ e.obj.node = Absent
               /\ simQ' = simQ
         /\ \/ /\ e.pod \in Ours /\ lister[e.pod].node # Unbound /\ e.obj.node = Unbound
               /\ schedQ' = Append(schedQ, [pod |-> e.pod, add |-> TRUE])
            \/ /\ e.pod \notin Ours \/ lister[e.pod].node = Unbound \/ e.obj.node # Unbound
               /\ schedQ' \in {schedQ, Append(schedQ, [pod |-> e.pod, add |-> FALSE])}
<1>1. podWatch # <<>> /\ e = Head(podWatch)
  BY WatchTail DEF PodInformer, TypeOK
<1>2. e.pod \in Pod /\ e.obj \in Object /\ e = [pod |-> e.pod, obj |-> e.obj]
  <2>1. e \in PodEvent
    BY <1>1, HeadTailProperties DEF TypeOK, StoreType
  <2> QED
    BY <2>1 DEF PodEvent
<1>3. lister' = [lister EXCEPT ![e.pod] = e.obj]
  BY <1>1 DEF PodInformer
<1>4. lister'[e.pod] = e.obj /\ \A q \in Pod : q # e.pod => lister'[q] = lister[q]
  BY <1>2, <1>3 DEF TypeOK, InformerType
<1>5. simQ' = IF /\ e.pod \in Ours
                 /\ lister[e.pod].node # Absent /\ e.obj.node # Absent
              THEN Append(simQ, e) ELSE simQ
  BY <1>1, <1>2 DEF PodInformer, NotifiesUpdate
<1>6. schedQ' = IF e.pod \notin Ours \/ (lister[e.pod].node = Unbound <=> e.obj.node = Unbound)
                THEN schedQ
                ELSE Append(schedQ, [pod |-> e.pod, add |-> e.obj.node = Unbound])
  BY <1>1 DEF PodInformer
<1>7. \/ /\ e.pod \in Ours /\ lister[e.pod].node # Unbound /\ e.obj.node = Unbound
         /\ schedQ' = Append(schedQ, [pod |-> e.pod, add |-> TRUE])
      \/ /\ e.pod \notin Ours \/ lister[e.pod].node = Unbound \/ e.obj.node # Unbound
         /\ schedQ' \in {schedQ, Append(schedQ, [pod |-> e.pod, add |-> FALSE])}
  <2>1. CASE e.obj.node = Unbound
    <3>1. (e.obj.node = Unbound) = TRUE
      BY <2>1
    <3> QED
      BY <1>6, <2>1, <3>1
  <2>2. CASE e.obj.node # Unbound
    <3>1. (e.obj.node = Unbound) = FALSE
      BY <2>2
    <3> QED
      BY <1>6, <2>2, <3>1
  <2> QED
    BY <2>1, <2>2
<1> QED
  BY <1>2, <1>4, <1>5, <1>7

LEMMA SchedAppend ==
  ASSUME InformerType, NEW p \in Pod, NEW add \in BOOLEAN,
         schedQ' = Append(schedQ, [pod |-> p, add |-> add])
  PROVE  /\ \A i \in DOMAIN schedQ' :
              \/ i \in DOMAIN schedQ /\ schedQ'[i] = schedQ[i]
              \/ i = Len(schedQ') /\ schedQ'[i] = [pod |-> p, add |-> add]
         /\ Len(schedQ') \in DOMAIN schedQ'
<1> DEFINE e == [pod |-> p, add |-> add]
<1>1. e \in [pod: Pod, add: BOOLEAN] /\ schedQ \in Seq([pod: Pod, add: BOOLEAN])
  BY DEF InformerType
<1> HIDE DEF e
<1>2. /\ schedQ' \in Seq([pod: Pod, add: BOOLEAN]) /\ Len(schedQ') = Len(schedQ) + 1
      /\ \A i \in 1 .. Len(schedQ) : schedQ'[i] = schedQ[i]
      /\ schedQ'[Len(schedQ) + 1] = e
  BY <1>1, AppendElement DEF e
<1>3. /\ DOMAIN schedQ = 1 .. Len(schedQ) /\ DOMAIN schedQ' = 1 .. Len(schedQ')
      /\ Len(schedQ) \in Nat
  BY <1>1, <1>2, LenDomain
<1>4. \A i \in DOMAIN schedQ' :
        \/ i \in DOMAIN schedQ /\ schedQ'[i] = schedQ[i]
        \/ i = Len(schedQ') /\ schedQ'[i] = e
  BY <1>2, <1>3
<1>5. Len(schedQ') \in DOMAIN schedQ'
  BY <1>2, <1>3
<1> QED
  BY <1>4, <1>5 DEF e

LEMMA SimAppend ==
  ASSUME InformerType, simQ = <<>>, NEW e \in PodEvent, simQ' = Append(simQ, e)
  PROVE  simQ' # <<>> /\ Len(simQ') = 1 /\ \A i \in DOMAIN simQ' : simQ'[i] = e
<1>1. simQ \in Seq(PodEvent) /\ Len(simQ) = 0
  BY LenDomain DEF InformerType
<1>2. simQ' \in Seq(PodEvent) /\ Len(simQ') = 1 /\ simQ'[1] = e
  BY <1>1, AppendElement
<1>3. DOMAIN simQ' = 1 .. 1 /\ simQ' # <<>>
  BY <1>2, LenDomain
<1> QED
  BY <1>2, <1>3

LEMMA BatonPodInformer ==
  ASSUME TypeOK, TypeOK', Baton, PodInformer
  PROVE  Baton'
<1> DEFINE e == podWatch[1]
<1>1. /\ NonePending /\ NoneActive /\ scur = NoPod /\ NoneBinding /\ simQ = <<>>
      /\ handler = NoPod
  <2>1. podWatch # <<>> /\ Exclusive
    BY DEF PodInformer, Baton
  <2> QED
    BY <2>1 DEF Exclusive
<1>2. UNCHANGED <<pc, pos, stopReason, closed, store, queued, scur, binding, handler, watching>>
  BY DEF PodInformer, mainVars, loopVars, queueVars, chanVars
<1>3. Owed' = Owed /\ NoneActive' /\ NoneBinding' /\ scur' = NoPod /\ handler' = NoPod
  BY <1>1, <1>2 DEF Owed, Cur, NoneActive, NoneBinding
<1>4. /\ 1 \in DOMAIN podWatch /\ Len(podWatch) \in Nat
      /\ \A i \in DOMAIN podWatch' : /\ i \in Nat /\ i # 0 /\ i + 1 \in DOMAIN podWatch
                                     /\ podWatch'[i] = podWatch[i + 1]
      /\ Len(podWatch') = Len(podWatch) - 1
  BY WatchTail DEF PodInformer, TypeOK
<1>5. e.pod \in Pod /\ e.obj \in Object /\ lister'[e.pod] = e.obj
  BY EventHandlers
<1>6. \A q \in Pod : q # e.pod => lister'[q] = lister[q]
  BY EventHandlers
<1>7. NoPod \notin Pod
  BY SimulatorAssumptions DEF SimulatorAssumptions
<1> HIDE DEF e
<1>10. WatchShape'
  <2> SUFFICES ASSUME NEW i \in DOMAIN podWatch', NEW f, f = podWatch'[i]
               PROVE  /\ IsToken(f) => i = Len(podWatch') /\ f.obj = store'[f.pod]
                      /\ IsToken(f) /\ f.obj = Fresh => lister'[f.pod].node = Absent
                      /\ IsToken(f) /\ f.obj # Fresh => FALSE
                      /\ IsDeletion(f) => FALSE
                      /\ ~IsDeletion(f) => store'[f.pod].node # Absent
                      /\ ~IsDeletion(f) /\ NodeName[f.pod] # Unbound =>
                           lister'[f.pod].node = Absent /\ f.obj.node = NodeName[f.pod]
    BY DEF WatchShape, IsToken, IsDeletion
  <2>1. i \in Nat /\ i + 1 # 1 /\ i + 1 \in DOMAIN podWatch /\ f = podWatch[i + 1]
    BY <1>4
  <2>2. f.pod \in Pod
    BY <2>1, WatchElement DEF TypeOK
  <2>3. IsToken(f) => i + 1 = Len(podWatch) /\ f.obj = store[f.pod]
    BY <2>1 DEF Baton, WatchShape
  <2>4. IsToken(f) /\ f.obj = Fresh =>
          lister[f.pod].node = Absent \/ (e.pod = f.pod /\ IsDeletion(e))
    BY <2>1 DEF Baton, WatchShape, e
  <2>5. ~(IsToken(f) /\ f.obj # Fresh)
    BY <2>1 DEF Baton, WatchShape
  <2>6. ~IsDeletion(f)
    BY <2>1 DEF Baton, WatchShape
  <2>7. store[f.pod].node # Absent
    BY <2>1, <2>6 DEF Baton, WatchShape
  <2>8. NodeName[f.pod] # Unbound =>
          lister[f.pod].node = Absent /\ f.obj.node = NodeName[f.pod]
    BY <2>1, <2>6 DEF Baton, WatchShape
  <2>9. f.pod = e.pod => lister'[f.pod].node = Absent
    <3>1. f.pod = e.pod => IsDeletion(e)
      BY <1>4, <2>1, <2>6 DEF Baton, DistinctCreations, e
    <3> QED
      BY <1>5, <3>1 DEF IsDeletion
  <2>10. f.pod # e.pod => lister'[f.pod] = lister[f.pod]
    BY <1>6, <2>2
  <2>11. IsToken(f) => i = Len(podWatch')
    BY <1>4, <2>1, <2>3
  <2> QED
    BY <1>2, <2>3, <2>4, <2>5, <2>6, <2>7, <2>8, <2>9, <2>10, <2>11
<1>11. Unwatched'
  BY <1>2 DEF Unwatched, Baton, PodInformer
<1>12. DistinctCreations'
  <2> SUFFICES ASSUME NEW i \in DOMAIN podWatch', NEW j \in DOMAIN podWatch',
                      ~IsDeletion(podWatch'[i]), ~IsDeletion(podWatch'[j]),
                      podWatch'[i].pod = podWatch'[j].pod
               PROVE  i = j
    BY DEF DistinctCreations, IsDeletion
  <2>1. i + 1 = j + 1
    BY <1>4 DEF Baton, DistinctCreations
  <2> QED
    BY <1>4, <2>1
<1>13. ListerBehind'
  <2> SUFFICES ASSUME NEW q \in Pod, store'[q].node = Absent, lister'[q].node # Absent
               PROVE  FALSE
    BY DEF ListerBehind
  <2>1. CASE q = e.pod
    <3>1. ~IsDeletion(e)
      BY <1>5, <2>1 DEF IsDeletion
    <3>2. store[e.pod].node # Absent
      BY <1>4, <3>1 DEF Baton, WatchShape, e
    <3> QED
      BY <1>2, <2>1, <3>2
  <2>2. CASE q # e.pod
    <3>1. lister[q].node # Absent /\ store[q].node = Absent
      BY <1>2, <1>6, <2>2
    <3> QED
      BY <2>2, <3>1 DEF Baton, ListerBehind, e
  <2> QED
    BY <2>1, <2>2
<1>14. OnlyPendingFail' /\ ReasonOfOwed'
  BY <1>2 DEF OnlyPendingFail, ReasonOfOwed, Baton, Cur
<1>15. ShortWatch'
  <2>1. (\A p \in Pod : NodeName[p] = Unbound) =>
          Len(podWatch) <= IF pc \in {"wait", "waitTest"} THEN 2 ELSE 1
    BY DEF ShortWatch, Baton
  <2> QED
    BY <1>2, <1>4, <2>1 DEF ShortWatch
<1>16. CallerState'
  BY <1>2 DEF CallerState, Baton, Cur, PodInformer
<1>17. ASSUME IsToken(e)
       PROVE  podWatch' = <<>> /\ e.pod \in Owed /\ e.obj = store[e.pod]
  <2>1. 1 = Len(podWatch) /\ e.obj = store[e.pod] /\ e.pod \in Owed
    BY <1>4, <1>17 DEF Baton, WatchShape, HolderOwed, e
  <2>2. Len(podWatch') = 0 /\ podWatch' \in Seq(PodEvent)
    BY <1>4, <2>1 DEF TypeOK, StoreType
  <2> QED
    BY <2>1, <2>2, LenDomain
<1>18. \A i \in DOMAIN podWatch' : IsToken(podWatch'[i]) => podWatch'[i].pod \in Owed
  BY <1>4 DEF Baton, HolderOwed
<1>19. schedQ' \in {schedQ, Append(schedQ, [pod |-> e.pod, add |-> FALSE])} => NonePending'
  <2>1. CASE schedQ' = schedQ
    BY <1>1, <2>1 DEF NonePending
  <2>2. CASE schedQ' = Append(schedQ, [pod |-> e.pod, add |-> FALSE])
    <3>1. \A i \in DOMAIN schedQ' :
            \/ i \in DOMAIN schedQ /\ schedQ'[i] = schedQ[i]
            \/ schedQ'[i] = [pod |-> e.pod, add |-> FALSE]
      BY <1>5, <2>2, SchedAppend DEF TypeOK
    <3> QED
      BY <1>1, <3>1 DEF NonePending
  <2> QED
    BY <2>1, <2>2
<1>20. CASE IsToken(e) /\ e.obj = Fresh
  <2>1. lister[e.pod].node = Absent /\ e.obj.node = Unbound /\ e.pod \in Ours
    BY <1>4, <1>20 DEF Baton, WatchShape, e, Fresh, IsToken
  <2>2. simQ' = <<>> /\ schedQ' = Append(schedQ, [pod |-> e.pod, add |-> TRUE])
    <3>1. Absent # Unbound
      BY SimulatorAssumptions DEF SimulatorAssumptions
    <3> QED
      BY <1>1, <2>1, <3>1, EventHandlers DEF e
  <2>3. podWatch' = <<>> /\ e.pod \in Owed /\ store[e.pod] = Fresh
    BY <1>17, <1>20
  <2>4. \A i \in DOMAIN schedQ' :
          \/ i \in DOMAIN schedQ /\ schedQ'[i] = schedQ[i]
          \/ i = Len(schedQ') /\ schedQ'[i] = [pod |-> e.pod, add |-> TRUE]
    BY <1>5, <2>2, SchedAppend DEF TypeOK
  <2>5. Exclusive'
    BY <1>3, <2>2, <2>3 DEF Exclusive
  <2>6. HolderOwed'
    <3>1. \A i \in DOMAIN schedQ' : schedQ'[i].add => schedQ'[i].pod \in Owed
      BY <1>1, <2>3, <2>4 DEF NonePending
    <3> QED
      BY <1>3, <1>18, <2>2, <3>1 DEF HolderOwed, NoneActive, NoneBinding, IsToken
  <2>7. FreshInScheduler'
    <3>1. \A i \in DOMAIN schedQ' : schedQ'[i].add =>
            i = Len(schedQ') /\ schedQ'[i].pod = e.pod
      BY <1>1, <2>4 DEF NonePending
    <3>2. store'[e.pod] = Fresh /\ lister'[e.pod] = Fresh
      BY <1>2, <1>5, <1>20, <2>3
    <3> QED
      BY <1>3, <1>7, <3>1, <3>2 DEF FreshInScheduler, NoneActive, NoneBinding
  <2>8. UpdatesCurrent'
    BY <2>2 DEF UpdatesCurrent
  <2> QED
    BY <2>5, <2>6, <2>7, <2>8, <1>10, <1>11, <1>12, <1>13, <1>14, <1>15, <1>16 DEF Baton
<1>21. CASE IsToken(e) /\ e.obj # Fresh
  <2>1. lister[e.pod] = Fresh /\ e.obj.node # Absent /\ e.pod \in Ours
    BY <1>4, <1>21 DEF Baton, WatchShape, e, IsToken
  <2>2. e \in PodEvent
    BY <1>4, ElementOfSeq DEF TypeOK, StoreType, e
  <2>3. /\ simQ' = Append(simQ, e)
        /\ schedQ' \in {schedQ, Append(schedQ, [pod |-> e.pod, add |-> FALSE])}
    <3>1. Absent # Unbound
      BY SimulatorAssumptions DEF SimulatorAssumptions
    <3>2. lister[e.pod].node = Unbound
      BY <2>1 DEF Fresh
    <3>3. simQ' = Append(simQ, e)
      BY <2>1, <3>1, <3>2, EventHandlers DEF e
    <3>4. schedQ' \in {schedQ, Append(schedQ, [pod |-> e.pod, add |-> FALSE])}
      BY <3>2, EventHandlers DEF e
    <3> QED
      BY <3>3, <3>4
  <2>4. podWatch' = <<>> /\ e.pod \in Owed /\ store[e.pod] = e.obj
    BY <1>17, <1>21
  <2>5. Len(simQ') = 1 /\ \A i \in DOMAIN simQ' : simQ'[i] = e
    BY <1>1, <2>2, <2>3, SimAppend DEF TypeOK
  <2>6. NonePending'
    BY <1>19, <2>3
  <2>7. Exclusive'
    BY <1>3, <2>4, <2>6 DEF Exclusive
  <2>8. HolderOwed'
    BY <1>3, <1>18, <2>4, <2>5, <2>6
       DEF HolderOwed, NonePending, NoneActive, NoneBinding, IsToken
  <2>9. FreshInScheduler'
    BY <1>3, <1>7, <2>6 DEF FreshInScheduler, NonePending, NoneActive, NoneBinding
  <2>10. UpdatesCurrent'
    BY <1>2, <2>4, <2>5 DEF UpdatesCurrent
  <2> QED
    BY <2>7, <2>8, <2>9, <2>10, <1>10, <1>11, <1>12, <1>13, <1>14, <1>15, <1>16 DEF Baton
<1>22. CASE ~IsToken(e)
  <2>1. e.pod \in Ours /\ ~IsDeletion(e) =>
          /\ NodeName[e.pod] # Unbound
          /\ lister[e.pod].node = Absent /\ e.obj.node = NodeName[e.pod]
    BY <1>4, <1>22 DEF Baton, WatchShape, e, IsToken, IsDeletion
  <2>2. simQ' = <<>> /\ schedQ' \in {schedQ, Append(schedQ, [pod |-> e.pod, add |-> FALSE])}
    <3>1. Absent # Unbound
      BY SimulatorAssumptions DEF SimulatorAssumptions
    <3> QED
      BY <1>1, <2>1, <3>1, EventHandlers DEF e, IsDeletion
  <2>3. NonePending'
    BY <1>19, <2>2
  <2>4. Exclusive'
    BY <1>3, <2>2, <2>3 DEF Exclusive
  <2>5. HolderOwed'
    BY <1>3, <1>18, <2>2, <2>3
       DEF HolderOwed, NonePending, NoneActive, NoneBinding, IsToken
  <2>6. FreshInScheduler'
    BY <1>3, <1>7, <2>3 DEF FreshInScheduler, NonePending, NoneActive, NoneBinding
  <2>7. UpdatesCurrent'
    BY <2>2 DEF UpdatesCurrent
  <2> QED
    BY <2>4, <2>5, <2>6, <2>7, <1>10, <1>11, <1>12, <1>13, <1>14, <1>15, <1>16 DEF Baton
<1> QED
  BY <1>20, <1>21, <1>22

(* What a step leaves alone that moves the baton between the listeners,    *)
(* the queue and the scheduler's loop: the caller, the tracker, the watch. *)
Handover ==
    UNCHANGED <<pc, pos, closed, podWatch, store, lister, watching>>

LEMMA BatonHandover ==
  ASSUME Baton, Handover
  PROVE  /\ Owed' = Owed /\ WatchShape' /\ Unwatched' /\ DistinctCreations' /\ ListerBehind'
         /\ OnlyPendingFail' /\ CallerState' /\ ShortWatch'
<1>1. Owed' = Owed
  BY DEF Handover, Owed, Cur
<1>2. WatchShape'
  BY DEF Handover, Baton, WatchShape, IsToken, IsDeletion
<1>3. Unwatched' /\ DistinctCreations' /\ ListerBehind'
  BY DEF Handover, Baton, Unwatched, DistinctCreations, ListerBehind, IsDeletion
<1>4. OnlyPendingFail' /\ CallerState' /\ ShortWatch'
  BY DEF Handover, Baton, OnlyPendingFail, CallerState, ShortWatch, Cur
<1> QED
  BY <1>1, <1>2, <1>3, <1>4

LEMMA OneOwed ==
  ASSUME NEW p \in Owed, NEW q \in Owed
  PROVE  p = q
  BY OwedPod

LEMMA BatonHandlePending ==
  ASSUME TypeOK, TypeOK', Baton, HandlePending
  PROVE  Baton'
<1>0. UNCHANGED <<pc, pos, stopReason, closed, podWatch, store, lister, watching, scur, simQ,
                  handler, binding>>
  BY DEF HandlePending, mainVars, loopVars, chanVars, podVars
<1>1. /\ Owed' = Owed /\ WatchShape' /\ Unwatched' /\ DistinctCreations' /\ ListerBehind'
      /\ OnlyPendingFail' /\ CallerState' /\ ShortWatch'
  BY <1>0, BatonHandover DEF Handover
<1>2. UpdatesCurrent' /\ ReasonOfOwed'
  BY <1>0 DEF Baton, UpdatesCurrent, ReasonOfOwed, Cur
<1>3. NoneBinding' <=> NoneBinding
  BY <1>0 DEF NoneBinding
<1> DEFINE h == schedQ[1]
<1>4. /\ 1 \in DOMAIN schedQ /\ Head(schedQ) = h
      /\ \A i \in DOMAIN schedQ' : /\ i \in Nat /\ i # 0 /\ i + 1 \in DOMAIN schedQ
                                   /\ schedQ'[i] = schedQ[i + 1]
      /\ Len(schedQ') = Len(schedQ) - 1 /\ Len(schedQ) \in Nat
  BY TailShift DEF HandlePending, TypeOK, InformerType
<1>5. h.pod \in Pod /\ h.add \in BOOLEAN
  <2>1. h \in [pod: Pod, add: BOOLEAN]
    <3>1. schedQ \in Seq([pod: Pod, add: BOOLEAN]) /\ schedQ # <<>>
      BY DEF TypeOK, InformerType, HandlePending
    <3>2. Head(schedQ) \in [pod: Pod, add: BOOLEAN]
      BY <3>1, HeadTailProperties
    <3> QED
      BY <1>4, <3>2
  <2> QED
    BY <2>1
<1> HIDE DEF h
<1>6. CASE h.add
  <2>1. 1 = Len(schedQ) /\ store[h.pod] = Fresh /\ lister[h.pod] = Fresh /\ h.pod \in Owed
    BY <1>4, <1>6 DEF Baton, FreshInScheduler, HolderOwed, h
  <2>2. \A i \in DOMAIN schedQ' : FALSE
    <3>1. schedQ' \in Seq([pod: Pod, add: BOOLEAN])
      BY DEF TypeOK, InformerType
    <3>2. DOMAIN schedQ' = 1 .. Len(schedQ')
      BY <3>1, LenDomain
    <3> QED
      <4>1. Len(schedQ') = Len(schedQ) - 1
        BY <1>4
      <4>2. Len(schedQ) = 1
        BY <2>1
      <4> QED
        BY <3>2, <4>1, <4>2
  <2>3. NonePending' /\ ~NonePending
    BY <1>4, <1>6, <2>2 DEF NonePending, h
  <2>4. /\ podWatch = <<>> /\ NoneActive /\ scur = NoPod /\ NoneBinding /\ simQ = <<>>
        /\ handler = NoPod
    BY <2>3 DEF Baton, Exclusive
  <2>5. queued' = [queued EXCEPT ![h.pod] = "active"]
    BY <1>4, <1>6 DEF HandlePending, QueueAdd
  <2>6. \A p \in Pod : queued'[p] = "active" => p = h.pod
    BY <1>5, <2>4, <2>5 DEF TypeOK, QueueType, NoneActive
  <2>7. Exclusive'
    BY <1>0, <1>3, <2>3, <2>4 DEF Exclusive
  <2>8. HolderOwed'
    <3>1. \A i \in DOMAIN podWatch' : IsToken(podWatch[i])' => podWatch'[i].pod \in Owed'
      BY <1>0, <1>1 DEF Baton, HolderOwed, IsToken
    <3> QED
      BY <1>0, <1>1, <2>1, <2>2, <2>4, <2>6, <3>1 DEF HolderOwed, NoneBinding
  <2>9. FreshInScheduler'
    <3>1. NoPod \notin Pod
      BY SimulatorAssumptions DEF SimulatorAssumptions
    <3> QED
      BY <1>0, <2>1, <2>2, <2>4, <2>6, <3>1 DEF FreshInScheduler, NoneBinding
  <2> QED
    BY <1>1, <1>2, <2>7, <2>8, <2>9 DEF Baton
<1>7. CASE ~h.add
  <2>1. queued' = [queued EXCEPT ![h.pod] = "no"]
    BY <1>4, <1>7 DEF HandlePending, QueueDelete
  <2>2. \A p \in Pod : queued'[p] = "active" => queued[p] = "active"
    BY <1>5, <2>1 DEF TypeOK, QueueType
  <2>3. (NonePending => NonePending') /\ (NoneActive => NoneActive')
    <3>1. NonePending => NonePending'
      BY <1>4 DEF NonePending
    <3>2. NoneActive => NoneActive'
      BY <2>2 DEF NoneActive
    <3> QED
      BY <3>1, <3>2
  <2>4. Exclusive'
    BY <1>0, <1>3, <2>3 DEF Baton, Exclusive
  <2>5. HolderOwed'
    <3>1. \A i \in DOMAIN podWatch' : IsToken(podWatch[i])' => podWatch'[i].pod \in Owed'
      BY <1>0, <1>1 DEF Baton, HolderOwed, IsToken
    <3>2. \A i \in DOMAIN schedQ' : schedQ'[i].add => schedQ'[i].pod \in Owed
      BY <1>4 DEF Baton, HolderOwed
    <3>3. \A p \in Pod : queued'[p] = "active" => p \in Owed
      BY <2>2 DEF Baton, HolderOwed
    <3> QED
      BY <1>0, <1>1, <3>1, <3>2, <3>3 DEF Baton, HolderOwed
  <2>6. FreshInScheduler'
    <3>1. \A i \in DOMAIN schedQ' :
            schedQ'[i].add => /\ i = Len(schedQ')
                              /\ store[schedQ'[i].pod] = Fresh /\ lister[schedQ'[i].pod] = Fresh
      <4> SUFFICES ASSUME NEW i \in DOMAIN schedQ', schedQ'[i].add
                   PROVE  /\ i = Len(schedQ')
                          /\ store[schedQ'[i].pod] = Fresh /\ lister[schedQ'[i].pod] = Fresh
        OBVIOUS
      <4>1. i + 1 \in DOMAIN schedQ /\ schedQ[i + 1].add /\ schedQ'[i] = schedQ[i + 1]
        BY <1>4
      <4>2. /\ i + 1 = Len(schedQ) /\ store[schedQ[i + 1].pod] = Fresh
            /\ lister[schedQ[i + 1].pod] = Fresh
        BY <4>1 DEF Baton, FreshInScheduler
      <4> QED
        BY <1>4, <4>1, <4>2
    <3>2. \A p \in Pod : queued'[p] = "active" \/ scur = p \/ binding[p].step # "none" =>
                           store[p] = Fresh /\ lister[p] = Fresh
      BY <2>2 DEF Baton, FreshInScheduler
    <3> QED
      BY <1>0, <3>1, <3>2 DEF FreshInScheduler
  <2> QED
    BY <1>1, <1>2, <2>4, <2>5, <2>6 DEF Baton
<1> QED
  BY <1>6, <1>7

LEMMA BatonUpdate ==
  ASSUME TypeOK, TypeOK', Baton, Update
  PROVE  Baton'
<1>0. UNCHANGED <<pc, pos, closed, podWatch, store, lister, watching, scur, schedQ, queued,
                  binding>>
  BY DEF Update, loopVars, queueVars, podVars
<1>1. /\ Owed' = Owed /\ WatchShape' /\ Unwatched' /\ DistinctCreations' /\ ListerBehind'
      /\ OnlyPendingFail' /\ CallerState' /\ ShortWatch'
  BY <1>0, BatonHandover DEF Handover
<1> DEFINE h == simQ[1]
<1>2. 1 \in DOMAIN simQ /\ Head(simQ) = h /\ Len(simQ) = 1 /\ simQ' = <<>>
  <2>1. /\ 1 \in DOMAIN simQ /\ Head(simQ) = h /\ Len(simQ') = Len(simQ) - 1
        /\ Len(simQ) \in Nat /\ Len(simQ) >= 1
    BY TailShift DEF Update, TypeOK, InformerType
  <2>2. Len(simQ) = 1 /\ simQ' \in Seq(PodEvent)
    BY <2>1 DEF Baton, UpdatesCurrent, TypeOK, InformerType
  <2> QED
    BY <2>1, <2>2, LenDomain
<1>3. h.pod \in Pod /\ h.pod \in Owed /\ h.obj = store[h.pod]
  BY <1>2, SimHead DEF Baton, HolderOwed, UpdatesCurrent, TypeOK, Update
<1>4. handler' = h.pod
  BY <1>2 DEF Update
<1>5. podWatch = <<>> /\ NonePending /\ NoneActive /\ scur = NoPod /\ NoneBinding
  <2>1. simQ # <<>> /\ Exclusive
    BY DEF Update, Baton
  <2> QED
    BY <2>1 DEF Exclusive
<1>6. /\ podWatch' = <<>> /\ NonePending' /\ NoneActive' /\ scur' = NoPod /\ NoneBinding'
  BY <1>0, <1>5 DEF NonePending, NoneActive, NoneBinding
<1>7. Exclusive'
  BY <1>2, <1>6 DEF Exclusive
<1>8. HolderOwed'
  BY <1>0, <1>1, <1>2, <1>3, <1>4 DEF Baton, HolderOwed, IsToken
<1>9. FreshInScheduler' /\ UpdatesCurrent'
  BY <1>0, <1>2 DEF Baton, FreshInScheduler, UpdatesCurrent
<1>10. ReasonOfOwed'
  <2>1. CASE IsUnschedulable(Head(simQ).obj)
    <3>1. stopReason' = h.pod /\ store[h.pod].node = Unbound
      BY <1>2, <1>3, <2>1 DEF Update, IsUnschedulable, Baton, OnlyPendingFail
    <3>2. (pc = "wait" /\ h.pod = Cur) \/ pc = "waitTest"
      BY <1>3, OwedPod
    <3> QED
      BY <1>0, <1>4, <3>1, <3>2 DEF ReasonOfOwed, Cur
  <2>2. CASE ~IsUnschedulable(Head(simQ).obj)
    <3>1. stopReason' = stopReason /\ handler = NoPod
      BY <2>2 DEF Update
    <3>2. (pc = "wait" /\ h.pod = Cur) \/ pc = "waitTest"
      BY <1>3, OwedPod
    <3>3. pc = "wait" => handler # Cur
      BY <1>3, <3>1, <3>2, SimulatorAssumptions DEF SimulatorAssumptions
    <3> QED
      BY <1>0, <3>1, <3>2, <3>3 DEF ReasonOfOwed, Baton
  <2> QED
    BY <2>1, <2>2
<1> QED
  BY <1>1, <1>7, <1>8, <1>9, <1>10 DEF Baton

-----------------------------------------------------------------------------
(* The scheduler and its binding goroutines.                               *)

LEMMA BatonNextPod ==
  ASSUME TypeOK, TypeOK', Baton, NEW p \in Pod, NextPod(p)
  PROVE  Baton'
<1>0. UNCHANGED <<pc, pos, stopReason, closed, podWatch, store, lister, watching, schedQ,
                  simQ, handler, binding>>
  BY DEF NextPod, mainVars, infVars, chanVars, podVars
<1>1. /\ Owed' = Owed /\ WatchShape' /\ Unwatched' /\ DistinctCreations' /\ ListerBehind'
      /\ OnlyPendingFail' /\ CallerState' /\ ShortWatch'
  BY <1>0, BatonHandover DEF Handover
<1>2. UpdatesCurrent' /\ ReasonOfOwed'
  BY <1>0 DEF Baton, UpdatesCurrent, ReasonOfOwed, Cur
<1>3. queued[p] = "active" /\ ~NoneActive /\ p \in Owed /\ scur' = p
  BY DEF NextPod, NoneActive, Baton, HolderOwed
<1>4. /\ podWatch = <<>> /\ NonePending /\ scur = NoPod /\ NoneBinding /\ simQ = <<>>
      /\ handler = NoPod
  BY <1>3 DEF Baton, Exclusive
<1>5. NoneActive'
  <2>1. \A q \in Pod : queued[q] = "active" => q = p
    BY <1>3, OneOwed DEF Baton, HolderOwed
  <2>2. queued' = [queued EXCEPT ![p] = "no"]
    BY DEF NextPod
  <2> QED
    BY <2>1, <2>2 DEF NoneActive, TypeOK, QueueType
<1>6. podWatch' = <<>> /\ NonePending' /\ NoneBinding' /\ simQ' = <<>> /\ handler' = NoPod
  BY <1>0, <1>4 DEF NonePending, NoneBinding
<1>7. Exclusive'
  BY <1>5, <1>6 DEF Exclusive
<1>8. HolderOwed'
  <2>1. \A i \in DOMAIN podWatch' : IsToken(podWatch[i])' => podWatch'[i].pod \in Owed'
    BY <1>0, <1>1 DEF Baton, HolderOwed, IsToken
  <2> QED
    BY <1>1, <1>3, <1>5, <1>6, <2>1 DEF HolderOwed, NonePending, NoneActive, NoneBinding
<1>9. FreshInScheduler'
  BY <1>0, <1>3, <1>5, <1>6
     DEF Baton, FreshInScheduler, NonePending, NoneActive, NoneBinding
<1> QED
  BY <1>1, <1>2, <1>7, <1>8, <1>9 DEF Baton

LEMMA BatonAssume ==
  ASSUME TypeOK, TypeOK', Baton, NEW n \in Node, Assume(n)
  PROVE  Baton'
<1>0. UNCHANGED <<pc, pos, stopReason, closed, podWatch, store, lister, watching, schedQ,
                  simQ, handler, queued>>
  BY DEF Assume, mainVars, infVars, queueVars, chanVars, podVars
<1>1. /\ Owed' = Owed /\ WatchShape' /\ Unwatched' /\ DistinctCreations' /\ ListerBehind'
      /\ OnlyPendingFail' /\ CallerState' /\ ShortWatch'
  BY <1>0, BatonHandover DEF Handover
<1>2. UpdatesCurrent' /\ ReasonOfOwed'
  BY <1>0 DEF Baton, UpdatesCurrent, ReasonOfOwed, Cur
<1>3. scur \in Pod /\ scur # NoPod /\ scur' = NoPod /\ NoPod \notin Pod
  BY SimulatorAssumptions DEF Assume, TypeOK, LoopType, SimulatorAssumptions
<1>4. scur \in Owed /\ store[scur] = Fresh /\ lister[scur] = Fresh
  BY <1>3 DEF Baton, HolderOwed, FreshInScheduler
<1>5. /\ podWatch = <<>> /\ NonePending /\ NoneActive /\ NoneBinding /\ simQ = <<>>
      /\ handler = NoPod
  BY <1>3 DEF Baton, Exclusive
<1>6. /\ podWatch' = <<>> /\ NonePending' /\ NoneActive' /\ simQ' = <<>>
      /\ handler' = NoPod
  BY <1>0, <1>5 DEF NonePending, NoneActive
<1>7. \A q \in Pod : binding'[q].step # "none" => q = scur
  BY <1>3, <1>5 DEF Assume, NoneBinding, TypeOK, BindingType
<1>8. Exclusive'
  BY <1>3, <1>6 DEF Exclusive
<1>9. HolderOwed'
  <2>1. \A i \in DOMAIN podWatch' : IsToken(podWatch[i])' => podWatch'[i].pod \in Owed'
    BY <1>0, <1>1 DEF Baton, HolderOwed, IsToken
  <2> QED
    BY <1>1, <1>3, <1>4, <1>6, <1>7, <2>1 DEF HolderOwed, NonePending, NoneActive
<1>10. FreshInScheduler'
  BY <1>0, <1>3, <1>4, <1>6, <1>7 DEF FreshInScheduler, NonePending, NoneActive
<1> QED
  BY <1>1, <1>2, <1>8, <1>9, <1>10 DEF Baton

(* A pod that is as the caller created it, and the condition is new.       *)
LEMMA FreshPatch ==
  ASSUME StoreType, NEW p \in Pod, NEW r \in {"Unschedulable", "SchedulerError"},
         store[p] = Fresh, lister[p] = Fresh, PatchCondition(p, r)
  PROVE  Publish(p, [node |-> Unbound, reason |-> r])
<1>1. store[p].node # Absent /\ lister[p].reason # r
  BY SimulatorAssumptions DEF Fresh, SimulatorAssumptions
<1>2. [store[p] EXCEPT !.reason = r] = [node |-> Unbound, reason |-> r]
  BY DEF Fresh
<1> QED
  BY <1>1, <1>2 DEF PatchCondition

LEMMA FreshWritten ==
  ASSUME NEW r \in {"Unschedulable", "SchedulerError"}, NEW o,
         o = [node |-> Unbound, reason |-> r]
  PROVE  o \in Object /\ o # Fresh /\ o.node # Absent /\ o.node = Unbound
  BY SimulatorAssumptions DEF Object, Where, Reason, Fresh, SimulatorAssumptions

LEMMA BatonRecordUnschedulable ==
  ASSUME TypeOK, TypeOK', Baton, RecordUnschedulable
  PROVE  Baton'
<1> DEFINE o == [node |-> Unbound, reason |-> "Unschedulable"]
<1>1. scur \in Pod /\ scur # NoPod
  BY DEF RecordUnschedulable, TypeOK, LoopType
<1>2. scur \in Owed /\ store[scur] = Fresh /\ lister[scur] = Fresh
  BY <1>1 DEF Baton, HolderOwed, FreshInScheduler
<1>3. /\ podWatch = <<>> /\ NonePending /\ NoneActive /\ NoneBinding /\ simQ = <<>>
      /\ handler = NoPod
  BY <1>1 DEF Baton, Exclusive
<1>4. Publish(scur, o)
  BY <1>1, <1>2, FreshPatch DEF RecordUnschedulable, TypeOK
<1>5. o \in Object /\ o # Fresh /\ o.node # Absent /\ o.node = Unbound
  BY FreshWritten
<1>6. scur' = NoPod /\ NoneBinding'
  BY <1>3 DEF RecordUnschedulable, NoneBinding
<1>7. UNCHANGED <<pc, pos, stopReason, closed, schedQ, simQ, handler, lister, watching,
                  queued>>
  BY DEF RecordUnschedulable, mainVars, infVars, queueVars, chanVars
<1> HIDE DEF o
<1> QED
  BY <1>1, <1>2, <1>3, <1>4, <1>5, <1>6, <1>7, WriteBack

(* The binding goroutine of p is the only one, and nothing else is going on. *)
LEMMA Binding ==
  ASSUME TypeOK, Baton, NEW p \in Pod, binding[p].step # "none"
  PROVE  /\ p \in Owed /\ store[p] = Fresh /\ lister[p] = Fresh
         /\ podWatch = <<>> /\ NonePending /\ NoneActive /\ scur = NoPod
         /\ simQ = <<>> /\ handler = NoPod
         /\ \A q \in Pod : binding[q].step # "none" => q = p
<1>1. p \in Owed /\ store[p] = Fresh /\ lister[p] = Fresh /\ ~NoneBinding
  BY DEF Baton, HolderOwed, FreshInScheduler, NoneBinding
<1>2. /\ podWatch = <<>> /\ NonePending /\ NoneActive /\ scur = NoPod
      /\ simQ = <<>> /\ handler = NoPod
  BY <1>1 DEF Baton, Exclusive
<1>3. \A q \in Pod : binding[q].step # "none" => q = p
  BY <1>1, OneOwed DEF Baton, HolderOwed
<1> QED
  BY <1>1, <1>2, <1>3

LEMMA BatonRecordBindError ==
  ASSUME TypeOK, TypeOK', Baton, NEW p \in Pod, RecordBindError(p)
  PROVE  Baton'
<1> DEFINE o == [node |-> Unbound, reason |-> "SchedulerError"]
<1>1. binding[p].step # "none" /\ binding' = [binding EXCEPT ![p] = NoBind]
  BY DEF RecordBindError
<1>2. /\ p \in Owed /\ store[p] = Fresh /\ lister[p] = Fresh
      /\ podWatch = <<>> /\ NonePending /\ NoneActive /\ scur = NoPod
      /\ simQ = <<>> /\ handler = NoPod
      /\ \A q \in Pod : binding[q].step # "none" => q = p
  BY <1>1, Binding
<1>3. Publish(p, o)
  BY <1>2, FreshPatch DEF RecordBindError, TypeOK
<1>4. o \in Object /\ o # Fresh /\ o.node # Absent /\ o.node = Unbound
  BY FreshWritten
<1>5. NoneBinding'
  BY <1>1, <1>2 DEF NoneBinding, NoBind, TypeOK, BindingType
<1>6. UNCHANGED <<pc, pos, stopReason, closed, schedQ, simQ, handler, lister, watching,
                  queued, scur>>
  BY DEF RecordBindError, mainVars, infVars, loopVars, queueVars, chanVars
<1> HIDE DEF o
<1> QED
  BY <1>2, <1>3, <1>4, <1>5, <1>6, WriteBack

LEMMA BatonBindPodToNode ==
  ASSUME TypeOK, TypeOK', Baton, NEW p \in Pod, BindPodToNode(p)
  PROVE  Baton'
<1> DEFINE o == [node |-> binding[p].node, reason |-> "none"]
<1>1. binding[p].step # "none"
  BY DEF BindPodToNode
<1>2. /\ p \in Owed /\ store[p] = Fresh /\ lister[p] = Fresh
      /\ podWatch = <<>> /\ NonePending /\ NoneActive /\ scur = NoPod
      /\ simQ = <<>> /\ handler = NoPod
      /\ \A q \in Pod : binding[q].step # "none" => q = p
  BY <1>1, Binding
<1>3. binding[p].node \in Node
  BY <1>1 DEF TypeOK, BindingType
<1>4. o \in Object /\ o # Fresh /\ o.node # Absent /\ o.reason # "Unschedulable"
  BY <1>3, SimulatorAssumptions DEF Object, Where, Reason, Fresh, SimulatorAssumptions
<1>5. Publish(p, o) /\ binding' = [binding EXCEPT ![p] = NoBind]
  <2>1. store[p].node # Absent
    BY <1>2, SimulatorAssumptions DEF Fresh, SimulatorAssumptions
  <2>2. [store[p] EXCEPT !.node = binding[p].node] = o
    BY <1>2 DEF Fresh
  <2> QED
    BY <2>1, <2>2 DEF BindPodToNode
<1>6. NoneBinding'
  BY <1>2, <1>5 DEF NoneBinding, NoBind, TypeOK, BindingType
<1>7. UNCHANGED <<pc, pos, stopReason, closed, schedQ, simQ, handler, lister, watching,
                  queued, scur>>
  BY DEF BindPodToNode, mainVars, infVars, loopVars, queueVars, chanVars
<1> HIDE DEF o
<1> QED
  BY <1>2, <1>4, <1>5, <1>6, <1>7, WriteBack

-----------------------------------------------------------------------------
(* Every step keeps the invariant, if no timer brings a pod back.          *)

LEMMA BatonStep ==
  ASSUME MaxRetries = 0, TypeOK, TypeOK', Baton, [Next]_vars
  PROVE  Baton'
<1>1. CASE RefuseCluster
  BY <1>1, BatonQuiet
     DEF RefuseCluster, Early, infVars, loopVars, queueVars, chanVars, podVars
<1>2. CASE RunScheduler
  BY <1>2, BatonQuiet
     DEF RunScheduler, Early, infVars, loopVars, queueVars, chanVars, podVars
<1>3. CASE CreateNode
  BY <1>3, BatonQuiet
     DEF CreateNode, Early, infVars, loopVars, queueVars, chanVars, podVars
<1>4. CASE NodesCreated
  BY <1>4, BatonQuiet
     DEF NodesCreated, Early, infVars, loopVars, queueVars, chanVars, podVars
<1>5. CASE RefuseApp
  BY <1>5, BatonQuiet
     DEF RefuseApp, Early, infVars, loopVars, queueVars, chanVars, podVars
<1>6. CASE CreatePodFails
  BY <1>6, BatonQuiet
     DEF CreatePodFails, Early, infVars, loopVars, queueVars, chanVars, podVars
<1>7. CASE GetClusterNodeStatus
  BY <1>7, BatonQuiet
     DEF GetClusterNodeStatus, Early, infVars, loopVars, queueVars, chanVars, podVars
<1>8. CASE CancelScheduler
  BY <1>8, BatonQuiet
     DEF CancelScheduler, Early, infVars, loopVars, queueVars, chanVars, podVars
<1>9. CASE CreatePod \/ CreateTestPod \/ Receive \/ Collect \/ CloseChannel
  BY <1>9, BatonCreatePod, BatonCreateTestPod, BatonReceive, BatonCollect, BatonCloseChannel
<1>10. CASE PodInformer \/ HandlePending \/ Update
  BY <1>10, BatonPodInformer, BatonHandlePending, BatonUpdate
<1>11. CASE StartWatch
  <2>1. UNCHANGED <<pc, pos, stopReason, closed, podWatch, schedQ, scur, simQ, handler, store,
                    lister, binding>>
    BY <1>11 DEF StartWatch, mainVars, infVars, loopVars, chanVars, podVars
  <2>2. watching => watching'
    BY <1>11 DEF StartWatch, infVars
  <2>3. \A p \in Pod : queued'[p] = "active" => queued[p] = "active"
    BY <1>11 DEF StartWatch, queueVars, TypeOK, QueueType
  <2> QED
    BY <2>1, <2>2, <2>3, BatonFrame DEF StandsStill
<1>12. CASE HandleAssigned
  <2>1. UNCHANGED <<pc, pos, stopReason, closed, podWatch, schedQ, scur, simQ, handler, store,
                    lister, binding>>
    BY <1>12 DEF HandleAssigned, mainVars, infVars, loopVars, chanVars, podVars
  <2>2. watching => watching'
    BY <1>12 DEF HandleAssigned, infVars
  <2>3. \A p \in Pod : queued'[p] = "active" => queued[p] = "active"
    BY <1>12 DEF HandleAssigned, MoveAll, queueVars, TypeOK, QueueType
  <2> QED
    BY <2>1, <2>2, <2>3, BatonFrame DEF StandsStill
<1>13. CASE HandleNode
  <2>1. UNCHANGED <<pc, pos, stopReason, closed, podWatch, schedQ, scur, simQ, handler, store,
                    lister, binding>>
    BY <1>13 DEF HandleNode, mainVars, infVars, loopVars, chanVars, podVars
  <2>2. watching => watching'
    BY <1>13 DEF HandleNode, infVars
  <2>3. \A p \in Pod : queued'[p] = "active" => queued[p] = "active"
    BY <1>13 DEF HandleNode, MoveAll, queueVars, TypeOK, QueueType
  <2> QED
    BY <2>1, <2>2, <2>3, BatonFrame DEF StandsStill
<1>14. CASE SendOnClosedChannel
  <2>1. UNCHANGED <<pc, pos, stopReason, closed, podWatch, schedQ, scur, simQ, handler, store,
                    lister, binding>>
    BY <1>14 DEF SendOnClosedChannel, mainVars, infVars, loopVars, chanVars, podVars
  <2>2. watching => watching'
    BY <1>14 DEF SendOnClosedChannel, infVars
  <2>3. \A p \in Pod : queued'[p] = "active" => queued[p] = "active"
    BY <1>14 DEF SendOnClosedChannel, queueVars, TypeOK, QueueType
  <2> QED
    BY <2>1, <2>2, <2>3, BatonFrame DEF StandsStill
<1>15. CASE EnterScheduleOne
  <2>1. UNCHANGED <<pc, pos, stopReason, closed, podWatch, schedQ, scur, simQ, handler, store,
                    lister, binding>>
    BY <1>15 DEF EnterScheduleOne, mainVars, infVars, loopVars, chanVars, podVars
  <2>2. watching => watching'
    BY <1>15 DEF EnterScheduleOne, infVars
  <2>3. \A p \in Pod : queued'[p] = "active" => queued[p] = "active"
    BY <1>15 DEF EnterScheduleOne, queueVars, TypeOK, QueueType
  <2> QED
    BY <2>1, <2>2, <2>3, BatonFrame DEF StandsStill
<1>16. CASE StopScheduler
  <2>1. UNCHANGED <<pc, pos, stopReason, closed, podWatch, schedQ, scur, simQ, handler, store,
                    lister, binding>>
    BY <1>16 DEF StopScheduler, mainVars, infVars, loopVars, chanVars, podVars
  <2>2. watching => watching'
    BY <1>16 DEF StopScheduler, infVars
  <2>3. \A p \in Pod : queued'[p] = "active" => queued[p] = "active"
    BY <1>16 DEF StopScheduler, queueVars, TypeOK, QueueType
  <2> QED
    BY <2>1, <2>2, <2>3, BatonFrame DEF StandsStill
<1>17. CASE ScheduleFails
  <2>1. UNCHANGED <<pc, pos, stopReason, closed, podWatch, schedQ, scur, simQ, handler, store,
                    lister, binding>>
    BY <1>17 DEF ScheduleFails, mainVars, infVars, loopVars, chanVars, podVars
  <2>2. watching => watching'
    BY <1>17 DEF ScheduleFails, infVars
  <2>3. \A p \in Pod : queued'[p] = "active" => queued[p] = "active"
    BY <1>17 DEF ScheduleFails, queueVars, TypeOK, QueueType
  <2> QED
    BY <2>1, <2>2, <2>3, BatonFrame DEF StandsStill
<1>18. CASE RequeueUnschedulable
  <2>1. UNCHANGED <<pc, pos, stopReason, closed, podWatch, schedQ, scur, simQ, handler, store,
                    lister, binding>>
    BY <1>18 DEF RequeueUnschedulable, mainVars, infVars, loopVars, chanVars, podVars
  <2>2. watching => watching'
    BY <1>18 DEF RequeueUnschedulable, infVars
  <2>3. \A p \in Pod : queued'[p] = "active" => queued[p] = "active"
    BY <1>18 DEF RequeueUnschedulable, Requeue, queueVars, TypeOK, QueueType, LoopType
  <2> QED
    BY <2>1, <2>2, <2>3, BatonFrame DEF StandsStill
<1>19. CASE RecordUnschedulable
  BY <1>19, BatonRecordUnschedulable
<1>20. ASSUME NEW p \in Pod, NextPod(p) PROVE Baton'
  BY <1>20, BatonNextPod
<1>21. ASSUME NEW n \in Node, Assume(n) PROVE Baton'
  BY <1>21, BatonAssume
<1>22. ASSUME NEW p \in Pod, Retry(p) PROVE Baton'
  BY <1>22 DEF Retry, TypeOK, QueueType
<1>23. ASSUME NEW p \in Pod, LocalBindGet(p) PROVE Baton'
  <2>1. UNCHANGED <<pc, pos, stopReason, closed, podWatch, schedQ, scur, simQ, handler, store,
                    lister, watching>>
    BY <1>23 DEF LocalBindGet, mainVars, infVars, loopVars, chanVars, podVars
  <2>2. \A q \in Pod : queued'[q] = "active" => queued[q] = "active"
    BY <1>23 DEF LocalBindGet, queueVars, TypeOK, QueueType
  <2>3. \A q \in Pod : binding'[q].step # "none" => binding[q].step # "none"
    BY <1>23 DEF LocalBindGet, Goto, TypeOK, BindingType
  <2> QED
    BY <2>1, <2>2, <2>3, BatonFrame DEF StandsStill
<1>24. ASSUME NEW p \in Pod, LocalBindUpdate(p) PROVE Baton'
  <2>1. UNCHANGED <<pc, pos, stopReason, closed, podWatch, schedQ, scur, simQ, handler, store,
                    lister, watching>>
    BY <1>24 DEF LocalBindUpdate, mainVars, infVars, loopVars, chanVars, podVars
  <2>2. \A q \in Pod : queued'[q] = "active" => queued[q] = "active"
    BY <1>24 DEF LocalBindUpdate, queueVars, TypeOK, QueueType
  <2>3. \A q \in Pod : binding'[q].step # "none" => binding[q].step # "none"
    BY <1>24 DEF LocalBindUpdate, Goto, TypeOK, BindingType
  <2> QED
    BY <2>1, <2>2, <2>3, BatonFrame DEF StandsStill
<1>25. ASSUME NEW p \in Pod, ForgetPod(p) PROVE Baton'
  <2>1. UNCHANGED <<pc, pos, stopReason, closed, podWatch, schedQ, scur, simQ, handler, store,
                    lister, watching>>
    BY <1>25 DEF ForgetPod, mainVars, infVars, loopVars, chanVars, podVars
  <2>2. \A q \in Pod : queued'[q] = "active" => queued[q] = "active"
    BY <1>25 DEF ForgetPod, queueVars, TypeOK, QueueType
  <2>3. \A q \in Pod : binding'[q].step # "none" => binding[q].step # "none"
    BY <1>25 DEF ForgetPod, Goto, TypeOK, BindingType
  <2> QED
    BY <2>1, <2>2, <2>3, BatonFrame DEF StandsStill
<1>26. ASSUME NEW p \in Pod, RequeueRejected(p) PROVE Baton'
  <2>1. UNCHANGED <<pc, pos, stopReason, closed, podWatch, schedQ, scur, simQ, handler, store,
                    lister, watching>>
    BY <1>26 DEF RequeueRejected, mainVars, infVars, loopVars, chanVars, podVars
  <2>2. \A q \in Pod : queued'[q] = "active" => queued[q] = "active"
    BY <1>26 DEF RequeueRejected, Requeue, queueVars, TypeOK, QueueType
  <2>3. \A q \in Pod : binding'[q].step # "none" => binding[q].step # "none"
    BY <1>26 DEF RequeueRejected, Goto, TypeOK, BindingType
  <2> QED
    BY <2>1, <2>2, <2>3, BatonFrame DEF StandsStill
<1>27. ASSUME NEW p \in Pod, BindPodToNode(p) PROVE Baton'
  BY <1>27, BatonBindPodToNode
<1>28. ASSUME NEW p \in Pod, RecordBindError(p) PROVE Baton'
  BY <1>28, BatonRecordBindError
<1>29. CASE UNCHANGED vars
  BY <1>29, BatonFrame
     DEF vars, StandsStill, mainVars, infVars, loopVars, queueVars, chanVars, podVars
<1> QED
  BY <1>1, <1>2, <1>3, <1>4, <1>5, <1>6, <1>7, <1>8, <1>9, <1>10, <1>11, <1>12, <1>13, <1>14, <1>15, <1>16, <1>17, <1>18, <1>19, <1>20, <1>21, <1>22, <1>23, <1>24, <1>25, <1>26, <1>27, <1>28, <1>29 DEF Next, MainStep, InformerStep,
     SchedulerStep, Bind

LEMMA BatonInit ==
  ASSUME Init
  PROVE  Baton
<1>1. /\ podWatch = <<>> /\ schedQ = <<>> /\ simQ = <<>> /\ scur = NoPod /\ handler = NoPod
      /\ pc = "start" /\ stopReason = NoPod /\ ~closed
  BY DEF Init
<1>2. \A p \in Pod : /\ store[p] = NoObject /\ lister[p] = NoObject
                     /\ queued[p] = "no" /\ binding[p].step = "none"
  BY DEF Init, NoBind
<1>3. Idle
  BY <1>1, <1>2 DEF Idle, NonePending, NoneActive, NoneBinding
<1>4. Exclusive
  BY <1>3 DEF Exclusive, Idle
<1>5. HolderOwed
  BY <1>1, <1>2 DEF HolderOwed
<1>6. WatchShape /\ DistinctCreations
  BY <1>1 DEF WatchShape, DistinctCreations
<1>7. Unwatched /\ ListerBehind /\ OnlyPendingFail
  BY <1>1, <1>2 DEF Unwatched, ListerBehind, OnlyPendingFail, NoObject
<1>8. FreshInScheduler /\ UpdatesCurrent
  <2>1. NoPod \notin Pod
    BY SimulatorAssumptions DEF SimulatorAssumptions
  <2>2. FreshInScheduler
    BY <1>1, <1>2, <2>1 DEF FreshInScheduler
  <2>3. UpdatesCurrent
    BY <1>1 DEF UpdatesCurrent
  <2> QED
    BY <2>2, <2>3
<1>9. ReasonOfOwed
  BY <1>1 DEF ReasonOfOwed
<1>10. CallerState
  <2>1. TestPod \in Pod
    BY SimulatorAssumptions DEF SimulatorAssumptions
  <2> QED
    BY <1>1, <1>2, <2>1 DEF CallerState, NoObject
<1>11. ShortWatch
  BY <1>1 DEF ShortWatch
<1> QED
  BY <1>4, <1>5, <1>6, <1>7, <1>8, <1>9, <1>10, <1>11 DEF Baton

(* One baton travels through the goroutines and its holder is the pod the  *)
(* caller waits for (schedulePods, update): for every workload, cluster    *)
(* and channel size, as long as no timer brings a pod back.                *)
THEOREM BatonHeld == MaxRetries = 0 => (Spec => []Baton)
<1> SUFFICES ASSUME MaxRetries = 0
             PROVE  Spec => []Baton
  OBVIOUS
<1>1. Init => Baton
  BY BatonInit
<1>2. TypeOK /\ TypeOK' /\ Baton /\ [Next]_vars => Baton'
  BY BatonStep
<1> QED
  BY <1>1, <1>2, TypeCorrect, PTL DEF Spec

-----------------------------------------------------------------------------
(* The only pod on its way is the one the caller waits for (simulator.go,  *)
(* schedulePods and Close), if no timer brings a pod back.                 *)
THEOREM OnlyTheAwaited == MaxRetries = 0 => (Spec => []OneAtATime)
<1>1. Baton => OneAtATime
  <2> SUFFICES ASSUME Baton, NEW p \in Pod, InPipeline(p)
               PROVE  p \in Owed
    BY OwedPod DEF OneAtATime
  <2>1. CASE p \in {scur, handler}
    BY <2>1, SimulatorAssumptions DEF Baton, HolderOwed, SimulatorAssumptions
  <2>2. CASE queued[p] = "active" \/ binding[p].step # "none"
    BY <2>2 DEF Baton, HolderOwed
  <2>3. CASE \E i \in DOMAIN schedQ : schedQ[i] = [pod |-> p, add |-> TRUE]
    BY <2>3 DEF Baton, HolderOwed
  <2>4. CASE \E i \in DOMAIN simQ : simQ[i].pod = p
    BY <2>4 DEF Baton, HolderOwed
  <2>5. CASE /\ p \in Ours /\ NodeName[p] = Unbound
             /\ \E i \in DOMAIN podWatch :
                  podWatch[i].pod = p /\ podWatch[i].obj.node # Absent
    BY <2>5 DEF Baton, HolderOwed, IsToken
  <2> QED
    BY <2>1, <2>2, <2>3, <2>4, <2>5 DEF InPipeline
<1> QED
  BY <1>1, BatonHeld, PTL

-----------------------------------------------------------------------------
(* Who writes a pod: the caller the current one or the test pod, the       *)
(* scheduler the one that is owed, and never one that has a node.          *)
MayWrite(p) ==
    \/ p = Cur /\ pc \in {"create", "collect"}
    \/ p = TestPod /\ pc = "createTest"
    \/ p \in Owed

OneWrite ==
    \/ store' = store
    \/ \E p \in Pod : /\ MayWrite(p) /\ store[p].node \in {Absent, Unbound}
                      /\ \A q \in Pod : q # p => store'[q] = store[q]

LEMMA OneWriter ==
  ASSUME MaxRetries = 0, TypeOK, Baton, [Next]_vars
  PROVE  OneWrite
<1>0. ASSUME NEW p \in Pod, MayWrite(p), store[p].node \in {Absent, Unbound},
             store' = [store EXCEPT ![p] = store'[p]]
      PROVE  OneWrite
  <2>1. \A q \in Pod : q # p => store'[q] = store[q]
    BY <1>0 DEF TypeOK, StoreType
  <2> QED
    BY <1>0, <2>1 DEF OneWrite
<1>1. UNCHANGED store => OneWrite
  BY DEF OneWrite
<1>2. CASE CreatePod
  <2>1. Cur \in Pod /\ MayWrite(Cur) /\ store[Cur].node = Absent
    BY <1>2, CurIsPod DEF CreatePod, TypeOK, MayWrite
  <2>2. store' = [store EXCEPT ![Cur] = store'[Cur]]
    BY <1>2, <2>1 DEF CreatePod, Publish, TypeOK, StoreType
  <2> QED
    BY <1>0, <2>1, <2>2
<1>3. CASE CreateTestPod
  <2>1. TestPod \in Pod /\ MayWrite(TestPod) /\ store[TestPod].node = Absent
    BY <1>3, SimulatorAssumptions
       DEF CreateTestPod, MayWrite, Baton, CallerState, SimulatorAssumptions
  <2>2. store' = [store EXCEPT ![TestPod] = store'[TestPod]]
    BY <1>3, <2>1 DEF CreateTestPod, Publish, TypeOK, StoreType
  <2> QED
    BY <1>0, <2>1, <2>2
<1>4. CASE Collect
  <2>1. CASE UNCHANGED podVars
    BY <1>1, <2>1 DEF podVars
  <2>2. CASE stopReason # NoPod /\ ReportFailed
    <3>1. Cur \in Pod /\ MayWrite(Cur) /\ store[Cur].node = Unbound
      BY <1>4, <2>2, CurIsPod
         DEF Collect, TypeOK, CallerType, MayWrite, Baton, ReasonOfOwed
    <3>2. store' = [store EXCEPT ![Cur] = store'[Cur]]
      BY <2>2, <3>1 DEF ReportFailed, Publish, TypeOK, StoreType
    <3> QED
      BY <1>0, <3>1, <3>2
  <2> QED
    BY <1>4, <2>1, <2>2 DEF Collect
<1>5. CASE RecordUnschedulable
  <2>1. scur \in Pod /\ scur # NoPod
    BY <1>5 DEF RecordUnschedulable, TypeOK, LoopType
  <2>2. MayWrite(scur) /\ store[scur].node = Unbound
    BY <2>1 DEF Baton, HolderOwed, FreshInScheduler, MayWrite, Fresh
  <2>3. UNCHANGED store \/ store' = [store EXCEPT ![scur] = store'[scur]]
    BY <1>5, <2>1 DEF RecordUnschedulable, PatchCondition, Publish, podVars, TypeOK, StoreType
  <2> QED
    BY <1>0, <1>1, <2>1, <2>2, <2>3
<1>6. ASSUME NEW p \in Pod, RecordBindError(p) PROVE OneWrite
  <2>1. MayWrite(p) /\ store[p].node = Unbound
    BY <1>6, Binding DEF RecordBindError, MayWrite, Fresh
  <2>2. UNCHANGED store \/ store' = [store EXCEPT ![p] = store'[p]]
    BY <1>6 DEF RecordBindError, PatchCondition, Publish, podVars, TypeOK, StoreType
  <2> QED
    BY <1>0, <1>1, <2>1, <2>2
<1>7. ASSUME NEW p \in Pod, BindPodToNode(p) PROVE OneWrite
  <2>1. MayWrite(p) /\ store[p].node = Unbound
    BY <1>7, Binding DEF BindPodToNode, MayWrite, Fresh
  <2>2. UNCHANGED store \/ store' = [store EXCEPT ![p] = store'[p]]
    BY <1>7 DEF BindPodToNode, Publish, podVars, TypeOK, StoreType
  <2> QED
    BY <1>0, <1>1, <2>1, <2>2
<1>8. CASE \/ RefuseCluster \/ RunScheduler \/ CreateNode \/ NodesCreated
           \/ RefuseApp \/ CreatePodFails \/ Receive
           \/ GetClusterNodeStatus \/ CancelScheduler \/ CloseChannel
  BY <1>1, <1>8 DEF RefuseCluster, RunScheduler, CreateNode, NodesCreated, RefuseApp,
     CreatePodFails, Receive, GetClusterNodeStatus, CancelScheduler, CloseChannel, podVars
<1>9. CASE InformerStep
  BY <1>1, <1>9 DEF InformerStep, StartWatch, PodInformer, HandlePending, HandleAssigned,
     HandleNode, Update, SendOnClosedChannel, podVars
<1>10. CASE EnterScheduleOne \/ StopScheduler \/ ScheduleFails \/ RequeueUnschedulable
  BY <1>1, <1>10 DEF EnterScheduleOne, StopScheduler, ScheduleFails, RequeueUnschedulable,
     podVars
<1>11. ASSUME NEW p \in Pod, NextPod(p) \/ Retry(p) PROVE OneWrite
  BY <1>1, <1>11 DEF NextPod, Retry, podVars
<1>12. ASSUME NEW n \in Node, Assume(n) PROVE OneWrite
  BY <1>1, <1>12 DEF Assume, podVars
<1>13. ASSUME NEW p \in Pod,
              LocalBindGet(p) \/ LocalBindUpdate(p) \/ ForgetPod(p) \/ RequeueRejected(p)
       PROVE  OneWrite
  BY <1>1, <1>13 DEF LocalBindGet, LocalBindUpdate, ForgetPod, RequeueRejected, podVars
<1>14. CASE UNCHANGED vars
  BY <1>1, <1>14 DEF vars, podVars
<1> QED
  BY <1>2, <1>3, <1>4, <1>5, <1>6, <1>7, <1>8, <1>9, <1>10, <1>11, <1>12, <1>13, <1>14
     DEF Next, MainStep, SchedulerStep, Bind

(* A placed pod stays where it is (schedulePods, BindPodToNode).           *)
THEOREM PlacedStays == MaxRetries = 0 => (Spec => PlacementFinal)
<1> SUFFICES ASSUME MaxRetries = 0
             PROVE  Spec => PlacementFinal
  OBVIOUS
<1>1. ASSUME TypeOK, Baton, [Next]_vars, NEW p \in Pod, store[p].node \in Node
      PROVE  store'[p].node = store[p].node
  <2>1. store[p].node \notin {Absent, Unbound}
    BY <1>1, SimulatorAssumptions DEF SimulatorAssumptions
  <2> QED
    BY <1>1, <2>1, OneWriter DEF OneWrite
<1>2. TypeOK /\ Baton /\ [Next]_vars =>
        [\A p \in Pod : store[p].node \in Node => store'[p].node = store[p].node]_vars
  BY <1>1
<1> QED
  BY <1>2, TypeCorrect, BatonHeld, PTL DEF Spec, PlacementFinal

-----------------------------------------------------------------------------
(* The reason in sim.status when schedulePods reads it is that of the pod  *)
(* it waited for, so every failed pod is listed with its own reason.       *)
THEOREM OwnReason == MaxRetries = 0 => (Spec => []RightBlame)
<1> SUFFICES ASSUME MaxRetries = 0
             PROVE  Spec => []RightBlame
  OBVIOUS
<1>1. Init => RightBlame
  BY DEF Init, RightBlame
<1>2. ASSUME TypeOK, Baton, RightBlame, Collect, stopReason # NoPod, ReportFailed
      PROVE  RightBlame'
  <2> DEFINE e == [pod |-> Cur, why |-> stopReason]
  <2>1. Cur \in Pod /\ stopReason = Cur
    BY <1>2, CurIsPod DEF Collect, TypeOK, CallerType, Baton, ReasonOfOwed
  <2>2. /\ e \in [pod: Pod, why: Pod] /\ failedPods \in Seq([pod: Pod, why: Pod])
        /\ e.pod = e.why /\ failedPods' = Append(failedPods, e)
    BY <1>2, <2>1 DEF TypeOK, CallerType, ReportFailed
  <2> HIDE DEF e
  <2>3. /\ failedPods' \in Seq([pod: Pod, why: Pod])
        /\ Len(failedPods') = Len(failedPods) + 1
        /\ \A i \in 1 .. Len(failedPods) : failedPods'[i] = failedPods[i]
        /\ failedPods'[Len(failedPods) + 1] = e
    BY <2>2, AppendElement
  <2>4. /\ DOMAIN failedPods = 1 .. Len(failedPods)
        /\ DOMAIN failedPods' = 1 .. Len(failedPods')
        /\ Len(failedPods) \in Nat
    BY <2>2, <2>3, LenDomain
  <2>5. \A i \in DOMAIN failedPods' :
          \/ i \in DOMAIN failedPods /\ failedPods'[i] = failedPods[i]
          \/ failedPods'[i] = e
    BY <2>3, <2>4
  <2> QED
    BY <1>2, <2>2, <2>5 DEF RightBlame
<1>3. ASSUME RightBlame, failedPods' = failedPods
      PROVE  RightBlame'
  BY <1>3 DEF RightBlame
<1>4. ASSUME TypeOK, Baton, RightBlame, [Next]_vars
      PROVE  RightBlame'
  <2>1. CASE Collect
    BY <1>2, <1>3, <1>4, <2>1 DEF Collect
  <2>2. CASE \/ RefuseCluster \/ RunScheduler \/ CreateNode \/ NodesCreated \/ RefuseApp
             \/ CreatePod \/ CreatePodFails \/ Receive \/ GetClusterNodeStatus
             \/ CancelScheduler \/ CreateTestPod \/ CloseChannel
    BY <1>3, <1>4, <2>2 DEF RefuseCluster, RunScheduler, CreateNode, NodesCreated, RefuseApp,
       CreatePod, CreatePodFails, Receive, GetClusterNodeStatus, CancelScheduler,
       CreateTestPod, CloseChannel
  <2>3. CASE InformerStep
    BY <1>3, <1>4, <2>3 DEF InformerStep, StartWatch, PodInformer, HandlePending,
       HandleAssigned, HandleNode, Update, SendOnClosedChannel, mainVars
  <2>4. CASE SchedulerStep
    BY <1>3, <1>4, <2>4 DEF SchedulerStep, EnterScheduleOne, StopScheduler, ScheduleFails,
       RequeueUnschedulable, RecordUnschedulable, NextPod, Assume, mainVars
  <2>5. ASSUME NEW p \in Pod, Retry(p) \/ Bind(p) PROVE RightBlame'
    BY <1>3, <1>4, <2>5 DEF Retry, Bind, LocalBindGet, LocalBindUpdate, BindPodToNode,
       ForgetPod, RequeueRejected, RecordBindError, mainVars
  <2>6. CASE UNCHANGED vars
    BY <1>3, <1>4, <2>6 DEF vars, mainVars
  <2> QED
    BY <1>4, <2>1, <2>2, <2>3, <2>4, <2>5, <2>6 DEF Next, MainStep
<1> QED
  BY <1>1, <1>4, TypeCorrect, BatonHeld, PTL DEF Spec

-----------------------------------------------------------------------------
(* The report is taken before Close and stays true: what still runs then   *)
(* writes no pod but the one Close created (getClusterNodeStatus, Close).  *)

Reported == outcome = "ok" => pc \in {"close", "createTest", "waitTest", "shut", "done"}

THEOREM ReportStaysTrue == MaxRetries = 0 => (Spec => []ReportIsFinal)
<1> SUFFICES ASSUME MaxRetries = 0
             PROVE  Spec => []ReportIsFinal
  OBVIOUS
<1>1. Init => Reported /\ ReportIsFinal
  BY DEF Init, Reported, ReportIsFinal
<1>2. ASSUME Reported, [Next]_vars
      PROVE  \/ outcome' = "error"
             \/ GetClusterNodeStatus
             \/ /\ UNCHANGED <<outcome, nodeStatus>>
                /\ pc' = pc \/ pc \notin {"close", "createTest", "waitTest", "shut", "done"}
                     \/ pc' \in {"createTest", "waitTest", "shut", "done"}
  <2>1. CASE RefuseCluster \/ RefuseApp \/ CreatePodFails \/ GetClusterNodeStatus
    BY <2>1 DEF RefuseCluster, RefuseApp, CreatePodFails
  <2>2. CASE \/ RunScheduler \/ CreateNode \/ NodesCreated \/ CreatePod \/ Receive \/ Collect
             \/ CancelScheduler \/ CreateTestPod \/ CloseChannel
    BY <2>2 DEF RunScheduler, CreateNode, NodesCreated, CreatePod, Receive, Collect,
       CancelScheduler, CreateTestPod, CloseChannel
  <2>3. CASE InformerStep
    BY <2>3 DEF InformerStep, StartWatch, PodInformer, HandlePending,
       HandleAssigned, HandleNode, Update, SendOnClosedChannel, mainVars
  <2>4. CASE SchedulerStep
    BY <2>4 DEF SchedulerStep, EnterScheduleOne, StopScheduler, ScheduleFails,
       RequeueUnschedulable, RecordUnschedulable, NextPod, Assume, mainVars
  <2>5. ASSUME NEW p \in Pod, Retry(p) \/ Bind(p)
        PROVE  UNCHANGED <<outcome, nodeStatus, pc>>
    BY <2>5 DEF Retry, Bind, LocalBindGet, LocalBindUpdate, BindPodToNode,
       ForgetPod, RequeueRejected, RecordBindError, mainVars
  <2>6. CASE UNCHANGED vars
    BY <2>6 DEF vars, mainVars
  <2> QED
    BY <1>2, <2>1, <2>2, <2>3, <2>4, <2>5, <2>6 DEF Next, MainStep
<1>3. ASSUME TypeOK, Baton, Reported, ReportIsFinal, [Next]_vars
      PROVE  Reported' /\ ReportIsFinal'
  <2>1. CASE outcome' = "error"
    BY <2>1 DEF Reported, ReportIsFinal
  <2>2. CASE GetClusterNodeStatus
    <3>1. pc' = "close" /\ store' = store
      BY <2>2 DEF GetClusterNodeStatus, podVars
    <3>2. store[TestPod].node = Absent
      BY <1>3, <2>2 DEF GetClusterNodeStatus, Baton, CallerState
    <3>3. \A n \in Node : nodeStatus'[n] = {p \in Pod : store[p].node = n}
      BY <2>2 DEF GetClusterNodeStatus
    <3>4. Absent \notin Node
      BY SimulatorAssumptions DEF SimulatorAssumptions
    <3>5. ASSUME NEW n \in Node
          PROVE  nodeStatus'[n] = {p \in Pod \ {TestPod} : store'[p].node = n}
      BY <3>1, <3>2, <3>3, <3>4
    <3> QED
      BY <3>1, <3>5 DEF Reported, ReportIsFinal
  <2>3. CASE /\ UNCHANGED <<outcome, nodeStatus>>
             /\ pc' = pc \/ pc \notin {"close", "createTest", "waitTest", "shut", "done"}
                  \/ pc' \in {"createTest", "waitTest", "shut", "done"}
    <3> SUFFICES ASSUME outcome = "ok"
                 PROVE  Reported' /\ ReportIsFinal'
      BY <2>3 DEF Reported, ReportIsFinal
    <3>1. pc \in {"close", "createTest", "waitTest", "shut", "done"}
      BY <1>3 DEF Reported
    <3>2. \A p \in Pod : MayWrite(p) => p = TestPod
      BY <3>1, OwedPod DEF MayWrite
    <3>3. \A p \in Pod \ {TestPod} : store'[p] = store[p]
      BY <1>3, <3>2, OneWriter DEF OneWrite
    <3>4. Reported'
      BY <2>3, <3>1 DEF Reported
    <3>5. ASSUME NEW n \in Node
          PROVE  nodeStatus'[n] = {p \in Pod \ {TestPod} : store'[p].node = n}
      <4>1. nodeStatus[n] = {p \in Pod \ {TestPod} : store[p].node = n}
        BY <1>3 DEF ReportIsFinal
      <4> QED
        BY <2>3, <3>3, <4>1
    <3> QED
      BY <3>4, <3>5 DEF ReportIsFinal
  <2> QED
    BY <1>2, <1>3, <2>1, <2>2, <2>3
<1> QED
  BY <1>1, <1>3, TypeCorrect, BatonHeld, PTL DEF Spec

-----------------------------------------------------------------------------
(* Without pods that name their node a watch channel of two never          *)
(* overflows, and nothing is sent on simulatorStop once Close has closed   *)
(* it (core.go, "must understand why channel is full"; Close).             *)

(* Without storage the node watch carries the creations only.              *)
ShortNodeWatch ==
    /\ Len(nodeQ) <= created
    /\ \A p \in Pod : binding[p].step \notin {"local", "write"}

LEMMA NodeWatchNext ==
  ASSUME NoStorage, TypeOK, ShortNodeWatch, [Next]_vars
  PROVE  ShortNodeWatch'
<1>0. /\ Len(nodeQ) \in Nat /\ created \in Nat
      /\ binding \in [Pod -> [step: BindStep, node: Node \cup {Unbound}, read: Nat]]
  BY SimulatorAssumptions, LenProperties
     DEF TypeOK, NodeType, CallerType, BindingType, SimulatorAssumptions
<1>1. UNCHANGED <<nodeQ, created>> => Len(nodeQ)' <= created'
  BY DEF ShortNodeWatch
<1>2. UNCHANGED binding => \A p \in Pod : binding'[p].step \notin {"local", "write"}
  BY DEF ShortNodeWatch
<1>3. CASE MainStep
  <2>1. UNCHANGED binding
    BY <1>3 DEF MainStep, RefuseCluster, RunScheduler, CreateNode, NodesCreated, RefuseApp,
       CreatePod, CreatePodFails, Receive, Collect, GetClusterNodeStatus, CancelScheduler,
       CreateTestPod, CloseChannel
  <2>2. CASE CreateNode
    <3>1. created' = created + 1
      BY <2>2 DEF CreateNode
    <3>2. Len(nodeQ') \in {Len(nodeQ), Len(nodeQ) + 1}
      <4>1. PICK e : nodeQ' \in {nodeQ, Append(nodeQ, e)}
        BY <2>2 DEF CreateNode, PublishNode
      <4>2. Len(Append(nodeQ, e)) = Len(nodeQ) + 1
        BY DEF TypeOK, NodeType
      <4> QED
        BY <4>1, <4>2
    <3> QED
      BY <1>0, <1>2, <2>1, <3>1, <3>2 DEF ShortNodeWatch
  <2>3. CASE ~CreateNode
    BY <1>1, <1>2, <1>3, <2>1, <2>3 DEF MainStep, RefuseCluster, RunScheduler, NodesCreated,
       RefuseApp, CreatePod, CreatePodFails, Receive, Collect, GetClusterNodeStatus,
       CancelScheduler, CreateTestPod, CloseChannel, diskVars, ShortNodeWatch
  <2> QED
    BY <2>2, <2>3
<1>4. CASE HandleNode
  <2>1. Len(nodeQ') = Len(nodeQ) - 1
    BY <1>4, HeadTailProperties DEF HandleNode, TypeOK, NodeType
  <2> QED
    BY <1>0, <1>2, <1>4, <2>1 DEF HandleNode, mainVars, ShortNodeWatch
<1>5. CASE InformerStep /\ ~HandleNode
  BY <1>1, <1>2, <1>5 DEF InformerStep, StartWatch, PodInformer, HandlePending,
     HandleAssigned, Update, SendOnClosedChannel, mainVars, diskVars, ShortNodeWatch
<1>6. CASE EnterScheduleOne \/ StopScheduler \/ ScheduleFails \/ RequeueUnschedulable
           \/ RecordUnschedulable
  BY <1>1, <1>2, <1>6 DEF EnterScheduleOne, StopScheduler, ScheduleFails,
     RequeueUnschedulable, RecordUnschedulable, mainVars, diskVars, ShortNodeWatch
<1>7. ASSUME NEW p \in Pod, NextPod(p) \/ Retry(p) PROVE ShortNodeWatch'
  BY <1>1, <1>2, <1>7 DEF NextPod, Retry, mainVars, diskVars, ShortNodeWatch
<1>8. ASSUME NEW n \in Node, Assume(n) PROVE ShortNodeWatch'
  <2>1. \A p \in Pod : ~(Disk[p] > 0)
    BY DEF NoStorage
  <2>2. scur \in Pod
    BY <1>8 DEF Assume, TypeOK, LoopType
  <2>3. binding' = [binding EXCEPT ![scur] = [step |-> "simon", node |-> n, read |-> 0]]
    BY <1>8, <2>1, <2>2 DEF Assume
  <2>4. \A p \in Pod : binding'[p].step \notin {"local", "write"}
    BY <1>0, <2>3 DEF ShortNodeWatch
  <2> QED
    BY <1>1, <1>8, <2>4 DEF Assume, mainVars, diskVars, ShortNodeWatch
<1>9. ASSUME NEW p \in Pod, Bind(p) PROVE ShortNodeWatch'
  <2>1. ~LocalBindGet(p) /\ ~LocalBindUpdate(p)
    BY DEF LocalBindGet, LocalBindUpdate, ShortNodeWatch
  <2>2. UNCHANGED <<nodeQ, created>>
    BY <1>9, <2>1 DEF Bind, BindPodToNode, ForgetPod, RequeueRejected, RecordBindError,
       mainVars, diskVars
  <2>3. \A q \in Pod : binding'[q].step \in {binding[q].step, "none", "forget", "requeue", "patch"}
    BY <1>0, <1>9, <2>1 DEF Bind, BindPodToNode, ForgetPod, RequeueRejected, RecordBindError,
       Goto, NoBind
  <2> QED
    BY <1>1, <2>2, <2>3 DEF ShortNodeWatch
<1>10. CASE UNCHANGED vars
  BY <1>1, <1>2, <1>10 DEF vars, mainVars, diskVars, ShortNodeWatch
<1> QED
  BY <1>3, <1>4, <1>5, <1>6, <1>7, <1>8, <1>9, <1>10 DEF Next, SchedulerStep

LEMMA WatchRoom ==
  ASSUME MaxRetries = 0, ChanSize >= 2, Len(NodeOrder) <= ChanSize,
         \A p \in Pod : NodeName[p] = Unbound,
         TypeOK, Baton, ShortNodeWatch, NoPanic, [Next]_vars
  PROVE  NoPanic'
<1>0. Len(podWatch) \in Nat /\ ChanSize \in Nat
  BY WatchEmpty, SimulatorAssumptions DEF TypeOK, SimulatorAssumptions
<1>1. ASSUME NEW p, NEW o, Publish(p, o), Len(podWatch) <= 1
      PROVE  NoPanic'
  <2>1. ~(Len(podWatch) >= ChanSize)
    BY <1>0, <1>1
  <2>2. ~panicked
    BY DEF NoPanic
  <2>3. panicked' = (panicked \/ (watching /\ Len(podWatch) >= ChanSize))
    BY <1>1 DEF Publish
  <2> QED
    BY <2>1, <2>2, <2>3, Zenon DEF NoPanic
<1>2. podWatch = <<>> => Len(podWatch) <= 1
  BY <1>0, WatchEmpty DEF TypeOK
<1>3. pc \in {"create", "createTest"} => Len(podWatch) <= 1
  BY DEF Baton, ShortWatch
<1>4. UNCHANGED panicked => NoPanic'
  BY DEF NoPanic
<1>5. CASE CreatePod
  BY <1>1, <1>3, <1>5 DEF CreatePod
<1>6. CASE CreateTestPod
  BY <1>1, <1>3, <1>6 DEF CreateTestPod
<1>7. CASE Collect
  <2>1. CASE UNCHANGED podVars
    BY <1>4, <2>1 DEF podVars
  <2>2. CASE stopReason # NoPod /\ ReportFailed
    <3>1. podWatch = <<>>
      BY <1>7, <2>2 DEF Collect, Baton, ReasonOfOwed, CallerState
    <3> QED
      BY <1>1, <1>2, <2>2, <3>1 DEF ReportFailed
  <2> QED
    BY <1>7, <2>1, <2>2 DEF Collect
<1>8. CASE RecordUnschedulable
  <2>1. scur # NoPod
    BY <1>8 DEF RecordUnschedulable, TypeOK, LoopType
  <2>2. podWatch = <<>>
    BY <2>1 DEF Baton, Exclusive
  <2> QED
    BY <1>1, <1>2, <1>4, <1>8, <2>2 DEF RecordUnschedulable, PatchCondition, podVars
<1>9. ASSUME NEW p \in Pod, RecordBindError(p) PROVE NoPanic'
  <2>1. podWatch = <<>>
    BY <1>9, Binding DEF RecordBindError
  <2> QED
    BY <1>1, <1>2, <1>4, <1>9, <2>1 DEF RecordBindError, PatchCondition, podVars
<1>10. ASSUME NEW p \in Pod, BindPodToNode(p) PROVE NoPanic'
  <2>1. podWatch = <<>>
    BY <1>10, Binding DEF BindPodToNode
  <2> QED
    BY <1>1, <1>2, <1>4, <1>10, <2>1 DEF BindPodToNode, podVars
<1>11. ~SendOnClosedChannel
  BY NotWaiting DEF SendOnClosedChannel, Baton, CallerState, Idle
<1>12. CASE \/ RefuseCluster \/ RunScheduler \/ NodesCreated \/ RefuseApp
            \/ CreatePodFails \/ Receive \/ GetClusterNodeStatus \/ CancelScheduler \/ CloseChannel
  BY <1>4, <1>12 DEF RefuseCluster, RunScheduler, NodesCreated, RefuseApp,
     CreatePodFails, Receive, GetClusterNodeStatus, CancelScheduler, CloseChannel, podVars
<1>13. CASE InformerStep
  BY <1>4, <1>11, <1>13 DEF InformerStep, StartWatch, PodInformer, HandlePending,
     HandleAssigned, HandleNode, Update, podVars
<1>14. CASE EnterScheduleOne \/ StopScheduler \/ ScheduleFails \/ RequeueUnschedulable
  BY <1>4, <1>14 DEF EnterScheduleOne, StopScheduler, ScheduleFails, RequeueUnschedulable,
     podVars
<1>15. ASSUME NEW p \in Pod, NextPod(p) \/ Retry(p) PROVE NoPanic'
  BY <1>4, <1>15 DEF NextPod, Retry, podVars
<1>16. ASSUME NEW n \in Node, Assume(n) PROVE NoPanic'
  BY <1>4, <1>16 DEF Assume, podVars
<1>17. ASSUME NEW p \in Pod,
              LocalBindGet(p) \/ LocalBindUpdate(p) \/ ForgetPod(p) \/ RequeueRejected(p)
       PROVE  NoPanic'
  <2>1. ~LocalBindUpdate(p)
    BY DEF LocalBindUpdate, ShortNodeWatch
  <2> QED
    BY <1>4, <1>17, <2>1 DEF LocalBindGet, ForgetPod, RequeueRejected, podVars
<1>18. CASE UNCHANGED vars
  BY <1>4, <1>18 DEF vars, podVars
<1>19. CASE CreateNode
  <2>1. Len(nodeQ) \in Nat /\ created \in Nat /\ Len(NodeOrder) \in Nat
    BY SimulatorAssumptions, LenProperties DEF TypeOK, NodeType, CallerType, SimulatorAssumptions
  <2>2. Len(nodeQ) <= created /\ created < Len(NodeOrder)
    BY <1>19 DEF CreateNode, ShortNodeWatch
  <2>3. ~(Len(nodeQ) >= ChanSize)
    BY <1>0, <2>1, <2>2
  <2>4. ~panicked
    BY DEF NoPanic
  <2>5. panicked' \in {panicked, panicked \/ Len(nodeQ) >= ChanSize}
    BY <1>19 DEF CreateNode, PublishNode
  <2> QED
    BY <2>3, <2>4, <2>5, Zenon DEF NoPanic
<1> QED
  BY <1>5, <1>6, <1>7, <1>8, <1>9, <1>10, <1>12, <1>13, <1>14, <1>15, <1>16, <1>17, <1>18, <1>19
     DEF Next, MainStep, SchedulerStep, Bind

(* A watch channel of two is enough for pods, one that holds the nodes for  *)
(* nodes, and Close closes a channel on which nothing more is sent.        *)
THEOREM TwoAreEnough ==
  MaxRetries = 0 /\ NoStorage /\ (\A p \in Pod : NodeName[p] = Unbound)
    /\ ChanSize >= 2 /\ ChanSize >= Len(NodeOrder)
      => (Spec => []NoPanic)
<1> SUFFICES ASSUME MaxRetries = 0, NoStorage, \A p \in Pod : NodeName[p] = Unbound,
                    ChanSize >= 2, ChanSize >= Len(NodeOrder)
             PROVE  Spec => []NoPanic
  OBVIOUS
<1>0. Len(NodeOrder) <= ChanSize
  BY LenProperties, SimulatorAssumptions DEF SimulatorAssumptions
<1>1. Init => NoPanic /\ ShortNodeWatch
  BY LenProperties DEF Init, NoPanic, ShortNodeWatch, NoBind
<1>2. TypeOK /\ Baton /\ ShortNodeWatch /\ NoPanic /\ [Next]_vars => NoPanic'
  BY <1>0, WatchRoom
<1>3. TypeOK /\ ShortNodeWatch /\ [Next]_vars => ShortNodeWatch'
  BY NodeWatchNext
<1> QED
  BY <1>1, <1>2, <1>3, TypeCorrect, BatonHeld, PTL DEF Spec
=============================================================================
