--------------------------- MODULE PlacementProofs ---------------------------
(***************************************************************************)
(* Where the pods of a simulation end up: no node is overcommitted, with   *)
(* any number of retries.                                                  *)
(***************************************************************************)
EXTENDS SimulatorProofs, Sums

-----------------------------------------------------------------------------
(* What a queue says of p: the entries of r on p are entries of q, in the  *)
(* same order.                                                             *)
Embeds(r, q, p) ==
    \E d \in {0, 1} : \A i \in DOMAIN r :
        r[i].pod = p => i + d \in DOMAIN q /\ r[i] = q[i + d]

LEMMA EmbedSame ==
  ASSUME NEW S, NEW q \in Seq(S), NEW p
  PROVE  Embeds(q, q, p)
<1>1. \A i \in DOMAIN q : i + 0 = i
  BY LenDomain
<1> QED
  BY <1>1 DEF Embeds

LEMMA EmbedTail ==
  ASSUME NEW S, NEW q \in Seq(S), q # <<>>, NEW p
  PROVE  Embeds(Tail(q), q, p)
  BY TailShift DEF Embeds

LEMMA EmbedAppend ==
  ASSUME NEW S, NEW q \in Seq(S), NEW e \in S, NEW p, e.pod # p
  PROVE  Embeds(Append(q, e), q, p)
<1> DEFINE r == Append(q, e)
<1>1. /\ r \in Seq(S) /\ Len(r) = Len(q) + 1 /\ r[Len(q) + 1] = e
      /\ \A i \in 1 .. Len(q) : r[i] = q[i]
  BY AppendElement
<1> HIDE DEF r
<1>2. /\ DOMAIN r = 1 .. Len(r) /\ DOMAIN q = 1 .. Len(q) /\ Len(q) \in Nat
  BY <1>1, LenDomain
<1>3. \A i \in DOMAIN r : r[i].pod = p => i + 0 \in DOMAIN q /\ r[i] = q[i + 0]
  BY <1>1, <1>2
<1> QED
  BY <1>3 DEF Embeds, r

(* A step after which no more attempts at p are under way than before.     *)
AttemptShrinks(p) ==
    /\ Embeds(schedQ', schedQ, p)
    /\ \/ queued'[p] \in {queued[p], "no"}
       \/ queued[p] = "unschedulable" /\ queued'[p] = "backoff"
    /\ scur' = p => scur = p /\ (spc = "patch" => spc' = "patch")
    /\ binding'[p].step # "none" => binding[p].step # "none"
    /\ binding'[p].step \notin {"none", "patch"} => binding[p].step \notin {"none", "patch"}
    /\ binding'[p].step \in {"local", "write", "simon"} =>
         binding[p].step \in {"local", "write", "simon"} /\ binding'[p].node = binding[p].node

(* A step after which nothing more is on its way for p.                    *)
Shrinks(p) ==
    /\ MayCreate(p)' => MayCreate(p)
    /\ store'[p] = store[p] /\ lister'[p] = lister[p] /\ cache'[p] = cache[p]
    /\ Embeds(podWatch', podWatch, p) /\ Embeds(assignedQ', assignedQ, p)
    /\ AttemptShrinks(p)

LEMMA FewerAttempts ==
  ASSUME NEW p, AttemptShrinks(p)
  PROVE  (AddPending(p)' => AddPending(p)) /\ (Attempted(p)' => Attempted(p))
<1>1. AddPending(p)' => AddPending(p)
  BY DEF AttemptShrinks, Embeds, AddPending
<1>2. Attempted(p)' => Attempted(p)
  BY <1>1 DEF AttemptShrinks, Attempted
<1> QED
  BY <1>1, <1>2

LEMMA ShrinkAttempt ==
  ASSUME NEW p, Shrinks(p)
  PROVE  /\ Attempted(p)' => Attempted(p)
         /\ UnboundEvent(p)' => UnboundEvent(p)
         /\ Assigned(p)' => Assigned(p)
<1>2. Attempted(p)' => Attempted(p)
  BY FewerAttempts DEF Shrinks
<1>3. UnboundEvent(p)' => UnboundEvent(p)
  BY DEF Shrinks, Embeds, UnboundEvent
<1>4. ASSUME Assigned(p)' PROVE Assigned(p)
  <2>1. CASE store'[p].node \in Node \/ lister'[p].node \in Node
    BY <2>1 DEF Shrinks, Assigned
  <2>2. CASE \E i \in DOMAIN podWatch' :
               podWatch'[i].pod = p /\ podWatch'[i].obj.node \in Node
    BY <2>2 DEF Shrinks, Embeds, Assigned
  <2>3. CASE \E i \in DOMAIN assignedQ' : assignedQ'[i].pod = p
    BY <2>3 DEF Shrinks, Embeds, Assigned
  <2> QED
    BY <1>4, <2>1, <2>2, <2>3 DEF Assigned
<1> QED
  BY <1>2, <1>3, <1>4

(* The positions of the queues are numbers.                                *)
QueuesIndexed ==
    \A i \in DOMAIN podWatch \cup DOMAIN schedQ \cup DOMAIN assignedQ : i \in Nat

LEMMA Indexed ==
  ASSUME TypeOK
  PROVE  QueuesIndexed
  BY LenDomain DEF TypeOK, StoreType, InformerType, QueuesIndexed

LEMMA OneAttemptShrinks ==
  ASSUME TypeOK', NEW p, OneAttempt(p), AttemptShrinks(p)
  PROVE  OneAttempt(p)'
<1>1. PICK s \in {0, 1} : \A i \in DOMAIN schedQ' :
        schedQ'[i].pod = p => i + s \in DOMAIN schedQ /\ schedQ'[i] = schedQ[i + s]
  BY DEF AttemptShrinks, Embeds
<1>2. \A i \in DOMAIN schedQ' : i \in Nat
  BY LenDomain DEF TypeOK, InformerType
<1>3. \A i, j \in DOMAIN schedQ' :
        schedQ'[i].pod = p /\ schedQ'[i].add /\ schedQ'[j].pod = p /\ schedQ'[j].add => i = j
  <2> SUFFICES ASSUME NEW i \in DOMAIN schedQ', NEW j \in DOMAIN schedQ',
                      schedQ'[i].pod = p, schedQ'[i].add, schedQ'[j].pod = p, schedQ'[j].add
               PROVE  i = j
    OBVIOUS
  <2>1. i + s = j + s
    BY <1>1 DEF OneAttempt
  <2> QED
    BY <1>2, <2>1
<1>4. AddPending(p)' => queued'[p] = "no" /\ scur' # p /\ binding'[p].step = "none"
  BY FewerAttempts DEF OneAttempt, AttemptShrinks
<1>5. queued'[p] = "active" => scur' # p /\ binding'[p].step = "none"
  BY DEF OneAttempt, AttemptShrinks
<1>6. scur' = p => binding'[p].step = "none" /\ (queued'[p] = "no" \/ spc' = "patch")
  BY DEF OneAttempt, AttemptShrinks
<1>7. binding'[p].step \notin {"none", "patch"} => queued'[p] = "no"
  BY DEF OneAttempt, AttemptShrinks
<1> QED
  BY <1>3, <1>4, <1>5, <1>6, <1>7 DEF OneAttempt

LEMMA ShrinkLife ==
  ASSUME TypeOK, TypeOK', NEW p \in Pod, LifeOf(p), Shrinks(p)
  PROVE  LifeOf(p)'
<1>1. /\ Attempted(p)' => Attempted(p)
      /\ UnboundEvent(p)' => UnboundEvent(p)
      /\ Assigned(p)' => Assigned(p)
  BY ShrinkAttempt
<1>2. QueuesIndexed /\ QueuesIndexed'
  <2>1. QueuesIndexed'
    BY Indexed, PTL
  <2> QED
    BY <2>1, Indexed
<1>3. PICK d \in {0, 1} : \A i \in DOMAIN podWatch' :
        podWatch'[i].pod = p => i + d \in DOMAIN podWatch /\ podWatch'[i] = podWatch[i + d]
  BY DEF Shrinks, Embeds
<1>5. PICK a \in {0, 1} : \A i \in DOMAIN assignedQ' :
        assignedQ'[i].pod = p => i + a \in DOMAIN assignedQ /\ assignedQ'[i] = assignedQ[i + a]
  BY DEF Shrinks, Embeds
<1>6. CreatedOnce(p)'
  <2>1. Untouched(p) => Untouched(p)'
    BY <1>1, <1>3 DEF Untouched, Shrinks
  <2> QED
    BY <2>1 DEF LifeOf, CreatedOnce, Shrinks
<1>7. OneAttempt(p)'
  BY OneAttemptShrinks DEF LifeOf, Shrinks
<1>8. AttemptUnassigned(p)'
  BY <1>1 DEF LifeOf, AttemptUnassigned, Shrinks
<1>9. EventOrder(p)'
  <2>1. \A i, j \in DOMAIN podWatch' :
          podWatch'[i].pod = p /\ podWatch'[j].pod = p /\ i < j =>
             /\ podWatch'[i].obj.node = Absent => podWatch'[j].obj.node = Absent
             /\ podWatch'[i].obj.node \in Node => podWatch'[j].obj.node # Unbound
    <3> SUFFICES ASSUME NEW i \in DOMAIN podWatch', NEW j \in DOMAIN podWatch',
                        podWatch'[i].pod = p, podWatch'[j].pod = p, i < j
                 PROVE  /\ podWatch'[i].obj.node = Absent => podWatch'[j].obj.node = Absent
                        /\ podWatch'[i].obj.node \in Node => podWatch'[j].obj.node # Unbound
      OBVIOUS
    <3>1. i + d < j + d
      BY <1>2 DEF QueuesIndexed
    <3> QED
      BY <1>3, <3>1 DEF LifeOf, EventOrder
  <2>2. \A i \in DOMAIN podWatch' :
          podWatch'[i].pod = p /\ IsDeletion(podWatch'[i]) => store'[p].node = Absent
    BY <1>3 DEF LifeOf, EventOrder, Shrinks
  <2>3. lister'[p].node \in Node => ~UnboundEvent(p)'
    BY <1>1 DEF LifeOf, EventOrder, Shrinks
  <2> QED
    BY <2>1, <2>2, <2>3 DEF EventOrder, IsDeletion
<1>10. RemovedLast(p)'
  <2> SUFFICES ASSUME NEW i \in DOMAIN assignedQ', assignedQ'[i].pod = p,
                      assignedQ'[i].node \notin Node
               PROVE  /\ store'[p].node = Absent
                      /\ \A j \in DOMAIN podWatch' :
                           podWatch'[j].pod = p => IsDeletion(podWatch'[j])
                      /\ \A j \in DOMAIN assignedQ' :
                           i < j /\ assignedQ'[j].pod = p => assignedQ'[j].node \notin Node
    BY DEF RemovedLast, IsDeletion
  <2>1. /\ i + a \in DOMAIN assignedQ /\ assignedQ[i + a].pod = p
        /\ assignedQ[i + a].node \notin Node
    BY <1>5
  <2>2. store'[p].node = Absent
    BY <2>1 DEF LifeOf, RemovedLast, Shrinks
  <2>3. \A j \in DOMAIN podWatch' : podWatch'[j].pod = p => IsDeletion(podWatch'[j])
    BY <1>3, <2>1 DEF LifeOf, RemovedLast
  <2>4. ASSUME NEW j \in DOMAIN assignedQ', i < j, assignedQ'[j].pod = p
        PROVE  assignedQ'[j].node \notin Node
    <3>1. i + a < j + a
      BY <1>2, <2>4 DEF QueuesIndexed
    <3> QED
      BY <1>5, <2>1, <2>4, <3>1 DEF LifeOf, RemovedLast
  <2> QED
    BY <2>2, <2>3, <2>4
<1>11. Counted(p)'
  <2>1. store'[p].node \in Node => cache'[p] = store'[p].node
    BY DEF LifeOf, Counted, Shrinks
  <2>2. \A i \in DOMAIN podWatch' :
          podWatch'[i].pod = p /\ podWatch'[i].obj.node \in Node
            => cache'[p] = podWatch'[i].obj.node
    BY <1>3 DEF LifeOf, Counted, Shrinks
  <2>3. \A i \in DOMAIN assignedQ' :
          assignedQ'[i].pod = p /\ assignedQ'[i].node \in Node => cache'[p] = assignedQ'[i].node
    BY <1>5 DEF LifeOf, Counted, Shrinks
  <2>4. binding'[p].step \in {"local", "write", "simon"} => cache'[p] = binding'[p].node
    BY DEF LifeOf, Counted, Shrinks, AttemptShrinks
  <2> QED
    BY <2>1, <2>2, <2>3, <2>4 DEF Counted
<1> QED
  BY <1>6, <1>7, <1>8, <1>9, <1>10, <1>11 DEF LifeOf

-----------------------------------------------------------------------------
(* The steps of the caller.                                                *)

LEMMA SameAttempts ==
  ASSUME TypeOK, NEW p \in Pod, UNCHANGED schedQ, queued'[p] = queued[p],
         scur' = p => scur = p /\ (spc = "patch" => spc' = "patch"),
         binding'[p] = binding[p] \/ binding'[p].step = "none"
  PROVE  AttemptShrinks(p)
<1>1. Embeds(schedQ', schedQ, p)
  BY EmbedSame DEF TypeOK, InformerType
<1> QED
  BY <1>1 DEF AttemptShrinks

LEMMA StillShrinks ==
  ASSUME TypeOK, NEW p \in Pod, MayCreate(p)' => MayCreate(p), AttemptShrinks(p),
         UNCHANGED <<store, podWatch, lister, assignedQ>>, cache'[p] = cache[p]
  PROVE  Shrinks(p)
<1>1. Embeds(podWatch', podWatch, p) /\ Embeds(assignedQ', assignedQ, p)
  BY EmbedSame DEF TypeOK, StoreType, InformerType
<1> QED
  BY <1>1 DEF Shrinks

LEMMA PublishElsewhere ==
  ASSUME TypeOK, NEW p \in Pod, NEW q \in Pod, p # q, NEW o \in Object, Publish(q, o),
         MayCreate(p)' => MayCreate(p), AttemptShrinks(p),
         UNCHANGED <<lister, assignedQ, cache>>
  PROVE  Shrinks(p)
<1>1. store'[p] = store[p]
  BY PublishWrites DEF Written, TypeOK
<1>2. Embeds(podWatch', podWatch, p)
  <2>1. [pod |-> q, obj |-> o] \in PodEvent /\ podWatch \in Seq(PodEvent)
    BY DEF PodEvent, TypeOK, StoreType
  <2> QED
    BY <2>1, EmbedSame, EmbedAppend DEF Publish
<1>3. Embeds(assignedQ', assignedQ, p)
  BY EmbedSame DEF TypeOK, InformerType
<1> QED
  BY <1>1, <1>2, <1>3 DEF Shrinks

LEMMA WorkloadIndex ==
  /\ Len(Workload) \in Nat /\ DOMAIN Workload = 1 .. Len(Workload)
  /\ TypeOK => pos \in Nat /\ pos >= 1
<1>1. Len(Workload) \in Nat /\ DOMAIN Workload = 1 .. Len(Workload)
  BY LenDomain, SimulatorAssumptions DEF SimulatorAssumptions
<1> QED
  BY <1>1 DEF TypeOK, CallerType

LEMMA NoNewCreation ==
  ASSUME TypeOK, NEW p, [Next]_vars
  PROVE  MayCreate(p)' => MayCreate(p)
<1>0. Len(Workload) \in Nat /\ pos \in Nat
  BY WorkloadIndex
<1>1. UNCHANGED <<pc, pos>> => (MayCreate(p)' => MayCreate(p))
  BY DEF MayCreate
<1>2. CASE \/ RefuseCluster \/ RunScheduler \/ CreateNode \/ NodesCreated \/ RefuseApp
           \/ CreatePodFails \/ Receive \/ GetClusterNodeStatus \/ CancelScheduler
           \/ CreateTestPod \/ CloseChannel
  BY <1>2 DEF MayCreate, RefuseCluster, RunScheduler, CreateNode, NodesCreated, RefuseApp,
     CreatePodFails, Receive, GetClusterNodeStatus, CancelScheduler, CreateTestPod, CloseChannel
<1>3. CASE CreatePod
  <2>1. pc = "create" /\ pc' \in {"wait", "collect"} /\ pos' = pos
    BY <1>3 DEF CreatePod, AfterCreate
  <2>2. pos + 1 .. Len(Workload) \subseteq pos .. Len(Workload)
    BY <1>0
  <2> QED
    BY <2>1, <2>2 DEF MayCreate
<1>4. CASE Collect
  BY <1>4 DEF Collect, MayCreate
<1>5. CASE InformerStep
  BY <1>1, <1>5 DEF InformerStep, StartWatch, PodInformer, HandlePending, HandleAssigned,
     HandleNode, Update, SendOnClosedChannel, mainVars
<1>6. CASE SchedulerStep
  BY <1>1, <1>6 DEF SchedulerStep, EnterScheduleOne, StopScheduler, ScheduleFails,
     RequeueUnschedulable, RecordUnschedulable, NextPod, Assume, mainVars
<1>7. ASSUME NEW q \in Pod, Retry(q) \/ Bind(q) PROVE MayCreate(p)' => MayCreate(p)
  BY <1>1, <1>7 DEF Retry, Bind, LocalBindGet, LocalBindUpdate, BindPodToNode,
     ForgetPod, RequeueRejected, RecordBindError, mainVars
<1>8. CASE UNCHANGED vars
  BY <1>1, <1>8 DEF vars, mainVars
<1> QED
  BY <1>2, <1>3, <1>4, <1>5, <1>6, <1>7, <1>8 DEF Next, MainStep

(* What is created, or deleted, is not created again.                      *)
LEMMA NoMoreCreation ==
  ASSUME TypeOK, DistinctNames, NEW p
  PROVE  /\ CreatePod /\ p = Cur => MayCreate(p) /\ ~MayCreate(p)'
         /\ Collect /\ p = Cur => ~MayCreate(p)'
         /\ CreateTestPod /\ p = TestPod => MayCreate(p) /\ ~MayCreate(p)'
<1>0. /\ Len(Workload) \in Nat /\ DOMAIN Workload = 1 .. Len(Workload)
      /\ pos \in Nat /\ pos >= 1
  BY WorkloadIndex
<1>1. ASSUME pos <= Len(Workload), p = Cur
      PROVE  /\ \A i \in pos + 1 .. Len(Workload) : Workload[i] # p
             /\ p # TestPod /\ pos \in pos .. Len(Workload)
  <2>1. p # TestPod
    BY <1>1, CurIsPod DEF TypeOK
  <2>2. ASSUME NEW i \in pos + 1 .. Len(Workload), Workload[i] = p PROVE FALSE
    <3>1. i \in DOMAIN Workload /\ pos \in DOMAIN Workload /\ i # pos
      BY <1>0, <1>1
    <3> QED
      BY <1>1, <2>2, <3>1 DEF DistinctNames, Cur
  <2> QED
    BY <1>0, <1>1, <2>1, <2>2
<1>2. ASSUME CreatePod, p = Cur PROVE MayCreate(p) /\ ~MayCreate(p)'
  <2>1. pc = "create" /\ pc' \in {"wait", "collect"} /\ pos' = pos /\ pos <= Len(Workload)
    BY <1>2 DEF CreatePod, AfterCreate
  <2>2. MayCreate(p)
    BY <1>1, <1>2, <2>1 DEF MayCreate, Cur
  <2> QED
    BY <1>1, <1>2, <2>1, <2>2 DEF MayCreate
<1>3. ASSUME Collect, p = Cur PROVE ~MayCreate(p)'
  <2>1. pc' = "create" /\ pos' = pos + 1 /\ pos <= Len(Workload)
    BY <1>3 DEF Collect, TypeOK, CallerType
  <2> QED
    BY <1>1, <1>3, <2>1 DEF MayCreate
<1>4. ASSUME CreateTestPod, p = TestPod PROVE MayCreate(p) /\ ~MayCreate(p)'
  BY <1>4 DEF MayCreate, CreateTestPod
<1> QED
  BY <1>2, <1>3, <1>4

(* The events on p after a write of p.                                     *)
LEMMA OwnEvents ==
  ASSUME TypeOK, TypeOK', NEW p \in Pod, NEW o \in Object, Publish(p, o)
  PROVE  /\ store'[p] = o
         /\ \A i \in DOMAIN podWatch' :
              \/ i \in DOMAIN podWatch /\ podWatch'[i] = podWatch[i]
              \/ /\ podWatch'[i].pod = p /\ podWatch'[i].obj = o
                 /\ \A j \in DOMAIN podWatch' : ~(i < j)
         /\ \A i, j \in DOMAIN podWatch' :
              i < j /\ j \in DOMAIN podWatch => i \in DOMAIN podWatch
<1>1. Written(p, o)
  BY PublishWrites DEF TypeOK
<1>2. /\ DOMAIN podWatch = 1 .. Len(podWatch) /\ DOMAIN podWatch' = 1 .. Len(podWatch')
      /\ Len(podWatch) \in Nat /\ Len(podWatch') \in Nat
  BY LenDomain DEF TypeOK, StoreType
<1>3. \A i \in DOMAIN podWatch' :
        \/ i \in DOMAIN podWatch /\ podWatch'[i] = podWatch[i]
        \/ i = Len(podWatch') /\ podWatch'[i] = [pod |-> p, obj |-> o]
  BY <1>1 DEF Written
<1>4. \A j \in DOMAIN podWatch' : ~(Len(podWatch') < j)
  BY <1>2
<1>5. \A i, j \in DOMAIN podWatch' : i < j /\ j \in DOMAIN podWatch => i \in DOMAIN podWatch
  BY <1>2
<1>6. store'[p] = o
  BY <1>1 DEF Written
<1> QED
  BY <1>3, <1>4, <1>5, <1>6

LEMMA LifeCreation ==
  ASSUME TypeOK, TypeOK', NEW p \in Pod, NEW o \in Object, o.node = Unbound, Publish(p, o),
         LifeOf(p), Untouched(p), ~MayCreate(p)', AttemptShrinks(p),
         UNCHANGED <<lister, assignedQ, cache>>
  PROVE  LifeOf(p)'
<1>0. Unbound \notin Node /\ Absent # Unbound /\ Absent \notin Node
  BY SimulatorAssumptions DEF SimulatorAssumptions
<1>1. /\ store'[p] = o
      /\ \A i \in DOMAIN podWatch' :
           podWatch'[i].pod = p =>
             podWatch'[i].obj = o /\ \A j \in DOMAIN podWatch' : ~(i < j)
  BY OwnEvents DEF Untouched
<1>2. ~Attempted(p)' /\ ~Assigned(p)'
  <2>1. ~Attempted(p)'
    BY FewerAttempts DEF Untouched
  <2>2. ~Assigned(p)'
    BY <1>0, <1>1 DEF Untouched, Assigned
  <2> QED
    BY <2>1, <2>2
<1>3. CreatedOnce(p)' /\ OneAttempt(p)'
  BY OneAttemptShrinks DEF CreatedOnce, LifeOf
<1>4. AttemptUnassigned(p)'
  BY <1>2 DEF AttemptUnassigned
<1>5. EventOrder(p)'
  BY <1>0, <1>1, <1>2 DEF EventOrder, IsDeletion, Assigned
<1>6. RemovedLast(p)' /\ Counted(p)'
  BY <1>2 DEF RemovedLast, Counted, Assigned, Attempted
<1> QED
  BY <1>3, <1>4, <1>5, <1>6 DEF LifeOf

LEMMA LifeDeletion ==
  ASSUME TypeOK, TypeOK', NEW p \in Pod, Publish(p, NoObject),
         LifeOf(p), ~MayCreate(p)', AttemptShrinks(p), UNCHANGED <<lister, assignedQ, cache>>
  PROVE  LifeOf(p)'
<1>0. /\ Unbound \notin Node /\ Absent # Unbound /\ Absent \notin Node
      /\ NoObject \in Object /\ NoObject.node = Absent
  BY SimulatorAssumptions DEF SimulatorAssumptions, Object, NoObject, Where, Reason
<1>1. /\ store'[p].node = Absent
      /\ \A i \in DOMAIN podWatch' :
           \/ i \in DOMAIN podWatch /\ podWatch'[i] = podWatch[i]
           \/ /\ podWatch'[i].pod = p /\ podWatch'[i].obj.node = Absent
              /\ \A j \in DOMAIN podWatch' : ~(i < j)
      /\ \A i, j \in DOMAIN podWatch' :
           i < j /\ j \in DOMAIN podWatch => i \in DOMAIN podWatch
  BY <1>0, OwnEvents
<1>2. /\ Attempted(p)' => Attempted(p)
      /\ Assigned(p)' => Assigned(p)
      /\ UnboundEvent(p)' => UnboundEvent(p)
  <2>1. Assigned(p)' => Assigned(p)
    BY <1>0, <1>1 DEF Assigned
  <2>2. UnboundEvent(p)' => UnboundEvent(p)
    BY <1>0, <1>1 DEF UnboundEvent
  <2> QED
    BY <2>1, <2>2, FewerAttempts
<1>3. CreatedOnce(p)' /\ OneAttempt(p)'
  BY OneAttemptShrinks DEF CreatedOnce, LifeOf
<1>4. AttemptUnassigned(p)'
  BY <1>1, <1>2 DEF AttemptUnassigned, LifeOf
<1>5. EventOrder(p)'
  <2>1. \A i, j \in DOMAIN podWatch' :
          podWatch'[i].pod = p /\ podWatch'[j].pod = p /\ i < j =>
             /\ podWatch'[i].obj.node = Absent => podWatch'[j].obj.node = Absent
             /\ podWatch'[i].obj.node \in Node => podWatch'[j].obj.node # Unbound
    <3> SUFFICES ASSUME NEW i \in DOMAIN podWatch', NEW j \in DOMAIN podWatch',
                        podWatch'[i].pod = p, podWatch'[j].pod = p, i < j
                 PROVE  /\ podWatch'[i].obj.node = Absent => podWatch'[j].obj.node = Absent
                        /\ podWatch'[i].obj.node \in Node => podWatch'[j].obj.node # Unbound
      OBVIOUS
    <3>1. i \in DOMAIN podWatch /\ podWatch'[i] = podWatch[i]
      BY <1>1
    <3>2. CASE j \in DOMAIN podWatch /\ podWatch'[j] = podWatch[j]
      BY <3>1, <3>2 DEF LifeOf, EventOrder
    <3>3. CASE podWatch'[j].obj.node = Absent
      BY <1>0, <3>3
    <3> QED
      BY <1>1, <3>2, <3>3
  <2>2. \A i \in DOMAIN podWatch' :
          podWatch'[i].pod = p /\ IsDeletion(podWatch'[i]) => store'[p].node = Absent
    BY <1>1
  <2>3. lister'[p].node \in Node => ~UnboundEvent(p)'
    BY <1>2 DEF LifeOf, EventOrder
  <2> QED
    BY <2>1, <2>2, <2>3 DEF EventOrder, IsDeletion
<1>6. RemovedLast(p)'
  <2>1. \A j \in DOMAIN podWatch' :
          \/ j \in DOMAIN podWatch /\ podWatch'[j] = podWatch[j]
          \/ podWatch'[j].obj.node = Absent
    BY <1>1
  <2> QED
    BY <1>1, <2>1 DEF LifeOf, RemovedLast, IsDeletion
<1>7. Counted(p)'
  BY <1>0, <1>1 DEF LifeOf, Counted, AttemptShrinks
<1> QED
  BY <1>3, <1>4, <1>5, <1>6, <1>7 DEF LifeOf

(* A write of the pod that is attempted, with its node or without one.     *)
LEMMA LifePatched ==
  ASSUME TypeOK, TypeOK', NEW p \in Pod, NEW o \in Object, Publish(p, o), o.node = store[p].node,
         store[p].node # Absent, LifeOf(p), Attempted(p), MayCreate(p)' => MayCreate(p),
         AttemptShrinks(p), UNCHANGED <<lister, assignedQ, cache>>
  PROVE  LifeOf(p)'
<1>0. Unbound \notin Node /\ Absent # Unbound /\ Absent \notin Node
  BY SimulatorAssumptions DEF SimulatorAssumptions
<1>1. lister[p].node = Unbound /\ ~Assigned(p) /\ ~MayCreate(p)
  BY DEF LifeOf, AttemptUnassigned, CreatedOnce, Untouched
<1>2. o.node = Unbound
  BY <1>1 DEF Assigned, TypeOK, StoreType, Object, Where
<1>3. /\ store'[p] = o
      /\ \A i \in DOMAIN podWatch' :
           \/ i \in DOMAIN podWatch /\ podWatch'[i] = podWatch[i]
           \/ podWatch'[i].obj.node = Unbound
      /\ \A i, j \in DOMAIN podWatch' :
           i < j /\ j \in DOMAIN podWatch => i \in DOMAIN podWatch
  BY <1>2, OwnEvents
<1>4. \A i \in DOMAIN podWatch : podWatch[i].pod = p => podWatch[i].obj.node = Unbound
  <2> SUFFICES ASSUME NEW i \in DOMAIN podWatch, podWatch[i].pod = p
               PROVE  podWatch[i].obj.node = Unbound
    OBVIOUS
  <2>1. podWatch[i].obj.node \in Where
    BY WatchElement DEF TypeOK, Object
  <2>2. podWatch[i].obj.node \notin Node
    BY <1>1 DEF Assigned
  <2>3. podWatch[i].obj.node # Absent
    BY DEF LifeOf, EventOrder, IsDeletion
  <2> QED
    BY <2>1, <2>2, <2>3 DEF Where
<1>5. \A i \in DOMAIN podWatch' : podWatch'[i].pod = p => podWatch'[i].obj.node = Unbound
  BY <1>3, <1>4
<1>6. ~Assigned(p)' /\ (Attempted(p)' => Attempted(p))
  <2>1. ~Assigned(p)'
    BY <1>0, <1>1, <1>2, <1>3, <1>5 DEF Assigned
  <2> QED
    BY <2>1, FewerAttempts
<1>7. CreatedOnce(p)' /\ OneAttempt(p)'
  BY <1>1, OneAttemptShrinks DEF CreatedOnce, LifeOf
<1>8. AttemptUnassigned(p)'
  BY <1>1, <1>6 DEF AttemptUnassigned
<1>9. EventOrder(p)'
  BY <1>0, <1>1, <1>5 DEF EventOrder, IsDeletion
<1>10. RemovedLast(p)'
  BY <1>6 DEF RemovedLast, Assigned
<1>11. Counted(p)'
  BY <1>6 DEF Counted, Assigned, LifeOf, AttemptShrinks
<1> QED
  BY <1>7, <1>8, <1>9, <1>10, <1>11 DEF LifeOf

(* The write that binds p ends the attempt.                                *)
LEMMA LifeBound ==
  ASSUME TypeOK, TypeOK', NEW p \in Pod, NEW o \in Object, Publish(p, o),
         binding[p].step = "simon", o.node = binding[p].node, store[p].node # Absent,
         binding' = [binding EXCEPT ![p] = NoBind], LifeOf(p), MayCreate(p)' => MayCreate(p),
         UNCHANGED <<lister, schedQ, assignedQ, cache, queued, scur, spc>>
  PROVE  LifeOf(p)'
<1>0. /\ Unbound \notin Node /\ Absent # Unbound /\ Absent \notin Node
      /\ binding[p].node \in Node /\ o.node \in Node
  BY SimulatorAssumptions DEF SimulatorAssumptions, TypeOK, BindingType
<1>1. lister[p].node = Unbound /\ ~Assigned(p) /\ ~MayCreate(p) /\ cache[p] = o.node
  BY DEF LifeOf, AttemptUnassigned, CreatedOnce, Untouched, Attempted, Counted
<1>2. ~AddPending(p) /\ queued[p] = "no" /\ scur # p
  BY DEF LifeOf, OneAttempt
<1>3. binding'[p].step = "none" /\ ~Attempted(p)'
  <2>1. binding'[p].step = "none"
    BY DEF TypeOK, BindingType, NoBind
  <2>2. AddPending(p)' <=> AddPending(p)
    BY DEF AddPending
  <2> QED
    BY <1>2, <2>1, <2>2 DEF Attempted
<1>4. /\ store'[p] = o
      /\ \A i \in DOMAIN podWatch' :
           \/ i \in DOMAIN podWatch /\ podWatch'[i] = podWatch[i]
           \/ podWatch'[i].obj = o /\ \A j \in DOMAIN podWatch' : ~(i < j)
      /\ \A i, j \in DOMAIN podWatch' :
           i < j /\ j \in DOMAIN podWatch => i \in DOMAIN podWatch
  BY OwnEvents
<1>5. \A i \in DOMAIN podWatch : podWatch[i].pod = p => podWatch[i].obj.node = Unbound
  <2> SUFFICES ASSUME NEW i \in DOMAIN podWatch, podWatch[i].pod = p
               PROVE  podWatch[i].obj.node = Unbound
    OBVIOUS
  <2>1. podWatch[i].obj.node \in Where
    BY WatchElement DEF TypeOK, Object
  <2>2. podWatch[i].obj.node \notin Node
    BY <1>1 DEF Assigned
  <2>3. podWatch[i].obj.node # Absent
    BY DEF LifeOf, EventOrder, IsDeletion
  <2> QED
    BY <2>1, <2>2, <2>3 DEF Where
<1>6. CreatedOnce(p)' /\ OneAttempt(p)'
  <2>1. AttemptShrinks(p)
    BY <1>3, SameAttempts
  <2> QED
    BY <1>1, <2>1, OneAttemptShrinks DEF CreatedOnce, LifeOf
<1>7. AttemptUnassigned(p)'
  BY <1>1, <1>3 DEF AttemptUnassigned
<1>8. EventOrder(p)'
  <2>1. ASSUME NEW i \in DOMAIN podWatch', NEW j \in DOMAIN podWatch',
               podWatch'[i].pod = p, podWatch'[j].pod = p, i < j
        PROVE  podWatch'[i].obj.node = Unbound
    BY <1>4, <1>5, <2>1
  <2>2. \A i \in DOMAIN podWatch' : podWatch'[i].pod = p => podWatch'[i].obj.node # Absent
    BY <1>0, <1>4, <1>5
  <2>3. lister'[p].node \notin Node
    BY <1>0, <1>1
  <2> QED
    BY <1>0, <2>1, <2>2, <2>3 DEF EventOrder, IsDeletion
<1>9. RemovedLast(p)'
  BY <1>1 DEF RemovedLast, Assigned
<1>10. Counted(p)'
  <2>1. \A i \in DOMAIN podWatch' :
          podWatch'[i].pod = p /\ podWatch'[i].obj.node \in Node
            => cache'[p] = podWatch'[i].obj.node
    BY <1>0, <1>1, <1>4, <1>5
  <2>2. \A i \in DOMAIN assignedQ' : assignedQ'[i].pod # p
    BY <1>1 DEF Assigned
  <2> QED
    BY <1>1, <1>3, <1>4, <2>1, <2>2 DEF Counted
<1> QED
  BY <1>6, <1>7, <1>8, <1>9, <1>10 DEF LifeOf

LEMMA LifeCaller ==
  ASSUME TypeOK, TypeOK', DistinctNames, NEW p \in Pod, NodeName[p] = Unbound, LifeOf(p),
         MainStep, Next
  PROVE  LifeOf(p)'
<1>0. MayCreate(p)' => MayCreate(p)
  BY NoNewCreation
<1>1. p # NoPod
  BY SimulatorAssumptions DEF SimulatorAssumptions
<1>2. CASE \/ RefuseCluster \/ RunScheduler \/ CreateNode \/ NodesCreated \/ RefuseApp
           \/ CreatePodFails \/ Receive \/ GetClusterNodeStatus \/ CancelScheduler
           \/ CloseChannel \/ (Collect /\ UNCHANGED podVars)
  <2>1. /\ UNCHANGED <<store, podWatch, lister, schedQ, assignedQ, cache, queued, scur, binding>>
        /\ spc' = spc \/ pc = "start"
    BY <1>2 DEF RefuseCluster, RunScheduler, CreateNode, NodesCreated, RefuseApp,
       CreatePodFails, Receive, GetClusterNodeStatus, CancelScheduler, CloseChannel, Collect,
       infVars, loopVars, cacheVars, queueVars, podVars
  <2>2. pc = "start" => scur = NoPod
    BY DEF TypeOK, LoopType
  <2>3. AttemptShrinks(p)
    BY <1>1, <2>1, <2>2, SameAttempts
  <2> QED
    BY <1>0, <2>1, <2>3, StillShrinks, ShrinkLife
<1>3. ASSUME UNCHANGED <<lister, schedQ, assignedQ, cache, queued, scur, spc, binding>>,
             NEW q \in Pod, NEW o \in Object, Publish(q, o), p # q
      PROVE  LifeOf(p)'
  <2>1. AttemptShrinks(p)
    BY <1>3, SameAttempts
  <2> QED
    BY <1>0, <1>3, <2>1, PublishElsewhere, ShrinkLife
<1>4. ASSUME CreatePod \/ CreateTestPod \/ Collect
      PROVE  /\ UNCHANGED <<lister, schedQ, assignedQ, cache, queued, scur, spc, binding>>
             /\ AttemptShrinks(p)
  <2>1. UNCHANGED <<lister, schedQ, assignedQ, cache, queued, scur, spc, binding>>
    BY <1>4 DEF CreatePod, CreateTestPod, Collect, infVars, loopVars, cacheVars, queueVars
  <2> QED
    BY <2>1, SameAttempts
<1>5. CASE CreatePod
  <2>1. PICK q \in Pod : q = Cur
    BY <1>5, CurIsPod DEF CreatePod, TypeOK
  <2>2. PICK o \in Object : o = [node |-> NodeName[q], reason |-> "none"]
    BY SimulatorAssumptions DEF SimulatorAssumptions, Object, Where, Reason
  <2>3. Publish(q, o)
    BY <1>5, <2>1, <2>2 DEF CreatePod
  <2>4. CASE p = q
    <3>1. MayCreate(p) /\ ~MayCreate(p)'
      BY <1>5, <2>1, <2>4, NoMoreCreation
    <3>2. Untouched(p) /\ o.node = Unbound
      BY <2>2, <2>4, <3>1 DEF LifeOf, CreatedOnce
    <3> QED
      BY <1>4, <1>5, <2>3, <2>4, <3>1, <3>2, LifeCreation
  <2> QED
    BY <1>3, <1>4, <1>5, <2>3, <2>4
<1>6. CASE CreateTestPod
  <2>1. PICK o \in Object : o = [node |-> Unbound, reason |-> "none"]
    BY DEF Object, Where, Reason
  <2>2. Publish(TestPod, o) /\ TestPod \in Pod
    BY <1>6, <2>1, SimulatorAssumptions DEF CreateTestPod, SimulatorAssumptions
  <2>3. CASE p = TestPod
    <3>1. MayCreate(p) /\ ~MayCreate(p)'
      BY <1>6, <2>3, NoMoreCreation
    <3>2. Untouched(p) /\ o.node = Unbound
      BY <2>1, <3>1 DEF LifeOf, CreatedOnce
    <3> QED
      BY <1>4, <1>6, <2>2, <2>3, <3>1, <3>2, LifeCreation
  <2> QED
    BY <1>3, <1>4, <1>6, <2>2, <2>3
<1>7. CASE Collect /\ ReportFailed
  <2>1. PICK q \in Pod : q = Cur
    BY <1>7, CurIsPod DEF Collect, TypeOK, CallerType
  <2>2. Publish(q, NoObject) /\ NoObject \in Object
    BY <1>7, <2>1 DEF ReportFailed, NoObject, Object, Where, Reason
  <2>3. CASE p = q
    <3>1. ~MayCreate(p)'
      BY <1>7, <2>1, <2>3, NoMoreCreation
    <3> QED
      BY <1>4, <1>7, <2>2, <2>3, <3>1, LifeDeletion
  <2> QED
    BY <1>3, <1>4, <1>7, <2>2, <2>3
<1> QED
  BY <1>2, <1>5, <1>6, <1>7 DEF MainStep, Collect

-----------------------------------------------------------------------------
(* The steps of the scheduler and of the binding goroutines.               *)

LEMMA AttemptGoesOn ==
  ASSUME TypeOK, NEW p \in Pod, LifeOf(p), Attempted(p), MayCreate(p)' => MayCreate(p),
         UNCHANGED <<store, podWatch, lister, assignedQ>>, OneAttempt(p)',
         binding'[p].step \in {"local", "write", "simon"} => cache'[p] = binding'[p].node
  PROVE  LifeOf(p)'
<1>1. ~Assigned(p) /\ (store[p].node = Absent \/ lister[p].node = Unbound) /\ ~MayCreate(p)
  BY DEF LifeOf, AttemptUnassigned, CreatedOnce, Untouched
<1>2. ~(UnboundEvent(p) /\ lister[p].node # Unbound)
  BY DEF LifeOf, AttemptUnassigned
<1>3. (Assigned(p)' <=> Assigned(p)) /\ (UnboundEvent(p)' <=> UnboundEvent(p))
  BY DEF Assigned, UnboundEvent
<1>4. CreatedOnce(p)' /\ AttemptUnassigned(p)'
  BY <1>1, <1>2, <1>3 DEF CreatedOnce, AttemptUnassigned
<1>5. EventOrder(p)'
  BY <1>3 DEF LifeOf, EventOrder, IsDeletion
<1>6. RemovedLast(p)' /\ Counted(p)'
  BY <1>1 DEF RemovedLast, Counted, Assigned
<1> QED
  BY <1>4, <1>5, <1>6 DEF LifeOf

LEMMA LifeStill ==
  ASSUME TypeOK, TypeOK', NEW p \in Pod, LifeOf(p), MayCreate(p)' => MayCreate(p),
         UNCHANGED <<store, podWatch, lister, schedQ, assignedQ>>, cache'[p] = cache[p],
         queued'[p] = queued[p], binding'[p] = binding[p] \/ binding'[p].step = "none",
         scur' = p => scur = p /\ (spc = "patch" => spc' = "patch")
  PROVE  LifeOf(p)'
<1>1. AttemptShrinks(p)
  BY SameAttempts
<1> QED
  BY <1>1, StillShrinks, ShrinkLife

LEMMA LifeNextPod ==
  ASSUME TypeOK, TypeOK', NEW p \in Pod, LifeOf(p), MayCreate(p)' => MayCreate(p),
         NEW q \in Pod, NextPod(q)
  PROVE  LifeOf(p)'
<1>1. /\ UNCHANGED <<store, podWatch, lister, schedQ, assignedQ, cache, binding>>
      /\ queued' = [queued EXCEPT ![q] = "no"] /\ scur' = q /\ spc' = "cycle"
      /\ queued[q] = "active" /\ scur = NoPod
  BY DEF NextPod, infVars, cacheVars, podVars, TypeOK, LoopType
<1>2. CASE p = q
  <2>1. scur # p /\ binding[p].step = "none" /\ ~AddPending(p) /\ Attempted(p)
    BY <1>1, <1>2 DEF LifeOf, OneAttempt, Attempted
  <2>2. queued'[p] = "no" /\ binding'[p].step = "none" /\ ~AddPending(p)'
    BY <1>1, <1>2, <2>1 DEF AddPending, TypeOK, QueueType
  <2>3. OneAttempt(p)'
    BY <1>1, <2>2 DEF LifeOf, OneAttempt
  <2> QED
    BY <1>1, <2>1, <2>2, <2>3, AttemptGoesOn
<1>3. CASE p # q
  BY <1>1, <1>3, LifeStill DEF TypeOK, QueueType
<1> QED
  BY <1>2, <1>3

LEMMA LifeAssume ==
  ASSUME TypeOK, TypeOK', NEW p \in Pod, LifeOf(p), MayCreate(p)' => MayCreate(p),
         NEW n \in Node, Assume(n)
  PROVE  LifeOf(p)'
<1>0. p # NoPod
  BY SimulatorAssumptions DEF SimulatorAssumptions
<1> DEFINE b == [step |-> IF Disk[scur] > 0 THEN "local" ELSE "simon", node |-> n, read |-> 0]
<1>1. /\ UNCHANGED <<store, podWatch, lister, schedQ, assignedQ, queued>>
      /\ binding' = [binding EXCEPT ![scur] = b] /\ cache' = [cache EXCEPT ![scur] = n]
      /\ scur' = NoPod /\ spc = "cycle" /\ scur \in Pod
  BY DEF Assume, AssumePod, infVars, queueVars, podVars, TypeOK, LoopType
<1> HIDE DEF b
<1>2. CASE p = scur
  <2>1. binding[p].step = "none" /\ queued[p] = "no" /\ ~AddPending(p) /\ Attempted(p)
    BY <1>1, <1>2 DEF LifeOf, OneAttempt, Attempted
  <2>2. /\ binding'[p].node = n /\ cache'[p] = n /\ binding'[p].step # "patch"
        /\ queued'[p] = "no" /\ ~AddPending(p)' /\ scur' # p
    BY <1>0, <1>1, <1>2, <2>1 DEF AddPending, TypeOK, BindingType, CacheType, b
  <2>3. OneAttempt(p)'
    BY <1>1, <2>2 DEF LifeOf, OneAttempt
  <2> QED
    BY <1>1, <2>1, <2>2, <2>3, AttemptGoesOn
<1>3. CASE p # scur
  <2>1. binding'[p] = binding[p] /\ cache'[p] = cache[p]
    BY <1>1, <1>3 DEF TypeOK, BindingType, CacheType
  <2>2. AttemptShrinks(p)
    BY <1>0, <1>1, <2>1, SameAttempts
  <2>3. Embeds(podWatch', podWatch, p) /\ Embeds(assignedQ', assignedQ, p)
    BY <1>1, EmbedSame DEF TypeOK, StoreType, InformerType
  <2>4. Shrinks(p)
    BY <1>1, <2>1, <2>2, <2>3 DEF Shrinks
  <2> QED
    BY <2>4, ShrinkLife
<1> QED
  BY <1>2, <1>3

(* Back into the queue, while p is on its way.                             *)
LEMMA LifeRequeue ==
  ASSUME TypeOK, TypeOK', NEW p \in Pod, LifeOf(p), MayCreate(p)' => MayCreate(p),
         NEW q \in Pod, Requeue(q),
         UNCHANGED <<store, podWatch, lister, schedQ, assignedQ, cache, scur>>,
         \/ scur = q /\ spc' = "patch" /\ UNCHANGED binding
         \/ /\ binding[q].step = "requeue" /\ binding' = [binding EXCEPT ![q].step = "patch"]
            /\ UNCHANGED spc
  PROVE  LifeOf(p)'
<1>1. /\ queued'[q] \in {queued[q], "backoff", "unschedulable"}
      /\ \A r \in Pod : r # q => queued'[r] = queued[r]
  BY DEF Requeue, TypeOK, QueueType
<1>2. CASE p = q
  <2>1. Attempted(p) /\ ~AddPending(p)
    BY <1>2 DEF LifeOf, OneAttempt, Attempted
  <2>2. ~AddPending(p)'
    BY <2>1 DEF AddPending
  <2>3. CASE scur = q /\ spc' = "patch" /\ UNCHANGED binding
    <3>1. binding[p].step = "none" /\ queued[p] # "active"
      BY <1>2, <2>3 DEF LifeOf, OneAttempt
    <3>2. OneAttempt(p)'
      BY <1>1, <1>2, <2>2, <2>3, <3>1 DEF LifeOf, OneAttempt
    <3> QED
      BY <2>1, <2>3, <3>1, <3>2, AttemptGoesOn
  <2>4. CASE /\ binding[q].step = "requeue"
             /\ binding' = [binding EXCEPT ![q].step = "patch"] /\ UNCHANGED spc
    <3>1. binding'[p].step = "patch" /\ queued[p] = "no" /\ scur # p
      BY <1>2, <2>4 DEF LifeOf, OneAttempt, TypeOK, BindingType
    <3>2. OneAttempt(p)'
      BY <1>1, <1>2, <2>2, <2>4, <3>1 DEF LifeOf, OneAttempt
    <3> QED
      BY <2>1, <2>4, <3>1, <3>2, AttemptGoesOn
  <2> QED
    BY <2>3, <2>4
<1>3. CASE p # q
  <2>1. queued'[p] = queued[p] /\ binding'[p] = binding[p] /\ (scur' = p => UNCHANGED spc)
    BY <1>1, <1>3 DEF TypeOK, BindingType
  <2> QED
    BY <2>1, LifeStill
<1> QED
  BY <1>2, <1>3

(* A condition is patched at the end of an attempt.                        *)
LEMMA LifePatch ==
  ASSUME TypeOK, TypeOK', NEW p \in Pod, LifeOf(p), MayCreate(p)' => MayCreate(p),
         NEW q \in Pod, NEW r \in Reason, PatchCondition(q, r),
         scur = q \/ binding[q].step # "none",
         UNCHANGED <<lister, schedQ, assignedQ, cache, queued>>, scur' \in {scur, NoPod},
         scur' # NoPod => UNCHANGED spc,
         \A s \in Pod : binding'[s] = binding[s] \/ binding'[s].step = "none"
  PROVE  LifeOf(p)'
<1>0. p # NoPod
  BY SimulatorAssumptions DEF SimulatorAssumptions
<1>1. AttemptShrinks(p)
  BY <1>0, SameAttempts
<1>2. CASE UNCHANGED podVars
  <2>1. Shrinks(p)
    BY <1>1, <1>2, StillShrinks DEF podVars
  <2> QED
    BY <2>1, ShrinkLife
<1>3. CASE store[q].node # Absent /\ Publish(q, [store[q] EXCEPT !.reason = r])
  <2>0. /\ [store[q] EXCEPT !.reason = r] \in Object
        /\ [store[q] EXCEPT !.reason = r].node = store[q].node
    <3>1. store[q] \in Object
      BY DEF TypeOK, StoreType
    <3> QED
      BY <3>1 DEF Object
  <2>1. PICK o \in Object : o = [store[q] EXCEPT !.reason = r] /\ o.node = store[q].node
    BY <2>0
  <2>2. CASE p = q
    <3>1. Attempted(p)
      BY <2>2 DEF Attempted
    <3> QED
      BY <1>1, <1>3, <2>1, <2>2, <3>1, LifePatched
  <2>3. CASE p # q
    <3>1. Shrinks(p)
      BY <1>1, <1>3, <2>1, <2>3, PublishElsewhere
    <3> QED
      BY <3>1, ShrinkLife
  <2> QED
    BY <2>2, <2>3
<1> QED
  BY <1>2, <1>3 DEF PatchCondition

LEMMA LifeScheduler ==
  ASSUME TypeOK, TypeOK', NEW p \in Pod, LifeOf(p), SchedulerStep, Next
  PROVE  LifeOf(p)'
<1>0. (MayCreate(p)' => MayCreate(p)) /\ p # NoPod
  BY NoNewCreation, SimulatorAssumptions DEF SimulatorAssumptions
<1>1. CASE EnterScheduleOne \/ StopScheduler \/ ScheduleFails
  <2>1. /\ UNCHANGED <<store, podWatch, lister, schedQ, assignedQ, cache, queued, scur, binding>>
        /\ spc # "patch"
    BY <1>1 DEF EnterScheduleOne, StopScheduler, ScheduleFails, infVars, cacheVars, queueVars,
       podVars
  <2> QED
    BY <1>0, <2>1, LifeStill
<1>2. CASE RequeueUnschedulable
  <2>1. PICK q \in Pod : q = scur
    BY <1>2 DEF RequeueUnschedulable, TypeOK, LoopType
  <2>2. /\ Requeue(q) /\ scur = q /\ spc' = "patch"
        /\ UNCHANGED <<store, podWatch, lister, schedQ, assignedQ, cache, scur, binding>>
    BY <1>2, <2>1 DEF RequeueUnschedulable, infVars, cacheVars, podVars
  <2> QED
    BY <1>0, <2>2, LifeRequeue
<1>3. CASE RecordUnschedulable
  <2>1. PICK q \in Pod : q = scur
    BY <1>3 DEF RecordUnschedulable, TypeOK, LoopType
  <2>2. /\ PatchCondition(q, "Unschedulable") /\ scur = q /\ scur' = NoPod
        /\ UNCHANGED <<lister, schedQ, assignedQ, cache, queued, binding>>
    BY <1>3, <2>1 DEF RecordUnschedulable, infVars, cacheVars, queueVars
  <2>3. "Unschedulable" \in Reason
    BY DEF Reason
  <2> QED
    BY <1>0, <2>2, <2>3, LifePatch
<1>4. ASSUME NEW q \in Pod, NextPod(q) PROVE LifeOf(p)'
  BY <1>0, <1>4, LifeNextPod
<1>5. ASSUME NEW n \in Node, Assume(n) PROVE LifeOf(p)'
  BY <1>0, <1>5, LifeAssume
<1> QED
  BY <1>1, <1>2, <1>3, <1>4, <1>5 DEF SchedulerStep

LEMMA LifeBind ==
  ASSUME TypeOK, TypeOK', NEW p \in Pod, LifeOf(p), NEW q \in Pod, Bind(q), Next
  PROVE  LifeOf(p)'
<1>0. MayCreate(p)' => MayCreate(p)
  BY NoNewCreation
<1>1. ASSUME UNCHANGED <<store, podWatch, lister, schedQ, assignedQ, cache, queued, scur, spc>>,
             binding[q].step \in {"local", "write", "simon"}, binding'[q].node = binding[q].node,
             binding'[q].step \in {"write", "simon", "forget"},
             \A r \in Pod : r # q => binding'[r] = binding[r]
      PROVE  LifeOf(p)'
  <2>1. AttemptShrinks(p)
    <3>1. Embeds(schedQ', schedQ, p)
      BY <1>1, EmbedSame DEF TypeOK, InformerType
    <3> QED
      BY <1>1, <3>1 DEF AttemptShrinks
  <2> QED
    BY <1>0, <1>1, <2>1, StillShrinks, ShrinkLife
<1>2. ASSUME NEW step \in {"write", "simon", "forget", "requeue"},
             binding' = [binding EXCEPT ![q].step = step]
      PROVE  /\ binding'[q].step = step /\ binding'[q].node = binding[q].node
             /\ \A r \in Pod : r # q => binding'[r] = binding[r]
  BY <1>2 DEF TypeOK, BindingType
<1>3. CASE LocalBindGet(q)
  <2>1. /\ UNCHANGED <<store, podWatch, lister, schedQ, assignedQ, cache, queued, scur, spc>>
        /\ binding[q].step = "local"
    BY <1>3 DEF LocalBindGet, infVars, loopVars, cacheVars, queueVars, podVars
  <2>2. CASE Goto(q, "forget")
    BY <1>1, <1>2, <2>1, <2>2 DEF Goto
  <2>3. CASE binding' = [binding EXCEPT ![q].step = "write",
                                        ![q].read = nodeDisk[binding[q].node]]
    <3>1. binding' = [[binding EXCEPT ![q].step = "write"]
                        EXCEPT ![q].read = nodeDisk[binding[q].node]]
      BY <2>3
    <3>2. /\ binding'[q].step = "write" /\ binding'[q].node = binding[q].node
          /\ \A r \in Pod : r # q => binding'[r] = binding[r]
      BY <3>1 DEF TypeOK, BindingType
    <3> QED
      BY <1>1, <2>1, <3>2
  <2> QED
    BY <1>3, <2>2, <2>3 DEF LocalBindGet
<1>4. CASE LocalBindUpdate(q)
  <2>1. /\ UNCHANGED <<store, podWatch, lister, schedQ, assignedQ, cache, queued, scur, spc>>
        /\ binding[q].step = "write" /\ Goto(q, "simon")
    BY <1>4 DEF LocalBindUpdate, infVars, loopVars, cacheVars, queueVars, podVars
  <2> QED
    BY <1>1, <1>2, <2>1 DEF Goto
<1>5. CASE BindPodToNode(q)
  <2>1. /\ UNCHANGED <<lister, schedQ, assignedQ, cache, queued, scur, spc>>
        /\ binding[q].step = "simon"
    BY <1>5 DEF BindPodToNode, infVars, loopVars, cacheVars, queueVars
  <2>2. CASE Goto(q, "forget") /\ UNCHANGED podVars
    BY <1>1, <1>2, <2>1, <2>2 DEF Goto, podVars
  <2>3. CASE /\ store[q].node # Absent
             /\ Publish(q, [store[q] EXCEPT !.node = binding[q].node])
             /\ binding' = [binding EXCEPT ![q] = NoBind]
    <3>1. PICK o \in Object :
            o = [store[q] EXCEPT !.node = binding[q].node] /\ o.node = binding[q].node
      <4>1. store[q] \in Object /\ binding[q].node \in Where
        BY <2>1 DEF TypeOK, StoreType, BindingType, Where
      <4>2. /\ [store[q] EXCEPT !.node = binding[q].node] \in Object
            /\ [store[q] EXCEPT !.node = binding[q].node].node = binding[q].node
        BY <4>1 DEF Object
      <4> QED
        BY <4>2
    <3>2. CASE p = q
      BY <1>0, <2>1, <2>3, <3>1, <3>2, LifeBound
    <3>3. CASE p # q
      <4>1. binding'[p] = binding[p]
        BY <2>3, <3>3 DEF TypeOK, BindingType
      <4>2. AttemptShrinks(p)
        BY <2>1, <4>1, SameAttempts
      <4>3. Shrinks(p)
        BY <1>0, <2>1, <2>3, <3>1, <3>3, <4>2, PublishElsewhere
      <4> QED
        BY <4>3, ShrinkLife
    <3> QED
      BY <3>2, <3>3
  <2> QED
    BY <1>5, <2>2, <2>3 DEF BindPodToNode
<1>6. CASE ForgetPod(q)
  <2>1. /\ UNCHANGED <<store, podWatch, lister, schedQ, assignedQ, queued, scur, spc>>
        /\ binding[q].step = "forget" /\ Goto(q, "requeue")
        /\ cache' = [cache EXCEPT ![q] = Unbound]
    BY <1>6 DEF ForgetPod, infVars, loopVars, queueVars, podVars
  <2>2. /\ binding'[q].step = "requeue"
        /\ \A r \in Pod : r # q => binding'[r] = binding[r] /\ cache'[r] = cache[r]
    BY <1>2, <2>1 DEF Goto, TypeOK, CacheType
  <2>3. CASE p = q
    <3>1. Attempted(p) /\ scur # p /\ queued[p] = "no" /\ ~AddPending(p)
      BY <2>1, <2>3 DEF LifeOf, OneAttempt, Attempted
    <3>2. ~AddPending(p)'
      BY <2>1, <3>1 DEF AddPending
    <3>3. OneAttempt(p)'
      BY <2>1, <2>2, <2>3, <3>1, <3>2 DEF LifeOf, OneAttempt
    <3> QED
      BY <1>0, <2>1, <2>2, <2>3, <3>1, <3>3, AttemptGoesOn
  <2>4. CASE p # q
    BY <1>0, <2>1, <2>2, <2>4, LifeStill
  <2> QED
    BY <2>3, <2>4
<1>7. CASE RequeueRejected(q)
  <2>1. /\ UNCHANGED <<store, podWatch, lister, schedQ, assignedQ, cache, scur, spc>>
        /\ binding[q].step = "requeue" /\ Requeue(q) /\ Goto(q, "patch")
    BY <1>7 DEF RequeueRejected, infVars, loopVars, cacheVars, podVars
  <2> QED
    BY <1>0, <2>1, LifeRequeue DEF Goto
<1>8. CASE RecordBindError(q)
  <2>1. /\ UNCHANGED <<lister, schedQ, assignedQ, cache, queued, scur, spc>>
        /\ binding[q].step = "patch" /\ PatchCondition(q, "SchedulerError")
        /\ binding' = [binding EXCEPT ![q] = NoBind]
    BY <1>8 DEF RecordBindError, infVars, loopVars, cacheVars, queueVars
  <2>2. \A s \in Pod : binding'[s] = binding[s] \/ binding'[s].step = "none"
    BY <2>1 DEF TypeOK, BindingType, NoBind
  <2>3. "SchedulerError" \in Reason
    BY DEF Reason
  <2> QED
    BY <1>0, <2>1, <2>2, <2>3, LifePatch
<1> QED
  BY <1>3, <1>4, <1>5, <1>6, <1>7, <1>8 DEF Bind

LEMMA LifeRetry ==
  ASSUME TypeOK, TypeOK', NEW p \in Pod, LifeOf(p), NEW q \in Pod, Retry(q), Next
  PROVE  LifeOf(p)'
<1>0. MayCreate(p)' => MayCreate(p)
  BY NoNewCreation
<1>1. /\ UNCHANGED <<store, podWatch, lister, schedQ, assignedQ, cache, scur, spc, binding>>
      /\ queued' = [queued EXCEPT ![q] = "active"] /\ queued[q] # "no" /\ Settled(q)
  BY DEF Retry, infVars, loopVars, cacheVars, podVars
<1>2. CASE p = q
  <2>1. scur # p /\ binding[p].step = "none" /\ ~AddPending(p) /\ Attempted(p)
    BY <1>1, <1>2 DEF Settled, AddPending, Attempted
  <2>2. ~AddPending(p)'
    BY <1>1, <2>1 DEF AddPending
  <2>3. OneAttempt(p)'
    BY <1>1, <2>1, <2>2 DEF LifeOf, OneAttempt
  <2> QED
    BY <1>0, <1>1, <2>1, <2>3, AttemptGoesOn
<1>3. CASE p # q
  BY <1>0, <1>1, <1>3, LifeStill DEF TypeOK, QueueType
<1> QED
  BY <1>2, <1>3

-----------------------------------------------------------------------------
(* The steps of the informers.                                             *)

(* What an event on p does to the cache's listener.                        *)
LEMMA AssignedAppend ==
  ASSUME TypeOK, PodInformer, NEW e, e = podWatch[1]
  PROVE  \/ /\ lister[e.pod].node \in Node <=> e.obj.node \in Node
            /\ assignedQ' = assignedQ
         \/ /\ ~(lister[e.pod].node \in Node <=> e.obj.node \in Node)
            /\ assignedQ' = Append(assignedQ, [pod |-> e.pod, node |-> e.obj.node])
<1>1. podWatch # <<>> /\ e = Head(podWatch)
  BY WatchTail DEF PodInformer, TypeOK
<1>2. assignedQ' = IF lister[e.pod].node \in Node <=> e.obj.node \in Node THEN assignedQ
                   ELSE Append(assignedQ, [pod |-> e.pod, node |-> e.obj.node])
  BY <1>1 DEF PodInformer
<1> QED
  BY <1>2

LEMMA LifeEventElsewhere ==
  ASSUME TypeOK, TypeOK', NEW p \in Pod, LifeOf(p), PodInformer, MayCreate(p)' => MayCreate(p),
         NEW e, e = podWatch[1], e.pod # p
  PROVE  LifeOf(p)'
<1>1. UNCHANGED <<store, queued, scur, spc, binding, cache>>
  BY DEF PodInformer, loopVars, cacheVars, queueVars
<1>2. e.pod \in Pod /\ e.obj \in Object /\ e.obj.node \in Where /\ lister'[p] = lister[p]
  BY EventHandlers DEF Object
<1>3. Embeds(schedQ', schedQ, p)
  <2>1. schedQ \in Seq([pod: Pod, add: BOOLEAN])
    BY DEF TypeOK, InformerType
  <2>2. CASE schedQ' = schedQ
    BY <2>1, <2>2, EmbedSame
  <2>3. ASSUME NEW a \in BOOLEAN, schedQ' = Append(schedQ, [pod |-> e.pod, add |-> a])
        PROVE  Embeds(schedQ', schedQ, p)
    <3> DEFINE f == [pod |-> e.pod, add |-> a]
    <3>1. f \in [pod: Pod, add: BOOLEAN] /\ f.pod # p
      BY <1>2
    <3> HIDE DEF f
    <3>2. schedQ' = Append(schedQ, f)
      BY <2>3 DEF f
    <3> QED
      BY <2>1, <3>1, <3>2, EmbedAppend
  <2> QED
    BY <2>2, <2>3, EventHandlers
<1>4. Embeds(assignedQ', assignedQ, p)
  <2>1. assignedQ \in Seq([pod: Pod, node: Where])
    BY DEF TypeOK, InformerType
  <2>2. CASE assignedQ' = assignedQ
    BY <2>1, <2>2, EmbedSame
  <2>3. CASE assignedQ' = Append(assignedQ, [pod |-> e.pod, node |-> e.obj.node])
    <3> DEFINE f == [pod |-> e.pod, node |-> e.obj.node]
    <3>1. f \in [pod: Pod, node: Where] /\ f.pod # p
      BY <1>2
    <3> HIDE DEF f
    <3>2. assignedQ' = Append(assignedQ, f)
      BY <2>3 DEF f
    <3> QED
      BY <2>1, <3>1, <3>2, EmbedAppend
  <2> QED
    BY <2>2, <2>3, AssignedAppend
<1>5. Embeds(podWatch', podWatch, p)
  BY EmbedTail DEF PodInformer, TypeOK, StoreType
<1>6. Shrinks(p)
  BY <1>1, <1>2, <1>3, <1>4, <1>5 DEF Shrinks, AttemptShrinks
<1> QED
  BY <1>6, ShrinkLife

LEMMA AssignedEntries ==
  ASSUME TypeOK, NEW p \in Pod, NEW n \in Where,
         assignedQ' = Append(assignedQ, [pod |-> p, node |-> n])
  PROVE  /\ \A i \in DOMAIN assignedQ' :
              \/ i \in DOMAIN assignedQ /\ assignedQ'[i] = assignedQ[i]
              \/ /\ assignedQ'[i].pod = p /\ assignedQ'[i].node = n
                 /\ \A j \in DOMAIN assignedQ' : ~(i < j)
         /\ \A i, j \in DOMAIN assignedQ' :
              i < j /\ j \in DOMAIN assignedQ => i \in DOMAIN assignedQ
<1> DEFINE e == [pod |-> p, node |-> n]
<1>1. e \in [pod: Pod, node: Where] /\ assignedQ \in Seq([pod: Pod, node: Where])
  BY DEF TypeOK, InformerType
<1> HIDE DEF e
<1>2. /\ assignedQ' \in Seq([pod: Pod, node: Where])
      /\ Len(assignedQ') = Len(assignedQ) + 1
      /\ \A i \in 1 .. Len(assignedQ) : assignedQ'[i] = assignedQ[i]
      /\ assignedQ'[Len(assignedQ) + 1] = e
  BY <1>1, AppendElement DEF e
<1>3. /\ DOMAIN assignedQ = 1 .. Len(assignedQ) /\ DOMAIN assignedQ' = 1 .. Len(assignedQ')
      /\ Len(assignedQ) \in Nat
  BY <1>1, <1>2, LenDomain
<1>4. \A i \in DOMAIN assignedQ' :
        \/ i \in DOMAIN assignedQ /\ assignedQ'[i] = assignedQ[i]
        \/ i = Len(assignedQ') /\ assignedQ'[i] = e
  BY <1>2, <1>3
<1>5. \A j \in DOMAIN assignedQ' : ~(Len(assignedQ') < j)
  BY <1>2, <1>3
<1>6. \A i, j \in DOMAIN assignedQ' :
        i < j /\ j \in DOMAIN assignedQ => i \in DOMAIN assignedQ
  BY <1>2, <1>3
<1>7. e.pod = p /\ e.node = n
  BY DEF e
<1> QED
  BY <1>4, <1>5, <1>6, <1>7

LEMMA LifeEvent ==
  ASSUME TypeOK, TypeOK', NEW p \in Pod, LifeOf(p), PodInformer, MayCreate(p)' => MayCreate(p),
         NEW e, e = podWatch[1], e.pod = p
  PROVE  LifeOf(p)'
<1>0. Unbound \notin Node /\ Absent # Unbound /\ Absent \notin Node
  BY SimulatorAssumptions DEF SimulatorAssumptions
<1>1. UNCHANGED <<store, queued, scur, spc, binding, cache>>
  BY DEF PodInformer, loopVars, cacheVars, queueVars
<1>2. e.obj \in Object /\ e.obj.node \in Where /\ lister'[p] = e.obj
  BY EventHandlers DEF Object
<1>3. /\ 1 \in DOMAIN podWatch
      /\ \A i \in DOMAIN podWatch' :
           i + 1 \in DOMAIN podWatch /\ podWatch'[i] = podWatch[i + 1] /\ 1 < i + 1
  BY WatchTail DEF PodInformer, TypeOK, StoreType
<1>4. \A i, j \in DOMAIN podWatch' : i < j => i + 1 < j + 1
  BY WatchTail DEF PodInformer, TypeOK, StoreType
<1>5. /\ e.obj.node = Absent =>
           /\ store[p].node = Absent
           /\ \A i \in DOMAIN podWatch' : podWatch'[i].pod = p => podWatch'[i].obj.node = Absent
      /\ e.obj.node \in Node =>
           \A i \in DOMAIN podWatch' : podWatch'[i].pod = p => podWatch'[i].obj.node # Unbound
  <2>1. EventOrder(p)
    BY DEF LifeOf
  <2> QED
    BY <1>3, <2>1 DEF EventOrder, IsDeletion
<1>6. e.obj.node # Unbound => (AddPending(p)' => AddPending(p))
  <2>1. ASSUME schedQ' \in {schedQ, Append(schedQ, [pod |-> p, add |-> FALSE])}, AddPending(p)'
        PROVE  AddPending(p)
    <3>1. CASE schedQ' = schedQ
      BY <2>1, <3>1 DEF AddPending
    <3>2. CASE schedQ' = Append(schedQ, [pod |-> p, add |-> FALSE])
      BY <2>1, <3>2, SchedAppend DEF AddPending, TypeOK
    <3> QED
      BY <2>1, <3>1, <3>2
  <2> QED
    BY <2>1, EventHandlers
<1>7. ~MayCreate(p) /\ ~MayCreate(p)'
  BY <1>3 DEF LifeOf, CreatedOnce, Untouched
<1>8. EventOrder(p)'
  <2>1. \A i, j \in DOMAIN podWatch' :
          podWatch'[i].pod = p /\ podWatch'[j].pod = p /\ i < j =>
             /\ podWatch'[i].obj.node = Absent => podWatch'[j].obj.node = Absent
             /\ podWatch'[i].obj.node \in Node => podWatch'[j].obj.node # Unbound
    BY <1>3, <1>4 DEF LifeOf, EventOrder
  <2>2. \A i \in DOMAIN podWatch' :
          podWatch'[i].pod = p /\ IsDeletion(podWatch'[i]) => store'[p].node = Absent
    BY <1>1, <1>3 DEF LifeOf, EventOrder, IsDeletion
  <2>3. lister'[p].node \in Node => ~UnboundEvent(p)'
    BY <1>2, <1>5 DEF UnboundEvent
  <2> QED
    BY <2>1, <2>2, <2>3 DEF EventOrder, IsDeletion
<1>9. CASE e.obj.node = Unbound
  <2>1. assignedQ' = assignedQ
    <3>1. lister[p].node \notin Node
      BY <1>3, <1>9 DEF LifeOf, EventOrder, UnboundEvent
    <3> QED
      BY <1>0, <1>9, <3>1, AssignedAppend
  <2>2. Assigned(p)' => Assigned(p)
    BY <1>0, <1>1, <1>2, <1>3, <1>9, <2>1 DEF Assigned
  <2>3. CreatedOnce(p)'
    BY <1>7 DEF CreatedOnce
  <2>4. RemovedLast(p)' /\ Counted(p)'
    <3>1. RemovedLast(p)'
      BY <1>1, <1>3, <2>1 DEF LifeOf, RemovedLast, IsDeletion
    <3>2. Counted(p)'
      BY <1>1, <1>3, <2>1 DEF LifeOf, Counted
    <3> QED
      BY <3>1, <3>2
  <2>5. CASE schedQ' = schedQ
    <3>1. Attempted(p)' <=> Attempted(p)
      BY <1>1, <2>5 DEF Attempted, AddPending
    <3>2. OneAttempt(p)'
      BY <1>1, <2>5 DEF LifeOf, OneAttempt, AddPending
    <3>3. AttemptUnassigned(p)'
      BY <1>2, <1>9, <2>2, <3>1 DEF LifeOf, AttemptUnassigned
    <3> QED
      BY <1>8, <2>3, <2>4, <3>2, <3>3 DEF LifeOf
  <2>6. CASE /\ lister[p].node # Unbound
             /\ schedQ' = Append(schedQ, [pod |-> p, add |-> TRUE])
    <3>1. ~Attempted(p) /\ ~Assigned(p)
      BY <1>3, <1>9, <2>6 DEF LifeOf, AttemptUnassigned, UnboundEvent
    <3>2. \A i, j \in DOMAIN schedQ' :
            schedQ'[i].pod = p /\ schedQ'[i].add /\ schedQ'[j].pod = p /\ schedQ'[j].add => i = j
      BY <2>6, <3>1, SchedAppend DEF Attempted, AddPending, TypeOK
    <3>3. OneAttempt(p)'
      BY <1>1, <3>1, <3>2 DEF OneAttempt, Attempted
    <3>4. AttemptUnassigned(p)'
      BY <1>2, <1>9, <2>2, <3>1 DEF AttemptUnassigned
    <3> QED
      BY <1>8, <2>3, <2>4, <3>3, <3>4 DEF LifeOf
  <2>7. schedQ' = schedQ \/ (/\ lister[p].node # Unbound
                             /\ schedQ' = Append(schedQ, [pod |-> p, add |-> TRUE]))
    <3>1. podWatch # <<>> /\ e = Head(podWatch)
      BY WatchTail DEF PodInformer, TypeOK
    <3>2. (e.obj.node = Unbound) = TRUE
      BY <1>9
    <3>3. schedQ' = IF p \notin Ours \/ (lister[p].node = Unbound <=> e.obj.node = Unbound)
                    THEN schedQ ELSE Append(schedQ, [pod |-> p, add |-> e.obj.node = Unbound])
      BY <3>1 DEF PodInformer
    <3> QED
      BY <1>9, <3>2, <3>3
  <2> QED
    BY <2>5, <2>6, <2>7
<1>10. CASE e.obj.node # Unbound
  <2>1. OneAttempt(p)' /\ (Attempted(p)' => Attempted(p))
    <3>1. Attempted(p)' => Attempted(p)
      BY <1>1, <1>6, <1>10 DEF Attempted
    <3>2. \A i, j \in DOMAIN schedQ' :
            schedQ'[i].pod = p /\ schedQ'[i].add /\ schedQ'[j].pod = p /\ schedQ'[j].add => i = j
      <4>1. CASE schedQ' = schedQ
        BY <4>1 DEF LifeOf, OneAttempt
      <4>2. CASE schedQ' = Append(schedQ, [pod |-> p, add |-> FALSE])
        BY <4>2, SchedAppend DEF LifeOf, OneAttempt, TypeOK
      <4> QED
        BY <1>10, <4>1, <4>2, EventHandlers
    <3>3. OneAttempt(p)'
      BY <1>1, <1>6, <1>10, <3>2 DEF LifeOf, OneAttempt
    <3> QED
      BY <3>1, <3>3
  <2>2. CreatedOnce(p)'
    BY <1>7 DEF CreatedOnce
  <2>3. ~UnboundEvent(p)'
    BY <1>0, <1>2, <1>5, <1>10 DEF UnboundEvent, Where
  <2>4. CASE e.obj.node \in Node
    <3>1. Assigned(p) /\ ~Attempted(p)
      BY <1>3, <2>4 DEF LifeOf, AttemptUnassigned, Assigned
    <3>2. AttemptUnassigned(p)'
      BY <2>1, <2>3, <3>1 DEF AttemptUnassigned
    <3>3. /\ cache[p] = e.obj.node
          /\ \A i \in DOMAIN assignedQ : assignedQ[i].pod = p => assignedQ[i].node \in Node
      BY <1>0, <1>3, <2>4 DEF LifeOf, Counted, RemovedLast, IsDeletion
    <3>4. \A i \in DOMAIN assignedQ' :
            \/ i \in DOMAIN assignedQ /\ assignedQ'[i] = assignedQ[i]
            \/ assignedQ'[i].node = e.obj.node
      <4>1. CASE assignedQ' = assignedQ
        BY <4>1
      <4>2. CASE assignedQ' = Append(assignedQ, [pod |-> p, node |-> e.obj.node])
        BY <1>2, <4>2, AssignedEntries
      <4> QED
        BY <4>1, <4>2, AssignedAppend
    <3>5. RemovedLast(p)'
      BY <2>4, <3>3, <3>4 DEF RemovedLast
    <3>6. Counted(p)'
      BY <1>1, <1>3, <3>3, <3>4 DEF LifeOf, Counted
    <3> QED
      BY <1>8, <2>1, <2>2, <3>2, <3>5, <3>6 DEF LifeOf
  <2>5. CASE e.obj.node = Absent
    <3>1. /\ store'[p].node = Absent
          /\ \A i \in DOMAIN podWatch' : podWatch'[i].pod = p => podWatch'[i].obj.node = Absent
      BY <1>1, <1>5, <2>5
    <3>2. /\ \A i \in DOMAIN assignedQ' :
               \/ i \in DOMAIN assignedQ /\ assignedQ'[i] = assignedQ[i]
               \/ /\ assignedQ'[i].node = Absent /\ lister[p].node \in Node
                  /\ \A j \in DOMAIN assignedQ' : ~(i < j)
          /\ \A i, j \in DOMAIN assignedQ' :
               i < j /\ j \in DOMAIN assignedQ => i \in DOMAIN assignedQ
      <4>1. CASE assignedQ' = assignedQ
        BY <4>1
      <4>2. CASE /\ lister[p].node \in Node
                 /\ assignedQ' = Append(assignedQ, [pod |-> p, node |-> Absent])
        BY <1>2, <2>5, <4>2, AssignedEntries
      <4> QED
        BY <1>0, <2>5, <4>1, <4>2, AssignedAppend
    <3>3. Assigned(p)' => Assigned(p)
      BY <1>0, <1>1, <1>2, <2>5, <3>1, <3>2 DEF Assigned
    <3>4. AttemptUnassigned(p)'
      BY <2>1, <2>3, <3>1, <3>3 DEF LifeOf, AttemptUnassigned
    <3>5. RemovedLast(p)'
      <4>1. ASSUME NEW i \in DOMAIN assignedQ', assignedQ'[i].pod = p,
                   assignedQ'[i].node \notin Node,
                   NEW j \in DOMAIN assignedQ', i < j, assignedQ'[j].pod = p
            PROVE  assignedQ'[j].node \notin Node
        <5>1. i \in DOMAIN assignedQ /\ assignedQ'[i] = assignedQ[i]
          BY <3>2, <4>1
        <5>2. CASE j \in DOMAIN assignedQ /\ assignedQ'[j] = assignedQ[j]
          BY <4>1, <5>1, <5>2 DEF LifeOf, RemovedLast
        <5>3. CASE assignedQ'[j].node = Absent
          BY <1>0, <5>3
        <5> QED
          BY <3>2, <5>2, <5>3
      <4> QED
        BY <3>1, <4>1 DEF RemovedLast, IsDeletion
    <3>6. Counted(p)'
      BY <1>0, <1>1, <3>1, <3>2 DEF LifeOf, Counted
    <3> QED
      BY <1>8, <2>1, <2>2, <3>4, <3>5, <3>6 DEF LifeOf
  <2> QED
    BY <1>2, <1>10, <2>4, <2>5 DEF Where
<1> QED
  BY <1>9, <1>10

LEMMA LifePending ==
  ASSUME TypeOK, TypeOK', NEW p \in Pod, LifeOf(p), HandlePending, MayCreate(p)' => MayCreate(p)
  PROVE  LifeOf(p)'
<1>1. PICK h : h = schedQ[1]
  OBVIOUS
<1>2. /\ UNCHANGED <<store, podWatch, lister, assignedQ, cache, scur, spc, binding>>
      /\ schedQ # <<>> /\ schedQ' = Tail(schedQ)
  BY DEF HandlePending, loopVars, cacheVars, podVars
<1>3. /\ 1 \in DOMAIN schedQ /\ h = Head(schedQ)
      /\ \A i \in DOMAIN schedQ' :
           i + 1 # 1 /\ i + 1 \in DOMAIN schedQ /\ schedQ'[i] = schedQ[i + 1]
  BY <1>1, <1>2, TailShift DEF TypeOK, InformerType
<1>4. /\ queued'[h.pod] = IF h.add THEN "active" ELSE "no"
      /\ \A q \in Pod : q # h.pod => queued'[q] = queued[q]
  <2>1. h \in [pod: Pod, add: BOOLEAN]
    BY <1>2, <1>3, HeadTailProperties DEF TypeOK, InformerType
  <2> QED
    BY <1>3, <2>1 DEF HandlePending, QueueAdd, QueueDelete, TypeOK, QueueType
<1>5. CASE h.pod = p /\ h.add
  <2>1. AddPending(p) /\ Attempted(p) /\ ~AddPending(p)'
    BY <1>1, <1>3, <1>5 DEF LifeOf, OneAttempt, AddPending, Attempted
  <2>2. scur # p /\ binding[p].step = "none"
    BY <2>1 DEF LifeOf, OneAttempt
  <2>3. OneAttempt(p)'
    BY <1>2, <1>4, <1>5, <2>1, <2>2 DEF OneAttempt, AddPending
  <2> QED
    BY <1>2, <2>1, <2>2, <2>3, AttemptGoesOn
<1>6. CASE ~(h.pod = p /\ h.add)
  <2>1. Embeds(schedQ', schedQ, p)
    BY <1>2, EmbedTail DEF TypeOK, InformerType
  <2>2. queued'[p] \in {queued[p], "no"}
    BY <1>4, <1>6
  <2>3. AttemptShrinks(p)
    BY <1>2, <2>1, <2>2 DEF AttemptShrinks
  <2> QED
    BY <1>2, <2>3, StillShrinks, ShrinkLife
<1> QED
  BY <1>5, <1>6

(* A move request leaves every pod where it is, or in the other sub-queue. *)
LEMMA MovedOn ==
  ASSUME TypeOK, NEW p \in Pod, UNCHANGED queued \/ MoveAll,
         UNCHANGED <<schedQ, scur, spc, binding>>
  PROVE  AttemptShrinks(p)
<1>1. Embeds(schedQ', schedQ, p)
  BY EmbedSame DEF TypeOK, InformerType
<1>2. queued'[p] = queued[p] \/ (queued[p] = "unschedulable" /\ queued'[p] = "backoff")
  BY DEF MoveAll
<1> QED
  BY <1>1, <1>2 DEF AttemptShrinks

LEMMA LifeAssigned ==
  ASSUME TypeOK, TypeOK', NEW p \in Pod, LifeOf(p), HandleAssigned, MayCreate(p)' => MayCreate(p)
  PROVE  LifeOf(p)'
<1>1. PICK h : h = assignedQ[1]
  OBVIOUS
<1>2. /\ UNCHANGED <<store, podWatch, lister, schedQ, scur, spc, binding>>
      /\ assignedQ # <<>> /\ assignedQ' = Tail(assignedQ)
  BY DEF HandleAssigned, loopVars, podVars
<1>3. /\ 1 \in DOMAIN assignedQ /\ h = Head(assignedQ)
      /\ \A i \in DOMAIN assignedQ' :
           /\ i + 1 # 1 /\ 1 < i + 1 /\ i \in Nat
           /\ i + 1 \in DOMAIN assignedQ /\ assignedQ'[i] = assignedQ[i + 1]
  BY <1>1, <1>2, TailShift DEF TypeOK, InformerType
<1>4. /\ cache'[p] = IF p # h.pod THEN cache[p] ELSE IF h.node \in Node THEN h.node ELSE Unbound
      /\ UNCHANGED queued \/ MoveAll
  BY <1>3 DEF HandleAssigned, TypeOK, CacheType
<1>5. AttemptShrinks(p)
  BY <1>2, <1>4, MovedOn
<1>6. CASE p # h.pod \/ h.node \in Node
  <2>1. cache'[p] = cache[p]
    BY <1>1, <1>3, <1>4, <1>6 DEF LifeOf, Counted
  <2>2. Embeds(podWatch', podWatch, p) /\ Embeds(assignedQ', assignedQ, p)
    BY <1>2, EmbedSame, EmbedTail DEF TypeOK, StoreType, InformerType
  <2>3. Shrinks(p)
    BY <1>2, <1>5, <2>1, <2>2 DEF Shrinks
  <2> QED
    BY <2>3, ShrinkLife
<1>7. CASE p = h.pod /\ h.node \notin Node
  <2>1. /\ store[p].node = Absent
        /\ \A j \in DOMAIN podWatch : podWatch[j].pod = p => podWatch[j].obj.node = Absent
        /\ \A j \in DOMAIN assignedQ' : assignedQ'[j].pod = p => assignedQ'[j].node \notin Node
    BY <1>1, <1>3, <1>7 DEF LifeOf, RemovedLast, IsDeletion
  <2>2. ~Attempted(p) /\ ~MayCreate(p)
    BY <1>1, <1>3, <1>7 DEF LifeOf, AttemptUnassigned, CreatedOnce, Untouched, Assigned
  <2>3. ~Attempted(p)' /\ OneAttempt(p)'
    BY <1>5, <2>2, FewerAttempts, OneAttemptShrinks DEF LifeOf
  <2>4. Absent \notin Node /\ Absent # Unbound
    BY SimulatorAssumptions DEF SimulatorAssumptions
  <2>5. AttemptUnassigned(p)'
    BY <1>2, <2>1, <2>3, <2>4 DEF AttemptUnassigned, UnboundEvent
  <2>6. CreatedOnce(p)' /\ EventOrder(p)'
    BY <1>2, <2>2 DEF LifeOf, CreatedOnce, EventOrder, IsDeletion, UnboundEvent
  <2>7. RemovedLast(p)'
    BY <1>2, <2>1 DEF RemovedLast, IsDeletion
  <2>8. Counted(p)'
    BY <1>2, <2>1, <2>2, <2>4 DEF Counted, Attempted
  <2> QED
    BY <2>3, <2>5, <2>6, <2>7, <2>8 DEF LifeOf
<1> QED
  BY <1>6, <1>7

LEMMA LifeInformer ==
  ASSUME TypeOK, TypeOK', NEW p \in Pod, LifeOf(p), InformerStep, Next
  PROVE  LifeOf(p)'
<1>0. MayCreate(p)' => MayCreate(p)
  BY NoNewCreation
<1>1. CASE StartWatch \/ Update \/ SendOnClosedChannel
  BY <1>0, <1>1, LifeStill
     DEF StartWatch, Update, SendOnClosedChannel, infVars, loopVars, cacheVars, queueVars, podVars
<1>2. CASE PodInformer
  <2>1. PICK e : e = podWatch[1]
    OBVIOUS
  <2> QED
    BY <1>0, <1>2, <2>1, LifeEvent, LifeEventElsewhere
<1>3. CASE HandlePending
  BY <1>0, <1>3, LifePending
<1>4. CASE HandleAssigned
  BY <1>0, <1>4, LifeAssigned
<1>5. CASE HandleNode
  <2>1. /\ UNCHANGED <<store, podWatch, lister, schedQ, assignedQ, cache, scur, spc, binding>>
        /\ UNCHANGED queued \/ MoveAll
    BY <1>5 DEF HandleNode, infVars, loopVars, podVars
  <2>2. AttemptShrinks(p)
    BY <2>1, MovedOn
  <2> QED
    BY <1>0, <2>1, <2>2, StillShrinks, ShrinkLife
<1> QED
  BY <1>1, <1>2, <1>3, <1>4, <1>5 DEF InformerStep

LEMMA LifeStep ==
  ASSUME TypeOK, TypeOK', DistinctNames, NEW p \in Pod, NodeName[p] = Unbound, LifeOf(p),
         [Next]_vars
  PROVE  LifeOf(p)'
<1>1. CASE UNCHANGED vars
  <2>1. MayCreate(p)' => MayCreate(p)
    BY NoNewCreation
  <2> QED
    BY <1>1, <2>1, LifeStill DEF vars, infVars, loopVars, cacheVars, queueVars, podVars
<1> QED
  BY <1>1, LifeCaller, LifeInformer, LifeScheduler, LifeBind, LifeRetry DEF Next

-----------------------------------------------------------------------------
(* The sums of the scheduler's cache.                                      *)

LEMMA UsedIsSum ==
  ASSUME NEW n
  PROVE  /\ CpuUsed(n) = SumOver(Cpu, {q \in Pod : cache[q] = n})
         /\ CpuUsed(n)' = SumOver(Cpu, {q \in Pod : cache'[q] = n})
         /\ CpuOnNode(n) = SumOver(Cpu, {q \in Pod : store[q].node = n})
<1>1. CpuUsed(n) = SumOver(Cpu, {q \in Pod : cache[q] = n})
  BY DEF CpuUsed, SumOver
<1>2. CpuUsed(n)' = SumOver(Cpu, {q \in Pod : cache'[q] = n})
  <2>1. (CpuUsed(n) = SumOver(Cpu, {q \in Pod : cache[q] = n}))'
    BY <1>1, PTL
  <2> QED
    BY <2>1
<1>3. CpuOnNode(n) = SumOver(Cpu, {q \in Pod : store[q].node = n})
  BY DEF CpuOnNode, SumOver
<1> QED
  BY <1>1, <1>2, <1>3

LEMMA CpuSum ==
  ASSUME NEW S \in SUBSET Pod
  PROVE  IsFiniteSet(S) /\ (\A q \in S : Cpu[q] \in Nat) /\ SumOver(Cpu, S) \in Nat
<1>1. IsFiniteSet(S) /\ \A q \in S : Cpu[q] \in Nat
  BY FS_Subset, SimulatorAssumptions DEF SimulatorAssumptions
<1> QED
  BY <1>1, SumNat

(* What an entry of the cache that changes does to the node n.             *)
LEMMA CacheWrite ==
  ASSUME TypeOK, NEW p \in Pod, NEW m, cache' = [cache EXCEPT ![p] = m], NEW n
  PROVE  /\ CpuUsed(n)' <= CpuUsed(n) + Cpu[p]
         /\ m # n \/ cache[p] = m \/ Cpu[p] = 0 => CpuUsed(n)' <= CpuUsed(n)
         /\ CpuUsed(n) \in Nat /\ CpuUsed(n)' \in Nat
<1> DEFINE S == {q \in Pod : cache[q] = n}
           R == {q \in Pod : cache'[q] = n}
<1>1. CpuUsed(n) = SumOver(Cpu, S) /\ CpuUsed(n)' = SumOver(Cpu, R)
  BY UsedIsSum
<1>2. S \in SUBSET Pod /\ R \in SUBSET Pod /\ S \cup {p} \in SUBSET Pod
  OBVIOUS
<1>3. R \subseteq S \cup {p} /\ (m # n \/ cache[p] = m => R \subseteq S)
  BY DEF TypeOK, CacheType
<1> HIDE DEF S, R
<1>4. /\ SumOver(Cpu, S) \in Nat /\ SumOver(Cpu, R) \in Nat /\ Cpu[p] \in Nat
      /\ SumOver(Cpu, S \cup {p}) \in Nat
  BY <1>2, CpuSum
<1>5. SumOver(Cpu, S \cup {p}) <= SumOver(Cpu, S) + Cpu[p]
  <2>1. CASE p \in S
    <3>1. SumOver(Cpu, S \cup {p}) = SumOver(Cpu, S)
      <4>1. S \cup {p} = S
        BY <2>1
      <4> QED
        BY <4>1, Zenon
    <3> QED
      BY <1>4, <3>1
  <2>2. CASE p \notin S
    <3>1. SumOver(Cpu, S \cup {p}) = Cpu[p] + SumOver(Cpu, S)
      BY <1>2, <2>2, CpuSum, SumInsert
    <3> QED
      BY <1>4, <3>1
  <2> QED
    BY <2>1, <2>2
<1>6. SumOver(Cpu, R) <= SumOver(Cpu, S \cup {p})
  BY <1>2, <1>3, CpuSum, SumMonotone
<1>7. R \subseteq S => SumOver(Cpu, R) <= SumOver(Cpu, S)
  BY <1>2, CpuSum, SumMonotone
<1> QED
  BY <1>1, <1>3, <1>4, <1>5, <1>6, <1>7

LEMMA UsedFrame ==
  ASSUME NEW n, UNCHANGED cache
  PROVE  CpuUsed(n)' = CpuUsed(n)
  BY UsedIsSum

(* The scheduler fills a node up to its capacity and not beyond.           *)
LEMMA CapacityStep ==
  ASSUME TypeOK, Life, CacheFits, \A p \in Pod : NodeName[p] # Unbound => Cpu[p] = 0,
         [Next]_vars, NEW n \in Node
  PROVE  CpuUsed(n)' <= CpuCap[n]
<1>1. CpuUsed(n) <= CpuCap[n] /\ CpuCap[n] \in Nat
  BY SimulatorAssumptions DEF CacheFits, SimulatorAssumptions
<1>2. \A q \in Pod : Cpu[q] \in Nat
  BY SimulatorAssumptions DEF SimulatorAssumptions
<1>3. CASE UNCHANGED cache
  BY <1>1, <1>3, UsedFrame
<1>4. ASSUME NEW q \in Pod, NEW m, cache' = [cache EXCEPT ![q] = m],
             m # n \/ cache[q] = m \/ Cpu[q] = 0 \/ CpuUsed(n) + Cpu[q] <= CpuCap[n]
      PROVE  CpuUsed(n)' <= CpuCap[n]
  <2>1. /\ CpuUsed(n)' <= CpuUsed(n) + Cpu[q]
        /\ m # n \/ cache[q] = m \/ Cpu[q] = 0 => CpuUsed(n)' <= CpuUsed(n)
        /\ CpuUsed(n) \in Nat /\ CpuUsed(n)' \in Nat
    BY <1>4, CacheWrite
  <2> QED
    BY <1>1, <1>2, <1>4, <2>1
<1>5. CASE HandleAssigned
  <2>1. PICK h : h = assignedQ[1]
    OBVIOUS
  <2>2. 1 \in DOMAIN assignedQ /\ h = Head(assignedQ) /\ h \in [pod: Pod, node: Where]
    <3>1. assignedQ \in Seq([pod: Pod, node: Where]) /\ assignedQ # <<>>
      BY <1>5 DEF HandleAssigned, TypeOK, InformerType
    <3>2. 1 \in DOMAIN assignedQ /\ h = Head(assignedQ)
      BY <2>1, <3>1, TailShift
    <3> QED
      BY <3>1, <3>2, HeadTailProperties
  <2>3. CASE h.node \in Node
    <3>1. cache' = [cache EXCEPT ![h.pod] = h.node]
      BY <1>5, <2>2, <2>3 DEF HandleAssigned
    <3>2. NodeName[h.pod] = Unbound => cache[h.pod] = h.node
      BY <2>1, <2>2, <2>3 DEF Life, LifeOf, Counted
    <3> QED
      BY <1>4, <2>2, <3>1, <3>2
  <2>4. CASE h.node \notin Node
    <3>1. cache' = [cache EXCEPT ![h.pod] = Unbound] /\ Unbound # n
      BY <1>5, <2>2, <2>4, SimulatorAssumptions DEF HandleAssigned, SimulatorAssumptions
    <3> QED
      BY <1>4, <2>2, <3>1
  <2> QED
    BY <2>3, <2>4
<1>6. CASE InformerStep /\ ~HandleAssigned
  BY <1>3, <1>6 DEF InformerStep, StartWatch, PodInformer, HandlePending, HandleNode, Update,
     SendOnClosedChannel, cacheVars
<1>7. ASSUME NEW m \in Node, Assume(m) PROVE CpuUsed(n)' <= CpuCap[n]
  <2>1. PICK q \in Pod : q = scur
    BY <1>7 DEF Assume, TypeOK, LoopType
  <2>2. cache' = [cache EXCEPT ![q] = m] /\ NodeResourcesFit(q, m)
    BY <1>7, <2>1 DEF Assume, AssumePod, Feasible
  <2> QED
    BY <1>4, <2>2 DEF NodeResourcesFit
<1>8. ASSUME NEW q \in Pod, Bind(q) PROVE CpuUsed(n)' <= CpuCap[n]
  <2>1. CASE ForgetPod(q)
    <3>1. cache' = [cache EXCEPT ![q] = Unbound] /\ Unbound # n
      BY <2>1, SimulatorAssumptions DEF ForgetPod, SimulatorAssumptions
    <3> QED
      BY <1>4, <3>1
  <2> QED
    BY <1>3, <1>8, <2>1 DEF Bind, LocalBindGet, LocalBindUpdate, BindPodToNode,
       RequeueRejected, RecordBindError, cacheVars
<1>9. CASE MainStep
  BY <1>3, <1>9 DEF MainStep, RefuseCluster, RunScheduler, CreateNode, NodesCreated,
     RefuseApp, CreatePod, CreatePodFails, Receive, Collect, GetClusterNodeStatus,
     CancelScheduler, CreateTestPod, CloseChannel, cacheVars
<1>10. CASE SchedulerStep
  BY <1>3, <1>7, <1>10 DEF SchedulerStep, EnterScheduleOne, StopScheduler, ScheduleFails,
     RequeueUnschedulable, RecordUnschedulable, NextPod, cacheVars
<1>11. ASSUME NEW q \in Pod, Retry(q) PROVE CpuUsed(n)' <= CpuCap[n]
  BY <1>3, <1>11 DEF Retry, cacheVars
<1> QED
  BY <1>3, <1>5, <1>6, <1>8, <1>9, <1>10, <1>11 DEF Next, vars, cacheVars

LEMMA LifeInit ==
  ASSUME Init
  PROVE  Life /\ CacheFits
<1>0. /\ Unbound \notin Node /\ Absent # Unbound /\ Absent \notin Node
      /\ \A n \in Node : CpuCap[n] \in Nat
  BY SimulatorAssumptions DEF SimulatorAssumptions
<1>1. ASSUME NEW p \in Pod PROVE LifeOf(p)
  <2>1. /\ store[p].node = Absent /\ lister[p].node = Absent /\ cache[p] = Unbound
        /\ queued[p] = "no" /\ scur # p /\ binding[p].step = "none"
        /\ \A i : i \notin DOMAIN podWatch /\ i \notin DOMAIN schedQ /\ i \notin DOMAIN assignedQ
    BY SimulatorAssumptions DEF SimulatorAssumptions, Init, NoObject, NoBind
  <2>2. ~Attempted(p) /\ ~Assigned(p) /\ ~AddPending(p)
    BY <1>0, <2>1 DEF Attempted, Assigned, AddPending
  <2>3. Untouched(p)
    BY <2>1, <2>2 DEF Untouched
  <2> QED
    BY <1>0, <2>1, <2>2, <2>3 DEF LifeOf, CreatedOnce, OneAttempt, AttemptUnassigned,
       EventOrder, RemovedLast, Counted, UnboundEvent
<1>2. ASSUME NEW n \in Node PROVE CpuUsed(n) <= CpuCap[n]
  <2>1. {q \in Pod : cache[q] = n} = {}
    BY <1>0 DEF Init
  <2>2. CpuUsed(n) = 0
    BY <2>1, UsedIsSum, SumEmpty
  <2> QED
    BY <1>0, <2>2
<1> QED
  BY <1>1, <1>2 DEF Life, CacheFits

(* The bookkeeping of a pod, from its creation to its removal from the     *)
(* scheduler's cache (simulator.go, scheduler.go), survives every          *)
(* interleaving and every number of retries.                               *)
THEOREM LifeHeld == DistinctNames => (Spec => []Life)
<1> SUFFICES ASSUME DistinctNames PROVE Spec => []Life
  OBVIOUS
<1>1. Init => Life
  BY LifeInit
<1>2. TypeOK /\ TypeOK' /\ Life /\ [Next]_vars => Life'
  BY LifeStep DEF Life
<1> QED
  BY <1>1, <1>2, TypeCorrect, PTL DEF Spec

(* A pod that names its node passes no filter; here it requests nothing.   *)
NamedRequestNothing == \A p \in Pod : NodeName[p] # Unbound => Cpu[p] = 0

LEMMA CacheFitsHeld == DistinctNames /\ NamedRequestNothing => (Spec => []CacheFits)
<1> SUFFICES ASSUME DistinctNames, NamedRequestNothing PROVE Spec => []CacheFits
  OBVIOUS
<1>1. Init => CacheFits
  BY LifeInit
<1>2. TypeOK /\ Life /\ CacheFits /\ [Next]_vars => CacheFits'
  BY CapacityStep DEF CacheFits, NamedRequestNothing
<1> QED
  BY <1>1, <1>2, TypeCorrect, LifeHeld, PTL DEF Spec

(* No node is given more than it has, although the scheduler decides from  *)
(* a cache of its own, binds in goroutines of their own and tries a pod    *)
(* again whenever a timer says so (scheduler.go, simulator.go).            *)
THEOREM CapacityKept == DistinctNames /\ NamedRequestNothing => (Spec => []NoOvercommit)
<1> SUFFICES ASSUME DistinctNames, NamedRequestNothing PROVE Spec => []NoOvercommit
  OBVIOUS
<1>1. TypeOK /\ Life /\ CacheFits => NoOvercommit
  <2> SUFFICES ASSUME TypeOK, Life, CacheFits, NEW n \in Node PROVE CpuOnNode(n) <= CpuCap[n]
    BY DEF NoOvercommit
  <2> DEFINE B == {q \in Pod : store[q].node = n}
             R == {q \in B : Cpu[q] # 0}
             S == {q \in Pod : cache[q] = n}
  <2>1. CpuOnNode(n) = SumOver(Cpu, B) /\ CpuUsed(n) = SumOver(Cpu, S)
    BY UsedIsSum
  <2>2. /\ B \in SUBSET Pod /\ R \in SUBSET Pod /\ S \in SUBSET Pod /\ R \in SUBSET B
        /\ \A q \in B \ R : Cpu[q] = 0
    OBVIOUS
  <2>3. R \in SUBSET S
    BY DEF Life, LifeOf, Counted, NamedRequestNothing
  <2> HIDE DEF B, R, S
  <2>4. SumOver(Cpu, R) = SumOver(Cpu, B)
    BY <2>2, CpuSum, SumZeros
  <2>5. SumOver(Cpu, R) <= SumOver(Cpu, S)
    BY <2>2, <2>3, CpuSum, SumMonotone
  <2>6. CpuUsed(n) <= CpuCap[n] /\ CpuCap[n] \in Nat
    BY SimulatorAssumptions DEF CacheFits, SimulatorAssumptions
  <2>7. SumOver(Cpu, R) \in Nat /\ SumOver(Cpu, S) \in Nat
    BY <2>2, CpuSum
  <2> QED
    BY <2>1, <2>4, <2>5, <2>6, <2>7
<1> QED
  BY <1>1, LifeHeld, CacheFitsHeld, TypeCorrect, PTL

-----------------------------------------------------------------------------
(* What was reported as unscheduled.                                       *)

(* Only its creation brings a pod into the API server.                     *)
LEMMA OnlyCreated ==
  ASSUME TypeOK, DistinctNames, [Next]_vars, NEW p \in Pod, store[p].node = Absent, ~MayCreate(p)
  PROVE  store'[p].node = Absent
<1>1. ASSUME NEW q \in Pod, NEW o, Publish(q, o), q # p \/ o.node = Absent
      PROVE  store'[p].node = Absent
  BY <1>1 DEF Publish, TypeOK, StoreType
<1>2. UNCHANGED store => store'[p].node = Absent
  OBVIOUS
<1>3. CASE CreatePod
  <2>1. PICK q \in Pod : q = Cur
    BY <1>3, CurIsPod DEF CreatePod, TypeOK
  <2>2. q # p
    BY <1>3, <2>1, NoMoreCreation
  <2> QED
    BY <1>1, <1>3, <2>1, <2>2 DEF CreatePod
<1>4. CASE CreateTestPod
  <2>1. TestPod \in Pod /\ TestPod # p
    BY <1>4, NoMoreCreation, SimulatorAssumptions DEF SimulatorAssumptions
  <2> QED
    BY <1>1, <1>4, <2>1 DEF CreateTestPod
<1>5. CASE Collect
  <2>1. PICK q \in Pod : q = Cur
    BY <1>5, CurIsPod DEF Collect, TypeOK, CallerType
  <2>2. NoObject.node = Absent
    BY DEF NoObject
  <2> QED
    BY <1>1, <1>2, <1>5, <2>1, <2>2 DEF Collect, ReportFailed, podVars
<1>6. ASSUME NEW q \in Pod, NEW r, PatchCondition(q, r) PROVE store'[p].node = Absent
  BY <1>1, <1>2, <1>6 DEF PatchCondition, podVars
<1>7. CASE RecordUnschedulable
  <2>1. PICK q \in Pod : q = scur
    BY <1>7 DEF RecordUnschedulable, TypeOK, LoopType
  <2> QED
    BY <1>6, <1>7, <2>1 DEF RecordUnschedulable
<1>8. ASSUME NEW q \in Pod, RecordBindError(q) PROVE store'[p].node = Absent
  BY <1>6, <1>8 DEF RecordBindError
<1>9. ASSUME NEW q \in Pod, BindPodToNode(q) PROVE store'[p].node = Absent
  BY <1>1, <1>2, <1>9 DEF BindPodToNode, podVars
<1>10. CASE \/ RefuseCluster \/ RunScheduler \/ CreateNode \/ NodesCreated
            \/ RefuseApp \/ CreatePodFails \/ Receive
            \/ GetClusterNodeStatus \/ CancelScheduler \/ CloseChannel
  BY <1>2, <1>10 DEF RefuseCluster, RunScheduler, CreateNode, NodesCreated, RefuseApp,
     CreatePodFails, Receive, GetClusterNodeStatus, CancelScheduler, CloseChannel, podVars
<1>11. CASE InformerStep
  BY <1>2, <1>11 DEF InformerStep, StartWatch, PodInformer, HandlePending, HandleAssigned,
     HandleNode, Update, SendOnClosedChannel, podVars
<1>12. CASE EnterScheduleOne \/ StopScheduler \/ ScheduleFails \/ RequeueUnschedulable
  BY <1>2, <1>12 DEF EnterScheduleOne, StopScheduler, ScheduleFails, RequeueUnschedulable,
     podVars
<1>13. ASSUME NEW q \in Pod, NextPod(q) \/ Retry(q) PROVE store'[p].node = Absent
  BY <1>2, <1>13 DEF NextPod, Retry, podVars
<1>14. ASSUME NEW n \in Node, Assume(n) PROVE store'[p].node = Absent
  BY <1>2, <1>14 DEF Assume, podVars
<1>15. ASSUME NEW q \in Pod,
              LocalBindGet(q) \/ LocalBindUpdate(q) \/ ForgetPod(q) \/ RequeueRejected(q)
       PROVE  store'[p].node = Absent
  BY <1>2, <1>15 DEF LocalBindGet, LocalBindUpdate, ForgetPod, RequeueRejected, podVars
<1>16. CASE UNCHANGED vars
  BY <1>2, <1>16 DEF vars, podVars
<1> QED
  BY <1>3, <1>4, <1>5, <1>7, <1>8, <1>9, <1>10, <1>11, <1>12, <1>13, <1>14, <1>15, <1>16
     DEF Next, MainStep, SchedulerStep, Bind

(* The pods that were reported: absent, and never created again.           *)
FailedGone == \A p \in Failed : p \in Pod /\ store[p].node = Absent /\ ~MayCreate(p)

LEMMA FailedListed ==
  ASSUME TypeOK, Collect, stopReason # NoPod
  PROVE  Publish(Cur, NoObject) /\ Cur \in Pod /\ Failed' = Failed \cup {Cur}
<1>1. PICK e : e = [pod |-> Cur, why |-> stopReason]
  OBVIOUS
<1>2. /\ failedPods' = Append(failedPods, e) /\ e.pod = Cur /\ Cur \in Pod
      /\ e \in [pod: Pod, why: Pod] /\ failedPods \in Seq([pod: Pod, why: Pod])
  BY <1>1, CurIsPod DEF Collect, ReportFailed, TypeOK, CallerType
<1>3. /\ failedPods' \in Seq([pod: Pod, why: Pod])
      /\ Len(failedPods') = Len(failedPods) + 1
      /\ \A i \in 1 .. Len(failedPods) : failedPods'[i] = failedPods[i]
      /\ failedPods'[Len(failedPods) + 1] = e
  BY <1>2, AppendElement
<1>4. /\ DOMAIN failedPods = 1 .. Len(failedPods) /\ DOMAIN failedPods' = 1 .. Len(failedPods')
      /\ Len(failedPods) \in Nat
  BY <1>2, <1>3, LenDomain
<1>5. \A x : (\E i \in DOMAIN failedPods' : failedPods'[i].pod = x)
               <=> (x = Cur \/ \E i \in DOMAIN failedPods : failedPods[i].pod = x)
  BY <1>2, <1>3, <1>4
<1>6. Failed' = Failed \cup {Cur}
  BY <1>5 DEF Failed
<1> QED
  BY <1>2, <1>6 DEF Collect, ReportFailed

LEMMA FailedGrows ==
  ASSUME TypeOK, [Next]_vars
  PROVE  \/ Failed' = Failed
         \/ /\ Collect /\ stopReason # NoPod /\ Publish(Cur, NoObject)
            /\ Cur \in Pod /\ Failed' = Failed \cup {Cur}
<1>1. UNCHANGED failedPods => Failed' = Failed
  BY DEF Failed
<1>2. CASE Collect /\ stopReason # NoPod
  BY <1>2, FailedListed
<1>3. CASE Collect /\ stopReason = NoPod
  BY <1>1, <1>3 DEF Collect, ReportFailed
<1>4. CASE \/ RefuseCluster \/ RunScheduler \/ CreateNode \/ NodesCreated
           \/ RefuseApp \/ CreatePod \/ CreatePodFails \/ Receive
           \/ GetClusterNodeStatus \/ CancelScheduler \/ CreateTestPod \/ CloseChannel
  BY <1>1, <1>4 DEF RefuseCluster, RunScheduler, CreateNode, NodesCreated, RefuseApp, CreatePod,
     CreatePodFails, Receive, GetClusterNodeStatus, CancelScheduler, CreateTestPod, CloseChannel
<1>5. CASE InformerStep
  BY <1>1, <1>5 DEF InformerStep, StartWatch, PodInformer, HandlePending, HandleAssigned,
     HandleNode, Update, SendOnClosedChannel, mainVars
<1>6. CASE SchedulerStep
  BY <1>1, <1>6 DEF SchedulerStep, EnterScheduleOne, StopScheduler, ScheduleFails,
     RequeueUnschedulable, RecordUnschedulable, NextPod, Assume, mainVars
<1>7. ASSUME NEW q \in Pod, Retry(q) \/ Bind(q) PROVE Failed' = Failed
  BY <1>1, <1>7 DEF Retry, Bind, LocalBindGet, LocalBindUpdate, BindPodToNode, ForgetPod,
     RequeueRejected, RecordBindError, mainVars
<1>8. CASE UNCHANGED vars
  BY <1>1, <1>8 DEF vars, mainVars
<1> QED
  BY <1>2, <1>3, <1>4, <1>5, <1>6, <1>7, <1>8 DEF Next, MainStep, Collect

LEMMA FailedGoneStep ==
  ASSUME TypeOK, DistinctNames, FailedGone, [Next]_vars
  PROVE  FailedGone' /\ \A p \in Failed : store'[p].node = Absent
<1>1. ASSUME NEW p \in Failed PROVE p \in Pod /\ store'[p].node = Absent /\ ~MayCreate(p)'
  BY <1>1, OnlyCreated, NoNewCreation DEF FailedGone
<1>2. ASSUME Collect, Publish(Cur, NoObject), NEW p \in Pod, p = Cur
      PROVE  store'[p].node = Absent /\ ~MayCreate(p)'
  BY <1>2, NoMoreCreation DEF Publish, NoObject, TypeOK, StoreType
<1> QED
  BY <1>1, <1>2, FailedGrows DEF FailedGone

(* A pod that was reported as unscheduled is never again in the API server *)
(* (simulator.go, schedulePods), whatever the scheduler still does with it *)
(* and however often it is tried again.                                    *)
THEOREM FailedNeverReturn == DistinctNames => (Spec => FailedStayGone)
<1> SUFFICES ASSUME DistinctNames PROVE Spec => FailedStayGone
  OBVIOUS
<1>1. Init => FailedGone
  BY DEF Init, FailedGone, Failed
<1>2. TypeOK /\ FailedGone /\ [Next]_vars => FailedGone'
  BY FailedGoneStep
<1>3. TypeOK /\ FailedGone /\ [Next]_vars => [\A p \in Failed : store'[p].node = Absent]_vars
  BY FailedGoneStep
<1> QED
  BY <1>1, <1>2, <1>3, TypeCorrect, PTL DEF Spec, FailedStayGone

-----------------------------------------------------------------------------
(* The scheduler's cache and the API server, without retries.              *)

Following == {"local", "write", "simon", "forget"}

LEMMA KnownFrame ==
  ASSUME PlacementKnown, CacheExact,
         UNCHANGED <<store, podWatch, lister, assignedQ, cache, binding>>
  PROVE  PlacementKnown' /\ CacheExact'
  BY DEF PlacementKnown, CacheExact

(* A write of p, which has no node yet.                                    *)
LEMMA KnownWrite ==
  ASSUME TypeOK, TypeOK', PlacementKnown, CacheExact, NEW p \in Pod, NEW o \in Object,
         Publish(p, o), store[p].node \notin Node,
         o.node \in Node => /\ \A i \in DOMAIN podWatch : podWatch[i].pod # p
                            /\ NodeName[p] # Unbound \/ cache[p] = o.node,
         UNCHANGED <<lister, assignedQ, cache>>,
         \A q \in Pod : q # p => binding'[q] = binding[q],
         \/ binding'[p] = binding[p]
         \/ binding'[p].step = "none" /\ (binding[p].step \notin Following \/ cache[p] = o.node)
  PROVE  PlacementKnown' /\ CacheExact'
<1>1. store'[p] = o /\ \A q \in Pod : q # p => store'[q] = store[q]
  BY PublishWrites DEF Written, TypeOK
<1>2. \A i \in DOMAIN podWatch' :
        \/ i \in DOMAIN podWatch /\ podWatch'[i] = podWatch[i]
        \/ podWatch'[i].pod = p /\ podWatch'[i].obj = o
  BY OwnEvents
<1>3. \A q \in Pod : cache[q] \in Node \cup {Unbound}
  BY DEF TypeOK, CacheType
<1>4. \A q \in Pod : lister'[q].node \in Node => store'[q].node = lister'[q].node
  BY <1>1 DEF PlacementKnown
<1>5. ASSUME NEW i \in DOMAIN podWatch',
             podWatch'[i].obj.node \in Node \/ store'[podWatch'[i].pod].node \in Node
      PROVE  podWatch'[i].obj.node = store'[podWatch'[i].pod].node
  <2>1. CASE podWatch'[i].pod = p /\ podWatch'[i].obj = o
    BY <1>1, <2>1
  <2>2. CASE i \in DOMAIN podWatch /\ podWatch'[i] = podWatch[i]
    <3>1. PICK e : e = podWatch[i]
      OBVIOUS
    <3>2. e.pod \in Pod /\ (e.obj.node \in Node \/ store[e.pod].node \in Node
                              => e.obj.node = store[e.pod].node)
      BY <2>2, <3>1, WatchElement DEF PlacementKnown, TypeOK
    <3>3. e.pod = p => o.node \notin Node
      BY <2>2, <3>1
    <3> QED
      BY <1>1, <1>5, <2>2, <3>1, <3>2, <3>3
  <2> QED
    BY <1>2, <2>1, <2>2
<1>6. \A i \in DOMAIN assignedQ' :
        /\ assignedQ'[i].node \in Node /\ store'[assignedQ'[i].pod].node = assignedQ'[i].node
  <2>1. ASSUME NEW i \in DOMAIN assignedQ
        PROVE  /\ assignedQ[i].pod \in Pod /\ assignedQ[i].node \in Node
               /\ store[assignedQ[i].pod].node = assignedQ[i].node
    <3>1. assignedQ[i] \in [pod: Pod, node: Where]
      BY ElementOfSeq, LenDomain DEF TypeOK, InformerType
    <3> QED
      BY <3>1 DEF PlacementKnown
  <2> QED
    BY <1>1, <2>1
<1>7. \A q \in Pod :
        binding'[q].step \in {"local", "write", "simon"} => cache'[q] = binding'[q].node
  BY DEF PlacementKnown
<1>8. ASSUME NEW q \in Pod
      PROVE  /\ NodeName[q] = Unbound /\ store'[q].node \in Node => cache'[q] = store'[q].node
             /\ cache'[q] # Unbound => store'[q].node = cache'[q] \/ binding'[q].step \in Following
  <2>1. CASE q # p
    BY <1>1, <2>1 DEF CacheExact, Following
  <2>2. CASE q = p
    BY <1>1, <1>3, <2>2 DEF CacheExact, Following
  <2> QED
    BY <2>1, <2>2
<1>9. CacheExact'
  BY <1>8 DEF CacheExact, Following
<1>10. PlacementKnown'
  BY <1>4, <1>5, <1>6, <1>7 DEF PlacementKnown
<1> QED
  BY <1>9, <1>10

LEMMA KnownPatch ==
  ASSUME TypeOK, TypeOK', PlacementKnown, CacheExact, NEW p \in Pod, NEW r \in Reason,
         PatchCondition(p, r), store[p].node = Unbound, UNCHANGED <<lister, assignedQ, cache>>,
         \/ UNCHANGED binding
         \/ binding[p].step = "patch" /\ binding' = [binding EXCEPT ![p] = NoBind]
  PROVE  PlacementKnown' /\ CacheExact'
<1>0. Unbound \notin Node
  BY SimulatorAssumptions DEF SimulatorAssumptions
<1>1. /\ \A q \in Pod : q # p => binding'[q] = binding[q]
      /\ binding'[p] = binding[p] \/ (binding'[p].step = "none" /\ binding[p].step = "patch")
  BY DEF NoBind, TypeOK, BindingType
<1>2. CASE UNCHANGED podVars
  BY <1>1, <1>2 DEF podVars, PlacementKnown, CacheExact
<1>3. CASE Publish(p, [store[p] EXCEPT !.reason = r])
  <2>1. PICK o \in Object : o = [store[p] EXCEPT !.reason = r] /\ o.node = Unbound
    <3>1. store[p] \in Object
      BY DEF TypeOK, StoreType
    <3>2. /\ [store[p] EXCEPT !.reason = r] \in Object
          /\ [store[p] EXCEPT !.reason = r].node = Unbound
      BY <3>1 DEF Object
    <3> QED
      BY <3>2
  <2> QED
    BY <1>0, <1>1, <1>3, <2>1, KnownWrite DEF Following
<1> QED
  BY <1>2, <1>3 DEF PatchCondition

LEMMA KnownCaller ==
  ASSUME TypeOK, TypeOK', Baton, PlacementKnown, CacheExact, MainStep
  PROVE  PlacementKnown' /\ CacheExact'
<1>0. Unbound \notin Node /\ Absent \notin Node
  BY SimulatorAssumptions DEF SimulatorAssumptions
<1>1. CASE \/ RefuseCluster \/ RunScheduler \/ CreateNode \/ NodesCreated \/ RefuseApp
           \/ CreatePodFails \/ Receive \/ GetClusterNodeStatus \/ CancelScheduler
           \/ CloseChannel \/ (Collect /\ UNCHANGED podVars)
  BY <1>1, KnownFrame
     DEF RefuseCluster, RunScheduler, CreateNode, NodesCreated, RefuseApp, CreatePodFails,
         Receive, GetClusterNodeStatus, CancelScheduler, CloseChannel, Collect, infVars,
         cacheVars, podVars
<1>2. ASSUME CreatePod \/ CreateTestPod \/ Collect
      PROVE  UNCHANGED <<lister, assignedQ, cache, binding>>
  BY <1>2 DEF CreatePod, CreateTestPod, Collect, infVars, cacheVars
<1>3. CASE CreatePod
  <2>1. PICK p \in Pod : p = Cur
    BY <1>3, CurIsPod DEF CreatePod, TypeOK
  <2>2. PICK o \in Object : o = [node |-> NodeName[p], reason |-> "none"]
    BY SimulatorAssumptions DEF SimulatorAssumptions, Object, Where, Reason
  <2>3. Publish(p, o) /\ store[p].node = Absent /\ o.node = NodeName[p]
    BY <1>3, <2>1, <2>2 DEF CreatePod
  <2>4. NodeName[p] # Unbound => \A i \in DOMAIN podWatch : podWatch[i].pod # p
    BY <2>3 DEF Baton, WatchShape, IsDeletion
  <2> QED
    BY <1>0, <1>2, <1>3, <2>3, <2>4, KnownWrite
<1>4. CASE CreateTestPod
  <2>1. PICK o \in Object : o = [node |-> Unbound, reason |-> "none"]
    BY DEF Object, Where, Reason
  <2>2. /\ TestPod \in Pod /\ Publish(TestPod, o) /\ store[TestPod].node = Absent
        /\ o.node = Unbound
    BY <1>4, <2>1, SimulatorAssumptions
       DEF CreateTestPod, SimulatorAssumptions, Baton, CallerState
  <2> QED
    BY <1>0, <1>2, <1>4, <2>2, KnownWrite
<1>5. CASE Collect /\ stopReason # NoPod /\ ReportFailed
  <2>1. PICK p \in Pod : p = Cur
    BY <1>5, CurIsPod DEF Collect, TypeOK, CallerType
  <2>2. Publish(p, NoObject) /\ NoObject \in Object /\ NoObject.node = Absent
    BY <1>5, <2>1 DEF ReportFailed, NoObject, Object, Where, Reason
  <2>3. store[p].node = Unbound
    BY <1>5, <2>1 DEF Collect, Baton, ReasonOfOwed
  <2> QED
    BY <1>0, <1>2, <1>5, <2>2, <2>3, KnownWrite
<1> QED
  BY <1>1, <1>3, <1>4, <1>5 DEF MainStep, Collect

LEMMA KnownInformer ==
  ASSUME TypeOK, TypeOK', Baton, PlacementKnown, CacheExact, InformerStep
  PROVE  PlacementKnown' /\ CacheExact'
<1>0. Unbound \notin Node /\ Absent \notin Node
  BY SimulatorAssumptions DEF SimulatorAssumptions
<1>1. CASE StartWatch \/ HandlePending \/ HandleNode \/ Update \/ SendOnClosedChannel
  BY <1>1, KnownFrame
     DEF StartWatch, HandlePending, HandleNode, Update, SendOnClosedChannel, infVars, cacheVars,
         podVars
<1>2. CASE PodInformer
  <2>1. PICK e : e = podWatch[1]
    OBVIOUS
  <2>2. /\ UNCHANGED <<store, cache, binding>>
        /\ 1 \in DOMAIN podWatch
        /\ \A i \in DOMAIN podWatch' : i + 1 \in DOMAIN podWatch /\ podWatch'[i] = podWatch[i + 1]
    BY <1>2, WatchTail DEF PodInformer, cacheVars, TypeOK
  <2>3. /\ e.pod \in Pod /\ e.obj.node \in Where /\ lister'[e.pod] = e.obj
        /\ \A q \in Pod : q # e.pod => lister'[q] = lister[q]
    BY <1>2, <2>1, EventHandlers DEF Object
  <2>4. e.obj.node \in Node \/ store[e.pod].node \in Node => e.obj.node = store[e.pod].node
    BY <2>1, <2>2 DEF PlacementKnown
  <2>5. \A p \in Pod : lister'[p].node \in Node => store'[p].node = lister'[p].node
    BY <2>2, <2>3, <2>4 DEF PlacementKnown
  <2>6. \A i \in DOMAIN podWatch' :
          podWatch'[i].obj.node \in Node \/ store'[podWatch'[i].pod].node \in Node
            => podWatch'[i].obj.node = store'[podWatch'[i].pod].node
    BY <2>2 DEF PlacementKnown
  <2>7. \A i \in DOMAIN assignedQ' :
          assignedQ'[i].node \in Node /\ store'[assignedQ'[i].pod].node = assignedQ'[i].node
    <3>1. CASE assignedQ' = assignedQ
      BY <2>2, <3>1 DEF PlacementKnown
    <3>2. CASE /\ ~(lister[e.pod].node \in Node <=> e.obj.node \in Node)
               /\ assignedQ' = Append(assignedQ, [pod |-> e.pod, node |-> e.obj.node])
      <4>1. e.obj.node \in Node
        BY <2>3, <2>4, <3>2 DEF PlacementKnown
      <4>2. \A i \in DOMAIN assignedQ' :
              \/ i \in DOMAIN assignedQ /\ assignedQ'[i] = assignedQ[i]
              \/ assignedQ'[i].pod = e.pod /\ assignedQ'[i].node = e.obj.node
        BY <2>3, <3>2, AssignedEntries
      <4> QED
        BY <2>2, <2>4, <4>1, <4>2 DEF PlacementKnown
    <3> QED
      BY <1>2, <2>1, <3>1, <3>2, AssignedAppend
  <2>8. PlacementKnown'
    BY <2>2, <2>5, <2>6, <2>7 DEF PlacementKnown
  <2> QED
    BY <2>2, <2>8 DEF CacheExact
<1>3. CASE HandleAssigned
  <2>1. PICK h : h = assignedQ[1]
    OBVIOUS
  <2>2. /\ UNCHANGED <<store, podWatch, lister, binding>> /\ assignedQ # <<>>
        /\ assignedQ' = Tail(assignedQ) /\ assignedQ \in Seq([pod: Pod, node: Where])
    BY <1>3 DEF HandleAssigned, podVars, TypeOK, InformerType
  <2>3. /\ 1 \in DOMAIN assignedQ /\ h = Head(assignedQ)
        /\ \A i \in DOMAIN assignedQ' :
             i + 1 \in DOMAIN assignedQ /\ assignedQ'[i] = assignedQ[i + 1]
    BY <2>1, <2>2, TailShift
  <2>4. h.node \in Node /\ store[h.pod].node = h.node /\ h.pod \in Pod
    <3>1. h \in [pod: Pod, node: Where]
      BY <2>2, <2>3, HeadTailProperties
    <3> QED
      BY <2>1, <2>3, <3>1 DEF PlacementKnown
  <2>5. cache' = [cache EXCEPT ![h.pod] = h.node]
    BY <1>3, <2>3, <2>4 DEF HandleAssigned
  <2>6. cache'[h.pod] = h.node /\ \A q \in Pod : q # h.pod => cache'[q] = cache[q]
    BY <2>4, <2>5 DEF TypeOK, CacheType
  <2>7. binding[h.pod].step = "none"
    BY <1>0, <2>4, Binding DEF Fresh
  <2>8. PlacementKnown'
    <3>1. \A i \in DOMAIN assignedQ' :
            assignedQ'[i].node \in Node /\ store'[assignedQ'[i].pod].node = assignedQ'[i].node
      BY <2>2, <2>3 DEF PlacementKnown
    <3>2. \A q \in Pod :
            binding'[q].step \in {"local", "write", "simon"} => cache'[q] = binding'[q].node
      BY <2>2, <2>6, <2>7 DEF PlacementKnown
    <3> QED
      BY <2>2, <3>1, <3>2 DEF PlacementKnown
  <2>9. CacheExact'
    BY <2>2, <2>4, <2>6 DEF CacheExact
  <2> QED
    BY <2>8, <2>9
<1> QED
  BY <1>1, <1>2, <1>3 DEF InformerStep

LEMMA KnownScheduler ==
  ASSUME TypeOK, TypeOK', Baton, PlacementKnown, CacheExact, SchedulerStep
  PROVE  PlacementKnown' /\ CacheExact'
<1>0. Unbound \notin Node
  BY SimulatorAssumptions DEF SimulatorAssumptions
<1>1. CASE EnterScheduleOne \/ StopScheduler \/ ScheduleFails \/ RequeueUnschedulable
  BY <1>1, KnownFrame DEF EnterScheduleOne, StopScheduler, ScheduleFails,
     RequeueUnschedulable, infVars, cacheVars, podVars
<1>2. ASSUME NEW p \in Pod, NextPod(p) PROVE PlacementKnown' /\ CacheExact'
  BY <1>2, KnownFrame DEF NextPod, infVars, cacheVars, podVars
<1>3. scur # NoPod => store[scur].node = Unbound
  BY DEF Baton, FreshInScheduler, Fresh, TypeOK, LoopType
<1>4. CASE RecordUnschedulable
  <2>1. PICK p \in Pod : p = scur
    BY <1>4 DEF RecordUnschedulable, TypeOK, LoopType
  <2>2. /\ PatchCondition(p, "Unschedulable") /\ "Unschedulable" \in Reason
        /\ UNCHANGED <<lister, assignedQ, cache, binding>> /\ store[p].node = Unbound
    BY <1>3, <1>4, <2>1, SimulatorAssumptions
       DEF RecordUnschedulable, infVars, cacheVars, Reason, SimulatorAssumptions
  <2> QED
    BY <2>2, KnownPatch
<1>5. ASSUME NEW n \in Node, Assume(n) PROVE PlacementKnown' /\ CacheExact'
  <2> DEFINE b == [step |-> IF Disk[scur] > 0 THEN "local" ELSE "simon",
                   node |-> n, read |-> 0]
  <2>1. PICK p \in Pod : p = scur /\ p # NoPod
    BY <1>5, SimulatorAssumptions DEF Assume, TypeOK, LoopType, SimulatorAssumptions
  <2>2. /\ UNCHANGED <<store, podWatch, lister, assignedQ>>
        /\ cache' = [cache EXCEPT ![p] = n] /\ binding' = [binding EXCEPT ![p] = b]
    BY <1>5, <2>1 DEF Assume, AssumePod, infVars, podVars
  <2>3. b.node = n /\ b.step \in Following
    BY DEF Following
  <2> HIDE DEF b
  <2>4. /\ cache'[p] = n /\ binding'[p].node = n /\ binding'[p].step \in Following
        /\ \A q \in Pod : q # p => cache'[q] = cache[q] /\ binding'[q] = binding[q]
    BY <2>2, <2>3 DEF TypeOK, CacheType, BindingType
  <2>5. PlacementKnown'
    <3>1. \A q \in Pod :
            binding'[q].step \in {"local", "write", "simon"} => cache'[q] = binding'[q].node
      BY <2>4 DEF PlacementKnown
    <3> QED
      BY <2>2, <3>1 DEF PlacementKnown
  <2>6. CacheExact'
    BY <1>0, <1>3, <2>1, <2>2, <2>4 DEF CacheExact, Following
  <2> QED
    BY <2>5, <2>6
<1> QED
  BY <1>1, <1>2, <1>4, <1>5 DEF SchedulerStep

LEMMA KnownBind ==
  ASSUME TypeOK, TypeOK', Baton, PlacementKnown, CacheExact, NEW p \in Pod, Bind(p)
  PROVE  PlacementKnown' /\ CacheExact'
<1>0. Unbound \notin Node /\ Absent # Unbound
  BY SimulatorAssumptions DEF SimulatorAssumptions
<1>1. /\ store[p] = Fresh /\ store[p].node = Unbound /\ podWatch = <<>>
      /\ binding[p].node \in Node
  BY Binding DEF Bind, LocalBindGet, LocalBindUpdate, BindPodToNode, ForgetPod,
     RequeueRejected, RecordBindError, Fresh, TypeOK, BindingType
<1>2. ASSUME NEW step, binding' = [binding EXCEPT ![p].step = step]
      PROVE  /\ binding'[p].step = step /\ binding'[p].node = binding[p].node
             /\ \A q \in Pod : q # p => binding'[q] = binding[q]
  BY <1>2 DEF TypeOK, BindingType
<1>3. ASSUME UNCHANGED <<store, podWatch, lister, assignedQ, cache>>,
             binding[p].step \in {"local", "write", "simon"}, binding'[p].step \in Following,
             binding'[p].node = binding[p].node,
             \A q \in Pod : q # p => binding'[q] = binding[q]
      PROVE  PlacementKnown' /\ CacheExact'
  <2>1. PlacementKnown'
    BY <1>3 DEF PlacementKnown
  <2>2. CacheExact'
    BY <1>3 DEF CacheExact, Following
  <2> QED
    BY <2>1, <2>2
<1>4. CASE LocalBindGet(p)
  <2>1. /\ UNCHANGED <<store, podWatch, lister, assignedQ, cache>>
        /\ binding[p].step = "local"
    BY <1>4 DEF LocalBindGet, infVars, cacheVars, podVars
  <2>2. CASE Goto(p, "forget")
    BY <1>2, <1>3, <2>1, <2>2 DEF Goto, Following
  <2>3. CASE binding' = [binding EXCEPT ![p].step = "write",
                                        ![p].read = nodeDisk[binding[p].node]]
    <3>1. binding' = [[binding EXCEPT ![p].step = "write"]
                        EXCEPT ![p].read = nodeDisk[binding[p].node]]
      BY <2>3
    <3>2. /\ binding'[p].step = "write" /\ binding'[p].node = binding[p].node
          /\ \A q \in Pod : q # p => binding'[q] = binding[q]
      BY <3>1 DEF TypeOK, BindingType
    <3> QED
      BY <1>3, <2>1, <3>2 DEF Following
  <2> QED
    BY <1>4, <2>2, <2>3 DEF LocalBindGet
<1>5. CASE LocalBindUpdate(p)
  <2>1. /\ UNCHANGED <<store, podWatch, lister, assignedQ, cache>>
        /\ binding[p].step = "write" /\ Goto(p, "simon")
    BY <1>5 DEF LocalBindUpdate, infVars, cacheVars, podVars
  <2> QED
    BY <1>2, <1>3, <2>1 DEF Goto, Following
<1>6. CASE BindPodToNode(p)
  <2>1. /\ UNCHANGED <<lister, assignedQ, cache>> /\ binding[p].step = "simon"
        /\ Publish(p, [store[p] EXCEPT !.node = binding[p].node])
        /\ binding' = [binding EXCEPT ![p] = NoBind]
    BY <1>0, <1>1, <1>6 DEF BindPodToNode, infVars, cacheVars
  <2>2. PICK o \in Object : o = [store[p] EXCEPT !.node = binding[p].node]
    BY <1>1 DEF TypeOK, StoreType, Object, Where
  <2>3. o.node = binding[p].node /\ cache[p] = o.node /\ Publish(p, o)
    BY <1>1, <2>1, <2>2 DEF TypeOK, StoreType, Object, PlacementKnown
  <2>4. binding'[p].step = "none" /\ \A q \in Pod : q # p => binding'[q] = binding[q]
    BY <2>1 DEF TypeOK, BindingType, NoBind
  <2>5. \A i \in DOMAIN podWatch : FALSE
    BY <1>1, WatchEmpty DEF TypeOK
  <2> QED
    BY <1>0, <1>1, <2>1, <2>3, <2>4, <2>5, KnownWrite
<1>7. CASE ForgetPod(p)
  <2>1. /\ UNCHANGED <<store, podWatch, lister, assignedQ>> /\ Goto(p, "requeue")
        /\ cache' = [cache EXCEPT ![p] = Unbound]
    BY <1>7 DEF ForgetPod, infVars, podVars
  <2>2. /\ cache'[p] = Unbound /\ binding'[p].step = "requeue"
        /\ \A q \in Pod : q # p => cache'[q] = cache[q] /\ binding'[q] = binding[q]
    BY <1>2, <2>1 DEF Goto, TypeOK, CacheType
  <2>3. PlacementKnown'
    BY <2>1, <2>2 DEF PlacementKnown
  <2>4. CacheExact'
    BY <1>0, <1>1, <2>1, <2>2 DEF CacheExact
  <2> QED
    BY <2>3, <2>4
<1>8. CASE RequeueRejected(p)
  <2>1. /\ UNCHANGED <<store, podWatch, lister, assignedQ, cache>> /\ Goto(p, "patch")
        /\ binding[p].step = "requeue"
    BY <1>8 DEF RequeueRejected, infVars, cacheVars, podVars
  <2>2. binding'[p].step = "patch" /\ \A q \in Pod : q # p => binding'[q] = binding[q]
    BY <1>2, <2>1 DEF Goto
  <2>3. PlacementKnown'
    BY <2>1, <2>2 DEF PlacementKnown
  <2>4. CacheExact'
    BY <2>1, <2>2 DEF CacheExact
  <2> QED
    BY <2>3, <2>4
<1>9. CASE RecordBindError(p)
  <2>1. /\ UNCHANGED <<lister, assignedQ, cache>> /\ binding[p].step = "patch"
        /\ PatchCondition(p, "SchedulerError") /\ "SchedulerError" \in Reason
        /\ binding' = [binding EXCEPT ![p] = NoBind]
    BY <1>9 DEF RecordBindError, infVars, cacheVars, Reason
  <2> QED
    BY <1>1, <2>1, KnownPatch
<1> QED
  BY <1>4, <1>5, <1>6, <1>7, <1>8, <1>9 DEF Bind

LEMMA KnownStep ==
  ASSUME MaxRetries = 0, TypeOK, TypeOK', Baton, PlacementKnown, CacheExact, [Next]_vars
  PROVE  PlacementKnown' /\ CacheExact'
<1>1. ~ \E p \in Pod : Retry(p)
  BY DEF Retry, TypeOK, QueueType
<1>2. CASE UNCHANGED vars
  BY <1>2, KnownFrame DEF vars, infVars, cacheVars, podVars
<1> QED
  BY <1>1, <1>2, KnownCaller, KnownInformer, KnownScheduler, KnownBind DEF Next

LEMMA KnownInit ==
  ASSUME Init
  PROVE  PlacementKnown /\ CacheExact
<1>1. Absent \notin Node
  BY SimulatorAssumptions DEF SimulatorAssumptions
<1>2. \A p \in Pod : /\ lister[p].node = Absent /\ store[p].node = Absent
                     /\ cache[p] = Unbound /\ binding[p].step = "none"
  BY DEF Init, NoObject, NoBind
<1>3. podWatch = <<>> /\ assignedQ = <<>>
  BY DEF Init
<1> QED
  BY <1>1, <1>2, <1>3 DEF PlacementKnown, CacheExact

LEMMA KnownHeld == MaxRetries = 0 => (Spec => [](PlacementKnown /\ CacheExact))
<1> SUFFICES ASSUME MaxRetries = 0 PROVE Spec => [](PlacementKnown /\ CacheExact)
  OBVIOUS
<1>1. Init => PlacementKnown /\ CacheExact
  BY KnownInit
<1>2. TypeOK /\ TypeOK' /\ Baton /\ (PlacementKnown /\ CacheExact) /\ [Next]_vars
        => (PlacementKnown /\ CacheExact)'
  BY KnownStep
<1> QED
  BY <1>1, <1>2, TypeCorrect, BatonHeld, PTL DEF Spec

(* The scheduler's cache never misses a pod that is bound, and counts      *)
(* beyond those only the one whose binding is under way (scheduler.go,     *)
(* assume and bind).                                                       *)
THEOREM CacheFollows == MaxRetries = 0 => (Spec => []CacheExact)
  BY KnownHeld, PTL

-----------------------------------------------------------------------------
(* Every pod of the workload is decided, without storage and retries.      *)

LEMMA PlacedKept ==
  ASSUME MaxRetries = 0, TypeOK, Baton, [Next]_vars, NEW p \in Pod, store[p].node \in Node
  PROVE  store'[p] = store[p]
<1>1. store[p].node \notin {Absent, Unbound}
  BY SimulatorAssumptions DEF SimulatorAssumptions
<1> QED
  BY <1>1, OneWriter DEF OneWrite

LEMMA NoBindErrorStep ==
  ASSUME MaxRetries = 0, NoStorage, TypeOK, Baton, NoBindError, [Next]_vars
  PROVE  NoBindError'
<1>1. ASSUME NEW p \in Pod, NEW o \in Object, Publish(p, o), o.reason # "SchedulerError",
             \A q \in Pod : binding'[q] = binding[q] \/ binding'[q].step \in {"none", "simon"}
      PROVE  NoBindError'
  <2>1. store'[p] = o /\ \A q \in Pod : q # p => store'[q] = store[q]
    BY <1>1, PublishWrites DEF Written, TypeOK
  <2> QED
    BY <1>1, <2>1 DEF NoBindError
<1>2. ASSUME UNCHANGED store,
             \A q \in Pod : binding'[q] = binding[q] \/ binding'[q].step \in {"none", "simon"}
      PROVE  NoBindError'
  BY <1>2 DEF NoBindError
<1>3. CASE \/ RefuseCluster \/ RunScheduler \/ CreateNode \/ NodesCreated \/ RefuseApp
           \/ CreatePodFails \/ Receive \/ GetClusterNodeStatus \/ CancelScheduler
           \/ CloseChannel \/ (Collect /\ UNCHANGED podVars)
  BY <1>2, <1>3
     DEF RefuseCluster, RunScheduler, CreateNode, NodesCreated, RefuseApp, CreatePodFails,
         Receive, GetClusterNodeStatus, CancelScheduler, CloseChannel, Collect, podVars
<1>4. CASE CreatePod
  <2>1. PICK p \in Pod : p = Cur
    BY <1>4, CurIsPod DEF CreatePod, TypeOK
  <2>2. PICK o \in Object : o = [node |-> NodeName[p], reason |-> "none"]
    BY SimulatorAssumptions DEF SimulatorAssumptions, Object, Where, Reason
  <2>3. Publish(p, o) /\ o.reason = "none" /\ UNCHANGED binding
    BY <1>4, <2>1, <2>2 DEF CreatePod
  <2> QED
    BY <1>1, <2>3
<1>5. CASE CreateTestPod
  <2>1. PICK o \in Object : o = [node |-> Unbound, reason |-> "none"]
    BY DEF Object, Where, Reason
  <2>2. TestPod \in Pod /\ Publish(TestPod, o) /\ o.reason = "none" /\ UNCHANGED binding
    BY <1>5, <2>1, SimulatorAssumptions DEF CreateTestPod, SimulatorAssumptions
  <2> QED
    BY <1>1, <2>2
<1>6. CASE Collect /\ ReportFailed
  <2>1. PICK p \in Pod : p = Cur
    BY <1>6, CurIsPod DEF Collect, TypeOK, CallerType
  <2>2. /\ Publish(p, NoObject) /\ NoObject \in Object /\ NoObject.reason = "none"
        /\ UNCHANGED binding
    BY <1>6, <2>1 DEF Collect, ReportFailed, NoObject, Object, Where, Reason
  <2> QED
    BY <1>1, <2>2
<1>7. CASE InformerStep
  BY <1>2, <1>7 DEF InformerStep, StartWatch, PodInformer, HandlePending, HandleAssigned,
     HandleNode, Update, SendOnClosedChannel, podVars
<1>8. CASE EnterScheduleOne \/ StopScheduler \/ ScheduleFails \/ RequeueUnschedulable
  BY <1>2, <1>8 DEF EnterScheduleOne, StopScheduler, ScheduleFails, RequeueUnschedulable,
     podVars
<1>9. ASSUME NEW p \in Pod, NextPod(p) \/ Retry(p) PROVE NoBindError'
  BY <1>2, <1>9 DEF NextPod, Retry, podVars
<1>10. CASE RecordUnschedulable
  <2>1. PICK p \in Pod : p = scur
    BY <1>10 DEF RecordUnschedulable, TypeOK, LoopType
  <2>2. PatchCondition(p, "Unschedulable") /\ UNCHANGED binding
    BY <1>10, <2>1 DEF RecordUnschedulable
  <2>3. CASE UNCHANGED podVars
    BY <1>2, <2>2, <2>3 DEF podVars
  <2>4. CASE Publish(p, [store[p] EXCEPT !.reason = "Unschedulable"])
    <3>1. PICK o \in Object : o = [store[p] EXCEPT !.reason = "Unschedulable"]
      BY DEF TypeOK, StoreType, Object, Reason
    <3>2. o.reason = "Unschedulable"
      BY <3>1 DEF TypeOK, StoreType, Object
    <3> QED
      BY <1>1, <2>2, <2>4, <3>1, <3>2
  <2> QED
    BY <2>2, <2>3, <2>4 DEF PatchCondition
<1>11. ASSUME NEW n \in Node, Assume(n) PROVE NoBindError'
  <2>1. PICK p \in Pod : p = scur
    BY <1>11 DEF Assume, TypeOK, LoopType
  <2>2. Disk[p] > 0 <=> FALSE
    BY DEF NoStorage
  <2>3. binding' = [binding EXCEPT ![p] = [step |-> "simon", node |-> n, read |-> 0]]
    BY <1>11, <2>1, <2>2 DEF Assume
  <2>4. \A q \in Pod : binding'[q] = binding[q] \/ binding'[q].step \in {"none", "simon"}
    BY <2>3 DEF TypeOK, BindingType
  <2> QED
    BY <1>2, <1>11, <2>4 DEF Assume, podVars
<1>12. ASSUME NEW p \in Pod, Bind(p) PROVE NoBindError'
  <2>1. BindPodToNode(p)
    BY <1>12 DEF Bind, LocalBindGet, LocalBindUpdate, ForgetPod, RequeueRejected,
       RecordBindError, NoBindError
  <2>2. store[p] = Fresh /\ binding[p].node \in Node /\ Absent # Unbound
    BY <2>1, Binding, SimulatorAssumptions
       DEF BindPodToNode, TypeOK, BindingType, SimulatorAssumptions
  <2>3. /\ Publish(p, [store[p] EXCEPT !.node = binding[p].node])
        /\ binding' = [binding EXCEPT ![p] = NoBind]
    BY <2>1, <2>2 DEF BindPodToNode, Fresh
  <2>4. PICK o \in Object : o = [store[p] EXCEPT !.node = binding[p].node]
    BY <2>2 DEF TypeOK, StoreType, Object, Where
  <2>5. o.reason = "none" /\ Publish(p, o)
    BY <2>2, <2>3, <2>4 DEF Fresh
  <2>6. \A q \in Pod : binding'[q] = binding[q] \/ binding'[q].step \in {"none", "simon"}
    BY <2>3 DEF TypeOK, BindingType, NoBind
  <2> QED
    BY <1>1, <2>5, <2>6
<1>13. CASE UNCHANGED vars
  BY <1>2, <1>13 DEF vars, podVars
<1> QED
  BY <1>3, <1>4, <1>5, <1>6, <1>7, <1>8, <1>9, <1>10, <1>11, <1>12, <1>13
     DEF Next, MainStep, SchedulerStep, Collect

(* What Simulator.update gets to see is a placement or a failure.          *)
LEMMA TellingEvent ==
  ASSUME TypeOK, Baton, NoBindError, PodInformer, NEW e, e = podWatch[1],
         lister[e.pod].node # Absent, e.obj.node # Absent, e.pod \in Ours
  PROVE  e.obj.node \in Node \/ e.obj.reason = "Unschedulable"
<1>1. 1 \in DOMAIN podWatch /\ e.pod \in Pod /\ e.obj \in Object
  BY WatchTail, EventHandlers DEF PodInformer, TypeOK
<1>2. /\ IsToken(e) => e.obj = store[e.pod]
      /\ IsToken(e) /\ e.obj = Fresh => lister[e.pod].node = Absent
      /\ ~IsDeletion(e) /\ NodeName[e.pod] # Unbound => lister[e.pod].node = Absent
  BY <1>1 DEF Baton, WatchShape
<1>3. e.obj = store[e.pod] /\ e.obj # Fresh
  BY <1>2 DEF IsToken, IsDeletion
<1>4. e.obj.reason \in {"none", "Unschedulable"}
  BY <1>1, <1>3 DEF NoBindError, Object, Reason
<1>5. e.obj.node = Unbound => e.obj.reason # "none"
  BY <1>1, <1>3 DEF Object, Fresh
<1> QED
  BY <1>1, <1>4, <1>5 DEF Object, Where

LEMMA TellingStep ==
  ASSUME TypeOK, Baton, NoBindError, TellingUpdates, [Next]_vars
  PROVE  TellingUpdates'
<1>1. CASE UNCHANGED simQ
  BY <1>1 DEF TellingUpdates
<1>2. CASE PodInformer
  <2>1. PICK e : e = podWatch[1]
    OBVIOUS
  <2>2. CASE /\ e.pod \in Ours /\ lister[e.pod].node # Absent /\ e.obj.node # Absent
             /\ simQ' = Append(simQ, e)
    <3>1. e.obj.node \in Node \/ e.obj.reason = "Unschedulable"
      BY <1>2, <2>1, <2>2, TellingEvent
    <3>2. simQ = <<>>
      BY <1>2 DEF PodInformer, Baton, Exclusive
    <3>3. e \in PodEvent
      BY <1>2, <2>1, WatchTail, HeadTailProperties DEF PodInformer, TypeOK, StoreType
    <3>4. \A i \in DOMAIN simQ' : simQ'[i] = e
      BY <2>2, <3>2, <3>3, SimAppend DEF TypeOK
    <3> QED
      BY <3>1, <3>4 DEF TellingUpdates
  <2> QED
    BY <1>1, <1>2, <2>1, <2>2, EventHandlers
<1>3. CASE Update
  <2>1. simQ \in Seq(PodEvent) /\ simQ # <<>> /\ simQ' = Tail(simQ)
    BY <1>3 DEF Update, TypeOK, InformerType
  <2>2. \A i \in DOMAIN simQ' : i + 1 \in DOMAIN simQ /\ simQ'[i] = simQ[i + 1]
    BY <2>1, TailShift
  <2> QED
    BY <2>2 DEF TellingUpdates
<1>4. CASE InformerStep /\ ~PodInformer /\ ~Update
  BY <1>1, <1>4 DEF InformerStep, StartWatch, HandlePending, HandleAssigned,
     HandleNode, SendOnClosedChannel, infVars
<1>5. CASE MainStep
  BY <1>1, <1>5 DEF MainStep, RefuseCluster, RunScheduler, CreateNode, NodesCreated,
     RefuseApp, CreatePod, CreatePodFails, Receive, Collect, GetClusterNodeStatus,
     CancelScheduler, CreateTestPod, CloseChannel, infVars
<1>6. CASE SchedulerStep
  BY <1>1, <1>6 DEF SchedulerStep, EnterScheduleOne, StopScheduler, ScheduleFails,
     RequeueUnschedulable, RecordUnschedulable, NextPod, Assume, infVars
<1>7. ASSUME NEW p \in Pod, Retry(p) \/ Bind(p) PROVE UNCHANGED simQ
  BY <1>7 DEF Retry, Bind, LocalBindGet, LocalBindUpdate, BindPodToNode, ForgetPod,
     RequeueRejected, RecordBindError, infVars
<1>8. CASE UNCHANGED vars
  BY <1>1, <1>8 DEF vars, infVars
<1> QED
  BY <1>1, <1>2, <1>3, <1>4, <1>5, <1>6, <1>7, <1>8 DEF Next

LEMMA CallerFrame ==
  ASSUME [Next]_vars
  PROVE  \/ MainStep
         \/ Update /\ UNCHANGED <<pc, pos, failedPods, outcome>>
         \/ UNCHANGED <<pc, pos, failedPods, outcome, stopReason, handler>>
<1>1. CASE InformerStep
  BY <1>1 DEF InformerStep, StartWatch, PodInformer, HandlePending, HandleAssigned,
     HandleNode, Update, SendOnClosedChannel, mainVars, chanVars
<1>2. CASE SchedulerStep
  BY <1>2 DEF SchedulerStep, EnterScheduleOne, StopScheduler, ScheduleFails,
     RequeueUnschedulable, RecordUnschedulable, NextPod, Assume, mainVars, chanVars
<1>3. ASSUME NEW p \in Pod, Retry(p) \/ Bind(p)
      PROVE  UNCHANGED <<pc, pos, failedPods, outcome, stopReason, handler>>
  BY <1>3 DEF Retry, Bind, LocalBindGet, LocalBindUpdate, BindPodToNode, ForgetPod,
     RequeueRejected, RecordBindError, mainVars, chanVars
<1>4. CASE UNCHANGED vars
  BY <1>4 DEF vars, mainVars, chanVars
<1> QED
  BY <1>1, <1>2, <1>3, <1>4 DEF Next

(* What the steps of the caller do to its position and to the outcome.     *)
LEMMA CallerMoves ==
  ASSUME MainStep
  PROVE  \/ CreatePod /\ UNCHANGED <<pos, outcome, failedPods>>
         \/ Receive /\ UNCHANGED <<pos, outcome, failedPods, stopReason, store>>
         \/ /\ Collect /\ pos' = pos + 1 /\ pc = "collect" /\ pc' = "create"
            /\ UNCHANGED outcome
         \/ /\ GetClusterNodeStatus /\ pc = "create" /\ pos > Len(Workload)
            /\ pc' = "close" /\ outcome' = "ok" /\ UNCHANGED <<pos, failedPods>>
         \/ /\ pc \in {"start", "nodes", "create"} /\ pc' = "close" /\ outcome' = "error"
            /\ UNCHANGED <<pos, failedPods>>
         \/ /\ pc \in {"start", "nodes"} /\ pc' \in {"nodes", "create"}
            /\ UNCHANGED <<pos, outcome, failedPods>>
         \/ /\ pc' \in {"createTest", "waitTest", "shut", "done"}
            /\ UNCHANGED <<pos, outcome, failedPods>>
<1>1. CASE RefuseCluster \/ RefuseApp \/ CreatePodFails
  BY <1>1 DEF RefuseCluster, RefuseApp, CreatePodFails
<1>2. CASE RunScheduler \/ CreateNode \/ NodesCreated
  BY <1>2 DEF RunScheduler, CreateNode, NodesCreated
<1>3. CASE CreatePod \/ Receive \/ Collect \/ GetClusterNodeStatus
  BY <1>3 DEF CreatePod, Receive, Collect, GetClusterNodeStatus, podVars
<1>4. CASE CancelScheduler \/ CreateTestPod \/ CloseChannel
  BY <1>4 DEF CancelScheduler, CreateTestPod, CloseChannel
<1> QED
  BY <1>1, <1>2, <1>3, <1>4 DEF MainStep

LEMMA AnsweredStep ==
  ASSUME MaxRetries = 0, TypeOK, TypeOK', Baton, TellingUpdates, AnsweredWait, [Next]_vars
  PROVE  AnsweredWait'
<1>0. \A p \in Pod : NodeName[p] # Unbound => NodeName[p] \in Node
  BY SimulatorAssumptions DEF SimulatorAssumptions
<1>1. pc \in {"wait", "collect"} => Cur \in Pod
  BY CurIsPod DEF TypeOK, CallerType
<1>2. CASE UNCHANGED <<pc, pos, stopReason>> /\ (handler' # NoPod => handler # NoPod)
  <2>1. Cur' = Cur
    BY <1>2 DEF Cur
  <2>2. pc \in {"wait", "collect"} /\ store[Cur].node \in Node => store'[Cur] = store[Cur]
    BY <1>1, PlacedKept
  <2>3. pc \in {"wait", "collect"} /\ Answered => Answered'
    BY <1>2, <2>1, <2>2 DEF Answered
  <2> QED
    BY <1>0, <1>1, <1>2, <2>1, <2>2, <2>3 DEF AnsweredWait
<1>3. CASE Update /\ UNCHANGED <<pc, pos>>
  <2>1. Cur' = Cur
    BY <1>3 DEF Cur
  <2>2. simQ # <<>> /\ handler = NoPod /\ UNCHANGED store
    BY <1>3 DEF Update, podVars
  <2>3. pc # "collect"
    BY <2>2, NotWaiting DEF Baton, Idle
  <2>4. ASSUME pc = "wait" PROVE Answered'
    <3>1. PICK h : h = simQ[1]
      OBVIOUS
    <3>2. 1 \in DOMAIN simQ /\ h = Head(simQ)
      BY <2>2, <3>1, TailShift DEF TypeOK, InformerType
    <3>3. h.pod = Cur /\ h.obj = store[Cur]
      BY <2>4, <3>1, <3>2, OwedPod DEF Baton, HolderOwed, UpdatesCurrent
    <3>4. h.obj.node \in Node \/ h.obj.reason = "Unschedulable"
      BY <3>1, <3>2 DEF TellingUpdates
    <3> QED
      BY <1>3, <2>1, <2>2, <3>2, <3>3, <3>4 DEF Update, IsUnschedulable, Answered
  <2> QED
    BY <1>3, <2>3, <2>4 DEF AnsweredWait
<1>4. CASE CreatePod
  <2>1. PICK p \in Pod : p = Cur /\ p = Cur'
    BY <1>4, CurIsPod DEF CreatePod, TypeOK, Cur
  <2>2. handler' = NoPod
    BY <1>4, NotWaiting DEF CreatePod, Baton, Idle, chanVars
  <2>3. /\ pc' = IF NodeName[p] = Unbound THEN "wait" ELSE "collect"
        /\ Publish(p, [node |-> NodeName[p], reason |-> "none"])
    BY <1>4, <2>1 DEF CreatePod, AfterCreate
  <2>4. store'[p].node = NodeName[p]
    BY <2>3 DEF Publish, TypeOK, StoreType
  <2> QED
    BY <2>1, <2>2, <2>3, <2>4 DEF AnsweredWait
<1>5. CASE Receive
  <2>1. /\ UNCHANGED <<pos, stopReason, store>> /\ handler # NoPod
        /\ (pc = "wait" /\ pc' = "collect") \/ pc' = "shut"
    BY <1>5 DEF Receive, podVars
  <2>2. (Answered' <=> Answered) /\ Cur' = Cur
    BY <2>1 DEF Answered, Cur
  <2> QED
    BY <2>1, <2>2 DEF AnsweredWait, Baton, CallerState
<1>6. CASE MainStep /\ pc' \notin {"wait", "collect"}
  BY <1>6 DEF AnsweredWait
<1> QED
  BY <1>2, <1>3, <1>4, <1>5, <1>6, CallerFrame, CallerMoves DEF GetClusterNodeStatus

LEMMA DecidedStep ==
  ASSUME MaxRetries = 0, TypeOK, TypeOK', Baton, AnsweredWait, AllDecided, [Next]_vars
  PROVE  AllDecided'
<1>0. /\ Len(Workload) \in Nat /\ DOMAIN Workload = 1 .. Len(Workload)
      /\ pos \in 1 .. Len(Workload) + 1 /\ pos' \in 1 .. Len(Workload) + 1
      /\ \A i \in DOMAIN Workload : Workload[i] \in Pod
  <2>1. \A i \in DOMAIN Workload : Workload[i] \in Pod
    BY WorkloadIndex, ElementOfSeq, SimulatorAssumptions DEF SimulatorAssumptions
  <2> QED
    BY <2>1, WorkloadIndex DEF TypeOK, CallerType
<1>1. Failed \subseteq Failed'
  BY FailedGrows
<1>2. ASSUME NEW i \in 1 .. pos - 1
      PROVE  Workload[i] \in Failed' \/ store'[Workload[i]].node \in Node
  <2>1. Workload[i] \in Pod
    BY <1>0
  <2> QED
    BY <1>1, <2>1, PlacedKept DEF AllDecided
<1>3. CASE pos' = pos
  BY <1>2, <1>3 DEF AllDecided
<1>4. CASE Collect /\ pos' = pos + 1 /\ pc = "collect"
  <2>1. PICK p \in Pod : p = Cur /\ p # NoPod
    BY <1>4, CurIsPod, SimulatorAssumptions DEF TypeOK, CallerType, SimulatorAssumptions
  <2>2. p \in Failed' \/ store'[p].node \in Node
    <3>1. CASE stopReason # NoPod
      BY <1>4, <2>1, <3>1, FailedListed
    <3>2. CASE stopReason = NoPod
      <4>1. store[p].node \in Node
        BY <1>4, <2>1, <3>2, SimulatorAssumptions DEF AnsweredWait, Answered, SimulatorAssumptions
      <4> QED
        BY <4>1, PlacedKept
    <3> QED
      BY <3>1, <3>2
  <2>3. \A i \in 1 .. pos' - 1 : i \in 1 .. pos - 1 \/ i = pos
    BY <1>0, <1>4
  <2> QED
    BY <1>2, <2>1, <2>2, <2>3 DEF AllDecided, Cur
<1> QED
  BY <1>3, <1>4, CallerFrame, CallerMoves

LEMMA ResultStep ==
  ASSUME TypeOK, ResultAtEnd, [Next]_vars
  PROVE  ResultAtEnd'
<1>0. Len(Workload) \in Nat /\ pos \in 1 .. Len(Workload) + 1
  BY WorkloadIndex DEF TypeOK, CallerType
<1>1. CASE UNCHANGED <<pc, pos, outcome>>
  BY <1>1 DEF ResultAtEnd
<1>2. CASE pos > Len(Workload) /\ pc' = "close" /\ outcome' = "ok" /\ UNCHANGED pos
  BY <1>0, <1>2 DEF ResultAtEnd
<1>3. CASE CreatePod /\ UNCHANGED <<pos, outcome>>
  BY <1>3 DEF CreatePod, ResultAtEnd
<1>4. CASE Receive /\ UNCHANGED <<pos, outcome>>
  BY <1>4 DEF Receive, ResultAtEnd
<1> QED
  BY <1>1, <1>2, <1>3, <1>4, CallerFrame, CallerMoves DEF ResultAtEnd

LEMMA JudgedInit ==
  ASSUME Init
  PROVE  Judged
<1>1. NoBindError
  BY DEF Init, NoBindError, NoObject, NoBind
<1>2. TellingUpdates /\ AnsweredWait /\ AllDecided /\ ResultAtEnd
  BY DEF Init, TellingUpdates, AnsweredWait, AllDecided, ResultAtEnd
<1> QED
  BY <1>1, <1>2 DEF Judged

LEMMA JudgedHeld == MaxRetries = 0 /\ NoStorage => (Spec => []Judged)
<1> SUFFICES ASSUME MaxRetries = 0, NoStorage PROVE Spec => []Judged
  OBVIOUS
<1>1. Init => Judged
  BY JudgedInit
<1>2. TypeOK /\ TypeOK' /\ Baton /\ Judged /\ [Next]_vars => Judged'
  BY NoBindErrorStep, TellingStep, AnsweredStep, DecidedStep, ResultStep DEF Judged
<1> QED
  BY <1>1, <1>2, TypeCorrect, BatonHeld, PTL DEF Spec

LEMMA FailedGoneHeld == DistinctNames => (Spec => []FailedGone)
<1> SUFFICES ASSUME DistinctNames PROVE Spec => []FailedGone
  OBVIOUS
<1>1. Init => FailedGone
  BY DEF Init, FailedGone, Failed
<1>2. TypeOK /\ FailedGone /\ [Next]_vars => FailedGone'
  BY FailedGoneStep
<1> QED
  BY <1>1, <1>2, TypeCorrect, PTL DEF Spec

(* A finished simulation lists every pod of its workload under a node or   *)
(* among the unscheduled, and never under both (core.go, simulator.go,     *)
(* schedulePods).                                                          *)
THEOREM EachPodOnce == MaxRetries = 0 /\ DistinctNames /\ NoStorage => (Spec => []Conserved)
<1> SUFFICES ASSUME MaxRetries = 0, DistinctNames, NoStorage PROVE Spec => []Conserved
  OBVIOUS
<1>1. ASSUME Judged, ReportIsFinal, FailedGone, outcome = "ok", NEW i \in DOMAIN Workload
      PROVE  (\E n \in Node : Workload[i] \in nodeStatus[n]) <=> Workload[i] \notin Failed
  <2>1. PICK p : p = Workload[i]
    OBVIOUS
  <2>2. /\ p \in Pod \ {TestPod} /\ i \in 1 .. Len(Workload) /\ Len(Workload) \in Nat
        /\ Absent \notin Node
    <3>1. p \in Pod \ {TestPod}
      BY <2>1, WorkloadIndex, ElementOfSeq, SimulatorAssumptions DEF SimulatorAssumptions
    <3> QED
      BY <3>1, WorkloadIndex, SimulatorAssumptions DEF SimulatorAssumptions
  <2>3. p \in Failed \/ store[p].node \in Node
    <3>1. pos = Len(Workload) + 1
      BY <1>1 DEF Judged, ResultAtEnd
    <3>2. i \in 1 .. pos - 1
      BY <2>2, <3>1
    <3> QED
      BY <1>1, <2>1, <3>2 DEF Judged, AllDecided
  <2>4. (\E n \in Node : p \in nodeStatus[n]) <=> store[p].node \in Node
    BY <1>1, <2>2 DEF ReportIsFinal
  <2>5. p \in Failed => store[p].node \notin Node
    BY <1>1, <2>2 DEF FailedGone
  <2> QED
    BY <2>1, <2>3, <2>4, <2>5
<1>2. Judged /\ ReportIsFinal /\ FailedGone => Conserved
  <2> SUFFICES ASSUME Judged, ReportIsFinal, FailedGone, outcome = "ok",
                      NEW p \in {Workload[i] : i \in DOMAIN Workload}
               PROVE  (\E n \in Node : p \in nodeStatus[n]) <=> p \notin Failed
    BY DEF Conserved
  <2> QED
    BY <1>1
<1> QED
  BY <1>2, JudgedHeld, FailedGoneHeld, ReportStaysTrue, PTL

-----------------------------------------------------------------------------
(* The sequential Simulation, without storage and retries.                 *)

(* Where the caller has seen a pod go, and whom it has listed.             *)
Home == [p \in Pod |-> IF p \in Decided \ Failed THEN store[p].node ELSE Unbound]
Rejected == [i \in DOMAIN failedPods |-> failedPods[i].pod]

LEMMA HomeUsed ==
  ASSUME NEW n
  PROVE  Sequential!Used(n) = SumOver(Cpu, {p \in Pod : Home[p] = n})
<1>1. ASSUME NEW S
      PROVE  Sequential!MapThenSumSet(LAMBDA p : Cpu[p], S) = MapThenSumSet(LAMBDA x : Cpu[x], S)
  BY DEF Sequential!MapThenSumSet, Sequential!MapThenFoldSet, MapThenSumSet, MapThenFoldSet
<1> QED
  BY <1>1 DEF Sequential!Used, SumOver, Home

LEMMA PosInWorkload ==
  ASSUME TypeOK
  PROVE  /\ Len(Workload) \in Nat /\ pos \in 1 .. Len(Workload) + 1
         /\ \A i \in 1 .. Len(Workload) : i \in DOMAIN Workload /\ Workload[i] \in Pod
<1>1. \A i \in DOMAIN Workload : Workload[i] \in Pod
  BY WorkloadIndex, ElementOfSeq, SimulatorAssumptions DEF SimulatorAssumptions
<1> QED
  BY <1>1, WorkloadIndex DEF TypeOK, CallerType

(* A placed pod stays at home.                                             *)
LEMMA HomeKept ==
  ASSUME MaxRetries = 0, TypeOK, Baton, AllDecided, [Next]_vars, NEW p \in Decided \ Failed
  PROVE  p \in Pod /\ store[p].node \in Node /\ store'[p] = store[p]
<1>1. PICK i \in 1 .. pos - 1 : p = Workload[i]
  BY DEF Decided
<1>2. p \in Pod
  BY <1>1, PosInWorkload
<1>3. store[p].node \in Node
  BY <1>1 DEF AllDecided
<1> QED
  BY <1>2, <1>3, PlacedKept

LEMMA HomeFrame ==
  ASSUME MaxRetries = 0, TypeOK, Baton, AllDecided, [Next]_vars, UNCHANGED <<pos, failedPods>>
  PROVE  Home' = Home /\ Rejected' = Rejected
<1>1. Decided' = Decided /\ Failed' = Failed
  BY DEF Decided, Failed
<1>2. \A p \in Decided \ Failed : store'[p] = store[p]
  BY HomeKept
<1> QED
  BY <1>1, <1>2 DEF Home, Rejected

(* The pod that is collected joins the decided ones.                       *)
LEMMA Collected ==
  ASSUME TypeOK, DistinctNames, Collect
  PROVE  /\ Cur \in Pod /\ Cur = Workload[pos] /\ pos <= Len(Workload) /\ pos' = pos + 1
         /\ Cur \notin Decided /\ Decided' = Decided \cup {Cur}
<1>1. /\ pos \in 1 .. Len(Workload) /\ pos' = pos + 1 /\ Cur = Workload[pos] /\ Cur \in Pod
      /\ Len(Workload) \in Nat
  BY CurIsPod, PosInWorkload DEF Collect, TypeOK, CallerType, Cur
<1>2. Cur \notin Decided
  BY <1>1, PosInWorkload DEF Decided, DistinctNames
<1>3. \A i : i \in 1 .. pos' - 1 <=> i \in 1 .. pos - 1 \/ i = pos
  BY <1>1
<1> QED
  BY <1>1, <1>2, <1>3 DEF Decided

LEMMA RejectedGrows ==
  ASSUME TypeOK, NEW e \in [pod: Pod, why: Pod], failedPods' = Append(failedPods, e)
  PROVE  Rejected' = Append(Rejected, e.pod)
<1>1. /\ failedPods \in Seq([pod: Pod, why: Pod]) /\ Len(failedPods) \in Nat
      /\ DOMAIN failedPods = 1 .. Len(failedPods)
      /\ \A i \in 1 .. Len(failedPods) : failedPods[i] \in [pod: Pod, why: Pod]
  BY LenDomain, ElementOfSeq DEF TypeOK, CallerType
<1>2. /\ Append(failedPods, e) \in Seq([pod: Pod, why: Pod])
      /\ Len(failedPods') = Len(failedPods) + 1 /\ failedPods'[Len(failedPods) + 1] = e
      /\ \A i \in 1 .. Len(failedPods) : failedPods'[i] = failedPods[i]
  BY <1>1, AppendElement
<1>3. DOMAIN failedPods' = 1 .. Len(failedPods) + 1
  BY <1>2, LenDomain
<1>4. Rejected \in Seq(Pod) /\ Len(Rejected) = Len(failedPods)
  BY <1>1 DEF Rejected
<1>5. Rejected' \in Seq(Pod) /\ Len(Rejected') = Len(failedPods) + 1
  BY <1>1, <1>2, <1>3 DEF Rejected
<1>6. /\ Append(Rejected, e.pod) \in Seq(Pod) /\ Len(Append(Rejected, e.pod)) = Len(failedPods) + 1
      /\ \A i \in 1 .. Len(failedPods) : Append(Rejected, e.pod)[i] = Rejected[i]
      /\ Append(Rejected, e.pod)[Len(failedPods) + 1] = e.pod
  BY <1>4, AppendElement
<1>7. \A i \in 1 .. Len(failedPods) + 1 : Rejected'[i] = Append(Rejected, e.pod)[i]
  BY <1>1, <1>2, <1>3, <1>6 DEF Rejected
<1> QED
  BY <1>5, <1>6, <1>7, SeqEqual

(* A pod that the caller lists is rejected in the sequential Simulation.   *)
LEMMA CollectRejects ==
  ASSUME MaxRetries = 0, DistinctNames, TypeOK, Baton, Judged, Collect, Next,
         NEW p \in Pod, p = Cur, stopReason # NoPod
  PROVE  Sequential!Reject(p)
<1>1. /\ p = Workload[pos] /\ pos <= Len(Workload) /\ pos' = pos + 1
      /\ p \notin Decided /\ Decided' = Decided \cup {p}
  BY Collected
<1>2. pc = "collect" /\ stopReason = p /\ NodeName[p] = Unbound
  BY DEF Collect, Baton, ReasonOfOwed
<1>3. outcome = "none" /\ outcome' = outcome
  BY <1>2 DEF Collect, Judged, ResultAtEnd
<1>4. failedPods' = Append(failedPods, [pod |-> p, why |-> p])
  BY <1>2 DEF Collect, ReportFailed
<1>5. Rejected' = Append(Rejected, p)
  BY <1>4, RejectedGrows
<1>6. Failed' = Failed \cup {p}
  BY FailedListed
<1>7. \A q \in Decided \ Failed : store'[q] = store[q]
  BY HomeKept DEF Judged
<1>8. Home' = Home
  BY <1>1, <1>6, <1>7 DEF Home
<1> QED
  BY <1>1, <1>2, <1>3, <1>5, <1>8
     DEF Sequential!Reject, Sequential!Deciding, Home, Rejected

(* Any other pod gets the node that it names, or one with room for it.     *)
LEMMA CollectPlaces ==
  ASSUME MaxRetries = 0, DistinctNames, TypeOK, Baton, Judged, FailedGone, NoOvercommit,
         Collect, Next, NEW p \in Pod, p = Cur, stopReason = NoPod
  PROVE  Sequential!Adopt(p) \/ \E n \in Node : Sequential!Place(p, n)
<1>0. /\ Absent \notin Node /\ Unbound \notin Node /\ NoPod \notin Pod
      /\ Cpu \in [Pod -> Nat] /\ CpuCap \in [Node -> Nat]
      /\ \A q \in Pod : NodeName[q] # Unbound => NodeName[q] \in Node
  BY SimulatorAssumptions DEF SimulatorAssumptions
<1>1. /\ p = Workload[pos] /\ pos <= Len(Workload) /\ pos' = pos + 1
      /\ p \notin Decided /\ Decided' = Decided \cup {p}
  BY Collected
<1>2. /\ pc = "collect" /\ outcome = "none" /\ UNCHANGED <<outcome, failedPods, store>>
  <2>1. UNCHANGED <<failedPods, store>>
    BY DEF Collect, ReportFailed, podVars
  <2> QED
    BY <2>1 DEF Collect, Judged, ResultAtEnd
<1>3. Rejected' = Rejected /\ Failed' = Failed
  BY <1>2 DEF Rejected, Failed
<1>4. PICK n \in Node : store[p].node = n /\ (NodeName[p] # Unbound => NodeName[p] = n)
  BY <1>0, <1>1, <1>2 DEF Judged, AnsweredWait, Answered
<1>5. p \notin Failed
  BY <1>0, <1>4 DEF FailedGone
<1>6. Home' = [Home EXCEPT ![p] = n]
  BY <1>1, <1>2, <1>3, <1>4, <1>5 DEF Home
<1>7. CASE NodeName[p] # Unbound
  BY <1>1, <1>2, <1>3, <1>4, <1>6, <1>7
     DEF Sequential!Adopt, Sequential!Deciding, Home, Rejected
<1>8. CASE NodeName[p] = Unbound
  <2> DEFINE R == {q \in Pod : Home[q] = n}
             S == {q \in Pod : store[q].node = n}
  <2>1. p \notin R /\ R \cup {p} \in SUBSET S
    BY <1>0, <1>1, <1>4 DEF Home
  <2>2. S \in SUBSET Pod /\ R \in SUBSET Pod /\ R \cup {p} \in SUBSET Pod
    OBVIOUS
  <2>3. CpuOnNode(n) = SumOver(Cpu, S) /\ Sequential!Used(n) = SumOver(Cpu, R)
    BY UsedIsSum, HomeUsed
  <2> HIDE DEF R, S
  <2>4. SumOver(Cpu, R \cup {p}) = Cpu[p] + SumOver(Cpu, R)
    BY <2>1, <2>2, CpuSum, SumInsert
  <2>5. SumOver(Cpu, R \cup {p}) <= SumOver(Cpu, S)
    BY <2>1, <2>2, CpuSum, SumMonotone
  <2>6. SumOver(Cpu, R) \in Nat /\ SumOver(Cpu, S) \in Nat
    BY <2>2, CpuSum
  <2>7. SumOver(Cpu, S) <= CpuCap[n]
    BY <2>3 DEF NoOvercommit
  <2>8. Sequential!Used(n) + Cpu[p] <= CpuCap[n]
    BY <1>0, <2>3, <2>4, <2>5, <2>6, <2>7
  <2> QED
    BY <1>1, <1>2, <1>3, <1>6, <1>8, <2>8
       DEF Sequential!Place, Sequential!Deciding, Home, Rejected
<1> QED
  BY <1>7, <1>8

LEMMA SequentialInit ==
  ASSUME Init
  PROVE  Sequential!Init
<1>1. pos = 1 /\ failedPods = <<>> /\ outcome = "none"
  BY DEF Init
<1>2. Decided = {} /\ Rejected = <<>>
  BY <1>1 DEF Decided, Rejected
<1> QED
  BY <1>1, <1>2 DEF Sequential!Init, Rejected

LEMMA SequentialStep ==
  ASSUME MaxRetries = 0, DistinctNames, TypeOK, Baton, Judged, FailedGone, NoOvercommit,
         [Next]_vars
  PROVE  [Sequential!Next]_<<pos, Home, Rejected, outcome>>
<1>1. CASE UNCHANGED <<pos, failedPods, outcome>>
  BY <1>1, HomeFrame DEF Judged
<1>2. CASE /\ GetClusterNodeStatus /\ pc = "create" /\ pos > Len(Workload)
           /\ outcome' = "ok" /\ UNCHANGED <<pos, failedPods>>
  BY <1>2, HomeFrame
     DEF Judged, ResultAtEnd, Sequential!Next, Sequential!Succeed, Home, Rejected
<1>3. CASE /\ pc \in {"start", "nodes", "create"} /\ outcome' = "error"
           /\ UNCHANGED <<pos, failedPods>>
  BY <1>3, HomeFrame
     DEF Judged, ResultAtEnd, Sequential!Next, Sequential!Fail, Home, Rejected
<1>4. CASE Collect /\ Next
  <2>1. PICK p \in Pod : p = Cur
    BY <1>4, Collected
  <2>2. stopReason # NoPod => Sequential!Reject(p)
    BY <1>4, <2>1, CollectRejects
  <2>3. stopReason = NoPod => Sequential!Adopt(p) \/ \E n \in Node : Sequential!Place(p, n)
    BY <1>4, <2>1, CollectPlaces
  <2> QED
    BY <2>2, <2>3 DEF Sequential!Next
<1>5. CASE UNCHANGED vars
  BY <1>5, <1>1 DEF vars, mainVars
<1> QED
  BY <1>1, <1>2, <1>3, <1>4, <1>5, CallerFrame, CallerMoves

(* The goroutines together do what the sequential Simulation does: pods    *)
(* are decided in order, each on a node with room for it or listed, and no *)
(* decision is revised (core.go, Simulate; simulator.go, schedulePods).    *)
THEOREM SimulatesSequentially ==
  MaxRetries = 0 /\ DistinctNames /\ NoStorage /\ NamedRequestNothing
    => (Spec => ImplementsSequential)
<1> SUFFICES ASSUME MaxRetries = 0, DistinctNames, NoStorage, NamedRequestNothing
             PROVE  Spec => ImplementsSequential
  OBVIOUS
<1>1. Init => Sequential!Init
  BY SequentialInit
<1>2. TypeOK /\ Baton /\ Judged /\ FailedGone /\ NoOvercommit /\ [Next]_vars
        => [Sequential!Next]_(Sequential!vars)
  BY SequentialStep DEF Sequential!vars, Home, Rejected
<1> QED
  BY <1>1, <1>2, TypeCorrect, BatonHeld, JudgedHeld, FailedGoneHeld, CapacityKept, PTL
     DEF Spec, ImplementsSequential, Sequential!Spec

-----------------------------------------------------------------------------
(* The storage annotation of the nodes, without retries.                   *)

(* The annotation of n counts p.                                           *)
OnDisk(p, n) == store[p].node = n \/ (binding[p].step = "simon" /\ binding[p].node = n)

LEMMA DiskIsSum ==
  ASSUME NEW n
  PROVE  /\ DiskOnNode(n) = SumOver(Disk, {q \in Pod : OnDisk(q, n)})
         /\ DiskOnNode(n)' = SumOver(Disk, {q \in Pod : OnDisk(q, n)'})
<1>1. DiskOnNode(n) = SumOver(Disk, {q \in Pod : OnDisk(q, n)})
  BY DEF DiskOnNode, SumOver, OnDisk
<1>2. (DiskOnNode(n) = SumOver(Disk, {q \in Pod : OnDisk(q, n)}))'
  BY <1>1, PTL
<1> QED
  BY <1>1, <1>2

LEMMA DiskSum ==
  ASSUME NEW S \in SUBSET Pod
  PROVE  IsFiniteSet(S) /\ (\A q \in S : Disk[q] \in Nat) /\ SumOver(Disk, S) \in Nat
<1>1. IsFiniteSet(S) /\ \A q \in S : Disk[q] \in Nat
  BY FS_Subset, SimulatorAssumptions DEF SimulatorAssumptions
<1> QED
  BY <1>1, SumNat

(* Pods that ask for nothing do not change what is counted.                *)
LEMMA DiskFrame ==
  ASSUME NEW n, \A q \in Pod : Disk[q] # 0 => (OnDisk(q, n)' <=> OnDisk(q, n))
  PROVE  DiskOnNode(n)' = DiskOnNode(n)
<1> DEFINE S == {q \in Pod : OnDisk(q, n)}
           T == {q \in Pod : OnDisk(q, n)'}
           R == {q \in S : Disk[q] # 0}
<1>1. DiskOnNode(n) = SumOver(Disk, S) /\ DiskOnNode(n)' = SumOver(Disk, T)
  BY DiskIsSum
<1>2. /\ S \in SUBSET Pod /\ T \in SUBSET Pod /\ R \in SUBSET S /\ R \in SUBSET T
      /\ (\A q \in S \ R : Disk[q] = 0) /\ (\A q \in T \ R : Disk[q] = 0)
  OBVIOUS
<1> HIDE DEF R, S, T
<1> QED
  BY <1>1, <1>2, DiskSum, SumZeros

(* A pod that is booked on n.                                              *)
LEMMA DiskBooked ==
  ASSUME NEW p \in Pod, NEW n, ~OnDisk(p, n), OnDisk(p, n)',
         \A q \in Pod : q # p => (OnDisk(q, n)' <=> OnDisk(q, n))
  PROVE  DiskOnNode(n)' = DiskOnNode(n) + Disk[p]
<1> DEFINE S == {q \in Pod : OnDisk(q, n)}
           T == {q \in Pod : OnDisk(q, n)'}
<1>1. DiskOnNode(n) = SumOver(Disk, S) /\ DiskOnNode(n)' = SumOver(Disk, T)
  BY DiskIsSum
<1>2. p \notin S /\ T = S \cup {p} /\ S \in SUBSET Pod /\ S \cup {p} \in SUBSET Pod
  OBVIOUS
<1> HIDE DEF S, T
<1>3. SumOver(Disk, T) = Disk[p] + SumOver(Disk, S)
  BY <1>2, DiskSum, SumInsert
<1>4. SumOver(Disk, S) \in Nat /\ Disk[p] \in Nat
  BY <1>2, DiskSum, SimulatorAssumptions DEF SimulatorAssumptions
<1> QED
  BY <1>1, <1>3, <1>4

LEMMA DiskUnmoved ==
  ASSUME DiskAccounted, Booked, UNCHANGED nodeDisk,
         \A q \in Pod, n \in Node : Disk[q] # 0 => (OnDisk(q, n)' <=> OnDisk(q, n)),
         \A q \in Pod : binding'[q] = binding[q] \/ binding'[q].step # "write"
  PROVE  DiskAccounted' /\ Booked'
<1>1. \A n \in Node : DiskOnNode(n)' = DiskOnNode(n)
  BY DiskFrame
<1> QED
  BY <1>1 DEF DiskAccounted, Booked

(* Only a binding that has left its Get or books its node changes a count. *)
OtherwiseBound ==
    \A q \in Pod :
        \/ binding'[q] = binding[q]
        \/ binding[q].step # "simon" /\ binding'[q].step \notin {"write", "simon"}

LEMMA DiskStill ==
  ASSUME DiskAccounted, Booked, UNCHANGED <<store, nodeDisk>>, OtherwiseBound
  PROVE  DiskAccounted' /\ Booked'
  BY DiskUnmoved DEF OnDisk, OtherwiseBound

LEMMA DiskWritten ==
  ASSUME TypeOK, DiskAccounted, Booked, NEW p \in Pod, NEW o \in Object, Publish(p, o),
         store[p].node \notin Node, o.node \notin Node \/ Disk[p] = 0,
         UNCHANGED nodeDisk, OtherwiseBound
  PROVE  DiskAccounted' /\ Booked'
<1>1. store'[p] = o /\ \A q \in Pod : q # p => store'[q] = store[q]
  BY PublishWrites DEF Written, TypeOK
<1>2. \A q \in Pod, n \in Node : Disk[q] # 0 => (OnDisk(q, n)' <=> OnDisk(q, n))
  BY <1>1 DEF OnDisk, OtherwiseBound
<1> QED
  BY <1>2, DiskUnmoved DEF OtherwiseBound

LEMMA DiskPatched ==
  ASSUME TypeOK, DiskAccounted, Booked, NEW p \in Pod, NEW r \in Reason, PatchCondition(p, r),
         store[p].node = Unbound, UNCHANGED nodeDisk, OtherwiseBound
  PROVE  DiskAccounted' /\ Booked'
<1>1. CASE UNCHANGED podVars
  BY <1>1, DiskStill DEF podVars
<1>2. CASE Publish(p, [store[p] EXCEPT !.reason = r])
  <2>1. PICK o \in Object : o = [store[p] EXCEPT !.reason = r]
    BY DEF TypeOK, StoreType, Object
  <2>2. o.node = Unbound
    BY <2>1 DEF TypeOK, StoreType, Object
  <2> QED
    BY <1>2, <2>1, <2>2, DiskWritten, SimulatorAssumptions DEF SimulatorAssumptions
<1> QED
  BY <1>1, <1>2 DEF PatchCondition

LEMMA DiskCaller ==
  ASSUME TypeOK, Baton, NamedStoreNothing, DiskAccounted, Booked, MainStep
  PROVE  DiskAccounted' /\ Booked'
<1>0. /\ Unbound \notin Node /\ Absent \notin Node
      /\ UNCHANGED <<nodeDisk, binding>>
  BY SimulatorAssumptions
     DEF SimulatorAssumptions, MainStep, RefuseCluster, RunScheduler, CreateNode, NodesCreated,
         RefuseApp, CreatePod, CreatePodFails, Receive, Collect, GetClusterNodeStatus,
         CancelScheduler, CreateTestPod, CloseChannel, diskVars
<1>1. OtherwiseBound
  BY <1>0 DEF OtherwiseBound
<1>2. CASE UNCHANGED store
  BY <1>0, <1>1, <1>2, DiskStill
<1>3. CASE CreatePod
  <2>1. PICK p \in Pod : p = Cur
    BY <1>3, CurIsPod DEF CreatePod, TypeOK
  <2>2. PICK o \in Object : o = [node |-> NodeName[p], reason |-> "none"]
    BY SimulatorAssumptions DEF SimulatorAssumptions, Object, Where, Reason
  <2>3. Publish(p, o) /\ store[p].node = Absent /\ o.node = NodeName[p]
    BY <1>3, <2>1, <2>2 DEF CreatePod
  <2>4. o.node \notin Node \/ Disk[p] = 0
    BY <1>0, <2>3 DEF NamedStoreNothing
  <2> QED
    BY <1>0, <1>1, <2>3, <2>4, DiskWritten
<1>4. CASE CreateTestPod
  <2>1. PICK o \in Object : o = [node |-> Unbound, reason |-> "none"]
    BY DEF Object, Where, Reason
  <2>2. /\ TestPod \in Pod /\ Publish(TestPod, o) /\ store[TestPod].node = Absent
        /\ o.node = Unbound
    BY <1>4, <2>1, SimulatorAssumptions
       DEF CreateTestPod, SimulatorAssumptions, Baton, CallerState
  <2> QED
    BY <1>0, <1>1, <2>2, DiskWritten
<1>5. CASE Collect /\ stopReason # NoPod /\ ReportFailed
  <2>1. PICK p \in Pod : p = Cur
    BY <1>5, CurIsPod DEF Collect, TypeOK, CallerType
  <2>2. Publish(p, NoObject) /\ NoObject \in Object /\ NoObject.node = Absent
    BY <1>5, <2>1 DEF ReportFailed, NoObject, Object, Where, Reason
  <2>3. store[p].node = Unbound
    BY <1>5, <2>1 DEF Collect, Baton, ReasonOfOwed
  <2> QED
    BY <1>0, <1>1, <2>2, <2>3, DiskWritten
<1>6. CASE Collect /\ UNCHANGED podVars
  BY <1>2, <1>6 DEF podVars
<1>7. CASE \/ RefuseCluster \/ RunScheduler \/ CreateNode \/ NodesCreated \/ RefuseApp
           \/ CreatePodFails \/ Receive \/ GetClusterNodeStatus \/ CancelScheduler
           \/ CloseChannel
  BY <1>2, <1>7
     DEF RefuseCluster, RunScheduler, CreateNode, NodesCreated, RefuseApp, CreatePodFails,
         Receive, GetClusterNodeStatus, CancelScheduler, CloseChannel, podVars
<1> QED
  BY <1>3, <1>4, <1>5, <1>6, <1>7 DEF MainStep, Collect

LEMMA DiskScheduler ==
  ASSUME TypeOK, Baton, DiskAccounted, Booked, SchedulerStep
  PROVE  DiskAccounted' /\ Booked'
<1>1. UNCHANGED nodeDisk /\ (UNCHANGED binding => OtherwiseBound)
  BY DEF SchedulerStep, EnterScheduleOne, StopScheduler, ScheduleFails, RequeueUnschedulable,
         RecordUnschedulable, NextPod, Assume, diskVars, OtherwiseBound
<1>2. CASE UNCHANGED <<store, binding>>
  BY <1>1, <1>2, DiskStill
<1>3. CASE RecordUnschedulable
  <2>1. PICK p \in Pod : p = scur
    BY <1>3 DEF RecordUnschedulable, TypeOK, LoopType
  <2>2. PatchCondition(p, "Unschedulable") /\ "Unschedulable" \in Reason /\ UNCHANGED binding
    BY <1>3, <2>1 DEF RecordUnschedulable, Reason
  <2>3. store[p].node = Unbound
    BY <2>1 DEF Baton, FreshInScheduler, Fresh
  <2> QED
    BY <1>1, <2>2, <2>3, DiskPatched
<1>4. ASSUME NEW n \in Node, Assume(n) PROVE DiskAccounted' /\ Booked'
  <2> DEFINE b == [step |-> IF Disk[scur] > 0 THEN "local" ELSE "simon",
                   node |-> n, read |-> 0]
  <2>1. PICK p \in Pod : p = scur /\ p # NoPod
    BY <1>4, SimulatorAssumptions DEF Assume, TypeOK, LoopType, SimulatorAssumptions
  <2>2. UNCHANGED store /\ binding' = [binding EXCEPT ![p] = b]
    BY <1>4, <2>1 DEF Assume, podVars
  <2>3. b.step \in {"local", "simon"} /\ (Disk[p] # 0 => b.step = "local")
    BY <2>1, SimulatorAssumptions DEF SimulatorAssumptions
  <2>4. binding[p].step = "none"
    BY <2>1, Binding
  <2> HIDE DEF b
  <2>5. binding'[p] = b /\ \A q \in Pod : q # p => binding'[q] = binding[q]
    BY <2>2 DEF TypeOK, BindingType
  <2>6. \A q \in Pod, m \in Node : Disk[q] # 0 => (OnDisk(q, m)' <=> OnDisk(q, m))
    BY <2>2, <2>3, <2>4, <2>5 DEF OnDisk
  <2>7. \A q \in Pod : binding'[q] = binding[q] \/ binding'[q].step # "write"
    BY <2>3, <2>5
  <2> QED
    BY <1>1, <2>6, <2>7, DiskUnmoved
<1>5. CASE EnterScheduleOne \/ StopScheduler \/ ScheduleFails \/ RequeueUnschedulable
  BY <1>2, <1>5 DEF EnterScheduleOne, StopScheduler, ScheduleFails, RequeueUnschedulable,
     podVars
<1>6. ASSUME NEW p \in Pod, NextPod(p) PROVE DiskAccounted' /\ Booked'
  BY <1>2, <1>6 DEF NextPod, podVars
<1> QED
  BY <1>3, <1>4, <1>5, <1>6 DEF SchedulerStep

(* The Get of open-local's Bind, which looks at the annotation, and the    *)
(* Update, which writes what it read plus the request.                     *)
LEMMA DiskGet ==
  ASSUME TypeOK, DiskAccounted, Booked, NEW p \in Pod, LocalBindGet(p)
  PROVE  DiskAccounted' /\ Booked'
<1> DEFINE n == binding[p].node
<1>1. /\ UNCHANGED <<store, nodeDisk>> /\ binding[p].step = "local" /\ n \in Node
      /\ DiskCap[n] \in Nat /\ nodeDisk[n] \in Nat
  BY SimulatorAssumptions
     DEF LocalBindGet, podVars, diskVars, TypeOK, BindingType, NodeType, SimulatorAssumptions
<1>2. CASE Goto(p, "forget")
  <2>1. OtherwiseBound
    BY <1>1, <1>2 DEF Goto, OtherwiseBound, TypeOK, BindingType
  <2> QED
    BY <1>1, <2>1, DiskStill
<1>3. CASE LocalFits(p, n) /\ binding' = [binding EXCEPT ![p].step = "write",
                                                         ![p].read = nodeDisk[n]]
  <2>1. binding' = [[binding EXCEPT ![p].step = "write"] EXCEPT ![p].read = nodeDisk[n]]
    BY <1>3
  <2>2. /\ binding'[p].step = "write" /\ binding'[p].node = n /\ binding'[p].read = nodeDisk[n]
        /\ \A q \in Pod : q # p => binding'[q] = binding[q]
    BY <2>1 DEF TypeOK, BindingType
  <2>3. \A m \in Node : DiskOnNode(m)' = DiskOnNode(m)
    <3>1. \A q \in Pod, m \in Node : OnDisk(q, m)' <=> OnDisk(q, m)
      BY <1>1, <2>2 DEF OnDisk
    <3> QED
      BY <3>1, DiskFrame
  <2>4. nodeDisk[n] + Disk[p] <= DiskCap[n]
    BY <1>1, <1>3 DEF LocalFits, DiskAccounted
  <2>5. Booked'
    BY <1>1, <2>2, <2>4 DEF Booked
  <2> QED
    BY <1>1, <2>3, <2>5 DEF DiskAccounted
<1> QED
  BY <1>2, <1>3 DEF LocalBindGet

LEMMA DiskUpdate ==
  ASSUME TypeOK, Baton, DiskAccounted, Booked, NEW p \in Pod, LocalBindUpdate(p)
  PROVE  DiskAccounted' /\ Booked'
<1>1. PICK n \in Node : n = binding[p].node /\ binding[p].step = "write"
  BY DEF LocalBindUpdate, TypeOK, BindingType
<1>2. UNCHANGED store /\ nodeDisk' = [nodeDisk EXCEPT ![n] = binding[p].read + Disk[p]]
  BY <1>1 DEF LocalBindUpdate, podVars
<1>3. /\ binding'[p].step = "simon" /\ binding'[p].node = n
      /\ \A q \in Pod : q # p => binding'[q] = binding[q]
  BY <1>1 DEF LocalBindUpdate, Goto, TypeOK, BindingType
<1>4. nodeDisk'[n] = nodeDisk[n] + Disk[p] /\ nodeDisk[n] + Disk[p] <= DiskCap[n]
  BY <1>1, <1>2 DEF Booked, TypeOK, NodeType
<1>5. \A m \in Node : m # n => nodeDisk'[m] = nodeDisk[m]
  BY <1>2 DEF TypeOK, NodeType
<1>6. store[p].node \notin Node
  <2>1. store[p] = Fresh
    BY <1>1, Binding
  <2> QED
    BY <2>1, SimulatorAssumptions DEF Fresh, SimulatorAssumptions
<1>7. DiskOnNode(n)' = DiskOnNode(n) + Disk[p]
  <2>1. ~OnDisk(p, n) /\ OnDisk(p, n)' /\ \A q \in Pod : q # p => (OnDisk(q, n)' <=> OnDisk(q, n))
    BY <1>1, <1>2, <1>3, <1>6 DEF OnDisk
  <2> QED
    BY <2>1, DiskBooked
<1>8. \A m \in Node : m # n => DiskOnNode(m)' = DiskOnNode(m)
  <2>1. \A q \in Pod, m \in Node : m # n => (OnDisk(q, m)' <=> OnDisk(q, m))
    BY <1>1, <1>2, <1>3 DEF OnDisk
  <2> QED
    BY <2>1, DiskFrame
<1>9. Booked'
  <2>1. \A q \in Pod : binding'[q].step # "write"
    BY <1>1, <1>3, Binding
  <2> QED
    BY <2>1 DEF Booked
<1> QED
  BY <1>4, <1>5, <1>7, <1>8, <1>9 DEF DiskAccounted

LEMMA DiskBind ==
  ASSUME TypeOK, Baton, DiskAccounted, Booked, NEW p \in Pod, Bind(p)
  PROVE  DiskAccounted' /\ Booked'
<1>1. /\ store[p] = Fresh /\ store[p].node = Unbound /\ store[p].node \notin Node
      /\ binding[p].step # "none" /\ binding[p].node \in Node /\ Absent # Unbound
  <2>1. binding[p].step # "none"
    BY DEF Bind, LocalBindGet, LocalBindUpdate, BindPodToNode, ForgetPod, RequeueRejected,
           RecordBindError
  <2>2. store[p] = Fresh
    BY <2>1, Binding
  <2> QED
    BY <2>1, <2>2, SimulatorAssumptions DEF Fresh, SimulatorAssumptions, TypeOK, BindingType
<1>2. CASE BindPodToNode(p)
  <2>1. /\ Publish(p, [store[p] EXCEPT !.node = binding[p].node]) /\ UNCHANGED nodeDisk
        /\ binding[p].step = "simon" /\ binding' = [binding EXCEPT ![p] = NoBind]
    BY <1>1, <1>2 DEF BindPodToNode, diskVars
  <2>2. PICK o \in Object : o = [store[p] EXCEPT !.node = binding[p].node]
    BY <1>1 DEF TypeOK, StoreType, Object, Where
  <2>3. o.node = binding[p].node /\ Publish(p, o)
    BY <2>1, <2>2 DEF TypeOK, StoreType, Object
  <2>4. store'[p] = o /\ \A q \in Pod : q # p => store'[q] = store[q]
    BY <2>3, PublishWrites DEF Written, TypeOK
  <2>5. binding'[p].step = "none" /\ \A q \in Pod : q # p => binding'[q] = binding[q]
    BY <2>1 DEF TypeOK, BindingType, NoBind
  <2>6. \A q \in Pod, n \in Node : Disk[q] # 0 => (OnDisk(q, n)' <=> OnDisk(q, n))
    BY <1>1, <2>1, <2>3, <2>4, <2>5 DEF OnDisk
  <2>7. \A q \in Pod : binding'[q] = binding[q] \/ binding'[q].step # "write"
    BY <2>5
  <2> QED
    BY <2>1, <2>6, <2>7, DiskUnmoved
<1>3. CASE ForgetPod(p) \/ RequeueRejected(p)
  <2>1. /\ UNCHANGED <<store, nodeDisk>> /\ binding[p].step # "simon"
        /\ \E step \in {"requeue", "patch"} : binding' = [binding EXCEPT ![p].step = step]
    BY <1>3 DEF ForgetPod, RequeueRejected, Goto, podVars, diskVars
  <2>2. OtherwiseBound
    BY <2>1 DEF OtherwiseBound, TypeOK, BindingType
  <2> QED
    BY <2>1, <2>2, DiskStill
<1>4. CASE RecordBindError(p)
  <2>1. /\ UNCHANGED nodeDisk /\ binding[p].step = "patch"
        /\ PatchCondition(p, "SchedulerError") /\ "SchedulerError" \in Reason
        /\ binding' = [binding EXCEPT ![p] = NoBind]
    BY <1>4 DEF RecordBindError, diskVars, Reason
  <2>2. OtherwiseBound
    BY <2>1 DEF OtherwiseBound, TypeOK, BindingType, NoBind
  <2> QED
    BY <1>1, <2>1, <2>2, DiskPatched
<1> QED
  BY <1>2, <1>3, <1>4, DiskGet, DiskUpdate DEF Bind

LEMMA DiskStep ==
  ASSUME MaxRetries = 0, NamedStoreNothing, TypeOK, Baton, DiskAccounted, Booked, [Next]_vars
  PROVE  DiskAccounted' /\ Booked'
<1>1. CASE InformerStep \/ UNCHANGED vars
  <2>1. UNCHANGED <<store, nodeDisk, binding>>
    BY <1>1 DEF InformerStep, StartWatch, PodInformer, HandlePending, HandleAssigned,
       HandleNode, Update, SendOnClosedChannel, vars, podVars, diskVars
  <2> QED
    BY <2>1, DiskStill DEF OtherwiseBound
<1>2. ~ \E p \in Pod : Retry(p)
  BY DEF Retry, TypeOK, QueueType
<1> QED
  BY <1>1, <1>2, DiskCaller, DiskScheduler, DiskBind DEF Next

LEMMA DiskInit ==
  ASSUME Init
  PROVE  DiskAccounted /\ Booked
<1>1. /\ \A p \in Pod : store[p].node = Absent /\ binding[p].step = "none"
      /\ \A n \in Node : nodeDisk[n] = 0
  BY DEF Init, NoObject, NoBind
<1>2. /\ Absent \notin Node /\ \A n \in Node : DiskCap[n] \in Nat
  BY SimulatorAssumptions DEF SimulatorAssumptions
<1>3. ASSUME NEW n \in Node PROVE DiskOnNode(n) = 0
  <2>1. {q \in Pod : OnDisk(q, n)} = {}
    BY <1>1, <1>2 DEF OnDisk
  <2> QED
    BY <2>1, DiskIsSum, SumEmpty
<1> QED
  BY <1>1, <1>2, <1>3 DEF DiskAccounted, Booked

(* open-local's annotation of a node is what the pods on it requested, and *)
(* never more than the node has, although Bind reads it and writes it back *)
(* in two requests (open-local.go, Bind).                                  *)
THEOREM StorageAccounted == MaxRetries = 0 /\ NamedStoreNothing => (Spec => []DiskAccounted)
<1> SUFFICES ASSUME MaxRetries = 0, NamedStoreNothing PROVE Spec => []DiskAccounted
  OBVIOUS
<1>1. Init => DiskAccounted /\ Booked
  BY DiskInit
<1>2. TypeOK /\ Baton /\ DiskAccounted /\ Booked /\ [Next]_vars => (DiskAccounted /\ Booked)'
  BY DiskStep
<1> QED
  BY <1>1, <1>2, TypeCorrect, BatonHeld, PTL DEF Spec
=============================================================================
