------------------------------ MODULE GpuProofs ------------------------------
(***************************************************************************)
(* The cache of the GPU share plugin counts what pods hold, for any nodes, *)
(* devices and workload, with bindings that fail and pods that come back.  *)
(***************************************************************************)
EXTENDS GpuShare, TLAPS

-----------------------------------------------------------------------------
(* The invariant.                                                          *)

Plain(p) == NodeName[p] = Unbound
Created(p) == \E i \in 1..pos : Workload[i] = p
Busy(p) == stage[p] \notin {"idle", "waiting"}

\* The variables are functions on pods and nodes; of the devices in copies and
\* annotations nothing is said.
Shape ==
    /\ pos \in 0..Len(Workload) /\ retries \in Nat
    /\ awaited \in Pod \cup {NoPod}
    /\ stage \in [Pod -> Stage]
    /\ target = [p \in Pod |-> target[p]]
    /\ known = [p \in Pod |-> known[p]]
    /\ \A p \in Pod : stage[p] \in OnLoop \cup InBinding => target[p] \in Node
    /\ store = [p \in Pod |-> [node |-> store[p].node, ids |-> store[p].ids,
                               reason |-> store[p].reason]]
    /\ \A p \in Pod : store[p].node \in Node \cup {Absent, Unbound}
    /\ copies = [p \in Pod |-> [node |-> copies[p].node, ids |-> copies[p].ids]]
    /\ \A p \in Pod : copies[p].node \in Node \cup {Unbound}
    /\ \A p \in Pod : Reserved(p) => copies[p].node \in Node
    /\ podMap = [n \in Node |-> [d \in Devs(n) |-> podMap[n][d]]]

\* The scheduler works on pods that were created without a node and have none.
Unplaced ==
    \A p \in Pod :
        /\ stage[p] # "idle" =>
              /\ store[p].node \in {Absent, Unbound}
              /\ Plain(p) /\ Created(p)
        /\ ~Created(p) => /\ store[p].node = Absent /\ store[p].reason = "none"
                           /\ known[p] = "none"

HoldsDevice(p, n, d) == Holding(p).node = n /\ d \in Range(Holding(p).ids)

\* A pod that was bound and then deleted: it stays in the cache.
LeftOver(p) == stage[p] = "idle" /\ store[p].node = Absent /\ retries > 0

Counted ==
    \A n \in Node : \A d \in Devs(n) :
        /\ \A p \in Pod : Plain(p) /\ HoldsDevice(p, n, d) =>
              Entry(p, Holding(p)) \in podMap[n][d]
        /\ \A r \in podMap[n][d] :
              /\ r.pod \in Pod /\ Created(r.pod) /\ Plain(r.pod)
              /\ \/ HoldsDevice(r.pod, n, d) /\ r = Entry(r.pod, Holding(r.pod))
                 \/ LeftOver(r.pod)

\* Before a pod comes back, one pod is scheduled at a time, and a token is its own.
Flow ==
    retries = 0 =>
        /\ \A p \in Pod : Busy(p) =>
              /\ p = awaited /\ tokens = <<>>
              /\ store[p].reason = "none" /\ store[p].node = Unbound
              /\ known[p] = "none"
        /\ \/ tokens = <<>>
           \/ /\ awaited # NoPod
              /\ \E t \in {"none", "Unschedulable", "SchedulerError"} :
                    /\ tokens = <<t>>
                    /\ t = "Unschedulable" => stage[awaited] = "waiting"

CacheInv == Shape /\ Unplaced /\ Counted /\ Flow

LEMMA CacheInit == Init => CacheInv
<1> SUFFICES ASSUME Init PROVE CacheInv
  OBVIOUS
<1>1. Shape
  <2>1. store = [p \in Pod |-> [node |-> store[p].node, ids |-> store[p].ids,
                                reason |-> store[p].reason]]
    BY DEF Init
  <2>2. copies = [p \in Pod |-> [node |-> copies[p].node, ids |-> copies[p].ids]]
    BY DEF Init, NoCopy
  <2>3. podMap = [n \in Node |-> [d \in Devs(n) |-> podMap[n][d]]]
    BY DEF Init
  <2>4. \A p \in Pod : /\ stage[p] = "idle" /\ store[p].node = Absent
                       /\ copies[p].node = Unbound
    BY DEF Init, NoCopy
  <2>5. /\ pos \in 0..Len(Workload) /\ retries \in Nat
        /\ awaited \in Pod \cup {NoPod}
        /\ stage \in [Pod -> Stage]
        /\ target = [p \in Pod |-> target[p]]
        /\ known = [p \in Pod |-> known[p]]
    BY GpuShareAssumptions DEF Init, Stage, GpuShareAssumptions
  <2> QED
    BY <2>1, <2>2, <2>3, <2>4, <2>5 DEF Shape, OnLoop, InBinding, Reserved
<1>2. Unplaced
  BY DEF Init, Unplaced
<1>3. \A n \in Node : \A d \in Devs(n) : podMap[n][d] = {}
  BY DEF Init
<1>4. \A p \in Pod : Holding(p) = NoCopy
  BY GpuShareAssumptions DEF Init, Holding, Reserved, InBinding, GpuShareAssumptions
<1>5. Counted
  BY <1>3, <1>4, GpuShareAssumptions DEF Counted, HoldsDevice, NoCopy, GpuShareAssumptions
<1>6. Flow
  BY DEF Init, Flow, Busy
<1> QED
  BY <1>1, <1>2, <1>5, <1>6 DEF CacheInv

-----------------------------------------------------------------------------
(* The cache is counted right as long as it and what pods hold do not      *)
(* change, except that a pod on no node's account may become a leftover.   *)

LEMMA HoldsNothing ==
  ASSUME Unplaced, NEW p \in Pod, stage[p] # "idle", ~Reserved(p)
  PROVE  Holding(p) = NoCopy
  BY GpuShareAssumptions DEF Unplaced, Holding, GpuShareAssumptions

LEMMA NothingOnNodes ==
  ASSUME NEW p \in Pod, Holding(p) = NoCopy, NEW n \in Node, NEW d
  PROVE  ~HoldsDevice(p, n, d)
  BY GpuShareAssumptions DEF HoldsDevice, NoCopy, GpuShareAssumptions

LEMMA CountedFrame ==
  ASSUME Counted, podMap' = podMap,
         \A q \in Pod : Created(q) => Created(q)',
         \A q \in Pod : LeftOver(q) => LeftOver(q)',
         \A q \in Pod : Plain(q) =>
             \/ Holding(q)' = Holding(q)
             \/ Holding(q)' = NoCopy /\ LeftOver(q)'
  PROVE  Counted'
<1> SUFFICES ASSUME NEW n \in Node, NEW d \in Devs(n)
             PROVE
               /\ \A q \in Pod : Plain(q) /\ HoldsDevice(q, n, d)' =>
                     Entry(q, Holding(q)') \in podMap[n][d]
               /\ \A r \in podMap[n][d] :
                     /\ r.pod \in Pod /\ Created(r.pod)' /\ Plain(r.pod)
                     /\ \/ HoldsDevice(r.pod, n, d)' /\ r = Entry(r.pod, Holding(r.pod)')
                        \/ LeftOver(r.pod)'
  BY DEF Counted, Devs, Plain, Entry
<1>1. ASSUME NEW q \in Pod, Plain(q), HoldsDevice(q, n, d)'
      PROVE  Entry(q, Holding(q)') \in podMap[n][d]
  <2>1. Holding(q)' # NoCopy
    BY <1>1, GpuShareAssumptions DEF HoldsDevice, NoCopy, GpuShareAssumptions
  <2>2. Holding(q)' = Holding(q)
    BY <1>1, <2>1
  <2>3. HoldsDevice(q, n, d)
    BY <1>1, <2>2 DEF HoldsDevice
  <2> QED
    BY <1>1, <2>2, <2>3 DEF Counted
<1>2. ASSUME NEW r \in podMap[n][d]
      PROVE  /\ r.pod \in Pod /\ Created(r.pod)' /\ Plain(r.pod)
             /\ \/ HoldsDevice(r.pod, n, d)' /\ r = Entry(r.pod, Holding(r.pod)')
                \/ LeftOver(r.pod)'
  <2>1. /\ r.pod \in Pod /\ Created(r.pod) /\ Plain(r.pod)
        /\ \/ HoldsDevice(r.pod, n, d) /\ r = Entry(r.pod, Holding(r.pod))
           \/ LeftOver(r.pod)
    BY DEF Counted
  <2>2. \/ LeftOver(r.pod)'
        \/ HoldsDevice(r.pod, n, d) /\ r = Entry(r.pod, Holding(r.pod))
           /\ Holding(r.pod)' = Holding(r.pod)
    BY <2>1
  <2> QED
    BY <2>1, <2>2 DEF HoldsDevice
<1> QED
  BY <1>1, <1>2

LEMMA OthersHold ==
  ASSUME NEW q \in Pod, stage'[q] = stage[q], store'[q] = store[q],
         copies'[q] = copies[q]
  PROVE  Holding(q)' = Holding(q)
  BY DEF Holding, Reserved, NoCopy

-----------------------------------------------------------------------------
(* Steps on a pod that the scheduler works on, before and after.           *)

LEMMA WorkStep ==
  ASSUME CacheInv, NEW p \in Pod, NEW s \in Stage,
         Busy(p), s # "idle", s # "waiting",
         stage' = [stage EXCEPT ![p] = s],
         target' = target \/ \E n \in Node : target' = [target EXCEPT ![p] = n],
         s \in OnLoop \cup InBinding => target'[p] \in Node,
         UNCHANGED <<pos, awaited, tokens, store, retries, known, podMap, copies>>,
         Holding(p)' = Holding(p), Reserved(p)' => Reserved(p)
  PROVE  CacheInv'
<1> USE DEF CacheInv
<1>1. stage'[p] = s /\ \A q \in Pod : q # p => stage'[q] = stage[q]
  BY DEF Shape
<1>2. Shape'
  <2>1. \A q \in Pod : q # p => target'[q] = target[q]
    BY DEF Shape
  <2>2. target' = [q \in Pod |-> target'[q]]
    BY DEF Shape
  <2>3. \A q \in Pod : stage'[q] \in OnLoop \cup InBinding => target'[q] \in Node
    BY <1>1, <2>1 DEF Shape
  <2>4. stage' \in [Pod -> Stage]
    BY DEF Shape
  <2>5. \A q \in Pod : Reserved(q)' => Reserved(q)
    BY <1>1 DEF Reserved
  <2>6. \A q \in Pod : Reserved(q)' => copies'[q].node \in Node
    BY <2>5 DEF Shape
  <2> QED
    BY <2>2, <2>3, <2>4, <2>6 DEF Shape, Devs
<1>3. Unplaced'
  BY <1>1 DEF Unplaced, Busy, Created, Plain
<1>4. Counted'
  <2>1. \A q \in Pod : Holding(q)' = Holding(q)
    BY <1>1, OthersHold
  <2>2. \A q \in Pod : LeftOver(q) => LeftOver(q)'
    BY <1>1 DEF LeftOver, Busy
  <2>3. \A q \in Pod : Created(q) => Created(q)'
    BY DEF Created
  <2> QED
    BY <2>1, <2>2, <2>3, CountedFrame
<1>5. Flow'
  <2>1. \A q \in Pod : Busy(q)' => Busy(q)
    BY <1>1 DEF Busy
  <2>2. ASSUME retries = 0 PROVE tokens = <<>>
    BY <2>2 DEF Flow
  <2> QED
    BY <2>1, <2>2 DEF Flow
<1> QED
  BY <1>2, <1>3, <1>4, <1>5

LEMMA HoldingIs ==
  ASSUME NEW p \in Pod
  PROVE  /\ Reserved(p) => Holding(p) = copies[p]
         /\ ~Reserved(p) /\ GpuMem[p] > 0 /\ store[p].node \in Node =>
                Holding(p) = [node |-> store[p].node, ids |-> store[p].ids]
         /\ ~Reserved(p) /\ ~(GpuMem[p] > 0 /\ store[p].node \in Node) =>
                Holding(p) = NoCopy
  BY DEF Holding

LEMMA HoldsOn ==
  ASSUME NEW p \in Pod, store' = store, copies' = copies,
         Reserved(p)' <=> Reserved(p)
  PROVE  Holding(p)' = Holding(p)
  BY DEF Holding, NoCopy

LEMMA ChooseStep ==
  ASSUME CacheInv, NEW p \in Pod, NEW n \in Node, Choose(p, n)
  PROVE  CacheInv'
<1>1. stage'[p] = "chosen" /\ target'[p] = n
  BY DEF Choose, CacheInv, Shape
<1>2. Busy(p)
  BY DEF Choose, Busy
<1>3. Holding(p)' = Holding(p) /\ ~Reserved(p)'
  BY <1>1, HoldsOn DEF Choose, Reserved, InBinding, pluginVars
<1> QED
  BY <1>1, <1>2, <1>3, WorkStep DEF Choose, Stage, OnLoop, callerVars, cacheVars, pluginVars

\* The steps that change no more than where the attempt is, and node objects.
Passing(p) ==
    \/ ReserveNoGpu(p) \/ ReserveUpdate(p)
    \/ LocalBindGet(p) \/ LocalBindUpdate(p)
    \/ UnreserveNoCopy(p) \/ UnreserveUpdate(p)

LEMMA PassingStep ==
  ASSUME CacheInv, NEW p \in Pod, Passing(p)
  PROVE  CacheInv'
<1> USE DEF Goto, callerVars, cacheVars, pluginVars
<1>1. /\ Busy(p)
      /\ UNCHANGED <<pos, awaited, tokens, store, retries, known, podMap, copies, target>>
  BY DEF Passing, Busy, ReserveNoGpu, ReserveUpdate, LocalBindGet, LocalBindUpdate,
         UnreserveNoCopy, UnreserveUpdate
<1>2. PICK s \in {"reserved", "storageRead", "booked", "rejected", "undone"} :
         /\ stage' = [stage EXCEPT ![p] = s]
         /\ s # "undone" => stage[p] \in OnLoop \cup InBinding
  BY DEF Passing, ReserveNoGpu, ReserveUpdate, LocalBindGet, LocalBindUpdate,
         UnreserveNoCopy, UnreserveUpdate, OnLoop, InBinding
<1>3. stage'[p] = s
  BY <1>2 DEF CacheInv, Shape
<1>4. Holding(p)' = Holding(p) /\ (Reserved(p)' => Reserved(p))
  <2>1. CASE UnreserveNoCopy(p)
    <3>1. stage[p] = "rejected" /\ stage'[p] = "undone" /\ copies[p] = NoCopy
      BY <2>1 DEF UnreserveNoCopy, CacheInv, Shape
    <3>2. store[p].node \notin Node
      BY <3>1, GpuShareAssumptions DEF CacheInv, Unplaced, GpuShareAssumptions
    <3> QED
      BY <1>1, <3>1, <3>2 DEF Holding, Reserved, InBinding, NoCopy
  <2>2. CASE ~UnreserveNoCopy(p)
    <3>1. Reserved(p)' <=> Reserved(p)
      BY <1>3, <2>2 DEF Passing, ReserveNoGpu, ReserveUpdate, LocalBindGet,
            LocalBindUpdate, UnreserveUpdate, Reserved, InBinding, CacheInv, Shape
    <3> QED
      BY <1>1, <3>1, HoldsOn
  <2> QED
    BY <2>1, <2>2
<1>5. s \in OnLoop \cup InBinding => target'[p] \in Node
  BY <1>1, <1>2 DEF CacheInv, Shape, OnLoop, InBinding
<1> QED
  BY <1>1, <1>2, <1>3, <1>4, <1>5, WorkStep DEF Stage, InBinding

\* A binding finds the pod deleted.
LEMMA RejectStep ==
  ASSUME CacheInv, NEW p \in Pod, AfterLocalBind(p), Goto(p, "rejected"),
         UNCHANGED <<pos, awaited, tokens, store, retries, known, podMap, copies, target>>
  PROVE  CacheInv'
<1>1. stage'[p] = "rejected" /\ Busy(p)
  BY DEF Goto, AfterLocalBind, Busy, CacheInv, Shape
<1>2. Holding(p)' = Holding(p) /\ Reserved(p)' = Reserved(p)
  BY <1>1, HoldsOn DEF AfterLocalBind, Reserved, InBinding
<1>3. target'[p] \in Node
  BY DEF AfterLocalBind, CacheInv, Shape, InBinding
<1> QED
  BY <1>1, <1>2, <1>3, WorkStep DEF Goto, Stage, InBinding

-----------------------------------------------------------------------------
(* The end of an attempt: the pod is bound, or waits with a new condition. *)

LEMMA BoundStep ==
  ASSUME CacheInv, NEW p \in Pod, AfterLocalBind(p),
         NEW n \in Node, NEW ids, NEW reason \in {known[p], store[p].reason},
         WriteBound(p, n, ids, reason),
         GpuMem[p] > 0 => n = copies[p].node /\ ids = copies[p].ids,
         \/ copies' = copies
         \/ GpuMem[p] > 0 /\ copies' = [copies EXCEPT ![p] = NoCopy],
         UNCHANGED <<pos, awaited, retries, known, podMap, target>>
  PROVE  CacheInv'
<1> USE DEF CacheInv
<1>1. /\ stage'[p] = "idle" /\ \A q \in Pod : q # p => stage'[q] = stage[q]
      /\ stage' \in [Pod -> Stage]
  BY DEF WriteBound, Goto, Shape, Stage
<1>2. /\ store'[p] = [node |-> n, ids |-> ids, reason |-> reason]
      /\ \A q \in Pod : q # p => store'[q] = store[q]
      /\ store' = [q \in Pod |-> store'[q]]
  <2>1. store = [q \in Pod |-> store[q]]
    BY DEF Shape
  <2> QED
    BY <2>1 DEF WriteBound
<1>3. /\ \A q \in Pod : q # p => copies'[q] = copies[q]
      /\ copies' = [q \in Pod |-> copies'[q]]
      /\ copies'[p] = copies[p] \/ copies'[p] = NoCopy
  BY DEF Shape
<1>4. Busy(p) /\ stage[p] # "idle" /\ stage[p] # "waiting"
  BY DEF AfterLocalBind, Busy
<1>5. Shape'
  <2>1. store' = [q \in Pod |-> [node |-> store'[q].node, ids |-> store'[q].ids,
                                 reason |-> store'[q].reason]]
    <3>1. \A q \in Pod : store'[q] = [node |-> store'[q].node, ids |-> store'[q].ids,
                                      reason |-> store'[q].reason]
      BY <1>2 DEF Shape
    <3> QED
      BY <1>2, <3>1
  <2>2. copies' = [q \in Pod |-> [node |-> copies'[q].node, ids |-> copies'[q].ids]]
    <3>1. \A q \in Pod : copies'[q] = [node |-> copies'[q].node, ids |-> copies'[q].ids]
      BY <1>3 DEF Shape, NoCopy
    <3> QED
      BY <1>3, <3>1
  <2>3. \A q \in Pod : /\ store'[q].node \in Node \cup {Absent, Unbound}
                       /\ copies'[q].node \in Node \cup {Unbound}
    BY <1>2, <1>3 DEF Shape, NoCopy
  <2>4. \A q \in Pod : stage'[q] \in OnLoop \cup InBinding => target'[q] \in Node
    BY <1>1 DEF Shape, OnLoop, InBinding
  <2>5. \A q \in Pod : Reserved(q)' => copies'[q].node \in Node
    BY <1>1, <1>3 DEF Shape, Reserved, InBinding
  <2> QED
    BY <1>1, <2>1, <2>2, <2>3, <2>4, <2>5 DEF Shape, Devs
<1>6. Unplaced'
  <2>1. Created(p)
    BY <1>4 DEF Unplaced
  <2> QED
    BY <1>1, <1>2, <2>1 DEF Unplaced, Plain, Created
<1>7. Counted'
  <2>1. \A q \in Pod : q # p => Holding(q)' = Holding(q)
    BY <1>1, <1>2, <1>3, OthersHold
  <2>2. Holding(p)' = Holding(p)
    <3>1. ~Reserved(p)' /\ store'[p].node \in Node
      BY <1>1, <1>2 DEF Reserved, InBinding
    <3>2. CASE GpuMem[p] > 0
      <4>1. Reserved(p)
        BY <3>2 DEF Reserved, AfterLocalBind, InBinding
      <4>2. copies[p] = [node |-> n, ids |-> ids]
        BY <3>2 DEF Shape
      <4>3. [node |-> store'[p].node, ids |-> store'[p].ids] = [node |-> n, ids |-> ids]
        BY <1>2
      <4> QED
        BY <3>1, <3>2, <4>1, <4>2, <4>3 DEF Holding
    <3>3. CASE ~(GpuMem[p] > 0)
      BY <3>3 DEF Holding, Reserved, NoCopy
    <3> QED
      BY <3>2, <3>3
  <2>3. \A q \in Pod : LeftOver(q) => LeftOver(q)'
    BY <1>1, <1>2, <1>4 DEF LeftOver
  <2>4. \A q \in Pod : Created(q) => Created(q)'
    BY DEF Created
  <2> QED
    BY <2>1, <2>2, <2>3, <2>4, CountedFrame
<1>8. Flow'
  <2>1. ASSUME retries = 0
        PROVE  p = awaited /\ tokens = <<>> /\ reason = "none"
    BY <1>4, <2>1 DEF Flow
  <2>2. ASSUME retries = 0, NEW q \in Pod PROVE ~Busy(q)'
    BY <1>1, <2>1, <2>2 DEF Flow, Busy
  <2>3. retries = 0 => tokens' = <<"none">>
    BY <2>1 DEF WriteBound
  <2> QED
    BY <2>1, <2>2, <2>3, GpuShareAssumptions DEF Flow, GpuShareAssumptions
<1> QED
  BY <1>5, <1>6, <1>7, <1>8

LEMMA BindStep ==
  ASSUME CacheInv, NEW p \in Pod, Bind(p) \/ BindNoGpu(p)
  PROVE  CacheInv'
<1> USE DEF callerVars, cacheVars, pluginVars
<1>1. CASE Bind(p)
  <2>1. Reserved(p)
    BY <1>1 DEF Bind, AfterLocalBind, Reserved, InBinding
  <2>2. copies[p].node \in Node
    BY <2>1 DEF CacheInv, Shape
  <2>3. CASE WriteBound(p, copies[p].node, copies[p].ids, known[p])
             /\ copies' = [copies EXCEPT ![p] = NoCopy]
    BY <1>1, <2>2, <2>3, BoundStep DEF Bind
  <2>4. CASE Goto(p, "rejected") /\ UNCHANGED <<store, tokens, copies>>
    BY <1>1, <2>4, RejectStep DEF Bind
  <2> QED
    BY <1>1, <2>3, <2>4 DEF Bind
<1>2. CASE BindNoGpu(p)
  <2>1. target[p] \in Node /\ ~(GpuMem[p] > 0)
    BY <1>2 DEF BindNoGpu, AfterLocalBind, InBinding, CacheInv, Shape
  <2>2. CASE WriteBound(p, target[p], <<>>, store[p].reason)
    BY <1>2, <2>1, <2>2, BoundStep DEF BindNoGpu
  <2>3. CASE Goto(p, "rejected") /\ UNCHANGED <<store, tokens>>
    BY <1>2, <2>3, RejectStep DEF BindNoGpu
  <2> QED
    BY <1>2, <2>2, <2>3 DEF BindNoGpu
<1> QED
  BY <1>1, <1>2

LEMMA WaitStep ==
  ASSUME CacheInv, NEW p \in Pod, Busy(p), ~Reserved(p),
         NEW reason \in {"Unschedulable", "SchedulerError"},
         stage' = [stage EXCEPT ![p] = "waiting"], PatchCondition(p, reason),
         UNCHANGED <<pos, awaited, retries, podMap, copies, target>>
  PROVE  CacheInv'
<1> USE DEF CacheInv
<1>1. /\ stage'[p] = "waiting" /\ \A q \in Pod : q # p => stage'[q] = stage[q]
      /\ stage' \in [Pod -> Stage]
      /\ known' = [q \in Pod |-> known'[q]] /\ \A q \in Pod : q # p => known'[q] = known[q]
  BY DEF Shape, Stage, PatchCondition
<1>2. /\ \A q \in Pod : q # p => store'[q] = store[q]
      /\ store'[p].node = store[p].node
      /\ store' = [q \in Pod |-> [node |-> store'[q].node, ids |-> store'[q].ids,
                                  reason |-> store'[q].reason]]
  <2>1. CASE store' = store
    BY <2>1 DEF Shape
  <2>2. CASE store' = [store EXCEPT ![p].reason = reason]
    <3>1. store = [q \in Pod |-> store[q]]
      BY DEF Shape
    <3>2. store' = [store EXCEPT ![p] = [store[p] EXCEPT !.reason = reason]]
      BY <2>2, <3>1
    <3>3. [store[p] EXCEPT !.reason = reason]
             = [node |-> store[p].node, ids |-> store[p].ids, reason |-> reason]
      BY DEF Shape
    <3>4. /\ \A q \in Pod : q # p => store'[q] = store[q]
          /\ store'[p] = [node |-> store[p].node, ids |-> store[p].ids, reason |-> reason]
          /\ store' = [q \in Pod |-> store'[q]]
      BY <3>1, <3>2, <3>3
    <3>5. ASSUME NEW q \in Pod
          PROVE  store'[q] = [node |-> store'[q].node, ids |-> store'[q].ids,
                              reason |-> store'[q].reason]
      <4>1. CASE q = p
        <5>1. /\ store'[p].node = store[p].node /\ store'[p].ids = store[p].ids
              /\ store'[p].reason = reason
          BY <3>4
        <5> QED
          BY <3>4, <4>1, <5>1
      <4>2. CASE q # p
        BY <3>4, <4>2 DEF Shape
      <4> QED
        BY <4>1, <4>2
    <3> QED
      BY <3>4, <3>5
  <2> QED
    BY <2>1, <2>2 DEF PatchCondition
<1>3. Busy(p) /\ stage[p] # "idle" /\ stage[p] # "waiting"
  BY DEF Busy
<1>4. Shape'
  <2>1. \A q \in Pod : store'[q].node \in Node \cup {Absent, Unbound}
    BY <1>2 DEF Shape
  <2>2. \A q \in Pod : stage'[q] \in OnLoop \cup InBinding => target'[q] \in Node
    BY <1>1 DEF Shape, OnLoop, InBinding
  <2>3. \A q \in Pod : Reserved(q)' => copies'[q].node \in Node
    BY <1>1 DEF Shape, Reserved, InBinding
  <2> QED
    BY <1>1, <1>2, <2>1, <2>2, <2>3 DEF Shape, Devs
<1>5. Unplaced'
  <2>1. Created(p) /\ Plain(p) /\ store[p].node \in {Absent, Unbound}
    BY <1>3 DEF Unplaced
  <2> QED
    BY <1>1, <1>2, <2>1 DEF Unplaced, Plain, Created
<1>6. Counted'
  <2>1. \A q \in Pod : q # p => Holding(q)' = Holding(q)
    BY <1>1, <1>2, OthersHold
  <2>2. Holding(p)' = Holding(p)
    <3>1. store'[p].node \notin Node /\ store[p].node \notin Node
      BY <1>2, <1>3, GpuShareAssumptions DEF Unplaced, GpuShareAssumptions
    <3>2. ~Reserved(p)'
      BY <1>1 DEF Reserved, InBinding
    <3> QED
      BY <3>1, <3>2 DEF Holding, NoCopy
  <2>3. \A q \in Pod : LeftOver(q) => LeftOver(q)'
    BY <1>1, <1>2, <1>3 DEF LeftOver
  <2>4. \A q \in Pod : Created(q) => Created(q)'
    BY DEF Created
  <2> QED
    BY <2>1, <2>2, <2>3, <2>4, CountedFrame
<1>7. Flow'
  <2>1. ASSUME retries = 0 PROVE p = awaited /\ tokens = <<>>
    BY <1>3, <2>1 DEF Flow
  <2>2. ASSUME retries = 0, NEW q \in Pod PROVE ~Busy(q)'
    BY <1>1, <2>1, <2>2 DEF Flow, Busy
  <2>3. retries = 0 => tokens' = <<>> \/ tokens' = <<reason>>
    BY <2>1 DEF PatchCondition
  <2> QED
    BY <1>1, <2>1, <2>2, <2>3, GpuShareAssumptions DEF Flow, GpuShareAssumptions
<1> QED
  BY <1>4, <1>5, <1>6, <1>7

LEMMA FailStep ==
  ASSUME CacheInv, NEW p \in Pod, FitsNowhere(p) \/ RecordBindError(p)
  PROVE  CacheInv'
<1>1. Busy(p) /\ ~Reserved(p)
  BY DEF FitsNowhere, RecordBindError, Busy, Reserved, InBinding
<1> QED
  BY <1>1, WaitStep DEF FitsNowhere, RecordBindError, Goto, cacheVars, pluginVars

-----------------------------------------------------------------------------
(* A pod comes back by a timer.                                            *)

LEMMA RetryStep ==
  ASSUME CacheInv, NEW p \in Pod, Retry(p)
  PROVE  CacheInv'
<1> USE DEF CacheInv, callerVars, cacheVars, pluginVars
<1>1. /\ stage'[p] = "queued" /\ \A q \in Pod : q # p => stage'[q] = stage[q]
      /\ stage' \in [Pod -> Stage] /\ stage[p] = "waiting"
  BY DEF Retry, Goto, Shape, Stage
<1>2. retries' \in Nat /\ retries' > 0
  BY DEF Retry, Shape
<1>3. Shape'
  <2>1. \A q \in Pod : stage'[q] \in OnLoop \cup InBinding => target'[q] \in Node
    BY <1>1 DEF Shape, OnLoop, InBinding, Retry
  <2>2. \A q \in Pod : Reserved(q)' => copies'[q].node \in Node
    BY <1>1 DEF Shape, Reserved, InBinding, Retry
  <2> QED
    BY <1>1, <1>2, <2>1, <2>2 DEF Shape, Devs, Retry
<1>4. Unplaced'
  BY <1>1 DEF Unplaced, Plain, Created, Retry
<1>5. Counted'
  <2>1. \A q \in Pod : q # p => Holding(q)' = Holding(q)
    BY <1>1, OthersHold DEF Retry
  <2>2. Holding(p)' = Holding(p)
    BY <1>1, HoldsOn DEF Reserved, InBinding, Retry
  <2>3. \A q \in Pod : LeftOver(q) => LeftOver(q)'
    BY <1>1, <1>2 DEF LeftOver, Retry
  <2>4. \A q \in Pod : Created(q) => Created(q)'
    BY DEF Created, Retry
  <2> QED
    BY <2>1, <2>2, <2>3, <2>4, CountedFrame DEF Retry
<1>6. Flow'
  BY <1>2 DEF Flow
<1> QED
  BY <1>3, <1>4, <1>5, <1>6

-----------------------------------------------------------------------------
(* Reserve gives devices to a pod that holds none, Unreserve takes exactly *)
(* those away.                                                             *)

LEMMA NotCounted ==
  ASSUME Counted, NEW p \in Pod, stage[p] # "idle", Holding(p) = NoCopy,
         NEW n \in Node, NEW d \in Devs(n), NEW r \in podMap[n][d]
  PROVE  r.pod # p
<1>1. ~HoldsDevice(p, n, d)
  BY NothingOnNodes
<1>2. ~LeftOver(p)
  BY DEF LeftOver
<1> QED
  BY <1>1, <1>2 DEF Counted

LEMMA ReserveStep ==
  ASSUME CacheInv, NEW p \in Pod, Reserve(p)
  PROVE  CacheInv'
<1> USE DEF CacheInv
<1> DEFINE n == target[p]
           copy == [node |-> n, ids |-> AllocateGpuId(p, n)]
<1>1. /\ stage'[p] = "reserving" /\ \A q \in Pod : q # p => stage'[q] = stage[q]
      /\ stage' \in [Pod -> Stage] /\ stage[p] = "chosen"
  BY DEF Reserve, Shape, Stage, OnLoop
<1>2. /\ n \in Node
      /\ UNCHANGED <<pos, awaited, tokens, store, target, retries, known>>
  BY <1>1 DEF Reserve, Shape, OnLoop, callerVars
<1>3. /\ copies'[p] = copy /\ \A q \in Pod : q # p => copies'[q] = copies[q]
      /\ copies' = [q \in Pod |-> copies'[q]]
  BY DEF Reserve, Shape
<1>4. Busy(p)
  BY <1>1 DEF Busy
<1>5. Shape'
  <2>1. ASSUME NEW q \in Pod
        PROVE  /\ copies'[q] = [node |-> copies'[q].node, ids |-> copies'[q].ids]
               /\ copies'[q].node \in Node \cup {Unbound}
    <3>1. CASE q = p
      BY <1>2, <1>3, <3>1
    <3>2. CASE q # p
      BY <1>3, <3>2 DEF Shape
    <3> QED
      BY <3>1, <3>2
  <2>2. copies' = [q \in Pod |-> [node |-> copies'[q].node, ids |-> copies'[q].ids]]
    BY <1>3, <2>1
  <2>3. \A q \in Pod : stage'[q] \in OnLoop \cup InBinding => target'[q] \in Node
    BY <1>1, <1>2 DEF Shape
  <2>4. ASSUME NEW q \in Pod, Reserved(q)'
        PROVE  copies'[q].node \in Node
    <3>1. CASE q = p
      BY <1>2, <1>3, <3>1
    <3>2. CASE q # p
      BY <1>1, <1>3, <2>4, <3>2 DEF Shape, Reserved
    <3> QED
      BY <3>1, <3>2
  <2>5. podMap' = [m \in Node |-> [d \in Devs(m) |-> podMap'[m][d]]]
    BY <1>2 DEF Reserve, AddOrUpdatePod, Shape, Devs
  <2> QED
    BY <1>1, <1>2, <2>1, <2>2, <2>3, <2>4, <2>5 DEF Shape, Devs
<1>6. Unplaced'
  BY <1>1, <1>2 DEF Unplaced, Plain, Created
<1>7. Counted'
  <2>1. \A q \in Pod : q # p => Holding(q)' = Holding(q)
    BY <1>1, <1>2, <1>3, OthersHold
  <2>2. Holding(p) = NoCopy
    <3>1. ~Reserved(p)
      BY <1>1 DEF Reserved, InBinding
    <3> QED
      BY <1>1, <3>1, HoldsNothing
  <2>3. Holding(p)' = copy
    <3>1. Reserved(p)'
      BY <1>1 DEF Reserved, Reserve
    <3> QED
      BY <1>3, <3>1 DEF Holding
  <2>4. Plain(p) /\ Created(p)
    BY <1>1 DEF Unplaced
  <2>5. ASSUME NEW m \in Node, NEW d \in Devs(m)
        PROVE  podMap'[m][d] = IF m = n /\ d \in On(copy)
                               THEN podMap[m][d] \cup {Entry(p, copy)}
                               ELSE podMap[m][d]
    <3>1. {r \in podMap[m][d] : r.pod # p} = podMap[m][d]
      BY <1>1, <2>2, NotCounted
    <3>2. podMap'[m][d] = IF m = n /\ d \in On(copy)
                          THEN {r \in podMap[m][d] : r.pod # p} \cup {Entry(p, copy)}
                          ELSE podMap[m][d]
      <4> HIDE DEF copy
      <4>1. copy.node = n
        BY DEF copy
      <4>2. podMap' = [podMap EXCEPT ![n] =
                          [e \in Devs(n) |->
                             IF e \in On(copy)
                             THEN {r \in @[e] : r.pod # p} \cup {Entry(p, copy)}
                             ELSE @[e]]]
        BY <4>1 DEF Reserve, AddOrUpdatePod, copy
      <4> HIDE DEF n
      <4> QED
        BY <1>2, <4>2 DEF Shape
    <3> QED
      BY <3>1, <3>2
  <2>6. \A m : \A d \in Devs(m) : HoldsDevice(p, m, d)' <=> m = n /\ d \in On(copy)
    BY <2>3 DEF HoldsDevice, On
  <2>7. Entry(p, copy).pod = p
    BY DEF Entry
  <2>8. \A q \in Pod : (Created(q) => Created(q)') /\ (LeftOver(q) => LeftOver(q)')
    BY <1>1, <1>2 DEF Created, LeftOver
  <2>9. ASSUME NEW m \in Node, NEW d \in Devs(m), NEW q \in Pod,
               Plain(q), HoldsDevice(q, m, d)'
        PROVE  Entry(q, Holding(q)') \in podMap'[m][d]
    <3>1. CASE q = p
      BY <2>3, <2>5, <2>6, <2>9, <3>1
    <3>2. CASE q # p
      <4>1. HoldsDevice(q, m, d) /\ Holding(q)' = Holding(q)
        BY <2>1, <2>9, <3>2 DEF HoldsDevice
      <4>2. Entry(q, Holding(q)) \in podMap[m][d]
        BY <2>9, <4>1 DEF Counted
      <4> QED
        BY <2>5, <4>1, <4>2
    <3> QED
      BY <3>1, <3>2
  <2>10. ASSUME NEW m \in Node, NEW d \in Devs(m), NEW r \in podMap'[m][d]
         PROVE  /\ r.pod \in Pod /\ Created(r.pod)' /\ Plain(r.pod)
                /\ \/ HoldsDevice(r.pod, m, d)' /\ r = Entry(r.pod, Holding(r.pod)')
                   \/ LeftOver(r.pod)'
    <3>1. CASE r \in podMap[m][d]
      <4>1. r.pod # p
        BY <1>1, <2>2, <3>1, NotCounted
      <4>2. /\ r.pod \in Pod /\ Created(r.pod) /\ Plain(r.pod)
            /\ \/ HoldsDevice(r.pod, m, d) /\ r = Entry(r.pod, Holding(r.pod))
               \/ LeftOver(r.pod)
        BY <3>1 DEF Counted
      <4> QED
        BY <2>1, <2>8, <4>1, <4>2 DEF HoldsDevice
    <3>2. CASE m = n /\ d \in On(copy) /\ r = Entry(p, copy)
      BY <2>3, <2>4, <2>6, <2>7, <2>8, <3>2
    <3> QED
      BY <2>5, <3>1, <3>2
  <2> HIDE DEF copy, n
  <2> QED
    BY <2>9, <2>10 DEF Counted, Devs, Plain, Entry
<1>8. Flow'
  <2>1. \A q \in Pod : Busy(q)' => Busy(q)
    BY <1>1 DEF Busy
  <2>2. retries = 0 => tokens = <<>>
    BY <1>4 DEF Flow
  <2> QED
    BY <1>2, <2>1, <2>2 DEF Flow
<1> QED
  BY <1>5, <1>6, <1>7, <1>8

LEMMA UnreserveStep ==
  ASSUME CacheInv, NEW p \in Pod, Unreserve(p)
  PROVE  CacheInv'
<1> USE DEF CacheInv
<1> DEFINE copy == copies[p]
<1>1. /\ stage'[p] = "unreserving" /\ \A q \in Pod : q # p => stage'[q] = stage[q]
      /\ stage' \in [Pod -> Stage] /\ stage[p] = "rejected"
  BY DEF Unreserve, Goto, Shape, Stage
<1>2. UNCHANGED <<pos, awaited, tokens, store, target, retries, known, copies>>
  BY DEF Unreserve, callerVars
<1>3. Busy(p)
  BY <1>1 DEF Busy
<1>4. Holding(p)' = NoCopy
  <2>1. stage'[p] # "idle" /\ ~Reserved(p)'
    BY <1>1 DEF Reserved, InBinding
  <2>2. store'[p].node \notin Node
    BY <1>1, <1>2, GpuShareAssumptions DEF Unplaced, GpuShareAssumptions
  <2> QED
    BY <2>1, <2>2 DEF Holding
<1>5. Shape'
  <2>1. \A q \in Pod : stage'[q] \in OnLoop \cup InBinding => target'[q] \in Node
    BY <1>1, <1>2 DEF Shape, OnLoop, InBinding
  <2>2. \A q \in Pod : Reserved(q)' => copies'[q].node \in Node
    BY <1>1, <1>2 DEF Shape, Reserved, InBinding
  <2>3. podMap' = [m \in Node |-> [d \in Devs(m) |-> podMap'[m][d]]]
    BY DEF Unreserve, RemovePod, Shape, Devs
  <2> QED
    BY <1>1, <1>2, <2>1, <2>2, <2>3 DEF Shape, Devs
<1>6. Unplaced'
  BY <1>1, <1>2 DEF Unplaced, Plain, Created
<1>7. Counted'
  <2>1. \A q \in Pod : q # p => Holding(q)' = Holding(q)
    BY <1>1, <1>2, OthersHold
  <2>2. ASSUME NEW m \in Node, NEW d \in Devs(m)
        PROVE  podMap'[m][d] = IF m = copy.node /\ d \in On(copy)
                               THEN {r \in podMap[m][d] : r.pod # p}
                               ELSE podMap[m][d]
    BY DEF Unreserve, RemovePod, Shape
  <2>3. ASSUME NEW m \in Node, NEW d \in Devs(m), NEW r \in podMap'[m][d]
        PROVE  r \in podMap[m][d] /\ r.pod # p
    <3>1. r \in podMap[m][d]
      BY <2>2, <2>3
    <3>2. ASSUME r.pod = p PROVE FALSE
      <4>1. ~LeftOver(p)
        BY <1>1 DEF LeftOver
      <4>2. HoldsDevice(p, m, d)
        BY <3>1, <3>2, <4>1 DEF Counted
      <4>3. Reserved(p)
        <5>1. Holding(p) # NoCopy
          BY <4>2, NothingOnNodes
        <5> QED
          BY <1>1, <5>1, HoldsNothing
      <4>4. Holding(p) = copy
        BY <4>3 DEF Holding
      <4>5. m = copy.node /\ d \in On(copy)
        BY <4>2, <4>4 DEF HoldsDevice, On
      <4> QED
        BY <2>2, <2>3, <3>2, <4>5
    <3> QED
      BY <3>1, <3>2
  <2>4. \A q \in Pod : (Created(q) => Created(q)') /\ (LeftOver(q) => LeftOver(q)')
    BY <1>1, <1>2 DEF Created, LeftOver
  <2>5. ASSUME NEW m \in Node, NEW d \in Devs(m), NEW q \in Pod,
               Plain(q), HoldsDevice(q, m, d)'
        PROVE  Entry(q, Holding(q)') \in podMap'[m][d]
    <3>1. q # p
      <4>1. ~HoldsDevice(p, m, d)'
        BY <1>4, GpuShareAssumptions DEF HoldsDevice, NoCopy, GpuShareAssumptions
      <4> QED
        BY <2>5, <4>1
    <3>2. HoldsDevice(q, m, d) /\ Holding(q)' = Holding(q)
      BY <2>1, <2>5, <3>1 DEF HoldsDevice
    <3>3. Entry(q, Holding(q)) \in podMap[m][d]
      BY <2>5, <3>2 DEF Counted
    <3>4. Entry(q, Holding(q)).pod # p
      BY <3>1 DEF Entry
    <3>5. Entry(q, Holding(q)) \in podMap'[m][d]
      <4> DEFINE e == Entry(q, Holding(q))
      <4>1. e \in podMap[m][d] /\ e.pod # p
        BY <3>3, <3>4
      <4> HIDE DEF e
      <4>2. e \in podMap'[m][d]
        BY <2>2, <4>1
      <4> QED
        BY <4>2 DEF e
    <3> QED
      BY <3>2, <3>5
  <2>6. ASSUME NEW m \in Node, NEW d \in Devs(m), NEW r \in podMap'[m][d]
        PROVE  /\ r.pod \in Pod /\ Created(r.pod)' /\ Plain(r.pod)
               /\ \/ HoldsDevice(r.pod, m, d)' /\ r = Entry(r.pod, Holding(r.pod)')
                  \/ LeftOver(r.pod)'
    <3>1. r \in podMap[m][d] /\ r.pod # p
      BY <2>3
    <3>2. /\ r.pod \in Pod /\ Created(r.pod) /\ Plain(r.pod)
          /\ \/ HoldsDevice(r.pod, m, d) /\ r = Entry(r.pod, Holding(r.pod))
             \/ LeftOver(r.pod)
      BY <3>1 DEF Counted
    <3> QED
      BY <2>1, <2>4, <3>1, <3>2 DEF HoldsDevice
  <2> QED
    BY <2>5, <2>6 DEF Counted, Devs, Plain, Entry
<1>8. Flow'
  <2>1. \A q \in Pod : Busy(q)' => Busy(q)
    BY <1>1 DEF Busy
  <2>2. retries = 0 => tokens = <<>>
    BY <1>3 DEF Flow
  <2> QED
    BY <1>2, <2>1, <2>2 DEF Flow
<1> QED
  BY <1>5, <1>6, <1>7, <1>8

-----------------------------------------------------------------------------
(* schedulePods creates a pod, or receives a token and may delete one.     *)

\* No name is given twice.
LEMMA NextIsNew ==
  ASSUME Shape, pos + 1 \in 1..Len(Workload)
  PROVE  ~Created(Workload[pos + 1])
<1>1. pos \in Nat
  BY DEF Shape
<1>2. IsInjective(Workload) /\ DOMAIN Workload = 1..Len(Workload)
  BY GpuShareAssumptions DEF GpuShareAssumptions
<1>3. \A i \in 1..pos : Workload[i] # Workload[pos + 1]
  BY <1>1, <1>2 DEF IsInjective
<1> QED
  BY <1>3 DEF Created

LEMMA CreateStep ==
  ASSUME CacheInv, CreatePod
  PROVE  CacheInv'
<1> USE DEF CacheInv
<1>0. /\ pos + 1 \in 1..Len(Workload) /\ pos' = pos + 1
      /\ awaited = NoPod /\ Workload[pos + 1] \in Pod
  BY GpuShareAssumptions DEF CreatePod, Shape, GpuShareAssumptions
\* The pod, whatever pos is afterwards.
<1> PICK p \in Pod : p = Workload[pos + 1]
  BY <1>0
<1>1. /\ p = Workload[pos + 1] /\ pos + 1 \in 1..Len(Workload) /\ pos' = pos + 1
      /\ awaited = NoPod
  BY <1>0
<1>2. ~Created(p)
  BY <1>1, NextIsNew DEF CacheInv
<1>3. /\ stage[p] = "idle" /\ store[p].node = Absent /\ store[p].reason = "none"
      /\ known[p] = "none"
  BY <1>1, <1>2 DEF Unplaced
<1>4. \A q \in Pod : Created(q)' <=> Created(q) \/ q = p
  BY <1>1 DEF Created, Shape
<1>5. UNCHANGED <<tokens, target, retries, known, podMap, copies>>
  BY DEF CreatePod, cacheVars, pluginVars
<1>6. store' = [store EXCEPT ![p].node = NodeName[p]]
  BY <1>1 DEF CreatePod
<1>7. /\ \A q \in Pod : q # p => store'[q] = store[q]
      /\ store'[p] = [node |-> NodeName[p], ids |-> store[p].ids, reason |-> "none"]
      /\ store' = [q \in Pod |-> store'[q]]
  <2>1. store = [q \in Pod |-> store[q]]
    BY DEF Shape
  <2>2. store' = [store EXCEPT ![p] = [store[p] EXCEPT !.node = NodeName[p]]]
    BY <1>1, <1>6, <2>1
  <2>3. [store[p] EXCEPT !.node = NodeName[p]]
           = [node |-> NodeName[p], ids |-> store[p].ids, reason |-> store[p].reason]
    BY <1>1 DEF Shape
  <2> QED
    BY <1>1, <1>3, <2>1, <2>2, <2>3
<1>8. \/ /\ NodeName[p] = Unbound /\ awaited' = p
         /\ stage' = [stage EXCEPT ![p] = "queued"]
      \/ NodeName[p] # Unbound /\ UNCHANGED <<awaited, stage>>
  BY <1>1 DEF CreatePod
<1>9. /\ \A q \in Pod : q # p => stage'[q] = stage[q]
      /\ stage' \in [Pod -> Stage]
      /\ stage'[p] = IF NodeName[p] = Unbound THEN "queued" ELSE "idle"
  BY <1>1, <1>3, <1>8 DEF Shape, Stage
<1>10. NodeName[p] \in Node \cup {Unbound}
  BY <1>1, GpuShareAssumptions DEF GpuShareAssumptions
<1>11. Shape'
  <2>1. ASSUME NEW q \in Pod
        PROVE  /\ store'[q] = [node |-> store'[q].node, ids |-> store'[q].ids,
                               reason |-> store'[q].reason]
               /\ store'[q].node \in Node \cup {Absent, Unbound}
    <3>1. CASE q = p
      <4>1. /\ store'[p].node = NodeName[p] /\ store'[p].ids = store[p].ids
            /\ store'[p].reason = "none"
        BY <1>7
      <4> QED
        BY <1>7, <1>10, <3>1, <4>1
    <3>2. CASE q # p
      BY <1>7, <3>2 DEF Shape
    <3> QED
      BY <3>1, <3>2
  <2>2. store' = [q \in Pod |-> [node |-> store'[q].node, ids |-> store'[q].ids,
                                 reason |-> store'[q].reason]]
    BY <1>7, <2>1
  <2>3. \A q \in Pod : stage'[q] \in OnLoop \cup InBinding => target'[q] \in Node
    BY <1>5, <1>9 DEF Shape, OnLoop, InBinding
  <2>4. \A q \in Pod : Reserved(q)' => copies'[q].node \in Node
    BY <1>5, <1>9 DEF Shape, Reserved, InBinding
  <2>5. pos' \in 0..Len(Workload) /\ awaited' \in Pod \cup {NoPod}
    BY <1>1, <1>8 DEF Shape
  <2> QED
    BY <1>5, <1>9, <2>1, <2>2, <2>3, <2>4, <2>5 DEF Shape, Devs
<1>12. Unplaced'
  <2>1. ASSUME NEW q \in Pod
        PROVE  /\ stage'[q] # "idle" =>
                     /\ store'[q].node \in {Absent, Unbound}
                     /\ Plain(q) /\ Created(q)'
               /\ ~Created(q)' => /\ store'[q].node = Absent /\ store'[q].reason = "none"
                                   /\ known'[q] = "none"
    <3>1. CASE q = p
      BY <1>4, <1>7, <1>9, <3>1 DEF Plain
    <3>2. CASE q # p
      BY <1>4, <1>5, <1>7, <1>9, <3>2 DEF Unplaced
    <3> QED
      BY <3>1, <3>2
  <2> QED
    BY <2>1 DEF Unplaced, Plain
<1>13. Counted'
  <2>1. \A q \in Pod : q # p => Holding(q)' = Holding(q)
    BY <1>5, <1>7, <1>9, OthersHold
  <2>2. ASSUME Plain(p) PROVE Holding(p)' = Holding(p)
    <3>1. store'[p].node \notin Node /\ store[p].node \notin Node
      BY <1>3, <1>7, <2>2, GpuShareAssumptions DEF Plain, GpuShareAssumptions
    <3>2. ~Reserved(p) /\ ~Reserved(p)'
      BY <1>3, <1>9 DEF Reserved, InBinding
    <3> QED
      BY <3>1, <3>2 DEF Holding, NoCopy
  <2>3. \A q \in Pod : Created(q) => Created(q)'
    BY <1>4
  \* Entries are of pods created before, so not of p.
  <2>4. ASSUME NEW n \in Node, NEW d \in Devs(n), NEW r \in podMap[n][d]
        PROVE  r.pod # p
    BY <1>2, <2>4 DEF Counted
  <2>5. \A q \in Pod : q # p /\ LeftOver(q) => LeftOver(q)'
    BY <1>5, <1>7, <1>9 DEF LeftOver
  <2>6. ASSUME NEW n \in Node, NEW d \in Devs(n), NEW q \in Pod,
               Plain(q), HoldsDevice(q, n, d)'
        PROVE  Entry(q, Holding(q)') \in podMap'[n][d]
    <3>1. Holding(q)' = Holding(q)
      BY <2>1, <2>2, <2>6
    <3>2. HoldsDevice(q, n, d)
      BY <2>6, <3>1 DEF HoldsDevice
    <3> QED
      BY <1>5, <2>6, <3>1, <3>2 DEF Counted
  <2>7. ASSUME NEW n \in Node, NEW d \in Devs(n), NEW r \in podMap'[n][d]
        PROVE  /\ r.pod \in Pod /\ Created(r.pod)' /\ Plain(r.pod)
               /\ \/ HoldsDevice(r.pod, n, d)' /\ r = Entry(r.pod, Holding(r.pod)')
                  \/ LeftOver(r.pod)'
    <3>1. r \in podMap[n][d]
      BY <1>5
    <3>2. /\ r.pod \in Pod /\ Created(r.pod) /\ Plain(r.pod) /\ r.pod # p
          /\ \/ HoldsDevice(r.pod, n, d) /\ r = Entry(r.pod, Holding(r.pod))
             \/ LeftOver(r.pod)
      BY <2>4, <3>1 DEF Counted
    <3> QED
      BY <2>1, <2>3, <2>5, <3>2 DEF HoldsDevice
  <2> QED
    BY <2>6, <2>7 DEF Counted, Devs, Plain, Entry
<1>14. Flow'
  <2>1. ASSUME retries = 0
        PROVE  tokens = <<>> /\ \A q \in Pod : ~Busy(q)
    BY <1>1, <2>1, GpuShareAssumptions DEF Flow, GpuShareAssumptions
  <2>2. ASSUME retries = 0, NEW q \in Pod, Busy(q)'
        PROVE  q = p /\ NodeName[p] = Unbound
    BY <1>9, <2>1, <2>2 DEF Busy
  <2>3. ASSUME retries = 0, NEW q \in Pod, Busy(q)'
        PROVE  /\ q = awaited' /\ store'[q].reason = "none"
               /\ store'[q].node = Unbound /\ known'[q] = "none"
    BY <1>3, <1>5, <1>7, <1>8, <2>2, <2>3
  <2> QED
    BY <1>5, <2>1, <2>3 DEF Flow
<1> QED
  BY <1>11, <1>12, <1>13, <1>14

LEMMA ReceiveStep ==
  ASSUME CacheInv, Receive
  PROVE  CacheInv'
<1> USE DEF CacheInv
\* The pod that was waited for, whatever awaited is afterwards.
<1> PICK p \in Pod : p = awaited
  BY DEF Receive, Shape
<1>1. p = awaited /\ awaited' = NoPod /\ tokens # <<>> /\ tokens' = Tail(tokens)
  BY DEF Receive
<1>2. UNCHANGED <<pos, target, retries, known, podMap, copies>>
  BY DEF Receive, cacheVars, pluginVars
<1>3. \A q \in Pod : Created(q)' <=> Created(q)
  BY <1>2 DEF Created
<1>4. ASSUME retries = 0
      PROVE  /\ tokens' = <<>> /\ \A q \in Pod : ~Busy(q)
             /\ Head(tokens) = "Unschedulable" => stage[p] = "waiting"
  BY <1>1, <1>4 DEF Flow
<1>5. CASE UNCHANGED <<store, stage>>
  <2>1. Shape'
    BY <1>1, <1>2, <1>5 DEF Shape, Devs, Reserved
  <2>2. Unplaced'
    BY <1>2, <1>3, <1>5 DEF Unplaced, Plain
  <2>3. Counted'
    <3>1. \A q \in Pod : /\ Holding(q)' = Holding(q)
                         /\ LeftOver(q) => LeftOver(q)'
      BY <1>2, <1>5, OthersHold DEF LeftOver
    <3> QED
      BY <1>2, <1>3, <3>1, CountedFrame
  <2>4. Flow'
    BY <1>2, <1>4, <1>5 DEF Flow, Busy
  <2> QED
    BY <2>1, <2>2, <2>3, <2>4
<1>6. CASE /\ Head(tokens) = "Unschedulable"
           /\ store' = [store EXCEPT ![p].node = Absent]
           /\ stage' = [stage EXCEPT ![p] =
                           IF @ \in {"queued", "waiting"} THEN "idle" ELSE @]
  <2>1. /\ \A q \in Pod : q # p => store'[q] = store[q]
        /\ store'[p] = [node |-> Absent, ids |-> store[p].ids, reason |-> store[p].reason]
        /\ store' = [q \in Pod |-> store'[q]]
    <3>1. store = [q \in Pod |-> store[q]]
      BY DEF Shape
    <3>2. store' = [store EXCEPT ![p] = [store[p] EXCEPT !.node = Absent]]
      BY <1>1, <1>6, <3>1
    <3>3. [store[p] EXCEPT !.node = Absent]
             = [node |-> Absent, ids |-> store[p].ids, reason |-> store[p].reason]
      BY <1>1 DEF Shape
    <3> QED
      BY <1>1, <3>1, <3>2, <3>3
  <2>2. /\ \A q \in Pod : q # p => stage'[q] = stage[q]
        /\ stage' \in [Pod -> Stage]
        /\ stage'[p] = IF stage[p] \in {"queued", "waiting"} THEN "idle" ELSE stage[p]
    BY <1>1, <1>6 DEF Shape, Stage
  <2>3. \A q \in Pod : stage'[q] = stage[q] \/ stage'[q] = "idle"
    BY <2>2
  <2>4. Shape'
    <3>1. ASSUME NEW q \in Pod
          PROVE  /\ store'[q] = [node |-> store'[q].node, ids |-> store'[q].ids,
                                 reason |-> store'[q].reason]
                 /\ store'[q].node \in Node \cup {Absent, Unbound}
      <4>1. CASE q = p
        <5>1. /\ store'[p].node = Absent /\ store'[p].ids = store[p].ids
              /\ store'[p].reason = store[p].reason
          BY <2>1
        <5> QED
          BY <2>1, <4>1, <5>1
      <4>2. CASE q # p
        BY <2>1, <4>2 DEF Shape
      <4> QED
        BY <4>1, <4>2
    <3>2. store' = [q \in Pod |-> [node |-> store'[q].node, ids |-> store'[q].ids,
                                   reason |-> store'[q].reason]]
      BY <2>1, <3>1
    <3>3. \A q \in Pod : stage'[q] \in OnLoop \cup InBinding => target'[q] \in Node
      BY <1>2, <2>3 DEF Shape, OnLoop, InBinding
    <3>4. \A q \in Pod : Reserved(q)' => copies'[q].node \in Node
      BY <1>2, <2>3 DEF Shape, Reserved, InBinding
    <3> QED
      BY <1>1, <1>2, <2>2, <3>1, <3>2, <3>3, <3>4 DEF Shape, Devs
  <2>5. Unplaced'
    <3>1. ASSUME NEW q \in Pod
          PROVE  /\ stage'[q] # "idle" =>
                       /\ store'[q].node \in {Absent, Unbound}
                       /\ Plain(q) /\ Created(q)
                 /\ ~Created(q) => /\ store'[q].node = Absent /\ store'[q].reason = "none"
                                    /\ known'[q] = "none"
      <4>1. CASE q = p
        BY <1>2, <2>1, <2>3, <4>1 DEF Unplaced
      <4>2. CASE q # p
        BY <1>2, <2>1, <2>2, <4>2 DEF Unplaced
      <4> QED
        BY <4>1, <4>2
    <3> QED
      BY <1>3, <3>1 DEF Unplaced, Plain
  <2>6. Counted'
    <3>1. \A q \in Pod : q # p => Holding(q)' = Holding(q)
      BY <1>2, <2>1, <2>2, OthersHold
    <3>2. Holding(p)' = Holding(p) \/ (Holding(p)' = NoCopy /\ LeftOver(p)')
      <4>1. store'[p].node = Absent /\ Absent \notin Node
        BY <2>1, GpuShareAssumptions DEF GpuShareAssumptions
      <4>2. CASE Reserved(p)
        <5>1. stage'[p] = stage[p]
          BY <2>2, <4>2 DEF Reserved, InBinding
        <5> QED
          BY <1>2, <4>2, <5>1 DEF Holding, Reserved
      <4>3. CASE ~Reserved(p)
        <5>1. ~Reserved(p)'
          BY <2>3, <1>1, <4>3 DEF Reserved, InBinding
        <5>2. Holding(p)' = NoCopy
          BY <4>1, <5>1 DEF Holding
        <5>3. CASE stage[p] # "idle"
          BY <1>1, <4>3, <5>2, <5>3, HoldsNothing
        <5>4. CASE stage[p] = "idle"
          <6>1. ~(retries = 0)
            BY <1>4, <1>6, <5>4
          <6>2. LeftOver(p)'
            BY <1>2, <2>2, <4>1, <5>4, <6>1 DEF LeftOver, Shape
          <6> QED
            BY <5>2, <6>2
        <5> QED
          BY <5>3, <5>4
      <4> QED
        BY <4>2, <4>3
    <3>3. \A q \in Pod : LeftOver(q) => LeftOver(q)'
      BY <1>2, <2>1, <2>3 DEF LeftOver
    <3> QED
      BY <1>2, <1>3, <3>1, <3>2, <3>3, CountedFrame
  <2>7. Flow'
    <3>1. \A q \in Pod : Busy(q)' => Busy(q)
      BY <2>3 DEF Busy
    <3> QED
      BY <1>2, <1>4, <3>1 DEF Flow
  <2> QED
    BY <2>4, <2>5, <2>6, <2>7
<1> QED
  BY <1>1, <1>5, <1>6 DEF Receive

-----------------------------------------------------------------------------
(* The theorem.                                                            *)

LEMMA CacheStep ==
  ASSUME CacheInv, [Next]_vars
  PROVE  CacheInv'
<1>1. CASE UNCHANGED vars
  <2>1. UNCHANGED <<pos, awaited, tokens, store, stage, target, retries, known, podMap,
                  copies>>
    BY <1>1 DEF vars, callerVars, cacheVars, pluginVars
  <2>2. \A q \in Pod : /\ Holding(q)' = Holding(q) /\ Created(q)' = Created(q)
                       /\ LeftOver(q)' = LeftOver(q) /\ Reserved(q)' = Reserved(q)
                       /\ Busy(q)' = Busy(q)
    BY <2>1, HoldsOn DEF Created, LeftOver, Reserved, Busy
  <2>3. Shape'
    BY <2>1, <2>2 DEF CacheInv, Shape, Devs
  <2>4. Unplaced'
    BY <2>1, <2>2 DEF CacheInv, Unplaced, Plain
  <2>5. Counted'
    BY <2>1, <2>2, CountedFrame DEF CacheInv
  <2>6. Flow'
    BY <2>1, <2>2 DEF CacheInv, Flow
  <2> QED
    BY <2>3, <2>4, <2>5, <2>6 DEF CacheInv
<1>2. CASE CreatePod
  BY <1>2, CreateStep
<1>3. CASE Receive
  BY <1>3, ReceiveStep
<1>4. ASSUME NEW p \in Pod,
             \/ \E n \in Node : Choose(p, n)
             \/ FitsNowhere(p) \/ ReserveNoGpu(p) \/ Reserve(p) \/ ReserveUpdate(p)
             \/ BindingStep(p)
             \/ Retry(p)
      PROVE  CacheInv'
  <2>1. CASE \E n \in Node : Choose(p, n)
    BY <2>1, ChooseStep
  <2>2. CASE Passing(p)
    BY <2>2, PassingStep
  <2>3. CASE Reserve(p)
    BY <2>3, ReserveStep
  <2>4. CASE Unreserve(p)
    BY <2>4, UnreserveStep
  <2>5. CASE Bind(p) \/ BindNoGpu(p)
    BY <2>5, BindStep
  <2>6. CASE FitsNowhere(p) \/ RecordBindError(p)
    BY <2>6, FailStep
  <2>7. CASE Retry(p)
    BY <2>7, RetryStep
  <2> QED
    BY <1>4, <2>1, <2>2, <2>3, <2>4, <2>5, <2>6, <2>7 DEF BindingStep, Passing
<1> QED
  BY <1>1, <1>2, <1>3, <1>4 DEF Next

LEMMA CacheInvCounts == CacheInv => CacheCounts
<1> SUFFICES ASSUME CacheInv, NEW n \in Node, NEW d \in Devs(n)
             PROVE
               LET given == {p \in Holders(n, d) : NodeName[p] = Unbound}
                   held == {Entry(p, Holding(p)) : p \in given}
               IN  /\ held \subseteq podMap[n][d]
                   /\ \A r \in podMap[n][d] \ held :
                          store[r.pod].node = Absent /\ retries > 0
  BY DEF CacheCounts
<1> DEFINE given == {p \in Holders(n, d) : NodeName[p] = Unbound}
           held == {Entry(p, Holding(p)) : p \in given}
<1>1. \A p : p \in given <=> p \in Pod /\ Plain(p) /\ HoldsDevice(p, n, d)
  BY DEF Holders, HoldsDevice, Plain
<1>2. held \subseteq podMap[n][d]
  BY <1>1 DEF CacheInv, Counted
<1>3. ASSUME NEW r \in podMap[n][d] \ held
      PROVE  store[r.pod].node = Absent /\ retries > 0
  <2>1. /\ r.pod \in Pod /\ Plain(r.pod)
        /\ \/ HoldsDevice(r.pod, n, d) /\ r = Entry(r.pod, Holding(r.pod))
           \/ LeftOver(r.pod)
    BY <1>3 DEF CacheInv, Counted
  <2>2. LeftOver(r.pod)
    BY <1>1, <1>3, <2>1
  <2> QED
    BY <2>2 DEF LeftOver
<1> QED
  BY <1>2, <1>3

\* The cache counts every pod that the scheduler gave a device with the devices of
\* its annotation, and nothing else but pods deleted after a retry: a failed Bind, a
\* repeated Reserve and a late deletion leave no other trace in podMap
\* (AddOrUpdatePod and RemovePod in gpunodeinfo.go, Reserve, Unreserve and Bind in
\* open-gpu-share.go).
THEOREM CacheIsExact == Spec => []CacheCounts
<1>1. CacheInv /\ [Next]_vars => CacheInv'
  BY CacheStep
<1> QED
  BY CacheInit, <1>1, CacheInvCounts, PTL DEF Spec

=============================================================================
