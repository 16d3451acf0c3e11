---------------------------- MODULE ApplyProofs ----------------------------
(***************************************************************************)
(* The loop of apply.go, for any cluster, any applications and any answers *)
(* of the user: each round drives the expansion as Expand has it, and what *)
(* it simulates depends on the manifests and the number of nodes alone.    *)
(***************************************************************************)
EXTENDS Apply, ExpandProofs, Sums

-----------------------------------------------------------------------------
(* Apply calls the expansion and lets it run.                              *)

LEMMA ApplyStep == [Run \/ User]_vars => [Call \/ Running]_expandVars
<1> SUFFICES ASSUME Run \/ User \/ UNCHANGED vars
             PROVE  Call \/ Running \/ UNCHANGED expandVars
  OBVIOUS
<1>1. CASE Run
  BY <1>1 DEF Run, PrepareFails, Prepare, NewFakeNodes, ShowAgain, Expanding, Expanded,
              NewDaemonPod, NextPart, Simulate, Report, Ask
<1>2. CASE User
  BY <1>2 DEF User, ShowResults, AddNode, Exit
<1>3. CASE UNCHANGED vars
  BY <1>3 DEF vars
<1> QED
  BY <1>1, <1>2, <1>3

(* The loop uses the expansion as its module describes it: a call at a time, *)
(* and none before the last has returned (GetValidPodExcludeDaemonSet as    *)
(* called by RunCluster and ScheduleApp).                                   *)
THEOREM ApplyExpands == ApplySpec => ExpandSpec
<1>1. ApplyInit => ExpandInit
  BY DEF ApplyInit
<1> QED
  BY <1>1, ApplyStep, PTL DEF ApplySpec, ExpandSpec

(* In every round, a call of GetValidPodExcludeDaemonSet that returns has    *)
(* expanded each manifest once, or reports that one is invalid.              *)
THEOREM ApplyExpandsOnce == ApplySpec => []ExpandedOnce
  BY ApplyExpands, ExpandsOnce, PTL

-----------------------------------------------------------------------------
(* The invariant of a round.                                               *)

ResOf(i) == IF i = 0 THEN ClusterResource ELSE ResourceOf(selected[i])
DaemonsOf(i) == DaemonSetsOf[IF i = 0 THEN 0 ELSE selected[i]]
Wanted(i) == PodsOf(i, ResOf(i)) \cup DaemonPodsOf(i, DaemonsOf(i))
Before(n) == UNION {Wanted(i) : i \in 0..n - 1}

\* The pods of the DaemonSets and nodes that are done.
DaemonPods(i, done) ==
    {<<i, "DaemonSet", x[1], x[2]>> : x \in {y \in done : ClassOf(y[2]) \in Suits[y[1]]}}

Selection ==
    /\ Len(selected) \in Nat
    /\ \A i \in 1..Len(selected) : selected[i] \in DOMAIN Apps
    /\ part \in 0..Len(selected)

Todo ==
    /\ todo \subseteq DaemonSets \X nodes
    /\ pc = "daemons" => todo \subseteq DaemonsOf(part) \X nodes
    /\ pc \notin {"daemons", "done", "hung"} => todo = {}

RoundNodes ==
    pc \in {"expand", "daemons", "simulate"} =>
        nodes = ClusterNodes \cup NewNodes(round, newNodeNum)

SoFar ==
    /\ pc = "prepare" => part = 0
    /\ pc = "expand" => resources = ResOf(part) /\ input = Before(part)
    /\ pc = "daemons" =>
          input = Before(part) \cup PodsOf(part, ResOf(part))
                    \cup DaemonPods(part, DaemonsOf(part) \X nodes \ todo)
    /\ pc = "simulate" => part = Len(selected) /\ input = Before(part + 1)

RoundInv == Selection /\ Todo /\ RoundNodes /\ SoFar

LEMMA RoundInit == ApplyInit => RoundInv
<1> SUFFICES ASSUME ApplyInit PROVE RoundInv
  OBVIOUS
<1>1. Len(selected) = 0 /\ part = 0
  BY DEF ApplyInit
<1>2. Selection
  BY <1>1 DEF Selection
<1> QED
  BY <1>1, <1>2 DEF ApplyInit, RoundInv, Todo, RoundNodes, SoFar

\* Every pod of the expansion is one of the list of manifests, and conversely.
LEMMA PodsExpanded ==
  ASSUME Inv, caller = "returned", rstErr = None, NEW i
  PROVE  {<<i, p[1][1], p[2], p[3]>> : p \in pods} = PodsOf(i, resources)
<1>0. resources \in Resources
  BY DEF Inv, ExpandTypeOK
<1>1. ASSUME NEW p \in pods
      PROVE  <<i, p[1][1], p[2], p[3]>> \in PodsOf(i, resources)
  <2>1. PICK w \in Workers : p \in Made(w)
    BY ReturnedWithout
  <2>2. PICK j \in Positions(w) :
            p \in {w} \X {j} \X (0..Instances(w[1], resources[w[1]][j]) - 1)
    BY <2>1 DEF Made
  <2>3. w[1] \in Kinds /\ j \in DOMAIN resources[w[1]]
    BY <1>0, WorkerKinds, PositionsInside, Sizes DEF Size
  <2>4. <<w[1], j>> \in UNION {{kind} \X DOMAIN resources[kind] : kind \in Kinds}
    BY <2>3
  <2> QED
    BY <2>2, <2>4 DEF PodsOf
<1>2. ASSUME NEW kind \in Kinds, NEW j \in DOMAIN resources[kind],
             NEW k \in 0..Instances(kind, resources[kind][j]) - 1
      PROVE  \E p \in pods : <<i, kind, j, k>> = <<i, p[1][1], p[2], p[3]>>
  <2>1. j \in 1..Size(kind)
    BY <1>0, Sizes DEF Size
  <2>2. PICK w \in Workers : w[1] = kind /\ j \in Positions(w)
    BY <1>0, <2>1, SomeWorker
  <2>3. <<w, j, k>> \in pods
    BY <2>2, MadeIs, ReturnedWithout
  <2> QED
    BY <2>2, <2>3
<1>3. ASSUME NEW x \in PodsOf(i, resources)
      PROVE  x \in {<<i, p[1][1], p[2], p[3]>> : p \in pods}
  <2>1. PICK y \in UNION {{kind} \X DOMAIN resources[kind] : kind \in Kinds} :
            x \in {<<i, y[1], y[2], k>> : k \in 0..Instances(y[1], resources[y[1]][y[2]]) - 1}
    BY <1>3 DEF PodsOf
  <2>2. PICK k \in 0..Instances(y[1], resources[y[1]][y[2]]) - 1 : x = <<i, y[1], y[2], k>>
    BY <2>1
  <2>3. y[1] \in Kinds /\ y[2] \in DOMAIN resources[y[1]]
    BY <2>1
  <2> QED
    BY <1>2, <2>2, <2>3
<1> QED
  BY <1>1, <1>3

\* What stays as it is within a round.
LEMMA SameRound ==
  ASSUME UNCHANGED <<selected, nodes>>
  PROVE  \A i : /\ ResOf(i)' = ResOf(i) /\ DaemonsOf(i)' = DaemonsOf(i)
                /\ Before(i)' = Before(i)
                /\ \A r : PodsOf(i, r)' = PodsOf(i, r)
  BY DEF ResOf, DaemonsOf, Before, Wanted, PodsOf, DaemonPodsOf, ResourceOf, ClassOf

\* One part more.
LEMMA BeforeNext ==
  ASSUME NEW i \in Nat
  PROVE  /\ Before(i + 1) = Before(i) \cup PodsOf(i, ResOf(i))
                              \cup DaemonPods(i, DaemonsOf(i) \X nodes)
         /\ Before(0) = {}
<1>1. 0..(i + 1) - 1 = (0..i - 1) \cup {i}
  OBVIOUS
<1>2. Before(i + 1) = Before(i) \cup Wanted(i)
  BY <1>1 DEF Before
<1>3. DaemonPodsOf(i, DaemonsOf(i)) = DaemonPods(i, DaemonsOf(i) \X nodes)
  BY DEF DaemonPodsOf, DaemonPods
<1>4. 0..0 - 1 = {}
  OBVIOUS
<1> QED
  BY <1>2, <1>3, <1>4 DEF Before, Wanted

LEMMA DaemonsKnown ==
  ASSUME Selection
  PROVE  DaemonsOf(part) \subseteq DaemonSets
<1>1. (IF part = 0 THEN 0 ELSE selected[part]) \in 0..Len(Apps)
  BY ApplyAssumptions DEF Selection, ApplyAssumptions
<1> QED
  BY <1>1, ApplyAssumptions DEF DaemonsOf, ApplyAssumptions

LEMMA DaemonPodsMore ==
  ASSUME NEW i, NEW done, NEW d, NEW n
  PROVE  DaemonPods(i, done \cup {<<d, n>>}) =
            DaemonPods(i, done)
              \cup IF ClassOf(n) \in Suits[d] THEN {<<i, "DaemonSet", d, n>>} ELSE {}
<1> DEFINE more == done \cup {<<d, n>>}
           new == IF ClassOf(n) \in Suits[d] THEN {<<i, "DaemonSet", d, n>>} ELSE {}
           Pod(y) == <<i, "DaemonSet", y[1], y[2]>>
           Fit(y) == ClassOf(y[2]) \in Suits[y[1]]
<1>1. Pod(<<d, n>>) = <<i, "DaemonSet", d, n>> /\ (Fit(<<d, n>>) <=> ClassOf(n) \in Suits[d])
  OBVIOUS
<1>2. \A p : p \in new <=> Fit(<<d, n>>) /\ p = Pod(<<d, n>>)
  BY <1>1
<1> HIDE DEF new, Pod, Fit
<1>3. {Pod(y) : y \in {z \in more : Fit(z)}} = {Pod(y) : y \in {z \in done : Fit(z)}} \cup new
  BY <1>2
<1> QED
  BY <1>3 DEF DaemonPods, Pod, Fit, new

LEMMA RoundPrepare == RoundInv /\ (PrepareFails \/ Prepare) => RoundInv'
<1> SUFFICES ASSUME RoundInv, PrepareFails \/ Prepare PROVE RoundInv'
  OBVIOUS
<1>1. CASE PrepareFails
  BY <1>1 DEF PrepareFails, Return, RoundInv, Selection, Todo, RoundNodes, SoFar
<1>2. CASE Prepare
  <2>1. PICK n \in 0..Len(Apps) : selected' \in [1..n -> DOMAIN Apps]
    BY <1>2 DEF Prepare, Selections
  <2>2. Len(selected') = n
    BY <2>1, ApplyAssumptions DEF ApplyAssumptions
  <2>3. part' = 0 /\ n \in Nat
    BY <1>2, ApplyAssumptions DEF Prepare, RoundInv, SoFar, ApplyAssumptions
  <2>4. \A i \in 1..n : selected'[i] \in DOMAIN Apps
    BY <2>1
  <2>5. Selection'
    BY <2>2, <2>3, <2>4 DEF Selection
  <2> QED
    BY <1>2, <2>5 DEF Prepare, RoundInv, Todo, RoundNodes, SoFar
<1> QED
  BY <1>1, <1>2

LEMMA RoundNewFakeNodes == RoundInv /\ NewFakeNodes => RoundInv'
<1> SUFFICES ASSUME RoundInv, NewFakeNodes PROVE RoundInv'
  OBVIOUS
<1>1. Selection'
  BY DEF NewFakeNodes, RoundInv, Selection
<1>2. todo = {} /\ todo' = {}
  BY DEF NewFakeNodes, RoundInv, Todo
<1>3. CASE NodeRefused(newNodeNum)
  BY <1>1, <1>2, <1>3 DEF NewFakeNodes, Return, RoundInv, Todo, RoundNodes, SoFar
<1>4. CASE ~NodeRefused(newNodeNum)
  <2>1. /\ nodes' = ClusterNodes \cup NewNodes(round', newNodeNum') /\ pc' = "expand"
        /\ resources' = ClusterResource /\ part' = 0 /\ input' = {}
    BY <1>4 DEF NewFakeNodes
  <2>2. Before(0)' = {}
    BY DEF Before
  <2>3. SoFar'
    BY <2>1, <2>2 DEF SoFar, ResOf
  <2> QED
    BY <1>1, <1>2, <2>1, <2>3 DEF RoundInv, Todo, RoundNodes
<1> QED
  BY <1>3, <1>4

LEMMA RoundExpanded == RoundInv /\ Inv /\ Expanded => RoundInv'
<1> SUFFICES ASSUME RoundInv, Inv, Expanded PROVE RoundInv'
  OBVIOUS
<1>1. Selection' /\ UNCHANGED <<selected, nodes, part, round, newNodeNum>>
  BY DEF Expanded, RoundInv, Selection
<1>2. CASE rstErr # None
  BY <1>1, <1>2 DEF Expanded, SimulateFails, Return, RoundInv, Todo, RoundNodes, SoFar
<1>3. CASE rstErr = None
  <2>1. /\ pc' = "daemons" /\ todo' = DaemonsOf(part) \X nodes
        /\ input' = input \cup {<<part, p[1][1], p[2], p[3]>> : p \in pods}
    BY <1>3 DEF Expanded, DaemonsOf
  <2>2. input' = Before(part) \cup PodsOf(part, ResOf(part))
    BY <1>3, <2>1, PodsExpanded DEF Expanded, RoundInv, SoFar
  <2>3. DaemonPods(part, DaemonsOf(part) \X nodes \ todo)' = {}
    <3>1. (DaemonsOf(part) \X nodes \ todo)' = {}
      BY <1>1, <2>1, SameRound
    <3> QED
      BY <3>1 DEF DaemonPods
  <2>4. input' = (Before(part) \cup PodsOf(part, ResOf(part))
                    \cup DaemonPods(part, DaemonsOf(part) \X nodes \ todo))'
    <3>1. Before(part)' = Before(part) /\ ResOf(part)' = ResOf(part)
      BY <1>1, SameRound
    <3>2. PodsOf(part, ResOf(part))' = PodsOf(part, ResOf(part))
      BY <1>1, <3>1, SameRound
    <3> QED
      BY <2>2, <2>3, <3>1, <3>2
  <2>5. SoFar'
    BY <2>1, <2>4 DEF SoFar
  <2>6. Todo'
    BY <1>1, <2>1, SameRound, DaemonsKnown DEF Todo, RoundInv
  <2> QED
    BY <1>1, <2>1, <2>5, <2>6 DEF RoundInv, RoundNodes, Expanded
<1> QED
  BY <1>2, <1>3

LEMMA RoundNewDaemonPod ==
  ASSUME RoundInv, NEW d \in DaemonSets, NEW n \in nodes, NewDaemonPod(d, n)
  PROVE  RoundInv'
<1>1. /\ Selection' /\ UNCHANGED <<selected, nodes, part, round, newNodeNum, resources>>
      /\ pc = "daemons" /\ <<d, n>> \in todo /\ todo' = todo \ {<<d, n>>}
  BY DEF NewDaemonPod, RoundInv, Selection, expandVars
<1>2. Todo'
  BY <1>1, SameRound DEF NewDaemonPod, RoundInv, Todo, SimulateFails, Return
<1>3. CASE d \notin ValidTemplate
  BY <1>1, <1>2, <1>3 DEF NewDaemonPod, SimulateFails, Return, RoundInv, RoundNodes, SoFar
<1>4. CASE d \in ValidTemplate
  <2> DEFINE all == DaemonsOf(part) \X nodes
             rest == all \ todo
             new == IF ClassOf(n) \in Suits[d] THEN {<<part, "DaemonSet", d, n>>} ELSE {}
  <2>1. pc' = pc /\ input' = input \cup new
    BY <1>4 DEF NewDaemonPod, PinOf
  <2>2. all \ todo' = (all \ todo) \cup {<<d, n>>}
    BY <1>1 DEF RoundInv, Todo
  <2>3. DaemonPods(part, all \ todo') = DaemonPods(part, all \ todo) \cup new
    <3> HIDE DEF rest
    <3>1. DaemonPods(part, rest \cup {<<d, n>>}) = DaemonPods(part, rest) \cup new
      BY DaemonPodsMore
    <3> QED
      BY <2>2, <3>1 DEF rest
  <2>4. DaemonPods(part, DaemonsOf(part) \X nodes \ todo)' = DaemonPods(part, all \ todo')
    BY <1>1, SameRound DEF DaemonPods, ClassOf
  <2>5. SoFar'
    BY <1>1, <2>1, <2>3, <2>4, SameRound DEF RoundInv, SoFar
  <2> QED
    BY <1>1, <1>2, <2>1, <2>5 DEF RoundInv, RoundNodes
<1> QED
  BY <1>3, <1>4

LEMMA RoundNextPart == RoundInv /\ NextPart => RoundInv'
<1> SUFFICES ASSUME RoundInv, NextPart PROVE RoundInv'
  OBVIOUS
<1>1. /\ UNCHANGED <<selected, nodes, round, newNodeNum, todo, input>>
      /\ pc = "daemons" /\ todo = {} /\ part \in Nat /\ Len(selected) \in Nat
  BY DEF NextPart, RoundInv, Selection, runVars
<1>2. input = Before(part + 1)
  <2>1. DaemonsOf(part) \X nodes \ {} = DaemonsOf(part) \X nodes
    OBVIOUS
  <2> QED
    BY <1>1, <2>1, BeforeNext DEF RoundInv, SoFar
<1>3. CASE part < Len(selected)
  <2>1. /\ part' = part + 1 /\ pc' = "expand" /\ resources' = ResourceOf(selected[part + 1])
    BY <1>3 DEF NextPart
  <2>2. resources' = ResOf(part')
    BY <1>1, <2>1 DEF ResOf
  <2>3. SoFar'
    BY <1>1, <1>2, <2>1, <2>2, SameRound DEF SoFar
  <2> QED
    BY <1>1, <1>3, <2>1, <2>3 DEF RoundInv, Selection, Todo, RoundNodes
<1>4. CASE ~(part < Len(selected))
  <2>1. part' = part /\ pc' = "simulate"
    BY <1>4 DEF NextPart
  <2>2. part = Len(selected)
    BY <1>1, <1>4 DEF RoundInv, Selection
  <2>3. SoFar'
    BY <1>1, <1>2, <2>1, <2>2, SameRound DEF SoFar
  <2> QED
    BY <1>1, <2>1, <2>3 DEF RoundInv, Selection, Todo, RoundNodes
<1> QED
  BY <1>3, <1>4

\* The steps that neither read nor change what a round has put together.
LEMMA RoundFrame ==
  ASSUME RoundInv, UNCHANGED <<selected, part, nodes, todo, input>>,
         \/ pc' \in {"nodes", "decide", "ask"} /\ pc \in {"nodes", "decide", "ask", "simulate"}
         \/ pc' \in {"done", "hung"}
         \/ UNCHANGED <<pc, round, newNodeNum, resources>>
  PROVE  RoundInv'
<1>1. Selection' /\ Todo'
  BY SameRound DEF RoundInv, Selection, Todo
<1>2. RoundNodes'
  BY DEF RoundInv, RoundNodes
<1>3. SoFar'
  BY SameRound DEF RoundInv, SoFar, DaemonPods, ClassOf
<1> QED
  BY <1>1, <1>2, <1>3 DEF RoundInv

LEMMA RoundNext == RoundInv /\ Inv /\ [Run \/ User]_vars => RoundInv'
<1> SUFFICES ASSUME RoundInv, Inv, [Run \/ User]_vars PROVE RoundInv'
  OBVIOUS
<1>1. CASE ShowAgain \/ Simulate \/ Report \/ Ask
  BY <1>1, RoundFrame DEF ShowAgain, Simulate, SimulateFails, Report, Ask, Return, runVars
<1>2. CASE User
  BY <1>2, RoundFrame DEF User, ShowResults, AddNode, Exit, Return
<1>3. CASE Expanding
  <2>1. resources' = resources
    BY <1>3 DEF Expanding, Running, Spawn, Work, MakePods, Fail, Lock, AppendPods, Wait
  <2> QED
    BY <1>3, <2>1, RoundFrame DEF Expanding, applyVars, runVars
<1>4. CASE UNCHANGED vars
  BY <1>4, RoundFrame DEF vars, expandVars, applyVars, runVars
<1> QED
  BY <1>1, <1>2, <1>3, <1>4, RoundPrepare, RoundNewFakeNodes, RoundExpanded,
     RoundNewDaemonPod, RoundNextPart
     DEF Run

LEMMA RoundHolds == ApplySpec => []RoundInv
<1>1. ApplySpec => []Inv
  BY ApplyExpands, InvHolds, PTL
<1> QED
  BY <1>1, RoundInit, RoundNext, PTL DEF ApplySpec

\* Of applications with names of their own each is deployed with its manifests.
LEMMA OwnResource ==
  ASSUME DistinctNames, NEW i \in DOMAIN Apps
  PROVE  ResourceOf(i) = Apps[i].resource
<1>1. i \in Nat
  BY ApplyAssumptions DEF ApplyAssumptions
<1>2. \E j \in DOMAIN Apps : /\ Apps[j].name = Apps[i].name
                             /\ \A k \in DOMAIN Apps : Apps[k].name = Apps[i].name => k <= j
  BY <1>1 DEF DistinctNames
<1> QED
  BY <1>2 DEF ResourceOf, DistinctNames

(* In every round, after any answers of the user and whatever earlier rounds *)
(* wrote on the shared objects, the cluster has the new nodes asked for last *)
(* and what is simulated is what the manifests say (Run and Simulate).       *)
THEOREM EveryRoundAlike == ApplySpec => []RoundsAlike
<1>1. RoundInv => RoundsAlike
  <2> SUFFICES ASSUME RoundInv, pc = "simulate", DistinctNames
               PROVE  /\ nodes = ClusterNodes \cup NewNodes(round, newNodeNum)
                      /\ input = UNION {PodsOf(i, IF i = 0 THEN ClusterResource
                                    ELSE Apps[selected[i]].resource)
                            \cup DaemonPodsOf(i, DaemonSetsOf[IF i = 0 THEN 0
                                                              ELSE selected[i]]) :
                          i \in 0..Len(selected)}
    BY DEF RoundsAlike
  <2>1. nodes = ClusterNodes \cup NewNodes(round, newNodeNum)
    BY DEF RoundInv, RoundNodes
  <2>2. input = Before(Len(selected) + 1) /\ Len(selected) \in Nat
    BY DEF RoundInv, SoFar, Selection
  <2>3. 0..(Len(selected) + 1) - 1 = 0..Len(selected)
    BY <2>2
  <2>4. ASSUME NEW i \in 0..Len(selected)
        PROVE  ResOf(i) = IF i = 0 THEN ClusterResource ELSE Apps[selected[i]].resource
    BY <2>2, OwnResource DEF RoundInv, Selection, ResOf
  <2>5. ASSUME NEW i \in 0..Len(selected)
        PROVE  Wanted(i) = PodsOf(i, IF i = 0 THEN ClusterResource
                                     ELSE Apps[selected[i]].resource)
                            \cup DaemonPodsOf(i, DaemonSetsOf[IF i = 0 THEN 0
                                                              ELSE selected[i]])
    BY <2>4 DEF Wanted, DaemonsOf
  <2> QED
    BY <2>1, <2>2, <2>3, <2>5 DEF Before
<1> QED
  BY <1>1, RoundHolds, PTL

-----------------------------------------------------------------------------
(* Types.                                                                  *)

\* What the type invariant says beside the expansion and the parts of a round.
Rest ==
    /\ pc \in {"prepare", "nodes", "expand", "daemons", "simulate", "decide", "ask", "done",
              "hung"}
    /\ newNodeNum \in Numbers \cup {0}
    /\ choose \in {"", "show", "add", "exit"}
    /\ round \in {0, 1}
    /\ result # None => result.placed \cap result.unscheduled = {}
    /\ answer \in {"", "error", "exit", "success"}

LEMMA RestNext == Rest /\ [Run \/ User]_vars => Rest'
<1> SUFFICES ASSUME Rest, [Run \/ User]_vars PROVE Rest'
  OBVIOUS
<1>1. CASE Simulate
  <2>1. CASE SimulateFails /\ result' = result
    BY <1>1, <2>1 DEF Rest, Simulate, SimulateFails, Return
  <2>2. CASE result' \in Outcomes /\ pc' = "decide" /\ answer' = answer
    <3>1. result'.placed \cap result'.unscheduled = {}
      BY <2>2 DEF Outcomes
    <3>2. UNCHANGED <<newNodeNum, choose, round>>
      BY <1>1 DEF Simulate
    <3> QED
      BY <2>2, <3>1, <3>2 DEF Rest
  <2> QED
    BY <1>1, <2>1, <2>2 DEF Simulate
<1>2. CASE PrepareFails \/ Prepare \/ ShowAgain \/ Expanding \/ NextPart \/ Ask
  BY <1>2 DEF Rest, PrepareFails, Prepare, ShowAgain, Expanding, NextPart, Ask, Return,
              runVars, applyVars
<1>3. CASE NewFakeNodes
  <2>1. result' = None /\ round' = 1 - round /\ UNCHANGED <<newNodeNum, choose>>
    BY <1>3 DEF NewFakeNodes
  <2>2. pc' \in {"done", "expand"} /\ answer' \in {"error", answer}
    BY <1>3 DEF NewFakeNodes, Return
  <2>3. round' \in {0, 1}
    <3>1. round = 0 \/ round = 1
      BY DEF Rest
    <3> QED
      BY <2>1, <3>1
  <2> QED
    BY <2>1, <2>2, <2>3 DEF Rest
<1>4. CASE Expanded
  BY <1>4 DEF Rest, Expanded, SimulateFails, Return
<1>5. ASSUME NEW d \in DaemonSets, NEW n \in nodes, NewDaemonPod(d, n) PROVE Rest'
  BY <1>5 DEF Rest, NewDaemonPod, SimulateFails, Return
<1>6. CASE Report
  BY <1>6 DEF Rest, Report, Return
<1>7. CASE User
  BY <1>7 DEF Rest, User, ShowResults, AddNode, Exit, Return
<1>8. CASE UNCHANGED vars
  BY <1>8 DEF Rest, vars, applyVars, runVars
<1> QED
  BY <1>1, <1>2, <1>3, <1>4, <1>5, <1>6, <1>7, <1>8 DEF Run

(* Every variable keeps its type.                                          *)
THEOREM ApplyTypeCorrect == ApplySpec => []ApplyTypeOK
<1>1. ApplyInit => Rest
  BY DEF ApplyInit, Rest
<1>2. ApplySpec => []Inv
  BY ApplyExpands, InvHolds, PTL
<1>3. Inv /\ RoundInv /\ Rest => ApplyTypeOK
  BY DEF Inv, RoundInv, Selection, Todo, Rest, ApplyTypeOK
<1> QED
  BY <1>1, <1>2, <1>3, RestNext, RoundHolds, PTL DEF ApplySpec

-----------------------------------------------------------------------------
(* The pods of a round are finitely many, and each comes from a manifest.   *)

LEMMA FiniteImage ==
  ASSUME NEW S, IsFiniteSet(S), NEW f
  PROVE  IsFiniteSet({f[x] : x \in S})
<1> DEFINE g == [x \in S |-> f[x]]
           T == {f[x] : x \in S}
<1>1. g \in Surjection(S, T)
  BY DEF Surjection
<1> HIDE DEF g, T
<1>2. IsFiniteSet(T)
  BY <1>1, FS_Surjection
<1> QED
  BY <1>2 DEF T

LEMMA FiniteUnion ==
  ASSUME NEW S, IsFiniteSet(S), NEW f, \A x \in S : IsFiniteSet(f[x])
  PROVE  IsFiniteSet(UNION {f[x] : x \in S})
<1>1. IsFiniteSet({f[x] : x \in S})
  BY FiniteImage
<1> QED
  BY <1>1, FS_UNION

LEMMA PodsFinite ==
  ASSUME NEW i, NEW r \in Resources
  PROVE  IsFiniteSet(PodsOf(i, r))
<1> DEFINE Lists == [kind \in Kinds |-> {kind} \X DOMAIN r[kind]]
           Places == UNION {Lists[kind] : kind \in Kinds}
           Rows == [x \in Places |-> {<<i, x[1], x[2], k>> :
                                         k \in 0..Instances(x[1], r[x[1]][x[2]]) - 1}]
<1>1. IsFiniteSet(Kinds)
  <2>1. IsFiniteSet({"Pod"} \cup {"Deployment"})
    BY FS_Singleton, FS_AddElement
  <2>2. IsFiniteSet(({"Pod"} \cup {"Deployment"}) \cup {"ReplicaSet"})
    BY <2>1, FS_AddElement
  <2>3. IsFiniteSet({"StatefulSet"} \cup {"Job"})
    BY FS_Singleton, FS_AddElement
  <2>4. IsFiniteSet(({"StatefulSet"} \cup {"Job"}) \cup {"CronJob"})
    BY <2>3, FS_AddElement
  <2>5. Kinds = (({"Pod"} \cup {"Deployment"}) \cup {"ReplicaSet"})
                  \cup (({"StatefulSet"} \cup {"Job"}) \cup {"CronJob"})
    BY DEF Kinds
  <2> QED
    BY <2>2, <2>4, <2>5, FS_Union
<1>2. ASSUME NEW kind \in Kinds PROVE IsFiniteSet(Lists[kind])
  <2>1. r[kind] \in Seq(Manifests)
    BY DEF Resources
  <2>2. Len(r[kind]) \in Nat /\ DOMAIN r[kind] = 1..Len(r[kind])
    BY <2>1
  <2>3. IsFiniteSet(DOMAIN r[kind])
    BY <2>2, FS_Interval
  <2>4. IsFiniteSet({kind} \X DOMAIN r[kind])
    BY <2>3, FS_Singleton, FS_Product
  <2> QED
    BY <2>4
<1>3. IsFiniteSet(Places)
  <2> HIDE DEF Lists
  <2> QED
    BY <1>1, <1>2, FiniteUnion
<1>4. ASSUME NEW x \in Places PROVE IsFiniteSet(Rows[x])
  <2>1. x[1] \in Kinds /\ x[2] \in DOMAIN r[x[1]]
    OBVIOUS
  <2>2. r[x[1]] \in Seq(Manifests)
    BY <2>1 DEF Resources
  <2>3. r[x[1]][x[2]] \in Manifests
    BY <2>1, <2>2
  <2>4. Instances(x[1], r[x[1]][x[2]]) \in Nat
    BY <2>3, ExpandAssumptions DEF Instances, ExpandAssumptions
  <2> DEFINE Ordinals == 0..Instances(x[1], r[x[1]][x[2]]) - 1
             row == [k \in Ordinals |-> <<i, x[1], x[2], k>>]
  <2>5. IsFiniteSet(Ordinals)
    BY <2>4, FS_Interval
  <2>6. Rows[x] = {row[k] : k \in Ordinals}
    OBVIOUS
  <2> HIDE DEF Rows, row, Ordinals
  <2> QED
    BY <2>5, <2>6, FiniteImage
<1>5. PodsOf(i, r) = UNION {Rows[x] : x \in Places}
  <2>1. Places = UNION {{kind} \X DOMAIN r[kind] : kind \in Kinds}
    OBVIOUS
  <2> HIDE DEF Places, Lists
  <2>2. PodsOf(i, r) = UNION {{<<i, x[1], x[2], k>> :
              k \in 0..Instances(x[1], r[x[1]][x[2]]) - 1} : x \in Places}
    BY <2>1 DEF PodsOf
  <2> QED
    BY <2>2
<1> HIDE DEF Rows, Places
<1> QED
  BY <1>3, <1>4, <1>5, FiniteUnion

LEMMA DaemonPodsFinite ==
  ASSUME NEW i, NEW ds \in SUBSET DaemonSets, IsFiniteSet(nodes)
  PROVE  IsFiniteSet(DaemonPodsOf(i, ds))
<1> DEFINE S == {y \in ds \X nodes : ClassOf(y[2]) \in Suits[y[1]]}
           f == [x \in S |-> <<i, "DaemonSet", x[1], x[2]>>]
<1>1. IsFiniteSet(ds)
  BY FS_Subset, ApplyAssumptions DEF ApplyAssumptions
<1>2. IsFiniteSet(ds \X nodes)
  BY <1>1, FS_Product
<1>3. IsFiniteSet(S)
  <2>1. S \in SUBSET (ds \X nodes)
    OBVIOUS
  <2> QED
    BY <1>2, <2>1, FS_Subset
<1>4. DaemonPodsOf(i, ds) = {f[x] : x \in S}
  BY DEF DaemonPodsOf
<1> HIDE DEF S, f
<1> QED
  BY <1>3, <1>4, FiniteImage

\* Of the applications of a name one is the last.
LEMMA ResourceKnown ==
  ASSUME NEW i \in DOMAIN Apps
  PROVE  ResourceOf(i) \in Resources
<1> DEFINE T == {Len(Apps) - j : j \in {k \in DOMAIN Apps : Apps[k].name = Apps[i].name}}
<1>1. Len(Apps) \in Nat /\ DOMAIN Apps = 1..Len(Apps)
  BY ApplyAssumptions DEF ApplyAssumptions
<1>2. T \in SUBSET Nat /\ T # {}
  BY <1>1
<1>3. PICK x \in T : \A y \in T : x <= y
  <2> HIDE DEF T
  <2> QED
    BY <1>2, LeastNat
<1>4. PICK j \in DOMAIN Apps : Apps[j].name = Apps[i].name /\ x = Len(Apps) - j
  OBVIOUS
<1>5. ASSUME NEW k \in DOMAIN Apps, Apps[k].name = Apps[i].name PROVE k <= j
  <2>1. x <= Len(Apps) - k
    BY <1>3, <1>5
  <2> QED
    BY <1>1, <1>4, <2>1
<1>6. \E last \in DOMAIN Apps :
          /\ Apps[last].name = Apps[i].name
          /\ \A k \in DOMAIN Apps : Apps[k].name = Apps[i].name => k <= last
  BY <1>4, <1>5
<1>7. \A k \in DOMAIN Apps : Apps[k].resource \in Resources
  BY ApplyAssumptions DEF ApplyAssumptions
<1> HIDE DEF T
<1> QED
  BY <1>6, <1>7 DEF ResourceOf

LEMMA PartKnown ==
  ASSUME Selection, NEW i \in 0..Len(selected)
  PROVE  ResOf(i) \in Resources /\ DaemonsOf(i) \in SUBSET DaemonSets
<1>1. i = 0 \/ i \in 1..Len(selected)
  BY DEF Selection
<1>2. ResOf(i) \in Resources
  BY <1>1, ResourceKnown, ApplyAssumptions DEF Selection, ResOf, ApplyAssumptions
<1>3. (IF i = 0 THEN 0 ELSE selected[i]) \in 0..Len(Apps)
  BY <1>1, ApplyAssumptions DEF Selection, ApplyAssumptions
<1> QED
  BY <1>2, <1>3, ApplyAssumptions DEF DaemonsOf, ApplyAssumptions

LEMMA BeforeFinite ==
  ASSUME Selection, IsFiniteSet(nodes)
  PROVE  IsFiniteSet(Before(Len(selected) + 1))
<1> DEFINE f == [i \in 0..Len(selected) |-> Wanted(i)]
<1>1. 0..(Len(selected) + 1) - 1 = 0..Len(selected) /\ IsFiniteSet(0..Len(selected))
  BY FS_Interval DEF Selection
<1>2. ASSUME NEW i \in 0..Len(selected) PROVE IsFiniteSet(f[i])
  <2>1. IsFiniteSet(PodsOf(i, ResOf(i))) /\ IsFiniteSet(DaemonPodsOf(i, DaemonsOf(i)))
    BY PartKnown, PodsFinite, DaemonPodsFinite
  <2> QED
    BY <2>1, FS_Union DEF Wanted
<1>3. Before(Len(selected) + 1) = UNION {f[i] : i \in 0..Len(selected)}
  BY <1>1 DEF Before
<1> HIDE DEF f
<1> QED
  BY <1>1, <1>2, <1>3, FiniteUnion

\* The manifest of a pod is one of those the assumption speaks of.
LEMMA PodDemand ==
  ASSUME Selection, NEW p \in Before(Len(selected) + 1), NEW res \in ResourceNames
  PROVE  Demand[ManifestOf(p)][res] \in Nat
<1>1. 0..(Len(selected) + 1) - 1 = 0..Len(selected)
  BY DEF Selection
<1>2. PICK i \in 0..Len(selected) : p \in Wanted(i)
  BY <1>1 DEF Before
<1>3. ResOf(i) \in Resources /\ DaemonsOf(i) \in SUBSET DaemonSets
  BY <1>2, PartKnown
<1>4. CASE p \in PodsOf(i, ResOf(i))
  <2>1. PICK x \in UNION {{kind} \X DOMAIN ResOf(i)[kind] : kind \in Kinds} :
            p \in {<<i, x[1], x[2], k>> :
                      k \in 0..Instances(x[1], ResOf(i)[x[1]][x[2]]) - 1}
    BY <1>4 DEF PodsOf
  <2>2. x[1] \in Kinds /\ x[2] \in DOMAIN ResOf(i)[x[1]]
    BY <2>1
  <2>3. p[1] = i /\ p[2] = x[1] /\ p[3] = x[2]
    BY <2>1
  <2>4. x[1] # "DaemonSet"
    BY <2>2 DEF Kinds
  <2>5. ManifestOf(p) = ResOf(i)[x[1]][x[2]]
    BY <2>3, <2>4 DEF ManifestOf, ResOf
  <2>6. ResOf(i)[x[1]] \in Seq(Manifests)
    BY <1>3, <2>2 DEF Resources
  <2>7. ResOf(i)[x[1]][x[2]] \in Manifests
    BY <2>2, <2>6
  <2> QED
    BY <2>5, <2>7, ApplyAssumptions DEF ApplyAssumptions
<1>5. CASE p \in DaemonPodsOf(i, DaemonsOf(i))
  <2>1. PICK x \in DaemonsOf(i) \X nodes : p = <<i, "DaemonSet", x[1], x[2]>>
    BY <1>5 DEF DaemonPodsOf
  <2>2. ManifestOf(p) = x[1] /\ x[1] \in DaemonSets
    BY <1>3, <2>1 DEF ManifestOf
  <2> QED
    BY <2>2, ApplyAssumptions DEF ApplyAssumptions
<1> QED
  BY <1>2, <1>4, <1>5 DEF Wanted

LEMMA UsedNat ==
  ASSUME Selection, IsFiniteSet(nodes), NEW S \in SUBSET Before(Len(selected) + 1),
         NEW res \in ResourceNames
  PROVE  Used(res, S) \in Nat
<1> DEFINE F == [p \in S |-> Demand[ManifestOf(p)][res]]
           A(h) == h = [s \in SUBSET S |->
                          IF s = {} THEN 0
                          ELSE Demand[ManifestOf(Pick(s))][res] + h[s \ {Pick(s)}]]
<1>1. Used(res, S) = (CHOOSE h : A(h))[S]
  BY DEF Used, MapThenSumSet, MapThenFoldSet, Pick
<1>2. \A s \in SUBSET S : s # {} => F[Pick(s)] = Demand[ManifestOf(Pick(s))][res]
  BY PickIn
<1>3. ASSUME NEW h PROVE A(h) <=> Adds(h, F, S)
  BY <1>2 DEF Adds
<1>4. IsFiniteSet(S)
  BY BeforeFinite, FS_Subset
<1>5. \A p \in S : F[p] \in Nat
  BY PodDemand
<1> HIDE DEF A, F
<1>6. A(CHOOSE h : A(h))
  BY <1>3, <1>4, AddsExists
<1>7. (CHOOSE h : A(h))[S] = SumOver(F, S)
  <2>1. Adds(CHOOSE h : A(h), F, S)
    BY <1>3, <1>6
  <2>2. S \in SUBSET S
    OBVIOUS
  <2> QED
    BY <1>4, <2>1, <2>2, AddsSum
<1> QED
  BY <1>1, <1>4, <1>5, <1>7, SumNat

LEMMA TotalNat ==
  ASSUME NEW S, IsFiniteSet(S), NEW res \in ResourceNames
  PROVE  Total(res, S) \in Nat
<1> DEFINE F == [n \in S |-> Allocatable[ClassOf(n)][res]]
           A(h) == h = [s \in SUBSET S |->
                          IF s = {} THEN 0
                          ELSE Allocatable[ClassOf(Pick(s))][res] + h[s \ {Pick(s)}]]
<1>1. Total(res, S) = (CHOOSE h : A(h))[S]
  BY DEF Total, MapThenSumSet, MapThenFoldSet, Pick
<1>2. \A s \in SUBSET S : s # {} => F[Pick(s)] = Allocatable[ClassOf(Pick(s))][res]
  BY PickIn
<1>3. ASSUME NEW h PROVE A(h) <=> Adds(h, F, S)
  BY <1>2 DEF Adds
<1>4. \A n \in S : F[n] \in Nat
  BY ApplyAssumptions DEF ApplyAssumptions, ClassOf
<1> HIDE DEF A, F
<1>5. A(CHOOSE h : A(h))
  BY <1>3, AddsExists
<1>6. (CHOOSE h : A(h))[S] = SumOver(F, S)
  BY <1>3, <1>5, AddsSum
<1> QED
  BY <1>1, <1>4, <1>6, SumNat

LEMMA NodesFinite ==
  ASSUME NEW parity, NEW n \in Int
  PROVE  IsFiniteSet(ClusterNodes \cup NewNodes(parity, n))
<1>1. IsFiniteSet({"new"} \X {parity} \X (1..n))
  <2> DEFINE f == [k \in 1..n |-> <<"new", parity, k>>]
  <2>1. {"new"} \X {parity} \X (1..n) = {f[k] : k \in 1..n}
    OBVIOUS
  <2>2. IsFiniteSet(1..n)
    BY FS_Interval
  <2> HIDE DEF f
  <2> QED
    BY <2>1, <2>2, FiniteImage
<1> QED
  BY <1>1, FS_Union, ApplyAssumptions DEF NewNodes, ApplyAssumptions

-----------------------------------------------------------------------------
(* The result that the user is shown.                                      *)

\* Where the result is that of the round, and stays so.
Reported ==
    \/ pc \in {"decide", "ask"}
    \/ pc = "nodes" /\ choose = "show"
    \/ answer = "success"

Kept ==
    /\ nodes = ClusterNodes \cup NewNodes(round, newNodeNum)
    /\ result.nodes = nodes
    /\ result.placed \subseteq input
    /\ ~BindingsMayFail /\ result.unscheduled = {} => result.placed = Present
    /\ input = Before(Len(selected) + 1)

Within ==
    /\ result.vg <= Limit("vg")
    /\ \A res \in ResourceNames :
          Total(res, result.nodes) # 0 =>
             Used(res, result.placed) * 100 <= (Limit(res) + 1) * Total(res, result.nodes)

ResultInv ==
    /\ pc = "prepare" => choose # "show"
    /\ pc \notin {"nodes", "done", "hung"} => answer = ""
    /\ pc = "nodes" => answer = ""
    /\ answer = "success" => pc = "done" /\ result.unscheduled = {} /\ Within
    /\ Reported => Kept

LEMMA ShareWithin ==
  ASSUME NEW u \in Nat, NEW w \in Nat \ {0}, NEW limit \in Nat, (u - 1) \div w <= limit
  PROVE  u <= (limit + 1) * w
<1> DEFINE q == (u - 1) \div w
           r == (u - 1) % w
<1>1. u - 1 = w * q + r /\ r \in 0..w - 1 /\ q \in Int
  OBVIOUS
<1> HIDE DEF q, r
<1>2. PICK d \in Nat : limit = q + d
  <2>1. limit - q \in Nat /\ limit = q + (limit - q)
    BY <1>1 DEF q
  <2> QED
    BY <2>1
<1>3. (limit + 1) * w = w * q + d * w + w
  BY <1>1, <1>2
<1>4. d * w \in Nat
  BY <1>2
<1> QED
  BY <1>1, <1>3, <1>4

\* The manifests do not change after the applications are selected.
ManifestIn(sel, p) ==
    IF p[2] = "DaemonSet" THEN p[3]
    ELSE (IF p[1] = 0 THEN ClusterResource ELSE ResourceOf(sel[p[1]]))[p[2]][p[3]]

UsedIn(sel, res, placed) == MapThenSumSet(LAMBDA p : Demand[ManifestIn(sel, p)][res], placed)

\* What a verdict is about stays as it is when the result does.
LEMMA SameResult ==
  ASSUME UNCHANGED <<selected, input, result>>
  PROVE  /\ \A res : /\ Used(res, result.placed)' = Used(res, result.placed)
                     /\ Total(res, result.nodes)' = Total(res, result.nodes)
                     /\ Limit(res)' = Limit(res)
         /\ Present' = Present /\ BindingsMayFail' = BindingsMayFail
<1>1. ASSUME NEW res
      PROVE  Used(res, result.placed)' = Used(res, result.placed)
  <2>1. Used(res, result.placed)' = UsedIn(selected', res, result'.placed)
    BY DEF Used, UsedIn, ManifestOf, ManifestIn, MapThenSumSet, MapThenFoldSet
  <2>2. Used(res, result.placed) = UsedIn(selected, res, result.placed)
    BY DEF Used, UsedIn, ManifestOf, ManifestIn
  <2> QED
    BY <2>1, <2>2
<1>2. ASSUME NEW res
      PROVE  Total(res, result.nodes)' = Total(res, result.nodes) /\ Limit(res)' = Limit(res)
  BY DEF Limit
<1>3. Present' = Present /\ BindingsMayFail' = BindingsMayFail
  BY DEF Present, BindingsMayFail, Unnamed, Astray, Named, ManifestOf, ResourceOf
<1> QED
  BY <1>1, <1>2, <1>3

LEMMA SameInput ==
  ASSUME UNCHANGED <<selected, nodes>>
  PROVE  Before(Len(selected) + 1)' = Before(Len(selected) + 1)
<1>1. PICK m : m = Len(selected) + 1
  OBVIOUS
<1>2. Before(m)' = Before(m)
  BY SameRound
<1>3. Before(Len(selected) + 1)' = Before(m)'
  BY <1>1 DEF Before
<1> QED
  BY <1>1, <1>2, <1>3

\* The steps after the result has come, and those that end a round.
LEMMA ResultFrame ==
  ASSUME ResultInv, UNCHANGED <<selected, nodes, input, round, result>>,
         Reported' => Reported /\ newNodeNum' = newNodeNum,
         pc' = "prepare" => pc = "prepare" /\ choose' = choose,
         pc' \in {"done", "hung"} \/ answer' = "",
         answer' = "success" => answer = "success" /\ pc' = "done"
  PROVE  ResultInv'
<1>1. Reported' => Kept'
  BY SameResult, SameInput DEF ResultInv, Kept, NewNodes
<1>2. Within => Within'
  BY SameResult DEF Within
<1> QED
  BY <1>1, <1>2 DEF ResultInv, Reported

LEMMA ResultSimulate ==
  ASSUME ResultInv, RoundInv, Simulate
  PROVE  ResultInv'
<1>0. pc = "simulate" /\ answer = "" /\ UNCHANGED <<selected, nodes, input, round, newNodeNum>>
  BY DEF Simulate, ResultInv
<1>1. CASE SimulateFails /\ result' = result
  BY <1>0, <1>1, ResultFrame DEF SimulateFails, Return, Reported
<1>2. CASE result' \in Outcomes /\ pc' = "decide" /\ answer' = answer
  <2>1. nodes = ClusterNodes \cup NewNodes(round, newNodeNum)
    BY <1>0 DEF RoundInv, RoundNodes
  <2>2. PICK r \in Outcomes : r = result'
    BY <1>2
  <2>3. /\ r.nodes = nodes /\ r.placed \subseteq Present
        /\ ~BindingsMayFail => r.unscheduled = Unnamed(input) \ r.placed
        /\ Present \subseteq r.placed \cup r.unscheduled \cup Unnamed(input)
    BY DEF Outcomes
  <2>4. Present \subseteq input
    BY DEF Present
  <2>5. ~BindingsMayFail /\ r.unscheduled = {} => r.placed = Present
    BY <2>3
  <2>6. Present' = Present /\ BindingsMayFail' = BindingsMayFail
    BY <1>0 DEF Present, BindingsMayFail, Unnamed, Astray, Named, ManifestOf, ResourceOf
  <2>7. input' = Before(Len(selected) + 1)'
    BY <1>0, SameInput DEF RoundInv, SoFar
  <2>8. Kept'
    BY <1>0, <2>1, <2>2, <2>3, <2>4, <2>5, <2>6, <2>7 DEF Kept, NewNodes
  <2> QED
    BY <1>0, <1>2, <2>8 DEF ResultInv
<1> QED
  BY <1>0, <1>1, <1>2 DEF Simulate

LEMMA ResultReport ==
  ASSUME ResultInv, RoundInv, Rest, Numbers \subseteq Int, Report
  PROVE  ResultInv'
<1>0. /\ pc = "decide" /\ answer = "" /\ result.unscheduled = {} /\ Reported /\ Kept
      /\ UNCHANGED <<selected, nodes, input, round, newNodeNum, choose, result>>
  BY DEF Report, ResultInv, Reported
<1>1. CASE answer' # "success"
  BY <1>0, <1>1, ResultFrame DEF Report, Return, Reported
<1>2. CASE answer' = "success"
  <2>1. MayBeWithin /\ pc' = "done"
    BY <1>0, <1>2 DEF Report, Return
  <2>2. IsFiniteSet(nodes) /\ result.placed \in SUBSET Before(Len(selected) + 1)
    <3>0. newNodeNum \in Numbers \cup {0}
      BY DEF Rest
    <3>1. newNodeNum \in Int
      BY <3>0
    <3>2. IsFiniteSet(ClusterNodes \cup NewNodes(round, newNodeNum))
      BY <3>1, NodesFinite
    <3> QED
      BY <1>0, <3>2 DEF Kept
  <2>3. ASSUME NEW res \in ResourceNames, Total(res, result.nodes) # 0
        PROVE  Used(res, result.placed) * 100 <= (Limit(res) + 1) * Total(res, result.nodes)
    <3>1. Used(res, result.placed) \in Nat
      BY <2>2, UsedNat DEF RoundInv
    <3>2. Total(res, result.nodes) \in Nat
      BY <1>0, <2>2, TotalNat DEF Kept
    <3>3. Limit(res) \in Nat
      BY DEF Limit
    <3>4. (Used(res, result.placed) * 100 - 1) \div Total(res, result.nodes) <= Limit(res)
      BY <2>1, <2>3 DEF MayBeWithin, Share, Whole
    <3>5. Used(res, result.placed) * 100 \in Nat /\ Total(res, result.nodes) \in Nat \ {0}
      BY <2>3, <3>1, <3>2
    <3> QED
      BY <3>3, <3>4, <3>5, ShareWithin
  <2>4. Within'
    BY <1>0, <2>1, <2>3, SameResult DEF Within, MayBeWithin
  <2>5. Kept'
    BY <1>0, SameResult, SameInput DEF Kept, NewNodes
  <2> QED
    BY <1>0, <1>2, <2>1, <2>4, <2>5 DEF ResultInv
<1> QED
  BY <1>1, <1>2

LEMMA ResultNext ==
  ASSUME ResultInv, RoundInv, Rest, Numbers \subseteq Int, [Run \/ User]_vars
  PROVE  ResultInv'
<1>1. CASE PrepareFails \/ ShowAgain \/ Ask \/ NextPart
  BY <1>1, ResultFrame DEF PrepareFails, ShowAgain, Ask, NextPart, Return, runVars,
     ResultInv, Reported
<1>2. CASE Prepare
  BY <1>2 DEF Prepare, ResultInv, Reported
<1>3. CASE NewFakeNodes
  <2>1. pc = "nodes" /\ answer = "" /\ choose # "show"
    BY <1>3 DEF NewFakeNodes, ResultInv
  <2>2. pc' \in {"done", "expand"} /\ answer' \in {"", "error"}
    BY <1>3, <2>1 DEF NewFakeNodes, Return
  <2>3. pc' = "expand" => answer' = ""
    BY <1>3, <2>1 DEF NewFakeNodes, Return
  <2> QED
    BY <2>2, <2>3 DEF ResultInv, Reported
<1>4. CASE Expanding
  BY <1>4, ResultFrame DEF Expanding, applyVars, runVars, ResultInv, Reported
<1>5. CASE Expanded
  BY <1>5 DEF Expanded, SimulateFails, Return, ResultInv, Reported
<1>6. ASSUME NEW d \in DaemonSets, NEW n \in nodes, NewDaemonPod(d, n) PROVE ResultInv'
  BY <1>6 DEF NewDaemonPod, SimulateFails, Return, ResultInv, Reported
<1>7. CASE User
  BY <1>7, ResultFrame DEF User, ShowResults, AddNode, Exit, Return, ResultInv, Reported
<1>8. CASE UNCHANGED vars
  BY <1>8, ResultFrame DEF vars, applyVars, runVars, ResultInv, Reported
<1> QED
  BY <1>1, <1>2, <1>3, <1>4, <1>5, <1>6, <1>7, <1>8, ResultSimulate, ResultReport DEF Run

(* "Simulation success!" is said only of the nodes asked for last; what was  *)
(* placed on them keeps to the limits but for the rounding, with what pods   *)
(* that name their node use; and when no binding can fail, every pod is      *)
(* placed but those whose node is not there (Run, Simulate and               *)
(* satisfyResourceSetting).                                                  *)
THEOREM SuccessIsTrue == ApplySpec => []SuccessHolds
<1>1. ApplyInit => Rest /\ ResultInv
  BY DEF ApplyInit, Rest, ResultInv, Reported
<1>2. Numbers \subseteq Int
  BY ApplyAssumptions DEF ApplyAssumptions
<1>3. ResultInv /\ RoundInv /\ Rest /\ [Run \/ User]_vars => ResultInv'
  BY <1>2, ResultNext
<1>4. ResultInv => SuccessHolds
  BY DEF ResultInv, Reported, Kept, Within, SuccessHolds
<1> QED
  BY <1>1, <1>3, <1>4, RestNext, RoundHolds, PTL DEF ApplySpec
=============================================================================
