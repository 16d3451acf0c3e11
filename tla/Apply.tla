-------------------------------- MODULE Apply --------------------------------
(***************************************************************************)
(* The loop of pkg/apply/apply.go: simulate the applications on the cluster *)
(* with a number of new nodes; when pods are left over, ask the user for    *)
(* another number; when none is, look at the limits on the use of           *)
(* resources.  The manifests are parsed once and the same objects go into   *)
(* every round, so each round expands them again (Expand) and writes on     *)
(* them.  Of the simulation itself the module keeps what it may return:     *)
(* what the scheduler places does not exceed the nodes; pods that name a    *)
(* node are on it unasked; a pod that is not placed is reported, unless a   *)
(* binding has failed or the node it names is not there.                    *)
(***************************************************************************)
EXTENDS Expand, FiniteSetsExt

CONSTANTS
    ClusterResource,    \* the cluster: kinds of manifests to lists of them
    Apps,               \* the applications: records of name and resource
    Interactive,
    DaemonSets,
    DaemonSetsOf,       \* those of the cluster (0) and of each application
    HasAffinity,        \* DaemonSets whose template comes with an affinity
    ValidTemplate,      \* DaemonSets whose pods MakeValidPod accepts
    Suits,              \* the nodes, or "new", that each DaemonSet tolerates
    ClusterNodes,
    NewNode,            \* the node to be added: "none", "valid" or "invalid"
    Numbers,            \* a bound: the numbers of nodes the user may type
    NodeName,           \* the node that the pods of a manifest or DaemonSet name, or None
    MayFail,            \* those with storage or devices: a binding of theirs may fail
    ResourceNames,      \* cpu, memory
    Demand,             \* of a manifest's or DaemonSet's pod, in each resource
    Allocatable,        \* of each node, or "new", in each resource
    VGShares,           \* a bound: how much of the volume groups may be requested, in percent
    MaxUse              \* the limits in the environment: Unset, or what Atoi makes of it
CONSTANTS Unset, NotANumber

ASSUME ApplyAssumptions ==
    /\ ClusterResource \in Resources
    /\ Len(Apps) \in Nat /\ DOMAIN Apps = 1..Len(Apps)
    /\ \A i \in DOMAIN Apps : Apps[i].resource \in Resources
    /\ DaemonSetsOf \in [0..Len(Apps) -> SUBSET DaemonSets]
    /\ HasAffinity \subseteq DaemonSets /\ ValidTemplate \subseteq DaemonSets
    /\ NewNode \in {"none", "valid", "invalid"}
    /\ Numbers \subseteq Int
    /\ VGShares \subseteq Nat
    /\ MaxUse \in [ResourceNames \cup {"vg"} -> Int \cup {Unset, NotANumber}]
    /\ IsFiniteSet(DaemonSets) /\ IsFiniteSet(ClusterNodes) /\ None \notin ClusterNodes
    /\ \A res \in ResourceNames :
          /\ \A m \in Manifests \cup DaemonSets : Demand[m][res] \in Nat
          /\ \A n \in ClusterNodes \cup {"new"} : Allocatable[n][res] \in Nat

VARIABLES
    pc,         \* where Run is
    selected,   \* the applications to be deployed, by position
    part,       \* what is being expanded: the cluster (0) or an application
    newNodeNum, choose,
    round,      \* parity of the round: new nodes get new names each time
    nodes,      \* the nodes of the round
    todo,       \* the DaemonSets and nodes that MakeValidPodsByDaemonset has left
    pinned,     \* the node that the template of each DaemonSet was last bound to
    input,      \* the pods that the simulation is given
    result,     \* what it returned, until the next round starts
    answer      \* how Run ended

runVars == <<selected, newNodeNum, choose, round, pinned, result, answer>>
applyVars == <<runVars, pc, part, nodes, todo, input>>
vars == <<expandVars, applyVars>>

ApplyInit ==
    /\ ExpandInit
    /\ pc = "prepare"
    /\ selected = <<>>
    /\ part = 0
    /\ newNodeNum = 0
    /\ choose = ""
    /\ round = 0
    /\ nodes = {}
    /\ todo = {}
    /\ pinned = [d \in DaemonSets |-> None]
    /\ input = {}
    /\ result = None
    /\ answer = ""

Return(how) ==
    /\ answer' = how
    /\ pc' = "done"

-----------------------------------------------------------------------------
(* Steps 1 to 3: read the manifests and confirm the applications.           *)

\* A file may be missing or not parse.
PrepareFails ==
    /\ pc = "prepare"
    /\ Return("error")
    /\ UNCHANGED <<expandVars, selected, newNodeNum, choose, round, pinned, result,
                   part, nodes, todo, input>>

\* The applications ticked, in the order of the list.
Selections ==
    {s \in UNION {[1..n -> DOMAIN Apps] : n \in 0..Len(Apps)} :
        \A i, j \in DOMAIN s : i < j => s[i] < s[j]}

Prepare ==
    /\ pc = "prepare"
    /\ selected' \in Selections
    /\ ~Interactive => Len(selected') = Len(Apps)
    /\ pc' = "nodes"
    /\ UNCHANGED <<expandVars, newNodeNum, choose, round, pinned, result, answer,
                   part, nodes, todo, input>>

\* resourceMap is keyed by name: of two applications of one name the last is kept.
ResourceOf(i) ==
    LET last == CHOOSE j \in DOMAIN Apps :
                    /\ Apps[j].name = Apps[i].name
                    /\ \A k \in DOMAIN Apps : Apps[k].name = Apps[i].name => k <= j
    IN  Apps[last].resource

-----------------------------------------------------------------------------
(* Step 4, one simulation.                                                  *)

NewNodes(parity, n) == {"new"} \X {parity} \X (1..n)

NodeRefused(n) ==
    \/ NewNode = "none" /\ n # 0
    \/ NewNode = "invalid" /\ n > 0

\* Copies of one node object, renamed before each copy is taken.
NewFakeNodes ==
    /\ pc = "nodes"
    /\ choose # "show"
    /\ round' = 1 - round
    /\ part' = 0
    /\ input' = {}
    /\ IF NodeRefused(newNodeNum)
       THEN Return("error") /\ UNCHANGED <<nodes, expandVars>>
       ELSE /\ nodes' = ClusterNodes \cup NewNodes(1 - round, newNodeNum)
            /\ pc' = "expand" /\ answer' = answer
            /\ resources' = ClusterResource /\ Call
    /\ result' = None
    /\ UNCHANGED <<selected, newNodeNum, choose, pinned, todo>>

ShowAgain ==
    /\ pc = "nodes"
    /\ choose = "show"
    /\ pc' = "decide"
    /\ UNCHANGED <<expandVars, runVars, part, nodes, todo, input>>

Expanding ==
    /\ pc = "expand"
    /\ Running
    /\ UNCHANGED applyVars

\* Simulate returns the error or never returns: Close waits for a scheduler that may
\* not run.
SimulateFails ==
    \/ Return("error")
    \/ pc' = "hung" /\ answer' = answer

Expanded ==
    /\ pc = "expand"
    /\ caller = "returned"
    /\ IF rstErr # None
       THEN SimulateFails /\ UNCHANGED <<todo, input>>
       ELSE /\ input' = input \cup {<<part, p[1][1], p[2], p[3]>> : p \in pods}
            /\ todo' = DaemonSetsOf[IF part = 0 THEN 0 ELSE selected[part]] \X nodes
            /\ pc' = "daemons" /\ answer' = answer
    /\ UNCHANGED <<expandVars, selected, newNodeNum, choose, round, pinned, result,
                   part, nodes>>

ClassOf(n) == IF n \in ClusterNodes THEN n ELSE "new"

(***************************************************************************)
(* Mutant: a template that names a node already keeps it.                  *)
(***************************************************************************)
PinOnce(d, n) == IF d \in HasAffinity /\ pinned[d] # None THEN pinned[d] ELSE n

\* SetDaemonSetPodNodeNameByNodeAffinity replaces whatever node the template names.
PinOf(d, n) == n

\* NewDaemonPod and NodeShouldRunPod for one node.  A template without an affinity
\* gets one of its own for each pod; one with an affinity is written on, and the
\* pod is a deep copy of it.
NewDaemonPod(d, n) ==
    /\ pc = "daemons"
    /\ <<d, n>> \in todo
    /\ pinned' = IF d \in HasAffinity THEN [pinned EXCEPT ![d] = PinOf(d, n)] ELSE pinned
    /\ todo' = todo \ {<<d, n>>}
    /\ IF d \notin ValidTemplate
       THEN SimulateFails /\ input' = input
       ELSE /\ input' = IF PinOf(d, n) = n /\ ClassOf(n) \in Suits[d]
                        THEN input \cup {<<part, "DaemonSet", d, n>>} ELSE input
            /\ UNCHANGED <<pc, answer>>
    /\ UNCHANGED <<expandVars, selected, newNodeNum, choose, round, result, part, nodes>>

\* The cluster is simulated before the applications are expanded; the outcome of the
\* whole is decided in Simulate below.
NextPart ==
    /\ pc = "daemons"
    /\ todo = {}
    /\ IF part < Len(selected)
       THEN /\ part' = part + 1
            /\ resources' = ResourceOf(selected[part + 1]) /\ Call
            /\ pc' = "expand"
       ELSE pc' = "simulate" /\ UNCHANGED <<part, expandVars>>
    /\ UNCHANGED <<runVars, nodes, todo, input>>

ManifestOf(p) ==
    IF p[2] = "DaemonSet" THEN p[3]
    ELSE (IF p[1] = 0 THEN ClusterResource ELSE ResourceOf(selected[p[1]]))[p[2]][p[3]]

Used(res, placed) == MapThenSumSet(LAMBDA p : Demand[ManifestOf(p)][res], placed)
Total(res, ns) == MapThenSumSet(LAMBDA n : Allocatable[ClassOf(n)][res], ns)

\* Pods that name a node are created with it and never looked at again: they are on
\* the node if it is there, and in no list if it is not.  The names of new nodes are
\* random, so no manifest has one.
Named(p) == NodeName[ManifestOf(p)] # None
Astray(p) == Named(p) /\ NodeName[ManifestOf(p)] \notin ClusterNodes
Present == {p \in input : ~Astray(p)}
Unnamed(S) == {p \in S : ~Named(p)}

\* A failed binding is reported by nobody, and a second later its retry takes the token
\* of another pod, or leaves a reason for one that names its node: after one, any pod may
\* be reported, and any but those with a node be in no list.
BindingsMayFail == \E p \in Unnamed(input) : ManifestOf(p) \in MayFail

\* What Simulate may return.  The scheduler places no more than the nodes hold.
Outcomes ==
    {r \in [nodes : {nodes}, placed : SUBSET Present, unscheduled : SUBSET input,
            vg : VGShares] :
        /\ r.placed \cap r.unscheduled = {}
        /\ Present \subseteq r.placed \cup r.unscheduled \cup Unnamed(input)
        /\ ~BindingsMayFail => r.unscheduled = Unnamed(input) \ r.placed
        /\ \A res \in ResourceNames : Used(res, Unnamed(r.placed)) <= Total(res, nodes)}

(***************************************************************************)
(* Mutant: the pods left over are those of the last application alone.     *)
(***************************************************************************)
SimulateLastApp ==
    /\ pc = "simulate"
    /\ \E r \in Outcomes :
          result' = [r EXCEPT !.unscheduled = {p \in @ : p[1] = Len(selected)}]
    /\ pc' = "decide"
    /\ UNCHANGED <<expandVars, selected, newNodeNum, choose, round, pinned, answer,
                   part, nodes, todo, input>>

\* An application may also be refused, when the fake API server has an object of that
\* name already, and a wait for a pod may not end.
Simulate ==
    /\ pc = "simulate"
    /\ \/ result' \in Outcomes /\ pc' = "decide" /\ answer' = answer
       \/ SimulateFails /\ result' = result
    /\ UNCHANGED <<expandVars, selected, newNodeNum, choose, round, pinned,
                   part, nodes, todo, input>>

-----------------------------------------------------------------------------
(* Step 4, what to do with the result.                                      *)

\* satisfyResourceSetting: percentages, rounded down; a limit that makes no sense
\* counts as 100.
Limit(res) == IF MaxUse[res] \in 0..100 THEN MaxUse[res] ELSE 100

Share(res) == Used(res, result.placed) * 100
Whole(res) == Total(res, result.nodes)

\* The quotient is a float: a share of exactly n% may come out below n and be cut to
\* n - 1.  Without any of the resource it is no number, which is within every limit,
\* or infinite, if pods that name their node use some: what the conversion to an
\* integer makes of that depends on the machine.  The volume groups are read off the
\* nodes' annotations, where open-local keeps its books.
MayBeWithin ==
    /\ result.vg <= Limit("vg")
    /\ \A res \in ResourceNames :
          Whole(res) # 0 => (Share(res) - 1) \div Whole(res) <= Limit(res)

MayBeOver ==
    \/ result.vg > Limit("vg")
    \/ \E res \in ResourceNames :
          IF Whole(res) = 0 THEN Share(res) > 0 ELSE Share(res) \div Whole(res) > Limit(res)

NotNumeric == \E res \in DOMAIN MaxUse : MaxUse[res] = NotANumber

\* Over the limits the loop goes round with the same number of nodes.
Report ==
    /\ pc = "decide"
    /\ result.unscheduled = {}
    /\ IF NotNumeric THEN Return("error")
       ELSE \/ MayBeWithin /\ Return("success")
            \/ MayBeOver /\ pc' = "nodes" /\ answer' = answer
    /\ UNCHANGED <<expandVars, selected, newNodeNum, choose, round, pinned, result,
                   part, nodes, todo, input>>

(***************************************************************************)
(* Mutant: the results once shown, the user is not asked again.            *)
(***************************************************************************)
AskOnce ==
    /\ pc = "decide"
    /\ result.unscheduled # {}
    /\ pc' = IF choose = "show" THEN "nodes" ELSE "ask"
    /\ UNCHANGED <<expandVars, runVars, part, nodes, todo, input>>

Ask ==
    /\ pc = "decide"
    /\ result.unscheduled # {}
    /\ pc' = "ask"
    /\ UNCHANGED <<expandVars, runVars, part, nodes, todo, input>>

ShowResults ==
    /\ pc = "ask"
    /\ choose' = "show"
    /\ pc' = "nodes"
    /\ UNCHANGED <<expandVars, selected, newNodeNum, round, pinned, result, answer,
                   part, nodes, todo, input>>

\* The number replaces the one before.
AddNode(n) ==
    /\ pc = "ask"
    /\ choose' = "add"
    /\ newNodeNum' = n
    /\ pc' = "nodes"
    /\ UNCHANGED <<expandVars, selected, round, pinned, result, answer,
                   part, nodes, todo, input>>

Exit ==
    /\ pc = "ask"
    /\ choose' = "exit"
    /\ Return("exit")
    /\ UNCHANGED <<expandVars, selected, newNodeNum, round, pinned, result,
                   part, nodes, todo, input>>

Run ==
    \/ PrepareFails \/ Prepare \/ NewFakeNodes \/ ShowAgain \/ Expanding \/ Expanded
    \/ \E d \in DaemonSets, n \in nodes : NewDaemonPod(d, n)
    \/ NextPart \/ Simulate \/ Report \/ Ask

\* An interrupted prompt ends the process, which is as if it were never answered.
User == ShowResults \/ Exit \/ \E n \in Numbers : AddNode(n)

ApplySpec == ApplyInit /\ [][Run \/ User]_vars

\* The program goes on by itself; the user may never answer.
FairSpec == ApplySpec /\ WF_vars(Run)

-----------------------------------------------------------------------------
(* Properties.                                                             *)

ApplyTypeOK ==
    /\ ExpandTypeOK
    /\ pc \in {"prepare", "nodes", "expand", "daemons", "simulate", "decide", "ask", "done",
              "hung"}
    /\ part \in 0..Len(selected)
    /\ newNodeNum \in Numbers \cup {0}
    /\ choose \in {"", "show", "add", "exit"}
    /\ round \in {0, 1}
    /\ todo \subseteq DaemonSets \X nodes
    /\ result # None => result.placed \cap result.unscheduled = {}
    /\ answer \in {"", "error", "exit", "success"}

\* The pods that the part-th list of manifests should give on these nodes.
PodsOf(i, resource) ==
    UNION {{<<i, x[1], x[2], k>> : k \in 0..Instances(x[1], resource[x[1]][x[2]]) - 1} :
              x \in UNION {{kind} \X DOMAIN resource[kind] : kind \in Kinds}}

DaemonPodsOf(i, ds) ==
    {<<i, "DaemonSet", x[1], x[2]>> :
        x \in {y \in ds \X nodes : ClassOf(y[2]) \in Suits[y[1]]}}

DistinctNames == \A i, j \in DOMAIN Apps : Apps[i].name = Apps[j].name => i = j

\* However many rounds came before, and whatever they wrote on the shared manifests,
\* the cluster has the new nodes asked for last and no others, and what is simulated
\* is what the manifests say: one pod per replica, and for each DaemonSet one pod
\* bound to each node of this round that it suits (Run, NewFakeNodes, Simulate,
\* MakeValidPodsByDaemonset).
RoundsAlike ==
    pc = "simulate" /\ DistinctNames =>
        /\ nodes = ClusterNodes \cup NewNodes(round, newNodeNum)
        /\ input = UNION {PodsOf(i, IF i = 0 THEN ClusterResource
                                    ELSE Apps[selected[i]].resource)
                            \cup DaemonPodsOf(i, DaemonSetsOf[IF i = 0 THEN 0
                                                              ELSE selected[i]]) :
                          i \in 0..Len(selected)}

\* "Simulation success!" is said only of the nodes asked for last; no resource is used
\* beyond its limit by what was placed, whoever placed it, but for what the rounding
\* hides; and when no binding can fail, nothing is missing: every pod of the cluster and
\* of every selected application is placed, but those that name a node that is not there.
SuccessHolds ==
    answer = "success" =>
        /\ result.nodes = ClusterNodes \cup NewNodes(round, newNodeNum)
        /\ ~BindingsMayFail => result.placed = Present
        /\ result.vg <= Limit("vg")
        /\ \A res \in ResourceNames :
              Total(res, result.nodes) # 0 =>
                 Used(res, result.placed) * 100 <= (Limit(res) + 1) * Total(res, result.nodes)

Over == pc = "decide" /\ result.unscheduled = {} /\ MayBeOver

\* Every round ends the program or turns to the user, unless Simulate never returns or
\* all pods fit and a limit is exceeded.
EndsOrAsks ==
    pc = "nodes" ~> (pc \in {"ask", "done", "hung"} \/ Over)

\* Where the limits are not met, the scale of the cluster is adjusted by adding nodes
\* (the comment on step 4 of Run): the user gets to choose, or the program ends.
LimitsAdjust ==
    Over ~> (pc \in {"ask", "done", "hung"})

=============================================================================
