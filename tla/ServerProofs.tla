---------------------------- MODULE ServerProofs ----------------------------
(***************************************************************************)
(* The handlers of the REST server, for every cluster, every history of    *)
(* the caches and any number of requests: the locks, and what each request *)
(* simulates.                                                              *)
(***************************************************************************)
EXTENDS Server, TLAPS

-----------------------------------------------------------------------------
(* Every variable keeps its type (the locals of the handlers in            *)
(* setupRouter).                                                           *)
LEMMA FreshType == Fresh \in Locals
  BY DEF Fresh, Locals

LEMMA LocalTypes ==
  ASSUME NEW l \in Locals
  PROVE  /\ l.clusterPods \in SUBSET Pods /\ l.pendingPods \in SUBSET Pods
         /\ l.daemonSets \in [Workloads -> {"absent", "cluster", "request"}]
         /\ l.moved \in SUBSET Pods /\ l.lasting \in SUBSET Workloads
         /\ l.selected \in SUBSET Workloads
         /\ l.left \in SUBSET UNION {Scaled[r] : r \in Requests}
  BY DEF Locals

LEMMA PodUpdates ==
  ASSUME NEW l \in Locals, NEW P \in SUBSET Pods
  PROVE  /\ [l EXCEPT !.clusterPods = P] \in Locals
         /\ [l EXCEPT !.pendingPods = P] \in Locals
         /\ [l EXCEPT !.moved = P] \in Locals
  BY DEF Locals

LEMMA WorkloadUpdates ==
  ASSUME NEW l \in Locals, NEW W \in SUBSET Workloads
  PROVE  [l EXCEPT !.lasting = W] \in Locals
  BY DEF Locals

LEMMA TemplateUpdates ==
  ASSUME NEW l \in Locals, NEW d \in [Workloads -> {"absent", "cluster", "request"}]
  PROVE  [l EXCEPT !.daemonSets = d] \in Locals
  BY DEF Locals

\* What removePodsOfApp changes.
LEMMA SelectionUpdates ==
  ASSUME NEW l \in Locals, NEW W \in SUBSET Workloads,
         NEW L \in SUBSET UNION {Scaled[r] : r \in Requests}
  PROVE  [l EXCEPT !.selected = W, !.left = L] \in Locals
  BY DEF Locals

LEMMA RemovalUpdates ==
  ASSUME NEW l \in Locals, NEW P \in SUBSET Pods, NEW W \in SUBSET Workloads,
         NEW d \in [Workloads -> {"absent", "cluster", "request"}]
  PROVE  /\ [l EXCEPT !.clusterPods = P, !.daemonSets = d, !.selected = W] \in Locals
         /\ [l EXCEPT !.pendingPods = P, !.selected = W] \in Locals
  BY DEF Locals

\* A StatefulSet is found and selected, or the request has failed.
LEMMA GetOutcomes ==
  ASSUME TypeOK, NEW r \in Requests, GetStatefulSet(r)
  PROVE  /\ \A q \in Requests : q # r => local'[q] = local[q] /\ pc'[q] = pc[q]
         /\ \/ pc'[r] = "unlock" /\ local'[r] = Fresh
            \/ /\ pc' = pc
               /\ \E s \in local[r].left :
                     /\ local'[r].selected = local[r].selected
                            \cup {w \in workloadCache : Identity(w) = s}
                     /\ local'[r].left = local[r].left \ {s}
               /\ local'[r].clusterPods = local[r].clusterPods
               /\ local'[r].pendingPods = local[r].pendingPods
               /\ local'[r].daemonSets = local[r].daemonSets
               /\ local'[r].moved = local[r].moved
               /\ local'[r].lasting = local[r].lasting
<1>0. /\ local[r] \in Locals /\ local \in [Requests -> Locals]
      /\ pc \in [Requests -> Holding \cup {"new", "refused", "done"}]
  BY DEF TypeOK
<1>1. PICK s \in local[r].left :
         LET found == {w \in workloadCache : Identity(w) = s} IN
         IF found = {} THEN Answer(r, 500)
         ELSE /\ local' = [local EXCEPT ![r] = [local[r] EXCEPT
                     !.selected = local[r].selected \cup found,
                     !.left = local[r].left \ {s}]]
              /\ UNCHANGED <<pc, code>>
  BY DEF GetStatefulSet
<1>2. CASE Answer(r, 500)
  BY <1>0, <1>2 DEF Answer
<1> DEFINE W == local[r].selected \cup {w \in workloadCache : Identity(w) = s}
           L == local[r].left \ {s}
<1>3. CASE /\ local' = [local EXCEPT ![r] = [local[r] EXCEPT !.selected = W, !.left = L]]
           /\ UNCHANGED <<pc, code>>
  <2> HIDE DEF W, L
  <2>1. /\ local'[r] = [local[r] EXCEPT !.selected = W, !.left = L]
        /\ \A q \in Requests : q # r => local'[q] = local[q] /\ pc'[q] = pc[q]
    BY <1>0, <1>3
  <2>2. /\ local'[r].selected = W /\ local'[r].left = L
        /\ local'[r].clusterPods = local[r].clusterPods
        /\ local'[r].pendingPods = local[r].pendingPods
        /\ local'[r].daemonSets = local[r].daemonSets
        /\ local'[r].moved = local[r].moved
        /\ local'[r].lasting = local[r].lasting
    BY <1>0, <2>1 DEF Locals
  <2> QED
    BY <1>3, <2>1, <2>2 DEF W, L
<1> QED
  BY <1>1, <1>2, <1>3

LEMMA TypeInit == Init => TypeOK
  BY FreshType, ServerAssumptions DEF Init, TypeOK, ServerAssumptions, Handlers

LEMMA TypeNext == TypeOK /\ [Next]_vars => TypeOK'
<1> SUFFICES ASSUME TypeOK, [Next]_vars PROVE TypeOK'
  OBVIOUS
<1>0. \A r \in Requests : local[r] \in Locals
  BY DEF TypeOK
<1>1. ASSUME NEW p \in Pods, PodMoves(p) PROVE TypeOK'
  <2>1. local' \in [Requests -> Locals]
    <3>1. \A r \in Requests :
             [local[r] EXCEPT !.moved = local[r].moved \cup {p}] \in Locals
      BY <1>0, LocalTypes, PodUpdates
    <3> QED
      BY <1>0, <1>1, <3>1 DEF PodMoves
  <2> QED
    BY <1>1, <2>1 DEF TypeOK, PodMoves
<1>2. ASSUME NEW w \in Workloads, WorkloadAdded(w) \/ WorkloadDeleted(w) PROVE TypeOK'
  <2>1. \A r \in Requests :
           [local[r] EXCEPT !.lasting = local[r].lasting \ {w}] \in Locals
    BY <1>0, LocalTypes, WorkloadUpdates
  <2> QED
    BY <1>2, <2>1 DEF TypeOK, WorkloadAdded, WorkloadDeleted
<1>3. ASSUME NEW r \in Requests, TryLock(r) PROVE TypeOK'
  <2>0. workloadCache \in SUBSET Workloads
    BY DEF TypeOK
  <2>1. [local[r] EXCEPT !.lasting = workloadCache] \in Locals
    BY <1>0, <2>0, WorkloadUpdates
  <2>2. lock' \in [Handlers -> Requests \cup {Nobody}]
    BY <1>3, ServerAssumptions DEF TypeOK, TryLock, ServerAssumptions
  <2> QED
    BY <1>3, <2>1, <2>2 DEF TypeOK, TryLock, Goto, Holding
<1>4. ASSUME NEW r \in Requests, Refuse(r) \/ Unlock(r) PROVE TypeOK'
  BY <1>4 DEF TypeOK, Refuse, Unlock
<1>5. ASSUME NEW r \in Requests, ReadBody(r) PROVE TypeOK'
  BY <1>5, FreshType DEF TypeOK, ReadBody, Answer, Goto, Holding
<1>6. ASSUME NEW r \in Requests, GetClusterPods(r) \/ GetPendingPods(r) PROVE TypeOK'
  <2>1. /\ [local[r] EXCEPT !.clusterPods = Listed("Running")] \in Locals
        /\ [local[r] EXCEPT !.pendingPods = Listed("Pending")] \in Locals
    BY <1>0, PodUpdates DEF Listed
  <2> QED
    BY <1>6, <2>1 DEF TypeOK, GetClusterPods, GetPendingPods, Goto, Holding, Reading
<1>7. ASSUME NEW r \in Requests, GetClusterDaemonSets(r) PROVE TypeOK'
  <2>1. [local[r] EXCEPT !.daemonSets = ListedDaemonSets] \in Locals
    BY <1>0, TemplateUpdates DEF ListedDaemonSets
  <2> QED
    BY <1>7, <2>1, FreshType
       DEF TypeOK, GetClusterDaemonSets, Answer, Goto, Holding, Reading
<1>8. ASSUME NEW r \in Requests, RemoveFromCluster(r) \/ RemoveFromPending(r)
      PROVE  TypeOK'
  <2> DEFINE cluster == RemovePodsOfApp(r, local[r].clusterPods)
             pending == RemovePodsOfApp(r, local[r].pendingPods)
             scaled == ScaleDaemonSets(r, local[r].daemonSets)
  <2>1. /\ cluster \in SUBSET Pods /\ pending \in SUBSET Pods
        /\ scaled \in [Workloads -> {"absent", "cluster", "request"}]
    BY <1>0, LocalTypes DEF RemovePodsOfApp, ScaleDaemonSets
  <2>2. \/ local' = [local EXCEPT ![r] = [local[r] EXCEPT !.clusterPods = cluster,
                                                         !.daemonSets = scaled,
                                                         !.selected = {}]]
        \/ local' = [local EXCEPT ![r] = [local[r] EXCEPT !.pendingPods = pending,
                                                         !.selected = {}]]
    BY <1>8 DEF RemoveFromCluster, RemoveFromPending
  <2> HIDE DEF cluster, pending, scaled
  <2>3. /\ [local[r] EXCEPT !.clusterPods = cluster, !.daemonSets = scaled,
                            !.selected = {}] \in Locals
        /\ [local[r] EXCEPT !.pendingPods = pending, !.selected = {}] \in Locals
    BY <1>0, <2>1, RemovalUpdates
  <2>4. local' \in [Requests -> Locals]
    BY <2>2, <2>3 DEF TypeOK
  <2> QED
    BY <1>8, <2>4 DEF TypeOK, RemoveFromCluster, RemoveFromPending, Goto, Holding, Reading
<1>11. ASSUME NEW r \in Requests, ListReplicaSets(r) PROVE TypeOK'
  <2> DEFINE W == {w \in workloadCache : ReplicaSetScaled(r, w)}
             L == StatefulSetsScaled(r)
  <2>1. W \in SUBSET Workloads /\ L \in SUBSET UNION {Scaled[q] : q \in Requests}
    BY DEF TypeOK, StatefulSetsScaled
  <2>2. local' = [local EXCEPT ![r] = [local[r] EXCEPT !.selected = W, !.left = L]]
    BY <1>11 DEF ListReplicaSets
  <2> HIDE DEF W, L
  <2>3. [local[r] EXCEPT !.selected = W, !.left = L] \in Locals
    BY <1>0, <2>1, SelectionUpdates
  <2>4. local' \in [Requests -> Locals]
    BY <2>2, <2>3 DEF TypeOK
  <2> QED
    BY <1>11, <2>4 DEF TypeOK, ListReplicaSets, Goto, Holding, Reading
<1>12. ASSUME NEW r \in Requests, GetStatefulSet(r) PROVE TypeOK'
  <2>1. PICK s \in local[r].left :
           LET found == {w \in workloadCache : Identity(w) = s} IN
           IF found = {} THEN Answer(r, 500)
           ELSE /\ local' = [local EXCEPT ![r] = [local[r] EXCEPT
                       !.selected = local[r].selected \cup found,
                       !.left = local[r].left \ {s}]]
                /\ UNCHANGED <<pc, code>>
    BY <1>12 DEF GetStatefulSet
  <2> DEFINE W == local[r].selected \cup {w \in workloadCache : Identity(w) = s}
             L == local[r].left \ {s}
  <2>2. W \in SUBSET Workloads /\ L \in SUBSET UNION {Scaled[q] : q \in Requests}
    BY <1>0, LocalTypes DEF TypeOK
  <2>3. CASE Answer(r, 500)
    BY <1>12, <2>3, FreshType DEF TypeOK, GetStatefulSet, Answer, Holding
  <2>4. CASE /\ local' = [local EXCEPT ![r] = [local[r] EXCEPT !.selected = W, !.left = L]]
             /\ UNCHANGED <<pc, code>>
    <3> HIDE DEF W, L
    <3>1. [local[r] EXCEPT !.selected = W, !.left = L] \in Locals
      BY <1>0, <2>2, SelectionUpdates
    <3>2. local' \in [Requests -> Locals]
      BY <2>4, <3>1 DEF TypeOK
    <3> QED
      BY <1>12, <2>4, <3>2 DEF TypeOK, GetStatefulSet
  <2> QED
    BY <2>1, <2>3, <2>4
<1>9. ASSUME NEW r \in Requests, Simulate(r) PROVE TypeOK'
  BY <1>9, FreshType DEF TypeOK, Simulate, Answer, Goto, Holding
<1>10. CASE UNCHANGED vars
  BY <1>10 DEF vars, TypeOK
<1> QED
  BY <1>1, <1>2, <1>3, <1>4, <1>5, <1>6, <1>7, <1>8, <1>9, <1>10, <1>11, <1>12
     DEF Next, Handle

THEOREM TypeCorrect == Spec => []TypeOK
  BY TypeInit, TypeNext, PTL DEF Spec

-----------------------------------------------------------------------------
(* A lock is held by the one request of its handler under way, whatever    *)
(* way the handlers are left: a 503 means a running request (TryLock and   *)
(* the deferred Unlock of setupRouter).                                    *)
LEMMA LockNext ==
  ASSUME TypeOK, LockMatchesFlight, [Next]_vars
  PROVE  LockMatchesFlight'
<1>1. ASSUME NEW p \in Pods, PodMoves(p) PROVE LockMatchesFlight'
  BY <1>1 DEF PodMoves, LockMatchesFlight
<1>2. ASSUME NEW w \in Workloads, WorkloadAdded(w) \/ WorkloadDeleted(w)
      PROVE  LockMatchesFlight'
  BY <1>2 DEF WorkloadAdded, WorkloadDeleted, LockMatchesFlight
<1>3. ASSUME NEW r \in Requests, TryLock(r) PROVE LockMatchesFlight'
  BY <1>3, ServerAssumptions
     DEF TryLock, Goto, LockMatchesFlight, TypeOK, ServerAssumptions, Holding, Reading
<1>4. ASSUME NEW r \in Requests, Refuse(r) PROVE LockMatchesFlight'
  BY <1>4 DEF Refuse, LockMatchesFlight, TypeOK, Holding, Reading
<1>5. ASSUME NEW r \in Requests, Handle(r), ~Unlock(r) PROVE LockMatchesFlight'
  <2>1. lock' = lock /\ pc[r] \in Holding
    BY <1>5 DEF Handle, ReadBody, GetClusterPods, GetClusterDaemonSets, RemoveFromCluster,
                ListReplicaSets, GetStatefulSet, GetPendingPods, RemoveFromPending,
                Simulate,
                Holding, Reading
  <2>2. \/ pc' = pc
        \/ \E where \in Holding : pc' = [pc EXCEPT ![r] = where]
    BY <1>5 DEF Handle, ReadBody, GetClusterPods, GetClusterDaemonSets, RemoveFromCluster,
                ListReplicaSets, GetStatefulSet, GetPendingPods, RemoveFromPending,
                Simulate,
                Answer, Goto, Holding, Reading
  <2> QED
    BY <2>1, <2>2 DEF LockMatchesFlight, TypeOK
<1>6. ASSUME NEW r \in Requests, Unlock(r) PROVE LockMatchesFlight'
  BY <1>6, ServerAssumptions
     DEF Unlock, LockMatchesFlight, TypeOK, ServerAssumptions, Holding, Reading
<1>7. CASE UNCHANGED vars
  BY <1>7 DEF vars, LockMatchesFlight
<1> QED
  BY <1>1, <1>2, <1>3, <1>4, <1>5, <1>6, <1>7 DEF Next

THEOREM LocksMatch == Spec => []LockMatchesFlight
<1>1. Init => LockMatchesFlight
  BY ServerAssumptions
     DEF Init, LockMatchesFlight, ServerAssumptions, Handlers, Holding, Reading
<1> QED
  BY <1>1, TypeCorrect, LockNext, PTL DEF Spec

-----------------------------------------------------------------------------
(* What each request has listed.                                           *)

\* The step of one request leaves those of the others alone.
LEMMA OthersKept ==
  ASSUME TypeOK, NEW r \in Requests, Handle(r) \/ TryLock(r) \/ Refuse(r),
         NEW q \in Requests, q # r
  PROVE  local'[q] = local[q] /\ pc'[q] = pc[q]
<1>1. CASE GetStatefulSet(r)
  BY <1>1, GetOutcomes
<1>2. CASE ~GetStatefulSet(r)
  BY <1>2 DEF TypeOK, Handle, TryLock, Refuse, ReadBody, GetClusterPods,
         GetClusterDaemonSets, RemoveFromCluster, ListReplicaSets, GetPendingPods,
         RemoveFromPending, Simulate, Unlock, Answer, Goto
<1> QED
  BY <1>1, <1>2

(* An owner reference tells workloads of a kind apart, and a Deployment    *)
(* that is scaled is the only one of its name.                             *)
NamesAreUnique ==
    /\ \A v, w \in Workloads : KindOf[v] = KindOf[w] /\ NameOf[v] = NameOf[w] => v = w
    /\ \A r \in Requests : \A s \in Scaled[r] : \A w \in Workloads :
          /\ s.kind = "Deployment"
          /\ KindOf[w] = "ReplicaSet"
          /\ DeploymentOf[w] = s.name
          => s = [kind |-> "Deployment", name |-> DeploymentOf[w],
                  namespace |-> NamespaceOf[w]]

Excused(r, p) == OwnedByDaemonset(p) \/ OfScaledApp(r, p)

\* The pods that did not move since are listed by their phase.
ListsPhase(r, list, phase) ==
    \A p \in Pods \ local[r].moved :
        /\ p \in list => podCache[p] = phase /\ ~OwnedByDaemonset(p)
        /\ p \notin list /\ podCache[p] = phase => Excused(r, p)

\* What has been listed as running does not get pending again.
ListsOf(r) ==
    /\ pc[r] \in Reading =>
          /\ \A p \in local[r].clusterPods : podCache[p] \in {"Running", "Ended"}
          /\ ListsPhase(r, local[r].clusterPods, "Running")
    /\ pc[r] \in {"removePending", "setsPending", "simulate"} =>
          /\ local[r].clusterPods \cap local[r].pendingPods = {}
          /\ ListsPhase(r, local[r].pendingPods, "Pending")

Lists == \A r \in Requests : ListsOf(r)

\* Only workloads of the application are selected.
SelectionFits(r) ==
    /\ local[r].left \subseteq StatefulSetsScaled(r)
    /\ \A w \in local[r].selected :
          ReplicaSetScaled(r, w) \/ Identity(w) \in StatefulSetsScaled(r)

Selections == \A r \in Requests : SelectionFits(r)

LEMMA SelectionsNext ==
  ASSUME TypeOK, Selections, [Next]_vars
  PROVE  Selections'
<1> USE DEF SelectionFits, StatefulSetsScaled, ReplicaSetScaled, Identity
<1>0. \A q \in Requests : local[q] \in Locals /\ SelectionFits(q)
  BY DEF TypeOK, Selections
<1>1. ASSUME NEW q \in Requests,
             \/ local'[q] = Fresh
             \/ local'[q].selected = local[q].selected /\ local'[q].left = local[q].left
             \/ local'[q].selected = {} /\ local'[q].left = local[q].left
      PROVE  SelectionFits(q)'
  BY <1>0, <1>1 DEF Fresh
<1>2. ASSUME NEW p \in Pods, PodMoves(p), NEW q \in Requests PROVE SelectionFits(q)'
  <2>1. local'[q].selected = local[q].selected /\ local'[q].left = local[q].left
    BY <1>0, <1>2 DEF PodMoves, Locals
  <2> QED
    BY <1>1, <2>1
<1>3. ASSUME NEW w \in Workloads, WorkloadAdded(w) \/ WorkloadDeleted(w), NEW q \in Requests
      PROVE  SelectionFits(q)'
  <2>1. local'[q].selected = local[q].selected /\ local'[q].left = local[q].left
    BY <1>0, <1>3 DEF WorkloadAdded, WorkloadDeleted, Locals
  <2> QED
    BY <1>1, <2>1
<1>4. ASSUME NEW r \in Requests, Handle(r) \/ TryLock(r) \/ Refuse(r),
             NEW q \in Requests, q # r
      PROVE  SelectionFits(q)'
  BY <1>1, <1>4, OthersKept
<1>5. ASSUME NEW r \in Requests,
             \/ TryLock(r) \/ Refuse(r) \/ ReadBody(r) \/ GetClusterPods(r)
             \/ GetClusterDaemonSets(r) \/ RemoveFromCluster(r) \/ GetPendingPods(r)
             \/ RemoveFromPending(r) \/ Simulate(r) \/ Unlock(r)
      PROVE  SelectionFits(r)'
  <2>1. \/ local'[r] = Fresh
        \/ local'[r].selected = local[r].selected /\ local'[r].left = local[r].left
        \/ local'[r].selected = {} /\ local'[r].left = local[r].left
    <3>1. CASE TryLock(r) \/ Refuse(r) \/ ReadBody(r) \/ Simulate(r) \/ Unlock(r)
      BY <1>0, <3>1 DEF TypeOK, Locals, TryLock, Refuse, ReadBody, Simulate, Unlock,
                        Answer
    <3>2. CASE GetClusterPods(r) \/ GetClusterDaemonSets(r) \/ GetPendingPods(r)
      BY <1>0, <3>2
         DEF TypeOK, Locals, GetClusterPods, GetClusterDaemonSets, GetPendingPods, Answer
    <3>3. CASE RemoveFromCluster(r)
      BY <1>0, <3>3 DEF TypeOK, Locals, RemoveFromCluster
    <3>4. CASE RemoveFromPending(r)
      BY <1>0, <3>4 DEF TypeOK, Locals, RemoveFromPending
    <3> QED
      BY <1>5, <3>1, <3>2, <3>3, <3>4
  <2> QED
    BY <1>1, <2>1
<1>6. ASSUME NEW r \in Requests, ListReplicaSets(r) PROVE SelectionFits(r)'
  <2>1. /\ local'[r].selected = {w \in workloadCache : ReplicaSetScaled(r, w)}
        /\ local'[r].left = StatefulSetsScaled(r)
    BY <1>0, <1>6 DEF ListReplicaSets, TypeOK, Locals
  <2> QED
    BY <2>1
<1>7. ASSUME NEW r \in Requests, GetStatefulSet(r) PROVE SelectionFits(r)'
  <2>1. \/ local'[r] = Fresh
        \/ \E s \in local[r].left :
              /\ local'[r].selected = local[r].selected
                      \cup {w \in workloadCache : Identity(w) = s}
              /\ local'[r].left = local[r].left \ {s}
    BY <1>7, GetOutcomes
  <2> QED
    BY <1>0, <1>1, <2>1
<1>8. CASE UNCHANGED vars
  BY <1>0, <1>8 DEF vars, Selections
<1>9. ASSUME NEW r \in Requests, Handle(r) \/ TryLock(r) \/ Refuse(r) PROVE Selections'
  <2>1. SelectionFits(r)'
    BY <1>5, <1>6, <1>7, <1>9 DEF Handle
  <2> QED
    BY <1>4, <1>9, <2>1 DEF Selections
<1> QED
  BY <1>2, <1>3, <1>8, <1>9 DEF Next, Selections

\* Only pods of the application are removed from a list.
LEMMA RemovedExcused ==
  ASSUME NamesAreUnique, TypeOK, Selections, NEW r \in Requests,
         NEW list, list \subseteq Pods,
         NEW p \in list, p \notin RemovePodsOfApp(r, list)
  PROVE  OfScaledApp(r, p)
<1>1. PICK w \in local[r].selected : OwnedByWorkload(p, w)
  BY DEF RemovePodsOfApp
<1>2. w \in Workloads /\ OwnerOf[p] \in Workloads /\ OwnerOf[p] = w
  <2>1. local[r] \in Locals
    BY DEF TypeOK
  <2>2. w \in Workloads
    BY <1>1, <2>1, LocalTypes
  <2> QED
    BY <1>1, <2>2, ServerAssumptions DEF OwnedByWorkload, NamesAreUnique,
                                         ServerAssumptions
<1>3. ReplicaSetScaled(r, w) \/ Identity(w) \in StatefulSetsScaled(r)
  BY <1>1 DEF Selections, SelectionFits
<1>4. CASE ReplicaSetScaled(r, w)
  BY <1>2, <1>4, ServerAssumptions
     DEF NamesAreUnique, ReplicaSetScaled, OfScaledApp, ServerAssumptions
<1>5. CASE Identity(w) \in StatefulSetsScaled(r)
  <2>1. KindOf[w] = "StatefulSet"
    BY <1>5 DEF Identity, StatefulSetsScaled
  <2> QED
    BY <1>2, <1>5, <2>1, ServerAssumptions
       DEF OfScaledApp, StatefulSetsScaled, ServerAssumptions
<1> QED
  BY <1>3, <1>4, <1>5

LEMMA RemovalListsPhase ==
  ASSUME NamesAreUnique, TypeOK, Selections, NEW r \in Requests,
         NEW list, list \subseteq Pods, NEW phase,
         ListsPhase(r, list, phase)
  PROVE  ListsPhase(r, RemovePodsOfApp(r, list), phase)
<1> SUFFICES ASSUME NEW p \in Pods \ local[r].moved
             PROVE  /\ p \in RemovePodsOfApp(r, list) =>
                          podCache[p] = phase /\ ~OwnedByDaemonset(p)
                    /\ p \notin RemovePodsOfApp(r, list) /\ podCache[p] = phase =>
                          Excused(r, p)
  BY DEF ListsPhase
<1>1. CASE p \in list
  BY <1>1, RemovedExcused DEF ListsPhase, Excused
<1>2. CASE p \notin list
  BY <1>2 DEF ListsPhase, RemovePodsOfApp
<1> QED
  BY <1>1, <1>2

\* A step of the cluster: what did move is remembered.
LEMMA ListsPodMoves ==
  ASSUME TypeOK, Lists, NEW p \in Pods, PodMoves(p)
  PROVE  Lists'
<1> SUFFICES ASSUME NEW r \in Requests PROVE ListsOf(r)'
  BY DEF Lists
<1>0. ListsOf(r) /\ pc' = pc /\ local[r] \in Locals
  BY DEF Lists, PodMoves, TypeOK
<1>1. /\ podCache[p] \in {"Running", "Ended"} => podCache'[p] \in {"Running", "Ended"}
      /\ \A q \in Pods : q # p => podCache'[q] = podCache[q]
  BY DEF PodMoves, TypeOK, Phases, Rank
<1>2. CASE pc[r] \in Reading
  <2>1. /\ local'[r].clusterPods = local[r].clusterPods
        /\ local'[r].pendingPods = local[r].pendingPods
        /\ local'[r].moved = local[r].moved \cup {p}
    BY <1>0, <1>2 DEF PodMoves, Locals
  <2>2. ASSUME NEW q \in Pods \ local'[r].moved
        PROVE  q \in Pods \ local[r].moved /\ podCache'[q] = podCache[q]
    BY <1>1, <2>1
  <2> QED
    BY <1>0, <1>1, <1>2, <2>1, <2>2, LocalTypes
       DEF ListsOf, ListsPhase, Excused, OwnedByDaemonset, OfScaledApp
<1>3. CASE pc[r] \notin Reading
  BY <1>0, <1>3 DEF ListsOf, Reading
<1> QED
  BY <1>2, <1>3

LEMMA ListsHandle ==
  ASSUME NamesAreUnique, TypeOK, Selections, Lists, NEW r \in Requests, Handle(r)
  PROVE  ListsOf(r)'
<1>0. ListsOf(r) /\ local[r] \in Locals /\ podCache' = podCache
  BY DEF Lists, TypeOK, Handle, ReadBody, GetClusterPods, GetClusterDaemonSets,
         RemoveFromCluster, ListReplicaSets, GetStatefulSet, GetPendingPods,
         RemoveFromPending, Simulate, Unlock
<1>1. CASE pc'[r] \notin Reading
  BY <1>1 DEF ListsOf, Reading
<1>2. CASE GetClusterPods(r)
  <2>1. /\ pc'[r] = "daemonSets" /\ local'[r].moved = local[r].moved
        /\ local'[r].clusterPods = Listed("Running")
    BY <1>0, <1>2 DEF GetClusterPods, Goto, TypeOK, Locals
  <2> QED
    BY <1>0, <2>1 DEF ListsOf, ListsPhase, Listed, Reading, Excused, OwnedByDaemonset
<1>3. CASE GetClusterDaemonSets(r) /\ pc'[r] \in Reading
  <2>1. /\ pc[r] = "daemonSets" /\ pc'[r] \in {"remove", "pending"}
        /\ local'[r].moved = local[r].moved
        /\ local'[r].clusterPods = local[r].clusterPods
    BY <1>0, <1>3 DEF GetClusterDaemonSets, Answer, Goto, TypeOK, Locals, Reading
  <2> QED
    BY <1>0, <2>1 DEF ListsOf, ListsPhase, Reading, Excused, OwnedByDaemonset, OfScaledApp
<1>4. CASE RemoveFromCluster(r)
  <2>1. /\ pc[r] = "sets" /\ pc'[r] = "pending"
        /\ local'[r].moved = local[r].moved
        /\ local'[r].clusterPods = RemovePodsOfApp(r, local[r].clusterPods)
    BY <1>0, <1>4 DEF RemoveFromCluster, Goto, TypeOK, Locals
  <2>2. ListsPhase(r, RemovePodsOfApp(r, local[r].clusterPods), "Running")
    BY <1>0, <2>1, RemovalListsPhase, LocalTypes DEF ListsOf, Reading
  <2>3. RemovePodsOfApp(r, local[r].clusterPods) \subseteq local[r].clusterPods
    BY DEF RemovePodsOfApp
  <2> QED
    BY <1>0, <2>1, <2>2, <2>3
       DEF ListsOf, ListsPhase, Reading, Excused, OwnedByDaemonset, OfScaledApp
<1>5. CASE GetPendingPods(r)
  <2>1. /\ pc[r] = "pending" /\ pc'[r] \in {"removePending", "simulate"}
        /\ local'[r].moved = local[r].moved
        /\ local'[r].clusterPods = local[r].clusterPods
        /\ local'[r].pendingPods = Listed("Pending")
    BY <1>0, <1>5 DEF GetPendingPods, Goto, TypeOK, Locals
  <2> QED
    BY <1>0, <2>1
       DEF ListsOf, ListsPhase, Listed, Reading, Excused, OwnedByDaemonset, OfScaledApp
<1>6. CASE RemoveFromPending(r)
  <2>1. /\ pc[r] = "setsPending" /\ pc'[r] = "simulate"
        /\ local'[r].moved = local[r].moved
        /\ local'[r].clusterPods = local[r].clusterPods
        /\ local'[r].pendingPods = RemovePodsOfApp(r, local[r].pendingPods)
    BY <1>0, <1>6 DEF RemoveFromPending, Goto, TypeOK, Locals
  <2>2. ListsPhase(r, RemovePodsOfApp(r, local[r].pendingPods), "Pending")
    BY <1>0, <2>1, RemovalListsPhase, LocalTypes DEF ListsOf, Reading
  <2>3. RemovePodsOfApp(r, local[r].pendingPods) \subseteq local[r].pendingPods
    BY DEF RemovePodsOfApp
  <2> QED
    BY <1>0, <2>1, <2>2, <2>3
       DEF ListsOf, ListsPhase, Reading, Excused, OwnedByDaemonset, OfScaledApp
<1>7. CASE ReadBody(r) \/ Simulate(r) \/ Unlock(r)
  BY <1>1, <1>7 DEF ReadBody, Simulate, Unlock, Answer, Goto, TypeOK, Reading
<1>8. CASE (ListReplicaSets(r) \/ GetStatefulSet(r)) /\ pc'[r] \in Reading
  <2>1. /\ local'[r].moved = local[r].moved
        /\ local'[r].clusterPods = local[r].clusterPods
        /\ local'[r].pendingPods = local[r].pendingPods
        /\ \/ pc[r] \in {"remove", "sets"} /\ pc'[r] = "sets"
           \/ pc[r] \in {"removePending", "setsPending"} /\ pc'[r] = "setsPending"
    <3>1. CASE ListReplicaSets(r)
      BY <1>0, <3>1 DEF ListReplicaSets, Goto, TypeOK, Locals
    <3>2. CASE GetStatefulSet(r)
      <4>1. pc[r] \in {"sets", "setsPending"}
        BY <3>2 DEF GetStatefulSet
      <4> QED
        BY <1>8, <3>2, <4>1, GetOutcomes DEF Reading
    <3> QED
      BY <1>8, <3>1, <3>2
  <2> QED
    BY <1>0, <2>1 DEF ListsOf, ListsPhase, Reading, Excused, OwnedByDaemonset, OfScaledApp
<1> QED
  BY <1>1, <1>2, <1>3, <1>4, <1>5, <1>6, <1>7, <1>8 DEF Handle

LEMMA ListsNext ==
  ASSUME NamesAreUnique, TypeOK, Selections, Lists, [Next]_vars
  PROVE  Lists'
<1>1. ASSUME NEW w \in Workloads, WorkloadAdded(w) \/ WorkloadDeleted(w) PROVE Lists'
  <2> SUFFICES ASSUME NEW r \in Requests PROVE ListsOf(r)'
    BY DEF Lists
  <2>1. ListsOf(r) /\ pc' = pc /\ podCache' = podCache /\ local[r] \in Locals
    BY <1>1 DEF Lists, TypeOK, WorkloadAdded, WorkloadDeleted
  <2>2. /\ local'[r].clusterPods = local[r].clusterPods
        /\ local'[r].pendingPods = local[r].pendingPods
        /\ local'[r].moved = local[r].moved
    BY <1>1, <2>1 DEF WorkloadAdded, WorkloadDeleted, Locals
  <2> QED
    BY <2>1, <2>2 DEF ListsOf, ListsPhase, Excused, OwnedByDaemonset, OfScaledApp
<1>2. ASSUME NEW r \in Requests, TryLock(r) \/ Refuse(r) PROVE Lists'
  <2> SUFFICES ASSUME NEW q \in Requests PROVE ListsOf(q)'
    BY DEF Lists
  <2>1. CASE q = r
    BY <1>2, <2>1 DEF TryLock, Refuse, Goto, TypeOK, ListsOf, Reading
  <2>2. CASE q # r
    BY <1>2, <2>2, OthersKept
       DEF Lists, ListsOf, ListsPhase, Excused, OwnedByDaemonset, OfScaledApp, TryLock,
           Refuse
  <2> QED
    BY <2>1, <2>2
<1>3. ASSUME NEW r \in Requests, Handle(r) PROVE Lists'
  <2> SUFFICES ASSUME NEW q \in Requests, q # r PROVE ListsOf(q)'
    BY <1>3, ListsHandle DEF Lists
  <2>1. podCache' = podCache
    BY <1>3 DEF Handle, ReadBody, GetClusterPods, GetClusterDaemonSets, RemoveFromCluster,
                ListReplicaSets, GetStatefulSet, GetPendingPods, RemoveFromPending,
                Simulate, Unlock
  <2> QED
    BY <1>3, <2>1, OthersKept
       DEF Lists, ListsOf, ListsPhase, Excused, OwnedByDaemonset, OfScaledApp
<1>4. CASE UNCHANGED vars
  BY <1>4 DEF vars, Lists, ListsOf, ListsPhase, Excused, OwnedByDaemonset, OfScaledApp
<1> QED
  BY <1>1, <1>2, <1>3, <1>4, ListsPodMoves DEF Next

(* The running and the pending pods are listed one after the other, yet no *)
(* pod object is simulated twice, and one that did not move is left out    *)
(* only with a reason, if names tell workloads apart                       *)
(* (getCurrentClusterResource, getPendingPods, removePodsOfApp).           *)
THEOREM PodsSimulatedOnce == NamesAreUnique => (Spec => []EachPodOnce)
<1> SUFFICES ASSUME NamesAreUnique PROVE Spec => []EachPodOnce
  OBVIOUS
<1>1. Init => Lists /\ Selections
  BY DEF Init, Lists, ListsOf, Reading, Selections, SelectionFits, Fresh
<1>2. TypeOK /\ Lists /\ Selections /\ [Next]_vars => Lists' /\ Selections'
  BY ListsNext, SelectionsNext
<1>3. TypeOK /\ Lists => EachPodOnce
  BY DEF TypeOK, Lists, ListsOf, ListsPhase, EachPodOnce, Input, Excused, Phases, Reading
<1> QED
  BY <1>1, <1>2, <1>3, TypeCorrect, PTL DEF Spec

-----------------------------------------------------------------------------
(* What is scaled is simulated anew.                                       *)

GoneFrom(r, list) ==
    \A p \in list : OfScaledApp(r, p) => OwnerOf[p] \notin local[r].lasting

Templates(r, scaling) ==
    \A w \in local[r].lasting :
        KindOf[w] = "DaemonSet" =>
            local[r].daemonSets[w] =
                IF scaling /\ Identity(w) \in Scaled[r] THEN "request" ELSE "cluster"

\* What the informers keep is selected once it has been looked for.
Picked(r) ==
    \A w \in local[r].lasting :
        /\ ReplicaSetScaled(r, w) => w \in local[r].selected
        /\ Identity(w) \in StatefulSetsScaled(r) \ local[r].left =>
              w \in local[r].selected

AnewOf(r) ==
    /\ local[r].lasting \subseteq workloadCache
    /\ pc[r] \in {"remove", "sets"} => Templates(r, FALSE)
    /\ pc[r] \in {"sets", "setsPending"} => Picked(r)
    /\ pc[r] \in {"pending", "removePending", "setsPending", "simulate"} =>
          Templates(r, TRUE) /\ GoneFrom(r, local[r].clusterPods)
    /\ pc[r] = "simulate" => GoneFrom(r, local[r].pendingPods)

Anew == \A r \in Requests : AnewOf(r)

\* The pods of what the informers keep are removed.
LEMMA RemovedGone ==
  ASSUME NEW r \in Requests, Picked(r), local[r].left = {},
         NEW list, NEW p \in RemovePodsOfApp(r, list), OfScaledApp(r, p)
  PROVE  OwnerOf[p] \notin local[r].lasting
<1> SUFFICES ASSUME OwnerOf[p] \in local[r].lasting PROVE FALSE
  OBVIOUS
<1> DEFINE w == OwnerOf[p]
<1>1. w \in local[r].selected
  <2>1. CASE KindOf[w] = "StatefulSet" /\ Identity(w) \in Scaled[r]
    <3>1. Identity(w).kind = "StatefulSet"
      BY <2>1 DEF Identity
    <3> QED
      BY <2>1, <3>1 DEF StatefulSetsScaled, Picked
  <2>2. CASE /\ KindOf[w] = "ReplicaSet"
             /\ [kind |-> "Deployment", name |-> DeploymentOf[w],
                 namespace |-> NamespaceOf[w]] \in Scaled[r]
    BY <2>2 DEF ReplicaSetScaled, Picked
  <2> QED
    BY <2>1, <2>2 DEF OfScaledApp
<1>2. OwnedByWorkload(p, w)
  BY DEF OwnedByWorkload, OfScaledApp
<1> QED
  BY <1>1, <1>2 DEF RemovePodsOfApp

\* A deploy request scales nothing.
LEMMA NothingScaled ==
  ASSUME NEW r \in Requests, Handler[r] # "scale"
  PROVE  Scaled[r] = {} /\ \A p : ~OfScaledApp(r, p)
  BY ServerAssumptions DEF ServerAssumptions, Handlers, OfScaledApp

LEMMA AnewHandle ==
  ASSUME TypeOK, Anew, NEW r \in Requests, Handle(r)
  PROVE  AnewOf(r)'
<1>0. AnewOf(r) /\ local[r] \in Locals /\ workloadCache' = workloadCache
  BY DEF Anew, TypeOK, Handle, ReadBody, GetClusterPods, GetClusterDaemonSets,
         RemoveFromCluster, ListReplicaSets, GetStatefulSet, GetPendingPods,
         RemoveFromPending, Simulate, Unlock
<1>1. CASE local'[r] = Fresh
  BY <1>1 DEF AnewOf, Fresh, GoneFrom, Templates, Picked
<1>2. CASE local' = local /\ pc'[r] \notin Reading
  BY <1>0, <1>2 DEF AnewOf, Reading
<1>3. CASE GetClusterPods(r)
  <2>1. pc'[r] = "daemonSets" /\ local'[r].lasting = local[r].lasting
    BY <1>0, <1>3 DEF GetClusterPods, Goto, TypeOK, Locals
  <2> QED
    BY <1>0, <2>1 DEF AnewOf
<1>4. CASE GetClusterDaemonSets(r) /\ pc'[r] # "unlock"
  <2>1. /\ pc'[r] = IF Handler[r] = "scale" THEN "remove" ELSE "pending"
        /\ local'[r].lasting = local[r].lasting
        /\ local'[r].daemonSets = ListedDaemonSets
        /\ local'[r].clusterPods = local[r].clusterPods
    BY <1>0, <1>4 DEF GetClusterDaemonSets, Answer, Goto, TypeOK, Locals
  <2>2. \A w \in local[r].lasting :
            KindOf[w] = "DaemonSet" => ListedDaemonSets[w] = "cluster"
    BY <1>0, LocalTypes DEF ListedDaemonSets, AnewOf
  <2> QED
    BY <1>0, <2>1, <2>2, NothingScaled DEF AnewOf, Templates, GoneFrom
<1>5. CASE RemoveFromCluster(r)
  <2>1. /\ pc[r] = "sets" /\ local[r].left = {} /\ Picked(r)
    BY <1>0, <1>5 DEF RemoveFromCluster, AnewOf
  <2>2. /\ pc'[r] = "pending" /\ local'[r].lasting = local[r].lasting
        /\ local'[r].clusterPods = RemovePodsOfApp(r, local[r].clusterPods)
        /\ local'[r].daemonSets = ScaleDaemonSets(r, local[r].daemonSets)
    BY <1>0, <1>5 DEF RemoveFromCluster, Goto, TypeOK, Locals
  <2>3. \A p \in RemovePodsOfApp(r, local[r].clusterPods) :
            OfScaledApp(r, p) => OwnerOf[p] \notin local[r].lasting
    BY <2>1, RemovedGone
  <2>4. \A w \in local[r].lasting :
            KindOf[w] = "DaemonSet" =>
                ScaleDaemonSets(r, local[r].daemonSets)[w] =
                    IF Identity(w) \in Scaled[r] THEN "request" ELSE "cluster"
    BY <1>0, <2>1, LocalTypes DEF AnewOf, Templates, ScaleDaemonSets
  <2> QED
    BY <1>0, <2>2, <2>3, <2>4 DEF AnewOf, Templates, GoneFrom, OfScaledApp, Identity
<1>6. CASE GetPendingPods(r)
  <2>1. /\ pc[r] = "pending"
        /\ pc'[r] = IF Handler[r] = "scale" THEN "removePending" ELSE "simulate"
        /\ local'[r].lasting = local[r].lasting
        /\ local'[r].clusterPods = local[r].clusterPods
        /\ local'[r].daemonSets = local[r].daemonSets
    BY <1>0, <1>6 DEF GetPendingPods, Goto, TypeOK, Locals
  <2> QED
    BY <1>0, <2>1, NothingScaled DEF AnewOf, Templates, GoneFrom, OfScaledApp, Identity
<1>7. CASE RemoveFromPending(r)
  <2>1. /\ pc[r] = "setsPending" /\ pc'[r] = "simulate"
        /\ local'[r].lasting = local[r].lasting
        /\ local'[r].clusterPods = local[r].clusterPods
        /\ local'[r].daemonSets = local[r].daemonSets
        /\ local'[r].pendingPods = RemovePodsOfApp(r, local[r].pendingPods)
    BY <1>0, <1>7 DEF RemoveFromPending, Goto, TypeOK, Locals
  <2>2. \A p \in RemovePodsOfApp(r, local[r].pendingPods) :
            OfScaledApp(r, p) => OwnerOf[p] \notin local[r].lasting
    <3>1. local[r].left = {} /\ Picked(r)
      BY <1>0, <1>7 DEF RemoveFromPending, AnewOf
    <3> QED
      BY <3>1, RemovedGone
  <2> QED
    BY <1>0, <2>1, <2>2 DEF AnewOf, Templates, GoneFrom, OfScaledApp, Identity
<1>8. CASE ListReplicaSets(r)
  <2>1. /\ \/ pc[r] = "remove" /\ pc'[r] = "sets"
           \/ pc[r] = "removePending" /\ pc'[r] = "setsPending"
        /\ local'[r].lasting = local[r].lasting
        /\ local'[r].clusterPods = local[r].clusterPods
        /\ local'[r].daemonSets = local[r].daemonSets
        /\ local'[r].selected = {w \in workloadCache : ReplicaSetScaled(r, w)}
        /\ local'[r].left = StatefulSetsScaled(r)
    BY <1>0, <1>8 DEF ListReplicaSets, Goto, TypeOK, Locals
  <2>2. Picked(r)'
    BY <1>0, <2>1 DEF AnewOf, Picked, ReplicaSetScaled, StatefulSetsScaled, Identity
  <2> QED
    BY <1>0, <2>1, <2>2 DEF AnewOf, Templates, GoneFrom, OfScaledApp, Identity
<1>9. CASE GetStatefulSet(r) /\ pc'[r] # "unlock"
  <2>1. PICK s \in local[r].left :
           /\ local'[r].selected = local[r].selected
                                      \cup {w \in workloadCache : Identity(w) = s}
           /\ local'[r].left = local[r].left \ {s}
           /\ local'[r].lasting = local[r].lasting
           /\ local'[r].clusterPods = local[r].clusterPods
           /\ local'[r].daemonSets = local[r].daemonSets
    BY <1>9, GetOutcomes
  <2>2. pc' = pc /\ pc[r] \in {"sets", "setsPending"}
    BY <1>9, GetOutcomes DEF GetStatefulSet
  <2>3. Picked(r)'
    BY <1>0, <2>1, <2>2 DEF AnewOf, Picked, ReplicaSetScaled, StatefulSetsScaled, Identity
  <2> QED
    BY <1>0, <2>1, <2>2, <2>3 DEF AnewOf, Templates, GoneFrom, OfScaledApp, Identity
<1>10. CASE GetStatefulSet(r)
  <2>1. pc[r] \in {"sets", "setsPending"}
    BY <1>10 DEF GetStatefulSet
  <2> QED
    BY <1>1, <1>9, <1>10, <2>1, GetOutcomes
<1> QED
  BY <1>1, <1>2, <1>3, <1>4, <1>5, <1>6, <1>7, <1>8, <1>10
     DEF Handle, ReadBody, GetClusterDaemonSets, Simulate, Unlock, Answer, Goto, TypeOK,
         Reading

LEMMA AnewNext ==
  ASSUME TypeOK, Anew, [Next]_vars
  PROVE  Anew'
<1>1. ASSUME NEW p \in Pods, PodMoves(p) PROVE Anew'
  <2> SUFFICES ASSUME NEW r \in Requests PROVE AnewOf(r)'
    BY DEF Anew
  <2>1. /\ AnewOf(r) /\ pc' = pc /\ workloadCache' = workloadCache
        /\ local'[r].clusterPods = local[r].clusterPods
        /\ local'[r].pendingPods = local[r].pendingPods
        /\ local'[r].daemonSets = local[r].daemonSets
        /\ local'[r].selected = local[r].selected /\ local'[r].left = local[r].left
        /\ local'[r].lasting = local[r].lasting
    BY <1>1 DEF Anew, PodMoves, TypeOK, Locals
  <2> QED
    BY <2>1 DEF AnewOf, Templates, GoneFrom, OfScaledApp, Identity, Picked,
           ReplicaSetScaled, StatefulSetsScaled
<1>2. ASSUME NEW w \in Workloads, WorkloadAdded(w) PROVE Anew'
  BY <1>2 DEF WorkloadAdded, Anew, AnewOf, Templates, GoneFrom, OfScaledApp, Identity,
              Picked,
           ReplicaSetScaled, StatefulSetsScaled
<1>3. ASSUME NEW w \in Workloads, WorkloadDeleted(w) PROVE Anew'
  <2> SUFFICES ASSUME NEW r \in Requests PROVE AnewOf(r)'
    BY DEF Anew
  <2>1. /\ AnewOf(r) /\ pc' = pc /\ workloadCache' = workloadCache \ {w}
        /\ local'[r].clusterPods = local[r].clusterPods
        /\ local'[r].pendingPods = local[r].pendingPods
        /\ local'[r].daemonSets = local[r].daemonSets
        /\ local'[r].selected = local[r].selected /\ local'[r].left = local[r].left
        /\ local'[r].lasting = local[r].lasting \ {w}
    BY <1>3 DEF Anew, WorkloadDeleted, TypeOK, Locals
  <2> QED
    BY <2>1 DEF AnewOf, Templates, GoneFrom, OfScaledApp, Identity, Picked,
           ReplicaSetScaled, StatefulSetsScaled
<1>4. ASSUME NEW r \in Requests, TryLock(r) \/ Refuse(r) PROVE Anew'
  <2> SUFFICES ASSUME NEW q \in Requests PROVE AnewOf(q)'
    BY DEF Anew
  <2>1. CASE q = r
    <3>1. /\ AnewOf(r) /\ workloadCache' = workloadCache /\ pc'[r] \in {"body", "refused"}
          /\ local'[r].lasting \in {local[r].lasting, workloadCache}
      BY <1>4 DEF Anew, TryLock, Refuse, Goto, TypeOK, Locals
    <3> QED
      BY <2>1, <3>1 DEF AnewOf
  <2>2. CASE q # r
    <3>1. AnewOf(q) /\ workloadCache' = workloadCache
      BY <1>4 DEF Anew, TryLock, Refuse
    <3>2. local'[q] = local[q] /\ pc'[q] = pc[q]
      BY <1>4, <2>2, OthersKept
    <3> QED
      BY <3>1, <3>2 DEF AnewOf, Templates, GoneFrom, OfScaledApp, Identity, Picked,
           ReplicaSetScaled, StatefulSetsScaled
  <2> QED
    BY <2>1, <2>2
<1>5. ASSUME NEW r \in Requests, Handle(r) PROVE Anew'
  <2> SUFFICES ASSUME NEW q \in Requests, q # r PROVE AnewOf(q)'
    BY <1>5, AnewHandle DEF Anew
  <2>1. workloadCache' = workloadCache
    BY <1>5 DEF Handle, ReadBody, GetClusterPods, GetClusterDaemonSets, RemoveFromCluster,
                ListReplicaSets, GetStatefulSet, GetPendingPods, RemoveFromPending,
                Simulate, Unlock
  <2> QED
    BY <1>5, <2>1, OthersKept DEF Anew, AnewOf, Templates, GoneFrom, OfScaledApp,
                                  Identity, Picked,
           ReplicaSetScaled, StatefulSetsScaled
<1>6. CASE UNCHANGED vars
  BY <1>6 DEF vars, Anew, AnewOf, Templates, GoneFrom, OfScaledApp, Identity, Picked,
           ReplicaSetScaled, StatefulSetsScaled
<1> QED
  BY <1>1, <1>2, <1>3, <1>4, <1>5, <1>6 DEF Next

(* No present pod of what is scaled is simulated, and a DaemonSet has the  *)
(* template of the request, as long as the informers had the workload all  *)
(* along: names need not tell workloads apart (both calls of               *)
(* removePodsOfApp, and the replacement in ClusterResource.DaemonSets).    *)
THEOREM ScalingIsAnew == Spec => []ScaledAnew
<1>1. Init => Anew
  BY DEF Init, Anew, AnewOf, Fresh, Templates, GoneFrom
<1>2. TypeOK /\ Anew /\ [Next]_vars => Anew'
  BY AnewNext
<1>3. Anew => ScaledAnew
  BY DEF Anew, AnewOf, Templates, GoneFrom, ScaledAnew, Input
<1> QED
  BY <1>1, <1>2, <1>3, TypeCorrect, PTL DEF Spec

=============================================================================
