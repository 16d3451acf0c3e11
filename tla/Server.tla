------------------------------- MODULE Server -------------------------------
(***************************************************************************)
(* The REST server (pkg/server/server.go): two handlers, each behind a     *)
(* try-lock of its own, that put together the input of a simulation from   *)
(* the caches of informers which follow a live cluster.  The lists of one  *)
(* request are read one after the other, and the cluster moves on in       *)
(* between.  A request is answered with an HTTP status, and Simulate is    *)
(* taken as a call that returns a result, fails, or never returns (section *)
(* 3 of the README has ways).                                              *)
(***************************************************************************)
EXTENDS Integers, FiniteSets

CONSTANTS
    Pods,           \* pod objects, by UID: a pod created anew is another one
    Workloads,      \* ReplicaSets, StatefulSets and DaemonSets of the cluster
    PodName,        \* the namespaced name of each pod
    OwnerOf,        \* the workload that owns each pod, or NoWorkload
    KindOf, NameOf, \* what an owner reference tells of each workload
    NamespaceOf,    \* what it does not tell
    DeploymentOf,   \* the Deployment each ReplicaSet belongs to: its name
    FirstPhase,     \* the phase of each pod when the server starts
    FirstWorkloads, \* the workloads there are by then
    Changing,       \* a bound: the workloads that come or go during the run
    Requests,
    Handler,        \* "deploy" or "scale"
    Scaled,         \* the workloads to scale: records of kind, name, namespace
    MayHang,        \* whether Simulate may fail to return
    NoWorkload, Nobody

Phases == {"Absent", "Pending", "Running", "Ended"}
Kinds == {"ReplicaSet", "StatefulSet", "DaemonSet"}
Handlers == {"deploy", "scale"}
Rank == [Absent |-> 0, Pending |-> 1, Running |-> 2, Ended |-> 3]

ASSUME ServerAssumptions ==
    /\ OwnerOf \in [Pods -> Workloads \cup {NoWorkload}]
    /\ KindOf \in [Workloads -> Kinds]
    /\ NoWorkload \notin Workloads
    /\ FirstPhase \in [Pods -> Phases]
    /\ FirstWorkloads \subseteq Workloads
    /\ Changing \subseteq Workloads
    /\ Handler \in [Requests -> Handlers]
    /\ \A r \in Requests : Handler[r] = "deploy" => Scaled[r] = {}
    /\ MayHang \in BOOLEAN
    /\ Nobody \notin Requests

VARIABLES
    podCache, workloadCache,    \* the caches of the informers
    lock,   \* the request that holds deployLock, scaleLock
    pc,     \* where each request is
    code,   \* the status of its answer, until it returns
    local   \* the variables of its handler

vars == <<podCache, workloadCache, lock, pc, code, local>>

\* Between the first list of pods and the call of Simulate.
Reading == {"daemonSets", "remove", "sets", "pending", "removePending", "setsPending",
            "simulate"}
Holding == Reading \cup {"body", "cluster", "hung", "unlock"}

(***************************************************************************)
(* clusterPods and daemonSets are ClusterResource.Pods and .DaemonSets     *)
(* (and whose template each DaemonSet has), pendingPods the pending pods   *)
(* that are simulated with the application.  selected is selectedObjs of   *)
(* removePodsOfApp, left the StatefulSets it has still to get.  Two fields *)
(* are history: moved, the pods whose cache entry has changed since the    *)
(* request listed pods, and lasting, the workloads the cache has held      *)
(* since it got its lock.                                                  *)
(***************************************************************************)
Fresh == [clusterPods |-> {}, pendingPods |-> {}, daemonSets |-> [w \in Workloads |-> "absent"],
          selected |-> {}, left |-> {}, moved |-> {}, lasting |-> {}]

Init ==
    /\ podCache = FirstPhase
    /\ workloadCache = FirstWorkloads
    /\ lock = [h \in Handlers |-> Nobody]
    /\ pc = [r \in Requests |-> "new"]
    /\ code = [r \in Requests |-> 0]
    /\ local = [r \in Requests |-> Fresh]

-----------------------------------------------------------------------------
(* The caches of the informers.  Each follows the cluster along a watch of  *)
(* its own, in order, and lags at will; so each kind of object moves on by  *)
(* itself, and what the others know at that time is left open.              *)

\* A pod is created under a name that is free, starts, and ends: it completes or
\* is marked for deletion, which the handlers treat alike.
PodMoves(p) ==
    /\ \E next \in Phases :
          /\ Rank[next] > Rank[podCache[p]]
          /\ podCache[p] = "Absent" =>
                /\ next = "Pending"
                /\ \A q \in Pods \ {p} : PodName[q] = PodName[p] =>
                      podCache[q] \in {"Absent", "Ended"}
          /\ podCache' = [podCache EXCEPT ![p] = next]
    /\ local' = [r \in Requests |-> IF pc[r] \in Reading
                    THEN [local[r] EXCEPT !.moved = @ \cup {p}] ELSE local[r]]
    /\ UNCHANGED <<workloadCache, lock, pc, code>>

\* A rollout adds a ReplicaSet; a workload may be deleted before its pods are.
WorkloadAdded(w) ==
    /\ w \in Changing \ (workloadCache \cup FirstWorkloads)
    /\ workloadCache' = workloadCache \cup {w}
    /\ UNCHANGED <<podCache, lock, pc, code, local>>

WorkloadDeleted(w) ==
    /\ w \in workloadCache \cap Changing
    /\ workloadCache' = workloadCache \ {w}
    /\ local' = [r \in Requests |-> [local[r] EXCEPT !.lasting = @ \ {w}]]
    /\ UNCHANGED <<podCache, lock, pc, code>>

-----------------------------------------------------------------------------
(* The handlers.                                                           *)

\* Each return comes after the answer and before the deferred Unlock.
Answer(r, status) ==
    /\ code' = [code EXCEPT ![r] = status]
    /\ pc' = [pc EXCEPT ![r] = "unlock"]
    /\ local' = [local EXCEPT ![r] = Fresh]

Goto(r, where) ==
    /\ pc' = [pc EXCEPT ![r] = where]
    /\ code' = code

TryLock(r) ==
    /\ pc[r] = "new"
    /\ lock[Handler[r]] = Nobody
    /\ lock' = [lock EXCEPT ![Handler[r]] = r]
    /\ Goto(r, "body")
    /\ local' = [local EXCEPT ![r].lasting = workloadCache]
    /\ UNCHANGED <<podCache, workloadCache>>

Refuse(r) ==
    /\ pc[r] = "new"
    /\ lock[Handler[r]] # Nobody
    /\ pc' = [pc EXCEPT ![r] = "refused"]
    /\ UNCHANGED <<podCache, workloadCache, lock, code, local>>

(***************************************************************************)
(* Mutant: Unlock is deferred only once the body has been read.            *)
(***************************************************************************)
ReadBodyBeforeDefer(r) ==
    /\ pc[r] = "body"
    /\ \/ pc' = [pc EXCEPT ![r] = "cluster"]
       \/ pc' = [pc EXCEPT ![r] = "done"]
    /\ UNCHANGED <<podCache, workloadCache, lock, code, local>>

\* The body may be cut short or not be JSON.
ReadBody(r) ==
    /\ pc[r] = "body"
    /\ \/ Goto(r, "cluster") /\ UNCHANGED local
       \/ Answer(r, 400)
    /\ UNCHANGED <<podCache, workloadCache, lock>>

OwnedByDaemonset(p) ==
    OwnerOf[p] # NoWorkload /\ KindOf[OwnerOf[p]] = "DaemonSet"

Listed(wanted) == {p \in Pods : podCache[p] = wanted /\ ~OwnedByDaemonset(p)}

ListedDaemonSets ==
    [w \in Workloads |-> IF w \in workloadCache /\ KindOf[w] = "DaemonSet"
                         THEN "cluster" ELSE "absent"]

\* getCurrentClusterResource lists the pods, then the DaemonSets; NewFakeNode may
\* refuse a node of the request.
GetClusterPods(r) ==
    /\ pc[r] = "cluster"
    /\ local' = [local EXCEPT ![r].clusterPods = Listed("Running")]
    /\ Goto(r, "daemonSets")
    /\ UNCHANGED <<podCache, workloadCache, lock>>

GetClusterDaemonSets(r) ==
    /\ pc[r] = "daemonSets"
    /\ \/ /\ local' = [local EXCEPT ![r].daemonSets = ListedDaemonSets]
          /\ Goto(r, IF Handler[r] = "scale" THEN "remove" ELSE "pending")
       \/ Answer(r, 500)
    /\ UNCHANGED <<podCache, workloadCache, lock>>

\* An owner reference has a kind and a name, and no namespace.
OwnedByWorkload(p, w) ==
    /\ OwnerOf[p] # NoWorkload
    /\ KindOf[OwnerOf[p]] = KindOf[w]
    /\ NameOf[OwnerOf[p]] = NameOf[w]

Identity(w) ==
    [kind |-> KindOf[w], name |-> NameOf[w], namespace |-> NamespaceOf[w]]

\* The deployments own ReplicaSets by name alone.
ReplicaSetScaled(r, w) ==
    /\ KindOf[w] = "ReplicaSet"
    /\ \E s \in Scaled[r] : s.kind = "Deployment" /\ DeploymentOf[w] = s.name

StatefulSetsScaled(r) == {s \in Scaled[r] : s.kind = "StatefulSet"}

(***************************************************************************)
(* removePodsOfApp, called for the running and for the pending pods.  It   *)
(* lists the ReplicaSets, gets one StatefulSet after the other, and gives  *)
(* up on one that is not there.                                            *)
(***************************************************************************)
ListReplicaSets(r) ==
    /\ pc[r] \in {"remove", "removePending"}
    /\ local' = [local EXCEPT ![r] = [local[r] EXCEPT
           !.selected = {w \in workloadCache : ReplicaSetScaled(r, w)},
           !.left = StatefulSetsScaled(r)]]
    /\ Goto(r, IF pc[r] = "remove" THEN "sets" ELSE "setsPending")
    /\ UNCHANGED <<podCache, workloadCache, lock>>

GetStatefulSet(r) ==
    /\ pc[r] \in {"sets", "setsPending"}
    /\ \E s \in local[r].left :
          LET found == {w \in workloadCache : Identity(w) = s} IN
          IF found = {} THEN Answer(r, 500)
          ELSE /\ local' = [local EXCEPT ![r] = [local[r] EXCEPT
                      !.selected = @ \cup found, !.left = @ \ {s}]]
               /\ UNCHANGED <<pc, code>>
    /\ UNCHANGED <<podCache, workloadCache, lock>>

RemovePodsOfApp(r, pods) ==
    {p \in pods : \A w \in local[r].selected : ~OwnedByWorkload(p, w)}

ScaleDaemonSets(r, daemonSets) ==
    [w \in Workloads |-> IF daemonSets[w] = "cluster" /\ Identity(w) \in Scaled[r]
                         THEN "request" ELSE daemonSets[w]]

RemoveFromCluster(r) ==
    /\ pc[r] = "sets" /\ local[r].left = {}
    /\ local' = [local EXCEPT ![r] = [local[r] EXCEPT
           !.clusterPods = RemovePodsOfApp(r, @),
           !.daemonSets = ScaleDaemonSets(r, @),
           !.selected = {}]]
    /\ Goto(r, "pending")
    /\ UNCHANGED <<podCache, workloadCache, lock>>

(***************************************************************************)
(* Mutant: the phase of the pods is not looked at.                         *)
(***************************************************************************)
GetPendingPodsOfAnyPhase(r) ==
    /\ pc[r] = "pending"
    /\ local' = [local EXCEPT ![r].pendingPods = Listed("Pending") \cup Listed("Running")]
    /\ Goto(r, IF Handler[r] = "scale" THEN "removePending" ELSE "simulate")
    /\ UNCHANGED <<podCache, workloadCache, lock>>

GetPendingPods(r) ==
    /\ pc[r] = "pending"
    /\ local' = [local EXCEPT ![r].pendingPods = Listed("Pending")]
    /\ Goto(r, IF Handler[r] = "scale" THEN "removePending" ELSE "simulate")
    /\ UNCHANGED <<podCache, workloadCache, lock>>

(***************************************************************************)
(* Mutant: only the running pods of the application are removed.           *)
(***************************************************************************)
KeepPending(r) ==
    /\ pc[r] = "setsPending" /\ local[r].left = {}
    /\ local' = [local EXCEPT ![r].selected = {}]
    /\ Goto(r, "simulate")
    /\ UNCHANGED <<podCache, workloadCache, lock>>

RemoveFromPending(r) ==
    /\ pc[r] = "setsPending" /\ local[r].left = {}
    /\ local' = [local EXCEPT ![r] = [local[r] EXCEPT
           !.pendingPods = RemovePodsOfApp(r, @),
           !.selected = {}]]
    /\ Goto(r, "simulate")
    /\ UNCHANGED <<podCache, workloadCache, lock>>

\* A name given twice is refused by the fake API server, and Simulate fails.
NameTwice(r) ==
    \E p \in local[r].clusterPods, q \in local[r].pendingPods :
        PodName[p] = PodName[q]

(***************************************************************************)
(* Mutant: a failed simulation is answered as if the server were busy.     *)
(***************************************************************************)
SimulateBusy(r) ==
    /\ pc[r] = "simulate"
    /\ \/ ~NameTwice(r) /\ Answer(r, 200)
       \/ Answer(r, 503)
    /\ UNCHANGED <<podCache, workloadCache, lock>>

Simulate(r) ==
    /\ pc[r] = "simulate"
    /\ \/ ~NameTwice(r) /\ Answer(r, 200)
       \/ Answer(r, 500)
       \/ MayHang /\ Goto(r, "hung") /\ local' = [local EXCEPT ![r] = Fresh]
    /\ UNCHANGED <<podCache, workloadCache, lock>>

Unlock(r) ==
    /\ pc[r] = "unlock"
    /\ lock' = [lock EXCEPT ![Handler[r]] = Nobody]
    /\ pc' = [pc EXCEPT ![r] = "done"]
    /\ code' = [code EXCEPT ![r] = 0]
    /\ UNCHANGED <<podCache, workloadCache, local>>

Handle(r) ==
    \/ ReadBody(r)
    \/ GetClusterPods(r)
    \/ GetClusterDaemonSets(r)
    \/ ListReplicaSets(r)
    \/ GetStatefulSet(r)
    \/ RemoveFromCluster(r)
    \/ GetPendingPods(r)
    \/ RemoveFromPending(r)
    \/ Simulate(r)
    \/ Unlock(r)

Next ==
    \/ \E p \in Pods : PodMoves(p)
    \/ \E w \in Workloads : WorkloadAdded(w) \/ WorkloadDeleted(w)
    \/ \E r \in Requests : TryLock(r) \/ Refuse(r) \/ Handle(r)

Spec == Init /\ [][Next]_vars

-----------------------------------------------------------------------------
(* Properties.                                                             *)

Locals ==
    [clusterPods : SUBSET Pods, pendingPods : SUBSET Pods,
     daemonSets : [Workloads -> {"absent", "cluster", "request"}],
     selected : SUBSET Workloads, left : SUBSET UNION {Scaled[r] : r \in Requests},
     moved : SUBSET Pods, lasting : SUBSET Workloads]

TypeOK ==
    /\ podCache \in [Pods -> Phases]
    /\ workloadCache \subseteq Workloads
    /\ lock \in [Handlers -> Requests \cup {Nobody}]
    /\ pc \in [Requests -> Holding \cup {"new", "refused", "done"}]
    /\ code \in [Requests -> {0, 200, 400, 500}]
    /\ local \in [Requests -> Locals]

\* Whatever way a handler is left, by an error at any point or with a result, a
\* lock is held by the one request of its handler that is under way and by no
\* other: a 503 always means that such a request is running (TryLock, defer
\* Unlock in setupRouter).
LockMatchesFlight ==
    \A h \in Handlers, r \in Requests :
        lock[h] = r <=> Handler[r] = h /\ pc[r] \in Holding

\* The pod is one of those the request is to scale, namespace included.
OfScaledApp(r, p) ==
    /\ OwnerOf[p] # NoWorkload
    /\ LET w == OwnerOf[p] IN
       \/ KindOf[w] = "StatefulSet" /\ Identity(w) \in Scaled[r]
       \/ /\ KindOf[w] = "ReplicaSet"
          /\ [kind |-> "Deployment", name |-> DeploymentOf[w],
              namespace |-> NamespaceOf[w]] \in Scaled[r]

Input(r) == local[r].clusterPods \cup local[r].pendingPods

\* The running and the pending pods are listed at different times, yet no pod
\* object is simulated twice, and one that did not change in between is left out
\* only if a DaemonSet, or the application to be scaled, owns it
\* (getCurrentClusterResource, getPendingPods, removePodsOfApp).
EachPodOnce ==
    \A r \in Requests : pc[r] = "simulate" =>
        /\ local[r].clusterPods \cap local[r].pendingPods = {}
        /\ \A p \in Pods \ local[r].moved :
              /\ p \in Input(r) => /\ podCache[p] \in {"Pending", "Running"}
                                 /\ ~OwnedByDaemonset(p)
              /\ p \notin Input(r) =>
                    \/ podCache[p] \in {"Absent", "Ended"}
                    \/ OwnedByDaemonset(p)
                    \/ OfScaledApp(r, p)

\* What is scaled is simulated once and in the form of the request, as long as the
\* informers had it all along: none of its present pods is left in either list, and
\* a DaemonSet has the template of the request (both calls of removePodsOfApp, and
\* the replacement in ClusterResource.DaemonSets).
ScaledAnew ==
    \A r \in Requests : pc[r] = "simulate" =>
        /\ \A p \in Input(r) : OfScaledApp(r, p) => OwnerOf[p] \notin local[r].lasting
        /\ \A w \in local[r].lasting :
              KindOf[w] = "DaemonSet" =>
                  local[r].daemonSets[w] =
                      IF Identity(w) \in Scaled[r] THEN "request" ELSE "cluster"

=============================================================================
