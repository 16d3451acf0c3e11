------------------------------- MODULE Expand -------------------------------
(***************************************************************************)
(* The expansion of manifests into pods, GetValidPodExcludeDaemonSet of    *)
(* pkg/simulator/utils.go: one goroutine for every chunk of RoutinePodNum  *)
(* pods and one for each other kind of workload.  Each builds its pods     *)
(* apart and appends them to the result under a mutex; the caller waits    *)
(* for all of them.  A pod of the result is <<worker, position of the      *)
(* manifest in its list, ordinal>>, so that a manifest expanded twice, or  *)
(* by two workers, shows.                                                  *)
(***************************************************************************)
EXTENDS Integers, Sequences, FiniteSets

CONSTANTS
    Manifests,
    Replicas,       \* replicas or completions of each manifest, or None
    Valid,          \* the manifests whose pods MakeValidPod accepts
    RoutinePodNum,  \* pods per goroutine; 100 in the code
    None

Kinds == {"Pod", "Deployment", "ReplicaSet", "StatefulSet", "Job", "CronJob"}
Resources == [Kinds -> Seq(Manifests)]

ASSUME ExpandAssumptions ==
    /\ Replicas \in [Manifests -> Nat \cup {None}]
    /\ Valid \subseteq Manifests
    /\ RoutinePodNum \in Nat \ {0}
    /\ None \notin Nat \cup (Kinds \X Nat)

VARIABLES
    resources,  \* the argument of the call
    caller,     \* "idle", "spawning" until Wait is over, "returned"
    stage,      \* the goroutines started so far, and where each is
    wg,         \* the WaitGroup
    mu,         \* the goroutine that holds the mutex on the result
    seen,       \* the result as a goroutine read it before its append
    pods,       \* the result
    rstErr      \* the manifest whose error is returned, by kind and position

expandVars == <<resources, caller, stage, wg, mu, seen, pods, rstErr>>

-----------------------------------------------------------------------------
(* What becomes of one manifest.  A missing replica count is set to one.    *)

Instances(kind, m) ==
    IF kind = "Pod" \/ Replicas[m] = None THEN 1 ELSE Replicas[m]

\* The template is looked at once per pod, so with no replicas it may be invalid.
Fails(kind, m) == m \notin Valid /\ Instances(kind, m) > 0

Size(kind) == Len(resources[kind])

Failing == UNION {{kind} \X {i \in 1..Size(kind) : Fails(kind, resources[kind][i])} :
                    kind \in Kinds}

\* The routines for pods are numbered from 0, the last one has the rest, which may be
\* nothing; a kind without manifests has no goroutine.
LastChunk == Size("Pod") \div RoutinePodNum

Workers ==
    {w \in ({"Pod"} \X (0..LastChunk)) \cup ((Kinds \ {"Pod"}) \X {0}) : Size(w[1]) > 0}

Positions(w) ==
    IF w[1] # "Pod" THEN 1..Size(w[1])
    ELSE w[2] * RoutinePodNum + 1
            .. IF w[2] # LastChunk THEN (w[2] + 1) * RoutinePodNum ELSE Size("Pod")

FailsIn(w, i) == Fails(w[1], resources[w[1]][i])

Made(w) == UNION {{w} \X {i} \X (0..Instances(w[1], resources[w[1]][i]) - 1) :
                    i \in Positions(w)}

With(f, x, v) == [y \in DOMAIN f \cup {x} |-> IF y = x THEN v ELSE f[y]]

-----------------------------------------------------------------------------
(* The caller.                                                             *)

ExpandInit ==
    /\ resources = [kind \in Kinds |-> <<>>]
    /\ caller = "idle"
    /\ stage = <<>>
    /\ wg = 0
    /\ mu = None
    /\ seen = <<>>
    /\ pods = {}
    /\ rstErr = None

\* A call with other resources; the variables of the last one are gone.
Call ==
    /\ caller # "spawning"
    /\ resources' \in Resources
    /\ caller' = "spawning"
    /\ stage' = <<>>
    /\ wg' = 0
    /\ mu' = None
    /\ seen' = <<>>
    /\ pods' = {}
    /\ rstErr' = None

Spawn(w) ==
    /\ caller = "spawning"
    /\ w \in Workers \ DOMAIN stage
    /\ wg' = wg + 1
    /\ stage' = With(stage, w, "running")
    /\ UNCHANGED <<resources, caller, mu, seen, pods, rstErr>>

\* wg.Wait(), after the last goroutine was started.
Wait ==
    /\ caller = "spawning"
    /\ Workers \subseteq DOMAIN stage
    /\ wg = 0
    /\ caller' = "returned"
    /\ UNCHANGED <<resources, stage, wg, mu, seen, pods, rstErr>>

-----------------------------------------------------------------------------
(* A goroutine.                                                            *)

At(w, where) == w \in DOMAIN stage /\ stage[w] = where

MakePods(w) ==
    /\ At(w, "running")
    /\ \A i \in Positions(w) : ~FailsIn(w, i)
    /\ stage' = With(stage, w, "made")
    /\ UNCHANGED <<resources, caller, wg, mu, seen, pods, rstErr>>

(***************************************************************************)
(* Mutant: wg.Done is called on the way out as well as deferred.           *)
(***************************************************************************)
FailDoneTwice(w) ==
    /\ At(w, "running")
    /\ \E i \in Positions(w) : FailsIn(w, i) /\ rstErr' = <<w[1], i>>
    /\ stage' = With(stage, w, "done")
    /\ wg' = wg - 2
    /\ UNCHANGED <<resources, caller, mu, seen, pods>>

\* The first manifest that fails ends the goroutine; what it has made is dropped.
Fail(w) ==
    /\ At(w, "running")
    /\ \E i \in Positions(w) :
          /\ FailsIn(w, i)
          /\ \A j \in Positions(w) : j < i => ~FailsIn(w, j)
          /\ rstErr' = <<w[1], i>>
    /\ stage' = With(stage, w, "done")
    /\ wg' = wg - 1
    /\ UNCHANGED <<resources, caller, mu, seen, pods>>

(***************************************************************************)
(* Mutant: the goroutines append without the mutex.                        *)
(***************************************************************************)
AppendUnlocked(w) ==
    /\ At(w, "made")
    /\ mu' = w
    /\ seen' = With(seen, w, pods)
    /\ stage' = With(stage, w, "appending")
    /\ UNCHANGED <<resources, caller, wg, pods, rstErr>>

Lock(w) ==
    /\ At(w, "made")
    /\ mu = None
    /\ mu' = w
    /\ seen' = With(seen, w, pods)
    /\ stage' = With(stage, w, "appending")
    /\ UNCHANGED <<resources, caller, wg, pods, rstErr>>

AppendPods(w) ==
    /\ At(w, "appending")
    /\ pods' = seen[w] \cup Made(w)
    /\ mu' = None
    /\ stage' = With(stage, w, "done")
    /\ wg' = wg - 1
    /\ UNCHANGED <<resources, caller, seen, rstErr>>

Work(w) == MakePods(w) \/ Fail(w) \/ Lock(w) \/ AppendPods(w)

Running == (\E w \in Workers : Spawn(w) \/ Work(w)) \/ Wait

ExpandSpec == ExpandInit /\ [][Call \/ Running]_expandVars

-----------------------------------------------------------------------------
(* Properties.                                                             *)

ExpandTypeOK ==
    /\ resources \in Resources
    /\ caller \in {"idle", "spawning", "returned"}
    /\ DOMAIN stage \subseteq Workers
    /\ \A w \in DOMAIN stage : stage[w] \in {"running", "made", "appending", "done"}
    /\ wg \in Nat
    /\ mu \in Workers \cup {None}
    /\ DOMAIN seen \subseteq Workers
    /\ rstErr \in Failing \cup {None}

\* When GetValidPodExcludeDaemonSet returns, no goroutine is at work on the result;
\* without an error, each manifest has given its pods and each of them is there once;
\* and there is an error if and only if one of the manifests is invalid.
ExpandedOnce ==
    caller = "returned" =>
        /\ \A w \in Workers : At(w, "done")
        /\ rstErr = None <=> Failing = {}
        /\ rstErr = None =>
              /\ pods = UNION {Made(w) : w \in Workers}
              /\ \A kind \in Kinds : \A i \in 1..Size(kind) :
                    \A k \in 0..Instances(kind, resources[kind][i]) - 1 :
                        Cardinality({w \in Workers : w[1] = kind /\ <<w, i, k>> \in pods}) = 1

=============================================================================
