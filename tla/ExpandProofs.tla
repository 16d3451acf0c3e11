---------------------------- MODULE ExpandProofs ----------------------------
(***************************************************************************)
(* The goroutines of GetValidPodExcludeDaemonSet, for manifests of any     *)
(* number and goroutines of any size: every manifest is expanded by one of *)
(* them, the caller waits for all, and no append is lost.                  *)
(***************************************************************************)
EXTENDS Expand, FiniteSetTheorems, TLAPS

-----------------------------------------------------------------------------
(* The chunks.                                                             *)

LEMMA Monotone ==
  ASSUME NEW a \in Nat, NEW b \in Nat, NEW n \in Nat, a <= b
  PROVE  a * n <= b * n
<1> DEFINE d == b - a
<1>1. d \in Nat /\ b = a + d
  OBVIOUS
<1> HIDE DEF d
<1>2. b * n = a * n + d * n
  BY <1>1
<1>3. d * n \in Nat /\ a * n \in Nat
  BY <1>1
<1> QED
  BY <1>2, <1>3

LEMMA Division ==
  ASSUME NEW s \in Nat, NEW n \in Nat \ {0}
  PROVE  /\ s \div n \in Nat
         /\ (s \div n) * n <= s
         /\ s < (s \div n) * n + n
  OBVIOUS

LEMMA Sizes ==
  ASSUME resources \in Resources, NEW kind \in Kinds
  PROVE  /\ resources[kind] \in Seq(Manifests)
         /\ Size(kind) \in Nat
         /\ \A i \in 1..Size(kind) : resources[kind][i] \in Manifests
<1>1. resources[kind] \in Seq(Manifests)
  BY DEF Resources
<1> QED
  BY <1>1 DEF Size

LEMMA LastChunkBounds ==
  ASSUME resources \in Resources
  PROVE  /\ Size("Pod") \in Nat /\ LastChunk \in Nat
         /\ LastChunk * RoutinePodNum <= Size("Pod")
         /\ Size("Pod") < LastChunk * RoutinePodNum + RoutinePodNum
<1>1. Size("Pod") \in Nat /\ RoutinePodNum \in Nat \ {0}
  BY Sizes, ExpandAssumptions DEF Kinds, ExpandAssumptions
<1> QED
  BY <1>1, Division DEF LastChunk

\* A chunk but the last ends where the next one starts.
LEMMA ChunkEnd ==
  ASSUME resources \in Resources, NEW c \in Nat
  PROVE  /\ c * RoutinePodNum \in Nat /\ (c + 1) * RoutinePodNum \in Nat
         /\ (c + 1) * RoutinePodNum = c * RoutinePodNum + RoutinePodNum
         /\ \A d \in Nat : c < d => (c + 1) * RoutinePodNum <= d * RoutinePodNum
<1>1. RoutinePodNum \in Nat
  BY ExpandAssumptions DEF ExpandAssumptions
<1>2. c * RoutinePodNum \in Nat
  BY <1>1
<1>3. (c + 1) * RoutinePodNum = c * RoutinePodNum + RoutinePodNum
  BY <1>1
<1>4. ASSUME NEW d \in Nat, c < d PROVE (c + 1) * RoutinePodNum <= d * RoutinePodNum
  BY <1>1, <1>4, Monotone
<1>5. (c + 1) * RoutinePodNum \in Nat
  BY <1>1
<1> QED
  BY <1>2, <1>3, <1>4, <1>5

LEMMA WorkerKinds ==
  ASSUME NEW w \in Workers
  PROVE  /\ w = <<w[1], w[2]>> /\ w[1] \in Kinds /\ w[2] \in Nat
         /\ w[1] = "Pod" => w[2] <= LastChunk
         /\ w[1] # "Pod" => w[2] = 0
  BY DEF Workers, Kinds

LEMMA PositionsInside ==
  ASSUME resources \in Resources, NEW w \in Workers
  PROVE  Positions(w) \subseteq 1..Size(w[1])
<1>1. CASE w[1] # "Pod"
  BY <1>1 DEF Positions
<1>2. CASE w[1] = "Pod"
  <2>1. w[2] \in Nat /\ w[2] <= LastChunk /\ w[2] * RoutinePodNum \in Nat
    BY <1>2, WorkerKinds, ChunkEnd
  <2>2. w[2] # LastChunk => (w[2] + 1) * RoutinePodNum <= Size("Pod")
    <3> SUFFICES ASSUME w[2] # LastChunk
                 PROVE  (w[2] + 1) * RoutinePodNum <= Size("Pod")
      OBVIOUS
    <3> DEFINE x == (w[2] + 1) * RoutinePodNum
               y == LastChunk * RoutinePodNum
    <3>1. LastChunk \in Nat /\ w[2] < LastChunk /\ y <= Size("Pod") /\ Size("Pod") \in Nat
      BY <2>1, LastChunkBounds
    <3>2. x <= y
      BY <2>1, <3>1, ChunkEnd
    <3>3. x \in Nat /\ y \in Nat
      BY <2>1, <3>1, ChunkEnd
    <3> HIDE DEF x, y
    <3>4. x <= Size("Pod")
      BY <3>1, <3>2, <3>3
    <3> QED
      BY <3>4 DEF x
  <2>3. (w[2] + 1) * RoutinePodNum \in Nat
    BY <2>1, ChunkEnd
  <2> DEFINE a == w[2] * RoutinePodNum
             b == (w[2] + 1) * RoutinePodNum
  <2>4. Positions(w) = a + 1 .. IF w[2] # LastChunk THEN b ELSE Size("Pod")
    BY <1>2 DEF Positions
  <2> HIDE DEF a, b
  <2>5. a \in Nat /\ b \in Nat /\ (w[2] # LastChunk => b <= Size("Pod"))
    BY <2>1, <2>2, <2>3 DEF a, b
  <2> QED
    BY <1>2, <2>4, <2>5, LastChunkBounds
<1> QED
  BY <1>1, <1>2

\* Every manifest is in the slice of one goroutine.
LEMMA SomeWorker ==
  ASSUME resources \in Resources, NEW kind \in Kinds, NEW i \in 1..Size(kind)
  PROVE  \E w \in Workers : w[1] = kind /\ i \in Positions(w)
<1>0. Size(kind) > 0
  BY Sizes
<1>1. CASE kind # "Pod"
  <2>1. <<kind, 0>> \in Workers
    BY <1>0, <1>1 DEF Workers
  <2>2. i \in Positions(<<kind, 0>>)
    BY <1>1 DEF Positions
  <2> QED
    BY <2>1, <2>2
<1>2. CASE kind = "Pod"
  <2> DEFINE q == (i - 1) \div RoutinePodNum
             c == IF q < LastChunk THEN q ELSE LastChunk
  <2>1. i - 1 \in Nat /\ RoutinePodNum \in Nat \ {0}
    BY Sizes, ExpandAssumptions DEF ExpandAssumptions
  <2>2. q \in Nat /\ q * RoutinePodNum <= i - 1 /\ i - 1 < q * RoutinePodNum + RoutinePodNum
    BY <2>1, Division
  <2> HIDE DEF q
  <2>3. LastChunk \in Nat
    BY LastChunkBounds
  <2>4. c \in Nat /\ c <= LastChunk /\ c <= q /\ (c # LastChunk => c = q)
    BY <2>2, <2>3
  <2> HIDE DEF c
  <2>5. c * RoutinePodNum \in Nat /\ c * RoutinePodNum <= i - 1
    BY <2>1, <2>2, <2>4, Monotone, ChunkEnd
  <2>6. c # LastChunk => i <= (c + 1) * RoutinePodNum
    BY <2>1, <2>2, <2>4, ChunkEnd
  <2>7. (c + 1) * RoutinePodNum \in Nat
    BY <2>1, <2>4
  <2>8. <<"Pod", c>> \in Workers
    BY <1>0, <1>2, <2>3, <2>4 DEF Workers
  <2>9. Positions(<<"Pod", c>>) =
            c * RoutinePodNum + 1
              .. IF c # LastChunk THEN (c + 1) * RoutinePodNum ELSE Size("Pod")
    BY DEF Positions
  <2> DEFINE a == c * RoutinePodNum
             b == (c + 1) * RoutinePodNum
  <2>10. i \in a + 1 .. IF c # LastChunk THEN b ELSE Size("Pod")
    <3>1. a \in Nat /\ b \in Nat /\ a <= i - 1 /\ (c # LastChunk => i <= b)
      BY <2>5, <2>6, <2>7
    <3> HIDE DEF a, b
    <3> QED
      BY <1>2, <2>1, <3>1
  <2> QED
    BY <1>2, <2>8, <2>9, <2>10
<1> QED
  BY <1>1, <1>2

\* ... and of no other.
LEMMA OneWorker ==
  ASSUME resources \in Resources, NEW v \in Workers, NEW w \in Workers, v[1] = w[1],
         NEW i \in Positions(v), i \in Positions(w)
  PROVE  v = w
<1>1. CASE v[1] # "Pod"
  BY <1>1, WorkerKinds
<1>2. CASE v[1] = "Pod"
  <2>0. i \in Int /\ v[2] \in Nat /\ w[2] \in Nat /\ v[2] <= LastChunk /\ w[2] <= LastChunk
    <3>1. i \in 1..Size("Pod") /\ Size("Pod") \in Nat
      BY <1>2, PositionsInside, LastChunkBounds
    <3>2. v[2] \in Nat /\ v[2] <= LastChunk
      BY <1>2, WorkerKinds
    <3>3. w[2] \in Nat /\ w[2] <= LastChunk
      BY <1>2, WorkerKinds
    <3> QED
      BY <3>1, <3>2, <3>3
  <2>1. ASSUME NEW x \in Workers, NEW y \in Workers, x[1] = "Pod", y[1] = "Pod",
               i \in Positions(x), i \in Positions(y), x[2] < y[2]
        PROVE  FALSE
    <3>1. x[2] \in Nat /\ y[2] \in Nat /\ y[2] <= LastChunk /\ LastChunk \in Nat
      BY <2>1, WorkerKinds, LastChunkBounds
    <3>2. (x[2] + 1) * RoutinePodNum <= y[2] * RoutinePodNum
      BY <2>1, <3>1, ChunkEnd
    <3>3. y[2] * RoutinePodNum \in Nat /\ (x[2] + 1) * RoutinePodNum \in Nat
      BY <3>1, ChunkEnd
    <3> DEFINE a == (x[2] + 1) * RoutinePodNum
               b == y[2] * RoutinePodNum
    <3>4. i <= a
      <4>1. Positions(x) = x[2] * RoutinePodNum + 1 .. a
        BY <2>1, <3>1 DEF Positions
      <4>2. x[2] * RoutinePodNum \in Nat
        BY <3>1, ChunkEnd
      <4> QED
        BY <2>0, <2>1, <3>3, <4>1, <4>2
    <3>5. i >= b + 1
      <4>1. Positions(y) = b + 1 .. IF y[2] # LastChunk THEN (y[2] + 1) * RoutinePodNum
                                    ELSE Size("Pod")
        BY <2>1 DEF Positions
      <4> HIDE DEF b
      <4> QED
        BY <2>0, <2>1, <4>1
    <3> HIDE DEF a, b
    <3> QED
      BY <2>0, <3>2, <3>3, <3>4, <3>5 DEF a, b
  <2>2. v[2] = w[2]
    <3>1. ~(v[2] < w[2]) /\ ~(w[2] < v[2])
      BY <1>2, <2>1
    <3> QED
      BY <2>0, <3>1
  <2> QED
    BY <1>2, <2>2, WorkerKinds
<1> QED
  BY <1>1, <1>2

-----------------------------------------------------------------------------
(* The types.                                                              *)

LEMMA NoneIsNoWorker == None \notin Workers
  BY ExpandAssumptions DEF Workers, Kinds, ExpandAssumptions

Started == DOMAIN stage
AtWork == {w \in Started : stage[w] # "done"}

NoneFails(w) == \A i \in Positions(w) : ~FailsIn(w, i)

\* The steps of a goroutine, seen from the WaitGroup and the result.
Steps(w, to) ==
    /\ Started' = Started \cup {w} /\ stage'[w] = to
    /\ \A v \in Started \ {w} : stage'[v] = stage[v]

LEMMA WithSteps ==
  ASSUME NEW w, NEW to, stage' = With(stage, w, to)
  PROVE  Steps(w, to)
  BY DEF With, Steps, Started

LEMMA FailureFound ==
  ASSUME resources \in Resources, NEW w \in Workers, NEW i \in Positions(w), FailsIn(w, i)
  PROVE  <<w[1], i>> \in Failing
<1>1. w[1] \in Kinds /\ i \in 1..Size(w[1])
  BY PositionsInside, WorkerKinds
<1> QED
  BY <1>1 DEF FailsIn, Failing

LEMMA ExpandTypeInit == ExpandInit => ExpandTypeOK
<1> SUFFICES ASSUME ExpandInit PROVE ExpandTypeOK
  OBVIOUS
<1>1. resources \in Resources
  BY DEF ExpandInit, Resources
<1>2. DOMAIN stage = {} /\ DOMAIN seen = {}
  BY DEF ExpandInit
<1> QED
  BY <1>1, <1>2 DEF ExpandInit, ExpandTypeOK

LEMMA ExpandTypeNext ==
  ASSUME ExpandTypeOK, [Call \/ Running]_expandVars, wg' \in Nat
  PROVE  ExpandTypeOK'
<1>1. CASE Call
  <2>1. DOMAIN stage' = {} /\ DOMAIN seen' = {}
    BY <1>1 DEF Call
  <2> QED
    BY <1>1, <2>1 DEF Call, ExpandTypeOK
<1>2. ASSUME resources' = resources, NEW w \in Workers, NEW to \in {"running", "made", "appending", "done"},
             stage' = With(stage, w, to), caller' = caller,
             seen' = seen \/ seen' = With(seen, w, pods), mu' \in {mu, w, None},
             rstErr' = rstErr \/ \E i \in Positions(w) : FailsIn(w, i) /\ rstErr' = <<w[1], i>>
      PROVE  ExpandTypeOK'
  <2>1. Workers' = Workers /\ Failing' = Failing
    BY <1>2 DEF Workers, Failing, Size, LastChunk, Fails, Instances
  <2>2. /\ DOMAIN stage' \subseteq Workers
        /\ \A v \in DOMAIN stage' : stage'[v] \in {"running", "made", "appending", "done"}
    BY <1>2, WithSteps DEF ExpandTypeOK, Steps, Started
  <2>3. DOMAIN seen' \subseteq Workers
    BY <1>2 DEF ExpandTypeOK, With
  <2>4. rstErr' \in Failing \cup {None}
    BY <1>2, FailureFound DEF ExpandTypeOK
  <2> QED
    BY <1>2, <2>1, <2>2, <2>3, <2>4 DEF ExpandTypeOK
<1>3. ASSUME NEW w \in Workers, Spawn(w) \/ Work(w) PROVE ExpandTypeOK'
  BY <1>2, <1>3 DEF Spawn, Work, MakePods, Fail, Lock, AppendPods
<1>4. CASE Wait
  <2>1. Workers' = Workers /\ Failing' = Failing
    BY <1>4 DEF Wait, Workers, Failing, Size, LastChunk, Fails, Instances
  <2> QED
    BY <1>4, <2>1 DEF Wait, ExpandTypeOK
<1>5. CASE UNCHANGED expandVars
  <2>1. Workers' = Workers /\ Failing' = Failing
    BY <1>5 DEF expandVars, Workers, Failing, Size, LastChunk, Fails, Instances
  <2> QED
    BY <1>5, <2>1 DEF expandVars, ExpandTypeOK
<1> QED
  BY <1>1, <1>3, <1>4, <1>5 DEF Running

-----------------------------------------------------------------------------
(* The invariant: the WaitGroup counts the goroutines at work, the mutex   *)
(* keeps what was read of the result current, and a goroutine that ended   *)
(* has handed over its pods or left an error.                              *)

Counted == IsFiniteSet(AtWork) /\ wg = Cardinality(AtWork)

Exclusive ==
    \A w \in Workers :
        /\ mu = w <=> At(w, "appending")
        /\ At(w, "appending") => seen[w] = pods

HandedOver ==
    \A w \in Started :
        /\ stage[w] \in {"made", "appending"} => NoneFails(w)
        /\ stage[w] = "done" /\ rstErr = None => NoneFails(w) /\ Made(w) \subseteq pods

NothingElse == \A x \in pods : \E w \in Workers : x \in Made(w)

AllEnded == caller = "returned" => Workers \subseteq Started /\ AtWork = {}

Inv == ExpandTypeOK /\ Counted /\ Exclusive /\ HandedOver /\ NothingElse /\ AllEnded

LEMMA AtWorkSteps ==
  ASSUME NEW w, NEW to, Steps(w, to)
  PROVE  /\ w \notin Started /\ to # "done" => w \notin AtWork /\ AtWork' = AtWork \cup {w}
         /\ w \in AtWork /\ to # "done" => AtWork' = AtWork
         /\ w \in AtWork /\ to = "done" => AtWork' = AtWork \ {w}
  BY DEF Steps, AtWork

LEMMA NobodyStarted ==
  ASSUME stage = <<>>
  PROVE  Started = {} /\ AtWork = {}
  BY DEF Started, AtWork

LEMMA CountedEmpty == AtWork = {} /\ wg = 0 => Counted
  BY FS_EmptySet DEF Counted

LEMMA InvInit == ExpandInit => Inv
<1> SUFFICES ASSUME ExpandInit PROVE Inv
  OBVIOUS
<1>1. Started = {} /\ AtWork = {}
  BY NobodyStarted DEF ExpandInit
<1>2. Exclusive
  BY <1>1, NoneIsNoWorker DEF ExpandInit, Exclusive, At, Started
<1> QED
  BY <1>1, <1>2, ExpandTypeInit, CountedEmpty
     DEF ExpandInit, Inv, HandedOver, NothingElse, AllEnded

LEMMA InvCall == Inv /\ Call => Inv'
<1> SUFFICES ASSUME Inv, Call PROVE Inv'
  OBVIOUS
<1>1. Started' = {} /\ AtWork' = {}
  BY DEF Call, Started, AtWork
<1>2. Counted'
  BY <1>1, FS_EmptySet DEF Call, Counted
<1>3. Exclusive'
  <2>1. None \notin Workers'
    BY ExpandAssumptions DEF Workers, Kinds, ExpandAssumptions
  <2> QED
    BY <1>1, <2>1 DEF Call, Exclusive, At, Started
<1>4. ExpandTypeOK'
  BY ExpandTypeNext DEF Call, Inv
<1> QED
  BY <1>1, <1>2, <1>3, <1>4 DEF Call, Inv, HandedOver, NothingElse, AllEnded

\* What stays as it is while one call runs.
LEMMA SameCall ==
  ASSUME resources' = resources
  PROVE  /\ Workers' = Workers
         /\ \A w : /\ Made(w)' = Made(w)
                   /\ NoneFails(w)' = NoneFails(w)
  BY DEF Workers, Made, NoneFails, FailsIn, Fails, Instances, Positions, Size, LastChunk

LEMMA InvSpawn ==
  ASSUME Inv, NEW w \in Workers, Spawn(w)
  PROVE  Inv'
<1>1. /\ Steps(w, "running") /\ w \notin Started /\ caller = "spawning"
      /\ UNCHANGED <<resources, caller, mu, seen, pods, rstErr>>
  BY WithSteps DEF Spawn, Started
<1>2. Counted'
  <2>1. w \notin AtWork /\ AtWork' = AtWork \cup {w}
    BY <1>1, AtWorkSteps
  <2> QED
    BY <2>1, FS_AddElement DEF Counted, Inv, Spawn
<1>3. ExpandTypeOK'
  <2>1. wg' \in Nat
    BY DEF Inv, ExpandTypeOK, Spawn
  <2> QED
    BY <2>1, ExpandTypeNext DEF Inv, Running
<1>4. Exclusive'
  BY <1>1, SameCall DEF Inv, Exclusive, At, Steps, Started
<1>5. HandedOver'
  BY <1>1, SameCall DEF Inv, HandedOver, Steps
<1>6. NothingElse' /\ AllEnded'
  BY <1>1, SameCall DEF Inv, NothingElse, AllEnded
<1> QED
  BY <1>2, <1>3, <1>4, <1>5, <1>6 DEF Inv

LEMMA InvMakePods ==
  ASSUME Inv, NEW w \in Workers, MakePods(w)
  PROVE  Inv'
<1>1. /\ Steps(w, "made") /\ w \in Started /\ stage[w] = "running" /\ w \in AtWork
      /\ UNCHANGED <<resources, caller, wg, mu, seen, pods, rstErr>>
      /\ NoneFails(w)
  BY WithSteps DEF MakePods, At, Started, AtWork, NoneFails
<1>2. AtWork' = AtWork
  BY <1>1, AtWorkSteps
<1>3. ExpandTypeOK'
  <2>1. wg' \in Nat
    BY <1>1 DEF Inv, ExpandTypeOK
  <2> QED
    BY <2>1, ExpandTypeNext DEF Inv, Running, Work
<1>4. Exclusive'
  BY <1>1, SameCall DEF Inv, Exclusive, At, Steps, Started
<1>5. HandedOver'
  BY <1>1, SameCall DEF Inv, HandedOver, Steps
<1>6. Counted' /\ NothingElse' /\ AllEnded'
  BY <1>1, <1>2, SameCall DEF Inv, Counted, NothingElse, AllEnded
<1> QED
  BY <1>3, <1>4, <1>5, <1>6 DEF Inv

\* The last step of a goroutine is counted.
LEMMA CountedDone ==
  ASSUME Counted, NEW w \in AtWork, Steps(w, "done"), wg' = wg - 1
  PROVE  Counted' /\ wg' \in Nat
<1>1. AtWork' = AtWork \ {w}
  BY AtWorkSteps
<1>2. IsFiniteSet(AtWork') /\ Cardinality(AtWork') = Cardinality(AtWork) - 1
  BY <1>1, FS_RemoveElement DEF Counted
<1>3. Cardinality(AtWork') \in Nat
  BY <1>2, FS_CardinalityType
<1> QED
  BY <1>2, <1>3 DEF Counted

LEMMA InvFail ==
  ASSUME Inv, NEW w \in Workers, Fail(w)
  PROVE  Inv'
<1>1. /\ Steps(w, "done") /\ w \in Started /\ stage[w] = "running" /\ w \in AtWork
      /\ wg' = wg - 1 /\ UNCHANGED <<resources, caller, mu, seen, pods>>
  BY WithSteps DEF Fail, At, Started, AtWork
<1>2. Counted' /\ wg' \in Nat
  BY <1>1, CountedDone DEF Inv
<1>3. ExpandTypeOK'
  BY <1>2, ExpandTypeNext DEF Inv, Running, Work
<1>4. Exclusive'
  BY <1>1, SameCall DEF Inv, Exclusive, At, Steps, Started
<1>5. rstErr' # None
  <2>1. PICK i \in Positions(w) : FailsIn(w, i) /\ rstErr' = <<w[1], i>>
    BY DEF Fail
  <2>2. <<w[1], i>> \in Kinds \X Nat
    BY <2>1, PositionsInside, WorkerKinds, Sizes DEF Inv, ExpandTypeOK
  <2> QED
    BY <2>1, <2>2, ExpandAssumptions DEF ExpandAssumptions
<1>6. HandedOver'
  BY <1>1, <1>5, SameCall DEF Inv, HandedOver, Steps
<1>7. NothingElse' /\ AllEnded'
  BY <1>1, SameCall DEF Inv, NothingElse, AllEnded
<1> QED
  BY <1>2, <1>3, <1>4, <1>6, <1>7 DEF Inv

LEMMA InvLock ==
  ASSUME Inv, NEW w \in Workers, Lock(w)
  PROVE  Inv'
<1>1. /\ Steps(w, "appending") /\ w \in Started /\ stage[w] = "made" /\ w \in AtWork
      /\ mu = None /\ mu' = w /\ seen' = With(seen, w, pods)
      /\ UNCHANGED <<resources, caller, wg, pods, rstErr>>
  BY WithSteps DEF Lock, At, Started, AtWork
<1>2. AtWork' = AtWork
  BY <1>1, AtWorkSteps
<1>3. ExpandTypeOK'
  <2>1. wg' \in Nat
    BY <1>1 DEF Inv, ExpandTypeOK
  <2> QED
    BY <2>1, ExpandTypeNext DEF Inv, Running, Work
<1>4. Exclusive'
  <2>1. seen'[w] = pods
    BY <1>1 DEF With
  <2>2. \A v \in Workers \ {w} : ~At(v, "appending")
    BY <1>1, NoneIsNoWorker DEF Inv, Exclusive
  <2> QED
    BY <1>1, <2>1, <2>2, SameCall DEF Exclusive, At, Steps, Started
<1>5. HandedOver'
  BY <1>1, SameCall DEF Inv, HandedOver, Steps
<1>6. Counted' /\ NothingElse' /\ AllEnded'
  BY <1>1, <1>2, SameCall DEF Inv, Counted, NothingElse, AllEnded
<1> QED
  BY <1>3, <1>4, <1>5, <1>6 DEF Inv

LEMMA InvAppend ==
  ASSUME Inv, NEW w \in Workers, AppendPods(w)
  PROVE  Inv'
<1>1. /\ Steps(w, "done") /\ w \in Started /\ stage[w] = "appending" /\ w \in AtWork
      /\ wg' = wg - 1 /\ mu' = None /\ UNCHANGED <<resources, caller, seen, rstErr>>
  BY WithSteps DEF AppendPods, At, Started, AtWork
<1>2. mu = w /\ pods' = pods \cup Made(w)
  BY DEF Inv, Exclusive, AppendPods
<1>3. Counted' /\ wg' \in Nat
  BY <1>1, CountedDone DEF Inv
<1>4. ExpandTypeOK'
  BY <1>3, ExpandTypeNext DEF Inv, Running, Work
<1>5. Exclusive'
  <2>1. \A v \in Workers \ {w} : ~At(v, "appending")
    BY <1>2 DEF Inv, Exclusive
  <2> QED
    BY <1>1, <2>1, NoneIsNoWorker, SameCall DEF Exclusive, At, Steps, Started
<1>6. HandedOver'
  BY <1>1, <1>2, SameCall DEF Inv, HandedOver, Steps
<1>7. NothingElse' /\ AllEnded'
  BY <1>1, <1>2, SameCall DEF Inv, NothingElse, AllEnded
<1> QED
  BY <1>3, <1>4, <1>5, <1>6, <1>7 DEF Inv

LEMMA InvWait == Inv /\ Wait => Inv'
<1> SUFFICES ASSUME Inv, Wait PROVE Inv'
  OBVIOUS
<1>1. AtWork = {} /\ Workers \subseteq Started
  BY FS_EmptySet DEF Inv, Counted, Wait, Started
<1>2. Started' = Started /\ AtWork' = AtWork
  BY DEF Wait, Started, AtWork
<1>3. ExpandTypeOK'
  BY ExpandTypeNext DEF Inv, Running, Wait, ExpandTypeOK
<1> QED
  BY <1>1, <1>2, <1>3, SameCall
     DEF Inv, Wait, Counted, Exclusive, At, HandedOver, NothingElse, AllEnded

LEMMA InvNext == Inv /\ [Call \/ Running]_expandVars => Inv'
<1> SUFFICES ASSUME Inv, [Call \/ Running]_expandVars PROVE Inv'
  OBVIOUS
<1>1. CASE UNCHANGED expandVars
  <2>1. Started' = Started /\ AtWork' = AtWork
    BY <1>1 DEF expandVars, Started, AtWork
  <2>2. ExpandTypeOK'
    BY <1>1, ExpandTypeNext DEF expandVars, Inv, ExpandTypeOK
  <2> QED
    BY <1>1, <2>1, <2>2, SameCall
       DEF expandVars, Inv, Counted, Exclusive, At, HandedOver, NothingElse, AllEnded
<1> QED
  BY <1>1, InvCall, InvSpawn, InvMakePods, InvFail, InvLock, InvAppend, InvWait
     DEF Running, Work

LEMMA InvHolds == ExpandSpec => []Inv
  BY InvInit, InvNext, PTL DEF ExpandSpec

(* Every variable keeps its type.                                          *)
THEOREM ExpandTypeCorrect == ExpandSpec => []ExpandTypeOK
<1>1. Inv => ExpandTypeOK
  BY DEF Inv
<1> QED
  BY <1>1, InvHolds, PTL

-----------------------------------------------------------------------------
(* What the invariant says of a call that returned.                        *)

LEMMA MadeIs ==
  ASSUME NEW w \in Workers, NEW v, NEW i, NEW k
  PROVE  <<v, i, k>> \in Made(w) <=>
            /\ v = w /\ i \in Positions(w)
            /\ k \in 0..Instances(w[1], resources[w[1]][i]) - 1
  BY DEF Made

LEMMA ReturnedWithout ==
  ASSUME Inv, caller = "returned", rstErr = None
  PROVE  /\ Failing = {}
         /\ pods = UNION {Made(w) : w \in Workers}
<1>1. \A w \in Workers : NoneFails(w) /\ Made(w) \subseteq pods
  BY DEF Inv, AllEnded, HandedOver, AtWork
<1>2. Failing = {}
  <2> SUFFICES ASSUME NEW kind \in Kinds, NEW i \in 1..Size(kind), Fails(kind, resources[kind][i])
               PROVE  FALSE
    BY DEF Failing
  <2>1. PICK w \in Workers : w[1] = kind /\ i \in Positions(w)
    BY SomeWorker DEF Inv, ExpandTypeOK
  <2> QED
    BY <1>1, <2>1 DEF NoneFails, FailsIn
<1>3. \A x : x \in pods <=> \E w \in Workers : x \in Made(w)
  BY <1>1 DEF Inv, NothingElse
<1> QED
  BY <1>2, <1>3

LEMMA ReturnedOnce ==
  ASSUME Inv, caller = "returned", rstErr = None, NEW kind \in Kinds,
         NEW i \in 1..Size(kind), NEW k \in 0..Instances(kind, resources[kind][i]) - 1
  PROVE  Cardinality({w \in Workers : w[1] = kind /\ <<w, i, k>> \in pods}) = 1
<1>0. resources \in Resources
  BY DEF Inv, ExpandTypeOK
<1>1. PICK w \in Workers : w[1] = kind /\ i \in Positions(w)
  BY <1>0, SomeWorker
<1>2. <<w, i, k>> \in pods
  BY <1>1, MadeIs, ReturnedWithout
<1>3. ASSUME NEW v \in Workers, v[1] = kind, <<v, i, k>> \in pods
      PROVE  v = w
  <2>1. PICK u \in Workers : <<v, i, k>> \in Made(u)
    BY <1>3, ReturnedWithout
  <2>2. i \in Positions(v)
    BY <2>1, MadeIs
  <2> QED
    BY <1>0, <1>1, <1>3, <2>2, OneWorker
<1>4. {v \in Workers : v[1] = kind /\ <<v, i, k>> \in pods} = {w}
  BY <1>1, <1>2, <1>3
<1> QED
  BY <1>4, FS_Singleton

(* When GetValidPodExcludeDaemonSet returns, no goroutine is at work; there *)
(* is an error if and only if a manifest is invalid; and without one, every *)
(* manifest has given its pods, each once, to whichever goroutine its chunk *)
(* fell, for lists of any length and chunks of any size.                    *)
THEOREM ExpandsOnce == ExpandSpec => []ExpandedOnce
<1>1. Inv => ExpandedOnce
  <2> SUFFICES ASSUME Inv, caller = "returned"
               PROVE  /\ \A w \in Workers : At(w, "done")
                      /\ rstErr = None <=> Failing = {}
                      /\ rstErr = None =>
                            /\ pods = UNION {Made(w) : w \in Workers}
                            /\ \A kind \in Kinds : \A i \in 1..Size(kind) :
                                  \A k \in 0..Instances(kind, resources[kind][i]) - 1 :
                                      Cardinality({w \in Workers :
                                          w[1] = kind /\ <<w, i, k>> \in pods}) = 1
    BY DEF ExpandedOnce
  <2>1. \A w \in Workers : At(w, "done")
    BY DEF Inv, AllEnded, AtWork, Started, At
  <2>2. rstErr # None => Failing # {}
    BY DEF Inv, ExpandTypeOK
  <2> QED
    BY <2>1, <2>2, ReturnedWithout, ReturnedOnce
<1> QED
  BY <1>1, InvHolds, PTL

=============================================================================
