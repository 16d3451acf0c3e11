---------------------------- MODULE DeviceProofs ----------------------------
(***************************************************************************)
(* The devices that pods get: what AllocateGpuId finds, what a device may  *)
(* hold, what the node objects say, for any nodes, devices and workload.   *)
(***************************************************************************)
EXTENDS GpuProofs, Sums

-----------------------------------------------------------------------------
(* What a list of devices holds, and what the sums of the cache are.       *)

LEMMA TimesNat ==
  ASSUME NEW d, NEW ids \in Ids
  PROVE  Times(d, ids) \in Nat /\ (Times(d, ids) > 0 <=> d \in Range(ids))
<1> DEFINE S == {i \in DOMAIN ids : ids[i] = d}
<1>1. IsFiniteSet(1..Len(ids))
  BY FS_Interval DEF Ids
<1>2. IsFiniteSet(S)
  <2>1. S \in SUBSET (1..Len(ids))
    BY DEF Ids
  <2> QED
    BY <1>1, <2>1, FS_Subset
<1>3. Cardinality(S) \in Nat /\ (Cardinality(S) = 0 <=> S = {})
  BY <1>2, FS_CardinalityType, FS_EmptySet
<1>4. S # {} <=> d \in Range(ids)
  BY DEF Range
<1> QED
  BY <1>3, <1>4 DEF Times

LEMMA TimesAppend ==
  ASSUME NEW d, NEW e \in Nat, NEW ids \in Ids
  PROVE  Times(d, Append(ids, e)) = IF d = e THEN Times(d, ids) + 1 ELSE Times(d, ids)
<1> DEFINE S == {i \in DOMAIN ids : ids[i] = d}
           A == {i \in DOMAIN Append(ids, e) : Append(ids, e)[i] = d}
           k == Len(ids) + 1
<1>1. /\ DOMAIN ids = 1..Len(ids) /\ Len(ids) \in Nat
      /\ DOMAIN Append(ids, e) = 1..k
      /\ \A i \in 1..Len(ids) : Append(ids, e)[i] = ids[i]
      /\ Append(ids, e)[k] = e
  BY DEF Ids
<1>2. IsFiniteSet(S)
  <2>1. S \in SUBSET (1..Len(ids)) /\ IsFiniteSet(1..Len(ids))
    BY <1>1, FS_Interval
  <2> QED
    BY <2>1, FS_Subset
<1>3. k \notin S
  BY <1>1
<1>4. A = IF d = e THEN S \cup {k} ELSE S
  BY <1>1
<1>5. Cardinality(S \cup {k}) = Cardinality(S) + 1
  BY <1>2, <1>3, FS_AddElement
<1> HIDE DEF k
<1> QED
  BY <1>4, <1>5 DEF Times

LEMMA TimesOne == ASSUME NEW d, NEW e PROVE Times(d, <<e>>) = IF d = e THEN 1 ELSE 0
<1> DEFINE S == {i \in DOMAIN <<e>> : <<e>>[i] = d}
<1>1. S = IF d = e THEN {1} ELSE {}
  OBVIOUS
<1> QED
  BY <1>1, FS_Singleton, FS_EmptySet DEF Times

\* The types of the cache: the pods on a device are finitely many.
CacheTypes ==
    \A n \in Node : \A d \in Devs(n) :
        podMap[n][d] \in SUBSET [pod: Pod, ids: Ids] /\ IsFiniteSet(podMap[n][d])

Charge(d) == [r \in [pod: Pod, ids: Ids] |-> GpuMem[r.pod] * Times(d, r.ids)]

LEMMA ChargeNat ==
  ASSUME NEW d, NEW r \in [pod: Pod, ids: Ids]
  PROVE  Charge(d)[r] \in Nat
<1>1. Times(d, r.ids) \in Nat /\ GpuMem[r.pod] \in Nat
  BY TimesNat, GpuShareAssumptions DEF GpuShareAssumptions
<1> QED
  BY <1>1 DEF Charge

LEMMA UsedIsSum ==
  ASSUME CacheTypes, NEW n \in Node, NEW d \in Devs(n)
  PROVE  GetUsedGpuMemory(n, d) = SumOver(Charge(d), podMap[n][d])
<1> DEFINE S == podMap[n][d]
           A(h) == h = [s \in SUBSET S |->
                          IF s = {} THEN 0
                          ELSE GpuMem[Pick(s).pod] * Times(d, Pick(s).ids)
                               + h[s \ {Pick(s)}]]
<1>1. GetUsedGpuMemory(n, d) = (CHOOSE h : A(h))[S]
  BY DEF GetUsedGpuMemory, MapThenSumSet, MapThenFoldSet, Pick
<1>2. \A s \in SUBSET S : s # {} =>
         Charge(d)[Pick(s)] = GpuMem[Pick(s).pod] * Times(d, Pick(s).ids)
  BY PickIn DEF CacheTypes, Charge
<1>3. ASSUME NEW h PROVE A(h) <=> Adds(h, Charge(d), S)
  BY <1>2 DEF Adds
<1>4. IsFiniteSet(S)
  BY DEF CacheTypes
<1> HIDE DEF A, S
<1>5. \E h : A(h)
  BY <1>3, <1>4, AddsExists
<1>6. A(CHOOSE h : A(h))
  BY <1>5
<1>7. Adds(CHOOSE h : A(h), Charge(d), S)
  BY <1>3, <1>6
<1>8. (CHOOSE h : A(h))[S] = SumOver(Charge(d), S)
  BY <1>4, <1>7, AddsSum
<1> QED
  BY <1>1, <1>8 DEF S

LEMMA DevMemNat ==
  ASSUME NEW n \in Node, NEW d \in Devs(n)
  PROVE  DevMem(n) \in Nat /\ Count[n] \in Nat \ {0}
<1>1. Count[n] \in Nat \ {0} /\ TotalMem[n] \in Nat
  BY GpuShareAssumptions DEF GpuShareAssumptions, Devs
<1> QED
  BY <1>1 DEF DevMem

LEMMA IdleInt ==
  ASSUME CacheTypes, NEW n \in Node, NEW d \in Devs(n)
  PROVE  GetUsedGpuMemory(n, d) \in Nat /\ Idle(n, d) \in Int
<1>1. GetUsedGpuMemory(n, d) \in Nat
  <2>1. /\ IsFiniteSet(podMap[n][d])
        /\ \A r \in podMap[n][d] : Charge(d)[r] \in Nat
    BY ChargeNat DEF CacheTypes
  <2> QED
    BY <2>1, SumNat, UsedIsSum
<1> QED
  BY <1>1, DevMemNat DEF Idle

Fit(n, mem) == [d \in Devs(n) |-> IF Idle(n, d) > 0 THEN Idle(n, d) \div mem ELSE 0]

LEMMA DevsFinite ==
  ASSUME NEW n \in Node
  PROVE  IsFiniteSet(Devs(n)) /\ Count[n] \in Nat /\ Devs(n) \subseteq Nat
<1>1. Count[n] \in Nat
  BY GpuShareAssumptions DEF GpuShareAssumptions
<1> QED
  BY <1>1, FS_Interval DEF Devs

LEMMA QuotientFits ==
  ASSUME NEW i \in Int, i > 0, NEW mem \in Nat, mem > 0
  PROVE  /\ i \div mem \in Nat /\ mem * (i \div mem) <= i
         /\ i < mem * (i \div mem) + mem
  OBVIOUS

LEMMA FitNat ==
  ASSUME CacheTypes, NEW n \in Node, NEW mem \in Nat, mem > 0, NEW d \in Devs(n)
  PROVE  Fit(n, mem)[d] \in Nat
<1>1. Idle(n, d) \in Int
  BY IdleInt
<1> QED
  BY <1>1, QuotientFits DEF Fit

LEMMA RoomIsSum ==
  ASSUME CacheTypes, NEW n \in Node, NEW mem \in Nat, mem > 0
  PROVE  Room(n, mem) = SumOver(Fit(n, mem), Devs(n))
<1> DEFINE S == Devs(n)
           A(h) == h = [s \in SUBSET S |->
                          IF s = {} THEN 0
                          ELSE (IF Idle(n, Pick(s)) > 0
                                THEN Idle(n, Pick(s)) \div mem ELSE 0)
                               + h[s \ {Pick(s)}]]
<1>1. Room(n, mem) = (CHOOSE h : A(h))[S]
  BY DEF Room, MapThenSumSet, MapThenFoldSet, Pick
<1>2. \A s \in SUBSET S : s # {} =>
         Fit(n, mem)[Pick(s)] = IF Idle(n, Pick(s)) > 0
                                THEN Idle(n, Pick(s)) \div mem ELSE 0
  BY PickIn DEF Fit
<1>3. ASSUME NEW h PROVE A(h) <=> Adds(h, Fit(n, mem), S)
  BY <1>2 DEF Adds
<1>4. IsFiniteSet(S)
  BY DevsFinite
<1> HIDE DEF A, S
<1>5. \E h : A(h)
  BY <1>3, <1>4, AddsExists
<1>6. A(CHOOSE h : A(h))
  BY <1>5
<1>7. Adds(CHOOSE h : A(h), Fit(n, mem), S)
  BY <1>3, <1>6
<1>8. (CHOOSE h : A(h))[S] = SumOver(Fit(n, mem), S)
  BY <1>4, <1>7, AddsSum
<1> QED
  BY <1>1, <1>8 DEF S

-----------------------------------------------------------------------------
(* One device.                                                             *)

LEMMA TightestFitFinds ==
  ASSUME CacheTypes, NEW n \in Node, NEW mem \in Nat
  PROVE  \/ /\ TightestFit(n, mem) = <<>>
            /\ \A d \in Devs(n) : ~(Idle(n, d) >= mem)
         \/ \E d \in Devs(n) : TightestFit(n, mem) = <<d>> /\ Idle(n, d) >= mem
<1> DEFINE fits == {d \in Devs(n) : Idle(n, d) >= mem}
           tight == {d \in fits : \A e \in fits : Idle(n, d) <= Idle(n, e)}
<1>1. CASE fits = {}
  BY <1>1 DEF TightestFit
<1>2. CASE fits # {}
  <2>1. \A d \in fits : Idle(n, d) \in Nat
    BY IdleInt
  <2>2. tight # {}
    <3> DEFINE T == {Idle(n, d) : d \in fits}
    <3>1. T \in SUBSET Nat /\ T # {}
      BY <1>2, <2>1
    <3> HIDE DEF T
    <3>2. PICK x \in T : \A y \in T : x <= y
      BY <3>1, LeastNat
    <3>3. PICK d \in fits : x = Idle(n, d)
      BY DEF T
    <3>4. \A e \in fits : Idle(n, d) <= Idle(n, e)
      BY <3>2, <3>3 DEF T
    <3> QED
      BY <3>4
  <2>3. tight \in SUBSET Nat /\ tight \subseteq fits
    BY DevsFinite
  <2> HIDE DEF tight
  <2>4. PICK d \in tight : \A e \in tight : d <= e
    BY <2>2, <2>3, LeastNat
  <2>5. Min(tight) \in tight
    BY <2>4 DEF Min
  <2>6. TightestFit(n, mem) = <<Min(tight)>>
    BY <1>2 DEF TightestFit, tight
  <2> QED
    BY <2>3, <2>5, <2>6
<1> QED
  BY <1>1, <1>2

-----------------------------------------------------------------------------
(* Several devices: the loop, as Packed defines it, is what its rounds make *)
(* of it, one after the other.                                             *)

Start == [dev |-> 0, ids |-> <<>>]

\* f holds the first m rounds.
Rounds(f, m, n, mem, num) ==
    f = [k \in 0..m |-> IF k = 0 THEN Start ELSE Advance(n, mem, num, f[k - 1])]

AllRounds(f, n, mem, num) ==
    f = [k \in Nat |-> IF k = 0 THEN Start ELSE Advance(n, mem, num, f[k - 1])]

LEMMA RoundsUnique ==
  ASSUME NEW n, NEW mem, NEW num, NEW f, NEW g, NEW l \in Nat, NEW m \in Nat,
         Rounds(f, l, n, mem, num), Rounds(g, m, n, mem, num),
         NEW k \in Nat, k <= l, k <= m
  PROVE  f[k] = g[k]
<1> DEFINE T == {i \in Nat : i <= l /\ i <= m /\ f[i] # g[i]}
<1> SUFFICES ASSUME T # {} PROVE FALSE
  OBVIOUS
<1>1. PICK i \in T : \A j \in T : i <= j
  BY LeastNat
<1>2. /\ f[i] = IF i = 0 THEN Start ELSE Advance(n, mem, num, f[i - 1])
      /\ g[i] = IF i = 0 THEN Start ELSE Advance(n, mem, num, g[i - 1])
  BY DEF Rounds
<1>3. i # 0
  BY <1>2
<1>4. i - 1 \notin T
  BY <1>1, <1>3
<1>5. f[i - 1] = g[i - 1]
  BY <1>3, <1>4
<1> QED
  BY <1>2, <1>3, <1>5

LEMMA RoundsExist ==
  ASSUME NEW n, NEW mem, NEW num, NEW m \in Nat
  PROVE  \E f : Rounds(f, m, n, mem, num)
<1> DEFINE T == {i \in Nat : ~ \E f : Rounds(f, i, n, mem, num)}
<1> SUFFICES ASSUME T # {} PROVE FALSE
  OBVIOUS
<1>1. PICK i \in T : \A j \in T : i <= j
  BY LeastNat
<1>2. i # 0
  <2>1. Rounds([k \in 0..0 |-> Start], 0, n, mem, num)
    BY DEF Rounds
  <2> QED
    BY <2>1
<1>3. PICK f : Rounds(f, i - 1, n, mem, num)
  <2>1. i - 1 \in Nat /\ i - 1 \notin T
    BY <1>1, <1>2
  <2> QED
    BY <2>1
<1> DEFINE g == [k \in 0..i |-> IF k = i THEN Advance(n, mem, num, f[i - 1]) ELSE f[k]]
<1>4. ASSUME NEW k \in 0..i
      PROVE  g[k] = IF k = 0 THEN Start ELSE Advance(n, mem, num, g[k - 1])
  <2>1. k # 0 => g[k - 1] = f[k - 1]
    BY <1>2
  <2>2. CASE k = i
    BY <1>2, <2>1, <2>2
  <2>3. CASE k # i
    <3>1. k \in 0..(i - 1)
      BY <2>3
    <3>2. f[k] = IF k = 0 THEN Start ELSE Advance(n, mem, num, f[k - 1])
      BY <1>3, <3>1 DEF Rounds
    <3> QED
      BY <2>1, <2>3, <3>2
  <2> QED
    BY <2>2, <2>3
<1>5. Rounds(g, i, n, mem, num)
  <2>1. g = [k \in 0..i |-> g[k]]
    OBVIOUS
  <2> HIDE DEF g
  <2>2. [k \in 0..i |-> g[k]]
          = [k \in 0..i |-> IF k = 0 THEN Start ELSE Advance(n, mem, num, g[k - 1])]
    BY <1>4
  <2> QED
    BY <2>1, <2>2 DEF Rounds
<1> QED
  BY <1>5

LEMMA AllRoundsExist ==
  ASSUME NEW n, NEW mem, NEW num
  PROVE  \E f : AllRounds(f, n, mem, num)
<1> DEFINE H(m) == CHOOSE f : Rounds(f, m, n, mem, num)
           g == [k \in Nat |-> H(k)[k]]
<1>1. \A m \in Nat : Rounds(H(m), m, n, mem, num)
  BY RoundsExist
<1> HIDE DEF H
<1>2. ASSUME NEW k \in Nat
      PROVE  g[k] = IF k = 0 THEN Start ELSE Advance(n, mem, num, g[k - 1])
  <2>1. H(k)[k] = IF k = 0 THEN Start ELSE Advance(n, mem, num, H(k)[k - 1])
    BY <1>1 DEF Rounds
  <2>2. CASE k = 0
    BY <2>1, <2>2
  <2>3. CASE k # 0
    <3>1. k - 1 \in Nat /\ k - 1 <= k
      BY <2>3
    <3>2. H(k)[k - 1] = H(k - 1)[k - 1]
      BY <1>1, <3>1, RoundsUnique
    <3> QED
      BY <2>1, <2>3, <3>1, <3>2
  <2> QED
    BY <2>2, <2>3
<1>3. AllRounds(g, n, mem, num)
  <2>1. g = [k \in Nat |-> g[k]]
    OBVIOUS
  <2> HIDE DEF g
  <2>2. [k \in Nat |-> g[k]]
          = [k \in Nat |-> IF k = 0 THEN Start ELSE Advance(n, mem, num, g[k - 1])]
    BY <1>2
  <2> QED
    BY <2>1, <2>2 DEF AllRounds
<1> QED
  BY <1>3

LEMMA PackedIsRounds ==
  ASSUME NEW n, NEW mem, NEW num
  PROVE  \E f : /\ AllRounds(f, n, mem, num)
                /\ Packed(n, mem, num) = LET list == f[Count[n] + num].ids
                                         IN  IF Len(list) = num THEN list ELSE <<>>
<1> DEFINE f == CHOOSE f : AllRounds(f, n, mem, num)
<1>1. AllRounds(f, n, mem, num)
  BY AllRoundsExist
<1>2. Packed(n, mem, num) = LET list == f[Count[n] + num].ids
                            IN  IF Len(list) = num THEN list ELSE <<>>
  BY DEF Packed, AllRounds, Start
<1> HIDE DEF f
<1> QED
  BY <1>1, <1>2

\* How often each device is in a list.
Occurs(n, ids) == [d \in Devs(n) |-> Times(d, ids)]

\* After k rounds: the devices before dev are as full as they get, the list holds
\* none after dev, and every round but the last ones has moved on.
Packs(s, k, n, mem, num) ==
    /\ s \in [dev: 0..Count[n], ids: Seq(Devs(n))]
    /\ Len(s.ids) <= num
    /\ \A d \in Devs(n) :
          /\ d < s.dev => Times(d, s.ids) = Fit(n, mem)[d]
          /\ d = s.dev => Times(d, s.ids) <= Fit(n, mem)[d]
          /\ d > s.dev => Times(d, s.ids) = 0
    /\ Len(s.ids) = SumOver(Occurs(n, s.ids), Devs(n))
    /\ s.dev = Count[n] \/ Len(s.ids) = num \/ s.dev + Len(s.ids) >= k

LEMMA ListOfDevices ==
  ASSUME NEW n \in Node, NEW ids \in Seq(Devs(n))
  PROVE  /\ ids \in Ids /\ Len(ids) \in Nat /\ Range(ids) \subseteq Devs(n)
         /\ \A d \in Devs(n) : Append(ids, d) \in Seq(Devs(n))
                               /\ Len(Append(ids, d)) = Len(ids) + 1
<1>1. Range(ids) \subseteq Devs(n)
  BY DEF Range
<1> QED
  BY <1>1, DevsFinite DEF Ids

LEMMA StartPacks ==
  ASSUME CacheTypes, NEW n \in Node, NEW mem \in Nat, mem > 0, NEW num \in Nat
  PROVE  Packs(Start, 0, n, mem, num)
<1>1. \A d : Times(d, <<>>) = 0
  <2>1. \A d : {i \in DOMAIN <<>> : <<>>[i] = d} = {}
    OBVIOUS
  <2> QED
    BY <2>1, FS_EmptySet DEF Times
<1>2. SumOver(Occurs(n, <<>>), Devs(n)) = 0
  <2>1. \A x \in Devs(n) : Occurs(n, <<>>)[x] \in Nat /\ Occurs(n, <<>>)[x] = 0
    BY <1>1 DEF Occurs
  <2>2. SumOver(Occurs(n, <<>>), {}) = SumOver(Occurs(n, <<>>), Devs(n))
    BY <2>1, DevsFinite, SumZeros
  <2> QED
    BY <2>2, SumEmpty
<1>3. \A d \in Devs(n) : Fit(n, mem)[d] \in Nat
  BY FitNat
<1>4. Count[n] \in Nat
  BY DevsFinite
<1>5. Start.dev = 0 /\ Start.ids = <<>> /\ Start \in [dev: 0..Count[n], ids: Seq(Devs(n))]
  BY <1>4 DEF Start
<1> QED
  BY <1>1, <1>2, <1>3, <1>5 DEF Packs, Devs

\* The number that fits is right: one more still fits, or none does.
LEMMA FitExact ==
  ASSUME CacheTypes, NEW n \in Node, NEW mem \in Nat, mem > 0, NEW d \in Devs(n),
         NEW t \in Nat, t <= Fit(n, mem)[d]
  PROVE  /\ Idle(n, d) - mem * t >= mem => t + 1 <= Fit(n, mem)[d]
         /\ ~(Idle(n, d) - mem * t >= mem) => t = Fit(n, mem)[d]
<1> DEFINE q == Fit(n, mem)[d]
           i == Idle(n, d)
<1>1. q \in Nat /\ i \in Int
  BY FitNat, IdleInt
<1>2. i > 0 => mem * q <= i /\ i < mem * q + mem
  BY <1>1, QuotientFits DEF Fit
<1>3. i <= 0 => q = 0
  BY <1>1 DEF Fit
<1> HIDE DEF q, i
<1>4. t <= q /\ mem * t \in Nat /\ mem * q \in Nat
  BY <1>1 DEF q
<1>5. ASSUME i - mem * t >= mem PROVE t + 1 <= q
  <2>1. i > 0
    BY <1>1, <1>4, <1>5
  <2>2. ASSUME t = q PROVE FALSE
    BY <1>1, <1>2, <1>4, <1>5, <2>1, <2>2
  <2> QED
    BY <1>1, <1>4, <2>2
<1>6. ASSUME ~(i - mem * t >= mem) PROVE t = q
  <2>1. ASSUME t + 1 <= q PROVE FALSE
    <3>1. mem * (t + 1) <= mem * q
      BY <1>1, <2>1
    <3>2. mem * (t + 1) = mem * t + mem
      OBVIOUS
    <3>3. i > 0
      BY <1>1, <1>3, <2>1
    <3> QED
      BY <1>1, <1>2, <1>4, <1>6, <3>1, <3>2, <3>3
  <2> QED
    BY <1>1, <1>4, <2>1
<1> QED
  BY <1>5, <1>6 DEF q, i

LEMMA AdvancePacks ==
  ASSUME CacheTypes, NEW n \in Node, NEW mem \in Nat, mem > 0, NEW num \in Nat,
         NEW k \in Nat, NEW s, Packs(s, k, n, mem, num)
  PROVE  Packs(Advance(n, mem, num, s), k + 1, n, mem, num)
<1> DEFINE N == Count[n]
           d == s.dev
           ids == s.ids
<1>1. /\ N \in Nat /\ d \in 0..N /\ ids \in Seq(Devs(n)) /\ s = [dev |-> d, ids |-> ids]
      /\ Len(ids) \in Nat /\ ids \in Ids
  BY DevsFinite, ListOfDevices DEF Packs
<1>2. \A e \in Devs(n) : Fit(n, mem)[e] \in Nat /\ Times(e, ids) \in Nat
  BY <1>1, FitNat, TimesNat
<1>3. CASE d = N \/ Len(ids) = num
  <2>1. Advance(n, mem, num, s) = s
    BY <1>3 DEF Advance
  <2> QED
    BY <1>1, <1>3, <2>1 DEF Packs
<1>4. CASE ~(d = N \/ Len(ids) = num) /\ Idle(n, d) - mem * Times(d, ids) >= mem
  <2>1. d \in Devs(n) /\ d \in Nat
    BY <1>1, <1>4 DEF Devs
  <2> DEFINE new == Append(ids, d)
             t == [dev |-> d, ids |-> new]
  <2>2. Advance(n, mem, num, s) = t
    BY <1>1, <1>4 DEF Advance
  <2>3. new \in Seq(Devs(n)) /\ Len(new) = Len(ids) + 1
    BY <1>1, <2>1, ListOfDevices
  <2>4. \A e : Times(e, new) = IF e = d THEN Times(e, ids) + 1 ELSE Times(e, ids)
    BY <1>1, <2>1, TimesAppend
  <2>5. Times(d, ids) + 1 <= Fit(n, mem)[d]
    BY <1>2, <1>4, <2>1, FitExact DEF Packs
  <2>6. SumOver(Occurs(n, new), Devs(n)) = SumOver(Occurs(n, ids), Devs(n)) + 1
    <3> DEFINE F == Occurs(n, ids)
               G == Occurs(n, new)
               R == Devs(n) \ {d}
    <3>1. /\ \A e \in Devs(n) : F[e] \in Nat /\ G[e] \in Nat
          /\ G[d] = F[d] + 1 /\ \A e \in R : F[e] = G[e]
      BY <1>2, <2>1, <2>4 DEF Occurs
    <3>2. IsFiniteSet(Devs(n)) /\ IsFiniteSet(R)
      BY DevsFinite, FS_Difference
    <3> HIDE DEF F, G
    <3>3. /\ SumOver(F, Devs(n)) = F[d] + SumOver(F, R)
          /\ SumOver(G, Devs(n)) = G[d] + SumOver(G, R)
      BY <2>1, <3>1, <3>2, SumTake
    <3>4. SumOver(F, R) = SumOver(G, R)
      BY <3>1, <3>2, SumCongruent
    <3>5. SumOver(F, R) \in Nat
      BY <3>1, <3>2, SumNat
    <3>6. SumOver(G, Devs(n)) = SumOver(F, Devs(n)) + 1
      BY <2>1, <3>1, <3>3, <3>4, <3>5
    <3> QED
      BY <3>6 DEF F, G
  <2>7. \A e \in Devs(n) :
          /\ e < d => Times(e, new) = Fit(n, mem)[e]
          /\ e = d => Times(e, new) <= Fit(n, mem)[e]
          /\ e > d => Times(e, new) = 0
    <3>1. \A e \in Devs(n) : /\ e < d => Times(e, ids) = Fit(n, mem)[e]
                             /\ e > d => Times(e, ids) = 0
      BY DEF Packs
    <3> HIDE DEF new, ids, d
    <3> QED
      BY <2>1, <2>4, <2>5, <3>1 DEF Devs
  <2>8. /\ Len(new) <= num
        /\ Len(new) = SumOver(Occurs(n, new), Devs(n))
        /\ d + Len(new) >= k + 1
    BY <1>1, <1>4, <2>3, <2>6 DEF Packs
  <2>9. t \in [dev: 0..N, ids: Seq(Devs(n))] /\ t.dev = d /\ t.ids = new
    BY <1>1, <2>3
  <2> HIDE DEF t, new, d, ids
  <2> QED
    BY <2>2, <2>7, <2>8, <2>9 DEF Packs
<1>5. CASE ~(d = N \/ Len(ids) = num) /\ ~(Idle(n, d) - mem * Times(d, ids) >= mem)
  <2>1. d \in Devs(n) /\ d \in Nat /\ d + 1 \in 0..N
    BY <1>1, <1>5 DEF Devs
  <2> DEFINE t == [dev |-> d + 1, ids |-> ids]
  <2>2. Advance(n, mem, num, s) = t
    BY <1>1, <1>5 DEF Advance
  <2>3. Times(d, ids) = Fit(n, mem)[d]
    BY <1>2, <1>5, <2>1, FitExact DEF Packs
  <2>4. \A e \in Devs(n) :
          /\ e < d + 1 => Times(e, ids) = Fit(n, mem)[e]
          /\ e = d + 1 => Times(e, ids) <= Fit(n, mem)[e]
          /\ e > d + 1 => Times(e, ids) = 0
    <3>1. \A e \in Devs(n) : /\ e < d => Times(e, ids) = Fit(n, mem)[e]
                             /\ e > d => Times(e, ids) = 0
      BY DEF Packs
    <3> HIDE DEF ids, d
    <3> QED
      BY <1>2, <2>1, <2>3, <3>1 DEF Devs
  <2>5. /\ Len(ids) <= num
        /\ Len(ids) = SumOver(Occurs(n, ids), Devs(n))
        /\ d + 1 + Len(ids) >= k + 1
    BY <1>1, <1>5 DEF Packs
  <2>6. t \in [dev: 0..N, ids: Seq(Devs(n))] /\ t.dev = d + 1 /\ t.ids = ids
    BY <1>1, <2>1
  <2> HIDE DEF t, d, ids
  <2> QED
    BY <2>2, <2>4, <2>5, <2>6 DEF Packs
<1> QED
  BY <1>3, <1>4, <1>5

\* What a list found on n must be.
Found(ids, n, mem, num) ==
    /\ ids \in Seq(Devs(n)) /\ Len(ids) = num
    /\ \A d \in Range(ids) : d \in Devs(n) /\ mem * Times(d, ids) <= Idle(n, d)

LEMMA HeldFits ==
  ASSUME CacheTypes, NEW n \in Node, NEW mem \in Nat, mem > 0, NEW d \in Devs(n),
         NEW t \in Nat, t > 0, t <= Fit(n, mem)[d]
  PROVE  mem * t <= Idle(n, d)
<1> DEFINE q == Fit(n, mem)[d]
           i == Idle(n, d)
<1>1. q \in Nat /\ i \in Int /\ q > 0
  BY FitNat, IdleInt
<1>2. i > 0 /\ mem * q <= i
  BY <1>1, QuotientFits DEF Fit
<1> HIDE DEF q, i
<1>3. mem * t <= mem * q
  BY <1>1 DEF q
<1> QED
  BY <1>1, <1>2, <1>3 DEF i

LEMMA PackedFinds ==
  ASSUME CacheTypes, NEW n \in Node, NEW mem \in Nat, mem > 0, NEW num \in Nat, num > 0
  PROVE  \/ Packed(n, mem, num) = <<>> /\ Room(n, mem) < num
         \/ Found(Packed(n, mem, num), n, mem, num) /\ Room(n, mem) >= num
<1> DEFINE N == Count[n]
           F == Fit(n, mem)
           D == Devs(n)
<1>1. PICK f : /\ AllRounds(f, n, mem, num)
               /\ Packed(n, mem, num) = LET list == f[Count[n] + num].ids
                                        IN  IF Len(list) = num THEN list ELSE <<>>
  BY PackedIsRounds
<1>2. \A k \in Nat : f[k] = IF k = 0 THEN Start ELSE Advance(n, mem, num, f[k - 1])
  BY <1>1 DEF AllRounds
<1>3. ASSUME NEW m \in Nat PROVE Packs(f[m], m, n, mem, num)
  <2> DEFINE T == {i \in Nat : ~Packs(f[i], i, n, mem, num)}
  <2> SUFFICES ASSUME T # {} PROVE FALSE
    OBVIOUS
  <2>1. PICK i \in T : \A j \in T : i <= j
    BY LeastNat
  <2>2. i \in Nat /\ ~Packs(f[i], i, n, mem, num)
    OBVIOUS
  <2>3. i # 0
    BY <1>2, <2>2, StartPacks
  <2>4. i - 1 \in Nat /\ (i - 1) + 1 = i /\ Packs(f[i - 1], i - 1, n, mem, num)
    BY <2>1, <2>3
  <2>5. f[i] = Advance(n, mem, num, f[i - 1])
    BY <1>2, <2>3
  <2> QED
    BY <2>2, <2>4, <2>5, AdvancePacks
<1>4. PICK s : s = f[N + num]
  OBVIOUS
<1> DEFINE ids == s.ids
<1>5. /\ Packs(s, N + num, n, mem, num)
      /\ Packed(n, mem, num) = IF Len(ids) = num THEN ids ELSE <<>>
      /\ N \in Nat
  BY <1>1, <1>3, <1>4, DevsFinite
<1>6. /\ s.dev \in 0..N /\ ids \in Seq(D) /\ Len(ids) \in Nat /\ Len(ids) <= num
      /\ ids \in Ids /\ Range(ids) \subseteq D
      /\ Len(ids) = SumOver(Occurs(n, ids), D)
      /\ s.dev = N \/ Len(ids) = num \/ s.dev + Len(ids) >= N + num
  BY <1>5, ListOfDevices DEF Packs
<1>7. \A d \in D : /\ F[d] \in Nat /\ Times(d, ids) \in Nat
                   /\ Times(d, ids) <= F[d]
                   /\ s.dev = N => Times(d, ids) = F[d]
  <2>1. \A d \in D : /\ d < s.dev => Times(d, ids) = F[d]
                     /\ d = s.dev => Times(d, ids) <= F[d]
                     /\ d > s.dev => Times(d, ids) = 0
    BY <1>5 DEF Packs
  <2>2. \A d \in D : F[d] \in Nat /\ Times(d, ids) \in Nat
    BY <1>6, FitNat, TimesNat
  <2> HIDE DEF F, ids
  <2> QED
    BY <1>5, <1>6, <2>1, <2>2 DEF Devs
<1>8. \A d \in D : Occurs(n, ids)[d] = Times(d, ids)
  BY DEF Occurs
<1>9. Room(n, mem) = SumOver(F, D) /\ IsFiniteSet(D) /\ SumOver(F, D) \in Nat
  BY <1>7, RoomIsSum, DevsFinite, SumNat
<1>10. SumOver(Occurs(n, ids), D) <= SumOver(F, D)
  <2> HIDE DEF F, ids, D
  <2> QED
    BY <1>7, <1>8, <1>9, SumLess
<1>11. s.dev = N => SumOver(Occurs(n, ids), D) = SumOver(F, D)
  <2> HIDE DEF F, ids, D
  <2> QED
    BY <1>7, <1>8, <1>9, SumCongruent
<1>12. CASE Len(ids) = num
  <2>1. Room(n, mem) >= num
    BY <1>6, <1>9, <1>10, <1>12
  <2>2. ASSUME NEW d \in Range(ids)
        PROVE  d \in D /\ mem * Times(d, ids) <= Idle(n, d)
    <3>1. d \in D /\ Times(d, ids) > 0
      BY <1>6, TimesNat
    <3> QED
      BY <1>7, <3>1, HeldFits
  <2> QED
    BY <1>5, <1>6, <1>12, <2>1, <2>2 DEF Found
<1>13. CASE Len(ids) # num
  <2>1. s.dev = N
    BY <1>5, <1>6, <1>13
  <2>2. Room(n, mem) < num
    BY <1>6, <1>9, <1>11, <1>13, <2>1
  <2> QED
    BY <1>5, <1>13, <2>2
<1> QED
  BY <1>12, <1>13

\* The devices found on a node that has some, for a pod that asks for some.
LEMMA AllocationFinds ==
  ASSUME CacheTypes, NEW p \in Pod, NEW n \in Node,
         GpuMem[p] > 0, GpuNum[p] > 0, Preset[p] = <<>>
  PROVE  \/ AllocateGpuId(p, n) = <<>> /\ Room(n, GpuMem[p]) < GpuNum[p]
         \/ /\ Found(AllocateGpuId(p, n), n, GpuMem[p], GpuNum[p])
            /\ Room(n, GpuMem[p]) >= GpuNum[p]
<1> DEFINE mem == GpuMem[p]
           num == GpuNum[p]
           F == Fit(n, mem)
<1>1. mem \in Nat /\ num \in Nat /\ Count[n] \in Nat
  BY GpuShareAssumptions DEF GpuShareAssumptions
<1>2. /\ Room(n, mem) = SumOver(F, Devs(n)) /\ IsFiniteSet(Devs(n))
      /\ \A d \in Devs(n) : F[d] \in Nat
  BY <1>1, RoomIsSum, DevsFinite, FitNat
<1>3. CASE Count[n] = 0
  <2>1. Devs(n) = {}
    BY <1>3 DEF Devs
  <2>2. Room(n, mem) = 0
    BY <1>2, <2>1, SumEmpty
  <2>3. AllocateGpuId(p, n) = <<>>
    BY <1>3 DEF AllocateGpuId
  <2> QED
    BY <2>2, <2>3
<1>4. CASE Count[n] # 0 /\ num = 1
  <2>1. AllocateGpuId(p, n) = TightestFit(n, mem)
    BY <1>1, <1>4 DEF AllocateGpuId
  <2>2. CASE TightestFit(n, mem) = <<>> /\ \A d \in Devs(n) : ~(Idle(n, d) >= mem)
    <3>1. \A d \in Devs(n) : F[d] = 0
      <4> SUFFICES ASSUME NEW d \in Devs(n) PROVE F[d] = 0
        OBVIOUS
      <4>1. F[d] \in Nat /\ Idle(n, d) \in Int /\ ~(Idle(n, d) >= mem)
        BY <1>2, <2>2, IdleInt
      <4>2. ~(Idle(n, d) - mem * 0 >= mem) => 0 = F[d]
        BY <1>1, <1>2, <4>1, FitExact
      <4> HIDE DEF F, mem
      <4> QED
        BY <1>1, <4>1, <4>2
    <3>2. SumOver(F, {}) = SumOver(F, Devs(n))
      <4> HIDE DEF F
      <4> QED
        BY <1>2, <3>1, SumZeros
    <3>3. Room(n, mem) = 0
      BY <1>2, <3>2, SumEmpty
    <3> QED
      BY <1>4, <2>1, <2>2, <3>3
  <2>3. ASSUME NEW d \in Devs(n), TightestFit(n, mem) = <<d>>, Idle(n, d) >= mem
        PROVE  Found(<<d>>, n, mem, num) /\ Room(n, mem) >= num
    <3>1. F[d] >= 1
      <4>1. F[d] \in Nat /\ Idle(n, d) \in Int
        BY <1>2, IdleInt
      <4>2. Idle(n, d) - mem * 0 >= mem => 0 + 1 <= F[d]
        BY <1>1, <1>2, <4>1, FitExact
      <4> HIDE DEF F, mem
      <4> QED
        BY <1>1, <2>3, <4>1, <4>2
    <3>2. SumOver(F, Devs(n)) = F[d] + SumOver(F, Devs(n) \ {d})
      BY <1>2, SumTake
    <3>3. SumOver(F, Devs(n) \ {d}) \in Nat
      <4>1. IsFiniteSet(Devs(n) \ {d})
        BY <1>2, FS_Difference
      <4> HIDE DEF F
      <4> QED
        BY <1>2, <4>1, SumNat
    <3>4. Room(n, mem) >= num
      <4> HIDE DEF F
      <4> QED
        BY <1>2, <1>4, <3>1, <3>2, <3>3
    <3>5. Range(<<d>>) = {d}
      BY DEF Range
    <3>6. Times(d, <<d>>) = 1
      BY TimesOne
    <3>7. Found(<<d>>, n, mem, num)
      <4>1. mem * Times(d, <<d>>) <= Idle(n, d)
        BY <1>1, <2>3, <3>6, IdleInt
      <4>2. <<d>> \in Seq(Devs(n)) /\ Len(<<d>>) = num
        BY <1>4
      <4> QED
        BY <3>5, <4>1, <4>2 DEF Found
    <3> QED
      BY <3>4, <3>7
  <2> QED
    BY <1>1, <2>1, <2>2, <2>3, TightestFitFinds
<1>5. CASE Count[n] # 0 /\ num # 1
  <2>1. AllocateGpuId(p, n) = Packed(n, mem, num)
    BY <1>1, <1>5 DEF AllocateGpuId
  <2> QED
    BY <1>1, <2>1, PackedFinds
<1> QED
  BY <1>3, <1>4, <1>5

LEMMA ExactFound == CacheTypes => AllocationExact
<1> SUFFICES ASSUME CacheTypes, NEW p \in Pod, NEW n \in Node,
                    GpuMem[p] > 0, GpuNum[p] > 0, Preset[p] = <<>>
             PROVE  LET ids == AllocateGpuId(p, n) IN
                    /\ ids # <<>> <=> Room(n, GpuMem[p]) >= GpuNum[p]
                    /\ ids # <<>> =>
                          /\ Len(ids) = GpuNum[p]
                          /\ \A d \in Range(ids) :
                                d \in Devs(n) /\ GpuMem[p] * Times(d, ids) <= Idle(n, d)
  BY DEF AllocationExact
<1>1. GpuNum[p] \in Nat /\ GpuMem[p] \in Nat
  BY GpuShareAssumptions DEF GpuShareAssumptions
<1>2. Room(n, GpuMem[p]) \in Nat
  <2>1. \A d \in Devs(n) : Fit(n, GpuMem[p])[d] \in Nat
    BY <1>1, FitNat
  <2> QED
    BY <1>1, <2>1, RoomIsSum, DevsFinite, SumNat
<1>3. Found(<<>>, n, GpuMem[p], GpuNum[p]) => FALSE
  BY DEF Found
<1> QED
  BY <1>1, <1>2, <1>3, AllocationFinds DEF Found

-----------------------------------------------------------------------------
(* The types.  Besides TypeOK: what a goroutine has read is the object of  *)
(* the node it works on, and the pods on a device are finitely many.       *)

Reason == {"none", "Unschedulable", "SchedulerError"}
StoredPod == [node: Node \cup {Absent, Unbound}, ids: Ids, reason: Reason]
Reading == {"reserving", "unreserving", "storageRead"}

ReadTypes ==
    /\ nodeObj = [n \in Node |-> nodeObj[n]] /\ read = [p \in Pod |-> read[p]]
    /\ \A n \in Node : nodeObj[n] \in NodeObject(n)
    /\ \A p \in Pod : stage[p] \in Reading =>
          target[p] \in Node /\ read[p] \in NodeObject(target[p])

LockHeld == \A p \in Pod : lock = p <=> stage[p] \in {"reserving", "unreserving"}

PodTypes ==
    /\ retries \in 0..MaxRetries /\ known \in [Pod -> Reason]
    /\ tokens \in Seq(Reason) /\ store \in [Pod -> StoredPod]
    /\ target \in [Pod -> Node \cup {Unbound}]
    /\ copies \in [Pod -> Copy] /\ knownPods \subseteq Pod

TypeInv == PodTypes /\ CacheTypes /\ ReadTypes /\ LockHeld

LEMMA TypeInit == Init => TypeInv
<1> SUFFICES ASSUME Init PROVE TypeInv
  OBVIOUS
<1>1. PodTypes
  <2>1. NoCopy \in Copy
    BY DEF NoCopy, Copy, Ids
  <2>2. store \in [Pod -> StoredPod]
    <3>1. ASSUME NEW p \in Pod
          PROVE  [node |-> Absent, ids |-> Preset[p], reason |-> "none"] \in StoredPod
      BY GpuShareAssumptions DEF GpuShareAssumptions, StoredPod, Reason
    <3> QED
      BY <3>1 DEF Init
  <2> QED
    BY <2>1, <2>2, GpuShareAssumptions DEF Init, PodTypes, Reason, GpuShareAssumptions
<1>2. CacheTypes
  BY FS_EmptySet DEF Init, CacheTypes
<1>3. ReadTypes
  <2>1. ASSUME NEW n \in Node PROVE nodeObj[n] \in NodeObject(n)
    BY DEF Init, NodeObject
  <2> QED
    BY <2>1 DEF Init, ReadTypes, Reading
<1>4. LockHeld
  BY GpuShareAssumptions DEF Init, LockHeld, GpuShareAssumptions
<1> QED
  BY <1>1, <1>2, <1>3, <1>4 DEF TypeInv

LEMMA TypesKept ==
  ASSUME TypeInv, UNCHANGED vars
  PROVE  TypeInv'
<1> USE DEF TypeInv, vars, callerVars, cacheVars, pluginVars
<1>1. PodTypes'
  BY DEF PodTypes, StoredPod, Copy
<1>2. CacheTypes'
  BY DEF CacheTypes, Devs
<1>3. ReadTypes'
  BY DEF ReadTypes, NodeObject, Devs
<1>4. LockHeld'
  BY DEF LockHeld
<1> QED
  BY <1>1, <1>2, <1>3, <1>4

LEMMA AllocatedIds ==
  ASSUME CacheTypes, NEW p \in Pod, NEW n \in Node
  PROVE  AllocateGpuId(p, n) \in Ids
<1>1. /\ GpuMem[p] \in Nat /\ GpuNum[p] \in Nat /\ Preset[p] \in Ids /\ <<>> \in Ids
  BY GpuShareAssumptions DEF GpuShareAssumptions, Ids
<1>2. CASE GpuMem[p] = 0 \/ GpuNum[p] = 0 \/ Count[n] = 0
  BY <1>1, <1>2 DEF AllocateGpuId
<1>3. CASE ~(GpuMem[p] = 0 \/ GpuNum[p] = 0 \/ Count[n] = 0) /\ Preset[p] # <<>>
  BY <1>1, <1>3 DEF AllocateGpuId
<1>4. CASE ~(GpuMem[p] = 0 \/ GpuNum[p] = 0) /\ Preset[p] = <<>>
  <2>1. \/ AllocateGpuId(p, n) = <<>>
        \/ AllocateGpuId(p, n) \in Seq(Devs(n))
    BY <1>1, <1>4, AllocationFinds DEF Found
  <2> QED
    BY <1>1, <2>1, ListOfDevices
<1> QED
  BY <1>2, <1>3, <1>4

-----------------------------------------------------------------------------
(* The types of the pods.                                                  *)

LEMMA StoredKept ==
  ASSUME store \in [Pod -> StoredPod], NEW p \in Pod
  PROVE  /\ \A n \in Node \cup {Absent, Unbound} :
                [store EXCEPT ![p].node = n] \in [Pod -> StoredPod]
         /\ \A r \in Reason : [store EXCEPT ![p].reason = r] \in [Pod -> StoredPod]
         /\ \A n \in Node : \A ids \in Ids : \A r \in Reason :
                [store EXCEPT ![p] = [node |-> n, ids |-> ids, reason |-> r]]
                    \in [Pod -> StoredPod]
<1>1. ASSUME NEW n \in Node \cup {Absent, Unbound}
      PROVE  [store EXCEPT ![p].node = n] \in [Pod -> StoredPod]
  BY DEF StoredPod
<1>2. ASSUME NEW r \in Reason
      PROVE  [store EXCEPT ![p].reason = r] \in [Pod -> StoredPod]
  BY DEF StoredPod
<1>3. ASSUME NEW n \in Node, NEW ids \in Ids, NEW r \in Reason
      PROVE  [store EXCEPT ![p] = [node |-> n, ids |-> ids, reason |-> r]]
                 \in [Pod -> StoredPod]
  BY DEF StoredPod
<1> QED
  BY <1>1, <1>2, <1>3

LEMMA PatchTypes ==
  ASSUME PodTypes, NEW p \in Pod, NEW r \in Reason, PatchCondition(p, r)
  PROVE  /\ tokens' \in Seq(Reason) /\ store' \in [Pod -> StoredPod]
         /\ known' \in [Pod -> Reason]
<1>1. [store EXCEPT ![p].reason = r] \in [Pod -> StoredPod]
  BY StoredKept DEF PodTypes
<1>2. Append(tokens, r) \in Seq(Reason)
  BY DEF PodTypes
<1>3. StoredPod' = StoredPod
  BY DEF StoredPod
<1>4. store[p].reason \in Reason /\ known \in [Pod -> Reason]
  BY DEF PodTypes, StoredPod
<1> QED
  BY <1>1, <1>2, <1>3, <1>4 DEF PodTypes, PatchCondition

LEMMA WriteTypes ==
  ASSUME PodTypes, NEW p \in Pod, NEW n \in Node, NEW ids \in Ids,
         NEW r \in Reason, WriteBound(p, n, ids, r)
  PROVE  tokens' \in Seq(Reason) /\ store' \in [Pod -> StoredPod]
<1>1. [store EXCEPT ![p] = [node |-> n, ids |-> ids, reason |-> r]] \in [Pod -> StoredPod]
  BY StoredKept DEF PodTypes
<1>2. Append(tokens, r) \in Seq(Reason)
  BY DEF PodTypes
<1> QED
  BY <1>1, <1>2 DEF PodTypes, WriteBound

LEMMA PodTypesStep ==
  ASSUME CacheInv, TypeInv, Next
  PROVE  PodTypes'
<1> USE DEF callerVars, cacheVars, pluginVars, Goto
<1>0. /\ retries \in 0..MaxRetries /\ MaxRetries \in Nat /\ known \in [Pod -> Reason]
      /\ \A p \in Pod : store[p].reason \in Reason
      /\ tokens \in Seq(Reason) /\ store \in [Pod -> StoredPod]
      /\ target \in [Pod -> Node \cup {Unbound}]
      /\ copies \in [Pod -> Copy] /\ knownPods \subseteq Pod
      /\ PodTypes /\ CacheTypes
  BY GpuShareAssumptions DEF TypeInv, PodTypes, StoredPod, GpuShareAssumptions
<1>1. ASSUME /\ retries' \in 0..MaxRetries /\ known' \in [Pod -> Reason]
             /\ tokens' \in Seq(Reason) /\ store' \in [Pod -> StoredPod]
             /\ target' \in [Pod -> Node \cup {Unbound}]
             /\ copies' \in [Pod -> Copy] /\ knownPods' \subseteq Pod
      PROVE  PodTypes'
  BY <1>1 DEF PodTypes, StoredPod, Copy
<1>2. CASE CreatePod
  <2>1. pos + 1 \in 1..Len(Workload) /\ Workload[pos + 1] \in Pod
    BY <1>2, GpuShareAssumptions DEF CreatePod, CacheInv, Shape, GpuShareAssumptions
  <2>2. PICK p \in Pod : p = Workload[pos + 1]
    BY <2>1
  <2>3. store' = [store EXCEPT ![p].node = NodeName[p]]
    BY <1>2, <2>2 DEF CreatePod
  <2>4. NodeName[p] \in Node \cup {Absent, Unbound}
    BY GpuShareAssumptions DEF GpuShareAssumptions
  <2>5. store' \in [Pod -> StoredPod]
    BY <1>0, <2>3, <2>4, StoredKept
  <2> QED
    BY <1>0, <1>1, <1>2, <2>5 DEF CreatePod
<1>3. CASE Receive
  <2>1. awaited \in Pod
    BY <1>3 DEF Receive, CacheInv, Shape
  <2>2. store' = store \/ store' = [store EXCEPT ![awaited].node = Absent]
    BY <1>3 DEF Receive
  <2>3. store' \in [Pod -> StoredPod]
    <3> PICK q \in Pod : q = awaited
      BY <2>1
    <3>1. Absent \in Node \cup {Absent, Unbound}
      OBVIOUS
    <3>2. [store EXCEPT ![q].node = Absent] \in [Pod -> StoredPod]
      BY <1>0, <3>1, StoredKept
    <3> QED
      BY <1>0, <2>2, <3>2
  <2>4. tokens' \in Seq(Reason)
    BY <1>0, <1>3 DEF Receive
  <2> QED
    BY <1>0, <1>1, <1>3, <2>3, <2>4 DEF Receive
<1>4. ASSUME NEW p \in Pod, NEW n \in Node, Choose(p, n)
      PROVE  PodTypes'
  <2>1. target' \in [Pod -> Node \cup {Unbound}]
    BY <1>0, <1>4 DEF Choose
  <2> QED
    BY <1>0, <1>1, <1>4, <2>1 DEF Choose
<1>5. ASSUME NEW p \in Pod, FitsNowhere(p) \/ RecordBindError(p)
      PROVE  PodTypes'
  <2>1. PICK r \in Reason : PatchCondition(p, r)
    BY <1>5 DEF FitsNowhere, RecordBindError, Reason
  <2> QED
    BY <1>0, <1>1, <1>5, <2>1, PatchTypes DEF FitsNowhere, RecordBindError
<1>6. ASSUME NEW p \in Pod, Passing(p)
      PROVE  PodTypes'
  <2>1. UNCHANGED <<retries, known, tokens, store, target, copies, knownPods>>
    BY <1>6 DEF Passing, ReserveNoGpu, ReserveUpdate, LocalBindGet, LocalBindUpdate,
                UnreserveNoCopy, UnreserveUpdate
  <2> QED
    BY <1>0, <1>1, <2>1
<1>7. ASSUME NEW p \in Pod, Reserve(p)
      PROVE  PodTypes'
  <2>1. target[p] \in Node
    BY <1>7 DEF Reserve, CacheInv, Shape, OnLoop
  <2> DEFINE copy == [node |-> target[p], ids |-> AllocateGpuId(p, target[p])]
  <2>2. copy \in Copy
    BY <1>0, <2>1, AllocatedIds DEF Copy
  <2>3. copies' = [copies EXCEPT ![p] = copy]
    BY <1>7 DEF Reserve
  <2> HIDE DEF copy
  <2>4. copies' \in [Pod -> Copy]
    BY <1>0, <2>2, <2>3
  <2>5. knownPods' \subseteq Pod
    BY <1>0, <1>7 DEF Reserve, AddOrUpdatePod
  <2> QED
    BY <1>0, <1>1, <1>7, <2>4, <2>5 DEF Reserve
<1>8. ASSUME NEW p \in Pod, Unreserve(p)
      PROVE  PodTypes'
  <2>1. knownPods' \subseteq Pod
    BY <1>0, <1>8 DEF Unreserve, RemovePod
  <2> QED
    BY <1>0, <1>1, <1>8, <2>1 DEF Unreserve
<1>9. ASSUME NEW p \in Pod, Bind(p)
      PROVE  PodTypes'
  <2>1. Reserved(p)
    BY <1>9 DEF Bind, AfterLocalBind, Reserved, InBinding
  <2>2. copies[p].node \in Node /\ copies[p].ids \in Ids
    BY <1>0, <2>1 DEF CacheInv, Shape, Copy
  <2>3. tokens' \in Seq(Reason) /\ store' \in [Pod -> StoredPod]
    BY <1>0, <1>9, <2>2, WriteTypes DEF Bind
  <2>4. copies' \in [Pod -> Copy]
    <3>1. NoCopy \in Copy
      BY DEF NoCopy, Copy, Ids
    <3>2. copies' = copies \/ copies' = [copies EXCEPT ![p] = NoCopy]
      BY <1>9 DEF Bind
    <3> QED
      BY <1>0, <3>1, <3>2
  <2> QED
    BY <1>0, <1>1, <1>9, <2>3, <2>4 DEF Bind
<1>10. ASSUME NEW p \in Pod, BindNoGpu(p)
       PROVE  PodTypes'
  <2>1. target[p] \in Node /\ <<>> \in Ids
    BY <1>10 DEF BindNoGpu, AfterLocalBind, InBinding, CacheInv, Shape, Ids
  <2>2. tokens' \in Seq(Reason) /\ store' \in [Pod -> StoredPod]
    BY <1>0, <1>10, <2>1, WriteTypes DEF BindNoGpu
  <2> QED
    BY <1>0, <1>1, <1>10, <2>2 DEF BindNoGpu
<1>11. ASSUME NEW p \in Pod, Retry(p)
       PROVE  PodTypes'
  <2>1. retries' \in 0..MaxRetries
    BY <1>0, <1>11 DEF Retry
  <2> QED
    BY <1>0, <1>1, <1>11, <2>1 DEF Retry
<1> QED
  BY <1>2, <1>3, <1>4, <1>5, <1>6, <1>7, <1>8, <1>9, <1>10, <1>11
     DEF Next, BindingStep, Passing

LEMMA CacheTypesStep ==
  ASSUME CacheInv, TypeInv, Next
  PROVE  CacheTypes'
<1> USE DEF callerVars, cacheVars, pluginVars, Goto
<1>1. CASE podMap' = podMap
  BY <1>1 DEF TypeInv, CacheTypes, Devs
<1>2. ASSUME NEW p \in Pod, Reserve(p)
      PROVE  CacheTypes'
  <2> DEFINE copy == [node |-> target[p], ids |-> AllocateGpuId(p, target[p])]
             e == Entry(p, copy)
  <2>1. target[p] \in Node
    BY <1>2 DEF Reserve, CacheInv, Shape, OnLoop
  <2>2. e \in [pod: Pod, ids: Ids]
    BY <2>1, AllocatedIds DEF Entry, TypeInv
  <2>3. AddOrUpdatePod(p, copy)
    BY <1>2 DEF Reserve
  <2> HIDE DEF copy, e
  <2>4. ASSUME NEW n \in Node, NEW d \in Devs(n)
        PROVE  podMap'[n][d] = podMap[n][d]
               \/ podMap'[n][d] = {r \in podMap[n][d] : r.pod # p} \cup {e}
    BY <2>3 DEF AddOrUpdatePod, CacheInv, Shape, e
  <2>5. ASSUME NEW n \in Node, NEW d \in Devs(n)
        PROVE  podMap'[n][d] \in SUBSET [pod: Pod, ids: Ids] /\ IsFiniteSet(podMap'[n][d])
    <3> DEFINE S == podMap[n][d]
               R == {r \in S : r.pod # p}
    <3>1. S \in SUBSET [pod: Pod, ids: Ids] /\ IsFiniteSet(S)
      BY DEF TypeInv, CacheTypes
    <3>2. R \in SUBSET S
      OBVIOUS
    <3>3. podMap'[n][d] = S \/ podMap'[n][d] = R \cup {e}
      BY <2>4
    <3> HIDE DEF R, S
    <3>4. IsFiniteSet(R \cup {e})
      BY <3>1, <3>2, FS_Subset, FS_AddElement
    <3> QED
      BY <2>2, <3>1, <3>2, <3>3, <3>4
  <2> QED
    BY <2>5 DEF CacheTypes, Devs
<1>3. ASSUME NEW p \in Pod, Unreserve(p)
      PROVE  CacheTypes'
  <2>1. ASSUME NEW n \in Node, NEW d \in Devs(n)
        PROVE  podMap'[n][d] \in SUBSET podMap[n][d]
    BY <1>3 DEF Unreserve, RemovePod, CacheInv, Shape
  <2>2. ASSUME NEW n \in Node, NEW d \in Devs(n)
        PROVE  podMap'[n][d] \in SUBSET [pod: Pod, ids: Ids] /\ IsFiniteSet(podMap'[n][d])
    <3>1. podMap[n][d] \in SUBSET [pod: Pod, ids: Ids] /\ IsFiniteSet(podMap[n][d])
      BY DEF TypeInv, CacheTypes
    <3> QED
      BY <2>1, <3>1, FS_Subset
  <2> QED
    BY <2>2 DEF CacheTypes, Devs
<1> QED
  BY <1>1, <1>2, <1>3
     DEF Next, BindingStep, CreatePod, Receive, Choose, FitsNowhere, ReserveNoGpu,
         ReserveUpdate, LocalBindGet, LocalBindUpdate, Bind, BindNoGpu,
         UnreserveNoCopy, UnreserveUpdate, RecordBindError, Retry

LEMMA LockStep ==
  ASSUME CacheInv, TypeInv, Next
  PROVE  LockHeld'
<1> USE DEF callerVars, cacheVars, pluginVars, Goto
<1>0. /\ \A p \in Pod : lock = p <=> stage[p] \in {"reserving", "unreserving"}
      /\ stage \in [Pod -> Stage] /\ NoPod \notin Pod
  BY GpuShareAssumptions DEF TypeInv, LockHeld, CacheInv, Shape, GpuShareAssumptions
<1>1. ASSUME NEW p \in Pod, NEW s,
             stage' = [stage EXCEPT ![p] = s],
             \/ /\ lock' = lock /\ stage[p] \notin {"reserving", "unreserving"}
                /\ s \notin {"reserving", "unreserving"}
             \/ /\ lock = NoPod /\ lock' = p /\ s \in {"reserving", "unreserving"}
             \/ /\ stage[p] \in {"reserving", "unreserving"} /\ lock' = NoPod
                /\ s \notin {"reserving", "unreserving"}
      PROVE  LockHeld'
  BY <1>0, <1>1 DEF LockHeld
<1>2. CASE UNCHANGED <<stage, lock>>
  BY <1>2 DEF TypeInv, LockHeld
<1>3. CASE CreatePod
  <2>1. pos + 1 \in 1..Len(Workload) /\ Workload[pos + 1] \in Pod
    BY <1>3, GpuShareAssumptions DEF CreatePod, CacheInv, Shape, GpuShareAssumptions
  <2>2. PICK p \in Pod : p = Workload[pos + 1]
    BY <2>1
  <2>3. ~Created(p)
    <3>1. pos \in Nat
      BY DEF CacheInv, Shape
    <3> QED
      BY <2>1, <2>2, <3>1, GpuShareAssumptions DEF Created, GpuShareAssumptions, IsInjective
  <2>4. stage[p] = "idle"
    BY <2>3 DEF CacheInv, Unplaced
  <2>5. UNCHANGED stage \/ stage' = [stage EXCEPT ![p] = "queued"]
    BY <1>3, <2>2 DEF CreatePod
  <2>6. lock' = lock
    BY <1>3 DEF CreatePod
  <2> QED
    BY <1>1, <1>2, <2>4, <2>5, <2>6
<1>4. CASE Receive
  <2>1. PICK p \in Pod : p = awaited
    BY <1>4 DEF Receive, CacheInv, Shape
  <2>2. \/ UNCHANGED stage
        \/ stage' = [stage EXCEPT ![p] =
                        IF @ \in {"queued", "waiting"} THEN "idle" ELSE @]
    BY <1>4, <2>1 DEF Receive
  <2>3. \A q \in Pod : stage'[q] \in {"reserving", "unreserving"}
                         <=> stage[q] \in {"reserving", "unreserving"}
    BY <1>0, <2>2
  <2>4. lock' = lock
    BY <1>4 DEF Receive
  <2> QED
    BY <1>0, <2>3, <2>4 DEF LockHeld
<1>5. ASSUME NEW p \in Pod,
             \/ \E n \in Node : Choose(p, n)
             \/ FitsNowhere(p) \/ ReserveNoGpu(p) \/ LocalBindGet(p) \/ LocalBindUpdate(p)
             \/ Bind(p) \/ BindNoGpu(p) \/ UnreserveNoCopy(p) \/ RecordBindError(p)
             \/ Retry(p)
      PROVE  LockHeld'
  <2>1. lock' = lock /\ stage[p] \notin {"reserving", "unreserving"}
    BY <1>5 DEF Choose, FitsNowhere, ReserveNoGpu, LocalBindGet, LocalBindUpdate, Bind,
          BindNoGpu, AfterLocalBind, UnreserveNoCopy, RecordBindError, Retry
  <2>2. \E s \in {"chosen", "waiting", "reserved", "storageRead", "rejected", "booked",
                  "idle", "undone", "queued"} : stage' = [stage EXCEPT ![p] = s]
    BY <1>5 DEF Choose, FitsNowhere, ReserveNoGpu, LocalBindGet, LocalBindUpdate, Bind,
          BindNoGpu, WriteBound, UnreserveNoCopy, RecordBindError, Retry
  <2> QED
    BY <1>1, <2>1, <2>2
<1>6. ASSUME NEW p \in Pod, Reserve(p) \/ Unreserve(p)
      PROVE  LockHeld'
  BY <1>1, <1>6 DEF Reserve, Unreserve
<1>7. ASSUME NEW p \in Pod, ReserveUpdate(p) \/ UnreserveUpdate(p)
      PROVE  LockHeld'
  BY <1>1, <1>7 DEF ReserveUpdate, UnreserveUpdate
<1> QED
  BY <1>3, <1>4, <1>5, <1>6, <1>7 DEF Next, BindingStep

\* What UpdateNode and LocalBindUpdate write, and what the reads read.
LEMMA ExportTypes ==
  ASSUME CacheTypes, NEW n \in Node
  PROVE  Export(n) \in [Devs(n) -> Nat]
  BY IdleInt DEF Export

LEMMA ReadStep ==
  ASSUME CacheInv, TypeInv, Next
  PROVE  ReadTypes'
<1> USE DEF callerVars, cacheVars, pluginVars, Goto
<1>0. /\ nodeObj = [n \in Node |-> nodeObj[n]] /\ read = [p \in Pod |-> read[p]]
      /\ \A n \in Node : nodeObj[n] \in NodeObject(n)
      /\ \A p \in Pod : stage[p] \in Reading =>
            target[p] \in Node /\ read[p] \in NodeObject(target[p])
      /\ stage \in [Pod -> Stage]
  BY DEF TypeInv, ReadTypes, CacheInv, Shape
<1>1. \A n : NodeObject(n)' = NodeObject(n)
  BY DEF NodeObject, Devs
<1>2. ASSUME UNCHANGED <<nodeObj, read>>,
             \A p \in Pod : stage'[p] \in Reading =>
                stage[p] \in Reading /\ target'[p] = target[p]
      PROVE  ReadTypes'
  BY <1>0, <1>1, <1>2 DEF ReadTypes
<1>3. CASE CreatePod
  <2>1. \A p \in Pod : stage'[p] = stage[p] \/ stage'[p] = "queued"
    BY <1>0, <1>3 DEF CreatePod
  <2> QED
    BY <1>2, <1>3, <2>1 DEF CreatePod, Reading
<1>4. CASE Receive
  <2>1. \A p \in Pod : stage'[p] = stage[p] \/ stage'[p] = "idle"
    BY <1>0, <1>4 DEF Receive
  <2> QED
    BY <1>2, <1>4, <2>1 DEF Receive, Reading
<1>5. ASSUME NEW p \in Pod, NEW n \in Node, Choose(p, n)
      PROVE  ReadTypes'
  <2>1. /\ stage'[p] = "chosen"
        /\ \A q \in Pod : q # p => stage'[q] = stage[q] /\ target'[q] = target[q]
    BY <1>0, <1>5 DEF Choose, CacheInv, Shape
  <2> QED
    BY <1>2, <1>5, <2>1 DEF Choose, Reading
<1>6. ASSUME NEW p \in Pod,
             \/ FitsNowhere(p) \/ ReserveNoGpu(p) \/ Bind(p) \/ BindNoGpu(p)
             \/ UnreserveNoCopy(p) \/ RecordBindError(p) \/ Retry(p)
      PROVE  ReadTypes'
  <2>1. UNCHANGED <<nodeObj, read, target>>
    BY <1>6 DEF FitsNowhere, ReserveNoGpu, Bind, BindNoGpu, UnreserveNoCopy,
                RecordBindError, Retry
  <2>2. \E s \in {"waiting", "reserved", "rejected", "idle", "undone", "queued"} :
           stage' = [stage EXCEPT ![p] = s]
    BY <1>6 DEF FitsNowhere, ReserveNoGpu, Bind, BindNoGpu, WriteBound,
                UnreserveNoCopy, RecordBindError, Retry
  <2> QED
    BY <1>0, <1>2, <2>1, <2>2 DEF Reading
<1>7. ASSUME NEW p \in Pod, Reserve(p) \/ Unreserve(p) \/ LocalBindGet(p)
      PROVE  ReadTypes'
  <2>1. target[p] \in Node /\ UNCHANGED <<target, nodeObj>>
    BY <1>7 DEF Reserve, Unreserve, LocalBindGet, CacheInv, Shape, OnLoop, InBinding
  <2>2. \/ read' = [read EXCEPT ![p] = nodeObj[target[p]]]
        \/ read' = read /\ stage' = [stage EXCEPT ![p] = "rejected"]
    BY <1>7 DEF Reserve, Unreserve, LocalBindGet
  <2>3. \A q \in Pod : q # p => stage'[q] = stage[q] /\ read'[q] = read[q]
    <3>1. \E s : stage' = [stage EXCEPT ![p] = s]
      BY <1>7 DEF Reserve, Unreserve, LocalBindGet
    <3> QED
      BY <1>0, <2>2, <3>1
  <2>4. stage'[p] \in Reading => read'[p] = nodeObj[target[p]]
    BY <1>0, <2>2 DEF Reading
  <2>5. read' = [q \in Pod |-> read'[q]]
    BY <1>0, <2>2
  <2>6. ASSUME NEW q \in Pod, stage'[q] \in Reading
        PROVE  target'[q] \in Node /\ read'[q] \in NodeObject(target'[q])
    <3>1. CASE q = p
      BY <1>0, <2>1, <2>4, <2>6, <3>1
    <3>2. CASE q # p
      BY <1>0, <2>1, <2>3, <2>6, <3>2
    <3> QED
      BY <3>1, <3>2
  <2> QED
    BY <1>0, <1>1, <2>1, <2>5, <2>6 DEF ReadTypes
<1>8. ASSUME NEW p \in Pod, ReserveUpdate(p) \/ UnreserveUpdate(p) \/ LocalBindUpdate(p)
      PROVE  ReadTypes'
  <2> DEFINE n == target[p]
  <2>1. n \in Node /\ read[p] \in NodeObject(n) /\ UNCHANGED <<target, read>>
    BY <1>0, <1>8 DEF ReserveUpdate, UnreserveUpdate, LocalBindUpdate, Reading
  <2>2. \E o \in NodeObject(n) : nodeObj' = [nodeObj EXCEPT ![n] = o]
    <3>1. CASE ReserveUpdate(p) \/ UnreserveUpdate(p)
      <4>1. nodeObj' = [nodeObj EXCEPT ![n] = [read[p] EXCEPT !.gpu = Export(n)]]
        BY <3>1 DEF ReserveUpdate, UnreserveUpdate, UpdateNode
      <4>2. Export(n) \in [Devs(n) -> Nat]
        BY <2>1, ExportTypes DEF TypeInv
      <4>3. [read[p] EXCEPT !.gpu = Export(n)] \in NodeObject(n)
        BY <2>1, <4>2 DEF NodeObject
      <4> QED
        BY <4>1, <4>3
    <3>2. CASE LocalBindUpdate(p)
      <4>1. nodeObj' = [nodeObj EXCEPT ![n] = [read[p] EXCEPT !.local = @ \cup {p}]]
        BY <3>2 DEF LocalBindUpdate
      <4>2. [read[p] EXCEPT !.local = @ \cup {p}] \in NodeObject(n)
        BY <2>1 DEF NodeObject
      <4> QED
        BY <4>1, <4>2
    <3> QED
      BY <1>8, <3>1, <3>2
  <2>3. PICK m \in Node : \E o \in NodeObject(m) : nodeObj' = [nodeObj EXCEPT ![m] = o]
    BY <2>1, <2>2
  <2>4. /\ \A i \in Node : nodeObj'[i] \in NodeObject(i)
        /\ nodeObj' = [i \in Node |-> nodeObj'[i]]
    BY <1>0, <2>3
  <2>5. \A q \in Pod : stage'[q] \in Reading => stage[q] \in Reading
    <3>1. \E s \in {"reserved", "undone", "booked"} : stage' = [stage EXCEPT ![p] = s]
      BY <1>8 DEF ReserveUpdate, UnreserveUpdate, LocalBindUpdate
    <3> QED
      BY <1>0, <3>1 DEF Reading
  <2> QED
    BY <1>0, <1>1, <2>1, <2>4, <2>5 DEF ReadTypes
<1> QED
  BY <1>3, <1>4, <1>5, <1>6, <1>7, <1>8 DEF Next, BindingStep

LEMMA TypeStep ==
  ASSUME CacheInv, TypeInv, [Next]_vars
  PROVE  TypeInv'
<1>1. CASE UNCHANGED vars
  BY <1>1, TypesKept
<1>2. CASE Next
  BY <1>2, PodTypesStep, CacheTypesStep, ReadStep, LockStep DEF TypeInv
<1> QED
  BY <1>1, <1>2

LEMMA TypesHold == CacheInv /\ TypeInv => TypeOK
<1> SUFFICES ASSUME CacheInv, TypeInv PROVE TypeOK
  OBVIOUS
<1> QED
  BY DEF TypeOK, CacheInv, Shape, TypeInv, PodTypes, CacheTypes, ReadTypes, LockHeld,
         StoredPod, Reason

\* The variables hold what their declarations say, and the mutex is held exactly
\* from the read of a node to its write (Reserve and Unreserve in open-gpu-share.go).
THEOREM GpuTyped == Spec => []TypeOK
<1>1. CacheInv /\ TypeInv /\ [Next]_vars => CacheInv' /\ TypeInv'
  BY CacheStep, TypeStep
<1> QED
  BY CacheInit, TypeInit, <1>1, TypesHold, PTL DEF Spec

\* The greedy allocation misses nothing and overfills nothing: for every state of
\* the cache it finds devices exactly if there is room for gpu-count pieces of
\* gpu-mem (AllocateGpuId in gpunodeinfo.go).
THEOREM AllocatesExactly == Spec => []AllocationExact
<1>1. CacheInv /\ TypeInv /\ [Next]_vars => CacheInv' /\ TypeInv'
  BY CacheStep, TypeStep
<1>2. TypeInv => AllocationExact
  BY ExactFound DEF TypeInv
<1> QED
  BY CacheInit, TypeInit, <1>1, <1>2, PTL DEF Spec

-----------------------------------------------------------------------------
(* What Filter promised Reserve finds: freeing devices leaves no less room *)
(* than there was, and nobody else takes any in between.                   *)

\* What the sums of the cache are, and when devices are found; as facts of every
\* state, to be used of the next one too.
SumsRight ==
  CacheTypes => \A n \in Node : \A d \in Devs(n) :
     /\ GetUsedGpuMemory(n, d) = SumOver(Charge(d), podMap[n][d])
     /\ GetUsedGpuMemory(n, d) \in Nat /\ Idle(n, d) \in Int

RoomRight ==
  CacheTypes => \A n \in Node : \A mem \in Nat :
     mem > 0 => /\ Room(n, mem) = SumOver(Fit(n, mem), Devs(n))
                /\ \A d \in Devs(n) : Fit(n, mem)[d] \in Nat

FindsRight ==
  CacheTypes => \A p \in Pod : \A n \in Node :
     AllocateGpuId(p, n) # <<>> <=>
        /\ GpuMem[p] > 0 /\ GpuNum[p] > 0 /\ Count[n] # 0
        /\ Preset[p] # <<>> \/ Room(n, GpuMem[p]) >= GpuNum[p]

LEMMA SumsAlways == SumsRight
  BY UsedIsSum, IdleInt DEF SumsRight

LEMMA RoomAlways == RoomRight
  BY RoomIsSum, FitNat DEF RoomRight

LEMMA Allocates == FindsRight
<1> SUFFICES ASSUME CacheTypes, NEW p \in Pod, NEW n \in Node
             PROVE  AllocateGpuId(p, n) # <<>> <=>
                       /\ GpuMem[p] > 0 /\ GpuNum[p] > 0 /\ Count[n] # 0
                       /\ Preset[p] # <<>> \/ Room(n, GpuMem[p]) >= GpuNum[p]
  BY DEF FindsRight
<1>1. /\ GpuMem[p] \in Nat /\ GpuNum[p] \in Nat /\ Count[n] \in Nat
  BY GpuShareAssumptions DEF GpuShareAssumptions
<1>2. CASE GpuMem[p] = 0 \/ GpuNum[p] = 0 \/ Count[n] = 0
  BY <1>1, <1>2 DEF AllocateGpuId
<1>3. CASE ~(GpuMem[p] = 0 \/ GpuNum[p] = 0 \/ Count[n] = 0) /\ Preset[p] # <<>>
  BY <1>1, <1>3 DEF AllocateGpuId
<1>4. CASE ~(GpuMem[p] = 0 \/ GpuNum[p] = 0 \/ Count[n] = 0) /\ Preset[p] = <<>>
  <2>1. \A d \in Devs(n) : Fit(n, GpuMem[p])[d] \in Nat
    BY <1>1, <1>4, FitNat
  <2>2. Room(n, GpuMem[p]) \in Nat
    BY <1>1, <1>4, <2>1, RoomIsSum, DevsFinite, SumNat
  <2>3. AllocationExact
    BY ExactFound
  <2> QED
    BY <1>1, <1>4, <2>2, <2>3 DEF AllocationExact
<1> QED
  BY <1>2, <1>3, <1>4

LEMMA QuotientMonotone ==
  ASSUME NEW i \in Int, NEW j \in Int, i <= j, i > 0, NEW mem \in Nat, mem > 0
  PROVE  i \div mem <= j \div mem
<1>1. /\ i \div mem \in Nat /\ j \div mem \in Nat
      /\ mem * (i \div mem) <= i /\ j < mem * (j \div mem) + mem
  BY QuotientFits
<1>2. ASSUME NEW a \in Nat, NEW b \in Nat, mem * a <= i, j < mem * b + mem, b + 1 <= a
      PROVE  FALSE
  <2>1. mem * (b + 1) <= mem * a
    BY <1>2
  <2>2. mem * (b + 1) = mem * b + mem
    OBVIOUS
  <2> QED
    BY <1>2, <2>1, <2>2
<1> QED
  BY <1>1, <1>2

LEMMA SumsNext == SumsRight' /\ RoomRight' /\ FindsRight'
  BY SumsAlways, RoomAlways, Allocates, PTL

LEMMA RoomGrows ==
  ASSUME CacheTypes, CacheTypes', NEW n \in Node, NEW mem \in Nat, mem > 0,
         \A d \in Devs(n) : podMap'[n][d] \in SUBSET podMap[n][d]
  PROVE  Room(n, mem)' >= Room(n, mem) /\ Room(n, mem) \in Nat /\ Room(n, mem)' \in Nat
<1>1. \A d \in Devs(n) :
         /\ GetUsedGpuMemory(n, d) = SumOver(Charge(d), podMap[n][d])
         /\ Idle(n, d) \in Int
  BY SumsAlways DEF SumsRight
<1>2. \A d \in Devs(n) :
         /\ GetUsedGpuMemory(n, d)' = SumOver(Charge(d), podMap'[n][d])
         /\ Idle(n, d)' \in Int
  BY SumsNext DEF SumsRight, Devs, Charge
<1>3. /\ Room(n, mem) = SumOver(Fit(n, mem), Devs(n))
      /\ \A d \in Devs(n) : Fit(n, mem)[d] \in Nat
  BY RoomAlways DEF RoomRight
<1>4. /\ Room(n, mem)' = SumOver(Fit(n, mem)', Devs(n))
      /\ \A d \in Devs(n) : Fit(n, mem)'[d] \in Nat
  BY SumsNext DEF RoomRight, Devs
<1>5. ASSUME NEW d \in Devs(n) PROVE Idle(n, d) <= Idle(n, d)'
  <2>1. /\ IsFiniteSet(podMap[n][d]) /\ podMap'[n][d] \in SUBSET podMap[n][d]
        /\ \A r \in podMap[n][d] : Charge(d)[r] \in Nat
    BY ChargeNat DEF CacheTypes
  <2>2. /\ SumOver(Charge(d), podMap'[n][d]) <= SumOver(Charge(d), podMap[n][d])
        /\ SumOver(Charge(d), podMap[n][d]) \in Nat
        /\ SumOver(Charge(d), podMap'[n][d]) \in Nat
    <3>1. IsFiniteSet(podMap'[n][d]) /\ \A r \in podMap'[n][d] : Charge(d)[r] \in Nat
      BY <2>1, FS_Subset
    <3> QED
      BY <2>1, <3>1, SumMonotone, SumNat
  <2>3. /\ GetUsedGpuMemory(n, d) = SumOver(Charge(d), podMap[n][d])
        /\ GetUsedGpuMemory(n, d)' = SumOver(Charge(d), podMap'[n][d])
    BY <1>1, <1>2 DEF Devs
  <2>4. DevMem(n) \in Nat
    BY DevMemNat
  <2> QED
    BY <2>2, <2>3, <2>4 DEF Idle, DevMem
<1>6. ASSUME NEW d \in Devs(n)
      PROVE  /\ Fit(n, mem)[d] \in Nat /\ Fit(n, mem)'[d] \in Nat
             /\ Fit(n, mem)[d] <= Fit(n, mem)'[d]
  <2>1. Idle(n, d) \in Int /\ Idle(n, d)' \in Int /\ Idle(n, d) <= Idle(n, d)'
    BY <1>1, <1>2, <1>5 DEF Devs
  <2>2. Fit(n, mem)[d] \in Nat /\ Fit(n, mem)'[d] \in Nat
    BY <1>3, <1>4 DEF Devs
  <2>3. /\ Fit(n, mem)[d] = IF Idle(n, d) > 0 THEN Idle(n, d) \div mem ELSE 0
        /\ Fit(n, mem)'[d] = IF Idle(n, d)' > 0 THEN Idle(n, d)' \div mem ELSE 0
    BY DEF Fit, Devs
  <2>4. CASE Idle(n, d) > 0
    <3>1. Idle(n, d)' > 0
      BY <2>1, <2>4
    <3> QED
      BY <2>1, <2>2, <2>3, <2>4, <3>1, QuotientMonotone
  <2>5. CASE ~(Idle(n, d) > 0)
    BY <2>2, <2>3, <2>5
  <2> QED
    BY <2>2, <2>4, <2>5
<1>7. /\ Room(n, mem) = SumOver(Fit(n, mem), Devs(n))
      /\ Room(n, mem)' = SumOver(Fit(n, mem)', Devs(n))
  BY <1>3, <1>4 DEF Devs
<1> QED
  BY <1>6, <1>7, DevsFinite, SumLess, SumNat

LEMMA StillFinds ==
  ASSUME CacheTypes, CacheTypes', NEW p \in Pod, NEW n \in Node,
         \A d \in Devs(n) : podMap'[n][d] \in SUBSET podMap[n][d],
         AllocateGpuId(p, n) # <<>>
  PROVE  AllocateGpuId(p, n)' # <<>>
<1>1. AllocateGpuId(p, n)' # <<>> <=>
         /\ GpuMem[p] > 0 /\ GpuNum[p] > 0 /\ Count[n] # 0
         /\ Preset[p] # <<>> \/ Room(n, GpuMem[p])' >= GpuNum[p]
  BY SumsNext DEF FindsRight
<1>2. /\ GpuMem[p] > 0 /\ GpuNum[p] > 0 /\ Count[n] # 0
      /\ Preset[p] # <<>> \/ Room(n, GpuMem[p]) >= GpuNum[p]
  BY Allocates DEF FindsRight
<1>3. GpuMem[p] \in Nat /\ GpuNum[p] \in Nat
  BY GpuShareAssumptions DEF GpuShareAssumptions
<1>4. /\ Room(n, GpuMem[p])' >= Room(n, GpuMem[p])
      /\ Room(n, GpuMem[p]) \in Nat /\ Room(n, GpuMem[p])' \in Nat
  BY <1>2, <1>3, RoomGrows
<1> QED
  BY <1>1, <1>2, <1>3, <1>4

\* One pod is on the scheduler's loop, and it finds what Filter found.
LoopOne == \A p, q \in Pod : stage[p] \in OnLoop /\ stage[q] \in OnLoop => p = q

FindInv == LoopOne /\ ReserveFinds

LEMMA FindInit == Init => FindInv
  BY DEF Init, FindInv, LoopOne, ReserveFinds, OnLoop

LEMMA FindStep ==
  ASSUME CacheInv, TypeInv, TypeInv', FindInv, [Next]_vars
  PROVE  FindInv'
<1> USE DEF callerVars, cacheVars, pluginVars, Goto
<1>0. /\ CacheTypes /\ CacheTypes' /\ stage \in [Pod -> Stage]
      /\ \A p, q \in Pod : stage[p] \in OnLoop /\ stage[q] \in OnLoop => p = q
      /\ \A p \in Pod : stage[p] = "chosen" /\ GpuMem[p] > 0 =>
            AllocateGpuId(p, target[p]) # <<>>
      /\ \A p \in Pod : stage[p] = "chosen" => target[p] \in Node
  BY DEF TypeInv, FindInv, LoopOne, ReserveFinds, CacheInv, Shape, OnLoop
\* The devices do not change, or are freed, and no pod is chosen.
<1>1. ASSUME \A n \in Node : \A d \in Devs(n) : podMap'[n][d] \in SUBSET podMap[n][d],
             \A q \in Pod : /\ stage'[q] \in OnLoop => stage[q] \in OnLoop
                            /\ stage'[q] = "chosen" =>
                                  stage[q] = "chosen" /\ target'[q] = target[q]
      PROVE  FindInv'
  <2>1. LoopOne'
    BY <1>0, <1>1 DEF LoopOne
  <2>2. ASSUME NEW q \in Pod, stage'[q] = "chosen", GpuMem[q] > 0
        PROVE  AllocateGpuId(q, target[q])' # <<>>
    <3>1. PICK n \in Node : n = target[q]
      BY <1>0, <1>1, <2>2
    <3>2. AllocateGpuId(q, n) # <<>>
      BY <1>0, <1>1, <2>2, <3>1
    <3>3. AllocateGpuId(q, n)' # <<>>
      BY <1>0, <1>1, <3>2, StillFinds
    <3>4. target'[q] = n
      BY <1>1, <2>2, <3>1
    <3> QED
      BY <3>3, <3>4
  <2>3. ReserveFinds'
    BY <2>2 DEF ReserveFinds
  <2> QED
    BY <2>1, <2>3 DEF FindInv
<1>2. CASE UNCHANGED vars
  BY <1>1, <1>2 DEF vars
<1>3. CASE CreatePod
  <2>1. \A q \in Pod : stage'[q] = stage[q] \/ stage'[q] = "queued"
    BY <1>0, <1>3 DEF CreatePod
  <2> QED
    BY <1>1, <1>3, <2>1 DEF CreatePod, OnLoop
<1>4. CASE Receive
  <2>1. \A q \in Pod : stage'[q] = stage[q] \/ stage'[q] = "idle"
    BY <1>0, <1>4 DEF Receive
  <2> QED
    BY <1>1, <1>4, <2>1 DEF Receive, OnLoop
<1>5. ASSUME NEW p \in Pod, NEW n \in Node, Choose(p, n)
      PROVE  FindInv'
  <2>1. /\ stage'[p] = "chosen" /\ target'[p] = n
        /\ \A q \in Pod : q # p => stage'[q] = stage[q]
    BY <1>0, <1>5 DEF Choose, CacheInv, Shape
  <2>2. \A q \in Pod : q # p => stage'[q] \notin OnLoop
    BY <1>5, <2>1 DEF Choose, LoopFree
  <2>3. LoopOne'
    BY <2>2 DEF LoopOne
  <2>4. GpuMem[p] > 0 => AllocateGpuId(p, n) # <<>>
    BY <1>5, GpuShareAssumptions DEF Choose, Filter, GpuShareAssumptions
  <2>5. podMap' = podMap
    BY <1>5 DEF Choose
  <2>6. GpuMem[p] > 0 => AllocateGpuId(p, n)' # <<>>
    BY <1>0, <2>4, <2>5, StillFinds
  <2>7. GpuMem[p] > 0 => AllocateGpuId(p, target[p])' # <<>>
    BY <2>1, <2>6
  <2>8. ReserveFinds'
    BY <2>2, <2>7 DEF ReserveFinds, OnLoop
  <2> QED
    BY <2>3, <2>8 DEF FindInv
<1>6. ASSUME NEW p \in Pod, Reserve(p)
      PROVE  FindInv'
  <2>1. /\ stage[p] = "chosen" /\ stage'[p] = "reserving"
        /\ \A q \in Pod : q # p => stage'[q] = stage[q]
    BY <1>0, <1>6 DEF Reserve
  <2>2. \A q \in Pod : q # p => stage'[q] \notin OnLoop
    BY <1>0, <2>1 DEF OnLoop
  <2> QED
    BY <2>1, <2>2 DEF FindInv, LoopOne, ReserveFinds, OnLoop
<1>7. ASSUME NEW p \in Pod,
             \/ FitsNowhere(p) \/ ReserveNoGpu(p) \/ ReserveUpdate(p)
             \/ LocalBindGet(p) \/ LocalBindUpdate(p)
             \/ Bind(p) \/ BindNoGpu(p) \/ UnreserveNoCopy(p) \/ UnreserveUpdate(p)
             \/ RecordBindError(p) \/ Retry(p)
      PROVE  FindInv'
  <2>1. podMap' = podMap /\ target' = target
    BY <1>7 DEF FitsNowhere, ReserveNoGpu, ReserveUpdate, LocalBindGet, LocalBindUpdate,
          Bind, BindNoGpu, UnreserveNoCopy, UnreserveUpdate, RecordBindError, Retry
  <2>2. \E s \in {"waiting", "reserved", "storageRead", "rejected", "booked",
                  "idle", "undone", "queued"} : stage' = [stage EXCEPT ![p] = s]
    BY <1>7 DEF FitsNowhere, ReserveNoGpu, ReserveUpdate, LocalBindGet, LocalBindUpdate,
          Bind, BindNoGpu, WriteBound, UnreserveNoCopy, UnreserveUpdate,
          RecordBindError, Retry
  <2>3. \A q \in Pod : stage'[q] = stage[q] \/ stage'[q] \notin OnLoop
    BY <1>0, <2>2 DEF OnLoop
  <2> QED
    BY <1>1, <2>1, <2>3 DEF OnLoop
<1>8. ASSUME NEW p \in Pod, Unreserve(p)
      PROVE  FindInv'
  <2>1. \A n \in Node : \A d \in Devs(n) : podMap'[n][d] \in SUBSET podMap[n][d]
    BY <1>8 DEF Unreserve, RemovePod, CacheInv, Shape
  <2>2. \A q \in Pod : stage'[q] = stage[q] \/ stage'[q] = "unreserving"
    BY <1>0, <1>8 DEF Unreserve
  <2> QED
    BY <1>1, <1>8, <2>1, <2>2 DEF Unreserve, OnLoop
<1> QED
  BY <1>2, <1>3, <1>4, <1>5, <1>6, <1>7, <1>8 DEF Next, BindingStep

\* What Filter promised Reserve finds, although other pods' Unreserve may run
\* between the two (Filter and Reserve in open-gpu-share.go).
THEOREM ReserveKeepsFinding == Spec => []ReserveFinds
<1>1. /\ CacheInv /\ TypeInv /\ FindInv /\ [Next]_vars
           => CacheInv' /\ TypeInv' /\ FindInv'
  BY CacheStep, TypeStep, FindStep
<1>2. FindInv => ReserveFinds
  BY DEF FindInv
<1> QED
  BY CacheInit, TypeInit, FindInit, <1>1, <1>2, PTL DEF Spec

-----------------------------------------------------------------------------
(* No device is given out beyond its memory.  The pods that name no        *)
(* devices never hold more than there is: each got no more than was idle   *)
(* when it was counted, and the cache counts whatever others hold.         *)

Chosen(n, d) == {r \in podMap[n][d] : Preset[r.pod] = <<>>}

FitInv ==
    /\ \A p \in Pod : ~Plain(p) => store[p].ids = Preset[p]
    /\ \A n \in Node : \A d \in Devs(n) : SumOver(Charge(d), Chosen(n, d)) <= DevMem(n)

LEMMA FitInit == Init => FitInv
<1> SUFFICES ASSUME Init PROVE FitInv
  OBVIOUS
<1>1. \A p \in Pod : store[p].ids = Preset[p]
  BY DEF Init
<1>2. ASSUME NEW n \in Node, NEW d \in Devs(n)
      PROVE  SumOver(Charge(d), Chosen(n, d)) <= DevMem(n)
  <2>1. Chosen(n, d) = {}
    BY DEF Init, Chosen
  <2> QED
    BY <2>1, SumEmpty, DevMemNat
<1> QED
  BY <1>1, <1>2 DEF FitInv

LEMMA NamedKept ==
  ASSUME CacheInv, TypeInv, FitInv, [Next]_vars
  PROVE  \A p \in Pod : ~Plain(p) => store'[p].ids = Preset[p]
<1> USE DEF callerVars, cacheVars, pluginVars, Goto
<1>0. \A p \in Pod : ~Plain(p) => store[p].ids = Preset[p] /\ stage[p] = "idle"
  BY DEF FitInv, CacheInv, Unplaced
<1>1. store \in [Pod -> StoredPod]
  BY DEF TypeInv, PodTypes
<1>2. CASE store' = store
  BY <1>0, <1>2
<1>3. CASE CreatePod
  <2>1. \E p : store' = [store EXCEPT ![p].node = NodeName[p]]
    BY <1>3 DEF CreatePod
  <2> QED
    BY <1>0, <1>1, <2>1 DEF StoredPod
<1>4. CASE Receive
  <2>1. store' = store \/ store' = [store EXCEPT ![awaited].node = Absent]
    BY <1>4 DEF Receive
  <2> QED
    BY <1>0, <1>1, <2>1 DEF StoredPod
<1>5. ASSUME NEW p \in Pod, FitsNowhere(p) \/ RecordBindError(p)
      PROVE  \A q \in Pod : ~Plain(q) => store'[q].ids = Preset[q]
  <2>1. store' = store \/ \E r : store' = [store EXCEPT ![p].reason = r]
    BY <1>5 DEF FitsNowhere, RecordBindError, PatchCondition
  <2> QED
    BY <1>0, <1>1, <2>1 DEF StoredPod
<1>6. ASSUME NEW p \in Pod, Bind(p) \/ BindNoGpu(p)
      PROVE  \A q \in Pod : ~Plain(q) => store'[q].ids = Preset[q]
  <2>1. store' = store \/ \E n, ids, r : WriteBound(p, n, ids, r)
    BY <1>6 DEF Bind, BindNoGpu
  <2>2. \A q \in Pod : q # p => store'[q] = store[q]
    BY <1>1, <2>1 DEF WriteBound
  <2>3. Plain(p)
    BY <1>0, <1>6 DEF Bind, BindNoGpu, AfterLocalBind
  <2> QED
    BY <1>0, <2>2, <2>3
<1> QED
  BY <1>2, <1>3, <1>4, <1>5, <1>6
     DEF Next, BindingStep, vars, Choose, ReserveNoGpu, Reserve, ReserveUpdate,
         LocalBindGet, LocalBindUpdate, Unreserve, UnreserveNoCopy, UnreserveUpdate, Retry

LEMMA ChosenShrinks ==
  ASSUME CacheTypes, FitInv, NEW n \in Node, NEW d \in Devs(n), NEW S \in SUBSET Chosen(n, d)
  PROVE  SumOver(Charge(d), S) <= DevMem(n)
<1> DEFINE C == Chosen(n, d)
<1>1. /\ IsFiniteSet(C) /\ \A r \in C : Charge(d)[r] \in Nat
  <2>1. C \in SUBSET podMap[n][d]
    BY DEF Chosen
  <2> QED
    BY <2>1, ChargeNat, FS_Subset DEF CacheTypes
<1>2. IsFiniteSet(S) /\ \A r \in S : Charge(d)[r] \in Nat
  BY <1>1, FS_Subset
<1>3. SumOver(Charge(d), S) <= SumOver(Charge(d), C)
  BY <1>1, SumMonotone
<1>4. SumOver(Charge(d), C) <= DevMem(n)
  BY DEF FitInv
<1>5. /\ SumOver(Charge(d), S) \in Nat /\ SumOver(Charge(d), C) \in Nat
      /\ DevMem(n) \in Nat
  BY <1>1, <1>2, SumNat, DevMemNat
<1> QED
  BY <1>3, <1>4, <1>5

LEMMA ReserveFits ==
  ASSUME CacheInv, TypeInv, FitInv, NEW p \in Pod, Reserve(p),
         NEW n \in Node, NEW d \in Devs(n)
  PROVE  SumOver(Charge(d), Chosen(n, d)') <= DevMem(n)
<1> DEFINE ids == AllocateGpuId(p, target[p])
           copy == [node |-> target[p], ids |-> ids]
           e == Entry(p, copy)
           C == Chosen(n, d)
           R == {r \in podMap[n][d] : r.pod # p}
<1>1. /\ target[p] \in Node /\ GpuMem[p] > 0 /\ ids # <<>> /\ AddOrUpdatePod(p, copy)
      /\ CacheTypes /\ ids \in Ids
  <2>1. target[p] \in Node
    BY DEF Reserve, CacheInv, Shape, OnLoop
  <2> QED
    BY <2>1, AllocatedIds DEF Reserve, TypeInv
<1>2. e = [pod |-> p, ids |-> ids] /\ copy.node = target[p] /\ copy.ids = ids
  BY DEF Entry
<1> HIDE DEF copy, e
<1>3. podMap'[n][d] = IF n = target[p] /\ d \in On(copy) THEN R \cup {e} ELSE podMap[n][d]
  BY <1>1, <1>2 DEF AddOrUpdatePod, CacheInv, Shape, e
<1> HIDE DEF ids
<1>4. e \in [pod: Pod, ids: Ids] /\ e.pod = p /\ e.ids = ids
  BY <1>1, <1>2
<1>5. CASE ~(n = target[p] /\ d \in On(copy)) \/ Preset[p] # <<>>
  <2>1. Chosen(n, d)' \in SUBSET C
    BY <1>3, <1>4, <1>5 DEF Chosen
  <2> QED
    BY <1>1, <2>1, ChosenShrinks
<1>6. CASE n = target[p] /\ d \in On(copy) /\ Preset[p] = <<>>
  <2> DEFINE S == {r \in C : r.pod # p}
  <2>1. Chosen(n, d)' = S \cup {e} /\ e \notin S /\ S \in SUBSET podMap[n][d]
    BY <1>3, <1>4, <1>6 DEF Chosen
  <2>2. d \in Range(ids)
    BY <1>2, <1>6 DEF On
  <2>3. GpuMem[p] * Times(d, ids) <= Idle(n, d)
    <3>1. GpuNum[p] > 0
      BY <1>1, GpuShareAssumptions DEF AllocateGpuId, GpuShareAssumptions, ids
    <3> QED
      BY <1>1, <1>6, <2>2, <3>1, AllocationFinds DEF Found, ids
  <2>4. Charge(d)[e] = GpuMem[p] * Times(d, ids)
    BY <1>4 DEF Charge
  <2>5. /\ IsFiniteSet(podMap[n][d])
        /\ \A r \in podMap[n][d] : Charge(d)[r] \in Nat
    BY <1>1, ChargeNat DEF CacheTypes
  <2>6. Charge(d)[e] \in Nat
    BY <1>4, ChargeNat
  <2> HIDE DEF S
  <2>7. IsFiniteSet(S) /\ \A r \in S \cup {e} : Charge(d)[r] \in Nat
    BY <2>1, <2>5, <2>6, FS_Subset
  <2>8. SumOver(Charge(d), S \cup {e}) = Charge(d)[e] + SumOver(Charge(d), S)
    BY <2>1, <2>7, SumInsert
  <2>9. SumOver(Charge(d), S) <= GetUsedGpuMemory(n, d)
    BY <1>1, <2>1, <2>5, SumMonotone, UsedIsSum
  <2>10. SumOver(Charge(d), S) \in Nat /\ GetUsedGpuMemory(n, d) \in Nat /\ DevMem(n) \in Nat
    BY <1>1, <2>7, SumNat, IdleInt, DevMemNat
  <2> QED
    BY <2>1, <2>3, <2>4, <2>6, <2>8, <2>9, <2>10 DEF Idle
<1> QED
  BY <1>5, <1>6

LEMMA FitStep ==
  ASSUME CacheInv, TypeInv, FitInv, [Next]_vars
  PROVE  FitInv'
<1> USE DEF callerVars, cacheVars, pluginVars
<1>1. ASSUME NEW n \in Node, NEW d \in Devs(n)
      PROVE  SumOver(Charge(d), Chosen(n, d)') <= DevMem(n)
  <2>1. CASE \E p \in Pod : Reserve(p)
    BY <2>1, ReserveFits
  <2>2. CASE podMap'[n][d] \in SUBSET podMap[n][d]
    <3>1. Chosen(n, d)' \in SUBSET Chosen(n, d)
      BY <2>2 DEF Chosen
    <3> QED
      BY <3>1, ChosenShrinks DEF TypeInv
  <2>3. ASSUME NEW p \in Pod, Unreserve(p) PROVE podMap'[n][d] \in SUBSET podMap[n][d]
    BY <2>3 DEF Unreserve, RemovePod, CacheInv, Shape
  <2>4. podMap' = podMap \/ \E p \in Pod : Reserve(p) \/ Unreserve(p)
    BY DEF Next, BindingStep, vars, CreatePod, Receive, Choose, FitsNowhere, ReserveNoGpu,
         ReserveUpdate, LocalBindGet, LocalBindUpdate, Bind, BindNoGpu,
         UnreserveNoCopy, UnreserveUpdate, RecordBindError, Retry
  <2> QED
    BY <2>1, <2>2, <2>3, <2>4
<1>2. \A p \in Pod : ~Plain(p) => store'[p].ids = Preset[p]
  BY NamedKept
<1> QED
  BY <1>1, <1>2 DEF FitInv, Plain, Charge, Devs, DevMem

Share(d) == [p \in Pod |-> GpuMem[p] * Times(d, Holding(p).ids)]

LEMMA LoadIsSum ==
  ASSUME NEW n \in Node, NEW d \in Devs(n)
  PROVE  Load(n, d) = SumOver(Share(d), Holders(n, d))
<1> DEFINE S == Holders(n, d)
           A(h) == h = [s \in SUBSET S |->
                          IF s = {} THEN 0
                          ELSE GpuMem[Pick(s)] * Times(d, Holding(Pick(s)).ids)
                               + h[s \ {Pick(s)}]]
<1>1. Load(n, d) = (CHOOSE h : A(h))[S]
  BY DEF Load, MapThenSumSet, MapThenFoldSet, Pick
<1>2. \A s \in SUBSET S : s # {} =>
         Share(d)[Pick(s)] = GpuMem[Pick(s)] * Times(d, Holding(Pick(s)).ids)
  BY PickIn DEF Holders, Share
<1>3. ASSUME NEW h PROVE A(h) <=> Adds(h, Share(d), S)
  BY <1>2 DEF Adds
<1>4. IsFiniteSet(S)
  BY FS_Subset, GpuShareAssumptions DEF Holders, GpuShareAssumptions
<1> HIDE DEF A, S
<1>5. \E h : A(h)
  BY <1>3, <1>4, AddsExists
<1>6. A(CHOOSE h : A(h))
  BY <1>5
<1>7. Adds(CHOOSE h : A(h), Share(d), S)
  BY <1>3, <1>6
<1>8. (CHOOSE h : A(h))[S] = SumOver(Share(d), S)
  BY <1>4, <1>7, AddsSum
<1> QED
  BY <1>1, <1>8 DEF S

LEMMA HoldingIds ==
  ASSUME TypeInv, NEW p \in Pod
  PROVE  Holding(p).ids \in Ids
<1>1. copies[p] \in Copy /\ store[p] \in StoredPod
  BY DEF TypeInv, PodTypes
<1>2. CASE Reserved(p)
  BY <1>1, <1>2, HoldingIs DEF Copy
<1>3. CASE ~Reserved(p) /\ GpuMem[p] > 0 /\ store[p].node \in Node
  BY <1>1, <1>3, HoldingIs DEF StoredPod
<1>4. CASE ~Reserved(p) /\ ~(GpuMem[p] > 0 /\ store[p].node \in Node)
  <2>1. Holding(p) = NoCopy
    BY <1>4, HoldingIs
  <2>2. NoCopy.ids = <<>> /\ <<>> \in Ids
    BY DEF NoCopy, Ids
  <2> QED
    BY <2>1, <2>2
<1> QED
  BY <1>2, <1>3, <1>4

\* A pod that names its node holds the devices that it names.
LEMMA NamedHold ==
  ASSUME CacheInv, FitInv, NEW p \in Pod, ~Plain(p), NEW d, d \in Range(Holding(p).ids)
  PROVE  Preset[p] # <<>>
<1>1. stage[p] = "idle" /\ store[p].ids = Preset[p]
  BY DEF FitInv, CacheInv, Unplaced
<1>2. ~Reserved(p)
  BY <1>1 DEF Reserved, InBinding
<1>3. Holding(p).ids # <<>>
  BY DEF Range
<1>4. Holding(p).ids = store[p].ids
  <2>1. CASE GpuMem[p] > 0 /\ store[p].node \in Node
    BY <1>2, <2>1, HoldingIs
  <2>2. CASE ~(GpuMem[p] > 0 /\ store[p].node \in Node)
    BY <1>2, <1>3, <2>2, HoldingIs DEF NoCopy
  <2> QED
    BY <2>1, <2>2
<1> QED
  BY <1>1, <1>3, <1>4

LEMMA DevicesFit == CacheInv /\ TypeInv /\ FitInv => DeviceFits
<1> SUFFICES ASSUME CacheInv, TypeInv, FitInv, NEW n \in Node, NEW d \in Devs(n),
                    \A p \in Holders(n, d) : Preset[p] = <<>>
             PROVE  Load(n, d) <= DevMem(n)
  BY DEF DeviceFits
<1> DEFINE S == Holders(n, d)
           h == [p \in Pod |-> Entry(p, Holding(p))]
           I == {h[p] : p \in S}
<1>1. \A p \in S : p \in Pod /\ Plain(p) /\ HoldsDevice(p, n, d) /\ Preset[p] = <<>>
  BY NamedHold DEF Holders, HoldsDevice
<1>2. IsFiniteSet(S)
  BY FS_Subset, GpuShareAssumptions DEF Holders, GpuShareAssumptions
<1>3. \A p \in S : /\ h[p] = [pod |-> p, ids |-> Holding(p).ids]
                   /\ h[p] \in podMap[n][d]
  BY <1>1 DEF Entry, CacheInv, Counted
<1>4. \A p \in S : h[p].pod = p /\ h[p].ids = Holding(p).ids
  <2> HIDE DEF h, S
  <2> SUFFICES ASSUME NEW p \in S PROVE h[p].pod = p /\ h[p].ids = Holding(p).ids
    OBVIOUS
  <2>1. h[p] = [pod |-> p, ids |-> Holding(p).ids]
    BY <1>3
  <2> QED
    BY <2>1
<1>5. \A p \in S : h[p] \in [pod: Pod, ids: Ids]
  BY <1>3 DEF TypeInv, CacheTypes
<1> HIDE DEF h
<1>6. \A p \in S : Share(d)[p] \in Nat /\ Charge(d)[h[p]] = Share(d)[p]
  <2> SUFFICES ASSUME NEW p \in S
               PROVE  Share(d)[p] \in Nat /\ Charge(d)[h[p]] = Share(d)[p]
    OBVIOUS
  <2>1. Charge(d)[h[p]] = GpuMem[p] * Times(d, Holding(p).ids)
    BY <1>4, <1>5 DEF Charge
  <2>2. Charge(d)[h[p]] \in Nat
    BY <1>5, ChargeNat
  <2>3. Share(d)[p] = GpuMem[p] * Times(d, Holding(p).ids)
    BY <1>1 DEF Share
  <2> QED
    BY <2>1, <2>2, <2>3
<1>7. \A p, q \in S : h[p] = h[q] => p = q
  BY <1>4
<1>8. I \in SUBSET Chosen(n, d)
  <2> SUFFICES ASSUME NEW p \in S PROVE h[p] \in Chosen(n, d)
    OBVIOUS
  <2>1. h[p] \in podMap[n][d] /\ h[p].pod = p /\ Preset[p] = <<>>
    BY <1>1, <1>3, <1>4
  <2> QED
    BY <2>1 DEF Chosen
<1>9. Load(n, d) = SumOver(Share(d), S)
  BY LoadIsSum
<1> HIDE DEF S
<1>10. SumOver(Share(d), S) = SumOver(Charge(d), I)
  BY <1>2, <1>6, <1>7, SumRenamed
<1> HIDE DEF I
<1>11. SumOver(Charge(d), I) <= DevMem(n)
  BY <1>8, ChosenShrinks DEF TypeInv
<1> QED
  BY <1>9, <1>10, <1>11

\* No device is given out beyond its memory unless one of its pods came with its
\* devices named, with bindings that fail and pods that come back: AllocateGpuId
\* looks at the cache only, and the cache counts what pods hold
\* (gpunodeinfo.go, Reserve and Unreserve in open-gpu-share.go).
THEOREM DevicesHoldTheirLoad == Spec => []DeviceFits
<1>1. /\ CacheInv /\ TypeInv /\ FitInv /\ [Next]_vars
           => CacheInv' /\ TypeInv' /\ FitInv'
  BY CacheStep, TypeStep, FitStep
<1> QED
  BY CacheInit, TypeInit, FitInit, <1>1, DevicesFit, PTL DEF Spec

-----------------------------------------------------------------------------
(* Neither plugin loses what the other wrote into a node object, as long   *)
(* as no pod comes back: then one pod at a time is between a read and the  *)
(* write that follows.                                                     *)

CopyInv ==
    /\ \A p \in Pod : copies[p] # NoCopy => GpuMem[p] > 0
    /\ \A p \in Pod : Reserved(p) => copies[p].node = target[p]

\* No reservation on n waits for its write.
Settled(n) == \A p \in Pod : stage[p] \in {"reserving", "unreserving"} => target[p] # n

NodeInv ==
    retries = 0 =>
        /\ \A n \in Node : Settled(n) => nodeObj[n].gpu = Export(n)
        /\ \A p \in Pod : stage[p] \in Reading => read[p] = nodeObj[target[p]]
        /\ \A p \in Pod : stage[p] = "booked" => p \in nodeObj[target[p]].local
        /\ \A p \in Storage : Plain(p) /\ store[p].node \in Node =>
              p \in nodeObj[store[p].node].local

LEMMA CopyInit == Init => CopyInv
  BY DEF Init, CopyInv, Reserved, InBinding

LEMMA CopyStep ==
  ASSUME CacheInv, TypeInv, CopyInv, [Next]_vars
  PROVE  CopyInv'
<1> USE DEF callerVars, cacheVars, pluginVars, Goto
<1>0. /\ \A p \in Pod : copies[p] # NoCopy => GpuMem[p] > 0
      /\ \A p \in Pod : Reserved(p) => copies[p].node = target[p]
      /\ copies \in [Pod -> Copy] /\ stage \in [Pod -> Stage]
      /\ NoCopy' = NoCopy
  BY DEF CopyInv, TypeInv, PodTypes, CacheInv, Shape, NoCopy
<1>1. ASSUME copies' = copies,
             \A q \in Pod : Reserved(q)' => Reserved(q) /\ target'[q] = target[q]
      PROVE  CopyInv'
  BY <1>0, <1>1 DEF CopyInv
<1>2. CASE UNCHANGED vars
  BY <1>1, <1>2 DEF vars, Reserved
<1>3. CASE CreatePod
  <2>1. \A q \in Pod : stage'[q] = stage[q] \/ stage'[q] = "queued"
    BY <1>0, <1>3 DEF CreatePod
  <2> QED
    BY <1>1, <1>3, <2>1 DEF CreatePod, Reserved, InBinding
<1>4. CASE Receive
  <2>1. \A q \in Pod : stage'[q] = stage[q] \/ stage'[q] = "idle"
    BY <1>0, <1>4 DEF Receive
  <2> QED
    BY <1>1, <1>4, <2>1 DEF Receive, Reserved, InBinding
<1>5. ASSUME NEW p \in Pod, NEW n \in Node, Choose(p, n)
      PROVE  CopyInv'
  <2>1. /\ stage'[p] = "chosen"
        /\ \A q \in Pod : q # p => stage'[q] = stage[q] /\ target'[q] = target[q]
    BY <1>0, <1>5 DEF Choose, CacheInv, Shape
  <2> QED
    BY <1>1, <1>5, <2>1 DEF Choose, Reserved, InBinding
<1>6. ASSUME NEW p \in Pod, Reserve(p)
      PROVE  CopyInv'
  <2> DEFINE copy == [node |-> target[p], ids |-> AllocateGpuId(p, target[p])]
  <2>1. copies' = [copies EXCEPT ![p] = copy] /\ copy.node = target[p] /\ target' = target
    BY <1>6 DEF Reserve
  <2>2. /\ GpuMem[p] > 0 /\ stage'[p] = "reserving"
        /\ \A q \in Pod : q # p => stage'[q] = stage[q]
    BY <1>0, <1>6 DEF Reserve
  <2> HIDE DEF copy
  <2>3. \A q \in Pod : q # p => (Reserved(q)' <=> Reserved(q))
    BY <2>2 DEF Reserved
  <2> QED
    BY <1>0, <2>1, <2>2, <2>3 DEF CopyInv
<1>7. ASSUME NEW p \in Pod,
             \/ FitsNowhere(p) \/ ReserveUpdate(p)
             \/ LocalBindGet(p) \/ LocalBindUpdate(p)
             \/ UnreserveNoCopy(p) \/ Unreserve(p) \/ UnreserveUpdate(p)
             \/ RecordBindError(p) \/ Retry(p)
      PROVE  CopyInv'
  <2>1. copies' = copies /\ target' = target
    BY <1>7 DEF FitsNowhere, ReserveUpdate, LocalBindGet, LocalBindUpdate,
          UnreserveNoCopy, Unreserve, UnreserveUpdate, RecordBindError, Retry
  <2>2. \/ \E s \in {"waiting", "queued", "undone", "unreserving"} :
              stage' = [stage EXCEPT ![p] = s]
        \/ /\ stage[p] \in {"reserving"} \cup InBinding
           /\ \E s : stage' = [stage EXCEPT ![p] = s]
    BY <1>7 DEF FitsNowhere, ReserveUpdate, LocalBindGet, LocalBindUpdate,
          UnreserveNoCopy, Unreserve, UnreserveUpdate, RecordBindError, Retry, InBinding
  <2>3. \A q \in Pod : Reserved(q)' => Reserved(q)
    BY <1>0, <2>2 DEF Reserved, InBinding
  <2> QED
    BY <1>1, <2>1, <2>3
<1>8. ASSUME NEW p \in Pod, ReserveNoGpu(p)
      PROVE  CopyInv'
  <2>1. \A q \in Pod : Reserved(q)' => Reserved(q)
    BY <1>0, <1>8 DEF ReserveNoGpu, Reserved
  <2> QED
    BY <1>1, <1>8, <2>1 DEF ReserveNoGpu
<1>9. ASSUME NEW p \in Pod, Bind(p) \/ BindNoGpu(p)
      PROVE  CopyInv'
  <2>1. /\ stage[p] \in InBinding /\ target' = target
        /\ \/ stage' = [stage EXCEPT ![p] = "rejected"] /\ copies' = copies
           \/ /\ stage' = [stage EXCEPT ![p] = "idle"]
              /\ copies' = copies \/ copies' = [copies EXCEPT ![p] = NoCopy]
    BY <1>9 DEF Bind, BindNoGpu, AfterLocalBind, WriteBound, InBinding
  <2>2. CASE copies' = copies
    <3>1. \A q \in Pod : Reserved(q)' => Reserved(q)
      BY <1>0, <2>1 DEF Reserved, InBinding
    <3> QED
      BY <1>1, <2>1, <2>2, <3>1
  <2>3. CASE stage' = [stage EXCEPT ![p] = "idle"] /\ copies' = [copies EXCEPT ![p] = NoCopy]
    <3>1. ~Reserved(p)' /\ copies'[p] = NoCopy
      BY <1>0, <2>3 DEF Reserved, InBinding
    <3>2. \A q \in Pod : q # p => (Reserved(q)' <=> Reserved(q)) /\ copies'[q] = copies[q]
      BY <1>0, <2>3 DEF Reserved
    <3> QED
      BY <1>0, <2>1, <3>1, <3>2 DEF CopyInv
  <2> QED
    BY <2>1, <2>2, <2>3
<1> QED
  BY <1>2, <1>3, <1>4, <1>5, <1>6, <1>7, <1>8, <1>9 DEF Next, BindingStep

LEMMA NodeInit == Init => NodeInv
<1> SUFFICES ASSUME Init PROVE NodeInv
  OBVIOUS
<1>1. CacheTypes
  BY TypeInit DEF TypeInv
<1>2. ASSUME NEW n \in Node PROVE nodeObj[n].gpu = Export(n)
  <2>1. ASSUME NEW d \in Devs(n) PROVE GetUsedGpuMemory(n, d) = 0
    <3>1. podMap[n][d] = {}
      BY DEF Init
    <3> QED
      BY <1>1, <3>1, UsedIsSum, SumEmpty
  <2>2. nodeObj[n].gpu = [d \in Devs(n) |-> 0]
    BY DEF Init
  <2> QED
    BY <2>1, <2>2 DEF Export
<1>3. \A p \in Pod : stage[p] = "idle" /\ store[p].node \notin Node
  BY GpuShareAssumptions DEF Init, GpuShareAssumptions
<1> QED
  BY <1>2, <1>3, GpuShareAssumptions DEF NodeInv, Reading, GpuShareAssumptions

LEMMA ExportKept ==
  ASSUME CacheTypes, CacheTypes', NEW n \in Node, podMap'[n] = podMap[n]
  PROVE  Export(n)' = Export(n)
<1>1. ASSUME NEW d \in Devs(n) PROVE GetUsedGpuMemory(n, d)' = GetUsedGpuMemory(n, d)
  <2>1. GetUsedGpuMemory(n, d) = SumOver(Charge(d), podMap[n][d])
    BY UsedIsSum
  <2>2. GetUsedGpuMemory(n, d)' = SumOver(Charge(d), podMap'[n][d])
    BY SumsNext DEF SumsRight, Devs, Charge
  <2> QED
    BY <2>1, <2>2
<1> QED
  BY <1>1 DEF Export, Devs

LEMMA BusyAlone ==
  ASSUME CacheInv, retries = 0, NEW p \in Pod, Busy(p), NEW q \in Pod, q # p
  PROVE  ~Busy(q) /\ stage[q] \in {"idle", "waiting"}
  BY DEF CacheInv, Flow, Busy

\* Steps that touch neither objects nor the cache, and begin nothing.
LEMMA NodeFrame ==
  ASSUME TypeInv, TypeInv', NodeInv, retries' = 0 => retries = 0,
         UNCHANGED <<nodeObj, podMap>>,
         \A q \in Pod :
            /\ stage'[q] \in Reading => stage[q] \in Reading /\ read'[q] = read[q]
            /\ stage'[q] = "booked" => stage[q] = "booked"
            /\ stage'[q] \in Reading \cup {"booked"} => target'[q] = target[q]
            /\ stage[q] \in {"reserving", "unreserving"} =>
                  stage'[q] = stage[q] /\ target'[q] = target[q]
            /\ Plain(q) /\ store'[q].node \in Node => store[q].node = store'[q].node
  PROVE  NodeInv'
<1> SUFFICES ASSUME retries' = 0, retries = 0
             PROVE  /\ \A n \in Node : Settled(n)' => nodeObj[n].gpu = Export(n)'
                    /\ \A p \in Pod : stage'[p] \in Reading => read'[p] = nodeObj[target'[p]]
                    /\ \A p \in Pod : stage'[p] = "booked" => p \in nodeObj[target'[p]].local
                    /\ \A p \in Storage : Plain(p) /\ store'[p].node \in Node =>
                          p \in nodeObj[store'[p].node].local
  BY DEF NodeInv, Plain
<1>1. ASSUME NEW n \in Node, Settled(n)' PROVE nodeObj[n].gpu = Export(n)'
  <2>1. Settled(n)
    BY <1>1 DEF Settled
  <2>2. Export(n)' = Export(n)
    BY ExportKept DEF TypeInv
  <2> QED
    BY <2>1, <2>2 DEF NodeInv
<1>2. \A p \in Pod : stage'[p] \in Reading => read'[p] = nodeObj[target'[p]]
  BY DEF NodeInv
<1>3. \A p \in Pod : stage'[p] = "booked" => p \in nodeObj[target'[p]].local
  BY DEF NodeInv
<1>4. \A p \in Storage : Plain(p) /\ store'[p].node \in Node =>
         p \in nodeObj[store'[p].node].local
  BY GpuShareAssumptions DEF NodeInv, GpuShareAssumptions
<1> QED
  BY <1>1, <1>2, <1>3, <1>4

\* A pod whose goroutine reads a node, and changes the cache on that node only.
LEMMA ReadFirst ==
  ASSUME CacheInv, TypeInv, TypeInv', NodeInv, retries' = retries, NEW p \in Pod, Busy(p),
         stage'[p] \in Reading, \A q \in Pod : q # p => stage'[q] = stage[q],
         UNCHANGED <<nodeObj, store, target>>, read'[p] = nodeObj[target[p]],
         \/ podMap' = podMap /\ stage[p] \notin {"reserving", "unreserving"}
         \/ /\ \A n \in Node : n # target[p] => podMap'[n] = podMap[n]
            /\ stage'[p] \in {"reserving", "unreserving"}
  PROVE  NodeInv'
<1> SUFFICES ASSUME retries' = 0, retries = 0
             PROVE  /\ \A n \in Node : Settled(n)' => nodeObj[n].gpu = Export(n)'
                    /\ \A q \in Pod : stage'[q] \in Reading => read'[q] = nodeObj[target[q]]
                    /\ \A q \in Pod : stage'[q] = "booked" => q \in nodeObj[target[q]].local
                    /\ \A q \in Storage : Plain(q) /\ store[q].node \in Node =>
                          q \in nodeObj[store[q].node].local
  BY DEF NodeInv, Plain
<1>1. \A q \in Pod : q # p => stage'[q] \in {"idle", "waiting"} /\ stage[q] \in {"idle", "waiting"}
  BY BusyAlone
<1>2. ASSUME NEW n \in Node, Settled(n)' PROVE nodeObj[n].gpu = Export(n)'
  <2>1. podMap'[n] = podMap[n]
    BY <1>2 DEF Settled
  <2>2. Export(n)' = Export(n)
    BY <2>1, ExportKept DEF TypeInv
  <2>3. Settled(n) \/ (stage[p] \in {"reserving", "unreserving"} /\ target[p] = n)
    BY <1>1 DEF Settled
  <2>4. CASE Settled(n)
    BY <2>2, <2>4 DEF NodeInv
  <2>5. CASE stage[p] \in {"reserving", "unreserving"} /\ target[p] = n
    BY <1>2, <2>5 DEF Settled
  <2> QED
    BY <2>3, <2>4, <2>5
<1>3. \A q \in Pod : stage'[q] \in Reading => read'[q] = nodeObj[target[q]]
  BY <1>1 DEF Reading
<1>4. \A q \in Pod : stage'[q] # "booked"
  BY <1>1 DEF Reading
<1> QED
  BY <1>2, <1>3, <1>4 DEF NodeInv

\* The write that ends a reservation or gives one up.
LEMMA UpdateStep ==
  ASSUME CacheInv, TypeInv, TypeInv', NodeInv, NEW p \in Pod,
         ReserveUpdate(p) \/ UnreserveUpdate(p)
  PROVE  NodeInv'
<1> USE DEF callerVars, cacheVars, pluginVars, Goto
<1>1. /\ stage[p] \in {"reserving", "unreserving"} /\ stage'[p] \in {"reserved", "undone"}
      /\ \A q \in Pod : q # p => stage'[q] = stage[q]
      /\ UNCHANGED <<store, target, retries, podMap>>
      /\ UpdateNode(p)
  BY DEF ReserveUpdate, UnreserveUpdate, CacheInv, Shape
<1> SUFFICES ASSUME retries' = 0, retries = 0
             PROVE  /\ \A n \in Node : Settled(n)' => nodeObj'[n].gpu = Export(n)'
                    /\ \A q \in Pod : stage'[q] \in Reading => read'[q] = nodeObj'[target[q]]
                    /\ \A q \in Pod : stage'[q] = "booked" => q \in nodeObj'[target[q]].local
                    /\ \A q \in Storage : Plain(q) /\ store[q].node \in Node =>
                          q \in nodeObj'[store[q].node].local
  BY <1>1 DEF NodeInv, Plain
<1>2. \A q \in Pod : q # p => stage'[q] \in {"idle", "waiting"} /\ stage[q] \in {"idle", "waiting"}
  BY <1>1, BusyAlone DEF Busy
<1>3. PICK m \in Node : m = target[p]
  BY <1>1 DEF TypeInv, ReadTypes, Reading
<1>4. /\ nodeObj = [n \in Node |-> nodeObj[n]] /\ read[p] = nodeObj[m]
      /\ nodeObj[m] \in NodeObject(m)
  BY <1>1, <1>3 DEF TypeInv, ReadTypes, Reading, NodeInv
<1>5. nodeObj' = [nodeObj EXCEPT ![m] = [nodeObj[m] EXCEPT !.gpu = Export(m)]]
  BY <1>1, <1>3, <1>4 DEF UpdateNode
<1>6. /\ \A n \in Node : n # m => nodeObj'[n] = nodeObj[n]
      /\ nodeObj'[m].gpu = Export(m) /\ nodeObj'[m].local = nodeObj[m].local
  BY <1>4, <1>5 DEF NodeObject
<1>7. ASSUME NEW n \in Node, Settled(n)' PROVE nodeObj'[n].gpu = Export(n)'
  <2>1. Export(n)' = Export(n)
    BY <1>1, ExportKept DEF TypeInv
  <2>2. CASE n = m
    BY <1>6, <2>1, <2>2
  <2>3. CASE n # m
    <3>1. Settled(n)
      BY <1>2, <1>3, <2>3 DEF Settled
    <3> QED
      BY <1>6, <2>1, <2>3, <3>1 DEF NodeInv
  <2> QED
    BY <2>2, <2>3
<1>8. \A q \in Pod : stage'[q] \notin Reading /\ stage'[q] # "booked"
  BY <1>1, <1>2 DEF Reading
<1>9. \A n \in Node : nodeObj'[n].local = nodeObj[n].local
  BY <1>6
<1> QED
  BY <1>7, <1>8, <1>9 DEF NodeInv

LEMMA LocalUpdateStep ==
  ASSUME CacheInv, TypeInv, TypeInv', NodeInv, NEW p \in Pod, LocalBindUpdate(p)
  PROVE  NodeInv'
<1> USE DEF callerVars, cacheVars, pluginVars, Goto
<1>1. /\ stage[p] = "storageRead" /\ stage'[p] = "booked"
      /\ \A q \in Pod : q # p => stage'[q] = stage[q]
      /\ UNCHANGED <<store, target, retries, podMap>>
  BY DEF LocalBindUpdate, CacheInv, Shape
<1> SUFFICES ASSUME retries' = 0, retries = 0
             PROVE  /\ \A n \in Node : Settled(n)' => nodeObj'[n].gpu = Export(n)'
                    /\ \A q \in Pod : stage'[q] \in Reading => read'[q] = nodeObj'[target[q]]
                    /\ \A q \in Pod : stage'[q] = "booked" => q \in nodeObj'[target[q]].local
                    /\ \A q \in Storage : Plain(q) /\ store[q].node \in Node =>
                          q \in nodeObj'[store[q].node].local
  BY <1>1 DEF NodeInv, Plain
<1>2. \A q \in Pod : q # p => stage'[q] \in {"idle", "waiting"} /\ stage[q] \in {"idle", "waiting"}
  BY <1>1, BusyAlone DEF Busy
<1>3. PICK m \in Node : m = target[p]
  BY <1>1 DEF TypeInv, ReadTypes, Reading
<1>4. /\ nodeObj = [n \in Node |-> nodeObj[n]] /\ read[p] = nodeObj[m]
      /\ nodeObj[m] \in NodeObject(m)
  BY <1>1, <1>3 DEF TypeInv, ReadTypes, Reading, NodeInv
<1>5. nodeObj' = [nodeObj EXCEPT ![m] = [nodeObj[m] EXCEPT !.local = @ \cup {p}]]
  BY <1>3, <1>4 DEF LocalBindUpdate
<1>6. /\ \A n \in Node : n # m => nodeObj'[n] = nodeObj[n]
      /\ nodeObj'[m].gpu = nodeObj[m].gpu
      /\ nodeObj'[m].local = nodeObj[m].local \cup {p}
  BY <1>4, <1>5 DEF NodeObject
<1>7. ASSUME NEW n \in Node PROVE nodeObj'[n].gpu = Export(n)'
  <2>1. Export(n)' = Export(n)
    BY <1>1, ExportKept DEF TypeInv
  <2>2. Settled(n)
    BY <1>1, <1>2 DEF Settled
  <2> QED
    BY <1>6, <2>1, <2>2 DEF NodeInv
<1>8. \A q \in Pod : stage'[q] \notin Reading /\ (stage'[q] = "booked" => q = p)
  BY <1>1, <1>2 DEF Reading
<1>9. \A n \in Node : nodeObj[n].local \subseteq nodeObj'[n].local
  BY <1>6
<1> QED
  BY <1>3, <1>6, <1>7, <1>8, <1>9 DEF NodeInv

LEMMA NodeBound ==
  ASSUME CacheInv, TypeInv, TypeInv', CopyInv, NodeInv, NEW p \in Pod,
         Bind(p) \/ BindNoGpu(p), ~Goto(p, "rejected")
  PROVE  NodeInv'
<1> USE DEF callerVars, cacheVars, pluginVars, Goto
<1>1. /\ AfterLocalBind(p) /\ stage[p] \in InBinding
      /\ UNCHANGED <<nodeObj, podMap, retries, read, target>>
  BY DEF Bind, BindNoGpu, AfterLocalBind, InBinding
<1>2. \E n, ids, r : WriteBound(p, n, ids, r) /\ n = target[p]
  <2>1. CASE Bind(p)
    <3>1. Reserved(p)
      BY <2>1 DEF Bind, AfterLocalBind, Reserved, InBinding
    <3> QED
      BY <2>1, <3>1 DEF Bind, CopyInv
  <2>2. CASE BindNoGpu(p)
    BY <2>2 DEF BindNoGpu
  <2> QED
    BY <2>1, <2>2
<1>3. /\ stage'[p] = "idle" /\ \A q \in Pod : q # p => stage'[q] = stage[q]
  BY <1>2 DEF WriteBound, CacheInv, Shape
<1>4. store'[p].node = target[p] /\ \A q \in Pod : q # p => store'[q] = store[q]
  <2>1. store \in [Pod -> StoredPod]
    BY DEF TypeInv, PodTypes
  <2> QED
    BY <1>2, <2>1 DEF WriteBound, StoredPod
<1> SUFFICES ASSUME retries' = 0, retries = 0
             PROVE  /\ \A n \in Node : Settled(n)' => nodeObj[n].gpu = Export(n)'
                    /\ \A q \in Pod : stage'[q] \in Reading => read[q] = nodeObj[target[q]]
                    /\ \A q \in Pod : stage'[q] = "booked" => q \in nodeObj[target[q]].local
                    /\ \A q \in Storage : Plain(q) /\ store'[q].node \in Node =>
                          q \in nodeObj[store'[q].node].local
  BY <1>1 DEF NodeInv, Plain
<1>5. ASSUME NEW n \in Node PROVE nodeObj[n].gpu = Export(n)' \/ ~Settled(n)'
  <2>1. Export(n)' = Export(n)
    BY <1>1, ExportKept DEF TypeInv
  <2>2. Settled(n)' => Settled(n)
    BY <1>1, <1>3 DEF Settled, InBinding
  <2> QED
    BY <2>1, <2>2 DEF NodeInv
<1>6. /\ \A q \in Pod : stage'[q] \in Reading => read[q] = nodeObj[target[q]]
      /\ \A q \in Pod : stage'[q] = "booked" => q \in nodeObj[target[q]].local
  BY <1>3 DEF NodeInv, Reading
<1>7. ASSUME NEW q \in Storage, Plain(q), store'[q].node \in Node
      PROVE  q \in nodeObj[store'[q].node].local
  <2>1. CASE q = p
    <3>1. stage[p] = "booked"
      BY <1>1, <2>1 DEF AfterLocalBind
    <3> QED
      BY <1>4, <2>1, <3>1 DEF NodeInv
  <2>2. CASE q # p
    BY <1>4, <1>7, <2>2, GpuShareAssumptions DEF NodeInv, GpuShareAssumptions
  <2> QED
    BY <2>1, <2>2
<1> QED
  BY <1>5, <1>6, <1>7

\* Of the store: whatever node a pod without one is on, it was there before.
NotBound ==
  \A q \in Pod : Plain(q) /\ store'[q].node \in Node => store[q].node = store'[q].node

LEMMA NodeStep ==
  ASSUME CacheInv, TypeInv, TypeInv', CopyInv, NodeInv, [Next]_vars
  PROVE  NodeInv'
<1> USE DEF callerVars, cacheVars, pluginVars, Goto
<1>0. /\ stage \in [Pod -> Stage] /\ store \in [Pod -> StoredPod]
      /\ retries \in Nat
      /\ read = [p \in Pod |-> read[p]] /\ target = [p \in Pod |-> target[p]]
  BY DEF TypeInv, PodTypes, ReadTypes, CacheInv, Shape
<1>1. CASE UNCHANGED vars
  BY <1>1, NodeFrame DEF vars
<1>2. CASE CreatePod
  <2>0. pos + 1 \in 1..Len(Workload) /\ Workload[pos + 1] \in Pod
    BY <1>2, GpuShareAssumptions DEF CreatePod, CacheInv, Shape, GpuShareAssumptions
  <2> PICK p \in Pod : p = Workload[pos + 1]
    BY <2>0
  <2>1. \A q \in Pod : stage'[q] = stage[q] \/ (stage'[q] = "queued" /\ stage[q] = "idle")
    <3>1. ~Created(p)
      BY <2>0, NextIsNew DEF CacheInv
    <3>2. stage[p] = "idle"
      BY <3>1 DEF CacheInv, Unplaced
    <3> QED
      BY <1>0, <1>2, <3>2 DEF CreatePod
  <2>2. store' = [store EXCEPT ![p].node = NodeName[p]]
    BY <1>2 DEF CreatePod
  <2>3. NotBound
    BY <1>0, <2>2, GpuShareAssumptions DEF NotBound, StoredPod, Plain, GpuShareAssumptions
  <2> QED
    BY <1>2, <2>1, <2>3, NodeFrame DEF CreatePod, Reading, NotBound
<1>3. CASE Receive
  <2>1. PICK p \in Pod : p = awaited
    BY <1>3 DEF Receive, CacheInv, Shape
  <2>2. \A q \in Pod : stage'[q] = stage[q]
                       \/ (stage'[q] = "idle" /\ stage[q] \in {"queued", "waiting"})
    BY <1>0, <1>3, <2>1 DEF Receive
  <2>3. store' = store \/ store' = [store EXCEPT ![p].node = Absent]
    BY <1>3, <2>1 DEF Receive
  <2>4. NotBound
    BY <1>0, <2>3, GpuShareAssumptions DEF NotBound, StoredPod, GpuShareAssumptions
  <2> QED
    BY <1>3, <2>2, <2>4, NodeFrame DEF Receive, Reading, NotBound
<1>4. ASSUME NEW p \in Pod, NEW n \in Node, Choose(p, n)
      PROVE  NodeInv'
  <2>1. /\ stage'[p] = "chosen" /\ stage[p] = "queued"
        /\ \A q \in Pod : q # p => stage'[q] = stage[q] /\ target'[q] = target[q]
    BY <1>0, <1>4 DEF Choose
  <2> QED
    BY <1>4, <2>1, NodeFrame DEF Choose, Reading
<1>5. ASSUME NEW p \in Pod,
             \/ FitsNowhere(p) \/ ReserveNoGpu(p) \/ UnreserveNoCopy(p)
             \/ RecordBindError(p) \/ Retry(p)
             \/ (Bind(p) \/ BindNoGpu(p)) /\ Goto(p, "rejected")
             \/ LocalBindGet(p) /\ Goto(p, "rejected")
      PROVE  NodeInv'
  <2>1. /\ UNCHANGED <<nodeObj, podMap, target>>
        /\ retries' = retries \/ retries' # 0
        /\ stage[p] \notin {"reserving", "unreserving"}
        /\ \E s \in {"waiting", "reserved", "undone", "queued", "rejected"} :
              stage' = [stage EXCEPT ![p] = s]
    BY <1>0, <1>5 DEF FitsNowhere, ReserveNoGpu, UnreserveNoCopy, RecordBindError, Retry,
             Bind, BindNoGpu, AfterLocalBind, LocalBindGet
  <2>2. /\ stage'[p] \in {"waiting", "reserved", "undone", "queued", "rejected"}
        /\ \A q \in Pod : q # p => stage'[q] = stage[q]
    BY <1>0, <2>1
  <2>3. \A q \in Pod : q # p => read'[q] = read[q]
    BY <1>0, <1>5 DEF FitsNowhere, ReserveNoGpu, UnreserveNoCopy, RecordBindError, Retry,
             Bind, BindNoGpu, LocalBindGet
  <2>4. \/ store' = store \/ \E r : store' = [store EXCEPT ![p].reason = r]
    BY <1>0, <1>5, <2>2 DEF FitsNowhere, ReserveNoGpu, UnreserveNoCopy, RecordBindError,
             Retry, Bind, BindNoGpu, LocalBindGet, PatchCondition, WriteBound
  <2>5. NotBound
    BY <1>0, <2>4 DEF NotBound, StoredPod
  <2> QED
    BY <2>1, <2>2, <2>3, <2>5, NodeFrame DEF Reading, NotBound
<1>6. ASSUME NEW p \in Pod, LocalBindGet(p), ~Goto(p, "rejected")
      PROVE  NodeInv'
  <2>1. /\ stage[p] = "reserved" /\ stage'[p] = "storageRead"
        /\ \A q \in Pod : q # p => stage'[q] = stage[q]
        /\ UNCHANGED <<nodeObj, store, target, podMap, retries>>
        /\ read'[p] = nodeObj[target[p]]
    BY <1>0, <1>6 DEF LocalBindGet
  <2> QED
    BY <2>1, ReadFirst DEF Reading, Busy
<1>7. ASSUME NEW p \in Pod, Reserve(p) \/ Unreserve(p)
      PROVE  NodeInv'
  <2>1. /\ stage[p] \in {"chosen", "rejected"} /\ stage'[p] \in {"reserving", "unreserving"}
        /\ \A q \in Pod : q # p => stage'[q] = stage[q]
        /\ UNCHANGED <<nodeObj, store, target, retries>>
        /\ read'[p] = nodeObj[target[p]]
    BY <1>0, <1>7 DEF Reserve, Unreserve
  <2>2. ASSUME NEW n \in Node, n # target[p] PROVE podMap'[n] = podMap[n]
    <3>1. CASE Reserve(p)
      BY <2>2, <3>1 DEF Reserve, AddOrUpdatePod, CacheInv, Shape
    <3>2. CASE Unreserve(p)
      <4>1. Reserved(p)
        BY <3>2 DEF Unreserve, CopyInv, Reserved, InBinding
      <4>2. copies[p].node = target[p]
        BY <4>1 DEF CopyInv
      <4> QED
        BY <2>2, <3>2, <4>2 DEF Unreserve, RemovePod, CacheInv, Shape
    <3> QED
      BY <1>7, <3>1, <3>2
  <2> QED
    BY <2>1, <2>2, ReadFirst DEF Reading, Busy
<1>8. ASSUME NEW p \in Pod,
             \/ ReserveUpdate(p) \/ UnreserveUpdate(p) \/ LocalBindUpdate(p)
             \/ (Bind(p) \/ BindNoGpu(p)) /\ ~Goto(p, "rejected")
      PROVE  NodeInv'
  BY <1>8, UpdateStep, LocalUpdateStep, NodeBound
<1> QED
  BY <1>1, <1>2, <1>3, <1>4, <1>5, <1>6, <1>7, <1>8 DEF Next, BindingStep

LEMMA NodesKept == TypeInv /\ NodeInv => NodeObjectKept
<1> SUFFICES ASSUME TypeInv, NodeInv PROVE NodeObjectKept
  OBVIOUS
<1>1. lock = NoPod => \A n \in Node : Settled(n)
  BY GpuShareAssumptions DEF TypeInv, LockHeld, Settled, GpuShareAssumptions
<1> QED
  BY <1>1 DEF NodeObjectKept, NodeInv, Plain

\* Two plugins write the same node object whole and without a resource version, and
\* as long as no pod comes back by a timer neither loses what the other wrote
\* (Reserve and Unreserve in open-gpu-share.go, Bind in open-local.go).
THEOREM NodeObjectsKept == Spec => []NodeObjectKept
<1>1. /\ CacheInv /\ TypeInv /\ CopyInv /\ NodeInv /\ [Next]_vars
           => CacheInv' /\ TypeInv' /\ CopyInv' /\ NodeInv'
  BY CacheStep, TypeStep, CopyStep, NodeStep
<1> QED
  BY CacheInit, TypeInit, CopyInit, NodeInit, <1>1, NodesKept, PTL DEF Spec
=============================================================================
