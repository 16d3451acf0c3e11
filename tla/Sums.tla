-------------------------------- MODULE Sums --------------------------------
(***************************************************************************)
(* Facts about the sum of a function over a finite set, as MapThenSumSet   *)
(* of the community modules computes it: the recursive function behind it  *)
(* exists, and the order in which it takes the elements does not matter.   *)
(***************************************************************************)
EXTENDS Integers, FiniteSetsExt, FiniteSetTheorems, WellFoundedInduction, TLAPS

SumOver(F, S) == MapThenSumSet(LAMBDA x : F[x], S)

(* The element that is taken first.                                        *)
Pick(s) == CHOOSE x \in s : TRUE

(* g adds up F over every subset of S.                                     *)
Adds(g, F, S) ==
    g = [s \in SUBSET S |-> IF s = {} THEN 0 ELSE F[Pick(s)] + g[s \ {Pick(s)}]]

LEMMA SumUnfolded ==
  ASSUME NEW F, NEW S
  PROVE  SumOver(F, S) = (CHOOSE g : Adds(g, F, S))[S]
  BY DEF SumOver, MapThenSumSet, MapThenFoldSet, Adds, Pick

LEMMA PickIn ==
  ASSUME NEW s, s # {}
  PROVE  Pick(s) \in s
  BY DEF Pick

LEMMA AddsAt ==
  ASSUME NEW g, NEW F, NEW S, Adds(g, F, S), NEW s \in SUBSET S
  PROVE  g[s] = IF s = {} THEN 0 ELSE F[Pick(s)] + g[s \ {Pick(s)}]
  BY DEF Adds

LEMMA LeastNat ==
  ASSUME NEW T \in SUBSET Nat, T # {}
  PROVE  \E x \in T : \A y \in T : x <= y
<1>1. PICK x \in T : \A y \in T : ~ (<<y, x>> \in OpToRel(<, Nat))
  BY NatLessThanWellFounded, WFMin
<1>2. \A y \in T : ~ (y < x)
  BY <1>1 DEF OpToRel
<1> QED
  BY <1>2

(* A set of finite sets that is not empty has a member none of whose       *)
(* proper subsets is a member.                                             *)
LEMMA Smallest ==
  ASSUME NEW S, IsFiniteSet(S), NEW T, T \subseteq SUBSET S, T # {}
  PROVE  \E x \in T : \A y \in SUBSET x : y # x => y \notin T
<1>1. IsWellFoundedOn(StrictSubsetOrdering(S), FiniteSubsetsOf(S))
  BY FS_StrictSubsetOrderingWellFounded
<1>2. T \subseteq FiniteSubsetsOf(S)
  BY FS_FiniteSubsetsOfFinite
<1>3. PICK x \in T : \A y \in T : ~ (<<y, x>> \in StrictSubsetOrdering(S))
  <2> HIDE DEF StrictSubsetOrdering
  <2> QED
    BY <1>1, <1>2, WFMin
<1>4. ASSUME NEW y \in SUBSET x, y # x PROVE y \notin T
  <2> SUFFICES ASSUME y \in T PROVE FALSE
    OBVIOUS
  <2>1. <<y, x>> \in StrictSubsetOrdering(S)
    BY <1>4 DEF StrictSubsetOrdering
  <2> QED
    BY <1>3, <2>1
<1> QED
  BY <1>4

(* Two such functions agree where both are defined.                        *)
LEMMA AddsUnique ==
  ASSUME NEW F, NEW A, IsFiniteSet(A), NEW B, NEW g, NEW h, Adds(g, F, A), Adds(h, F, B),
         NEW s \in SUBSET A, s \in SUBSET B
  PROVE  g[s] = h[s]
<1> DEFINE T == {t \in SUBSET A : t \in SUBSET B /\ g[t] # h[t]}
<1> SUFFICES ASSUME T # {} PROVE FALSE
  OBVIOUS
<1>1. PICK x \in T : \A y \in SUBSET x : y # x => y \notin T
  BY Smallest
<1>2. x \in SUBSET A /\ x \in SUBSET B /\ g[x] # h[x]
  OBVIOUS
<1>3. /\ g[x] = IF x = {} THEN 0 ELSE F[Pick(x)] + g[x \ {Pick(x)}]
      /\ h[x] = IF x = {} THEN 0 ELSE F[Pick(x)] + h[x \ {Pick(x)}]
  BY <1>2, AddsAt
<1>4. CASE x = {}
  BY <1>2, <1>3, <1>4
<1>5. CASE x # {}
  <2>1. x \ {Pick(x)} \in SUBSET x /\ x \ {Pick(x)} # x
    BY <1>5, PickIn
  <2>2. x \ {Pick(x)} \notin T
    BY <1>1, <2>1
  <2>3. g[x \ {Pick(x)}] = h[x \ {Pick(x)}]
    BY <1>2, <2>1, <2>2
  <2> QED
    BY <1>2, <1>3, <1>5, <2>3
<1> QED
  BY <1>4, <1>5

LEMMA AddsExists ==
  ASSUME NEW F, NEW S, IsFiniteSet(S)
  PROVE  \E g : Adds(g, F, S)
<1> DEFINE T == {t \in SUBSET S : ~ \E g : Adds(g, F, t)}
<1> SUFFICES ASSUME T # {} PROVE FALSE
  OBVIOUS
<1>0. T \subseteq SUBSET S
  OBVIOUS
<1>1. PICK x \in T : \A y \in SUBSET x : y # x => y \notin T
  <2> HIDE DEF T
  <2> QED
    BY <1>0, Smallest
<1>2. x \in SUBSET S /\ ~ \E g : Adds(g, F, x)
  OBVIOUS
<1>3. \A y \in SUBSET x : y # x => \E g : Adds(g, F, y)
  BY <1>1, <1>2
<1>4. IsFiniteSet(x)
  BY <1>2, FS_Subset
<1> DEFINE H(y) == CHOOSE g : Adds(g, F, y)
           G == [t \in SUBSET x |->
                   IF t = {} THEN 0
                   ELSE IF t = x THEN F[Pick(x)] + H(x \ {Pick(x)})[x \ {Pick(x)}]
                   ELSE H(t)[t]]
<1>5. \A y \in SUBSET x : y # x => Adds(H(y), F, y)
  BY <1>3
<1> HIDE DEF T, H
<1>6. ASSUME NEW t \in SUBSET x
      PROVE  G[t] = IF t = {} THEN 0 ELSE F[Pick(t)] + G[t \ {Pick(t)}]
  <2>1. CASE t = {}
    BY <2>1
  <2>2. CASE t # {}
    <3> DEFINE r == t \ {Pick(t)}
    <3>1. r \in SUBSET t /\ r # t /\ r \in SUBSET x /\ r # x
      BY <2>2, PickIn
    <3>2. Adds(H(r), F, r) /\ IsFiniteSet(r)
      BY <1>4, <1>5, <3>1, FS_Subset
    <3>3. G[r] = H(r)[r]
      <4>1. r = {} => H(r)[r] = 0
        BY <3>2, AddsAt
      <4> QED
        BY <3>1, <4>1
    <3>4. G[t] = F[Pick(t)] + H(r)[r]
      <4>1. CASE t = x
        BY <2>2, <4>1
      <4>2. CASE t # x
        <5>1. Adds(H(t), F, t)
          BY <1>5, <4>2
        <5>2. H(t)[t] = F[Pick(t)] + H(t)[r]
          BY <2>2, <5>1, AddsAt
        <5>3. H(t)[r] = H(r)[r]
          BY <3>1, <3>2, <5>1, AddsUnique
        <5> QED
          BY <2>2, <4>2, <5>2, <5>3
      <4> QED
        BY <4>1, <4>2
    <3> QED
      BY <2>2, <3>3, <3>4
  <2> QED
    BY <2>1, <2>2
<1>7. Adds(G, F, x)
  <2>1. G = [t \in SUBSET x |-> G[t]]
    OBVIOUS
  <2>2. [t \in SUBSET x |-> G[t]]
          = [t \in SUBSET x |-> IF t = {} THEN 0 ELSE F[Pick(t)] + G[t \ {Pick(t)}]]
    <3> HIDE DEF G
    <3> QED
      BY <1>6
  <2> HIDE DEF G
  <2> QED
    BY <2>1, <2>2 DEF Adds
<1> QED
  BY <1>2, <1>7

LEMMA SumAdds ==
  ASSUME NEW F, NEW S, IsFiniteSet(S)
  PROVE  \E g : Adds(g, F, S) /\ SumOver(F, S) = g[S]
<1>1. Adds(CHOOSE g : Adds(g, F, S), F, S)
  BY AddsExists
<1> QED
  BY <1>1, SumUnfolded

(* A function that adds up F over S holds the total of every subset.       *)
LEMMA AddsSum ==
  ASSUME NEW F, NEW S, IsFiniteSet(S), NEW g, Adds(g, F, S), NEW s \in SUBSET S
  PROVE  g[s] = SumOver(F, s)
<1>1. IsFiniteSet(s)
  BY FS_Subset
<1>2. PICK h : Adds(h, F, s) /\ SumOver(F, s) = h[s]
  BY <1>1, SumAdds
<1> QED
  BY <1>2, AddsUnique

LEMMA SumFirst ==
  ASSUME NEW F, NEW S, IsFiniteSet(S)
  PROVE  SumOver(F, S) = IF S = {} THEN 0 ELSE F[Pick(S)] + SumOver(F, S \ {Pick(S)})
<1>1. PICK g : Adds(g, F, S) /\ SumOver(F, S) = g[S]
  BY SumAdds
<1>2. g[S] = IF S = {} THEN 0 ELSE F[Pick(S)] + g[S \ {Pick(S)}]
  BY <1>1, AddsAt
<1>3. g[S \ {Pick(S)}] = SumOver(F, S \ {Pick(S)})
  <2>1. \A s \in SUBSET S : g[s] = SumOver(F, s)
    BY <1>1, AddsSum
  <2> QED
    BY <2>1
<1> QED
  BY <1>1, <1>2, <1>3

LEMMA SumNat ==
  ASSUME NEW F, NEW S, IsFiniteSet(S), \A x \in S : F[x] \in Nat
  PROVE  SumOver(F, S) \in Nat
<1> DEFINE T == {t \in SUBSET S : SumOver(F, t) \notin Nat}
<1> SUFFICES ASSUME T # {} PROVE FALSE
  OBVIOUS
<1>0. T \subseteq SUBSET S
  OBVIOUS
<1>1. PICK x \in T : \A y \in SUBSET x : y # x => y \notin T
  <2> HIDE DEF T
  <2> QED
    BY <1>0, Smallest
<1>2. x \in SUBSET S /\ SumOver(F, x) \notin Nat /\ IsFiniteSet(x)
  BY FS_Subset
<1>3. x # {}
  <2>1. SumOver(F, x) = IF x = {} THEN 0 ELSE F[Pick(x)] + SumOver(F, x \ {Pick(x)})
    BY <1>2, SumFirst
  <2> QED
    BY <1>2, <2>1
<1>4. x \ {Pick(x)} \in SUBSET x /\ x \ {Pick(x)} # x /\ Pick(x) \in x
  BY <1>3, PickIn
<1>5. SumOver(F, x \ {Pick(x)}) \in Nat
  BY <1>1, <1>2, <1>4
<1>6. SumOver(F, x) = F[Pick(x)] + SumOver(F, x \ {Pick(x)})
  BY <1>2, <1>3, SumFirst
<1> QED
  BY <1>2, <1>4, <1>5, <1>6

(* Any element may be taken first.                                         *)
LEMMA SumTake ==
  ASSUME NEW F, NEW S, IsFiniteSet(S), \A x \in S : F[x] \in Nat, NEW e \in S
  PROVE  SumOver(F, S) = F[e] + SumOver(F, S \ {e})
<1> DEFINE Bad(t, y) == y \in t /\ SumOver(F, t) # F[y] + SumOver(F, t \ {y})
           T == {t \in SUBSET S : \E y : Bad(t, y)}
<1> SUFFICES ASSUME T # {} PROVE FALSE
  OBVIOUS
<1>0. T \subseteq SUBSET S
  OBVIOUS
<1>1. PICK x \in T : \A y \in SUBSET x : y # x => y \notin T
  <2> HIDE DEF T
  <2> QED
    BY <1>0, Smallest
<1>2. x \in SUBSET S /\ IsFiniteSet(x)
  BY FS_Subset
<1>3. PICK y : Bad(x, y)
  OBVIOUS
<1>4. x # {} /\ y \in x
  BY <1>3
<1> DEFINE c == Pick(x)
<1>5. c \in x /\ x \ {c} \in SUBSET x /\ x \ {c} # x
  BY <1>4, PickIn
<1>6. SumOver(F, x) = F[c] + SumOver(F, x \ {c})
  BY <1>2, <1>4, SumFirst
<1>7. c # y
  BY <1>3, <1>6
<1>8. /\ x \ {c} \notin T /\ x \ {y} \notin T
      /\ x \ {c} \in SUBSET S /\ x \ {y} \in SUBSET S
  BY <1>1, <1>2, <1>4, <1>5
<1> HIDE DEF c
<1>9. SumOver(F, x \ {c}) = F[y] + SumOver(F, (x \ {c}) \ {y})
  BY <1>4, <1>7, <1>8
<1>10. SumOver(F, x \ {y}) = F[c] + SumOver(F, (x \ {y}) \ {c})
  BY <1>5, <1>7, <1>8
<1>11. (x \ {c}) \ {y} = (x \ {y}) \ {c}
  OBVIOUS
<1>12. SumOver(F, (x \ {c}) \ {y}) \in Nat /\ F[c] \in Nat /\ F[y] \in Nat
  <2>1. (x \ {c}) \ {y} \in SUBSET S
    BY <1>2
  <2>2. IsFiniteSet((x \ {c}) \ {y})
    BY <2>1, FS_Subset
  <2> QED
    BY <1>2, <1>4, <1>5, <2>1, <2>2, SumNat
<1>13. SumOver(F, x) # F[y] + SumOver(F, x \ {y})
  BY <1>3
<1> HIDE DEF T, Bad
<1>14. PICK n \in Nat, i \in Nat, j \in Nat :
         n = SumOver(F, (x \ {c}) \ {y}) /\ i = F[c] /\ j = F[y]
  BY <1>12
<1>15. SumOver(F, x) = i + (j + n)
  BY <1>6, <1>9, <1>14
<1>16. SumOver(F, x \ {y}) = i + n
  BY <1>10, <1>11, <1>14
<1>17. i + (j + n) = j + (i + n)
  OBVIOUS
<1> QED
  BY <1>13, <1>14, <1>15, <1>16, <1>17

(* What the proofs cite: the empty sum, one element more, one element less *)
(* and a part of the set.                                                  *)
LEMMA SumEmpty ==
  ASSUME NEW F
  PROVE  SumOver(F, {}) = 0
  BY FS_EmptySet, SumFirst

LEMMA SumInsert ==
  ASSUME NEW F, NEW S, IsFiniteSet(S), NEW e, e \notin S,
         \A x \in S \cup {e} : F[x] \in Nat
  PROVE  SumOver(F, S \cup {e}) = F[e] + SumOver(F, S)
<1>1. IsFiniteSet(S \cup {e}) /\ (S \cup {e}) \ {e} = S
  BY FS_AddElement
<1> QED
  BY <1>1, SumTake

LEMMA SumMonotone ==
  ASSUME NEW F, NEW S, IsFiniteSet(S), \A x \in S : F[x] \in Nat, NEW R \in SUBSET S
  PROVE  SumOver(F, R) <= SumOver(F, S)
<1> DEFINE T == {t \in SUBSET S : R \subseteq t /\ ~(SumOver(F, R) <= SumOver(F, t))}
<1> SUFFICES ASSUME T # {} PROVE FALSE
  OBVIOUS
<1>0. T \subseteq SUBSET S
  OBVIOUS
<1>1. PICK x \in T : \A y \in SUBSET x : y # x => y \notin T
  <2> HIDE DEF T
  <2> QED
    BY <1>0, Smallest
<1>2. x \in SUBSET S /\ R \subseteq x /\ ~(SumOver(F, R) <= SumOver(F, x)) /\ IsFiniteSet(x)
  BY FS_Subset
<1>3. SumOver(F, R) \in Nat /\ IsFiniteSet(R)
  BY <1>2, FS_Subset, SumNat
<1>4. PICK e \in x : e \notin R
  BY <1>2, <1>3
<1>5. SumOver(F, x) = F[e] + SumOver(F, x \ {e})
  BY <1>2, SumTake
<1>6. x \ {e} \in SUBSET x /\ x \ {e} # x /\ R \subseteq x \ {e}
  BY <1>2, <1>4
<1>7. SumOver(F, R) <= SumOver(F, x \ {e})
  BY <1>1, <1>2, <1>6
<1>8. SumOver(F, x \ {e}) \in Nat /\ F[e] \in Nat
  <2>1. IsFiniteSet(x \ {e})
    BY <1>2, <1>6, FS_Subset
  <2> QED
    BY <1>2, <2>1, SumNat
<1> QED
  BY <1>2, <1>3, <1>5, <1>7, <1>8

(* Sets that differ only in elements that count nothing.                   *)
LEMMA SumZeros ==
  ASSUME NEW F, NEW S, IsFiniteSet(S), \A x \in S : F[x] \in Nat, NEW R \in SUBSET S,
         \A x \in S \ R : F[x] = 0
  PROVE  SumOver(F, R) = SumOver(F, S)
<1> DEFINE T == {t \in SUBSET S : R \subseteq t /\ SumOver(F, R) # SumOver(F, t)}
<1> SUFFICES ASSUME T # {} PROVE FALSE
  OBVIOUS
<1>0. T \subseteq SUBSET S
  OBVIOUS
<1>1. PICK x \in T : \A y \in SUBSET x : y # x => y \notin T
  <2> HIDE DEF T
  <2> QED
    BY <1>0, Smallest
<1>2. x \in SUBSET S /\ R \subseteq x /\ SumOver(F, R) # SumOver(F, x) /\ IsFiniteSet(x)
  BY FS_Subset
<1>3. PICK e \in x : e \notin R
  BY <1>2
<1>4. SumOver(F, x) = F[e] + SumOver(F, x \ {e})
  BY <1>2, SumTake
<1>5. x \ {e} \in SUBSET x /\ x \ {e} # x /\ R \subseteq x \ {e}
  BY <1>2, <1>3
<1>6. SumOver(F, R) = SumOver(F, x \ {e})
  BY <1>1, <1>2, <1>5
<1>7. SumOver(F, x \ {e}) \in Nat /\ F[e] = 0
  <2>1. IsFiniteSet(x \ {e})
    BY <1>2, <1>5, FS_Subset
  <2> QED
    BY <1>2, <1>3, <2>1, SumNat
<1> QED
  BY <1>2, <1>4, <1>6, <1>7

LEMMA SumCongruent ==
  ASSUME NEW F, NEW G, NEW S, IsFiniteSet(S), \A x \in S : F[x] = G[x]
  PROVE  SumOver(F, S) = SumOver(G, S)
<1>1. PICK g : Adds(g, F, S) /\ SumOver(F, S) = g[S]
  BY SumAdds
<1>2. \A s \in SUBSET S : s # {} => F[Pick(s)] = G[Pick(s)]
  BY PickIn
<1>3. Adds(g, G, S)
  BY <1>1, <1>2 DEF Adds
<1>4. \A s \in SUBSET S : g[s] = SumOver(G, s)
  BY <1>3, AddsSum
<1> QED
  BY <1>1, <1>4

LEMMA SumLess ==
  ASSUME NEW F, NEW G, NEW S, IsFiniteSet(S),
         \A x \in S : F[x] \in Nat /\ G[x] \in Nat /\ F[x] <= G[x]
  PROVE  SumOver(F, S) <= SumOver(G, S)
<1> DEFINE T == {t \in SUBSET S : ~(SumOver(F, t) <= SumOver(G, t))}
<1> SUFFICES ASSUME T # {} PROVE FALSE
  OBVIOUS
<1>0. T \subseteq SUBSET S
  OBVIOUS
<1>1. PICK x \in T : \A y \in SUBSET x : y # x => y \notin T
  <2> HIDE DEF T
  <2> QED
    BY <1>0, Smallest
<1>2. x \in SUBSET S /\ ~(SumOver(F, x) <= SumOver(G, x)) /\ IsFiniteSet(x)
  BY FS_Subset
<1>3. PICK e \in x : TRUE
  BY <1>2, SumEmpty
<1>4. SumOver(F, x) = F[e] + SumOver(F, x \ {e}) /\ SumOver(G, x) = G[e] + SumOver(G, x \ {e})
  BY <1>2, SumTake
<1>5. x \ {e} \in SUBSET x /\ x \ {e} # x
  OBVIOUS
<1>6. SumOver(F, x \ {e}) <= SumOver(G, x \ {e})
  BY <1>1, <1>2, <1>5
<1>7. SumOver(F, x \ {e}) \in Nat /\ SumOver(G, x \ {e}) \in Nat
  <2>1. IsFiniteSet(x \ {e})
    BY <1>2, <1>5, FS_Subset
  <2> QED
    BY <1>2, <2>1, SumNat
<1>8. F[e] \in Nat /\ G[e] \in Nat /\ F[e] <= G[e]
  BY <1>2
<1> QED
  BY <1>2, <1>4, <1>6, <1>7, <1>8

(* The elements under other names.                                         *)
LEMMA SumRenamed ==
  ASSUME NEW F, NEW G, NEW h, NEW S, IsFiniteSet(S),
         \A x \in S : F[x] \in Nat /\ G[h[x]] = F[x],
         \A x, y \in S : h[x] = h[y] => x = y
  PROVE  SumOver(F, S) = SumOver(G, {h[x] : x \in S})
<1> DEFINE I(t) == {h[x] : x \in t}
           T == {t \in SUBSET S : SumOver(F, t) # SumOver(G, I(t))}
<1> SUFFICES ASSUME T # {} PROVE FALSE
  OBVIOUS
<1>0. T \subseteq SUBSET S
  OBVIOUS
<1>1. PICK x \in T : \A y \in SUBSET x : y # x => y \notin T
  <2> HIDE DEF T
  <2> QED
    BY <1>0, Smallest
<1>2. x \in SUBSET S /\ SumOver(F, x) # SumOver(G, I(x)) /\ IsFiniteSet(x)
  BY FS_Subset
<1>3. PICK e \in x : TRUE
  <2>1. I({}) = {}
    OBVIOUS
  <2> HIDE DEF I
  <2> QED
    BY <1>2, <2>1, SumEmpty
<1>4. SumOver(F, x) = F[e] + SumOver(F, x \ {e})
  BY <1>2, SumTake
<1>5. x \ {e} \in SUBSET x /\ x \ {e} # x
  OBVIOUS
<1>6. SumOver(F, x \ {e}) = SumOver(G, I(x \ {e}))
  BY <1>1, <1>2, <1>5
<1>7. I(x) \ {h[e]} = I(x \ {e}) /\ h[e] \in I(x)
  BY <1>2
<1>8. IsFiniteSet(I(x)) /\ \A y \in I(x) : G[y] \in Nat
  <2>1. \A y \in I(x) : G[y] \in Nat
    BY <1>2
  <2>2. [y \in x |-> h[y]] \in Surjection(x, I(x))
    BY DEF Surjection
  <2>3. IsFiniteSet(I(x))
    BY <1>2, <2>2, FS_Surjection
  <2> QED
    BY <2>1, <2>3
<1> HIDE DEF I, T
<1>9. SumOver(G, I(x)) = G[h[e]] + SumOver(G, I(x) \ {h[e]})
  BY <1>7, <1>8, SumTake
<1> QED
  BY <1>2, <1>4, <1>6, <1>7, <1>9
=============================================================================
