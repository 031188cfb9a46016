----------------------------- MODULE FiniteSums -----------------------------
(***************************************************************************)
(* Sums over finite sets, as the models take them with MapThenSumSet, and  *)
(* the laws the proofs about counters need: what an element adds or takes  *)
(* away, signs, and monotony.                                              *)
(*                                                                         *)
(* All rest on one induction over the subsets of a finite set, which the   *)
(* library proves well-founded.  Its induction rules take a predicate as a *)
(* parameter; SubsetInduction takes the set of the subsets that satisfy    *)
(* the predicate instead, and gets the smallest counterexample from WFMin. *)
(***************************************************************************)
EXTENDS Integers, FiniteSetsExt, FiniteSetTheorems, TLAPS

(* The sum of f[x] for x in S. *)
SumOver(f, S) == MapThenSumSet(LAMBDA x : f[x], S)

(* A set of subsets of a finite set D that has every set all of whose proper
   subsets it has is the set of all subsets. *)
LEMMA SubsetInduction ==
  ASSUME NEW D, IsFiniteSet(D), NEW G,
         \A s \in SUBSET D : (\A t \in SUBSET s : t # s => t \in G) => s \in G
  PROVE  SUBSET D \subseteq G
  <1> DEFINE B == (SUBSET D) \ G
  <1>1. SUFFICES ASSUME B # {} PROVE FALSE OBVIOUS
  <1>2. IsWellFoundedOn(StrictSubsetOrdering(D), FiniteSubsetsOf(D))
    BY FS_StrictSubsetOrderingWellFounded
  <1>3. B \subseteq FiniteSubsetsOf(D) BY FS_FiniteSubsetsOfFinite
  <1> HIDE DEF B
  <1>4. PICK s \in B : \A t \in B : ~(<<t, s>> \in StrictSubsetOrdering(D))
    BY <1>1, <1>2, <1>3, WFMin
  <1>5. s \in SUBSET D /\ s \notin G BY DEF B
  <1>6. ASSUME NEW t \in SUBSET s, t # s PROVE t \in G
    <2>1. t \in SUBSET D BY <1>5
    <2>2. <<t, s>> \in StrictSubsetOrdering(D) BY <1>5, <1>6, <2>1 DEF StrictSubsetOrdering
    <2> QED BY <1>4, <2>1, <2>2 DEF B
  <1> QED BY <1>5, <1>6

(* The element that MapThenFoldSet takes next. *)
Pick(s) == CHOOSE x \in s : TRUE

(* g adds up f over the subsets of S, one element after the other. *)
AddsUp(g, f, S) ==
  g = [s \in SUBSET S |-> IF s = {} THEN 0 ELSE f[Pick(s)] + g[s \ {Pick(s)}]]

(* It is an element. *)
LEMMA PickIsIn == ASSUME NEW s, s # {} PROVE Pick(s) \in s
  BY DEF Pick

(* Sums of the subsets of a common finite set, taken in two domains, agree. *)
LEMMA AddsUpOnce ==
  ASSUME NEW f, NEW g, NEW h, NEW S, NEW T, AddsUp(g, f, S), AddsUp(h, f, T),
         T \subseteq S, IsFiniteSet(T)
  PROVE  \A s \in SUBSET T : g[s] = h[s]
  <1> DEFINE G == {s \in SUBSET T : g[s] = h[s]}
  <1>1. ASSUME NEW s \in SUBSET T, \A t \in SUBSET s : t # s => t \in G
        PROVE  s \in G
    <2>1. s \in SUBSET S OBVIOUS
    <2>2. CASE s = {} BY <2>1, <2>2 DEF AddsUp
    <2>3. CASE s # {}
      <3>1. Pick(s) \in s BY <2>3, PickIsIn
      <3>2. s \ {Pick(s)} \in G BY <1>1, <3>1
      <3>3. g[s] = f[Pick(s)] + g[s \ {Pick(s)}] BY <2>1, <2>3 DEF AddsUp
      <3>4. h[s] = f[Pick(s)] + h[s \ {Pick(s)}] BY <2>3 DEF AddsUp
      <3> QED BY <3>2, <3>3, <3>4
    <2> QED BY <2>2, <2>3
  <1> HIDE DEF G
  <1>2. SUBSET T \subseteq G BY <1>1, SubsetInduction
  <1> QED BY <1>2 DEF G

(* There is such a function. *)
LEMMA AddsUpExists ==
  ASSUME NEW f, NEW S, IsFiniteSet(S)
  PROVE  \E g : AddsUp(g, f, S)
  <1> DEFINE G == {s \in SUBSET S : \E g : AddsUp(g, f, s)}
  <1>1. ASSUME NEW s \in SUBSET S, \A t \in SUBSET s : t # s => t \in G
        PROVE  s \in G
    <2>f. IsFiniteSet(s) BY FS_Subset
    <2>g. ASSUME NEW t \in SUBSET s, t # s PROVE \E g : AddsUp(g, f, t)
      BY <1>1, <2>g
    <2> DEFINE sum(t) == CHOOSE g : AddsUp(g, f, t)
               val(t) == IF t = {} THEN 0 ELSE f[Pick(t)] + sum(t \ {Pick(t)})[t \ {Pick(t)}]
               h == [t \in SUBSET s |-> val(t)]
    <2>1. ASSUME NEW t \in SUBSET s, t # s PROVE AddsUp(sum(t), f, t)
      BY <2>g, <2>1
    <2>2. ASSUME NEW t \in SUBSET s, t # s PROVE h[t] = sum(t)[t]
      <3>1. CASE t = {}
        <4>1. AddsUp(sum({}), f, {}) BY <2>1, <2>2, <3>1
        <4>2. sum({})[{}] = 0 BY <4>1 DEF AddsUp
        <4> QED BY <3>1, <4>2
      <3>2. CASE t # {}
        <4> DEFINE p == Pick(t)  u == t \ {p}
        <4>1. p \in t BY <3>2, PickIsIn
        <4>2. u \in SUBSET s /\ u # s /\ u \subseteq t BY <4>1
        <4>3. AddsUp(sum(u), f, u) /\ AddsUp(sum(t), f, t) BY <2>1, <2>2, <4>2
        <4>4. IsFiniteSet(u) BY <2>f, <4>2, FS_Subset
        <4>5. sum(t)[t] = f[p] + sum(t)[u]
          <5> HIDE DEF sum
          <5> QED BY <3>2, <4>3 DEF AddsUp
        <4>6. sum(t)[u] = sum(u)[u]
          <5> HIDE DEF sum, p
          <5> QED BY <4>2, <4>3, <4>4, AddsUpOnce
        <4>7. h[t] = f[p] + sum(u)[u] BY <3>2
        <4> QED BY <4>5, <4>6, <4>7
      <3> QED BY <3>1, <3>2
    <2>3. AddsUp(h, f, s)
      <3>1. ASSUME NEW t \in SUBSET s, t # {}
            PROVE  sum(t \ {Pick(t)})[t \ {Pick(t)}] = h[t \ {Pick(t)}]
        <4>1. Pick(t) \in t BY <3>1, PickIsIn
        <4>2. t \ {Pick(t)} \in SUBSET s /\ t \ {Pick(t)} # s BY <4>1
        <4> HIDE DEF h, sum
        <4> QED BY <2>2, <4>2
      <3>2. ASSUME NEW t \in SUBSET s
            PROVE  val(t) = IF t = {} THEN 0 ELSE f[Pick(t)] + h[t \ {Pick(t)}]
        <4> HIDE DEF h, sum
        <4>1. CASE t = {} BY <4>1
        <4>2. CASE t # {} BY <3>1, <4>2
        <4> QED BY <4>1, <4>2
      <3>3. h = [t \in SUBSET s |-> IF t = {} THEN 0 ELSE f[Pick(t)] + h[t \ {Pick(t)}]]
        <4> HIDE DEF val
        <4>1. h = [t \in SUBSET s |-> val(t)] OBVIOUS
        <4> HIDE DEF h
        <4> QED BY <3>2, <4>1
      <3> HIDE DEF h
      <3> QED BY <3>3 DEF AddsUp
    <2> HIDE DEF h
    <2> QED BY <2>3
  <1> HIDE DEF G
  <1>2. SUBSET S \subseteq G BY <1>1, SubsetInduction
  <1> QED BY <1>2 DEF G

(* The empty sum, *)
LEMMA SumOfNone == ASSUME NEW f PROVE SumOver(f, {}) = 0
  <1>1. \E g : AddsUp(g, f, {}) BY AddsUpExists, FS_EmptySet
  <1>2. SumOver(f, {}) = (CHOOSE g : AddsUp(g, f, {}))[{}]
    BY DEF SumOver, MapThenSumSet, MapThenFoldSet, AddsUp, Pick
  <1> QED BY <1>1, <1>2 DEF AddsUp

(* and the sum of a set that has an element. *)
LEMMA SumPicks ==
  ASSUME NEW f, NEW S, IsFiniteSet(S), S # {}
  PROVE  SumOver(f, S) = f[Pick(S)] + SumOver(f, S \ {Pick(S)})
  <1> DEFINE T == S \ {Pick(S)}
             sum(U) == CHOOSE g : AddsUp(g, f, U)
  <1>1. ASSUME NEW U PROVE SumOver(f, U) = sum(U)[U]
    BY DEF SumOver, MapThenSumSet, MapThenFoldSet, AddsUp, Pick
  <1>2. IsFiniteSet(T) BY FS_Subset
  <1>3. AddsUp(sum(S), f, S) /\ AddsUp(sum(T), f, T) BY <1>2, AddsUpExists
  <1> HIDE DEF sum
  <1>4. sum(S)[S] = f[Pick(S)] + sum(S)[T] BY <1>3 DEF AddsUp
  <1>5. sum(S)[T] = sum(T)[T]
    <2> HIDE DEF T
    <2>1. T \subseteq S BY DEF T
    <2> QED BY <1>2, <1>3, <2>1, AddsUpOnce
  <1> QED BY <1>1, <1>4, <1>5

(* A sum of integers is an integer. *)
LEMMA SumIsInt ==
  ASSUME NEW D, IsFiniteSet(D), NEW f, \A x \in D : f[x] \in Int
  PROVE  SumOver(f, D) \in Int
  <1> DEFINE G == {s \in SUBSET D : SumOver(f, s) \in Int}
  <1>1. ASSUME NEW s \in SUBSET D, \A t \in SUBSET s : t # s => t \in G
        PROVE  s \in G
    <2>1. CASE s = {} BY <2>1, SumOfNone
    <2>2. CASE s # {}
      <3>1. Pick(s) \in s /\ IsFiniteSet(s) BY <2>2, PickIsIn, FS_Subset
      <3>2. SumOver(f, s \ {Pick(s)}) \in Int BY <1>1, <3>1
      <3>3. SumOver(f, s) = f[Pick(s)] + SumOver(f, s \ {Pick(s)}) BY <2>2, <3>1, SumPicks
      <3> QED BY <3>1, <3>2, <3>3
    <2> QED BY <2>1, <2>2
  <1> HIDE DEF G
  <1>2. SUBSET D \subseteq G BY <1>1, SubsetInduction
  <1> QED BY <1>2 DEF G

(* Whatever element is taken away, the sum loses its value: the order in which a
   sum is taken does not matter. *)
LEMMA SumLoses ==
  ASSUME NEW D, IsFiniteSet(D), NEW f, \A x \in D : f[x] \in Int, NEW a \in D
  PROVE  SumOver(f, D) = f[a] + SumOver(f, D \ {a})
  <1> DEFINE G == {s \in SUBSET D : \A x \in s : SumOver(f, s) = f[x] + SumOver(f, s \ {x})}
  <1>1. ASSUME NEW s \in SUBSET D, \A t \in SUBSET s : t # s => t \in G
        PROVE  s \in G
    <2> SUFFICES ASSUME NEW x \in s PROVE SumOver(f, s) = f[x] + SumOver(f, s \ {x})
      OBVIOUS
    <2> DEFINE y == Pick(s)  both == s \ {x, y}
    <2>0. IsFiniteSet(s) /\ y \in s BY PickIsIn, FS_Subset
    <2>1. SumOver(f, s) = f[y] + SumOver(f, s \ {y}) BY <2>0, SumPicks
    <2>2. CASE x = y BY <2>1, <2>2
    <2>3. CASE x # y
      <3> HIDE DEF y
      <3>1. s \ {y} \in G /\ x \in s \ {y} BY <1>1, <2>0, <2>3
      <3>2. SumOver(f, s \ {y}) = f[x] + SumOver(f, both)
        <4>1. (s \ {y}) \ {x} = both OBVIOUS
        <4> QED BY <3>1, <4>1
      <3>3. s \ {x} \in G /\ y \in s \ {x} BY <1>1, <2>0, <2>3
      <3>4. SumOver(f, s \ {x}) = f[y] + SumOver(f, both)
        <4>1. (s \ {x}) \ {y} = both OBVIOUS
        <4> QED BY <3>3, <4>1
      <3>5. SumOver(f, both) \in Int
        <4>1. IsFiniteSet(both) /\ both \subseteq D BY <2>0, FS_Subset
        <4>2. \A z \in both : f[z] \in Int BY <4>1
        <4> HIDE DEF both
        <4> QED BY <4>1, <4>2, SumIsInt
      <3>6. f[x] \in Int /\ f[y] \in Int BY <2>0
      <3> QED BY <2>1, <3>2, <3>4, <3>5, <3>6
    <2> QED BY <2>2, <2>3
  <1> HIDE DEF G
  <1>2. SUBSET D \subseteq G BY <1>1, SubsetInduction
  <1> QED BY <1>2 DEF G

(* What an element that is added adds. *)
LEMMA SumGains ==
  ASSUME NEW S, IsFiniteSet(S), NEW a, a \notin S, NEW f, \A x \in S \cup {a} : f[x] \in Int
  PROVE  SumOver(f, S \cup {a}) = f[a] + SumOver(f, S)
  <1>1. IsFiniteSet(S \cup {a}) BY FS_AddElement
  <1>2. (S \cup {a}) \ {a} = S OBVIOUS
  <1> DEFINE D == S \cup {a}
  <1>3. a \in D /\ IsFiniteSet(D) /\ \A x \in D : f[x] \in Int BY <1>1
  <1> HIDE DEF D
  <1>4. SumOver(f, D) = f[a] + SumOver(f, D \ {a}) BY <1>3, SumLoses
  <1> QED BY <1>2, <1>4 DEF D

(* A sum of what is not negative is not negative. *)
LEMMA SumIsNat ==
  ASSUME NEW D, IsFiniteSet(D), NEW f, \A x \in D : f[x] \in Nat
  PROVE  SumOver(f, D) \in Nat
  <1> DEFINE G == {s \in SUBSET D : SumOver(f, s) \in Nat}
  <1>1. ASSUME NEW s \in SUBSET D, \A t \in SUBSET s : t # s => t \in G
        PROVE  s \in G
    <2>1. CASE s = {} BY <2>1, SumOfNone
    <2>2. CASE s # {}
      <3>1. Pick(s) \in s /\ IsFiniteSet(s) BY <2>2, PickIsIn, FS_Subset
      <3>2. SumOver(f, s \ {Pick(s)}) \in Nat BY <1>1, <3>1
      <3>3. SumOver(f, s) = f[Pick(s)] + SumOver(f, s \ {Pick(s)}) BY <2>2, <3>1, SumPicks
      <3> QED BY <3>1, <3>2, <3>3
    <2> QED BY <2>1, <2>2
  <1> HIDE DEF G
  <1>2. SUBSET D \subseteq G BY <1>1, SubsetInduction
  <1> QED BY <1>2 DEF G

(* The sum of a part is at most the sum of the whole. *)
LEMMA SumOfPart ==
  ASSUME NEW D, IsFiniteSet(D), NEW f, \A x \in D : f[x] \in Nat, NEW S \in SUBSET D
  PROVE  SumOver(f, S) <= SumOver(f, D)
  <1> DEFINE G == {s \in SUBSET D : \A t \in SUBSET s : SumOver(f, t) <= SumOver(f, s)}
  <1>1. ASSUME NEW s \in SUBSET D, \A t \in SUBSET s : t # s => t \in G
        PROVE  s \in G
    <2> SUFFICES ASSUME NEW t \in SUBSET s PROVE SumOver(f, t) <= SumOver(f, s)
      OBVIOUS
    <2>0. /\ IsFiniteSet(s) /\ IsFiniteSet(t)
          /\ SumOver(f, t) \in Nat /\ SumOver(f, s) \in Nat
      <3>1. IsFiniteSet(s) /\ IsFiniteSet(t) BY FS_Subset
      <3>2. (\A x \in s : f[x] \in Nat) /\ (\A x \in t : f[x] \in Nat) OBVIOUS
      <3> QED BY <3>1, <3>2, SumIsNat
    <2>1. CASE t = s BY <2>0, <2>1
    <2>2. CASE t # s
      <3>1. PICK x \in s : x \notin t BY <2>2
      <3>2. s \ {x} \in G /\ t \in SUBSET (s \ {x}) BY <1>1, <3>1
      <3>3. SumOver(f, t) <= SumOver(f, s \ {x}) BY <3>2
      <3>4. SumOver(f, s) = f[x] + SumOver(f, s \ {x})
        <4>1. \A z \in s : f[z] \in Int OBVIOUS
        <4> QED BY <2>0, <4>1, SumLoses
      <3>5. SumOver(f, s \ {x}) \in Nat /\ f[x] \in Nat
        <4>1. IsFiniteSet(s \ {x}) BY <2>0, FS_RemoveElement
        <4>2. \A z \in s \ {x} : f[z] \in Nat OBVIOUS
        <4>3. SumOver(f, s \ {x}) \in Nat BY <4>1, <4>2, SumIsNat
        <4> QED BY <4>3
      <3> QED BY <2>0, <3>3, <3>4, <3>5
    <2> QED BY <2>1, <2>2
  <1> HIDE DEF G
  <1>2. SUBSET D \subseteq G BY <1>1, SubsetInduction
  <1>3. D \in G BY <1>2
  <1> QED BY <1>3 DEF G
=============================================================================
