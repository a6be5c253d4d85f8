----------------------------- MODULE SumProofs -----------------------------
(***************************************************************************)
(* Sums over finite sets, for the folds the models count with: a fold that  *)
(* adds is well defined, and does not depend on the order it chooses.       *)
(*                                                                         *)
(* Inductions are by a smallest counterexample: strict inclusion is well    *)
(* founded on finite sets, so a set of counterexamples has a minimal one.   *)
(***************************************************************************)
EXTENDS Integers, Sequences, FiniteSets, Functions, FiniteSetTheorems, WellFoundedInduction, TLAPS

\* The element a fold takes next.
Pick(s) == CHOOSE x \in s : TRUE

\* The function that a fold over S defines, when it adds g[x] for each x.
Adds(h, g, S) ==
    h = [s \in SUBSET S |-> IF s = {} THEN 0 ELSE h[s \ {Pick(s)}] + g[Pick(s)]]

Alike(g1, g2, S) == \A x \in S : g1[x] = g2[x]

Sum(g, S) == (CHOOSE h : Adds(h, g, S))[S]

-----------------------------------------------------------------------------
\* A set of subsets of a finite set has a minimal element.
LEMMA MinimalSubset ==
    ASSUME NEW S, IsFiniteSet(S), NEW T \in SUBSET SUBSET S, T # {}
    PROVE  \E s \in T : \A t \in T : t \subseteq s => t = s
  <1>1. PICK R : R = StrictSubsetOrdering(S)
    OBVIOUS
  <1>a. IsWellFoundedOn(R, SUBSET S)
    <2>1. IsWellFoundedOn(StrictSubsetOrdering(S), FiniteSubsetsOf(S))
      BY FS_StrictSubsetOrderingWellFounded
    <2>2. FiniteSubsetsOf(S) = SUBSET S
      BY FS_FiniteSubsetsOfFinite
    <2>3. QED  BY <1>1, <2>1, <2>2
  <1>2. \E s \in T : \A t \in T : ~(<<t, s>> \in R)
    BY <1>a, WFMin
  <1>3. PICK s \in T : \A t \in T : ~(<<t, s>> \in R)
    BY <1>2
  <1>4. \A t \in T : t \subseteq s /\ t # s => <<t, s>> \in R
    BY <1>1 DEF StrictSubsetOrdering
  <1>5. \A t \in T : t \subseteq s => t = s
    BY <1>3, <1>4
  <1>6. QED  BY <1>5

LEMMA PickIsIn == \A s : s # {} => Pick(s) \in s
  BY DEF Pick

\* Two folds that add the same values agree where both are defined.
LEMMA FoldsAgree ==
    ASSUME NEW S, IsFiniteSet(S), NEW S1, S \subseteq S1, NEW S2, S \subseteq S2,
           NEW g1, NEW g2, Alike(g1, g2, S),
           NEW h1, Adds(h1, g1, S1), NEW h2, Adds(h2, g2, S2)
    PROVE  \A s \in SUBSET S : h1[s] = h2[s]
  <1> DEFINE T == {s \in SUBSET S : h1[s] # h2[s]}
  <1>1. SUFFICES ASSUME T # {}  PROVE FALSE
    OBVIOUS
  <1>2. PICK s \in T : \A t \in T : t \subseteq s => t = s
    <2>1. T \in SUBSET SUBSET S
      OBVIOUS
    <2> HIDE DEF T
    <2>2. QED  BY <1>1, <2>1, MinimalSubset
  <1>3. h1[{}] = 0 /\ h2[{}] = 0
    BY DEF Adds
  <1>4. s # {} /\ Pick(s) \in s /\ s \in SUBSET S1 /\ s \in SUBSET S2
    BY <1>2, <1>3, PickIsIn
  <1>5. h1[s] = h1[s \ {Pick(s)}] + g1[Pick(s)] /\ h2[s] = h2[s \ {Pick(s)}] + g2[Pick(s)]
    BY <1>4 DEF Adds
  <1>6. h1[s \ {Pick(s)}] = h2[s \ {Pick(s)}] /\ g1[Pick(s)] = g2[Pick(s)]
    BY <1>2, <1>4 DEF Alike
  <1>7. QED  BY <1>2, <1>5, <1>6

\* A fold over a finite set is well defined.
LEMMA FoldExists ==
    ASSUME NEW S, IsFiniteSet(S), NEW g
    PROVE  \E h : Adds(h, g, S)
  <1> DEFINE T == {s \in SUBSET S : ~\E h : Adds(h, g, s)}
  <1>1. SUFFICES ASSUME T # {}  PROVE FALSE
    OBVIOUS
  <1>2. PICK s \in T : \A t \in T : t \subseteq s => t = s
    <2>1. T \in SUBSET SUBSET S
      OBVIOUS
    <2> HIDE DEF T
    <2>2. QED  BY <1>1, <2>1, MinimalSubset
  <1> DEFINE Part(t) == CHOOSE h : Adds(h, g, t)
             Whole == [t \in SUBSET s |->
                         IF t = {} THEN 0 ELSE Part(t \ {Pick(t)})[t \ {Pick(t)}] + g[Pick(t)]]
  <1>3. \A t \in SUBSET s : t # s => Adds(Part(t), g, t)
    <2>1. ASSUME NEW t \in SUBSET s, t # s
          PROVE  \E h : Adds(h, g, t)
      <3>1. t \in SUBSET S
        BY <1>2
      <3>2. t \notin T
        BY <1>2, <2>1
      <3>3. QED  BY <3>1, <3>2, Zenon
    <2>2. QED  BY <2>1, Zenon
  <1>4. \A t \in SUBSET s : IsFiniteSet(t)
    BY FS_Subset
  <1> HIDE DEF Part
  <1>5. ASSUME NEW t \in SUBSET s, t # s
        PROVE  Whole[t] = Part(t)[t]
    <2>1. Part(t) = [u \in SUBSET t |->
                       IF u = {} THEN 0 ELSE Part(t)[u \ {Pick(u)}] + g[Pick(u)]]
      BY <1>3, <1>5 DEF Adds
    <2>2. CASE t = {}
      BY <2>1, <2>2
    <2>3. CASE t # {}
      <3> DEFINE u == t \ {Pick(t)}
      <3>1. Pick(t) \in t /\ u \in SUBSET s /\ u \in SUBSET t /\ u # s /\ u \subseteq t
        BY <2>3, PickIsIn
      <3>2. Part(t)[t] = Part(t)[u] + g[Pick(t)]
        BY <2>1, <2>3
      <3>3. Adds(Part(t), g, t) /\ Adds(Part(u), g, u) /\ IsFiniteSet(u)
        BY <1>3, <1>4, <1>5, <3>1
      <3> HIDE DEF u
      <3>4. \A v \in SUBSET u : Part(t)[v] = Part(u)[v]
        <4>1. u \subseteq t /\ u \subseteq u /\ Alike(g, g, u)
          BY <3>1 DEF Alike
        <4>2. QED  BY <3>3, <4>1, FoldsAgree
      <3>5. Part(t)[u] = Part(u)[u]
        BY <3>4
      <3>6. Whole[t] = Part(u)[u] + g[Pick(t)]
        BY <2>3 DEF u
      <3>7. QED  BY <3>2, <3>5, <3>6
    <2>4. QED  BY <2>2, <2>3
  <1>6. ASSUME NEW t \in SUBSET s
        PROVE  Whole[t] = IF t = {} THEN 0 ELSE Whole[t \ {Pick(t)}] + g[Pick(t)]
    <2>1. CASE t = {}
      BY <2>1
    <2>2. CASE t # {}
      <3> DEFINE u == t \ {Pick(t)}
      <3>1. u \in SUBSET s /\ u # s
        BY <2>2, PickIsIn
      <3>2. Whole[u] = Part(u)[u]
        BY <1>5, <3>1
      <3>3. Whole[t] = Part(u)[u] + g[Pick(t)]
        BY <2>2
      <3>4. QED  BY <2>2, <3>2, <3>3
    <2>3. QED  BY <2>1, <2>2
  <1>7. Adds(Whole, g, s)
    <2>1. Whole = [t \in SUBSET s |-> Whole[t]]
      OBVIOUS
    <2> HIDE DEF Whole
    <2>2. [t \in SUBSET s |-> Whole[t]]
            = [t \in SUBSET s |-> IF t = {} THEN 0 ELSE Whole[t \ {Pick(t)}] + g[Pick(t)]]
      BY <1>6
    <2>3. QED  BY <2>1, <2>2 DEF Adds
  <1>8. QED  BY <1>2, <1>7

\* Whatever satisfies the equation of the fold is the sum.
LEMMA FoldIsSum ==
    ASSUME NEW S, IsFiniteSet(S), NEW g, NEW h, Adds(h, g, S)
    PROVE  h[S] = Sum(g, S)
  <1>1. PICK f : f = CHOOSE h1 : Adds(h1, g, S)
    OBVIOUS
  <1>2. Adds(f, g, S)
    BY <1>1, FoldExists, Zenon
  <1>3. \A s \in SUBSET S : h[s] = f[s]
    BY <1>2, FoldsAgree DEF Alike
  <1>4. QED  BY <1>1, <1>3 DEF Sum

-----------------------------------------------------------------------------
LEMMA SumEmpty == ASSUME NEW g PROVE Sum(g, {}) = 0
  <1>1. PICK h : Adds(h, g, {})
    BY FoldExists, FS_EmptySet
  <1>2. h[{}] = 0
    BY <1>1 DEF Adds
  <1>3. h[{}] = Sum(g, {})
    BY <1>1, FoldIsSum, FS_EmptySet
  <1>4. QED  BY <1>2, <1>3

\* Only the values on the set count.
LEMMA SumSame ==
    ASSUME NEW S, IsFiniteSet(S), NEW g1, NEW g2, \A x \in S : g1[x] = g2[x]
    PROVE  Sum(g1, S) = Sum(g2, S)
  <1>1. PICK h1 : Adds(h1, g1, S)
    BY FoldExists
  <1>2. PICK h2 : Adds(h2, g2, S)
    BY FoldExists
  <1>3. \A s \in SUBSET S : h1[s] = h2[s]
    <2>1. S \subseteq S /\ Alike(g1, g2, S)
      BY DEF Alike
    <2>2. QED  BY <1>1, <1>2, <2>1, FoldsAgree
  <1>4. QED  BY <1>1, <1>2, <1>3, FoldIsSum

LEMMA SumPicks ==
    ASSUME NEW S, IsFiniteSet(S), S # {}, NEW g
    PROVE  Sum(g, S) = Sum(g, S \ {Pick(S)}) + g[Pick(S)]
  <1> DEFINE s == S \ {Pick(S)}
  <1>1. PICK h : Adds(h, g, S)
    BY FoldExists
  <1>2. h[S] = h[s] + g[Pick(S)]
    BY <1>1 DEF Adds
  <1>3. IsFiniteSet(s) /\ s \subseteq S
    BY FS_Subset
  <1> HIDE DEF s
  <1>4. PICK f : Adds(f, g, s)
    BY <1>3, FoldExists
  <1>5. h[s] = f[s]
    <2>1. \A t \in SUBSET s : h[t] = f[t]
      BY <1>1, <1>3, <1>4, FoldsAgree DEF Alike
    <2>2. QED  BY <2>1
  <1>6. h[S] = Sum(g, S) /\ f[s] = Sum(g, s)
    BY <1>1, <1>3, <1>4, FoldIsSum
  <1>7. QED  BY <1>2, <1>5, <1>6 DEF s

LEMMA SumIsInt ==
    ASSUME NEW S, IsFiniteSet(S), NEW g, \A x \in S : g[x] \in Int
    PROVE  Sum(g, S) \in Int
  <1> DEFINE T == {s \in SUBSET S : Sum(g, s) \notin Int}
  <1>1. SUFFICES ASSUME T # {}  PROVE FALSE
    OBVIOUS
  <1>2. PICK s \in T : \A t \in T : t \subseteq s => t = s
    <2>1. T \in SUBSET SUBSET S
      OBVIOUS
    <2> HIDE DEF T
    <2>2. QED  BY <1>1, <2>1, MinimalSubset
  <1>3. IsFiniteSet(s)
    BY <1>2, FS_Subset
  <1>4. s # {}
    <2>1. Sum(g, {}) = 0
      BY SumEmpty
    <2>2. QED  BY <1>2, <2>1
  <1>5. Sum(g, s) = Sum(g, s \ {Pick(s)}) + g[Pick(s)]
    BY <1>3, <1>4, SumPicks
  <1>6. Pick(s) \in s /\ Sum(g, s \ {Pick(s)}) \in Int
    BY <1>2, <1>4, PickIsIn
  <1>7. QED  BY <1>2, <1>5, <1>6

\* Any element may be taken out first.
LEMMA SumWithout ==
    ASSUME NEW S, IsFiniteSet(S), NEW g, \A x \in S : g[x] \in Int, NEW y \in S
    PROVE  Sum(g, S) = Sum(g, S \ {y}) + g[y]
  <1> DEFINE T == {s \in SUBSET S : \E x \in s : Sum(g, s) # Sum(g, s \ {x}) + g[x]}
  <1>1. SUFFICES ASSUME T # {}  PROVE FALSE
    OBVIOUS
  <1>2. PICK s \in T : \A t \in T : t \subseteq s => t = s
    <2>1. T \in SUBSET SUBSET S
      OBVIOUS
    <2> HIDE DEF T
    <2>2. QED  BY <1>1, <2>1, MinimalSubset
  <1>3. PICK x \in s : Sum(g, s) # Sum(g, s \ {x}) + g[x]
    BY <1>2
  <1>4. PICK p : p = Pick(s)
    OBVIOUS
  <1>5. p \in s /\ s \in SUBSET S
    BY <1>2, <1>3, <1>4, PickIsIn
  <1>6. IsFiniteSet(s) /\ IsFiniteSet(s \ {x}) /\ IsFiniteSet(s \ {p})
        /\ IsFiniteSet((s \ {x}) \ {p})
    BY <1>5, FS_Subset
  <1>7. Sum(g, s) = Sum(g, s \ {p}) + g[p]
    BY <1>3, <1>4, <1>6, SumPicks
  <1>8. x # p
    BY <1>3, <1>7
  <1>9. \A t \in SUBSET s : t # s => \A z \in t : Sum(g, t) = Sum(g, t \ {z}) + g[z]
    BY <1>2
  <1>10. Sum(g, s \ {p}) = Sum(g, (s \ {p}) \ {x}) + g[x]
    BY <1>3, <1>5, <1>8, <1>9
  <1>11. Sum(g, s \ {x}) = Sum(g, (s \ {x}) \ {p}) + g[p]
    BY <1>3, <1>5, <1>8, <1>9
  <1>12. (s \ {p}) \ {x} = (s \ {x}) \ {p}
    OBVIOUS
  <1>13. g[x] \in Int /\ g[p] \in Int /\ \A z \in (s \ {x}) \ {p} : g[z] \in Int
    BY <1>3, <1>5
  <1>14. Sum(g, (s \ {x}) \ {p}) \in Int
    BY <1>6, <1>13, SumIsInt
  <1>15. PICK n : n = Sum(g, (s \ {x}) \ {p})
    OBVIOUS
  <1>16. Sum(g, s) = (n + g[x]) + g[p] /\ Sum(g, s \ {x}) + g[x] = (n + g[p]) + g[x]
    BY <1>7, <1>10, <1>11, <1>12, <1>15
  <1>17. (n + g[x]) + g[p] = (n + g[p]) + g[x]
    BY <1>13, <1>14, <1>15
  <1>18. QED  BY <1>3, <1>16, <1>17

\* One value more, and one value changed.
LEMMA SumWith ==
    ASSUME NEW S, IsFiniteSet(S), NEW g, NEW y, y \notin S,
           \A x \in S \cup {y} : g[x] \in Int
    PROVE  Sum(g, S \cup {y}) = Sum(g, S) + g[y]
  <1>1. IsFiniteSet(S \cup {y}) /\ (S \cup {y}) \ {y} = S
    BY FS_AddElement
  <1>2. QED  BY <1>1, SumWithout

LEMMA SumChanges ==
    ASSUME NEW S, IsFiniteSet(S), NEW g1, NEW g2, NEW y \in S,
           \A x \in S : g1[x] \in Int /\ g2[x] \in Int,
           \A x \in S \ {y} : g1[x] = g2[x]
    PROVE  Sum(g2, S) = Sum(g1, S) + (g2[y] - g1[y])
  <1>1. IsFiniteSet(S \ {y})
    BY FS_RemoveElement
  <1>2. Sum(g1, S \ {y}) = Sum(g2, S \ {y}) /\ Sum(g1, S \ {y}) \in Int
    BY <1>1, SumSame, SumIsInt
  <1>3. Sum(g1, S) = Sum(g1, S \ {y}) + g1[y] /\ Sum(g2, S) = Sum(g2, S \ {y}) + g2[y]
    BY SumWithout
  <1>4. QED  BY <1>2, <1>3

LEMMA SumIsNat ==
    ASSUME NEW S, IsFiniteSet(S), NEW g, \A x \in S : g[x] \in Nat
    PROVE  Sum(g, S) \in Nat
  <1> DEFINE T == {s \in SUBSET S : Sum(g, s) \notin Nat}
  <1>1. SUFFICES ASSUME T # {}  PROVE FALSE
    OBVIOUS
  <1>2. PICK s \in T : \A t \in T : t \subseteq s => t = s
    <2>1. T \in SUBSET SUBSET S
      OBVIOUS
    <2> HIDE DEF T
    <2>2. QED  BY <1>1, <2>1, MinimalSubset
  <1>3. IsFiniteSet(s)
    BY <1>2, FS_Subset
  <1>4. s # {}
    <2>1. Sum(g, {}) = 0
      BY SumEmpty
    <2>2. Sum(g, s) \notin Nat
      BY <1>2
    <2>3. QED  BY <2>1, <2>2
  <1>5. Sum(g, s) = Sum(g, s \ {Pick(s)}) + g[Pick(s)]
    BY <1>3, <1>4, SumPicks
  <1>6. Pick(s) \in s /\ Sum(g, s \ {Pick(s)}) \in Nat
    BY <1>2, <1>4, PickIsIn
  <1>7. QED  BY <1>2, <1>5, <1>6

LEMMA SumOfZeros ==
    ASSUME NEW S, IsFiniteSet(S), NEW g, \A x \in S : g[x] = 0
    PROVE  Sum(g, S) = 0
  <1> DEFINE T == {s \in SUBSET S : Sum(g, s) # 0}
  <1>1. SUFFICES ASSUME T # {}
                 PROVE  FALSE
    OBVIOUS
  <1>2. PICK s \in T : \A t \in T : t \subseteq s => t = s
    <2>1. T \in SUBSET SUBSET S
      OBVIOUS
    <2> HIDE DEF T
    <2>2. QED  BY <1>1, <2>1, MinimalSubset
  <1>3. IsFiniteSet(s) /\ s \subseteq S /\ Sum(g, s) # 0
    BY FS_Subset
  <1>4. s # {}
    BY <1>3, SumEmpty
  <1>5. Pick(s) \in s
    BY <1>4, PickIsIn
  <1>6. Sum(g, s) = Sum(g, s \ {Pick(s)}) + g[Pick(s)]
    BY <1>3, <1>4, SumPicks
  <1>7. Sum(g, s \ {Pick(s)}) = 0
    BY <1>2, <1>3, <1>5
  <1>8. g[Pick(s)] = 0
    BY <1>3, <1>5
  <1>9. QED  BY <1>3, <1>6, <1>7, <1>8
=============================================================================
