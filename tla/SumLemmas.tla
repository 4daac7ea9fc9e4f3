----------------------------- MODULE SumLemmas -----------------------------
(***************************************************************************)
(* What SumFunction and SumFunctionOnSet of the Functions module compute   *)
(* over a finite set, whatever order they take its elements in.  The       *)
(* library defines them by a recursive function over the subsets; here     *)
(* that recursion is shown to have its solution, and the facts the proofs  *)
(* about energy need are drawn from it.                                    *)
(*                                                                         *)
(* Each is shown on a smallest set where it might fail: a set of subsets   *)
(* of a finite set that is not empty has a member without a smaller one.   *)
(***************************************************************************)
EXTENDS Functions, Sequences, FiniteSets, FiniteSetTheorems, SequenceTheorems, TLAPS

First(s) == CHOOSE x \in s : TRUE
Rest(s) == s \ {First(s)}

\* g adds f up over every subset of S.
Adds(g, f, S) ==
  \A s \in SUBSET S : g[s] = IF s = {} THEN 0 ELSE f[First(s)] + g[Rest(s)]

\* Induction over finite sets, as a least counterexample.
LEMMA SmallestSet ==
  ASSUME NEW S, IsFiniteSet(S), NEW B, B \subseteq SUBSET S, B # {}
  PROVE  \E T \in B : \A U \in B : U \subseteq T => U = T
<1>1. IsWellFoundedOn(StrictSubsetOrdering(S), FiniteSubsetsOf(S))
  BY FS_StrictSubsetOrderingWellFounded
<1>2. B \subseteq FiniteSubsetsOf(S)
  BY FS_Subset DEF FiniteSubsetsOf
<1>3. PICK T \in B : \A U \in B : <<U, T>> \notin StrictSubsetOrdering(S)
  BY <1>1, <1>2, WFMin, Zenon
<1>4. ASSUME NEW U \in B, U \subseteq T PROVE U = T
  BY <1>3, <1>4 DEF StrictSubsetOrdering
<1> QED BY <1>4

\* Induction over the naturals, as a least counterexample.
LEMMA LeastNumber ==
  ASSUME NEW B, B \subseteq Nat, B # {}
  PROVE  \E n \in B : \A m \in B : n <= m
<1> PICK b \in B : TRUE
  OBVIOUS
<1> DEFINE All == 1..b
           Up == {1..m : m \in {n \in B : n <= b}}
<1>1. IsFiniteSet(All)
  BY FS_Interval
<1>2. Up \subseteq SUBSET All /\ Up # {}
  <2>1. ASSUME NEW m \in B, m <= b PROVE 1..m \subseteq 1..b
    <3>1. m \in Nat /\ b \in Nat
      OBVIOUS
    <3>2. ASSUME NEW i \in 1..m PROVE i \in 1..b
      BY <2>1, <3>1
    <3> QED BY <3>2
  <2>2. b \in {n \in B : n <= b}
    OBVIOUS
  <2> QED BY <2>1, <2>2
<1>3. PICK T \in Up : \A U \in Up : U \subseteq T => U = T
  <2> HIDE DEF Up, All
  <2> QED BY <1>1, <1>2, SmallestSet
<1>4. PICK n \in B : T = 1..n /\ n <= b
  BY <1>3
<1>5. ASSUME NEW m \in B, m < n PROVE FALSE
  <2>1. 1..m \in Up /\ 1..m \subseteq T
    BY <1>4, <1>5
  <2>2. 1..m = 1..n
    BY <1>3, <1>4, <2>1
  <2>3. n \in 1..n /\ n \notin 1..m
    BY <1>5
  <2> QED BY <2>2, <2>3
<1> QED BY <1>5

\* Induction over sequences, as a least counterexample.
LEMMA EverySequence ==
  ASSUME NEW T, NEW G, <<>> \in G,
         \A s \in Seq(T) : \A x \in T : s \in G => Append(s, x) \in G
  PROVE  Seq(T) \subseteq G
<1> DEFINE Bad == {s \in Seq(T) : s \notin G}
           B == {Len(s) : s \in Bad}
<1> SUFFICES ASSUME Bad # {} PROVE FALSE
  OBVIOUS
<1>1. PICK n \in B : \A m \in B : n <= m
  <2>1. B \subseteq Nat /\ B # {}
    OBVIOUS
  <2> HIDE DEF B
  <2> QED BY <2>1, LeastNumber
<1>2. PICK s \in Bad : n = Len(s)
  BY <1>1
<1>3. PICK r \in Seq(T), x \in T : s = Append(r, x)
  <2>1. s \in Seq(T) /\ s # <<>>
    OBVIOUS
  <2> QED BY <2>1, SequenceEmptyOrAppend
<1>4. r \in G
  <2>1. Len(r) \in Nat /\ Len(s) = Len(r) + 1
    BY <1>3
  <2>2. Len(r) \notin B
    <3> HIDE DEF B
    <3> QED BY <1>1, <1>2, <2>1
  <2> QED BY <2>2
<1> QED BY <1>3, <1>4

\* First takes one of the elements, and Rest leaves the others.
LEMMA FirstAndRest ==
  ASSUME NEW s, s # {}
  PROVE  First(s) \in s /\ Rest(s) \subseteq s /\ Rest(s) # s /\ s = Rest(s) \union {First(s)}
BY DEF First, Rest

\* Two functions that add f up agree on every set both add up.
LEMMA AddsOneWay ==
  ASSUME NEW f, NEW S, IsFiniteSet(S), NEW T, NEW g, NEW h, Adds(g, f, S), Adds(h, f, T),
         NEW s \in SUBSET S, s \subseteq T
  PROVE  g[s] = h[s]
<1> DEFINE B == {u \in SUBSET S : u \subseteq T /\ g[u] # h[u]}
<1> SUFFICES ASSUME B # {} PROVE FALSE
  OBVIOUS
<1>1. PICK u \in B : \A v \in B : v \subseteq u => v = u
  <2>1. B \subseteq SUBSET S
    OBVIOUS
  <2> HIDE DEF B
  <2> QED BY <2>1, SmallestSet
<1>2. u # {}
  BY DEF Adds
<1>3. Rest(u) \in SUBSET S /\ Rest(u) \subseteq T /\ Rest(u) \notin B
  BY <1>1, <1>2, FirstAndRest
<1>4. g[u] = f[First(u)] + g[Rest(u)] /\ h[u] = f[First(u)] + h[Rest(u)]
  BY <1>2 DEF Adds
<1> QED BY <1>3, <1>4

\* The recursion has a solution.
LEMMA AddsExists ==
  ASSUME NEW f, NEW S, IsFiniteSet(S)
  PROVE  \E g : Adds(g, f, S)
<1> DEFINE B == {T \in SUBSET S : ~ \E g : Adds(g, f, T)}
<1> SUFFICES ASSUME B # {} PROVE FALSE
  OBVIOUS
<1>1. PICK T \in B : \A U \in B : U \subseteq T => U = T
  <2>1. B \subseteq SUBSET S
    OBVIOUS
  <2> HIDE DEF B
  <2> QED BY <2>1, SmallestSet
<1> DEFINE Below(s) == CHOOSE g : Adds(g, f, s)
           sum == [s \in SUBSET T |->
                     IF s = {} THEN 0
                     ELSE IF s # T THEN Below(s)[s] ELSE f[First(T)] + Below(Rest(T))[Rest(T)]]
<1>2. ASSUME NEW s \in SUBSET T, s # T PROVE Adds(Below(s), f, s)
  BY <1>1, <1>2
<1>3. ASSUME NEW s \in SUBSET T PROVE sum[s] = IF s = {} THEN 0 ELSE f[First(s)] + sum[Rest(s)]
  <2>1. CASE s = {}
    BY <2>1
  <2>2. CASE s # {}
    <3>1. Rest(s) \in SUBSET T /\ Rest(s) # T /\ Rest(s) # s
      BY <2>2, FirstAndRest
    <3>2. sum[Rest(s)] = Below(Rest(s))[Rest(s)]
      <4>1. CASE Rest(s) = {}
        BY <3>1, <4>1, <1>2 DEF Adds
      <4> QED BY <3>1, <4>1
    <3>3. CASE s = T
      BY <2>2, <3>2, <3>3
    <3>4. CASE s # T
      <4>1. Adds(Below(s), f, s) /\ Adds(Below(Rest(s)), f, Rest(s))
        BY <1>2, <3>1, <3>4
      <4>2. IsFiniteSet(s) /\ Rest(s) \in SUBSET s
        BY <2>2, FirstAndRest, FS_Subset
      <4>3. Below(s)[Rest(s)] = Below(Rest(s))[Rest(s)]
        BY <4>1, <4>2, AddsOneWay
      <4>4. Below(s)[s] = f[First(s)] + Below(s)[Rest(s)]
        BY <2>2, <4>1 DEF Adds
      <4>5. sum[s] = Below(s)[s]
        BY <2>2, <3>4
      <4> QED BY <2>2, <3>2, <4>3, <4>4, <4>5
    <3> QED BY <3>3, <3>4
  <2> QED BY <2>1, <2>2
<1>4. Adds(sum, f, T)
  BY <1>3 DEF Adds
<1> QED BY <1>1, <1>4

-----------------------------------------------------------------------------
\* The sum over nothing, and the sum over s by its first element.
LEMMA SumStep ==
  ASSUME NEW f, NEW s, IsFiniteSet(s)
  PROVE  SumFunctionOnSet(f, s)
           = IF s = {} THEN 0 ELSE f[First(s)] + SumFunctionOnSet(f, Rest(s))
<1> DEFINE Sum(u) == CHOOSE g : g = [v \in SUBSET u |->
                       IF v = {} THEN 0 ELSE f[First(v)] + g[Rest(v)]]
<1>1. ASSUME NEW u PROVE SumFunctionOnSet(f, u) = Sum(u)[u]
  BY DEF SumFunctionOnSet, FoldFunctionOnSet, MapThenFoldSet, First, Rest
<1>2. ASSUME NEW u, IsFiniteSet(u) PROVE Adds(Sum(u), f, u)
  <2>1. PICK g : Adds(g, f, u)
    BY <1>2, AddsExists
  <2> DEFINE h == [v \in SUBSET u |-> g[v]]
  <2>2. h = [v \in SUBSET u |-> IF v = {} THEN 0 ELSE f[First(v)] + h[Rest(v)]]
    <3>1. ASSUME NEW v \in SUBSET u
          PROVE  h[v] = IF v = {} THEN 0 ELSE f[First(v)] + h[Rest(v)]
      BY <2>1, FirstAndRest DEF Adds
    <3> QED BY <3>1
  <2>3. Sum(u) = [v \in SUBSET u |-> IF v = {} THEN 0 ELSE f[First(v)] + Sum(u)[Rest(v)]]
    BY <2>2
  <2> QED BY <2>3 DEF Adds
<1> HIDE DEF Sum
<1>3. CASE s = {}
  BY <1>1, <1>2, <1>3 DEF Adds
<1>4. CASE s # {}
  <2>1. Rest(s) \in SUBSET s /\ IsFiniteSet(Rest(s))
    BY <1>4, FirstAndRest, FS_Subset
  <2>2. Sum(s)[Rest(s)] = Sum(Rest(s))[Rest(s)]
    BY <2>1, <1>2, AddsOneWay
  <2>3. Sum(s)[s] = f[First(s)] + Sum(s)[Rest(s)]
    BY <1>2, <1>4 DEF Adds
  <2> QED BY <1>1, <1>4, <2>2, <2>3
<1> QED BY <1>3, <1>4

LEMMA SumOfNothing ==
  ASSUME NEW f PROVE SumFunctionOnSet(f, {}) = 0
BY FS_EmptySet, SumStep

\* A smallest set that fails a claim holding for {} is one First and one Rest,
\* for which the claim holds.
LEMMA SmallestFailure ==
  ASSUME NEW S, IsFiniteSet(S), NEW B, B \subseteq SUBSET S, B # {}, {} \notin B
  PROVE  \E u \in B : /\ u # {} /\ IsFiniteSet(u) /\ First(u) \in S
                      /\ IsFiniteSet(Rest(u)) /\ Rest(u) \subseteq S /\ Rest(u) \notin B
<1>1. PICK u \in B : \A v \in B : v \subseteq u => v = u
  BY SmallestSet
<1>2. First(u) \in S /\ Rest(u) \in SUBSET S /\ Rest(u) \notin B
  BY <1>1, FirstAndRest
<1>3. IsFiniteSet(u) /\ IsFiniteSet(Rest(u))
  BY <1>2, FS_Subset
<1> QED BY <1>2, <1>3

\* A sum of natural numbers is one.
LEMMA SumIsNat ==
  ASSUME NEW f, NEW s, IsFiniteSet(s), \A x \in s : f[x] \in Nat
  PROVE  SumFunctionOnSet(f, s) \in Nat
<1> DEFINE B == {u \in SUBSET s : SumFunctionOnSet(f, u) \notin Nat}
<1>1. {} \notin B /\ B \subseteq SUBSET s
  BY SumOfNothing
<1>2. ASSUME B # {} PROVE FALSE
  <2>1. PICK u \in B : /\ u # {} /\ IsFiniteSet(u) /\ First(u) \in s
                      /\ IsFiniteSet(Rest(u)) /\ Rest(u) \subseteq s /\ Rest(u) \notin B
    <3> HIDE DEF B
    <3> QED BY <1>1, <1>2, SmallestFailure
  <2>2. SumFunctionOnSet(f, u) = f[First(u)] + SumFunctionOnSet(f, Rest(u))
    BY <2>1, SumStep
  <2> QED BY <2>1, <2>2
<1> QED BY <1>2

\* A sum depends on the summands alone.
LEMMA SumSame ==
  ASSUME NEW f, NEW g, NEW s, IsFiniteSet(s), \A x \in s : f[x] = g[x]
  PROVE  SumFunctionOnSet(f, s) = SumFunctionOnSet(g, s)
<1> DEFINE B == {u \in SUBSET s : SumFunctionOnSet(f, u) # SumFunctionOnSet(g, u)}
<1>1. {} \notin B /\ B \subseteq SUBSET s
  BY SumOfNothing
<1>2. ASSUME B # {} PROVE FALSE
  <2>1. PICK u \in B : /\ u # {} /\ IsFiniteSet(u) /\ First(u) \in s
                      /\ IsFiniteSet(Rest(u)) /\ Rest(u) \subseteq s /\ Rest(u) \notin B
    <3> HIDE DEF B
    <3> QED BY <1>1, <1>2, SmallestFailure
  <2>2. /\ SumFunctionOnSet(f, u) = f[First(u)] + SumFunctionOnSet(f, Rest(u))
        /\ SumFunctionOnSet(g, u) = g[First(u)] + SumFunctionOnSet(g, Rest(u))
    BY <2>1, SumStep
  <2> QED BY <2>1, <2>2
<1> QED BY <1>2

\* The sum of the sums is the sum, element by element.
LEMMA SumOfBoth ==
  ASSUME NEW f, NEW g, NEW h, NEW s, IsFiniteSet(s),
         \A x \in s : f[x] \in Nat /\ g[x] \in Nat /\ h[x] = f[x] + g[x]
  PROVE  SumFunctionOnSet(h, s) = SumFunctionOnSet(f, s) + SumFunctionOnSet(g, s)
<1> DEFINE B == {u \in SUBSET s : SumFunctionOnSet(h, u) # SumFunctionOnSet(f, u) + SumFunctionOnSet(g, u)}
<1>1. {} \notin B /\ B \subseteq SUBSET s
  BY SumOfNothing
<1>2. ASSUME B # {} PROVE FALSE
  <2>1. PICK u \in B : /\ u # {} /\ IsFiniteSet(u) /\ First(u) \in s
                      /\ IsFiniteSet(Rest(u)) /\ Rest(u) \subseteq s /\ Rest(u) \notin B
    <3> HIDE DEF B
    <3> QED BY <1>1, <1>2, SmallestFailure
  <2>2. /\ SumFunctionOnSet(f, u) = f[First(u)] + SumFunctionOnSet(f, Rest(u))
        /\ SumFunctionOnSet(g, u) = g[First(u)] + SumFunctionOnSet(g, Rest(u))
        /\ SumFunctionOnSet(h, u) = h[First(u)] + SumFunctionOnSet(h, Rest(u))
    BY <2>1, SumStep
  <2>3. SumFunctionOnSet(f, Rest(u)) \in Nat /\ SumFunctionOnSet(g, Rest(u)) \in Nat
    BY <2>1, SumIsNat
  <2> QED BY <2>1, <2>2, <2>3
<1> QED BY <1>2

\* Larger summands, larger sum.
LEMMA SumAtMost ==
  ASSUME NEW f, NEW g, NEW s, IsFiniteSet(s),
         \A x \in s : f[x] \in Nat /\ g[x] \in Nat /\ f[x] <= g[x]
  PROVE  SumFunctionOnSet(f, s) <= SumFunctionOnSet(g, s)
<1> DEFINE B == {u \in SUBSET s : ~(SumFunctionOnSet(f, u) <= SumFunctionOnSet(g, u))}
<1>1. {} \notin B /\ B \subseteq SUBSET s
  BY SumOfNothing
<1>2. ASSUME B # {} PROVE FALSE
  <2>1. PICK u \in B : /\ u # {} /\ IsFiniteSet(u) /\ First(u) \in s
                      /\ IsFiniteSet(Rest(u)) /\ Rest(u) \subseteq s /\ Rest(u) \notin B
    <3> HIDE DEF B
    <3> QED BY <1>1, <1>2, SmallestFailure
  <2>2. /\ SumFunctionOnSet(f, u) = f[First(u)] + SumFunctionOnSet(f, Rest(u))
        /\ SumFunctionOnSet(g, u) = g[First(u)] + SumFunctionOnSet(g, Rest(u))
    BY <2>1, SumStep
  <2>3. SumFunctionOnSet(f, Rest(u)) \in Nat /\ SumFunctionOnSet(g, Rest(u)) \in Nat
    BY <2>1, SumIsNat
  <2> QED BY <2>1, <2>2, <2>3
<1> QED BY <1>2

\* A factor of every summand is one of the sum.
LEMMA SumScaled ==
  ASSUME NEW f, NEW g, NEW s, IsFiniteSet(s), NEW c \in Nat,
         \A x \in s : f[x] \in Nat /\ g[x] = c * f[x]
  PROVE  SumFunctionOnSet(g, s) = c * SumFunctionOnSet(f, s)
<1> DEFINE B == {u \in SUBSET s : SumFunctionOnSet(g, u) # c * SumFunctionOnSet(f, u)}
<1>1. {} \notin B /\ B \subseteq SUBSET s
  BY SumOfNothing
<1>2. ASSUME B # {} PROVE FALSE
  <2>1. PICK u \in B : /\ u # {} /\ IsFiniteSet(u) /\ First(u) \in s
                      /\ IsFiniteSet(Rest(u)) /\ Rest(u) \subseteq s /\ Rest(u) \notin B
    <3> HIDE DEF B
    <3> QED BY <1>1, <1>2, SmallestFailure
  <2>2. /\ SumFunctionOnSet(f, u) = f[First(u)] + SumFunctionOnSet(f, Rest(u))
        /\ SumFunctionOnSet(g, u) = g[First(u)] + SumFunctionOnSet(g, Rest(u))
    BY <2>1, SumStep
  <2>3. SumFunctionOnSet(f, Rest(u)) \in Nat
    BY <2>1, SumIsNat
  <2> QED BY <2>1, <2>2, <2>3
<1> QED BY <1>2

\* Any element may be taken out first.
LEMMA SumTakes ==
  ASSUME NEW f, NEW s, IsFiniteSet(s), \A x \in s : f[x] \in Nat, NEW y \in s
  PROVE  SumFunctionOnSet(f, s) = f[y] + SumFunctionOnSet(f, s \ {y})
<1> DEFINE Sum(u) == SumFunctionOnSet(f, u)
           B == {u \in SUBSET s : \E x \in u : Sum(u) # f[x] + Sum(u \ {x})}
<1>1. ASSUME B # {} PROVE FALSE
  <2>1. PICK u \in B : \A v \in B : v \subseteq u => v = u
    <3>1. B \subseteq SUBSET s
      OBVIOUS
    <3> HIDE DEF B
    <3> QED BY <1>1, <3>1, SmallestSet
  <2>2. PICK x \in u : Sum(u) # f[x] + Sum(u \ {x})
    OBVIOUS
  <2>3. First(u) \in u /\ Rest(u) = u \ {First(u)}
    BY <2>2, FirstAndRest DEF Rest
  <2>4. \A v \in SUBSET u : IsFiniteSet(v)
    BY FS_Subset
  <2>5. Sum(u) = f[First(u)] + Sum(u \ {First(u)})
    <3>1. u # {} /\ IsFiniteSet(u)
      BY <2>2, <2>4
    <3>2. SumFunctionOnSet(f, u) = f[First(u)] + SumFunctionOnSet(f, Rest(u))
      BY <3>1, SumStep
    <3> QED BY <2>3, <3>2
  <2>6. x # First(u)
    BY <2>2, <2>5
  <2>7. u \ {First(u)} \notin B /\ u \ {x} \notin B
    BY <2>1, <2>2, <2>3
  <2>8. Sum(u \ {First(u)}) = f[x] + Sum((u \ {First(u)}) \ {x})
    BY <2>2, <2>6, <2>7
  <2>9. Sum(u \ {x}) = f[First(u)] + Sum((u \ {x}) \ {First(u)})
    BY <2>3, <2>6, <2>7
  <2>10. (u \ {x}) \ {First(u)} = (u \ {First(u)}) \ {x}
    OBVIOUS
  <2>11. Sum((u \ {x}) \ {First(u)}) \in Nat
    BY <2>4, SumIsNat
  <2>12. f[x] \in Nat /\ f[First(u)] \in Nat
    BY <2>2, <2>3
  <2> HIDE DEF Sum, B
  <2> QED BY <2>2, <2>5, <2>8, <2>9, <2>10, <2>11, <2>12
<1> QED BY <1>1

\* Summands at most as large, and one of them smaller: a smaller sum.
LEMMA SumBelow ==
  ASSUME NEW f, NEW g, NEW s, IsFiniteSet(s),
         \A x \in s : f[x] \in Nat /\ g[x] \in Nat /\ f[x] <= g[x],
         NEW y \in s, f[y] < g[y]
  PROVE  SumFunctionOnSet(f, s) < SumFunctionOnSet(g, s)
<1>1. IsFiniteSet(s \ {y})
  BY FS_RemoveElement
<1>2. SumFunctionOnSet(f, s \ {y}) <= SumFunctionOnSet(g, s \ {y})
  BY <1>1, SumAtMost
<1>3. SumFunctionOnSet(f, s \ {y}) \in Nat /\ SumFunctionOnSet(g, s \ {y}) \in Nat
  BY <1>1, SumIsNat
<1>4. /\ SumFunctionOnSet(f, s) = f[y] + SumFunctionOnSet(f, s \ {y})
      /\ SumFunctionOnSet(g, s) = g[y] + SumFunctionOnSet(g, s \ {y})
  BY SumTakes
<1> QED BY <1>2, <1>3, <1>4

\* A sum is zero exactly when its summands are.
LEMMA SumIsZero ==
  ASSUME NEW f, NEW s, IsFiniteSet(s), \A x \in s : f[x] \in Nat
  PROVE  SumFunctionOnSet(f, s) = 0 <=> \A x \in s : f[x] = 0
<1>1. ASSUME \A x \in s : f[x] = 0 PROVE SumFunctionOnSet(f, s) = 0
  <2> DEFINE sum == SumFunctionOnSet(f, s)
  <2>1. sum \in Nat
    BY SumIsNat
  <2>2. sum = sum + sum
    BY <1>1, SumOfBoth
  <2>3. ASSUME NEW n \in Nat, n = n + n PROVE n = 0
    BY <2>3
  <2> HIDE DEF sum
  <2>4. sum = 0
    BY <2>1, <2>2, <2>3
  <2> QED BY <2>4 DEF sum
<1>2. ASSUME NEW x \in s, SumFunctionOnSet(f, s) = 0 PROVE f[x] = 0
  <2>1. SumFunctionOnSet(f, s \ {x}) \in Nat
    BY FS_RemoveElement, SumIsNat
  <2> QED BY <1>2, <2>1, SumTakes
<1> QED BY <1>1, <1>2

\* A quotient of sums is no larger than the largest quotient of its summands.
LEMMA SumRatio ==
  ASSUME NEW f, NEW g, NEW s, IsFiniteSet(s),
         \A x \in s : f[x] \in Nat /\ g[x] \in Nat /\ f[x] <= g[x],
         SumFunctionOnSet(g, s) # 0
  PROVE  \E x \in s : /\ g[x] # 0
                      /\ SumFunctionOnSet(f, s) * g[x] <= f[x] * SumFunctionOnSet(g, s)
<1> DEFINE F == SumFunctionOnSet(f, s)
           G == SumFunctionOnSet(g, s)
           over == [x \in s |-> F * g[x]]
           under == [x \in s |-> G * f[x]]
<1>1. F \in Nat /\ G \in Nat
  BY SumIsNat
<1>2. PICK y \in s : g[y] # 0
  BY SumIsZero
<1> SUFFICES ASSUME \A x \in s : g[x] # 0 => ~(F * g[x] <= f[x] * G)
             PROVE  FALSE
  OBVIOUS
<1> HIDE DEF F, G
<1>3. \A x \in s : over[x] \in Nat /\ under[x] \in Nat /\ under[x] <= over[x]
  <2>1. ASSUME NEW x \in s PROVE over[x] \in Nat /\ under[x] \in Nat /\ under[x] <= over[x]
    <3>1. F * g[x] \in Nat /\ G * f[x] \in Nat /\ G * f[x] = f[x] * G
      BY <1>1
    <3>2. CASE g[x] = 0
      <4>1. f[x] = 0
        BY <3>2
      <4> QED BY <1>1, <3>2, <4>1
    <3>3. CASE g[x] # 0
      BY <3>1, <3>3
    <3> QED BY <3>2, <3>3
  <2> QED BY <2>1
<1>4. under[y] < over[y]
  BY <1>1, <1>2
<1>5. SumFunctionOnSet(under, s) < SumFunctionOnSet(over, s)
  <2> HIDE DEF under, over
  <2> QED BY <1>3, <1>4, SumBelow
<1>6. SumFunctionOnSet(over, s) = F * G /\ SumFunctionOnSet(under, s) = G * F
  <2>1. \A x \in s : over[x] = F * g[x] /\ under[x] = G * f[x]
    OBVIOUS
  <2> HIDE DEF over, under
  <2>2. SumFunctionOnSet(over, s) = F * SumFunctionOnSet(g, s)
    BY <1>1, <2>1, SumScaled
  <2>3. SumFunctionOnSet(under, s) = G * SumFunctionOnSet(f, s)
    BY <1>1, <2>1, SumScaled
  <2> QED BY <2>2, <2>3 DEF F, G
<1>7. F * G \in Int /\ G * F = F * G
  BY <1>1
<1> QED BY <1>5, <1>6, <1>7

\* What is zero need not be added.
LEMMA SumSupport ==
  ASSUME NEW f, NEW s, IsFiniteSet(s), \A x \in s : f[x] \in Nat,
         NEW t \in SUBSET s, \A x \in s \ t : f[x] = 0
  PROVE  SumFunctionOnSet(f, s) = SumFunctionOnSet(f, t)
<1> DEFINE Sum(u) == SumFunctionOnSet(f, u)
           B == {u \in SUBSET s : Sum(u) # Sum(u \intersect t)}
<1>1. {} \notin B /\ B \subseteq SUBSET s
  BY SumOfNothing
<1>2. ASSUME B # {} PROVE FALSE
  <2>1. PICK u \in B : /\ u # {} /\ IsFiniteSet(u) /\ First(u) \in s
                      /\ IsFiniteSet(Rest(u)) /\ Rest(u) \subseteq s /\ Rest(u) \notin B
    <3> HIDE DEF B
    <3> QED BY <1>1, <1>2, SmallestFailure
  <2>2. Sum(u) = f[First(u)] + Sum(Rest(u)) /\ Sum(Rest(u)) \in Nat
    BY <2>1, SumStep, SumIsNat
  <2>3. Sum(Rest(u)) = Sum(Rest(u) \intersect t)
    BY <2>1
  <2>4. First(u) \in u /\ Rest(u) = u \ {First(u)}
    BY <2>1, FirstAndRest DEF Rest
  <2>5. CASE First(u) \in t
    <3>1. IsFiniteSet(u \intersect t) /\ First(u) \in u \intersect t
      BY <2>1, <2>4, <2>5, FS_Subset
    <3>2. Sum(u \intersect t) = f[First(u)] + Sum((u \intersect t) \ {First(u)})
      BY <3>1, SumTakes
    <3>3. (u \intersect t) \ {First(u)} = Rest(u) \intersect t
      BY <2>4
    <3> QED BY <2>1, <2>2, <2>3, <3>2, <3>3
  <2>6. CASE First(u) \notin t
    <3>1. u \intersect t = Rest(u) \intersect t /\ f[First(u)] = 0
      BY <2>1, <2>4, <2>6
    <3> QED BY <2>1, <2>2, <2>3, <3>1
  <2> QED BY <2>5, <2>6
<1>3. s \intersect t = t /\ s \in SUBSET s
  OBVIOUS
<1> QED BY <1>2, <1>3

\* A set counts a one for each of its elements.
LEMMA SumOfOnes ==
  ASSUME NEW f, NEW s, IsFiniteSet(s), \A x \in s : f[x] = 1
  PROVE  SumFunctionOnSet(f, s) = Cardinality(s)
<1> DEFINE B == {u \in SUBSET s : SumFunctionOnSet(f, u) # Cardinality(u)}
<1>1. {} \notin B /\ B \subseteq SUBSET s
  BY SumOfNothing, FS_EmptySet
<1>2. ASSUME B # {} PROVE FALSE
  <2>1. PICK u \in B : /\ u # {} /\ IsFiniteSet(u) /\ First(u) \in s
                      /\ IsFiniteSet(Rest(u)) /\ Rest(u) \subseteq s /\ Rest(u) \notin B
    <3> HIDE DEF B
    <3> QED BY <1>1, <1>2, SmallestFailure
  <2>2. SumFunctionOnSet(f, u) = 1 + SumFunctionOnSet(f, Rest(u))
    BY <2>1, SumStep
  <2>3. First(u) \in u /\ Rest(u) = u \ {First(u)}
    BY <2>1, FirstAndRest DEF Rest
  <2>4. Cardinality(Rest(u)) = Cardinality(u) - 1 /\ Cardinality(u) \in Nat
    BY <2>1, <2>3, FS_RemoveElement, FS_CardinalityType
  <2> QED BY <2>1, <2>2, <2>4
<1> QED BY <1>2

\* A sum is at least the number of its summands that are not zero, and that
\* exactly when none is above one.
LEMMA SumCounts ==
  ASSUME NEW f, NEW s, IsFiniteSet(s), \A x \in s : f[x] \in Nat
  PROVE  LET n == Cardinality({x \in s : f[x] > 0})
         IN  /\ n \in Nat /\ n <= SumFunctionOnSet(f, s)
             /\ n = SumFunctionOnSet(f, s) <=> \A x \in s : f[x] <= 1
<1> DEFINE t == {x \in s : f[x] > 0}
           n == Cardinality(t)
           one == [x \in s |-> IF f[x] > 0 THEN 1 ELSE 0]
<1>1. IsFiniteSet(t) /\ t \in SUBSET s
  BY FS_Subset
<1>2. n \in Nat
  BY <1>1, FS_CardinalityType
<1>3. /\ \A x \in s : one[x] \in Nat /\ one[x] <= f[x]
      /\ \A x \in s \ t : one[x] = 0
      /\ \A x \in t : one[x] = 1
      /\ \A x \in s : f[x] > 1 => one[x] < f[x]
      /\ \A x \in s : f[x] <= 1 => one[x] = f[x]
  OBVIOUS
<1> HIDE DEF one, t
<1>4. SumFunctionOnSet(one, s) = n
  <2>1. SumFunctionOnSet(one, s) = SumFunctionOnSet(one, t)
    BY <1>1, <1>3, SumSupport
  <2>2. SumFunctionOnSet(one, t) = n
    BY <1>1, <1>3, SumOfOnes
  <2> QED BY <2>1, <2>2
<1>5. n <= SumFunctionOnSet(f, s)
  BY <1>3, <1>4, SumAtMost
<1>6. ASSUME NEW x \in s, ~(f[x] <= 1) PROVE n # SumFunctionOnSet(f, s)
  <2>1. one[x] < f[x]
    BY <1>3, <1>6
  <2>2. SumFunctionOnSet(one, s) < SumFunctionOnSet(f, s)
    BY <1>3, <2>1, SumBelow
  <2>3. SumFunctionOnSet(f, s) \in Nat
    BY SumIsNat
  <2> QED BY <1>2, <1>4, <2>2, <2>3
<1>7. ASSUME \A x \in s : f[x] <= 1 PROVE n = SumFunctionOnSet(f, s)
  <2>1. \A x \in s : one[x] = f[x]
    BY <1>3, <1>7
  <2> QED BY <1>4, <2>1, SumSame
<1> QED BY <1>2, <1>5, <1>6, <1>7 DEF t

LEMMA ImageIsFinite ==
  ASSUME NEW g, NEW u, IsFiniteSet(u)
  PROVE  /\ IsFiniteSet({g[i] : i \in u})
         /\ Cardinality({g[i] : i \in u}) = Cardinality(u) <=> \A i, k \in u : g[i] = g[k] => i = k
<1> DEFINE im == {g[i] : i \in u}
           h == [i \in u |-> g[i]]
<1>1. h \in Surjection(u, im)
  BY DEF Surjection
<1>2. h \in Injection(u, im) <=> \A i, k \in u : g[i] = g[k] => i = k
  BY DEF Injection, IsInjective
<1> HIDE DEF im, h
<1>3. IsFiniteSet(im) /\ (Cardinality(im) = Cardinality(u) <=> h \in Injection(u, im))
  BY <1>1, FS_Surjection
<1> QED BY <1>2, <1>3 DEF im

\* The same summands under other names.
LEMMA SumReindex ==
  ASSUME NEW f, NEW g, NEW h, NEW d, IsFiniteSet(d),
         \A i \in d : h[i] \in Nat /\ h[i] = f[g[i]],
         \A i, k \in d : g[i] = g[k] => i = k
  PROVE  SumFunctionOnSet(h, d) = SumFunctionOnSet(f, {g[i] : i \in d})
<1> DEFINE Im(u) == {g[i] : i \in u}
           B == {u \in SUBSET d : SumFunctionOnSet(h, u) # SumFunctionOnSet(f, Im(u))}
<1>1. {} \notin B /\ B \subseteq SUBSET d
  <2>1. Im({}) = {}
    OBVIOUS
  <2> QED BY <2>1, SumOfNothing
<1>2. ASSUME B # {} PROVE FALSE
  <2>1. PICK u \in B : /\ u # {} /\ IsFiniteSet(u) /\ First(u) \in d
                      /\ IsFiniteSet(Rest(u)) /\ Rest(u) \subseteq d /\ Rest(u) \notin B
    <3> HIDE DEF B
    <3> QED BY <1>1, <1>2, SmallestFailure
  <2>2. SumFunctionOnSet(h, u) = h[First(u)] + SumFunctionOnSet(h, Rest(u))
    BY <2>1, SumStep
  <2>3. First(u) \in u /\ Rest(u) = u \ {First(u)}
    BY <2>1, FirstAndRest DEF Rest
  <2>4. IsFiniteSet(Im(u))
    BY <2>1, ImageIsFinite
  <2>5. Im(u) \ {g[First(u)]} = Im(Rest(u)) /\ g[First(u)] \in Im(u)
    BY <2>1, <2>3
  <2>6. \A y \in Im(u) : f[y] \in Nat
    BY <2>1
  <2>7. SumFunctionOnSet(f, Im(u)) = f[g[First(u)]] + SumFunctionOnSet(f, Im(Rest(u)))
    <3> HIDE DEF Im
    <3> QED BY <2>4, <2>5, <2>6, SumTakes
  <2>8. SumFunctionOnSet(h, Rest(u)) = SumFunctionOnSet(f, Im(Rest(u)))
    BY <2>1
  <2> QED BY <2>1, <2>2, <2>7, <2>8
<1> QED BY <1>2

\* The sum of the rows of a matrix is that of its columns.
LEMMA SumExchange ==
  ASSUME NEW m, NEW s, IsFiniteSet(s), NEW t, IsFiniteSet(t),
         \A e \in s : \A x \in t : m[e][x] \in Nat,
         NEW rowSum, \A e \in s : rowSum[e] = SumFunctionOnSet(m[e], t),
         NEW columns, \A x \in t : \A e \in s : columns[x][e] = m[e][x],
         NEW colSum, \A x \in t : colSum[x] = SumFunctionOnSet(columns[x], s)
  PROVE  SumFunctionOnSet(rowSum, s) = SumFunctionOnSet(colSum, t)
<1> DEFINE col(x) == [e \in s |-> m[e][x]]
           cols(u) == [x \in t |-> SumFunctionOnSet(col(x), u)]
           B == {u \in SUBSET s : SumFunctionOnSet(rowSum, u) # SumFunctionOnSet(cols(u), t)}
<1>1. \A x \in t : \A e \in s : col(x)[e] = m[e][x] /\ col(x)[e] \in Nat
  OBVIOUS
<1>2. \A u : \A x \in t : cols(u)[x] = SumFunctionOnSet(col(x), u)
  OBVIOUS
<1>3. SumFunctionOnSet(colSum, t) = SumFunctionOnSet(cols(s), t)
  <2>1. ASSUME NEW x \in t PROVE colSum[x] = cols(s)[x]
    <3> DEFINE f == columns[x]
               g == col(x)
    <3>1. \A e \in s : f[e] = g[e]
      BY <1>1
    <3>2. colSum[x] = SumFunctionOnSet(f, s) /\ cols(s)[x] = SumFunctionOnSet(g, s)
      BY <1>2
    <3>3. SumFunctionOnSet(f, s) = SumFunctionOnSet(g, s)
      <4> HIDE DEF f, g
      <4> QED BY <3>1, SumSame
    <3> QED BY <3>2, <3>3
  <2> HIDE DEF cols
  <2> QED BY <2>1, SumSame
<1> HIDE DEF col, cols
<1>4. {} \notin B /\ B \subseteq SUBSET s
  <2>1. \A x \in t : cols({})[x] = 0
    BY <1>2, SumOfNothing
  <2>2. SumFunctionOnSet(cols({}), t) = 0
    BY <2>1, SumIsZero
  <2> QED BY <2>2, SumOfNothing
<1>5. ASSUME B # {} PROVE FALSE
  <2>1. PICK u \in B : /\ u # {} /\ IsFiniteSet(u) /\ First(u) \in s
                      /\ IsFiniteSet(Rest(u)) /\ Rest(u) \subseteq s /\ Rest(u) \notin B
    <3> HIDE DEF B
    <3> QED BY <1>4, <1>5, SmallestFailure
  <2>2. SumFunctionOnSet(rowSum, u) = rowSum[First(u)] + SumFunctionOnSet(rowSum, Rest(u))
    BY <2>1, SumStep
  <2>3. rowSum[First(u)] = SumFunctionOnSet(m[First(u)], t)
    BY <2>1
  <2>4. \A x \in t : /\ m[First(u)][x] \in Nat /\ cols(Rest(u))[x] \in Nat
                     /\ cols(u)[x] = m[First(u)][x] + cols(Rest(u))[x]
    <3> SUFFICES ASSUME NEW x \in t
                 PROVE  /\ m[First(u)][x] \in Nat /\ cols(Rest(u))[x] \in Nat
                        /\ cols(u)[x] = m[First(u)][x] + cols(Rest(u))[x]
      OBVIOUS
    <3>1. cols(u)[x] = SumFunctionOnSet(col(x), u) /\ cols(Rest(u))[x] = SumFunctionOnSet(col(x), Rest(u))
      BY <1>2
    <3>2. SumFunctionOnSet(col(x), u) = col(x)[First(u)] + SumFunctionOnSet(col(x), Rest(u))
      BY <2>1, SumStep
    <3>3. SumFunctionOnSet(col(x), Rest(u)) \in Nat
      BY <1>1, <2>1, SumIsNat
    <3> QED BY <1>1, <2>1, <3>1, <3>2, <3>3
  <2>5. SumFunctionOnSet(cols(u), t) = SumFunctionOnSet(m[First(u)], t) + SumFunctionOnSet(cols(Rest(u)), t)
    BY <2>4, SumOfBoth
  <2>6. SumFunctionOnSet(rowSum, Rest(u)) = SumFunctionOnSet(cols(Rest(u)), t)
    BY <2>1
  <2> QED BY <2>1, <2>2, <2>3, <2>5, <2>6
<1> QED BY <1>3, <1>5
=============================================================================
