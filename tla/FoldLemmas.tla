----------------------------- MODULE FoldLemmas -----------------------------
(***************************************************************************)
(* What FoldLeft of SequencesExt computes over a finite sequence, for an   *)
(* operator that is a parameter: nothing over the empty sequence, and over *)
(* one element more, one step more.  Each parser of this project is a fold *)
(* of one symbol, or of one piece, into a state; the proofs about it take  *)
(* these facts from an instance of this module.                            *)
(***************************************************************************)
EXTENDS SequencesExt, Integers, SumLemmas

CONSTANT Op(_, _)   \* one step of the fold: the state and the next element

Folded(base, seq) == FoldLeft(Op, base, seq)

\* g folds every set of positions of seq in S, from the first to the last.
Folds(g, base, seq, S) ==
  \A s \in SUBSET S : g[s] = IF s = {} THEN base ELSE Op(g[s \ {Max(s)}], seq[Max(s)])

\* g is that fold, as a function on the sets of positions.
FoldsOn(g, base, seq, S) ==
  g = [s \in SUBSET S |-> IF s = {} THEN base ELSE Op(g[s \ {Max(s)}], seq[Max(s)])]

LEMMA MaxIsLast ==
  ASSUME NEW n \in Nat, NEW s \in SUBSET (1..n), s # {}
  PROVE  Max(s) \in s /\ \A i \in s : i <= Max(s)
<1> DEFINE B == {n - i : i \in s}
<1>1. B \subseteq Nat /\ B # {}
  <2>1. ASSUME NEW i \in s PROVE i \in Int /\ n - i \in Nat
    OBVIOUS
  <2> QED BY <2>1
<1>2. PICK b \in B : \A c \in B : b <= c
  <2> HIDE DEF B
  <2> QED BY <1>1, LeastNumber
<1>3. PICK m \in s : b = n - m
  BY <1>2
<1>4. ASSUME NEW i \in s PROVE m >= i
  <2>1. n - m <= n - i
    BY <1>2, <1>3
  <2> QED BY <2>1
<1>5. \E x \in s : \A y \in s : x >= y
  BY <1>4
<1>6. Max(s) \in s /\ \A y \in s : Max(s) >= y
  BY <1>5, Zenon DEF Max
<1> QED BY <1>6

LEMMA FoldsOneWay ==
  ASSUME NEW base, NEW seq, NEW seq2, NEW n \in Nat, NEW m \in Nat, n <= m,
         \A i \in 1..n : seq[i] = seq2[i],
         NEW g, NEW h, Folds(g, base, seq, 1..n), Folds(h, base, seq2, 1..m),
         NEW s \in SUBSET (1..n)
  PROVE  g[s] = h[s]
<1> DEFINE S == 1..n
           B == {u \in SUBSET S : g[u] # h[u]}
<1> SUFFICES ASSUME B # {} PROVE FALSE
  OBVIOUS
<1>0. IsFiniteSet(S)
  BY FS_Interval
<1>1. PICK u \in B : \A v \in B : v \subseteq u => v = u
  <2>1. B \subseteq SUBSET S
    OBVIOUS
  <2> HIDE DEF B, S
  <2> QED BY <1>0, <2>1, SmallestSet
<1>2. u \in SUBSET (1..n) /\ u \in SUBSET (1..m)
  OBVIOUS
<1>3. u # {}
  BY <1>2 DEF Folds
<1> DEFINE last == Max(u)
           rest == u \ {last}
<1>4. last \in u /\ last \in 1..n
  BY <1>2, <1>3, MaxIsLast
<1>5. g[u] = Op(g[rest], seq[last]) /\ h[u] = Op(h[rest], seq2[last])
  BY <1>2, <1>3, Zenon DEF Folds
<1> HIDE DEF last
<1>6. g[rest] = h[rest]
  BY <1>1, <1>4
<1> QED BY <1>4, <1>5, <1>6

LEMMA FoldsExists ==
  ASSUME NEW base, NEW seq, NEW n \in Nat
  PROVE  \E g : FoldsOn(g, base, seq, 1..n)
<1> DEFINE Unfolds(g, m) == FoldsOn(g, base, seq, 1..m)
           B == {m \in Nat : ~ \E g : Unfolds(g, m)}
<1> SUFFICES ASSUME B # {} PROVE FALSE
  OBVIOUS
<1> USE DEF FoldsOn
<1>1. PICK m \in B : \A k \in B : m <= k
  <2>1. B \subseteq Nat
    OBVIOUS
  <2> HIDE DEF B
  <2> QED BY <2>1, LeastNumber
<1>2. m # 0
  <2> SUFFICES ASSUME m = 0 PROVE FALSE
    OBVIOUS
  <2> DEFINE g == [s \in {{}} |-> base]
  <2>1. SUBSET (1..m) = {{}}
    OBVIOUS
  <2>2. Unfolds(g, m)
    BY <2>1
  <2> QED BY <2>2
<1>3. PICK g : Unfolds(g, m - 1)
  <2>1. m \in Nat
    OBVIOUS
  <2>2. m - 1 \in Nat /\ m - 1 \notin B
    <3> HIDE DEF B
    <3> QED BY <1>1, <1>2, <2>1
  <2> HIDE DEF Unfolds
  <2> QED BY <2>2
<1> DEFINE h == [s \in SUBSET (1..m) |->
                   IF s = {} THEN base
                   ELSE Op(g[s \ {Max(s)}], seq[Max(s)])]
<1>4. ASSUME NEW s \in SUBSET (1..m), s # {}
      PROVE  /\ s \ {Max(s)} \in SUBSET (1..(m - 1))
             /\ s \ {Max(s)} \in SUBSET (1..m)
  <2>1. Max(s) \in s /\ \A i \in s : i <= Max(s)
    BY <1>4, MaxIsLast
  <2>2. m \in Nat
    OBVIOUS
  <2> DEFINE last == Max(s)
  <2>3. last \in 1..m /\ \A i \in s : i <= last
    BY <2>1
  <2> HIDE DEF last
  <2>4. ASSUME NEW i \in s \ {last} PROVE i \in 1..(m - 1)
    <3>1. i \in 1..m /\ i <= last /\ i # last
      BY <2>3
    <3> QED BY <2>2, <2>3, <3>1
  <2> QED BY <2>4 DEF last
<1>5. ASSUME NEW s \in SUBSET (1..(m - 1)) PROVE h[s] = g[s]
  <2>1. s \in SUBSET (1..m)
    OBVIOUS
  <2>2. g[s] = IF s = {} THEN base ELSE Op(g[s \ {Max(s)}], seq[Max(s)])
    BY <1>3
  <2> HIDE DEF Unfolds
  <2> QED BY <2>1, <2>2
<1>6. Unfolds(h, m)
  <2>1. ASSUME NEW s \in SUBSET (1..m)
        PROVE  h[s] = IF s = {} THEN base ELSE Op(h[s \ {Max(s)}], seq[Max(s)])
    BY <1>4, <1>5
  <2> QED BY <2>1
<1> QED BY <1>6

\* FoldLeft is such a fold, at the whole of its positions.
LEMMA FoldIs ==
  ASSUME NEW base, NEW seq, NEW n \in Nat, DOMAIN seq = 1..n
  PROVE  \E g : Folds(g, base, seq, 1..n) /\ Folded(base, seq) = g[1..n]
<1> DEFINE S == 1..n
           g == CHOOSE g : FoldsOn(g, base, seq, S)
<1>1. FoldsOn(g, base, seq, S)
  <2>1. \E f : FoldsOn(f, base, seq, S)
    BY FoldsExists
  <2> HIDE DEF S
  <2> QED BY <2>1
<1>2. Folded(base, seq) = g[S]
  BY Zenon DEF Folded, FoldLeft, MapThenFoldSet, FoldsOn
<1> HIDE DEF g
<1>3. Folds(g, base, seq, S)
  BY <1>1, Zenon DEF Folds, FoldsOn
<1> QED BY <1>2, <1>3

\* Nothing is folded into the base by the empty sequence.
THEOREM FoldNone == \A base : Folded(base, <<>>) = base
<1> SUFFICES ASSUME NEW base PROVE Folded(base, <<>>) = base
  OBVIOUS
<1>1. 0 \in Nat /\ DOMAIN <<>> = 1..0 /\ 1..0 = {}
  OBVIOUS
<1>2. PICK g : Folds(g, base, <<>>, 1..0) /\ Folded(base, <<>>) = g[1..0]
  BY <1>1, FoldIs
<1> QED BY <1>1, <1>2 DEF Folds

LEMMA FoldLonger ==
  ASSUME NEW base, NEW n \in Nat, NEW m \in Nat, m = n + 1,
         NEW seq, DOMAIN seq = 1..n, NEW longer, DOMAIN longer = 1..m,
         \A i \in 1..n : seq[i] = longer[i]
  PROVE  Folded(base, longer) = Op(Folded(base, seq), longer[m])
<1>1. PICK g : Folds(g, base, seq, 1..n) /\ Folded(base, seq) = g[1..n]
  BY FoldIs
<1>2. PICK h : Folds(h, base, longer, 1..m) /\ Folded(base, longer) = h[1..m]
  BY FoldIs
<1>3. g[1..n] = h[1..n]
  <2>1. n <= m /\ 1..n \in SUBSET (1..n)
    OBVIOUS
  <2>2. ASSUME NEW s \in SUBSET (1..n) PROVE g[s] = h[s]
    BY <1>1, <1>2, <2>1, FoldsOneWay
  <2> QED BY <2>1, <2>2
<1> DEFINE All == 1..m
<1>4. m \in All /\ \A i \in All : i <= m
  OBVIOUS
<1>5. All # {} /\ Max(All) \in All /\ \A i \in All : i <= Max(All)
  BY <1>4, MaxIsLast
<1>6. Max(All) = m
  BY <1>4, <1>5
<1>7. All \ {m} = 1..n
  OBVIOUS
<1>8. h[All] = Op(h[All \ {Max(All)}], longer[Max(All)])
  <2> HIDE DEF All
  <2> QED BY <1>2, <1>5, Zenon DEF Folds, All
<1> HIDE DEF All
<1>9. h[All] = Op(g[1..n], longer[m])
  BY <1>3, <1>6, <1>7, <1>8
<1> QED BY <1>1, <1>2, <1>9 DEF All

\* One element more is one step more.
THEOREM FoldOne ==
  ASSUME NEW T, NEW seq \in Seq(T), NEW x \in T, NEW base
  PROVE  Folded(base, Append(seq, x)) = Op(Folded(base, seq), x)
<1> DEFINE n == Len(seq)
           longer == Append(seq, x)
<1>1. /\ n \in Nat /\ n + 1 \in Nat
      /\ DOMAIN seq = 1..n /\ DOMAIN longer = 1..(n + 1)
      /\ longer[n + 1] = x /\ \A i \in 1..n : seq[i] = longer[i]
  OBVIOUS
<1> HIDE DEF n, longer
<1>2. Folded(base, longer) = Op(Folded(base, seq), longer[n + 1])
  BY <1>1, FoldLonger
<1> QED BY <1>1, <1>2 DEF longer
\* A step that stays in A makes a fold that does.
THEOREM FoldType ==
  ASSUME NEW T, NEW A, NEW base \in A, \A a \in A : \A x \in T : Op(a, x) \in A
  PROVE  \A seq \in Seq(T) : Folded(base, seq) \in A
<1> DEFINE G == {seq \in Seq(T) : Folded(base, seq) \in A}
<1>1. <<>> \in G
  BY FoldNone
<1>2. ASSUME NEW seq \in Seq(T), NEW x \in T, seq \in G PROVE Append(seq, x) \in G
  <2>1. Append(seq, x) \in Seq(T)
    OBVIOUS
  <2>2. Folded(base, Append(seq, x)) = Op(Folded(base, seq), x)
    BY FoldOne
  <2> QED BY <1>2, <2>1, <2>2
<1> HIDE DEF G
<1>3. Seq(T) \subseteq G
  BY <1>1, <1>2, EverySequence
<1> QED BY <1>3 DEF G

\* A sequence in two parts is folded one part after the other.
THEOREM FoldConcat ==
  ASSUME NEW T, NEW s \in Seq(T), NEW base
  PROVE  \A t \in Seq(T) : Folded(base, s \o t) = Folded(Folded(base, s), t)
<1> DEFINE G == {t \in Seq(T) : Folded(base, s \o t) = Folded(Folded(base, s), t)}
<1>1. <<>> \in G
  <2>1. s \o <<>> = s /\ <<>> \in Seq(T)
    BY ConcatEmptySeq, EmptySeq
  <2> QED BY <2>1, FoldNone
<1>2. ASSUME NEW t \in Seq(T), NEW x \in T, t \in G PROVE Append(t, x) \in G
  <2> DEFINE st == s \o t
             tx == Append(t, x)
  <2>1. st \in Seq(T) /\ tx \in Seq(T)
    OBVIOUS
  <2>2. s \o tx = Append(st, x)
    BY <2>1
  <2>3. Folded(base, st) = Folded(Folded(base, s), t)
    BY <1>2
  <2>4. Folded(Folded(base, s), tx) = Op(Folded(Folded(base, s), t), x)
    BY FoldOne
  <2> HIDE DEF st
  <2>5. Folded(base, Append(st, x)) = Op(Folded(base, st), x)
    BY <2>1, FoldOne
  <2> HIDE DEF tx
  <2>6. Folded(base, s \o tx) = Folded(Folded(base, s), tx)
    BY <2>2, <2>3, <2>4, <2>5
  <2> QED BY <2>1, <2>6 DEF tx
<1> HIDE DEF G
<1>3. Seq(T) \subseteq G
  BY <1>1, <1>2, EverySequence
<1> QED BY <1>3 DEF G
=============================================================================
