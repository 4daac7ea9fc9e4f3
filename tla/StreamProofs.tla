---------------------------- MODULE StreamProofs ----------------------------
(***************************************************************************)
(* Proofs about the answer that streams a stored document: however storage *)
(* cuts the document, what is sent is the start of the one answer JSON     *)
(* allows, and little is held back on the way.                             *)
(*                                                                         *)
(* _pieces and as_api_response are folds, of symbols into pieces and of    *)
(* pieces into an answer.  They are compared with one fold, of symbols     *)
(* into an answer (ReadSymbol), which knows of no chunk; what that one     *)
(* makes of a document follows the grammar of the documents.               *)
(***************************************************************************)
EXTENDS RunResultProofs

Nulling == INSTANCE FoldLemmas WITH Op <- NullSymbol
Splitting == INSTANCE FoldLemmas WITH Op <- SplitSymbol
Passing == INSTANCE FoldLemmas WITH Op <- PassThrough

-----------------------------------------------------------------------------
(***************************************************************************)
(* Prefixes and suffixes.                                                  *)
(***************************************************************************)

LEMMA Grouped ==
  ASSUME NEW S, NEW a \in Seq(S), NEW b \in Seq(S), NEW c \in Seq(S)
  PROVE  /\ a \o b \in Seq(S) /\ b \o c \in Seq(S) /\ a \o b \o c \in Seq(S)
         /\ a \o b \o c = a \o (b \o c)
<1>1. a \o b \in Seq(S) /\ b \o c \in Seq(S)
  BY ConcatType, Zenon
<1>2. a \o b \o c \in Seq(S)
  BY <1>1, ConcatType, Zenon
<1> QED BY <1>1, <1>2, ConcatAssociative

LEMMA StartIsPrefix ==
  ASSUME NEW S, NEW s \in Seq(S), NEW t \in Seq(S)
  PROVE  IsPrefix(s, s \o t)
<1> DEFINE n == Len(s)
           st == s \o t
<1>1. /\ n \in Nat /\ Len(t) \in Nat /\ st \in Seq(S)
      /\ Len(st) = n + Len(t) /\ \A i \in 1..n : st[i] = s[i] /\ st[i] \in S /\ s[i] \in S
  BY ConcatProperties
<1> HIDE DEF n, st
<1>2. /\ SubSeq(s, 1, n) \in Seq(S) /\ Len(SubSeq(s, 1, n)) = n
      /\ \A i \in 1..n : SubSeq(s, 1, n)[i] = s[i]
  BY <1>1, SubSeqProperties
<1>3. /\ SubSeq(st, 1, n) \in Seq(S) /\ Len(SubSeq(st, 1, n)) = n
      /\ \A i \in 1..n : SubSeq(st, 1, n)[i] = st[i]
  BY <1>1, SubSeqProperties
<1>4. SubSeq(s, 1, n) = SubSeq(st, 1, n)
  BY <1>1, <1>2, <1>3, SeqEqual
<1> QED BY <1>1, <1>4 DEF IsPrefix, n, st

\* A suffix, by positions.
EndsIn(t, s) == Len(s) <= Len(t) /\ \A i \in 1..Len(s) : t[Len(t) - Len(s) + i] = s[i]

LEMMA SuffixIs ==
  ASSUME NEW S, NEW s \in Seq(S), NEW t \in Seq(S)
  PROVE  IsSuffix(s, t) <=> EndsIn(t, s)
<1> DEFINE m == Len(s)
           n == Len(t)
           rs == Reverse(s)
           rt == Reverse(t)
<1>1. m \in Nat /\ n \in Nat
  OBVIOUS
<1>2. /\ rs \in Seq(S) /\ Len(rs) = m /\ \A i \in 1..m : rs[i] = s[m - i + 1] /\ rs[i] \in S
      /\ rt \in Seq(S) /\ Len(rt) = n /\ \A i \in 1..n : rt[i] = t[n - i + 1] /\ rt[i] \in S
  BY DEF Reverse
<1> HIDE DEF rs, rt, m, n
<1>3. IsSuffix(s, t) <=> m <= n /\ SubSeq(rs, 1, m) = SubSeq(rt, 1, m)
  BY <1>2 DEF IsSuffix, IsPrefix, rs, rt
<1>4. ASSUME m <= n
      PROVE  SubSeq(rs, 1, m) = SubSeq(rt, 1, m) <=> \A i \in 1..m : rs[i] = rt[i]
  <2>1. /\ SubSeq(rs, 1, m) \in Seq(S) /\ Len(SubSeq(rs, 1, m)) = m
        /\ \A i \in 1..m : SubSeq(rs, 1, m)[i] = rs[i]
    BY <1>1, <1>2, SubSeqProperties
  <2>2. /\ SubSeq(rt, 1, m) \in Seq(S) /\ Len(SubSeq(rt, 1, m)) = m
        /\ \A i \in 1..m : SubSeq(rt, 1, m)[i] = rt[i]
    BY <1>1, <1>2, <1>4, SubSeqProperties
  <2> QED BY <1>1, <2>1, <2>2, SeqEqual
<1>5. ASSUME m <= n
      PROVE  (\A i \in 1..m : rs[i] = rt[i]) <=> \A i \in 1..m : t[n - m + i] = s[i]
  <2>1. ASSUME NEW i \in 1..m
        PROVE  /\ m - i + 1 \in 1..m /\ i \in 1..n
               /\ rs[i] = s[m - i + 1] /\ rt[i] = t[n - i + 1]
               /\ rs[m - i + 1] = s[i] /\ rt[m - i + 1] = t[n - m + i]
    <3>1. m - i + 1 \in 1..m /\ i \in 1..n /\ m - i + 1 \in 1..n
      BY <1>1, <1>5
    <3>2. m - (m - i + 1) + 1 = i /\ n - (m - i + 1) + 1 = n - m + i
      BY <1>1
    <3> QED BY <1>2, <3>1, <3>2
  <2>2. ASSUME \A i \in 1..m : rs[i] = rt[i], NEW i \in 1..m PROVE t[n - m + i] = s[i]
    BY <2>1, <2>2
  <2>3. ASSUME \A i \in 1..m : t[n - m + i] = s[i], NEW i \in 1..m PROVE rs[i] = rt[i]
    <3>1. m - i + 1 \in 1..m /\ n - m + (m - i + 1) = n - i + 1
      BY <1>1
    <3>2. t[n - m + (m - i + 1)] = s[m - i + 1]
      BY <2>3, <3>1
    <3> QED BY <2>1, <3>1, <3>2
  <2> QED BY <2>2, <2>3
<1> QED BY <1>3, <1>4, <1>5 DEF EndsIn, m, n

-----------------------------------------------------------------------------
(***************************************************************************)
(* The symbols.                                                            *)
(***************************************************************************)

N1 == NaN[1]
N2 == NaN[2]
I1 == Infinity[1]
I2 == Infinity[2]

\* A symbol that stands for itself wherever it is.
Plain(s) == s \in Symbols /\ s \notin NonFiniteLetters /\ s # Quote

LEMMA PairsAre ==
  ASSUME NEW a, NEW b, NEW c, NEW d
  PROVE  <<a, b>> = <<c, d>> <=> a = c /\ b = d
OBVIOUS

LEMMA TokensAre ==
  /\ N1 = <<"NaN", 1>> /\ N2 = <<"NaN", 2>> /\ I1 = <<"Infinity", 1>> /\ I2 = <<"Infinity", 2>>
  /\ NaN = <<N1, N2>> /\ Infinity = <<I1, I2>> /\ NegativeInfinity = <<Minus, I1, I2>>
<1>1. /\ N1 = <<"NaN", 1>> /\ N2 = <<"NaN", 2>> /\ I1 = <<"Infinity", 1>> /\ I2 = <<"Infinity", 2>>
      /\ NaN = <<N1, N2>> /\ Infinity = <<I1, I2>>
  BY DEF N1, N2, I1, I2, NaN, Infinity
<1>2. ASSUME NEW a, NEW b, NEW c PROVE <<a>> \o <<b, c>> = <<a, b, c>>
  <2> DEFINE S == {a, b, c}
             x == <<a>>
             y == <<b, c>>
             z == <<a, b, c>>
  <2>1. /\ x \in Seq(S) /\ Len(x) = 1 /\ x[1] = a
        /\ y \in Seq(S) /\ Len(y) = 2 /\ y[1] = b /\ y[2] = c
        /\ z \in Seq(S) /\ Len(z) = 3 /\ z[1] = a /\ z[2] = b /\ z[3] = c
    OBVIOUS
  <2> HIDE DEF x, y, z, S
  <2>2. /\ x \o y \in Seq(S) /\ Len(x \o y) = Len(x) + Len(y)
        /\ \A i \in 1..(Len(x) + Len(y)) : (x \o y)[i] = IF i <= Len(x) THEN x[i] ELSE y[i - Len(x)]
    BY <2>1, ConcatProperties, Zenon
  <2>3. Len(x) + Len(y) = 3 /\ 1 \in 1..3 /\ 2 \in 1..3 /\ 3 \in 1..3
    BY <2>1
  <2>4. (x \o y)[1] = a /\ (x \o y)[2] = b /\ (x \o y)[3] = c
    BY <2>1, <2>2, <2>3
  <2> DEFINE xy == x \o y
  <2> HIDE DEF xy
  <2>6. ASSUME NEW i \in 1..3 PROVE xy[i] = z[i]
    <3>1. i = 1 \/ i = 2 \/ i = 3
      OBVIOUS
    <3> QED BY <2>1, <2>4, <3>1 DEF xy
  <2>7. xy = z
    <3>1. xy \in Seq(S) /\ Len(xy) = 3
      BY <2>2, <2>3 DEF xy
    <3> QED BY <2>1, <2>6, <3>1, SeqEqual
  <2> QED BY <2>7 DEF x, y, z, xy
<1>3. NegativeInfinity = <<Minus, I1, I2>>
  BY <1>1, <1>2, Zenon DEF NegativeInfinity
<1> QED BY <1>1, <1>3

LEMMA LettersAre ==
  /\ NonFiniteLetters = {Minus, N1, N2, I1, I2}
  /\ N1 # N2 /\ I1 # I2 /\ N1 # I1 /\ N1 # I2 /\ N2 # I1 /\ N2 # I2
  /\ Minus # N1 /\ Minus # N2 /\ Minus # I1 /\ Minus # I2
  /\ NonFiniteLetters \subseteq Symbols
<1>1. ToSet(NaN) = {N1, N2} /\ ToSet(Infinity) = {I1, I2}
  BY TokensAre DEF ToSet
<1>2. NonFiniteLetters = {Minus, N1, N2, I1, I2}
  BY <1>1 DEF NonFiniteLetters
<1>3. Minus \in Symbols /\ ToSet(NaN) \subseteq Symbols /\ ToSet(Infinity) \subseteq Symbols
  <2>1. /\ {Mark(c) : c \in {"quote", "backslash", "-", ",", ":", "{", "}", "[", "]"}} \subseteq Symbols
        /\ ToSet(NaN) \subseteq Symbols /\ ToSet(Infinity) \subseteq Symbols
    BY Zenon DEF Symbols
  <2> QED BY <2>1 DEF Minus
<1>4. Minus = <<"mark", "-">>
  BY DEF Minus, Mark
<1>5. 1 # 2 /\ "NaN" # "Infinity" /\ "mark" # "NaN" /\ "mark" # "Infinity"
  OBVIOUS
<1>6. /\ N1 # N2 /\ I1 # I2 /\ N1 # I1 /\ N1 # I2 /\ N2 # I1 /\ N2 # I2
      /\ Minus # N1 /\ Minus # N2 /\ Minus # I1 /\ Minus # I2
  BY <1>4, <1>5, TokensAre, PairsAre, Zenon
<1> QED BY <1>1, <1>2, <1>3, <1>6 DEF NonFiniteLetters

LEMMA PlainSymbols ==
  /\ \A c \in {"{", "}", "[", "]"} : Plain(Mark(c))
  /\ Plain(Comma) /\ Plain(Colon) /\ Plain(Backslash) /\ Plain(Null)
  /\ \A n \in Int : Plain(Number(n))
  /\ \A n \in MemberNames : Plain(Name(n))
  /\ Quote \in Symbols /\ Quote \notin NonFiniteLetters
<1>1. \A x \in NonFiniteLetters : \E b : x \in {<<"NaN", b>>, <<"Infinity", b>>, <<"mark", "-">>}
  BY LettersAre, TokensAre, Zenon DEF Minus, Mark
<1>2. ASSUME NEW a, NEW b, <<a, b>> \in Symbols, a \notin {"NaN", "Infinity"},
             a = "mark" => b \notin {"quote", "-"}
      PROVE  Plain(<<a, b>>)
  <2>1. <<a, b>> # Quote
    BY <1>2, PairsAre, Zenon DEF Quote, Mark
  <2>2. <<a, b>> \notin NonFiniteLetters
    BY <1>1, <1>2, PairsAre, Zenon
  <2> QED BY <1>2, <2>1, <2>2 DEF Plain
<1>3. /\ {Mark(c) : c \in {"quote", "backslash", "-", ",", ":", "{", "}", "[", "]"}} \subseteq Symbols
      /\ {Name(n) : n \in MemberNames} \subseteq Symbols
      /\ {"number"} \X Int \subseteq Symbols /\ Null \in Symbols
  BY Zenon DEF Symbols
<1>4. ASSUME NEW c \in {"{", "}", "[", "]", ",", ":", "backslash"} PROVE Plain(Mark(c))
  <2>1. Mark(c) \in Symbols
    BY <1>3, Zenon
  <2>2. c \notin {"quote", "-"} /\ "mark" \notin {"NaN", "Infinity"}
    BY Zenon
  <2> QED BY <1>2, <2>1, <2>2, Zenon DEF Mark
<1>5. Plain(Null)
  <2>1. "null" \notin {"NaN", "Infinity"} /\ "null" # "mark"
    OBVIOUS
  <2> QED BY <1>2, <1>3, <2>1, Zenon DEF Null
<1>6. ASSUME NEW n \in Int PROVE Plain(Number(n))
  <2>1. "number" \notin {"NaN", "Infinity"} /\ "number" # "mark"
    OBVIOUS
  <2>2. <<"number", n>> \in Symbols
    BY <1>3
  <2> QED BY <1>2, <2>1, <2>2, Zenon DEF Number
<1>7. ASSUME NEW n \in MemberNames PROVE Plain(Name(n))
  <2>1. "name" \notin {"NaN", "Infinity"} /\ "name" # "mark"
    OBVIOUS
  <2>2. <<"name", n>> \in Symbols
    BY <1>3, Zenon DEF Name
  <2> QED BY <1>2, <2>1, <2>2, Zenon DEF Name
<1>8. Quote \in Symbols /\ Quote \notin NonFiniteLetters
  <2>1. Quote \in Symbols
    BY <1>3, Zenon DEF Quote
  <2>2. "quote" # "-" /\ "mark" # "NaN" /\ "mark" # "Infinity"
    OBVIOUS
  <2>3. Quote \notin NonFiniteLetters
    BY <1>1, <2>2, PairsAre, Zenon DEF Quote, Mark
  <2> QED BY <2>1, <2>3
<1> QED BY <1>4, <1>5, <1>6, <1>7, <1>8, Zenon DEF Comma, Colon, Backslash

-----------------------------------------------------------------------------
(***************************************************************************)
(* What _nulls makes of a run.                                             *)
(***************************************************************************)

LEMMA SuffixOne ==
  ASSUME NEW S, NEW a \in S, NEW t \in Seq(S)
  PROVE  IsSuffix(<<a>>, t) <=> Len(t) >= 1 /\ t[Len(t)] = a
<1> DEFINE s == <<a>>
<1>1. s \in Seq(S) /\ Len(s) = 1 /\ s[1] = a /\ 1..1 = {1} /\ Len(t) \in Nat
  OBVIOUS
<1> HIDE DEF s
<1>2. IsSuffix(s, t) <=> EndsIn(t, s)
  BY <1>1, SuffixIs
<1>3. EndsIn(t, s) <=> 1 <= Len(t) /\ t[Len(t) - 1 + 1] = s[1]
  BY <1>1 DEF EndsIn
<1>4. Len(t) - 1 + 1 = Len(t) /\ (1 <= Len(t) <=> Len(t) >= 1)
  BY <1>1
<1>5. IsSuffix(s, t) <=> Len(t) >= 1 /\ t[Len(t)] = a
  BY <1>1, <1>2, <1>3, <1>4
<1> QED BY <1>5 DEF s

LEMMA SuffixTwo ==
  ASSUME NEW S, NEW a \in S, NEW b \in S, NEW t \in Seq(S)
  PROVE  IsSuffix(<<a, b>>, t) <=> Len(t) >= 2 /\ t[Len(t) - 1] = a /\ t[Len(t)] = b
<1> DEFINE s == <<a, b>>
<1>1. s \in Seq(S) /\ Len(s) = 2 /\ s[1] = a /\ s[2] = b /\ 1..2 = {1, 2} /\ Len(t) \in Nat
  OBVIOUS
<1> HIDE DEF s
<1>2. IsSuffix(s, t) <=> EndsIn(t, s)
  BY <1>1, SuffixIs
<1>3. EndsIn(t, s) <=> 2 <= Len(t) /\ t[Len(t) - 2 + 1] = s[1] /\ t[Len(t) - 2 + 2] = s[2]
  BY <1>1 DEF EndsIn
<1>4. Len(t) - 2 + 1 = Len(t) - 1 /\ Len(t) - 2 + 2 = Len(t) /\ (2 <= Len(t) <=> Len(t) >= 2)
  BY <1>1
<1>5. IsSuffix(s, t) <=> Len(t) >= 2 /\ t[Len(t) - 1] = a /\ t[Len(t)] = b
  BY <1>1, <1>2, <1>3, <1>4
<1> QED BY <1>5 DEF s

LEMMA FrontOfTwo ==
  ASSUME NEW a, NEW b
  PROVE  Front(<<a, b>>) = <<a>> /\ Last(<<a, b>>) = b /\ Len(<<a, b>>) = 2
<1> DEFINE S == {a, b}
           s == <<a, b>>
           r == <<a>>
<1>1. s \in Seq(S) /\ Len(s) = 2 /\ s[1] = a /\ s[2] = b /\ r \in Seq(S) /\ Len(r) = 1 /\ r[1] = a
  OBVIOUS
<1> HIDE DEF s, r, S
<1>2. 2 - 1 = 1 /\ 1..1 = {1}
  OBVIOUS
<1>3. /\ SubSeq(s, 1, 1) \in Seq(S) /\ Len(SubSeq(s, 1, 1)) = 1
      /\ SubSeq(s, 1, 1)[1] = s[1]
  BY <1>1, <1>2, SubSeqProperties
<1>4. SubSeq(s, 1, 1) = r
  BY <1>1, <1>2, <1>3, SeqEqual
<1>5. Front(s) = r /\ Last(s) = b /\ Len(s) = 2
  BY <1>1, <1>2, <1>4 DEF Front, Last
<1> QED BY <1>5 DEF s, r

LEMMA FrontOfThree ==
  ASSUME NEW a, NEW b, NEW c
  PROVE  Front(<<a, b, c>>) = <<a, b>> /\ Last(<<a, b, c>>) = c /\ Len(<<a, b, c>>) = 3
<1> DEFINE S == {a, b, c}
           s == <<a, b, c>>
           r == <<a, b>>
<1>1. /\ s \in Seq(S) /\ Len(s) = 3 /\ s[1] = a /\ s[2] = b /\ s[3] = c
      /\ r \in Seq(S) /\ Len(r) = 2 /\ r[1] = a /\ r[2] = b
  OBVIOUS
<1> HIDE DEF s, r, S
<1>2. 3 - 1 = 2 /\ 1..2 = {1, 2}
  OBVIOUS
<1>3. /\ SubSeq(s, 1, 2) \in Seq(S) /\ Len(SubSeq(s, 1, 2)) = 2
      /\ SubSeq(s, 1, 2)[1] = s[1] /\ SubSeq(s, 1, 2)[2] = s[2]
  <2>1. \A i \in 1..2 : s[i] \in S
    BY <1>1
  <2>2. /\ SubSeq(s, 1, 2) \in Seq(S) /\ Len(SubSeq(s, 1, 2)) = IF 1 <= 2 THEN 2 - 1 + 1 ELSE 0
        /\ \A i \in 1..(2 - 1 + 1) : SubSeq(s, 1, 2)[i] = s[1 + i - 1]
    BY <2>1, SubSeqProperties
  <2> QED BY <2>2
<1>4. SubSeq(s, 1, 2) = r
  BY <1>1, <1>2, <1>3, SeqEqual
<1>5. Front(s) = r /\ Last(s) = c /\ Len(s) = 3
  BY <1>1, <1>2, <1>4 DEF Front, Last
<1> QED BY <1>5 DEF s, r

\* A run that ends in what could be a token but for its last letter.
EndsMinusI(out) == Len(out) >= 2 /\ out[Len(out) - 1] = Minus /\ out[Len(out)] = I1
EndsI(out) == Len(out) >= 1 /\ out[Len(out)] = I1
EndsN(out) == Len(out) >= 1 /\ out[Len(out)] = N1
CutBy(out, k) == SubSeq(out, 1, Len(out) - k) \o <<Null>>

LEMMA NullSymbolIs ==
  ASSUME NEW out \in Seq(Symbols), NEW s
  PROVE  /\ s = I2 /\ EndsMinusI(out) => NullSymbol(out, s) = CutBy(out, 2)
         /\ s = I2 /\ EndsI(out) /\ ~EndsMinusI(out) => NullSymbol(out, s) = CutBy(out, 1)
         /\ s = N2 /\ EndsN(out) => NullSymbol(out, s) = CutBy(out, 1)
         /\ ~(s = I2 /\ EndsI(out)) /\ ~(s = N2 /\ EndsN(out)) => NullSymbol(out, s) = Append(out, s)
<1> DEFINE Ends(token) == s = Last(token) /\ IsSuffix(Front(token), out)
           Cut(token) == SubSeq(out, 1, Len(out) - Len(token) + 1) \o <<Null>>
<1>1. NullSymbol(out, s) =
        CASE Ends(NegativeInfinity) -> Cut(NegativeInfinity)
          [] Ends(Infinity) /\ ~Ends(NegativeInfinity) -> Cut(Infinity)
          [] Ends(NaN) -> Cut(NaN)
          [] OTHER -> Append(out, s)
  BY Zenon DEF NullSymbol
<1>2. N1 \in Symbols /\ I1 \in Symbols /\ Minus \in Symbols /\ N2 # I2
  BY LettersAre
<1>3. Ends(NegativeInfinity) <=> s = I2 /\ EndsMinusI(out)
  <2>1. Front(NegativeInfinity) = <<Minus, I1>> /\ Last(NegativeInfinity) = I2
    BY TokensAre, FrontOfThree
  <2>2. IsSuffix(<<Minus, I1>>, out) <=> EndsMinusI(out)
    BY <1>2, SuffixTwo DEF EndsMinusI
  <2> QED BY <2>1, <2>2, Zenon
<1>4. Ends(Infinity) <=> s = I2 /\ EndsI(out)
  <2>1. Front(Infinity) = <<I1>> /\ Last(Infinity) = I2
    BY TokensAre, FrontOfTwo, Zenon
  <2> QED BY <1>2, <2>1, SuffixOne, Zenon DEF EndsI
<1>5. Ends(NaN) <=> s = N2 /\ EndsN(out)
  <2>1. Front(NaN) = <<N1>> /\ Last(NaN) = N2
    BY TokensAre, FrontOfTwo, Zenon
  <2> QED BY <1>2, <2>1, SuffixOne, Zenon DEF EndsN
<1>6. Cut(NegativeInfinity) = CutBy(out, 2) /\ Cut(Infinity) = CutBy(out, 1) /\ Cut(NaN) = CutBy(out, 1)
  <2>1. Len(NegativeInfinity) = 3 /\ Len(Infinity) = 2 /\ Len(NaN) = 2
    BY TokensAre, FrontOfTwo, FrontOfThree, Zenon
  <2>2. Len(out) \in Nat
    OBVIOUS
  <2>3. Len(out) - 3 + 1 = Len(out) - 2 /\ Len(out) - 2 + 1 = Len(out) - 1
    BY <2>2
  <2> QED BY <2>1, <2>3, Zenon DEF CutBy
<1>7. EndsMinusI(out) => EndsI(out)
  BY DEF EndsMinusI, EndsI
<1> HIDE DEF Ends, Cut
<1> QED BY <1>1, <1>2, <1>3, <1>4, <1>5, <1>6, <1>7

LEMMA CutType ==
  ASSUME NEW out \in Seq(Symbols), NEW k \in Nat, k <= Len(out)
  PROVE  /\ SubSeq(out, 1, Len(out) - k) \in Seq(Symbols)
         /\ Len(SubSeq(out, 1, Len(out) - k)) = Len(out) - k
         /\ \A i \in 1..(Len(out) - k) : SubSeq(out, 1, Len(out) - k)[i] = out[i]
         /\ CutBy(out, k) \in Seq(Symbols)
<1> DEFINE n == Len(out) - k
           cut == SubSeq(out, 1, n)
<1>1. Len(out) \in Nat /\ n \in Nat /\ n <= Len(out) /\ 1 \in Int /\ n \in Int
  OBVIOUS
<1>2. \A i \in 1..n : out[i] \in Symbols
  BY <1>1
<1> HIDE DEF n
<1>3. /\ cut \in Seq(Symbols) /\ Len(cut) = IF 1 <= n THEN n - 1 + 1 ELSE 0
      /\ \A i \in 1..(n - 1 + 1) : cut[i] = out[1 + i - 1]
  BY <1>1, <1>2, SubSeqProperties
<1>4. Len(cut) = n /\ \A i \in 1..n : cut[i] = out[i]
  <2>1. n - 1 + 1 = n /\ (~(1 <= n) => n = 0) /\ \A i \in 1..n : 1 + i - 1 = i
    BY <1>1
  <2> QED BY <1>3, <2>1
<1>5. <<Null>> \in Seq(Symbols)
  BY PlainSymbols, OneType DEF Plain
<1>6. cut \o <<Null>> \in Seq(Symbols)
  BY <1>3, <1>5, ConcatType, Zenon
<1> QED BY <1>3, <1>4, <1>6 DEF n, CutBy

LEMMA NullSymbolType ==
  ASSUME NEW out \in Seq(Symbols), NEW s \in Symbols
  PROVE  NullSymbol(out, s) \in Seq(Symbols)
<1>1. EndsMinusI(out) => CutBy(out, 2) \in Seq(Symbols)
  <2>1. EndsMinusI(out) => 2 \in Nat /\ 2 <= Len(out)
    BY DEF EndsMinusI
  <2> QED BY <2>1, CutType
<1>2. EndsI(out) \/ EndsN(out) => CutBy(out, 1) \in Seq(Symbols)
  <2>1. EndsI(out) \/ EndsN(out) => 1 \in Nat /\ 1 <= Len(out)
    BY DEF EndsI, EndsN
  <2> QED BY <2>1, CutType
<1>3. Append(out, s) \in Seq(Symbols)
  OBVIOUS
<1> QED BY <1>1, <1>2, <1>3, NullSymbolIs, Zenon

LEMMA CutBeyond ==
  ASSUME NEW w \in Seq(Symbols), NEW o \in Seq(Symbols), NEW k \in Nat, k <= Len(o)
  PROVE  CutBy(w \o o, k) = w \o CutBy(o, k)
<1> DEFINE wo == w \o o
           cut == SubSeq(o, 1, Len(o) - k)
           longer == SubSeq(wo, 1, Len(wo) - k)
<1>1. /\ wo \in Seq(Symbols) /\ Len(wo) = Len(w) + Len(o)
      /\ \A i \in 1..(Len(w) + Len(o)) : wo[i] = IF i <= Len(w) THEN w[i] ELSE o[i - Len(w)]
      /\ Len(w) \in Nat /\ Len(o) \in Nat
  BY ConcatProperties
<1> HIDE DEF wo
<1>2. k <= Len(wo)
  BY <1>1
<1>3. /\ cut \in Seq(Symbols) /\ Len(cut) = Len(o) - k
      /\ \A i \in 1..(Len(o) - k) : cut[i] = o[i]
  BY CutType
<1>4. /\ longer \in Seq(Symbols) /\ Len(longer) = Len(wo) - k
      /\ \A i \in 1..(Len(wo) - k) : longer[i] = wo[i]
  BY <1>1, <1>2, CutType
<1> HIDE DEF cut, longer
<1> DEFINE wc == w \o cut
<1>5. /\ wc \in Seq(Symbols) /\ Len(wc) = Len(w) + Len(cut)
      /\ \A i \in 1..(Len(w) + Len(cut)) : wc[i] = IF i <= Len(w) THEN w[i] ELSE cut[i - Len(w)]
  BY <1>3, ConcatProperties
<1> HIDE DEF wc
<1>6. longer = wc
  <2>1. Len(longer) = Len(wc)
    BY <1>1, <1>3, <1>4, <1>5
  <2>2. ASSUME NEW i \in 1..Len(longer) PROVE longer[i] = wc[i]
    <3>1. i \in 1..(Len(wo) - k) /\ i \in 1..(Len(w) + Len(o)) /\ i \in 1..(Len(w) + Len(cut))
      BY <1>1, <1>3, <1>4
    <3>2. CASE i <= Len(w)
      BY <1>1, <1>4, <1>5, <3>1, <3>2
    <3>3. CASE ~(i <= Len(w))
      <4>1. i - Len(w) \in 1..(Len(o) - k)
        BY <1>1, <1>3, <3>1, <3>3
      <4> QED BY <1>1, <1>3, <1>4, <1>5, <3>1, <3>3, <4>1
    <3> QED BY <3>2, <3>3
  <2> QED BY <1>4, <1>5, <2>1, <2>2, SeqEqual
<1>7. <<Null>> \in Seq(Symbols)
  BY PlainSymbols, OneType DEF Plain
<1>8. (w \o cut) \o <<Null>> = w \o (cut \o <<Null>>)
  BY <1>3, <1>7, ConcatAssociative, SMTT(30)
<1> QED BY <1>6, <1>8, Zenon DEF CutBy, wo, wc, cut, longer

\* No token reaches over a symbol that is no letter of one.
LEMMA NullSymbolBeyond ==
  ASSUME NEW w \in Seq(Symbols), w # <<>>, w[Len(w)] \notin NonFiniteLetters,
         NEW o \in Seq(Symbols), NEW s \in Symbols
  PROVE  NullSymbol(w \o o, s) = w \o NullSymbol(o, s)
<1> DEFINE wo == w \o o
<1>1. /\ wo \in Seq(Symbols) /\ Len(wo) = Len(w) + Len(o)
      /\ \A i \in 1..(Len(w) + Len(o)) : wo[i] = IF i <= Len(w) THEN w[i] ELSE o[i - Len(w)]
      /\ Len(w) \in Nat \ {0} /\ Len(o) \in Nat
  BY ConcatProperties
<1>2. Append(wo, s) = w \o Append(o, s)
  OBVIOUS
<1> HIDE DEF wo
<1>3. w[Len(w)] # I1 /\ w[Len(w)] # N1 /\ w[Len(w)] # Minus
  BY LettersAre
<1>4. EndsI(wo) <=> EndsI(o)
  <2>1. CASE Len(o) = 0
    BY <1>1, <1>3, <2>1 DEF EndsI
  <2>2. CASE Len(o) >= 1
    <3>1. wo[Len(wo)] = o[Len(o)] /\ Len(wo) >= 1
      BY <1>1, <2>2
    <3> QED BY <2>2, <3>1 DEF EndsI
  <2> QED BY <1>1, <2>1, <2>2
<1>5. EndsN(wo) <=> EndsN(o)
  <2>1. CASE Len(o) = 0
    BY <1>1, <1>3, <2>1 DEF EndsN
  <2>2. CASE Len(o) >= 1
    <3>1. wo[Len(wo)] = o[Len(o)] /\ Len(wo) >= 1
      BY <1>1, <2>2
    <3> QED BY <2>2, <3>1 DEF EndsN
  <2> QED BY <1>1, <2>1, <2>2
<1>6. EndsMinusI(wo) <=> EndsMinusI(o)
  <2>1. CASE Len(o) = 0
    BY <1>1, <1>3, <2>1 DEF EndsMinusI
  <2>2. CASE Len(o) = 1
    <3>1. wo[Len(wo) - 1] = w[Len(w)]
      BY <1>1, <2>2
    <3> QED BY <1>3, <2>2, <3>1 DEF EndsMinusI
  <2>3. CASE Len(o) >= 2
    <3>1. /\ wo[Len(wo)] = o[Len(o)] /\ wo[Len(wo) - 1] = o[Len(o) - 1] /\ Len(wo) >= 2
      BY <1>1, <2>3, SMTT(30)
    <3> QED BY <2>3, <3>1 DEF EndsMinusI
  <2>4. Len(o) = 0 \/ Len(o) = 1 \/ Len(o) >= 2
    <3>1. \A n \in Nat : n = 0 \/ n = 1 \/ n >= 2
      OBVIOUS
    <3> QED BY <1>1, <3>1, Zenon
  <2> QED BY <2>1, <2>2, <2>3, <2>4, Zenon
<1>7. EndsMinusI(o) => CutBy(wo, 2) = w \o CutBy(o, 2)
  <2>1. EndsMinusI(o) => 2 \in Nat /\ 2 <= Len(o)
    BY <1>1 DEF EndsMinusI
  <2> QED BY <2>1, CutBeyond DEF wo
<1>8. EndsI(o) \/ EndsN(o) => CutBy(wo, 1) = w \o CutBy(o, 1)
  <2>1. EndsI(o) \/ EndsN(o) => 1 \in Nat /\ 1 <= Len(o)
    BY <1>1 DEF EndsI, EndsN
  <2> QED BY <2>1, CutBeyond DEF wo
<1>9. NullSymbol(wo, s) = w \o NullSymbol(o, s)
  BY <1>1, <1>2, <1>4, <1>5, <1>6, <1>7, <1>8, NullSymbolIs, Zenon
<1> QED BY <1>9 DEF wo

LEMMA NullsIs == \A run : Nulls(run) = Nulling!Folded(<<>>, run)
BY DEF Nulls, Nulling!Folded, FoldLeft, MapThenFoldSet, Nulling!FoldLeft, Nulling!MapThenFoldSet,
       Max, Nulling!Max

LEMMA NullsNone == Nulls(<<>>) = <<>>
BY NullsIs, Nulling!FoldNone

LEMMA NullsOne ==
  ASSUME NEW run \in Seq(Symbols), NEW s \in Symbols
  PROVE  Nulls(Append(run, s)) = NullSymbol(Nulls(run), s)
BY NullsIs, Nulling!FoldOne

LEMMA NullsType == \A run \in Seq(Symbols) : Nulls(run) \in Seq(Symbols)
<1>1. \A out \in Seq(Symbols) : \A s \in Symbols : NullSymbol(out, s) \in Seq(Symbols)
  BY NullSymbolType
<1>2. <<>> \in Seq(Symbols)
  BY EmptySeq
<1>3. \A run \in Seq(Symbols) : Nulling!Folded(<<>>, run) \in Seq(Symbols)
  BY <1>1, <1>2, Nulling!FoldType
<1> QED BY <1>3, NullsIs

LEMMA NullsOther ==
  ASSUME NEW run \in Seq(Symbols), NEW s \in Symbols, s \notin NonFiniteLetters
  PROVE  Nulls(Append(run, s)) = Append(Nulls(run), s)
<1>1. Nulls(run) \in Seq(Symbols)
  BY NullsType
<1>2. s # I2 /\ s # N2
  BY LettersAre
<1>3. NullSymbol(Nulls(run), s) = Append(Nulls(run), s)
  BY <1>1, <1>2, NullSymbolIs
<1> QED BY <1>3, NullsOne

\* A run may be cut after a symbol that is no letter of a token.
LEMMA NullsInParts ==
  ASSUME NEW run \in Seq(Symbols), NEW s \in Symbols, s \notin NonFiniteLetters
  PROVE  \A more \in Seq(Symbols) :
           Nulls(Append(run, s) \o more) = Nulls(Append(run, s)) \o Nulls(more)
<1> DEFINE first == Append(run, s)
           w == Nulls(first)
           G == {more \in Seq(Symbols) : Nulls(first \o more) = w \o Nulls(more)}
<1>1. first \in Seq(Symbols)
  OBVIOUS
<1>2. w \in Seq(Symbols) /\ w # <<>> /\ w[Len(w)] = s
  <2>1. w = Append(Nulls(run), s) /\ Nulls(run) \in Seq(Symbols)
    BY NullsOther, NullsType
  <2> QED BY <2>1, AppendProperties
<1> HIDE DEF first, w
<1>3. <<>> \in G
  <2>1. first \o <<>> = first /\ w \o <<>> = w /\ <<>> \in Seq(Symbols)
    BY <1>1, <1>2, ConcatEmptySeq, EmptySeq
  <2> QED BY <2>1, NullsNone DEF w
<1>4. ASSUME NEW more \in Seq(Symbols), NEW x \in Symbols, more \in G
      PROVE  Append(more, x) \in G
  <2> DEFINE longer == first \o more
             next == Append(more, x)
  <2>1. longer \in Seq(Symbols) /\ next \in Seq(Symbols) /\ first \o next = Append(longer, x)
    BY <1>1
  <2>2. Nulls(longer) = w \o Nulls(more) /\ Nulls(more) \in Seq(Symbols)
    BY <1>4, NullsType
  <2> HIDE DEF longer
  <2>3. Nulls(Append(longer, x)) = NullSymbol(w \o Nulls(more), x)
    BY <2>1, <2>2, NullsOne
  <2>4. Nulls(next) = NullSymbol(Nulls(more), x)
    BY NullsOne
  <2>5. NullSymbol(w \o Nulls(more), x) = w \o NullSymbol(Nulls(more), x)
    BY <1>2, <2>2, NullSymbolBeyond
  <2> HIDE DEF next
  <2>6. Nulls(first \o next) = w \o Nulls(next)
    BY <2>1, <2>3, <2>4, <2>5
  <2> QED BY <2>1, <2>6 DEF next
<1> HIDE DEF G
<1>5. Seq(Symbols) \subseteq G
  BY <1>3, <1>4, EverySequence
<1> QED BY <1>5 DEF G, first, w

-----------------------------------------------------------------------------
(***************************************************************************)
(* What as_api_response makes of a piece.                                  *)
(***************************************************************************)

\* c is where the letters begin that run ends with.
IsCut(run, c) ==
  /\ c \in 0..Len(run) /\ (c > 0 => run[c] \notin NonFiniteLetters)
  /\ \A i \in (c + 1)..Len(run) : run[i] \in NonFiniteLetters

LEMMA CutIs ==
  ASSUME NEW run \in Seq(Symbols)
  PROVE  IsCut(run, UpToLetters(run))
<1> DEFINE n == Len(run)
           others == {i \in DOMAIN run : run[i] \notin NonFiniteLetters}
<1>1. n \in Nat /\ others \in SUBSET (1..n) /\ DOMAIN run = 1..n
  OBVIOUS
<1>2. UpToLetters(run) = IF others = {} THEN 0 ELSE Max(others)
  BY Zenon DEF UpToLetters
<1>3. ASSUME NEW i \in 1..n, run[i] \notin NonFiniteLetters PROVE i \in others
  BY <1>1, <1>3
<1>4. ASSUME NEW i \in others PROVE run[i] \notin NonFiniteLetters
  OBVIOUS
<1> HIDE DEF others, n
<1>5. others # {} => Max(others) \in others /\ \A i \in others : i <= Max(others)
  <2> DEFINE B == {n - i : i \in others}
  <2> SUFFICES ASSUME others # {} PROVE Max(others) \in others /\ \A i \in others : i <= Max(others)
    OBVIOUS
  <2>1. B \subseteq Nat /\ B # {}
    <3>1. ASSUME NEW i \in others PROVE n - i \in Nat
      BY <1>1
    <3> QED BY <3>1
  <2>2. PICK b \in B : \A c \in B : b <= c
    <3> HIDE DEF B
    <3> QED BY <2>1, LeastNumber
  <2>3. PICK m \in others : b = n - m
    BY <2>2
  <2>4. ASSUME NEW i \in others PROVE m >= i
    <3>1. n - m <= n - i
      BY <2>2, <2>3
    <3> QED BY <1>1, <3>1
  <2>5. \E x \in others : \A y \in others : x >= y
    BY <2>4
  <2>6. Max(others) \in others /\ \A y \in others : Max(others) >= y
    BY <2>5, Zenon DEF Max
  <2> QED BY <1>1, <2>6
<1>6. CASE others = {}
  BY <1>1, <1>2, <1>3, <1>6 DEF IsCut, n
<1>7. CASE others # {}
  <2> DEFINE c == UpToLetters(run)
  <2>1. c \in others /\ c \in 1..n /\ run[c] \notin NonFiniteLetters
    BY <1>1, <1>2, <1>4, <1>5, <1>7
  <2>2. ASSUME NEW i \in (c + 1)..n PROVE run[i] \in NonFiniteLetters
    <3>1. i \in 1..n /\ ~(i <= c)
      BY <1>1, <2>1
    <3> QED BY <1>2, <1>3, <1>5, <1>7, <3>1
  <2> QED BY <1>1, <2>1, <2>2 DEF IsCut, n
<1> QED BY <1>6, <1>7

LEMMA OneCut ==
  ASSUME NEW run \in Seq(Symbols), NEW c, IsCut(run, c)
  PROVE  UpToLetters(run) = c
<1> DEFINE d == UpToLetters(run)
<1>1. IsCut(run, d)
  BY CutIs
<1>2. Len(run) \in Nat
  OBVIOUS
<1> HIDE DEF d
<1>3. c \in 0..Len(run) /\ d \in 0..Len(run)
  BY <1>1 DEF IsCut
<1>4. ASSUME c < d PROVE FALSE
  <2>1. d \in (c + 1)..Len(run) /\ d > 0
    BY <1>2, <1>3, <1>4
  <2> QED BY <1>1, <2>1 DEF IsCut
<1>5. ASSUME d < c PROVE FALSE
  <2>1. c \in (d + 1)..Len(run) /\ c > 0
    BY <1>2, <1>3, <1>5
  <2> QED BY <1>1, <2>1 DEF IsCut
<1>6. c = d
  BY <1>2, <1>3, <1>4, <1>5
<1> QED BY <1>6 DEF d

\* A run before the letters it ends with, and those letters.
Before(run) == SubSeq(run, 1, UpToLetters(run))
Letters(run) == SubSeq(run, UpToLetters(run) + 1, Len(run))
OnlyLetters(run) == \A i \in DOMAIN run : run[i] \in NonFiniteLetters

LEMMA PartsOfRun ==
  ASSUME NEW run \in Seq(Symbols)
  PROVE  /\ Before(run) \in Seq(Symbols) /\ Letters(run) \in Seq(Symbols)
         /\ OnlyLetters(Letters(run)) /\ run = Before(run) \o Letters(run)
<1> DEFINE c == UpToLetters(run)
           n == Len(run)
<1>1. IsCut(run, c) /\ n \in Nat
  BY CutIs
<1> HIDE DEF c
<1>2. c \in Nat /\ c <= n
  BY <1>1 DEF IsCut
<1>3. Before(run) = SubSeq(run, 1, c) /\ Letters(run) = SubSeq(run, c + 1, n)
  BY DEF Before, Letters, c
<1>4. \A i \in 1..n : run[i] \in Symbols
  OBVIOUS
<1>5. SubSeq(run, 1, c) \in Seq(Symbols)
  <2>1. 1 \in Int /\ c \in Int /\ \A i \in 1..c : run[i] \in Symbols
    BY <1>2, <1>4
  <2> QED BY <2>1, SubSeqProperties
<1> DEFINE tail == SubSeq(run, c + 1, n)
<1>6. /\ tail \in Seq(Symbols) /\ Len(tail) = IF c + 1 <= n THEN n - (c + 1) + 1 ELSE 0
      /\ \A i \in 1..(n - (c + 1) + 1) : tail[i] = run[(c + 1) + i - 1]
  <2>1. c + 1 \in Int /\ n \in Int /\ \A i \in (c + 1)..n : run[i] \in Symbols
    BY <1>1, <1>2, <1>4
  <2> QED BY <2>1, SubSeqProperties
<1> HIDE DEF tail, n
<1>7. OnlyLetters(tail)
  <2>1. ASSUME NEW i \in DOMAIN tail PROVE tail[i] \in NonFiniteLetters
    <3>1. i \in 1..Len(tail) /\ Len(tail) = n - c
      BY <1>1, <1>2, <1>6
    <3>2. i \in 1..(n - (c + 1) + 1) /\ (c + 1) + i - 1 \in (c + 1)..n
      BY <1>1, <1>2, <3>1
    <3> QED BY <1>1, <1>6, <3>2 DEF IsCut, n
  <2> QED BY <2>1 DEF OnlyLetters
<1>8. run = SubSeq(run, 1, c) \o tail
  <2>1. /\ 1 \in 1..(Len(run) + 1) /\ c \in (1 - 1)..Len(run) /\ Len(run) \in c..Len(run)
    BY <1>1, <1>2 DEF n
  <2>2. SubSeq(run, 1, c) \o SubSeq(run, c + 1, Len(run)) = SubSeq(run, 1, Len(run))
    BY <2>1, ConcatAdjacentSubSeq
  <2>3. SubSeq(run, 1, Len(run)) = run
    BY SubSeqFull
  <2> QED BY <2>2, <2>3 DEF tail, n
<1> QED BY <1>3, <1>5, <1>6, <1>7, <1>8 DEF tail, n

LEMMA LettersAlone ==
  ASSUME NEW run \in Seq(Symbols), OnlyLetters(run)
  PROVE  Before(run) = <<>> /\ Letters(run) = run
<1>1. IsCut(run, 0)
  BY DEF IsCut, OnlyLetters
<1>2. UpToLetters(run) = 0
  BY <1>1, OneCut
<1>3. Before(run) = <<>>
  BY <1>2, SubSeqEmpty DEF Before
<1>4. Letters(run) = run
  BY <1>2, SubSeqFull DEF Letters
<1> QED BY <1>3, <1>4

LEMMA OneMore ==
  ASSUME NEW b \in Seq(Symbols), NEW l \in Seq(Symbols), NEW s \in Symbols
  PROVE  /\ Append(l, s) \in Seq(Symbols) /\ Append(b \o l, s) \in Seq(Symbols)
         /\ Append(b \o l, s) = b \o Append(l, s)
OBVIOUS

LEMMA LetterMore ==
  ASSUME NEW run \in Seq(Symbols), NEW s \in NonFiniteLetters
  PROVE  /\ Before(Append(run, s)) = Before(run)
         /\ Letters(Append(run, s)) = Append(Letters(run), s)
<1> DEFINE more == Append(run, s)
           c == UpToLetters(run)
           n == Len(run)
<1>0. s \in Symbols
  BY LettersAre
<1>1. /\ more \in Seq(Symbols) /\ n \in Nat /\ Len(more) = n + 1
      /\ \A i \in 1..n : more[i] = run[i] /\ more[n + 1] = s
  BY <1>0, AppendProperties
<1>2. IsCut(run, c)
  BY CutIs
<1> HIDE DEF more, c
<1>3. IsCut(more, c)
  <2>1. c \in 0..n /\ c \in 0..(n + 1) /\ (c > 0 => c \in 1..n)
    BY <1>1, <1>2 DEF IsCut, n
  <2>2. c > 0 => more[c] \notin NonFiniteLetters
    BY <1>1, <1>2, <2>1 DEF IsCut
  <2>3. ASSUME NEW i \in (c + 1)..(n + 1) PROVE more[i] \in NonFiniteLetters
    <3>1. i = n + 1 \/ (i \in (c + 1)..n /\ i \in 1..n)
      BY <1>1, <2>1
    <3>2. more[n + 1] = s
      BY <1>0, AppendProperties DEF more
    <3> QED BY <1>1, <1>2, <3>1, <3>2 DEF IsCut, n
  <2> QED BY <1>1, <2>1, <2>2, <2>3 DEF IsCut
<1>4. UpToLetters(more) = c
  BY <1>1, <1>3, OneCut
<1>5. Before(run) \in Seq(Symbols) /\ Letters(run) \in Seq(Symbols) /\ run = Before(run) \o Letters(run)
  BY PartsOfRun
<1>6. more = Before(more) \o Letters(more) /\ Before(more) \in Seq(Symbols) /\ Letters(more) \in Seq(Symbols)
  BY <1>1, PartsOfRun
<1>7. Before(more) = Before(run)
  <2>1. c \in Nat /\ c <= n /\ c <= n + 1
    BY <1>1, <1>2 DEF IsCut, n
  <2>2. ASSUME NEW i \in 1..c PROVE run[i] \in Symbols /\ more[i] = run[i]
    BY <1>1, <2>1
  <2>3. /\ SubSeq(run, 1, c) \in Seq(Symbols) /\ Len(SubSeq(run, 1, c)) = IF 1 <= c THEN c - 1 + 1 ELSE 0
        /\ \A i \in 1..(c - 1 + 1) : SubSeq(run, 1, c)[i] = run[1 + i - 1]
    <3>1. 1 \in Int /\ c \in Int /\ \A i \in 1..c : run[i] \in Symbols
      BY <2>1, <2>2
    <3> QED BY <3>1, SubSeqProperties
  <2>4. /\ SubSeq(more, 1, c) \in Seq(Symbols) /\ Len(SubSeq(more, 1, c)) = IF 1 <= c THEN c - 1 + 1 ELSE 0
        /\ \A i \in 1..(c - 1 + 1) : SubSeq(more, 1, c)[i] = more[1 + i - 1]
    <3>1. 1 \in Int /\ c \in Int /\ \A i \in 1..c : more[i] \in Symbols
      BY <2>1, <2>2
    <3> QED BY <3>1, SubSeqProperties
  <2>5. ASSUME NEW i \in 1..Len(SubSeq(run, 1, c)) PROVE SubSeq(run, 1, c)[i] = SubSeq(more, 1, c)[i]
    <3>1. i \in 1..c /\ i \in 1..(c - 1 + 1) /\ 1 + i - 1 = i
      BY <2>1, <2>3
    <3> QED BY <2>2, <2>3, <2>4, <3>1
  <2>6. SubSeq(run, 1, c) = SubSeq(more, 1, c)
    BY <2>3, <2>4, <2>5, SeqEqual
  <2> QED BY <1>4, <2>6 DEF Before, c
<1> DEFINE b == Before(run)
           l == Letters(run)
           ls == Append(l, s)
<1> HIDE DEF b, l
<1>8. b \in Seq(Symbols) /\ l \in Seq(Symbols) /\ run = b \o l
  BY <1>5 DEF b, l
<1>9. ls \in Seq(Symbols) /\ more = b \o ls
  BY <1>0, <1>8, OneMore, Zenon DEF more, ls
<1>10. more = b \o Letters(more)
  BY <1>6, <1>7 DEF b
<1> HIDE DEF ls
<1>11. Letters(more) = ls
  BY <1>6, <1>8, <1>9, <1>10, ConcatSimplifications
<1> QED BY <1>7, <1>11 DEF more, ls, l

LEMMA OtherMore ==
  ASSUME NEW run \in Seq(Symbols), NEW s \in Symbols, s \notin NonFiniteLetters
  PROVE  /\ Before(Append(run, s)) = Append(run, s) /\ Letters(Append(run, s)) = <<>>
         /\ Nulls(Append(run, s)) = Nulls(Before(run)) \o Nulls(Append(Letters(run), s))
<1> DEFINE more == Append(run, s)
           n == Len(run)
<1>1. /\ more \in Seq(Symbols) /\ n \in Nat /\ Len(more) = n + 1 /\ more[n + 1] = s
  BY AppendProperties
<1>2. IsCut(more, n + 1)
  <2> HIDE DEF more
  <2> QED BY <1>1 DEF IsCut
<1> HIDE DEF more
<1>3. UpToLetters(more) = n + 1
  BY <1>1, <1>2, OneCut
<1>4. Before(more) = more
  BY <1>1, <1>3, SubSeqFull DEF Before
<1>5. Letters(more) = <<>>
  <2>1. n + 1 + 1 \in Int /\ n + 1 \in Int /\ n + 1 < n + 1 + 1
    BY <1>1
  <2>2. SubSeq(more, n + 1 + 1, n + 1) = <<>>
    BY <2>1, SubSeqEmpty
  <2> QED BY <1>1, <1>3, <2>2 DEF Letters
<1> DEFINE b == Before(run)
           l == Letters(run)
           ls == Append(l, s)
<1>6. b \in Seq(Symbols) /\ l \in Seq(Symbols) /\ run = b \o l
  BY PartsOfRun
<1> HIDE DEF b, l
<1>7. ls \in Seq(Symbols) /\ more = b \o ls
  BY <1>6, OneMore, Zenon DEF more, ls
<1> HIDE DEF ls
<1>8. Nulls(more) = Nulls(b) \o Nulls(ls)
  <2>1. CASE b = <<>>
    <3>1. <<>> \o ls = ls /\ Nulls(ls) \in Seq(Symbols)
      BY <1>7, ConcatEmptySeq, NullsType
    <3>2. <<>> \o Nulls(ls) = Nulls(ls)
      BY <3>1, ConcatEmptySeq
    <3> QED BY <1>7, <2>1, <3>1, <3>2, NullsNone
  <2>2. CASE b # <<>>
    <3> DEFINE c == UpToLetters(run)
    <3>1. IsCut(run, c)
      BY CutIs
    <3>2. b = SubSeq(run, 1, c)
      BY DEF b, Before
    <3> HIDE DEF c
    <3>3. c \in 0..n /\ c # 0
      <4>1. c = 0 => SubSeq(run, 1, c) = <<>>
        BY SubSeqEmpty
      <4> QED BY <2>2, <3>1, <3>2, <4>1 DEF IsCut
    <3>4. c \in 1..n /\ 1 \in 1..n /\ c \in 1..Len(run)
      BY <1>1, <3>3
    <3>5. b = SubSeq(run, 1, c - 1) \o <<run[c]>>
      BY <3>2, <3>4, SubSeqRecursiveSecond
    <3> DEFINE r == SubSeq(run, 1, c - 1)
               x == run[c]
    <3>6. r \in Seq(Symbols)
      <4>1. 1 \in Int /\ c - 1 \in Int /\ \A i \in 1..(c - 1) : run[i] \in Symbols
        BY <1>1, <3>4
      <4> QED BY <4>1, SubSeqProperties
    <3>7. x \in Symbols /\ x \notin NonFiniteLetters
      BY <1>1, <3>1, <3>4 DEF IsCut
    <3> HIDE DEF r, x
    <3>8. b = Append(r, x)
      BY <3>5, <3>6, <3>7, AppendIsConcat DEF r, x
    <3>9. Nulls(Append(r, x) \o ls) = Nulls(Append(r, x)) \o Nulls(ls)
      BY <1>7, <3>6, <3>7, NullsInParts
    <3> QED BY <1>7, <3>8, <3>9
  <2> QED BY <2>1, <2>2
<1> QED BY <1>4, <1>5, <1>8 DEF more, b, l, ls

-----------------------------------------------------------------------------
(***************************************************************************)
(* A document read symbol by symbol.                                       *)
(***************************************************************************)

\* What is read so far: the string it is inside of, the letters held back
\* before it, what is given out, and the most letters ever held.
ReadingStates ==
  {r \in [string : Seq(Symbols), escaped : BOOLEAN, held : Seq(Symbols), given : Seq(Symbols), most : Nat] :
     /\ OnlyLetters(r.held) /\ Len(r.held) <= r.most
     /\ r.string = <<>> => ~r.escaped}

ReadSymbol(r, s) ==
  IF r.string # <<>>
  THEN IF ~r.escaped /\ s = Quote
       THEN [r EXCEPT !.given = @ \o Nulls(r.held) \o Append(r.string, s),
                      !.held = <<>>, !.string = <<>>]
       ELSE [r EXCEPT !.string = Append(@, s), !.escaped = (~r.escaped /\ s = Backslash)]
  ELSE IF s = Quote THEN [r EXCEPT !.string = <<s>>]
  ELSE IF s \in NonFiniteLetters
       THEN [r EXCEPT !.held = Append(@, s),
                      !.most = IF @ < Len(r.held) + 1 THEN Len(r.held) + 1 ELSE @]
  ELSE [r EXCEPT !.given = @ \o Nulls(Append(r.held, s)), !.held = <<>>]

Symbolwise == INSTANCE FoldLemmas WITH Op <- ReadSymbol
ReadOn(r, w) == Symbolwise!Folded(r, w)

\* One step, case by case.
LEMMA ReadQuoteInside ==
  ASSUME NEW r \in ReadingStates, r.string # <<>>, ~r.escaped
  PROVE  LET q == ReadSymbol(r, Quote) IN
         /\ q \in ReadingStates /\ q.string = <<>> /\ q.escaped = FALSE
         /\ q.held = <<>> /\ q.given = r.given \o Nulls(r.held) \o Append(r.string, Quote)
         /\ q.most = r.most
<1> DEFINE q == ReadSymbol(r, Quote)
           given == r.given \o Nulls(r.held) \o Append(r.string, Quote)
<1>1. q = [r EXCEPT !.given = given, !.held = <<>>, !.string = <<>>]
  BY DEF ReadSymbol
<1>2. /\ r.given \in Seq(Symbols) /\ r.held \in Seq(Symbols) /\ r.string \in Seq(Symbols)
      /\ r.most \in Nat /\ r.escaped \in BOOLEAN
  BY DEF ReadingStates
<1>3. given \in Seq(Symbols)
  <2>1. Nulls(r.held) \in Seq(Symbols) /\ Append(r.string, Quote) \in Seq(Symbols)
    BY <1>2, NullsType, PlainSymbols, AppendProperties
  <2> QED BY <1>2, <2>1, ConcatType, Zenon
<1> HIDE DEF given
<1>4. /\ q.string = <<>> /\ q.escaped = r.escaped /\ q.held = <<>> /\ q.given = given /\ q.most = r.most
      /\ q \in [string : Seq(Symbols), escaped : BOOLEAN, held : Seq(Symbols), given : Seq(Symbols), most : Nat]
  BY <1>1, <1>2, <1>3, EmptySeq DEF ReadingStates
<1>5. OnlyLetters(<<>>) /\ Len(<<>>) = 0
  BY DEF OnlyLetters
<1>6. q.escaped = FALSE
  BY <1>2, <1>4
<1> HIDE DEF q
<1>7. q \in ReadingStates
  BY <1>2, <1>4, <1>5, <1>6 DEF ReadingStates
<1> QED BY <1>4, <1>6, <1>7 DEF q, given

LEMMA ReadInside ==
  ASSUME NEW r \in ReadingStates, r.string # <<>>, NEW s \in Symbols, r.escaped \/ s # Quote
  PROVE  LET q == ReadSymbol(r, s) IN
         /\ q \in ReadingStates /\ q.string = Append(r.string, s) /\ q.string # <<>>
         /\ q.escaped = (~r.escaped /\ s = Backslash)
         /\ q.held = r.held /\ q.given = r.given /\ q.most = r.most
<1> DEFINE q == ReadSymbol(r, s)
           string == Append(r.string, s)
           escaped == (~r.escaped /\ s = Backslash)
<1>1. q = [r EXCEPT !.string = string, !.escaped = escaped]
  BY DEF ReadSymbol
<1>2. r.string \in Seq(Symbols)
  BY DEF ReadingStates
<1>3. string \in Seq(Symbols) /\ string # <<>> /\ escaped \in BOOLEAN
  BY <1>2
<1> HIDE DEF string, escaped
<1>4. /\ q.string = string /\ q.escaped = escaped /\ q.held = r.held /\ q.given = r.given /\ q.most = r.most
      /\ q \in [string : Seq(Symbols), escaped : BOOLEAN, held : Seq(Symbols), given : Seq(Symbols), most : Nat]
  BY <1>1, <1>3 DEF ReadingStates
<1> HIDE DEF q
<1>5. q \in ReadingStates
  BY <1>3, <1>4 DEF ReadingStates
<1> QED BY <1>3, <1>4, <1>5 DEF q, string, escaped

LEMMA ReadQuote ==
  ASSUME NEW r \in ReadingStates, r.string = <<>>
  PROVE  LET q == ReadSymbol(r, Quote) IN
         /\ q \in ReadingStates /\ q.string = <<Quote>> /\ q.string # <<>> /\ q.escaped = FALSE
         /\ q.held = r.held /\ q.given = r.given /\ q.most = r.most
<1> DEFINE q == ReadSymbol(r, Quote)
           string == <<Quote>>
<1>1. q = [r EXCEPT !.string = string]
  BY DEF ReadSymbol
<1>2. string \in Seq(Symbols) /\ string # <<>>
  BY PlainSymbols, OneType
<1> HIDE DEF string
<1>3. /\ q.string = string /\ q.escaped = r.escaped /\ q.held = r.held /\ q.given = r.given /\ q.most = r.most
      /\ q \in [string : Seq(Symbols), escaped : BOOLEAN, held : Seq(Symbols), given : Seq(Symbols), most : Nat]
  BY <1>1, <1>2 DEF ReadingStates
<1> HIDE DEF q
<1>4. r.escaped = FALSE
  BY DEF ReadingStates
<1>5. q \in ReadingStates
  BY <1>2, <1>3 DEF ReadingStates
<1> QED BY <1>2, <1>3, <1>4, <1>5 DEF q, string

LEMMA ReadLetter ==
  ASSUME NEW r \in ReadingStates, r.string = <<>>, NEW s \in NonFiniteLetters
  PROVE  LET q == ReadSymbol(r, s) IN
         /\ q \in ReadingStates /\ q.string = <<>> /\ q.escaped = FALSE
         /\ q.held = Append(r.held, s) /\ q.given = r.given
         /\ q.most \in Nat /\ r.most \in Nat /\ r.most <= q.most
         /\ q.most = r.most \/ q.most = Len(q.held)
<1> DEFINE q == ReadSymbol(r, s)
           held == Append(r.held, s)
           most == IF r.most < Len(r.held) + 1 THEN Len(r.held) + 1 ELSE r.most
<1>1. q = [r EXCEPT !.held = held, !.most = most]
  <2>1. s # Quote
    BY PlainSymbols
  <2> QED BY <2>1 DEF ReadSymbol
<1>2. s \in Symbols /\ r.held \in Seq(Symbols) /\ OnlyLetters(r.held) /\ r.most \in Nat
  BY LettersAre DEF ReadingStates
<1>3. held \in Seq(Symbols) /\ Len(held) = Len(r.held) + 1 /\ OnlyLetters(held)
  <2>1. held \in Seq(Symbols) /\ Len(held) = Len(r.held) + 1
        /\ \A i \in 1..Len(r.held) : held[i] = r.held[i] /\ held[Len(r.held) + 1] = s
    BY <1>2, AppendProperties
  <2>2. ASSUME NEW i \in DOMAIN held PROVE held[i] \in NonFiniteLetters
    <3>1. i = Len(r.held) + 1 \/ i \in 1..Len(r.held)
      BY <1>2
    <3>2. held[Len(r.held) + 1] = s
      BY <1>2, AppendProperties
    <3>3. i \in 1..Len(r.held) => i \in DOMAIN r.held
      BY <1>2
    <3> QED BY <1>2, <2>1, <3>1, <3>2, <3>3 DEF OnlyLetters
  <2> QED BY <2>1, <2>2 DEF OnlyLetters
<1>4. /\ most \in Nat /\ r.most <= most /\ Len(held) <= most
      /\ most = r.most \/ most = Len(held)
  <2>1. Len(r.held) \in Nat
    BY <1>2
  <2> QED BY <1>2, <1>3, <2>1
<1> HIDE DEF held, most
<1>5. /\ q.string = <<>> /\ q.escaped = r.escaped /\ q.held = held /\ q.given = r.given /\ q.most = most
      /\ q \in [string : Seq(Symbols), escaped : BOOLEAN, held : Seq(Symbols), given : Seq(Symbols), most : Nat]
  BY <1>1, <1>3, <1>4 DEF ReadingStates
<1> HIDE DEF q
<1>6. r.escaped = FALSE
  BY DEF ReadingStates
<1>7. q \in ReadingStates
  BY <1>3, <1>4, <1>5, <1>6 DEF ReadingStates
<1> QED BY <1>2, <1>4, <1>5, <1>6, <1>7 DEF q, held

LEMMA ReadOther ==
  ASSUME NEW r \in ReadingStates, r.string = <<>>, NEW s \in Symbols, Plain(s)
  PROVE  LET q == ReadSymbol(r, s) IN
         /\ q \in ReadingStates /\ q.string = <<>> /\ q.escaped = FALSE
         /\ q.held = <<>> /\ q.given = r.given \o Nulls(Append(r.held, s)) /\ q.most = r.most
<1> DEFINE q == ReadSymbol(r, s)
           given == r.given \o Nulls(Append(r.held, s))
<1>1. q = [r EXCEPT !.given = given, !.held = <<>>]
  BY DEF ReadSymbol, Plain
<1>2. r.given \in Seq(Symbols) /\ r.held \in Seq(Symbols) /\ r.most \in Nat
  BY DEF ReadingStates
<1>3. given \in Seq(Symbols)
  <2>1. Append(r.held, s) \in Seq(Symbols)
    BY <1>2
  <2>2. Nulls(Append(r.held, s)) \in Seq(Symbols)
    BY <2>1, NullsType
  <2> QED BY <1>2, <2>2, ConcatType, Zenon
<1> HIDE DEF given
<1>4. /\ q.string = <<>> /\ q.escaped = r.escaped /\ q.held = <<>> /\ q.given = given /\ q.most = r.most
      /\ q \in [string : Seq(Symbols), escaped : BOOLEAN, held : Seq(Symbols), given : Seq(Symbols), most : Nat]
  BY <1>1, <1>3, EmptySeq DEF ReadingStates
<1>5. OnlyLetters(<<>>) /\ Len(<<>>) = 0
  BY DEF OnlyLetters
<1>6. r.escaped = FALSE
  BY DEF ReadingStates
<1> HIDE DEF q
<1>7. q \in ReadingStates
  BY <1>2, <1>4, <1>5, <1>6 DEF ReadingStates
<1> QED BY <1>4, <1>6, <1>7 DEF q, given

LEMMA ReadStep ==
  ASSUME NEW r \in ReadingStates, NEW s \in Symbols
  PROVE  LET q == ReadSymbol(r, s) IN
         /\ q \in ReadingStates /\ r.most \in Nat /\ q.most \in Nat /\ r.most <= q.most
         /\ \E more \in Seq(Symbols) : q.given = r.given \o more
<1> DEFINE q == ReadSymbol(r, s)
<1>1. /\ r.most \in Nat /\ r.given \in Seq(Symbols) /\ r.held \in Seq(Symbols)
      /\ r.string \in Seq(Symbols) /\ r.escaped \in BOOLEAN
  BY DEF ReadingStates
<1>2. ASSUME q.given = r.given PROVE \E more \in Seq(Symbols) : q.given = r.given \o more
  <2>1. r.given \o <<>> = r.given /\ <<>> \in Seq(Symbols)
    BY <1>1, ConcatEmptySeq, EmptySeq
  <2> QED BY <1>2, <2>1
<1>3. CASE r.string # <<>> /\ ~r.escaped /\ s = Quote
  <2> DEFINE nulls == Nulls(r.held)
             string == Append(r.string, Quote)
  <2>1. nulls \in Seq(Symbols) /\ string \in Seq(Symbols)
    BY <1>1, NullsType, PlainSymbols, AppendProperties
  <2>2. q \in ReadingStates /\ q.most = r.most /\ q.given = r.given \o nulls \o string
    BY <1>3, ReadQuoteInside
  <2> HIDE DEF nulls, string, q
  <2>3. nulls \o string \in Seq(Symbols) /\ r.given \o nulls \o string = r.given \o (nulls \o string)
    <3> DEFINE given == r.given
    <3>1. given \in Seq(Symbols)
      BY <1>1
    <3> HIDE DEF given
    <3>2. nulls \o string \in Seq(Symbols) /\ given \o nulls \o string = given \o (nulls \o string)
      BY <2>1, <3>1, Grouped
    <3> QED BY <3>2 DEF given
  <2>4. \E more \in Seq(Symbols) : q.given = r.given \o more
    BY <2>2, <2>3
  <2>5. q \in ReadingStates /\ r.most \in Nat /\ q.most \in Nat /\ r.most <= q.most
    BY <1>1, <2>2
  <2> QED BY <2>4, <2>5 DEF q
<1>4. CASE r.string # <<>> /\ (r.escaped \/ s # Quote)
  <2>1. q \in ReadingStates /\ q.most = r.most /\ q.given = r.given
    BY <1>4, ReadInside
  <2> HIDE DEF q
  <2>2. q \in ReadingStates /\ r.most \in Nat /\ q.most \in Nat /\ r.most <= q.most
    BY <1>1, <2>1
  <2> QED BY <1>2, <2>1, <2>2 DEF q
<1>5. CASE r.string = <<>> /\ s = Quote
  <2>1. q \in ReadingStates /\ q.most = r.most /\ q.given = r.given
    BY <1>5, ReadQuote
  <2> HIDE DEF q
  <2>2. q \in ReadingStates /\ r.most \in Nat /\ q.most \in Nat /\ r.most <= q.most
    BY <1>1, <2>1
  <2> QED BY <1>2, <2>1, <2>2 DEF q
<1>6. CASE r.string = <<>> /\ s \in NonFiniteLetters
  <2>1. q \in ReadingStates /\ r.most \in Nat /\ q.most \in Nat /\ r.most <= q.most /\ q.given = r.given
    BY <1>6, ReadLetter
  <2> HIDE DEF q
  <2> QED BY <1>2, <2>1 DEF q
<1>7. CASE r.string = <<>> /\ Plain(s)
  <2> DEFINE more == Nulls(Append(r.held, s))
  <2>1. Append(r.held, s) \in Seq(Symbols)
    BY <1>1
  <2>2. more \in Seq(Symbols)
    BY <2>1, NullsType
  <2>3. q \in ReadingStates /\ q.most = r.most /\ q.given = r.given \o more
    BY <1>7, ReadOther
  <2> HIDE DEF q, more
  <2>4. q \in ReadingStates /\ r.most \in Nat /\ q.most \in Nat /\ r.most <= q.most
    BY <1>1, <2>3
  <2> QED BY <2>2, <2>3, <2>4 DEF q
<1>8. s = Quote \/ s \in NonFiniteLetters \/ Plain(s)
  BY DEF Plain
<1> QED BY <1>1, <1>3, <1>4, <1>5, <1>6, <1>7, <1>8, Zenon

LEMMA ReadOnNone == \A r : ReadOn(r, <<>>) = r
BY Symbolwise!FoldNone DEF ReadOn

LEMMA ReadOnOne ==
  ASSUME NEW r, NEW w \in Seq(Symbols), NEW s \in Symbols
  PROVE  ReadOn(r, Append(w, s)) = ReadSymbol(ReadOn(r, w), s)
BY Symbolwise!FoldOne DEF ReadOn

LEMMA ReadOnConcat ==
  ASSUME NEW r, NEW w \in Seq(Symbols), NEW v \in Seq(Symbols)
  PROVE  ReadOn(r, w \o v) = ReadOn(ReadOn(r, w), v)
BY Symbolwise!FoldConcat DEF ReadOn

\* What was given out stays given out, and most only grows.
LEMMA ReadOnType ==
  ASSUME NEW r \in ReadingStates
  PROVE  \A w \in Seq(Symbols) :
           /\ ReadOn(r, w) \in ReadingStates
           /\ r.most \in Nat /\ ReadOn(r, w).most \in Nat /\ r.most <= ReadOn(r, w).most
           /\ \E more \in Seq(Symbols) : ReadOn(r, w).given = r.given \o more
<1> DEFINE Good(q) == /\ q \in ReadingStates
                      /\ r.most \in Nat /\ q.most \in Nat /\ r.most <= q.most
                      /\ \E more \in Seq(Symbols) : q.given = r.given \o more
           G == {w \in Seq(Symbols) : Good(ReadOn(r, w))}
<1>1. r.most \in Nat /\ r.given \in Seq(Symbols)
  BY DEF ReadingStates
<1>2. <<>> \in G
  <2>1. r.given \o <<>> = r.given /\ <<>> \in Seq(Symbols)
    BY <1>1, ConcatEmptySeq, EmptySeq
  <2>2. Good(r)
    <3>1. \E more \in Seq(Symbols) : r.given = r.given \o more
      BY <2>1
    <3>2. r.most <= r.most
      BY <1>1
    <3> QED BY <1>1, <3>1, <3>2
  <2> QED BY <2>1, <2>2, ReadOnNone
<1>3. ASSUME NEW w \in Seq(Symbols), NEW s \in Symbols, w \in G PROVE Append(w, s) \in G
  <2> DEFINE q == ReadOn(r, w)
             p == ReadSymbol(q, s)
  <2>1. Good(q)
    BY <1>3
  <2>2. Append(w, s) \in Seq(Symbols) /\ ReadOn(r, Append(w, s)) = p
    BY ReadOnOne
  <2> HIDE DEF q
  <2>3. p \in ReadingStates /\ q.most \in Nat /\ p.most \in Nat /\ q.most <= p.most
    BY <2>1, ReadStep
  <2>4. PICK more \in Seq(Symbols) : p.given = q.given \o more
    BY <2>1, ReadStep
  <2> HIDE DEF p
  <2>5. PICK before \in Seq(Symbols) : q.given = r.given \o before
    BY <2>1
  <2>6. before \o more \in Seq(Symbols) /\ r.given \o before \o more = r.given \o (before \o more)
    <3> DEFINE given == r.given
    <3>1. given \in Seq(Symbols)
      BY <1>1
    <3> HIDE DEF given
    <3>2. before \o more \in Seq(Symbols) /\ given \o before \o more = given \o (before \o more)
      BY <3>1, Grouped
    <3> QED BY <3>2 DEF given
  <2>7. \E m \in Seq(Symbols) : p.given = r.given \o m
    BY <2>4, <2>5, <2>6
  <2>8. r.most <= p.most
    BY <1>1, <2>1, <2>3
  <2>9. Good(p)
    BY <1>1, <2>3, <2>7, <2>8
  <2> QED BY <2>2, <2>9
<1> HIDE DEF G
<1>4. Seq(Symbols) \subseteq G
  BY <1>2, <1>3, EverySequence
<1> QED BY <1>4 DEF G

-----------------------------------------------------------------------------
(***************************************************************************)
(* What the symbols of a document read as.                                 *)
(***************************************************************************)

\* What is read, with the letters held back.
Text(r) == r.given \o Nulls(r.held)

\* Between strings, with little held so far; and with nothing held.
Outside == {r \in ReadingStates : r.string = <<>> /\ r.most <= 3}
Fresh == {r \in Outside : r.held = <<>>}

\* From a state in S, w is read as e.
Reads(S, w, e) ==
  /\ w \in Seq(Symbols) /\ e \in Seq(Symbols)
  /\ \A r \in S : ReadOn(r, w) \in Outside /\ Text(ReadOn(r, w)) = Text(r) \o e

LEMMA TextType ==
  ASSUME NEW r \in ReadingStates
  PROVE  /\ r.given \in Seq(Symbols) /\ r.held \in Seq(Symbols) /\ Nulls(r.held) \in Seq(Symbols)
         /\ Text(r) \in Seq(Symbols) /\ (r.held = <<>> => Text(r) = r.given)
<1> DEFINE given == r.given
           held == r.held
<1>1. given \in Seq(Symbols) /\ held \in Seq(Symbols)
  BY DEF ReadingStates
<1> HIDE DEF given, held
<1>2. Nulls(held) \in Seq(Symbols)
  BY <1>1, NullsType
<1>3. given \o Nulls(held) \in Seq(Symbols)
  BY <1>1, <1>2, ConcatType, Zenon
<1>4. given \o <<>> = given
  BY <1>1, ConcatEmptySeq
<1>5. held = <<>> => given \o Nulls(held) = given
  BY <1>4, NullsNone
<1> QED BY <1>1, <1>2, <1>3, <1>5 DEF Text, given, held

LEMMA ReadsNothing ==
  ASSUME NEW S, S \subseteq Outside
  PROVE  Reads(S, <<>>, <<>>)
<1>1. ASSUME NEW r \in S PROVE ReadOn(r, <<>>) \in Outside /\ Text(ReadOn(r, <<>>)) = Text(r) \o <<>>
  <2>1. r \in Outside /\ r \in ReadingStates
    BY DEF Outside
  <2> DEFINE t == Text(r)
  <2>2. t \in Seq(Symbols)
    BY <2>1, TextType
  <2> HIDE DEF t
  <2>3. t \o <<>> = t
    BY <2>2, ConcatEmptySeq
  <2> QED BY <2>1, <2>3, ReadOnNone DEF t
<1> QED BY <1>1, EmptySeq DEF Reads

LEMMA ReadsLater ==
  ASSUME NEW w, NEW e, Reads(Outside, w, e)
  PROVE  Reads(Fresh, w, e)
BY DEF Reads, Fresh

\* Two texts, one after the other.
LEMMA ReadsInTurn ==
  ASSUME NEW S, S \subseteq Outside, NEW w, NEW e, NEW v, NEW f,
         Reads(S, w, e), Reads(Outside, v, f)
  PROVE  Reads(S, w \o v, e \o f)
<1>1. w \in Seq(Symbols) /\ e \in Seq(Symbols) /\ v \in Seq(Symbols) /\ f \in Seq(Symbols)
  BY DEF Reads
<1>2. w \o v \in Seq(Symbols) /\ e \o f \in Seq(Symbols)
  BY <1>1, ConcatType, Zenon
<1>3. ASSUME NEW r \in S
      PROVE  ReadOn(r, w \o v) \in Outside /\ Text(ReadOn(r, w \o v)) = Text(r) \o (e \o f)
  <2> DEFINE q == ReadOn(r, w)
             t == Text(r)
  <2>1. q \in Outside /\ Text(q) = t \o e
    BY DEF Reads
  <2>2. t \in Seq(Symbols)
    BY TextType DEF Outside
  <2>3. ReadOn(r, w \o v) = ReadOn(q, v)
    BY <1>1, ReadOnConcat
  <2> HIDE DEF q, t
  <2>4. ReadOn(q, v) \in Outside /\ Text(ReadOn(q, v)) = Text(q) \o f
    BY <2>1 DEF Reads
  <2>5. (t \o e) \o f = t \o (e \o f)
    BY <1>1, <2>2, ConcatAssociative, SMTT(30)
  <2> QED BY <2>1, <2>3, <2>4, <2>5 DEF t
<1> QED BY <1>2, <1>3 DEF Reads

\* A plain symbol, and after it a text read from afresh.
LEMMA ReadsPlain ==
  ASSUME NEW c, Plain(c), NEW v, NEW f, Reads(Fresh, v, f)
  PROVE  Reads(Outside, <<c>> \o v, <<c>> \o f)
<1>1. c \in Symbols /\ c \notin NonFiniteLetters /\ v \in Seq(Symbols) /\ f \in Seq(Symbols)
  BY DEF Plain, Reads
<1>2. <<c>> \in Seq(Symbols) /\ <<>> \in Seq(Symbols) /\ Append(<<>>, c) = <<c>>
  BY <1>1
<1> DEFINE cc == <<c>>
<1>3. cc \in Seq(Symbols)
  BY <1>2
<1>4. cc \o v \in Seq(Symbols) /\ cc \o f \in Seq(Symbols)
  BY <1>1, <1>3, ConcatType, Zenon
<1>5. ASSUME NEW r \in Outside
      PROVE  ReadOn(r, cc \o v) \in Outside /\ Text(ReadOn(r, cc \o v)) = Text(r) \o (cc \o f)
  <2>1. r \in ReadingStates /\ r.string = <<>> /\ r.most <= 3
    BY DEF Outside
  <2> DEFINE q == ReadSymbol(r, c)
             held == r.held
             given == r.given
             nulls == Nulls(r.held)
             t == Text(r)
  <2>2. /\ q \in ReadingStates /\ q.string = <<>> /\ q.held = <<>> /\ q.most = r.most
        /\ q.given = given \o Nulls(Append(held, c))
    BY <1>1, <2>1, ReadOther
  <2>3. /\ held \in Seq(Symbols) /\ given \in Seq(Symbols) /\ nulls \in Seq(Symbols) /\ t \in Seq(Symbols)
        /\ t = given \o nulls
    BY <2>1, TextType DEF Text
  <2>4. Nulls(Append(held, c)) = Append(nulls, c)
    <3> HIDE DEF held
    <3> QED BY <1>1, <2>3, NullsOther DEF held
  <2>5. ReadOn(r, cc) = q
    <3>1. ReadOn(r, Append(<<>>, c)) = ReadSymbol(ReadOn(r, <<>>), c)
      BY <1>1, <1>2, ReadOnOne
    <3> QED BY <1>2, <3>1, ReadOnNone
  <2>6. ReadOn(r, cc \o v) = ReadOn(q, v)
    <3> HIDE DEF cc, q
    <3> QED BY <1>1, <1>3, <2>5, ReadOnConcat
  <2>7. q \in Fresh
    <3> HIDE DEF q
    <3> QED BY <2>1, <2>2 DEF Fresh, Outside
  <2>8. Text(q) = q.given
    <3> HIDE DEF q
    <3> QED BY <2>2, TextType
  <2> HIDE DEF q, held, given, nulls, t
  <2>9. q.given = t \o cc
    <3>1. given \o Append(nulls, c) = Append(given \o nulls, c)
      BY <1>1, <2>3, OneMore
    <3>2. Append(t, c) = t \o cc
      BY <1>1, <2>3, AppendIsConcat
    <3> QED BY <2>2, <2>3, <2>4, <3>1, <3>2
  <2>10. ReadOn(q, v) \in Outside /\ Text(ReadOn(q, v)) = Text(q) \o f
    BY <2>7 DEF Reads
  <2> HIDE DEF cc
  <2>11. (t \o cc) \o f = t \o (cc \o f)
    <3>1. t \in Seq(Symbols) /\ cc \in Seq(Symbols) /\ f \in Seq(Symbols)
      BY <1>1, <1>3, <2>3
    <3> QED BY <3>1, ConcatAssociative
  <2> QED BY <2>6, <2>8, <2>9, <2>10, <2>11 DEF t
<1> HIDE DEF cc
<1>6. Reads(Outside, cc \o v, cc \o f)
  BY <1>4, <1>5 DEF Reads
<1> QED BY <1>6 DEF cc

LEMMA ReadsItself ==
  ASSUME NEW c, Plain(c)
  PROVE  Reads(Outside, <<c>>, <<c>>)
<1>1. Reads(Fresh, <<>>, <<>>)
  <2>1. Fresh \subseteq Outside
    BY DEF Fresh
  <2> QED BY <2>1, ReadsNothing
<1>2. Reads(Outside, <<c>> \o <<>>, <<c>> \o <<>>)
  BY <1>1, ReadsPlain, Zenon
<1>3. <<c>> \o <<>> = <<c>>
  <2> DEFINE cc == <<c>>
  <2>1. cc \in Seq({c})
    OBVIOUS
  <2> HIDE DEF cc
  <2>2. cc \o <<>> = cc
    BY <2>1, ConcatEmptySeq
  <2> QED BY <2>2 DEF cc
<1> QED BY <1>2, <1>3

LEMMA CountUp ==
  ASSUME NEW n \in Nat, NEW G, 0 \in G, \A k \in 0..(n - 1) : k \in G => k + 1 \in G
  PROVE  n \in G
<1> DEFINE B == {k \in 0..n : k \notin G}
<1> SUFFICES ASSUME n \notin G PROVE FALSE
  OBVIOUS
<1>1. B \subseteq Nat /\ B # {}
  OBVIOUS
<1>2. PICK k \in B : \A j \in B : k <= j
  <2> HIDE DEF B
  <2> QED BY <1>1, LeastNumber
<1>3. k \in 0..n /\ k \notin G /\ k # 0
  OBVIOUS
<1>4. k - 1 \in 0..(n - 1) /\ k - 1 \in 0..n /\ k - 1 + 1 = k
  BY <1>3
<1>5. k - 1 \in G
  <2>1. ~(k <= k - 1)
    BY <1>3
  <2> QED BY <1>2, <1>4, <2>1
<1> QED BY <1>3, <1>4, <1>5

\* The first k of a sequence.
LEMMA FirstGrows ==
  ASSUME NEW S, NEW s \in Seq(S), NEW k \in 0..(Len(s) - 1)
  PROVE  /\ SubSeq(s, 1, k) \in Seq(S) /\ s[k + 1] \in S
         /\ SubSeq(s, 1, k + 1) = Append(SubSeq(s, 1, k), s[k + 1])
<1> DEFINE n == Len(s)
           p == SubSeq(s, 1, k)
           x == s[k + 1]
<1>1. n \in Nat /\ k \in Nat /\ k + 1 \in 1..n /\ 1 \in 1..n
  OBVIOUS
<1>2. x \in S /\ \A i \in 1..k : s[i] \in S
  BY <1>1
<1>3. p \in Seq(S)
  <2>1. 1 \in Int /\ k \in Int /\ \A i \in 1..k : s[i] \in S
    BY <1>1, <1>2
  <2> QED BY <2>1, SubSeqProperties
<1>4. SubSeq(s, 1, k + 1) = SubSeq(s, 1, k + 1 - 1) \o <<s[k + 1]>>
  BY <1>1, SubSeqRecursiveSecond
<1>5. k + 1 - 1 = k
  BY <1>1
<1> HIDE DEF p, x
<1>6. Append(p, x) = p \o <<x>>
  BY <1>2, <1>3, AppendIsConcat
<1> QED BY <1>2, <1>3, <1>4, <1>5, <1>6 DEF p, x

\* A string whose quotes are escaped reads as itself.
LEMMA ReadsString ==
  ASSUME NEW content \in Names
  PROVE  Reads(Outside, Str(content), Str(content))
<1> DEFINE n == Len(content)
<1>1. content \in Seq(Symbols) /\ n \in Nat /\ DOMAIN content = 1..n
  BY TextsAre
<1>2. PICK escapes \in SUBSET DOMAIN content : \A i \in DOMAIN content :
        IF i \in escapes
        THEN content[i] = Backslash /\ i + 1 \in DOMAIN content \ escapes
        ELSE content[i] \in {Quote, Backslash} => i - 1 \in escapes
  BY DEF Names
<1>3. /\ 0 \notin escapes /\ n \notin escapes
      /\ \A i \in 1..n : /\ i \in escapes => content[i] = Backslash /\ i + 1 \notin escapes
                         /\ i \notin escapes /\ i - 1 \notin escapes => content[i] \notin {Quote, Backslash}
  <2>1. n \notin escapes
    <3>1. n \in escapes => n \in 1..n /\ n + 1 \in 1..n
      BY <1>1, <1>2
    <3> QED BY <1>1, <3>1
  <2> QED BY <1>1, <1>2, <2>1
<1>4. Backslash # Quote
  BY PlainSymbols DEF Plain
<1> DEFINE open == <<Quote>>
           str == open \o content \o open
           Start(k) == SubSeq(content, 1, k)
<1>5. open \in Seq(Symbols) /\ str \in Seq(Symbols) /\ open \o content \in Seq(Symbols)
  <2>1. open \in Seq(Symbols)
    BY PlainSymbols, OneType
  <2> QED BY <1>1, <2>1, ConcatType, Zenon
<1> HIDE DEF n
<1>6. ASSUME NEW r \in Outside
      PROVE  ReadOn(r, str) \in Outside /\ Text(ReadOn(r, str)) = Text(r) \o str
  <2>1. r \in ReadingStates /\ r.string = <<>> /\ r.most <= 3
    BY DEF Outside
  <2> DEFINE Q(k) == ReadOn(r, open \o Start(k))
             Good(q, k) == /\ q \in ReadingStates /\ q.string = open \o Start(k) /\ q.string # <<>>
                           /\ q.escaped \in BOOLEAN /\ (q.escaped <=> k \in escapes)
                           /\ q.held = r.held /\ q.given = r.given /\ q.most = r.most
             G == {k \in 0..n : Good(Q(k), k)}
  <2>2. 0 \in G
    <3>1. Start(0) = <<>> /\ open \o <<>> = open
      BY <1>5, SubSeqEmpty, ConcatEmptySeq
    <3>2. ReadOn(r, open) = ReadSymbol(r, Quote)
      <4>1. Append(<<>>, Quote) = open /\ <<>> \in Seq(Symbols) /\ Quote \in Symbols
        <5>1. Quote \in Symbols
          BY PlainSymbols
        <5> DEFINE quote == Quote
        <5> HIDE DEF quote
        <5>2. Append(<<>>, quote) = <<quote>> /\ <<>> \in Seq(Symbols)
          OBVIOUS
        <5> QED BY <5>1, <5>2 DEF quote
      <4>2. ReadOn(r, Append(<<>>, Quote)) = ReadSymbol(ReadOn(r, <<>>), Quote)
        BY <4>1, ReadOnOne
      <4> QED BY <4>1, <4>2, ReadOnNone
    <3> DEFINE q == ReadSymbol(r, Quote)
    <3>3. /\ q \in ReadingStates /\ q.string = <<Quote>> /\ q.string # <<>> /\ q.escaped = FALSE
          /\ q.held = r.held /\ q.given = r.given /\ q.most = r.most
      BY <2>1, ReadQuote
    <3> HIDE DEF q
    <3>4. Good(q, 0)
      <4>1. q.escaped \in BOOLEAN /\ ~q.escaped
        BY <3>3
      <4>2. q.string = open \o Start(0)
        BY <3>1, <3>3
      <4> HIDE DEF Start
      <4> QED BY <1>3, <3>3, <4>1, <4>2
    <3>5. Q(0) = q /\ 0 \in 0..n
      <4>1. open \o Start(0) = open
        BY <3>1
      <4>2. 0 \in 0..n
        BY <1>1
      <4>3. Q(0) = ReadOn(r, open)
        BY <4>1, Zenon
      <4> QED BY <3>2, <4>2, <4>3, Zenon DEF q
    <3> HIDE DEF Good, Q
    <3> QED BY <3>4, <3>5
  <2>3. ASSUME NEW k \in 0..(n - 1), k \in G PROVE k + 1 \in G
    <3> DEFINE q == Q(k)
               s == content[k + 1]
               p == ReadSymbol(q, s)
    <3>1. /\ Start(k) \in Seq(Symbols) /\ s \in Symbols /\ Start(k + 1) = Append(Start(k), s)
      BY <1>1, FirstGrows DEF n
    <3>2. Good(q, k)
      BY <2>3
    <3> HIDE DEF s, q
    <3>3. k + 1 \in 1..n /\ k \in 0..n /\ k + 1 \in 0..n /\ k + 1 - 1 = k /\ (k = 0 \/ k \in 1..n)
      BY <1>1
    <3>4. /\ open \o Start(k + 1) = Append(open \o Start(k), s) /\ open \o Start(k) \in Seq(Symbols)
      <4> DEFINE f == Start(k)
      <4>1. f \in Seq(Symbols) /\ s \in Symbols
        BY <3>1
      <4> HIDE DEF f, s, open
      <4>2. Append(open \o f, s) = open \o Append(f, s) /\ open \o f \in Seq(Symbols)
        BY <1>5, <4>1, OneMore, ConcatType, Zenon
      <4> QED BY <3>1, <4>2 DEF f
    <3>5. Q(k + 1) = p
      <4> HIDE DEF open, Start
      <4> QED BY <3>1, <3>4, ReadOnOne DEF q
    <3>6. q.escaped \/ s # Quote
      <4>1. /\ k + 1 \in escapes => s = Backslash
            /\ k + 1 \notin escapes /\ k \notin escapes => s \notin {Quote, Backslash}
        BY <1>3, <3>3 DEF s
      <4> QED BY <1>4, <3>2, <4>1
    <3>7. (~q.escaped /\ s = Backslash) <=> k + 1 \in escapes
      <4>1. /\ k + 1 \in escapes => s = Backslash
            /\ k + 1 \notin escapes /\ k \notin escapes => s \notin {Quote, Backslash}
        BY <1>3, <3>3 DEF s
      <4>2. k \in escapes => k + 1 \notin escapes
        BY <1>3, <3>3
      <4> QED BY <3>2, <4>1, <4>2
    <3>8. q \in ReadingStates /\ q.string # <<>>
      BY <3>2
    <3>9. /\ p \in ReadingStates /\ p.string = Append(q.string, s) /\ p.string # <<>>
          /\ p.escaped = (~q.escaped /\ s = Backslash)
          /\ p.held = q.held /\ p.given = q.given /\ p.most = q.most
      <4> HIDE DEF q, s
      <4> QED BY <3>1, <3>6, <3>8, ReadInside
    <3> HIDE DEF p
    <3>10. Good(p, k + 1)
      <4>1. p.escaped \in BOOLEAN /\ (p.escaped <=> k + 1 \in escapes)
        BY <3>7, <3>9
      <4>2. p.string = open \o Start(k + 1)
        BY <3>2, <3>4, <3>9
      <4> HIDE DEF Start
      <4> QED BY <3>2, <3>9, <4>1, <4>2
    <3> HIDE DEF Good, Q
    <3> QED BY <3>3, <3>5, <3>10
  <2>4. n \in G
    <3> HIDE DEF G
    <3> QED BY <1>1, <2>2, <2>3, CountUp
  <2> DEFINE q == ReadOn(r, open \o content)
             p == ReadSymbol(q, Quote)
  <2>5. /\ q \in ReadingStates /\ q.string = open \o content /\ q.string # <<>> /\ q.escaped = FALSE
        /\ q.held = r.held /\ q.given = r.given /\ q.most = r.most
    <3>1. Start(n) = content
      BY <1>1, SubSeqFull DEF n
    <3>2. Good(Q(n), n)
      BY <2>4
    <3>3. Q(n) = q
      BY <3>1
    <3> HIDE DEF Q, q
    <3>4. Good(q, n)
      BY <3>2, <3>3
    <3>5. q.escaped = FALSE
      BY <1>3, <3>4
    <3> QED BY <3>1, <3>4, <3>5
  <2>6. ReadOn(r, str) = p /\ str = Append(open \o content, Quote)
    <3>1. Quote \in Symbols
      BY PlainSymbols
    <3>2. Append(open \o content, Quote) = open \o content \o <<Quote>>
      BY <1>5, <3>1, AppendIsConcat
    <3> QED BY <1>5, <3>1, <3>2, ReadOnOne
  <2> HIDE DEF q
  <2>7. /\ p \in ReadingStates /\ p.string = <<>> /\ p.held = <<>> /\ p.most = q.most
        /\ p.given = q.given \o Nulls(q.held) \o Append(q.string, Quote)
    BY <2>5, ReadQuoteInside
  <2> HIDE DEF p
  <2>8. p \in Outside
    BY <2>1, <2>5, <2>7 DEF Outside
  <2>9. Text(p) = p.given
    BY <2>7, TextType
  <2>10. p.given = Text(r) \o str
    BY <2>5, <2>6, <2>7 DEF Text
  <2> QED BY <2>6, <2>8, <2>9, <2>10
<1>7. Reads(Outside, str, str)
  <2> HIDE DEF str
  <2> QED BY <1>5, <1>6 DEF Reads
<1> QED BY <1>7, Zenon DEF Str

\* Letters alone are held back, and read as what _nulls makes of them.
LEMMA ReadsLetters ==
  ASSUME NEW w \in Seq(Symbols), OnlyLetters(w), Len(w) <= 3
  PROVE  Reads(Fresh, w, Nulls(w))
<1> DEFINE n == Len(w)
           Start(k) == SubSeq(w, 1, k)
<1>1. n \in Nat /\ n <= 3 /\ Nulls(w) \in Seq(Symbols)
  BY NullsType
<1>2. ASSUME NEW r \in Fresh
      PROVE  ReadOn(r, w) \in Outside /\ Text(ReadOn(r, w)) = Text(r) \o Nulls(w)
  <2>1. r \in ReadingStates /\ r.string = <<>> /\ r.most <= 3 /\ r.held = <<>> /\ r.most \in Nat
    BY DEF Fresh, Outside, ReadingStates
  <2> DEFINE Q(k) == ReadOn(r, Start(k))
             Good(q, k) == /\ q \in ReadingStates /\ q.string = <<>> /\ q.most <= 3
                           /\ q.held = Start(k) /\ q.given = r.given
             G == {k \in 0..n : Good(Q(k), k)}
  <2>2. 0 \in G
    <3>1. Start(0) = <<>>
      BY SubSeqEmpty
    <3>2. Good(r, 0)
      BY <2>1, <3>1
    <3>3. Q(0) = r
      BY <3>1, ReadOnNone
    <3>4. 0 \in 0..n
      BY <1>1
    <3> HIDE DEF Good, Q
    <3> QED BY <3>2, <3>3, <3>4
  <2>3. ASSUME NEW k \in 0..(n - 1), k \in G PROVE k + 1 \in G
    <3> DEFINE q == Q(k)
               s == w[k + 1]
               p == ReadSymbol(q, s)
    <3>1. Start(k) \in Seq(Symbols) /\ s \in Symbols /\ Start(k + 1) = Append(Start(k), s)
      BY FirstGrows
    <3>2. s \in NonFiniteLetters
      <4>1. k + 1 \in DOMAIN w
        BY <1>1
      <4> QED BY <4>1 DEF OnlyLetters
    <3>3. Good(q, k)
      BY <2>3
    <3>4. Q(k + 1) = p
      <4> HIDE DEF Start, s
      <4> QED BY <3>1, ReadOnOne
    <3> HIDE DEF q, s
    <3>5. /\ p \in ReadingStates /\ p.string = <<>> /\ p.held = Append(q.held, s) /\ p.given = q.given
          /\ p.most \in Nat /\ (p.most = q.most \/ p.most = Len(p.held))
      BY <3>2, <3>3, ReadLetter
    <3> HIDE DEF p
    <3>6. p.held = Start(k + 1)
      BY <3>1, <3>3, <3>5
    <3>7. Len(p.held) <= 3
      <4>1. k \in Nat /\ k + 1 <= 3 /\ k + 1 \in 1..n /\ k <= n
        BY <1>1
      <4>2. \A i \in 1..(k + 1) : w[i] \in Symbols
        BY <4>1
      <4>3. 1 \in Int /\ k + 1 \in Int /\ 1 <= k + 1 /\ k + 1 - 1 + 1 = k + 1
        BY <4>1
      <4>4. Len(SubSeq(w, 1, k + 1)) = k + 1
        BY <4>2, <4>3, SubSeqProperties
      <4> QED BY <3>6, <4>1, <4>4
    <3>8. p.most <= 3
      BY <3>3, <3>5, <3>7
    <3>9. Good(p, k + 1)
      BY <3>3, <3>5, <3>6, <3>8
    <3>10. k + 1 \in 0..n
      BY <1>1
    <3> HIDE DEF Good, Q
    <3> QED BY <3>4, <3>9, <3>10
  <2>4. n \in G
    <3> HIDE DEF G
    <3> QED BY <1>1, <2>2, <2>3, CountUp
  <2> DEFINE q == ReadOn(r, w)
  <2>5. q \in ReadingStates /\ q.string = <<>> /\ q.most <= 3 /\ q.held = w /\ q.given = r.given
    <3>1. Start(n) = w
      BY SubSeqFull
    <3>2. Good(Q(n), n)
      BY <2>4
    <3>3. Q(n) = q
      BY <3>1
    <3> HIDE DEF Q, q
    <3> QED BY <3>1, <3>2, <3>3
  <2> HIDE DEF q
  <2>6. Text(r) = r.given
    BY <2>1, TextType
  <2> QED BY <2>5, <2>6 DEF Outside, Text, q
<1> QED BY <1>1, <1>2 DEF Reads

\* A number reads as itself.
LEMMA ReadsNumber ==
  ASSUME NEW text \in NumberTexts
  PROVE  Reads(Fresh, text, text)
<1> DEFINE n == Len(text)
           Start(k) == SubSeq(text, 1, k)
<1>1. /\ text \in Seq(Symbols) /\ n \in Nat /\ n # 0 /\ DOMAIN text = 1..n
      /\ \A i \in 1..n : text[i] \in Numbers \union {Minus}
      /\ \A i \in 1..n : text[i] = Minus => i + 1 \in 1..n /\ text[i + 1] # Minus
  <2>1. /\ text \in Seq(Numbers \union {Minus}) /\ text # <<>>
        /\ \A i \in DOMAIN text : text[i] = Minus => i + 1 \in DOMAIN text /\ text[i + 1] # Minus
    BY DEF NumberTexts
  <2>2. n \in Nat /\ n # 0 /\ DOMAIN text = 1..n /\ \A i \in 1..n : text[i] \in Numbers \union {Minus}
    <3> HIDE DEF n
    <3> QED BY <2>1 DEF n
  <2>3. text \in Seq(Symbols)
    <3>1. text \in Values
      BY DEF Values
    <3> QED BY <3>1, TextsAre
  <2> HIDE DEF n
  <2> QED BY <2>1, <2>2, <2>3
<1>2. \A s \in Numbers : Plain(s) /\ s # Minus
  <2>1. ASSUME NEW s \in Numbers PROVE Plain(s)
    <3>1. PICK m \in Int : s = Number(m)
      BY DEF Numbers, Number
    <3> QED BY <3>1, PlainSymbols
  <2> QED BY <2>1, LettersAre DEF Plain
<1> DEFINE minus == <<Minus>>
<1>3. /\ Minus \in Symbols /\ Minus \in NonFiniteLetters /\ minus \in Seq(Symbols) /\ Len(minus) = 1
      /\ Nulls(minus) = minus /\ Append(<<>>, Minus) = minus /\ Nulls(<<>>) = <<>>
  <2>1. Minus \in Symbols /\ Minus \in NonFiniteLetters /\ Minus # I2 /\ Minus # N2
    BY LettersAre
  <2> DEFINE m == Minus
  <2> HIDE DEF m
  <2>2. Append(<<>>, m) = <<m>>
    OBVIOUS
  <2>3. <<>> \in Seq(Symbols) /\ minus \in Seq(Symbols) /\ Len(minus) = 1
    BY <2>1, OneType, EmptySeq
  <2>4. Nulls(Append(<<>>, Minus)) = NullSymbol(<<>>, Minus)
    BY <2>1, <2>3, NullsOne, NullsNone
  <2>5. NullSymbol(<<>>, Minus) = Append(<<>>, Minus)
    BY <2>1, <2>3, NullSymbolIs
  <2> QED BY <2>1, <2>2, <2>3, <2>4, <2>5, NullsNone DEF m
<1> HIDE DEF n, minus
<1>4. ASSUME NEW r \in Fresh
      PROVE  ReadOn(r, text) \in Outside /\ Text(ReadOn(r, text)) = Text(r) \o text
  <2>1. r \in ReadingStates /\ r.string = <<>> /\ r.most <= 3 /\ r.held = <<>> /\ r.most \in Nat
    BY DEF Fresh, Outside, ReadingStates
  <2> DEFINE t == Text(r)
  <2>2. t \in Seq(Symbols) /\ t = Text(r)
    BY <2>1, TextType
  <2> HIDE DEF t
  <2> DEFINE Q(k) == ReadOn(r, Start(k))
             Good(q, k) == /\ q \in ReadingStates /\ q.string = <<>> /\ q.most <= 3
                           /\ Text(q) = t \o Start(k)
                           /\ q.held = <<>> \/ (q.held = minus /\ k \in 1..n /\ text[k] = Minus)
             G == {k \in 0..n : Good(Q(k), k)}
  <2>3. 0 \in G
    <3>1. Start(0) = <<>> /\ t \o <<>> = t
      BY <2>2, SubSeqEmpty, ConcatEmptySeq
    <3>2. Good(r, 0)
      BY <2>1, <2>2, <3>1
    <3>3. Q(0) = r
      BY <3>1, ReadOnNone
    <3>4. 0 \in 0..n
      BY <1>1
    <3> HIDE DEF Good, Q
    <3> QED BY <3>2, <3>3, <3>4
  <2>4. ASSUME NEW k \in 0..(n - 1), k \in G PROVE k + 1 \in G
    <3> DEFINE q == Q(k)
               s == text[k + 1]
               p == ReadSymbol(q, s)
               start == Start(k)
               read == t \o start
    <3>1. start \in Seq(Symbols) /\ s \in Symbols /\ Start(k + 1) = Append(start, s)
      BY <1>1, FirstGrows DEF n
    <3>2. Good(q, k)
      BY <2>4
    <3>3. Q(k + 1) = p
      <4> HIDE DEF Start, s
      <4> QED BY <3>1, ReadOnOne DEF start
    <3>4. k + 1 \in 1..n /\ k + 1 \in 0..n
      BY <1>1
    <3>5. s \in Numbers \/ s = Minus
      BY <1>1, <3>4
    <3>6. /\ q \in ReadingStates /\ q.string = <<>> /\ q.most <= 3 /\ q.most \in Nat
          /\ Text(q) = read /\ (q.held = <<>> \/ q.held = minus)
      BY <3>2 DEF ReadingStates
    <3>7. s = Minus => q.held = <<>>
      BY <1>1, <3>2
    <3> HIDE DEF q, s, start
    <3>8. read \in Seq(Symbols) /\ Append(read, s) = t \o Append(start, s)
      BY <2>2, <3>1, ConcatType, OneMore, Zenon
    <3> HIDE DEF read
    <3>9. /\ p \in ReadingStates /\ p.string = <<>> /\ p.most <= 3 /\ Text(p) = Append(read, s)
          /\ p.held = <<>> \/ (p.held = minus /\ s = Minus)
      <4> DEFINE given == q.given
                 held == q.held
                 nulls == Nulls(held)
      <4>1. /\ given \in Seq(Symbols) /\ held \in Seq(Symbols) /\ nulls \in Seq(Symbols)
            /\ read = given \o nulls
        BY <3>6, TextType DEF Text
      <4>2. CASE s \in Numbers
        <5>1. Plain(s) /\ s \notin NonFiniteLetters
          BY <1>2, <4>2 DEF Plain
        <5>2. /\ p \in ReadingStates /\ p.string = <<>> /\ p.held = <<>> /\ p.most = q.most
              /\ p.given = given \o Nulls(Append(held, s))
          BY <3>1, <3>6, <5>1, ReadOther
        <5> HIDE DEF p, given, held
        <5>3. Nulls(Append(held, s)) = Append(nulls, s)
          BY <3>1, <4>1, <5>1, NullsOther
        <5> HIDE DEF nulls
        <5>4. given \o Append(nulls, s) = Append(read, s)
          BY <3>1, <4>1, OneMore
        <5>5. Text(p) = p.given
          BY <5>2, TextType
        <5>6. Text(p) = Append(read, s)
          BY <5>2, <5>3, <5>4, <5>5
        <5> QED BY <3>6, <5>2, <5>6
      <4>3. CASE s = Minus
        <5>1. q.held = <<>>
          BY <3>7, <4>3
        <5>2. /\ p \in ReadingStates /\ p.string = <<>> /\ p.held = Append(q.held, Minus) /\ p.given = given
              /\ p.most \in Nat /\ (p.most = q.most \/ p.most = Len(p.held))
          BY <1>3, <3>6, <4>3, ReadLetter
        <5> HIDE DEF p
        <5>3. p.held = minus /\ p.most <= 3
          BY <1>3, <3>6, <5>1, <5>2
        <5> HIDE DEF given
        <5>4. Text(p) = given \o minus
          BY <1>3, <5>2, <5>3 DEF Text
        <5>5. given \o <<>> = given
          BY <4>1, ConcatEmptySeq
        <5>6. read = given
          BY <1>3, <4>1, <5>1, <5>5
        <5>7. Append(given, Minus) = given \o minus
          BY <1>3, <4>1, AppendIsConcat DEF minus
        <5> QED BY <4>3, <5>2, <5>3, <5>4, <5>6, <5>7
      <4> QED BY <3>5, <4>2, <4>3
    <3> HIDE DEF p
    <3>10. Good(p, k + 1)
      BY <3>1, <3>4, <3>8, <3>9 DEF s
    <3> HIDE DEF Good, Q
    <3> QED BY <3>3, <3>4, <3>10
  <2>5. n \in G
    <3> HIDE DEF G
    <3> QED BY <1>1, <2>3, <2>4, CountUp
  <2> DEFINE q == ReadOn(r, text)
  <2>6. Good(q, n)
    <3>1. Start(n) = text
      BY <1>1, SubSeqFull DEF n
    <3>2. Good(Q(n), n)
      BY <2>5
    <3>3. Q(n) = q
      BY <3>1
    <3> HIDE DEF Q, q, Good
    <3> QED BY <3>2, <3>3
  <2>7. Start(n) = text
    BY <1>1, SubSeqFull DEF n
  <2> HIDE DEF q
  <2> QED BY <2>2, <2>6, <2>7 DEF Outside, q
<1> QED BY <1>1, <1>4 DEF Reads

LEMMA CutAll ==
  ASSUME NEW out \in Seq(Symbols)
  PROVE  CutBy(out, Len(out)) = <<Null>>
<1> DEFINE null == <<Null>>
<1>1. null \in Seq(Symbols)
  BY PlainSymbols, OneType DEF Plain
<1> HIDE DEF null
<1>2. Len(out) - Len(out) = 0 /\ SubSeq(out, 1, 0) = <<>>
  BY SubSeqEmpty
<1>3. <<>> \o null = null
  BY <1>1, ConcatEmptySeq
<1> QED BY <1>2, <1>3 DEF CutBy, null

\* The three values JSON has no number for.
LEMMA NullsOfTokens ==
  Nulls(NaN) = <<Null>> /\ Nulls(Infinity) = <<Null>> /\ Nulls(NegativeInfinity) = <<Null>>
<1>1. N1 \in Symbols /\ N2 \in Symbols /\ I1 \in Symbols /\ I2 \in Symbols /\ Minus \in Symbols
  BY LettersAre
<1>2. ASSUME NEW a \in Symbols, NEW b \in Symbols, NEW c \in Symbols
      PROVE  /\ <<a>> \in Seq(Symbols) /\ <<a, b>> \in Seq(Symbols)
             /\ Len(<<a>>) = 1 /\ Len(<<a, b>>) = 2 /\ <<a>>[1] = a /\ <<a, b>>[1] = a /\ <<a, b>>[2] = b
             /\ <<a>> = Append(<<>>, a) /\ <<a, b>> = Append(<<a>>, b) /\ <<a, b, c>> = Append(<<a, b>>, c)
  OBVIOUS
<1>3. <<>> \in Seq(Symbols) /\ Len(<<>>) = 0
  OBVIOUS
<1>4. ASSUME NEW a \in Symbols, a # N2, a # I2
      PROVE  Nulls(<<a>>) = <<a>>
  <2>1. Nulls(Append(<<>>, a)) = NullSymbol(<<>>, a)
    BY <1>3, NullsOne, NullsNone
  <2>2. NullSymbol(<<>>, a) = Append(<<>>, a)
    BY <1>3, <1>4, NullSymbolIs
  <2> QED BY <1>2, <2>1, <2>2
<1>5. ASSUME NEW a \in Symbols, NEW b \in Symbols, a # N2, a # I2
      PROVE  Nulls(<<a, b>>) = NullSymbol(<<a>>, b)
  <2> DEFINE x == <<a>>
  <2>1. x \in Seq(Symbols) /\ <<a, b>> = Append(x, b)
    BY <1>2
  <2> HIDE DEF x
  <2>2. Nulls(Append(x, b)) = NullSymbol(Nulls(x), b)
    BY <2>1, NullsOne
  <2> QED BY <1>4, <1>5, <2>1, <2>2 DEF x
<1>6. ASSUME NEW a \in Symbols, NEW b \in Symbols, a # N2, a # I2,
             (a = N1 /\ b = N2) \/ (a = I1 /\ b = I2)
      PROVE  Nulls(<<a, b>>) = <<Null>>
  <2> DEFINE x == <<a>>
  <2>1. x \in Seq(Symbols) /\ Len(x) = 1 /\ x[1] = a
    BY <1>2
  <2> HIDE DEF x
  <2>2. NullSymbol(x, b) = CutBy(x, 1)
    <3>1. (a = N1 => EndsN(x)) /\ (a = I1 => EndsI(x)) /\ ~EndsMinusI(x)
      BY <2>1 DEF EndsN, EndsI, EndsMinusI
    <3> QED BY <1>6, <2>1, <3>1, LettersAre, NullSymbolIs
  <2>3. CutBy(x, 1) = <<Null>>
    BY <2>1, CutAll
  <2> QED BY <1>5, <1>6, <2>2, <2>3 DEF x
<1>7. Nulls(NaN) = <<Null>> /\ Nulls(Infinity) = <<Null>>
  <2>1. N1 # N2 /\ N1 # I2 /\ I1 # N2 /\ I1 # I2
    BY LettersAre
  <2>2. Nulls(<<N1, N2>>) = <<Null>> /\ Nulls(<<I1, I2>>) = <<Null>>
    BY <1>1, <1>6, <2>1
  <2> QED BY <2>2, TokensAre
<1>8. Nulls(NegativeInfinity) = <<Null>>
  <2> DEFINE x == <<Minus>>
             y == <<Minus, I1>>
  <2>1. Minus # N2 /\ Minus # I2 /\ I1 # I2 /\ I1 # N2
    BY LettersAre
  <2>2. Nulls(y) = NullSymbol(x, I1)
    BY <1>1, <1>5, <2>1
  <2>3. /\ x \in Seq(Symbols) /\ y \in Seq(Symbols) /\ Len(y) = 2 /\ y[1] = Minus /\ y[2] = I1
        /\ y = Append(x, I1) /\ <<Minus, I1, I2>> = Append(y, I2)
    BY <1>1, <1>2
  <2> HIDE DEF x, y
  <2>4. Nulls(y) = y
    BY <2>1, <2>2, <2>3, NullSymbolIs
  <2>5. Nulls(Append(y, I2)) = NullSymbol(y, I2)
    BY <1>1, <2>3, <2>4, NullsOne
  <2>6. EndsMinusI(y)
    BY <2>3 DEF EndsMinusI
  <2>7. NullSymbol(y, I2) = CutBy(y, 2)
    BY <2>3, <2>6, NullSymbolIs
  <2>8. CutBy(y, 2) = <<Null>>
    BY <2>3, CutAll
  <2> QED BY <2>3, <2>5, <2>7, <2>8, TokensAre
<1> QED BY <1>7, <1>8

FiniteValue(v) == IF IsFinite(v) THEN v ELSE <<Null>>

LEMMA ReadsValue ==
  ASSUME NEW v \in Values
  PROVE  Reads(Fresh, v, FiniteValue(v))
<1>1. CASE IsFinite(v)
  <2>1. v \in NumberTexts
    BY <1>1 DEF IsFinite, Values
  <2> QED BY <1>1, <2>1, ReadsNumber DEF FiniteValue
<1>2. CASE ~IsFinite(v)
  <2>1. v \in {NaN, Infinity, NegativeInfinity}
    BY <1>2 DEF IsFinite
  <2>2. /\ \A i \in 1..2 : NaN[i] \in NonFiniteLetters /\ Infinity[i] \in NonFiniteLetters
        /\ \A i \in 1..3 : NegativeInfinity[i] \in NonFiniteLetters
    <3>1. ASSUME NEW a \in NonFiniteLetters, NEW b \in NonFiniteLetters, NEW c \in NonFiniteLetters
          PROVE  /\ \A i \in 1..2 : <<a, b>>[i] \in NonFiniteLetters
                 /\ \A i \in 1..3 : <<a, b, c>>[i] \in NonFiniteLetters
      OBVIOUS
    <3>2. N1 \in NonFiniteLetters /\ N2 \in NonFiniteLetters /\ I1 \in NonFiniteLetters
          /\ I2 \in NonFiniteLetters /\ Minus \in NonFiniteLetters
      BY LettersAre
    <3> QED BY <3>1, <3>2, TokensAre, Zenon
  <2>3. Len(NaN) = 2 /\ Len(Infinity) = 2 /\ Len(NegativeInfinity) = 3
    BY TokensAre, FrontOfTwo, FrontOfThree, Zenon
  <2>4. v \in Seq(Symbols)
    BY TextsAre
  <2>5. (v = NegativeInfinity \/ v = NaN \/ v = Infinity) /\ Len(v) <= 3
    <3>1. v = NegativeInfinity \/ v = NaN \/ v = Infinity
      BY <2>1, Zenon
    <3>2. Len(v) = 3 \/ Len(v) = 2
      BY <2>3, <3>1, Zenon
    <3>3. Len(v) <= 3
      <4> DEFINE n == Len(v)
      <4> HIDE DEF n
      <4>1. n = 3 \/ n = 2
        BY <3>2 DEF n
      <4>2. n <= 3
        BY <4>1
      <4> QED BY <4>2 DEF n
    <3> QED BY <3>1, <3>3
  <2>6. OnlyLetters(v)
    <3>1. DOMAIN v = 1..Len(v)
      BY <2>4
    <3>2. \A i \in 1..Len(v) : v[i] \in NonFiniteLetters
      BY <2>2, <2>3, <2>5, Zenon
    <3> QED BY <3>1, <3>2 DEF OnlyLetters
  <2>7. Reads(Fresh, v, Nulls(v))
    BY <2>4, <2>5, <2>6, ReadsLetters
  <2>8. Nulls(v) = <<Null>>
    BY <2>5, NullsOfTokens
  <2> QED BY <1>2, <2>7, <2>8 DEF FiniteValue
<1> QED BY <1>1, <1>2

\* Texts, one after the other.
LEMMA ReadsFlatten ==
  ASSUME NEW S, S \subseteq Outside,
         NEW ws \in Seq(Seq(Symbols)), NEW es \in Seq(Seq(Symbols)), Len(ws) = Len(es),
         \A i \in 1..Len(ws) : Reads(IF i = 1 THEN S ELSE Outside, ws[i], es[i])
  PROVE  Reads(S, FlattenSeq(ws), FlattenSeq(es))
<1> DEFINE n == Len(ws)
<1>1. n \in Nat /\ Len(es) = n
  OBVIOUS
<1>2. CASE n = 0
  <2>1. ASSUME NEW seqs \in Seq(Seq(Symbols)), Len(seqs) = 0 PROVE FlattenSeq(seqs) = <<>>
    BY <2>1 DEF FlattenSeq
  <2>2. FlattenSeq(ws) = <<>> /\ FlattenSeq(es) = <<>>
    BY <1>1, <1>2, <2>1
  <2> QED BY <2>2, ReadsNothing
<1>3. CASE n # 0
  <2>1. PICK g : Joins(g, ws, n) /\ FlattenSeq(ws) = g[n]
    BY <1>3, FlattenIs
  <2>2. PICK h : Joins(h, es, n) /\ FlattenSeq(es) = h[n]
    BY <1>1, <1>3, FlattenIs
  <2> HIDE DEF n
  <2> DEFINE G == {k \in 0..n : k = 0 \/ Reads(S, g[k], h[k])}
  <2>3. 0 \in G
    BY <1>1
  <2>4. ASSUME NEW k \in 0..(n - 1), k \in G PROVE k + 1 \in G
    <3>1. k + 1 \in 1..n /\ k + 1 \in 0..n /\ k + 1 - 1 = k /\ (k + 1 = 1 <=> k = 0)
      BY <1>1
    <3>2. /\ g[k + 1] = IF k = 0 THEN ws[k + 1] ELSE g[k] \o ws[k + 1]
          /\ h[k + 1] = IF k = 0 THEN es[k + 1] ELSE h[k] \o es[k + 1]
      BY <2>1, <2>2, <3>1 DEF Joins
    <3>3. Reads(IF k = 0 THEN S ELSE Outside, ws[k + 1], es[k + 1])
      BY <3>1 DEF n
    <3>4. CASE k = 0
      BY <3>1, <3>2, <3>3, <3>4
    <3>5. CASE k # 0
      <4>1. Reads(S, g[k], h[k])
        BY <2>4, <3>5
      <4>2. Reads(Outside, ws[k + 1], es[k + 1])
        BY <3>3, <3>5
      <4>3. Reads(S, g[k] \o ws[k + 1], h[k] \o es[k + 1])
        BY <4>1, <4>2, ReadsInTurn, Zenon
      <4> QED BY <3>1, <3>2, <3>5, <4>3
    <3> QED BY <3>4, <3>5
  <2>5. n \in G
    <3> HIDE DEF G
    <3> QED BY <1>1, <2>3, <2>4, CountUp
  <2> QED BY <1>3, <2>1, <2>2, <2>5
<1> QED BY <1>2, <1>3

LEMMA PlainMarks ==
  /\ Plain(Mark("{")) /\ Plain(Mark("}")) /\ Plain(Mark("[")) /\ Plain(Mark("]"))
  /\ Plain(Comma) /\ Plain(Colon) /\ Plain(Quote) = FALSE
BY PlainSymbols, Zenon DEF Plain

LEMMA FreshOutside == Fresh \subseteq Outside /\ Outside \subseteq Outside
BY DEF Fresh

\* Values between brackets, with commas between them.
LEMMA ReadsList ==
  ASSUME NEW ws \in Seq(Seq(Symbols)), NEW es \in Seq(Seq(Symbols)), Len(ws) = Len(es),
         \A i \in 1..Len(ws) : Reads(Fresh, ws[i], es[i])
  PROVE  Reads(Outside, List(ws), List(es))
<1> DEFINE Cut(parts) == [i \in DOMAIN parts |-> IF i = 1 THEN parts[i] ELSE <<Comma>> \o parts[i]]
           n == Len(ws)
<1>1. n \in Nat /\ DOMAIN ws = 1..n /\ DOMAIN es = 1..n
  OBVIOUS
<1>2. <<Comma>> \in Seq(Symbols)
  BY SymbolsAre, OneType
<1>3. ASSUME NEW parts \in Seq(Seq(Symbols))
      PROVE  Cut(parts) \in Seq(Seq(Symbols)) /\ Len(Cut(parts)) = Len(parts)
  <2> DEFINE comma == <<Comma>>
             cut == [i \in DOMAIN parts |-> IF i = 1 THEN parts[i] ELSE comma \o parts[i]]
  <2> HIDE DEF comma
  <2>1. ASSUME NEW i \in DOMAIN parts PROVE cut[i] \in Seq(Symbols)
    <3>1. parts[i] \in Seq(Symbols)
      OBVIOUS
    <3>2. comma \o parts[i] \in Seq(Symbols)
      BY <1>2, <3>1, ConcatType, Zenon DEF comma
    <3> QED BY <3>1, <3>2
  <2>2. cut \in [1..Len(parts) -> Seq(Symbols)] /\ Len(parts) \in Nat
    BY <2>1
  <2> HIDE DEF cut
  <2>3. cut \in Seq(Seq(Symbols)) /\ Len(cut) = Len(parts)
    BY <2>2, EachType
  <2> QED BY <2>3 DEF cut, comma
<1>4. ASSUME NEW i \in 1..n
      PROVE  Reads(IF i = 1 THEN Fresh ELSE Outside, Cut(ws)[i], Cut(es)[i])
  <2>1. CASE i = 1
    BY <1>1, <2>1
  <2>2. CASE i # 1
    <3>1. Reads(Fresh, ws[i], es[i])
      OBVIOUS
    <3>2. Reads(Outside, <<Comma>> \o ws[i], <<Comma>> \o es[i])
      BY <3>1, PlainMarks, ReadsPlain, Zenon
    <3> QED BY <1>1, <2>2, <3>2
  <2> QED BY <2>1, <2>2
<1> HIDE DEF Cut
<1>5. Reads(Fresh, FlattenSeq(Cut(ws)), FlattenSeq(Cut(es)))
  <2> DEFINE cw == Cut(ws)
             ce == Cut(es)
  <2>1. cw \in Seq(Seq(Symbols)) /\ ce \in Seq(Seq(Symbols)) /\ Len(cw) = n /\ Len(ce) = n
    BY <1>3
  <2>2. \A i \in 1..n : Reads(IF i = 1 THEN Fresh ELSE Outside, cw[i], ce[i])
    BY <1>4
  <2> HIDE DEF cw, ce, n
  <2>3. Reads(Fresh, FlattenSeq(cw), FlattenSeq(ce))
    BY <2>1, <2>2, FreshOutside, ReadsFlatten
  <2> QED BY <2>3 DEF cw, ce
<1> DEFINE w == FlattenSeq(Cut(ws))
           e == FlattenSeq(Cut(es))
           open == <<Mark("[")>>
           close == <<Mark("]")>>
<1>6. Reads(Outside, open \o w, open \o e)
  BY <1>5, PlainMarks, ReadsPlain, Zenon
<1>7. Reads(Outside, close, close)
  BY PlainMarks, ReadsItself, Zenon
<1> HIDE DEF open, close
<1>8. Reads(Outside, open \o w \o close, open \o e \o close)
  <2> HIDE DEF w, e
  <2> QED BY <1>6, <1>7, FreshOutside, ReadsInTurn, Zenon
<1> QED BY <1>8, Zenon DEF List, Separated, Cut, w, e, open, close

LEMMA ReadsName ==
  ASSUME NEW name \in MemberNames
  PROVE  Reads(Outside, Str(<<Name(name)>>), Str(<<Name(name)>>))
<1> DEFINE x == Name(name)
           content == <<x>>
<1>1. x \in Symbols /\ x # Quote /\ x # Backslash
  <2>1. x \in Symbols /\ x # Quote
    BY PlainSymbols DEF Plain
  <2>2. "name" # "mark"
    OBVIOUS
  <2>3. x # Backslash
    BY <2>2, PairsAre, Zenon DEF Name, Backslash, Mark
  <2> QED BY <2>1, <2>3
<1> HIDE DEF x
<1>2. content \in Seq(Symbols) /\ DOMAIN content = 1..1 /\ content[1] = x /\ 1..1 = {1}
  BY <1>1
<1> HIDE DEF content
<1>3. content \in Names
  <2>1. {} \in SUBSET DOMAIN content
    OBVIOUS
  <2>2. ASSUME NEW i \in DOMAIN content PROVE content[i] \notin {Quote, Backslash}
    BY <1>1, <1>2
  <2>3. \E escapes \in SUBSET DOMAIN content : \A i \in DOMAIN content :
          IF i \in escapes
          THEN content[i] = Backslash /\ i + 1 \in DOMAIN content \ escapes
          ELSE content[i] \in {Quote, Backslash} => i - 1 \in escapes
    <3> WITNESS {} \in SUBSET DOMAIN content
    <3> QED BY <2>2, Zenon
  <2> QED BY <1>2, <2>3 DEF Names
<1>4. Reads(Outside, Str(content), Str(content))
  BY <1>3, ReadsString
<1> QED BY <1>4 DEF content, x

LEMMA ReadsMember ==
  ASSUME NEW name \in MemberNames, NEW v, NEW e, Reads(Outside, v, e)
  PROVE  Reads(Outside, Member(name, v), Member(name, e))
<1> DEFINE str == Str(<<Name(name)>>)
           colon == <<Colon>>
<1>1. Reads(Outside, str, str)
  BY ReadsName
<1>2. Reads(Outside, colon, colon)
  BY PlainMarks, ReadsItself, Zenon
<1> HIDE DEF str, colon
<1>3. Reads(Outside, str \o colon, str \o colon)
  BY <1>1, <1>2, FreshOutside, ReadsInTurn, Zenon
<1>4. Reads(Outside, str \o colon \o v, str \o colon \o e)
  BY <1>3, FreshOutside, ReadsInTurn, Zenon
<1> QED BY <1>4, Zenon DEF Member, str, colon

LEMMA ReadsSeries ==
  ASSUME NEW values \in Seq(Values)
  PROVE  Reads(Outside, List(values), List(Finite(values)))
<1> DEFINE finite == Finite(values)
           n == Len(values)
<1>1. n \in Nat /\ DOMAIN values = 1..n /\ values \in Seq(Seq(Symbols))
  BY TextsAre
<1>2. finite = [i \in 1..n |-> FiniteValue(values[i])]
  BY <1>1 DEF Finite, FiniteValue
<1>3. ASSUME NEW i \in 1..n PROVE Reads(Fresh, values[i], FiniteValue(values[i]))
  <2>1. values[i] \in Values
    BY <1>1
  <2> QED BY <2>1, ReadsValue
<1>4. finite \in Seq(Seq(Symbols)) /\ Len(finite) = n
  <2>1. \A i \in 1..n : FiniteValue(values[i]) \in Seq(Symbols)
    BY <1>3 DEF Reads
  <2>2. finite \in [1..n -> Seq(Symbols)]
    <3> HIDE DEF n, finite
    <3> QED BY <1>2, <2>1
  <2> HIDE DEF finite, n
  <2> QED BY <1>1, <2>2, EachType
<1>5. \A i \in 1..n : Reads(Fresh, values[i], finite[i])
  BY <1>2, <1>3
<1> HIDE DEF finite
<1>6. Reads(Outside, List(values), List(finite))
  BY <1>1, <1>4, <1>5, ReadsList
<1> QED BY <1>6 DEF finite

LEMMA ReadsSeriesMembers ==
  ASSUME NEW names \in Seq(MemberNames), NEW series,
         \A i \in DOMAIN names : names[i] \in DOMAIN series /\ series[names[i]] \in Seq(Values)
  PROVE  Reads(Outside, SeriesMembers(names, series), SeriesMembers(names, FiniteMembers(series)))
<1> DEFINE finite == FiniteMembers(series)
           ws == [i \in DOMAIN names |-> <<Comma>> \o Member(names[i], List(series[names[i]]))]
           es == [i \in DOMAIN names |-> <<Comma>> \o Member(names[i], List(finite[names[i]]))]
           n == Len(names)
<1>1. n \in Nat /\ DOMAIN names = 1..n
  OBVIOUS
<1>2. ASSUME NEW i \in 1..n PROVE Reads(Outside, ws[i], es[i])
  <2>1. /\ names[i] \in MemberNames /\ finite[names[i]] = Finite(series[names[i]])
        /\ series[names[i]] \in Seq(Values)
    BY <1>1 DEF FiniteMembers
  <2> DEFINE name == names[i]
             v == List(series[name])
             e == List(finite[name])
             comma == <<Comma>>
  <2>2. Reads(Outside, v, e)
    BY <2>1, ReadsSeries
  <2>3. ws[i] = comma \o Member(name, v) /\ es[i] = comma \o Member(name, e)
    BY <1>1
  <2> HIDE DEF v, e, name, ws, es, finite
  <2>4. Reads(Outside, Member(name, v), Member(name, e))
    BY <2>1, <2>2, ReadsMember DEF name
  <2>5. Reads(Outside, comma, comma)
    BY PlainMarks, ReadsItself, Zenon
  <2> HIDE DEF comma
  <2>6. Reads(Outside, comma \o Member(name, v), comma \o Member(name, e))
    BY <2>4, <2>5, FreshOutside, ReadsInTurn, Zenon
  <2> QED BY <2>3, <2>6
<1>3. /\ ws \in Seq(Seq(Symbols)) /\ Len(ws) = n
      /\ es \in Seq(Seq(Symbols)) /\ Len(es) = n
  <2>1. \A i \in 1..n : ws[i] \in Seq(Symbols) /\ es[i] \in Seq(Symbols)
    BY <1>2 DEF Reads
  <2>2. DOMAIN ws = 1..n /\ DOMAIN es = 1..n /\ ws = [i \in 1..n |-> ws[i]] /\ es = [i \in 1..n |-> es[i]]
    BY <1>1
  <2> HIDE DEF ws, es
  <2>3. ws \in [1..n -> Seq(Symbols)] /\ es \in [1..n -> Seq(Symbols)]
    BY <2>1, <2>2
  <2> QED BY <1>1, <2>3, EachType
<1> HIDE DEF ws, es, n
<1>4. Reads(Outside, FlattenSeq(ws), FlattenSeq(es))
  BY <1>2, <1>3, FreshOutside, ReadsFlatten
<1> QED BY <1>4, Zenon DEF SeriesMembers, ws, es, finite

\* Two texts between braces.
LEMMA ReadsBraced ==
  ASSUME NEW w, NEW e, NEW v, NEW f, Reads(Outside, w, e), Reads(Outside, v, f)
  PROVE  Reads(Outside, <<Mark("{")>> \o w \o v \o <<Mark("}")>>, <<Mark("{")>> \o e \o f \o <<Mark("}")>>)
<1> DEFINE open == <<Mark("{")>>
           close == <<Mark("}")>>
<1>1. Reads(Outside, open, open) /\ Reads(Outside, close, close)
  BY PlainMarks, ReadsItself, Zenon
<1> HIDE DEF open, close
<1>2. Reads(Outside, open \o w, open \o e)
  BY <1>1, FreshOutside, ReadsInTurn, Zenon
<1>3. Reads(Outside, open \o w \o v, open \o e \o f)
  BY <1>2, FreshOutside, ReadsInTurn, Zenon
<1>4. Reads(Outside, open \o w \o v \o close, open \o e \o f \o close)
  BY <1>1, <1>3, FreshOutside, ReadsInTurn, Zenon
<1> QED BY <1>4 DEF open, close

\* A consumer's object, an iteration's, and a document, with null for what JSON
\* cannot hold.
FiniteConsumer(c) == [name |-> c.name, series |-> FiniteMembers(c.series)]
FiniteIteration(it) ==
  [number |-> it.number, series |-> FiniteMembers(it.series),
   consumers |-> [p \in DOMAIN it.consumers |-> FiniteConsumer(it.consumers[p])]]

LEMMA ReadsConsumer ==
  ASSUME NEW c, IsConsumerDocument(c)
  PROVE  Reads(Outside, ConsumerObject(c), ConsumerObject(FiniteConsumer(c)))
<1> DEFINE title == c.name
           series == c.series
           finite == FiniteMembers(series)
           m1 == Member("name", Str(title))
           m2 == SeriesMembers(ConsumerSeries, series)
           f2 == SeriesMembers(ConsumerSeries, finite)
<1>1. /\ title \in Names
      /\ \A n \in ToSet(ConsumerSeries) : n \in DOMAIN series /\ series[n] \in Seq(Values)
  BY DEF IsConsumerDocument
<1>2. "name" \in MemberNames /\ ToSet(ConsumerSeries) \subseteq MemberNames
  BY Zenon DEF MemberNames
<1> HIDE DEF title, series
<1>3. Reads(Outside, Str(title), Str(title))
  BY <1>1, ReadsString
<1>4. Reads(Outside, m1, m1)
  BY <1>2, <1>3, ReadsMember, Zenon
<1>5. Reads(Outside, m2, f2)
  <2>1. ConsumerSeries \in Seq(MemberNames)
    BY SeriesAssumption, <1>2
  <2>2. ASSUME NEW i \in DOMAIN ConsumerSeries
        PROVE  ConsumerSeries[i] \in DOMAIN series /\ series[ConsumerSeries[i]] \in Seq(Values)
    <3>1. ConsumerSeries[i] \in ToSet(ConsumerSeries)
      BY SeriesAssumption
    <3> QED BY <1>1, <3>1
  <2> QED BY <2>1, <2>2, ReadsSeriesMembers, Zenon
<1>6. ConsumerObject(c) = <<Mark("{")>> \o m1 \o m2 \o <<Mark("}")>>
  BY Zenon DEF ConsumerObject, title, series
<1>7. ConsumerObject(FiniteConsumer(c)) = <<Mark("{")>> \o m1 \o f2 \o <<Mark("}")>>
  <2> DEFINE d == FiniteConsumer(c)
  <2>1. d.name = title /\ d.series = finite
    BY DEF FiniteConsumer, title, series
  <2> HIDE DEF d
  <2>2. ConsumerObject(d) = <<Mark("{")>> \o m1 \o f2 \o <<Mark("}")>>
    BY <2>1, Zenon DEF ConsumerObject
  <2> QED BY <2>2 DEF d
<1> HIDE DEF m1, m2, f2
<1> QED BY <1>4, <1>5, <1>6, <1>7, ReadsBraced, Zenon

\* Objects of a list, each read as the object with null in it.
LEMMA ReadsObjects ==
  ASSUME NEW n \in Nat, NEW ws, NEW es, DOMAIN ws = 1..n, DOMAIN es = 1..n,
         ws = [i \in 1..n |-> ws[i]], es = [i \in 1..n |-> es[i]],
         \A i \in 1..n : Reads(Outside, ws[i], es[i])
  PROVE  Reads(Outside, List(ws), List(es))
<1>1. \A i \in 1..n : ws[i] \in Seq(Symbols) /\ es[i] \in Seq(Symbols) /\ Reads(Fresh, ws[i], es[i])
  BY ReadsLater DEF Reads
<1>2. ws \in [1..n -> Seq(Symbols)] /\ es \in [1..n -> Seq(Symbols)]
  BY <1>1
<1>3. ws \in Seq(Seq(Symbols)) /\ Len(ws) = n /\ es \in Seq(Seq(Symbols)) /\ Len(es) = n
  BY <1>2, EachType
<1> QED BY <1>1, <1>3, ReadsList

LEMMA ReadsIteration ==
  ASSUME NEW it, IsIterationDocument(it)
  PROVE  Reads(Outside, IterationObject(it), IterationObject(FiniteIteration(it)))
<1> DEFINE number == it.number
           series == it.series
           consumers == it.consumers
           n == Len(consumers)
           finite == FiniteMembers(series)
           others == [p \in DOMAIN consumers |-> FiniteConsumer(consumers[p])]
           ws == [i \in DOMAIN consumers |-> ConsumerObject(consumers[i])]
           es == [i \in DOMAIN others |-> ConsumerObject(others[i])]
           m1 == Member("number", <<Number(number)>>)
           m2 == SeriesMembers(IterationSeries, series)
           f2 == SeriesMembers(IterationSeries, finite)
           m3 == Member("consumers", List(ws))
           f3 == Member("consumers", List(es))
<1>1. /\ number \in Int
      /\ \A k \in ToSet(IterationSeries) : k \in DOMAIN series /\ series[k] \in Seq(Values)
      /\ consumers \in Seq(ToSet(consumers))
      /\ \A c \in ToSet(consumers) : IsConsumerDocument(c)
  BY DEF IsIterationDocument
<1>2. /\ "number" \in MemberNames /\ "consumers" \in MemberNames
      /\ ToSet(IterationSeries) \subseteq MemberNames
  BY Zenon DEF MemberNames
<1> HIDE DEF number, series, consumers
<1>3. Reads(Outside, m1, m1)
  <2>1. Plain(Number(number))
    BY <1>1, PlainSymbols
  <2>2. Reads(Outside, <<Number(number)>>, <<Number(number)>>)
    BY <2>1, ReadsItself
  <2> QED BY <1>2, <2>2, ReadsMember, Zenon
<1>4. Reads(Outside, m2, f2)
  <2>1. IterationSeries \in Seq(MemberNames)
    BY SeriesAssumption, <1>2
  <2>2. ASSUME NEW i \in DOMAIN IterationSeries
        PROVE  IterationSeries[i] \in DOMAIN series /\ series[IterationSeries[i]] \in Seq(Values)
    <3>1. IterationSeries[i] \in ToSet(IterationSeries)
      BY SeriesAssumption
    <3> QED BY <1>1, <3>1
  <2> QED BY <2>1, <2>2, ReadsSeriesMembers, Zenon
<1>5. n \in Nat /\ DOMAIN consumers = 1..n /\ DOMAIN others = 1..n
  BY <1>1
<1>6. Reads(Outside, List(ws), List(es))
  <2>1. ASSUME NEW i \in 1..n PROVE Reads(Outside, ws[i], es[i])
    <3> DEFINE c == consumers[i]
    <3>1. c \in ToSet(consumers)
      BY <1>5 DEF ToSet
    <3>2. IsConsumerDocument(c)
      BY <1>1, <3>1
    <3>3. ws[i] = ConsumerObject(c) /\ es[i] = ConsumerObject(FiniteConsumer(c))
      BY <1>5
    <3> HIDE DEF c, ws, es
    <3> QED BY <3>2, <3>3, ReadsConsumer
  <2>2. /\ DOMAIN ws = 1..n /\ DOMAIN es = 1..n
        /\ ws = [i \in 1..n |-> ws[i]] /\ es = [i \in 1..n |-> es[i]]
    BY <1>5
  <2> HIDE DEF ws, es, n, others
  <2> QED BY <1>5, <2>1, <2>2, ReadsObjects
<1> HIDE DEF ws, es
<1>7. Reads(Outside, m3, f3)
  BY <1>2, <1>6, ReadsMember, Zenon
<1> DEFINE open == <<Mark("{")>>
           close == <<Mark("}")>>
           comma == <<Comma>>
<1>8. IterationObject(it) = open \o m1 \o m2 \o comma \o m3 \o close
  BY Zenon DEF IterationObject, ws, number, series, consumers
<1>9. IterationObject(FiniteIteration(it)) = open \o m1 \o f2 \o comma \o f3 \o close
  <2> DEFINE d == FiniteIteration(it)
  <2>1. d.number = number /\ d.series = finite /\ d.consumers = others
    BY DEF FiniteIteration, number, series, consumers
  <2> HIDE DEF d, finite, others
  <2>2. IterationObject(d) = open \o m1 \o f2 \o comma \o f3 \o close
    BY <2>1, Zenon DEF IterationObject, es
  <2> QED BY <2>2 DEF d
<1> HIDE DEF m1, m2, f2, m3, f3
<1>10. Reads(Outside, open, open) /\ Reads(Outside, close, close) /\ Reads(Outside, comma, comma)
  BY PlainMarks, ReadsItself, Zenon
<1> HIDE DEF open, close, comma
<1>11. Reads(Outside, open \o m1, open \o m1)
  BY <1>3, <1>10, FreshOutside, ReadsInTurn, Zenon
<1>12. Reads(Outside, open \o m1 \o m2, open \o m1 \o f2)
  BY <1>4, <1>11, FreshOutside, ReadsInTurn, Zenon
<1>13. Reads(Outside, open \o m1 \o m2 \o comma, open \o m1 \o f2 \o comma)
  BY <1>10, <1>12, FreshOutside, ReadsInTurn, Zenon
<1>14. Reads(Outside, open \o m1 \o m2 \o comma \o m3, open \o m1 \o f2 \o comma \o f3)
  BY <1>7, <1>13, FreshOutside, ReadsInTurn, Zenon
<1>15. Reads(Outside, open \o m1 \o m2 \o comma \o m3 \o close, open \o m1 \o f2 \o comma \o f3 \o close)
  BY <1>10, <1>14, FreshOutside, ReadsInTurn, Zenon
<1> QED BY <1>8, <1>9, <1>15

\* A whole document of write_json reads as the one JSON allows: _nulls makes
\* null of every non-finite value, and changes nothing else.
THEOREM ReadsDocument ==
  ASSUME NEW its, IsDocument(its)
  PROVE  Reads(Outside, WriteJson(its), WriteJson([i \in DOMAIN its |-> FiniteIteration(its[i])]))
<1> DEFINE n == Len(its)
           others == [i \in DOMAIN its |-> FiniteIteration(its[i])]
           ws == [i \in DOMAIN its |-> IterationObject(its[i])]
           es == [i \in DOMAIN others |-> IterationObject(others[i])]
           m == Member("iterations", List(ws))
           f == Member("iterations", List(es))
<1>1. its \in Seq(ToSet(its)) /\ \A it \in ToSet(its) : IsIterationDocument(it)
  BY DEF IsDocument
<1>2. n \in Nat /\ DOMAIN its = 1..n /\ DOMAIN others = 1..n
  BY <1>1
<1>3. Reads(Outside, List(ws), List(es))
  <2>1. ASSUME NEW i \in 1..n PROVE Reads(Outside, ws[i], es[i])
    <3> DEFINE it == its[i]
    <3>1. it \in ToSet(its)
      BY <1>2 DEF ToSet
    <3>2. IsIterationDocument(it)
      BY <1>1, <3>1
    <3>3. ws[i] = IterationObject(it) /\ es[i] = IterationObject(FiniteIteration(it))
      BY <1>2
    <3> HIDE DEF it, ws, es
    <3> QED BY <3>2, <3>3, ReadsIteration
  <2>2. /\ DOMAIN ws = 1..n /\ DOMAIN es = 1..n
        /\ ws = [i \in 1..n |-> ws[i]] /\ es = [i \in 1..n |-> es[i]]
    BY <1>2
  <2> HIDE DEF ws, es, n, others
  <2> QED BY <1>2, <2>1, <2>2, ReadsObjects
<1> HIDE DEF ws, es, others
<1>4. Reads(Outside, m, f)
  <2>1. "iterations" \in MemberNames
    BY Zenon DEF MemberNames
  <2> QED BY <1>3, <2>1, ReadsMember, Zenon
<1> DEFINE open == <<Mark("{")>>
           close == <<Mark("}")>>
<1>5. WriteJson(its) = open \o m \o close /\ WriteJson(others) = open \o f \o close
  BY Zenon DEF WriteJson, ws, es
<1> HIDE DEF m, f
<1>6. Reads(Outside, open, open) /\ Reads(Outside, close, close)
  BY PlainMarks, ReadsItself, Zenon
<1> HIDE DEF open, close
<1>7. Reads(Outside, open \o m, open \o f)
  BY <1>4, <1>6, FreshOutside, ReadsInTurn, Zenon
<1>8. Reads(Outside, open \o m \o close, open \o f \o close)
  BY <1>6, <1>7, FreshOutside, ReadsInTurn, Zenon
<1> QED BY <1>5, <1>8 DEF others


-----------------------------------------------------------------------------
(***************************************************************************)
(* A chunk, split into pieces and passed through, is read symbol by        *)
(* symbol.                                                                 *)
(***************************************************************************)

\* What is on its way to the client, yielded or not.
Sent(resp) == resp.sent \o resp.out

Responses ==
  {resp \in [out : Seq(Symbols), held : Seq(Symbols), sent : Seq(Symbols)] :
     /\ OnlyLetters(resp.held)
     /\ Len(resp.out) < FlushBytes \/ resp.out = ResponsePrefix}

LEMMA ResponseParts ==
  ASSUME NEW resp \in Responses
  PROVE  /\ resp.out \in Seq(Symbols) /\ resp.held \in Seq(Symbols) /\ resp.sent \in Seq(Symbols)
         /\ OnlyLetters(resp.held) /\ Sent(resp) \in Seq(Symbols)
         /\ Before(resp.held) = <<>> /\ Letters(resp.held) = resp.held
<1> DEFINE out == resp.out
           sent == resp.sent
           held == resp.held
<1>1. out \in Seq(Symbols) /\ held \in Seq(Symbols) /\ sent \in Seq(Symbols) /\ OnlyLetters(held)
  BY DEF Responses
<1> HIDE DEF out, sent, held
<1>2. sent \o out \in Seq(Symbols)
  BY <1>1, ConcatType, Zenon
<1>3. Before(held) = <<>> /\ Letters(held) = held
  BY <1>1, LettersAlone
<1> QED BY <1>1, <1>2, <1>3 DEF Sent, out, sent, held

LEMMA FlushedIs ==
  ASSUME NEW x \in [out : Seq(Symbols), held : Seq(Symbols), sent : Seq(Symbols)], OnlyLetters(x.held)
  PROVE  /\ Flushed(x) \in Responses /\ Flushed(x).held = x.held
         /\ Sent(Flushed(x)) = x.sent \o x.out
<1> DEFINE out == x.out
           sent == x.sent
           all == sent \o out
<1>1. out \in Seq(Symbols) /\ sent \in Seq(Symbols) /\ Len(out) \in Nat /\ FlushBytes \in Nat /\ FlushBytes # 0
  BY FlushAssumption
<1> HIDE DEF out, sent
<1>2. all \in Seq(Symbols) /\ all \o <<>> = all /\ <<>> \in Seq(Symbols) /\ Len(<<>>) = 0
  <2>1. all \in Seq(Symbols)
    BY <1>1, ConcatType, Zenon
  <2> HIDE DEF all
  <2> QED BY <2>1, ConcatEmptySeq, EmptySeq
<1>3. CASE Len(out) >= FlushBytes
  <2> DEFINE y == [x EXCEPT !.sent = all, !.out = <<>>]
  <2>1. Flushed(x) = y
    BY <1>3 DEF Flushed, out, sent
  <2> HIDE DEF all
  <2>2. /\ y \in [out : Seq(Symbols), held : Seq(Symbols), sent : Seq(Symbols)]
        /\ y.out = <<>> /\ y.sent = all /\ y.held = x.held
    BY <1>2
  <2> HIDE DEF y
  <2>3. y \in Responses /\ Sent(y) = all
    BY <1>1, <1>2, <2>2 DEF Responses, Sent
  <2> QED BY <2>1, <2>2, <2>3 DEF all, out, sent
<1>4. CASE ~(Len(out) >= FlushBytes)
  <2>1. Flushed(x) = x /\ Len(out) < FlushBytes
    BY <1>1, <1>4 DEF Flushed, out
  <2> QED BY <2>1 DEF Responses, Sent, out
<1> QED BY <1>3, <1>4

\* A run: all of it goes out but the letters it ends with.
LEMMA PassRun ==
  ASSUME NEW resp \in Responses, NEW text \in Seq(Symbols)
  PROVE  LET run == resp.held \o text
             q == PassThrough(resp, Piece(FALSE, text))
         IN  /\ q \in Responses /\ q.held = Letters(run)
             /\ Sent(q) = Sent(resp) \o Nulls(Before(run))
<1> DEFINE out == resp.out
           sent == resp.sent
           held == resp.held
           run == held \o text
           q == PassThrough(resp, Piece(FALSE, text))
           nulls == Nulls(Before(run))
           letters == Letters(run)
           x == [resp EXCEPT !.out = @ \o nulls, !.held = letters]
           all == out \o nulls
<1>1. out \in Seq(Symbols) /\ held \in Seq(Symbols) /\ sent \in Seq(Symbols)
  BY ResponseParts
<1>2. run \in Seq(Symbols)
  <2> HIDE DEF held
  <2> QED BY <1>1, ConcatType, Zenon
<1>3. letters \in Seq(Symbols) /\ OnlyLetters(letters) /\ nulls \in Seq(Symbols)
  <2> HIDE DEF run
  <2> QED BY <1>2, PartsOfRun, NullsType
<1>4. q = Flushed(x)
  BY Zenon DEF PassThrough, Piece, Before, Letters
<1> HIDE DEF nulls, letters
<1>5. all \in Seq(Symbols) /\ sent \o all = sent \o out \o nulls
  <2>1. sent \in Seq(Symbols) /\ out \in Seq(Symbols) /\ nulls \in Seq(Symbols)
    BY <1>1, <1>3
  <2> HIDE DEF out, sent
  <2>2. all \in Seq(Symbols)
    BY <2>1, ConcatType, Zenon
  <2>3. sent \o all = sent \o out \o nulls
    BY <2>1, Grouped, SMTT(30)
  <2> QED BY <2>2, <2>3
<1>6. /\ x \in [out : Seq(Symbols), held : Seq(Symbols), sent : Seq(Symbols)]
      /\ x.out = all /\ x.held = letters /\ x.sent = sent
  <2>1. resp \in [out : Seq(Symbols), held : Seq(Symbols), sent : Seq(Symbols)]
    BY DEF Responses
  <2> QED BY <1>3, <1>5, <2>1
<1> HIDE DEF out, sent, held, run, q, all, x
<1>7. q \in Responses /\ q.held = letters /\ Sent(q) = sent \o all
  <2>1. /\ Flushed(x) \in Responses /\ Flushed(x).held = x.held
        /\ Sent(Flushed(x)) = x.sent \o x.out
    BY <1>3, <1>6, FlushedIs
  <2> QED BY <1>4, <1>6, <2>1
<1>8. Sent(resp) = sent \o out
  BY DEF Sent, sent, out
<1> QED BY <1>5, <1>7, <1>8 DEF q, run, held, nulls, letters

\* A string: it goes out, after all that was held back.
LEMMA PassString ==
  ASSUME NEW resp \in Responses, NEW text \in Seq(Symbols)
  PROVE  LET q == PassThrough(resp, Piece(TRUE, text))
         IN  /\ q \in Responses /\ q.held = <<>>
             /\ Sent(q) = Sent(resp) \o Nulls(resp.held) \o text
<1> DEFINE out == resp.out
           sent == resp.sent
           held == resp.held
           q == PassThrough(resp, Piece(TRUE, text))
           nulls == Nulls(held)
           x == [resp EXCEPT !.out = @ \o nulls \o text, !.held = <<>>]
           all == out \o nulls \o text
<1>1. out \in Seq(Symbols) /\ held \in Seq(Symbols) /\ sent \in Seq(Symbols)
  BY ResponseParts
<1>2. nulls \in Seq(Symbols)
  <2> HIDE DEF held
  <2> QED BY <1>1, NullsType
<1>3. <<>> \in Seq(Symbols) /\ OnlyLetters(<<>>)
  BY EmptySeq DEF OnlyLetters
<1>4. q = Flushed(x)
  BY Zenon DEF PassThrough, Piece
<1> HIDE DEF nulls
<1>5. all \in Seq(Symbols) /\ sent \o all = sent \o out \o nulls \o text
  <2> HIDE DEF out, sent
  <2> DEFINE more == out \o nulls
  <2>1. more \in Seq(Symbols) /\ sent \o more = sent \o out \o nulls
    BY <1>1, <1>2, Grouped
  <2> HIDE DEF more
  <2>2. sent \in Seq(Symbols) /\ more \in Seq(Symbols) /\ text \in Seq(Symbols)
    BY <1>1, <2>1
  <2>3. more \o text \in Seq(Symbols)
    BY <2>2, ConcatType, Zenon
  <2>4. sent \o (more \o text) = sent \o more \o text
    BY <2>2, Grouped
  <2> QED BY <2>1, <2>3, <2>4 DEF more
<1>6. /\ x \in [out : Seq(Symbols), held : Seq(Symbols), sent : Seq(Symbols)]
      /\ x.out = all /\ x.held = <<>> /\ x.sent = sent
  <2>1. resp \in [out : Seq(Symbols), held : Seq(Symbols), sent : Seq(Symbols)]
    BY DEF Responses
  <2> QED BY <1>3, <1>5, <2>1
<1> HIDE DEF out, sent, held, q, all, x
<1>7. q \in Responses /\ q.held = <<>> /\ Sent(q) = sent \o all
  <2>1. /\ Flushed(x) \in Responses /\ Flushed(x).held = x.held
        /\ Sent(Flushed(x)) = x.sent \o x.out
    BY <1>3, <1>6, FlushedIs
  <2> QED BY <1>4, <1>6, <2>1
<1>9. Sent(resp) = sent \o out
  BY DEF Sent, sent, out
<1> QED BY <1>5, <1>7, <1>9 DEF q, nulls, held

LEMMA PassedIs == \A resp, pieces : FoldLeft(PassThrough, resp, pieces) = Passing!Folded(resp, pieces)
BY DEF Passing!Folded, FoldLeft, MapThenFoldSet, Passing!FoldLeft, Passing!MapThenFoldSet, Max, Passing!Max

LEMMA SplitIs == \A split, chunk : FoldLeft(SplitSymbol, split, chunk) = Splitting!Folded(split, chunk)
BY DEF Splitting!Folded, FoldLeft, MapThenFoldSet, Splitting!FoldLeft, Splitting!MapThenFoldSet,
       Max, Splitting!Max

Pieces == [string : BOOLEAN, text : Seq(Symbols)]
Splits == [string : Seq(Symbols), escaped : BOOLEAN, run : Seq(Symbols), pieces : Seq(Pieces)]

Passed(resp, pieces) == Passing!Folded(resp, pieces)

\* The pieces with the run after them, when there is one.
WithRun(pieces, run) == IF run = <<>> THEN pieces ELSE Append(pieces, Piece(FALSE, run))

LEMMA PassedOne ==
  ASSUME NEW resp, NEW pieces \in Seq(Pieces), NEW p \in Pieces
  PROVE  Append(pieces, p) \in Seq(Pieces) /\ Passed(resp, Append(pieces, p)) = PassThrough(Passed(resp, pieces), p)
<1>1. Append(pieces, p) \in Seq(Pieces)
  OBVIOUS
<1> QED BY <1>1, Passing!FoldOne DEF Passed

\* The response q, once a run went through resp.
RunPassed(resp, run, q) ==
  /\ q \in Responses /\ q.held = Letters(resp.held \o run)
  /\ Sent(q) = Sent(resp) \o Nulls(Before(resp.held \o run))

LEMMA PassedRun ==
  ASSUME NEW resp0, NEW pieces \in Seq(Pieces), NEW resp, resp = Passed(resp0, pieces),
         resp \in Responses, NEW run \in Seq(Symbols)
  PROVE  /\ WithRun(pieces, run) \in Seq(Pieces)
         /\ RunPassed(resp, run, Passed(resp0, WithRun(pieces, run)))
<1> DEFINE held == resp.held
           sent == Sent(resp)
           all == held \o run
<1>1. /\ held \in Seq(Symbols) /\ sent \in Seq(Symbols)
      /\ Before(held) = <<>> /\ Letters(held) = held
  BY ResponseParts
<1>2. all \in Seq(Symbols)
  <2> HIDE DEF held
  <2> QED BY <1>1, ConcatType, Zenon
<1>3. CASE run = <<>>
  <2>1. held \o <<>> = held /\ sent \o <<>> = sent
    <3> HIDE DEF held, sent
    <3> QED BY <1>1, ConcatEmptySeq
  <2>2. WithRun(pieces, run) = pieces
    BY <1>3 DEF WithRun
  <2>3. all = held
    BY <1>3, <2>1
  <2>4. Letters(all) = held /\ Nulls(Before(all)) = <<>>
    BY <1>1, <2>3, NullsNone
  <2>5. sent \o Nulls(Before(all)) = sent
    BY <2>1, <2>4
  <2>6. RunPassed(resp, run, resp)
    BY <1>1, <2>4, <2>5 DEF RunPassed
  <2> QED BY <2>2, <2>6
<1>4. CASE run # <<>>
  <2> DEFINE p == Piece(FALSE, run)
             q == PassThrough(resp, p)
  <2>1. p \in Pieces
    BY DEF Piece, Pieces
  <2>2. /\ WithRun(pieces, run) = Append(pieces, p) /\ WithRun(pieces, run) \in Seq(Pieces)
        /\ Passed(resp0, WithRun(pieces, run)) = q
    <3> HIDE DEF p
    <3>1. WithRun(pieces, run) = Append(pieces, p)
      BY <1>4 DEF WithRun, p
    <3> QED BY <2>1, <3>1, PassedOne
  <2>3. q \in Responses /\ q.held = Letters(all) /\ Sent(q) = Sent(resp) \o Nulls(Before(all))
    BY PassRun
  <2>4. RunPassed(resp, run, q)
    BY <2>3 DEF RunPassed
  <2> HIDE DEF q
  <2> QED BY <2>2, <2>4
<1> QED BY <1>3, <1>4

\* r is what is read when a chunk is split that far and its pieces are passed
\* through from resp0 on.
Follows(resp0, split, r) ==
  LET resp == Passed(resp0, split.pieces)
      run == resp.held \o split.run
  IN  /\ split \in Splits /\ r \in ReadingStates
      /\ r.string = split.string /\ r.escaped = split.escaped
      /\ split.string # <<>> => split.run = <<>>
      /\ resp \in Responses
      /\ r.held = Letters(run) /\ r.given = Sent(resp) \o Nulls(Before(run))

LEMMA FollowsQuote ==
  ASSUME NEW resp0, NEW split, NEW r, Follows(resp0, split, r), split.string = <<>>
  PROVE  Follows(resp0, SplitSymbol(split, Quote), ReadSymbol(r, Quote))
<1> DEFINE pieces == split.pieces
           resp == Passed(resp0, pieces)
           run == split.run
           t == SplitSymbol(split, Quote)
           q == ReadSymbol(r, Quote)
           quote == <<Quote>>
           resp2 == Passed(resp0, WithRun(pieces, run))
           all == resp.held \o run
<1>1. /\ split \in Splits /\ r \in ReadingStates /\ r.string = <<>> /\ r.escaped = split.escaped
      /\ resp \in Responses /\ r.held = Letters(all) /\ r.given = Sent(resp) \o Nulls(Before(all))
  BY DEF Follows
<1>2. /\ q \in ReadingStates /\ q.string = quote /\ q.string # <<>> /\ q.escaped = FALSE
      /\ q.held = r.held /\ q.given = r.given
  BY <1>1, ReadQuote
<1>3. r.escaped = FALSE
  BY <1>1 DEF ReadingStates
<1>4. pieces \in Seq(Pieces) /\ run \in Seq(Symbols)
  BY <1>1 DEF Splits
<1>5. /\ WithRun(pieces, run) \in Seq(Pieces)
      /\ resp2 \in Responses /\ resp2.held = Letters(all) /\ Sent(resp2) = Sent(resp) \o Nulls(Before(all))
  <2>1. resp = Passed(resp0, pieces)
    OBVIOUS
  <2> HIDE DEF pieces, run, resp
  <2>2. WithRun(pieces, run) \in Seq(Pieces) /\ RunPassed(resp, run, resp2)
    BY <1>1, <1>4, <2>1, PassedRun
  <2> QED BY <2>2 DEF RunPassed
<1>6. t = [split EXCEPT !.string = quote, !.run = <<>>, !.pieces = WithRun(pieces, run)]
  BY DEF SplitSymbol, WithRun
<1>7. quote \in Seq(Symbols) /\ <<>> \in Seq(Symbols)
  BY PlainSymbols, OneType, EmptySeq
<1> DEFINE withRun == WithRun(pieces, run)
<1> HIDE DEF withRun, quote
<1>8. /\ t \in Splits /\ t.string = quote /\ t.escaped = split.escaped /\ t.run = <<>> /\ t.pieces = withRun
  <2>1. t = [split EXCEPT !.string = quote, !.run = <<>>, !.pieces = withRun] /\ withRun \in Seq(Pieces)
    BY <1>5, <1>6 DEF withRun
  <2> QED BY <1>1, <1>7, <2>1 DEF Splits
<1> HIDE DEF t, q
<1>9. /\ resp2 = Passed(resp0, t.pieces) /\ resp2.held \o t.run = resp2.held
      /\ Letters(resp2.held) = resp2.held /\ Before(resp2.held) = <<>>
      /\ Sent(resp2) \o Nulls(<<>>) = Sent(resp2)
  <2> DEFINE held == resp2.held
             sent == Sent(resp2)
  <2>1. held \in Seq(Symbols) /\ Letters(held) = held /\ Before(held) = <<>> /\ sent \in Seq(Symbols)
    BY <1>5, ResponseParts
  <2>2. resp2 = Passed(resp0, t.pieces)
    BY <1>8 DEF withRun
  <2> HIDE DEF held, sent
  <2>3. held \o <<>> = held /\ sent \o <<>> = sent
    BY <2>1, ConcatEmptySeq
  <2> QED BY <1>8, <2>1, <2>2, <2>3, NullsNone DEF held, sent
<1>10. q.held = Letters(resp2.held \o t.run)
  BY <1>1, <1>2, <1>5, <1>9
<1>11. q.given = Sent(resp2) \o Nulls(Before(resp2.held \o t.run))
  BY <1>1, <1>2, <1>5, <1>9
<1> HIDE DEF resp2
<1> QED BY <1>1, <1>2, <1>3, <1>5, <1>8, <1>9, <1>10, <1>11 DEF Follows, t, q

LEMMA FollowsOutside ==
  ASSUME NEW resp0, NEW split, NEW r, Follows(resp0, split, r), split.string = <<>>,
         NEW s \in Symbols, s # Quote
  PROVE  Follows(resp0, SplitSymbol(split, s), ReadSymbol(r, s))
<1> DEFINE pieces == split.pieces
           resp == Passed(resp0, pieces)
           run == split.run
           held == resp.held
           sent == Sent(resp)
           all == held \o run
           more == Append(run, s)
           t == SplitSymbol(split, s)
           q == ReadSymbol(r, s)
<1>1. /\ split \in Splits /\ r \in ReadingStates /\ r.string = <<>> /\ r.escaped = split.escaped
      /\ resp \in Responses /\ r.held = Letters(all) /\ r.given = sent \o Nulls(Before(all))
  BY DEF Follows
<1>2. run \in Seq(Symbols) /\ more \in Seq(Symbols)
  BY <1>1 DEF Splits
<1>3. held \in Seq(Symbols) /\ sent \in Seq(Symbols)
  BY <1>1, ResponseParts
<1>4. t = [split EXCEPT !.run = more]
  BY DEF SplitSymbol
<1>5. t \in Splits /\ t.string = <<>> /\ t.escaped = split.escaped /\ t.run = more /\ t.pieces = pieces
  <2> HIDE DEF more
  <2> QED BY <1>1, <1>2, <1>4 DEF Splits
<1>6. all \in Seq(Symbols) /\ held \o more = Append(all, s)
  <2> HIDE DEF held, run
  <2> QED BY <1>2, <1>3, OneMore, ConcatType, Zenon
<1>7. r.escaped = FALSE
  BY <1>1 DEF ReadingStates
<1> HIDE DEF t, all, held, sent
<1>8. /\ q \in ReadingStates /\ q.string = <<>> /\ q.escaped = FALSE
      /\ q.held = Letters(Append(all, s)) /\ q.given = sent \o Nulls(Before(Append(all, s)))
  <2>1. CASE s \in NonFiniteLetters
    <3>1. /\ q \in ReadingStates /\ q.string = <<>> /\ q.escaped = FALSE
          /\ q.held = Append(r.held, s) /\ q.given = r.given
      BY <1>1, <2>1, ReadLetter
    <3>2. Before(Append(all, s)) = Before(all) /\ Letters(Append(all, s)) = Append(Letters(all), s)
      BY <1>6, <2>1, LetterMore
    <3> HIDE DEF q
    <3> QED BY <1>1, <3>1, <3>2
  <2>2. CASE s \notin NonFiniteLetters
    <3>1. /\ q \in ReadingStates /\ q.string = <<>> /\ q.escaped = FALSE
          /\ q.held = <<>> /\ q.given = r.given \o Nulls(Append(r.held, s))
      BY <1>1, <2>2, ReadOther DEF Plain
    <3> DEFINE x == Nulls(Before(all))
               y == Nulls(Append(Letters(all), s))
               z == Append(all, s)
    <3>2. /\ Before(z) = z /\ Letters(z) = <<>> /\ Nulls(z) = x \o y
      BY <1>6, <2>2, OtherMore
    <3>3. x \in Seq(Symbols) /\ y \in Seq(Symbols)
      <4>1. Before(all) \in Seq(Symbols) /\ Letters(all) \in Seq(Symbols)
        BY <1>6, PartsOfRun
      <4>2. Append(Letters(all), s) \in Seq(Symbols)
        BY <4>1, AppendProperties
      <4> QED BY <4>1, <4>2, NullsType
    <3>4. r.given = sent \o x /\ q.given = r.given \o y
      BY <1>1, <3>1
    <3> HIDE DEF q, x, y, z
    <3>5. sent \o x \o y = sent \o (x \o y)
      BY <1>3, <3>3, ConcatAssociative
    <3>6. q.given = sent \o Nulls(Before(z))
      BY <3>2, <3>4, <3>5
    <3> QED BY <3>1, <3>2, <3>6 DEF z
  <2> QED BY <2>1, <2>2
<1> HIDE DEF q, more
<1> QED BY <1>1, <1>5, <1>6, <1>7, <1>8 DEF Follows, t, q, all, held, sent

LEMMA FollowsInside ==
  ASSUME NEW resp0, NEW split, NEW r, Follows(resp0, split, r), split.string # <<>>,
         NEW s \in Symbols
  PROVE  Follows(resp0, SplitSymbol(split, s), ReadSymbol(r, s))
<1> DEFINE pieces == split.pieces
           resp == Passed(resp0, pieces)
           run == split.run
           held == resp.held
           sent == Sent(resp)
           text == Append(split.string, s)
           t == SplitSymbol(split, s)
           q == ReadSymbol(r, s)
<1>1. /\ split \in Splits /\ r \in ReadingStates /\ r.string = split.string /\ r.string # <<>>
      /\ r.escaped = split.escaped /\ run = <<>>
      /\ resp \in Responses /\ r.held = Letters(held \o run) /\ r.given = sent \o Nulls(Before(held \o run))
  BY DEF Follows
<1>2. /\ held \in Seq(Symbols) /\ sent \in Seq(Symbols) /\ Letters(held) = held /\ Before(held) = <<>>
  BY <1>1, ResponseParts
<1>3. held \o run = held /\ sent \o Nulls(<<>>) = sent
  <2> HIDE DEF held, sent
  <2>1. held \o <<>> = held /\ sent \o <<>> = sent
    BY <1>2, ConcatEmptySeq
  <2> QED BY <1>1, <2>1, NullsNone
<1>4. r.held = held /\ r.given = sent
  BY <1>1, <1>2, <1>3
<1>5. /\ text \in Seq(Symbols) /\ text # <<>> /\ split.escaped \in BOOLEAN
      /\ pieces \in Seq(Pieces) /\ <<>> \in Seq(Symbols)
  BY <1>1 DEF Splits
<1> HIDE DEF text
<1>6. CASE ~r.escaped /\ s = Quote
  <2> DEFINE p == Piece(TRUE, text)
             resp2 == PassThrough(resp, p)
             more == Append(pieces, p)
  <2>1. p \in Pieces
    BY <1>5 DEF Piece, Pieces
  <2>2. resp2 \in Responses /\ resp2.held = <<>> /\ Sent(resp2) = sent \o Nulls(held) \o text
    <3> HIDE DEF resp
    <3> QED BY <1>1, <1>5, PassString
  <2>3. more \in Seq(Pieces) /\ Passed(resp0, more) = resp2
    <3> HIDE DEF p
    <3> QED BY <1>5, <2>1, PassedOne
  <2>4. t = [split EXCEPT !.string = <<>>, !.pieces = more]
    BY <1>1, <1>6 DEF SplitSymbol, text
  <2> HIDE DEF more
  <2>5. t \in Splits /\ t.string = <<>> /\ t.escaped = split.escaped /\ t.run = <<>> /\ t.pieces = more
    BY <1>1, <1>5, <2>3, <2>4 DEF Splits
  <2>6. /\ q \in ReadingStates /\ q.string = <<>> /\ q.escaped = FALSE
        /\ q.held = <<>> /\ q.given = r.given \o Nulls(r.held) \o Append(r.string, Quote)
    BY <1>1, <1>6, ReadQuoteInside
  <2>7. q.given = Sent(resp2)
    BY <1>1, <1>4, <1>6, <2>2, <2>6 DEF text
  <2> HIDE DEF resp2, t, q
  <2>8. /\ resp2.held \o t.run = <<>> /\ Letters(<<>>) = <<>> /\ Before(<<>>) = <<>>
        /\ Sent(resp2) \o Nulls(<<>>) = Sent(resp2)
    <3> DEFINE sent2 == Sent(resp2)
    <3>1. sent2 \in Seq(Symbols) /\ Letters(<<>>) = <<>> /\ Before(<<>>) = <<>>
      BY <2>2, ResponseParts
    <3> HIDE DEF sent2
    <3>2. sent2 \o <<>> = sent2 /\ <<>> \o <<>> = <<>>
      BY <1>5, <3>1, ConcatEmptySeq
    <3> QED BY <2>2, <2>5, <3>1, <3>2, NullsNone DEF sent2
  <2>9. Passed(resp0, t.pieces) = resp2
    BY <2>3, <2>5
  <2>10. q.held = Letters(resp2.held \o t.run) /\ q.given = Sent(resp2) \o Nulls(Before(resp2.held \o t.run))
    BY <2>6, <2>7, <2>8
  <2>11. q.escaped = t.escaped
    BY <1>1, <1>5, <1>6, <2>5, <2>6
  <2> QED BY <2>2, <2>5, <2>6, <2>9, <2>10, <2>11 DEF Follows, t, q
<1>7. CASE r.escaped \/ s # Quote
  <2> DEFINE escaped == (~r.escaped /\ s = Backslash)
  <2>1. /\ q \in ReadingStates /\ q.string = Append(r.string, s)
        /\ q.escaped = escaped /\ q.held = r.held /\ q.given = r.given
    BY <1>1, <1>7, ReadInside
  <2>2. t = [split EXCEPT !.string = text, !.escaped = escaped]
    <3>1. CASE split.escaped
      <4>1. escaped = FALSE
        BY <1>1, <3>1
      <4>2. t = [split EXCEPT !.string = text, !.escaped = FALSE]
        BY <3>1 DEF SplitSymbol, text
      <4> QED BY <4>1, <4>2
    <3>2. CASE ~split.escaped
      <4>1. s # Quote
        BY <1>1, <1>7, <3>2
      <4>2. escaped = (s = Backslash)
        BY <1>1, <3>2
      <4>3. t = [split EXCEPT !.string = text, !.escaped = (s = Backslash)]
        BY <3>2, <4>1 DEF SplitSymbol, text
      <4> QED BY <4>2, <4>3
    <3> QED BY <3>1, <3>2
  <2>3. escaped \in BOOLEAN
    OBVIOUS
  <2> HIDE DEF escaped
  <2>4. t \in Splits /\ t.string = text /\ t.escaped = escaped /\ t.run = <<>> /\ t.pieces = pieces
    BY <1>1, <1>5, <2>2, <2>3 DEF Splits
  <2> HIDE DEF t, q
  <2>5. q.string = text
    BY <1>1, <2>1 DEF text
  <2>6. q.held = Letters(held \o t.run) /\ q.given = sent \o Nulls(Before(held \o t.run))
    BY <1>1, <2>1, <2>4
  <2> QED BY <1>1, <2>1, <2>4, <2>5, <2>6 DEF Follows, t, q
<1> QED BY <1>6, <1>7

\* A chunk leaves what is kept, and the response, as reading it symbol by
\* symbol does.
Matches(k, resp, r) ==
  /\ r.string = k.string /\ r.escaped = k.escaped
  /\ r.held = resp.held /\ r.given = Sent(resp)

LEMMA ChunkFollows ==
  ASSUME NEW resp \in Responses, NEW k, NEW r \in ReadingStates, Matches(k, resp, r),
         k \in [string : Seq(Symbols), escaped : BOOLEAN]
  PROVE  \A chunk \in Seq(Symbols) :
           Follows(resp, Splitting!Folded([string |-> k.string, escaped |-> k.escaped,
                                           run |-> <<>>, pieces |-> <<>>], chunk),
                   ReadOn(r, chunk))
<1> DEFINE split0 == [string |-> k.string, escaped |-> k.escaped, run |-> <<>>, pieces |-> <<>>]
           SplitOn(chunk) == Splitting!Folded(split0, chunk)
           G == {chunk \in Seq(Symbols) : Follows(resp, SplitOn(chunk), ReadOn(r, chunk))}
<1>1. <<>> \in G
  <2>1. /\ split0 \in Splits /\ split0.string = r.string /\ split0.escaped = r.escaped
        /\ split0.run = <<>> /\ split0.pieces = <<>>
    BY DEF Splits, Matches
  <2> HIDE DEF split0
  <2>2. SplitOn(<<>>) = split0 /\ ReadOn(r, <<>>) = r /\ Passed(resp, <<>>) = resp
    BY Splitting!FoldNone, Passing!FoldNone, ReadOnNone DEF Passed
  <2> DEFINE held == resp.held
             sent == Sent(resp)
  <2>3. held \in Seq(Symbols) /\ sent \in Seq(Symbols) /\ Letters(held) = held /\ Before(held) = <<>>
    BY ResponseParts
  <2>4. r.held = held /\ r.given = sent
    BY DEF Matches
  <2> HIDE DEF held, sent
  <2>5. held \o <<>> = held /\ sent \o <<>> = sent
    BY <2>3, ConcatEmptySeq
  <2>6. r.held = Letters(held \o split0.run) /\ r.given = sent \o Nulls(Before(held \o split0.run))
    BY <2>1, <2>3, <2>4, <2>5, NullsNone
  <2>7. Follows(resp, split0, r)
    BY <2>1, <2>2, <2>6 DEF Follows, held, sent
  <2> QED BY <2>2, <2>7, EmptySeq
<1>2. ASSUME NEW chunk \in Seq(Symbols), NEW s \in Symbols, chunk \in G PROVE Append(chunk, s) \in G
  <2> DEFINE split == SplitOn(chunk)
             q == ReadOn(r, chunk)
  <2>1. Follows(resp, split, q)
    BY <1>2
  <2>2. SplitOn(Append(chunk, s)) = SplitSymbol(split, s) /\ ReadOn(r, Append(chunk, s)) = ReadSymbol(q, s)
    BY Splitting!FoldOne, ReadOnOne
  <2> HIDE DEF split, q
  <2>3. ASSUME split.string = <<>> /\ s = Quote PROVE Follows(resp, SplitSymbol(split, s), ReadSymbol(q, s))
    BY <2>1, <2>3, FollowsQuote
  <2>4. ASSUME split.string = <<>> /\ s # Quote PROVE Follows(resp, SplitSymbol(split, s), ReadSymbol(q, s))
    BY <2>1, <2>4, FollowsOutside
  <2>5. ASSUME split.string # <<>> PROVE Follows(resp, SplitSymbol(split, s), ReadSymbol(q, s))
    BY <2>1, <2>5, FollowsInside
  <2>6. Follows(resp, SplitSymbol(split, s), ReadSymbol(q, s))
    BY <2>3, <2>4, <2>5
  <2>7. Append(chunk, s) \in Seq(Symbols)
    OBVIOUS
  <2> QED BY <2>2, <2>6, <2>7
<1> HIDE DEF G
<1>3. Seq(Symbols) \subseteq G
  BY <1>1, <1>2, EverySequence
<1> QED BY <1>3 DEF G


\* What _pieces may keep from chunk to chunk.
Keepings == [string : Seq(Symbols), escaped : BOOLEAN]

LEMMA FollowsRun ==
  ASSUME NEW resp0, NEW split, NEW r, Follows(resp0, split, r)
  PROVE  LET resp2 == Passed(resp0, WithRun(split.pieces, split.run))
         IN  /\ [string |-> split.string, escaped |-> split.escaped] \in Keepings
             /\ resp2 \in Responses
             /\ Matches([string |-> split.string, escaped |-> split.escaped], resp2, r)
<1> DEFINE pieces == split.pieces
           resp == Passed(resp0, pieces)
           run == split.run
           resp2 == Passed(resp0, WithRun(pieces, run))
           all == resp.held \o run
<1>1. /\ split \in Splits /\ r.string = split.string /\ r.escaped = split.escaped
      /\ resp \in Responses /\ r.held = Letters(all) /\ r.given = Sent(resp) \o Nulls(Before(all))
  BY DEF Follows
<1>2. pieces \in Seq(Pieces) /\ run \in Seq(Symbols)
  BY <1>1 DEF Splits
<1>3. /\ resp2 \in Responses /\ resp2.held = Letters(all) /\ Sent(resp2) = Sent(resp) \o Nulls(Before(all))
  <2>1. resp = Passed(resp0, pieces)
    OBVIOUS
  <2> HIDE DEF pieces, run, resp
  <2>2. RunPassed(resp, run, resp2)
    BY <1>1, <1>2, <2>1, PassedRun
  <2> QED BY <2>2 DEF RunPassed
<1> DEFINE k == [string |-> split.string, escaped |-> split.escaped]
<1>4. k \in Keepings /\ k.string = split.string /\ k.escaped = split.escaped
  BY <1>1 DEF Keepings, Splits
<1> HIDE DEF resp2, resp, all, k
<1>5. Matches(k, resp2, r)
  BY <1>1, <1>3, <1>4 DEF Matches
<1> QED BY <1>3, <1>4, <1>5 DEF k, resp2, pieces, run

\* So a chunk is read like its symbols, one by one: what _pieces and
\* as_api_response keep between two chunks makes up for any cut.
THEOREM ChunkReads ==
  ASSUME NEW resp \in Responses, NEW k \in Keepings, NEW r \in ReadingStates, Matches(k, resp, r),
         NEW chunk \in Seq(Symbols)
  PROVE  LET split == SplitChunk(k, chunk)
             resp2 == FoldLeft(PassThrough, resp, split.pieces)
         IN  /\ split.kept \in Keepings /\ resp2 \in Responses
             /\ Matches(split.kept, resp2, ReadOn(r, chunk))
<1> DEFINE split0 == [string |-> k.string, escaped |-> k.escaped, run |-> <<>>, pieces |-> <<>>]
           s == Splitting!Folded(split0, chunk)
           split == SplitChunk(k, chunk)
<1>1. split = [kept |-> [string |-> s.string, escaped |-> s.escaped], pieces |-> WithRun(s.pieces, s.run)]
  <2>1. FoldLeft(SplitSymbol, split0, chunk) = s
    BY SplitIs
  <2> HIDE DEF s
  <2> QED BY <2>1 DEF SplitChunk, WithRun
<1>2. Follows(resp, s, ReadOn(r, chunk))
  BY ChunkFollows DEF Keepings
<1>3. FoldLeft(PassThrough, resp, split.pieces) = Passed(resp, split.pieces)
  BY PassedIs DEF Passed
<1> HIDE DEF s, split
<1> QED BY <1>1, <1>2, <1>3, FollowsRun DEF split


-----------------------------------------------------------------------------
(***************************************************************************)
(* What a result's series are written as is a document.                    *)
(***************************************************************************)

LEMMA NumberIsValue ==
  ASSUME NEW n \in Int
  PROVE  <<Number(n)>> \in Values
<1> DEFINE x == Number(n)
<1>1. x \in Numbers /\ x # Minus
  BY DEF Number, Numbers, Minus, Mark
<1> HIDE DEF x
<1>2. x \in Numbers \union {Minus}
  BY <1>1
<1>3. <<x>> \in Seq(Numbers \union {Minus}) /\ <<x>> # <<>> /\ DOMAIN <<x>> = {1} /\ <<x>>[1] = x
  BY <1>2
<1>4. <<x>> \in NumberTexts
  BY <1>1, <1>3 DEF NumberTexts
<1> QED BY <1>4 DEF Values, x

LEMMA InOrderType ==
  ASSUME NEW series \in [Steps -> Nat]
  PROVE  InOrder(series) \in Seq(Values)
<1> DEFINE n == Cardinality(Steps)
           s == [t \in 1..n |-> series[t]]
<1>1. n \in Nat /\ Steps = 1..n
  BY SolveAssumption, FS_CardinalityType, RunResultAssumption
<1> HIDE DEF n
<1>2. s \in [1..n -> Nat]
  BY <1>1
<1>3. s \in Seq(Nat) /\ Len(s) = n
  BY <1>1, <1>2, EachType
<1> HIDE DEF s
<1> DEFINE e == [i \in 1..Len(s) |-> <<Number(s[i])>>]
<1>4. ASSUME NEW i \in 1..n PROVE <<Number(s[i])>> \in Values
  <2>1. s[i] \in Int
    BY <1>2
  <2> QED BY <2>1, NumberIsValue
<1>5. e \in [1..n -> Values]
  BY <1>3, <1>4
<1> HIDE DEF e
<1>6. e \in Seq(Values)
  BY <1>1, <1>5, EachType
<1> QED BY <1>6 DEF InOrder, Encoded, e, s, n

LEMMA SeriesOfType ==
  ASSUME NEW result \in IterationResults, NEW n \in SolvedSeries
  PROVE  n \in DOMAIN SeriesOf(result) /\ SeriesOf(result)[n] \in Seq(Values)
<1>1. /\ result.available \in [Steps -> Nat]
      /\ PerStep(result.consumption) \in [Steps -> Nat] /\ PerStep(result.consumed) \in [Steps -> Nat]
      /\ PerStep(result.residual) \in [Steps -> Nat] /\ PerStep(result.surplus) \in [Steps -> Nat]
  BY ResultType, MatrixType
<1>2. /\ InOrder(result.available) \in Seq(Values)
      /\ InOrder(PerStep(result.consumption)) \in Seq(Values)
      /\ InOrder(PerStep(result.consumed)) \in Seq(Values)
      /\ InOrder(PerStep(result.residual)) \in Seq(Values)
      /\ InOrder(PerStep(result.surplus)) \in Seq(Values)
  BY <1>1, InOrderType
<1> QED BY <1>2 DEF SeriesOf, SolvedSeries

LEMMA ConsumerSeriesOfType ==
  ASSUME NEW result \in IterationResults, NEW j \in Consumers, NEW n \in SolvedSeries
  PROVE  n \in DOMAIN ConsumerSeriesOf(result, j) /\ ConsumerSeriesOf(result, j)[n] \in Seq(Values)
<1>1. /\ result.consumption[j] \in [Steps -> Nat] /\ result.allocated[j] \in [Steps -> Nat]
      /\ result.consumed[j] \in [Steps -> Nat] /\ result.residual[j] \in [Steps -> Nat]
      /\ result.surplus[j] \in [Steps -> Nat]
  BY ResultType DEF Matrices
<1>2. /\ InOrder(result.consumption[j]) \in Seq(Values) /\ InOrder(result.allocated[j]) \in Seq(Values)
      /\ InOrder(result.consumed[j]) \in Seq(Values) /\ InOrder(result.residual[j]) \in Seq(Values)
      /\ InOrder(result.surplus[j]) \in Seq(Values)
  BY <1>1, InOrderType
<1> QED BY <1>2 DEF ConsumerSeriesOf, SolvedSeries

LEMMA SequenceOfItsOwn ==
  ASSUME NEW n \in Nat, NEW f, f = [i \in 1..n |-> f[i]]
  PROVE  /\ f \in Seq(ToSet(f)) /\ Len(f) = n
         /\ \A x \in ToSet(f) : \E i \in 1..n : x = f[i]
<1>1. DOMAIN f = 1..n
  OBVIOUS
<1>2. f \in [1..n -> ToSet(f)] /\ \A x \in ToSet(f) : \E i \in 1..n : x = f[i]
  BY <1>1 DEF ToSet
<1> QED BY <1>2, EachType

LEMMA ResultIsDocument ==
  ASSUME SolveTypeOK
  PROVE  IsDocument(ResultSeries) /\ (done # <<>> => ResultSeries # <<>>)
<1> DEFINE its == ResultSeries
           n == Len(done)
           m == Len(ConsumerOrder)
           Consumer(i, p) == [name |-> ConsumerNames[ConsumerOrder[p]],
                              series |-> ConsumerSeriesOf(done[i], ConsumerOrder[p])]
           Ordered(i) == [p \in DOMAIN ConsumerOrder |-> Consumer(i, p)]
<1>1. /\ done \in Seq(IterationResults) /\ n \in Nat /\ DOMAIN done = 1..n
      /\ \A i \in 1..n : done[i] \in IterationResults
      /\ m \in Nat /\ DOMAIN ConsumerOrder = 1..m /\ \A p \in 1..m : ConsumerOrder[p] \in Consumers
  BY RunResultAssumption DEF SolveTypeOK
<1>2. /\ \A s \in ToSet(IterationSeries) : s \in SolvedSeries
      /\ \A s \in ToSet(ConsumerSeries) : s \in SolvedSeries
  BY RunResultAssumption
<1>3. ASSUME NEW i \in 1..n, NEW p \in 1..m PROVE IsConsumerDocument(Consumer(i, p))
  <2> DEFINE j == ConsumerOrder[p]
             c == Consumer(i, p)
  <2>1. c.name = ConsumerNames[j] /\ c.series = ConsumerSeriesOf(done[i], j)
    OBVIOUS
  <2>2. j \in Consumers /\ ConsumerNames[j] \in Names
    BY <1>1, RunResultAssumption
  <2> HIDE DEF c, j
  <2>3. \A s \in ToSet(ConsumerSeries) : s \in DOMAIN c.series /\ c.series[s] \in Seq(Values)
    BY <1>1, <1>2, <2>1, <2>2, ConsumerSeriesOfType
  <2>4. IsConsumerDocument(c)
    BY <2>1, <2>2, <2>3 DEF IsConsumerDocument
  <2> QED BY <2>4 DEF c
<1>4. ASSUME NEW i \in 1..n
      PROVE  Ordered(i) \in Seq(ToSet(Ordered(i))) /\ \A c \in ToSet(Ordered(i)) : IsConsumerDocument(c)
  <2> DEFINE f == Ordered(i)
  <2>1. f = [p \in 1..m |-> f[p]] /\ \A p \in 1..m : f[p] = Consumer(i, p)
    BY <1>1
  <2>2. \A p \in 1..m : IsConsumerDocument(f[p])
    BY <1>3, <2>1
  <2> HIDE DEF f
  <2>3. f \in Seq(ToSet(f)) /\ \A c \in ToSet(f) : \E p \in 1..m : c = f[p]
    BY <1>1, <2>1, SequenceOfItsOwn, SMTT(30)
  <2> QED BY <2>2, <2>3 DEF f
<1>5. its = [i \in 1..n |-> its[i]]
      /\ \A i \in 1..n : its[i].number = done[i].number /\ its[i].series = SeriesOf(done[i])
                         /\ its[i].consumers = Ordered(i)
  BY <1>1 DEF ResultSeries
<1> HIDE DEF its, Ordered, Consumer
<1>6. ASSUME NEW i \in 1..n PROVE IsIterationDocument(its[i])
  <2>1. done[i].number \in Int
    BY <1>1 DEF IterationResults
  <2> QED BY <1>1, <1>2, <1>4, <1>5, <2>1, SeriesOfType DEF IsIterationDocument
<1>7. /\ its \in Seq(ToSet(its)) /\ Len(its) = n
      /\ \A x \in ToSet(its) : \E i \in 1..n : x = its[i]
  BY <1>1, <1>5, SequenceOfItsOwn
<1>8. IsDocument(its)
  BY <1>6, <1>7 DEF IsDocument
<1>9. done # <<>> => its # <<>>
  BY <1>1, <1>7
<1> QED BY <1>8, <1>9 DEF its


-----------------------------------------------------------------------------
(***************************************************************************)
(* A stored document, streamed.                                            *)
(***************************************************************************)

\* The answer, but for its suffix, to a request for its.
AnswerOf(its) == ResponsePrefix \o WriteJson([i \in DOMAIN its |-> FiniteIteration(its[i])])

LEMMA ResponseTexts ==
  /\ ResponsePrefix \in Seq(Symbols) /\ ResponseSuffix \in Seq(Symbols)
  /\ Len(ResponsePrefix) = 5 /\ ResponseSuffix # <<>>
<1>1. /\ Mark("{") \in Symbols /\ Mark("}") \in Symbols /\ Quote \in Symbols /\ Colon \in Symbols
      /\ Comma \in Symbols /\ Number(0) \in Symbols
  <2>1. Number(0) \in Symbols
    <3>1. 0 \in Int
      OBVIOUS
    <3> QED BY <3>1, SymbolsAre
  <2> QED BY <2>1, SymbolsAre, Zenon
<1>2. Name("data") \in Symbols /\ Name("error_code") \in Symbols
  <2>1. "data" \in MemberNames /\ "error_code" \in MemberNames
    BY Zenon DEF MemberNames
  <2> QED BY <2>1, SymbolsAre
<1>3. ASSUME NEW a \in Symbols, NEW b \in Symbols, NEW c \in Symbols, NEW d \in Symbols
      PROVE  <<a, b, c, b, d>> \in Seq(Symbols) /\ Len(<<a, b, c, b, d>>) = 5
  OBVIOUS
<1>4. ASSUME NEW a \in Symbols, NEW b \in Symbols, NEW c \in Symbols, NEW d \in Symbols,
             NEW e \in Symbols, NEW f \in Symbols
      PROVE  <<a, b, c, b, d, e, f>> \in Seq(Symbols) /\ <<a, b, c, b, d, e, f>> # <<>>
  OBVIOUS
<1>5. ResponsePrefix \in Seq(Symbols) /\ Len(ResponsePrefix) = 5
  BY <1>1, <1>2, <1>3, Zenon DEF ResponsePrefix
<1>6. ResponseSuffix \in Seq(Symbols) /\ ResponseSuffix # <<>>
  BY <1>1, <1>2, <1>4, Zenon DEF ResponseSuffix
<1> QED BY <1>5, <1>6

LEMMA AnswerOfType ==
  ASSUME NEW its, IsDocument(its)
  PROVE  AnswerOf(its) \in Seq(Symbols) /\ WriteJson(its) \in Seq(Symbols)
<1> DEFINE w == WriteJson(its)
           e == WriteJson([i \in DOMAIN its |-> FiniteIteration(its[i])])
<1>1. w \in Seq(Symbols) /\ e \in Seq(Symbols)
  <2>1. Reads(Outside, w, e)
    BY ReadsDocument
  <2> HIDE DEF w, e
  <2> QED BY <2>1 DEF Reads
<1> HIDE DEF e
<1>2. ResponsePrefix \o e \in Seq(Symbols)
  BY <1>1, ResponseTexts, ConcatType, Zenon
<1> QED BY <1>1, <1>2 DEF AnswerOf, e

\* What is left of a document is read to the end of the answer.
Streaming(k, resp, left, answer) ==
  /\ k \in Keepings /\ resp \in Responses /\ left \in Seq(Symbols)
  /\ \E r \in ReadingStates :
       Matches(k, resp, r) /\ ReadOn(r, left) \in Outside /\ Text(ReadOn(r, left)) = answer

LEMMA StartIsResponse ==
  /\ NotInString \in Keepings /\ ResponseStart \in Responses
  /\ ResponseStart.held = <<>> /\ ResponseStart.sent = <<>> /\ Sent(ResponseStart) = ResponsePrefix
<1> DEFINE prefix == ResponsePrefix
<1>1. prefix \in Seq(Symbols) /\ <<>> \in Seq(Symbols) /\ OnlyLetters(<<>>)
  BY ResponseTexts, EmptySeq DEF OnlyLetters
<1>2. ResponseStart = [out |-> prefix, held |-> <<>>, sent |-> <<>>]
  BY DEF ResponseStart
<1>3. NotInString \in Keepings
  BY <1>1 DEF NotInString, Keepings
<1> HIDE DEF prefix
<1>4. <<>> \o prefix = prefix
  BY <1>1, ConcatEmptySeq
<1>5. /\ ResponseStart \in [out : Seq(Symbols), held : Seq(Symbols), sent : Seq(Symbols)]
      /\ ResponseStart.out = prefix /\ ResponseStart.held = <<>> /\ ResponseStart.sent = <<>>
  BY <1>1, <1>2
<1> QED BY <1>1, <1>3, <1>4, <1>5 DEF Responses, Sent, prefix

LEMMA StreamStarts ==
  ASSUME NEW its, IsDocument(its)
  PROVE  Streaming(NotInString, ResponseStart, WriteJson(its), AnswerOf(its))
<1> DEFINE w == WriteJson(its)
           e == WriteJson([i \in DOMAIN its |-> FiniteIteration(its[i])])
           r == [string |-> <<>>, escaped |-> FALSE, held |-> <<>>, given |-> ResponsePrefix, most |-> 0]
<1>1. Reads(Outside, w, e)
  BY ReadsDocument
<1>2. AnswerOf(its) = ResponsePrefix \o e
  BY DEF AnswerOf
<1> HIDE DEF w, e
<1>3. /\ r \in ReadingStates /\ r.string = <<>> /\ r.escaped = FALSE /\ r.held = <<>>
      /\ r.given = ResponsePrefix /\ r.most = 0
  <2>1. <<>> \in Seq(Symbols) /\ ResponsePrefix \in Seq(Symbols) /\ OnlyLetters(<<>>) /\ Len(<<>>) = 0
    BY EmptySeq, ResponseTexts DEF OnlyLetters
  <2> QED BY <2>1 DEF ReadingStates
<1> HIDE DEF r
<1>4. r \in Outside /\ Text(r) = ResponsePrefix
  BY <1>3, TextType DEF Outside
<1>5. w \in Seq(Symbols) /\ ReadOn(r, w) \in Outside /\ Text(ReadOn(r, w)) = ResponsePrefix \o e
  BY <1>1, <1>4 DEF Reads
<1>6. Matches(NotInString, ResponseStart, r)
  <2>1. NotInString.string = <<>> /\ NotInString.escaped = FALSE
    BY DEF NotInString
  <2> QED BY <1>3, <2>1, StartIsResponse DEF Matches
<1> QED BY <1>2, <1>3, <1>5, <1>6, StartIsResponse DEF Streaming, w

LEMMA CutInTwo ==
  ASSUME NEW S, NEW w \in Seq(S), NEW n \in Nat, n <= Len(w)
  PROVE  /\ SubSeq(w, 1, n) \in Seq(S) /\ SubSeq(w, n + 1, Len(w)) \in Seq(S)
         /\ w = SubSeq(w, 1, n) \o SubSeq(w, n + 1, Len(w))
<1> DEFINE m == Len(w)
<1>1. m \in Nat /\ n <= m /\ n + 1 \in Int /\ \A i \in 1..m : w[i] \in S
  OBVIOUS
<1> HIDE DEF m
<1>2. 1 \in 1..(m + 1) /\ n \in (1 - 1)..m /\ m \in n..m
  BY <1>1
<1>3. SubSeq(w, 1, n) \o SubSeq(w, n + 1, m) = SubSeq(w, 1, m)
  BY <1>2, ConcatAdjacentSubSeq DEF m
<1>4. SubSeq(w, 1, m) = w
  BY SubSeqFull DEF m
<1>5. SubSeq(w, 1, n) \in Seq(S) /\ SubSeq(w, n + 1, m) \in Seq(S)
  BY <1>1, SubSeqProperties
<1> QED BY <1>3, <1>4, <1>5 DEF m

LEMMA StreamGoesOn ==
  ASSUME NEW k, NEW resp, NEW left, NEW answer, Streaming(k, resp, left, answer),
         NEW n \in Nat, n <= Len(left)
  PROVE  LET split == SplitChunk(k, SubSeq(left, 1, n))
         IN  Streaming(split.kept, FoldLeft(PassThrough, resp, split.pieces),
                       SubSeq(left, n + 1, Len(left)), answer)
<1> DEFINE chunk == SubSeq(left, 1, n)
           later == SubSeq(left, n + 1, Len(left))
           split == SplitChunk(k, chunk)
           resp2 == FoldLeft(PassThrough, resp, split.pieces)
<1>1. k \in Keepings /\ resp \in Responses /\ left \in Seq(Symbols)
  BY DEF Streaming
<1>2. PICK r \in ReadingStates :
        Matches(k, resp, r) /\ ReadOn(r, left) \in Outside /\ Text(ReadOn(r, left)) = answer
  BY DEF Streaming
<1>3. chunk \in Seq(Symbols) /\ later \in Seq(Symbols) /\ left = chunk \o later
  BY <1>1, CutInTwo
<1> HIDE DEF chunk, later
<1> DEFINE q == ReadOn(r, chunk)
<1>4. q \in ReadingStates /\ ReadOn(r, left) = ReadOn(q, later)
  BY <1>2, <1>3, ReadOnType, ReadOnConcat
<1>5. split.kept \in Keepings /\ resp2 \in Responses /\ Matches(split.kept, resp2, q)
  BY <1>1, <1>2, <1>3, ChunkReads
<1> HIDE DEF q, split, resp2
<1>6. Streaming(split.kept, resp2, later, answer)
  BY <1>2, <1>3, <1>4, <1>5 DEF Streaming
<1> QED BY <1>6 DEF split, resp2, chunk, later

\* What was sent is the start of the answer, which is more than it.
Begun(sent, answer) == sent \in Seq(Symbols) /\ \E more \in Seq(Symbols) : answer = sent \o more

LEMMA StreamIsBegun ==
  ASSUME NEW k, NEW resp, NEW left, NEW answer, Streaming(k, resp, left, answer)
  PROVE  Begun(resp.sent, answer) /\ Len(resp.held) \in Nat /\ Len(resp.held) <= 3
<1> DEFINE sent == resp.sent
           out == resp.out
<1>1. resp \in Responses /\ left \in Seq(Symbols)
  BY DEF Streaming
<1>2. PICK r \in ReadingStates :
        Matches(k, resp, r) /\ ReadOn(r, left) \in Outside /\ Text(ReadOn(r, left)) = answer
  BY DEF Streaming
<1> DEFINE last == ReadOn(r, left)
           nulls == Nulls(last.held)
<1>3. sent \in Seq(Symbols) /\ out \in Seq(Symbols)
  BY <1>1, ResponseParts
<1>4. /\ last \in ReadingStates /\ last.most \in Nat /\ r.most \in Nat /\ r.most <= last.most
      /\ \E more \in Seq(Symbols) : last.given = r.given \o more
  BY <1>1, ReadOnType
<1>5. PICK more \in Seq(Symbols) : last.given = r.given \o more
  BY <1>4
<1>6. r.given = sent \o out /\ r.held = resp.held
  BY <1>2 DEF Matches, Sent
<1>7. nulls \in Seq(Symbols) /\ answer = last.given \o nulls
  BY <1>2, <1>4, TextType DEF Text
<1>8. last.most <= 3 /\ Len(r.held) \in Nat /\ Len(r.held) <= r.most
  <2>1. last.most <= 3
    BY <1>2 DEF Outside
  <2>2. Len(r.held) \in Nat /\ Len(r.held) <= r.most
    BY DEF ReadingStates
  <2> QED BY <2>1, <2>2
<1> HIDE DEF sent, out, last, nulls
<1>9. Begun(sent, answer)
  <2> DEFINE so == sent \o out
             on == out \o more
             end == on \o nulls
  <2>1. so \o more = sent \o on /\ on \in Seq(Symbols)
    BY <1>3, <1>5, Grouped
  <2>2. answer = so \o more \o nulls
    BY <1>5, <1>6, <1>7
  <2> HIDE DEF so, on
  <2>3. answer = sent \o on \o nulls
    BY <2>1, <2>2
  <2>4. sent \in Seq(Symbols) /\ on \in Seq(Symbols) /\ nulls \in Seq(Symbols)
    BY <1>3, <1>7, <2>1
  <2>5. sent \o on \o nulls = sent \o (on \o nulls) /\ on \o nulls \in Seq(Symbols)
    BY <2>4, Grouped
  <2> QED BY <1>3, <2>3, <2>5 DEF Begun
<1>10. Len(resp.held) \in Nat /\ Len(resp.held) <= 3
  <2> DEFINE held == Len(r.held)
             most == r.most
             all == last.most
  <2>1. held \in Nat /\ most \in Nat /\ all \in Nat /\ held <= most /\ most <= all /\ all <= 3
    BY <1>4, <1>8
  <2>2. held = Len(resp.held)
    BY <1>6
  <2> HIDE DEF held, most, all
  <2>3. held \in Nat /\ held <= 3
    BY <2>1
  <2> QED BY <2>2, <2>3
<1> QED BY <1>9, <1>10 DEF sent

LEMMA StreamEnds ==
  ASSUME NEW k, NEW resp, NEW answer, Streaming(k, resp, <<>>, answer)
  PROVE  /\ ResponseEnd(resp) \in Responses /\ ResponseEnd(resp).held = <<>>
         /\ ResponseEnd(resp).sent = answer \o ResponseSuffix
<1> DEFINE sent == resp.sent
           out == resp.out
           nulls == Nulls(resp.held)
           all == sent \o out \o nulls \o ResponseSuffix
           e == ResponseEnd(resp)
<1>1. resp \in Responses
  BY DEF Streaming
<1>2. PICK r \in ReadingStates : Matches(k, resp, r) /\ Text(r) = answer
  BY ReadOnNone DEF Streaming
<1>3. sent \in Seq(Symbols) /\ out \in Seq(Symbols) /\ nulls \in Seq(Symbols)
  BY <1>1, ResponseParts, NullsType
<1>4. answer = sent \o out \o nulls
  BY <1>2 DEF Matches, Sent, Text
<1>5. all \in Seq(Symbols)
  <2> HIDE DEF sent, out, nulls
  <2> DEFINE a == sent \o out
             b == a \o nulls
  <2>1. a \in Seq(Symbols)
    BY <1>3, ConcatType, Zenon
  <2> HIDE DEF a
  <2>2. b \in Seq(Symbols)
    BY <1>3, <2>1, ConcatType, Zenon
  <2> HIDE DEF b
  <2>3. b \o ResponseSuffix \in Seq(Symbols)
    BY <2>2, ResponseTexts, ConcatType, Zenon
  <2> QED BY <2>3 DEF a, b
<1>6. e = [resp EXCEPT !.sent = all, !.out = <<>>, !.held = <<>>]
  BY Zenon DEF ResponseEnd
<1> HIDE DEF all, e
<1>7. /\ e \in [out : Seq(Symbols), held : Seq(Symbols), sent : Seq(Symbols)]
      /\ e.out = <<>> /\ e.held = <<>> /\ e.sent = all
  <2>1. resp \in [out : Seq(Symbols), held : Seq(Symbols), sent : Seq(Symbols)] /\ <<>> \in Seq(Symbols)
    BY <1>1, EmptySeq DEF Responses
  <2> QED BY <1>5, <1>6, <2>1
<1>8. e \in Responses
  <2>1. OnlyLetters(<<>>) /\ Len(<<>>) = 0 /\ 0 < FlushBytes
    BY FlushAssumption DEF OnlyLetters
  <2> QED BY <1>7, <2>1 DEF Responses
<1> QED BY <1>4, <1>7, <1>8 DEF e, all

\* A part of the answer cannot pass for all of it.
LEMMA BegunIsNotAll ==
  ASSUME NEW sent, NEW answer, Begun(sent, answer)
  PROVE  IsPrefix(sent, answer \o ResponseSuffix) /\ sent # answer \o ResponseSuffix
<1>1. PICK more \in Seq(Symbols) : answer = sent \o more
  BY DEF Begun
<1> DEFINE suffix == ResponseSuffix
           later == more \o suffix
           whole == sent \o later
<1>2. sent \in Seq(Symbols) /\ suffix \in Seq(Symbols) /\ suffix # <<>>
  BY ResponseTexts DEF Begun
<1> HIDE DEF suffix
<1>3. later \in Seq(Symbols) /\ answer \o suffix = whole
  BY <1>1, <1>2, Grouped
<1>4. Len(later) \in Nat /\ Len(later) # 0
  <2>1. /\ Len(suffix) \in Nat /\ Len(suffix) # 0 /\ Len(more) \in Nat
        /\ Len(later) = Len(more) + Len(suffix)
    BY <1>2, ConcatProperties
  <2> DEFINE a == Len(suffix)
             b == Len(more)
  <2>2. a \in Nat /\ b \in Nat /\ a # 0 /\ Len(later) = b + a
    BY <2>1
  <2> HIDE DEF a, b
  <2> QED BY <2>2
<1> HIDE DEF later
<1>5. Len(whole) = Len(sent) + Len(later) /\ Len(sent) \in Nat
  BY <1>2, <1>3, ConcatProperties
<1> HIDE DEF whole
<1>6. sent # whole
  BY <1>4, <1>5
<1>7. IsPrefix(sent, whole)
  BY <1>2, <1>3, StartIsPrefix DEF whole
<1> QED BY <1>3, <1>6, <1>7 DEF suffix

LEMMA AllIsPrefix ==
  ASSUME NEW w \in Seq(Symbols)
  PROVE  IsPrefix(w, w)
<1>1. w \o <<>> = w /\ <<>> \in Seq(Symbols)
  BY ConcatEmptySeq, EmptySeq
<1>2. IsPrefix(w, w \o <<>>)
  BY <1>1, StartIsPrefix
<1> QED BY <1>1, <1>2


-----------------------------------------------------------------------------
(***************************************************************************)
(* A request for the whole document, with the worker that stores it and    *)
(* the user who deletes it.                                                *)
(***************************************************************************)

\* Whatever file or object there is holds the iterations written, and they
\* stay the same from then on: once the row has succeeded, a request may read.
StoredIsWritten ==
  /\ IsDocument(written)
  /\ file # <<>> => file = WriteJson(written) /\ written # <<>>
  /\ object # <<>> => object = WriteJson(written)
  /\ object # <<>> \/ status # "PENDING" => solve = "idle" \/ written # <<>>
  /\ phase \in {"open", "reading", "sending", "aborted"} \/ code = 200 => status # "PENDING"

LEMMA NothingIsDocument == IsDocument(<<>>)
<1>1. ToSet(<<>>) = {} /\ <<>> \in Seq({})
  BY EmptySeq DEF ToSet
<1> QED BY <1>1 DEF IsDocument

LEMMA InitStored ==
  ASSUME Init
  PROVE  StoredIsWritten
<1>1. file = <<>> /\ phase = "none" /\ code = 0
  BY DEF Init, ReaderStart
<1>2. CASE SolveInit /\ written = <<>> /\ status = "PENDING" /\ object = <<>>
  BY <1>1, <1>2, NothingIsDocument DEF StoredIsWritten
<1>3. CASE solve = "idle" /\ written \in OldDocuments /\ object = WriteJson(written)
  <2>1. IsDocument(written)
    BY <1>3, RunResultAssumption
  <2> QED BY <1>1, <1>3, <2>1 DEF StoredIsWritten
<1> QED BY <1>2, <1>3 DEF Init

\* What was written stays, except before anything is stored.
LEMMA StepWritten ==
  ASSUME TypeOK, CascadeBalances, StoredIsWritten, Next
  PROVE  /\ WriteSeries \/ UNCHANGED written
         /\ WriteSeries => /\ object = <<>> /\ status = "PENDING"
                           /\ IsDocument(written') /\ written' # <<>> /\ file' = WriteJson(written')
<1>1. WriteSeries \/ UNCHANGED written
  BY Zenon DEF Next, Solving, WriteSeries, UploadSeries, CommitResult, DeleteRow, DeleteObject,
     AskSeries, OpenObject, ReadChunk, TransportError, EndOfObject, storedVars
<1>2. ASSUME WriteSeries
      PROVE  /\ object = <<>> /\ status = "PENDING"
             /\ IsDocument(written') /\ written' # <<>> /\ file' = WriteJson(written')
  <2>1. /\ solve = "solved" /\ written = <<>> /\ written' = ResultSeries /\ file' = WriteJson(written')
    BY <1>2 DEF WriteSeries
  <2>2. done # <<>> /\ SolveTypeOK
    BY <2>1 DEF CascadeBalances, HeadlineIsRolledUp
  <2>3. IsDocument(ResultSeries) /\ ResultSeries # <<>>
    BY <2>2, ResultIsDocument
  <2>4. object = <<>> /\ status = "PENDING"
    BY <2>1 DEF StoredIsWritten
  <2> QED BY <2>1, <2>3, <2>4
<1> QED BY <1>1, <1>2

LEMMA StepStored ==
  ASSUME TypeOK, CascadeBalances, StoredIsWritten, [Next]_vars
  PROVE  StoredIsWritten'
<1> USE DEF StoredIsWritten
<1>1. CASE Solving
  <2>1. UNCHANGED <<storedVars, readerVars>> /\ solve = "solving"
    BY <1>1 DEF Solving, SolveNext, RefuseInput, Iterate, RollUp
  <2> QED BY <2>1 DEF storedVars, readerVars
<1>2. CASE WriteSeries
  <2>1. /\ object = <<>> /\ status = "PENDING"
        /\ IsDocument(written') /\ written' # <<>> /\ file' = WriteJson(written')
    BY <1>2, StepWritten DEF Next
  <2>2. UNCHANGED <<status, object, phase, code>>
    BY <1>2 DEF WriteSeries, readerVars
  <2> QED BY <2>1, <2>2
<1>3. CASE UploadSeries
  BY <1>3 DEF UploadSeries, readerVars, solveVars
<1>4. CASE CommitResult
  BY <1>4 DEF CommitResult, readerVars, solveVars
<1>5. CASE DeleteRow \/ DeleteObject
  BY <1>5 DEF DeleteRow, DeleteObject, readerVars, solveVars
<1>6. CASE AskSeries
  BY <1>6 DEF AskSeries, Answer, storedVars, solveVars, TypeOK
<1>7. CASE OpenObject
  BY <1>7 DEF OpenObject, Answer, storedVars, solveVars, TypeOK
<1>8. CASE ReadChunk
  <2>1. UNCHANGED <<code, storedVars, solveVars>> /\ phase \in {"reading", "sending"}
        /\ phase' \in {phase, "sending"}
    BY <1>8, Zenon DEF ReadChunk
  <2> QED BY <2>1 DEF storedVars, solveVars
<1>9. CASE TransportError \/ EndOfObject
  <2>1. UNCHANGED <<storedVars, solveVars>> /\ phase \in {"open", "reading", "sending"}
    BY <1>9, Zenon DEF TransportError, EndOfObject
  <2> QED BY <2>1 DEF storedVars, solveVars
<1>10. CASE UNCHANGED vars
  BY <1>10 DEF vars, storedVars, readerVars, solveVars
<1> QED BY <1>1, <1>2, <1>3, <1>4, <1>5, <1>6, <1>7, <1>8, <1>9, <1>10 DEF Next


\* The request: until it has read of a whole document, its answer is what it
\* began with; from then on the rest of the document is read to the end of the
\* one answer.
RequestStreams ==
  /\ response \in Responses /\ Len(response.held) \in Nat /\ Len(response.held) <= 3
  /\ phase \in {"none", "open"} => kept = NotInString
  /\ points # 0 \/ phase \in {"none", "open", "reading"} \/ code \in {404, 422, 500} =>
       response = ResponseStart
  /\ points = 0 /\ phase \in {"reading", "sending"} =>
       Streaming(kept, response, rest, AnswerOf(written))
  /\ points = 0 /\ phase = "aborted" => Begun(response.sent, AnswerOf(written))
  /\ points = 0 /\ code = 200 => response.sent = AnswerOf(written) \o ResponseSuffix

LEMMA InitStreams ==
  ASSUME Init
  PROVE  RequestStreams
<1>1. phase = "none" /\ code = 0 /\ points = 0 /\ kept = NotInString /\ response = ResponseStart
  BY DEF Init, ReaderStart
<1>2. Len(ResponseStart.held) = 0
  BY StartIsResponse, EmptySeq
<1> QED BY <1>1, <1>2, StartIsResponse DEF RequestStreams

LEMMA ReadChunkStreams ==
  ASSUME TypeOK, StoredIsWritten, RequestStreams, ReadChunk
  PROVE  RequestStreams'
<1>1. PICK n \in ChunkSizes :
        LET size == Least(n, Len(rest))
            split == SplitChunk(kept, SubSeq(rest, 1, size))
        IN  /\ rest' = SubSeq(rest, size + 1, Len(rest)) /\ kept' = split.kept
            /\ IF points = 0
               THEN response' = FoldLeft(PassThrough, response, split.pieces) /\ phase' = "sending"
               ELSE UNCHANGED <<phase, response>>
  BY Zenon DEF ReadChunk
<1>2. /\ phase \in {"reading", "sending"} /\ rest # <<>>
      /\ code' = code /\ points' = points /\ written' = written
  BY DEF ReadChunk, storedVars
<1>3. code = 0
  BY <1>2 DEF TypeOK
<1>4. CASE points # 0
  <2>1. phase' = phase /\ response' = response
    BY <1>1, <1>4
  <2> QED BY <1>2, <1>3, <1>4, <2>1 DEF RequestStreams
<1>5. CASE points = 0
  <2> DEFINE size == Least(n, Len(rest))
             split == SplitChunk(kept, SubSeq(rest, 1, size))
             answer == AnswerOf(written)
  <2>1. /\ rest' = SubSeq(rest, size + 1, Len(rest)) /\ kept' = split.kept
        /\ response' = FoldLeft(PassThrough, response, split.pieces) /\ phase' = "sending"
    BY <1>1, <1>5
  <2>2. Streaming(kept, response, rest, answer)
    BY <1>2, <1>5 DEF RequestStreams
  <2>3. size \in Nat /\ size <= Len(rest)
    <3>1. n \in Nat /\ Len(rest) \in Nat
      <4>1. rest \in Seq(Symbols)
        BY <2>2 DEF Streaming
      <4> QED BY <4>1, RunResultAssumption
    <3> QED BY <3>1 DEF Least
  <2> HIDE DEF answer, size
  <2>4. Streaming(kept', response', rest', answer)
    BY <2>1, <2>2, <2>3, StreamGoesOn
  <2>5. response' \in Responses /\ Len(response'.held) \in Nat /\ Len(response'.held) <= 3
    BY <2>4, StreamIsBegun DEF Streaming
  <2>6. answer = AnswerOf(written')
    BY <1>2 DEF answer
  <2> QED BY <1>2, <1>3, <1>5, <2>1, <2>4, <2>5, <2>6 DEF RequestStreams
<1> QED BY <1>4, <1>5

LEMMA EndStreams ==
  ASSUME TypeOK, RequestStreams, EndOfObject
  PROVE  RequestStreams'
<1>1. /\ phase \in {"reading", "sending"} /\ rest = <<>> /\ phase' = "answered" /\ code' = 200
      /\ points' = points /\ written' = written
      /\ IF points = 0 THEN response' = ResponseEnd(response) ELSE response' = response
  BY DEF EndOfObject, Answer, storedVars
<1>2. CASE points # 0
  BY <1>1, <1>2 DEF RequestStreams
<1>3. CASE points = 0
  <2>1. Streaming(kept, response, <<>>, AnswerOf(written))
    BY <1>1, <1>3 DEF RequestStreams
  <2>2. /\ response' \in Responses /\ response'.held = <<>>
        /\ response'.sent = AnswerOf(written) \o ResponseSuffix
    BY <1>1, <1>3, <2>1, StreamEnds
  <2>3. Len(response'.held) = 0
    BY <2>2, EmptySeq
  <2> QED BY <1>1, <1>3, <2>2, <2>3 DEF RequestStreams
<1> QED BY <1>2, <1>3

LEMMA StepStreams ==
  ASSUME TypeOK, CascadeBalances, StoredIsWritten, RequestStreams, [Next]_vars
  PROVE  RequestStreams'
<1>1. CASE UNCHANGED <<written, readerVars>>
  BY <1>1 DEF readerVars, RequestStreams
<1>2. CASE WriteSeries
  <2>1. status = "PENDING" /\ UNCHANGED readerVars
    BY <1>2, StepWritten, Zenon DEF Next, WriteSeries
  <2>2. phase \notin {"open", "reading", "sending", "aborted"} /\ code # 200
    BY <2>1 DEF StoredIsWritten
  <2> QED BY <2>1, <2>2 DEF readerVars, RequestStreams
<1>3. CASE AskSeries
  BY <1>3 DEF AskSeries, Answer, storedVars, RequestStreams, TypeOK
<1>4. CASE OpenObject
  <2>1. /\ phase = "open" /\ UNCHANGED <<points, kept, response, written>>
        /\ \/ phase' = "answered" /\ code' \in {404, 422}
           \/ phase' = "reading" /\ rest' = object /\ object # <<>> /\ code' = code
    BY <1>4 DEF OpenObject, Answer, storedVars
  <2>2. kept = NotInString /\ response = ResponseStart /\ code = 0
    BY <2>1 DEF RequestStreams, TypeOK
  <2>3. CASE phase' = "answered" /\ code' \in {404, 422}
    BY <2>1, <2>2, <2>3 DEF RequestStreams
  <2>4. CASE phase' = "reading" /\ rest' = object /\ object # <<>> /\ code' = code
    <3>1. object = WriteJson(written) /\ IsDocument(written)
      BY <2>4 DEF StoredIsWritten
    <3>2. Streaming(kept', response', rest', AnswerOf(written'))
      BY <2>1, <2>2, <2>4, <3>1, StreamStarts
    <3> QED BY <2>1, <2>2, <2>4, <3>2 DEF RequestStreams
  <2> QED BY <2>1, <2>3, <2>4
<1>5. CASE ReadChunk
  BY <1>5, ReadChunkStreams
<1>6. CASE TransportError
  <2>1. /\ UNCHANGED <<points, rest, kept, response, written>>
        /\ \/ phase = "sending" /\ phase' = "aborted" /\ code' = code
           \/ phase \in {"open", "reading"} /\ phase' = "answered" /\ code' = 500
    BY <1>6 DEF TransportError, Answer, storedVars
  <2>2. CASE phase = "sending" /\ phase' = "aborted" /\ code' = code
    <3>1. code = 0
      BY <2>2 DEF TypeOK
    <3>2. points = 0 => Begun(response.sent, AnswerOf(written))
      BY <2>2, StreamIsBegun DEF RequestStreams
    <3> QED BY <2>1, <2>2, <3>1, <3>2 DEF RequestStreams
  <2>3. CASE phase \in {"open", "reading"} /\ phase' = "answered" /\ code' = 500
    BY <2>1, <2>3 DEF RequestStreams
  <2> QED BY <2>1, <2>2, <2>3
<1>7. CASE EndOfObject
  BY <1>7, EndStreams
<1>8. CASE Solving \/ UploadSeries \/ CommitResult \/ DeleteRow \/ DeleteObject \/ UNCHANGED vars
  <2>1. UNCHANGED <<written, readerVars>>
    BY <1>8, Zenon DEF Solving, UploadSeries, CommitResult, DeleteRow, DeleteObject, vars, storedVars
  <2> QED BY <1>1, <2>1
<1> QED BY <1>2, <1>3, <1>4, <1>5, <1>6, <1>7, <1>8 DEF Next

-----------------------------------------------------------------------------
(***************************************************************************)
(* The theorems.                                                           *)
(***************************************************************************)

LEMMA AnswerableIs == AnswerOf(written) = ResponsePrefix \o WriteJson(Answerable)
<1>1. Answerable = [i \in DOMAIN written |-> FiniteIteration(written[i])]
  BY Zenon DEF Answerable, FiniteIteration, FiniteConsumer
<1> QED BY <1>1, Zenon DEF AnswerOf

LEMMA StreamsWhole ==
  ASSUME TypeOK, StoredIsWritten, RequestStreams
  PROVE  StreamIsTheDocument
<1> DEFINE answer == AnswerOf(written)
           whole == answer \o ResponseSuffix
<1>1. answer \in Seq(Symbols)
  BY AnswerOfType DEF StoredIsWritten
<1>2. whole = ResponsePrefix \o WriteJson(Answerable) \o ResponseSuffix
  BY AnswerableIs
<1> SUFFICES ASSUME points = 0, phase \in {"sending", "answered", "aborted"}
             PROVE  IsPrefix(response.sent, whole) /\ (response.sent = whole) = (code = 200)
  BY <1>2 DEF StreamIsTheDocument
<1> HIDE DEF answer
<1>3. whole \in Seq(Symbols)
  BY <1>1, ResponseTexts, ConcatType, Zenon
<1>4. CASE code = 200
  <2>1. response.sent = whole
    BY <1>4 DEF RequestStreams, answer
  <2> QED BY <1>3, <1>4, <2>1, AllIsPrefix
<1>5. CASE code # 200
  <2>1. Begun(response.sent, answer)
    <3>1. CASE phase = "sending"
      BY <3>1, StreamIsBegun DEF RequestStreams, answer
    <3>2. CASE phase = "aborted"
      BY <3>2 DEF RequestStreams, answer
    <3>3. CASE phase = "answered"
      <4>1. code \in {404, 422, 500}
        BY <1>5, <3>3 DEF TypeOK
      <4>2. response.sent = <<>>
        BY <4>1, StartIsResponse DEF RequestStreams
      <4>3. <<>> \o answer = answer /\ <<>> \in Seq(Symbols)
        BY <1>1, ConcatEmptySeq, EmptySeq
      <4> QED BY <1>1, <4>2, <4>3 DEF Begun
    <3> QED BY <3>1, <3>2, <3>3
  <2> QED BY <1>5, <2>1, BegunIsNotAll
<1> QED BY <1>4, <1>5

LEMMA StreamHoldsLittle ==
  ASSUME RequestStreams
  PROVE  ReadersHoldLittle
<1> DEFINE n == Len(response.out)
           prefix == Len(ResponsePrefix)
<1>1. n \in Nat /\ (n < FlushBytes \/ n = prefix) /\ prefix = 5 /\ FlushBytes \in Nat /\ FlushBytes # 0
  BY ResponseTexts, FlushAssumption DEF RequestStreams, Responses
<1> HIDE DEF n, prefix
<1>2. n < FlushBytes + prefix
  BY <1>1
<1>3. Len(NegativeInfinity) = 3
  BY TokensAre
<1> QED BY <1>2, <1>3 DEF ReadersHoldLittle, RequestStreams, n, prefix

LEMMA StreamingHolds ==
  Spec => [](TypeOK /\ CascadeBalances /\ StoredIsWritten /\ RequestStreams)
<1> DEFINE Holds == TypeOK /\ RowHasItsObject /\ CascadeBalances /\ StoredIsWritten /\ RequestStreams
<1>1. Init => Holds
  BY InitReads, InitBalances, InitStored, InitStreams
<1>2. Holds /\ [Next]_vars => Holds'
  <2> SUFFICES ASSUME Holds, [Next]_vars PROVE Holds'
    OBVIOUS
  <2>1. TypeOK' /\ RowHasItsObject'
    BY StepReads
  <2>2. CascadeBalances'
    BY StepBalances
  <2>3. StoredIsWritten'
    BY StepStored
  <2>4. RequestStreams'
    BY StepStreams
  <2> QED BY <2>1, <2>2, <2>3, <2>4
<1>3. Holds => TypeOK /\ CascadeBalances /\ StoredIsWritten /\ RequestStreams
  OBVIOUS
<1> QED BY <1>1, <1>2, <1>3, PTL DEF Spec

\* However storage cuts a document into chunks, and wherever a request breaks
\* off, what as_api_response sends is the start of the one answer JSON allows,
\* and all of it exactly when the request ended well.
THEOREM StreamsTheDocument == Spec => []StreamIsTheDocument
<1>1. TypeOK /\ CascadeBalances /\ StoredIsWritten /\ RequestStreams => StreamIsTheDocument
  BY StreamsWhole
<1> QED BY <1>1, StreamingHolds, PTL

\* Of a document of any size, as_api_response holds no more than the flush size
\* and the letters of one token.
THEOREM StreamsHoldLittle == Spec => []ReadersHoldLittle
<1>1. TypeOK /\ CascadeBalances /\ StoredIsWritten /\ RequestStreams => ReadersHoldLittle
  BY StreamHoldsLittle
<1> QED BY <1>1, StreamingHolds, PTL
=============================================================================
