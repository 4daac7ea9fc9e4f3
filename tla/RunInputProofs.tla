--------------------------- MODULE RunInputProofs ---------------------------
(***************************************************************************)
(* Proofs about a run's input: that what is solved was checked and is      *)
(* everything that was read, and that the request's verdict is the         *)
(* worker's, for every key, table of readings and upload.                  *)
(***************************************************************************)
EXTENDS RunInput, SumLemmas

-----------------------------------------------------------------------------
(***************************************************************************)
(* The key.  The iterations of a tree can be put in order, and so          *)
(* from_crm_allocation_key returns a sequence of them.                     *)
(***************************************************************************)
InOrder(k) == \A i, j \in DOMAIN k : i < j => k[i] # k[j] /\ k[i].number <= k[j].number

LEMMA CanBeOrdered ==
  ASSUME NEW S, IsFiniteSet(S), S \subseteq Iterations
  PROVE  \E k \in [1..Cardinality(S) -> S] : InOrder(k)
<1> DEFINE B == {T \in SUBSET S : ~ \E k \in [1..Cardinality(T) -> T] : InOrder(k)}
<1> SUFFICES ASSUME B # {} PROVE FALSE
  OBVIOUS
<1>1. PICK T \in B : \A U \in B : U \subseteq T => U = T
  <2>1. B \subseteq SUBSET S
    OBVIOUS
  <2> HIDE DEF B
  <2> QED BY <2>1, SmallestSet
<1>2. IsFiniteSet(T) /\ T \subseteq Iterations
  BY FS_Subset
<1>3. T # {}
  <2>1. ASSUME T = {} PROVE [i \in 1..0 |-> 0] \in [1..Cardinality(T) -> T] /\ InOrder([i \in 1..0 |-> 0])
    BY <2>1, FS_EmptySet DEF InOrder
  <2> QED BY <2>1
<1>4. PICK x \in T : \A y \in T : x.number <= y.number
  <2> DEFINE Numbers == {y.number : y \in T}
  <2>1. Numbers \subseteq Nat /\ Numbers # {}
    BY <1>2, <1>3 DEF Iterations
  <2>2. PICK n \in Numbers : \A m \in Numbers : n <= m
    <3> HIDE DEF Numbers
    <3> QED BY <2>1, LeastNumber
  <2> QED BY <2>2
<1> DEFINE R == T \ {x}
           n == Cardinality(R)
<1>5. n \in Nat /\ Cardinality(T) = n + 1
  <2>1. IsFiniteSet(R) /\ Cardinality(R) = Cardinality(T) - 1
    BY <1>2, FS_RemoveElement
  <2>2. Cardinality(T) \in Nat /\ Cardinality(R) \in Nat
    BY <1>2, <2>1, FS_CardinalityType
  <2> QED BY <2>1, <2>2
<1>6. PICK k \in [1..n -> R] : InOrder(k)
  <2>1. R \notin B
    BY <1>1
  <2> QED BY <2>1
<1> DEFINE longer == [i \in 1..n + 1 |-> IF i = 1 THEN x ELSE k[i - 1]]
<1> HIDE DEF n
<1>7. longer \in [1..n + 1 -> T]
  <2>1. ASSUME NEW i \in 1..n + 1, i # 1 PROVE i - 1 \in 1..n
    BY <1>5, <2>1
  <2> QED BY <2>1
<1>8. InOrder(longer)
  <2> SUFFICES ASSUME NEW i \in 1..n + 1, NEW j \in 1..n + 1, i < j
               PROVE  longer[i] # longer[j] /\ longer[i].number <= longer[j].number
    BY DEF InOrder
  <2>1. j - 1 \in 1..n /\ j # 1
    BY <1>5
  <2>2. longer[j] = k[j - 1] /\ k[j - 1] \in R
    BY <2>1
  <2>3. CASE i = 1
    BY <2>2, <2>3, <1>4
  <2>4. CASE i # 1
    <3>1. i - 1 \in 1..n /\ longer[i] = k[i - 1] /\ i - 1 < j - 1
      BY <1>5, <2>4
    <3>2. DOMAIN k = 1..n
      OBVIOUS
    <3> QED BY <3>1, <3>2, <2>1, <2>2, <1>6 DEF InOrder
  <2> QED BY <2>3, <2>4
<1>9. longer \in [1..Cardinality(T) -> T]
  BY <1>5, <1>7
<1> QED BY <1>8, <1>9

LEMMA KeyType ==
  ASSUME NEW key0 \in {FromCrmKey(k) : k \in Keys} \union {NoKey}
  PROVE  key0 \in Seq(Iterations)
<1>1. CASE key0 = NoKey
  BY <1>1 DEF NoKey
<1>2. ASSUME NEW S \in Keys PROVE FromCrmKey(S) \in Seq(Iterations)
  <2>1. IsFiniteSet(S) /\ S \subseteq Iterations
    BY RunInputAssumption
  <2>2. \E k \in [1..Cardinality(S) -> S] : InOrder(k)
    BY <2>1, CanBeOrdered
  <2>3. FromCrmKey(S) \in [1..Cardinality(S) -> S]
    BY <2>2 DEF FromCrmKey, InOrder
  <2>4. Cardinality(S) \in Nat
    BY <2>1, FS_CardinalityType
  <2>5. FromCrmKey(S) \in [1..Cardinality(S) -> Iterations]
    BY <2>1, <2>3
  <2> QED BY <2>4, <2>5
<1> QED BY <1>1, <1>2

\* What trimming does to a name list, and to a key.
LEMMA TrimmedNames ==
  ASSUME NEW names \in Seq(Names)
  PROVE  /\ Trimmed(names) \in Seq(Names) /\ DOMAIN Trimmed(names) = DOMAIN names
         /\ Len(Trimmed(names)) = Len(names)
         /\ \A i \in DOMAIN names : Trimmed(names)[i] = Trim[names[i]] /\ Trim[names[i]] \in Names
<1>1. \A i \in DOMAIN names : names[i] \in Names /\ Trim[names[i]] \in Names
  BY ReadingsAssumption
<1>2. Trimmed(names) \in [1..Len(names) -> Names]
  BY <1>1 DEF Trimmed
<1> QED BY <1>1, <1>2 DEF Trimmed

LEMMA TrimmedKey ==
  ASSUME NEW k \in Seq(Iterations)
  PROVE  /\ WithTrimmed(k) \in Seq(Iterations) /\ Len(WithTrimmed(k)) = Len(k)
         /\ DOMAIN WithTrimmed(k) = DOMAIN k /\ (WithTrimmed(k) = <<>> <=> k = <<>>)
         /\ \A i \in DOMAIN k : WithTrimmed(k)[i].names = Trimmed(k[i].names)
         /\ ConsumerNames(WithTrimmed(k)) = Trimmed(ConsumerNames(k))
<1>1. ASSUME NEW i \in DOMAIN k
      PROVE  /\ k[i] \in Iterations /\ k[i].names \in Seq(Names)
             /\ [k[i] EXCEPT !.names = Trimmed(@)] \in Iterations
             /\ [k[i] EXCEPT !.names = Trimmed(@)].names = Trimmed(k[i].names)
  <2>1. k[i] \in Iterations
    OBVIOUS
  <2>2. k[i].names \in Seq(Names)
    BY <2>1 DEF Iterations
  <2>3. Trimmed(k[i].names) \in Seq(Names)
    BY <2>2, TrimmedNames
  <2> QED BY <2>1, <2>2, <2>3 DEF Iterations
<1>2. WithTrimmed(k) \in [1..Len(k) -> Iterations]
  BY <1>1 DEF WithTrimmed
<1>3. /\ WithTrimmed(k) \in Seq(Iterations) /\ Len(WithTrimmed(k)) = Len(k)
      /\ DOMAIN WithTrimmed(k) = DOMAIN k /\ (WithTrimmed(k) = <<>> <=> k = <<>>)
  BY <1>2
<1>4. \A i \in DOMAIN k : WithTrimmed(k)[i].names = Trimmed(k[i].names)
  BY <1>1 DEF WithTrimmed
<1>5. CASE k = <<>>
  BY <1>3, <1>5 DEF ConsumerNames, Trimmed
<1>6. CASE k # <<>>
  <2>1. 1 \in DOMAIN k
    BY <1>6
  <2> QED BY <2>1, <1>3, <1>4, <1>6 DEF ConsumerNames
<1> QED BY <1>3, <1>4, <1>5, <1>6

LEMMA NamesType ==
  ASSUME NEW k \in Seq(Iterations)
  PROVE  ConsumerNames(k) \in Seq(Names)
<1>1. CASE k = <<>>
  BY <1>1 DEF ConsumerNames
<1>2. CASE k # <<>>
  <2>1. k[1] \in Iterations
    BY <1>2
  <2> QED BY <2>1, <1>2 DEF ConsumerNames, Iterations
<1> QED BY <1>1, <1>2

-----------------------------------------------------------------------------
(***************************************************************************)
(* What is read of the table.                                              *)
(***************************************************************************)
RowsOf(P) == [OwnEans -> [P -> 0..MaxCopies]]

LEMMA PeriodIsFinite ==
  ASSUME NEW p
  PROVE  InPeriod(p) \subseteq Times /\ IsFiniteSet(InPeriod(p))
<1>1. InPeriod(p) \in SUBSET Times
  BY DEF InPeriod
<1> QED BY <1>1, ReadingsAssumption, FS_Subset

LEMMA SelectedType ==
  ASSUME ReadingsTypeOK, NEW p
  PROVE  /\ Selected(p) \in RowsOf(InPeriod(p))
         /\ \A e \in OwnEans : \A t \in InPeriod(p) : Selected(p)[e][t] = readings[e][t]
<1>1. \A e \in OwnEans : \A t \in InPeriod(p) : readings[e][t] \in 0..MaxCopies
  BY PeriodIsFinite, ReadingsAssumption DEF ReadingsTypeOK
<1> QED BY <1>1 DEF Selected, RowsOf

LEMMA InstantsType ==
  ASSUME NEW P, IsFiniteSet(P), NEW r \in RowsOf(P)
  PROVE  /\ Instants(r) = {t \in P : \E e \in OwnEans : r[e][t] > 0}
         /\ IsFiniteSet(Instants(r)) /\ Cardinality(Instants(r)) \in Nat
<1>1. Instants(r) = {t \in P : \E e \in OwnEans : r[e][t] > 0}
  BY DEF Instants, RowsOf
<1>2. IsFiniteSet(Instants(r))
  <2>1. Instants(r) \in SUBSET P
    BY <1>1
  <2> QED BY <2>1, FS_Subset
<1> QED BY <1>1, <1>2, FS_CardinalityType

\* The meters with a reading, and those readings counted.
Present(r) == {e \in OwnEans : \E t \in DOMAIN r[e] : r[e][t] > 0}
Count(r, e) == SumFunction(r[e])
Distinct(r, e) == Cardinality({t \in DOMAIN r[e] : r[e][t] > 0})

LEMMA CountsType ==
  ASSUME NEW P, IsFiniteSet(P), NEW r \in RowsOf(P), NEW e \in OwnEans
  PROVE  /\ Count(r, e) = SumFunctionOnSet(r[e], P) /\ Count(r, e) \in Nat
         /\ Distinct(r, e) \in Nat
         /\ Distinct(r, e) = Count(r, e) <=> \A t \in P : r[e][t] <= 1
<1>1. r[e] \in [P -> 0..MaxCopies] /\ DOMAIN r[e] = P
  BY DEF RowsOf
<1>2. \A t \in P : r[e][t] \in Nat
  BY <1>1 DEF MaxCopies
<1>3. Count(r, e) = SumFunctionOnSet(r[e], P)
  BY <1>1 DEF Count, SumFunction
<1>4. Distinct(r, e) = Cardinality({t \in P : r[e][t] > 0})
  BY <1>1 DEF Distinct
<1> DEFINE f == r[e]
<1>5. /\ SumFunctionOnSet(f, P) \in Nat
      /\ Cardinality({t \in P : f[t] > 0}) \in Nat
      /\ Cardinality({t \in P : f[t] > 0}) = SumFunctionOnSet(f, P) <=> \A t \in P : f[t] <= 1
  <2>1. \A t \in P : f[t] \in Nat
    BY <1>2
  <2> HIDE DEF f
  <2>2. SumFunctionOnSet(f, P) \in Nat
    BY <2>1, SumIsNat
  <2> QED BY <2>1, <2>2, SumCounts
<1> QED BY <1>3, <1>4, <1>5

LEMMA CoverageIs ==
  ASSUME NEW p, NEW r, r = Selected(p)
  PROVE  /\ DOMAIN Coverage(p) = Present(r)
         /\ \A e \in Present(r) : /\ Coverage(p)[e].row_count = Count(r, e)
                                 /\ Coverage(p)[e].distinct_ts = Distinct(r, e)
                                 /\ Coverage(p)[e].consumption = Count(r, e) * Gross[e]
                                 /\ Coverage(p)[e].injection = Count(r, e) * Inj[e]
BY DEF Coverage, Present, Count, Distinct

LEMMA CoverageType ==
  ASSUME ReadingsTypeOK, NEW p
  PROVE  /\ DOMAIN Coverage(p) \subseteq OwnEans
         /\ \A e \in DOMAIN Coverage(p) : Coverage(p)[e].distinct_ts \in Nat
<1> DEFINE r == Selected(p)
<1>1. r \in RowsOf(InPeriod(p)) /\ IsFiniteSet(InPeriod(p))
  BY SelectedType, PeriodIsFinite
<1>2. \A e \in OwnEans : Distinct(r, e) \in Nat
  <2> HIDE DEF r
  <2> QED BY <1>1, CountsType
<1>3. DOMAIN Coverage(p) = Present(r) /\ \A e \in Present(r) : Coverage(p)[e].distinct_ts = Distinct(r, e)
  BY CoverageIs
<1>4. Present(r) \subseteq OwnEans
  BY DEF Present
<1> HIDE DEF r
<1> QED BY <1>2, <1>3, <1>4

LEMMA GridType ==
  ASSUME ReadingsTypeOK, NEW p
  PROVE  GridSize(p) \in Nat
BY SelectedType, PeriodIsFinite, InstantsType DEF GridSize

LEMMA MissingType ==
  ASSUME NEW c, DOMAIN c \subseteq OwnEans, \A e \in DOMAIN c : c[e].distinct_ts \in Nat,
         NEW grid \in Nat, NEW names
  PROVE  Missing(c, grid, names) \in Nat
<1> DEFINE s == {e \in {Trim[n] : n \in ToSet(names)} \intersect DOMAIN c : c[e].distinct_ts < grid}
           f == [e \in s |-> grid - c[e].distinct_ts]
<1>1. s \in SUBSET OwnEans
  OBVIOUS
<1>2. IsFiniteSet(s)
  BY <1>1, ReadingsAssumption, FS_Subset
<1>3. \A e \in s : f[e] \in Nat
  OBVIOUS
<1>4. Missing(c, grid, names) = SumFunctionOnSet(f, s)
  BY DEF Missing, SumFunction
<1>5. SumFunctionOnSet(f, s) \in Nat
  <2> HIDE DEF s, f
  <2> QED BY <1>2, <1>3, SumIsNat
<1> QED BY <1>4, <1>5

-----------------------------------------------------------------------------
(***************************************************************************)
(* The matrix.                                                             *)
(***************************************************************************)
LEMMA UpTo ==
  ASSUME NEW n \in Nat
  PROVE  IsFiniteSet(1..n) /\ Cardinality(1..n) = n
<1>1. IsFiniteSet(1..n) /\ Cardinality(1..n) = IF 1 > n THEN 0 ELSE n - 1 + 1
  BY FS_Interval
<1> QED BY <1>1

\* A name that occurs once selects its own column alone.
LEMMA ColumnsType ==
  ASSUME NEW names \in Seq(Names)
  PROVE  /\ Cardinality(Columns(names)) \in Nat
         /\ \A i \in DOMAIN names : <<i, i>> \in Columns(names)
         /\ Cardinality(Columns(names)) = Len(names) <=>
              \A i, j \in DOMAIN names : names[i] = names[j] => i = j
<1> DEFINE D == DOMAIN names
           diagonal == {<<i, i>> : i \in D}
<1>1. D = 1..Len(names) /\ Len(names) \in Nat
  OBVIOUS
<1>2. IsFiniteSet(D) /\ Cardinality(D) = Len(names)
  BY <1>1, UpTo
<1>3. IsFiniteSet(D \X D)
  BY <1>2, FS_Product
<1>4. Columns(names) \in SUBSET (D \X D)
  BY DEF Columns
<1>5. IsFiniteSet(Columns(names))
  BY <1>3, <1>4, FS_Subset
<1>6. IsFiniteSet(diagonal) /\ Cardinality(diagonal) = Len(names)
  <2> DEFINE g == [i \in D |-> <<i, i>>]
  <2>1. diagonal = {g[i] : i \in D} /\ \A i, k \in D : g[i] = g[k] => i = k
    OBVIOUS
  <2> HIDE DEF g, D
  <2>2. IsFiniteSet({g[i] : i \in D}) /\ Cardinality({g[i] : i \in D}) = Cardinality(D)
    BY <1>2, <2>1, ImageIsFinite
  <2> HIDE DEF diagonal
  <2> QED BY <1>2, <2>1, <2>2
<1>7. diagonal \in SUBSET Columns(names)
  BY DEF Columns
<1>8. Cardinality(Columns(names)) \in Nat
  BY <1>5, FS_CardinalityType
<1>9. ASSUME Cardinality(Columns(names)) = Len(names), NEW i \in D, NEW j \in D, names[i] = names[j]
      PROVE  i = j
  <2>1. Columns(names) = diagonal
    <3> HIDE DEF diagonal
    <3> QED BY <1>5, <1>6, <1>7, <1>9, FS_Subset
  <2>2. <<i, j>> \in Columns(names)
    BY <1>9 DEF Columns
  <2> QED BY <2>1, <2>2
<1>10. ASSUME \A i, j \in D : names[i] = names[j] => i = j
       PROVE  Cardinality(Columns(names)) = Len(names)
  <2>1. \A c \in Columns(names) : c = <<c[1], c[1]>> /\ c[1] \in D
    BY <1>10 DEF Columns
  <2>2. Columns(names) = diagonal
    BY <1>7, <2>1
  <2> QED BY <1>6, <2>2
<1> QED BY <1>7, <1>8, <1>9, <1>10

LEMMA PivotType ==
  ASSUME NEW P, IsFiniteSet(P), NEW r \in RowsOf(P), NEW names \in Seq(Names)
  PROVE  Pivot(r, names).participants \in Nat /\ Pivot(r, names).timesteps \in Nat
<1>1. Pivot(r, names).participants = Cardinality(Columns(names))
  BY DEF Pivot
<1>2. Pivot(r, names).timesteps = Cardinality(Instants(r))
  BY DEF Pivot
<1> QED BY <1>1, <1>2, ColumnsType, InstantsType

LEMMA LoadType ==
  ASSUME NEW file \in Files, NEW injection, NEW names \in Seq(Names)
  PROVE  LET m == Load(file, injection, names)
         IN  /\ m.participants \in Nat /\ m.timesteps \in Nat
             /\ m # NoMatrix => m.participants = Len(names) /\ m.timesteps = file.rows
<1>1. file.rows \in Nat /\ Len(names) \in Nat
  BY UploadAssumption DEF Files, CsvFiles, Workbooks, OtherFiles
<1> QED BY <1>1 DEF Load, NoMatrix

-----------------------------------------------------------------------------
(***************************************************************************)
(* Types.                                                                  *)
(***************************************************************************)
\* What the CRM does to the table.
LEMMA TableStays ==
  ASSUME ReadingsTypeOK, NEW e \in Eans,
         \/ \E d \in Days \ {LastDay} : Import(e, d)
         \/ \E t \in Times : DeleteReading(e, t)
         \/ DeleteMeter(e)
  PROVE  ReadingsTypeOK'
<1>1. ASSUME NEW d, Import(e, d) PROVE ReadingsTypeOK'
  BY <1>1 DEF Import, ReadingsTypeOK, MaxCopies
<1>2. ASSUME NEW t \in Times, DeleteReading(e, t) PROVE ReadingsTypeOK'
  BY <1>2 DEF DeleteReading, ReadingsTypeOK, MaxCopies
<1>3. ASSUME DeleteMeter(e) PROVE ReadingsTypeOK'
  BY <1>3 DEF DeleteMeter, ReadingsTypeOK, MaxCopies
<1> QED BY <1>1, <1>2, <1>3

LEMMA CrmStays ==
  ASSUME InputTypes, CrmChanges
  PROVE  /\ ReadingsTypeOK' /\ key' \in Seq(Iterations) /\ UNCHANGED runVars
         /\ touched' = TRUE /\ stage \notin {"solved", "failed", "refused"}
<1> DEFINE TableChanges == \E e \in Eans : \/ \E d \in Days \ {LastDay} : Import(e, d)
                                           \/ \E t \in Times : DeleteReading(e, t)
                                           \/ DeleteMeter(e)
<1>1. ReadingsTypeOK /\ key \in Seq(Iterations)
  BY DEF InputTypes
<1>2. ASSUME UNCHANGED key /\ TableChanges PROVE ReadingsTypeOK' /\ key' \in Seq(Iterations)
  BY <1>1, <1>2, TableStays
<1>3. ASSUME key' \in {FromCrmKey(k) : k \in Keys} \union {NoKey} /\ UNCHANGED readings
      PROVE  ReadingsTypeOK' /\ key' \in Seq(Iterations)
  BY <1>1, <1>3, KeyType DEF ReadingsTypeOK
<1>4. \/ UNCHANGED key /\ TableChanges
      \/ key' \in {FromCrmKey(k) : k \in Keys} \union {NoKey} /\ UNCHANGED readings
  BY DEF CrmChanges
<1>5. ReadingsTypeOK' /\ key' \in Seq(Iterations)
  BY <1>2, <1>3, <1>4
<1> QED BY <1>5 DEF CrmChanges

\* The steps of the run, the CRM left alone; and what they all do not touch.
LEMMA RunStepsKeep ==
  ASSUME RunSteps
  PROVE  UNCHANGED <<origin, key, readings, changes>>
BY DEF RunSteps, RequestFile, RequestPeriod, RequestVerdict, ReadKey, LoadFile, CountAgain,
       VerdictAgain, Fetch, BuildMatrix, CheckAndSolve, KeepCrm

LEMMA TypesStart ==
  ASSUME Init PROVE InputTypes
<1>1. ReadingsTypeOK
  BY DEF Init, ReadingsTypeOK, MaxCopies
<1>2. key \in Seq(Iterations) /\ held \in Seq(Iterations)
  BY KeyType DEF Init, NoKey
<1>3. DOMAIN coverage = {}
  BY DEF Init, NoCoverage
<1> QED BY <1>1, <1>2, <1>3 DEF Init, InputTypes, Fetched

LEMMA TypesStep ==
  ASSUME InputTypes, [Next]_vars PROVE InputTypes'
<1> DEFINE Typed == \A e \in DOMAIN coverage : coverage[e].distinct_ts \in Nat
           Read == rows \in RowsOf(InPeriod(origin.period))
<1> USE DEF Goto
<1>1. /\ ReadingsTypeOK /\ origin \in FileRuns \union CrmRuns
      /\ key \in Seq(Iterations) /\ held \in Seq(Iterations)
      /\ DOMAIN coverage \subseteq OwnEans /\ Typed
  BY DEF InputTypes
<1>2. CASE RunSteps
  <2>1. /\ ReadingsTypeOK' /\ origin' = origin /\ key' = key /\ InPeriod(origin.period)' = InPeriod(origin.period)
    BY <1>1, <1>2, RunStepsKeep DEF ReadingsTypeOK, InPeriod
  <2>2. held' \in Seq(Iterations)
    <3>1. WithTrimmed(key) \in Seq(Iterations) /\ NoKey \in Seq(Iterations)
      BY <1>1, TrimmedKey DEF NoKey
    <3> QED BY <1>1, <1>2, <3>1 DEF RunSteps, RequestFile, RequestPeriod, RequestVerdict, ReadKey,
              LoadFile, CountAgain, VerdictAgain, Fetch, BuildMatrix, CheckAndSolve
  <2>3. stage' \in {"counted", "recounted", "fetch", "pivot"} => origin'.kind = "crm"
    BY <1>2, <2>1 DEF InputTypes, Verdict, RunSteps, RequestFile, RequestPeriod, RequestVerdict, ReadKey,
              LoadFile, CountAgain, VerdictAgain, Fetch, BuildMatrix, CheckAndSolve
  <2>4. DOMAIN coverage' \subseteq OwnEans /\ Typed'
    <3>1. \A p : DOMAIN Coverage(p) \subseteq OwnEans /\ \A e \in DOMAIN Coverage(p) : Coverage(p)[e].distinct_ts \in Nat
      BY <1>1, CoverageType
    <3>2. DOMAIN NoCoverage = {}
      BY DEF NoCoverage
    <3>3. coverage' \in {coverage, NoCoverage, Coverage(origin.period)}
      BY <1>2 DEF Verdict, RunSteps, RequestFile, RequestPeriod, RequestVerdict, ReadKey,
              LoadFile, CountAgain, VerdictAgain, Fetch, BuildMatrix, CheckAndSolve
    <3> QED BY <1>1, <3>1, <3>2, <3>3
  <2>5. (rows # NoRows \/ (stage \in Fetched /\ origin.kind = "crm") => Read)'
    <3>1. CASE Fetch
      <4>1. Selected(origin.period) \in RowsOf(InPeriod(origin.period))
        BY <1>1, SelectedType
      <4> QED BY <2>1, <3>1, <4>1 DEF Fetch
    <3>2. CASE ~Fetch
      <4>1. rows' = rows /\ (stage' \in Fetched /\ origin.kind = "crm" => stage \in Fetched)
        BY <1>2, <3>2 DEF Fetched, Verdict, RunSteps, RequestFile, RequestPeriod, RequestVerdict,
              ReadKey, LoadFile, CountAgain, VerdictAgain, BuildMatrix, CheckAndSolve
      <4>2. rows # NoRows \/ (stage \in Fetched /\ origin.kind = "crm") => Read
        BY DEF InputTypes, RowsOf
      <4> QED BY <2>1, <4>1, <4>2 DEF NoRows
    <3> QED BY <3>1, <3>2
  <2> QED BY <1>1, <2>1, <2>2, <2>3, <2>4, <2>5 DEF InputTypes, RowsOf
<1>3. CASE CrmChanges
  <2>1. ReadingsTypeOK' /\ key' \in Seq(Iterations) /\ UNCHANGED runVars
    BY <1>3, CrmStays
  <2> QED BY <2>1 DEF InputTypes, runVars, InPeriod, NoRows
<1>4. CASE UNCHANGED vars
  BY <1>4 DEF vars, runVars, InputTypes, ReadingsTypeOK, InPeriod, NoRows
<1> QED BY <1>2, <1>3, <1>4 DEF Next

\* Whatever the CRM holds and the run asks for, what the worker keeps of them is
\* of its kind: the key a sequence of iterations, the readings counts of rows.
THEOREM InputTyped == Spec => []InputTypes
<1> QED BY TypesStart, TypesStep, PTL DEF Spec

\* The type invariant needs to know besides that what was computed is a number.
LEMMA TypeOKStart ==
  ASSUME Init PROVE TypeOK
<1>1. /\ ReadingsTypeOK /\ origin \in FileRuns \union CrmRuns
      /\ DOMAIN coverage \subseteq OwnEans /\ DOMAIN rows \subseteq OwnEans
  BY TypesStart DEF Init, InputTypes, NoRows
<1>2. missing \in Nat /\ matrix.participants \in Nat /\ matrix.timesteps \in Nat
  BY DEF Init, NoMatrix
<1>3. touched \in BOOLEAN /\ changes \in 0..MaxChanges
  <2>1. touched \in BOOLEAN /\ changes = 0
    BY DEF Init
  <2>2. MaxChanges \in Nat
    BY RunInputAssumption
  <2>3. changes \in 0..MaxChanges
    BY <2>1, <2>2
  <2> QED BY <2>1, <2>3
<1> QED BY <1>1, <1>2, <1>3 DEF Init, TypeOK

LEMMA TypeOKStep ==
  ASSUME TypeOK, InputTypes, InputTypes', [Next]_vars PROVE TypeOK'
<1> DEFINE Key == key \in {FromCrmKey(k) : k \in Keys} \union {NoKey}
           Stage == stage \in {"new", "counted", "refused", "queued", "keyed", "recounted",
                              "fetch", "pivot", "check", "solved", "failed"}
           Sizes == matrix.participants \in Nat /\ matrix.timesteps \in Nat
<1> USE DEF Goto
<1>1. ReadingsTypeOK' /\ (origin \in FileRuns \union CrmRuns)' /\ (DOMAIN coverage \subseteq OwnEans)'
  BY DEF InputTypes
<1>2. (DOMAIN rows \subseteq OwnEans)'
  BY DEF InputTypes, NoRows
<1>3. CASE RunSteps
  <2>1. Key' /\ changes' \in 0..MaxChanges
    BY <1>3, RunStepsKeep DEF TypeOK
  <2>2. Stage' /\ touched' \in BOOLEAN
    BY <1>3 DEF TypeOK, Verdict, KeepCrm, RunSteps, RequestFile, RequestPeriod, RequestVerdict,
          ReadKey, LoadFile, CountAgain, VerdictAgain, Fetch, BuildMatrix, CheckAndSolve
  <2>3. missing' \in Nat
    <3>1. \A names : Missing(coverage, GridSize(origin.period), names) \in Nat
      BY GridType, MissingType DEF InputTypes
    <3>2. \/ missing' = missing
          \/ \E names : missing' = Missing(coverage, GridSize(origin.period), names)
      BY <1>3 DEF Verdict, RunSteps, RequestFile, RequestPeriod, RequestVerdict,
            ReadKey, LoadFile, CountAgain, VerdictAgain, Fetch, BuildMatrix, CheckAndSolve
    <3> QED BY <3>1, <3>2 DEF TypeOK
  <2>4. Sizes'
    <3>1. CASE LoadFile
      <4>1. origin.file \in Files
        BY <3>1, RunInputAssumption DEF LoadFile, InputTypes, FileRuns, CrmRuns
      <4>2. ConsumerNames(held) \in Seq(Names)
        BY NamesType DEF InputTypes
      <4> QED BY <3>1, <4>1, <4>2, LoadType DEF LoadFile
    <3>2. CASE BuildMatrix
      <4>1. rows \in RowsOf(InPeriod(origin.period)) /\ ConsumerNames(held) \in Seq(Names)
        BY <3>2, NamesType DEF BuildMatrix, InputTypes, RowsOf, Fetched
      <4>2. LET m == Pivot(rows, ConsumerNames(held)) IN m.participants \in Nat /\ m.timesteps \in Nat
        BY <4>1, PivotType, PeriodIsFinite
      <4> QED BY <3>2, <4>2 DEF BuildMatrix, TypeOK
    <3>3. CASE ~(LoadFile \/ BuildMatrix)
      BY <1>3, <3>3 DEF TypeOK, RunSteps, RequestFile, RequestPeriod, RequestVerdict,
            ReadKey, CountAgain, VerdictAgain, Fetch, CheckAndSolve
    <3> QED BY <3>1, <3>2, <3>3
  <2> QED BY <1>1, <1>2, <2>1, <2>2, <2>3, <2>4 DEF TypeOK
<1>4. CASE CrmChanges
  <2>1. UNCHANGED runVars /\ touched' = TRUE
    BY <1>4, CrmStays
  <2>2. changes' = changes + 1 /\ changes < MaxChanges
    BY <1>4 DEF CrmChanges
  <2>3. Key'
    BY <1>4 DEF CrmChanges, TypeOK
  <2> QED BY <1>1, <2>1, <2>2, <2>3, RunInputAssumption DEF TypeOK, runVars
<1>5. CASE UNCHANGED vars
  BY <1>1, <1>5 DEF vars, runVars, TypeOK
<1> QED BY <1>3, <1>4, <1>5 DEF Next

\* The type invariant of the input.
THEOREM InputTypeCorrect == Spec => []TypeOK
<1> DEFINE IInv == InputTypes /\ TypeOK
<1>1. Init => IInv
  BY TypesStart, TypeOKStart
<1>2. IInv /\ [Next]_vars => IInv'
  BY TypesStep, TypeOKStep
<1>3. IInv => TypeOK
  OBVIOUS
<1> QED BY <1>1, <1>2, <1>3, PTL DEF Spec

-----------------------------------------------------------------------------
(***************************************************************************)
(* What is solved is what was read, and was checked.                       *)
(***************************************************************************)
LEMMA MatrixStep ==
  ASSUME MatrixIsRead, InputTypes, [Next]_vars PROVE MatrixIsRead'
<1> DEFINE Pivoted == matrix = Pivot(rows, ConsumerNames(held)) /\ ~PivotFails(rows, ConsumerNames(held))
           Loaded == matrix = Load(origin.file, origin.injection, ConsumerNames(held)) /\ matrix # NoMatrix
           Right == IF origin.kind = "crm" THEN Pivoted ELSE Loaded
           Checked == Solvable(matrix, held) /\ ~TooLarge(matrix.participants, matrix.timesteps, Len(held))
<1> USE DEF Goto
<1>1. /\ UNCHANGED <<origin, rows, held, matrix>> => (Right' <=> Right) /\ (Checked' <=> Checked)
      /\ UNCHANGED <<origin, rows, held>> /\ matrix' = Pivot(rows, ConsumerNames(held))
            /\ ~PivotFails(rows, ConsumerNames(held)) => Pivoted'
  BY DEF Pivot, PivotFails, ConsumerNames, Load, NoMatrix, Solvable, TooLarge
<1>2. CASE LoadFile
  <2>1. (origin.kind # "crm" /\ Loaded') \/ stage' = "failed"
    BY <1>2 DEF LoadFile, KeepCrm, ConsumerNames, Load, NoMatrix
  <2>2. origin' = origin /\ stage' \in {"check", "failed"}
    BY <1>2 DEF LoadFile
  <2> QED BY <2>1, <2>2 DEF MatrixIsRead, Built
<1>3. CASE BuildMatrix
  <2>1. origin.kind = "crm" /\ origin' = origin /\ stage' \in {"check", "failed"}
    BY <1>3 DEF BuildMatrix, InputTypes
  <2>2. stage' = "check" => Pivoted'
    BY <1>1, <1>3 DEF BuildMatrix
  <2> QED BY <2>1, <2>2 DEF MatrixIsRead, Built
<1>4. CASE CheckAndSolve
  <2>1. UNCHANGED <<origin, rows, held, matrix>> /\ stage = "check" /\ (stage' = "solved" => Checked)
        /\ stage' \in {"solved", "failed"}
    BY <1>4 DEF CheckAndSolve
  <2> QED BY <1>1, <2>1 DEF MatrixIsRead, Built
<1>5. CASE RequestFile \/ RequestPeriod \/ RequestVerdict \/ ReadKey \/ CountAgain \/ VerdictAgain \/ Fetch
  <2>1. stage' \notin Built
    BY <1>5 DEF Verdict, Built, RequestFile, RequestPeriod, RequestVerdict, ReadKey, CountAgain,
          VerdictAgain, Fetch
  <2> QED BY <2>1 DEF MatrixIsRead, Built
<1>6. CASE UNCHANGED runVars
  BY <1>1, <1>6 DEF MatrixIsRead, runVars
<1> QED BY <1>2, <1>3, <1>4, <1>5, <1>6, CrmStays DEF Next, RunSteps, vars

\* The invariant: what is known of the input, and of the matrix.
InputRead == InputTypes /\ TypeOK /\ MatrixIsRead

LEMMA InputAsRead == Spec => []InputRead
<1>1. Init => InputRead
  BY TypesStart, TypeOKStart DEF Init, InputRead, MatrixIsRead, Built
<1>2. InputRead /\ [Next]_vars => InputRead'
  BY TypesStep, TypeOKStep, MatrixStep DEF InputRead
<1> QED BY <1>1, <1>2, PTL DEF Spec

LEMMA ReadOnce ==
  ASSUME InputRead PROVE NothingIsDoubled
<1> DEFINE names == ConsumerNames(held)
<1> SUFFICES ASSUME stage = "solved", origin.kind = "crm"
             PROVE  /\ \A c \in DOMAIN matrix.consumption : \A t \in DOMAIN matrix.consumption[c] :
                         matrix.consumption[c][t] <= Gross[names[c[1]]]
                    /\ \A t \in DOMAIN matrix.injection :
                         matrix.injection[t] <= SumFunction([e \in OwnEans |-> Inj[e]])
  BY DEF NothingIsDoubled
<1>1. matrix = Pivot(rows, names) /\ ~PivotFails(rows, names)
  BY DEF InputRead, MatrixIsRead, Built
<1>2. rows \in RowsOf(InPeriod(origin.period)) /\ names \in Seq(Names)
  BY NamesType DEF InputRead, InputTypes, Fetched, RowsOf
<1> HIDE DEF names
<1>3. ASSUME NEW e \in OwnEans, NEW t \in Instants(rows) PROVE rows[e][t] = 0 \/ rows[e][t] = 1
  <2>1. t \in InPeriod(origin.period)
    BY <1>2, <1>3, InstantsType, PeriodIsFinite
  <2>2. rows[e][t] \in 0..MaxCopies /\ ~(rows[e][t] > 1)
    BY <1>1, <1>2, <1>3, <2>1 DEF PivotFails, RowsOf
  <2> QED BY <2>2 DEF MaxCopies
<1>4. ASSUME NEW c \in DOMAIN matrix.consumption, NEW t \in DOMAIN matrix.consumption[c]
      PROVE  matrix.consumption[c][t] <= Gross[names[c[1]]]
  <2>1. c \in Columns(names) /\ t \in Instants(rows)
        /\ matrix.consumption[c][t] = Gross[names[c[1]]] * rows[names[c[1]]][t]
    BY <1>1, <1>4 DEF Pivot
  <2>2. c[1] \in DOMAIN names
    BY <2>1 DEF Columns
  <2>3. names[c[1]] \in OwnEans
    BY <1>1, <1>2, <2>2 DEF PivotFails, RowsOf
  <2>4. Gross[names[c[1]]] \in Nat
    BY <2>3, ReadingsAssumption
  <2> QED BY <1>3, <2>1, <2>3, <2>4
<1>5. ASSUME NEW t \in DOMAIN matrix.injection
      PROVE  matrix.injection[t] <= SumFunction([e \in OwnEans |-> Inj[e]])
  <2> DEFINE injected == [e \in OwnEans |-> Inj[e] * rows[e][t]]
             once == [e \in OwnEans |-> Inj[e]]
  <2>1. t \in Instants(rows) /\ matrix.injection[t] = SumFunction(injected)
    BY <1>1, <1>2, <1>5 DEF Pivot, RowsOf
  <2>2. IsFiniteSet(OwnEans) /\ \A e \in OwnEans : Inj[e] \in Nat
    BY ReadingsAssumption
  <2>3. \A e \in OwnEans : injected[e] \in Nat /\ once[e] \in Nat /\ injected[e] <= once[e]
    BY <1>3, <2>1, <2>2
  <2>4. DOMAIN injected = OwnEans /\ DOMAIN once = OwnEans
    OBVIOUS
  <2> HIDE DEF injected, once
  <2>5. SumFunctionOnSet(injected, OwnEans) <= SumFunctionOnSet(once, OwnEans)
    BY <2>2, <2>3, SumAtMost
  <2>6. SumFunction(injected) <= SumFunction(once)
    BY <2>4, <2>5 DEF SumFunction
  <2> QED BY <2>1, <2>6 DEF once
<1> QED BY <1>4, <1>5

\* No reading is solved for twice, even if it was imported again after the check:
\* build_dataframe refuses duplicates.
THEOREM ReadingsSolvedOnce == Spec => []NothingIsDoubled
<1> QED BY InputAsRead, ReadOnce, PTL

-----------------------------------------------------------------------------
(***************************************************************************)
(* The count of an upload, and the size of it.                             *)
(***************************************************************************)
LEMMA FewerRowsFit ==
  ASSUME NEW a \in Nat, NEW b \in Nat, NEW c \in Nat, NEW d \in Nat, b <= c, TooLarge(a, b, d)
  PROVE  TooLarge(a, c, d)
<1>1. PICK e \in Nat : c = b + e
  <2>1. c - b \in Nat /\ c = b + (c - b)
    OBVIOUS
  <2> QED BY <2>1
<1>2. a * c * d = a * b * d + a * e * d
  BY <1>1
<1>3. a * b * d \in Nat /\ a * e * d \in Nat
  OBVIOUS
<1> QED BY <1>2, <1>3, UploadAssumption DEF TooLarge

LEMMA CountStep ==
  ASSUME CountStands, InputTypes, [Next]_vars PROVE CountStands'
<1> DEFINE Known == LET rowCount == Measure(origin.file)
                    IN  key # NoKey /\ (rowCount = Unknown \/ ~TooLarge(Len(ConsumerNames(key)), rowCount, Len(key)))
           Stands == /\ stage \in Accepted => Known
                     /\ stage \in Keyed => held = key
<1> USE DEF Goto, Accepted, Keyed
<1>1. UNCHANGED <<origin, key>> => (Known' <=> Known) /\ origin'.kind = origin.kind
  BY DEF Measure, HeaderReadable, Unknown, TooLarge, ConsumerNames, NoKey
<1>2. CountStands <=> (origin.kind = "file" /\ ~touched => Stands)
  BY DEF CountStands
<1>3. CASE RunSteps
  <2>1. UNCHANGED <<origin, key>>
    BY <1>3, RunStepsKeep
  <2>2. CASE RequestFile
    BY <1>1, <2>1, <2>2 DEF RequestFile, CountStands
  <2>3. CASE RequestPeriod \/ RequestVerdict \/ CountAgain \/ VerdictAgain \/ Fetch \/ BuildMatrix
    <3>1. origin.kind = "crm"
      BY <2>3 DEF RequestPeriod, RequestVerdict, CountAgain, VerdictAgain, Fetch, BuildMatrix, InputTypes
    <3> QED BY <2>1, <3>1 DEF CountStands
  <2>4. CASE ReadKey \/ LoadFile \/ CheckAndSolve
    <3>1. touched' = touched
      BY <2>4 DEF ReadKey, LoadFile, CheckAndSolve, KeepCrm
    <3>2. stage' \in Accepted => stage \in Accepted
      BY <2>4 DEF ReadKey, LoadFile, CheckAndSolve
    <3>3. origin.kind = "file" => (stage' \in Keyed => held' = key \/ (stage \in Keyed /\ held' = held))
      BY <2>4 DEF ReadKey, LoadFile, CheckAndSolve
    <3> QED BY <1>1, <2>1, <3>1, <3>2, <3>3 DEF CountStands
  <2> QED BY <1>3, <2>2, <2>3, <2>4 DEF RunSteps
<1>4. CASE CrmChanges
  BY <1>4, CrmStays DEF CountStands
<1>5. CASE UNCHANGED vars
  BY <1>1, <1>5 DEF vars, runVars, CountStands
<1> QED BY <1>3, <1>4, <1>5 DEF Next

LEMMA CountType ==
  ASSUME NEW file \in Files
  PROVE  /\ file.rows \in Nat /\ Measure(file) \in Int
         /\ Measure(file) # Unknown => Measure(file) \in Nat
         /\ Measure(file) # Unknown /\ ~MayCountLow(file) => file.rows <= Measure(file)
         /\ Measure(file) # Unknown /\ ~MayCountHigh(file) => Measure(file) <= file.rows
<1>1. MaxRows \in Nat
  BY UploadAssumption
<1>2. CASE file \in CsvFiles
  <2>1. /\ file.ext = "csv" /\ file.rows \in Nat /\ file.joined \in Nat /\ file.filler \in Nat
        /\ file.joined <= file.rows
    BY <1>1, <1>2 DEF CsvFiles
  <2>2. Measure(file) \in {file.rows - file.joined + file.filler, Unknown}
    BY <2>1 DEF Measure
  <2> QED BY <2>1, <2>2 DEF MayCountLow, MayCountHigh, Unknown
<1>3. CASE file \in Workbooks
  <2>1. file.ext = "xlsx" /\ file.rows \in Nat /\ file.dimension \in Nat \union {Unknown}
    BY <1>1, <1>3 DEF Workbooks
  <2>2. Measure(file) = file.dimension
    BY <2>1 DEF Measure
  <2> QED BY <2>1, <2>2 DEF MayCountLow, MayCountHigh, Unknown
<1>4. CASE file \in OtherFiles
  <2>1. file.ext = "other" /\ file.rows \in Nat
    BY <1>1, <1>4 DEF OtherFiles
  <2>2. Measure(file) = Unknown
    BY <2>1 DEF Measure
  <2> QED BY <2>1, <2>2 DEF Unknown
<1> QED BY <1>2, <1>3, <1>4 DEF Files

LEMMA OversizeIsMiscounted ==
  ASSUME InputRead, CountStands PROVE OversizeStopsEarly
<1> DEFINE count == Measure(origin.file)
           n == Len(ConsumerNames(held))
<1> SUFFICES ASSUME stage = "check", origin.kind = "file", ~touched,
                    TooLarge(matrix.participants, matrix.timesteps, Len(held)),
                    count # Unknown, ~MayCountLow(origin.file)
             PROVE  FALSE
  BY DEF OversizeStopsEarly, OversizeAtWorker
<1>1. held = key /\ ~TooLarge(n, count, Len(held))
  BY DEF CountStands, Accepted, Keyed
<1>2. matrix = Load(origin.file, origin.injection, ConsumerNames(held)) /\ matrix # NoMatrix
  BY DEF InputRead, MatrixIsRead, Built
<1>3. origin.file \in Files /\ ConsumerNames(held) \in Seq(Names) /\ Len(held) \in Nat
  BY RunInputAssumption, NamesType DEF InputRead, InputTypes, FileRuns, CrmRuns
<1>4. matrix.participants = n /\ matrix.timesteps = origin.file.rows
  BY <1>2, <1>3, LoadType
<1>5. n \in Nat /\ origin.file.rows \in Nat /\ count \in Nat /\ origin.file.rows <= count
  BY <1>3, CountType
<1> HIDE DEF n, count
<1> QED BY <1>1, <1>3, <1>4, <1>5, FewerRowsFit

\* An upload that is too large gets past the request only when its rows could not
\* be counted, when line feeds are missing from it or its dimension record is short,
\* or if its key was edited since.
THEOREM OversizeUploadsStopEarly == Spec => []OversizeStopsEarly
<1> DEFINE IInv == InputTypes /\ CountStands
<1>1. Init => IInv
  BY TypesStart DEF Init, CountStands, Accepted, Keyed
<1>2. IInv /\ [Next]_vars => IInv'
  BY TypesStep, CountStep
<1>3. IInv /\ InputRead => OversizeStopsEarly
  BY OversizeIsMiscounted
<1> QED BY <1>1, <1>2, <1>3, InputAsRead, PTL DEF Spec

LEMMA RefusalStep ==
  ASSUME RefusalStands, InputTypes, [Next]_vars PROVE RefusalStands'
<1> USE DEF Goto
<1>1. CASE RequestFile
  BY <1>1 DEF RequestFile, RefusalStands, Measure, HeaderReadable, Unknown, TooLarge, ConsumerNames, NoKey
<1>2. CASE RequestPeriod \/ RequestVerdict
  BY <1>2 DEF RequestPeriod, RequestVerdict, RefusalStands, InputTypes
<1>3. CASE ReadKey \/ LoadFile \/ CountAgain \/ VerdictAgain \/ Fetch \/ BuildMatrix \/ CheckAndSolve
  <2>1. stage' # "refused"
    BY <1>3 DEF ReadKey, LoadFile, CountAgain, VerdictAgain, Verdict, Fetch, BuildMatrix, CheckAndSolve
  <2> QED BY <2>1 DEF RefusalStands
<1>4. CASE CrmChanges
  <2>1. stage' # "refused"
    BY <1>4 DEF CrmChanges, runVars
  <2> QED BY <2>1 DEF RefusalStands
<1>5. CASE UNCHANGED vars
  BY <1>5 DEF vars, runVars, RefusalStands, Measure, HeaderReadable, Unknown, TooLarge, ConsumerNames, NoKey
<1> QED BY <1>1, <1>2, <1>3, <1>4, <1>5 DEF Next, RunSteps

\* An upload of a size the worker would take is refused for its size only when
\* something besides its data rows was counted.
THEOREM FittingUploadsAreAccepted == Spec => []FittingUploadsPass
<1> DEFINE IInv == InputTypes /\ RefusalStands
<1>1. Init => IInv
  BY TypesStart DEF Init, RefusalStands
<1>2. IInv /\ [Next]_vars => IInv'
  BY TypesStep, RefusalStep
<1>3. IInv => FittingUploadsPass
  <2> DEFINE count == Measure(origin.file)
             n == Len(ConsumerNames(key))
  <2> SUFFICES ASSUME IInv, stage = "refused", origin.kind = "file", "size" \in blockers,
                      ~MayCountHigh(origin.file)
               PROVE  TooLarge(n, origin.file.rows, Len(key))
    BY DEF FittingUploadsPass
  <2>1. count # Unknown /\ TooLarge(n, count, Len(key))
    BY DEF RefusalStands
  <2>2. origin.file \in Files /\ n \in Nat /\ Len(key) \in Nat
    BY RunInputAssumption, NamesType DEF InputTypes, FileRuns, CrmRuns
  <2>3. origin.file.rows \in Nat /\ count \in Nat /\ count <= origin.file.rows
    BY <2>1, <2>2, CountType
  <2> HIDE DEF n, count
  <2> QED BY <2>1, <2>2, <2>3, FewerRowsFit
<1> QED BY <1>1, <1>2, <1>3, PTL DEF Spec

-----------------------------------------------------------------------------
(***************************************************************************)
(* The worker reaches the request's verdict.                               *)
(***************************************************************************)
LEMMA NoBlockers ==
  ASSUME NEW c, NEW grid, NEW names, NEW n
  PROVE  Blockers(c, grid, names, n) = {} <=>
           /\ DOMAIN c # {} /\ ~(TotalRows(c) > MaxReadingRows) /\ ~TooLarge(Len(names), grid, n)
           /\ \A e \in DOMAIN c : c[e].row_count = c[e].distinct_ts
           /\ \A i \in DOMAIN names : Trim[names[i]] \in DOMAIN c
           /\ ~(TotalInjection(c) <= 0)
BY DEF Blockers

LEMMA TrimmedTwice ==
  ASSUME NEW k \in Seq(Iterations)
  PROVE  LET names == ConsumerNames(k)
             trimmed == ConsumerNames(WithTrimmed(k))
         IN  /\ Len(trimmed) = Len(names) /\ DOMAIN trimmed = DOMAIN names
             /\ \A i \in DOMAIN names : trimmed[i] = Trim[names[i]] /\ Trim[trimmed[i]] = Trim[names[i]]
<1> DEFINE names == ConsumerNames(k)
<1>1. names \in Seq(Names) /\ ConsumerNames(WithTrimmed(k)) = Trimmed(names)
  BY NamesType, TrimmedKey
<1>2. \A i \in DOMAIN names : names[i] \in Names
  BY <1>1
<1> HIDE DEF names
<1>3. \A i \in DOMAIN names : Trim[Trim[names[i]]] = Trim[names[i]]
  BY <1>2, ReadingsAssumption
<1>4. /\ Len(Trimmed(names)) = Len(names) /\ DOMAIN Trimmed(names) = DOMAIN names
      /\ \A i \in DOMAIN names : Trimmed(names)[i] = Trim[names[i]]
  BY <1>1, TrimmedNames
<1> QED BY <1>1, <1>3, <1>4 DEF names

LEMMA SameVerdict ==
  ASSUME NEW k \in Seq(Iterations), NEW c, NEW grid,
         Blockers(c, grid, ConsumerNames(k), Len(k)) = {}
  PROVE  /\ Blockers(c, grid, ConsumerNames(WithTrimmed(k)), Len(WithTrimmed(k))) = {}
         /\ Missing(c, grid, ConsumerNames(WithTrimmed(k))) = Missing(c, grid, ConsumerNames(k))
<1> DEFINE names == ConsumerNames(k)
           trimmed == ConsumerNames(WithTrimmed(k))
<1>1. /\ Len(trimmed) = Len(names) /\ DOMAIN trimmed = DOMAIN names
      /\ \A i \in DOMAIN names : Trim[trimmed[i]] = Trim[names[i]]
  BY TrimmedTwice
<1>2. Len(WithTrimmed(k)) = Len(k)
  BY TrimmedKey
<1> HIDE DEF names, trimmed
<1>3. Blockers(c, grid, trimmed, Len(k)) = {}
  BY <1>1, NoBlockers DEF names
<1>4. {Trim[n] : n \in ToSet(trimmed)} = {Trim[n] : n \in ToSet(names)}
  BY <1>1 DEF ToSet
<1>5. Missing(c, grid, trimmed) = Missing(c, grid, names)
  BY <1>4 DEF Missing
<1> QED BY <1>2, <1>3, <1>5 DEF names, trimmed

LEMMA VerdictStep ==
  ASSUME VerdictStands, InputTypes, [Next]_vars PROVE VerdictStands'
<1> USE DEF Goto, Counting, Accepted, Keyed, Fetched
<1>1. ASSUME UNCHANGED <<origin, key, readings>>
      PROVE  /\ Counted' = Counted /\ (Passes(key)' <=> Passes(key))
             /\ WithTrimmed(key)' = WithTrimmed(key) /\ (key # NoKey <=> (key # NoKey)')
             /\ Selected(origin.period)' = Selected(origin.period)
             /\ UNCHANGED missing => (Reports(key)' <=> Reports(key))
             /\ missing' = Missing(Counted, GridSize(origin.period), ConsumerNames(key)) => Reports(key)'
  <2>1. Selected(origin.period)' = Selected(origin.period)
    BY <1>1 DEF Selected, InPeriod
  <2>2. Counted' = Counted
    BY <1>1, <2>1 DEF Counted, Coverage
  <2>3. GridSize(origin.period)' = GridSize(origin.period)
    BY <2>1 DEF GridSize, Instants
  <2>4. WithTrimmed(key)' = WithTrimmed(key) /\ ConsumerNames(key)' = ConsumerNames(key)
    BY <1>1 DEF WithTrimmed, Trimmed, ConsumerNames
  <2>5. Passes(key)' <=> Passes(key)
    BY <1>1, <2>2, <2>3, <2>4 DEF Passes
  <2>6. /\ UNCHANGED missing => (Reports(key)' <=> Reports(key))
        /\ missing' = Missing(Counted, GridSize(origin.period), ConsumerNames(key)) => Reports(key)'
    BY <2>2, <2>3, <2>4 DEF Reports
  <2> QED BY <1>1, <2>1, <2>2, <2>4, <2>5, <2>6 DEF NoKey
<1>2. CASE RunSteps
  <2>1. UNCHANGED <<origin, key, readings>>
    BY <1>2, RunStepsKeep
  <2>2. CASE RequestFile \/ LoadFile
    <3>1. origin.kind = "file"
      BY <2>2 DEF RequestFile, LoadFile
    <3> QED BY <2>1, <3>1 DEF VerdictStands
  <2>3. CASE RequestPeriod
    <3>1. \/ stage' = "refused"
          \/ stage' = "counted" /\ held' = key /\ coverage' = Counted /\ key # NoKey
      BY <2>3 DEF RequestPeriod, Counted
    <3> QED BY <1>1, <2>1, <3>1 DEF VerdictStands
  <2>4. CASE RequestVerdict
    <3>1. stage = "counted" /\ touched' = touched /\ stage' \in {"queued", "refused"}
      BY <2>4 DEF RequestVerdict, Verdict, KeepCrm
    <3>2. ASSUME origin.kind = "crm", ~touched, stage' = "queued"
          PROVE  key # NoKey /\ Passes(key) /\ Reports(key)'
      <4>1. held = key /\ coverage = Counted /\ key # NoKey
        BY <3>1, <3>2 DEF VerdictStands
      <4>2. Blockers(coverage, GridSize(origin.period), ConsumerNames(held), Len(held)) = {}
            /\ missing' = Missing(coverage, GridSize(origin.period), ConsumerNames(held))
        BY <2>4, <3>2 DEF RequestVerdict, Verdict
      <4> QED BY <1>1, <2>1, <4>1, <4>2 DEF Passes
    <3> QED BY <1>1, <2>1, <3>1, <3>2 DEF VerdictStands
  <2>5. CASE ReadKey
    <3>1. /\ stage = "queued" /\ touched' = touched /\ missing' = missing /\ stage' \in {"keyed", "failed"}
          /\ origin.kind = "crm" => held' = WithTrimmed(key)
      BY <2>5 DEF ReadKey, KeepCrm
    <3> QED BY <1>1, <2>1, <3>1 DEF VerdictStands
  <2>6. CASE CountAgain
    <3>1. /\ stage = "keyed" /\ touched' = touched /\ missing' = missing /\ stage' = "recounted"
          /\ coverage' = Counted /\ held' = held
      BY <2>6 DEF CountAgain, KeepCrm, Counted
    <3> QED BY <1>1, <2>1, <3>1 DEF VerdictStands
  <2>7. CASE VerdictAgain
    <3>1. stage = "recounted" /\ touched' = touched /\ held' = held /\ stage' \in {"fetch", "failed"}
          /\ missing' = Missing(coverage, GridSize(origin.period), ConsumerNames(held))
      BY <2>7 DEF VerdictAgain, Verdict, KeepCrm
    <3>2. ASSUME origin.kind = "crm", ~touched PROVE Reports(key)'
      <4>1. held = WithTrimmed(key) /\ coverage = Counted /\ Passes(key) /\ key \in Seq(Iterations)
        BY <3>1, <3>2 DEF VerdictStands, InputTypes
      <4>2. Missing(Counted, GridSize(origin.period), ConsumerNames(held))
              = Missing(Counted, GridSize(origin.period), ConsumerNames(key))
        BY <4>1, SameVerdict DEF Passes
      <4> QED BY <1>1, <2>1, <3>1, <4>1, <4>2
    <3> QED BY <1>1, <2>1, <3>1, <3>2 DEF VerdictStands
  <2>8. CASE Fetch
    <3>1. /\ stage = "fetch" /\ touched' = touched /\ missing' = missing /\ stage' = "pivot"
          /\ rows' = Selected(origin.period) /\ held' = held
      BY <2>8 DEF Fetch, KeepCrm
    <3> QED BY <1>1, <2>1, <3>1 DEF VerdictStands
  <2>9. CASE BuildMatrix \/ CheckAndSolve
    <3>1. /\ stage \in {"pivot", "check"} /\ touched' = touched /\ missing' = missing
          /\ stage' \in {"check", "solved", "failed"} /\ rows' = rows /\ held' = held
      BY <2>9 DEF BuildMatrix, CheckAndSolve, KeepCrm
    <3> QED BY <1>1, <2>1, <3>1 DEF VerdictStands
  <2> QED BY <1>2, <2>2, <2>3, <2>4, <2>5, <2>6, <2>7, <2>8, <2>9 DEF RunSteps
<1>3. CASE CrmChanges
  BY <1>3, CrmStays DEF VerdictStands
<1>4. CASE UNCHANGED vars
  BY <1>1, <1>4 DEF vars, runVars, VerdictStands
<1> QED BY <1>2, <1>3, <1>4 DEF Next

\* What a verdict of no blocker says of the readings it is about.
LEMMA VerdictSays ==
  ASSUME ReadingsTypeOK, NEW p, NEW k \in Seq(Iterations),
         Blockers(Coverage(p), GridSize(p), ConsumerNames(k), Len(k)) = {},
         NEW r, r = Selected(p), NEW names, names = ConsumerNames(WithTrimmed(k))
  PROVE  /\ Instants(r) # {}
         /\ \A e \in OwnEans : \A t \in InPeriod(p) : ~(r[e][t] > 1)
         /\ \A i \in DOMAIN names : names[i] \in Present(r)
<1> DEFINE P == InPeriod(p)
<1>1. r \in RowsOf(P) /\ IsFiniteSet(P)
  BY SelectedType, PeriodIsFinite
<1>2. DOMAIN Coverage(p) = Present(r)
      /\ \A e \in Present(r) : /\ Coverage(p)[e].row_count = Count(r, e)
                             /\ Coverage(p)[e].distinct_ts = Distinct(r, e)
  BY CoverageIs
<1>3. /\ Present(r) # {} /\ \A e \in Present(r) : Count(r, e) = Distinct(r, e)
      /\ \A i \in DOMAIN ConsumerNames(k) : Trim[ConsumerNames(k)[i]] \in Present(r)
  BY <1>2, NoBlockers
<1>4. DOMAIN names = DOMAIN ConsumerNames(k)
      /\ \A i \in DOMAIN ConsumerNames(k) : names[i] = Trim[ConsumerNames(k)[i]]
  BY TrimmedTwice
<1>5. \A i \in DOMAIN names : names[i] \in Present(r)
  BY <1>3, <1>4
<1> HIDE DEF P
<1>6. \A e \in OwnEans : DOMAIN r[e] = P /\ \A t \in P : r[e][t] \in Nat
  BY <1>1 DEF RowsOf, MaxCopies
<1>7. Instants(r) # {}
  <2>1. PICK e \in OwnEans : \E t \in P : r[e][t] > 0
    BY <1>3, <1>6 DEF Present
  <2> QED BY <1>1, <2>1, InstantsType
<1>8. ASSUME NEW e \in OwnEans, NEW t \in P PROVE ~(r[e][t] > 1)
  <2>1. CASE e \in Present(r)
    <3>1. Distinct(r, e) = Count(r, e)
      BY <1>3, <2>1
    <3>2. r[e][t] <= 1
      BY <1>1, <3>1, CountsType
    <3> QED BY <3>2, <1>6
  <2>2. CASE e \notin Present(r)
    BY <1>6, <2>2 DEF Present
  <2> QED BY <2>1, <2>2
<1> QED BY <1>5, <1>7, <1>8 DEF P

LEMMA PivotSucceeds ==
  ASSUME ReadingsTypeOK, NEW p, NEW k \in Seq(Iterations),
         Blockers(Coverage(p), GridSize(p), ConsumerNames(k), Len(k)) = {},
         NEW r, r = Selected(p), NEW names, names = ConsumerNames(WithTrimmed(k)), names # <<>>
  PROVE  ~PivotFails(r, names)
<1>1. /\ Instants(r) # {}
      /\ \A e \in OwnEans : \A t \in InPeriod(p) : ~(r[e][t] > 1)
      /\ \A i \in DOMAIN names : names[i] \in Present(r)
  BY VerdictSays
<1>2. r \in RowsOf(InPeriod(p))
  BY SelectedType
<1>3. DOMAIN r = OwnEans /\ \A e \in OwnEans : DOMAIN r[e] = InPeriod(p) /\ \A t \in InPeriod(p) : r[e][t] \in Nat
  BY <1>2 DEF RowsOf, MaxCopies
<1>4. \A i \in DOMAIN names : names[i] \in OwnEans /\ \E t \in DOMAIN r[names[i]] : r[names[i]][t] # 0
  BY <1>1, <1>3 DEF Present
<1> QED BY <1>1, <1>3, <1>4 DEF PivotFails

\* A list of distinct names selects one column each.
LEMMA DistinctNames ==
  ASSUME NEW names \in Seq(Names), Cardinality(ToSet(names)) = Len(names)
  PROVE  Cardinality(Columns(names)) = Len(names)
<1> DEFINE D == DOMAIN names
<1>1. IsFiniteSet(D) /\ Cardinality(D) = Len(names)
  <2>1. D = 1..Len(names) /\ Len(names) \in Nat
    OBVIOUS
  <2> QED BY <2>1, UpTo
<1>2. ToSet(names) = {names[i] : i \in D}
  BY DEF ToSet
<1>3. \A i, j \in D : names[i] = names[j] => i = j
  <2> HIDE DEF D
  <2> QED BY <1>1, <1>2, ImageIsFinite
<1> QED BY <1>3, ColumnsType

LEMMA CheckSucceeds ==
  ASSUME ReadingsTypeOK, NEW p, NEW k \in Seq(Iterations),
         Blockers(Coverage(p), GridSize(p), ConsumerNames(k), Len(k)) = {},
         NEW h, h = WithTrimmed(k), ConsumerNames(h) # <<>>,
         Cardinality(ToSet(ConsumerNames(h))) = Len(ConsumerNames(h)),
         \A i \in DOMAIN h : ToSet(h[i].names) = ToSet(ConsumerNames(h)),
         NEW m, m = Pivot(Selected(p), ConsumerNames(h))
  PROVE  Solvable(m, h) /\ ~TooLarge(m.participants, m.timesteps, Len(h))
<1> DEFINE names == ConsumerNames(h)
<1>1. h \in Seq(Iterations) /\ Len(h) = Len(k) /\ names \in Seq(Names) /\ Len(names) = Len(ConsumerNames(k))
  BY TrimmedKey, NamesType, TrimmedTwice
<1>2. m.participants = Len(names)
  <2>1. m.participants = Cardinality(Columns(names))
    BY DEF Pivot
  <2> QED BY <2>1, <1>1, DistinctNames
<1>3. m.timesteps = GridSize(p)
  BY DEF Pivot, GridSize
<1>4. ~TooLarge(Len(ConsumerNames(k)), GridSize(p), Len(k))
  BY NoBlockers
<1>5. h # <<>>
  BY DEF ConsumerNames
<1> QED BY <1>1, <1>2, <1>3, <1>4, <1>5 DEF Solvable

LEMMA FailureStep ==
  ASSUME AcceptedRunsAreSolved, VerdictStands, MatrixIsRead, InputTypes, [Next]_vars
  PROVE  AcceptedRunsAreSolved'
<1> USE DEF Goto, Counting, Accepted, Keyed, Fetched
<1>1. UNCHANGED <<origin, key>> => (WellFormed(key)' <=> WellFormed(key))
  BY DEF WellFormed, WithTrimmed, Trimmed, ConsumerNames, ToSet
<1>2. CASE RunSteps
  <2>1. UNCHANGED <<origin, key, readings>>
    BY <1>2, RunStepsKeep
  <2> SUFFICES ASSUME stage' = "failed", origin.kind = "crm", ~touched', WellFormed(key)
               PROVE  FALSE
    BY <1>1, <2>1 DEF AcceptedRunsAreSolved
  <2> DEFINE p == origin.period
             h == WithTrimmed(key)
             names == ConsumerNames(h)
  <2>3. /\ ReadingsTypeOK /\ key \in Seq(Iterations) /\ names # <<>>
        /\ Cardinality(ToSet(names)) = Len(names) /\ \A i \in DOMAIN h : ToSet(h[i].names) = ToSet(names)
    BY DEF InputTypes, WellFormed
  <2>4. CASE ReadKey
    BY <2>4 DEF ReadKey, KeepCrm, VerdictStands
  <2>5. CASE VerdictAgain
    <3>1. stage = "recounted" /\ touched' = touched
          /\ Blockers(coverage, GridSize(p), ConsumerNames(held), Len(held)) # {}
      BY <2>5 DEF VerdictAgain, Verdict, KeepCrm
    <3>2. held = h /\ coverage = Counted /\ Passes(key)
      BY <3>1 DEF VerdictStands
    <3>3. Blockers(Counted, GridSize(p), ConsumerNames(h), Len(h)) = {}
      BY <2>3, <3>2, SameVerdict DEF Passes
    <3> QED BY <3>1, <3>2, <3>3
  <2>6. CASE BuildMatrix
    <3>1. stage = "pivot" /\ touched' = touched /\ PivotFails(rows, ConsumerNames(held))
      BY <2>6 DEF BuildMatrix, KeepCrm
    <3>2. held = h /\ rows = Selected(p) /\ Passes(key)
      BY <3>1 DEF VerdictStands
    <3>3. ~PivotFails(Selected(p), names)
      BY <2>3, <3>2, PivotSucceeds DEF Passes, Counted
    <3> QED BY <3>1, <3>2, <3>3
  <2>7. CASE CheckAndSolve
    <3>1. /\ stage = "check" /\ touched' = touched
          /\ ~Solvable(matrix, held) \/ TooLarge(matrix.participants, matrix.timesteps, Len(held))
      BY <2>7 DEF CheckAndSolve, KeepCrm
    <3>2. held = h /\ rows = Selected(p) /\ Passes(key)
      BY <3>1 DEF VerdictStands
    <3>3. matrix = Pivot(rows, ConsumerNames(held))
      BY <3>1 DEF MatrixIsRead, Built
    <3>4. Solvable(matrix, h) /\ ~TooLarge(matrix.participants, matrix.timesteps, Len(h))
      BY <2>3, <3>2, <3>3, CheckSucceeds DEF Passes, Counted
    <3> QED BY <3>1, <3>2, <3>4
  <2>8. CASE RequestFile \/ RequestPeriod \/ RequestVerdict \/ LoadFile \/ CountAgain \/ Fetch
    BY <2>8 DEF RequestFile, RequestPeriod, RequestVerdict, Verdict, LoadFile, CountAgain, Fetch
  <2> QED BY <1>2, <2>4, <2>5, <2>6, <2>7, <2>8 DEF RunSteps
<1>3. CASE CrmChanges
  BY <1>3, CrmStays DEF AcceptedRunsAreSolved
<1>4. CASE UNCHANGED vars
  BY <1>4, <1>1 DEF vars, runVars, AcceptedRunsAreSolved
<1> QED BY <1>2, <1>3, <1>4 DEF Next

\* The invariant of a run whose input is left alone.
InputStands == InputTypes /\ MatrixIsRead /\ VerdictStands

LEMMA InputStandsStill == Spec => []InputStands
<1>1. Init => InputStands
  BY TypesStart DEF Init, InputStands, MatrixIsRead, VerdictStands, Built, Counting, Accepted, Keyed, Fetched
<1>2. InputStands /\ [Next]_vars => InputStands'
  BY TypesStep, MatrixStep, VerdictStep DEF InputStands
<1> QED BY <1>1, <1>2, PTL DEF Spec

\* A CRM run that was accepted fails at the worker only if the CRM changed in
\* between, or for a key no run can be solved with: the pre-flight, the pivot
\* and the solver's checks agree (crm_preflight.evaluate, build_dataframe).
THEOREM AcceptedRunsSucceed == Spec => []AcceptedRunsAreSolved
<1>1. Init => AcceptedRunsAreSolved
  BY DEF Init, AcceptedRunsAreSolved
<1>2. AcceptedRunsAreSolved /\ InputStands /\ [Next]_vars => AcceptedRunsAreSolved'
  BY FailureStep DEF InputStands
<1> QED BY <1>1, <1>2, InputStandsStill, PTL DEF Spec

-----------------------------------------------------------------------------
(***************************************************************************)
(* The energy.  A sum over the instants of the matrix is one over the      *)
(* whole period, since no reading lies outside; a sum over the instants of *)
(* what all meters injected is one over the meters of what each did.       *)
(***************************************************************************)
LEMMA MeterEnergy ==
  ASSUME NEW P, IsFiniteSet(P), NEW r \in RowsOf(P), NEW e \in OwnEans, NEW c \in Nat,
         NEW f, \A t \in Instants(r) : f[t] = c * r[e][t]
  PROVE  SumFunctionOnSet(f, Instants(r)) = Count(r, e) * c
<1> DEFINE g == r[e]
           grid == Instants(r)
<1>1. \A t \in P : g[t] \in Nat
  BY DEF RowsOf, MaxCopies
<1>2. grid \in SUBSET P /\ IsFiniteSet(grid) /\ \A t \in P \ grid : g[t] = 0
  <2>1. grid = {t \in P : \E x \in OwnEans : r[x][t] > 0} /\ IsFiniteSet(grid)
    BY InstantsType
  <2> QED BY <1>1, <2>1
<1>3. Count(r, e) = SumFunctionOnSet(g, P) /\ Count(r, e) \in Nat
  BY CountsType
<1>4. \A t \in grid : g[t] \in Nat /\ f[t] = c * g[t]
  BY <1>1, <1>2
<1> HIDE DEF g, grid
<1>5. SumFunctionOnSet(g, P) = SumFunctionOnSet(g, grid)
  BY <1>1, <1>2, SumSupport
<1>6. SumFunctionOnSet(f, grid) = c * SumFunctionOnSet(g, grid)
  BY <1>2, <1>4, SumScaled
<1>7. SumFunctionOnSet(f, grid) = Count(r, e) * c
  BY <1>3, <1>5, <1>6
<1> QED BY <1>7 DEF grid

\* Everybody's injection, instant by instant.
LEMMA InjectionKept ==
  ASSUME ReadingsTypeOK, NEW p, NEW r, r = Selected(p), NEW names
  PROVE  SumFunction(Pivot(r, names).injection) = TotalInjection(Coverage(p))
<1> DEFINE P == InPeriod(p)
           grid == Instants(r)
           m == [e \in OwnEans |-> [t \in grid |-> Inj[e] * r[e][t]]]
           byMeter == [e \in OwnEans |-> Count(r, e) * Inj[e]]
           byInstant == [t \in grid |-> SumFunction([e \in DOMAIN r |-> Inj[e] * r[e][t]])]
           counted == [e \in Present(r) |-> Coverage(p)[e].injection]
<1>1. r \in RowsOf(P) /\ IsFiniteSet(P) /\ IsFiniteSet(OwnEans)
  BY SelectedType, PeriodIsFinite, ReadingsAssumption
<1>2. DOMAIN r = OwnEans /\ \A e \in OwnEans : \A t \in P : r[e][t] \in Nat
  BY <1>1 DEF RowsOf, MaxCopies
<1>3. IsFiniteSet(grid) /\ grid \subseteq P
  <2> HIDE DEF P
  <2>1. grid = {t \in P : \E x \in OwnEans : r[x][t] > 0} /\ IsFiniteSet(grid)
    BY <1>1, InstantsType
  <2> QED BY <2>1
<1>4. \A e \in OwnEans : Inj[e] \in Nat
  BY ReadingsAssumption
<1>5. Pivot(r, names).injection = byInstant
  BY DEF Pivot
<1>6. DOMAIN Coverage(p) = Present(r) /\ \A e \in Present(r) : Coverage(p)[e].injection = Count(r, e) * Inj[e]
  BY CoverageIs
<1>7. TotalInjection(Coverage(p)) = SumFunctionOnSet(counted, Present(r))
  BY <1>6 DEF TotalInjection, SumFunction
<1> HIDE DEF P
<1>8. \A e \in OwnEans : Count(r, e) \in Nat
  BY <1>1, CountsType
<1>9. SumFunctionOnSet(byMeter, OwnEans) = SumFunctionOnSet(byInstant, grid)
  <2>1. \A e \in OwnEans : \A t \in grid : m[e][t] \in Nat
    <3>1. ASSUME NEW a \in Nat, NEW b \in Nat PROVE a * b \in Nat
      OBVIOUS
    <3> QED BY <1>2, <1>3, <1>4, <3>1
  <2>2. ASSUME NEW e \in OwnEans PROVE byMeter[e] = SumFunctionOnSet(m[e], grid)
    <3> DEFINE f == m[e]
               c == Inj[e]
    <3>1. c \in Nat /\ \A t \in grid : f[t] = c * r[e][t]
      BY <1>4
    <3>2. SumFunctionOnSet(f, grid) = Count(r, e) * c
      <4> HIDE DEF f, c
      <4> QED BY <1>1, <3>1, MeterEnergy
    <3> QED BY <3>2
  <2> DEFINE columns == [t \in grid |-> [e \in OwnEans |-> Inj[e] * r[e][t]]]
  <2>3. \A t \in grid : \A e \in OwnEans : columns[t][e] = m[e][t]
    OBVIOUS
  <2>4. ASSUME NEW t \in grid PROVE byInstant[t] = SumFunctionOnSet(columns[t], OwnEans)
    <3>1. byInstant[t] = SumFunction(columns[t])
      BY <1>2
    <3> QED BY <3>1 DEF SumFunction
  <2> HIDE DEF m, byMeter, byInstant, columns, grid
  <2>5. IsFiniteSet(OwnEans) /\ IsFiniteSet(grid)
    BY <1>1, <1>3
  <2>6. \A e \in OwnEans : byMeter[e] = SumFunctionOnSet(m[e], grid)
    BY <2>2
  <2>7. \A t \in grid : byInstant[t] = SumFunctionOnSet(columns[t], OwnEans)
    BY <2>4
  <2> QED BY <2>1, <2>3, <2>5, <2>6, <2>7, SumExchange
<1>10. SumFunctionOnSet(byMeter, OwnEans) = SumFunctionOnSet(byMeter, Present(r))
  <2>1. \A e \in OwnEans : byMeter[e] \in Nat
    <3>1. ASSUME NEW a \in Nat, NEW b \in Nat PROVE a * b \in Nat
      OBVIOUS
    <3> QED BY <1>4, <1>8, <3>1
  <2>2. ASSUME NEW e \in OwnEans \ Present(r) PROVE byMeter[e] = 0
    <3> DEFINE f == r[e]
    <3>1. \A t \in P : f[t] \in Nat /\ f[t] = 0
      <4>1. DOMAIN r[e] = P
        BY <1>1 DEF RowsOf
      <4> QED BY <1>2, <2>2, <4>1 DEF Present
    <3>2. SumFunctionOnSet(f, P) = 0
      <4> HIDE DEF f
      <4> QED BY <1>1, <3>1, SumIsZero
    <3>3. Count(r, e) = 0
      BY <1>1, <3>2, CountsType
    <3> QED BY <1>4, <3>3
  <2>3. Present(r) \in SUBSET OwnEans
    BY DEF Present
  <2> HIDE DEF byMeter
  <2> QED BY <1>1, <2>1, <2>2, <2>3, SumSupport
<1>11. SumFunctionOnSet(byMeter, Present(r)) = SumFunctionOnSet(counted, Present(r))
  <2>1. IsFiniteSet(Present(r))
    <3>1. Present(r) \in SUBSET OwnEans
      BY DEF Present
    <3> QED BY <1>1, <3>1, FS_Subset
  <2>2. \A e \in Present(r) : byMeter[e] = counted[e]
    BY <1>6 DEF Present
  <2> HIDE DEF byMeter, counted
  <2> QED BY <2>1, <2>2, SumSame
<1>12. SumFunction(byInstant) = SumFunctionOnSet(byInstant, grid)
  BY DEF SumFunction
<1> QED BY <1>5, <1>7, <1>9, <1>10, <1>11, <1>12

\* The instants of the grid a meter has no reading of.
Gap(r, e) == Cardinality({t \in Instants(r) : r[e][t] = 0})

LEMMA GapIs ==
  ASSUME NEW P, IsFiniteSet(P), NEW r \in RowsOf(P), NEW e \in OwnEans
  PROVE  Gap(r, e) \in Nat /\ Gap(r, e) = Cardinality(Instants(r)) - Distinct(r, e)
<1> DEFINE grid == Instants(r)
           read == {t \in P : r[e][t] > 0}
<1>1. grid = {t \in P : \E x \in OwnEans : r[x][t] > 0} /\ IsFiniteSet(grid)
  BY InstantsType
<1>2. DOMAIN r[e] = P /\ \A t \in P : r[e][t] \in Nat
  BY DEF RowsOf, MaxCopies
<1>3. Distinct(r, e) = Cardinality(read)
  BY <1>2 DEF Distinct
<1>4. grid \intersect read = read
  BY <1>1
<1>5. {t \in grid : r[e][t] = 0} = grid \ read
  BY <1>1, <1>2
<1>6. Gap(r, e) = Cardinality(grid \ read)
  BY <1>5 DEF Gap
<1> HIDE DEF grid, read
<1>7. IsFiniteSet(grid \ read) /\ Cardinality(grid \ read) = Cardinality(grid) - Cardinality(grid \intersect read)
  BY <1>1, FS_Difference
<1>8. Cardinality(grid \ read) \in Nat
  BY <1>7, FS_CardinalityType
<1> QED BY <1>3, <1>4, <1>6, <1>7, <1>8 DEF grid

\* The warning adds up the gaps of the participants.
LEMMA GapsReported ==
  ASSUME ReadingsTypeOK, NEW p, NEW r, r = Selected(p), NEW names \in Seq(Names),
         \A i \in DOMAIN names : names[i] \in Present(r) /\ Trim[names[i]] = names[i],
         \A i, j \in DOMAIN names : names[i] = names[j] => i = j
  PROVE  Missing(Coverage(p), GridSize(p), names) = SumFunction([i \in DOMAIN names |-> Gap(r, names[i])])
<1> DEFINE P == InPeriod(p)
           D == DOMAIN names
           c == Coverage(p)
           grid == GridSize(p)
           Q == {names[i] : i \in D}
           incomplete == {e \in Q : c[e].distinct_ts < grid}
           gaps == [e \in OwnEans |-> Gap(r, e)]
           byName == [i \in D |-> Gap(r, names[i])]
           found == [e \in incomplete |-> grid - c[e].distinct_ts]
<1>1. r \in RowsOf(P) /\ IsFiniteSet(P) /\ Q \subseteq OwnEans
  BY SelectedType, PeriodIsFinite DEF Present
<1>2. IsFiniteSet(D) /\ IsFiniteSet(Q)
  <2>1. D = 1..Len(names) /\ Len(names) \in Nat
    OBVIOUS
  <2>2. IsFiniteSet(D)
    BY <2>1, UpTo
  <2>3. IsFiniteSet(Q)
    <3> HIDE DEF D
    <3> QED BY <2>2, ImageIsFinite
  <2> QED BY <2>2, <2>3
<1>3. {Trim[n] : n \in ToSet(names)} \intersect DOMAIN c = Q
  <2>1. DOMAIN c = Present(r)
    BY CoverageIs
  <2> HIDE DEF c
  <2> QED BY <2>1 DEF ToSet
<1>4. Missing(c, grid, names) = SumFunctionOnSet(found, incomplete)
  <2> HIDE DEF c, grid
  <2> QED BY <1>3 DEF Missing, SumFunction
<1>5. \A e \in OwnEans : gaps[e] \in Nat /\ gaps[e] = grid - Distinct(r, e)
  <2>1. grid = Cardinality(Instants(r))
    BY DEF GridSize
  <2>2. \A e \in OwnEans : Gap(r, e) \in Nat /\ Gap(r, e) = Cardinality(Instants(r)) - Distinct(r, e)
    <3> HIDE DEF P
    <3> QED BY <1>1, GapIs
  <2> QED BY <2>1, <2>2
<1>6. grid \in Nat /\ \A e \in Q : c[e].distinct_ts = Distinct(r, e) /\ Distinct(r, e) \in Nat
  <2>1. grid \in Nat
    BY GridType
  <2>2. \A e \in Q : Coverage(p)[e].distinct_ts = Distinct(r, e)
    BY CoverageIs
  <2>3. \A e \in OwnEans : Distinct(r, e) \in Nat
    <3> HIDE DEF P
    <3> QED BY <1>1, CountsType
  <2> QED BY <1>1, <2>1, <2>2, <2>3
<1>7. SumFunctionOnSet(byName, D) = SumFunctionOnSet(gaps, Q)
  <2>1. \A i \in D : byName[i] \in Nat /\ byName[i] = gaps[names[i]]
    BY <1>1, <1>5
  <2> HIDE DEF D, gaps, byName
  <2> QED BY <1>2, <2>1, SumReindex DEF D
<1>8. SumFunctionOnSet(gaps, Q) = SumFunctionOnSet(gaps, incomplete)
  <2>1. \A e \in Q : gaps[e] \in Nat
    BY <1>1, <1>5
  <2>2. ASSUME NEW e \in Q \ incomplete PROVE gaps[e] = 0
    <3>1. e \in OwnEans /\ c[e].distinct_ts = Distinct(r, e) /\ ~(Distinct(r, e) < grid)
      BY <1>1, <1>6
    <3> HIDE DEF gaps, grid, Q, c
    <3> QED BY <1>5, <1>6, <3>1
  <2>3. incomplete \in SUBSET Q
    OBVIOUS
  <2> HIDE DEF gaps, Q, incomplete
  <2> QED BY <1>2, <2>1, <2>2, <2>3, SumSupport
<1>9. SumFunctionOnSet(gaps, incomplete) = SumFunctionOnSet(found, incomplete)
  <2>1. IsFiniteSet(incomplete)
    <3>1. incomplete \in SUBSET Q
      OBVIOUS
    <3> QED BY <1>2, <3>1, FS_Subset
  <2>2. \A e \in incomplete : gaps[e] = found[e]
    BY <1>1, <1>5, <1>6
  <2> HIDE DEF gaps, found, incomplete
  <2> QED BY <2>1, <2>2, SumSame
<1>10. SumFunction(byName) = SumFunctionOnSet(byName, D)
  BY DEF SumFunction
<1> QED BY <1>4, <1>7, <1>8, <1>9, <1>10

LEMMA EnergyKept ==
  ASSUME InputStands PROVE EnergyIsKept
<1> DEFINE p == origin.period
           names == ConsumerNames(held)
           r == Selected(p)
           counted == Coverage(p)
           byName == [i \in DOMAIN names |->
                        Cardinality({t \in DOMAIN matrix.injection : readings[names[i]][t] = 0})]
<1> SUFFICES ASSUME stage = "solved", origin.kind = "crm", ~touched
             PROVE  /\ \A i \in DOMAIN names :
                         SumFunction(matrix.consumption[<<i, i>>]) = counted[names[i]].consumption
                    /\ SumFunction(matrix.injection) = TotalInjection(counted)
                    /\ missing = SumFunction(byName)
  BY DEF EnergyIsKept
<1>1. held = WithTrimmed(key) /\ rows = r /\ Passes(key) /\ Reports(key)
  BY DEF InputStands, VerdictStands, Accepted, Keyed, Fetched
<1>2. matrix = Pivot(r, names) /\ matrix.participants = Len(names)
  BY <1>1 DEF InputStands, MatrixIsRead, Built, Solvable
<1>3. ReadingsTypeOK /\ key \in Seq(Iterations) /\ names \in Seq(Names)
  BY NamesType DEF InputStands, InputTypes
<1>4. Blockers(counted, GridSize(p), ConsumerNames(key), Len(key)) = {}
      /\ missing = Missing(counted, GridSize(p), ConsumerNames(key))
  BY <1>1 DEF Passes, Reports, Counted
<1>5. \A i \in DOMAIN names : names[i] \in Present(r)
  BY <1>1, <1>3, <1>4, VerdictSays
<1>6. \A i \in DOMAIN names : Trim[names[i]] = names[i]
  BY <1>1, <1>3, TrimmedTwice
<1>7. \A i \in DOMAIN names : <<i, i>> \in Columns(names)
      /\ \A j \in DOMAIN names : names[i] = names[j] => i = j
  <2>1. Cardinality(Columns(names)) = Len(names)
    BY <1>2 DEF Pivot
  <2> QED BY <1>3, <2>1, ColumnsType
<1>8. r \in RowsOf(InPeriod(p)) /\ IsFiniteSet(InPeriod(p))
      /\ \A e \in OwnEans : \A t \in InPeriod(p) : r[e][t] = readings[e][t]
  BY <1>3, SelectedType, PeriodIsFinite
<1>9. DOMAIN matrix.injection = Instants(r)
  BY <1>2 DEF Pivot
<1>10. ASSUME NEW i \in DOMAIN names
       PROVE  SumFunction(matrix.consumption[<<i, i>>]) = counted[names[i]].consumption
  <2> DEFINE e == names[i]
             f == [t \in Instants(r) |-> Gross[e] * r[e][t]]
             c == Gross[e]
  <2>1. e \in Present(r) /\ e \in OwnEans
    BY <1>5 DEF Present
  <2>2. matrix.consumption[<<i, i>>] = f
    BY <1>2, <1>7 DEF Pivot
  <2>3. c \in Nat /\ \A t \in Instants(r) : f[t] = c * r[e][t]
    BY <2>1, ReadingsAssumption
  <2>4. counted[e].consumption = Count(r, e) * c
    BY <2>1, CoverageIs
  <2>5. SumFunction(f) = SumFunctionOnSet(f, Instants(r))
    BY DEF SumFunction
  <2>6. SumFunctionOnSet(f, Instants(r)) = Count(r, e) * c
    <3> HIDE DEF e, f, c, r, p
    <3> QED BY <1>8, <2>1, <2>3, MeterEnergy
  <2> QED BY <2>2, <2>4, <2>5, <2>6
<1>11. SumFunction(matrix.injection) = TotalInjection(counted)
  BY <1>2, <1>3, InjectionKept
<1>12. missing = SumFunction(byName)
  <2>1. missing = Missing(counted, GridSize(p), names)
    BY <1>1, <1>3, <1>4, SameVerdict
  <2>2. Missing(counted, GridSize(p), names) = SumFunction([i \in DOMAIN names |-> Gap(r, names[i])])
    <3>1. r = Selected(p) /\ \A i, j \in DOMAIN names : names[i] = names[j] => i = j
      BY <1>7
    <3> HIDE DEF r, p, names
    <3> QED BY <1>3, <1>5, <1>6, <3>1, GapsReported
  <2>3. ASSUME NEW i \in DOMAIN names
        PROVE  Cardinality({t \in DOMAIN matrix.injection : readings[names[i]][t] = 0}) = Gap(r, names[i])
    <3>1. names[i] \in OwnEans
      BY <1>5 DEF Present
    <3>2. Instants(r) \subseteq InPeriod(p)
      <4> HIDE DEF r
      <4> QED BY <1>8, InstantsType
    <3>3. {t \in DOMAIN matrix.injection : readings[names[i]][t] = 0} = {t \in Instants(r) : r[names[i]][t] = 0}
      <4> HIDE DEF r, p
      <4> QED BY <1>8, <1>9, <3>1, <3>2
    <3> QED BY <3>3 DEF Gap
  <2>4. byName = [i \in DOMAIN names |-> Gap(r, names[i])]
    BY <2>3
  <2> QED BY <2>1, <2>2, <2>4
<1> QED BY <1>10, <1>11, <1>12

\* What nothing changed since is solved for once and whole: the solver's series
\* add up to what the request counted, an unreported gap is none, and the
\* injection is everybody's (the pivot and the SQL aggregates are separate code).
THEOREM NoEnergyIsLost == Spec => []EnergyIsKept
<1> QED BY InputStandsStill, EnergyKept, PTL
=============================================================================
