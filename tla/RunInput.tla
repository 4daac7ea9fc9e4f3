------------------------------ MODULE RunInput ------------------------------
(***************************************************************************)
(* The input of one run, from the request to the solver: the checks of     *)
(* api/simulation/service.py before a run is queued, and what the worker   *)
(* reads and checks again (worker/dispatcher.py).  Between the two, and    *)
(* between any two queries, the CRM's key and readings may change.         *)
(***************************************************************************)
EXTENDS Readings

CONSTANTS Keys,         \* the trees a CRM key may be: sets of iterations
          Periods,      \* the periods a request may name
          Uploads,      \* the files a request may carry
          InjectionNames, \* the injection columns it may name
          MaxChanges    \* changes of the CRM in a behaviour

Iterations == [number : Nat, names : Seq(Names)]

ASSUME RunInputAssumption ==
  /\ \A k \in Keys : IsFiniteSet(k) /\ k \subseteq Iterations
  /\ Uploads \subseteq Files /\ MaxChanges \in Nat

VARIABLES
  origin,     \* what is simulated: a file, or a period
  key,        \* the key in the CRM, or NoKey
  held,       \* the key as the request or the worker read it
  stage,      \* how far the run is
  coverage,   \* the first query's answer
  rows,       \* the readings fetched
  blockers,   \* the reasons the last verdict gave
  missing,    \* the gaps that verdict reported
  matrix,     \* what the solver is given
  touched,    \* the CRM changed since the request's check began
  changes

runVars == <<origin, held, stage, coverage, rows, blockers, missing, matrix>>
vars == <<runVars, key, readings, touched, changes>>

NoKey == <<>>
NoCoverage == [e \in {} |-> 0]
NoRows == [e \in {} |-> 0]

-----------------------------------------------------------------------------
(***************************************************************************)
(* The key.                                                                *)
(***************************************************************************)

\* from_crm_allocation_key: the iterations by their number.
FromCrmKey(tree) ==
  CHOOSE k \in [1..Cardinality(tree) -> tree] :
    \A i, j \in DOMAIN k : i < j => k[i] # k[j] /\ k[i].number <= k[j].number

\* consumer_names_of: the first iteration's participants.
ConsumerNames(k) == IF k = <<>> THEN <<>> ELSE k[1].names

\* _with_trimmed_participants: every name of the tree.
WithTrimmed(k) == [i \in DOMAIN k |-> [k[i] EXCEPT !.names = Trimmed(@)]]

\* run_simulation's structural checks: a matrix row per participant, and every
\* participant in every iteration.
Solvable(m, k) ==
  /\ k # <<>> /\ ConsumerNames(k) # <<>>
  /\ m.participants = Len(ConsumerNames(k))
  /\ \A i \in DOMAIN k : ToSet(ConsumerNames(k)) \subseteq ToSet(k[i].names)

-----------------------------------------------------------------------------
FileRuns == [kind: {"file"}, file: Uploads, injection: InjectionNames]
\* known: the community has the sharing operation the request names.
CrmRuns == [kind: {"crm"}, period: Periods, known: BOOLEAN]

TypeOK ==
  /\ ReadingsTypeOK
  /\ origin \in FileRuns \union CrmRuns
  /\ key \in {FromCrmKey(k) : k \in Keys} \union {NoKey}
  /\ stage \in {"new", "counted", "refused", "queued", "keyed", "recounted", "fetch",
                "pivot", "check", "solved", "failed"}
  /\ DOMAIN coverage \subseteq OwnEans /\ DOMAIN rows \subseteq OwnEans
  /\ missing \in Nat /\ matrix.participants \in Nat /\ matrix.timesteps \in Nat
  /\ touched \in BOOLEAN /\ changes \in 0..MaxChanges

Init ==
  /\ readings \in {[e \in Eans |-> [t \in Times |-> IF e \in E THEN 1 ELSE 0]] :
                     E \in {{}, OwnEans, Eans}}
  /\ \/ origin \in CrmRuns
     \/ origin \in FileRuns /\ Instants(readings) = {}
  /\ key \in {FromCrmKey(k) : k \in Keys} \union {NoKey}
  /\ held = NoKey /\ stage = "new" /\ coverage = NoCoverage /\ rows = NoRows
  /\ blockers = {} /\ missing = 0 /\ matrix = NoMatrix
  /\ touched = FALSE /\ changes = 0

Goto(s) == stage' = s
KeepCrm == UNCHANGED <<key, readings, touched, changes>>

-----------------------------------------------------------------------------
(***************************************************************************)
(* The request.                                                            *)
(***************************************************************************)

\* start_simulation: a missing key is refused, a body that is empty or over the
\* cap, and a file whose count is too large for the key.  A file that cannot be
\* counted is let through.
RequestFile ==
  /\ stage = "new" /\ origin.kind = "file"
  /\ \E withinCap \in BOOLEAN :
       LET rowCount == Measure(origin.file)
           oversize == rowCount # Unknown /\ TooLarge(Len(ConsumerNames(key)), rowCount, Len(key))
       IN IF key = NoKey \/ ~withinCap
          THEN Goto("refused") /\ blockers' = {}
          ELSE /\ Goto(IF oversize THEN "refused" ELSE "queued")
               /\ blockers' = IF oversize THEN {"size"} ELSE {}
  /\ touched' = FALSE
  /\ UNCHANGED <<origin, held, coverage, rows, missing, matrix, key, readings, changes>>

\* start_simulation_from_crm, through preview_crm_data: the key, the period and
\* the operation are checked, and the readings counted per meter.
RequestPeriod ==
  /\ stage = "new" /\ origin.kind = "crm"
  /\ IF key = NoKey \/ origin.period.first > origin.period.last \/ ~origin.known
     THEN Goto("refused") /\ UNCHANGED <<held, coverage, touched>>
     ELSE /\ Goto("counted") /\ held' = key
          /\ coverage' = Coverage(origin.period) /\ touched' = FALSE
  /\ UNCHANGED <<origin, rows, blockers, missing, matrix, key, readings, changes>>

\* The grid is counted, and the verdict given.
Verdict(k, passed, rejected) ==
  LET grid == GridSize(origin.period)
      names == ConsumerNames(k)
      found == Blockers(coverage, grid, names, Len(k))
  IN /\ blockers' = found
     /\ missing' = Missing(coverage, grid, names)
     /\ Goto(IF found = {} THEN passed ELSE rejected)
     /\ coverage' = NoCoverage

RequestVerdict ==
  /\ stage = "counted" /\ Verdict(held, "queued", "refused")
  /\ held' = NoKey
  /\ KeepCrm /\ UNCHANGED <<origin, rows, matrix>>

-----------------------------------------------------------------------------
(***************************************************************************)
(* The worker.                                                             *)
(***************************************************************************)

\* _read_crm_key: the key may be another by now, or gone.
ReadKey ==
  /\ stage = "queued"
  /\ held' = IF origin.kind = "crm" THEN WithTrimmed(key) ELSE key
  /\ Goto(IF key = NoKey THEN "failed" ELSE "keyed")
  /\ KeepCrm /\ UNCHANGED <<origin, coverage, rows, blockers, missing, matrix>>

\* _load_from_file.
LoadFile ==
  /\ stage = "keyed" /\ origin.kind = "file"
  /\ matrix' = Load(origin.file, origin.injection, ConsumerNames(held))
  /\ Goto(IF matrix' = NoMatrix THEN "failed" ELSE "check")
  /\ KeepCrm /\ UNCHANGED <<origin, held, coverage, rows, blockers, missing>>

\* _load_from_crm: the pre-flight again, on the key the worker read.
CountAgain ==
  /\ stage = "keyed" /\ origin.kind = "crm"
  /\ coverage' = Coverage(origin.period) /\ Goto("recounted")
  /\ KeepCrm /\ UNCHANGED <<origin, held, rows, blockers, missing, matrix>>

VerdictAgain ==
  /\ stage = "recounted" /\ Verdict(held, "fetch", "failed")
  /\ KeepCrm /\ UNCHANGED <<origin, held, rows, matrix>>

Fetch ==
  /\ stage = "fetch"
  /\ rows' = Selected(origin.period) /\ Goto("pivot")
  /\ KeepCrm /\ UNCHANGED <<origin, held, coverage, blockers, missing, matrix>>

BuildMatrix ==
  /\ stage = "pivot"
  /\ IF PivotFails(rows, ConsumerNames(held))
     THEN Goto("failed") /\ UNCHANGED matrix
     ELSE Goto("check") /\ matrix' = Pivot(rows, ConsumerNames(held))
  /\ KeepCrm /\ UNCHANGED <<origin, held, coverage, rows, blockers, missing>>

\* The exact size, before the solve, and the solver's own checks.
CheckAndSolve ==
  /\ stage = "check"
  /\ Goto(IF \/ TooLarge(matrix.participants, matrix.timesteps, Len(held))
             \/ ~Solvable(matrix, held)
          THEN "failed" ELSE "solved")
  /\ KeepCrm /\ UNCHANGED <<origin, held, coverage, rows, blockers, missing, matrix>>

-----------------------------------------------------------------------------
\* The CRM changes: an import, a correction, a meter or a key deleted or edited.
\* A run of an upload reads the key alone.
CrmChanges ==
  /\ stage \notin {"solved", "failed", "refused"}
  /\ changes < MaxChanges /\ changes' = changes + 1 /\ touched' = TRUE
  /\ \/ /\ origin.kind = "crm"
        /\ \E e \in Eans : \/ \E d \in Days \ {LastDay} : Import(e, d)
                           \/ \E t \in Times : DeleteReading(e, t)
                           \/ DeleteMeter(e)
        /\ UNCHANGED key
     \/ /\ key # NoKey
        /\ key' \in {FromCrmKey(k) : k \in Keys} \union {NoKey}
        /\ UNCHANGED readings
  /\ UNCHANGED runVars

RunSteps ==
  \/ RequestFile \/ RequestPeriod \/ RequestVerdict
  \/ ReadKey \/ LoadFile \/ CountAgain \/ VerdictAgain \/ Fetch \/ BuildMatrix \/ CheckAndSolve

Next == RunSteps \/ CrmChanges

Spec == Init /\ [][Next]_vars

-----------------------------------------------------------------------------
(***************************************************************************)
(* What is promised of the input.                                          *)
(***************************************************************************)

\* A key whose first iteration names participants, each once, and whose iterations
\* name the same ones, once names are trimmed as they are for this run.
WellFormed(k) ==
  LET t == IF origin.kind = "crm" THEN WithTrimmed(k) ELSE k
      names == ConsumerNames(t)
  IN /\ names # <<>> /\ Cardinality(ToSet(names)) = Len(names)
     /\ \A i \in DOMAIN t : ToSet(t[i].names) = ToSet(names)

\* A CRM run that was accepted fails at the worker only if the CRM changed in
\* between, or for a key that names no participant, names one twice or leaves one
\* out of an iteration: the pre-flight reaches the worker's own verdict
\* (crm_preflight.evaluate).
AcceptedRunsAreSolved ==
  stage = "failed" /\ origin.kind = "crm" /\ ~touched => ~WellFormed(key)

\* Every reading is solved for once: the solver's series add up to what the
\* request counted when nothing changed since, an unreported gap is none, and the
\* injection is everybody's (the pivot and the SQL aggregates are separate code).
EnergyIsKept ==
  stage = "solved" /\ origin.kind = "crm" /\ ~touched =>
    LET counted == Coverage(origin.period)
        names == ConsumerNames(held)
    IN /\ \A i \in DOMAIN names :
            SumFunction(matrix.consumption[<<i, i>>]) = counted[names[i]].consumption
       /\ SumFunction(matrix.injection) = TotalInjection(counted)
       /\ missing = SumFunction([i \in DOMAIN names |->
                       Cardinality({t \in DOMAIN matrix.injection : readings[names[i]][t] = 0})])

\* No reading is solved for twice, in a participant's series or in the injection,
\* even if it was imported again after the check (build_dataframe's own refusal).
NothingIsDoubled ==
  stage = "solved" /\ origin.kind = "crm" =>
    /\ \A c \in DOMAIN matrix.consumption : \A t \in DOMAIN matrix.consumption[c] :
         matrix.consumption[c][t] <= Gross[ConsumerNames(held)[c[1]]]
    /\ \A t \in DOMAIN matrix.injection :
         matrix.injection[t] <= SumFunction([e \in OwnEans |-> Inj[e]])

\* An upload whose parsed matrix is too large for an unchanged key.
OversizeAtWorker ==
  stage = "check" /\ origin.kind = "file" /\ ~touched
    /\ TooLarge(matrix.participants, matrix.timesteps, Len(held))

\* An upload that is too large gets past the request only when its rows could not
\* be counted, when bare CRs part some of them, when its dimension record is short,
\* or if its key was edited since (upload_shape.measure, then _process).
OversizeStopsEarly ==
  OversizeAtWorker => Measure(origin.file) = Unknown \/ MayCountLow(origin.file)

\* What is said of the count: it errs on the high side, so that the worker's check
\* is for uploads whose rows could not be counted (upload_shape.py, problem_size.py).
OversizeIsUncounted == OversizeAtWorker => Measure(origin.file) = Unknown

\* An upload the worker would solve is refused for its size only when something
\* besides its data rows was counted: blank lines, line feeds within a field or a
\* dimension record past the last row (upload_shape.measure, the early check).
FittingUploadsPass ==
  stage = "refused" /\ origin.kind = "file" /\ "size" \in blockers =>
    \/ TooLarge(Len(ConsumerNames(key)), origin.file.rows, Len(key))
    \/ MayCountHigh(origin.file)

-----------------------------------------------------------------------------
(***************************************************************************)
(* What is known of the input at each stage, whatever came before: the     *)
(* invariants the proofs rest on.                                          *)
(***************************************************************************)
Counting == {"counted", "recounted"}
Accepted == {"queued", "keyed", "recounted", "fetch", "pivot", "check", "solved"}
Keyed == {"keyed", "recounted", "fetch", "pivot", "check", "solved"}
Fetched == {"pivot", "check", "solved"}
Built == {"check", "solved"}

Counted == Coverage(origin.period)
Passes(k) == Blockers(Counted, GridSize(origin.period), ConsumerNames(k), Len(k)) = {}
Reports(k) == missing = Missing(Counted, GridSize(origin.period), ConsumerNames(k))

InputTypes ==
  /\ ReadingsTypeOK /\ origin \in FileRuns \union CrmRuns
  /\ key \in Seq(Iterations) /\ held \in Seq(Iterations)
  /\ stage \in {"counted", "recounted", "fetch", "pivot"} => origin.kind = "crm"
  /\ DOMAIN coverage \subseteq OwnEans /\ \A e \in DOMAIN coverage : coverage[e].distinct_ts \in Nat
  /\ rows # NoRows \/ (stage \in Fetched /\ origin.kind = "crm") =>
       rows \in [OwnEans -> [InPeriod(origin.period) -> 0..MaxCopies]]

\* The matrix is what was read, and what is solved was checked.
MatrixIsRead ==
  /\ stage \in Built =>
       IF origin.kind = "crm"
       THEN matrix = Pivot(rows, ConsumerNames(held)) /\ ~PivotFails(rows, ConsumerNames(held))
       ELSE matrix = Load(origin.file, origin.injection, ConsumerNames(held)) /\ matrix # NoMatrix
  /\ stage = "solved" =>
       Solvable(matrix, held) /\ ~TooLarge(matrix.participants, matrix.timesteps, Len(held))

\* The request's verdict is still true where nothing changed.
VerdictStands ==
  origin.kind = "crm" /\ ~touched =>
    /\ stage = "counted" => held = key
    /\ stage \in Counting => coverage = Counted
    /\ stage \in Counting \union Accepted => key # NoKey
    /\ stage \in Accepted => Passes(key) /\ Reports(key)
    /\ stage \in Keyed => held = WithTrimmed(key)
    /\ stage \in Fetched => rows = Selected(origin.period)

\* So is the count of an upload.
CountStands ==
  origin.kind = "file" /\ ~touched =>
    /\ stage \in Accepted =>
         LET rowCount == Measure(origin.file)
         IN key # NoKey /\ (rowCount = Unknown \/ ~TooLarge(Len(ConsumerNames(key)), rowCount, Len(key)))
    /\ stage \in Keyed => held = key

\* And a refusal is the last that happens to it.
RefusalStands ==
  stage = "refused" /\ origin.kind = "file" /\ "size" \in blockers =>
    LET rowCount == Measure(origin.file)
    IN key # NoKey /\ rowCount # Unknown /\ TooLarge(Len(ConsumerNames(key)), rowCount, Len(key))
=============================================================================
