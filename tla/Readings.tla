------------------------------ MODULE Readings ------------------------------
(***************************************************************************)
(* The CRM's meter readings and what is read of them: summarize and        *)
(* fetch_rows of shared/crm_meter_repository.py, the verdict of            *)
(* shared/crm_preflight.py and the pivot of shared/crm_timeseries.py.      *)
(*                                                                         *)
(* Every query sees the table as it is at that moment, while imports go    *)
(* on: the summary is two queries, and the readings a third.               *)
(***************************************************************************)
EXTENDS Upload, FiniteSetsExt, SequencesExt

CONSTANTS Eans,             \* meters
          OwnEans,          \* those whose readings are of the sharing operation
          Times,            \* instants, numbered
          Midnight,         \* Midnight[d]: the first instant of local day d
          Gross, Inj,       \* a reading's energy drawn and injected, by meter
          Trim,             \* Trim[n]: the name without surrounding blanks
          MaxReadingRows    \* MAX_READING_ROWS

ASSUME ReadingsAssumption ==
  /\ OwnEans \subseteq Eans /\ Eans \subseteq Names
  /\ IsFiniteSet(OwnEans) /\ IsFiniteSet(Times) /\ Times \subseteq Nat
  /\ Gross \in [Eans -> Nat] /\ Inj \in [Eans -> Nat]
  /\ Trim \in [Names -> Names] /\ \A n \in Names : Trim[Trim[n]] = Trim[n]
  /\ MaxReadingRows \in Nat

VARIABLE readings   \* readings[e][t]: how often the table holds that reading

\* Two rows of one meter and instant are enough to be a duplicate.
MaxCopies == 2
ReadingsTypeOK == readings \in [Eans -> [Times -> 0..MaxCopies]]

Days == DOMAIN Midnight

\* period_bounds: from the first day's midnight to the one after the last day.
InPeriod(period) ==
  {t \in Times : Midnight[period.first] <= t /\ t < Midnight[period.last + 1]}

\* The readings of the operation and the period.
Selected(period) ==
  [e \in OwnEans |-> [t \in InPeriod(period) |-> readings[e][t]]]

Instants(rows) == UNION {{t \in DOMAIN rows[e] : rows[e][t] > 0} : e \in DOMAIN rows}

\* summarize, the query per meter: only meters with a reading appear.
Coverage(period) ==
  LET rows == Selected(period)
      present == {e \in OwnEans : \E t \in DOMAIN rows[e] : rows[e][t] > 0}
  IN [e \in present |->
        LET count == SumFunction(rows[e])
        IN [row_count |-> count,
            distinct_ts |-> Cardinality({t \in DOMAIN rows[e] : rows[e][t] > 0}),
            consumption |-> count * Gross[e],
            injection |-> count * Inj[e]]]

\* summarize, the query of the grid.
GridSize(period) == Cardinality(Instants(Selected(period)))

TotalRows(coverage) == SumFunction([e \in DOMAIN coverage |-> coverage[e].row_count])
TotalInjection(coverage) == SumFunction([e \in DOMAIN coverage |-> coverage[e].injection])

Trimmed(names) == [i \in DOMAIN names |-> Trim[names[i]]]

\* A mistaken one, which takes a meter's duplicates for what it is missing.
BlockersByCount(coverage, grid, names, iterations) ==
  IF DOMAIN coverage = {} THEN {"no_data"} ELSE
    {b \in {"range", "size", "duplicates", "unmatched", "no_injection"} :
       CASE b = "range" -> TotalRows(coverage) > MaxReadingRows
         [] b = "size" -> TooLarge(Len(names), grid, iterations)
         [] b = "duplicates" -> \E e \in DOMAIN coverage : coverage[e].row_count > grid
         [] b = "unmatched" -> \E i \in DOMAIN names : Trim[names[i]] \notin DOMAIN coverage
         [] b = "no_injection" -> TotalInjection(coverage) <= 0}

\* crm_preflight.evaluate: the reasons not to run.  Gaps are none.
Blockers(coverage, grid, names, iterations) ==
  IF DOMAIN coverage = {} THEN {"no_data"} ELSE
    {b \in {"range", "size", "duplicates", "unmatched", "no_injection"} :
       CASE b = "range" -> TotalRows(coverage) > MaxReadingRows
         [] b = "size" -> TooLarge(Len(names), grid, iterations)
         [] b = "duplicates" ->
              \E e \in DOMAIN coverage : coverage[e].row_count # coverage[e].distinct_ts
         [] b = "unmatched" -> \E i \in DOMAIN names : Trim[names[i]] \notin DOMAIN coverage
         [] b = "no_injection" -> TotalInjection(coverage) <= 0}

\* A mistaken one, which takes it that no meter has more instants than the grid.
MissingUnfiltered(coverage, grid, names) ==
  LET participants == {Trim[n] : n \in ToSet(names)} \intersect DOMAIN coverage
  IN SumFunction([e \in participants |-> grid - coverage[e].distinct_ts])

\* The gaps of the participants, reported as warnings.
Missing(coverage, grid, names) ==
  LET participants == {Trim[n] : n \in ToSet(names)} \intersect DOMAIN coverage
      incomplete == {e \in participants : coverage[e].distinct_ts < grid}
  IN SumFunction([e \in incomplete |-> grid - coverage[e].distinct_ts])

\* A mistaken pivot, which adds duplicate readings up.
PivotAggregates(rows, names) ==
  \/ Instants(rows) = {} \/ names = <<>>
  \/ \E i \in DOMAIN names :
       names[i] \notin DOMAIN rows \/ \A t \in DOMAIN rows[names[i]] : rows[names[i]][t] = 0

\* build_dataframe: a column per participant over every instant read, gaps filled
\* with 0, and the injection of all meters.  Duplicate readings, a participant
\* without any, and nothing to pivot are errors.
PivotFails(rows, names) ==
  \/ Instants(rows) = {} \/ names = <<>>
  \/ \E e \in DOMAIN rows : \E t \in DOMAIN rows[e] : rows[e][t] > 1
  \/ \E i \in DOMAIN names :
       names[i] \notin DOMAIN rows \/ \A t \in DOMAIN rows[names[i]] : rows[names[i]][t] = 0

\* to_simulation_raw_data on that frame: each name selects the columns it is the
\* label of, so that a name the key holds twice selects both of its columns twice.
Columns(names) == {c \in (DOMAIN names) \X (DOMAIN names) : names[c[1]] = names[c[2]]}

\* A mistaken one, which shares out only what the participants injected.
PivotOfParticipants(rows, names) ==
  LET grid == Instants(rows) IN
  [participants |-> Cardinality(Columns(names)),
   timesteps |-> Cardinality(grid),
   consumption |->
     [c \in Columns(names) |-> [t \in grid |-> Gross[names[c[1]]] * rows[names[c[1]]][t]]],
   injection |->
     [t \in grid |-> SumFunction([e \in ToSet(names) |-> Inj[e] * rows[e][t]])]]

\* The consumption by column, and the injection of every meter, over the grid.
Pivot(rows, names) ==
  LET grid == Instants(rows) IN
  [participants |-> Cardinality(Columns(names)),
   timesteps |-> Cardinality(grid),
   consumption |->
     [c \in Columns(names) |-> [t \in grid |-> Gross[names[c[1]]] * rows[names[c[1]]][t]]],
   injection |->
     [t \in grid |-> SumFunction([e \in DOMAIN rows |-> Inj[e] * rows[e][t]])]]

-----------------------------------------------------------------------------
\* What happens to the table meanwhile: a workbook of one meter and day is
\* imported, perhaps again; readings are deleted, one or all of a meter.
DayOf(d) == {t \in Times : Midnight[d] <= t /\ t < Midnight[d + 1]}
LastDay == Max(Days)

Import(e, d) ==
  readings' = [readings EXCEPT ![e] =
                 [t \in Times |-> IF t \in DayOf(d) /\ @[t] < MaxCopies THEN @[t] + 1 ELSE @[t]]]

DeleteReading(e, t) ==
  /\ readings[e][t] > 0
  /\ readings' = [readings EXCEPT ![e][t] = @ - 1]

DeleteMeter(e) == readings' = [readings EXCEPT ![e] = [t \in Times |-> 0]]
=============================================================================
