-------------------------------- MODULE Solve --------------------------------
(***************************************************************************)
(* run_simulation (simulation/compute.py): the cascade of a key's          *)
(* iterations over one consumption matrix and one production profile.      *)
(*                                                                         *)
(* Energy is counted in whole units and shares in parts of Whole.  The     *)
(* code divides in floating point; here a quotient is rounded down, and    *)
(* the instances checked use amounts every quotient divides exactly.       *)
(***************************************************************************)
EXTENDS Integers, Sequences, FiniteSets, Functions

CONSTANTS Consumers,      \* consumer_names
          Steps,          \* timesteps
          Whole,          \* the parts a share of 1.0 has
          Keys,           \* keys: sequences of iterations
          Consumptions,   \* what the consumers may have drawn
          Productions     \* what the production site may have injected

PRORATA == -1

\* An iteration's consumers may be others than the run's, which takes its
\* consumers from the first.
Matrices == [Consumers -> [Steps -> Nat]]
IsIteration(it) ==
  /\ it.number \in Nat /\ it.share \in Nat
  /\ DOMAIN it.pct \subseteq Consumers
  /\ \A j \in DOMAIN it.pct : it.pct[j] \in Int /\ it.pct[j] >= PRORATA

ASSUME SolveAssumption ==
  /\ IsFiniteSet(Consumers) /\ IsFiniteSet(Steps)
  /\ Whole \in Nat \ {0}
  /\ Consumptions \subseteq Matrices
  /\ Productions \subseteq [Steps -> Nat]
  /\ \A k \in Keys : k \in Seq(Range(k)) /\ \A i \in DOMAIN k : IsIteration(k[i])

VARIABLES key,          \* the key's iterations, in their order
          C,            \* consumption by consumer and timestep
          production,   \* VA[0]
          solve,        \* "solving", "solved", "refused"; "idle" with no run
          done,         \* iteration_results
          headline      \* the roll-ups of the key's result

solveVars == <<key, C, production, solve, done, headline>>

NoHeadline == [consumption |-> 0, allocated |-> 0, consumed |-> 0, residual |-> 0, surplus |-> 0]

PerStep(matrix) == [t \in Steps |-> SumFunction([j \in Consumers |-> matrix[j][t]])]
Total(series) == SumFunction(series)
GrandTotal(matrix) == Total(PerStep(matrix))

\* A mistaken Relu: the plain difference.
ReluSigned(x) == x

Relu(x) == IF x > 0 THEN x ELSE 0
Least(x, y) == IF x < y THEN x ELSE y
SafeDivide(num, den) == IF den = 0 THEN 0 ELSE num \div den

\* A rate is kept as its two terms, 0/1 where the denominator is zero.
Rate(num, den) == IF den = 0 THEN [num |-> 0, den |-> 1] ELSE [num |-> num, den |-> den]

\* A mistaken RateSeries: only the totals are guarded, as in the legacy code.
RateSeriesLegacy(num, den) ==
  [t \in Steps |-> IF Total(num) = 0 \/ Total(den) = 0 THEN Rate(0, 1) ELSE [num |-> num[t], den |-> den[t]]]

\* A series of rates: all zero when either total is.
RateSeries(num, den) ==
  [t \in Steps |-> IF Total(num) = 0 \/ Total(den) = 0 THEN Rate(0, 1) ELSE Rate(num[t], den[t])]

\* What the iteration's share of the injection and the carried surplus make
\* available to it.
Available(it, carried) ==
  [t \in Steps |-> (production[t] * it.share) \div Whole + carried[t]]

\* A FIXED consumer gets its fraction of what is available, a PRORATA one its
\* fraction of the consumption the run began with.
Allocated(it, available) ==
  [j \in Consumers |-> [t \in Steps |->
     IF it.pct[j] > PRORATA
     THEN (available[t] * it.pct[j]) \div Whole
     ELSE SafeDivide(available[t] * C[j][t], PerStep(C)[t])]]

\* A mistaken Consumed: measured against the consumption the run began with.
ConsumedAnew(demand, allocated) ==
  [j \in Consumers |-> [t \in Steps |-> Least(C[j][t], allocated[j][t])]]

Consumed(demand, allocated) ==
  [j \in Consumers |-> [t \in Steps |-> Least(demand[j][t], allocated[j][t])]]

\* One turn of the loop, demand being what the iterations before left unmet.
IterationResult(it, demand, carried) ==
  LET available == Available(it, carried)
      allocated == Allocated(it, available)
  IN  [number |-> it.number,
       available |-> available,
       consumption |-> demand,
       allocated |-> allocated,
       consumed |-> Consumed(demand, allocated),
       residual |-> [j \in Consumers |-> [t \in Steps |-> Relu(demand[j][t] - allocated[j][t])]],
       surplus |-> [j \in Consumers |-> [t \in Steps |-> Relu(allocated[j][t] - demand[j][t])]]]

Latest == done[Len(done)]
Demand == IF done = <<>> THEN C ELSE Latest.residual

\* A mistaken Carried: the surplus of every iteration so far.
CarriedOfAll ==
  [t \in Steps |-> SumFunction([i \in DOMAIN done |-> PerStep(done[i].surplus)[t]])]

Carried == IF done = <<>> THEN [t \in Steps |-> 0] ELSE PerStep(Latest.surplus)

\* An iteration's rates.
SharingRates(result) == RateSeries(PerStep(result.consumed), result.available)
SharingRate(result) == Rate(GrandTotal(result.consumed), Total(result.available))
SufficiencyRates(result) == RateSeries(PerStep(result.consumed), PerStep(result.consumption))
SufficiencyRate(result) == Rate(GrandTotal(result.consumed), GrandTotal(result.consumption))

\* A mistaken RollUps: the consumed energy of the last iteration alone.
RollUpsOfLast ==
  [consumption |-> GrandTotal(done[1].consumption),
   allocated |-> Total(done[1].available),
   consumed |-> GrandTotal(Latest.consumed),
   residual |-> GrandTotal(Latest.residual),
   surplus |-> GrandTotal(Latest.surplus)]

\* The key's roll-ups: consumption and available production of the first
\* iteration, consumed energy of all, residual and surplus of the last.
RollUps ==
  [consumption |-> GrandTotal(done[1].consumption),
   allocated |-> Total(done[1].available),
   consumed |-> SumFunction([i \in DOMAIN done |-> GrandTotal(done[i].consumed)]),
   residual |-> GrandTotal(Latest.residual),
   surplus |-> GrandTotal(Latest.surplus)]

KeySufficiencyRate == Rate(headline.consumed, headline.consumption)
KeySharingRate == Rate(headline.consumed, headline.allocated)

SolveInit ==
  /\ key \in Keys /\ C \in Consumptions /\ production \in Productions
  /\ solve = "solving" /\ done = <<>> /\ headline = NoHeadline

\* SimulationInputError: no iteration, or one without a consumer of the run.
RefuseInput ==
  /\ solve = "solving"
  /\ \/ key = <<>>
     \/ /\ Len(done) < Len(key)
        /\ ~ Consumers \subseteq DOMAIN key[Len(done) + 1].pct
  /\ solve' = "refused"
  /\ UNCHANGED <<key, C, production, done, headline>>

Iterate ==
  /\ solve = "solving" /\ Len(done) < Len(key)
  /\ Consumers \subseteq DOMAIN key[Len(done) + 1].pct
  /\ done' = Append(done, IterationResult(key[Len(done) + 1], Demand, Carried))
  /\ UNCHANGED <<key, C, production, solve, headline>>

RollUp ==
  /\ solve = "solving" /\ key # <<>> /\ Len(done) = Len(key)
  /\ solve' = "solved" /\ headline' = RollUps
  /\ UNCHANGED <<key, C, production, done>>

SolveNext == RefuseInput \/ Iterate \/ RollUp

SolveSpec == SolveInit /\ [][SolveNext]_solveVars

IterationResults ==
  [number : Nat, available : [Steps -> Nat], consumption : Matrices, allocated : Matrices,
   consumed : Matrices, residual : Matrices, surplus : Matrices]

SolveTypeOK ==
  /\ key \in Keys \union {<<>>} /\ C \in Matrices /\ production \in [Steps -> Nat]
  /\ solve \in {"idle", "solving", "solved", "refused"}
  /\ done \in Seq(IterationResults) /\ Len(done) <= Len(key)

------------------------------------------------------------------------------
\* EnergyIsAccountedFor.  At each timestep, what a consumer got from the
\* iterations so far and what it still lacks add up to what it drew: the
\* cascade serves no demand twice and forgets none (compute.py:119-121).
EnergyIsAccountedFor ==
  \A j \in Consumers : \A t \in Steps :
     SumFunction([i \in DOMAIN done |-> done[i].consumed[j][t]]) + Demand[j][t] = C[j][t]

\* An iteration whose consumers' shares stay within the whole at timestep t.
\* (FIXED and PRORATA consumers of one iteration may exceed it together.)
WithinWhole(i, t) ==
  SumFunction([j \in Consumers |-> done[i].allocated[j][t]]) <= done[i].available[t]

\* NoEnergyFromNowhere.  Under iterations that share out no more than they
\* have, the energy consumed so far and the surplus carried on never exceed
\* what the iterations took from the production: the surplus fed back into
\* the next iteration is not counted twice (compute.py:104-111).
NoEnergyFromNowhere ==
  \A t \in Steps :
     (\A i \in DOMAIN done : WithinWhole(i, t)) =>
        SumFunction([i \in DOMAIN done |-> PerStep(done[i].consumed)[t]]) + Carried[t]
          <= SumFunction([i \in DOMAIN done |-> (production[t] * key[i].share) \div Whole])

\* RatesAreShares.  Every self-sufficiency rate is a number between 0 and 1, series,
\* totals and headline; so is every sharing rate of an iteration that shares
\* out no more than it has; and the rates of a whole are never above the
\* largest of its timesteps: the guards against zero denominators
\* (compute.py:133-147, 201-206) hide no other value.
AtMostOne(rate) == rate.den > 0 /\ 0 <= rate.num /\ rate.num <= rate.den
AtMost(rate, bound) == rate.num * bound.den <= bound.num * rate.den
RatesAreShares ==
  /\ \A i \in DOMAIN done :
       /\ AtMostOne(SufficiencyRate(done[i]))
       /\ \A t \in Steps : AtMostOne(SufficiencyRates(done[i])[t])
       /\ \E t \in Steps : AtMost(SufficiencyRate(done[i]), SufficiencyRates(done[i])[t])
       /\ (\A t \in Steps : WithinWhole(i, t)) =>
            /\ \A t \in Steps : AtMostOne(SharingRates(done[i])[t])
            /\ \E t \in Steps : AtMost(SharingRate(done[i]), SharingRates(done[i])[t])
  /\ solve = "solved" => AtMostOne(KeySufficiencyRate)

\* HeadlineAddsUp.  The roll-ups, taken from different places of the cascade,
\* balance all the same: the consumption of the first iteration is what all of
\* them consumed and what the last left unmet (compute.py:192-206).
HeadlineAddsUp ==
  solve = "solved" =>
    /\ headline.consumption = GrandTotal(C)
    /\ headline.consumed + headline.residual = headline.consumption

\* EnergyTotalsAreSummed.  "Energy totals are summed across iterations; the
\* two rates are recomputed from those summed totals"
\* (shared/models/local_models.py:115-116).
EnergyTotalsAreSummed ==
  solve = "solved" =>
    headline.allocated = SumFunction([i \in DOMAIN done |-> Total(done[i].available)])

------------------------------------------------------------------------------
(***************************************************************************)
(* What the balance of the roll-ups and the rates rest on.                 *)
(***************************************************************************)

\* ConsumesWithinBoth.  No consumer consumes more than it lacks, nor more than
\* it is allocated (compute.py:119).
ConsumesWithinBoth ==
  \A i \in DOMAIN done : \A j \in Consumers : \A t \in Steps :
     /\ done[i].consumed[j][t] <= done[i].consumption[j][t]
     /\ done[i].consumed[j][t] <= done[i].allocated[j][t]

\* TotalsBalance.  After every iteration, what all of them consumed and what the
\* latest left unmet add up to what the first was asked for.
TotalsBalance ==
  /\ done # <<>> => done[1].consumption = C
  /\ SumFunction([i \in DOMAIN done |-> GrandTotal(done[i].consumed)]) + GrandTotal(Demand)
       = GrandTotal(C)

\* HeadlineIsRolledUp.  The headline is that of the finished cascade.
HeadlineIsRolledUp ==
  solve = "solved" => done # <<>> /\ headline = RollUps
==============================================================================
