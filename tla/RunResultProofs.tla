-------------------------- MODULE RunResultProofs --------------------------
(***************************************************************************)
(* Proofs about a run's result: that the cascade of iterations loses no    *)
(* energy and makes none, that its totals balance and its rates are        *)
(* shares, for every key, consumption and production.                      *)
(***************************************************************************)
EXTENDS RunResult, SumLemmas

-----------------------------------------------------------------------------
(***************************************************************************)
(* Sums of a matrix.                                                       *)
(***************************************************************************)

\* The consumers' values at one timestep.
Column(m, t) == [j \in Consumers |-> m[j][t]]

LEMMA ColumnSums ==
  ASSUME NEW m
  PROVE  PerStep(m) = [t \in Steps |-> SumFunctionOnSet(Column(m, t), Consumers)]
<1>1. \A t \in Steps : DOMAIN Column(m, t) = Consumers
  BY DEF Column
<1> QED BY <1>1 DEF PerStep, SumFunction, Column

LEMMA StepSums ==
  ASSUME NEW f, DOMAIN f = Steps
  PROVE  Total(f) = SumFunctionOnSet(f, Steps)
BY DEF Total, SumFunction

LEMMA TotalType ==
  ASSUME NEW f \in [Steps -> Nat]
  PROVE  Total(f) \in Nat
<1>1. Total(f) = SumFunctionOnSet(f, Steps)
  BY StepSums
<1> QED BY <1>1, SolveAssumption, SumIsNat

LEMMA MatrixType ==
  ASSUME NEW m \in Matrices
  PROVE  PerStep(m) \in [Steps -> Nat] /\ GrandTotal(m) \in Nat
<1>1. ASSUME NEW t \in Steps PROVE SumFunctionOnSet(Column(m, t), Consumers) \in Nat
  <2>1. \A j \in Consumers : Column(m, t)[j] \in Nat
    BY DEF Column, Matrices
  <2> QED BY <2>1, SolveAssumption, SumIsNat
<1>2. PerStep(m) \in [Steps -> Nat]
  BY <1>1, ColumnSums
<1> QED BY <1>2, TotalType DEF GrandTotal

\* Matrices that add up cell by cell add up in every sum.
LEMMA MatricesAdd ==
  ASSUME NEW a \in Matrices, NEW b \in Matrices, NEW c \in Matrices,
         \A j \in Consumers : \A t \in Steps : c[j][t] = a[j][t] + b[j][t]
  PROVE  /\ \A t \in Steps : PerStep(c)[t] = PerStep(a)[t] + PerStep(b)[t]
         /\ GrandTotal(c) = GrandTotal(a) + GrandTotal(b)
<1>1. ASSUME NEW t \in Steps PROVE PerStep(c)[t] = PerStep(a)[t] + PerStep(b)[t]
  <2>1. \A j \in Consumers : /\ Column(a, t)[j] \in Nat /\ Column(b, t)[j] \in Nat
                             /\ Column(c, t)[j] = Column(a, t)[j] + Column(b, t)[j]
    BY DEF Column, Matrices
  <2>2. SumFunctionOnSet(Column(c, t), Consumers)
          = SumFunctionOnSet(Column(a, t), Consumers) + SumFunctionOnSet(Column(b, t), Consumers)
    BY <2>1, SolveAssumption, SumOfBoth
  <2> QED BY <2>2, ColumnSums
<1>2. GrandTotal(c) = GrandTotal(a) + GrandTotal(b)
  <2>1. PerStep(a) \in [Steps -> Nat] /\ PerStep(b) \in [Steps -> Nat] /\ PerStep(c) \in [Steps -> Nat]
    BY MatrixType
  <2>2. SumFunctionOnSet(PerStep(c), Steps)
          = SumFunctionOnSet(PerStep(a), Steps) + SumFunctionOnSet(PerStep(b), Steps)
    BY <1>1, <2>1, SolveAssumption, SumOfBoth
  <2> QED BY <2>1, <2>2, StepSums DEF GrandTotal
<1> QED BY <1>1, <1>2

LEMMA TotalAtMost ==
  ASSUME NEW f \in [Steps -> Nat], NEW g \in [Steps -> Nat], \A t \in Steps : f[t] <= g[t]
  PROVE  Total(f) <= Total(g)
<1>1. SumFunctionOnSet(f, Steps) <= SumFunctionOnSet(g, Steps)
  BY SolveAssumption, SumAtMost
<1> QED BY <1>1, StepSums

LEMMA MatrixAtMost ==
  ASSUME NEW a \in Matrices, NEW b \in Matrices,
         \A j \in Consumers : \A t \in Steps : a[j][t] <= b[j][t]
  PROVE  /\ \A t \in Steps : PerStep(a)[t] <= PerStep(b)[t]
         /\ GrandTotal(a) <= GrandTotal(b)
<1>1. ASSUME NEW t \in Steps PROVE PerStep(a)[t] <= PerStep(b)[t]
  <2>1. \A j \in Consumers : /\ Column(a, t)[j] \in Nat /\ Column(b, t)[j] \in Nat
                             /\ Column(a, t)[j] <= Column(b, t)[j]
    BY DEF Column, Matrices
  <2>2. SumFunctionOnSet(Column(a, t), Consumers) <= SumFunctionOnSet(Column(b, t), Consumers)
    BY <2>1, SolveAssumption, SumAtMost
  <2> QED BY <2>2, ColumnSums
<1>2. GrandTotal(a) <= GrandTotal(b)
  BY <1>1, MatrixType, TotalAtMost DEF GrandTotal
<1> QED BY <1>1, <1>2

\* A sum over a sequence that grows by one.
LEMMA SumGrows ==
  ASSUME NEW n \in Nat, NEW f, NEW g, DOMAIN f = 1..n, DOMAIN g = 1..(n + 1),
         \A i \in 1..(n + 1) : g[i] \in Nat, \A i \in 1..n : f[i] = g[i]
  PROVE  /\ SumFunction(f) \in Nat /\ g[n + 1] \in Nat
         /\ SumFunction(g) = SumFunction(f) + g[n + 1]
<1>1. IsFiniteSet(1..(n + 1)) /\ IsFiniteSet(1..n)
  BY FS_Interval
<1>2. (1..(n + 1)) \ {n + 1} = 1..n
  OBVIOUS
<1>3. SumFunctionOnSet(g, 1..(n + 1)) = g[n + 1] + SumFunctionOnSet(g, 1..n)
  <2> DEFINE S == 1..(n + 1)
             last == n + 1
  <2>1. IsFiniteSet(S) /\ last \in S /\ \A i \in S : g[i] \in Nat
    BY <1>1
  <2>2. S \ {last} = 1..n
    BY <1>2
  <2> HIDE DEF S, last
  <2>3. SumFunctionOnSet(g, S) = g[last] + SumFunctionOnSet(g, S \ {last})
    BY <2>1, SumTakes
  <2> QED BY <2>2, <2>3 DEF S, last
<1>4. SumFunctionOnSet(f, 1..n) = SumFunctionOnSet(g, 1..n)
  BY <1>1, SumSame
<1>5. SumFunctionOnSet(g, 1..n) \in Nat
  BY <1>1, SumIsNat
<1> QED BY <1>3, <1>4, <1>5 DEF SumFunction

-----------------------------------------------------------------------------
(***************************************************************************)
(* One iteration.                                                          *)
(***************************************************************************)

LEMMA QuotientType ==
  ASSUME NEW x \in Nat, NEW y \in Nat, NEW d \in Nat, d # 0
  PROVE  (x * y) \div d \in Nat
<1>1. x * y \in Nat
  OBVIOUS
<1>2. ASSUME NEW p \in Nat PROVE p \div d \in Nat
  OBVIOUS
<1> QED BY <1>1, <1>2

LEMMA AvailableType ==
  ASSUME NEW it, it.share \in Nat, production \in [Steps -> Nat], NEW carried \in [Steps -> Nat]
  PROVE  Available(it, carried) \in [Steps -> Nat]
<1>1. \A t \in Steps : (production[t] * it.share) \div Whole \in Nat
  BY SolveAssumption, QuotientType
<1> QED BY <1>1 DEF Available

LEMMA AllocatedType ==
  ASSUME NEW it, IsIteration(it), Consumers \subseteq DOMAIN it.pct, C \in Matrices,
         NEW available \in [Steps -> Nat]
  PROVE  Allocated(it, available) \in Matrices
<1>1. ASSUME NEW j \in Consumers, NEW t \in Steps, it.pct[j] > PRORATA
      PROVE  (available[t] * it.pct[j]) \div Whole \in Nat
  <2>1. it.pct[j] \in Nat
    BY <1>1 DEF IsIteration, PRORATA
  <2> QED BY <2>1, SolveAssumption, QuotientType
<1>2. ASSUME NEW j \in Consumers, NEW t \in Steps
      PROVE  SafeDivide(available[t] * C[j][t], PerStep(C)[t]) \in Nat
  <2>1. PerStep(C)[t] \in Nat /\ C[j][t] \in Nat /\ available[t] \in Nat
    BY MatrixType DEF Matrices
  <2> QED BY <2>1, QuotientType DEF SafeDivide
<1> QED BY <1>1, <1>2 DEF Allocated, Matrices

\* An iteration's matrices, cell by cell: what is consumed and what is left
\* unmet make up the demand, what is consumed and what is left over make up
\* the allocation.
LEMMA CellsBalance ==
  ASSUME NEW it, IsIteration(it), Consumers \subseteq DOMAIN it.pct, C \in Matrices,
         production \in [Steps -> Nat], NEW demand \in Matrices, NEW carried \in [Steps -> Nat],
         NEW r, r = IterationResult(it, demand, carried)
  PROVE  /\ r \in IterationResults
         /\ r.consumption = demand
         /\ r.available = Available(it, carried)
         /\ \A j \in Consumers : \A t \in Steps :
              /\ r.consumed[j][t] + r.residual[j][t] = demand[j][t]
              /\ r.consumed[j][t] + r.surplus[j][t] = r.allocated[j][t]
              /\ r.consumed[j][t] <= demand[j][t]
              /\ r.consumed[j][t] <= r.allocated[j][t]
<1> DEFINE available == Available(it, carried)
           allocated == Allocated(it, available)
<1>1. available \in [Steps -> Nat]
  BY AvailableType DEF IsIteration
<1>2. allocated \in Matrices
  BY <1>1, AllocatedType
<1> HIDE DEF available, allocated
<1>3. r = [number |-> it.number,
           available |-> available,
           consumption |-> demand,
           allocated |-> allocated,
           consumed |-> Consumed(demand, allocated),
           residual |-> [j \in Consumers |-> [t \in Steps |-> Relu(demand[j][t] - allocated[j][t])]],
           surplus |-> [j \in Consumers |-> [t \in Steps |-> Relu(allocated[j][t] - demand[j][t])]]]
  BY DEF IterationResult, available, allocated
<1>4. \A j \in Consumers : \A t \in Steps :
        /\ allocated[j][t] \in Nat /\ demand[j][t] \in Nat
        /\ r.consumed[j][t] = Least(demand[j][t], allocated[j][t])
        /\ r.residual[j][t] = Relu(demand[j][t] - allocated[j][t])
        /\ r.surplus[j][t] = Relu(allocated[j][t] - demand[j][t])
  BY <1>2, <1>3 DEF Matrices, Consumed
<1>5. \A j \in Consumers : \A t \in Steps :
        /\ r.consumed[j][t] \in Nat /\ r.residual[j][t] \in Nat /\ r.surplus[j][t] \in Nat
        /\ r.consumed[j][t] + r.residual[j][t] = demand[j][t]
        /\ r.consumed[j][t] + r.surplus[j][t] = allocated[j][t]
        /\ r.consumed[j][t] <= demand[j][t]
        /\ r.consumed[j][t] <= allocated[j][t]
  BY <1>4 DEF Least, Relu
<1>6. r.consumed \in Matrices /\ r.residual \in Matrices /\ r.surplus \in Matrices
  BY <1>3, <1>5 DEF Matrices, Consumed
<1>7. r \in IterationResults
  BY <1>1, <1>2, <1>3, <1>6 DEF IterationResults, IsIteration
<1> QED BY <1>3, <1>5, <1>7 DEF available

\* The same, for its sums.
LEMMA SumsBalance ==
  ASSUME NEW it, IsIteration(it), Consumers \subseteq DOMAIN it.pct, C \in Matrices,
         production \in [Steps -> Nat], NEW demand \in Matrices, NEW carried \in [Steps -> Nat],
         NEW r, r = IterationResult(it, demand, carried)
  PROVE  /\ GrandTotal(r.consumed) + GrandTotal(r.residual) = GrandTotal(demand)
         /\ \A t \in Steps :
              PerStep(r.consumed)[t] + PerStep(r.surplus)[t] = PerStep(r.allocated)[t]
<1> DEFINE consumed == r.consumed
           residual == r.residual
           surplus == r.surplus
           allocated == r.allocated
<1>1. consumed \in Matrices /\ residual \in Matrices /\ surplus \in Matrices /\ allocated \in Matrices
  <2>1. r \in IterationResults
    BY CellsBalance
  <2> QED BY <2>1 DEF IterationResults
<1>2. \A j \in Consumers : \A t \in Steps :
        /\ demand[j][t] = consumed[j][t] + residual[j][t]
        /\ allocated[j][t] = consumed[j][t] + surplus[j][t]
  BY CellsBalance
<1> HIDE DEF consumed, residual, surplus, allocated
<1>3. /\ GrandTotal(demand) = GrandTotal(consumed) + GrandTotal(residual)
      /\ \A t \in Steps : PerStep(allocated)[t] = PerStep(consumed)[t] + PerStep(surplus)[t]
  BY <1>1, <1>2, MatricesAdd
<1> QED BY <1>3 DEF consumed, residual, surplus, allocated

-----------------------------------------------------------------------------
(***************************************************************************)
(* The cascade.                                                            *)
(***************************************************************************)

\* An iteration starts from what is left of the demand and of the surplus, and
\* leaves its own.
LEMMA IterateShape ==
  ASSUME SolveTypeOK, Iterate
  PROVE  LET n == Len(done) IN
         /\ n \in Nat /\ DOMAIN done = 1..n /\ DOMAIN done' = 1..(n + 1)
         /\ Len(done') = n + 1 /\ done' # <<>>
         /\ \A i \in 1..n : done'[i] = done[i]
         /\ done'[n + 1] = IterationResult(key[n + 1], Demand, Carried)
         /\ done' \in Seq(IterationResults) /\ Len(done') <= Len(key)
         /\ IsIteration(key[n + 1]) /\ Consumers \subseteq DOMAIN key[n + 1].pct
         /\ Demand \in Matrices /\ Carried \in [Steps -> Nat]
         /\ Demand' = done'[n + 1].residual /\ Carried' = PerStep(done'[n + 1].surplus)
<1> DEFINE n == Len(done)
<1>1. done \in Seq(IterationResults) /\ n \in Nat /\ DOMAIN done = 1..n
  BY DEF SolveTypeOK
<1>2. key \in Seq(Range(key)) /\ n < Len(key)
  BY SolveAssumption DEF SolveTypeOK, Iterate
<1>3. IsIteration(key[n + 1]) /\ Consumers \subseteq DOMAIN key[n + 1].pct
  <2>1. n + 1 \in DOMAIN key /\ key \in Keys
    BY <1>1, <1>2 DEF SolveTypeOK
  <2> QED BY <2>1, SolveAssumption DEF Iterate
<1> HIDE DEF n
<1>0. ASSUME done # <<>> PROVE Latest \in IterationResults
  <2>1. n \in 1..n
    BY <1>0, <1>1 DEF n
  <2> QED BY <1>1, <2>1 DEF Latest, n
<1>4. Demand \in Matrices
  <2>1. CASE done = <<>>
    BY <2>1 DEF Demand, SolveTypeOK
  <2>2. CASE done # <<>>
    BY <1>0, <2>2 DEF Demand, IterationResults
  <2> QED BY <2>1, <2>2
<1>5. Carried \in [Steps -> Nat]
  <2>1. CASE done = <<>>
    BY <2>1 DEF Carried
  <2>2. CASE done # <<>>
    <3>1. Latest.surplus \in Matrices
      BY <1>0, <2>2 DEF IterationResults
    <3> QED BY <2>2, <3>1, MatrixType DEF Carried
  <2> QED BY <2>1, <2>2
<1> USE DEF n
<1>6. done' = Append(done, IterationResult(key[n + 1], Demand, Carried))
  BY DEF Iterate
<1>7. IterationResult(key[n + 1], Demand, Carried) \in IterationResults
  BY <1>3, <1>4, <1>5, CellsBalance DEF SolveTypeOK
<1>8. /\ done' \in Seq(IterationResults) /\ Len(done') = n + 1 /\ DOMAIN done' = 1..(n + 1)
      /\ \A i \in 1..n : done'[i] = done[i]
      /\ done'[n + 1] = IterationResult(key[n + 1], Demand, Carried)
  BY <1>1, <1>6, <1>7
<1>9. done' # <<>>
  BY <1>1, <1>8
<1>10. Demand' = done'[n + 1].residual /\ Carried' = PerStep(done'[n + 1].surplus)
  BY <1>8, <1>9 DEF Demand, Carried, Latest, PerStep
<1> QED BY <1>1, <1>2, <1>3, <1>4, <1>5, <1>8, <1>9, <1>10

LEMMA ResultType ==
  ASSUME NEW r \in IterationResults
  PROVE  /\ r.available \in [Steps -> Nat]
         /\ r.consumption \in Matrices /\ r.allocated \in Matrices /\ r.consumed \in Matrices
         /\ r.residual \in Matrices /\ r.surplus \in Matrices
BY DEF IterationResults

\* What it adds to the cascade balances.
LEMMA IterateBalance ==
  ASSUME SolveTypeOK, Iterate
  PROVE  \E r \in IterationResults :
           /\ r = done'[Len(done) + 1]
           /\ Demand \in Matrices /\ Carried \in [Steps -> Nat]
           /\ Demand' = r.residual /\ Carried' = PerStep(r.surplus)
           /\ r.consumption = Demand
           /\ r.available = Available(key[Len(done) + 1], Carried)
           /\ \A j \in Consumers : \A t \in Steps :
                /\ r.consumed[j][t] + r.residual[j][t] = Demand[j][t]
                /\ r.consumed[j][t] <= r.consumption[j][t]
                /\ r.consumed[j][t] <= r.allocated[j][t]
           /\ GrandTotal(r.consumed) + GrandTotal(r.residual) = GrandTotal(Demand)
           /\ \A t \in Steps :
                PerStep(r.consumed)[t] + PerStep(r.surplus)[t] = PerStep(r.allocated)[t]
<1> DEFINE it == key[Len(done) + 1]
           r == done'[Len(done) + 1]
<1>1. /\ r = IterationResult(it, Demand, Carried)
      /\ IsIteration(it) /\ Consumers \subseteq DOMAIN it.pct
      /\ Demand \in Matrices /\ Carried \in [Steps -> Nat]
      /\ Demand' = r.residual /\ Carried' = PerStep(r.surplus)
  BY IterateShape
<1>2. C \in Matrices /\ production \in [Steps -> Nat]
  BY DEF SolveTypeOK
<1> HIDE DEF it, r
<1>3. /\ r \in IterationResults /\ r.consumption = Demand /\ r.available = Available(it, Carried)
      /\ \A j \in Consumers : \A t \in Steps :
           /\ r.consumed[j][t] + r.residual[j][t] = Demand[j][t]
           /\ r.consumed[j][t] <= Demand[j][t]
           /\ r.consumed[j][t] <= r.allocated[j][t]
  BY <1>1, <1>2, CellsBalance
<1>4. /\ GrandTotal(r.consumed) + GrandTotal(r.residual) = GrandTotal(Demand)
      /\ \A t \in Steps :
           PerStep(r.consumed)[t] + PerStep(r.surplus)[t] = PerStep(r.allocated)[t]
  BY <1>1, <1>2, SumsBalance
<1> QED BY <1>1, <1>3, <1>4 DEF it, r

\* No other step of the solver touches what the cascade has.
LEMMA StepShape ==
  ASSUME [SolveNext]_solveVars
  PROVE  Iterate \/ UNCHANGED <<key, C, production, done>>
BY DEF SolveNext, RefuseInput, RollUp, solveVars

LEMMA StepSolveType ==
  ASSUME SolveTypeOK, [SolveNext]_solveVars
  PROVE  SolveTypeOK'
<1>1. CASE Iterate
  BY <1>1, IterateShape DEF SolveTypeOK, Iterate
<1>2. CASE UNCHANGED <<key, C, production, done>>
  BY <1>2 DEF SolveTypeOK, SolveNext, RefuseInput, RollUp, Iterate, solveVars
<1> QED BY <1>1, <1>2, StepShape

\* EnergyIsAccountedFor, over one iteration.
LEMMA StepEnergy ==
  ASSUME SolveTypeOK, EnergyIsAccountedFor, [SolveNext]_solveVars
  PROVE  EnergyIsAccountedFor'
<1>1. CASE UNCHANGED <<key, C, production, done>>
  BY <1>1 DEF EnergyIsAccountedFor, Demand, Latest
<1>2. CASE Iterate
  <2> SUFFICES ASSUME NEW j \in Consumers, NEW t \in Steps
               PROVE  SumFunction([i \in DOMAIN done' |-> done'[i].consumed[j][t]]) + Demand'[j][t]
                        = C[j][t]
    BY <1>2 DEF EnergyIsAccountedFor, Iterate
  <2> DEFINE n == Len(done)
             f == [i \in DOMAIN done |-> done[i].consumed[j][t]]
             g == [i \in DOMAIN done' |-> done'[i].consumed[j][t]]
  <2>1. PICK r \in IterationResults :
          /\ r = done'[n + 1] /\ Demand' = r.residual
          /\ r.consumed[j][t] + r.residual[j][t] = Demand[j][t]
    BY <1>2, IterateBalance
  <2>2. \A i \in 1..(n + 1) : g[i] \in Nat
    BY <1>2, IterateShape, ResultType DEF Matrices
  <2>3. n \in Nat /\ DOMAIN f = 1..n /\ DOMAIN g = 1..(n + 1) /\ \A i \in 1..n : f[i] = g[i]
    BY <1>2, IterateShape
  <2>4. SumFunction(f) + Demand[j][t] = C[j][t]
    BY DEF EnergyIsAccountedFor
  <2>5. g[n + 1] = r.consumed[j][t]
    BY <2>1, <2>3
  <2>6. r.residual[j][t] \in Nat
    BY ResultType DEF Matrices
  <2> HIDE DEF f, g, n
  <2>7. /\ SumFunction(f) \in Nat /\ g[n + 1] \in Nat
        /\ SumFunction(g) = SumFunction(f) + g[n + 1]
    BY <2>2, <2>3, SumGrows
  <2> QED BY <2>1, <2>4, <2>5, <2>6, <2>7 DEF g
<1> QED BY <1>1, <1>2, StepShape

\* NoEnergyFromNowhere, over one iteration: what it consumes and leaves over is
\* what it allocates, and that is at most its share and what it was carried.
LEMMA StepNoEnergy ==
  ASSUME SolveTypeOK, NoEnergyFromNowhere, [SolveNext]_solveVars
  PROVE  NoEnergyFromNowhere'
<1>1. CASE UNCHANGED <<key, C, production, done>>
  BY <1>1 DEF NoEnergyFromNowhere, WithinWhole, Carried, Latest, PerStep
<1>2. CASE Iterate
  <2> DEFINE n == Len(done)
  <2> SUFFICES ASSUME NEW t \in Steps, \A i \in DOMAIN done' : WithinWhole(i, t)'
               PROVE  SumFunction([i \in DOMAIN done' |-> PerStep(done'[i].consumed)[t]]) + Carried'[t]
                        <= SumFunction([i \in DOMAIN done' |-> (production[t] * key[i].share) \div Whole])
    BY <1>2 DEF NoEnergyFromNowhere, Iterate, PerStep
  <2> DEFINE f == [i \in DOMAIN done |-> PerStep(done[i].consumed)[t]]
             g == [i \in DOMAIN done' |-> PerStep(done'[i].consumed)[t]]
             p == [i \in DOMAIN done |-> (production[t] * key[i].share) \div Whole]
             q == [i \in DOMAIN done' |-> (production[t] * key[i].share) \div Whole]
  <2>1. /\ n \in Nat /\ DOMAIN done = 1..n /\ DOMAIN done' = 1..(n + 1)
        /\ \A i \in 1..n : done'[i] = done[i]
        /\ done' \in Seq(IterationResults)
    BY <1>2, IterateShape
  <2>2. PICK r \in IterationResults :
          /\ r = done'[n + 1]
          /\ Carried \in [Steps -> Nat] /\ Carried' = PerStep(r.surplus)
          /\ r.available = Available(key[n + 1], Carried)
          /\ PerStep(r.consumed)[t] + PerStep(r.surplus)[t] = PerStep(r.allocated)[t]
    BY <1>2, IterateBalance
  <2>3. \A i \in DOMAIN done : WithinWhole(i, t)
    BY <2>1 DEF WithinWhole
  <2>4. SumFunction(f) + Carried[t] <= SumFunction(p)
    BY <2>3 DEF NoEnergyFromNowhere
  <2>5. PerStep(r.allocated)[t] <= q[n + 1] + Carried[t]
    <3>1. SumFunction([j \in Consumers |-> r.allocated[j][t]]) <= r.available[t]
      BY <2>1, <2>2 DEF WithinWhole
    <3>2. r.available[t] = q[n + 1] + Carried[t]
      BY <1>2, <2>1, <2>2 DEF Available, Iterate
    <3> QED BY <3>1, <3>2 DEF PerStep
  <2>6. \A i \in 1..(n + 1) : g[i] \in Nat
    BY <2>1, ResultType, MatrixType
  <2>7. \A i \in 1..(n + 1) : q[i] \in Nat
    <3>1. ASSUME NEW i \in 1..(n + 1) PROVE key[i].share \in Nat
      <4>1. key \in Seq(Range(key)) /\ key \in Keys /\ i \in DOMAIN key
        BY <1>2, <2>1, SolveAssumption DEF SolveTypeOK, Iterate
      <4> QED BY <4>1, SolveAssumption DEF IsIteration
    <3>2. production[t] \in Nat
      BY DEF SolveTypeOK
    <3> QED BY <2>1, <3>1, <3>2, SolveAssumption, QuotientType
  <2>8. /\ DOMAIN f = 1..n /\ DOMAIN g = 1..(n + 1) /\ \A i \in 1..n : f[i] = g[i]
        /\ DOMAIN p = 1..n /\ DOMAIN q = 1..(n + 1) /\ \A i \in 1..n : p[i] = q[i]
    BY <2>1
  <2>9. g[n + 1] = PerStep(r.consumed)[t]
    BY <2>1, <2>2
  <2>10. PerStep(r.surplus)[t] \in Nat /\ PerStep(r.allocated)[t] \in Nat /\ Carried[t] \in Nat
    BY <2>2, ResultType, MatrixType
  <2> HIDE DEF f, g, p, q, n
  <2>11. /\ SumFunction(f) \in Nat /\ g[n + 1] \in Nat
         /\ SumFunction(g) = SumFunction(f) + g[n + 1]
    BY <2>1, <2>6, <2>8, SumGrows
  <2>12. /\ SumFunction(p) \in Nat /\ q[n + 1] \in Nat
         /\ SumFunction(q) = SumFunction(p) + q[n + 1]
    BY <2>1, <2>7, <2>8, SumGrows
  <2>13. SumFunction(g) + Carried'[t] <= SumFunction(q)
    BY <2>2, <2>4, <2>5, <2>9, <2>10, <2>11, <2>12
  <2> QED BY <2>13 DEF g, q
<1> QED BY <1>1, <1>2, StepShape

LEMMA StepConsumesWithinBoth ==
  ASSUME SolveTypeOK, ConsumesWithinBoth, [SolveNext]_solveVars
  PROVE  ConsumesWithinBoth'
<1>1. CASE UNCHANGED <<key, C, production, done>>
  BY <1>1 DEF ConsumesWithinBoth
<1>2. CASE Iterate
  <2>1. \E r \in IterationResults :
          /\ r = done'[Len(done) + 1]
          /\ \A j \in Consumers : \A t \in Steps :
                r.consumed[j][t] <= r.consumption[j][t] /\ r.consumed[j][t] <= r.allocated[j][t]
    BY <1>2, IterateBalance
  <2> QED BY <1>2, <2>1, IterateShape DEF ConsumesWithinBoth
<1> QED BY <1>1, <1>2, StepShape

\* The totals over every timestep and consumer, over one iteration.
LEMMA StepTotals ==
  ASSUME SolveTypeOK, TotalsBalance, [SolveNext]_solveVars
  PROVE  TotalsBalance'
<1>1. CASE UNCHANGED <<key, C, production, done>>
  BY <1>1 DEF TotalsBalance, Demand, Latest, GrandTotal, Total, PerStep
<1>2. CASE Iterate
  <2> DEFINE n == Len(done)
             f == [i \in DOMAIN done |-> GrandTotal(done[i].consumed)]
             g == [i \in DOMAIN done' |-> GrandTotal(done'[i].consumed)]
  <2>1. /\ n \in Nat /\ DOMAIN done = 1..n /\ DOMAIN done' = 1..(n + 1)
        /\ \A i \in 1..n : done'[i] = done[i]
        /\ done' \in Seq(IterationResults)
    BY <1>2, IterateShape
  <2>2. PICK r \in IterationResults :
          /\ r = done'[n + 1] /\ Demand' = r.residual /\ r.consumption = Demand
          /\ GrandTotal(r.consumed) + GrandTotal(r.residual) = GrandTotal(Demand)
    BY <1>2, IterateBalance
  <2>3. done'[1].consumption = C'
    <3>1. CASE done = <<>>
      BY <1>2, <2>2, <3>1 DEF Demand, Iterate
    <3>2. CASE done # <<>>
      <4>1. 1 \in 1..n
        BY <2>1, <3>2 DEF SolveTypeOK
      <4> QED BY <1>2, <2>1, <3>2, <4>1 DEF TotalsBalance, Iterate
    <3> QED BY <3>1, <3>2
  <2>4. \A i \in 1..(n + 1) : g[i] \in Nat
    BY <2>1, ResultType, MatrixType
  <2>5. DOMAIN f = 1..n /\ DOMAIN g = 1..(n + 1) /\ \A i \in 1..n : f[i] = g[i]
    BY <2>1
  <2>6. SumFunction(f) + GrandTotal(Demand) = GrandTotal(C)
    BY DEF TotalsBalance
  <2>7. g[n + 1] = GrandTotal(r.consumed) /\ GrandTotal(r.residual) \in Nat
    BY <2>1, <2>2, ResultType, MatrixType
  <2> HIDE DEF f, g, n
  <2>8. /\ SumFunction(f) \in Nat /\ g[n + 1] \in Nat
        /\ SumFunction(g) = SumFunction(f) + g[n + 1]
    BY <2>1, <2>4, <2>5, SumGrows
  <2>9. SumFunction(g) + GrandTotal(Demand') = GrandTotal(C)
    BY <2>2, <2>6, <2>7, <2>8
  <2> QED BY <1>2, <2>3, <2>9 DEF TotalsBalance, g, Iterate, GrandTotal, Total, PerStep
<1> QED BY <1>1, <1>2, StepShape

LEMMA StepHeadline ==
  ASSUME SolveTypeOK, HeadlineIsRolledUp, [SolveNext]_solveVars
  PROVE  HeadlineIsRolledUp'
<1>1. CASE RollUp
  <2>1. done # <<>>
    <3>1. key \in Seq(Range(key)) /\ key # <<>>
      BY <1>1, SolveAssumption DEF RollUp, SolveTypeOK
    <3>2. Len(key) # 0
      BY <3>1
    <3> QED BY <1>1, <3>2 DEF RollUp
  <2> QED BY <1>1, <2>1 DEF RollUp, HeadlineIsRolledUp, RollUps, Latest, GrandTotal, Total, PerStep
<1>2. CASE UNCHANGED solveVars
  BY <1>2 DEF HeadlineIsRolledUp, RollUps, Latest, GrandTotal, Total, PerStep, solveVars
<1>3. CASE RefuseInput \/ Iterate
  BY <1>3 DEF HeadlineIsRolledUp, RefuseInput, Iterate
<1> QED BY <1>1, <1>2, <1>3 DEF SolveNext

-----------------------------------------------------------------------------
(***************************************************************************)
(* Rates.                                                                  *)
(***************************************************************************)

\* The rates of a series no larger than the one it is divided by.
LEMMA RatesOfShares ==
  ASSUME NEW num \in [Steps -> Nat], NEW den \in [Steps -> Nat],
         \A t \in Steps : num[t] <= den[t], Steps # {}
  PROVE  /\ AtMostOne(Rate(Total(num), Total(den)))
         /\ \A t \in Steps : AtMostOne(RateSeries(num, den)[t])
         /\ \E t \in Steps : AtMost(Rate(Total(num), Total(den)), RateSeries(num, den)[t])
<1> DEFINE N == Total(num)
           D == Total(den)
           rates == RateSeries(num, den)
<1>1. N \in Nat /\ D \in Nat /\ N <= D
  BY TotalType, TotalAtMost
<1>2. \A t \in Steps :
        rates[t] = IF N = 0 \/ D = 0 THEN Rate(0, 1) ELSE Rate(num[t], den[t])
  BY DEF RateSeries
<1>3. AtMostOne(Rate(N, D))
  <2> HIDE DEF N, D
  <2> QED BY <1>1 DEF Rate, AtMostOne
<1>4. \A t \in Steps : AtMostOne(rates[t])
  <2> SUFFICES ASSUME NEW t \in Steps PROVE AtMostOne(rates[t])
    OBVIOUS
  <2>1. rates[t] = [num |-> 0, den |-> 1] \/ (den[t] # 0 /\ rates[t] = [num |-> num[t], den |-> den[t]])
    BY <1>2 DEF Rate
  <2>2. num[t] \in Nat /\ den[t] \in Nat /\ num[t] <= den[t]
    OBVIOUS
  <2> HIDE DEF rates
  <2> QED BY <2>1, <2>2 DEF AtMostOne
<1>5. \E t \in Steps : AtMost(Rate(N, D), rates[t])
  <2>1. CASE N = 0
    <3>1. PICK t \in Steps : TRUE
      OBVIOUS
    <3>2. rates[t] = [num |-> 0, den |-> 1]
      BY <1>2, <2>1 DEF Rate
    <3>3. Rate(N, D).num = 0 /\ Rate(N, D).den \in Nat
      BY <1>1, <2>1 DEF Rate
    <3> HIDE DEF rates
    <3> QED BY <3>2, <3>3 DEF AtMost
  <2>2. CASE N # 0
    <3>1. D # 0
      BY <1>1, <2>2
    <3>2. SumFunctionOnSet(den, Steps) = D /\ SumFunctionOnSet(num, Steps) = N
      BY StepSums
    <3> HIDE DEF N, D
    <3>3. PICK t \in Steps : den[t] # 0 /\ N * den[t] <= num[t] * D
      <4>1. \A x \in Steps : num[x] \in Nat /\ den[x] \in Nat /\ num[x] <= den[x]
        OBVIOUS
      <4>2. \E x \in Steps : /\ den[x] # 0
                             /\ SumFunctionOnSet(num, Steps) * den[x]
                                  <= num[x] * SumFunctionOnSet(den, Steps)
        BY <3>1, <3>2, <4>1, SolveAssumption, SumRatio
      <4> QED BY <3>2, <4>2
    <3>4. rates[t] = [num |-> num[t], den |-> den[t]] /\ Rate(N, D) = [num |-> N, den |-> D]
      BY <1>2, <2>2, <3>1, <3>3 DEF Rate
    <3> HIDE DEF rates
    <3> QED BY <3>3, <3>4 DEF AtMost
  <2> QED BY <2>1, <2>2
<1> QED BY <1>3, <1>4, <1>5

\* What an iteration's rates are taken of is within what they are taken by.
LEMMA SharesAreWithin ==
  ASSUME SolveTypeOK, ConsumesWithinBoth, NEW i \in DOMAIN done
  PROVE  /\ PerStep(done[i].consumed) \in [Steps -> Nat]
         /\ PerStep(done[i].consumption) \in [Steps -> Nat] /\ done[i].available \in [Steps -> Nat]
         /\ \A t \in Steps : PerStep(done[i].consumed)[t] <= PerStep(done[i].consumption)[t]
         /\ (\A t \in Steps : WithinWhole(i, t)) =>
               \A t \in Steps : PerStep(done[i].consumed)[t] <= done[i].available[t]
<1> DEFINE consumed == done[i].consumed
           consumption == done[i].consumption
           allocated == done[i].allocated
           available == done[i].available
<1>1. /\ consumed \in Matrices /\ consumption \in Matrices /\ allocated \in Matrices
      /\ available \in [Steps -> Nat]
  BY ResultType DEF SolveTypeOK
<1>2. \A j \in Consumers : \A t \in Steps :
        consumed[j][t] <= consumption[j][t] /\ consumed[j][t] <= allocated[j][t]
  BY DEF ConsumesWithinBoth
<1>3. ASSUME NEW t \in Steps, WithinWhole(i, t) PROVE PerStep(allocated)[t] <= available[t]
  BY <1>3 DEF WithinWhole, PerStep
<1> HIDE DEF consumed, consumption, allocated, available
<1>4. /\ PerStep(consumed) \in [Steps -> Nat] /\ PerStep(consumption) \in [Steps -> Nat]
      /\ PerStep(allocated) \in [Steps -> Nat]
  BY <1>1, MatrixType
<1>5. \A t \in Steps : /\ PerStep(consumed)[t] <= PerStep(consumption)[t]
                       /\ PerStep(consumed)[t] <= PerStep(allocated)[t]
  BY <1>1, <1>2, MatrixAtMost
<1>6. ASSUME NEW t \in Steps, WithinWhole(i, t) PROVE PerStep(consumed)[t] <= available[t]
  BY <1>1, <1>3, <1>4, <1>5, <1>6
<1> QED BY <1>1, <1>4, <1>5, <1>6 DEF consumed, consumption, available

\* HeadlineAddsUp, from the totals.
LEMMA HeadlineBalances ==
  ASSUME SolveTypeOK, TotalsBalance, HeadlineIsRolledUp, solve = "solved"
  PROVE  /\ headline.consumption = GrandTotal(C)
         /\ headline.consumed + headline.residual = headline.consumption
         /\ headline.consumed \in Nat /\ headline.residual \in Nat
<1>1. /\ done # <<>> /\ headline = RollUps /\ done[1].consumption = C
      /\ SumFunction([i \in DOMAIN done |-> GrandTotal(done[i].consumed)]) + GrandTotal(Demand)
           = GrandTotal(C)
  BY DEF HeadlineIsRolledUp, TotalsBalance
<1>2. Demand = Latest.residual
  BY <1>1 DEF Demand
<1>3. /\ headline.consumption = GrandTotal(C) /\ headline.residual = GrandTotal(Demand)
      /\ headline.consumed = SumFunction([i \in DOMAIN done |-> GrandTotal(done[i].consumed)])
  BY <1>1, <1>2 DEF RollUps
<1>4. headline.residual \in Nat
  <2>1. Len(done) \in DOMAIN done
    BY <1>1 DEF SolveTypeOK
  <2>2. Latest \in IterationResults
    BY <2>1 DEF Latest, SolveTypeOK
  <2> QED BY <1>2, <1>3, <2>2, ResultType, MatrixType
<1>5. headline.consumed \in Nat
  <2> DEFINE f == [i \in DOMAIN done |-> GrandTotal(done[i].consumed)]
  <2>1. \A i \in DOMAIN done : f[i] \in Nat
    <3>1. \A i \in DOMAIN done : done[i] \in IterationResults
      BY DEF SolveTypeOK
    <3> QED BY <3>1, ResultType, MatrixType
  <2>2. IsFiniteSet(DOMAIN done)
    BY FS_Interval DEF SolveTypeOK
  <2>3. DOMAIN f = DOMAIN done
    OBVIOUS
  <2>4. headline.consumed = SumFunctionOnSet(f, DOMAIN done)
    BY <1>3, <2>3 DEF SumFunction
  <2> HIDE DEF f
  <2> QED BY <2>1, <2>2, <2>4, SumIsNat
<1> QED BY <1>1, <1>3, <1>4, <1>5

-----------------------------------------------------------------------------
(***************************************************************************)
(* The result of a run.                                                    *)
(***************************************************************************)

CascadeBalances ==
  /\ SolveTypeOK
  /\ EnergyIsAccountedFor /\ NoEnergyFromNowhere
  /\ ConsumesWithinBoth /\ TotalsBalance /\ HeadlineIsRolledUp

\* Nothing but the solver touches the cascade.
LEMMA StepIsSolvers ==
  ASSUME [Next]_vars
  PROVE  [SolveNext]_solveVars
BY Zenon DEF Next, vars, Solving, WriteSeries, UploadSeries, CommitResult, DeleteRow, DeleteObject,
       AskSeries, OpenObject, ReadChunk, TransportError, EndOfObject

LEMMA InitBalances ==
  ASSUME Init
  PROVE  CascadeBalances
<1>1. /\ done = <<>> /\ solve # "solved" /\ SolveTypeOK
  <2>1. CASE SolveInit
    <3>1. done = <<>> /\ solve = "solving" /\ key \in Keys /\ C \in Matrices /\ production \in [Steps -> Nat]
      BY <2>1, SolveAssumption DEF SolveInit
    <3>2. key \in Seq(Range(key))
      BY <3>1, SolveAssumption
    <3> QED BY <3>1, <3>2 DEF SolveTypeOK
  <2>2. CASE /\ solve = "idle" /\ key = <<>> /\ done = <<>>
             /\ C = [j \in Consumers |-> [t \in Steps |-> 0]]
             /\ production = [t \in Steps |-> 0]
    <3>1. C \in Matrices
      BY <2>2 DEF Matrices
    <3> QED BY <2>2, <3>1 DEF SolveTypeOK
  <2> QED BY <2>1, <2>2 DEF Init
<1>2. DOMAIN done = {} /\ Demand = C /\ Carried = [t \in Steps |-> 0]
  BY <1>1 DEF Demand, Carried
<1>3. ASSUME NEW f, DOMAIN f = {} PROVE SumFunction(f) = 0
  BY <1>3, SumOfNothing DEF SumFunction
<1>4. EnergyIsAccountedFor
  <2> SUFFICES ASSUME NEW j \in Consumers, NEW t \in Steps
               PROVE  SumFunction([i \in DOMAIN done |-> done[i].consumed[j][t]]) + Demand[j][t]
                        = C[j][t]
    BY DEF EnergyIsAccountedFor
  <2>1. SumFunction([i \in DOMAIN done |-> done[i].consumed[j][t]]) = 0
    BY <1>2, <1>3
  <2>2. C[j][t] \in Nat
    BY <1>1 DEF SolveTypeOK, Matrices
  <2> QED BY <1>2, <2>1, <2>2
<1>5. NoEnergyFromNowhere
  <2> SUFFICES ASSUME NEW t \in Steps
               PROVE  SumFunction([i \in DOMAIN done |-> PerStep(done[i].consumed)[t]]) + Carried[t]
                        <= SumFunction([i \in DOMAIN done |-> (production[t] * key[i].share) \div Whole])
    BY DEF NoEnergyFromNowhere
  <2>1. /\ SumFunction([i \in DOMAIN done |-> PerStep(done[i].consumed)[t]]) = 0
        /\ SumFunction([i \in DOMAIN done |-> (production[t] * key[i].share) \div Whole]) = 0
    BY <1>2, <1>3
  <2> QED BY <1>2, <2>1
<1>6. TotalsBalance
  <2>1. SumFunction([i \in DOMAIN done |-> GrandTotal(done[i].consumed)]) = 0
    BY <1>2, <1>3
  <2>2. GrandTotal(C) \in Nat
    BY <1>1, MatrixType DEF SolveTypeOK
  <2> QED BY <1>1, <1>2, <2>1, <2>2 DEF TotalsBalance
<1> QED BY <1>1, <1>2, <1>4, <1>5, <1>6 DEF CascadeBalances, ConsumesWithinBoth, HeadlineIsRolledUp

LEMMA StepBalances ==
  ASSUME CascadeBalances, [Next]_vars
  PROVE  CascadeBalances'
BY StepIsSolvers, StepSolveType, StepEnergy, StepNoEnergy, StepConsumesWithinBoth, StepTotals,
   StepHeadline
   DEF CascadeBalances

\* The cascade balances throughout, for any key and amounts.
LEMMA CascadeHolds == Spec => []CascadeBalances
<1>1. Init => CascadeBalances
  BY InitBalances
<1>2. CascadeBalances /\ [Next]_vars => CascadeBalances'
  BY StepBalances
<1> QED BY <1>1, <1>2, PTL DEF Spec

\* The cascade of iterations serves no demand twice and forgets none.
THEOREM CascadeAccountsForAll == Spec => []EnergyIsAccountedFor
<1>1. CascadeBalances => EnergyIsAccountedFor
  BY DEF CascadeBalances
<1> QED BY <1>1, CascadeHolds, PTL

\* The surplus fed back into the next iteration is never counted twice.
THEOREM CascadeMakesNoEnergy == Spec => []NoEnergyFromNowhere
<1>1. CascadeBalances => NoEnergyFromNowhere
  BY DEF CascadeBalances
<1> QED BY <1>1, CascadeHolds, PTL

\* The roll-ups, taken from different iterations, balance.
THEOREM RollUpsBalance == Spec => []HeadlineAddsUp
<1>1. CascadeBalances => HeadlineAddsUp
  BY HeadlineBalances DEF CascadeBalances, HeadlineAddsUp
<1> QED BY <1>1, CascadeHolds, PTL

\* The guards against zero denominators hide no rate above one, for a run of at
\* least one timestep: a series of none has no timestep to compare with.
THEOREM RatesStayShares ==
  ASSUME Steps # {}
  PROVE  Spec => []RatesAreShares
<1>1. CascadeBalances => RatesAreShares
  <2> SUFFICES ASSUME CascadeBalances PROVE RatesAreShares
    OBVIOUS
  <2> USE DEF CascadeBalances
  <2>1. ASSUME NEW i \in DOMAIN done
        PROVE  /\ AtMostOne(SufficiencyRate(done[i]))
               /\ \A t \in Steps : AtMostOne(SufficiencyRates(done[i])[t])
               /\ \E t \in Steps : AtMost(SufficiencyRate(done[i]), SufficiencyRates(done[i])[t])
    BY SharesAreWithin, RatesOfShares DEF SufficiencyRate, SufficiencyRates, GrandTotal
  <2>2. ASSUME NEW i \in DOMAIN done, \A t \in Steps : WithinWhole(i, t)
        PROVE  /\ \A t \in Steps : AtMostOne(SharingRates(done[i])[t])
               /\ \E t \in Steps : AtMost(SharingRate(done[i]), SharingRates(done[i])[t])
    BY <2>2, SharesAreWithin, RatesOfShares DEF SharingRate, SharingRates, GrandTotal
  <2>3. ASSUME solve = "solved" PROVE AtMostOne(KeySufficiencyRate)
    BY <2>3, HeadlineBalances DEF KeySufficiencyRate, Rate, AtMostOne
  <2> QED BY <2>1, <2>2, <2>3 DEF RatesAreShares
<1> QED BY <1>1, CascadeHolds, PTL

-----------------------------------------------------------------------------
(***************************************************************************)
(* The stored document.                                                    *)
(***************************************************************************)

\* g puts the first n of seqs together, one after the other.
Joins(g, seqs, n) ==
  \A i \in 1..n : g[i] = IF i = 1 THEN seqs[i] ELSE g[i - 1] \o seqs[i]

LEMMA JoinsExists ==
  ASSUME NEW seqs, NEW n \in Nat
  PROVE  \E g : Joins(g, seqs, n)
<1> DEFINE B == {m \in Nat : ~ \E g : Joins(g, seqs, m)}
<1> SUFFICES ASSUME B # {} PROVE FALSE
  OBVIOUS
<1>1. PICK m \in B : \A k \in B : m <= k
  <2>1. B \subseteq Nat
    OBVIOUS
  <2> HIDE DEF B
  <2> QED BY <2>1, LeastNumber
<1>2. m # 0
  BY DEF Joins
<1>3. PICK g : Joins(g, seqs, m - 1)
  BY <1>1, <1>2
<1> DEFINE h == [i \in 1..m |-> IF i < m THEN g[i]
                               ELSE IF i = 1 THEN seqs[i] ELSE g[i - 1] \o seqs[i]]
<1>4. Joins(h, seqs, m)
  BY <1>2, <1>3 DEF Joins
<1> QED BY <1>1, <1>4

LEMMA ConcatType ==
  ASSUME NEW S, NEW a \in Seq(S), NEW b \in Seq(S)
  PROVE  /\ a \o b \in Seq(S) /\ Len(a \o b) = Len(a) + Len(b)
         /\ Len(a) \in Nat /\ Len(b) \in Nat
OBVIOUS

\* FlattenSeq is that, at the last of them.
LEMMA FlattenIs ==
  ASSUME NEW T, NEW seqs \in Seq(T), Len(seqs) # 0
  PROVE  \E g : Joins(g, seqs, Len(seqs)) /\ FlattenSeq(seqs) = g[Len(seqs)]
<1> DEFINE n == Len(seqs)
           flatten == CHOOSE g : g = [i \in 1..n |->
                        IF i = 1 THEN seqs[i] ELSE g[i - 1] \o seqs[i]]
<1>0. n \in Nat /\ n # 0
  OBVIOUS
<1>1. FlattenSeq(seqs) = flatten[n]
  BY <1>0 DEF FlattenSeq
<1>2. PICK g : Joins(g, seqs, n)
  <2> HIDE DEF n
  <2> QED BY <1>0, JoinsExists
<1> DEFINE h == [i \in 1..n |-> g[i]]
<1>3. h = [i \in 1..n |-> IF i = 1 THEN seqs[i] ELSE h[i - 1] \o seqs[i]]
  <2>1. ASSUME NEW i \in 1..n
        PROVE  h[i] = IF i = 1 THEN seqs[i] ELSE h[i - 1] \o seqs[i]
    BY <1>2 DEF Joins
  <2> QED BY <2>1
<1>4. flatten = [i \in 1..n |-> IF i = 1 THEN seqs[i] ELSE flatten[i - 1] \o seqs[i]]
  BY <1>3
<1> HIDE DEF flatten, n
<1>5. Joins(flatten, seqs, n)
  BY <1>4 DEF Joins
<1> QED BY <1>1, <1>5 DEF n

\* What FlattenSeq makes of sequences is a sequence of what they hold.
LEMMA FlattenType ==
  ASSUME NEW S, NEW seqs \in Seq(Seq(S))
  PROVE  FlattenSeq(seqs) \in Seq(S)
<1> DEFINE n == Len(seqs)
<1>0. n \in Nat
  OBVIOUS
<1>1. CASE n = 0
  BY <1>1 DEF FlattenSeq
<1>2. CASE n # 0
  <2>1. PICK flatten : Joins(flatten, seqs, n) /\ FlattenSeq(seqs) = flatten[n]
    BY <1>2, FlattenIs
  <2>4. \A i \in 1..n : flatten[i] = IF i = 1 THEN seqs[i] ELSE flatten[i - 1] \o seqs[i]
    BY <2>1 DEF Joins
  <2> DEFINE B == {i \in 1..n : flatten[i] \notin Seq(S)}
  <2>5. B = {}
    <3> SUFFICES ASSUME B # {} PROVE FALSE
      OBVIOUS
    <3>1. B \subseteq Nat
      BY <1>0
    <3>2. PICK i \in B : \A k \in B : i <= k
      <4> HIDE DEF B
      <4> QED BY <3>1, LeastNumber
    <3>3. seqs[i] \in Seq(S) /\ i \in 1..n
      OBVIOUS
    <3>4. CASE i = 1
      BY <2>4, <3>3, <3>4
    <3>5. CASE i # 1
      <4>1. i - 1 \in 1..n /\ i - 1 \notin B
        BY <1>0, <3>2, <3>3, <3>5
      <4>2. flatten[i] = flatten[i - 1] \o seqs[i]
        BY <2>4, <3>3, <3>5
      <4>3. flatten[i - 1] \in Seq(S)
        BY <4>1
      <4>4. flatten[i] \in Seq(S)
        BY <4>2, <4>3, <3>3, ConcatType, Zenon
      <4> QED BY <4>4, <3>2
    <3> QED BY <3>4, <3>5
  <2>6. n \in 1..n
    BY <1>0, <1>2
  <2> QED BY <2>1, <2>5, <2>6
<1> QED BY <1>1, <1>2

LEMMA SymbolsAre ==
  /\ \A c \in {"{", "}", "[", "]"} : Mark(c) \in Symbols
  /\ \A n \in MemberNames : Name(n) \in Symbols
  /\ \A n \in Int : Number(n) \in Symbols
  /\ Quote \in Symbols /\ Comma \in Symbols /\ Colon \in Symbols
<1>1. /\ {Mark(c) : c \in {"quote", "backslash", "-", ",", ":", "{", "}", "[", "]"}} \subseteq Symbols
      /\ {Name(n) : n \in MemberNames} \subseteq Symbols
      /\ {"number"} \X Int \subseteq Symbols
  BY Zenon DEF Symbols
<1>2. ASSUME NEW n \in Int PROVE Number(n) \in Symbols
  BY <1>1 DEF Number
<1> QED BY <1>1, <1>2 DEF Quote, Comma, Colon

LEMMA OneType ==
  ASSUME NEW S, NEW x \in S
  PROVE  <<x>> \in Seq(S) /\ Len(<<x>>) = 1
OBVIOUS

LEMMA TextsAre ==
  /\ Names \subseteq Seq(Symbols) /\ Values \subseteq Seq(Symbols)
  /\ \A values \in Seq(Values) : values \in Seq(Seq(Symbols))
<1>1. Names \subseteq Seq(Symbols)
  BY DEF Names
<1>2. NumberTexts \subseteq Seq(Symbols)
  <2>1. Numbers \union {Minus} \subseteq Symbols
    <3>1. /\ {Mark(c) : c \in {"quote", "backslash", "-", ",", ":", "{", "}", "[", "]"}} \subseteq Symbols
          /\ {"number"} \X Int \subseteq Symbols
      BY Zenon DEF Symbols
    <3> QED BY <3>1 DEF Numbers, Minus
  <2>2. NumberTexts \subseteq Seq(Numbers \union {Minus})
    BY DEF NumberTexts
  <2> HIDE DEF Numbers, Minus
  <2> QED BY <2>1, <2>2, SeqMonotonic
<1>3. {NaN, Infinity, NegativeInfinity} \subseteq Seq(Symbols)
  <2>1. /\ ToSet(NaN) \subseteq Symbols /\ ToSet(Infinity) \subseteq Symbols
        /\ Minus \in Symbols
    <3>1. /\ {Mark(c) : c \in {"quote", "backslash", "-", ",", ":", "{", "}", "[", "]"}} \subseteq Symbols
          /\ ToSet(NaN) \subseteq Symbols /\ ToSet(Infinity) \subseteq Symbols
      BY Zenon DEF Symbols
    <3> QED BY <3>1 DEF Minus
  <2>2. /\ NaN = <<NaN[1], NaN[2]>> /\ NaN[1] \in ToSet(NaN) /\ NaN[2] \in ToSet(NaN)
        /\ Infinity = <<Infinity[1], Infinity[2]>>
        /\ Infinity[1] \in ToSet(Infinity) /\ Infinity[2] \in ToSet(Infinity)
    BY DEF NaN, Infinity, ToSet
  <2>3. NegativeInfinity = <<Minus>> \o Infinity
    BY DEF NegativeInfinity
  <2> HIDE DEF Minus
  <2>4. ASSUME NEW a \in Symbols, NEW b \in Symbols PROVE <<a, b>> \in Seq(Symbols)
    OBVIOUS
  <2>5. NaN \in Seq(Symbols) /\ Infinity \in Seq(Symbols)
    BY <2>1, <2>2, <2>4, Zenon
  <2>6. <<Minus>> \in Seq(Symbols)
    BY <2>1, OneType
  <2>7. NegativeInfinity \in Seq(Symbols)
    BY <2>3, <2>5, <2>6, ConcatType, Zenon
  <2> QED BY <2>5, <2>7, Zenon
<1>4. Values \subseteq Seq(Symbols)
  BY <1>2, <1>3 DEF Values
<1>5. ASSUME NEW values \in Seq(Values) PROVE values \in Seq(Seq(Symbols))
  BY <1>4, SeqMonotonic
<1> QED BY <1>1, <1>4, <1>5

LEMMA EachType ==
  ASSUME NEW S, NEW n \in Nat, NEW f \in [1..n -> S]
  PROVE  f \in Seq(S) /\ Len(f) = n
OBVIOUS

LEMMA SeparatedType ==
  ASSUME NEW parts \in Seq(Seq(Symbols))
  PROVE  Separated(parts) \in Seq(Symbols)
<1> DEFINE cut == [i \in DOMAIN parts |-> IF i = 1 THEN parts[i] ELSE <<Comma>> \o parts[i]]
<1>1. <<Comma>> \in Seq(Symbols)
  BY SymbolsAre, OneType
<1>2. ASSUME NEW i \in DOMAIN parts PROVE cut[i] \in Seq(Symbols)
  <2>1. parts[i] \in Seq(Symbols)
    OBVIOUS
  <2>2. <<Comma>> \o parts[i] \in Seq(Symbols)
    BY <1>1, <2>1, ConcatType, Zenon
  <2> QED BY <2>1, <2>2
<1>3. cut \in Seq(Seq(Symbols))
  <2>1. cut \in [1..Len(parts) -> Seq(Symbols)] /\ Len(parts) \in Nat
    BY <1>2
  <2> HIDE DEF cut
  <2> QED BY <2>1, EachType
<1> HIDE DEF cut
<1>4. FlattenSeq(cut) \in Seq(Symbols)
  BY <1>3, FlattenType
<1> QED BY <1>4 DEF Separated, cut

LEMMA StrType ==
  ASSUME NEW content \in Seq(Symbols)
  PROVE  Str(content) \in Seq(Symbols)
<1>1. <<Quote>> \in Seq(Symbols)
  BY SymbolsAre, OneType
<1> QED BY <1>1, ConcatType, Zenon DEF Str

\* What stands between a mark before it and one after is not empty.
LEMMA MarkedType ==
  ASSUME NEW a, NEW b, Mark(a) \in Symbols, Mark(b) \in Symbols, NEW inner \in Seq(Symbols)
  PROVE  /\ <<Mark(a)>> \o inner \o <<Mark(b)>> \in Seq(Symbols)
         /\ <<Mark(a)>> \o inner \o <<Mark(b)>> # <<>>
<1> DEFINE x == <<Mark(a)>>
           y == <<Mark(b)>>
<1>1. x \in Seq(Symbols) /\ Len(x) = 1 /\ y \in Seq(Symbols) /\ Len(y) = 1
  BY OneType
<1> HIDE DEF x, y
<1>2. x \o inner \in Seq(Symbols)
  BY <1>1, ConcatType, Zenon
<1>3. x \o inner \o y \in Seq(Symbols) /\ Len(x \o inner \o y) = Len(x \o inner) + Len(y)
  BY <1>1, <1>2, ConcatType, Zenon
<1>4. Len(x \o inner) = Len(x) + Len(inner) /\ Len(inner) \in Nat
  BY <1>1, ConcatType, Zenon
<1>5. x \o inner \o y # <<>>
  <2> DEFINE all == x \o inner \o y
  <2>1. all \in Seq(Symbols) /\ Len(all) = Len(x \o inner) + Len(y)
    BY <1>3
  <2>2. Len(x \o inner) + Len(y) # 0
    BY <1>1, <1>4
  <2> HIDE DEF all
  <2>3. all # <<>>
    BY <2>1, <2>2
  <2> QED BY <2>3 DEF all
<1> QED BY <1>3, <1>5 DEF x, y

\* Two members between braces.
LEMMA BracedType ==
  ASSUME NEW m1 \in Seq(Symbols), NEW m2 \in Seq(Symbols)
  PROVE  <<Mark("{")>> \o m1 \o m2 \o <<Mark("}")>> \in Seq(Symbols)
<1> DEFINE open == <<Mark("{")>>
           close == <<Mark("}")>>
<1>1. open \in Seq(Symbols) /\ close \in Seq(Symbols)
  BY SymbolsAre, OneType, Zenon
<1> HIDE DEF open, close
<1>2. open \o m1 \in Seq(Symbols)
  BY <1>1, ConcatType, Zenon
<1>3. open \o m1 \o m2 \in Seq(Symbols)
  BY <1>2, ConcatType, Zenon
<1>4. open \o m1 \o m2 \o close \in Seq(Symbols)
  BY <1>1, <1>3, ConcatType, Zenon
<1> QED BY <1>4 DEF open, close

LEMMA ListType ==
  ASSUME NEW values \in Seq(Seq(Symbols))
  PROVE  List(values) \in Seq(Symbols)
<1>1. Separated(values) \in Seq(Symbols)
  BY SeparatedType
<1> QED BY <1>1, SymbolsAre, MarkedType, Zenon DEF List

LEMMA MemberType ==
  ASSUME NEW name \in MemberNames, NEW value \in Seq(Symbols)
  PROVE  Member(name, value) \in Seq(Symbols)
<1>1. <<Name(name)>> \in Seq(Symbols) /\ <<Colon>> \in Seq(Symbols)
  BY SymbolsAre, OneType
<1>2. Str(<<Name(name)>>) \in Seq(Symbols)
  BY <1>1, StrType
<1>3. Str(<<Name(name)>>) \o <<Colon>> \in Seq(Symbols)
  BY <1>1, <1>2, ConcatType, Zenon
<1> QED BY <1>3, ConcatType, Zenon DEF Member

LEMMA SeriesMembersType ==
  ASSUME NEW names \in Seq(MemberNames), NEW series,
         \A i \in DOMAIN names : series[names[i]] \in Seq(Seq(Symbols))
  PROVE  SeriesMembers(names, series) \in Seq(Symbols)
<1> DEFINE members == [i \in DOMAIN names |-> <<Comma>> \o Member(names[i], List(series[names[i]]))]
<1>1. ASSUME NEW i \in DOMAIN names PROVE members[i] \in Seq(Symbols)
  <2>1. names[i] \in MemberNames /\ List(series[names[i]]) \in Seq(Symbols)
    BY ListType
  <2>2. Member(names[i], List(series[names[i]])) \in Seq(Symbols)
    BY <2>1, MemberType
  <2>3. <<Comma>> \in Seq(Symbols)
    BY SymbolsAre, OneType
  <2>4. <<Comma>> \o Member(names[i], List(series[names[i]])) \in Seq(Symbols)
    BY <2>2, <2>3, ConcatType, Zenon
  <2> QED BY <2>4
<1>2. members \in Seq(Seq(Symbols))
  <2>1. members \in [1..Len(names) -> Seq(Symbols)] /\ Len(names) \in Nat
    BY <1>1
  <2> HIDE DEF members
  <2> QED BY <2>1, EachType
<1> HIDE DEF members
<1>3. FlattenSeq(members) \in Seq(Symbols)
  BY <1>2, FlattenType
<1> QED BY <1>3 DEF SeriesMembers, members

LEMMA ConsumerObjectType ==
  ASSUME NEW c, IsConsumerDocument(c)
  PROVE  ConsumerObject(c) \in Seq(Symbols)
<1> DEFINE title == c.name
           series == c.series
           m1 == Member("name", Str(title))
           m2 == SeriesMembers(ConsumerSeries, series)
<1>1. /\ title \in Seq(Symbols)
      /\ \A n \in ToSet(ConsumerSeries) : series[n] \in Seq(Seq(Symbols))
  BY TextsAre DEF IsConsumerDocument
<1>2. "name" \in MemberNames /\ ToSet(ConsumerSeries) \subseteq MemberNames
  BY Zenon DEF MemberNames
<1> HIDE DEF title, series
<1>3. m1 \in Seq(Symbols)
  BY <1>1, <1>2, StrType, MemberType, Zenon
<1>4. ConsumerSeries \in Seq(MemberNames)
  BY SeriesAssumption, <1>2
<1>5. ASSUME NEW i \in DOMAIN ConsumerSeries PROVE series[ConsumerSeries[i]] \in Seq(Seq(Symbols))
  <2>1. ConsumerSeries[i] \in ToSet(ConsumerSeries)
    BY SeriesAssumption
  <2> QED BY <1>1, <2>1
<1>6. m2 \in Seq(Symbols)
  BY <1>4, <1>5, SeriesMembersType, Zenon
<1> HIDE DEF m1, m2
<1>7. m1 \o m2 \in Seq(Symbols)
  BY <1>3, <1>6, ConcatType, Zenon
<1>8. ConsumerObject(c) = <<Mark("{")>> \o m1 \o m2 \o <<Mark("}")>>
  BY Zenon DEF ConsumerObject, m1, m2, title, series
<1> QED BY <1>3, <1>6, <1>7, <1>8, BracedType, Zenon

LEMMA IterationObjectType ==
  ASSUME NEW it, IsIterationDocument(it)
  PROVE  IterationObject(it) \in Seq(Symbols)
<1> DEFINE number == it.number
           series == it.series
           consumers == it.consumers
           objects == [i \in DOMAIN consumers |-> ConsumerObject(consumers[i])]
           m1 == Member("number", <<Number(number)>>)
           m2 == SeriesMembers(IterationSeries, series)
           m3 == Member("consumers", List(objects))
<1>1. /\ number \in Int
      /\ \A n \in ToSet(IterationSeries) : series[n] \in Seq(Seq(Symbols))
      /\ consumers \in Seq(ToSet(consumers))
      /\ \A c \in ToSet(consumers) : IsConsumerDocument(c)
  BY TextsAre DEF IsIterationDocument
<1>2. /\ "number" \in MemberNames /\ "consumers" \in MemberNames
      /\ ToSet(IterationSeries) \subseteq MemberNames
  BY Zenon DEF MemberNames
<1> HIDE DEF number, series, consumers
<1>3. <<Number(number)>> \in Seq(Symbols)
  BY <1>1, SymbolsAre, OneType
<1>4. m1 \in Seq(Symbols)
  BY <1>2, <1>3, MemberType, Zenon
<1>5. IterationSeries \in Seq(MemberNames)
  BY SeriesAssumption, <1>2
<1>6. ASSUME NEW i \in DOMAIN IterationSeries PROVE series[IterationSeries[i]] \in Seq(Seq(Symbols))
  <2>1. IterationSeries[i] \in ToSet(IterationSeries)
    BY SeriesAssumption
  <2> QED BY <1>1, <2>1
<1>7. m2 \in Seq(Symbols)
  BY <1>5, <1>6, SeriesMembersType, Zenon
<1>8. objects \in Seq(Seq(Symbols))
  <2>1. ASSUME NEW i \in DOMAIN consumers PROVE ConsumerObject(consumers[i]) \in Seq(Symbols)
    <3>1. consumers[i] \in ToSet(consumers)
      BY DEF ToSet
    <3> QED BY <1>1, <3>1, ConsumerObjectType
  <2>2. objects \in [1..Len(consumers) -> Seq(Symbols)] /\ Len(consumers) \in Nat
    BY <1>1, <2>1
  <2> HIDE DEF objects
  <2> QED BY <2>2, EachType
<1> HIDE DEF objects
<1>9. m3 \in Seq(Symbols)
  BY <1>2, <1>8, ListType, MemberType, Zenon
<1>10. IterationObject(it) = <<Mark("{")>> \o m1 \o m2 \o <<Comma>> \o m3 \o <<Mark("}")>>
  BY Zenon DEF IterationObject, m1, m2, m3, objects, number, series, consumers
<1> HIDE DEF m1, m2, m3
<1> DEFINE open == <<Mark("{")>>
           close == <<Mark("}")>>
           comma == <<Comma>>
<1>11. open \in Seq(Symbols) /\ close \in Seq(Symbols) /\ comma \in Seq(Symbols)
  BY SymbolsAre, OneType, Zenon
<1> HIDE DEF open, close, comma
<1>12. open \o m1 \in Seq(Symbols)
  BY <1>4, <1>11, ConcatType, Zenon
<1>13. open \o m1 \o m2 \in Seq(Symbols)
  BY <1>7, <1>12, ConcatType, Zenon
<1>14. open \o m1 \o m2 \o comma \in Seq(Symbols)
  BY <1>11, <1>13, ConcatType, Zenon
<1>15. open \o m1 \o m2 \o comma \o m3 \in Seq(Symbols)
  BY <1>9, <1>14, ConcatType, Zenon
<1>16. open \o m1 \o m2 \o comma \o m3 \o close \in Seq(Symbols)
  BY <1>11, <1>15, ConcatType, Zenon
<1> QED BY <1>10, <1>16, Zenon DEF open, close, comma

\* No document is empty: a stored one is never taken for a missing one.
LEMMA DocumentIsSomething ==
  ASSUME NEW its, IsDocument(its)
  PROVE  WriteJson(its) # <<>>
<1> DEFINE objects == [i \in DOMAIN its |-> IterationObject(its[i])]
           m == Member("iterations", List(objects))
<1>1. objects \in Seq(Seq(Symbols))
  <2>1. ASSUME NEW i \in DOMAIN its PROVE IterationObject(its[i]) \in Seq(Symbols)
    <3>1. its[i] \in ToSet(its)
      BY DEF ToSet
    <3> QED BY <3>1, IterationObjectType DEF IsDocument
  <2>2. objects \in [1..Len(its) -> Seq(Symbols)] /\ Len(its) \in Nat
    BY <2>1 DEF IsDocument
  <2> HIDE DEF objects
  <2> QED BY <2>2, EachType
<1>2. "iterations" \in MemberNames
  BY Zenon DEF MemberNames
<1> HIDE DEF objects
<1>3. m \in Seq(Symbols)
  BY <1>1, <1>2, ListType, MemberType, Zenon
<1>4. WriteJson(its) = <<Mark("{")>> \o m \o <<Mark("}")>>
  BY Zenon DEF WriteJson, m, objects
<1> HIDE DEF m
<1> QED BY <1>3, <1>4, SymbolsAre, MarkedType, Zenon

-----------------------------------------------------------------------------
(***************************************************************************)
(* What a request that reads a result is answered.                         *)
(***************************************************************************)

\* A row that succeeded has its object, and only a row that did, or a deleted
\* one, has a request past _result_storage_key.
RowHasItsObject ==
  /\ status = "SUCCESS" => object # <<>>
  /\ phase = "open" => status # "PENDING"

LEMMA InitReads ==
  ASSUME Init
  PROVE  TypeOK /\ RowHasItsObject
<1>1. SolveTypeOK
  BY InitBalances DEF CascadeBalances
<1>2. status = "SUCCESS" => object # <<>>
  <2>1. CASE status = "SUCCESS" /\ written \in OldDocuments /\ object = WriteJson(written)
    <3>1. IsDocument(written)
      BY <2>1, RunResultAssumption
    <3> QED BY <2>1, <3>1, DocumentIsSomething
  <2> QED BY <2>1 DEF Init
<1> QED BY <1>1, <1>2 DEF Init, ReaderStart, TypeOK, RowHasItsObject

LEMMA StepReads ==
  ASSUME TypeOK, RowHasItsObject, [Next]_vars
  PROVE  TypeOK' /\ RowHasItsObject'
<1>1. SolveTypeOK'
  BY StepIsSolvers, StepSolveType DEF TypeOK
<1> USE DEF TypeOK, RowHasItsObject
<1>2. CASE Solving \/ WriteSeries \/ UNCHANGED vars
  BY <1>1, <1>2 DEF Solving, WriteSeries, storedVars, readerVars, vars
<1>3. CASE UploadSeries \/ CommitResult \/ DeleteRow \/ DeleteObject
  BY <1>1, <1>3 DEF UploadSeries, CommitResult, DeleteRow, DeleteObject, readerVars
<1>4. CASE AskSeries \/ OpenObject
  BY <1>1, <1>4 DEF AskSeries, OpenObject, Answer, storedVars
<1>5. CASE ReadChunk
  <2>1. UNCHANGED <<code, points, status, object>> /\ phase \in {"reading", "sending"}
        /\ phase' \in {phase, "sending"}
    BY <1>5, Zenon DEF ReadChunk, storedVars
  <2> QED BY <1>1, <2>1
<1>6. CASE TransportError \/ EndOfObject
  <2>1. UNCHANGED <<points, status, object>> /\ phase \in {"open", "reading", "sending"}
        /\ \/ phase' = "aborted" /\ UNCHANGED code
           \/ phase' = "answered" /\ code' \in {200, 500}
    BY <1>6 DEF TransportError, EndOfObject, Answer, storedVars
  <2> QED BY <1>1, <2>1
<1> QED BY <1>2, <1>3, <1>4, <1>5, <1>6 DEF Next

\* Every answer has a status the API gives, and only an answered request has one.
THEOREM ResultTypes == Spec => []TypeOK
<1>1. Init => TypeOK /\ RowHasItsObject
  BY InitReads
<1>2. TypeOK /\ RowHasItsObject /\ [Next]_vars => (TypeOK /\ RowHasItsObject)'
  BY StepReads
<1> QED BY <1>1, <1>2, PTL DEF Spec

\* A 404 to a request that found its row means the run was deleted since.
THEOREM OnlyDeletedIsNotFound == Spec => NotFoundMeansDeleted
<1>1. Init => TypeOK /\ RowHasItsObject
  BY InitReads
<1>2. TypeOK /\ RowHasItsObject /\ [Next]_vars => (TypeOK /\ RowHasItsObject)'
  BY StepReads
<1>3. TypeOK /\ RowHasItsObject /\ [Next]_vars => [phase = "open" /\ code' = 404 => status' = "gone"]_vars
  <2> SUFFICES ASSUME TypeOK, RowHasItsObject, Next, phase = "open", code' = 404
               PROVE  status' = "gone"
    OBVIOUS
  <2>1. code = 0 /\ status \in {"SUCCESS", "gone"}
    BY DEF TypeOK, RowHasItsObject
  <2>2. CASE UNCHANGED code
    BY <2>1, <2>2
  <2>3. CASE OpenObject
    BY <2>1, <2>3 DEF OpenObject, Answer, RowHasItsObject, storedVars
  <2>4. CASE TransportError
    BY <2>1, <2>4 DEF TransportError, Answer
  <2>5. CASE EndOfObject
    BY <2>1, <2>5 DEF EndOfObject
  <2>6. CASE ~(OpenObject \/ TransportError \/ EndOfObject)
    <3>1. UNCHANGED code \/ AskSeries
      BY <2>6, Zenon DEF Next, Solving, WriteSeries, UploadSeries, CommitResult, DeleteRow,
         DeleteObject, ReadChunk, readerVars
    <3> QED BY <2>1, <2>2, <3>1 DEF AskSeries
  <2> QED BY <2>3, <2>4, <2>5, <2>6
<1> QED BY <1>1, <1>2, <1>3, PTL DEF Spec, NotFoundMeansDeleted
=============================================================================
