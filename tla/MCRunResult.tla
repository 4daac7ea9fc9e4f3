---------------------------- MODULE MCRunResult ----------------------------
(***************************************************************************)
(* RunResult for TLC: two consumers, one named with an escaped quote, a    *)
(* brace and the letters of NaN; keys of no, one, two and three iterations *)
(* with fixed and prorata shares; amounts in units every quotient divides; *)
(* and older documents with every kind of non-finite value.  The documents *)
(* of two iterations the worker writes are too large to be sent whole.     *)
(***************************************************************************)
EXTENDS RunResult

\* Two of the seven series of an iteration, one of the five of a consumer.
IterationSeriesRead == <<"energy_allocated_consumed", "surplus">>
ConsumerSeriesRead == <<"consumption">>

Unit == 288
InUnits(amounts) == [t \in Steps |-> Unit * amounts[t]]

Iteration(n, share, a, b) ==
  [number |-> n, share |-> share, pct |-> [j \in Consumers |-> IF j = "a" THEN a ELSE b]]
WithoutB == [number |-> 2, share |-> 1, pct |-> [j \in {"a"} |-> 1]]

TwoSteps == <<Iteration(1, 1, -1, -1), Iteration(2, 1, 2, 0)>>
Reversed == <<Iteration(3, 2, 0, 1), Iteration(5, 0, -1, -1)>>
AskedKeys ==
  {<<>>, <<Iteration(1, 1, -1, -1), WithoutB>>, TwoSteps, Reversed,
   <<Iteration(1, 1, 1, 1), Iteration(2, 0, -1, 1), Iteration(3, 1, 2, 0)>>}
  \union {<<Iteration(1, s, a, b)>> : s \in {1, 2}, a \in {-1, 0, 1, 2}, b \in {-1, 0, 1}}
  \union {<<Iteration(1, 1, a, b), Iteration(2, s, c, 1)>> :
            s \in {0, 1}, a \in {-1, 1}, b \in {-1, 1}, c \in {-1, 0, 1}}
ReadBackKeys == {TwoSteps, Reversed, <<Iteration(1, 2, 1, -1)>>}

AskedConsumptions ==
  {[j \in Consumers |-> InUnits(IF j = "a" THEN x ELSE y)] :
     x \in {<<0, 0>>, <<2, 1>>}, y \in {<<0, 0>>, <<1, 0>>, <<1, 2>>}}
AskedProductions == {InUnits(p) : p \in {<<0, 0>>, <<3, 0>>, <<2, 6>>}}

Order == <<"b", "a">>
NamesOf ==
  [j \in Consumers |-> IF j = "a" THEN <<Backslash, Quote, Mark("{")>> ELSE NaN]

Old(n, values) ==
  [number |-> n, series |-> [s \in ToSet(IterationSeries) |-> values],
   consumers |-> <<[name |-> <<Number(7), Backslash, Backslash>>,
                    series |-> [s \in ToSet(ConsumerSeries) |-> values]]>>]
OldOnes ==
  {<<Old(1, <<NaN, <<Number(1), Minus, Number(7)>>, NegativeInfinity, Infinity, <<Minus, Number(2)>>>>)>>,
   <<Old(1, <<Infinity, NaN>>), Old(2, <<>>)>>}
=============================================================================
