----------------------------- MODULE MCRunInput -----------------------------
(***************************************************************************)
(* RunInput for TLC: two consumers, a production site outside the key and  *)
(* a meter of another operation, over a local day of two instants and one  *)
(* of a single instant; a key with one or two iterations, well formed or   *)
(* not; and uploads around the size limit.                                 *)
(***************************************************************************)
EXTENDS RunInput

AllNames == {"a", " a", "b", "p", "x", "inj"}
Stripped == [n \in AllNames |-> IF n = " a" THEN "a" ELSE n]
MeterGross == [e \in {"a", "b", "p", "x"} |-> CASE e = "a" -> 1 [] e = "b" -> 2 [] OTHER -> 0]
MeterInj == [e \in {"a", "b", "p", "x"} |-> CASE e = "p" -> 3 [] e = "x" -> 7 [] OTHER -> 0]
Midnights == [d \in 0..2 |-> <<0, 2, 3>>[d + 1]]

AskedPeriods == {[first |-> f, last |-> l] : f \in 0..1, l \in 0..1}

Iteration(n, names) == [number |-> n, names |-> names]
AskedKeys ==
  {{Iteration(1, <<"a", "b">>)},
   {Iteration(2, <<"b", "a">>), Iteration(1, <<"a", "b">>)},
   {Iteration(1, <<" a", "b">>), Iteration(2, <<"a", "b">>)},
   {Iteration(1, <<"a", " a">>)}, {Iteration(1, <<>>)},
   {Iteration(1, <<"a", "b">>), Iteration(2, <<"a">>)},
   {Iteration(1, <<"a", "inj">>)}}

\* Files counted exactly, with every set of columns; and of well-formed columns,
\* those the count may get wrong.
SomeColumns == {{"a", "b", "inj"}, {" a", "a", "b", "x", "inj"}, {"a", "inj"}}
SomeUnusable == {{}, {"b"}, {"x"}, {"inj"}}
PlainFiles ==
  [ext: {"csv"}, columns: SomeColumns, unusable: SomeUnusable, rows: 0..MaxRows,
   header: {"lf"}, joined: {0}, filler: {0}]
    \union
  UNION {[ext: {"xlsx"}, columns: SomeColumns, unusable: SomeUnusable, rows: {n},
          dimension: {n}] : n \in 0..MaxRows}
    \union
  [ext: {"other"}, columns: SomeColumns, unusable: SomeUnusable, rows: 0..MaxRows]
OddFiles ==
  [ext: {"csv"}, columns: {{"a", "b", "inj"}}, unusable: {{}}, rows: 0..MaxRows,
   header: {"lf", "cr"}, joined: 0..MaxRows, filler: 0..1]
    \union
  [ext: {"xlsx"}, columns: {{"a", "b", "inj"}}, unusable: {{}}, rows: 0..MaxRows,
   dimension: (0..MaxRows) \union {Unknown}]
AskedFiles == (PlainFiles \union OddFiles) \intersect Files
=============================================================================
