-------------------------- MODULE TimeseriesReader --------------------------
(***************************************************************************)
(* The two readers of a stored document (api/simulation/                   *)
(* timeseries_reader.py), each piece by piece: as_api_response passes it   *)
(* through, _IterationReader keeps each iteration's own series, sampled.   *)
(***************************************************************************)
EXTENDS SeriesDocument

CONSTANT FlushBytes   \* _FLUSH_BYTES, in symbols

ASSUME FlushAssumption == FlushBytes \in Nat \ {0}

NonFiniteLetters == {Minus} \union ToSet(NaN) \union ToSet(Infinity)

\* _nulls: every -Infinity, Infinity and NaN of the run becomes null.
NullSymbol(out, s) ==
  LET Ends(token) == s = Last(token) /\ IsSuffix(Front(token), out)
      Cut(token) == SubSeq(out, 1, Len(out) - Len(token) + 1) \o <<Null>>
  IN  CASE Ends(NegativeInfinity) -> Cut(NegativeInfinity)
        [] Ends(Infinity) /\ ~Ends(NegativeInfinity) -> Cut(Infinity)
        [] Ends(NaN) -> Cut(NaN)
        [] OTHER -> Append(out, s)
Nulls(run) == FoldLeft(NullSymbol, <<>>, run)

\* A mistaken UpToLetters: nothing is kept back.
UpToTheEnd(run) == Len(run)

\* How much of the run comes before the letters it ends with.
UpToLetters(run) ==
  LET others == {i \in DOMAIN run : run[i] \notin NonFiniteLetters}
  IN  IF others = {} THEN 0 ELSE Max(others)

ResponsePrefix == <<Mark("{"), Quote, Name("data"), Quote, Colon>>
ResponseSuffix == <<Comma, Quote, Name("error_code"), Quote, Colon, Number(0), Mark("}")>>

\* as_api_response: out is what it has not yielded, sent what it has.
ResponseStart == [out |-> ResponsePrefix, held |-> <<>>, sent |-> <<>>]

\* A mistaken Flushed: everything is kept for the last yield.
FlushedAtTheEnd(response) == response

Flushed(response) ==
  IF Len(response.out) >= FlushBytes
  THEN [response EXCEPT !.sent = @ \o response.out, !.out = <<>>]
  ELSE response

PassThrough(response, piece) ==
  LET run == response.held \o piece.text
      cut == UpToLetters(run)
  IN  Flushed(
        IF piece.string
        THEN [response EXCEPT !.out = @ \o Nulls(response.held) \o piece.text, !.held = <<>>]
        ELSE [response EXCEPT !.out = @ \o Nulls(SubSeq(run, 1, cut)),
                              !.held = SubSeq(run, cut + 1, Len(run))])

ResponseEnd(response) ==
  [response EXCEPT !.sent = @ \o response.out \o Nulls(response.held) \o ResponseSuffix,
                   !.out = <<>>, !.held = <<>>]

-----------------------------------------------------------------------------
\* _IterationReader: the members it has, by iteration; the one whose value it
\* reads ("none"), the iteration that one belongs to, and its text so far.
SampleStart ==
  [stride |-> 0, depth |-> 0, iterations |-> <<>>, member |-> "none", target |-> 0, text |-> <<>>]

Kept == {"number"} \union ToSet(IterationSeries)

\* raw_decode of an array: its values, up to the bracket that closes it.
DecodedList(text) ==
  LET close == SelectInSeq(text, LAMBDA s : s = Mark("]"))
      AddSymbol(values, s) ==
        IF s = Comma THEN Append(values, <<>>)
        ELSE Append(Front(values), Append(Last(values), s))
  IN  IF close = 2 THEN <<>> ELSE FoldLeft(AddSymbol, <<<<>>>>, SubSeq(text, 2, close - 1))

IsFinite(value) == value \notin {NaN, Infinity, NegativeInfinity}

\* A mistaken Stride: rounded down.
StrideRoundedDown(length, maxPoints) ==
  IF length < maxPoints THEN 1 ELSE length \div maxPoints

\* max(1, ceil(length / max_points))
Stride(length, maxPoints) ==
  LET needed == (length + maxPoints - 1) \div maxPoints
  IN  IF needed < 1 THEN 1 ELSE needed

EveryNth(values, n) ==
  [i \in 1..((Len(values) + n - 1) \div n) |-> values[(i - 1) * n + 1]]

\* _sample: the first series read sets the stride of all.
EndMember(sample, maxPoints) ==
  LET decoded == DecodedList(Tail(sample.text))
      stride == IF sample.stride = 0 THEN Stride(Len(decoded), maxPoints) ELSE sample.stride
      points == EveryNth(decoded, stride)
      Keep(value) == [sample.iterations EXCEPT ![sample.target] =
                        (sample.member :> value) @@ @]
      over == [sample EXCEPT !.member = "none", !.text = <<>>]
  IN  IF sample.member = "none" \/ sample.text = <<>> \/ Head(sample.text) # Colon
      THEN over
      ELSE IF sample.member = "number"
           THEN [over EXCEPT !.iterations = Keep(<<sample.text[2]>>)]
           ELSE [over EXCEPT !.stride = stride,
                   !.iterations = Keep([i \in DOMAIN points |->
                                          IF IsFinite(points[i]) THEN points[i] ELSE <<Null>>])]

\* The braces of a run give the depth; one that opens an iteration adds it.
CountBrace(sample, s) ==
  CASE s = Mark("{") ->
         [sample EXCEPT !.depth = @ + 1,
            !.iterations = IF sample.depth = 1 THEN Append(@, [n \in {} |-> <<>>]) ELSE @]
    [] s = Mark("}") -> [sample EXCEPT !.depth = @ - 1]
    [] OTHER -> sample

SampleRun(sample, text) ==
  FoldLeft(CountBrace, [sample EXCEPT !.text = IF sample.member = "none" THEN @ ELSE @ \o text], text)

\* At depth 2 a string is a key of an iteration.
SampleString(sample, text, maxPoints) ==
  LET ended == EndMember(sample, maxPoints)
  IN  IF ended.depth = 2 /\ ended.iterations # <<>> /\ text \in {Str(<<Name(k)>>) : k \in Kept}
      THEN [ended EXCEPT !.member = text[2][2], !.target = Len(ended.iterations)]
      ELSE ended

SamplePiece(sample, piece, maxPoints) ==
  IF piece.string THEN SampleString(sample, piece.text, maxPoints)
  ELSE SampleRun(sample, piece.text)
=============================================================================
