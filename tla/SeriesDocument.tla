--------------------------- MODULE SeriesDocument ---------------------------
(***************************************************************************)
(* The stored time series: what write_json (worker/timeseries.py) writes,  *)
(* and how _pieces (api/simulation/timeseries_reader.py) splits it at its  *)
(* strings while storage streams it.                                       *)
(*                                                                         *)
(* The document is a sequence of symbols.  A symbol stands for a byte, or  *)
(* for bytes no reader looks into: a whole number, a series' name.  What a *)
(* reader does look for, and a chunk may cut in two, keeps its parts: NaN  *)
(* and Infinity are two symbols each, -Infinity three, and a consumer's    *)
(* name is any sequence of symbols, quotes escaped.                        *)
(***************************************************************************)
EXTENDS SequencesExt, Integers

CONSTANTS IterationSeries,   \* _ITERATION_SERIES: names, in their order
          ConsumerSeries     \* _CONSUMER_SERIES

ASSUME SeriesAssumption ==
  /\ IterationSeries \in Seq(ToSet(IterationSeries))
  /\ ConsumerSeries \in Seq(ToSet(ConsumerSeries))

Mark(c) == <<"mark", c>>
Number(n) == <<"number", n>>
Name(n) == <<"name", n>>
Quote == Mark("quote")
Backslash == Mark("backslash")
Minus == Mark("-")
Comma == Mark(",")
Colon == Mark(":")
Null == <<"null", 0>>

\* What json.dumps writes for float("nan"), float("inf") and float("-inf").
NaN == <<<<"NaN", 1>>, <<"NaN", 2>>>>
Infinity == <<<<"Infinity", 1>>, <<"Infinity", 2>>>>
NegativeInfinity == <<Minus>> \o Infinity

\* The symbols of a document and of the answer around it, and the names the
\* members of both have.
MemberNames ==
  {"data", "error_code", "iterations", "number", "consumers", "name"}
    \union ToSet(IterationSeries) \union ToSet(ConsumerSeries)
Symbols ==
  {Mark(c) : c \in {"quote", "backslash", "-", ",", ":", "{", "}", "[", "]"}}
    \union {Name(n) : n \in MemberNames} \union ({"number"} \X Int) \union {Null}
    \union ToSet(NaN) \union ToSet(Infinity)

\* What json.dumps writes of a number: digits, and signs each before a digit;
\* and of the values that are none.
Numbers == {"number"} \X Int
NumberTexts ==
  {text \in Seq(Numbers \union {Minus}) :
     /\ text # <<>>
     /\ \A i \in DOMAIN text : text[i] = Minus => i + 1 \in DOMAIN text /\ text[i + 1] # Minus}
Values == NumberTexts \union {NaN, Infinity, NegativeInfinity}

\* What it writes of a name: escapes, a set of positions, has the \ before
\* every " and every other \ of it.
Names ==
  {content \in Seq(Symbols) : \E escapes \in SUBSET DOMAIN content : \A i \in DOMAIN content :
     IF i \in escapes
     THEN content[i] = Backslash /\ i + 1 \in DOMAIN content \ escapes
     ELSE content[i] \in {Quote, Backslash} => i - 1 \in escapes}

\* A document: its iterations, with the series each is written with.
IsConsumerDocument(c) ==
  /\ c.name \in Names
  /\ \A n \in ToSet(ConsumerSeries) : n \in DOMAIN c.series /\ c.series[n] \in Seq(Values)
IsIterationDocument(it) ==
  /\ it.number \in Int
  /\ \A n \in ToSet(IterationSeries) : n \in DOMAIN it.series /\ it.series[n] \in Seq(Values)
  /\ it.consumers \in Seq(ToSet(it.consumers))
  /\ \A c \in ToSet(it.consumers) : IsConsumerDocument(c)
IsDocument(its) == its \in Seq(ToSet(its)) /\ \A it \in ToSet(its) : IsIterationDocument(it)

Separated(parts) ==
  FlattenSeq([i \in DOMAIN parts |-> IF i = 1 THEN parts[i] ELSE <<Comma>> \o parts[i]])

Str(content) == <<Quote>> \o content \o <<Quote>>
List(values) == <<Mark("[")>> \o Separated(values) \o <<Mark("]")>>
Member(name, value) == Str(<<Name(name)>>) \o <<Colon>> \o value

\* A series is the sequence of its values, each the symbols json.dumps gives.
SeriesMembers(names, series) ==
  FlattenSeq([i \in DOMAIN names |-> <<Comma>> \o Member(names[i], List(series[names[i]]))])

ConsumerObject(c) ==
  <<Mark("{")>> \o Member("name", Str(c.name)) \o SeriesMembers(ConsumerSeries, c.series)
                \o <<Mark("}")>>

IterationObject(it) ==
  <<Mark("{")>> \o Member("number", <<Number(it.number)>>)
                \o SeriesMembers(IterationSeries, it.series)
                \o <<Comma>> \o Member("consumers", List([i \in DOMAIN it.consumers |-> ConsumerObject(it.consumers[i])]))
                \o <<Mark("}")>>

WriteJson(its) ==
  <<Mark("{")>> \o Member("iterations", List([i \in DOMAIN its |-> IterationObject(its[i])]))
                \o <<Mark("}")>>

-----------------------------------------------------------------------------
\* _pieces keeps, from chunk to chunk, the string it is inside of.
NotInString == [string |-> <<>>, escaped |-> FALSE]

Piece(isString, symbols) == [string |-> isString, text |-> symbols]

\* The pieces a chunk completes, and what _pieces keeps for the next one.
\* run: the symbols between strings since the last piece.
SplitSymbol(split, s) ==
  IF split.string = <<>>
  THEN IF s = Quote
       THEN [split EXCEPT !.string = <<s>>, !.run = <<>>,
               !.pieces = IF split.run = <<>> THEN @ ELSE Append(@, Piece(FALSE, split.run))]
       ELSE [split EXCEPT !.run = Append(@, s)]
  ELSE IF split.escaped
       THEN [split EXCEPT !.string = Append(@, s), !.escaped = FALSE]
       ELSE IF s = Quote
            THEN [split EXCEPT !.string = <<>>, !.pieces = Append(@, Piece(TRUE, Append(split.string, s)))]
            ELSE [split EXCEPT !.string = Append(@, s), !.escaped = (s = Backslash)]

SplitChunk(kept, chunk) ==
  LET split == FoldLeft(SplitSymbol,
                        [string |-> kept.string, escaped |-> kept.escaped, run |-> <<>>, pieces |-> <<>>],
                        chunk)
  IN  [kept |-> [string |-> split.string, escaped |-> split.escaped],
       pieces |-> IF split.run = <<>> THEN split.pieces
                  ELSE Append(split.pieces, Piece(FALSE, split.run))]
=============================================================================
