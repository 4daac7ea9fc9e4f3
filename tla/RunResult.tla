------------------------------ MODULE RunResult ------------------------------
(***************************************************************************)
(* A run's result, from the solve to the answers of the API.               *)
(*                                                                         *)
(* The solver process computes the result (Solve) and writes its series as *)
(* a document; the worker stores the document as an object and the totals  *)
(* as rows, in that order (worker/persistence.py); a request reads the     *)
(* series back while another may delete the run (api/simulation/           *)
(* service.py).  The object may also be an older one, of a worker that did *)
(* not refuse unusable input and stored NaN and Infinity.                  *)
(***************************************************************************)
EXTENDS Solve, TimeseriesReader

CONSTANTS ConsumerNames,   \* ConsumerNames[j]: consumer j's name, in symbols
          ConsumerOrder,   \* consumer_names: the consumers in their order
          ReadBack,        \* the keys whose result is read back: bounds the runs
          OldDocuments,    \* documents older workers left
          ChunkSizes,      \* what a read of the stream may return
          MaxPoints,       \* the max_points requests give; 0 for none
          TooLarge         \* FULL_TIMESERIES_MAX_BYTES, in symbols

\* The series of a result that are amounts of energy.
SolvedSeries ==
  {"consumption", "energy_allocated", "energy_allocated_consumed", "residual_volume", "surplus"}

ASSUME RunResultAssumption ==
  /\ ConsumerNames \in [Consumers -> Names]
  /\ ConsumerOrder \in Seq(Consumers) /\ ToSet(ConsumerOrder) = Consumers
  /\ Steps = 1..Cardinality(Steps)
  /\ ToSet(IterationSeries) \union ToSet(ConsumerSeries) \subseteq SolvedSeries
  /\ ReadBack \subseteq Keys /\ \A its \in OldDocuments : IsDocument(its)
  /\ ChunkSizes \subseteq Nat \ {0} /\ MaxPoints \subseteq Nat /\ TooLarge \in Nat

VARIABLES
  file,       \* the temporary file's document; <<>> before it is written
  written,    \* the iterations of the stored or about to be stored document
  status,     \* the row: "PENDING", "SUCCESS", "gone"
  rows,       \* the iteration rows of the result tree
  object,     \* the stored document; <<>> when there is none
  phase,      \* of the request that reads: "none", "open", "reading",
              \* "sending", then "answered" or "aborted"
  code,       \* the status it answered with, 0 before
  points,     \* its max_points, 0 when it asked for the whole document
  rest,       \* what storage has still to stream of the object it opened
  kept,       \* what _pieces keeps between two chunks
  response,   \* as_api_response
  sample      \* _IterationReader

storedVars == <<file, written, status, rows, object>>
readerVars == <<phase, code, points, rest, kept, response, sample>>
vars == <<solveVars, storedVars, readerVars>>

Encoded(series) == [i \in 1..Len(series) |-> <<Number(series[i])>>]
InOrder(series) == Encoded([t \in 1..Cardinality(Steps) |-> series[t]])

\* An iteration's series by name, and those of one of its consumers.
SeriesOf(result) ==
  [consumption |-> InOrder(PerStep(result.consumption)),
   energy_allocated |-> InOrder(result.available),
   energy_allocated_consumed |-> InOrder(PerStep(result.consumed)),
   residual_volume |-> InOrder(PerStep(result.residual)),
   surplus |-> InOrder(PerStep(result.surplus))]
ConsumerSeriesOf(result, j) ==
  [consumption |-> InOrder(result.consumption[j]),
   energy_allocated |-> InOrder(result.allocated[j]),
   energy_allocated_consumed |-> InOrder(result.consumed[j]),
   residual_volume |-> InOrder(result.residual[j]),
   surplus |-> InOrder(result.surplus[j])]

\* What write_json finds in the result.
ResultSeries ==
  [i \in DOMAIN done |->
     [number |-> done[i].number,
      series |-> SeriesOf(done[i]),
      consumers |-> [p \in DOMAIN ConsumerOrder |->
        [name |-> ConsumerNames[ConsumerOrder[p]],
         series |-> ConsumerSeriesOf(done[i], ConsumerOrder[p])]]]]

\* _build_key_result: a row per iteration, with its totals.
IterationRow(result) ==
  [number |-> result.number,
   consumption |-> GrandTotal(result.consumption),
   energy_allocated |-> Total(result.available),
   energy_allocated_consumed |-> GrandTotal(result.consumed),
   residual_volume |-> GrandTotal(result.residual),
   surplus |-> GrandTotal(result.surplus)]

\* A mistaken DetailIterations: the last row inserted comes first.
DetailIterationsLatestFirst == SetToSortSeq(rows, LAMBDA a, b : a.number > b.number)

\* to_key_result_schema: the rows in the order of their numbers.
DetailIterations == SetToSortSeq(rows, LAMBDA a, b : a.number < b.number)

ReaderStart ==
  /\ phase = "none" /\ code = 0 /\ points = 0 /\ rest = <<>>
  /\ kept = NotInString /\ response = ResponseStart /\ sample = SampleStart

\* A run about to be solved, or one an older worker left.
Init ==
  /\ ReaderStart
  /\ rows = {} /\ file = <<>>
  /\ \/ /\ SolveInit
        /\ written = <<>> /\ status = "PENDING" /\ object = <<>>
     \/ /\ solve = "idle" /\ key = <<>> /\ done = <<>> /\ headline = NoHeadline
        /\ C = [j \in Consumers |-> [t \in Steps |-> 0]]
        /\ production = [t \in Steps |-> 0]
        /\ written \in OldDocuments
        /\ status = "SUCCESS" /\ object = WriteJson(written)

Solving == SolveNext /\ UNCHANGED <<storedVars, readerVars>>

\* to_temp_file; without_series keeps what the rows are built from.
WriteSeries ==
  /\ solve = "solved" /\ written = <<>> /\ key \in ReadBack
  /\ written' = ResultSeries
  /\ file' = WriteJson(written')
  /\ UNCHANGED <<solveVars, status, rows, object, readerVars>>

\* save_success uploads the series inside its transaction ...
UploadSeries ==
  /\ status = "PENDING" /\ file # <<>> /\ object = <<>>
  /\ object' = file
  /\ UNCHANGED <<solveVars, file, written, status, rows, readerVars>>

\* A mistaken CommitResult: the commit does not wait for the upload.
CommitBeforeUpload ==
  /\ status = "PENDING" /\ file # <<>>
  /\ status' = "SUCCESS"
  /\ rows' = {IterationRow(done[i]) : i \in DOMAIN done}
  /\ file' = <<>>
  /\ UNCHANGED <<solveVars, written, object, readerVars>>

\* ... and then commits the status and the rows; the file is removed.
CommitResult ==
  /\ status = "PENDING" /\ object # <<>>
  /\ status' = "SUCCESS"
  /\ rows' = {IterationRow(done[i]) : i \in DOMAIN done}
  /\ file' = <<>>
  /\ UNCHANGED <<solveVars, written, object, readerVars>>

\* delete_simulation of a run that succeeded: the row, then the object.
DeleteRow ==
  /\ status = "SUCCESS"
  /\ status' = "gone" /\ rows' = {}
  /\ UNCHANGED <<solveVars, file, written, object, readerVars>>

DeleteObject ==
  /\ status = "gone" /\ object # <<>>
  /\ object' = <<>>
  /\ UNCHANGED <<solveVars, file, written, status, rows, readerVars>>

Answer(c) == phase' = "answered" /\ code' = c

\* _result_storage_key: no row, or no key in it yet, is a 404.  A row has its key
\* exactly when it is SUCCESS: one commit sets both, and nothing clears the key.
AskSeries ==
  /\ phase = "none"
  /\ points' \in MaxPoints
  /\ IF status = "SUCCESS" THEN phase' = "open" /\ UNCHANGED code ELSE Answer(404)
  /\ UNCHANGED <<rest, kept, response, sample>>
  /\ UNCHANGED <<solveVars, storedVars>>

\* iter_object, up to its first chunk: nothing has been sent.
OpenObject ==
  /\ phase = "open"
  /\ \/ object = <<>> /\ Answer(404) /\ UNCHANGED rest
     \/ object # <<>> /\ points = 0 /\ Len(object) > TooLarge /\ Answer(422) /\ UNCHANGED rest
     \/ /\ object # <<>> /\ ~(points = 0 /\ Len(object) > TooLarge)
        /\ phase' = "reading" /\ rest' = object /\ UNCHANGED code
  /\ UNCHANGED <<points, kept, response, sample>>
  /\ UNCHANGED <<solveVars, storedVars>>

\* A chunk goes through _pieces to the reader the request asked for.  The
\* first one of a whole document commits the request to a 200.
ReadChunk ==
  /\ phase \in {"reading", "sending"} /\ rest # <<>>
  /\ \E n \in ChunkSizes :
       LET size == Least(n, Len(rest))
           split == SplitChunk(kept, SubSeq(rest, 1, size))
           SampleOne(state, piece) == SamplePiece(state, piece, points)
       IN  /\ rest' = SubSeq(rest, size + 1, Len(rest))
           /\ kept' = split.kept
           /\ IF points = 0
              THEN /\ response' = FoldLeft(PassThrough, response, split.pieces)
                   /\ phase' = "sending" /\ UNCHANGED sample
              ELSE /\ sample' = FoldLeft(SampleOne, sample, split.pieces)
                   /\ UNCHANGED <<phase, response>>
  /\ UNCHANGED <<code, points>>
  /\ UNCHANGED <<solveVars, storedVars>>

\* A storage error: a 500 before anything is sent, a broken response after.
TransportError ==
  /\ phase \in {"open", "reading", "sending"}
  /\ IF phase = "sending" THEN phase' = "aborted" /\ UNCHANGED code ELSE Answer(500)
  /\ UNCHANGED <<points, rest, kept, response, sample>>
  /\ UNCHANGED <<solveVars, storedVars>>

EndOfObject ==
  /\ phase \in {"reading", "sending"} /\ rest = <<>>
  /\ Answer(200)
  /\ IF points = 0
     THEN response' = ResponseEnd(response) /\ UNCHANGED sample
     ELSE sample' = EndMember(sample, points) /\ UNCHANGED response
  /\ UNCHANGED <<points, rest, kept>>
  /\ UNCHANGED <<solveVars, storedVars>>

Next ==
  \/ Solving
  \/ WriteSeries \/ UploadSeries \/ CommitResult
  \/ DeleteRow \/ DeleteObject
  \/ AskSeries \/ OpenObject \/ ReadChunk \/ TransportError \/ EndOfObject

Spec == Init /\ [][Next]_vars

-----------------------------------------------------------------------------
\* The stored series with null for every value JSON cannot hold.
Finite(values) == [i \in DOMAIN values |-> IF IsFinite(values[i]) THEN values[i] ELSE <<Null>>]
FiniteMembers(series) == [n \in DOMAIN series |-> Finite(series[n])]
Answerable ==
  [i \in DOMAIN written |->
     [number |-> written[i].number,
      series |-> FiniteMembers(written[i].series),
      consumers |-> [p \in DOMAIN written[i].consumers |->
        [name |-> written[i].consumers[p].name,
         series |-> FiniteMembers(written[i].consumers[p].series)]]]]

\* TypeOK.  Types of the solver's state and of the stored result's.
TypeOK ==
  /\ SolveTypeOK
  /\ status \in {"PENDING", "SUCCESS", "gone"}
  /\ phase \in {"none", "open", "reading", "sending", "answered", "aborted"}
  /\ code \in {0, 200, 404, 422, 500} /\ (code # 0) = (phase = "answered")
  /\ points \in MaxPoints \union {0}

\* StreamIsTheDocument.  However the stream is cut into chunks, what is sent of
\* a whole document is the start of the one answer JSON allows, with null for
\* NaN and Infinity and every name intact; it is all of it exactly when the
\* request ended well, so a cut response can never pass for a result
\* (timeseries_reader.py:96-124).
StreamIsTheDocument ==
  points = 0 /\ phase \in {"sending", "answered", "aborted"} =>
    LET whole == ResponsePrefix \o WriteJson(Answerable) \o ResponseSuffix
    IN  /\ IsPrefix(response.sent, whole)
        /\ (response.sent = whole) = (code = 200)

\* SampleIsTheSeries.  A sampled answer has, for each iteration in the stored
\* order, its own number and every stride-th value of its own series, at most
\* max_points of them, wherever the chunks were cut
\* (timeseries_reader.py:145-193).
SampleIsTheSeries ==
  points # 0 /\ code = 200 =>
    /\ Len(sample.iterations) = Len(written)
    /\ \A i \in DOMAIN written :
         LET read == sample.iterations[i]
             own == Answerable[i]
         IN  /\ DOMAIN read = Kept
             /\ read["number"] = <<Number(own.number)>>
             /\ \A n \in ToSet(IterationSeries) :
                  /\ Len(read[n]) <= points
                  /\ Len(own.series[n]) <= Len(read[n]) * sample.stride
                  /\ \A p \in DOMAIN read[n] : read[n][p] = own.series[n][(p - 1) * sample.stride + 1]

\* ReadersHoldLittle.  The pass-through never holds more than the flush size
\* and the letters it kept back, whatever the document's size
\* (timeseries_reader.py:99-100).
ReadersHoldLittle ==
  /\ Len(response.out) < FlushBytes + Len(ResponsePrefix)
  /\ Len(response.held) <= Len(NegativeInfinity)

\* DetailMatchesSeries.  The totals the detail lists come by another way than
\* the series: through the rows, in whatever order the database returns them.
\* Its i-th iteration is the i-th of a sampled answer, and each total is the
\* sum of the series it heads (mappers.py:58-74, persistence.py:50-97).
DetailMatchesSeries ==
  points # 0 /\ code = 200 /\ rows # {} =>
    /\ Len(DetailIterations) = Len(sample.iterations)
    /\ \A i \in DOMAIN sample.iterations :
         /\ sample.iterations[i]["number"] = <<Number(DetailIterations[i].number)>>
         /\ sample.stride = 1 =>
              \A n \in ToSet(IterationSeries) :
                 SumFunction([p \in DOMAIN sample.iterations[i][n] |-> sample.iterations[i][n][p][1][2]])
                   = DetailIterations[i][n]

\* NotFoundMeansDeleted.  A run whose row promised series answers 404 only if it
\* was deleted in between: the row never names an object not yet stored, nor
\* outlives it (persistence.py:108-111, service.py:410-415).
NotFoundMeansDeleted ==
  [][phase = "open" /\ code' = 404 => status' = "gone"]_vars
=============================================================================
