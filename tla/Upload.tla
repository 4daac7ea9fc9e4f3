------------------------------- MODULE Upload -------------------------------
(***************************************************************************)
(* An uploaded file, counted by the API without parsing it                 *)
(* (api/simulation/upload_shape.py) and parsed by the worker               *)
(* (shared/data_loading.py), and the limit both compare it with            *)
(* (shared/problem_size.py).                                               *)
(*                                                                         *)
(* A file is what the two of them can tell apart: its columns, those with  *)
(* a cell that is empty or no number, its data rows, and what the count    *)
(* goes by in a file of its kind.                                          *)
(***************************************************************************)
EXTENDS Integers, Sequences, FiniteSets

CONSTANTS Names,        \* participants' names and column labels
          MaxCells,     \* MAX_SIMULATION_CELLS
          MaxRows       \* data rows of a file

ASSUME UploadAssumption == MaxCells \in Nat /\ MaxRows \in Nat

Unknown == -1

\* Lines are ended by a line feed or by a bare carriage return, which pandas takes
\* for an end of line too.
\*   header: how the header's line ends
\*   joined: the data rows that no line feed parts from the line after them
\*   filler: line feeds too many, of blank lines or within a quoted field
CsvFiles ==
  {f \in [ext: {"csv"}, columns: SUBSET Names, unusable: SUBSET Names, rows: 0..MaxRows,
          header: {"lf", "cr"}, joined: 0..MaxRows, filler: 0..1] :
     f.joined <= f.rows /\ (f.joined = 0 \/ f.joined < f.rows + f.filler)}

\* dimension: the data rows of the dimension record, which may span cells that are
\* formatted but empty, or be out of date; pandas reads past it.
Workbooks ==
  [ext: {"xlsx"}, columns: SUBSET Names, unusable: SUBSET Names, rows: 0..MaxRows,
   dimension: (0..MaxRows) \union {Unknown}]

OtherFiles ==
  [ext: {"other"}, columns: SUBSET Names, unusable: SUBSET Names, rows: 0..MaxRows]

Files == CsvFiles \union Workbooks \union OtherFiles

\* problem_size.too_large: participants x timesteps x iterations.
TooLarge(participants, timesteps, iterations) ==
  participants * timesteps * iterations > MaxCells

\* Data rows after a header that ends in a bare CR leave it unreadable to the csv
\* module.
HeaderReadable(file) == file.header = "lf" \/ file.rows + file.filler = 0

\* Mistaken ones, which take the header away twice, or not at all.
MeasureLineFeeds(file) ==
  CASE file.ext = "csv" /\ HeaderReadable(file) -> file.rows - file.joined + file.filler - 1
    [] file.ext = "xlsx" -> file.dimension
    [] OTHER -> Unknown

MeasureWithHeader(file) ==
  CASE file.ext = "csv" /\ HeaderReadable(file) -> file.rows - file.joined + file.filler + 1
    [] file.ext = "xlsx" -> file.dimension
    [] OTHER -> Unknown

\* measure: the file's data rows, by its line feeds or by its dimension record;
\* Unknown when the count cannot tell.
Measure(file) ==
  CASE file.ext = "csv" /\ HeaderReadable(file) -> file.rows - file.joined + file.filler
    [] file.ext = "xlsx" -> file.dimension
    [] OTHER -> Unknown

\* What makes the count err on the low side, and on the high side.
MayCountLow(file) ==
  \/ file.ext = "csv" /\ file.joined > 0
  \/ file.ext = "xlsx" /\ file.dimension < file.rows
MayCountHigh(file) ==
  \/ file.ext = "csv" /\ file.filler > 0
  \/ file.ext = "xlsx" /\ file.dimension > file.rows

NoMatrix == [participants |-> 0, timesteps |-> 0]

\* data_loading.load, for the named columns in their order: a matrix of one row
\* per name, or NoMatrix when the file is refused.
Load(file, injection, names) ==
  IF \/ file.ext = "other"
     \/ names = <<>>
     \/ injection \notin file.columns
     \/ \E i \in DOMAIN names : names[i] \notin file.columns
     \/ \E i \in DOMAIN names : names[i] \in file.unusable
     \/ injection \in file.unusable
  THEN NoMatrix
  ELSE [participants |-> Len(names), timesteps |-> file.rows]
=============================================================================
