----------------------------- MODULE ScanColumns -----------------------------
(***************************************************************************)
(* The columns of one scan of _scan.py.  The engine asks for a projection, *)
(* _apply widens it by what the predicate left to Polars has to read,      *)
(* iter_frames asks Lance for the stored ones among them, Lance adds the   *)
(* columns it generates, and what was added on the way down is dropped     *)
(* again on the way up.  LanceScan has the rows of the same scan.          *)
(***************************************************************************)
EXTENDS PythonNone, Selection, SequencesExt

CONSTANTS Stored,      \* the columns of the dataset, in order
          Generated,   \* the columns Lance can add, in the order it adds them
          Virtual      \* VIRTUAL_COLUMNS, by which names they are told from stored ones

Names == ToSet(Stored) \cup ToSet(Generated)   \* what a column can be called

\* None stands for every column, and for no predicate.
ASSUME ColumnsAssumption ==
  /\ Stored \in Seq(Names) /\ Generated \in Seq(Names) /\ None \notin Seq(Names)
  /\ ToSet(Generated) \subseteq Virtual

VARIABLES request,    \* the projection, the columns of the predicate, those to generate
          asked,      \* what Lance was asked for
          frame,      \* the columns of the frame at hand
          step        \* where the frame is, or what went wrong

columnsVars == <<request, asked, frame, step>>

Only(columns, kept) == Selected(columns, kept)

\* Sequences of columns without repetition, in any order.
Orders(columns) == UNION {{s \in [1..Cardinality(cs) -> cs] : IsInjective(s)} :
                            cs \in SUBSET columns}

\* The whole schema, for a scan that generates these columns.
Full(generated) == Stored \o Only(Generated, generated)

\* A dataset may store a column of a virtual name, but then Lance does not add it.
Requests ==
  UNION {[generated: {g}, projection: Orders(ToSet(Full(g))) \cup {None},
          roots: (SUBSET ToSet(Full(g))) \cup {None}] :
            g \in SUBSET (ToSet(Generated) \ ToSet(Stored))}

-----------------------------------------------------------------------------
(* On the way down.                                                        *)

\* Deliberately wrong variant: the engine is taken to have asked for them.
WithPredicateColumnsAsked(projection, roots) == projection

\* _with_predicate_columns, where a predicate is left to Polars.
WithPredicateColumns(projection, roots) ==
  IF projection = None \/ roots = None THEN projection
  ELSE projection \o SetToSeq(roots \ ToSet(projection))

Widened == WithPredicateColumns(request.projection, request.roots)

\* Deliberately wrong variant: generated columns are asked for by name.
ColumnsOfAll(projection) == projection

\* iter_frames asks for no column that has the name of one the scanner adds by itself.
Columns(projection) ==
  IF projection = None THEN None ELSE Only(projection, Names \ Virtual)

Ask ==
  /\ step = "new"
  /\ asked' = Columns(Widened)
  /\ step' = "asked"
  /\ UNCHANGED <<request, frame>>

\* Lance knows its stored columns only, and appends the others.
Deliver ==
  /\ step = "asked"
  /\ IF asked # None /\ ~(ToSet(asked) \subseteq ToSet(Stored))
     THEN step' = "refused" /\ UNCHANGED frame
     ELSE /\ step' = "batch"
          /\ frame' = (IF asked = None THEN Stored ELSE asked) \o Only(Generated, request.generated)
  /\ UNCHANGED <<request, asked>>

-----------------------------------------------------------------------------
(* On the way up.                                                          *)

\* A selection by name; one of a column that is not there raises.
Select(columns, next) ==
  IF ToSet(columns) \subseteq ToSet(frame)
  THEN frame' = columns /\ step' = next
  ELSE UNCHANGED frame /\ step' = "missing"

\* iter_frames: exactly what it was called for, in order; but a batch without columns
\* is passed on for its rows.
SelectWidened ==
  /\ step = "batch"
  /\ IF Widened = None \/ frame = <<>> THEN UNCHANGED frame /\ step' = "frame"
     ELSE Select(Widened, "frame")
  /\ UNCHANGED <<request, asked>>

\* Deliberately wrong variant: what the predicate needed is kept.
FilterKeepingAll ==
  /\ step = "frame" /\ request.roots # None
  /\ step' = IF request.roots \subseteq ToSet(frame) THEN "out" ELSE "missing"
  /\ UNCHANGED <<request, asked, frame>>

\* _apply: the predicate is evaluated, and what it alone needed is dropped.
Filter ==
  /\ step = "frame" /\ request.roots # None
  /\ IF request.roots \subseteq ToSet(frame)
     THEN IF request.projection = None THEN UNCHANGED frame /\ step' = "out"
          ELSE Select(request.projection, "out")
     ELSE UNCHANGED frame /\ step' = "missing"
  /\ UNCHANGED <<request, asked>>

\* Nothing is left to filter.
PassOn ==
  /\ step = "frame" /\ request.roots = None
  /\ step' = "out"
  /\ UNCHANGED <<request, asked, frame>>

ColumnsInit ==
  /\ request \in Requests
  /\ asked = None /\ frame = <<>> /\ step = "new"

ColumnsNext == Ask \/ Deliver \/ SelectWidened \/ Filter \/ PassOn

ColumnsSpec == ColumnsInit /\ [][ColumnsNext]_columnsVars

-----------------------------------------------------------------------------
(* Correctness.                                                            *)

\* A stored column of a virtual name is to be read, which Lance is not asked for.
StoredIsOverlooked ==
  Widened # None /\ ToSet(Widened) \cap ToSet(Stored) \cap Virtual # {}

\* Every frame has the columns the engine asked for, in its order and no others,
\* whatever Lance appends and the predicate needs besides (iter_frames: "the
\* engine expects exactly the projection, in order").  The exception is a projection
\* of stored columns with virtual names, whose frames have no columns at all.
FramesAreTheProjection ==
  step = "out" =>
    frame = IF request.projection = None THEN Full(request.generated)
            ELSE IF StoredIsOverlooked THEN <<>> ELSE request.projection

\* No step asks for a column that is not there: neither Lance for one that it
\* generates, nor Polars for one that the engine did not project.  The exception is
\* again a stored column with a virtual name, that Polars may look for in vain.
EveryColumnIsFound ==
  step # "refused" /\ (step = "missing" => StoredIsOverlooked)
=============================================================================
