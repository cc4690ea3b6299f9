----------------------------- MODULE RowStreams -----------------------------
(***************************************************************************)
(* Streams of rows.  The rows of a dataset are numbered in the order in    *)
(* which a scan returns them: storage order, or rank under a search.       *)
(***************************************************************************)
EXTENDS PythonNone, Selection

CONSTANT NumRows   \* the rows of the dataset

ASSUME NumRowsAssumption == NumRows \in Nat

Rows == 1..NumRows

ASSUME NoneAssumption == None \notin Int /\ \A rows \in SUBSET Rows : rows # None

InOrder == [i \in Rows |-> i]

\* The rows of a stream for which a filter is true.
Keep(stream, kept) == Selected(stream, kept)

Limited(n, stream) ==
  IF n = None \/ n >= Len(stream) THEN stream ELSE SubSeq(stream, 1, n)
=============================================================================
