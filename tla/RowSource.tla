----------------------------- MODULE RowSource -----------------------------
(***************************************************************************)
(* What a scan promises the query engine, whatever is pushed into Lance    *)
(* and whatever Lance refuses: it delivers the rows of the answer, in      *)
(* order, and says it is done only once it has delivered them all.         *)
(***************************************************************************)
EXTENDS RowStreams

VARIABLES query,    \* the scan's arguments
          emitted,  \* the rows handed to the engine
          outcome   \* "open", "done", "error", or "dropped" by the engine

svars == <<query, emitted, outcome>>

\* Search first, among the prefilter's rows only; then the query's own filter;
\* then the row limit.
Answer ==
  LET candidates == IF query.prefilter = None THEN InOrder ELSE Keep(InOrder, query.prefilter.rows)
      found == Limited(query.k, candidates)
      selected == IF query.predicate = None THEN found ELSE Keep(found, query.predicate)
  IN  Limited(query.nRows, selected)

SInit == emitted = <<>> /\ outcome = "open"

Deliver ==
  /\ outcome = "open"
  /\ \E n \in Len(emitted)..Len(Answer) : emitted' = SubSeq(Answer, 1, n)
  /\ outcome' = "open" \/ (outcome' = "done" /\ emitted' = Answer)
  /\ UNCHANGED query

GiveUp ==
  /\ outcome = "open"
  /\ outcome' \in {"error", "dropped"}
  /\ UNCHANGED <<query, emitted>>

SSpec == SInit /\ [][Deliver \/ GiveUp]_svars
=============================================================================
