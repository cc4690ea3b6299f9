----------------------------- MODULE LanceScan -----------------------------
(***************************************************************************)
(* One scan of _scan.py: scan_lance checks its arguments, _frames decides  *)
(* what is pushed into Lance, and _apply and iter_frames turn the batches  *)
(* that Lance delivers into frames as the engine pulls them.  Lance may    *)
(* refuse the filter when it plans the scan, and may fail at any pull; the *)
(* engine may stop pulling at any time.                                    *)
(*                                                                         *)
(* A filter is the set of rows it is true on.  What a predicate lowers to  *)
(* is anything PredicateLowering shows it can be.                          *)
(***************************************************************************)
EXTENDS RowStreams

CONSTANTS MaxLimit,   \* bound on the row limits and search sizes asked for
          MaxFaults   \* bound on Lance's failures that have nothing to do with the filter

ASSUME MaxLimitAssumption == MaxLimit \in Nat
ASSUME MaxFaultsAssumption == MaxFaults \in Nat

VARIABLES query,      \* the scan's arguments, and what Lance makes of its filter
          plan,       \* what is asked of Lance, and what is left to Polars
          pos,        \* how many rows of Lance's stream have been pulled
          first,      \* whether the next pull is the scan's first
          remaining,  \* rows the limit still allows, None without a limit
          emitted,    \* the rows handed to the engine
          status,     \* where the generator stands
          faults      \* failures of Lance so far

vars == <<query, plan, pos, first, remaining, emitted, status, faults>>

Filters == SUBSET Rows
Limits == {None} \cup 0..MaxLimit

-----------------------------------------------------------------------------
(* The arguments.                                                          *)

\* A LanceFilter; sql is None where the predicate does not translate.
Lowerings(rows) ==
  {l \in [sql: Filters \cup {None}, exact: BOOLEAN] :
     /\ l.exact => l.sql = rows
     /\ l.sql # None => rows \subseteq l.sql}

NotLowered == [sql |-> None, exact |-> FALSE]

\* A prefilter given as SQL is one that is its own exact lowering.  The check
\* made when the scan is built does not know the column types, so it can come
\* out otherwise than the lowering made when the scan runs.
Prefilters ==
  UNION {[rows: {rows}, lowered: Lowerings(rows), exactWithoutTypes: BOOLEAN] : rows \in Filters}

\* A predicate and what it lowers to.
Predicates ==
  {<<None, NotLowered>>} \cup UNION {{rows} \X Lowerings(rows) : rows \in Filters}

Query(p, down, pre, k, n, refused) ==
  [predicate |-> p[1], lowered |-> p[2], pushdown |-> down, prefilter |-> pre,
   k |-> k, nRows |-> n, refused |-> refused]

\* k is the size of a search, None for a scan without one; refused says whether
\* Lance will plan the filter.
PredicateQueries ==
  {Query(p, down, None, k, n, refused) :
     p \in Predicates, down \in BOOLEAN,
     k \in Limits \ {0}, n \in Limits, refused \in BOOLEAN}

\* A scan with a prefilter lowers nothing else.
PrefilterQueries ==
  {Query(<<predicate, NotLowered>>, FALSE, pre, k, n, refused) :
     predicate \in Filters \cup {None}, pre \in Prefilters,
     k \in Limits \ {0}, n \in Limits, refused \in BOOLEAN}

Queries == PredicateQueries \cup PrefilterQueries

-----------------------------------------------------------------------------
(* Lance: one filter slot, before the search (prefilter) or after it, and  *)
(* a limit at which the stream may stop.                                   *)

Stream ==
  LET filtered(stream) == IF plan.sql = None THEN stream ELSE Keep(stream, plan.sql)
  IN  IF plan.prefilter
      THEN Limited(query.k, filtered(InOrder))
      ELSE filtered(Limited(query.k, InOrder))

LimitReached == plan.limit # None /\ pos >= plan.limit

Refuses == first /\ plan.sql # None /\ query.refused

-----------------------------------------------------------------------------
(* The plan.                                                               *)

\* Deliberately wrong variants: the limit pushed past a filter still to run, and
\* a prefilter that may be dropped like a predicate.
ScanLimitPushedPastFilter(sql, residual, prefilter) ==
  [sql |-> sql, residual |-> residual, prefilter |-> prefilter,
   limit |-> query.nRows, fallback |-> sql # None /\ ~prefilter]
ScanPrefilterFallsBack(sql, residual, prefilter) ==
  [sql |-> sql, residual |-> residual, prefilter |-> prefilter,
   limit |-> IF residual = None THEN query.nRows ELSE None,
   fallback |-> sql # None]

\* _apply pushes the limit only where Polars has nothing left to filter, and
\* iter_frames lets a scan fall back only from a pushed-down predicate.
Scan(sql, residual, prefilter) ==
  [sql |-> sql, residual |-> residual, prefilter |-> prefilter,
   limit |-> IF residual = None THEN query.nRows ELSE None,
   fallback |-> sql # None /\ ~prefilter]

\* A prefilter takes the one slot, and the predicate stays in Polars.
PrefilterScan == Scan(query.prefilter.lowered.sql, query.predicate, TRUE)

\* An exact lowering leaves nothing to Polars, a relaxed one the whole predicate.
PredicateScan ==
  LET lowered == IF query.pushdown THEN query.lowered ELSE NotLowered
  IN  Scan(lowered.sql, IF lowered.exact THEN None ELSE query.predicate, FALSE)

FallbackScan == Scan(None, query.predicate, FALSE)

Begin(scan) ==
  /\ plan' = scan
  /\ pos' = 0
  /\ first' = TRUE
  /\ remaining' = query.nRows

Idle == Scan(None, None, FALSE)

-----------------------------------------------------------------------------
(* The steps.                                                              *)

\* scan_lance refuses a prefilter that does not translate exactly.
Build ==
  /\ status = "new"
  /\ status' = IF query.prefilter # None /\ ~query.prefilter.exactWithoutTypes
               THEN "error" ELSE "built"
  /\ UNCHANGED <<query, plan, pos, first, remaining, emitted, faults>>

\* _frames, up to its first pull: the prefilter is lowered again, with types.
Open ==
  /\ status = "built"
  /\ \/ /\ query.prefilter # None
        /\ ~query.prefilter.lowered.exact
        /\ status' = "error"
        /\ UNCHANGED <<plan, pos, first, remaining>>
     \/ /\ query.prefilter # None
        /\ query.prefilter.lowered.exact
        /\ status' = "scanning"
        /\ Begin(PrefilterScan)
     \/ /\ query.prefilter = None
        /\ status' = "scanning"
        /\ Begin(PredicateScan)
  /\ UNCHANGED <<query, emitted, faults>>

\* Deliberately wrong variant: the batch that crosses the limit is not cut.
FrameNotCut(batch) ==
  IF plan.residual = None THEN batch ELSE Keep(batch, plan.residual)

\* The rows of a batch that make it into a frame.
Frame(batch) ==
  Limited(remaining, IF plan.residual = None THEN batch ELSE Keep(batch, plan.residual))

\* A batch with no rows is skipped.  With nothing left to filter the limit is
\* looked at before the batch is used; otherwise after it has been filtered.
Pull ==
  /\ status = "scanning"
  /\ ~Refuses
  /\ \E n \in 0..Len(Stream) - pos :
       LET batch == SubSeq(Stream, pos + 1, pos + n)
           left == IF remaining = None THEN None ELSE remaining - Len(Frame(batch))
           spent == IF plan.residual = None THEN remaining = 0 ELSE left = 0
       IN  /\ pos' = pos + n
           /\ IF n = 0
              THEN UNCHANGED <<emitted, remaining, status>>
              ELSE /\ emitted' = emitted \o Frame(batch)
                   /\ remaining' = left
                   /\ status' = IF spent THEN "done" ELSE status
  /\ first' = FALSE
  /\ UNCHANGED <<query, plan, faults>>

EndOfStream ==
  /\ status = "scanning"
  /\ ~Refuses
  /\ pos = Len(Stream) \/ LimitReached
  /\ status' = "done"
  /\ UNCHANGED <<query, plan, pos, first, remaining, emitted, faults>>

\* Deliberately wrong variant: no second scan.
OnExceptionRaise == status' = "error" /\ UNCHANGED <<plan, pos, first, remaining>>

\* _batches and _frames on an exception out of Lance: any exception out of the
\* first pull is taken for a refusal of the filter.
OnException ==
  IF first /\ plan.fallback
  THEN Begin(FallbackScan) /\ UNCHANGED status
  ELSE status' = "error" /\ UNCHANGED <<plan, pos, first, remaining>>

Refused ==
  /\ status = "scanning"
  /\ Refuses
  /\ OnException
  /\ UNCHANGED <<query, emitted, faults>>

\* Opening the dataset, or pulling a batch, fails for a reason of its own.
Fault ==
  /\ status \in {"built", "scanning"}
  /\ faults < MaxFaults
  /\ faults' = faults + 1
  /\ OnException
  /\ UNCHANGED <<query, emitted>>

\* The engine drops the generator early.
Drop ==
  /\ status = "scanning"
  /\ status' = "dropped"
  /\ UNCHANGED <<query, plan, pos, first, remaining, emitted, faults>>

Init ==
  /\ query \in Queries
  /\ plan = Idle
  /\ pos = 0
  /\ first = TRUE
  /\ remaining = None
  /\ emitted = <<>>
  /\ status = "new"
  /\ faults = 0

Next == Build \/ Open \/ Pull \/ EndOfStream \/ Refused \/ Fault \/ Drop

Spec == Init /\ [][Next]_vars

-----------------------------------------------------------------------------
(* Correctness.                                                            *)

\* Type correctness of the generator's state.
TypeOK ==
  /\ query \in Queries
  /\ plan \in [sql: Filters \cup {None}, residual: Filters \cup {None},
               prefilter: BOOLEAN, limit: Limits, fallback: BOOLEAN]
  /\ pos \in 0..NumRows
  /\ first \in BOOLEAN
  /\ remaining \in Limits
  /\ emitted \in Seq(Rows)
  /\ status \in {"new", "built", "scanning", "done", "error", "dropped"}
  /\ faults \in 0..MaxFaults

\* However the predicate, the prefilter and the limit are divided between Lance
\* and Polars, and though the scan starts over when its filter is refused, the
\* engine gets the rows of search, filter and limit in that order: none twice,
\* none missing, and no early end.
Outcome == IF status \in {"new", "built", "scanning"} THEN "open" ELSE status
Source == INSTANCE RowSource WITH outcome <- Outcome
DeliversTheAnswer == Source!SSpec

\* A filter that Lance will not plan costs the query its pushdown and not its
\* result: without a prefilter, only a failure of Lance makes the scan raise.
RefusalIsSurvived ==
  status = "error" => query.prefilter # None \/ faults > 0

\* A prefilter decides what the search ranks, so a scan that has one never runs
\* a search over any other set of rows (_prefilter_sql: "nothing downstream can
\* repair that choice").
PrefilterNeverWidened ==
  (query.prefilter # None /\ status \in {"scanning", "done", "dropped"}) =>
     plan.prefilter /\ plan.sql = query.prefilter.rows
=============================================================================
