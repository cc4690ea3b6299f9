-------------------------- MODULE LanceScanProofs --------------------------
(***************************************************************************)
(* Theorems about one scan, for any number of rows and limits, failures    *)
(* and columns.  The scan implements RowSource, so that what it hands on   *)
(* is the answer whatever it pushes into Lance and whatever Lance refuses; *)
(* a refused filter costs no result, a prefilter is never given up, and    *)
(* every frame has the columns asked for.                                  *)
(***************************************************************************)
EXTENDS LanceScan, ScanColumns, SelectionProofs, FiniteSetTheorems

-----------------------------------------------------------------------------
(* The plan.                                                               *)

Running == {"scanning", "done", "dropped"}

\* A scan that is under way may fall back from its filter unless that filter is a
\* prefilter, and has a prefilter in its plan just if the query has one.  Before
\* that there is nothing to fall back from.
PlanFits ==
  /\ status \in Running =>
       /\ plan.fallback <=> plan.sql # None /\ ~plan.prefilter
       /\ plan.prefilter <=> query.prefilter # None
       /\ plan.prefilter => plan.sql = query.prefilter.rows
  /\ status \in {"new", "built"} => ~plan.fallback

\* A prefilter's exact lowering is the prefilter.
PrefilterFits ==
  query.prefilter # None =>
    (query.prefilter.lowered.exact => query.prefilter.lowered.sql = query.prefilter.rows)

IInv == PlanFits /\ PrefilterFits /\ faults \in Nat /\ RefusalIsSurvived

-----------------------------------------------------------------------------

LEMMA PrefiltersFit ==
  ASSUME NEW p \in Prefilters
  PROVE  p.lowered.exact => p.lowered.sql = p.rows
  BY DEF Prefilters, Lowerings

LEMMA InitIInv == Init => IInv
  <1> SUFFICES ASSUME Init PROVE IInv
    OBVIOUS
  <1>1. query.prefilter = None \/ query.prefilter \in Prefilters
    BY DEF Init, Queries, PredicateQueries, PrefilterQueries, Query
  <1>2. PrefilterFits
    BY <1>1, PrefiltersFit DEF PrefilterFits
  <1>3. PlanFits
    BY DEF Init, PlanFits, Running, Idle, Scan
  <1> QED BY <1>2, <1>3 DEF Init, IInv, RefusalIsSurvived

\* A step that leaves query, plan and failures alone.
LEMMA SamePlan ==
  ASSUME IInv, UNCHANGED query, UNCHANGED plan, UNCHANGED faults,
         \/ status' = status
         \/ status' \in Running /\ status \in Running
         \/ status' = "built" /\ status = "new"
         \/ status' = "error" /\ query.prefilter # None
  PROVE  IInv'
  BY DEF IInv, PlanFits, PrefilterFits, RefusalIsSurvived, Running

\* A scan that begins with a plan that fits.
LEMMA BegunPlan ==
  ASSUME IInv, UNCHANGED query, status' = "scanning", faults' \in Nat,
         NEW sql, NEW residual, NEW prefilter \in BOOLEAN,
         plan' = Scan(sql, residual, prefilter),
         prefilter <=> query.prefilter # None,
         prefilter => sql = query.prefilter.rows
  PROVE  IInv'
  BY DEF IInv, PlanFits, PrefilterFits, RefusalIsSurvived, Running, Scan

LEMMA OpenFits == ASSUME IInv, Open PROVE IInv'
  <1>1. UNCHANGED <<query, faults>> /\ status = "built" /\ faults \in Nat
    BY DEF Open, IInv
  <1>2. CASE query.prefilter # None /\ ~query.prefilter.lowered.exact
    BY <1>1, <1>2, SamePlan DEF Open
  <1>3. CASE query.prefilter # None /\ query.prefilter.lowered.exact
    <2>1. status' = "scanning" /\ plan' = PrefilterScan
      BY <1>3 DEF Open, Begin
    <2>2. query.prefilter.lowered.sql = query.prefilter.rows
      BY <1>3 DEF IInv, PrefilterFits
    <2> QED BY <1>1, <1>3, <2>1, <2>2, BegunPlan DEF PrefilterScan
  <1>4. CASE query.prefilter = None
    <2>1. status' = "scanning" /\ plan' = PredicateScan
      BY <1>4 DEF Open, Begin
    <2> QED BY <1>1, <1>4, <2>1, BegunPlan DEF PredicateScan
  <1> QED BY <1>2, <1>3, <1>4

\* An exception starts the scan over without its filter, or ends it.
LEMMA ExceptionFits ==
  ASSUME IInv, OnException, UNCHANGED query, status \in {"built", "scanning"},
         faults' \in Nat,
         faults' > 0 \/ (faults' = faults /\ status = "scanning" /\ Refuses)
  PROVE  IInv'
  <1>1. CASE first /\ plan.fallback
    <2>1. status = "scanning" /\ ~plan.prefilter /\ query.prefilter = None
      BY <1>1 DEF IInv, PlanFits, Running
    <2>2. status' = "scanning" /\ plan' = Scan(None, query.predicate, FALSE)
      BY <1>1, <2>1 DEF OnException, Begin, FallbackScan
    <2> QED BY <2>1, <2>2, BegunPlan
  <1>2. CASE ~(first /\ plan.fallback)
    <2>1. status' = "error" /\ UNCHANGED plan
      BY <1>2 DEF OnException
    <2>2. query.prefilter # None \/ faults' > 0
      BY <1>2 DEF IInv, PlanFits, Running, Refuses
    <2> QED BY <2>1, <2>2 DEF IInv, PlanFits, PrefilterFits, RefusalIsSurvived, Running
  <1> QED BY <1>1, <1>2

LEMMA NextIInv == IInv /\ [Next]_vars => IInv'
  <1> SUFFICES ASSUME IInv, [Next]_vars PROVE IInv'
    OBVIOUS
  <1>1. CASE UNCHANGED vars
    BY <1>1, SamePlan DEF vars
  <1>2. CASE Build
    BY <1>2, SamePlan DEF Build
  <1>3. CASE Open
    BY <1>3, OpenFits
  <1>4. CASE Pull
    <2>1. /\ UNCHANGED query /\ UNCHANGED plan /\ UNCHANGED faults
          /\ status = "scanning" /\ status' \in {status, "done"}
      BY <1>4 DEF Pull
    <2> QED BY <2>1, SamePlan DEF Running
  <1>5. CASE EndOfStream
    BY <1>5, SamePlan DEF EndOfStream, Running
  <1>6. CASE Refused
    BY <1>6, ExceptionFits DEF Refused, IInv
  <1>7. CASE Fault
    <2>1. faults' \in Nat /\ faults' > 0
      BY <1>7 DEF Fault, IInv
    <2> QED BY <1>7, <2>1, ExceptionFits DEF Fault
  <1>8. CASE Drop
    BY <1>8, SamePlan DEF Drop, Running
  <1> QED BY <1>1, <1>2, <1>3, <1>4, <1>5, <1>6, <1>7, <1>8 DEF Next

-----------------------------------------------------------------------------

\* However much is pushed into Lance, a filter that it will not plan makes no
\* scan without a prefilter raise (_batches starts over from the predicate).
THEOREM RefusalsAreSurvived == Spec => []RefusalIsSurvived
  <1>1. IInv => RefusalIsSurvived
    BY DEF IInv
  <1> QED BY <1>1, InitIInv, NextIInv, PTL DEF Spec

\* A scan with a prefilter searches just the prefilter's rows, on every path
\* through planning, refusal and failure (_prefilter_sql, iter_frames).
THEOREM PrefiltersAreNeverWidened == Spec => []PrefilterNeverWidened
  <1>1. IInv => PrefilterNeverWidened
    BY DEF IInv, PlanFits, PrefilterNeverWidened, Running
  <1> QED BY <1>1, InitIInv, NextIInv, PTL DEF Spec

-----------------------------------------------------------------------------
(* Row limits.                                                             *)

Count(n, stream) == IF n = None \/ n >= Len(stream) THEN Len(stream) ELSE n

\* What is left of a limit.
Rest(n, stream) == IF n = None THEN None ELSE n - Len(stream)

LEMMA LimitedIs ==
  ASSUME NEW S, NEW s \in Seq(S), NEW n \in Nat \cup {None}
  PROVE  /\ Limited(n, s) \in Seq(S) /\ Len(Limited(n, s)) = Count(n, s)
         /\ Count(n, s) \in 0..Len(s)
         /\ \A i \in 1..Count(n, s) : Limited(n, s)[i] = s[i]
  <1>1. None \notin Nat /\ Len(s) \in Nat
    BY NoneAssumption
  <1>2. CASE n = None \/ n >= Len(s)
    BY <1>1, <1>2 DEF Limited, Count
  <1>3. CASE ~(n = None \/ n >= Len(s))
    <2>1. n \in Nat /\ n < Len(s) /\ Limited(n, s) = SubSeq(s, 1, n) /\ Count(n, s) = n
      BY <1>1, <1>3 DEF Limited, Count
    <2>2. \A i \in 1..n : s[i] \in S
      BY <2>1
    <2>3. /\ SubSeq(s, 1, n) \in Seq(S)
          /\ Len(SubSeq(s, 1, n)) = IF 1 <= n THEN n - 1 + 1 ELSE 0
          /\ \A i \in 1..n - 1 + 1 : SubSeq(s, 1, n)[i] = s[1 + i - 1]
      BY <2>1, <2>2, SubSeqProperties
    <2> QED BY <1>1, <2>1, <2>3
  <1> QED BY <1>2, <1>3

\* A limit over two parts.
LEMMA LimitedConcat ==
  ASSUME NEW S, NEW s \in Seq(S), NEW t \in Seq(S), NEW n \in Nat \cup {None}
  PROVE  /\ Rest(n, Limited(n, s)) \in Nat \cup {None}
         /\ Limited(n, s \o t) = Limited(n, s) \o Limited(Rest(n, Limited(n, s)), t)
  <1> DEFINE a == Limited(n, s)
             r == Rest(n, a)
             b == Limited(r, t)
             c == Limited(n, s \o t)
  <1>1. None \notin Nat /\ Len(s) \in Nat /\ Len(t) \in Nat
    BY NoneAssumption
  <1>2. /\ a \in Seq(S) /\ Len(a) = Count(n, s) /\ Count(n, s) \in 0..Len(s)
        /\ \A i \in 1..Count(n, s) : a[i] = s[i]
    BY LimitedIs
  <1> HIDE DEF a
  <1>3. r \in Nat \cup {None}
    BY <1>1, <1>2 DEF Rest, Count
  <1> HIDE DEF r
  <1>4. /\ b \in Seq(S) /\ Len(b) = Count(r, t) /\ Count(r, t) \in 0..Len(t)
        /\ \A i \in 1..Count(r, t) : b[i] = t[i]
    BY <1>3, LimitedIs
  <1>5. /\ s \o t \in Seq(S) /\ Len(s \o t) = Len(s) + Len(t)
        /\ \A i \in 1..Len(s) + Len(t) : (s \o t)[i] = IF i <= Len(s) THEN s[i] ELSE t[i - Len(s)]
    BY ConcatProperties
  <1>6. /\ c \in Seq(S) /\ Len(c) = Count(n, s \o t) /\ Count(n, s \o t) \in 0..Len(s \o t)
        /\ \A i \in 1..Count(n, s \o t) : c[i] = (s \o t)[i]
    BY <1>5, LimitedIs
  <1> HIDE DEF b, c
  <1>7. /\ a \o b \in Seq(S) /\ Len(a \o b) = Len(a) + Len(b)
        /\ \A i \in 1..Len(a) + Len(b) : (a \o b)[i] = IF i <= Len(a) THEN a[i] ELSE b[i - Len(a)]
    BY <1>2, <1>4, ConcatProperties
  <1>8. /\ Count(n, s \o t) = Count(n, s) + Count(r, t)
        /\ Count(n, s) = Len(s) \/ Count(r, t) = 0
    <2>1. CASE n = None
      <3>1. r = None /\ Count(n, s) = Len(s)
        BY <2>1 DEF Count, Rest, r
      <3> QED BY <1>1, <1>5, <2>1, <3>1 DEF Count
    <2>2. CASE n \in Nat /\ n >= Len(s)
      <3>1. r = n - Len(s) /\ Count(n, s) = Len(s) /\ n # None /\ r # None /\ r \in Nat
        BY <1>1, <1>2, <2>2 DEF Count, Rest, r
      <3>2. n >= Len(s) + Len(t) <=> r >= Len(t)
        BY <1>1, <2>2, <3>1
      <3>3. Count(r, t) = IF r >= Len(t) THEN Len(t) ELSE r
        BY <3>1 DEF Count
      <3>4. Count(n, s \o t) = IF n >= Len(s) + Len(t) THEN Len(s) + Len(t) ELSE n
        BY <1>5, <3>1 DEF Count
      <3> HIDE DEF r
      <3>5. n = Len(s) + r
        BY <1>1, <3>1
      <3> QED BY <3>1, <3>2, <3>3, <3>4, <3>5
    <2>3. CASE n \in Nat /\ n < Len(s)
      <3>1. r = 0 /\ Count(n, s) = n /\ n # None /\ r # None
        BY <1>1, <1>2, <2>3 DEF Count, Rest, r
      <3>2. Count(r, t) = 0
        BY <1>1, <3>1 DEF Count
      <3>3. ~(n >= Len(s) + Len(t))
        BY <1>1, <2>3
      <3>4. Count(n, s \o t) = n
        BY <1>5, <3>1, <3>3 DEF Count
      <3> QED BY <2>3, <3>1, <3>2, <3>4
    <2> QED BY <1>1, <2>1, <2>2, <2>3
  <1>9. ASSUME NEW i \in 1..Len(c)
        PROVE  c[i] = (a \o b)[i]
    <2>1. c[i] = (s \o t)[i] /\ i \in 1..Len(s) + Len(t) /\ i \in 1..Len(a) + Len(b)
      BY <1>1, <1>2, <1>4, <1>5, <1>6, <1>8
    <2>2. CASE i <= Len(a)
      <3>1. (a \o b)[i] = a[i] /\ a[i] = s[i] /\ i <= Len(s)
        BY <1>1, <1>2, <1>7, <2>1, <2>2
      <3> QED BY <1>5, <2>1, <3>1
    <2>3. CASE ~(i <= Len(a))
      <3>1. Len(a) = Len(s) /\ i - Len(s) \in 1..Count(r, t)
        BY <1>1, <1>2, <1>4, <1>8, <2>1, <2>3
      <3>2. (a \o b)[i] = b[i - Len(s)] /\ b[i - Len(s)] = t[i - Len(s)] /\ ~(i <= Len(s))
        BY <1>4, <1>7, <2>1, <2>3, <3>1
      <3> QED BY <1>5, <2>1, <3>2
    <2> QED BY <2>2, <2>3
  <1>10. Len(c) = Len(a \o b)
    BY <1>2, <1>4, <1>6, <1>7, <1>8
  <1>11. c = a \o b
    BY <1>6, <1>7, <1>9, <1>10, SeqEqual
  <1> QED BY <1>3, <1>11 DEF a, b, c, r

-----------------------------------------------------------------------------
(* Whatever the plan, its stream holds the rows of the answer.             *)

\* What Polars keeps of rows, where it is left with this residual.
Filtered(residual, rows) == IF residual = None THEN rows ELSE Keep(rows, residual)

\* The rows of search and filter, before the row limit.
Found ==
  Limited(query.k, IF query.prefilter = None THEN InOrder ELSE Keep(InOrder, query.prefilter.rows))
Wanted == Filtered(query.predicate, Found)

PlanServes ==
  IF query.prefilter # None
  THEN query.prefilter.lowered.exact /\ plan = PrefilterScan
  ELSE plan \in {PredicateScan, FallbackScan}

LEMMA AnswerIs == Source!Answer = Limited(query.nRows, Wanted)
  <1>1. \A s, K : Source!Keep(s, K) = Keep(s, K)
    BY DEF Source!Keep, Source!Selected, Keep, Selected
  <1>2. \A n, s : Source!Limited(n, s) = Limited(n, s)
    BY DEF Source!Limited, Limited
  <1>3. Source!InOrder = InOrder
    BY DEF Source!InOrder, Source!Rows, InOrder, Rows
  <1> QED BY <1>1, <1>2, <1>3 DEF Source!Answer, Wanted, Filtered, Found

LEMMA FiltersAreSome == \A rows \in Filters : rows # None
  BY NoneAssumption DEF Filters

LEMMA LimitsAre == Limits \subseteq Nat \cup {None}
  BY MaxLimitAssumption DEF Limits

LEMMA InOrderIs == InOrder \in Seq(Rows) /\ Len(InOrder) = NumRows
  <1>1. InOrder \in [1..NumRows -> Rows] /\ NumRows \in Nat
    BY NumRowsAssumption DEF InOrder, Rows
  <1>2. InOrder \in Seq(Rows)
    BY <1>1, SeqDef
  <1> QED BY <1>1, <1>2

LEMMA KeepIs ==
  ASSUME NEW s \in Seq(Rows), NEW K
  PROVE  Keep(s, K) \in Seq(Rows) /\ Len(Keep(s, K)) <= Len(s)
  BY SelectedIs DEF Keep

LEMMA LimitedRows ==
  ASSUME NEW s \in Seq(Rows), NEW n \in Nat \cup {None}
  PROVE  Limited(n, s) \in Seq(Rows) /\ Len(Limited(n, s)) <= Len(s)
  <1>1. Limited(n, s) \in Seq(Rows) /\ Len(Limited(n, s)) \in 0..Len(s)
    BY LimitedIs
  <1> QED BY <1>1

LEMMA FilteredIs ==
  ASSUME NEW s \in Seq(Rows), NEW residual
  PROVE  Filtered(residual, s) \in Seq(Rows) /\ Len(Filtered(residual, s)) <= Len(s)
  BY KeepIs DEF Filtered

LEMMA FilteredConcat ==
  ASSUME NEW s \in Seq(Rows), NEW t \in Seq(Rows), NEW residual
  PROVE  Filtered(residual, s \o t) = Filtered(residual, s) \o Filtered(residual, t)
  BY SelectedConcat DEF Filtered, Keep

LEMMA QueriesFit ==
  ASSUME query \in Queries
  PROVE  /\ query.predicate \in Filters \cup {None}
         /\ query.k \in Limits /\ query.nRows \in Limits
         /\ query.prefilter # None =>
              /\ query.prefilter.rows \in Filters
              /\ query.prefilter.lowered.exact =>
                   query.prefilter.lowered.sql = query.prefilter.rows
         /\ query.pushdown =>
              /\ query.lowered.exact => query.lowered.sql = query.predicate /\ query.predicate # None
              /\ query.lowered.sql \in Filters \cup {None}
              /\ query.lowered.sql # None =>
                   query.predicate # None /\ query.predicate \subseteq query.lowered.sql
  <1> DEFINE Given == Filters \cup {None}
             Sizes == Limits \ {0}
  <1>1. CASE \E p \in Predicates, down \in BOOLEAN, k \in Sizes, n \in Limits,
                refused \in BOOLEAN : query = Query(p, down, None, k, n, refused)
    <2>1. PICK p \in Predicates, down \in BOOLEAN, k \in Sizes, n \in Limits,
                 refused \in BOOLEAN : query = Query(p, down, None, k, n, refused)
      BY <1>1
    <2>2. /\ query.predicate = p[1] /\ query.lowered = p[2] /\ query.prefilter = None
          /\ query.k \in Limits /\ query.nRows \in Limits
      BY <2>1 DEF Query
    <2>3. CASE p = <<None, NotLowered>>
      BY <2>2, <2>3 DEF NotLowered
    <2>4. ASSUME NEW rows \in Filters, p \in {rows} \X Lowerings(rows)
          PROVE  /\ p[1] = rows /\ rows # None
                 /\ p[2].exact => p[2].sql = rows
                 /\ p[2].sql \in Filters \cup {None}
                 /\ p[2].sql # None => rows \subseteq p[2].sql
      BY <2>4, FiltersAreSome DEF Lowerings
    <2> QED BY <2>2, <2>3, <2>4 DEF Predicates
  <1>2. CASE \E predicate \in Given, pre \in Prefilters, k \in Sizes, n \in Limits,
                refused \in BOOLEAN : query = Query(<<predicate, NotLowered>>, FALSE, pre, k, n, refused)
    <2>1. PICK predicate \in Given, pre \in Prefilters, k \in Sizes, n \in Limits,
                 refused \in BOOLEAN : query = Query(<<predicate, NotLowered>>, FALSE, pre, k, n, refused)
      BY <1>2
    <2>2. /\ query.predicate = predicate /\ query.pushdown = FALSE /\ query.prefilter = pre
          /\ query.k \in Limits /\ query.nRows \in Limits
      BY <2>1 DEF Query
    <2>3. pre.rows \in Filters /\ (pre.lowered.exact => pre.lowered.sql = pre.rows)
      BY DEF Prefilters, Lowerings
    <2> QED BY <2>2, <2>3
  <1>3. query \in PredicateQueries \/ query \in PrefilterQueries
    BY DEF Queries
  <1>4. query \in PredicateQueries =>
          \E p \in Predicates, down \in BOOLEAN, k \in Sizes, n \in Limits, refused \in BOOLEAN :
            query = Query(p, down, None, k, n, refused)
    BY DEF PredicateQueries
  <1>5. query \in PrefilterQueries =>
          \E predicate \in Given, pre \in Prefilters, k \in Sizes, n \in Limits, refused \in BOOLEAN :
            query = Query(<<predicate, NotLowered>>, FALSE, pre, k, n, refused)
    BY DEF PrefilterQueries, Query
  <1> HIDE DEF Given, Sizes
  <1> QED BY <1>1, <1>2, <1>3, <1>4, <1>5

LEMMA PlanDelivers ==
  ASSUME query \in Queries, PlanServes
  PROVE  /\ Stream \in Seq(Rows) /\ Len(Stream) <= NumRows
         /\ Filtered(plan.residual, Stream) = Wanted
         /\ plan.residual \in Filters \cup {None} /\ plan.sql \in Filters \cup {None}
         /\ plan.limit = IF plan.residual = None THEN query.nRows ELSE None
         /\ plan.prefilter \in BOOLEAN /\ plan.fallback \in BOOLEAN
  <1> DEFINE all == Limited(query.k, InOrder)
  <1>1. /\ InOrder \in Seq(Rows) /\ Len(InOrder) = NumRows /\ NumRows \in Nat
        /\ query.k \in Nat \cup {None}
    BY InOrderIs, NumRowsAssumption, QueriesFit, LimitsAre
  <1>2. all \in Seq(Rows) /\ Len(all) <= NumRows
    BY <1>1, LimitedRows
  <1> HIDE DEF all
  <1>3. CASE query.prefilter # None
    <2> DEFINE rows == query.prefilter.rows
               kept == Keep(InOrder, rows)
    <2>1. plan = Scan(rows, query.predicate, TRUE) /\ rows \in Filters
      BY <1>3, QueriesFit DEF PlanServes, PrefilterScan
    <2>2. kept \in Seq(Rows) /\ Len(kept) <= NumRows
      BY <1>1, KeepIs
    <2>3. Stream = Limited(query.k, kept) /\ Stream = Found
      BY <1>3, <2>1, FiltersAreSome DEF Stream, Scan, Found
    <2>4. Stream \in Seq(Rows) /\ Len(Stream) <= NumRows
      <3> HIDE DEF kept
      <3>1. \A s \in Seq(Rows), n \in Nat \cup {None} :
               Limited(n, s) \in Seq(Rows) /\ Len(Limited(n, s)) <= Len(s)
        BY LimitedRows
      <3>3. Limited(query.k, kept) \in Seq(Rows) /\ Len(Limited(query.k, kept)) <= Len(kept)
            /\ Len(kept) \in Nat
        <4>1. kept \in Seq(Rows)
          BY <2>2
        <4>2. query.k \in Nat \cup {None}
          BY <1>1
        <4>3. Len(kept) \in Nat
          BY <4>1
        <4>4. Limited(query.k, kept) \in Seq(Rows) /\ Len(Limited(query.k, kept)) <= Len(kept)
          BY Zenon, <3>1, <4>1, <4>2
        <4> QED BY <4>3, <4>4
      <3>2. Len(Limited(query.k, kept)) \in Nat
        BY <3>3
      <3> QED BY <1>1, <2>2, <2>3, <3>3, <3>2
    <2>5. plan.residual = query.predicate
      BY <2>1 DEF Scan
    <2> QED BY <2>1, <2>3, <2>4, <2>5, QueriesFit DEF Scan, Wanted
  <1>4. CASE query.prefilter = None
    <2>1. Found = all
      BY <1>4 DEF Found, all
    <2>2. ASSUME NEW sql \in Filters \cup {None}, NEW residual \in Filters \cup {None},
                 plan = Scan(sql, residual, FALSE),
                 Filtered(residual, Filtered(sql, all)) = Wanted
          PROVE  /\ Stream \in Seq(Rows) /\ Len(Stream) <= NumRows
                 /\ Filtered(plan.residual, Stream) = Wanted
                 /\ plan.residual \in Filters \cup {None} /\ plan.sql \in Filters \cup {None}
                 /\ plan.limit = IF plan.residual = None THEN query.nRows ELSE None
                 /\ plan.prefilter \in BOOLEAN /\ plan.fallback \in BOOLEAN
      <3>1. Stream = Filtered(sql, all)
        BY <2>2 DEF Stream, Scan, Filtered, all
      <3>2. Stream \in Seq(Rows) /\ Len(Stream) <= Len(all) /\ Len(all) \in Nat /\ Len(Stream) \in Nat
        BY <1>2, <3>1, FilteredIs
      <3> QED BY <1>1, <1>2, <2>2, <3>1, <3>2 DEF Scan
    <2>3. CASE plan = FallbackScan
      <3>1. plan = Scan(None, query.predicate, FALSE)
        BY <2>3 DEF FallbackScan
      <3>2. Filtered(query.predicate, Filtered(None, all)) = Wanted
        BY <2>1 DEF Wanted, Filtered
      <3> QED BY <2>2, <3>1, <3>2, QueriesFit
    <2>4. CASE plan = PredicateScan
      <3>1. CASE ~query.pushdown
        <4>1. plan = Scan(None, query.predicate, FALSE)
          BY <2>4, <3>1 DEF PredicateScan, NotLowered
        <4>2. Filtered(query.predicate, Filtered(None, all)) = Wanted
          BY <2>1 DEF Wanted, Filtered
        <4> QED BY <2>2, <4>1, <4>2, QueriesFit
      <3>2. CASE query.pushdown /\ query.lowered.exact
        <4>1. plan = Scan(query.predicate, None, FALSE) /\ query.predicate \in Filters
          BY <2>4, <3>2, QueriesFit DEF PredicateScan
        <4>2. Filtered(None, Filtered(query.predicate, all)) = Wanted
          BY <2>1 DEF Wanted, Filtered
        <4> QED BY <2>2, <4>1, <4>2
      <3>3. CASE query.pushdown /\ ~query.lowered.exact
        <4> DEFINE sql == query.lowered.sql
        <4>1. plan = Scan(sql, query.predicate, FALSE) /\ sql \in Filters \cup {None}
          BY <2>4, <3>3, QueriesFit DEF PredicateScan
        <4>2. Filtered(query.predicate, Filtered(sql, all)) = Wanted
          <5>1. CASE sql = None
            BY <2>1, <5>1 DEF Wanted, Filtered
          <5>2. CASE sql # None
            <6>1. query.predicate # None /\ query.predicate \subseteq sql
              BY <3>3, <5>2, QueriesFit
            <6>2. Selected(Selected(all, sql), query.predicate) = Selected(all, query.predicate)
              BY <1>2, <6>1, SelectedTwice
            <6> QED BY <2>1, <5>2, <6>1, <6>2 DEF Wanted, Filtered, Keep
          <5> QED BY <5>1, <5>2
        <4> HIDE DEF sql
        <4> QED BY <2>2, <4>1, <4>2, QueriesFit
      <3> QED BY <3>1, <3>2, <3>3
    <2> QED BY <1>4, <2>3, <2>4 DEF PlanServes
  <1> QED BY <1>3, <1>4

-----------------------------------------------------------------------------
(* What has been handed on after some of the stream.                       *)

Taken(n) == Limited(query.nRows, Filtered(plan.residual, SubSeq(Stream, 1, n)))

LEMMA NothingTaken ==
  ASSUME NEW n \in Nat \cup {None}, NEW residual, NEW s
  PROVE  Limited(n, Filtered(residual, SubSeq(s, 1, 0))) = <<>>
  <1> DEFINE none == <<>>
  <1>1. SubSeq(s, 1, 0) = none
    BY SubSeqEmpty
  <1>2. none \in Seq(Rows) /\ Len(none) = 0
    OBVIOUS
  <1>3. Filtered(residual, none) = none
    BY SelectedFromNone DEF Filtered, Keep
  <1> HIDE DEF none
  <1>4. Limited(n, none) \in Seq(Rows) /\ Len(Limited(n, none)) <= 0
    BY <1>2, LimitedRows
  <1>5. Len(Limited(n, none)) \in Nat
    BY <1>4
  <1>6. Len(Limited(n, none)) = 0
    BY <1>4, <1>5
  <1>7. Limited(n, none) = <<>>
    BY <1>4, <1>6, EmptySeq
  <1> QED BY <1>1, <1>3, <1>7

LEMMA StreamSplits ==
  ASSUME NEW s \in Seq(Rows), NEW m \in 0..Len(s), NEW n \in m..Len(s)
  PROVE  /\ SubSeq(s, 1, m) \in Seq(Rows) /\ Len(SubSeq(s, 1, m)) = m
         /\ SubSeq(s, m + 1, n) \in Seq(Rows)
         /\ SubSeq(s, 1, n) = SubSeq(s, 1, m) \o SubSeq(s, m + 1, n)
  <1>1. Len(s) \in Nat /\ \A i \in 1..Len(s) : s[i] \in Rows
    OBVIOUS
  <1>2. /\ SubSeq(s, 1, m) \in Seq(Rows)
        /\ Len(SubSeq(s, 1, m)) = IF 1 <= m THEN m - 1 + 1 ELSE 0
    <2>1. \A i \in 1..m : s[i] \in Rows
      BY <1>1
    <2> QED BY <1>1, <2>1, SubSeqProperties
  <1>3. SubSeq(s, m + 1, n) \in Seq(Rows)
    <2>1. \A i \in m + 1..n : s[i] \in Rows
      BY <1>1
    <2>2. m + 1 \in Int /\ n \in Int
      BY <1>1
    <2> DEFINE l == m + 1
    <2>3. l \in Int /\ \A i \in l..n : s[i] \in Rows
      BY <2>1, <2>2
    <2> HIDE DEF l
    <2>4. SubSeq(s, l, n) \in Seq(Rows)
      BY <2>2, <2>3, SubSeqProperties
    <2> QED BY <2>4 DEF l
  <1>4. SubSeq(s, 1, m) \o SubSeq(s, m + 1, n) = SubSeq(s, 1, n)
    <2>1. 1 \in 1..Len(s) + 1 /\ m \in 1 - 1..Len(s)
      BY <1>1
    <2> QED BY <2>1, ConcatAdjacentSubSeq
  <1> QED BY <1>1, <1>2, <1>3, <1>4

\* The whole stream gives the whole answer, a part of it a first part.
LEMMA TakenSplits ==
  ASSUME query \in Queries, PlanServes,
         NEW m \in 0..Len(Stream), NEW n \in m..Len(Stream)
  PROVE  LET rest == Rest(query.nRows, Taken(m))
             batch == Filtered(plan.residual, SubSeq(Stream, m + 1, n))
         IN  /\ Taken(m) \in Seq(Rows)
             /\ rest \in Nat \cup {None}
             /\ Limited(rest, batch) \in Seq(Rows)
             /\ Taken(n) = Taken(m) \o Limited(rest, batch)
  <1> DEFINE before == SubSeq(Stream, 1, m)
             after == SubSeq(Stream, m + 1, n)
             kept == Filtered(plan.residual, before)
             batch == Filtered(plan.residual, after)
             rest == Rest(query.nRows, Taken(m))
  <1>1. Stream \in Seq(Rows) /\ query.nRows \in Nat \cup {None}
    BY PlanDelivers, QueriesFit, LimitsAre
  <1>2. before \in Seq(Rows) /\ after \in Seq(Rows) /\ SubSeq(Stream, 1, n) = before \o after
    <2> DEFINE s == Stream
    <2>1. s \in Seq(Rows) /\ m \in 0..Len(s) /\ n \in m..Len(s)
      BY <1>1
    <2> HIDE DEF s
    <2>2. /\ SubSeq(s, 1, m) \in Seq(Rows)
          /\ SubSeq(s, m + 1, n) \in Seq(Rows)
          /\ SubSeq(s, 1, n) = SubSeq(s, 1, m) \o SubSeq(s, m + 1, n)
      BY <2>1, StreamSplits
    <2> QED BY <2>2 DEF s
  <1> HIDE DEF before, after
  <1>3. /\ kept \in Seq(Rows) /\ batch \in Seq(Rows)
        /\ Filtered(plan.residual, before \o after) = kept \o batch
    BY <1>2, FilteredIs, FilteredConcat
  <1>4. Taken(m) = Limited(query.nRows, kept) /\ Taken(n) = Limited(query.nRows, kept \o batch)
    BY <1>2, <1>3 DEF Taken, before
  <1> HIDE DEF kept, batch
  <1>5. \A s \in Seq(Rows), k \in Nat \cup {None} : Limited(k, s) \in Seq(Rows)
    BY LimitedRows
  <1>6. Taken(m) \in Seq(Rows)
    BY <1>1, <1>3, <1>4, <1>5
  <1>7. /\ Rest(query.nRows, Limited(query.nRows, kept)) \in Nat \cup {None}
        /\ Limited(query.nRows, kept \o batch) =
             Limited(query.nRows, kept) \o Limited(Rest(query.nRows, Limited(query.nRows, kept)), batch)
    <2>1. \A k \in Nat \cup {None} :
             /\ Rest(k, Limited(k, kept)) \in Nat \cup {None}
             /\ Limited(k, kept \o batch) = Limited(k, kept) \o Limited(Rest(k, Limited(k, kept)), batch)
      BY <1>3, LimitedConcat
    <2> QED BY <1>1, <2>1
  <1>8. rest \in Nat \cup {None} /\ Taken(n) = Taken(m) \o Limited(rest, batch)
    BY <1>4, <1>7
  <1>9. Limited(rest, batch) \in Seq(Rows)
    <2> HIDE DEF rest
    <2> QED BY <1>3, <1>5, <1>8
  <1> QED BY <1>6, <1>8, <1>9 DEF batch, after

LEMMA TakenPrefix ==
  ASSUME query \in Queries, PlanServes, NEW m \in 0..Len(Stream)
  PROVE  /\ Taken(m) \in Seq(Rows) /\ Source!Answer \in Seq(Rows)
         /\ Len(Taken(m)) <= Len(Source!Answer)
         /\ Taken(m) = SubSeq(Source!Answer, 1, Len(Taken(m)))
         /\ Rest(query.nRows, Taken(m)) = 0 \/ m = Len(Stream) => Taken(m) = Source!Answer
  <1> DEFINE answer == Source!Answer
             taken == Taken(m)
             rest == Rest(query.nRows, taken)
             last == Len(Stream)
             batch == Filtered(plan.residual, SubSeq(Stream, m + 1, last))
             tail == Limited(rest, batch)
  <1>1. Stream \in Seq(Rows) /\ last \in Nat /\ m \in 0..last /\ last \in m..last
    <2>1. Stream \in Seq(Rows)
      BY PlanDelivers
    <2>2. last \in Nat
      BY <2>1
    <2> QED BY <2>1, <2>2
  <1>2. answer = Taken(last)
    <2>1. SubSeq(Stream, 1, last) = Stream
      BY <1>1, SubSeqFull
    <2> QED BY <2>1, PlanDelivers, AnswerIs DEF Taken
  <1>3. /\ taken \in Seq(Rows) /\ rest \in Nat \cup {None}
        /\ tail \in Seq(Rows) /\ Taken(last) = taken \o tail
    BY <1>1, TakenSplits
  <1>4. rest = 0 => tail = <<>>
    <2> SUFFICES ASSUME rest = 0 PROVE Limited(0, batch) = <<>>
      OBVIOUS
    <2>1. SubSeq(Stream, m + 1, last) \in Seq(Rows)
      <3> DEFINE s == Stream
      <3>1. s \in Seq(Rows) /\ m \in 0..Len(s) /\ Len(s) \in m..Len(s)
        BY <1>1
      <3> HIDE DEF s
      <3>2. SubSeq(s, m + 1, Len(s)) \in Seq(Rows)
        BY <3>1, StreamSplits
      <3> QED BY <3>2 DEF s
    <2> DEFINE rows == SubSeq(Stream, m + 1, last)
    <2> HIDE DEF rows
    <2>2. batch \in Seq(Rows)
      BY <2>1, FilteredIs DEF rows
    <2> HIDE DEF batch
    <2>3. Limited(0, batch) \in Seq(Rows) /\ Len(Limited(0, batch)) = Count(0, batch)
      BY <2>2, LimitedIs
    <2>4. Count(0, batch) = 0
      BY <2>2, NoneAssumption DEF Count
    <2> QED BY <2>3, <2>4, EmptySeq
  <1> HIDE DEF taken, tail, answer, rest
  <1>5. answer = taken \o tail /\ answer \in Seq(Rows)
    BY <1>2, <1>3
  <1>6. Len(answer) = Len(taken) + Len(tail) /\ Len(taken) \in Nat /\ Len(tail) \in Nat
    BY <1>3, <1>5
  <1>7. taken = SubSeq(answer, 1, Len(taken))
    <2>1. CASE taken = <<>>
      <3>1. Len(taken) = 0
        BY <2>1
      <3> QED BY <2>1, <3>1, SubSeqEmpty
    <2>2. CASE taken # <<>>
      <3>1. Len(taken) \in 1..Len(taken) /\ 1 \in 1..Len(taken)
        BY <1>3, <1>6, <2>2, EmptySeq
      <3>2. SubSeq(taken \o tail, 1, Len(taken)) = SubSeq(taken, 1, Len(taken))
        BY <1>3, <3>1, SubSeqOfConcat1
      <3>3. SubSeq(taken, 1, Len(taken)) = taken
        BY <1>3, SubSeqFull
      <3> QED BY <1>5, <3>2, <3>3
    <2> QED BY <2>1, <2>2
  <1>8. rest = 0 => taken = answer
    BY <1>3, <1>4, <1>5, ConcatEmptySeq
  <1>9. m = last => taken = answer
    BY <1>2 DEF taken
  <1>10. Len(taken) <= Len(answer)
    BY <1>6
  <1> QED BY <1>3, <1>5, <1>7, <1>8, <1>9, <1>10 DEF taken, answer, rest, last

-----------------------------------------------------------------------------
(* The rows of a scan.  Until its first pull a scan has handed nothing on, *)
(* and while it pulls, what it has handed on and what it still may are     *)
(* those of the stream so far.                                             *)

ScanFits ==
  /\ status \in {"new", "built"} =>
       plan = Idle /\ pos = 0 /\ remaining = None /\ emitted = <<>>
  /\ status = "scanning" =>
       /\ PlanServes
       /\ pos \in 0..Len(Stream)
       /\ first => pos = 0
       /\ emitted = Taken(pos)
       /\ remaining = Rest(query.nRows, emitted)

RowsInv == TypeOK /\ ScanFits

PlanIs == [sql: Filters \cup {None}, residual: Filters \cup {None},
           prefilter: BOOLEAN, limit: Limits, fallback: BOOLEAN]

\* A plan that serves the query has a stream and a type.
Served ==
  query \in Queries /\ PlanServes =>
    Stream \in Seq(Rows) /\ Len(Stream) \in 0..NumRows /\ plan \in PlanIs

LEMMA PlansServe == Served
  <1> SUFFICES ASSUME query \in Queries, PlanServes
               PROVE  Stream \in Seq(Rows) /\ Len(Stream) \in 0..NumRows /\ plan \in PlanIs
    BY DEF Served
  <1>1. Stream \in Seq(Rows) /\ Len(Stream) <= NumRows
    BY PlanDelivers
  <1>2. Len(Stream) \in Nat
    BY <1>1
  <1>3. query.nRows \in Limits /\ None \in Limits
    BY QueriesFit DEF Limits
  <1>4. plan.limit \in Limits
    BY <1>3, PlanDelivers
  <1>5. \E sql, residual, prefilter : plan = Scan(sql, residual, prefilter)
    BY DEF PlanServes, PrefilterScan, PredicateScan, FallbackScan
  <1>6. plan = [sql |-> plan.sql, residual |-> plan.residual, prefilter |-> plan.prefilter,
                limit |-> plan.limit, fallback |-> plan.fallback]
    BY <1>5 DEF Scan
  <1>7. plan \in PlanIs
    BY <1>4, <1>6, PlanDelivers DEF PlanIs
  <1> QED BY <1>1, <1>2, <1>7, NumRowsAssumption

LEMMA PlansServeNext == Served'
  BY PlansServe, PTL

LEMMA RestIsALimit ==
  ASSUME NEW n \in Limits, NEW s \in Seq(Rows), Rest(n, s) \in Nat \cup {None}
  PROVE  Rest(n, s) \in Limits
  BY MaxLimitAssumption, NoneAssumption DEF Rest, Limits

LEMMA InitRowsInv == Init => RowsInv
  <1> SUFFICES ASSUME Init PROVE RowsInv
    OBVIOUS
  <1>1. ScanFits
    BY DEF Init, ScanFits
  <1>2. /\ query.nRows \in Limits /\ plan = Scan(None, None, FALSE) /\ query \in Queries
        /\ pos = 0 /\ first = TRUE /\ remaining = None /\ emitted = <<>> /\ status = "new"
        /\ faults = 0
    BY QueriesFit DEF Init, Idle
  <1>3. plan \in [sql: Filters \cup {None}, residual: Filters \cup {None},
                  prefilter: BOOLEAN, limit: Limits, fallback: BOOLEAN]
    BY <1>2 DEF Scan
  <1>4. pos \in 0..NumRows /\ remaining \in Limits /\ faults \in 0..MaxFaults
    BY <1>2, NumRowsAssumption, MaxFaultsAssumption DEF Limits
  <1>5. emitted \in Seq(Rows)
    BY <1>2
  <1>6. TypeOK
    BY <1>2, <1>3, <1>4, <1>5 DEF TypeOK
  <1> QED BY <1>1, <1>6 DEF RowsInv

\* A scan that begins serves the query whatever has been tried before.
LEMMA BegunRows ==
  ASSUME RowsInv, UNCHANGED <<query, emitted>>, emitted = <<>>,
         pos' = 0, first' = TRUE, remaining' = query.nRows, status' = "scanning",
         PlanServes', faults' \in 0..MaxFaults
  PROVE  RowsInv'
  <1>1. query' \in Queries /\ query' = query /\ query.nRows \in Limits
    BY QueriesFit DEF RowsInv, TypeOK
  <1>2. Stream' \in Seq(Rows) /\ Len(Stream)' \in 0..NumRows /\ plan' \in PlanIs
    BY <1>1, PlansServeNext DEF Served, PlanIs
  <1>3. Limited(query.nRows, Filtered(plan'.residual, SubSeq(Stream', 1, 0))) = <<>>
    <2>1. query.nRows \in Nat \cup {None}
      BY <1>1, LimitsAre
    <2> QED BY <2>1, NothingTaken
  <1>4. Taken(0)' = <<>>
    BY <1>1, <1>3 DEF Taken
  <1>5. Rest(query.nRows, <<>>) = query.nRows
    <2>1. query.nRows \in Nat \cup {None}
      BY <1>1, LimitsAre
    <2> QED BY <2>1 DEF Rest
  <1>6. TypeOK'
    <2>1. 0 \in 0..NumRows
      BY NumRowsAssumption
    <2> QED BY <1>1, <1>2, <2>1 DEF TypeOK, PlanIs, RowsInv
  <1>7. ScanFits'
    <2>1. emitted' = Taken(pos)' /\ remaining' = Rest(query.nRows, emitted)'
      BY <1>1, <1>4, <1>5 DEF Taken
    <2>2. pos' \in 0..Len(Stream)'
      BY <1>2
    <2> QED BY <2>1, <2>2 DEF ScanFits
  <1> QED BY <1>6, <1>7 DEF RowsInv

\* A step that only ends the scan, or comes before it.
LEMMA EndedRows ==
  ASSUME RowsInv, UNCHANGED <<query, plan, pos, first, remaining, emitted>>,
         faults' \in 0..MaxFaults,
         \/ status' \in {"done", "error", "dropped"}
         \/ status' = status
         \/ status = "new" /\ status' = "built"
  PROVE  RowsInv'
  <1>1. TypeOK'
    BY DEF RowsInv, TypeOK
  <1>2. ScanFits'
    <2>1. CASE status' = "scanning"
      <3>1. status = "scanning"
        BY <2>1
      <3>2. Stream' = Stream /\ Taken(pos)' = Taken(pos) /\ PlanServes' = PlanServes
            /\ Rest(query.nRows, emitted)' = Rest(query.nRows, emitted)
        BY DEF Stream, Taken, PlanServes, PrefilterScan, PredicateScan, FallbackScan, Scan, Rest
      <3> QED BY <2>1, <3>1, <3>2 DEF RowsInv, ScanFits
    <2>2. CASE status' \in {"new", "built"}
      <3>1. status \in {"new", "built"}
        BY <2>2
      <3>2. Idle' = Idle
        BY DEF Idle, Scan
      <3> QED BY <2>2, <3>1, <3>2 DEF RowsInv, ScanFits
    <2>3. CASE status' \in {"done", "error", "dropped"}
      BY <2>3 DEF ScanFits
    <2> QED BY <1>1, <2>1, <2>2, <2>3 DEF TypeOK
  <1> QED BY <1>1, <1>2 DEF RowsInv

LEMMA OpenRows == ASSUME RowsInv, Open PROVE RowsInv'
  <1>1. /\ status = "built" /\ emitted = <<>> /\ faults \in 0..MaxFaults
        /\ UNCHANGED <<query, emitted>> /\ faults' \in 0..MaxFaults
    BY DEF Open, RowsInv, ScanFits, TypeOK
  <1>2. CASE query.prefilter # None /\ ~query.prefilter.lowered.exact
    BY <1>1, <1>2, EndedRows DEF Open
  <1>3. CASE query.prefilter # None /\ query.prefilter.lowered.exact
    <2>1. /\ status' = "scanning" /\ plan' = PrefilterScan
          /\ pos' = 0 /\ first' = TRUE /\ remaining' = query.nRows
      BY <1>3 DEF Open, Begin
    <2>2. PlanServes'
      BY <1>1, <1>3, <2>1 DEF PlanServes, PrefilterScan, Scan
    <2> QED BY <1>1, <2>1, <2>2, BegunRows
  <1>4. CASE query.prefilter = None
    <2>1. /\ status' = "scanning" /\ plan' = PredicateScan
          /\ pos' = 0 /\ first' = TRUE /\ remaining' = query.nRows
      BY <1>4 DEF Open, Begin
    <2>2. PlanServes'
      BY <1>1, <1>4, <2>1 DEF PlanServes, PredicateScan, Scan
    <2> QED BY <1>1, <2>1, <2>2, BegunRows
  <1> QED BY <1>2, <1>3, <1>4

\* An exception out of the first pull starts over from nothing handed on.
LEMMA ExceptionRows ==
  ASSUME RowsInv, OnException, status \in {"built", "scanning"},
         UNCHANGED <<query, emitted>>, faults' \in 0..MaxFaults
  PROVE  RowsInv'
  <1>1. CASE first /\ plan.fallback
    <2>1. status = "scanning"
      <3>1. Idle.fallback = FALSE
        BY DEF Idle, Scan
      <3> QED BY <1>1, <3>1 DEF RowsInv, ScanFits
    <2>2. query.prefilter = None
      <3>1. PrefilterScan.fallback = FALSE
        BY DEF PrefilterScan, Scan
      <3> QED BY <1>1, <2>1, <3>1 DEF RowsInv, ScanFits, PlanServes
    <2>3. emitted = <<>>
      <3>1. query.nRows \in Nat \cup {None}
        BY QueriesFit, LimitsAre DEF RowsInv, TypeOK
      <3>2. Taken(0) = <<>>
        BY <3>1, NothingTaken DEF Taken
      <3> QED BY <1>1, <2>1, <3>2 DEF RowsInv, ScanFits
    <2>4. /\ plan' = FallbackScan /\ pos' = 0 /\ first' = TRUE /\ remaining' = query.nRows
          /\ status' = "scanning"
      BY <1>1, <2>1 DEF OnException, Begin
    <2>5. PlanServes'
      BY <2>2, <2>4 DEF PlanServes, FallbackScan, Scan
    <2> QED BY <2>3, <2>4, <2>5, BegunRows
  <1>2. CASE ~(first /\ plan.fallback)
    <2>1. status' = "error" /\ UNCHANGED <<plan, pos, first, remaining>>
      BY <1>2 DEF OnException
    <2> QED BY <2>1, EndedRows
  <1> QED BY <1>1, <1>2

\* A pull hands on what the batch adds, and ends the scan only with the answer.
LEMMA PullIs ==
  ASSUME RowsInv, Pull
  PROVE  /\ status = "scanning" /\ UNCHANGED <<query, plan, faults>> /\ first' = FALSE
         /\ pos' \in 0..Len(Stream)
         /\ emitted' = Taken(pos') /\ remaining' = Rest(query.nRows, emitted')
         /\ Len(emitted) <= Len(emitted')
         /\ status' = "scanning" \/ (status' = "done" /\ emitted' = Source!Answer)
  <1>1. /\ status = "scanning" /\ UNCHANGED <<query, plan, faults>> /\ first' = FALSE
        /\ query \in Queries /\ PlanServes /\ pos \in 0..Len(Stream)
        /\ emitted = Taken(pos) /\ remaining = Rest(query.nRows, emitted)
        /\ Stream \in Seq(Rows)
    BY PlansServe DEF Pull, RowsInv, ScanFits, TypeOK, Served
  <1>2. PICK n \in 0..Len(Stream) - pos :
          LET batch == SubSeq(Stream, pos + 1, pos + n)
              left == IF remaining = None THEN None ELSE remaining - Len(Frame(batch))
              spent == IF plan.residual = None THEN remaining = 0 ELSE left = 0
          IN  /\ pos' = pos + n
              /\ IF n = 0
                 THEN UNCHANGED <<emitted, remaining, status>>
                 ELSE /\ emitted' = emitted \o Frame(batch)
                      /\ remaining' = left
                      /\ status' = IF spent THEN "done" ELSE status
    BY DEF Pull
  <1> DEFINE next == pos + n
             batch == SubSeq(Stream, pos + 1, next)
             added == Frame(batch)
  <1>3. Len(Stream) \in Nat /\ next \in 0..Len(Stream) /\ next \in pos..Len(Stream) /\ pos' = next
    BY <1>1, <1>2
  <1>4. emitted \in Seq(Rows) /\ Len(emitted) \in Nat
    BY DEF RowsInv, TypeOK
  <1>5. CASE n = 0
    <2>1. UNCHANGED <<emitted, remaining, status>> /\ pos' = pos
      BY <1>1, <1>2, <1>5
    <2> QED BY <1>1, <1>4, <2>1
  <1>6. CASE n # 0
    <2>1. /\ emitted' = emitted \o added
          /\ remaining' = (IF remaining = None THEN None ELSE remaining - Len(added))
          /\ status' \in {"scanning", "done"}
          /\ status' = "done" => remaining' = 0 \/ remaining = 0
      BY <1>1, <1>2, <1>6
    <2>2. added = Limited(remaining, Filtered(plan.residual, batch))
      BY DEF Frame, Filtered
    <2> HIDE DEF added
    <2>3. /\ added \in Seq(Rows) /\ remaining \in Nat \cup {None}
          /\ Taken(next) = emitted \o added
      <3> HIDE DEF next
      <3>1. LET rest == Rest(query.nRows, Taken(pos))
                rows == Filtered(plan.residual, SubSeq(Stream, pos + 1, next))
            IN  /\ rest \in Nat \cup {None}
                /\ Limited(rest, rows) \in Seq(Rows)
                /\ Taken(next) = Taken(pos) \o Limited(rest, rows)
        BY <1>1, <1>3, TakenSplits
      <3> QED BY <1>1, <2>2, <3>1
    <2>4. Len(emitted') = Len(emitted) + Len(added) /\ Len(added) \in Nat
      BY <1>4, <2>1, <2>3
    <2>5. query.nRows \in Nat \cup {None} /\ None \notin Int
      BY <1>1, QueriesFit, LimitsAre, NoneAssumption
    <2>6. remaining' = Rest(query.nRows, emitted')
      <3>1. CASE query.nRows = None
        <4>1. remaining = None
          BY <1>1, <3>1 DEF Rest
        <4> QED BY <2>1, <3>1, <4>1 DEF Rest
      <3>2. CASE query.nRows # None
        <4>1. remaining = query.nRows - Len(emitted) /\ query.nRows \in Nat
          BY <1>1, <2>5, <3>2 DEF Rest
        <4>2. remaining \in Int
          BY <1>4, <4>1
        <4>3. remaining # None
          BY <2>5, <4>2
        <4> QED BY <1>4, <2>1, <2>4, <3>2, <4>1, <4>3 DEF Rest
      <3> QED BY <3>1, <3>2
    <2>7. emitted' = Taken(next)
      BY <2>1, <2>3
    <2>8. Rest(query.nRows, Taken(next)) = 0 => Taken(next) = Source!Answer
      <3> HIDE DEF next
      <3> QED BY <1>1, <1>3, TakenPrefix
    <2>9. Rest(query.nRows, Taken(next)) \in Nat \cup {None}
      <3> HIDE DEF next
      <3>1. next \in next..Len(Stream)
        BY <1>3
      <3> QED BY <1>1, <1>3, <3>1, TakenSplits
    <2>10. status' = "done" => remaining' = 0
      <3> SUFFICES ASSUME remaining = 0 PROVE remaining' = 0
        BY <2>1
      <3>1. remaining # None /\ remaining' = 0 - Len(added)
        BY <2>1, <2>5
      <3>2. remaining' # None => remaining' \in Nat
        BY <2>6, <2>7, <2>9
      <3>3. remaining' # None
        BY <2>4, <2>5, <3>1
      <3> QED BY <2>4, <3>1, <3>2, <3>3
    <2> QED BY <1>1, <1>3, <1>4, <2>1, <2>4, <2>6, <2>7, <2>8, <2>10
  <1> QED BY <1>5, <1>6

LEMMA PullRows == ASSUME RowsInv, Pull PROVE RowsInv'
  <1>1. /\ status = "scanning" /\ UNCHANGED <<query, plan, faults>> /\ first' = FALSE
        /\ pos' \in 0..Len(Stream)
        /\ emitted' = Taken(pos') /\ remaining' = Rest(query.nRows, emitted')
        /\ status' \in {"scanning", "done"}
    BY PullIs
  <1>2. query \in Queries /\ PlanServes /\ Len(Stream) \in 0..NumRows
    BY <1>1, PlansServe DEF RowsInv, ScanFits, TypeOK, Served
  <1>3. emitted' \in Seq(Rows) /\ remaining' \in Nat \cup {None}
    <2> DEFINE n == pos'
    <2>1. n \in 0..Len(Stream) /\ n \in n..Len(Stream)
      BY <1>1, <1>2
    <2> HIDE DEF n
    <2>2. Taken(n) \in Seq(Rows) /\ Rest(query.nRows, Taken(n)) \in Nat \cup {None}
      BY <1>2, <2>1, TakenSplits
    <2> QED BY <1>1, <2>2 DEF n
  <1>4. remaining' \in Limits
    <2> DEFINE out == emitted'
    <2>1. query.nRows \in Limits /\ out \in Seq(Rows) /\ Rest(query.nRows, out) \in Nat \cup {None}
      BY <1>1, <1>2, <1>3, QueriesFit
    <2> HIDE DEF out
    <2>2. Rest(query.nRows, out) \in Limits
      BY <2>1, RestIsALimit
    <2> QED BY <1>1, <2>2 DEF out
  <1>5. pos' \in 0..NumRows
    BY <1>1, <1>2, NumRowsAssumption
  <1>6. TypeOK'
    BY <1>1, <1>3, <1>4, <1>5 DEF RowsInv, TypeOK
  <1>7. ScanFits'
    <2>1. Stream' = Stream /\ Taken(pos)' = Taken(pos') /\ PlanServes' = PlanServes
          /\ Rest(query.nRows, emitted)' = Rest(query.nRows, emitted')
      BY <1>1 DEF Stream, Taken, PlanServes, PrefilterScan, PredicateScan, FallbackScan, Scan, Rest
    <2> QED BY <1>1, <1>2, <2>1 DEF ScanFits
  <1> QED BY <1>6, <1>7 DEF RowsInv

LEMMA NextRowsInv == RowsInv /\ [Next]_vars => RowsInv'
  <1> SUFFICES ASSUME RowsInv, [Next]_vars PROVE RowsInv'
    OBVIOUS
  <1>1. faults \in 0..MaxFaults /\ MaxFaults \in Nat
    BY MaxFaultsAssumption DEF RowsInv, TypeOK
  <1>2. CASE UNCHANGED vars
    BY <1>1, <1>2, EndedRows DEF vars
  <1>3. CASE Build
    <2>1. /\ status = "new" /\ status' \in {"error", "built"}
          /\ UNCHANGED <<query, plan, pos, first, remaining, emitted, faults>>
      BY <1>3 DEF Build
    <2> QED BY <1>1, <2>1, EndedRows
  <1>4. CASE Open
    BY <1>4, OpenRows
  <1>5. CASE Pull
    BY <1>5, PullRows
  <1>6. CASE EndOfStream
    BY <1>1, <1>6, EndedRows DEF EndOfStream
  <1>7. CASE Refused
    BY <1>1, <1>7, ExceptionRows DEF Refused
  <1>8. CASE Fault
    <2>1. faults' \in 0..MaxFaults
      BY <1>1, <1>8 DEF Fault
    <2> QED BY <1>8, <2>1, ExceptionRows DEF Fault
  <1>9. CASE Drop
    BY <1>1, <1>9, EndedRows DEF Drop
  <1> QED BY <1>2, <1>3, <1>4, <1>5, <1>6, <1>7, <1>8, <1>9 DEF Next

\* The generator's state has its type at every step: the rows pulled never
\* exceed the stream, and the limit left is never negative (iter_frames).
THEOREM TypeCorrect == Spec => []TypeOK
  <1>1. RowsInv => TypeOK
    BY DEF RowsInv
  <1> QED BY <1>1, InitRowsInv, NextRowsInv, PTL DEF Spec

-----------------------------------------------------------------------------
(* The scan is a source of the answer's rows.                              *)

LEMMA Delivers ==
  ASSUME Outcome = "open", UNCHANGED query,
         NEW n \in Len(emitted)..Len(Source!Answer),
         emitted' = SubSeq(Source!Answer, 1, n),
         Outcome' = "open" \/ (Outcome' = "done" /\ emitted' = Source!Answer)
  PROVE  Source!Deliver
  BY DEF Source!Deliver

LEMMA GivesUp ==
  ASSUME status \in {"new", "built", "scanning"}, UNCHANGED <<query, emitted>>,
         status' \in {"new", "built", "scanning", "error", "dropped"}
  PROVE  [Source!Deliver \/ Source!GiveUp]_Source!svars
  <1>1. Outcome = "open"
    BY DEF Outcome
  <1>2. CASE status' \in {"new", "built", "scanning"}
    BY <1>1, <1>2 DEF Outcome, Source!svars
  <1>3. CASE status' \in {"error", "dropped"}
    <2>1. Outcome' \in {"error", "dropped"}
      BY <1>3 DEF Outcome
    <2> QED BY <1>1, <2>1 DEF Source!GiveUp
  <1> QED BY <1>2, <1>3

LEMMA PullDelivers ==
  ASSUME RowsInv, Pull
  PROVE  [Source!Deliver \/ Source!GiveUp]_Source!svars
  <1>1. /\ status = "scanning" /\ UNCHANGED query
        /\ pos' \in 0..Len(Stream)
        /\ emitted' = Taken(pos')
        /\ Len(emitted) <= Len(emitted')
        /\ status' = "scanning" \/ (status' = "done" /\ emitted' = Source!Answer)
    BY PullIs
  <1>2. query \in Queries /\ PlanServes /\ emitted \in Seq(Rows)
    BY <1>1 DEF RowsInv, ScanFits, TypeOK
  <1> DEFINE n == pos'
             out == Taken(n)
  <1>3. n \in 0..Len(Stream) /\ emitted' = out /\ Len(emitted) <= Len(out)
    BY <1>1
  <1>4. /\ out \in Seq(Rows) /\ Source!Answer \in Seq(Rows)
        /\ Len(out) <= Len(Source!Answer)
        /\ out = SubSeq(Source!Answer, 1, Len(out))
    <2> HIDE DEF n
    <2> QED BY <1>2, <1>3, TakenPrefix
  <1> HIDE DEF n, out
  <1>5. Len(out) \in Len(emitted)..Len(Source!Answer)
    BY <1>2, <1>3, <1>4
  <1>6. Outcome = "open"
        /\ (Outcome' = "open" \/ (Outcome' = "done" /\ emitted' = Source!Answer))
    BY <1>1 DEF Outcome
  <1>7. Source!Deliver
    BY <1>1, <1>3, <1>4, <1>5, <1>6, Delivers
  <1> QED BY <1>7

\* The limit pushed into Lance ends the stream just where the answer ends.
LEMMA EndDelivers ==
  ASSUME RowsInv, EndOfStream
  PROVE  [Source!Deliver \/ Source!GiveUp]_Source!svars
  <1>1. /\ status = "scanning" /\ UNCHANGED <<query, emitted>> /\ status' = "done"
        /\ pos = Len(Stream) \/ LimitReached
        /\ query \in Queries /\ PlanServes /\ pos \in 0..Len(Stream)
        /\ emitted = Taken(pos)
    BY DEF EndOfStream, RowsInv, ScanFits, TypeOK
  <1>2. /\ emitted \in Seq(Rows) /\ Source!Answer \in Seq(Rows)
        /\ emitted = SubSeq(Source!Answer, 1, Len(emitted))
        /\ Rest(query.nRows, emitted) = 0 \/ pos = Len(Stream) => emitted = Source!Answer
    BY <1>1, TakenPrefix
  <1>3. ASSUME LimitReached PROVE emitted = Source!Answer
    <2>1. plan.residual = None /\ query.nRows \in Nat /\ pos >= query.nRows
      BY <1>1, <1>3, PlanDelivers, QueriesFit, LimitsAre DEF LimitReached
    <2> DEFINE before == SubSeq(Stream, 1, pos)
    <2>2. before \in Seq(Rows) /\ Len(before) = pos
      <3> DEFINE s == Stream
      <3>1. s \in Seq(Rows) /\ pos \in 0..Len(s) /\ Len(s) \in pos..Len(s)
        <4>1. s \in Seq(Rows)
          BY <1>1, PlansServe DEF Served
        <4> QED BY <1>1, <4>1
      <3> HIDE DEF s
      <3>2. \A m \in 0..Len(s) : \A n \in m..Len(s) :
              SubSeq(s, 1, m) \in Seq(Rows) /\ Len(SubSeq(s, 1, m)) = m
        BY <3>1, StreamSplits
      <3> QED BY <3>1, <3>2 DEF s
    <2>3. emitted = Limited(query.nRows, before)
      BY <1>1, <2>1 DEF Taken, Filtered
    <2> HIDE DEF before
    <2>4. Len(emitted) = Count(query.nRows, before)
      BY <2>1, <2>2, <2>3, LimitedIs
    <2>5. Len(emitted) = query.nRows
      BY <1>1, <2>1, <2>2, <2>4, NoneAssumption DEF Count
    <2>6. Rest(query.nRows, emitted) = 0
      BY <2>1, <2>5, NoneAssumption DEF Rest
    <2> QED BY <1>2, <2>6
  <1>4. emitted = Source!Answer
    BY <1>1, <1>2, <1>3
  <1>5. Len(emitted) \in Len(emitted)..Len(Source!Answer)
    BY <1>2, <1>4
  <1>6. Outcome = "open" /\ Outcome' = "done"
    BY <1>1 DEF Outcome
  <1>7. Source!Deliver
    BY <1>1, <1>2, <1>4, <1>5, <1>6, Delivers
  <1> QED BY <1>7

LEMMA StepDelivers ==
  RowsInv /\ [Next]_vars => [Source!Deliver \/ Source!GiveUp]_Source!svars
  <1> SUFFICES ASSUME RowsInv, [Next]_vars
               PROVE  [Source!Deliver \/ Source!GiveUp]_Source!svars
    OBVIOUS
  <1>1. CASE UNCHANGED vars
    BY <1>1 DEF vars, Outcome, Source!svars
  <1>2. CASE Build
    BY <1>2, GivesUp DEF Build
  <1>3. CASE Open
    BY <1>3, GivesUp DEF Open
  <1>4. CASE Pull
    BY <1>4, PullDelivers
  <1>5. CASE EndOfStream
    BY <1>5, EndDelivers
  <1>6. CASE Refused
    BY <1>6, GivesUp DEF Refused, OnException
  <1>7. CASE Fault
    BY <1>7, GivesUp DEF Fault, OnException
  <1>8. CASE Drop
    BY <1>8, GivesUp DEF Drop
  <1> QED BY <1>1, <1>2, <1>3, <1>4, <1>5, <1>6, <1>7, <1>8 DEF Next

\* However the predicate, the prefilter and the limit are divided between Lance
\* and Polars (_frames, _apply, iter_frames), and though a refused filter starts
\* the scan over, what the engine gets are the rows of the answer: in order,
\* none twice, and all of them by the time the scan says it is done.
THEOREM ImplementsRowSource == Spec => DeliversTheAnswer
  <1>1. Init => Source!SInit
    BY DEF Init, Source!SInit, Outcome
  <1> QED BY <1>1, InitRowsInv, NextRowsInv, StepDelivers, PTL
          DEF Spec, DeliversTheAnswer, Source!SSpec

-----------------------------------------------------------------------------
(* The columns of a scan, for any dataset, those that store a column of a  *)
(* virtual name included, and any columns Lance generates.                 *)

LEMMA ElementsAre ==
  ASSUME NEW s \in Seq(Names)
  PROVE  /\ \A x : x \in ToSet(s) <=> Occurs(x, s)
         /\ ToSet(s) \subseteq Names
         /\ IsFiniteSet(ToSet(s))
  <1> DEFINE T == ToSet(s)
  <1>1. DOMAIN s = 1..Len(s) /\ Len(s) \in Nat /\ s \in [1..Len(s) -> Names]
    BY LenProperties
  <1>2. T = {s[i] : i \in 1..Len(s)}
    BY <1>1 DEF ToSet
  <1>3. \A x : x \in T <=> Occurs(x, s)
    BY <1>2 DEF Occurs
  <1>4. T \subseteq Names
    BY <1>1, <1>2
  <1>5. s \in Surjection(1..Len(s), T)
    BY <1>1, <1>2 DEF Surjection
  <1>6. IsFiniteSet(1..Len(s))
    BY <1>1, FS_Interval
  <1>7. IsFiniteSet(T)
    <2> HIDE DEF T
    <2> QED BY <1>5, <1>6, FS_Surjection
  <1> QED BY <1>3, <1>4, <1>7

LEMMA OnlyIs ==
  ASSUME NEW s \in Seq(Names), NEW K
  PROVE  /\ Only(s, K) \in Seq(Names)
         /\ ToSet(Only(s, K)) = ToSet(s) \cap K
  <1> DEFINE t == Only(s, K)
  <1>1. t = Selected(s, K)
    BY DEF Only, Selected
  <1>2. t \in Seq(Names) /\ \A x : Occurs(x, t) <=> Occurs(x, s) /\ x \in K
    BY <1>1, SelectedIs
  <1> HIDE DEF t
  <1>3. ToSet(t) = ToSet(s) \cap K
    <2>1. \A x : x \in ToSet(t) <=> Occurs(x, t)
      BY <1>2, ElementsAre
    <2>2. \A x : x \in ToSet(s) <=> Occurs(x, s)
      BY ElementsAre
    <2> QED BY <1>2, <2>1, <2>2
  <1> QED BY <1>2, <1>3 DEF t

LEMMA ConcatElements ==
  ASSUME NEW s \in Seq(Names), NEW t \in Seq(Names)
  PROVE  /\ s \o t \in Seq(Names)
         /\ ToSet(s \o t) = ToSet(s) \cup ToSet(t)
  <1> DEFINE u == s \o t
  <1>1. /\ u \in Seq(Names) /\ Len(u) = Len(s) + Len(t) /\ Len(s) \in Nat /\ Len(t) \in Nat
        /\ \A i \in 1..Len(s) + Len(t) : u[i] = IF i <= Len(s) THEN s[i] ELSE t[i - Len(s)]
    BY ConcatProperties
  <1> HIDE DEF u
  <1>2. \A x : Occurs(x, u) <=> Occurs(x, s) \/ Occurs(x, t)
    <2> SUFFICES ASSUME NEW x PROVE Occurs(x, u) <=> Occurs(x, s) \/ Occurs(x, t)
      OBVIOUS
    <2>1. ASSUME NEW i \in 1..Len(u), u[i] = x PROVE Occurs(x, s) \/ Occurs(x, t)
      <3>1. CASE i <= Len(s)
        BY <1>1, <2>1, <3>1 DEF Occurs
      <3>2. CASE ~(i <= Len(s))
        <4>1. i - Len(s) \in 1..Len(t) /\ t[i - Len(s)] = x
          BY <1>1, <2>1, <3>2
        <4> QED BY <4>1 DEF Occurs
      <3> QED BY <3>1, <3>2
    <2>2. ASSUME NEW i \in 1..Len(s), s[i] = x PROVE Occurs(x, u)
      <3>1. i \in 1..Len(u) /\ u[i] = x
        BY <1>1, <2>2
      <3> QED BY <3>1 DEF Occurs
    <2>3. ASSUME NEW i \in 1..Len(t), t[i] = x PROVE Occurs(x, u)
      <3> DEFINE j == Len(s) + i
      <3>1. j \in 1..Len(u) /\ ~(j <= Len(s)) /\ j - Len(s) = i
        BY <1>1
      <3>2. u[j] = x
        BY <1>1, <2>3, <3>1
      <3> QED BY <3>1, <3>2 DEF Occurs
    <2> QED BY <2>1, <2>2, <2>3 DEF Occurs
  <1>3. ToSet(u) = ToSet(s) \cup ToSet(t)
    <2>1. \A x : x \in ToSet(u) <=> Occurs(x, u)
      BY <1>1, ElementsAre
    <2>2. \A x : /\ x \in ToSet(s) <=> Occurs(x, s)
                 /\ x \in ToSet(t) <=> Occurs(x, t)
      BY ElementsAre
    <2> QED BY <1>2, <2>1, <2>2
  <1> QED BY <1>1, <1>3 DEF u

\* Every finite set of columns can be put in a sequence.
LEMMA SetToSeqIs ==
  ASSUME NEW C \in SUBSET Names, IsFiniteSet(C)
  PROVE  /\ SetToSeq(C) \in Seq(Names)
         /\ ToSet(SetToSeq(C)) = C
  <1> DEFINE n == Cardinality(C)
             f == SetToSeq(C)
  <1>1. n \in Nat /\ ExistsBijection(1..n, C)
    BY FS_CardinalityType
  <1>2. \E g : g \in [1..n -> C] /\ IsInjective(g)
    BY <1>1 DEF ExistsBijection, Bijection, Injection, IsInjective
  <1>3. f \in [1..n -> C] /\ IsInjective(f)
    <2>1. f = CHOOSE g \in [1..n -> C] : IsInjective(g)
      BY Zenon DEF SetToSeq
    <2> QED BY <1>2, <2>1
  <1> HIDE DEF f
  <1>4. f \in Injection(1..n, C)
    BY <1>3 DEF Injection, IsInjective
  <1>5. Cardinality(1..n) = n
    BY <1>1, FS_Interval
  <1>6. f \in Surjection(1..n, C)
    BY <1>4, <1>5, FS_Injection
  <1>7. f \in Seq(Names)
    <2>1. f \in [1..n -> Names]
      BY <1>3
    <2> QED BY <1>1, <2>1, SeqDef
  <1>8. ToSet(f) = C
    BY <1>3, <1>6 DEF Surjection, ToSet
  <1> QED BY <1>7, <1>8 DEF f

\* A query names columns of its scan's schema only.
LEMMA ColumnsOfQuery ==
  ASSUME request \in Requests
  PROVE  LET full == Full(request.generated)
         IN  /\ full \in Seq(Names)
             /\ Only(Generated, request.generated) \in Seq(Names)
             /\ ToSet(full) =
                  ToSet(Stored) \cup
                  ToSet(Only(Generated, request.generated))
             /\ ToSet(Only(Generated, request.generated)) \subseteq Virtual \ ToSet(Stored)
             /\ request.projection # None =>
                  /\ request.projection \in Seq(Names)
                  /\ ToSet(request.projection) \subseteq ToSet(full)
             /\ request.roots # None => request.roots \subseteq ToSet(full)
  <1> DEFINE full == Full(request.generated)
             all == ToSet(full)
             added == Only(Generated, request.generated)
  <1>1. added \in Seq(Names) /\ ToSet(added) \subseteq Virtual \ ToSet(Stored)
    <2>1. request.generated \subseteq ToSet(Generated) \ ToSet(Stored)
      BY DEF Requests
    <2>2. added \in Seq(Names) /\ ToSet(added) = ToSet(Generated) \cap request.generated
      BY OnlyIs, ColumnsAssumption
    <2> HIDE DEF added
    <2> QED BY <2>1, <2>2, ColumnsAssumption
  <1>2. full = Stored \o added
    BY DEF Full
  <1> HIDE DEF added
  <1>3. full \in Seq(Names) /\ all = ToSet(Stored) \cup ToSet(added)
    BY <1>1, <1>2, ConcatElements, ColumnsAssumption
  <1>4. /\ request.projection \in Orders(all) \cup {None}
        /\ request.roots \in (SUBSET all) \cup {None}
    BY DEF Requests
  <1> HIDE DEF full
  <1>5. IsFiniteSet(all) /\ all \subseteq Names
    BY <1>3, ElementsAre
  <1> HIDE DEF all
  <1>6. ASSUME NEW s \in Orders(all)
        PROVE  s \in Seq(Names) /\ ToSet(s) \subseteq all
    <2>1. PICK cs \in SUBSET all : s \in [1..Cardinality(cs) -> cs]
      BY DEF Orders
    <2>2. Cardinality(cs) \in Nat
      BY <1>5, FS_Subset, FS_CardinalityType
    <2>3. s \in [1..Cardinality(cs) -> Names]
      BY <1>5, <2>1
    <2>4. s \in Seq(Names)
      BY <2>2, <2>3, SeqDef
    <2>5. ToSet(s) \subseteq cs
      BY <2>1 DEF ToSet
    <2> QED BY <2>4, <2>5
  <1> QED BY <1>1, <1>3, <1>4, <1>6 DEF full, all, added

\* What a predicate left to Polars has to read is there, after what the engine asked for.
LEMMA WidenedIs ==
  ASSUME request \in Requests
  PROVE  LET full == ToSet(Full(request.generated))
             widened == Widened
         IN  /\ widened = None <=> request.projection = None
             /\ widened # None =>
                  /\ widened \in Seq(Names) /\ ToSet(widened) \subseteq full
                  /\ ToSet(request.projection) \subseteq ToSet(widened)
                  /\ request.roots # None =>
                       /\ request.roots \subseteq ToSet(widened)
                       /\ ToSet(widened) \subseteq ToSet(request.projection) \cup request.roots
             /\ request.roots = None => widened = request.projection
  <1> DEFINE all == ToSet(Full(request.generated))
             wanted == request.projection
             read == request.roots
             widened == Widened
  <1>1. CASE wanted = None \/ read = None
    <2>1. widened = wanted
      BY <1>1 DEF Widened, WithPredicateColumns
    <2> QED BY <1>1, <2>1, ColumnsOfQuery
  <1>2. CASE wanted # None /\ read # None
    <2> DEFINE more == read \ ToSet(wanted)
               added == SetToSeq(more)
    <2>1. widened = wanted \o added
      BY <1>2 DEF Widened, WithPredicateColumns
    <2>2. /\ wanted \in Seq(Names) /\ ToSet(wanted) \subseteq all
          /\ read \subseteq all /\ IsFiniteSet(all) /\ all \subseteq Names
      BY <1>2, ColumnsOfQuery, ElementsAre
    <2> HIDE DEF all, wanted, read
    <2>3. more \in SUBSET Names /\ IsFiniteSet(more)
      <3>1. more \in SUBSET all
        BY <2>2
      <3> HIDE DEF more
      <3> QED BY <2>2, <3>1, FS_Subset
    <2>4. added \in Seq(Names) /\ ToSet(added) = more
      <3> HIDE DEF more
      <3> QED BY <2>3, SetToSeqIs
    <2> HIDE DEF added
    <2>5. /\ wanted \o added \in Seq(Names)
          /\ ToSet(wanted \o added) = ToSet(wanted) \cup more
      BY <2>2, <2>4, ConcatElements
    <2>6. widened \in Seq(Names) /\ ToSet(widened) = ToSet(wanted) \cup more
      BY <2>1, <2>5
    <2> HIDE DEF widened
    <2>7. widened # None /\ ToSet(widened) \subseteq all
          /\ read \subseteq ToSet(widened)
          /\ ToSet(widened) \subseteq ToSet(wanted) \cup read
      BY <2>2, <2>6, ColumnsAssumption
    <2> QED BY <1>2, <2>6, <2>7 DEF all, wanted, read, widened
  <1> QED BY <1>1, <1>2

\* The columns at hand are those asked for and those Lance adds.
Batch ==
  (IF Widened = None THEN Stored ELSE Only(Widened, Names \ Virtual))
  \o Only(Generated, request.generated)

ColumnsInv ==
  /\ request \in Requests
  /\ step \in {"new", "asked", "batch", "frame", "out", "missing"}
  /\ step = "asked" => asked = Columns(Widened)
  /\ step = "batch" => frame = Batch
  /\ step = "frame" =>
       frame = IF Widened = None THEN Full(request.generated)
               ELSE IF StoredIsOverlooked THEN <<>> ELSE Widened
  /\ step = "missing" => StoredIsOverlooked
  /\ FramesAreTheProjection

LEMMA AskedAreStored ==
  ASSUME request \in Requests
  PROVE  LET some == Columns(Widened)
         IN  /\ some = None <=> Widened = None
             /\ some # None => ToSet(some) \subseteq ToSet(Stored)
             /\ some # None => some = Only(Widened, Names \ Virtual)
  <1>1. CASE Widened = None
    BY <1>1 DEF Columns
  <1>2. CASE Widened # None
    <2> DEFINE widened == Widened
               some == Only(widened, Names \ Virtual)
    <2>1. /\ widened \in Seq(Names)
          /\ ToSet(widened) \subseteq ToSet(Stored) \cup Virtual
      BY <1>2, WidenedIs, ColumnsOfQuery
    <2>2. Columns(Widened) = some
      BY <1>2 DEF Columns
    <2> HIDE DEF widened
    <2>3. some \in Seq(Names) /\ ToSet(some) = ToSet(widened) \cap (Names \ Virtual)
      BY <2>1, OnlyIs
    <2>4. some # None /\ ToSet(some) \subseteq ToSet(Stored)
      <3> HIDE DEF some
      <3> QED BY <2>1, <2>3, ColumnsAssumption
    <2> QED BY <1>2, <2>2, <2>4 DEF widened
  <1> QED BY <1>1, <1>2

LEMMA NothingIsEmpty ==
  ASSUME NEW s \in Seq(Names)
  PROVE  ToSet(s) = {} <=> s = <<>>
  <1>1. \A x : x \in ToSet(s) <=> \E i \in 1..Len(s) : s[i] = x
    BY ElementsAre DEF Occurs
  <1> QED BY <1>1, LenProperties, EmptySeq

\* A column that is to be read is at hand, but for a stored one with a virtual name.
LEMMA BatchHasAll ==
  ASSUME request \in Requests
  PROVE  /\ Batch \in Seq(Names)
         /\ Widened = None => Batch = Full(request.generated)
         /\ Widened # None =>
              (ToSet(Widened) \subseteq ToSet(Batch) <=> ~StoredIsOverlooked)
  <1>1. CASE Widened = None
    BY <1>1, ColumnsOfQuery DEF Batch, Full
  <1>2. CASE Widened # None
    <2> DEFINE widened == Widened
               some == Only(widened, Names \ Virtual)
               added == Only(Generated, request.generated)
    <2>1. /\ widened \in Seq(Names) /\ added \in Seq(Names)
          /\ ToSet(widened) \subseteq ToSet(Stored) \cup ToSet(added)
          /\ ToSet(widened) \subseteq Names
          /\ ToSet(added) \subseteq Virtual \ ToSet(Stored)
      BY <1>2, WidenedIs, ColumnsOfQuery, ElementsAre
    <2>2. Batch = some \o added
      BY <1>2 DEF Batch
    <2>3. StoredIsOverlooked <=> ToSet(widened) \cap ToSet(Stored) \cap Virtual # {}
      BY <1>2 DEF StoredIsOverlooked
    <2> HIDE DEF widened, added
    <2>4. some \in Seq(Names) /\ ToSet(some) = ToSet(widened) \cap (Names \ Virtual)
      BY <2>1, OnlyIs
    <2> HIDE DEF some
    <2>5. /\ some \o added \in Seq(Names)
          /\ ToSet(some \o added) = ToSet(some) \cup ToSet(added)
      BY <2>1, <2>4, ConcatElements
    <2>6. ToSet(widened) \subseteq ToSet(Batch) <=> ~StoredIsOverlooked
      BY <2>1, <2>2, <2>3, <2>4, <2>5
    <2> QED BY <1>2, <2>2, <2>5, <2>6 DEF widened
  <1> QED BY <1>1, <1>2

LEMMA InitColumnsInv == ColumnsInit => ColumnsInv
  BY DEF ColumnsInit, ColumnsInv, FramesAreTheProjection

LEMMA NextColumnsInv ==
  ASSUME ColumnsInv, [ColumnsNext]_columnsVars
  PROVE  ColumnsInv'
  <1> DEFINE full == Full(request.generated)
             widened == Widened
             overlooked == StoredIsOverlooked
             Same == /\ request' = request
                     /\ Requests' = Requests
                     /\ Widened' = Widened
                     /\ Columns(Widened)' = Columns(Widened)
                     /\ Full(request.generated)' = Full(request.generated)
                     /\ Batch' = Batch
                     /\ StoredIsOverlooked' = StoredIsOverlooked
  <1>1. request \in Requests /\ step \in {"new", "asked", "batch", "frame", "out", "missing"}
    BY DEF ColumnsInv
  <1>2. ASSUME UNCHANGED request PROVE Same
    BY <1>2 DEF Widened, WithPredicateColumns, Columns, Full, Batch, StoredIsOverlooked
  <1>3. /\ widened = None <=> request.projection = None
        /\ widened # None =>
             /\ ToSet(request.projection) \subseteq ToSet(widened)
             /\ request.roots # None =>
                  /\ request.roots \subseteq ToSet(widened)
                  /\ ToSet(widened) \subseteq ToSet(request.projection) \cup request.roots
        /\ request.roots = None => widened = request.projection
        /\ request.roots # None => request.roots \subseteq ToSet(full)
        /\ overlooked => widened # None /\ ToSet(widened) # {}
    BY <1>1, WidenedIs, ColumnsOfQuery DEF StoredIsOverlooked
  <1>4. CASE UNCHANGED columnsVars
    <2>1. UNCHANGED <<request, asked, frame, step>>
      BY <1>4 DEF columnsVars
    <2>2. Same
      BY <1>2, <2>1
    <2> QED BY <2>1, <2>2 DEF ColumnsInv, FramesAreTheProjection
  <1>5. CASE Ask
    <2>1. UNCHANGED request /\ asked' = Columns(widened) /\ step' = "asked"
      BY <1>5 DEF Ask
    <2>2. Same
      BY <1>2, <2>1
    <2> QED BY <1>1, <2>1, <2>2 DEF ColumnsInv, FramesAreTheProjection
  <1>6. CASE Deliver
    <2>1. UNCHANGED request /\ step = "asked" /\ asked = Columns(widened)
      BY <1>6 DEF Deliver, ColumnsInv
    <2>2. /\ asked = None <=> widened = None
          /\ asked # None => ToSet(asked) \subseteq ToSet(Stored)
          /\ asked # None => asked = Only(widened, Names \ Virtual)
      BY <1>1, <2>1, AskedAreStored
    <2>3. step' = "batch" /\ frame' = Batch
      BY <1>6, <2>1, <2>2 DEF Deliver, Batch
    <2>4. Same
      BY <1>2, <2>1
    <2> QED BY <1>1, <2>1, <2>3, <2>4 DEF ColumnsInv, FramesAreTheProjection
  <1>7. CASE SelectWidened
    <2>1. UNCHANGED request /\ step = "batch" /\ frame = Batch
      BY <1>7 DEF SelectWidened, ColumnsInv
    <2>2. /\ widened = None => Batch = full
          /\ widened # None => (ToSet(widened) \subseteq ToSet(Batch) <=> ~overlooked)
      BY <1>1, BatchHasAll
    <2>3. Same
      BY <1>2, <2>1
    <2>4. CASE widened = None
      <3>1. step' = "frame" /\ frame' = full
        BY <1>7, <2>1, <2>2, <2>4 DEF SelectWidened
      <3> QED BY <1>1, <2>1, <2>3, <2>4, <3>1 DEF ColumnsInv, FramesAreTheProjection
    <2>5. CASE widened # None /\ Batch = <<>>
      <3>1. step' = "frame" /\ frame' = <<>>
        BY <1>7, <2>1, <2>5 DEF SelectWidened
      <3>2. ~overlooked => widened = <<>>
        <4>1. ToSet(Batch) = {}
          BY <1>1, <2>5, BatchHasAll, NothingIsEmpty
        <4>2. widened \in Seq(Names)
          BY <1>1, <2>5, WidenedIs
        <4> QED BY <2>2, <2>5, <4>1, <4>2, NothingIsEmpty
      <3> QED BY <1>1, <2>1, <2>3, <2>5, <3>1, <3>2 DEF ColumnsInv, FramesAreTheProjection
    <2>6. CASE widened # None /\ Batch # <<>>
      <3>1. IF overlooked THEN step' = "missing" ELSE step' = "frame" /\ frame' = widened
        BY <1>7, <2>1, <2>2, <2>6 DEF SelectWidened, Select
      <3> QED BY <1>1, <2>1, <2>3, <2>6, <3>1 DEF ColumnsInv, FramesAreTheProjection
    <2> QED BY <2>4, <2>5, <2>6
  <1>8. CASE Filter
    <2>1. /\ UNCHANGED request /\ step = "frame" /\ request.roots # None
          /\ frame = IF widened = None THEN full ELSE IF overlooked THEN <<>> ELSE widened
      BY <1>8 DEF Filter, ColumnsInv
    <2>2. Same
      BY <1>2, <2>1
    <2>3. CASE ~overlooked
      <3>1. request.roots \subseteq ToSet(frame)
        BY <1>3, <2>1, <2>3
      <3>2. step' = "out" /\ frame' = IF request.projection = None THEN full ELSE request.projection
        BY <1>3, <1>8, <2>1, <2>3, <3>1 DEF Filter, Select
      <3> QED BY <1>1, <2>1, <2>2, <2>3, <3>2 DEF ColumnsInv, FramesAreTheProjection
    <2>4. CASE overlooked
      <3>1. frame = <<>> /\ ToSet(frame) = {}
        BY <1>3, <2>1, <2>4 DEF ToSet
      <3>2. request.projection # None
        BY <1>3, <2>4
      <3>3. ~(request.roots \subseteq ToSet(frame)) \/ ~(ToSet(request.projection) \subseteq ToSet(frame))
        BY <1>3, <2>1, <2>4, <3>1
      <3>4. step' = "missing"
        BY <1>8, <3>2, <3>3 DEF Filter, Select
      <3> QED BY <1>1, <2>1, <2>2, <2>4, <3>4 DEF ColumnsInv, FramesAreTheProjection
    <2> QED BY <2>3, <2>4
  <1>9. CASE PassOn
    <2>1. /\ UNCHANGED request /\ step' = "out" /\ UNCHANGED frame /\ request.roots = None
          /\ frame = IF widened = None THEN full ELSE IF overlooked THEN <<>> ELSE widened
      BY <1>9 DEF PassOn, ColumnsInv
    <2>2. frame' = IF request.projection = None THEN full
                   ELSE IF overlooked THEN <<>> ELSE request.projection
      BY <1>3, <2>1
    <2>3. Same
      BY <1>2, <2>1
    <2> QED BY <1>1, <2>1, <2>2, <2>3 DEF ColumnsInv, FramesAreTheProjection
  <1> QED BY <1>4, <1>5, <1>6, <1>7, <1>8, <1>9 DEF ColumnsNext

\* Every frame has the columns the engine asked for, in its order and no others,
\* for any schema, projection, predicate and generated columns, but where a stored
\* column of a virtual name is projected: then it has none (iter_frames).
THEOREM FramesAreProjected == ColumnsSpec => []FramesAreTheProjection
  <1>1. ColumnsInit => ColumnsInv
    BY InitColumnsInv
  <1>2. ColumnsInv /\ [ColumnsNext]_columnsVars => ColumnsInv'
    BY NextColumnsInv
  <1>3. ColumnsInv => FramesAreTheProjection
    BY DEF ColumnsInv
  <1> QED BY <1>1, <1>2, <1>3, PTL DEF ColumnsSpec

\* Lance is never asked for a column that it generates, nor Polars for one that
\* is not in the frame at hand, but for a stored column of a virtual name
\* (_with_predicate_columns, iter_frames).
THEOREM ColumnsAreFound == ColumnsSpec => []EveryColumnIsFound
  <1>1. ColumnsInit => ColumnsInv
    BY InitColumnsInv
  <1>2. ColumnsInv /\ [ColumnsNext]_columnsVars => ColumnsInv'
    BY NextColumnsInv
  <1>3. ColumnsInv => EveryColumnIsFound
    BY DEF ColumnsInv, EveryColumnIsFound
  <1> QED BY <1>1, <1>2, <1>3, PTL DEF ColumnsSpec
=============================================================================
