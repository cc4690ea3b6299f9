------------------------- MODULE PredicateLowering -------------------------
(***************************************************************************)
(* The walk of _predicate.py that turns a Polars predicate into a Lance    *)
(* filter.  _Lowering.predicate is a post-order recursion over the         *)
(* serialized expression; here the results of the subtrees whose parent is *)
(* still to be visited wait on `pending`, so that the behaviours are the   *)
(* walks of all expressions of which at most MaxPending subtrees wait at   *)
(* once, of any size and depth.                                            *)
(*                                                                         *)
(* A subtree is abstracted to what the soundness of the walk is about: the *)
(* truth value it has on each row (value), the truth value its SQL has on  *)
(* each row, or NoSql, and the flag `exact` returned with it.  SQL is kept *)
(* as its meaning and not as text.                                         *)
(***************************************************************************)
EXTENDS Kleene, Integers, Sequences

CONSTANTS Rows,        \* the rows of the dataset
          NoSql,       \* Python's None in place of a SQL string
          MaxPending   \* bound on the subtrees waiting for their parent

Columns == [Rows -> TruthValues]

ASSUME NoSqlAssumption == NoSql \notin Columns
ASSUME MaxPendingAssumption == MaxPending \in Nat \ {0}

VARIABLES pending,   \* lowered subtrees, the deepest waiting one first
          walking,   \* whether the root is still to be lowered
          result     \* what lower_predicate returns: a LanceFilter, or None (NoLowering)

vars == <<pending, walking, result>>

-----------------------------------------------------------------------------
(* Boolean operators, row by row.                                          *)

AllOf(S) == [r \in Rows |-> Conj({u[r] : u \in S})]
AnyOf(S) == [r \in Rows |-> Disj({u[r] : u \in S})]
Negated(u) == [r \in Rows |-> Not(u[r])]
TrueOf(u) == [r \in Rows |-> IsTrue(u[r])]
Exclusive(u, v) == [r \in Rows |-> Xor(u[r], v[r])]

\* when(c).then(t).otherwise(f): a null condition takes the otherwise branch.
Chosen(c, t, f) == [r \in Rows |-> IF c[r] = "true" THEN t[r] ELSE f[r]]

-----------------------------------------------------------------------------
(* The lowering of one node from the lowerings of its children.            *)

Lowerings == [sql: Columns \cup {NoSql}, exact: BOOLEAN]

Lowering(sql, exact) == [sql |-> sql, exact |-> exact]
\* Deliberately wrong variant: None alone, where a pair is unpacked.
DeclinedAlone == NoSql

NoLowering == Lowering(NoSql, FALSE)

LowerLiteral(item) == Lowering([r \in Rows |-> item], TRUE)

\* Deliberately wrong variant: a dropped conjunct is forgotten.
LowerAndForgetful(l, r) ==
  IF l.sql = NoSql THEN r
  ELSE IF r.sql = NoSql THEN l
  ELSE Lowering(AllOf({l.sql, r.sql}), l.exact /\ r.exact)

\* A conjunct without SQL is dropped: that only widens the result.
LowerAnd(l, r) ==
  IF l.sql = NoSql THEN Lowering(r.sql, FALSE)
  ELSE IF r.sql = NoSql THEN Lowering(l.sql, FALSE)
  ELSE Lowering(AllOf({l.sql, r.sql}), l.exact /\ r.exact)

LowerOr(l, r) ==
  IF NoSql \in {l.sql, r.sql}
  THEN NoLowering
  ELSE Lowering(AnyOf({l.sql, r.sql}), l.exact /\ r.exact)

LowerXor(l, r) ==
  IF NoSql \in {l.sql, r.sql} \/ ~(l.exact /\ r.exact)
  THEN NoLowering
  ELSE Lowering(AnyOf({AllOf({l.sql, Negated(r.sql)}), AllOf({Negated(l.sql), r.sql})}),
                TRUE)

\* Deliberately wrong variant: a superset is negated into a subset.
LowerNotRelaxed(c) ==
  IF c.sql = NoSql THEN NoLowering ELSE Lowering(Negated(c.sql), c.exact)

LowerNot(c) ==
  IF c.sql = NoSql \/ ~c.exact THEN NoLowering ELSE Lowering(Negated(c.sql), TRUE)

\* Deliberately wrong variant: the branches are taken to be relaxed.
LowerTernaryInexact(c, t, f) ==
  IF NoSql \in {c.sql, t.sql, f.sql} \/ ~c.exact
  THEN NoLowering
  ELSE Lowering(AnyOf({AllOf({TrueOf(c.sql), t.sql}),
                       AllOf({Negated(TrueOf(c.sql)), f.sql})}),
                FALSE)

LowerTernary(c, t, f) ==
  IF NoSql \in {c.sql, t.sql, f.sql} \/ ~c.exact
  THEN NoLowering
  ELSE Lowering(AnyOf({AllOf({TrueOf(c.sql), t.sql}),
                       AllOf({Negated(TrueOf(c.sql)), f.sql})}),
                t.exact /\ f.exact)

\* A when/then/otherwise of values, seen through the comparison it stands in,
\* whose result is t with the truthy value and f with the falsy one.  Lance
\* evaluates nvl2(NULLIF(CAST(c IS TRUE AS bigint), 0), truthy, falsy).
LowerValueTernary(c, t, f) ==
  IF c.sql = NoSql \/ ~c.exact
  THEN NoLowering
  ELSE Lowering([r \in Rows |-> IF IsTrue(c.sql[r]) = "true" THEN t[r] ELSE f[r]], TRUE)

\* all_horizontal skips an argument without SQL, any_horizontal declines.
LowerAllHorizontal(S) ==
  LET parts == {l \in S : l.sql # NoSql}
  IN  IF parts = {}
      THEN NoLowering
      ELSE Lowering(AllOf({l.sql : l \in parts}), \A l \in S : l.sql # NoSql /\ l.exact)

LowerAnyHorizontal(S) ==
  IF \E l \in S : l.sql = NoSql
  THEN NoLowering
  ELSE Lowering(AnyOf({l.sql : l \in S}), \A l \in S : l.exact)

-----------------------------------------------------------------------------
(* The walk.  `translatable` records that no leaf below was declined.      *)

Subtrees == [value: Columns, lowered: Lowerings, translatable: BOOLEAN]

Subtree(value, lowered, translatable) ==
  [value |-> value, lowered |-> lowered, translatable |-> translatable]

\* The arguments of a node of arity k are the last k pending subtrees.
Args(k) == [i \in 1..k |-> pending[Len(pending) - k + i]]

Push(tree) == Len(pending) < MaxPending /\ pending' = Append(pending, tree)

Reduce(k, value, lowered) ==
  pending' = Append(SubSeq(pending, 1, Len(pending) - k),
                    Subtree(value, lowered, \A i \in 1..k : Args(k)[i].translatable))

Init == pending = <<>> /\ walking = TRUE /\ result = NoLowering

\* A boolean column, or a comparison, membership test, string function, ... in
\* whose operands the value lowering found nothing to decline.
ExactLeaf ==
  /\ walking
  /\ \E value \in Columns : Push(Subtree(value, Lowering(value, TRUE), TRUE))
  /\ UNCHANGED <<walking, result>>

Literal ==
  /\ walking
  /\ \E item \in TruthValues : Push(Subtree([r \in Rows |-> item], LowerLiteral(item), TRUE))
  /\ UNCHANGED <<walking, result>>

\* A node of a kind or function with no Lance spelling: predicate() swallows
\* the _Decline its operands raise.
UntranslatableLeaf ==
  /\ walking
  /\ \E value \in Columns : Push(Subtree(value, NoLowering, FALSE))
  /\ UNCHANGED <<walking, result>>

NotNode ==
  /\ walking
  /\ Len(pending) >= 1
  /\ LET a == Args(1) IN Reduce(1, Negated(a[1].value), LowerNot(a[1].lowered))
  /\ UNCHANGED <<walking, result>>

BinaryNode ==
  /\ walking
  /\ Len(pending) >= 2
  /\ LET a == Args(2)
         u == a[1].value
         v == a[2].value
         l == a[1].lowered
         r == a[2].lowered
     IN  \/ Reduce(2, AllOf({u, v}), LowerAnd(l, r))
         \/ Reduce(2, AnyOf({u, v}), LowerOr(l, r))
         \/ Reduce(2, Exclusive(u, v), LowerXor(l, r))
  /\ UNCHANGED <<walking, result>>

TernaryNode ==
  /\ walking
  /\ Len(pending) >= 3
  /\ LET a == Args(3)
     IN  Reduce(3, Chosen(a[1].value, a[2].value, a[3].value),
                LowerTernary(a[1].lowered, a[2].lowered, a[3].lowered))
  /\ UNCHANGED <<walking, result>>

ValueTernaryNode ==
  /\ walking
  /\ Len(pending) >= 1
  /\ LET a == Args(1)
     IN  \E t, f \in Columns :
           Reduce(1, Chosen(a[1].value, t, f), LowerValueTernary(a[1].lowered, t, f))
  /\ UNCHANGED <<walking, result>>

HorizontalNode ==
  /\ walking
  /\ \E k \in 1..Len(pending) :
       LET args == {Args(k)[i] : i \in 1..k}
           values == {a.value : a \in args}
           lowerings == {a.lowered : a \in args}
       IN  \/ Reduce(k, AllOf(values), LowerAllHorizontal(lowerings))
           \/ Reduce(k, AnyOf(values), LowerAnyHorizontal(lowerings))
  /\ UNCHANGED <<walking, result>>

\* lower_predicate returns what the root lowered to.
Finish ==
  /\ walking
  /\ Len(pending) = 1
  /\ result' = pending[1].lowered
  /\ walking' = FALSE
  /\ UNCHANGED pending

\* An expression too deep for the interpreter: RecursionError is not swallowed
\* by predicate() but by lower_predicate, which gives the whole filter up.
RecursionOverflow ==
  /\ walking
  /\ result' = NoLowering
  /\ walking' = FALSE
  /\ UNCHANGED pending

Next ==
  \/ ExactLeaf \/ Literal \/ UntranslatableLeaf
  \/ NotNode \/ BinaryNode \/ TernaryNode \/ ValueTernaryNode \/ HorizontalNode
  \/ Finish \/ RecursionOverflow

Spec == Init /\ [][Next]_vars

-----------------------------------------------------------------------------
(* Correctness.                                                            *)

\* Type correctness of the walk's state.
TypeOK ==
  /\ pending \in Seq(Subtrees)
  /\ walking \in BOOLEAN
  /\ result \in Lowerings

\* What a filter claims against the predicate it was lowered from: an exact one
\* has the predicate's own value on every row, null included, since a NOT, XOR or
\* ternary above it will negate that value; a relaxed one is true wherever the
\* predicate is.
Sound(lowered, value) ==
  /\ lowered.exact => lowered.sql = value
  /\ lowered.sql # NoSql => \A r \in Rows : value[r] = "true" => lowered.sql[r] = "true"

\* Every subtree, at any depth and under any nesting of negations, is lowered
\* soundly (_predicate.py: "A lowering may be a superset ... only sound in
\* positive position").
LoweringSound == \A i \in 1..Len(pending) : Sound(pending[i].lowered, pending[i].value)

\* Nothing is given up without cause: an expression no leaf of which is declined
\* is pushed in full, and exactly, so that Polars has nothing left to evaluate
\* and the row limit may be pushed too.
TranslatableIsExact ==
  \A i \in 1..Len(pending) :
    pending[i].translatable => pending[i].lowered.sql # NoSql /\ pending[i].lowered.exact

\* What the walk returns decides the scan: the rows Lance keeps under it, less
\* those the residual predicate of an inexact filter drops, are the predicate's.
ResultKeepsTheRows ==
  (~walking /\ Len(pending) = 1) =>
     LET kept(u) == {r \in Rows : u[r] = "true"}
         value == pending[1].value
         read == IF result.sql = NoSql THEN Rows ELSE kept(result.sql)
     IN  kept(value) = IF result.exact THEN read ELSE read \cap kept(value)
=============================================================================
