------------------------------- MODULE Kleene -------------------------------
(***************************************************************************)
(* Three-valued logic: what a boolean expression is on one row.  Polars    *)
(* expressions and the SQL that Lance evaluates (DataFusion) share these   *)
(* tables; both engines keep a row only where the value is "true".         *)
(***************************************************************************)

TruthValues == {"true", "false", "null"}

Not(p) == IF p = "true" THEN "false" ELSE IF p = "false" THEN "true" ELSE "null"

\* Conjunction and disjunction of a set of operands: all_horizontal and
\* any_horizontal directly, AND and OR on a pair.
Conj(S) == IF "false" \in S THEN "false" ELSE IF "null" \in S THEN "null" ELSE "true"
Disj(S) == IF "true" \in S THEN "true" ELSE IF "null" \in S THEN "null" ELSE "false"

Xor(p, q) == IF "null" \in {p, q} THEN "null" ELSE IF p = q THEN "false" ELSE "true"

IsTrue(p) == IF p = "true" THEN "true" ELSE "false"

FromBool(b) == IF b THEN "true" ELSE "false"
=============================================================================
