--------------------------- MODULE IntegerDivision ---------------------------
(***************************************************************************)
(* Remainder and floor division of integers in _predicate.py.  Polars      *)
(* rounds the quotient down, SQL towards zero, so the SQL corrects the one *)
(* or the other; a zero divisor is null in Polars and an error in Lance,   *)
(* and the integers of both have a least one whose opposite does not fit.  *)
(***************************************************************************)
EXTENDS Markers, Integers

CONSTANTS MaxInt,   \* the greatest signed integer
          Failed    \* a scan that Lance gives up

ASSUME MaxIntAssumption == MaxInt \in Nat \ {0}
ASSUME ResultsAssumption ==
  /\ {Null, Failed, Declined, Pending} \cap Int = {}
  /\ Null # Failed /\ Null # Declined /\ Null # Pending
  /\ Failed # Declined /\ Failed # Pending /\ Declined # Pending

VARIABLES op,        \* the operator of the expression
          type,      \* the type of its operands
          dividend,  \* its value on the row at hand
          divisor,   \* its value, and whether it is written out
          divided    \* the value of the SQL

divisionVars == <<op, type, dividend, divisor, divided>>

IntsOf(t) == IF t = "Int64" THEN -MaxInt - 1 .. MaxInt ELSE 0 .. 2 * MaxInt + 1

Abs(n) == IF n < 0 THEN -n ELSE n
Sign(n) == IF n < 0 THEN -1 ELSE IF n = 0 THEN 0 ELSE 1

-----------------------------------------------------------------------------
(* Polars: the quotient is rounded down, and what does not fit wraps.      *)

FloorQuotient(a, b) == IF b > 0 THEN a \div b ELSE (-a) \div (-b)
FloorRemainder(a, b) == IF b > 0 THEN a % b ELSE -((-a) % (-b))

Wrapped(n) == IF n > MaxInt THEN n - 2 * (MaxInt + 1) ELSE n

PolarsDivision(name, t, a, b) ==
  IF Null \in {a, b} \/ b = 0 THEN Null
  ELSE IF name = "Modulus" THEN FloorRemainder(a, b)
  ELSE IF t = "Int64" THEN Wrapped(FloorQuotient(a, b)) ELSE FloorQuotient(a, b)

-----------------------------------------------------------------------------
(* Lance: the quotient is rounded towards zero, a null operand makes the   *)
(* result null, and a zero divisor or a result that does not fit fails.    *)

Strict(x, y, result) ==
  IF Failed \in {x, y} THEN Failed ELSE IF Null \in {x, y} THEN Null ELSE result

Fitting(t, n) == IF n \in IntsOf(t) THEN n ELSE Failed

SqlPlus(t, x, y) == Strict(x, y, Fitting(t, x + y))
SqlMinus(t, x, y) == Strict(x, y, Fitting(t, x - y))
SqlTimes(t, x, y) == Strict(x, y, Fitting(t, x * y))

SqlRemainder(x, y) ==
  Strict(x, y, IF y = 0 THEN Failed ELSE Sign(x) * (Abs(x) % Abs(y)))

SqlQuotient(t, x, y) ==
  Strict(x, y, IF y = 0 THEN Failed
               ELSE Fitting(t, Sign(x) * Sign(y) * (Abs(x) \div Abs(y))))

SqlNullIfZero(x) == IF x = 0 THEN Null ELSE x

-----------------------------------------------------------------------------
(* The lowering: _remainder_or_floor over integers.                        *)

\* The SQL expression that is 1 where remainder and divisor differ in sign.
Differs(r, b) == Strict(r, b, IF Sign(r) * Sign(b) < 0 THEN 1 ELSE 0)

\* The divisor is added back where the signs differ.
Remainder(t, a, b) ==
  LET n == SqlNullIfZero(b)
      r == SqlRemainder(a, n)
  IN  SqlPlus(t, r, SqlTimes(t, n, Differs(r, n)))

\* The quotient is one less there.
Quotient(t, a, b) ==
  LET n == SqlNullIfZero(b)
  IN  SqlMinus(t, SqlQuotient(t, a, n), Differs(SqlRemainder(a, n), n))

\* Deliberately wrong variant: any literal may be divided by.
LowerAnyLiteral(name, t, a, b) ==
  IF name = "Modulus" THEN Remainder(t, a, b.value)
  ELSE IF ~b.literal \/ t = "UInt64" THEN Declined
  ELSE Quotient(t, a, b.value)

\* Floor division is left to Polars by anything that may be -1, and over UInt64.
Lower(name, t, a, b) ==
  IF name = "Modulus" THEN Remainder(t, a, b.value)
  ELSE IF ~b.literal \/ b.value = -1 \/ t = "UInt64" THEN Declined
  ELSE Quotient(t, a, b.value)

-----------------------------------------------------------------------------
(* One expression is lowered, and evaluated on one row.                    *)

DivisionInit ==
  /\ op \in {"Modulus", "FloorDivide"}
  /\ type \in {"Int64", "UInt64"}
  /\ dividend \in IntsOf(type) \cup {Null}
  /\ divisor \in [value: IntsOf(type) \cup {Null}, literal: BOOLEAN]
  /\ divided = Pending

Evaluate ==
  /\ divided = Pending
  /\ divided' = Lower(op, type, dividend, divisor)
  /\ UNCHANGED <<op, type, dividend, divisor>>

DivisionSpec == DivisionInit /\ [][Evaluate]_divisionVars

-----------------------------------------------------------------------------
(* Correctness.                                                            *)

\* On every row the SQL has the value of the Polars expression, and never fails
\* the scan: over both signs of either operand, a zero or null divisor, and the
\* least integer (_remainder_or_floor: "the divisor is added back where they
\* differ, which cannot overflow; the quotient is one less there").
DivisionIsExact ==
  divided \notin {Pending, Declined} =>
    divided = PolarsDivision(op, type, dividend, divisor.value)
=============================================================================
