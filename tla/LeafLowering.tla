---------------------------- MODULE LeafLowering ----------------------------
(***************************************************************************)
(* The leaves of the walk of _predicate.py over floating-point values:     *)
(* comparisons, null-safe equality, is_in, is_between and the tests for    *)
(* NaN, infinity and null, on one row.  A leaf is claimed exact, so its    *)
(* SQL must have the value of the Polars expression also where that is     *)
(* false or null.                                                          *)
(*                                                                         *)
(* A float is its sign and its magnitude, of which the two largest stand   *)
(* for infinity and NaN.  Widths and rounding are left out.                *)
(***************************************************************************)
EXTENDS Kleene, Markers, Integers

CONSTANTS Inf,       \* the magnitude of infinity; the finite ones are below
          Invalid    \* SQL that Lance cannot parse

ASSUME InfAssumption == Inf \in Nat \ {0}

VARIABLES leaf,     \* the leaf to lower
          lowered   \* the value of its SQL, Null until it is lowered

leafVars == <<leaf, lowered>>

-----------------------------------------------------------------------------
(* Floats and the two ways of comparing them.                              *)

Nan == Inf + 1
Floats == [neg: BOOLEAN, mag: 0..Nan]
Float(neg, mag) == [neg |-> neg, mag |-> mag]

ASSUME MarkersAssumption ==
  /\ Null \notin Floats
  /\ {Null, Declined, Invalid} \cap TruthValues = {}
  /\ Null # Declined /\ Null # Invalid /\ Declined # Invalid

IsNan(x) == x.mag = Nan
IsZero(x) == x.mag = 0

\* Polars: the two zeros are one number, and every NaN is above infinity.
PolarsRank(x) == IF IsNan(x) THEN Nan ELSE IF x.neg THEN -x.mag ELSE x.mag

\* Lance: IEEE total order, in which the sign also tells zeros and NaNs apart.
LanceRank(x) == IF x.neg THEN -x.mag - 1 ELSE x.mag

Operators == {"=", "!=", "<", "<=", ">", ">="}

Holds(op, a, b) ==
  \/ op = "=" /\ a = b
  \/ op = "!=" /\ a # b
  \/ op = "<" /\ a < b
  \/ op = "<=" /\ a <= b
  \/ op = ">" /\ a > b
  \/ op = ">=" /\ a >= b

PolarsCompare(op, x, y) ==
  IF Null \in {x, y} THEN "null" ELSE FromBool(Holds(op, PolarsRank(x), PolarsRank(y)))

\* Between values Lance follows the total order.
SqlCompare(op, x, y) ==
  IF Null \in {x, y} THEN "null" ELSE FromBool(Holds(op, LanceRank(x), LanceRank(y)))

\* Against a zero that is written out it does not tell the zeros apart.
SqlCompareLiteral(op, x, literal) ==
  IF Null \notin {x, literal} /\ IsZero(x) /\ IsZero(literal)
  THEN FromBool(Holds(op, 0, 0))
  ELSE SqlCompare(op, x, literal)

SqlIsNan(x) == IF x = Null THEN "null" ELSE FromBool(IsNan(x))
SqlIsNull(x) == FromBool(x = Null)
SqlNanvl(x, y) == IF x # Null /\ IsNan(x) THEN y ELSE x

Both(p, q) == Conj({p, q})
Either(p, q) == Disj({p, q})

-----------------------------------------------------------------------------
(* Comparisons: _compare and _float_comparison.                            *)

\* A literal and a cast of an integer are known to hold no NaN.
Operands == {o \in [value: Floats \cup {Null}, literal: BOOLEAN, nanFree: BOOLEAN] :
               o.literal \/ o.nanFree => o.value = Null \/ ~IsNan(o.value)}

MayBeNan(o) == ~o.literal /\ ~o.nanFree

Mirrored(op) ==
  IF op = "<" THEN ">" ELSE IF op = "<=" THEN ">="
  ELSE IF op = ">" THEN "<" ELSE IF op = ">=" THEN "<=" ELSE op

\* Deliberately wrong variant: a negative NaN is left below every number.
AgainstLiteralOneNan(op, x, literal) ==
  LET compared == SqlCompareLiteral(op, x.value, literal.value)
  IN  IF op \in {"<", "<="} THEN Both(compared, Not(SqlIsNan(x.value)))
      ELSE compared

\* Each added test keeps the comparison on the column, for its index.
AgainstLiteral(op, x, literal) ==
  LET compared == SqlCompareLiteral(op, x.value, literal.value)
  IN  IF ~MayBeNan(x) \/ op \in {"=", "!="} THEN compared
      ELSE IF op \in {"<", "<="} THEN Both(compared, Not(SqlIsNan(x.value)))
      ELSE Either(compared, Either(SqlCompare("<", x.value, Float(TRUE, Inf)),
                                   SqlCompare("=", x.value, Float(FALSE, Nan))))

PositiveNan(o) == IF MayBeNan(o) THEN SqlNanvl(o.value, Float(FALSE, Nan)) ELSE o.value

BetweenValues(op, x, y) ==
  LET compared == SqlCompare(op, PositiveNan(x), PositiveNan(y))
      zero == Float(FALSE, 0)
      bothZero == Both(SqlCompareLiteral("=", x.value, zero),
                       SqlCompareLiteral("=", y.value, zero))
  IN  IF op \in {"=", "<=", ">="} THEN Either(compared, bothZero)
      ELSE Both(compared, Not(bothZero))

FloatComparison(op, x, y) ==
  IF (x.literal /\ x.value = Null) \/ (y.literal /\ y.value = Null)
  THEN SqlCompare(op, x.value, y.value)
  ELSE IF x.literal /\ ~y.literal THEN AgainstLiteral(Mirrored(op), y, x)
  ELSE IF y.literal THEN AgainstLiteral(op, x, y)
  ELSE BetweenValues(op, x, y)

-----------------------------------------------------------------------------
(* Null-safe equality against a literal: eq_missing and ne_missing.        *)

PolarsEqMissing(x, y) ==
  IF Null \in {x, y} THEN FromBool(x = y) ELSE PolarsCompare("=", x, y)

EqMissing(x, literal) ==
  IF literal.value = Null THEN SqlIsNull(x.value)
  ELSE Both(FloatComparison("=", x, literal), Not(SqlIsNull(x.value)))

NeMissing(x, literal) ==
  IF literal.value = Null THEN Not(SqlIsNull(x.value))
  ELSE Either(Not(FloatComparison("=", x, literal)), SqlIsNull(x.value))

-----------------------------------------------------------------------------
(* Membership: _is_in.                                                     *)

\* A null is an element only with nulls_equal; without it a null input is null.
PolarsIsIn(x, elements, nullsEqual) ==
  IF x = Null
  THEN IF nullsEqual THEN FromBool(Null \in elements) ELSE "null"
  ELSE FromBool(\E y \in elements \ {Null} : PolarsRank(x) = PolarsRank(y))

SqlIn(x, literals) ==
  IF literals = {} THEN Invalid ELSE Disj({SqlCompareLiteral("=", x, y) : y \in literals})

\* Deliberately wrong variant: an empty list is written out.
IsInEmptyList(x, elements, nullsEqual) == SqlIn(x, elements \ {Null})

\* A NaN has no dependable spelling, and a list with one is left to Polars.
IsIn(x, elements, nullsEqual) ==
  LET hasNull == Null \in elements
      values == elements \ {Null}
  IN  IF values = {} /\ nullsEqual THEN IF hasNull THEN SqlIsNull(x) ELSE "false"
      ELSE IF values = {} THEN Both(SqlIsNull(x), "null")
      ELSE IF \E y \in values : IsNan(y) THEN Declined
      ELSE IF ~nullsEqual THEN SqlIn(x, values)
      ELSE IF hasNull THEN Either(SqlIn(x, values), SqlIsNull(x))
      ELSE Both(SqlIn(x, values), Not(SqlIsNull(x)))

-----------------------------------------------------------------------------
(* Ranges and tests.                                                       *)

LowerBound(closed) == IF closed \in {"Both", "Left"} THEN ">=" ELSE ">"
UpperBound(closed) == IF closed \in {"Both", "Right"} THEN "<=" ELSE "<"

PolarsIsBetween(closed, x, low, high) ==
  Both(PolarsCompare(LowerBound(closed), x, low), PolarsCompare(UpperBound(closed), x, high))

IsBetween(closed, x, low, high) ==
  Both(FloatComparison(LowerBound(closed), x, low),
       FloatComparison(UpperBound(closed), x, high))

Tests == {"IsNull", "IsNotNull", "IsNan", "IsNotNan", "IsInfinite", "IsFinite"}

PolarsTest(test, x) ==
  IF test = "IsNull" THEN FromBool(x = Null)
  ELSE IF test = "IsNotNull" THEN FromBool(x # Null)
  ELSE IF x = Null THEN "null"
  ELSE FromBool(\/ test = "IsNan" /\ x.mag = Nan
                \/ test = "IsNotNan" /\ x.mag # Nan
                \/ test = "IsInfinite" /\ x.mag = Inf
                \/ test = "IsFinite" /\ x.mag < Inf)

Unary(test, x) ==
  LET isPos == SqlCompare("=", x, Float(FALSE, Inf))
      isNeg == SqlCompare("=", x, Float(TRUE, Inf))
  IN  IF test = "IsNull" THEN SqlIsNull(x)
      ELSE IF test = "IsNotNull" THEN Not(SqlIsNull(x))
      ELSE IF test = "IsNan" THEN SqlIsNan(x)
      ELSE IF test = "IsNotNan" THEN Not(SqlIsNan(x))
      ELSE IF test = "IsInfinite" THEN Either(isPos, isNeg)
      ELSE Both(Not(SqlIsNan(x)), Both(Not(isPos), Not(isNeg)))

-----------------------------------------------------------------------------
(* One leaf is lowered.                                                    *)

Literals == {o \in Operands : o.literal}
Values == {o \in Operands : ~o.literal}

Comparisons == [kind: {"compare"}, op: Operators, x: Operands, y: Operands]
MissingTests == [kind: {"missing"}, equal: BOOLEAN, x: Values, y: Literals]
Memberships ==
  [kind: {"in"}, x: Floats \cup {Null}, elements: SUBSET (Floats \cup {Null}),
   nullsEqual: BOOLEAN]
Ranges ==
  [kind: {"between"}, closed: {"Both", "Left", "Right", "None"},
   x: Values, low: Literals, high: Literals]
UnaryTests == [kind: {"test"}, test: Tests, x: Floats \cup {Null}]

Leaves == Comparisons \cup MissingTests \cup Memberships \cup Ranges \cup UnaryTests

LeavesInit == leaf \in Leaves /\ lowered = Null

LowerTo(sql) == lowered = Null /\ lowered' = sql /\ UNCHANGED leaf

LowerComparison ==
  leaf.kind = "compare" /\ LowerTo(FloatComparison(leaf.op, leaf.x, leaf.y))

LowerMissing ==
  /\ leaf.kind = "missing"
  /\ LowerTo(IF leaf.equal THEN EqMissing(leaf.x, leaf.y) ELSE NeMissing(leaf.x, leaf.y))

LowerIn == leaf.kind = "in" /\ LowerTo(IsIn(leaf.x, leaf.elements, leaf.nullsEqual))

LowerBetween ==
  leaf.kind = "between" /\ LowerTo(IsBetween(leaf.closed, leaf.x, leaf.low, leaf.high))

LowerTest == leaf.kind = "test" /\ LowerTo(Unary(leaf.test, leaf.x))

LeavesNext == LowerComparison \/ LowerMissing \/ LowerIn \/ LowerBetween \/ LowerTest

LeavesSpec == LeavesInit /\ [][LeavesNext]_leafVars

-----------------------------------------------------------------------------
(* Correctness.                                                            *)

\* What Polars makes of a leaf.
PolarsValue ==
  IF leaf.kind = "compare" THEN PolarsCompare(leaf.op, leaf.x.value, leaf.y.value)
  ELSE IF leaf.kind = "missing"
       THEN IF leaf.equal THEN PolarsEqMissing(leaf.x.value, leaf.y.value)
            ELSE Not(PolarsEqMissing(leaf.x.value, leaf.y.value))
  ELSE IF leaf.kind = "in" THEN PolarsIsIn(leaf.x, leaf.elements, leaf.nullsEqual)
  ELSE IF leaf.kind = "between"
       THEN PolarsIsBetween(leaf.closed, leaf.x.value, leaf.low.value, leaf.high.value)
  ELSE PolarsTest(leaf.test, leaf.x)

\* Every leaf is lowered to SQL that Lance can parse, or is declined.
SqlIsValid == lowered \in TruthValues \cup {Null, Declined}

\* A leaf that is lowered has, for Lance, the value that it has for Polars: NaNs
\* of either sign, signed zeros, infinities and nulls included.
LeafIsExact == lowered \notin {Null, Declined} => lowered = PolarsValue
=============================================================================
