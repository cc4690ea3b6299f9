--------------------------- MODULE LoweringProofs ---------------------------
(***************************************************************************)
(* Theorems about the parts of the lowering that MCLowering puts together, *)
(* for every value of their constants: leaves, remainder and floor         *)
(* division, values and what is known of them, functions, and the two      *)
(* lowerings of a prefilter.                                               *)
(***************************************************************************)
EXTENDS MCLowering, SelectionProofs

LEMMA FloatFields ==
  ASSUME NEW x \in Floats
  PROVE  /\ x.neg \in BOOLEAN /\ x.mag \in 0..Nan /\ x # Null
         /\ PolarsRank(x) \in Int /\ LanceRank(x) \in Int /\ Inf \in Nat \ {0}
  BY InfAssumption, MarkersAssumption DEF Floats, Nan, PolarsRank, LanceRank, IsNan

LEMMA OperandFields ==
  ASSUME NEW o \in Operands
  PROVE  /\ o.value \in Floats \cup {Null} /\ o.literal \in BOOLEAN /\ o.nanFree \in BOOLEAN
         /\ (o.literal \/ o.nanFree) => (o.value = Null \/ ~IsNan(o.value))
  BY DEF Operands

\* A comparison with a missing operand is null, whatever the tests added to it.
LEMMA MissingOperand ==
  ASSUME NEW rel \in Operators, NEW x \in Operands, NEW y \in Operands,
         x.value = Null \/ y.value = Null
  PROVE  FloatComparison(rel, x, y) = "null"
  BY OperandFields
     DEF Operators, FloatComparison, AgainstLiteral, BetweenValues, PositiveNan, SqlCompare,
         SqlCompareLiteral, SqlIsNan, SqlNanvl, Both, Either, Conj, Disj, Not, Mirrored

-----------------------------------------------------------------------------
(* On values that are there, the SQL connectives are those of logic.       *)

LEMMA BothOfBools ==
  ASSUME NEW a \in BOOLEAN, NEW b \in BOOLEAN
  PROVE  Both(FromBool(a), FromBool(b)) = FromBool(a /\ b)
  BY DEF Both, Conj, FromBool

LEMMA EitherOfBools ==
  ASSUME NEW a \in BOOLEAN, NEW b \in BOOLEAN
  PROVE  Either(FromBool(a), FromBool(b)) = FromBool(a \/ b)
  BY DEF Either, Disj, FromBool

LEMMA NotOfBool ==
  ASSUME NEW a \in BOOLEAN PROVE Not(FromBool(a)) = FromBool(~a)
  BY DEF Not, FromBool

LEMMA FromBoolIsTruth ==
  ASSUME NEW a \in BOOLEAN
  PROVE  FromBool(a) \in TruthValues /\ FromBool(a) # "null" /\ (FromBool(a) = "true" <=> a)
  BY DEF FromBool, TruthValues

LEMMA HoldsType == ASSUME NEW rel, NEW a, NEW b PROVE Holds(rel, a, b) \in BOOLEAN
  BY DEF Holds

\* What Lance makes of a comparison with a written-out number: the rank of a zero
\* is then the same for either sign, and a NaN is where its sign puts it.
LEMMA LiteralComparison ==
  ASSUME NEW rel \in Operators, NEW x \in Floats, NEW y \in Floats, ~IsNan(y)
  PROVE  SqlCompareLiteral(rel, x, y) =
           FromBool(IF IsNan(x) THEN Holds(rel, LanceRank(x), LanceRank(y))
                    ELSE Holds(rel, PolarsRank(x), PolarsRank(y)))
  <1>1. CASE IsZero(x) /\ IsZero(y)
    BY <1>1, FloatFields
       DEF SqlCompareLiteral, IsZero, IsNan, Nan, PolarsRank, Holds, Operators, FromBool
  <1>2. CASE ~(IsZero(x) /\ IsZero(y))
    <2>1. SqlCompareLiteral(rel, x, y) = FromBool(Holds(rel, LanceRank(x), LanceRank(y)))
      BY <1>2, FloatFields DEF SqlCompareLiteral, SqlCompare
    <2>2. ASSUME ~IsNan(x)
          PROVE  Holds(rel, LanceRank(x), LanceRank(y)) <=> Holds(rel, PolarsRank(x), PolarsRank(y))
      BY <1>2, <2>2, FloatFields
         DEF IsZero, IsNan, Nan, PolarsRank, LanceRank, Holds, Operators
    <2> QED BY <2>1, <2>2, HoldsType DEF FromBool
  <1> QED BY <1>1, <1>2

\* A number that is no NaN is not below minus infinity, and is no NaN to Lance.
LEMMA NumberTests ==
  ASSUME NEW x \in Floats, ~IsNan(x)
  PROVE  /\ SqlCompare("<", x, Float(TRUE, Inf)) = FromBool(FALSE)
         /\ SqlCompare("=", x, Float(FALSE, Nan)) = FromBool(FALSE)
  <1> DEFINE rank == LanceRank(x)
             low == LanceRank(Float(TRUE, Inf))
             high == LanceRank(Float(FALSE, Nan))
  <1>1. x.mag \in 0..Inf /\ x.neg \in BOOLEAN /\ Inf \in Nat
    BY FloatFields DEF IsNan, Nan
  <1>2. rank \in Int /\ rank >= -Inf - 1 /\ rank <= Inf
    BY <1>1 DEF LanceRank
  <1>3. low = -Inf - 1 /\ high = Inf + 1
    BY DEF LanceRank, Float, Nan
  <1>4. ~(rank < low) /\ rank # high
    <2> HIDE DEF rank, low, high
    <2> QED BY <1>1, <1>2, <1>3
  <1>5. ~Holds("<", rank, low) /\ ~Holds("=", rank, high)
    BY <1>4 DEF Holds
  <1>6. Float(TRUE, Inf) \in Floats /\ Float(FALSE, Nan) \in Floats
    BY InfAssumption DEF Float, Floats, Nan
  <1>7. Null \notin {x, Float(TRUE, Inf), Float(FALSE, Nan)}
    BY <1>6, MarkersAssumption
  <1> QED BY <1>5, <1>7 DEF SqlCompare, FromBool

LEMMA AgainstLiteralIsExact ==
  ASSUME NEW rel \in Operators, NEW x \in Operands, NEW y \in Operands,
         x.value \in Floats, y.value \in Floats, y.literal
  PROVE  AgainstLiteral(rel, x, y) = FromBool(Holds(rel, PolarsRank(x.value), PolarsRank(y.value)))
  <1> DEFINE u == x.value
             v == y.value
             minusInf == Float(TRUE, Inf)
             nan == Float(FALSE, Nan)
  <1>1. ~IsNan(v) /\ (IsNan(u) => MayBeNan(x))
    BY OperandFields, FloatFields DEF MayBeNan
  <1>2. minusInf \in Floats /\ nan \in Floats /\ ~IsNan(minusInf) /\ IsNan(nan)
    BY InfAssumption DEF Float, Floats, Nan, IsNan
  <1>3. LanceRank(minusInf) = -Inf - 1 /\ LanceRank(nan) = Inf + 1
    BY DEF LanceRank, Float, Nan
  <1>4. CASE ~IsNan(u)
    <2> DEFINE holds == Holds(rel, PolarsRank(u), PolarsRank(v))
    <2>1. SqlCompareLiteral(rel, u, v) = FromBool(holds)
      BY <1>1, <1>4, LiteralComparison
    <2>2. SqlIsNan(u) = FromBool(FALSE)
      BY <1>4, FloatFields DEF SqlIsNan, FromBool
    <2>3. /\ SqlCompare("<", u, minusInf) = FromBool(FALSE)
          /\ SqlCompare("=", u, nan) = FromBool(FALSE)
      BY <1>4, NumberTests
    <2>4. Both(FromBool(holds), Not(FromBool(FALSE))) = FromBool(holds)
      BY HoldsType, NotOfBool, BothOfBools
    <2>5. Either(FromBool(holds), Either(FromBool(FALSE), FromBool(FALSE))) = FromBool(holds)
      BY HoldsType, EitherOfBools
    <2> QED BY <2>1, <2>2, <2>3, <2>4, <2>5 DEF AgainstLiteral
  <1>5. CASE IsNan(u)
    <2> DEFINE lance == Holds(rel, LanceRank(u), LanceRank(v))
               polars == Holds(rel, PolarsRank(u), PolarsRank(v))
               below == Holds("<", LanceRank(u), LanceRank(minusInf))
               isNan == Holds("=", LanceRank(u), LanceRank(nan))
    <2>1. SqlCompareLiteral(rel, u, v) = FromBool(lance)
      BY <1>1, <1>5, LiteralComparison
    <2>2. SqlIsNan(u) = FromBool(TRUE)
      BY <1>5, FloatFields DEF SqlIsNan, FromBool
    <2>3. /\ SqlCompare("<", u, minusInf) = FromBool(below)
          /\ SqlCompare("=", u, nan) = FromBool(isNan)
      BY <1>2, FloatFields DEF SqlCompare
    <2>4. below \/ isNan
      BY <1>5, FloatFields, InfAssumption DEF Holds, LanceRank, Float, IsNan, Nan
    <2>5. CASE rel \in {"=", "!="}
      <3>1. lance <=> polars
        BY <1>1, <1>5, <2>5, FloatFields DEF Holds, LanceRank, PolarsRank, IsNan, Nan
      <3> QED BY <2>1, <2>5, <3>1 DEF AgainstLiteral, FromBool
    <2>6. CASE rel \in {"<", "<="}
      <3>1. ~polars
        BY <1>1, <1>5, <2>6, FloatFields DEF Holds, PolarsRank, IsNan, Nan
      <3>2. Both(FromBool(lance), Not(FromBool(TRUE))) = FromBool(FALSE)
        BY HoldsType, NotOfBool, BothOfBools
      <3> QED BY <1>1, <1>5, <2>1, <2>2, <2>6, <3>1, <3>2 DEF AgainstLiteral, FromBool
    <2>7. CASE rel \in {">", ">="}
      <3>1. polars
        BY <1>1, <1>5, <2>7, FloatFields DEF Holds, PolarsRank, IsNan, Nan
      <3>2. Either(FromBool(lance), Either(FromBool(below), FromBool(isNan)))
              = FromBool(lance \/ (below \/ isNan))
        BY HoldsType, EitherOfBools
      <3> QED BY <1>1, <1>5, <2>1, <2>3, <2>4, <2>7, <3>1, <3>2 DEF AgainstLiteral, FromBool
    <2> QED BY <2>5, <2>6, <2>7 DEF Operators
  <1> QED BY <1>4, <1>5

LEMMA BetweenValuesIsExact ==
  ASSUME NEW rel \in Operators, NEW x \in Operands, NEW y \in Operands,
         x.value \in Floats, y.value \in Floats
  PROVE  BetweenValues(rel, x, y) = FromBool(Holds(rel, PolarsRank(x.value), PolarsRank(y.value)))
  <1> DEFINE u == x.value
             v == y.value
             a == LanceRank(PositiveNan(x))
             b == LanceRank(PositiveNan(y))
             compared == Holds(rel, a, b)
             polars == Holds(rel, PolarsRank(u), PolarsRank(v))
             bothZero == IsZero(u) /\ IsZero(v)
  <1>1. ASSUME NEW o \in Operands, o.value \in Floats
        PROVE  /\ PositiveNan(o) \in Floats
               /\ LanceRank(PositiveNan(o)) =
                    IF IsNan(o.value) THEN Nan ELSE LanceRank(o.value)
    <2>1. CASE IsNan(o.value)
      <3>1. PositiveNan(o) = Float(FALSE, Nan)
        BY <1>1, <2>1, FloatFields, OperandFields DEF PositiveNan, MayBeNan, SqlNanvl
      <3> QED BY <2>1, <3>1, InfAssumption DEF Float, Floats, LanceRank, Nan
    <2>2. CASE ~IsNan(o.value)
      <3>1. PositiveNan(o) = o.value
        BY <2>2 DEF PositiveNan, SqlNanvl
      <3> QED BY <1>1, <2>2, <3>1
    <2> QED BY <2>1, <2>2
  <1>2. /\ a = (IF IsNan(u) THEN Nan ELSE LanceRank(u))
        /\ b = (IF IsNan(v) THEN Nan ELSE LanceRank(v))
    BY <1>1
  <1>3. SqlCompare(rel, PositiveNan(x), PositiveNan(y)) = FromBool(compared)
    BY <1>1, FloatFields DEF SqlCompare
  <1>4. Both(SqlCompareLiteral("=", u, Float(FALSE, 0)), SqlCompareLiteral("=", v, Float(FALSE, 0)))
          = FromBool(bothZero)
    <2>1. ASSUME NEW w \in Floats
          PROVE  SqlCompareLiteral("=", w, Float(FALSE, 0)) = FromBool(IsZero(w))
      <3>1. Float(FALSE, 0) \in Floats /\ ~IsNan(Float(FALSE, 0)) /\ "=" \in Operators
        BY InfAssumption DEF Float, Floats, IsNan, Nan, Operators
      <3>2. SqlCompareLiteral("=", w, Float(FALSE, 0)) =
              FromBool(IF IsNan(w) THEN Holds("=", LanceRank(w), LanceRank(Float(FALSE, 0)))
                       ELSE Holds("=", PolarsRank(w), PolarsRank(Float(FALSE, 0))))
        BY <3>1, LiteralComparison
      <3>3. LanceRank(Float(FALSE, 0)) = 0 /\ PolarsRank(Float(FALSE, 0)) = 0
        BY InfAssumption DEF LanceRank, PolarsRank, Float, IsNan, Nan
      <3>4. (IF IsNan(w) THEN Holds("=", LanceRank(w), 0) ELSE Holds("=", PolarsRank(w), 0))
              <=> IsZero(w)
        BY FloatFields, InfAssumption DEF Holds, LanceRank, PolarsRank, IsNan, IsZero, Nan
      <3> QED BY <3>2, <3>3, <3>4 DEF FromBool
    <2>2. IsZero(u) \in BOOLEAN /\ IsZero(v) \in BOOLEAN
      BY DEF IsZero
    <2> QED BY <2>1, <2>2, BothOfBools
  <1>5. CASE rel \in {"=", "<=", ">="}
    <2>1. BetweenValues(rel, x, y) = FromBool(compared \/ bothZero)
      <3>1. bothZero \in BOOLEAN /\ compared \in BOOLEAN
        BY HoldsType DEF IsZero
      <3>2. BetweenValues(rel, x, y) = Either(FromBool(compared), FromBool(bothZero))
        BY <1>3, <1>4, <1>5 DEF BetweenValues
      <3> QED BY <3>1, <3>2, EitherOfBools
    <2>2. (compared \/ bothZero) <=> polars
      BY <1>2, <1>5, FloatFields DEF Holds, LanceRank, PolarsRank, IsNan, IsZero, Nan
    <2> QED BY <2>1, <2>2 DEF FromBool
  <1>6. CASE rel \in {"!=", "<", ">"}
    <2>1. BetweenValues(rel, x, y) = FromBool(compared /\ ~bothZero)
      <3>1. bothZero \in BOOLEAN /\ compared \in BOOLEAN
        BY HoldsType DEF IsZero
      <3>2. BetweenValues(rel, x, y) = Both(FromBool(compared), Not(FromBool(bothZero)))
        BY <1>3, <1>4, <1>6 DEF BetweenValues
      <3> QED BY <3>1, <3>2, NotOfBool, BothOfBools
    <2>2. (compared /\ ~bothZero) <=> polars
      BY <1>2, <1>6, FloatFields DEF Holds, LanceRank, PolarsRank, IsNan, IsZero, Nan
    <2> QED BY <2>1, <2>2 DEF FromBool
  <1> QED BY <1>5, <1>6 DEF Operators

\* A comparison has for Lance the value it has for Polars.
LEMMA ComparisonIsExact ==
  ASSUME NEW rel \in Operators, NEW x \in Operands, NEW y \in Operands
  PROVE  FloatComparison(rel, x, y) = PolarsCompare(rel, x.value, y.value)
  <1>1. CASE Null \in {x.value, y.value}
    BY <1>1, MissingOperand DEF PolarsCompare
  <1>2. CASE Null \notin {x.value, y.value}
    <2>1. x.value \in Floats /\ y.value \in Floats
      BY <1>2, OperandFields
    <2>2. PolarsCompare(rel, x.value, y.value) =
            FromBool(Holds(rel, PolarsRank(x.value), PolarsRank(y.value)))
      BY <1>2 DEF PolarsCompare
    <2>3. CASE x.literal /\ ~y.literal
      <3>1. Mirrored(rel) \in Operators
        BY DEF Mirrored, Operators
      <3>2. FloatComparison(rel, x, y) =
              FromBool(Holds(Mirrored(rel), PolarsRank(y.value), PolarsRank(x.value)))
        BY <1>2, <2>1, <2>3, <3>1, AgainstLiteralIsExact DEF FloatComparison
      <3>3. Holds(Mirrored(rel), PolarsRank(y.value), PolarsRank(x.value))
              <=> Holds(rel, PolarsRank(x.value), PolarsRank(y.value))
        BY <2>1, FloatFields DEF Mirrored, Holds, Operators
      <3> QED BY <2>2, <3>2, <3>3 DEF FromBool
    <2>4. CASE y.literal
      BY <1>2, <2>1, <2>2, <2>4, AgainstLiteralIsExact DEF FloatComparison
    <2>5. CASE ~x.literal /\ ~y.literal
      BY <1>2, <2>1, <2>2, <2>5, BetweenValuesIsExact DEF FloatComparison
    <2> QED BY <2>3, <2>4, <2>5, OperandFields
  <1> QED BY <1>1, <1>2

-----------------------------------------------------------------------------
(* The other leaves.                                                       *)

LEMMA CompareType ==
  ASSUME NEW rel, NEW x, NEW y PROVE PolarsCompare(rel, x, y) \in TruthValues
  BY DEF PolarsCompare, FromBool, TruthValues

LEMMA MissingIsExact ==
  ASSUME NEW x \in Values, NEW y \in Literals
  PROVE  /\ EqMissing(x, y) = PolarsEqMissing(x.value, y.value)
         /\ NeMissing(x, y) = Not(PolarsEqMissing(x.value, y.value))
  <1>1. x \in Operands /\ y \in Operands /\ "=" \in Operators
    BY DEF Values, Literals, Operators
  <1> DEFINE comparison == PolarsCompare("=", x.value, y.value)
  <1>2. FloatComparison("=", x, y) = comparison
    BY <1>1, ComparisonIsExact
  <1>3. comparison \in TruthValues /\ (Null \notin {x.value, y.value} => comparison # "null")
    BY CompareType DEF PolarsCompare, FromBool
  <1>4. CASE y.value = Null
    BY <1>4 DEF EqMissing, NeMissing, PolarsEqMissing, SqlIsNull, FromBool
  <1>5. CASE y.value # Null /\ x.value = Null
    BY <1>2, <1>5
       DEF EqMissing, NeMissing, PolarsEqMissing, PolarsCompare, SqlIsNull, FromBool,
           Both, Either, Conj, Disj, Not
  <1>6. CASE y.value # Null /\ x.value # Null
    <2>1. SqlIsNull(x.value) = "false"
      BY <1>6 DEF SqlIsNull, FromBool
    <2>2. PolarsEqMissing(x.value, y.value) = comparison
      BY <1>6 DEF PolarsEqMissing
    <2>3. comparison \in {"true", "false"}
      BY <1>3, <1>6 DEF TruthValues
    <2>4. /\ EqMissing(x, y) = Both(comparison, Not("false"))
          /\ NeMissing(x, y) = Either(Not(comparison), "false")
      BY <1>2, <1>6, <2>1 DEF EqMissing, NeMissing
    <2> HIDE DEF comparison
    <2> QED BY <2>2, <2>3, <2>4 DEF Both, Either, Conj, Disj, Not
  <1> QED BY <1>4, <1>5, <1>6

LEMMA RangeIsExact ==
  ASSUME NEW closed, NEW x \in Values, NEW low \in Literals, NEW high \in Literals
  PROVE  IsBetween(closed, x, low, high) =
           PolarsIsBetween(closed, x.value, low.value, high.value)
  <1>1. x \in Operands /\ low \in Operands /\ high \in Operands
    BY DEF Values, Literals
  <1>2. LowerBound(closed) \in Operators /\ UpperBound(closed) \in Operators
    BY DEF LowerBound, UpperBound, Operators
  <1> QED BY <1>1, <1>2, ComparisonIsExact DEF IsBetween, PolarsIsBetween

LEMMA MembershipIsExact ==
  ASSUME NEW x \in Floats \cup {Null}, NEW elements \in SUBSET (Floats \cup {Null}),
         NEW nullsEqual \in BOOLEAN,
         IsIn(x, elements, nullsEqual) # Declined
  PROVE  IsIn(x, elements, nullsEqual) = PolarsIsIn(x, elements, nullsEqual)
  <1> DEFINE values == elements \ {Null}
             equal(y) == SqlCompareLiteral("=", x, y)
             matches == \E y \in values : PolarsRank(x) = PolarsRank(y)
  <1>1. CASE values = {}
    BY <1>1 DEF IsIn, PolarsIsIn, SqlIsNull, FromBool, Both, Conj
  <1>2. CASE values # {} /\ \E y \in values : IsNan(y)
    BY <1>2 DEF IsIn
  <1>3. CASE values # {} /\ ~\E y \in values : IsNan(y)
    <2>1. /\ x = Null => SqlIn(x, values) = "null"
          /\ x # Null => SqlIn(x, values) = FromBool(matches)
      <3>1. CASE x = Null
        <4>1. \A y \in values : equal(y) = "null"
          BY <3>1 DEF SqlCompareLiteral, SqlCompare
        <4> QED BY <1>3, <3>1, <4>1 DEF SqlIn, Disj
      <3>2. CASE x # Null
        <4>1. ASSUME NEW y \in values
              PROVE  equal(y) = FromBool(PolarsRank(x) = PolarsRank(y))
          <5>1. x \in Floats /\ y \in Floats /\ ~IsNan(y) /\ "=" \in Operators
            BY <1>3, <3>2 DEF Operators
          <5>2. equal(y) =
                  FromBool(IF IsNan(x) THEN Holds("=", LanceRank(x), LanceRank(y))
                           ELSE Holds("=", PolarsRank(x), PolarsRank(y)))
            BY <5>1, LiteralComparison
          <5>3. CASE ~IsNan(x)
            BY <5>2, <5>3 DEF Holds, FromBool
          <5>4. CASE IsNan(x)
            <6>1. LanceRank(x) # LanceRank(y) /\ PolarsRank(x) # PolarsRank(y)
              BY <5>1, <5>4, FloatFields DEF LanceRank, PolarsRank, IsNan, Nan
            <6> QED BY <5>2, <5>4, <6>1 DEF Holds, FromBool
          <5> QED BY <5>3, <5>4
        <4>2. SqlIn(x, values) = Disj({equal(y) : y \in values})
          BY <1>3 DEF SqlIn
        <4> HIDE DEF equal
        <4> QED BY <3>2, <4>1, <4>2 DEF Disj, FromBool
      <3> QED BY <3>1, <3>2
    <2>2. IsIn(x, elements, nullsEqual) =
            IF ~nullsEqual THEN SqlIn(x, values)
            ELSE IF Null \in elements THEN Either(SqlIn(x, values), SqlIsNull(x))
            ELSE Both(SqlIn(x, values), Not(SqlIsNull(x)))
      BY <1>3 DEF IsIn
    <2>3. CASE x = Null
      BY <2>1, <2>2, <2>3
         DEF PolarsIsIn, SqlIsNull, FromBool, Both, Either, Conj, Disj, Not
    <2>4. CASE x # Null
      <3>1. SqlIsNull(x) = "false" /\ FromBool(matches) \in {"true", "false"}
        BY <2>4 DEF SqlIsNull, FromBool
      <3>2. PolarsIsIn(x, elements, nullsEqual) = FromBool(matches)
        BY <2>4 DEF PolarsIsIn
      <3> HIDE DEF matches
      <3> QED BY <2>1, <2>2, <2>4, <3>1, <3>2 DEF Both, Either, Conj, Disj, Not
    <2> QED BY <2>3, <2>4
  <1> QED BY <1>1, <1>2, <1>3

LEMMA TestIsExact ==
  ASSUME NEW test \in Tests, NEW x \in Floats \cup {Null}
  PROVE  Unary(test, x) = PolarsTest(test, x)
  <1>1. CASE x = Null
    BY <1>1
       DEF Unary, PolarsTest, Tests, SqlIsNull, SqlIsNan, SqlCompare, FromBool, Both, Either,
           Conj, Disj, Not
  <1>2. CASE x # Null
    <2>1. x \in Floats
      BY <1>2
    <2> DEFINE isPos == SqlCompare("=", x, Float(FALSE, Inf))
               isNeg == SqlCompare("=", x, Float(TRUE, Inf))
    <2>2. /\ isPos = FromBool(x.mag = Inf /\ ~x.neg)
          /\ isNeg = FromBool(x.mag = Inf /\ x.neg)
      <3>1. ASSUME NEW neg \in BOOLEAN
            PROVE  SqlCompare("=", x, Float(neg, Inf)) = FromBool(x.mag = Inf /\ x.neg = neg)
        <4>1. Float(neg, Inf) \in Floats /\ LanceRank(Float(neg, Inf)) =
                                              IF neg THEN -Inf - 1 ELSE Inf
          BY InfAssumption DEF Float, Floats, Nan, LanceRank
        <4>2. SqlCompare("=", x, Float(neg, Inf)) =
                FromBool(Holds("=", LanceRank(x), LanceRank(Float(neg, Inf))))
          BY <1>2, <4>1, FloatFields DEF SqlCompare
        <4>3. LanceRank(x) = (IF neg THEN -Inf - 1 ELSE Inf) <=> (x.mag = Inf /\ x.neg = neg)
          BY <2>1, FloatFields DEF LanceRank, Nan
        <4> QED BY <4>1, <4>2, <4>3 DEF Holds, FromBool
      <3>2. x.neg \in BOOLEAN
        BY <2>1, FloatFields
      <3> QED BY <3>1, <3>2 DEF FromBool
    <2>3. /\ SqlIsNull(x) = "false"
          /\ SqlIsNan(x) = FromBool(x.mag = Nan)
      BY <1>2 DEF SqlIsNull, SqlIsNan, IsNan, FromBool
    <2>4. x.mag \in 0..Nan /\ x.neg \in BOOLEAN /\ Inf \in Nat
      BY <2>1, FloatFields
    <2> HIDE DEF isPos, isNeg
    <2>5. Unary(test, x) =
            IF test = "IsNull" THEN SqlIsNull(x)
            ELSE IF test = "IsNotNull" THEN Not(SqlIsNull(x))
            ELSE IF test = "IsNan" THEN SqlIsNan(x)
            ELSE IF test = "IsNotNan" THEN Not(SqlIsNan(x))
            ELSE IF test = "IsInfinite" THEN Either(isPos, isNeg)
            ELSE Both(Not(SqlIsNan(x)), Both(Not(isPos), Not(isNeg)))
      BY DEF Unary, isPos, isNeg
    <2> QED BY <1>2, <2>2, <2>3, <2>4, <2>5
            DEF PolarsTest, Tests, FromBool, Both, Either, Conj, Disj, Not, Nan
  <1> QED BY <1>1, <1>2

-----------------------------------------------------------------------------
(* The theorem.                                                            *)

IInv == leaf \in Leaves /\ LeafIsExact

LEMMA InitIInv == LeavesInit => IInv
  BY DEF LeavesInit, IInv, LeafIsExact

\* The kinds are told apart by their tag.
LEMMA KindsOfLeaves ==
  ASSUME leaf \in Leaves
  PROVE  /\ leaf.kind = "compare" => leaf \in Comparisons
         /\ leaf.kind = "missing" => leaf \in MissingTests
         /\ leaf.kind = "in" => leaf \in Memberships
         /\ leaf.kind = "between" => leaf \in Ranges
         /\ leaf.kind = "test" => leaf \in UnaryTests
  BY DEF Leaves, Comparisons, MissingTests, Memberships, Ranges, UnaryTests

LEMMA NextIInv == IInv /\ [LeavesNext]_leafVars => IInv'
  <1> SUFFICES ASSUME IInv, [LeavesNext]_leafVars PROVE IInv'
    OBVIOUS
  <1>1. CASE UNCHANGED leafVars
    BY <1>1 DEF IInv, LeafIsExact, PolarsValue, leafVars
  <1>2. ASSUME leaf' = leaf, lowered' # Declined => lowered' = PolarsValue PROVE IInv'
    BY <1>2 DEF IInv, LeafIsExact, PolarsValue
  <1>3. CASE LowerComparison
    <2>1. leaf.op \in Operators /\ leaf.x \in Operands /\ leaf.y \in Operands
      BY <1>3, KindsOfLeaves DEF IInv, LowerComparison, Comparisons
    <2> QED BY <1>2, <1>3, <2>1, ComparisonIsExact DEF LowerComparison, LowerTo, PolarsValue
  <1>4. CASE LowerMissing
    <2>1. leaf.x \in Values /\ leaf.y \in Literals
      BY <1>4, KindsOfLeaves DEF IInv, LowerMissing, MissingTests
    <2> QED BY <1>2, <1>4, <2>1, MissingIsExact DEF LowerMissing, LowerTo, PolarsValue
  <1>5. CASE LowerIn
    <2>1. /\ leaf.x \in Floats \cup {Null} /\ leaf.nullsEqual \in BOOLEAN
          /\ leaf.elements \in SUBSET (Floats \cup {Null})
      BY <1>5, KindsOfLeaves DEF IInv, LowerIn, Memberships
    <2> QED BY <1>2, <1>5, <2>1, MembershipIsExact DEF LowerIn, LowerTo, PolarsValue
  <1>6. CASE LowerBetween
    <2>1. leaf.x \in Values /\ leaf.low \in Literals /\ leaf.high \in Literals
      BY <1>6, KindsOfLeaves DEF IInv, LowerBetween, Ranges
    <2> QED BY <1>2, <1>6, <2>1, RangeIsExact DEF LowerBetween, LowerTo, PolarsValue
  <1>7. CASE LowerTest
    <2>1. leaf.test \in Tests /\ leaf.x \in Floats \cup {Null}
      BY <1>7, KindsOfLeaves DEF IInv, LowerTest, UnaryTests
    <2> QED BY <1>2, <1>7, <2>1, TestIsExact DEF LowerTest, LowerTo, PolarsValue
  <1> QED BY <1>1, <1>3, <1>4, <1>5, <1>6, <1>7 DEF LeavesNext

\* Over floats of any range, a lowered leaf has for Lance the value it has for
\* Polars, which is what the walk above it takes an exact leaf to be.
THEOREM LeavesAreExact == LeavesSpec => []LeafIsExact
  <1>1. IInv => LeafIsExact
    BY DEF IInv
  <1> QED BY <1>1, InitIInv, NextIInv, PTL DEF LeavesSpec

\* Whatever the operands, a leaf is true, false or null to Polars.
LEMMA PolarsValueIsTruth == PolarsValue \in TruthValues
  BY DEF PolarsValue, PolarsCompare, PolarsEqMissing, PolarsIsIn, PolarsIsBetween, PolarsTest,
         FromBool, Both, Conj, Not, TruthValues

\* Over floats of any range, a leaf is never lowered to SQL that Lance cannot parse.
THEOREM SqlStaysValid == LeavesSpec => []SqlIsValid
  <1>1. IInv => SqlIsValid
    BY PolarsValueIsTruth DEF IInv, LeafIsExact, SqlIsValid
  <1> QED BY <1>1, InitIInv, NextIInv, PTL DEF LeavesSpec

-----------------------------------------------------------------------------
(* Division with a positive divisor, and that of the opposite dividend.    *)

LEMMA Division ==
  ASSUME NEW x \in Int, NEW n \in Nat \ {0}
  PROVE  /\ x % n \in 0 .. n - 1 /\ x \div n \in Int
         /\ x = n * (x \div n) + (x % n)
  BY Z3

LEMMA Monotone ==
  ASSUME NEW n \in Nat \ {0}, NEW p \in Int, NEW q \in Int, p > q
  PROVE  n * p >= n * q + n
  BY Z3

LEMMA Uniqueness ==
  ASSUME NEW n \in Nat \ {0}, NEW p \in Int, NEW q \in Int,
         NEW r \in 0 .. n - 1, NEW s \in 0 .. n - 1, n * p + r = n * q + s
  PROVE  p = q /\ r = s
  <1>1. ~ (p > q)
    <2>1. p > q => n * p >= n * q + n  BY Monotone
    <2>2. n * p \in Int /\ n * q \in Int  OBVIOUS
    <2> QED  BY <2>1, <2>2
  <1>2. ~ (q > p)
    <2>1. q > p => n * q >= n * p + n  BY Monotone
    <2>2. n * p \in Int /\ n * q \in Int  OBVIOUS
    <2> QED  BY <2>1, <2>2
  <1>3. p = q  BY <1>1, <1>2
  <1>4. n * p \in Int  OBVIOUS
  <1> QED  BY <1>3, <1>4

\* Rounding the opposite down gives one quotient less, unless nothing remains.
LEMMA OppositeDivision ==
  ASSUME NEW x \in Int, NEW n \in Nat \ {0}
  PROVE  /\ x % n = 0 => (-x) % n = 0 /\ (-x) \div n = -(x \div n)
         /\ x % n # 0 => (-x) % n = n - (x % n) /\ (-x) \div n = -(x \div n) - 1
  <1> DEFINE q == x \div n
             r == x % n
             oq == (-x) \div n
             or == (-x) % n
  <1>1. r \in 0 .. n - 1 /\ q \in Int /\ x = n * q + r  BY Division
  <1>2. or \in 0 .. n - 1 /\ oq \in Int /\ -x = n * oq + or
    <2>1. -x \in Int  OBVIOUS
    <2> QED  BY <2>1, Division
  <1> HIDE DEF q, r, oq, or
  <1>3. CASE r = 0
    <2>1. n * oq + or = n * (-q) + 0  BY <1>1, <1>2, <1>3, Z3
    <2>2. -q \in Int /\ 0 \in 0 .. n - 1  BY <1>1
    <2>3. oq = -q /\ or = 0  BY <2>1, <2>2, <1>2, Uniqueness
    <2> QED  BY <2>3, <1>3 DEF q, r, oq, or
  <1>4. CASE r # 0
    <2>1. n * oq + or = n * (-q - 1) + (n - r)  BY <1>1, <1>2, Z3
    <2>2. -q - 1 \in Int /\ n - r \in 0 .. n - 1  BY <1>1, <1>4
    <2>3. oq = -q - 1 /\ or = n - r  BY <2>1, <2>2, <1>2, Uniqueness
    <2> QED  BY <2>3, <1>4 DEF q, r, oq, or
  <1> QED  BY <1>3, <1>4

\* A quotient is no larger than its dividend, and half of it where something
\* remains.
LEMMA QuotientSize ==
  ASSUME NEW x \in Nat, NEW n \in Nat \ {0}
  PROVE  /\ x \div n \in Nat /\ x \div n <= x
         /\ x % n # 0 => 2 * (x \div n) <= x
         /\ n > 1 => 2 * (x \div n) <= x
  <1> DEFINE q == x \div n
             r == x % n
  <1>1. r \in 0 .. n - 1 /\ q \in Int /\ x = n * q + r  BY Division
  <1> HIDE DEF q, r
  <1>2. q >= 0
    <2>1. 0 > q => n * 0 >= n * q + n  BY <1>1, Monotone
    <2>2. n * q \in Int /\ n * 0 = 0  BY <1>1
    <2> QED  BY <1>1, <2>1, <2>2
  <1>3. n * q >= q  BY <1>1, <1>2, Z3
  <1>4. n > 1 => n * q >= 2 * q  BY <1>1, <1>2, Z3
  <1>5. n * q \in Int /\ (r # 0 => n > 1)  BY <1>1
  <1> QED  BY <1>1, <1>2, <1>3, <1>4, <1>5 DEF q, r

-----------------------------------------------------------------------------
(* What the SQL computes from a dividend and a divisor that are there, by   *)
(* the quotient and the remainder of their magnitudes.                      *)

Q(a, b) == Abs(a) \div Abs(b)
R(a, b) == Abs(a) % Abs(b)

Divisible(t, a, b) ==
  t \in {"Int64", "UInt64"} /\ a \in IntsOf(t) /\ b \in IntsOf(t) /\ b # 0

LEMMA Magnitudes ==
  ASSUME NEW t, NEW a, NEW b, Divisible(t, a, b)
  PROVE  /\ a \in Int /\ b \in Int /\ Abs(a) \in Nat /\ Abs(b) \in Nat \ {0}
         /\ {a, b} \cap {Null, Failed, Declined, Pending} = {}
         /\ R(a, b) \in 0 .. Abs(b) - 1 /\ Q(a, b) \in Nat /\ Q(a, b) <= Abs(a)
         /\ R(a, b) # 0 \/ Abs(b) > 1 => 2 * Q(a, b) <= Abs(a)
  <1>1. a \in Int /\ b \in Int
    BY MaxIntAssumption DEF Divisible, IntsOf
  <1>2. Abs(a) \in Nat /\ Abs(b) \in Nat \ {0}
    BY <1>1 DEF Abs, Divisible
  <1>3. {a, b} \cap {Null, Failed, Declined, Pending} = {}
    BY <1>1, ResultsAssumption
  <1>4. R(a, b) \in 0 .. Abs(b) - 1
    <2>1. Abs(a) \in Int  BY <1>2
    <2> QED  BY <2>1, <1>2, Division DEF R
  <1>5. /\ Q(a, b) \in Nat /\ Q(a, b) <= Abs(a)
        /\ R(a, b) # 0 \/ Abs(b) > 1 => 2 * Q(a, b) <= Abs(a)
    BY <1>2, QuotientSize DEF Q, R
  <1> QED  BY <1>1, <1>2, <1>3, <1>4, <1>5

\* Polars' rounding down, by the signs of the operands.
LEMMA FloorBySigns ==
  ASSUME NEW t, NEW a, NEW b, Divisible(t, a, b)
  PROVE  LET differ == Sign(a) * Sign(b) < 0 /\ R(a, b) # 0
         IN  /\ FloorRemainder(a, b) =
                  Sign(a) * R(a, b) + (IF differ THEN b ELSE 0)
             /\ FloorQuotient(a, b) =
                  Sign(a) * Sign(b) * Q(a, b) - (IF differ THEN 1 ELSE 0)
  <1> DEFINE n == Abs(b)
             x == Abs(a)
             q == Q(a, b)
             r == R(a, b)
  <1>1. /\ a \in Int /\ b \in Int /\ b # 0 /\ x \in Nat /\ n \in Nat \ {0}
        /\ r \in 0 .. n - 1 /\ q \in Nat
    BY Magnitudes DEF Divisible
  <1>2. /\ r = 0 => (-x) % n = 0 /\ (-x) \div n = -q
        /\ r # 0 => (-x) % n = n - r /\ (-x) \div n = -q - 1
    <2>1. x \in Int  BY <1>1
    <2> QED  BY <2>1, <1>1, OppositeDivision DEF Q, R
  <1>3. x % n = r /\ x \div n = q  BY DEF Q, R
  <1>4. a = 0 => r = 0 /\ q = 0
    <2>1. ASSUME a = 0 PROVE r = 0 /\ q = 0
      <3>1. x = 0  BY <2>1 DEF Abs
      <3>2. q = 0  BY <3>1, <1>1, Magnitudes
      <3>3. x = n * q + r
        <4>1. x \in Int  BY <1>1
        <4> QED  BY <4>1, <1>1, Division DEF Q, R
      <3>4. n * 0 = 0  BY <1>1
      <3> QED  BY <3>1, <3>2, <3>3, <3>4, <1>1
    <2> QED  BY <2>1
  <1>5. CASE b > 0 /\ a >= 0
    <2>1. n = b /\ x = a  BY <1>5, <1>1 DEF Abs
    <2>2. FloorRemainder(a, b) = r /\ FloorQuotient(a, b) = q
      BY <2>1, <1>5, <1>3 DEF FloorRemainder, FloorQuotient
    <2>3. Sign(b) = 1 /\ Sign(a) \in {0, 1} /\ (Sign(a) = 0 => a = 0)
      BY <1>1, <1>5 DEF Sign
    <2> HIDE DEF n, x, q, r
    <2> QED  BY <2>2, <2>3, <1>1, <1>4 DEF q, r
  <1>6. CASE b > 0 /\ a < 0
    <2>1. n = b /\ -x = a  BY <1>6, <1>1 DEF Abs
    <2>2. FloorRemainder(a, b) = (-x) % n /\ FloorQuotient(a, b) = (-x) \div n
      BY <2>1, <1>6 DEF FloorRemainder, FloorQuotient
    <2>3. Sign(b) = 1 /\ Sign(a) = -1  BY <1>1, <1>6 DEF Sign
    <2> HIDE DEF n, x, q, r
    <2> QED  BY <2>1, <2>2, <2>3, <1>1, <1>2 DEF q, r
  <1>7. CASE b < 0 /\ a >= 0
    <2>1. n = -b /\ x = a  BY <1>7, <1>1 DEF Abs
    <2>2. FloorRemainder(a, b) = -((-x) % n) /\ FloorQuotient(a, b) = (-x) \div n
      BY <2>1, <1>7, <1>1 DEF FloorRemainder, FloorQuotient
    <2>3. Sign(b) = -1 /\ Sign(a) \in {0, 1} /\ (Sign(a) = 0 => a = 0)
      BY <1>1, <1>7 DEF Sign
    <2> HIDE DEF n, x, q, r
    <2> QED  BY <2>1, <2>2, <2>3, <1>1, <1>2, <1>4 DEF q, r
  <1>8. CASE b < 0 /\ a < 0
    <2>1. n = -b /\ x = -a  BY <1>8, <1>1 DEF Abs
    <2>2. FloorRemainder(a, b) = -r /\ FloorQuotient(a, b) = q
      BY <2>1, <1>8, <1>1, <1>3 DEF FloorRemainder, FloorQuotient
    <2>3. Sign(b) = -1 /\ Sign(a) = -1  BY <1>1, <1>8 DEF Sign
    <2> HIDE DEF n, x, q, r
    <2> QED  BY <2>2, <2>3, <1>1 DEF q, r
  <1> QED  BY <1>1, <1>5, <1>6, <1>7, <1>8

LEMMA SqlRemainderOfValues ==
  ASSUME NEW t, NEW a, NEW b, Divisible(t, a, b)
  PROVE  /\ SqlRemainder(a, b) = Sign(a) * R(a, b)
         /\ SqlRemainder(a, b) \in IntsOf(t) /\ SqlNullIfZero(b) = b
         /\ Differs(SqlRemainder(a, b), b) =
              IF Sign(a) * Sign(b) < 0 /\ R(a, b) # 0 THEN 1 ELSE 0
  <1>1. /\ a \in Int /\ b \in Int /\ b # 0 /\ Abs(a) \in Nat /\ Abs(b) \in Nat \ {0}
        /\ R(a, b) \in 0 .. Abs(b) - 1
        /\ {a, b} \cap {Null, Failed} = {}
    BY Magnitudes DEF Divisible
  <1>2. SqlRemainder(a, b) = Sign(a) * R(a, b)
    BY <1>1 DEF SqlRemainder, Strict, R
  <1>3. Sign(a) \in {-1, 0, 1} /\ Sign(b) \in {-1, 1}
    BY <1>1 DEF Sign
  <1>4. SqlRemainder(a, b) \in Int /\ Null \notin Int /\ Failed \notin Int
    <2> HIDE DEF R
    <2> QED  BY <1>1, <1>2, <1>3, ResultsAssumption
  <1>5. SqlRemainder(a, b) \in IntsOf(t)
    <2>1. a \in IntsOf(t) /\ b \in IntsOf(t) /\ t \in {"Int64", "UInt64"}  BY DEF Divisible
    <2>2. CASE t = "Int64"
      <3>1. Abs(b) - 1 <= MaxInt  BY <2>1, <2>2, <1>1, MaxIntAssumption DEF IntsOf, Abs
      <3>2. R(a, b) <= MaxInt  BY <3>1, <1>1, MaxIntAssumption
      <3> QED  BY <3>2, <2>2, <1>1, <1>2, <1>3, MaxIntAssumption DEF IntsOf
    <2>3. CASE t = "UInt64"
      <3>1. Abs(b) = b /\ b <= 2 * MaxInt + 1 /\ Sign(a) \in {0, 1}
        BY <2>1, <2>3, <1>1, MaxIntAssumption DEF IntsOf, Abs, Sign
      <3> QED  BY <3>1, <2>3, <1>1, <1>2, MaxIntAssumption DEF IntsOf
    <2> QED  BY <2>1, <2>2, <2>3
  <1>6. Sign(SqlRemainder(a, b)) = IF R(a, b) = 0 THEN 0 ELSE Sign(a)
    <2> HIDE DEF R
    <2> QED  BY <1>1, <1>2, <1>3 DEF Sign
  <1>7. SqlRemainder(a, b) \notin {Null, Failed}  BY <1>4
  <1>8. Differs(SqlRemainder(a, b), b) =
          IF Sign(SqlRemainder(a, b)) * Sign(b) < 0 THEN 1 ELSE 0
    BY <1>1, <1>7 DEF Differs, Strict
  <1>9. SqlNullIfZero(b) = b  BY <1>1 DEF SqlNullIfZero
  <1> QED
    <2> HIDE DEF R
    <2>1. Differs(SqlRemainder(a, b), b) =
              IF Sign(a) * Sign(b) < 0 /\ R(a, b) # 0 THEN 1 ELSE 0
      BY <1>3, <1>6, <1>8
    <2> QED  BY <2>1, <1>2, <1>5, <1>9

-----------------------------------------------------------------------------
(* Both operators are exact wherever they translate.                       *)

LEMMA RemainderIsExact ==
  ASSUME NEW t, NEW a, NEW b, Divisible(t, a, b)
  PROVE  Remainder(t, a, b) = FloorRemainder(a, b)
  <1> DEFINE s == SqlRemainder(a, b)
             d == Differs(s, b)
  <1>1. /\ s = Sign(a) * R(a, b) /\ s \in IntsOf(t) /\ SqlNullIfZero(b) = b
        /\ d = IF Sign(a) * Sign(b) < 0 /\ R(a, b) # 0 THEN 1 ELSE 0
    BY SqlRemainderOfValues
  <1>2. FloorRemainder(a, b) =
          Sign(a) * R(a, b) + (IF Sign(a) * Sign(b) < 0 /\ R(a, b) # 0 THEN b ELSE 0)
    BY FloorBySigns
  <1>3. /\ a \in Int /\ b \in Int /\ b # 0 /\ Abs(b) \in Nat \ {0} /\ R(a, b) \in 0 .. Abs(b) - 1
        /\ t \in {"Int64", "UInt64"} /\ b \in IntsOf(t) /\ a \in IntsOf(t)
    BY Magnitudes DEF Divisible
  <1>4. Remainder(t, a, b) = SqlPlus(t, s, SqlTimes(t, b, d))
    BY <1>1 DEF Remainder
  <1>5. Sign(a) \in {-1, 0, 1} /\ Sign(b) \in {-1, 1} /\ s \in Int /\ d \in {0, 1}
    <2>1. Sign(a) \in {-1, 0, 1} /\ Sign(b) \in {-1, 1}  BY <1>3 DEF Sign
    <2> HIDE DEF s, d
    <2> QED  BY <2>1, <1>1, <1>3, MaxIntAssumption DEF IntsOf
  <1>6. \A i \in Int : i # Null /\ i # Failed  BY ResultsAssumption
  <1>7. FloorRemainder(a, b) \in IntsOf(t)
    <2>1. CASE ~ (Sign(a) * Sign(b) < 0 /\ R(a, b) # 0)
      <3> HIDE DEF s, d
      <3>1. FloorRemainder(a, b) = s  BY <2>1, <1>1, <1>2, <1>5
      <3> QED  BY <3>1, <1>1
    <2>2. CASE Sign(a) * Sign(b) < 0 /\ R(a, b) # 0
      <3>1. t = "Int64"
        BY <2>2, <1>3, <1>5, MaxIntAssumption DEF IntsOf, Sign
      <3>2. FloorRemainder(a, b) = Sign(a) * R(a, b) + b
        BY <2>2, <1>2
      <3>3. CASE b > 0
        <4>1. Abs(b) = b /\ Sign(a) = -1  BY <3>3, <2>2, <1>3, <1>5 DEF Abs, Sign
        <4> QED  BY <4>1, <3>1, <3>2, <1>3, MaxIntAssumption DEF IntsOf
      <3>4. CASE b < 0
        <4>1. Abs(b) = -b /\ Sign(a) = 1  BY <3>4, <2>2, <1>3, <1>5 DEF Abs, Sign
        <4> QED  BY <4>1, <3>1, <3>2, <1>3, MaxIntAssumption DEF IntsOf
      <3> QED  BY <3>3, <3>4, <1>3
    <2> QED  BY <2>1, <2>2
  <1> HIDE DEF s, d
  <1>8. SqlTimes(t, b, d) = b * d
    <2>1. b * d \in IntsOf(t)
      <3>1. 0 \in IntsOf(t)  BY <1>3, MaxIntAssumption DEF IntsOf
      <3> QED  BY <3>1, <1>3, <1>5
    <2> QED  BY <2>1, <1>3, <1>5, <1>6 DEF SqlTimes, Strict, Fitting
  <1>9. s + b * d = FloorRemainder(a, b)
    <2>1. b * 1 = b /\ b * 0 = 0  BY <1>3
    <2> QED  BY <2>1, <1>1, <1>2, <1>3, <1>5
  <1>10. b * d \in Int  BY <1>3, <1>5
  <1> QED  BY <1>4, <1>5, <1>6, <1>7, <1>8, <1>9, <1>10 DEF SqlPlus, Strict, Fitting

LEMMA QuotientIsExact ==
  ASSUME NEW a, NEW b, Divisible("Int64", a, b), b # -1
  PROVE  Quotient("Int64", a, b) = Wrapped(FloorQuotient(a, b))
  <1> DEFINE t == "Int64"
             s == SqlRemainder(a, b)
             d == Differs(s, b)
             g == Sign(a) * Sign(b)
             q == Q(a, b)
  <1>1. /\ SqlNullIfZero(b) = b
        /\ d = IF g < 0 /\ R(a, b) # 0 THEN 1 ELSE 0
    BY SqlRemainderOfValues
  <1>2. FloorQuotient(a, b) = g * q - (IF g < 0 /\ R(a, b) # 0 THEN 1 ELSE 0)
    BY FloorBySigns
  <1>3. /\ a \in Int /\ b \in Int /\ b # 0 /\ a \in IntsOf(t) /\ b \in IntsOf(t)
        /\ Abs(a) \in Nat /\ Abs(b) \in Nat \ {0}
        /\ R(a, b) \in 0 .. Abs(b) - 1 /\ q \in Nat /\ q <= Abs(a)
        /\ R(a, b) # 0 \/ Abs(b) > 1 => 2 * q <= Abs(a)
    BY Magnitudes DEF Divisible
  <1>4. Sign(a) \in {-1, 0, 1} /\ Sign(b) \in {-1, 1} /\ g \in {-1, 0, 1}
    BY <1>3 DEF Sign
  <1>5. \A i \in Int : i # Null /\ i # Failed  BY ResultsAssumption
  <1>6. Abs(a) <= MaxInt + 1
    BY <1>3, MaxIntAssumption DEF IntsOf, Abs
  <1>7. g * q \in IntsOf(t) /\ g * q - 1 \in Int
    <2>1. CASE Abs(b) > 1
      <3> HIDE DEF q, g
      <3> QED  BY <2>1, <1>3, <1>4, <1>6, MaxIntAssumption DEF IntsOf
    <2>2. CASE b = 1
      <3>1. g = Sign(a)  BY <2>2, <1>4 DEF Sign
      <3>2. g = 1 => Abs(a) <= MaxInt
        BY <3>1, <1>3, MaxIntAssumption DEF IntsOf, Sign, Abs
      <3> HIDE DEF q, g
      <3> QED  BY <3>2, <1>3, <1>4, <1>6, MaxIntAssumption DEF IntsOf
    <2>3. Abs(b) > 1 \/ b = 1  BY <1>3 DEF Abs
    <2> QED  BY <2>1, <2>2, <2>3
  <1>8. FloorQuotient(a, b) \in IntsOf(t) /\ FloorQuotient(a, b) <= MaxInt
    <2> HIDE DEF q, g
    <2> QED  BY <1>2, <1>3, <1>4, <1>6, <1>7, MaxIntAssumption DEF IntsOf
  <1>9. Wrapped(FloorQuotient(a, b)) = FloorQuotient(a, b)
    BY <1>8, MaxIntAssumption DEF Wrapped, IntsOf
  <1>10. SqlQuotient(t, a, b) = g * q
    BY <1>3, <1>5, <1>7 DEF SqlQuotient, Strict, Fitting, Q
  <1>11. Quotient(t, a, b) = SqlMinus(t, g * q, d)
    BY <1>1, <1>10 DEF Quotient
  <1>12. d \in {0, 1} /\ g * q - d = FloorQuotient(a, b) /\ g * q \in Int
    <2> HIDE DEF s, q, g
    <2> QED  BY <1>1, <1>2, <1>3, <1>4
  <1> HIDE DEF s, d, q, g
  <1> QED  BY <1>5, <1>8, <1>9, <1>11, <1>12 DEF SqlMinus, Strict, Fitting

\* A missing operand, or a divisor of zero, makes the SQL null as Polars does.
LEMMA MissingIsNull ==
  ASSUME NEW t, NEW a \in Int \cup {Null}, NEW b \in Int \cup {Null},
         a = Null \/ b = Null \/ b = 0
  PROVE  Remainder(t, a, b) = Null /\ Quotient(t, a, b) = Null
  <1> DEFINE n == SqlNullIfZero(b)
             s == SqlRemainder(a, n)
             d == Differs(s, n)
  <1>1. /\ n \in Int \cup {Null} /\ n # 0 /\ (a = Null \/ n = Null)
        /\ Null # Failed /\ Null \notin Int /\ Failed \notin Int
    BY ResultsAssumption DEF SqlNullIfZero
  <1>2. a # Failed /\ n # Failed  BY <1>1
  <1> HIDE DEF n
  <1>3. s = Null  BY <1>1, <1>2 DEF SqlRemainder, Strict
  <1>4. SqlQuotient(t, a, n) = Null  BY <1>1, <1>2 DEF SqlQuotient, Strict
  <1> HIDE DEF s
  <1>5. d = Null  BY <1>1, <1>2, <1>3 DEF Differs, Strict
  <1> HIDE DEF d
  <1>6. SqlTimes(t, n, d) = Null  BY <1>1, <1>2, <1>5 DEF SqlTimes, Strict
  <1>7. SqlPlus(t, s, SqlTimes(t, n, d)) = Null
    BY <1>1, <1>3, <1>6 DEF SqlPlus, Strict
  <1>8. SqlMinus(t, SqlQuotient(t, a, n), d) = Null
    BY <1>1, <1>4, <1>5 DEF SqlMinus, Strict
  <1> QED  BY <1>7, <1>8 DEF n, s, d, Remainder, Quotient

\* The inductive invariant: what has been lowered is the lowering of the operands.
Inv ==
  /\ op \in {"Modulus", "FloorDivide"} /\ type \in {"Int64", "UInt64"}
  /\ dividend \in IntsOf(type) \cup {Null}
  /\ divisor \in [value: IntsOf(type) \cup {Null}, literal: BOOLEAN]
  /\ divided \in {Pending, Lower(op, type, dividend, divisor)}

LEMMA ExactOnEveryRow == Inv => DivisionIsExact
  <1> SUFFICES ASSUME Inv, divided \notin {Pending, Declined}
               PROVE  divided = PolarsDivision(op, type, dividend, divisor.value)
    BY DEF DivisionIsExact
  <1> DEFINE a == dividend
             b == divisor.value
  <1>1. /\ divided = Lower(op, type, a, divisor) /\ type \in {"Int64", "UInt64"}
        /\ a \in IntsOf(type) \cup {Null} /\ b \in IntsOf(type) \cup {Null}
        /\ op \in {"Modulus", "FloorDivide"}
    BY DEF Inv
  <1>2. a \in Int \cup {Null} /\ b \in Int \cup {Null} /\ Null \notin Int
    BY <1>1, MaxIntAssumption, ResultsAssumption DEF IntsOf
  <1> HIDE DEF a, b
  <1>3. op = "FloorDivide" => b # -1 /\ type = "Int64" /\ divided = Quotient(type, a, b)
    BY <1>1 DEF Lower, b
  <1>4. op = "Modulus" => divided = Remainder(type, a, b)
    BY <1>1 DEF Lower, b
  <1>5. CASE a = Null \/ b = Null \/ b = 0
    <2>1. Remainder(type, a, b) = Null /\ Quotient(type, a, b) = Null
      BY <1>2, <1>5, MissingIsNull
    <2>2. PolarsDivision(op, type, a, b) = Null  BY <1>5 DEF PolarsDivision
    <2> QED  BY <2>1, <2>2, <1>1, <1>3, <1>4 DEF a, b
  <1>6. CASE a # Null /\ b # Null /\ b # 0
    <2>1. Divisible(type, a, b)  BY <1>1, <1>6 DEF Divisible
    <2>2. CASE op = "Modulus"
      <3>1. Remainder(type, a, b) = FloorRemainder(a, b)  BY <2>1, RemainderIsExact
      <3> QED  BY <3>1, <2>2, <1>4, <1>6 DEF PolarsDivision, a, b
    <2>3. CASE op = "FloorDivide"
      <3>1. Quotient("Int64", a, b) = Wrapped(FloorQuotient(a, b))
        BY <2>1, <2>3, <1>3, QuotientIsExact
      <3> QED  BY <3>1, <2>3, <1>3, <1>6 DEF PolarsDivision, a, b
    <2> QED  BY <2>2, <2>3, <1>1
  <1> QED  BY <1>5, <1>6

\* The SQL of a remainder or a floor division has Polars' value on every row and
\* never fails the scan, for integers of every width (_remainder_or_floor).
THEOREM DivisionExact == DivisionSpec => []DivisionIsExact
  <1>1. DivisionInit => Inv
    BY DEF DivisionInit, Inv
  <1>2. Inv /\ [Evaluate]_divisionVars => Inv'
    BY DEF Inv, Evaluate, divisionVars
  <1> QED  BY <1>1, <1>2, ExactOnEveryRow, PTL DEF DivisionSpec

-----------------------------------------------------------------------------
(* What is known of a value.                                              *)

Fits(x, kind) == x = Null \/ x \in Of(kind)

\* What is known of a value holds.  Only a string can turn into a NaN, and one that
\* is known to hold none is known to be a string.
Known(v) ==
  /\ Fits(v.value, v.kind)
  /\ v.sql \in {v.value, Respelt}
  /\ v.dtype \in {v.kind, Unknown}
  /\ v.nanFree => v.value # NoNumber
  /\ v.nanFree /\ v.kind = "String" => v.dtype = "String"
  /\ v.literal =>
       v.dtype = v.kind /\ v.sql = v.value /\ (v.value = Null <=> v.kind = "Null")

AllValues == Signs \cup Texts \cup {Null, NoNumber}

Entries ==
  {v \in [kind: Kinds, value: AllValues, sql: AllValues \cup {Respelt},
          dtype: Kinds \cup {Unknown}, literal: BOOLEAN, nanFree: BOOLEAN] : Known(v)}

-----------------------------------------------------------------------------
(* Kinds of values.                                                        *)

LEMMA KindsAre ==
  /\ Of("Float") = Signs \cup {NoNumber} /\ Of("Integer") = Signs /\ Of("Boolean") = {0, 1}
  /\ Of("String") = Texts /\ Of("Null") = {}
  /\ Kinds = {"Float", "Integer", "Boolean", "String", "Null"}
  /\ Signs = {-1, 0, 1}
  BY DEF Of, Kinds, Numeric, Signs

LEMMA NansAreFloats ==
  ASSUME NEW k \in Kinds, k # "Float"
  PROVE  NoNumber \notin Of(k)
  BY KindsAre, ConstantsDiffer

LEMMA NullIsNoValue ==
  ASSUME NEW k \in Kinds
  PROVE  Null \notin Of(k)
  BY KindsAre, ConstantsDiffer

LEMMA ValuesAre ==
  ASSUME NEW k \in Kinds, NEW x, Fits(x, k)
  PROVE  x \in AllValues
  <1> USE DEF Fits, AllValues
  <1> QED BY KindsAre

LEMMA TextsAre ==
  /\ \A t \in Texts : t # Garbled =>
       t[1] \in Signs \cup {NoNumber} /\ (t # Text(NoNumber) => t[1] \in Signs)
  /\ \A x \in Signs \cup {NoNumber} : Text(x) \in Texts
  /\ Garbled \in Texts
  <1>1. \A x : Text(x)[1] = x
    BY DEF Text
  <1> QED BY <1>1 DEF Texts

-----------------------------------------------------------------------------
(* The stack.                                                              *)

LEMMA EntryIs ==
  ASSUME NEW kind \in Kinds, NEW value, NEW sql, NEW dtype, NEW literal \in BOOLEAN,
         NEW nanFree \in BOOLEAN,
         Fits(value, kind), sql \in {value, Respelt}, dtype \in {kind, Unknown},
         nanFree => value # NoNumber,
         nanFree /\ kind = "String" => dtype = "String",
         literal => dtype = kind /\ sql = value /\ (value = Null <=> kind = "Null")
  PROVE  [kind |-> kind, value |-> value, sql |-> sql, dtype |-> dtype,
          literal |-> literal, nanFree |-> nanFree] \in Entries
  <1> DEFINE v == [kind |-> kind, value |-> value, sql |-> sql, dtype |-> dtype,
                   literal |-> literal, nanFree |-> nanFree]
  <1>1. value \in AllValues /\ sql \in AllValues \cup {Respelt}
    BY ValuesAre
  <1>2. v \in [kind: Kinds, value: AllValues, sql: AllValues \cup {Respelt},
               dtype: Kinds \cup {Unknown}, literal: BOOLEAN, nanFree: BOOLEAN]
    BY <1>1
  <1>3. Known(v)
    BY DEF Known
  <1> QED BY <1>2, <1>3 DEF Entries

\* The operands of an operation are on top, and the rest stays.
LEMMA TailIs ==
  ASSUME NEW E, NEW s \in Seq(E), NEW n \in 0..Len(s)
  PROVE  /\ \A i \in 1..n : /\ SubSeq(s, Len(s) - n + 1, Len(s))[i] \in E
                            /\ SubSeq(s, Len(s) - n + 1, Len(s))[i] = s[Len(s) - n + i]
         /\ SubSeq(s, 1, Len(s) - n) \in Seq(E)
  <1>1. Len(s) \in Nat /\ \A i \in 1..Len(s) : s[i] \in E
    OBVIOUS
  <1> DEFINE l == Len(s) - n
             f == l + 1
  <1>2. l \in 0..Len(s) /\ f \in Int /\ Len(s) - f + 1 = n
    BY <1>1
  <1>3. SubSeq(s, 1, l) \in Seq(E)
    <2>1. \A i \in 1..l : s[i] \in E
      BY <1>1, <1>2
    <2> HIDE DEF l
    <2> QED BY <1>2, <2>1, SubSeqProperties
  <1>4. \A i \in 1..n : /\ SubSeq(s, f, Len(s))[i] \in E
                        /\ SubSeq(s, f, Len(s))[i] = s[l + i]
    <2>1. \A i \in f..Len(s) : s[i] \in E
      BY <1>1, <1>2
    <2>2. \A i \in 1..Len(s) - f + 1 : SubSeq(s, f, Len(s))[i] = s[f + i - 1]
      <3> HIDE DEF f
      <3> QED BY <1>1, <1>2, <2>1, SubSeqProperties
    <2>3. \A i \in 1..n : f + i - 1 \in f..Len(s) /\ f + i - 1 = l + i
      BY <1>1, <1>2
    <2> HIDE DEF f, l
    <2> QED BY <1>2, <2>1, <2>2, <2>3
  <1> QED BY <1>3, <1>4

LEMMA OperandsAre ==
  ASSUME NEW E, stack \in Seq(E), NEW n \in 0..Len(stack)
  PROVE  /\ \A i \in 1..n : Operand(n, i) \in E
         /\ Below(n) \in Seq(E)
  <1>1. \A i \in 1..n : Len(stack) - n + i \in 1..Len(stack)
    BY LenProperties
  <1> QED BY <1>1, TailIs, ElementOfSeq DEF Operand, Below

LEMMA TopIs ==
  ASSUME NEW E, stack \in Seq(E), stack # <<>>
  PROVE  Top \in E /\ Operand(1, 1) = Top /\ Len(stack) \in Nat /\ Len(stack) >= 1
  <1>1. Len(stack) \in Nat /\ Len(stack) >= 1
    BY EmptySeq
  <1>2. Top \in E
    BY <1>1 DEF Top
  <1>3. Operand(1, 1) = Top
    BY <1>1 DEF Operand, Top
  <1> QED BY <1>1, <1>2, <1>3

-----------------------------------------------------------------------------
(* The operations push values that are known.                              *)

PushesWell ==
  \E n \in 0..Len(stack) : \E w \in Entries : stack' = Append(Below(n), w)

\* Where no operand has been spelt by Lance, their SQL is their value, and so must the
\* result's be; otherwise there is nothing to follow.
LEMMA PushIs ==
  ASSUME stack \in Seq(Entries), NEW n \in 0..Len(stack),
         NEW kind \in Kinds, NEW value, NEW sql, NEW dtype, NEW nanFree \in BOOLEAN,
         PushValue(kind, value, sql, dtype, nanFree, n),
         Fits(value, kind), dtype \in {kind, Unknown},
         nanFree => value # NoNumber,
         nanFree /\ kind = "String" => dtype = "String",
         (\A i \in 1..n : Operand(n, i).sql = Operand(n, i).value)
           => sql \in {value, Respelt}
  PROVE  PushesWell
  <1> DEFINE outcome == Outcome(n, sql)
             known == CannotBeNan(dtype, nanFree)
             w == [kind |-> kind, value |-> value, sql |-> outcome, dtype |-> dtype,
                   literal |-> FALSE, nanFree |-> known]
  <1>1. stack' = Append(Below(n), w)
    BY DEF PushValue
  <1>2. outcome \in {value, Respelt}
    <2>1. CASE \E i \in 1..n : Operand(n, i).sql = Respelt
      BY <2>1 DEF Outcome
    <2>2. CASE ~\E i \in 1..n : Operand(n, i).sql = Respelt
      <3>1. \A i \in 1..n : Operand(n, i).sql \in {Operand(n, i).value, Respelt}
        BY OperandsAre DEF Entries, Known
      <3>2. sql \in {value, Respelt}
        BY <2>2, <3>1
      <3> QED BY <2>2, <3>2 DEF Outcome
    <2> QED BY <2>1, <2>2
  <1>3. known \in BOOLEAN /\ (known => value # NoNumber)
        /\ (known /\ kind = "String" => dtype = "String")
    <2>1. CASE nanFree
      BY <2>1 DEF CannotBeNan
    <2>2. CASE ~nanFree /\ dtype \notin {"Float", Unknown}
      <3>1. dtype = kind /\ kind # "Float"
        BY <2>2
      <3>2. value # NoNumber
        BY <3>1, NansAreFloats, ConstantsDiffer DEF Fits
      <3> QED BY <2>2, <3>1, <3>2 DEF CannotBeNan
    <2>3. CASE ~nanFree /\ dtype \in {"Float", Unknown}
      BY <2>3 DEF CannotBeNan
    <2> QED BY <2>1, <2>2, <2>3
  <1> HIDE DEF outcome, known
  <1>4. w \in Entries
    BY <1>2, <1>3, EntryIs
  <1> HIDE DEF w
  <1> QED BY <1>1, <1>4 DEF PushesWell

LEMMA EntriesAre ==
  ASSUME NEW v \in Entries
  PROVE  /\ v.kind \in Kinds /\ v.literal \in BOOLEAN /\ v.nanFree \in BOOLEAN
         /\ v.dtype \in {v.kind, Unknown}
         /\ v.dtype # Unknown => v.dtype = v.kind
         /\ Fits(v.value, v.kind)
         /\ v.nanFree => v.value # NoNumber
         /\ v.nanFree /\ v.kind = "String" => v.dtype = "String"
         /\ v.literal => /\ v.dtype = v.kind /\ v.dtype # Unknown /\ v.sql = v.value
                         /\ v.value = Null <=> v.kind = "Null"
  BY ConstantsDiffer DEF Entries, Known

\* Two values that meet have a kind that holds both, and a type known of them is it.
LEMMA ComputeIs ==
  ASSUME stack \in Seq(Entries), NEW n \in 0..Len(stack),
         NEW kind \in Kinds, NEW dtype \in {kind, Unknown}, NEW nanFree \in BOOLEAN,
         NEW results, Compute(n, kind, dtype, nanFree, results),
         nanFree /\ kind = "String" => dtype = "String",
         (\A i \in 1..n : Operand(n, i).value # Null) =>
            \A r \in results : r \in Of(kind) /\ (nanFree => r # NoNumber)
  PROVE  PushesWell
  <1>1. PICK r \in results :
          PushValue(kind, NullIf(\E i \in 1..n : Operand(n, i).value = Null, r),
                    NullIf(\E i \in 1..n : Operand(n, i).sql = Null, r), dtype, nanFree, n)
    BY DEF Compute
  <1> DEFINE x == NullIf(\E i \in 1..n : Operand(n, i).value = Null, r)
             y == NullIf(\E i \in 1..n : Operand(n, i).sql = Null, r)
  <1>2. (\A i \in 1..n : Operand(n, i).sql = Operand(n, i).value) => y = x
    BY DEF NullIf
  <1>3. Fits(x, kind) /\ (nanFree => x # NoNumber)
    BY ConstantsDiffer DEF NullIf, Fits
  <1>4. PushValue(kind, x, y, dtype, nanFree, n)
    BY <1>1
  <1> HIDE DEF x, y
  <1> QED BY <1>2, <1>3, <1>4, PushIs

LEMMA SupertypeIs ==
  ASSUME NEW u \in Entries, NEW v \in Entries, Alike(u, v)
  PROVE  LET kind == Supertype(u.kind, v.kind)
         IN  /\ kind \in Kinds
             /\ \A x : Fits(x, u.kind) \/ Fits(x, v.kind) => Fits(x, kind)
             /\ NumericSupertype(u.dtype, v.dtype) \in {kind, Unknown}
  <1> DEFINE j == u.kind
             k == v.kind
             kind == Supertype(j, k)
  <1>1. /\ j \in Kinds /\ k \in Kinds
        /\ u.dtype \in {j, Unknown} /\ v.dtype \in {k, Unknown}
        /\ j = k \/ {j, k} = {"Float", "Integer"} \/ j = "Null" \/ k = "Null"
    BY EntriesAre DEF Alike, Numeric
  <1> HIDE DEF j, k
  <1>2. \/ j = k /\ kind = k
        \/ j = "Null" /\ kind = k
        \/ k = "Null" /\ kind = j
        \/ {j, k} = {"Float", "Integer"} /\ kind = "Float"
    BY <1>1 DEF Supertype
  <1>3. kind \in Kinds
    BY <1>1, <1>2, KindsAre
  <1>4. Of(j) \subseteq Of(kind) /\ Of(k) \subseteq Of(kind)
    <2>1. Of("Null") = {} /\ Of("Integer") \subseteq Of("Float")
      BY KindsAre
    <2> QED BY <1>2, <2>1
  <1>5. NumericSupertype(u.dtype, v.dtype) \in {kind, Unknown}
    <2>1. CASE "Float" \in {u.dtype, v.dtype}
      <3>1. kind = "Float"
        BY <1>1, <1>2, <2>1, KindsAre, ConstantsDiffer
      <3> QED BY <2>1, <3>1 DEF NumericSupertype
    <2>2. CASE u.dtype = "Integer" /\ v.dtype = "Integer"
      <3>1. kind = "Integer"
        BY <1>1, <1>2, <2>2, KindsAre, ConstantsDiffer
      <3> QED BY <2>2, <3>1 DEF NumericSupertype
    <2> QED BY <2>1, <2>2 DEF NumericSupertype
  <1> QED BY <1>3, <1>4, <1>5 DEF Fits, kind, j, k

LEMMA PairIs ==
  ASSUME NEW E, stack \in Seq(E), Len(stack) >= 2
  PROVE  Operand(2, 1) \in E /\ Operand(2, 2) \in E /\ 2 \in 0..Len(stack)
  <1>1. 2 \in 0..Len(stack)
    BY LenProperties
  <1> QED BY <1>1, OperandsAre

LEMMA ColumnIs ==
  ASSUME stack \in Seq(Entries),
         NEW kind \in Kinds, NEW value \in Of(kind) \cup {Null}, NEW known \in BOOLEAN,
         Column(kind, value, known)
  PROVE  PushesWell
  <1>1. 0 \in 0..Len(stack) /\ Fits(value, kind)
    BY LenProperties DEF Fits
  <1>2. PushValue(kind, value, value, IF known THEN kind ELSE Unknown, FALSE, 0)
    BY DEF Column
  <1> DEFINE dtype == IF known THEN kind ELSE Unknown
  <1>3. dtype \in {kind, Unknown} /\ PushValue(kind, value, value, dtype, FALSE, 0)
    BY <1>2
  <1> HIDE DEF dtype
  <1> QED BY <1>1, <1>3, PushIs

LEMMA LiteralIs ==
  ASSUME stack \in Seq(Entries),
         NEW kind \in Kinds, NEW value \in Of(kind) \cup {Null},
         value = Null <=> kind = "Null", LiteralValue(kind, value)
  PROVE  PushesWell
  <1> DEFINE w == [kind |-> kind, value |-> value, sql |-> value, dtype |-> kind,
                   literal |-> TRUE, nanFree |-> TRUE]
  <1>1. value # NoNumber /\ stack' = Append(stack, w)
    BY DEF LiteralValue
  <1>2. w \in Entries
    BY <1>1, EntryIs DEF Fits
  <1>3. 0 \in 0..Len(stack) /\ Below(0) = stack
    <2>1. Len(stack) - 0 = Len(stack) /\ 0 \in 0..Len(stack)
      BY LenProperties
    <2> QED BY <2>1, SubSeqFull DEF Below
  <1> HIDE DEF w
  <1> QED BY <1>1, <1>2, <1>3 DEF PushesWell

LEMMA ConcatenateIs ==
  ASSUME stack \in Seq(Entries), Concatenate
  PROVE  PushesWell
  <1>1. 2 \in 0..Len(stack) /\ Compute(2, "String", "String", FALSE, Texts)
    BY PairIs DEF Concatenate
  <1> QED BY <1>1, ComputeIs, KindsAre

LEMMA ArithmeticIs ==
  ASSUME stack \in Seq(Entries), Arithmetic
  PROVE  PushesWell
  <1> DEFINE l == Operand(2, 1)
             r == Operand(2, 2)
             kind == Supertype(l.kind, r.kind)
  <1>1. /\ Len(stack) >= 2 /\ Compute(2, kind, Claim(2), FALSE, Of(kind))
        /\ l.kind \in Numeric \cup {"Null"} /\ r.kind \in Numeric \cup {"Null"}
    <2>1. 1 \in 1..2 /\ 2 \in 1..2
      OBVIOUS
    <2>2. Len(stack) >= 2 /\ Compute(2, kind, Claim(2), FALSE, Of(kind))
      BY DEF Arithmetic, NumbersOrNull
    <2>3. \A i \in 1..2 : Operand(2, i).kind \in Numeric \cup {"Null"}
      BY DEF Arithmetic, NumbersOrNull
    <2> QED BY <2>1, <2>2, <2>3
  <1>2. l \in Entries /\ r \in Entries /\ 2 \in 0..Len(stack)
    BY <1>1, PairIs
  <1>3. Alike(l, r) /\ Claim(2) = NumericSupertype(l.dtype, r.dtype)
    BY <1>1 DEF Alike, Claim
  <1>4. kind \in Kinds /\ Claim(2) \in {kind, Unknown}
    BY <1>2, <1>3, SupertypeIs
  <1> HIDE DEF kind
  <1> QED BY <1>1, <1>2, <1>4, ComputeIs

LEMMA TrueDivideIs ==
  ASSUME stack \in Seq(Entries), TrueDivide
  PROVE  PushesWell
  <1>1. 2 \in 0..Len(stack) /\ Compute(2, "Float", "Float", FALSE, Of("Float"))
    BY PairIs DEF TrueDivide, NumbersOrNull
  <1> QED BY <1>1, ComputeIs, KindsAre

LEMMA FloatFloorIs ==
  ASSUME stack \in Seq(Entries), FloatFloor
  PROVE  PushesWell
  <1> DEFINE l == Operand(2, 1)
             r == Operand(2, 2)
  <1>1. /\ 2 \in 0..Len(stack) /\ Compute(2, "Float", Claim(2), FALSE, Of("Float"))
        /\ Floating(l) \/ Floating(r)
    <2>1. 2 \in 0..Len(stack) /\ Compute(2, "Float", Claim(2), FALSE, Of("Float"))
      BY PairIs DEF FloatFloor, Numbers
    <2>2. PICK i \in 1..2 : Floating(Operand(2, i))
      BY DEF FloatFloor
    <2>3. i = 1 \/ i = 2
      OBVIOUS
    <2> QED BY <2>1, <2>2, <2>3
  <1>2. Claim(2) = "Float"
    BY <1>1 DEF Claim, NumericSupertype, Floating
  <1> QED BY <1>1, <1>2, ComputeIs, KindsAre

LEMMA PowerIs ==
  ASSUME stack \in Seq(Entries), Power
  PROVE  PushesWell
  <1>1. 2 \in 0..Len(stack) /\ Compute(2, "Float", "Float", FALSE, Of("Float"))
    BY PairIs DEF Power, Numbers
  <1> QED BY <1>1, ComputeIs, KindsAre

LEMMA OneIs ==
  ASSUME stack \in Seq(Entries), Numbers(1)
  PROVE  /\ Top \in Entries /\ Operand(1, 1) = Top /\ 1 \in 0..Len(stack)
         /\ Top.kind \in Numeric
         /\ (\A i \in 1..1 : Operand(1, i).value # Null) <=> Top.value # Null
  <1>1. Len(stack) >= 1 /\ Operand(1, 1).kind \in Numeric
    <2>1. \A i \in 1..1 : Operand(1, i).kind \in Numeric
      BY DEF Numbers
    <2>2. 1 \in 1..1
      OBVIOUS
    <2> QED BY <2>1, <2>2 DEF Numbers
  <1>2. stack # <<>>
    BY <1>1
  <1>3. Top \in Entries /\ Operand(1, 1) = Top /\ 1 \in 0..Len(stack)
    BY <1>1, <1>2, TopIs
  <1>4. \A i \in 1..1 : i = 1
    OBVIOUS
  <1> QED BY <1>1, <1>3, <1>4

LEMMA SignedIs ==
  ASSUME stack \in Seq(Entries), NEW name, Signed(name)
  PROVE  PushesWell
  <1> DEFINE results == IF Top.value \notin Signs THEN {NoNumber}
                        ELSE IF name = "Negate" \/ Top.value < 0 THEN {-Top.value} ELSE {Top.value}
             kind == Top.kind
             dtype == Top.dtype
  <1>1. Compute(1, kind, dtype, FALSE, results) /\ Numbers(1)
    BY DEF Signed
  <1>2. /\ 1 \in 0..Len(stack) /\ kind \in Kinds /\ kind \in Numeric /\ dtype \in {kind, Unknown}
        /\ Fits(Top.value, kind)
        /\ (\A i \in 1..1 : Operand(1, i).value # Null) <=> Top.value # Null
    BY <1>1, OneIs, EntriesAre
  <1>3. Top.value # Null => \A r \in results : r \in Of(kind)
    <2> SUFFICES ASSUME Top.value # Null PROVE \A r \in results : r \in Of(kind)
      OBVIOUS
    <2>1. CASE Top.value \notin Signs
      <3>1. kind = "Float"
        BY <1>2, <2>1, KindsAre DEF Fits, Numeric
      <3> QED BY <2>1, <3>1, KindsAre
    <2>2. CASE Top.value \in Signs
      <3> DEFINE x == Top.value
      <3>1. \A r \in results : r = -x \/ r = x
        BY <2>2
      <3>2. x \in {-1, 0, 1} /\ Signs = {-1, 0, 1}
        BY <2>2, KindsAre
      <3> HIDE DEF x, results
      <3>3. \A r \in results : r \in Signs
        BY <3>1, <3>2
      <3>4. Signs \subseteq Of(kind)
        BY <1>2, KindsAre DEF Numeric
      <3> QED BY <3>3, <3>4
    <2> QED BY <2>1, <2>2
  <1> HIDE DEF kind, dtype, results
  <1> QED BY <1>1, <1>2, <1>3, ComputeIs

LEMMA RoundedIs ==
  ASSUME stack \in Seq(Entries), Rounded
  PROVE  PushesWell
  <1> DEFINE results == IF Top.value \in Signs THEN {0, Top.value} ELSE {NoNumber}
             nanFree == Top.nanFree
  <1>1. Compute(1, "Float", "Float", nanFree, results) /\ Numbers(1) /\ Top.dtype = "Float"
    BY DEF Rounded, Floating
  <1>2. /\ 1 \in 0..Len(stack) /\ nanFree \in BOOLEAN /\ Fits(Top.value, Top.kind) /\ Top.kind \in Numeric
        /\ (\A i \in 1..1 : Operand(1, i).value # Null) <=> Top.value # Null
        /\ nanFree => Top.value # NoNumber
    BY <1>1, OneIs, EntriesAre
  <1>3. Top.value # Null => Top.value \in Signs \cup {NoNumber}
    BY <1>2, KindsAre DEF Fits, Numeric
  <1>4. Top.value # Null => \A r \in results : r \in Of("Float") /\ (nanFree => r # NoNumber)
    BY <1>2, <1>3, KindsAre, ConstantsDiffer
  <1> HIDE DEF nanFree, results
  <1> QED BY <1>1, <1>2, <1>4, KindsAre, ComputeIs

LEMMA RootOrLogIs ==
  ASSUME stack \in Seq(Entries), NEW name, RootOrLog(name)
  PROVE  PushesWell
  <1> DEFINE results == IF Top.value \notin Signs \/ (name # "Cbrt" /\ Top.value < 0) THEN {NoNumber}
                        ELSE IF name = "Log" THEN Signs ELSE {Top.value}
             nanFree == RootNanFree(name, Top)
  <1>1. Compute(1, "Float", "Float", nanFree, results) /\ Numbers(1)
    BY DEF RootOrLog
  <1>2. /\ 1 \in 0..Len(stack) /\ Fits(Top.value, Top.kind) /\ Top.kind \in Numeric
        /\ (\A i \in 1..1 : Operand(1, i).value # Null) <=> Top.value # Null
        /\ nanFree => Top.value # NoNumber /\ name = "Cbrt"
        /\ nanFree \in BOOLEAN
    BY <1>1, OneIs, EntriesAre DEF RootNanFree
  <1>3. Top.value # Null => Top.value \in Signs \cup {NoNumber}
    BY <1>2, KindsAre DEF Fits, Numeric
  <1>4. \A r \in results : r \in Signs \cup {NoNumber}
    OBVIOUS
  <1>5. nanFree /\ Top.value # Null => \A r \in results : r # NoNumber
    BY <1>2, <1>3, KindsAre, ConstantsDiffer
  <1> HIDE DEF nanFree, results
  <1>6. "Float" \in Kinds /\ Of("Float") = Signs \cup {NoNumber}
    BY KindsAre
  <1> QED BY <1>1, <1>2, <1>4, <1>5, <1>6, ComputeIs

LEMMA AsDoubleIs ==
  ASSUME stack \in Seq(Entries), AsDouble
  PROVE  PushesWell
  <1> DEFINE value == Top.value
             sql == Top.sql
             nanFree == Top.nanFree
  <1>1. PushValue("Float", value, sql, "Float", nanFree, 1) /\ Numbers(1)
    BY DEF AsDouble
  <1>2. /\ 1 \in 0..Len(stack) /\ Top.kind \in Numeric
        /\ Fits(value, Top.kind)
        /\ nanFree \in BOOLEAN /\ (nanFree => value # NoNumber)
        /\ (\A i \in 1..1 : Operand(1, i).sql = Operand(1, i).value) => sql = value
    BY <1>1, OneIs, EntriesAre DEF Numeric
  <1>3. Fits(value, "Float")
    BY <1>2, KindsAre DEF Fits, Numeric
  <1> HIDE DEF value, sql, nanFree
  <1> QED BY <1>1, <1>2, <1>3, KindsAre, PushIs

\* The value of whichever operand is taken is the whole result's.
LEMMA FillNullIs ==
  ASSUME stack \in Seq(Entries), FillNull
  PROVE  PushesWell
  <1> DEFINE l == Operand(2, 1)
             r == Operand(2, 2)
             kind == Supertype(l.kind, r.kind)
             value == IF l.value = Null THEN r.value ELSE l.value
             sql == IF l.sql = Null THEN r.sql ELSE l.sql
             dtype == Claim(2)
  <1>1. Len(stack) >= 2 /\ Alike(l, r) /\ PushValue(kind, value, sql, dtype, FALSE, 2)
    BY DEF FillNull
  <1>2. l \in Entries /\ r \in Entries /\ 2 \in 0..Len(stack)
    BY <1>1, PairIs
  <1>3. /\ kind \in Kinds /\ dtype \in {kind, Unknown}
        /\ \A x : Fits(x, l.kind) \/ Fits(x, r.kind) => Fits(x, kind)
    BY <1>1, <1>2, SupertypeIs DEF Claim
  <1>4. Fits(value, kind)
    BY <1>2, <1>3, EntriesAre
  <1>5. (\A i \in 1..2 : Operand(2, i).sql = Operand(2, i).value) => sql = value
    <2>1. 1 \in 1..2 /\ 2 \in 1..2
      OBVIOUS
    <2> QED BY <2>1
  <1> HIDE DEF kind, value, sql, dtype
  <1> QED BY <1>1, <1>2, <1>3, <1>4, <1>5, PushIs

LEMMA TernaryIs ==
  ASSUME stack \in Seq(Entries), NEW condition, Ternary(condition)
  PROVE  PushesWell
  <1> DEFINE l == Operand(2, 1)
             r == Operand(2, 2)
             t == CoerceLiteral(l, r)
             f == CoerceLiteral(r, l)
             kind == Supertype(l.kind, r.kind)
             value == IF condition = "true" THEN l.value ELSE r.value
             sql == IF condition = "true" THEN l.sql ELSE r.sql
             dtype == IF NullLiteral(f) THEN t.dtype ELSE f.dtype
  <1>1. /\ Len(stack) >= 2 /\ Alike(l, r)
        /\ NullLiteral(f) \/ NullLiteral(t) \/ t.dtype = f.dtype
        /\ PushValue(Supertype(t.kind, f.kind), IF condition = "true" THEN t.value ELSE f.value,
                IF condition = "true" THEN t.sql ELSE f.sql, dtype, FALSE, 2)
    BY DEF Ternary
  <1>2. l \in Entries /\ r \in Entries /\ 2 \in 0..Len(stack)
    BY <1>1, PairIs
  <1>3. ASSUME NEW v \in Entries, NEW other
        PROVE  LET c == CoerceLiteral(v, other)
               IN  /\ c.kind = v.kind /\ c.value = v.value /\ c.sql = v.sql /\ c.literal = v.literal
                   /\ c.dtype = IF v.literal /\ ~other.literal /\ v.dtype = "Integer" /\ Floating(other)
                                THEN "Float" ELSE v.dtype
    BY DEF CoerceLiteral, Entries
  <1>4. /\ t.kind = l.kind /\ t.value = l.value /\ t.sql = l.sql /\ t.literal = l.literal
        /\ f.kind = r.kind /\ f.value = r.value /\ f.sql = r.sql /\ f.literal = r.literal
        /\ t.dtype = IF l.literal /\ ~r.literal /\ l.dtype = "Integer" /\ r.dtype = "Float"
                     THEN "Float" ELSE l.dtype
        /\ f.dtype = IF r.literal /\ ~l.literal /\ r.dtype = "Integer" /\ l.dtype = "Float"
                     THEN "Float" ELSE r.dtype
    BY <1>2, <1>3 DEF Floating
  <1>5. /\ kind \in Kinds
        /\ \A x : Fits(x, l.kind) \/ Fits(x, r.kind) => Fits(x, kind)
    BY <1>1, <1>2, SupertypeIs
  <1> HIDE DEF t, f
  <1>6. PushValue(kind, value, sql, dtype, FALSE, 2)
    BY <1>1, <1>4
  <1>7. dtype \in {kind, Unknown}
    <2>1. /\ l.dtype \in {l.kind, Unknown} /\ r.dtype \in {r.kind, Unknown}
          /\ l.literal => l.dtype = l.kind /\ l.dtype # Unknown /\ (l.sql = Null <=> l.kind = "Null")
          /\ r.literal => r.dtype = r.kind /\ r.dtype # Unknown /\ (r.sql = Null <=> r.kind = "Null")
      BY <1>2, EntriesAre
    <2>2. Unknown \notin {"Float", "Integer", "Null"}
      BY KindsAre, ConstantsDiffer
    <2>3. CASE NullLiteral(f)
      <3>1. r.kind = "Null" /\ r.dtype = "Null" /\ dtype = t.dtype
        BY <1>4, <2>1, <2>3 DEF NullLiteral
      <3>2. dtype = l.dtype /\ kind = l.kind
        BY <1>4, <3>1 DEF Supertype
      <3> QED BY <2>1, <3>2
    <2>4. CASE ~NullLiteral(f) /\ NullLiteral(t)
      <3>1. l.kind = "Null" /\ l.dtype = "Null" /\ dtype = f.dtype
        BY <1>4, <2>1, <2>4 DEF NullLiteral
      <3>2. dtype = r.dtype /\ kind = r.kind
        BY <1>4, <3>1 DEF Supertype
      <3> QED BY <2>1, <3>2
    <2>5. CASE ~NullLiteral(f) /\ t.dtype = f.dtype
      <3>1. dtype = f.dtype /\ dtype = t.dtype
        BY <2>5
      <3>2. CASE t.dtype = l.dtype /\ f.dtype = r.dtype
        BY <2>1, <3>1, <3>2 DEF Supertype
      <3>3. CASE t.dtype # l.dtype
        <4>1. dtype = "Float" /\ l.kind = "Integer" /\ r.kind = "Float"
          BY <1>4, <2>1, <2>2, <3>1, <3>3
        <4> QED BY <4>1 DEF Supertype
      <3>4. CASE f.dtype # r.dtype
        <4>1. dtype = "Float" /\ r.kind = "Integer" /\ l.kind = "Float"
          BY <1>4, <2>1, <2>2, <3>1, <3>4
        <4> QED BY <4>1 DEF Supertype
      <3> QED BY <3>2, <3>3, <3>4
    <2> QED BY <1>1, <2>3, <2>4, <2>5
  <1>8. Fits(value, kind)
    BY <1>2, <1>5, EntriesAre
  <1>9. (\A i \in 1..2 : Operand(2, i).sql = Operand(2, i).value) => sql = value
    <2>1. 1 \in 1..2 /\ 2 \in 1..2
      OBVIOUS
    <2> QED BY <2>1
  <1> HIDE DEF kind, value, sql, dtype
  <1> QED BY <1>2, <1>5, <1>6, <1>7, <1>8, <1>9, PushIs

\* Only a string turns into a NaN that was none.
LEMMA ConvertIs ==
  ASSUME NEW j \in Kinds, NEW k \in Kinds \ {"Null"},
         NEW x \in Of(j), Converts(x, j, k)
  PROVE  Convert(x, j, k) \in Of(k) /\ (x # NoNumber /\ j # "String" => Convert(x, j, k) # NoNumber)
  <1>1. CASE j = k
    BY <1>1 DEF Convert
  <1>2. CASE j # k /\ j = "String"
    <2>1. x \in Texts /\ x # Garbled /\ k \in Numeric /\ (k = "Integer" => x # Text(NoNumber))
      BY <1>2, KindsAre DEF Converts, Numeric
    <2>2. x[1] \in Of(k)
      BY <2>1, TextsAre, KindsAre DEF Numeric
    <2> QED BY <1>2, <2>2 DEF Convert
  <1>3. CASE j # "String" /\ k = "String"
    <2>1. j = "Boolean" \/ x \in Signs \cup {NoNumber}
      BY <1>3, KindsAre
    <2>2. Convert(x, j, k) = IF j = "Boolean" THEN Garbled ELSE Text(x)
      BY <1>3 DEF Convert
    <2>3. Convert(x, j, k) \in Texts
      BY <2>1, <2>2, TextsAre
    <2> QED BY <1>3, <2>3, KindsAre, ConstantsDiffer
  <1>4. CASE j # k /\ j # "String" /\ k # "String"
    <2>1. x \in Signs \cup {NoNumber} /\ j \in {"Float", "Integer", "Boolean"}
      BY <1>4, KindsAre
    <2>2. CASE k = "Boolean"
      <3>1. Convert(x, j, k) \in {0, 1}
        BY <1>4, <2>2 DEF Convert
      <3> QED BY <2>2, <3>1, KindsAre, ConstantsDiffer
    <2>3. CASE k \in Numeric
      <3>1. Convert(x, j, k) = x
        BY <1>4, <2>3 DEF Convert, Numeric
      <3>2. k = "Integer" => x # NoNumber
        BY DEF Converts
      <3> QED BY <2>1, <2>3, <3>1, <3>2, KindsAre DEF Numeric
    <2> QED BY <1>4, <2>2, <2>3, KindsAre DEF Numeric
  <1> QED BY <1>1, <1>2, <1>3, <1>4

LEMMA CastIs ==
  ASSUME stack \in Seq(Entries), NEW target \in Kinds, NEW strict \in BOOLEAN,
         Cast(target, strict)
  PROVE  PushesWell
  <1> DEFINE x == Top.value
             converts == x = Null \/ Converts(x, Top.kind, target)
             converted == IF x = Null \/ ~converts THEN Null ELSE Convert(x, Top.kind, target)
             nanFree == CastNanFree(Top, target)
  <1>1. /\ stack # <<>> /\ target # "Null"
        /\ ~strict => TryCastExact(target, Top.dtype)
    BY DEF Cast
  <1>2. PICK sql \in SqlConversions(Top, target, strict, converted) :
          PushValue(target, converted, sql, target, nanFree, 1)
    BY DEF Cast
  <1>3. Top \in Entries /\ 1 \in 0..Len(stack)
    BY <1>1, TopIs
  <1>4. Top.kind \in Kinds /\ Fits(x, Top.kind) /\ nanFree \in BOOLEAN
    BY <1>3, EntriesAre DEF CastNanFree
  <1>5. Fits(converted, target) /\ (nanFree => converted # NoNumber)
    <2>1. CASE converted = Null
      BY <2>1, ConstantsDiffer DEF Fits
    <2>2. CASE converted # Null
      <3>1. /\ converted = Convert(x, Top.kind, target) /\ x \in Of(Top.kind)
            /\ Converts(x, Top.kind, target)
        BY <1>4, <2>2 DEF Fits
      <3>2. converted \in Of(target)
            /\ (x # NoNumber /\ Top.kind # "String" => converted # NoNumber)
        BY <1>1, <1>4, <3>1, ConvertIs
      <3>3. nanFree => Top.kind # "String" /\ x # NoNumber
        BY <1>3, EntriesAre DEF CastNanFree
      <3> QED BY <3>2, <3>3 DEF Fits
    <2> QED BY <2>1, <2>2
  <1>6. sql \in {converted, Respelt}
    <2>1. CASE strict
      BY <1>2, <2>1 DEF SqlConversions
    <2>2. CASE ~(Top.kind = "Float" /\ target = "String")
      BY <1>2, <2>2 DEF SqlConversions
    <2>3. CASE ~strict /\ Top.kind = "Float" /\ target = "String"
      <3>1. TryCastExact("String", Top.dtype)
        BY <1>1, <2>3
      <3>2. Top.dtype \in {"Float", Unknown}
        BY <1>3, <2>3, EntriesAre
      <3>3. Unknown \notin {"Integer", "Boolean", "String"}
        BY KindsAre, ConstantsDiffer
      <3> QED BY <3>1, <3>2, <3>3 DEF TryCastExact, Numeric
    <2> QED BY <2>1, <2>2, <2>3
  <1> HIDE DEF nanFree, converted
  <1> QED BY <1>2, <1>3, <1>4, <1>5, <1>6, PushIs

LEMMA PolarsExtremeIs ==
  ASSUME NEW S, S \subseteq Signs \cup {Null, NoNumber}, NEW fn
  PROVE  IF S \ {Null, NoNumber} # {} THEN PolarsExtreme(fn, S) \in S \ {Null, NoNumber}
         ELSE PolarsExtreme(fn, S) = IF NoNumber \in S THEN NoNumber ELSE Null
  <1> DEFINE numbers == S \ {Null, NoNumber}
  <1>1. CASE numbers # {}
    <2>1. numbers \subseteq {-1, 0, 1}
      BY KindsAre
    <2> HIDE DEF numbers
    <2>2. \E x \in numbers : \A y \in numbers : x <= y
      <3>1. CASE -1 \in numbers
        BY <2>1, <3>1
      <3>2. CASE -1 \notin numbers /\ 0 \in numbers
        BY <2>1, <3>2
      <3>3. CASE -1 \notin numbers /\ 0 \notin numbers
        <4>1. 1 \in numbers /\ \A y \in numbers : y = 1
          BY <1>1, <2>1, <3>3
        <4> QED BY <4>1
      <3> QED BY <3>1, <3>2, <3>3
    <2>3. \E x \in numbers : \A y \in numbers : x >= y
      <3>1. CASE 1 \in numbers
        BY <2>1, <3>1
      <3>2. CASE 1 \notin numbers /\ 0 \in numbers
        BY <2>1, <3>2
      <3>3. CASE 1 \notin numbers /\ 0 \notin numbers
        <4>1. -1 \in numbers /\ \A y \in numbers : y = -1
          BY <1>1, <2>1, <3>3
        <4> QED BY <4>1
      <3> QED BY <3>1, <3>2, <3>3
    <2>4. Min(numbers) \in numbers
      BY <2>2 DEF Min
    <2>5. Max(numbers) \in numbers
      BY <2>3 DEF Max
    <2>6. PolarsExtreme(fn, S) = IF fn = "Min" THEN Min(numbers) ELSE Max(numbers)
      BY <1>1 DEF PolarsExtreme, numbers
    <2> QED BY <1>1, <2>4, <2>5, <2>6 DEF numbers
  <1>2. CASE numbers = {}
    BY <1>2 DEF PolarsExtreme
  <1> QED BY <1>1, <1>2

\* Nulling out the NaNs leaves Lance the numbers that Polars looks at.
LEMMA LowerExtremeIs ==
  ASSUME NEW args \in SUBSET Entries, NEW fn,
         \A v \in args : v.kind \in Numeric \cup {"Null"} /\ ~Untyped(v) /\ v.sql = v.value
  PROVE  LowerExtreme(fn, args) = PolarsExtreme(fn, {v.value : v \in args})
  <1> DEFINE S == {v.value : v \in args}
             nans == {v.sql : v \in {u \in args : CouldBeNan(u)}}
             rendered == {IF CouldBeNan(v) /\ v.sql = NoNumber THEN Null ELSE v.sql : v \in args}
  <1>1. \A v \in args :
           /\ v.sql = v.value
           /\ v.value \in Signs \cup {Null, NoNumber}
           /\ v.value = NoNumber => CouldBeNan(v)
    <2> SUFFICES ASSUME NEW v \in args
                 PROVE  /\ v.sql = v.value
                        /\ v.value \in Signs \cup {Null, NoNumber}
                        /\ v.value = NoNumber => CouldBeNan(v)
      OBVIOUS
    <2>1. v \in Entries /\ v.kind \in Numeric \cup {"Null"} /\ ~Untyped(v)
      OBVIOUS
    <2>2. /\ v.sql = v.value /\ Fits(v.value, v.kind)
          /\ v.dtype \in {v.kind, Unknown} /\ v.dtype # Unknown
          /\ v.nanFree => v.value # NoNumber
      BY <2>1, EntriesAre DEF Untyped
    <2>3. v.value \in Signs \cup {Null, NoNumber}
      BY <2>1, <2>2, KindsAre DEF Fits, Numeric
    <2>4. v.value = NoNumber => v.kind = "Float"
      BY <2>1, <2>2, KindsAre, ConstantsDiffer DEF Fits, Numeric
    <2>5. v.value = NoNumber => CouldBeNan(v)
      BY <2>2, <2>4 DEF CouldBeNan, Floating
    <2> QED BY <2>2, <2>3, <2>5
  <1>2. S \subseteq Signs \cup {Null, NoNumber}
    BY <1>1
  <1>3. rendered = {IF v.value = NoNumber THEN Null ELSE v.value : v \in args}
    BY <1>1
  <1>4. \A x : x # Null => (x \in rendered <=> x \in S /\ x # NoNumber)
    BY <1>3, ConstantsDiffer
  <1>5. \A x : x \in nans => x \in S
    BY <1>1
  <1>6. NoNumber \in S => NoNumber \in nans
    BY <1>1
  <1>7. LowerExtreme(fn, args) = Coalesce(nans, SqlExtreme(fn, rendered))
    BY DEF LowerExtreme
  <1> HIDE DEF S, nans, rendered
  <1>8. NoNumber \notin rendered /\ rendered \ {Null, NoNumber} = S \ {Null, NoNumber}
        /\ rendered \subseteq Signs \cup {Null, NoNumber}
    BY <1>2, <1>4, ConstantsDiffer
  <1>9. SqlExtreme(fn, rendered) = PolarsExtreme(fn, rendered)
    BY <1>8 DEF SqlExtreme
  <1>10. CASE S \ {Null, NoNumber} # {}
    <2>1. PolarsExtreme(fn, rendered) = PolarsExtreme(fn, S)
      BY <1>8, <1>10 DEF PolarsExtreme
    <2>2. PolarsExtreme(fn, S) # Null
      BY <1>2, <1>10, PolarsExtremeIs
    <2> QED BY <1>7, <1>9, <2>1, <2>2 DEF Coalesce, S
  <1>11. CASE S \ {Null, NoNumber} = {}
    <2>1. PolarsExtreme(fn, rendered) = Null
      BY <1>8, <1>11 DEF PolarsExtreme
    <2>2. PolarsExtreme(fn, S) = IF NoNumber \in S THEN NoNumber ELSE Null
      BY <1>11 DEF PolarsExtreme
    <2>3. nans \ {Null} = IF NoNumber \in S THEN {NoNumber} ELSE {}
      BY <1>5, <1>6, <1>11, ConstantsDiffer
    <2>4. NoNumber \in S => (CHOOSE y \in nans : y # Null) = NoNumber
      <3> SUFFICES ASSUME NoNumber \in S PROVE (CHOOSE y \in nans : y # Null) = NoNumber
        OBVIOUS
      <3>1. NoNumber \in nans /\ NoNumber # Null /\ \A y \in nans : y # Null => y = NoNumber
        BY <1>6, <2>3, ConstantsDiffer
      <3> QED BY <3>1
    <2> QED BY <1>7, <1>9, <2>1, <2>2, <2>3, <2>4 DEF Coalesce, S
  <1> QED BY <1>10, <1>11

LEMMA ExtremeIs ==
  ASSUME stack \in Seq(Entries), NEW fn, NEW n \in 2..MaxStack, Extreme(fn, n)
  PROVE  PushesWell
  <1> DEFINE args == {Operand(n, i) : i \in 1..n}
             kind == IF \E v \in args : v.kind = "Float" THEN "Float" ELSE "Integer"
             dtypes == {v.dtype : v \in args}
             dtype == IF "Float" \in dtypes THEN "Float"
                      ELSE IF dtypes = {"Integer"} THEN "Integer" ELSE Unknown
             S == {v.value : v \in args}
             value == PolarsExtreme(fn, S)
             sql == LowerExtreme(fn, args)
             nanFree == \A v \in args : ~CouldBeNan(v)
  <1>1. /\ Len(stack) >= n /\ n \in Nat /\ n \in 0..Len(stack)
        /\ \A i \in 1..n : Operand(n, i).kind \in Numeric \cup {"Null"}
        /\ \E i \in 1..n : Operand(n, i).kind \in Numeric
    <2>1. n \in Nat /\ Len(stack) \in Nat
      BY ConstantsDiffer
    <2> QED BY <2>1 DEF Extreme, NumbersOrNull
  <1>2. /\ \A v \in args : ~Untyped(v)
        /\ PushValue(kind, value, sql, dtype, nanFree, n)
    BY DEF Extreme
  <1>3. args \in SUBSET Entries /\ \A v \in args : v.kind \in Numeric \cup {"Null"}
    BY <1>1, OperandsAre
  <1>4. (\A i \in 1..n : Operand(n, i).sql = Operand(n, i).value) => sql = value
    <2> SUFFICES ASSUME \A i \in 1..n : Operand(n, i).sql = Operand(n, i).value
                 PROVE  sql = value
      OBVIOUS
    <2>1. \A v \in args : v.sql = v.value
      OBVIOUS
    <2> HIDE DEF args
    <2> QED BY <1>2, <1>3, <2>1, LowerExtremeIs
  <1> HIDE DEF args, sql
  <1>5. \A v \in args : /\ v.dtype = v.kind /\ Fits(v.value, v.kind)
                        /\ v.nanFree => v.value # NoNumber
    <2> SUFFICES ASSUME NEW v \in args
                 PROVE  /\ v.dtype = v.kind /\ Fits(v.value, v.kind)
                        /\ v.nanFree => v.value # NoNumber
      OBVIOUS
    <2>1. v \in Entries /\ ~Untyped(v)
      BY <1>2, <1>3
    <2>2. v.dtype # Unknown
      BY <2>1, EntriesAre DEF Untyped
    <2> QED BY <2>1, <2>2, EntriesAre
  <1>6. dtype \in {kind, Unknown}
    BY <1>5, ConstantsDiffer
  <1>7. S \subseteq Signs \cup {Null, NoNumber} /\ (NoNumber \in S => kind = "Float" /\ ~nanFree)
    <2>1. \A v \in args :
             /\ v.value \in Signs \cup {Null, NoNumber}
             /\ v.value = NoNumber => v.kind = "Float" /\ CouldBeNan(v)
      <3> SUFFICES ASSUME NEW v \in args
                   PROVE  /\ v.value \in Signs \cup {Null, NoNumber}
                          /\ v.value = NoNumber => v.kind = "Float" /\ CouldBeNan(v)
        OBVIOUS
      <3>1. /\ v.dtype = v.kind /\ Fits(v.value, v.kind) /\ v.kind \in Numeric \cup {"Null"}
            /\ v.nanFree => v.value # NoNumber /\ v.kind \in Kinds
        BY <1>3, <1>5, KindsAre DEF Numeric
      <3>2. v.value \in Signs \cup {Null, NoNumber}
        BY <3>1, KindsAre DEF Fits, Numeric
      <3>3. v.value = NoNumber => v.kind = "Float"
        BY <3>1, KindsAre, ConstantsDiffer DEF Fits, Numeric
      <3>4. v.value = NoNumber => ~v.nanFree
        BY <3>1
      <3> QED BY <3>1, <3>2, <3>3, <3>4 DEF CouldBeNan, Floating
    <2> QED BY <2>1
  <1> HIDE DEF S, nanFree, kind, dtype
  <1>8. value \in Signs \cup {Null, NoNumber} /\ (value = NoNumber => NoNumber \in S)
    BY <1>7, PolarsExtremeIs, ConstantsDiffer
  <1>9. kind \in {"Float", "Integer"} /\ nanFree \in BOOLEAN
    BY DEF kind, nanFree
  <1>10. Fits(value, kind) /\ (nanFree => value # NoNumber)
    BY <1>7, <1>8, <1>9, KindsAre DEF Fits
  <1> HIDE DEF value
  <1>11. kind \in Kinds /\ kind # "String"
    BY <1>9, KindsAre
  <1> QED BY <1>1, <1>2, <1>4, <1>6, <1>9, <1>10, <1>11, PushIs

-----------------------------------------------------------------------------
(* Every step.                                                             *)

LEMMA NextIs ==
  ASSUME stack \in Seq(Entries), ValuesNext
  PROVE  PushesWell
  <1>1. CASE \E kind \in Kinds, known \in BOOLEAN : \E value \in Of(kind) \cup {Null} :
               kind # "Null" /\ Column(kind, value, known)
    BY <1>1, ColumnIs
  <1>2. CASE \E kind \in Kinds : \E value \in Of(kind) \cup {Null} :
               (value = Null <=> kind = "Null") /\ LiteralValue(kind, value)
    BY <1>2, LiteralIs
  <1>3. CASE \E target \in Kinds, strict \in BOOLEAN : Cast(target, strict)
    BY <1>3, CastIs
  <1>4. CASE Concatenate
    BY <1>4, ConcatenateIs
  <1>5. CASE Arithmetic
    BY <1>5, ArithmeticIs
  <1>6. CASE TrueDivide
    BY <1>6, TrueDivideIs
  <1>7. CASE FloatFloor
    BY <1>7, FloatFloorIs
  <1>8. CASE \E name \in {"Abs", "Negate"} : Signed(name)
    BY <1>8, SignedIs
  <1>9. CASE Rounded
    BY <1>9, RoundedIs
  <1>10. CASE FillNull
    BY <1>10, FillNullIs
  <1>11. CASE \E fn \in {"Min", "Max"}, n \in 2..MaxStack : Extreme(fn, n)
    BY <1>11, ExtremeIs
  <1>12. CASE Power
    BY <1>12, PowerIs
  <1>13. CASE \E name \in {"Sqrt", "Cbrt", "Log"} : RootOrLog(name)
    BY <1>13, RootOrLogIs
  <1>14. CASE \E condition \in {"true", "false", "null"} : Ternary(condition)
    BY <1>14, TernaryIs
  <1>15. CASE AsDouble
    BY <1>15, AsDoubleIs
  <1> QED BY <1>1, <1>2, <1>3, <1>4, <1>5, <1>6, <1>7, <1>8, <1>9, <1>10, <1>11,
             <1>12, <1>13, <1>14, <1>15 DEF ValuesNext

EntriesFit == stack \in Seq(Entries)

LEMMA NextFits ==
  ASSUME stack \in Seq(Entries), [ValuesNext]_valueVars
  PROVE  stack' \in Seq(Entries)
  <1>1. CASE UNCHANGED valueVars
    BY <1>1 DEF valueVars
  <1>2. CASE ValuesNext
    <2>1. PICK n \in 0..Len(stack), w \in Entries : stack' = Append(Below(n), w)
      BY <1>2, NextIs DEF PushesWell
    <2>2. Below(n) \in Seq(Entries)
      BY OperandsAre
    <2> QED BY <2>1, <2>2
  <1> QED BY <1>1, <1>2

-----------------------------------------------------------------------------

\* What `value` thinks the type of a value is is the type Polars computes in,
\* in expressions of any depth (_Value.dtype: "The Polars type, where the schema
\* or the expression settles it").
THEOREM TypesAreKnown == ValuesSpec => []KnowledgeOfTypes
  <1>1. ValuesInit => EntriesFit
    BY DEF ValuesInit, EntriesFit
  <1>2. EntriesFit /\ [ValuesNext]_valueVars => EntriesFit'
    BY NextFits DEF EntriesFit
  <1>3. EntriesFit => KnowledgeOfTypes
    <2> SUFFICES ASSUME stack \in Seq(Entries), NEW i \in 1..Len(stack)
                 PROVE  stack[i].dtype \in {stack[i].kind, Unknown}
      BY DEF KnowledgeOfTypes, EntriesFit
    <2>1. stack[i] \in Entries
      OBVIOUS
    <2> QED BY <2>1, EntriesAre
  <1> QED BY <1>1, <1>2, <1>3, PTL DEF ValuesSpec

\* What is taken to hold no NaN holds none, though strings parse to NaNs, roots and
\* divisions make them, and types are often unknown (_Value.cannot_be_nan).
THEOREM NansAreKnown == ValuesSpec => []KnowledgeOfNans
  <1>1. ValuesInit => EntriesFit
    BY DEF ValuesInit, EntriesFit
  <1>2. EntriesFit /\ [ValuesNext]_valueVars => EntriesFit'
    BY NextFits DEF EntriesFit
  <1>3. EntriesFit => KnowledgeOfNans
    <2> SUFFICES ASSUME stack \in Seq(Entries), NEW i \in 1..Len(stack)
                 PROVE  stack[i].nanFree => stack[i].value # NoNumber
      BY DEF KnowledgeOfNans, EntriesFit
    <2>1. stack[i] \in Entries
      OBVIOUS
    <2> QED BY <2>1, EntriesAre
  <1> QED BY <1>1, <1>2, <1>3, PTL DEF ValuesSpec

\* The SQL of a value has the value that Polars computes, least and greatest and
\* their NaNs included, but for one that a strict cast of a float to text has gone
\* into: a cast that is not strict is left alone unless its type is known to convert
\* alike (_try_cast_exact).
THEOREM ValuesAreExact == ValuesSpec => []ValueIsExact
  <1>1. ValuesInit => EntriesFit
    BY DEF ValuesInit, EntriesFit
  <1>2. EntriesFit /\ [ValuesNext]_valueVars => EntriesFit'
    BY NextFits DEF EntriesFit
  <1>3. EntriesFit => ValueIsExact
    <2> SUFFICES ASSUME stack \in Seq(Entries), NEW i \in 1..Len(stack)
                 PROVE  stack[i].sql \in {stack[i].value, Respelt}
      BY DEF ValueIsExact, EntriesFit
    <2>1. stack[i] \in Entries
      OBVIOUS
    <2> QED BY <2>1 DEF Entries, Known
  <1> QED BY <1>1, <1>2, <1>3, PTL DEF ValuesSpec

-----------------------------------------------------------------------------
(* The functions.                                                          *)

Calls ==
  Slices \cup Replaces \cup Concats \cup Gets \cup Contained \cup WeekDays \cup Truncates

LEMMA NamedCalls ==
  ASSUME NEW c \in Calls
  PROVE  /\ c.name = "Slice" => c \in Slices
         /\ c.name = "Replace" => c \in Replaces
         /\ c.name = "Concat" => c \in Concats
         /\ c.name = "Get" => c \in Gets
         /\ c.name = "Contains" => c \in Contained
         /\ c.name = "WeekDay" => c \in WeekDays
         /\ c.name = "Truncate" => c \in Truncates
  <1>1. /\ \A d \in Slices : d.name = "Slice"
        /\ \A d \in Replaces : d.name = "Replace"
        /\ \A d \in Concats : d.name = "Concat"
        /\ \A d \in Gets : d.name = "Get"
        /\ \A d \in Contained : d.name = "Contains"
        /\ \A d \in WeekDays : d.name = "WeekDay"
        /\ \A d \in Truncates : d.name = "Truncate"
    BY DEF Slices, Replaces, Concats, Gets, Contained, WeekDays, Truncates
  <1> QED BY <1>1 DEF Calls

LEMMA BoundedAreSequences ==
  ASSUME NEW S, NEW n \in Nat, NEW s \in BoundedSeq(S, n)
  PROVE  s \in Seq(S) /\ Len(s) \in Nat
  <1>1. PICK m \in 0..n : s \in [1..m -> S]
    BY DEF BoundedSeq, SeqOf
  <1>2. m \in Nat
    OBVIOUS
  <1>3. s \in Seq(S)
    BY <1>1, <1>2
  <1> QED BY <1>3

\* Counting from 1 and a length of what remains give the window of Polars.
LEMMA SliceIsExact ==
  ASSUME NEW c \in Slices
  PROVE  Slice(c.s, c.offset, c.length, c.integer)
           \in {Declined, IF c.offset = Null THEN Raised ELSE PolarsSlice(c.s, c.offset, c.length)}
  <1> DEFINE s == c.s
             offset == c.offset
             length == c.length
  <1>1. (offset = Null \/ offset \in Int) /\ s \in Strings \cup {Null}
        /\ (length = Null \/ length \in Int)
    BY FunctionsAssumption DEF Slices, Offsets
  <1> HIDE DEF s, offset, length
  <1>2. CASE ~c.integer \/ offset = Null
    BY <1>2 DEF Slice, s, offset, length
  <1>3. CASE c.integer /\ offset # Null /\ s = Null
    BY <1>3 DEF Slice, PolarsSlice, s, offset, length
  <1>4. CASE c.integer /\ offset # Null /\ s # Null
    <2>1. Len(s) \in Nat
      BY <1>1, <1>4, BoundedAreSequences, FunctionsAssumption DEF Strings
    <2> DEFINE start == IF offset < 0 THEN Len(s) + offset ELSE offset
               from == IF offset < 0 THEN Len(s) + offset + 1 ELSE offset + 1
               end == IF length = Null THEN Len(s) ELSE start + length
               last == IF length = Null THEN Len(s) ELSE from + length - 1
    <2>2. from = start + 1 /\ last = end
      BY <1>1, <1>4, <2>1
    <2>3. Slice(s, offset, length, c.integer) = Window(s, from, last)
      BY <1>1, <1>4 DEF Slice, SqlSubstr
    <2>4. PolarsSlice(s, offset, length) = Window(s, start + 1, end)
      BY <1>1, <1>4 DEF PolarsSlice
    <2> HIDE DEF start, from, end, last
    <2>5. Slice(s, offset, length, c.integer) = PolarsSlice(s, offset, length)
      BY <2>2, <2>3, <2>4
    <2> QED BY <1>4, <2>5 DEF s, offset, length
  <1> QED BY <1>2, <1>3, <1>4

LEMMA ReplaceIsExact ==
  ASSUME NEW c \in Replaces
  PROVE  Replace(c.s, c.pattern, c.literal, c.every, c.r)
           \in {Declined, PolarsReplace(c.s, c.pattern, c.literal, c.every, c.r)}
  <1>1. c.literal \in BOOLEAN /\ c.every \in BOOLEAN
    BY DEF Replaces
  <1> QED BY <1>1 DEF Replace, SqlReplace, SqlRegexpReplace, PolarsReplace, Matches

LEMMA JoinedByNothing ==
  ASSUME NEW parts \in Seq(Seq(Letters))
  PROVE  Joined(parts, <<>>) = FlattenSeq(parts)
  <1>1. \A i \in 1..Len(parts) : parts[i] \in Seq(Letters)
    OBVIOUS
  <1>2. \A i \in 1..Len(parts) : <<>> \o parts[i] = parts[i]
    BY <1>1, ConcatEmptySeq
  <1>3. \A i \in 1..Len(parts) : (IF i = 1 THEN <<>> ELSE <<>>) \o parts[i] = parts[i]
    BY <1>2
  <1> DEFINE joint == [i \in 1..Len(parts) |-> (IF i = 1 THEN <<>> ELSE <<>>) \o parts[i]]
  <1>4. joint = [i \in 1..Len(parts) |-> parts[i]]
    BY <1>3
  <1>5. joint = parts
    BY <1>4
  <1>6. Joined(parts, <<>>) = FlattenSeq(joint)
    BY DEF Joined
  <1> HIDE DEF joint
  <1> QED BY <1>5, <1>6

LEMMA NonNullsAre ==
  ASSUME NEW parts \in Seq(Seq(Letters) \cup {Null})
  PROVE  /\ NonNulls(parts) \in Seq(Seq(Letters))
         /\ Null \notin ToSet(parts) => NonNulls(parts) = parts
  <1> DEFINE K == ToSet(parts) \ {Null}
             t == NonNulls(parts)
  <1>1. /\ t \in Seq(Seq(Letters) \cup {Null})
        /\ \A x : Occurs(x, t) <=> Occurs(x, parts) /\ x \in K
    BY SelectedIs DEF NonNulls
  <1> HIDE DEF t
  <1>2. \A i \in 1..Len(t) : t[i] # Null /\ t[i] \in Seq(Letters) \cup {Null}
    <2>1. \A i \in 1..Len(t) : t[i] \in Seq(Letters) \cup {Null}
      <3> DEFINE S == Seq(Letters) \cup {Null}
      <3>1. t \in Seq(S)
        BY <1>1
      <3> HIDE DEF S
      <3>2. \A i \in 1..Len(t) : t[i] \in S
        BY <3>1
      <3> QED BY <3>2 DEF S
    <2>2. \A i \in 1..Len(t) : Occurs(t[i], t)
      BY Zenon DEF Occurs
    <2>3. \A i \in 1..Len(t) : t[i] \in K
      BY <1>1, <2>2, Zenon
    <2> QED BY <2>1, <2>3
  <1>3. t \in Seq(Seq(Letters))
    <2>1. Len(t) \in Nat /\ t = [i \in 1..Len(t) |-> t[i]]
      BY <1>1
    <2>2. \A i \in 1..Len(t) : t[i] \in Seq(Letters)
      BY <1>2
    <2>3. t \in [1..Len(t) -> Seq(Letters)]
      BY <2>1, <2>2
    <2> QED BY <2>1, <2>3
  <1>4. ASSUME Null \notin ToSet(parts)
        PROVE  t = parts
    <2>1. parts \in Seq(ToSet(parts))
      <3>1. Len(parts) \in Nat /\ DOMAIN parts = 1..Len(parts)
        OBVIOUS
      <3>2. \A i \in 1..Len(parts) : parts[i] \in ToSet(parts)
        BY <3>1 DEF ToSet
      <3>3. parts = [i \in 1..Len(parts) |-> parts[i]]
        OBVIOUS
      <3>4. parts \in [1..Len(parts) -> ToSet(parts)]
        BY <3>2, <3>3
      <3> QED BY <3>1, <3>4
    <2>2. ToSet(parts) \subseteq K
      BY <1>4
    <2> HIDE DEF K
    <2>3. Selected(parts, K) = parts
      BY <2>1, <2>2, SelectedAll
    <2> QED BY <2>3 DEF t, NonNulls, K
  <1> QED BY <1>3, <1>4 DEF t

LEMMA ConcatIsExact ==
  ASSUME NEW c \in Concats
  PROVE  Concat(c.parts, c.delimiter, c.ignoreNulls)
           \in {Declined, PolarsConcat(c.parts, c.delimiter, c.ignoreNulls)}
  <1> DEFINE parts == c.parts
             delimiter == c.delimiter
             ignoreNulls == c.ignoreNulls
  <1>1. parts \in Seq(Seq(Letters) \cup {Null}) /\ ignoreNulls \in BOOLEAN
    <2>1. parts \in [1..3 -> BoundedSeq(Letters, 1) \cup {Null}] /\ ignoreNulls \in BOOLEAN
      BY DEF Concats, TupleOf
    <2>2. BoundedSeq(Letters, 1) \subseteq Seq(Letters)
      BY BoundedAreSequences
    <2> DEFINE S == Seq(Letters) \cup {Null}
    <2>3. parts \in [1..3 -> S] /\ 3 \in Nat
      BY <2>1, <2>2
    <2> HIDE DEF S, parts, ignoreNulls
    <2>4. parts \in Seq(S)
      <3>1. \A n \in Nat : [1..n -> S] \subseteq Seq(S)
        OBVIOUS
      <3> QED BY <2>3, <3>1, Zenon
    <2> QED BY <2>1, <2>4 DEF S
  <1> HIDE DEF parts, delimiter, ignoreNulls
  <1>2. NonNulls(parts) \in Seq(Seq(Letters))
        /\ (Null \notin ToSet(parts) => NonNulls(parts) = parts)
    BY <1>1, NonNullsAre
  <1>3. Joined(NonNulls(parts), <<>>) = FlattenSeq(NonNulls(parts))
    <2> DEFINE t == NonNulls(parts)
    <2>1. t \in Seq(Seq(Letters))
      BY <1>2
    <2> HIDE DEF t
    <2>2. Joined(t, <<>>) = FlattenSeq(t)
      BY <2>1, JoinedByNothing
    <2> QED BY <2>2 DEF t
  <1>4. Concat(parts, delimiter, ignoreNulls) \in {Declined, PolarsConcat(parts, delimiter, ignoreNulls)}
    BY <1>1, <1>2, <1>3 DEF Concat, PolarsConcat, SqlConcat, SqlBars, SqlConcatWs
  <1> QED BY <1>4 DEF parts, delimiter, ignoreNulls

LEMMA GetIsExact ==
  ASSUME NEW c \in Gets
  PROVE  ListGet(c.list, c.index, c.nullOnOob) \in {Declined, PolarsGet(c.list, c.index)}
  <1>1. c.list \in Lists \cup {Null} /\ (c.index = Null \/ c.index \in Int)
    BY DEF Gets, Offsets
  <1>2. c.list # Null => Len(c.list) \in Nat
    BY <1>1, BoundedAreSequences, FunctionsAssumption DEF Lists
  <1> DEFINE list == c.list
             index == c.index
             n == Len(list)
             position == IF index >= 0 THEN index + 1 ELSE index
             p == IF position < 0 THEN n + position + 1 ELSE position
             i == IF index < 0 THEN n + index ELSE index
  <1>3. CASE ~c.nullOnOob \/ c.index = Null \/ c.list = Null
    BY <1>3 DEF ListGet, SqlArrayElement, PolarsGet
  <1>4. CASE c.nullOnOob /\ c.index # Null /\ c.list # Null
    <2>1. index \in Int /\ n \in Nat
      BY <1>1, <1>2, <1>4
    <2>2. ListGet(c.list, c.index, c.nullOnOob) = IF p \in 1..n THEN list[p] ELSE Null
      BY <1>4 DEF ListGet, SqlArrayElement
    <2>3. PolarsGet(c.list, c.index) = IF i \in 0 .. n - 1 THEN list[i + 1] ELSE Null
      BY <1>4 DEF PolarsGet
    <2> HIDE DEF n, index, list
    <2>4. p = i + 1 /\ i \in Int
      BY <2>1
    <2> HIDE DEF p, i
    <2>5. p \in 1..n <=> i \in 0 .. n - 1
      BY <2>1, <2>4
    <2> QED BY <2>2, <2>3, <2>4, <2>5
  <1> QED BY <1>3, <1>4

\* Of all numbers only the zeros are equal and not the same.
LEMMA ContainsIsExact ==
  ASSUME NEW c \in Contained, ~NotFoundAlike(c.needle, c.nullsEqual)
  PROVE  ListContains(c.list, c.needle) = PolarsContains(c.list, c.needle.value, c.nullsEqual)
  <1> DEFINE list == c.list
             x == c.needle.value
  <1>1. /\ list \in Lists \cup {Null} /\ x \in Elements \cup {Null} /\ c.needle.literal \in BOOLEAN
        /\ x # Null \/ ~c.nullsEqual
        /\ x \notin Zeros \/ c.needle.literal
    BY DEF Contained, NotFoundAlike
  <1>2. Null \notin Elements /\ Null \notin Zeros
    BY FunctionsAssumption DEF Zeros, Elements
  <1>3. list # Null => \A i \in 1..Len(list) : list[i] \in Elements \cup {Null}
    BY <1>1, BoundedAreSequences, FunctionsAssumption DEF Lists
  <1> HIDE DEF list
  <1>4. ListContains(list, c.needle) = IF x \in Zeros
                                       THEN Disj({SqlArrayHas(list, "-0.0"), SqlArrayHas(list, "0.0")})
                                       ELSE SqlArrayHas(list, x)
    BY <1>1 DEF ListContains
  <1> HIDE DEF x
  <1>5. CASE list = Null \/ x = Null
    <2>1. PolarsContains(list, x, c.nullsEqual) = "null"
      BY <1>1, <1>5 DEF PolarsContains
    <2>2. ListContains(list, c.needle) = "null"
      BY <1>2, <1>4, <1>5 DEF SqlArrayHas, Disj
    <2> QED BY <2>1, <2>2 DEF list, x
  <1>6. CASE list # Null /\ x # Null
    <2> DEFINE has(y) == \E i \in 1..Len(list) : list[i] = y
    <2>1. \A y : y # Null => SqlArrayHas(list, y) = FromBool(has(y))
      BY <1>6 DEF SqlArrayHas
    <2>2. ListContains(list, c.needle) = FromBool(IF x \in Zeros THEN has("-0.0") \/ has("0.0") ELSE has(x))
      <3>1. SqlArrayHas(list, x) = FromBool(has(x))
        BY <1>6, <2>1
      <3>2. /\ SqlArrayHas(list, "-0.0") = FromBool(has("-0.0"))
            /\ SqlArrayHas(list, "0.0") = FromBool(has("0.0"))
        BY <1>2, <2>1 DEF Zeros
      <3> HIDE DEF has
      <3> QED BY <1>4, <3>1, <3>2 DEF Disj, FromBool
    <2>3. PolarsContains(list, x, c.nullsEqual) = FromBool(\E i \in 1..Len(list) : SameFloat(list[i], x))
      BY <1>6 DEF PolarsContains
    <2>4. \A i \in 1..Len(list) :
            SameFloat(list[i], x)
              <=> (IF x \in Zeros THEN list[i] = "-0.0" \/ list[i] = "0.0" ELSE list[i] = x)
      BY <1>1, <1>2, <1>3, <1>6 DEF SameFloat, Zeros
    <2>5. (\E i \in 1..Len(list) : SameFloat(list[i], x))
            <=> (IF x \in Zeros THEN has("-0.0") \/ has("0.0") ELSE has(x))
      BY <2>4
    <2> QED BY <2>2, <2>3, <2>5 DEF FromBool, list, x
  <1> QED BY <1>5, <1>6

\* Of the others SQL finds no more than Polars.
LEMMA ContainsIsSound ==
  ASSUME NEW c \in Contained, NotFoundAlike(c.needle, c.nullsEqual)
  PROVE  LET polars == PolarsContains(c.list, c.needle.value, c.nullsEqual)
         IN  /\ ListContains(c.list, c.needle) = "true" => polars = "true"
             /\ c.list = Null => ListContains(c.list, c.needle) = polars
  <1> DEFINE list == c.list
             x == c.needle.value
  <1>1. x = Null \/ (x # Null /\ ~c.needle.literal)
    BY FunctionsAssumption DEF NotFoundAlike, Zeros, Elements
  <1>2. ListContains(list, c.needle) = SqlArrayHas(list, x)
    BY <1>1, FunctionsAssumption DEF ListContains, Zeros, Elements
  <1> HIDE DEF list, x
  <1>3. CASE list = Null \/ x = Null
    <2>1. ListContains(list, c.needle) = "null"
      BY <1>2, <1>3 DEF SqlArrayHas
    <2>2. list = Null => PolarsContains(list, x, c.nullsEqual) = "null"
      BY DEF PolarsContains
    <2> QED BY <2>1, <2>2 DEF list, x
  <1>4. CASE list # Null /\ x # Null
    <2>1. SqlArrayHas(list, x) = "true" => \E i \in 1..Len(list) : list[i] = x
      BY <1>4 DEF SqlArrayHas, FromBool
    <2>2. (\E i \in 1..Len(list) : list[i] = x) => PolarsContains(list, x, c.nullsEqual) = "true"
      BY <1>4 DEF PolarsContains, SameFloat, FromBool
    <2> QED BY <1>2, <1>4, <2>1, <2>2 DEF list, x
  <1> QED BY <1>3, <1>4

LEMMA DatesAreExact ==
  /\ \A day \in 1..7 : WeekDay(day) = day
  /\ \A month \in Int, every \in DOMAIN Windows :
       Truncate(month, every) \in {Declined, PolarsTruncate(month, every)}
  <1>1. \A day \in 1..7 : WeekDay(day) = day
    BY DEF WeekDay, DayOfWeek
  <1>2. ASSUME NEW month \in Int, NEW every \in DOMAIN Windows
        PROVE  Truncate(month, every) \in {Declined, PolarsTruncate(month, every)}
    <2>1. every \in {"1mo", "2mo", "3mo", "1q", "1y"}
      BY DEF Windows
    <2>2. CASE every = "2mo"
      BY <2>2 DEF Truncate, TruncateUnits
    <2>3. CASE every # "2mo"
      <3>1. TruncateUnits[every] = IF every = "1mo" THEN "month"
                                   ELSE IF every = "1y" THEN "year" ELSE "quarter"
        BY <2>1, <2>3 DEF TruncateUnits
      <3>2. Windows[every] = IF every = "1mo" THEN 1 ELSE IF every = "1y" THEN 12 ELSE 3
        BY <2>1, <2>3 DEF Windows
      <3>3. Truncate(month, every) = SqlDateTrunc(TruncateUnits[every], month)
        BY <2>1, <2>3 DEF Truncate, TruncateUnits
      <3> QED BY <2>1, <2>3, <3>1, <3>2, <3>3 DEF SqlDateTrunc, PolarsTruncate
    <2> QED BY <2>2, <2>3
  <1> QED BY <1>1, <1>2

-----------------------------------------------------------------------------
(* Every call, lowered.                                                    *)

TextsInv == call \in Calls /\ TextIsExact
ElementsInv == call \in Calls /\ ElementIsExact

LEMMA CallsInit == FunctionsInit => call \in Calls /\ ~IsLowered
  BY DEF FunctionsInit, Calls, IsLowered

LEMMA TextsStep ==
  ASSUME call \in Calls, FunctionsNext
  PROVE  TextsInv'
  <1>1. UNCHANGED call
    BY DEF FunctionsNext, LowerText, LowerList, LowerDate, Answer
  <1>2. ASSUME call.name = "Slice"
        PROVE  answer' \in {Declined, IF call.offset = Null THEN Raised
                                      ELSE PolarsSlice(call.s, call.offset, call.length)}
    <2>1. answer' = Slice(call.s, call.offset, call.length, call.integer)
      BY <1>2 DEF FunctionsNext, LowerText, LowerList, LowerDate, Answer
    <2> QED BY <1>2, <2>1, NamedCalls, SliceIsExact
  <1>3. ASSUME call.name = "Replace"
        PROVE  answer' \in {Declined, PolarsReplace(call.s, call.pattern, call.literal,
                                                    call.every, call.r)}
    <2>1. answer' = Replace(call.s, call.pattern, call.literal, call.every, call.r)
      BY <1>3 DEF FunctionsNext, LowerText, LowerList, LowerDate, Answer
    <2> QED BY <1>3, <2>1, NamedCalls, ReplaceIsExact
  <1>4. ASSUME call.name = "Concat"
        PROVE  answer' \in {Declined, PolarsConcat(call.parts, call.delimiter, call.ignoreNulls)}
    <2>1. answer' = Concat(call.parts, call.delimiter, call.ignoreNulls)
      BY <1>4 DEF FunctionsNext, LowerText, LowerList, LowerDate, Answer
    <2> QED BY <1>4, <2>1, NamedCalls, ConcatIsExact
  <1> QED BY <1>1, <1>2, <1>3, <1>4 DEF TextsInv, TextIsExact, IsLowered

LEMMA ElementsStep ==
  ASSUME call \in Calls, FunctionsNext
  PROVE  ElementsInv'
  <1>1. UNCHANGED call
    BY DEF FunctionsNext, LowerText, LowerList, LowerDate, Answer
  <1>2. ASSUME call.name = "Get"
        PROVE  answer' \in {Declined, PolarsGet(call.list, call.index)}
    <2>1. answer' = ListGet(call.list, call.index, call.nullOnOob)
      BY <1>2 DEF FunctionsNext, LowerText, LowerList, LowerDate, Answer
    <2> QED BY <1>2, <2>1, NamedCalls, GetIsExact
  <1>3. ASSUME call.name = "Contains"
        PROVE  LET polars == PolarsContains(call.list, call.needle.value, call.nullsEqual)
               IN  IF NotFoundAlike(call.needle, call.nullsEqual)
                   THEN /\ answer' = "true" => polars = "true"
                        /\ call.list = Null => answer' = polars
                   ELSE answer' = polars
    <2>1. answer' = ListContains(call.list, call.needle)
      BY <1>3 DEF FunctionsNext, LowerText, LowerList, LowerDate, Answer
    <2>2. call \in Contained
      BY <1>3, NamedCalls
    <2>3. CASE NotFoundAlike(call.needle, call.nullsEqual)
      BY <2>1, <2>2, <2>3, ContainsIsSound
    <2>4. CASE ~NotFoundAlike(call.needle, call.nullsEqual)
      BY <2>1, <2>2, <2>4, ContainsIsExact
    <2> QED BY <2>3, <2>4
  <1>4. ASSUME call.name = "WeekDay"
        PROVE  answer' = call.weekday
    <2>1. answer' = WeekDay(call.weekday)
      BY <1>4 DEF FunctionsNext, LowerText, LowerList, LowerDate, Answer
    <2>2. call.weekday \in 1..7
      BY <1>4, NamedCalls DEF WeekDays
    <2> QED BY <2>1, <2>2, DatesAreExact
  <1>5. ASSUME call.name = "Truncate"
        PROVE  answer' \in {Declined, PolarsTruncate(call.month, call.every)}
    <2>1. answer' = Truncate(call.month, call.every)
      BY <1>5 DEF FunctionsNext, LowerText, LowerList, LowerDate, Answer
    <2>2. call.month \in Int /\ call.every \in DOMAIN Windows
      BY <1>5, NamedCalls DEF Truncates
    <2> QED BY <2>1, <2>2, DatesAreExact
  <1> QED BY <1>1, <1>2, <1>3, <1>4, <1>5 DEF ElementsInv, ElementIsExact, IsLowered

\* A function on texts has the value for Lance that it has for Polars, for texts of
\* any length and wherever a null stands, but that a null for an offset raises
\* (_slice, _replace, _concat).
THEOREM TextsAreExact == FunctionsSpec => []TextIsExact
  <1>1. FunctionsInit => TextsInv
    BY CallsInit DEF TextsInv, TextIsExact
  <1>2. TextsInv /\ [FunctionsNext]_functionVars => TextsInv'
    <2>1. ASSUME TextsInv, FunctionsNext PROVE TextsInv'
      BY <2>1, TextsStep DEF TextsInv
    <2>2. ASSUME TextsInv, UNCHANGED functionVars PROVE TextsInv'
      BY <2>2 DEF TextsInv, TextIsExact, IsLowered, functionVars
    <2> QED BY <2>1, <2>2
  <1>3. TextsInv => TextIsExact
    BY DEF TextsInv
  <1> QED BY <1>1, <1>2, <1>3, PTL DEF FunctionsSpec

\* An element is found where Polars finds it, in lists of any length, nulls among
\* them, a literal zero for either zero, and a date has the weekday and the window that
\* it has for Polars; a null, or a zero from a column, is found in no list in which
\* Polars does not find it (_list_get, _contains, _weekday, _truncate).
THEOREM ElementsAreExact == FunctionsSpec => []ElementIsExact
  <1>1. FunctionsInit => ElementsInv
    BY CallsInit DEF ElementsInv, ElementIsExact
  <1>2. ElementsInv /\ [FunctionsNext]_functionVars => ElementsInv'
    <2>1. ASSUME ElementsInv, FunctionsNext PROVE ElementsInv'
      BY <2>1, ElementsStep DEF ElementsInv
    <2>2. ASSUME ElementsInv, UNCHANGED functionVars PROVE ElementsInv'
      BY <2>2 DEF ElementsInv, ElementIsExact, IsLowered, functionVars
    <2> QED BY <2>1, <2>2
  <1>3. ElementsInv => ElementIsExact
    BY DEF ElementsInv
  <1> QED BY <1>1, <1>2, <1>3, PTL DEF FunctionsSpec

-----------------------------------------------------------------------------
(* Lowering with the schema and before it is known.                        *)

TypedValues == [dtype: Type!DTypes \cup {Unknown}, literal: Type!Sorts]

Sides == {"Number", "String", "Boolean", "Null"}

\* The types of the values of a kind.  A when/then of two nulls is one of any kind.
TypesOf(kind) == (IF kind = "Number" THEN Type!Numeric ELSE {kind}) \cup {"Null", Unknown}

\* Without the schema there is the same type, or none, or the wider of the floats.
Agree(typed, later) ==
  later = typed \/ later = Unknown \/ (later = "Float64" /\ typed = "Float32")

Related(kind, t, l) ==
  /\ t \in TypedValues /\ l \in TypedValues
  /\ t.dtype \in TypesOf(kind) /\ l.dtype \in TypesOf(kind)
  /\ t.literal = l.literal
  /\ t.literal # "none" => t = l /\ t.dtype # Unknown
  /\ Agree(t.dtype, l.dtype)

BothWays(kind, t, l) ==
  /\ t \in TypedValues \cup {Declined} /\ l \in TypedValues \cup {Declined}
  /\ t # Declined => l # Declined /\ Related(kind, t, l)

Pairs ==
  {e \in [kind: Sides, typed: TypedValues \cup {Declined}, later: TypedValues \cup {Declined},
          blind: BOOLEAN] :
     ~e.blind => BothWays(e.kind, e.typed, e.later)}

LEMMA TypesAre ==
  /\ Type!Integer = {"Int8", "Int64", "UInt64"}
  /\ Type!Floating = {"Float32", "Float64"}
  /\ Type!Numeric = {"Int8", "Int64", "UInt64", "Float32", "Float64"}
  /\ Type!DTypes = {"Int8", "Int64", "UInt64", "Float32", "Float64", "String", "Boolean", "Null"}
  /\ Unknown \notin Type!DTypes /\ Declined \notin TypedValues
  BY TypesAssumption DEF Type!Integer, Type!Floating, Type!Numeric, Type!DTypes, TypedValues

LEMMA TypedValueIs ==
  ASSUME NEW dtype \in Type!DTypes \cup {Unknown}
  PROVE  /\ Type!Value(dtype) \in TypedValues /\ Type!Value(dtype) # Declined
         /\ Type!Value(dtype).dtype = dtype /\ Type!Value(dtype).literal = "none"
  <1> DEFINE v == [dtype |-> dtype, literal |-> "none"]
  <1>1. Type!Value(dtype) = v
    BY DEF Type!Value
  <1>2. v \in TypedValues
    BY DEF TypedValues, Type!Sorts
  <1>3. v # Declined
    <2> HIDE DEF v
    <2> QED BY <1>2, TypesAre
  <1>4. v.dtype = dtype /\ v.literal = "none"
    OBVIOUS
  <1> HIDE DEF v
  <1> QED BY <1>1, <1>2, <1>3, <1>4

LEMMA FieldsOfTyped ==
  ASSUME NEW v \in TypedValues
  PROVE  v.dtype \in Type!DTypes \cup {Unknown} /\ v.literal \in Type!Sorts /\ v # Declined
  BY TypesAre DEF TypedValues

LEMMA CommonTypeIs ==
  ASSUME NEW a, NEW b
  PROVE  Type!NumericSupertype(a, b) =
           IF a \in {"Float32", "Float64"} \/ b \in {"Float32", "Float64"}
           THEN IF a \in {"Float32", "Int8"} /\ b \in {"Float32", "Int8"} THEN "Float32" ELSE "Float64"
           ELSE IF a \in {"Int8", "Int64", "UInt64"} /\ b \in {"Int8", "Int64", "UInt64"} THEN "Int64"
           ELSE Unknown
  <1>1. {a, b} \cap Type!Floating # {} <=> a \in {"Float32", "Float64"} \/ b \in {"Float32", "Float64"}
    BY TypesAre
  <1>2. {a, b} \subseteq {"Float32", "Int8"} <=> a \in {"Float32", "Int8"} /\ b \in {"Float32", "Int8"}
    OBVIOUS
  <1>3. {a, b} \subseteq Type!Integer
          <=> a \in {"Int8", "Int64", "UInt64"} /\ b \in {"Int8", "Int64", "UInt64"}
    BY TypesAre
  <1> QED BY <1>1, <1>2, <1>3, Zenon DEF Type!NumericSupertype

LEMMA SupertypesAgree ==
  ASSUME NEW a \in TypesOf("Number"), NEW b \in TypesOf("Number"),
         NEW c \in TypesOf("Number"), NEW d \in TypesOf("Number"),
         Agree(a, c), Agree(b, d)
  PROVE  /\ Agree(Type!NumericSupertype(a, b), Type!NumericSupertype(c, d))
         /\ Type!NumericSupertype(a, b) \in {"Float32", "Float64", "Int64", Unknown}
         /\ Type!NumericSupertype(c, d) \in {"Float32", "Float64", "Int64", Unknown}
  <1> DEFINE s == Type!NumericSupertype(a, b)
             u == Type!NumericSupertype(c, d)
  <1>1. s = IF a \in {"Float32", "Float64"} \/ b \in {"Float32", "Float64"}
            THEN IF a \in {"Float32", "Int8"} /\ b \in {"Float32", "Int8"} THEN "Float32" ELSE "Float64"
            ELSE IF a \in {"Int8", "Int64", "UInt64"} /\ b \in {"Int8", "Int64", "UInt64"} THEN "Int64"
            ELSE Unknown
    BY CommonTypeIs
  <1>2. u = IF c \in {"Float32", "Float64"} \/ d \in {"Float32", "Float64"}
            THEN IF c \in {"Float32", "Int8"} /\ d \in {"Float32", "Int8"} THEN "Float32" ELSE "Float64"
            ELSE IF c \in {"Int8", "Int64", "UInt64"} /\ d \in {"Int8", "Int64", "UInt64"} THEN "Int64"
            ELSE Unknown
    BY CommonTypeIs
  <1> HIDE DEF s, u
  <1>3. Agree(s, u)
    BY <1>1, <1>2, TypesAre DEF Agree, TypesOf
  <1> QED BY <1>1, <1>2, <1>3 DEF s, u

LEMMA SupertypeIsType ==
  ASSUME NEW a, NEW b
  PROVE  Type!NumericSupertype(a, b) \in Type!DTypes \cup {Unknown}
  BY CommonTypeIs, TypesAre

-----------------------------------------------------------------------------
(* The operations, with the schema and without.                            *)

LEMMA RelatedValues ==
  ASSUME NEW kind \in Sides, NEW a \in Type!DTypes \cup {Unknown},
         NEW c \in Type!DTypes \cup {Unknown},
         a \in TypesOf(kind), c \in TypesOf(kind), Agree(a, c)
  PROVE  Related(kind, Type!Value(a), Type!Value(c))
  BY TypedValueIs DEF Related

LEMMA NeverDeclined ==
  ASSUME NEW kind, NEW t, NEW l, Related(kind, t, l)
  PROVE  t # Declined /\ l # Declined /\ BothWays(kind, t, l)
  <1>1. t # Declined /\ l # Declined
    BY FieldsOfTyped DEF Related
  <1> QED BY <1>1 DEF BothWays, Related

\* If no operand is declined with the schema, only the operation can decline.
LEMMA WithOperands ==
  ASSUME NEW kind, NEW ts, NEW ls, NEW t, NEW l,
         Declined \notin ts => t \in TypedValues \cup {Declined},
         Declined \notin ls => l \in TypedValues \cup {Declined},
         Declined \notin ts => Declined \notin ls /\ BothWays(kind, t, l)
  PROVE  BothWays(kind, Type!OrDeclined(ts, t), Type!OrDeclined(ls, l))
  BY Zenon DEF BothWays, Type!OrDeclined

LEMMA KindIs ==
  ASSUME NEW dtype \in Type!DTypes
  PROVE  Type!Kind(dtype) \in Sides /\ dtype \in TypesOf(Type!Kind(dtype))
  BY TypesAre DEF Type!Kind, Sides, TypesOf

LEMMA CastType ==
  ASSUME NEW later, NEW strict, NEW target \in Type!DTypes, NEW v
  PROVE  Type!Cast(later, target, strict, v) \in TypedValues \cup {Declined}
  BY TypedValueIs DEF Type!Cast

LEMMA CastRelated ==
  ASSUME NEW kind \in Sides, NEW strict \in BOOLEAN, NEW target \in Type!DTypes,
         NEW t, NEW l, Related(kind, t, l)
  PROVE  BothWays(Type!Kind(target), Type!Cast(FALSE, target, strict, t),
                                     Type!Cast(TRUE, target, strict, l))
  <1> DEFINE x == Type!Value(target)
  <1>1. x \in TypedValues /\ x # Declined /\ Related(Type!Kind(target), x, x)
    BY TypedValueIs, KindIs, RelatedValues DEF Agree
  <1>2. t.dtype \in Type!DTypes \cup {Unknown} /\ l.dtype \in Type!DTypes \cup {Unknown}
    BY FieldsOfTyped DEF Related
  <1>3. Type!TryCastExact(target, t.dtype) => l.dtype = Unknown \/ Type!TryCastExact(target, l.dtype)
    BY <1>2, TypesAre DEF Type!TryCastExact, Related, Agree
  <1>4. l.dtype = Unknown => Type!Untyped(l)
    BY TypesAre, FieldsOfTyped DEF Related, Type!Untyped, Type!IsLiteral
  <1>5. Type!Cast(FALSE, target, strict, t)
          = IF strict \/ Type!TryCastExact(target, t.dtype) THEN x ELSE Declined
    BY DEF Type!Cast
  <1>6. Type!Cast(TRUE, target, strict, l)
          = IF strict \/ Type!Untyped(l) \/ Type!TryCastExact(target, l.dtype) THEN x ELSE Declined
    BY DEF Type!Cast
  <1> HIDE DEF x
  <1> QED BY <1>1, <1>3, <1>4, <1>5, <1>6 DEF BothWays

LEMMA ArithmeticType ==
  ASSUME NEW later, NEW rel, NEW a, NEW b
  PROVE  Type!Arithmetic(later, rel, a, b) \in TypedValues \cup {Declined}
  <1>1. /\ Type!Value("String") \in TypedValues /\ Type!Value("Float64") \in TypedValues
        /\ Type!Value(Type!NumericSupertype(a.dtype, b.dtype)) \in TypedValues
    BY TypedValueIs, SupertypeIsType, TypesAre
  <1> QED BY <1>1 DEF Type!Arithmetic

LEMMA ArithmeticRelated ==
  ASSUME NEW kind \in {"Number", "String"}, NEW rel \in {"Plus", "Minus", "TrueDivide"},
         kind = "String" => rel = "Plus",
         NEW t, NEW u, NEW l, NEW m, Related(kind, t, l), Related(kind, u, m)
  PROVE  BothWays(kind, Type!Arithmetic(FALSE, rel, t, u), Type!Arithmetic(TRUE, rel, l, m))
  <1> DEFINE a == t.dtype
             b == u.dtype
             c == l.dtype
             d == m.dtype
             s == Type!NumericSupertype(a, b)
             w == Type!NumericSupertype(c, d)
  <1>1. a \in TypesOf(kind) /\ b \in TypesOf(kind) /\ c \in TypesOf(kind) /\ d \in TypesOf(kind)
        /\ Agree(a, c) /\ Agree(b, d)
    BY DEF Related
  <1>2. Type!Arithmetic(TRUE, rel, l, m)
          = IF rel = "Plus" /\ "String" \in {c, d} THEN Type!Value("String")
            ELSE Type!Value(IF rel = "TrueDivide" THEN "Float64" ELSE w)
    BY DEF Type!Arithmetic
  <1>3. Type!Arithmetic(FALSE, rel, t, u)
          \in {Declined, IF rel = "Plus" /\ "String" \in {a, b} THEN Type!Value("String")
                         ELSE Type!Value(IF rel = "TrueDivide" THEN "Float64" ELSE s)}
    BY DEF Type!Arithmetic
  <1>4. Type!Arithmetic(FALSE, rel, t, u) \in TypedValues \cup {Declined}
        /\ Type!Arithmetic(TRUE, rel, l, m) \in TypedValues \cup {Declined}
    BY ArithmeticType
  <1>5. CASE kind = "Number"
    <2>1. /\ Agree(s, w) /\ s \in {"Float32", "Float64", "Int64", Unknown}
          /\ w \in {"Float32", "Float64", "Int64", Unknown}
      BY <1>1, <1>5, SupertypesAgree
    <2>2. "String" \notin {a, b} /\ "String" \notin {c, d}
      BY <1>1, <1>5, TypesAre DEF TypesOf
    <2> DEFINE x == IF rel = "TrueDivide" THEN "Float64" ELSE s
               y == IF rel = "TrueDivide" THEN "Float64" ELSE w
    <2>3. x \in {"Float32", "Float64", "Int64", Unknown} /\ y \in {"Float32", "Float64", "Int64", Unknown}
          /\ Agree(x, y)
      BY <2>1 DEF Agree
    <2>4. Type!Arithmetic(FALSE, rel, t, u) \in {Declined, Type!Value(x)}
          /\ Type!Arithmetic(TRUE, rel, l, m) = Type!Value(y)
      BY <1>2, <1>3, <2>2
    <2> HIDE DEF a, b, c, d, s, w, x, y
    <2>5. Related(kind, Type!Value(x), Type!Value(y))
      BY <1>5, <2>3, RelatedValues, TypesAre DEF TypesOf, Sides
    <2>6. BothWays(kind, Type!Value(x), Type!Value(y)) /\ Type!Value(y) # Declined
      BY <2>5, NeverDeclined
    <2> QED BY <1>4, <2>4, <2>6, Zenon DEF BothWays
  <1>6. CASE kind = "String"
    <2>1. a \in {"String", "Null", Unknown} /\ b \in {"String", "Null", Unknown}
          /\ c \in {a, Unknown} /\ d \in {b, Unknown}
      BY <1>1, <1>6, TypesAre DEF TypesOf, Agree
    <2>2. s = Unknown /\ w = Unknown
      BY <2>1, CommonTypeIs, TypesAre
    <2> DEFINE x == IF "String" \in {a, b} THEN "String" ELSE Unknown
               y == IF "String" \in {c, d} THEN "String" ELSE Unknown
    <2>3. x \in {"String", Unknown} /\ y \in {x, Unknown}
      BY <2>1, TypesAre
    <2>4. Type!Arithmetic(FALSE, rel, t, u) \in {Declined, Type!Value(x)}
          /\ Type!Arithmetic(TRUE, rel, l, m) = Type!Value(y)
      BY <1>2, <1>3, <1>6, <2>2
    <2> HIDE DEF a, b, c, d, s, w, x, y
    <2>5. Related(kind, Type!Value(x), Type!Value(y))
      BY <1>6, <2>3, RelatedValues, TypesAre DEF TypesOf, Sides, Agree
    <2>6. BothWays(kind, Type!Value(x), Type!Value(y)) /\ Type!Value(y) # Declined
      BY <2>5, NeverDeclined
    <2> QED BY <1>4, <2>4, <2>6, Zenon DEF BothWays
  <1> QED BY <1>5, <1>6

LEMMA RemainderType ==
  ASSUME NEW later, NEW floor, NEW a, NEW b
  PROVE  Type!RemainderOrFloor(later, floor, a, b) \in TypedValues \cup {Declined}
  <1>1. Type!Value(Type!NumericSupertype(a.dtype, b.dtype)) \in TypedValues
    BY TypedValueIs, SupertypeIsType
  <1> QED BY <1>1, Zenon DEF Type!RemainderOrFloor, Type!FloatFloor

\* The schema adds nothing to what is known of the operands.
LEMMA RemainderRelated ==
  ASSUME NEW floor \in BOOLEAN, NEW t, NEW u, Related("Number", t, t), Related("Number", u, u)
  PROVE  BothWays("Number", Type!RemainderOrFloor(FALSE, floor, t, u),
                            Type!RemainderOrFloor(TRUE, floor, t, u))
  <1> DEFINE s == Type!NumericSupertype(t.dtype, u.dtype)
             x == Type!Value(s)
  <1>1. s \in {"Float32", "Float64", "Int64", Unknown}
    BY SupertypesAgree DEF Related
  <1>2. Related("Number", x, x)
    <2> HIDE DEF s
    <2> QED BY <1>1, RelatedValues, TypesAre DEF TypesOf, Sides, Agree
  <1>3. BothWays("Number", x, x) /\ x # Declined
    BY <1>2, NeverDeclined
  <1>4. Type!RemainderOrFloor(FALSE, floor, t, u) \in {Declined, x}
        /\ Type!RemainderOrFloor(TRUE, floor, t, u) \in {Declined, x}
    BY Zenon DEF Type!RemainderOrFloor, Type!FloatFloor
  <1>5. Type!RemainderOrFloor(FALSE, floor, t, u) = x => Type!RemainderOrFloor(TRUE, floor, t, u) = x
    <2>1. Type!FloatFloor(FALSE, t, u) = x => Type!FloatFloor(TRUE, t, u) = x
      <3> HIDE DEF x
      <3>1. /\ \A v \in {t, u} : v.dtype \in Type!Numeric
            /\ \A v \in {t, u} : v.literal \notin {"null", "fraction"}
            /\ "Float32" \in {t.dtype, u.dtype} => s = "Float32"
            => Type!FloatFloor(TRUE, t, u) = x
        BY Zenon DEF Type!FloatFloor, x, s
      <3>2. Type!FloatFloor(FALSE, t, u) # Declined
            => /\ \A v \in {t, u} : v.dtype \in Type!Numeric
               /\ \A v \in {t, u} : v.literal \notin {"null", "fraction"}
               /\ "Float32" \in {t.dtype, u.dtype} => s = "Float32"
        BY Zenon DEF Type!FloatFloor, s
      <3> QED BY <1>3, <3>1, <3>2
    <2> HIDE DEF x, s
    <2>2. CASE {t.dtype, u.dtype} \cap Type!Floating # {}
      BY <2>1, <2>2, Zenon DEF Type!RemainderOrFloor
    <2>3. CASE ~({t.dtype, u.dtype} \cap Type!Floating # {})
      <3> DEFINE spelled == floor => /\ Type!IsLiteral(u) /\ u.literal # "minus one"
                                     /\ "UInt64" \notin {t.dtype, u.dtype}
      <3>1. Type!RemainderOrFloor(FALSE, floor, t, u)
              = IF spelled /\ \A v \in {t, u} : v.dtype \in Type!Integer THEN x ELSE Declined
        BY <2>3 DEF Type!RemainderOrFloor, x, s
      <3>2. Type!RemainderOrFloor(TRUE, floor, t, u)
              = IF spelled /\ \A v \in {t, u} : v.dtype \in Type!Integer \/ Type!Untyped(v)
                THEN x ELSE Declined
        BY <2>3 DEF Type!RemainderOrFloor, x, s
      <3> QED BY <1>3, <3>1, <3>2
    <2> QED BY <2>2, <2>3
  <1> HIDE DEF x
  <1> QED BY <1>3, <1>4, <1>5 DEF BothWays

LEMMA FunctionType ==
  ASSUME NEW later, NEW v \in TypedValues, NEW w \in TypedValues, NEW name
  PROVE  /\ Type!Value(v.dtype) \in TypedValues
         /\ Type!Rounded(later, v) \in TypedValues \cup {Declined}
         /\ Type!RootOrLog(later, name, v) \in TypedValues \cup {Declined}
         /\ Type!FillNull(v, w) \in TypedValues
         /\ Type!Extreme(later, v, w) \in TypedValues \cup {Declined}
         /\ Type!Power(later, v, w) \in TypedValues \cup {Declined}
  <1>1. /\ Type!Value(v.dtype) \in TypedValues
        /\ Type!Value(Type!NumericSupertype(v.dtype, w.dtype)) \in TypedValues
        /\ Type!Value("Float32") \in TypedValues /\ Type!Value("Float64") \in TypedValues
    BY TypedValueIs, FieldsOfTyped, SupertypeIsType, TypesAre
  <1> QED BY <1>1 DEF Type!Rounded, Type!RootOrLog, Type!FillNull, Type!Extreme, Type!Power

\* The type of a value that the schema gives a type is the same without, or unknown.
LEMMA RelatedNumbers ==
  ASSUME NEW t, NEW l, Related("Number", t, l)
  PROVE  /\ t.dtype \in {"Int8", "Int64", "UInt64", "Float32", "Float64", "Null", Unknown}
         /\ l.dtype = t.dtype \/ l.dtype = Unknown \/ (l.dtype = "Float64" /\ t.dtype = "Float32")
         /\ l.dtype = Unknown => Type!Untyped(l)
         /\ t.dtype = Unknown => Type!Untyped(t)
         /\ Type!Untyped(t) => Type!Untyped(l)
         /\ Related("Number", Type!Value(t.dtype), Type!Value(l.dtype))
  <1>1. /\ t.dtype \in TypesOf("Number") /\ l.dtype \in TypesOf("Number") /\ Agree(t.dtype, l.dtype)
        /\ t.dtype \in Type!DTypes \cup {Unknown} /\ l.dtype \in Type!DTypes \cup {Unknown}
    BY FieldsOfTyped DEF Related
  <1>2. Related("Number", Type!Value(t.dtype), Type!Value(l.dtype))
    BY <1>1, RelatedValues DEF Sides
  <1>3. (l.dtype = Unknown => Type!Untyped(l)) /\ (t.dtype = Unknown => Type!Untyped(t))
    BY DEF Related, Type!Untyped, Type!IsLiteral
  <1>4. Type!Untyped(t) => Type!Untyped(l)
    BY <1>1, TypesAre DEF Related, Type!Untyped, Type!IsLiteral, Agree
  <1> QED BY <1>1, <1>2, <1>3, <1>4, TypesAre DEF TypesOf, Agree

LEMMA RoundedRelated ==
  ASSUME NEW t, NEW l, Related("Number", t, l)
  PROVE  BothWays("Number", Type!Rounded(FALSE, t), Type!Rounded(TRUE, l))
  <1>1. /\ Type!Rounded(FALSE, t) \in TypedValues \cup {Declined}
        /\ Type!Rounded(TRUE, l) \in TypedValues \cup {Declined}
    BY FunctionType DEF Related
  <1> DEFINE x == Type!Value(t.dtype)
             y == Type!Value(l.dtype)
  <1>2. BothWays("Number", x, y) /\ BothWays("Number", t, l) /\ y # Declined /\ l # Declined
    BY RelatedNumbers, NeverDeclined
  <1>3. Type!Rounded(FALSE, t) = IF t.dtype \in Type!Integer THEN t
                                 ELSE IF t.dtype \in Type!Floating THEN x ELSE Declined
    BY DEF Type!Rounded
  <1>4. Type!Rounded(TRUE, l) = IF l.dtype \in Type!Integer THEN l
                                ELSE IF l.dtype \in Type!Floating \/ Type!Untyped(l) THEN y ELSE Declined
    BY DEF Type!Rounded
  <1> HIDE DEF x, y
  <1>5. CASE t.dtype \in Type!Integer /\ l.dtype \in Type!Integer
    BY <1>2, <1>3, <1>4, <1>5
  <1>6. CASE t.dtype \in Type!Integer /\ l.dtype \notin Type!Integer
    <2>1. Type!Untyped(l) /\ l.dtype = Unknown
      BY <1>6, RelatedNumbers, TypesAre
    <2>2. Type!Rounded(TRUE, l) = y /\ Type!Rounded(FALSE, t) = t
      BY <1>3, <1>4, <1>6, <2>1
    <2>3. t.literal = "none"
      BY <2>1, <1>6, TypesAre DEF Related, Type!Untyped, Type!IsLiteral
    <2>4. Related("Number", t, y)
      <3>1. y \in TypedValues /\ y.dtype = Unknown /\ y.literal = "none"
        BY <2>1, TypedValueIs DEF y
      <3> QED BY <2>3, <3>1 DEF Related, Agree, TypesOf
    <2> QED BY <2>2, <2>4, NeverDeclined
  <1>7. CASE t.dtype \notin Type!Integer
    <2>1. l.dtype \notin Type!Integer
      BY <1>7, RelatedNumbers, TypesAre
    <2>2. t.dtype \in Type!Floating => l.dtype \in Type!Floating \/ Type!Untyped(l)
      BY RelatedNumbers, TypesAre
    <2> QED BY <1>1, <1>2, <1>3, <1>4, <1>7, <2>1, <2>2 DEF BothWays
  <1> QED BY <1>5, <1>6, <1>7

LEMMA RootOrLogRelated ==
  ASSUME NEW name \in {"Sqrt", "Log"}, NEW t, NEW l, Related("Number", t, l)
  PROVE  BothWays("Number", Type!RootOrLog(FALSE, name, t), Type!RootOrLog(TRUE, name, l))
  <1> DEFINE x == IF t.dtype = "Float32" THEN "Float32" ELSE "Float64"
             y == IF l.dtype = "Float32" THEN "Float32" ELSE "Float64"
  <1>1. Related("Number", Type!Value(x), Type!Value(y))
    <2>1. x \in {"Float32", "Float64"} /\ y \in {"Float32", "Float64"} /\ Agree(x, y)
      BY RelatedNumbers, TypesAre DEF Agree
    <2> HIDE DEF x, y
    <2> QED BY <2>1, RelatedValues, TypesAre DEF TypesOf, Sides
  <1>2. BothWays("Number", Type!Value(x), Type!Value(y)) /\ Type!Value(y) # Declined
    BY <1>1, NeverDeclined
  <1>3. /\ Type!RootOrLog(FALSE, name, t) \in TypedValues \cup {Declined}
        /\ Type!RootOrLog(TRUE, name, l) \in TypedValues \cup {Declined}
    BY FunctionType DEF Related
  <1>4. Type!RootOrLog(FALSE, name, t)
          = IF \/ t.dtype \notin Type!Numeric \cup {Unknown}
               \/ name = "Log" /\ (Type!Untyped(t) \/ t.dtype = "Float32")
            THEN Declined ELSE Type!Value(x)
    BY DEF Type!RootOrLog
  <1>5. Type!RootOrLog(TRUE, name, l)
          = IF \/ l.dtype \notin Type!Numeric \cup {Unknown}
               \/ name = "Log" /\ l.dtype = "Float32"
            THEN Declined ELSE Type!Value(y)
    BY DEF Type!RootOrLog
  <1>6. l.dtype \notin Type!Numeric \cup {Unknown} => t.dtype \notin Type!Numeric \cup {Unknown}
    BY RelatedNumbers, TypesAre
  <1>7. l.dtype = "Float32" => t.dtype = "Float32"
    BY RelatedNumbers, TypesAre
  <1> HIDE DEF x, y
  <1> QED BY <1>2, <1>3, <1>4, <1>5, <1>6, <1>7 DEF BothWays

LEMMA SupertypesRelated ==
  ASSUME NEW t, NEW u, NEW l, NEW m, Related("Number", t, l), Related("Number", u, m)
  PROVE  Related("Number", Type!Value(Type!NumericSupertype(t.dtype, u.dtype)),
                           Type!Value(Type!NumericSupertype(l.dtype, m.dtype)))
  <1> DEFINE s == Type!NumericSupertype(t.dtype, u.dtype)
             w == Type!NumericSupertype(l.dtype, m.dtype)
  <1>1. /\ Agree(s, w) /\ s \in {"Float32", "Float64", "Int64", Unknown}
        /\ w \in {"Float32", "Float64", "Int64", Unknown}
    BY SupertypesAgree DEF Related
  <1> HIDE DEF s, w
  <1>2. Related("Number", Type!Value(s), Type!Value(w))
    BY <1>1, RelatedValues, TypesAre DEF TypesOf, Sides
  <1> QED BY <1>2 DEF s, w

LEMMA FillNullRelated ==
  ASSUME NEW t, NEW u, NEW l, NEW m, Related("Number", t, l), Related("Number", u, m)
  PROVE  BothWays("Number", Type!FillNull(t, u), Type!FillNull(l, m))
  BY SupertypesRelated, NeverDeclined DEF Type!FillNull

LEMMA ExtremeRelated ==
  ASSUME NEW t, NEW u, NEW l, NEW m, Related("Number", t, l), Related("Number", u, m)
  PROVE  BothWays("Number", Type!Extreme(FALSE, t, u), Type!Extreme(TRUE, l, m))
  <1> DEFINE x == Type!Value(Type!NumericSupertype(t.dtype, u.dtype))
             y == Type!Value(Type!NumericSupertype(l.dtype, m.dtype))
  <1>1. BothWays("Number", x, y) /\ y # Declined
    BY SupertypesRelated, NeverDeclined
  <1>2. Type!Extreme(FALSE, t, u) \in {Declined, x} /\ Type!Extreme(TRUE, l, m) = y
    BY DEF Type!Extreme
  <1> HIDE DEF x, y
  <1> QED BY <1>1, <1>2 DEF BothWays

LEMMA PowerRelated ==
  ASSUME NEW t, NEW u, NEW l, NEW m, Related("Number", t, l), Related("Number", u, m)
  PROVE  BothWays("Number", Type!Power(FALSE, t, u), Type!Power(TRUE, l, m))
  <1> DEFINE x == Type!Value("Float64")
  <1>1. BothWays("Number", x, x) /\ x # Declined
    <2>1. Related("Number", x, x)
      BY RelatedValues, TypesAre DEF TypesOf, Sides, Agree
    <2> QED BY <2>1, NeverDeclined
  <1>2. Type!Power(FALSE, t, u)
          = IF u.dtype = "Float64" /\ Type!IsLiteral(u) /\ t.dtype \in Type!Integer \cup {"Float64"}
            THEN x ELSE Declined
    BY DEF Type!Power
  <1>3. Type!Power(TRUE, l, m)
          = IF /\ m.dtype = "Float64" /\ Type!IsLiteral(m)
               /\ l.dtype \in Type!Integer \cup {"Float64"} \/ Type!Untyped(l)
            THEN x ELSE Declined
    BY DEF Type!Power
  <1>4. u.dtype = "Float64" /\ Type!IsLiteral(u) => m.dtype = "Float64" /\ Type!IsLiteral(m)
    BY DEF Related, Type!IsLiteral
  <1>5. t.dtype \in Type!Integer \cup {"Float64"}
          => l.dtype \in Type!Integer \cup {"Float64"} \/ Type!Untyped(l)
    BY RelatedNumbers, TypesAre
  <1> HIDE DEF x
  <1> QED BY <1>1, <1>2, <1>3, <1>4, <1>5 DEF BothWays

LEMMA CoercedIs ==
  ASSUME NEW v \in TypedValues, NEW other
  PROVE  /\ Type!CoerceLiteral(v, other) \in TypedValues
         /\ Type!CoerceLiteral(v, other).dtype = v.dtype
            \/ (/\ v.dtype \in Type!Numeric
                /\ Type!CoerceLiteral(v, other).dtype \in {"Float32", "Float64"})
  <1> DEFINE narrow == [v EXCEPT !.dtype = "Float32"]
             wide == [v EXCEPT !.dtype = "Float64"]
  <1>1. /\ narrow \in TypedValues /\ wide \in TypedValues
        /\ narrow.dtype = "Float32" /\ wide.dtype = "Float64"
    BY TypesAre DEF TypedValues
  <1>2. Type!CoerceLiteral(v, other) =
          IF ~Type!IsLiteral(v) \/ Type!IsLiteral(other) THEN v
          ELSE IF Type!Bare(v) /\ other.dtype = "Float32" THEN narrow
          ELSE IF v.dtype \in Type!Integer /\ other.dtype \in Type!Floating THEN wide
          ELSE v
    BY DEF Type!CoerceLiteral
  <1>3. Type!Bare(v) \/ v.dtype \in Type!Integer => v.dtype \in Type!Numeric
    BY TypesAre DEF Type!Bare
  <1> HIDE DEF narrow, wide
  <1> QED BY <1>1, <1>2, <1>3

LEMMA TernaryType ==
  ASSUME NEW t \in TypedValues, NEW f \in TypedValues
  PROVE  Type!Ternary(t, f) \in TypedValues \cup {Declined}
  <1> DEFINE a == Type!CoerceLiteral(t, f)
             b == Type!CoerceLiteral(f, a)
  <1>1. a \in TypedValues /\ b \in TypedValues
    BY CoercedIs
  <1>2. Type!Value(a.dtype) \in TypedValues /\ Type!Value(b.dtype) \in TypedValues
        /\ Type!Value("Int64") \in TypedValues
    <2> HIDE DEF a, b
    <2> QED BY <1>1, FieldsOfTyped, TypedValueIs, TypesAre
  <1>3. Type!Ternary(t, f) \in {Type!Value(a.dtype), Type!Value(b.dtype), Type!Value("Int64"), Declined}
    BY Zenon DEF Type!Ternary
  <1> QED BY <1>2, <1>3

\* The schema adds nothing to what is known of the branches.
LEMMA TernaryRelated ==
  ASSUME NEW kind \in {"Number", "String", "Boolean"}, NEW i \in {kind, "Null"},
         NEW j \in {kind, "Null"}, NEW t, NEW f, Related(i, t, t), Related(j, f, f)
  PROVE  BothWays(kind, Type!Ternary(t, f), Type!Ternary(t, f))
  <1> DEFINE a == Type!CoerceLiteral(t, f)
             b == Type!CoerceLiteral(f, a)
             x == Type!Ternary(t, f)
  <1>1. /\ t \in TypedValues /\ f \in TypedValues
        /\ t.dtype \in TypesOf(kind) /\ f.dtype \in TypesOf(kind)
    BY DEF Related, TypesOf
  <1>2. \A v \in TypedValues : \A other : v.dtype \in TypesOf(kind) =>
          /\ Type!CoerceLiteral(v, other) \in TypedValues
          /\ Type!CoerceLiteral(v, other).dtype \in TypesOf(kind)
    <2>1. \A d \in TypesOf(kind) : d \in Type!Numeric => {"Float32", "Float64"} \subseteq TypesOf(kind)
      BY TypesAre DEF TypesOf
    <2> QED BY <2>1, CoercedIs
  <1>3. a \in TypedValues /\ a.dtype \in TypesOf(kind)
    BY <1>1, <1>2
  <1>4. b \in TypedValues /\ b.dtype \in TypesOf(kind)
    <2> HIDE DEF a
    <2> QED BY <1>1, <1>2
  <1>5. /\ a.dtype \in Type!DTypes \cup {Unknown} /\ b.dtype \in Type!DTypes \cup {Unknown}
    <2> HIDE DEF a, b
    <2> QED BY <1>3, <1>4, FieldsOfTyped
  <1>6. x = Declined \/ \E d \in TypesOf(kind) \cap (Type!DTypes \cup {Unknown}) : x = Type!Value(d)
    <2>1. x = IF b.literal = "null" THEN Type!Value(a.dtype)
              ELSE IF a.literal = "null" \/ a.dtype = b.dtype THEN Type!Value(b.dtype)
              ELSE IF Type!BothInteger({a, b}) THEN Type!Value("Int64") ELSE Declined
      BY DEF Type!Ternary
    <2>2. Type!BothInteger({a, b}) => "Int64" \in TypesOf(kind) \cap (Type!DTypes \cup {Unknown})
      <3> HIDE DEF a, b
      <3>1. Type!BothInteger({a, b}) => a.dtype \in Type!Integer
        BY DEF Type!BothInteger
      <3> QED BY <1>3, <3>1, TypesAre DEF TypesOf
    <2> HIDE DEF a, b, x
    <2> QED BY <1>3, <1>4, <1>5, <2>1, <2>2
  <1> HIDE DEF x
  <1>7. ASSUME NEW d \in TypesOf(kind) \cap (Type!DTypes \cup {Unknown})
        PROVE  BothWays(kind, Type!Value(d), Type!Value(d))
    <2>1. Agree(d, d) /\ kind \in Sides
      BY DEF Agree, Sides
    <2> QED BY <2>1, RelatedValues, NeverDeclined
  <1>8. BothWays(kind, Declined, Declined)
    BY DEF BothWays
  <1>9. BothWays(kind, x, x)
    BY <1>6, <1>7, <1>8
  <1> QED BY <1>9 DEF x

-----------------------------------------------------------------------------
(* Every step, both ways.                                                  *)

LEMMA TypeOperands ==
  ASSUME types \in Seq(Pairs), NEW n \in Nat, NEW kinds, Type!OfKinds(n, kinds)
  PROVE  /\ n \in 0..Len(types)
         /\ \A i \in 1..n : Type!Operands(n)[i] \in Pairs /\ Type!Operands(n)[i].kind \in kinds
  <1>1. n \in 0..Len(types)
    BY DEF Type!OfKinds
  <1>2. \A i \in 1..n : Type!Operands(n)[i] \in Pairs
    BY <1>1, TailIs DEF Type!Operands
  <1> QED BY <1>1, <1>2 DEF Type!OfKinds

LEMMA BothSides ==
  ASSUME NEW e \in Pairs
  PROVE  /\ e.kind \in Sides /\ e.blind \in BOOLEAN
         /\ e.typed \in TypedValues \cup {Declined} /\ e.later \in TypedValues \cup {Declined}
         /\ ~e.blind /\ e.typed # Declined =>
              /\ e.later # Declined /\ Related(e.kind, e.typed, e.later)
              /\ e.typed \in TypedValues /\ e.later \in TypedValues
  BY DEF Pairs, BothWays

LEMMA Pushed ==
  ASSUME types \in Seq(Pairs), NEW n \in 0..Len(types), NEW kind \in Sides, NEW t, NEW l,
         NEW heeds, t \in TypedValues \cup {Declined}, l \in TypedValues \cup {Declined},
         ~Type!Blind(n, heeds) => BothWays(kind, t, l), Type!Push(kind, n, t, l, heeds)
  PROVE  types' \in Seq(Pairs) /\ UNCHANGED filter
  <1> DEFINE blind == Type!Blind(n, heeds)
             e == [kind |-> kind, typed |-> t, later |-> l, blind |-> blind]
             rest == SubSeq(types, 1, Len(types) - n)
  <1>1. blind \in BOOLEAN
    BY DEF Type!Blind
  <1>2. types' = Append(rest, e) /\ UNCHANGED filter
    BY DEF Type!Push
  <1>3. rest \in Seq(Pairs)
    BY TailIs
  <1> HIDE DEF blind
  <1>4. e \in Pairs
    <2>1. ~blind => BothWays(kind, t, l)
      BY DEF blind
    <2> QED BY <1>1, <2>1 DEF Pairs
  <1> HIDE DEF e, rest
  <1> QED BY <1>2, <1>3, <1>4

LEMMA OrDeclinedIs ==
  ASSUME NEW ts, NEW t, ts \subseteq TypedValues => t \in TypedValues \cup {Declined},
         ts \subseteq TypedValues \cup {Declined}
  PROVE  Type!OrDeclined(ts, t) \in TypedValues \cup {Declined}
  BY DEF Type!OrDeclined

LEMMA SingleStep ==
  ASSUME types \in Seq(Pairs), NEW kinds, Type!OfKinds(1, kinds), NEW kind \in Sides,
         NEW x, NEW y,
         Type!Operands(1)[1].typed \in TypedValues => x \in TypedValues \cup {Declined},
         Type!Operands(1)[1].later \in TypedValues => y \in TypedValues \cup {Declined},
         \A k \in kinds \cap Sides :
           Related(k, Type!Operands(1)[1].typed, Type!Operands(1)[1].later) => BothWays(kind, x, y),
         Type!Push(kind, 1, Type!OrDeclined({Type!Operands(1)[1].typed}, x),
                            Type!OrDeclined({Type!Operands(1)[1].later}, y), TRUE)
  PROVE  types' \in Seq(Pairs) /\ UNCHANGED filter
  <1> DEFINE u == Type!Operands(1)[1]
             t == Type!OrDeclined({u.typed}, x)
             l == Type!OrDeclined({u.later}, y)
  <1>1. 1 \in 0..Len(types) /\ u \in Pairs /\ u.kind \in kinds
    BY TypeOperands
  <1>2. u.typed \in TypedValues \cup {Declined} /\ u.later \in TypedValues \cup {Declined}
    <2> HIDE DEF u
    <2> QED BY <1>1, BothSides
  <1>3. t \in TypedValues \cup {Declined} /\ l \in TypedValues \cup {Declined}
    <2> HIDE DEF u
    <2>1. /\ {u.typed} \subseteq TypedValues => x \in TypedValues \cup {Declined}
          /\ {u.later} \subseteq TypedValues => y \in TypedValues \cup {Declined}
      BY DEF u
    <2> QED BY <1>2, <2>1, OrDeclinedIs
  <1>4. ASSUME ~u.blind
        PROVE  BothWays(kind, t, l)
    <2>1. Declined \notin {u.typed} => Declined \notin {u.later} /\ BothWays(kind, x, y)
      <3> HIDE DEF u
      <3> QED BY <1>1, <1>4, BothSides DEF u
    <2>2. /\ Declined \notin {u.typed} => x \in TypedValues \cup {Declined}
          /\ Declined \notin {u.later} => y \in TypedValues \cup {Declined}
      <3> HIDE DEF u
      <3> QED BY <1>2 DEF u
    <2> QED BY <2>1, <2>2, WithOperands
  <1>5. ~Type!Blind(1, TRUE) => ~u.blind
    <2>1. 1 \in 1..1
      OBVIOUS
    <2> QED BY <2>1, Zenon DEF Type!Blind
  <1> HIDE DEF t, l
  <1> QED BY <1>1, <1>3, <1>4, <1>5, Pushed DEF t, l

\* What an operation on two values that keeps the promise has met.
LEMMA NotBlind ==
  ASSUME NEW heeds, ~Type!Blind(2, heeds)
  PROVE  /\ ~Type!Operands(2)[1].blind /\ ~Type!Operands(2)[2].blind
         /\ heeds \/ (/\ Type!Operands(2)[1].later = Type!Operands(2)[1].typed
                      /\ Type!Operands(2)[2].later = Type!Operands(2)[2].typed)
  <1>1. 1 \in 1..2 /\ 2 \in 1..2
    OBVIOUS
  <1> QED BY <1>1, Zenon DEF Type!Blind

LEMMA DoubleStep ==
  ASSUME types \in Seq(Pairs), NEW kinds, Type!OfKinds(2, kinds), NEW kind \in Sides,
         NEW x, NEW y, NEW heeds,
         {Type!Operands(2)[1].typed, Type!Operands(2)[2].typed} \subseteq TypedValues
           => x \in TypedValues \cup {Declined},
         {Type!Operands(2)[1].later, Type!Operands(2)[2].later} \subseteq TypedValues
           => y \in TypedValues \cup {Declined},
         \A j, k \in kinds \cap Sides :
           /\ Related(j, Type!Operands(2)[1].typed, Type!Operands(2)[1].later)
           /\ Related(k, Type!Operands(2)[2].typed, Type!Operands(2)[2].later)
           /\ heeds \/ (/\ Type!Operands(2)[1].later = Type!Operands(2)[1].typed
                        /\ Type!Operands(2)[2].later = Type!Operands(2)[2].typed)
           => BothWays(kind, x, y),
         Type!Push(kind, 2,
                   Type!OrDeclined({Type!Operands(2)[1].typed, Type!Operands(2)[2].typed}, x),
                   Type!OrDeclined({Type!Operands(2)[1].later, Type!Operands(2)[2].later}, y), heeds)
  PROVE  types' \in Seq(Pairs) /\ UNCHANGED filter
  <1> DEFINE u == Type!Operands(2)[1]
             v == Type!Operands(2)[2]
             t == Type!OrDeclined({u.typed, v.typed}, x)
             l == Type!OrDeclined({u.later, v.later}, y)
  <1>1. 2 \in 0..Len(types) /\ u \in Pairs /\ u.kind \in kinds /\ v \in Pairs /\ v.kind \in kinds
    BY TypeOperands
  <1>2. /\ {u.typed, v.typed} \subseteq TypedValues \cup {Declined}
        /\ {u.later, v.later} \subseteq TypedValues \cup {Declined}
    <2> HIDE DEF u, v
    <2> QED BY <1>1, BothSides
  <1>3. t \in TypedValues \cup {Declined} /\ l \in TypedValues \cup {Declined}
    BY <1>2, OrDeclinedIs
  <1>4. ASSUME ~u.blind, ~v.blind, heeds \/ (u.later = u.typed /\ v.later = v.typed)
        PROVE  BothWays(kind, t, l)
    <2>1. Declined \notin {u.typed, v.typed}
            => Declined \notin {u.later, v.later} /\ BothWays(kind, x, y)
      <3>1. \A j, k \in kinds \cap Sides :
              Related(j, u.typed, u.later) /\ Related(k, v.typed, v.later) => BothWays(kind, x, y)
        BY <1>4
      <3> HIDE DEF u, v
      <3> QED BY <1>1, <1>4, <3>1, BothSides
    <2>2. /\ Declined \notin {u.typed, v.typed} => x \in TypedValues \cup {Declined}
          /\ Declined \notin {u.later, v.later} => y \in TypedValues \cup {Declined}
      <3> HIDE DEF u, v
      <3>1. /\ Declined \notin {u.typed, v.typed} => {u.typed, v.typed} \subseteq TypedValues
            /\ Declined \notin {u.later, v.later} => {u.later, v.later} \subseteq TypedValues
        BY <1>2
      <3> QED BY <3>1 DEF u, v
    <2> QED BY <2>1, <2>2, WithOperands
  <1>5. ~Type!Blind(2, heeds)
          => ~u.blind /\ ~v.blind /\ (heeds \/ (u.later = u.typed /\ v.later = v.typed))
    BY NotBlind
  <1> HIDE DEF t, l
  <1> QED BY <1>1, <1>3, <1>4, <1>5, Pushed DEF t, l

LEMMA FromNothing == ASSUME types \in Seq(Pairs) PROVE 0 \in 0..Len(types)
  <1>1. Len(types) \in Nat
    BY LenProperties
  <1> QED BY <1>1

LEMMA ColumnStep ==
  ASSUME types \in Seq(Pairs), NEW dtype \in Type!DTypes, Type!LowerColumn(dtype)
  PROVE  types' \in Seq(Pairs) /\ UNCHANGED filter
  <1>1. Related(Type!Kind(dtype), Type!Value(dtype), Type!Value(Unknown)) /\ Type!Kind(dtype) \in Sides
    BY KindIs, RelatedValues DEF TypesOf, Agree
  <1>2. BothWays(Type!Kind(dtype), Type!Value(dtype), Type!Value(Unknown))
    BY <1>1, NeverDeclined
  <1>3. /\ Type!Push(Type!Kind(dtype), 0, Type!Value(dtype), Type!Value(Unknown), TRUE)
        /\ 0 \in 0..Len(types)
    BY FromNothing, Zenon DEF Type!LowerColumn
  <1>4. Type!Value(dtype) \in TypedValues /\ Type!Value(Unknown) \in TypedValues
    BY TypedValueIs
  <1> QED BY <1>1, <1>2, <1>3, <1>4, Pushed

LEMMA LiteralStep ==
  ASSUME types \in Seq(Pairs), NEW literal \in Type!Literals,
         Type!LowerLiteral(literal[1], literal[2])
  PROVE  types' \in Seq(Pairs) /\ UNCHANGED filter
  <1> DEFINE dtype == literal[1]
             v == [dtype |-> dtype, literal |-> literal[2]]
  <1>1. dtype \in Type!DTypes /\ literal[2] \in Type!Sorts
    <2>1. \/ literal \in {"Int8", "Int64"} \X {"whole", "minus one"}
          \/ literal \in {"Float32", "Float64"} \X {"whole", "fraction"}
          \/ literal \in ({"String", "Boolean"} \X {"text"}) \cup ({"Null"} \X {"null"})
      BY DEF Type!Literals, Type!Floating
    <2>2. CASE literal \in {"Int8", "Int64"} \X {"whole", "minus one"}
      BY <2>2, TypesAre DEF Type!Sorts
    <2>3. CASE literal \in {"Float32", "Float64"} \X {"whole", "fraction"}
      BY <2>3, TypesAre DEF Type!Sorts
    <2>4. CASE literal \in ({"String", "Boolean"} \X {"text"}) \cup ({"Null"} \X {"null"})
      BY <2>4, TypesAre DEF Type!Sorts
    <2> QED BY <2>1, <2>2, <2>3, <2>4
  <1>2. v \in TypedValues
    BY <1>1 DEF TypedValues
  <1>3. Type!Kind(dtype) \in Sides /\ v.dtype \in TypesOf(Type!Kind(dtype)) /\ v.dtype # Unknown
    BY <1>1, KindIs, TypesAre
  <1>4. Type!Push(Type!Kind(dtype), 0, v, v, TRUE) /\ 0 \in 0..Len(types)
    BY FromNothing, Zenon DEF Type!LowerLiteral
  <1> HIDE DEF v, dtype
  <1>5. BothWays(Type!Kind(dtype), v, v)
    <2>1. Related(Type!Kind(dtype), v, v)
      BY <1>2, <1>3 DEF Related, Agree
    <2> QED BY <2>1, NeverDeclined
  <1> QED BY <1>2, <1>3, <1>4, <1>5, Pushed

LEMMA CastStep ==
  ASSUME types \in Seq(Pairs), NEW target \in Type!DTypes, NEW strict \in BOOLEAN,
         Type!LowerCast(target, strict)
  PROVE  types' \in Seq(Pairs) /\ UNCHANGED filter
  <1> DEFINE u == Type!Operands(1)[1]
             kinds == {"Number", "String", "Boolean"}
             x == Type!Cast(FALSE, target, strict, u.typed)
             y == Type!Cast(TRUE, target, strict, u.later)
  <1>1. /\ Type!OfKinds(1, kinds)
        /\ Type!Push(Type!Kind(target), 1, Type!OrDeclined({u.typed}, x),
                     Type!OrDeclined({u.later}, y), TRUE)
    BY DEF Type!LowerCast, Type!Unary
  <1>2. x \in TypedValues \cup {Declined} /\ y \in TypedValues \cup {Declined}
        /\ Type!Kind(target) \in Sides
    BY CastType, KindIs
  <1>3. \A k \in kinds \cap Sides : Related(k, u.typed, u.later) => BothWays(Type!Kind(target), x, y)
    BY CastRelated
  <1> HIDE DEF x, y, kinds
  <1> QED BY <1>1, <1>2, <1>3, SingleStep

LEMMA ArithmeticStep ==
  ASSUME types \in Seq(Pairs), NEW rel \in {"Plus", "Minus", "TrueDivide"},
         Type!LowerArithmetic(rel)
  PROVE  types' \in Seq(Pairs) /\ UNCHANGED filter
  <1> DEFINE u == Type!Operands(2)[1]
             v == Type!Operands(2)[2]
             x == Type!Arithmetic(FALSE, rel, u.typed, v.typed)
             y == Type!Arithmetic(TRUE, rel, u.later, v.later)
             kind == types[Len(types)].kind
  <1>1. PICK k \in {"Number", "String"} : Type!OfKinds(2, {k}) /\ (k = "String" => rel = "Plus")
    BY DEF Type!LowerArithmetic
  <1>2. Type!Push(kind, 2, Type!OrDeclined({u.typed, v.typed}, x),
                           Type!OrDeclined({u.later, v.later}, y), TRUE)
    BY DEF Type!LowerArithmetic, Type!Binary
  <1>3. kind = k
    <2>1. 2 \in 0..Len(types) /\ v.kind = k
      BY <1>1, TypeOperands
    <2>2. v = types[Len(types)]
      <3>1. 2 \in 1..2 /\ Len(types) - 2 + 2 = Len(types)
        BY <2>1
      <3>2. v = types[Len(types) - 2 + 2]
        BY <2>1, <3>1, TailIs DEF Type!Operands
      <3> QED BY <3>1, <3>2
    <2> QED BY <2>1, <2>2
  <1>4. x \in TypedValues \cup {Declined} /\ y \in TypedValues \cup {Declined} /\ k \in Sides
    BY ArithmeticType DEF Sides
  <1>5. \A i, j \in {k} \cap Sides :
          Related(i, u.typed, u.later) /\ Related(j, v.typed, v.later) => BothWays(k, x, y)
    BY <1>1, ArithmeticRelated
  <1> HIDE DEF x, y, kind
  <1> QED BY <1>1, <1>2, <1>3, <1>4, <1>5, DoubleStep

LEMMA RemainderStep ==
  ASSUME types \in Seq(Pairs), NEW rel \in {"Modulus", "FloorDivide"},
         Type!LowerRemainderOrFloor(rel)
  PROVE  types' \in Seq(Pairs) /\ UNCHANGED filter
  <1> DEFINE u == Type!Operands(2)[1]
             v == Type!Operands(2)[2]
             floor == rel = "FloorDivide"
             x == Type!RemainderOrFloor(FALSE, floor, u.typed, v.typed)
             y == Type!RemainderOrFloor(TRUE, floor, u.later, v.later)
             heeds == FALSE
  <1>1. /\ Type!OfKinds(2, {"Number"})
        /\ Type!Push("Number", 2, Type!OrDeclined({u.typed, v.typed}, x),
                                  Type!OrDeclined({u.later, v.later}, y), heeds)
    BY DEF Type!LowerRemainderOrFloor, Type!Binary
  <1>2. x \in TypedValues \cup {Declined} /\ y \in TypedValues \cup {Declined}
    BY RemainderType
  <1>3. \A j, k \in {"Number"} \cap Sides :
          /\ Related(j, u.typed, u.later) /\ Related(k, v.typed, v.later)
          /\ heeds \/ (u.later = u.typed /\ v.later = v.typed)
          => BothWays("Number", x, y)
    <2>1. floor \in BOOLEAN
      OBVIOUS
    <2> HIDE DEF floor
    <2> QED BY <2>1, RemainderRelated
  <1>4. "Number" \in Sides
    BY DEF Sides
  <1> HIDE DEF x, y, heeds
  <1> QED BY <1>1, <1>2, <1>3, <1>4, DoubleStep

LEMMA FunctionOfOneStep ==
  ASSUME types \in Seq(Pairs), Type!OfKinds(1, {"Number"}),
         \/ Type!Unary("Number", LAMBDA later, v : Type!Value(v.dtype))
         \/ Type!Unary("Number", Type!Rounded)
         \/ \E name \in {"Sqrt", "Log"} :
              Type!Unary("Number", LAMBDA later, v : Type!RootOrLog(later, name, v))
  PROVE  types' \in Seq(Pairs) /\ UNCHANGED filter
  <1> DEFINE u == Type!Operands(1)[1]
             t == u.typed
             l == u.later
             Pushes(x, y) ==
               Type!Push("Number", 1, Type!OrDeclined({t}, x), Type!OrDeclined({l}, y), TRUE)
  <1>1. \/ Pushes(Type!Value(t.dtype), Type!Value(l.dtype))
        \/ Pushes(Type!Rounded(FALSE, t), Type!Rounded(TRUE, l))
        \/ \E name \in {"Sqrt", "Log"} :
             Pushes(Type!RootOrLog(FALSE, name, t), Type!RootOrLog(TRUE, name, l))
    BY DEF Type!Unary
  <1>2. PICK x, y :
          /\ Pushes(x, y)
          /\ t \in TypedValues => x \in TypedValues \cup {Declined}
          /\ l \in TypedValues => y \in TypedValues \cup {Declined}
          /\ Related("Number", t, l) => BothWays("Number", x, y)
    <2> HIDE DEF u, Pushes, t, l
    <2>1. CASE Pushes(Type!Value(t.dtype), Type!Value(l.dtype))
      <3>1. /\ t \in TypedValues => Type!Value(t.dtype) \in TypedValues \cup {Declined}
            /\ l \in TypedValues => Type!Value(l.dtype) \in TypedValues \cup {Declined}
        BY FunctionType
      <3>2. Related("Number", t, l) => BothWays("Number", Type!Value(t.dtype), Type!Value(l.dtype))
        BY RelatedNumbers, NeverDeclined
      <3> QED BY <2>1, <3>1, <3>2
    <2>2. CASE Pushes(Type!Rounded(FALSE, t), Type!Rounded(TRUE, l))
      <3>1. /\ t \in TypedValues => Type!Rounded(FALSE, t) \in TypedValues \cup {Declined}
            /\ l \in TypedValues => Type!Rounded(TRUE, l) \in TypedValues \cup {Declined}
        BY FunctionType
      <3> QED BY <2>2, <3>1, RoundedRelated
    <2>3. ASSUME NEW name \in {"Sqrt", "Log"},
                 Pushes(Type!RootOrLog(FALSE, name, t), Type!RootOrLog(TRUE, name, l))
          PROVE  \E x, y :
                   /\ Pushes(x, y)
                   /\ t \in TypedValues => x \in TypedValues \cup {Declined}
                   /\ l \in TypedValues => y \in TypedValues \cup {Declined}
                   /\ Related("Number", t, l) => BothWays("Number", x, y)
      <3>1. /\ t \in TypedValues => Type!RootOrLog(FALSE, name, t) \in TypedValues \cup {Declined}
            /\ l \in TypedValues => Type!RootOrLog(TRUE, name, l) \in TypedValues \cup {Declined}
        BY FunctionType
      <3>2. Related("Number", t, l)
              => BothWays("Number", Type!RootOrLog(FALSE, name, t), Type!RootOrLog(TRUE, name, l))
        BY RootOrLogRelated
      <3> QED BY <2>3, <3>1, <3>2
    <2> QED BY <1>1, <2>1, <2>2, <2>3
  <1>3. \A k \in {"Number"} \cap Sides : Related(k, t, l) => BothWays("Number", x, y)
    BY <1>2
  <1> QED BY <1>2, <1>3, SingleStep DEF Sides

LEMMA FunctionOfTwoStep ==
  ASSUME types \in Seq(Pairs), Type!OfKinds(2, {"Number"}),
         \/ Type!Binary("Number", TRUE, LAMBDA later, l, r : Type!FillNull(l, r))
         \/ Type!Binary("Number", TRUE, Type!Extreme)
         \/ Type!Binary("Number", TRUE, Type!Power)
  PROVE  types' \in Seq(Pairs) /\ UNCHANGED filter
  <1> DEFINE t == Type!Operands(2)[1].typed
             l == Type!Operands(2)[1].later
             u == Type!Operands(2)[2].typed
             m == Type!Operands(2)[2].later
             Pushes(x, y) ==
               Type!Push("Number", 2, Type!OrDeclined({t, u}, x), Type!OrDeclined({l, m}, y), TRUE)
             Fine(x, y) ==
               /\ {t, u} \subseteq TypedValues => x \in TypedValues \cup {Declined}
               /\ {l, m} \subseteq TypedValues => y \in TypedValues \cup {Declined}
               /\ Related("Number", t, l) /\ Related("Number", u, m) => BothWays("Number", x, y)
  <1>1. \/ Pushes(Type!FillNull(t, u), Type!FillNull(l, m))
        \/ Pushes(Type!Extreme(FALSE, t, u), Type!Extreme(TRUE, l, m))
        \/ Pushes(Type!Power(FALSE, t, u), Type!Power(TRUE, l, m))
    BY DEF Type!Binary
  <1>2. /\ Fine(Type!FillNull(t, u), Type!FillNull(l, m))
        /\ Fine(Type!Extreme(FALSE, t, u), Type!Extreme(TRUE, l, m))
        /\ Fine(Type!Power(FALSE, t, u), Type!Power(TRUE, l, m))
    <2> HIDE DEF t, u, l, m
    <2>1. Fine(Type!FillNull(t, u), Type!FillNull(l, m))
      BY FunctionType, FillNullRelated
    <2>2. Fine(Type!Extreme(FALSE, t, u), Type!Extreme(TRUE, l, m))
      BY FunctionType, ExtremeRelated
    <2>3. Fine(Type!Power(FALSE, t, u), Type!Power(TRUE, l, m))
      BY FunctionType, PowerRelated
    <2> QED BY <2>1, <2>2, <2>3
  <1>3. PICK x, y : Pushes(x, y) /\ Fine(x, y)
    <2> HIDE DEF Pushes, Fine, t, u, l, m
    <2> QED BY <1>1, <1>2
  <1>4. \A j, k \in {"Number"} \cap Sides :
          Related(j, t, l) /\ Related(k, u, m) => BothWays("Number", x, y)
    BY <1>3
  <1>5. /\ {t, u} \subseteq TypedValues => x \in TypedValues \cup {Declined}
        /\ {l, m} \subseteq TypedValues => y \in TypedValues \cup {Declined}
        /\ Pushes(x, y)
    BY <1>3
  <1>6. "Number" \in Sides
    BY DEF Sides
  <1> QED BY <1>4, <1>5, <1>6, DoubleStep

LEMMA TernaryStep ==
  ASSUME types \in Seq(Pairs), Type!LowerTernary
  PROVE  types' \in Seq(Pairs) /\ UNCHANGED filter
  <1> DEFINE u == Type!Operands(2)[1]
             v == Type!Operands(2)[2]
             x == Type!Ternary(u.typed, v.typed)
             y == Type!Ternary(u.later, v.later)
  <1>1. PICK kind \in {"Number", "String", "Boolean"} :
          /\ Type!OfKinds(2, {kind, "Null"})
          /\ Type!Binary(kind, FALSE, LAMBDA later, t, f : Type!Ternary(t, f))
    BY DEF Type!LowerTernary
  <1>2. Type!Push(kind, 2, Type!OrDeclined({u.typed, v.typed}, x),
                           Type!OrDeclined({u.later, v.later}, y), FALSE)
    BY <1>1 DEF Type!Binary
  <1>3. /\ {u.typed, v.typed} \subseteq TypedValues => x \in TypedValues \cup {Declined}
        /\ {u.later, v.later} \subseteq TypedValues => y \in TypedValues \cup {Declined}
    BY TernaryType
  <1>4. \A j, k \in {kind, "Null"} \cap Sides :
          /\ Related(j, u.typed, u.later) /\ Related(k, v.typed, v.later)
          /\ FALSE \/ (u.later = u.typed /\ v.later = v.typed)
          => BothWays(kind, x, y)
    BY TernaryRelated
  <1>5. Type!OfKinds(2, {kind, "Null"}) /\ kind \in Sides
    BY <1>1 DEF Sides
  <1> HIDE DEF x, y
  <1> QED BY <1>2, <1>3, <1>4, <1>5, DoubleStep

\* What no value of unknown type decides is decided without the schema.
LEMMA ComparedLater ==
  ASSUME NEW l, NEW r, NEW elements, NEW inner
  PROVE  /\ Type!Compares(TRUE, l, r) = TRUE
         /\ Type!ComparesList(TRUE, l, elements) = TRUE
         /\ Type!Contains(TRUE, inner, l) = TRUE
         /\ Type!ComparesNulls(FALSE, l, r) => Type!ComparesNulls(TRUE, l, r)
  <1>1. Type!Compares(TRUE, l, r) = TRUE
    BY DEF Type!Compares
  <1>2. Type!ComparesList(TRUE, l, elements) = TRUE /\ Type!Contains(TRUE, inner, l) = TRUE
    BY DEF Type!ComparesList, Type!Contains
  <1>3. Type!ComparesNulls(FALSE, l, r) => Type!ComparesNulls(TRUE, l, r)
    <2> DEFINE exact == (l.dtype = r.dtype /\ l.dtype \in {"Boolean", "String"}) \/ Type!BothInteger({l, r})
    <2>1. \A later : Type!ComparesNulls(later, l, r)
            = IF "null" \in {l.literal, r.literal} THEN TRUE
              ELSE IF Type!IsLiteral(l) \/ Type!IsLiteral(r) THEN Type!Compares(later, l, r)
              ELSE exact
      BY DEF Type!ComparesNulls
    <2> HIDE DEF exact
    <2>2. CASE "null" \in {l.literal, r.literal}
      BY <2>1, <2>2
    <2>3. CASE "null" \notin {l.literal, r.literal} /\ (Type!IsLiteral(l) \/ Type!IsLiteral(r))
      <3>1. Type!ComparesNulls(TRUE, l, r) = Type!Compares(TRUE, l, r)
        BY <2>1, <2>3
      <3> QED BY <1>1, <3>1
    <2>4. CASE "null" \notin {l.literal, r.literal} /\ ~(Type!IsLiteral(l) \/ Type!IsLiteral(r))
      <3>1. Type!ComparesNulls(TRUE, l, r) = exact /\ Type!ComparesNulls(FALSE, l, r) = exact
        BY <2>1, <2>4
      <3> QED BY <3>1
    <2> QED BY <2>2, <2>3, <2>4
  <1> QED BY <1>1, <1>2, <1>3

LEMMA Concluded ==
  ASSUME types \in Seq(Pairs), NEW n \in 1..2, NEW kinds, Type!OfKinds(n, kinds),
         NEW x, NEW y, NEW heeds,
         heeds \/ (/\ Type!Operands(n)[1].later = Type!Operands(n)[1].typed
                   /\ Type!Operands(n)[n].later = Type!Operands(n)[n].typed) => (x => y),
         types' = SubSeq(types, 1, Len(types) - n),
         filter'.typed = (Declined \notin {Type!Operands(n)[1].typed, Type!Operands(n)[n].typed} /\ x),
         filter'.later = (Declined \notin {Type!Operands(n)[1].later, Type!Operands(n)[n].later} /\ y),
         filter'.blind = Type!Blind(n, heeds)
  PROVE  types' \in Seq(Pairs) /\ (filter'.typed => filter'.later \/ filter'.blind)
  <1> DEFINE u == Type!Operands(n)[1]
             v == Type!Operands(n)[n]
  <1>1. n \in 0..Len(types) /\ u \in Pairs /\ v \in Pairs
    BY TypeOperands
  <1>2. types' \in Seq(Pairs)
    BY <1>1, TailIs
  <1>3. ~u.blind /\ ~v.blind /\ Declined \notin {u.typed, v.typed} => Declined \notin {u.later, v.later}
    <2> HIDE DEF u, v
    <2> QED BY <1>1, BothSides
  <1>4. ~Type!Blind(n, heeds)
          => ~u.blind /\ ~v.blind /\ (heeds \/ (u.later = u.typed /\ v.later = v.typed))
    <2>1. 1 \in 1..n /\ n \in 1..n
      OBVIOUS
    <2> QED BY <2>1, Zenon DEF Type!Blind
  <1> HIDE DEF u, v
  <1> QED BY <1>2, <1>3, <1>4 DEF u, v

LEMMA PredicateStep ==
  ASSUME types \in Seq(Pairs),
         \/ Type!LowerComparison \/ Type!LowerNullSafe
         \/ \E dtype \in Type!DTypes : Type!LowerIsIn(dtype) \/ Type!LowerContains(dtype)
  PROVE  types' \in Seq(Pairs) /\ (filter'.typed => filter'.later \/ filter'.blind)
  <1>1. CASE Type!LowerComparison
    <2> DEFINE u == Type!Operands(2)[1]
               v == Type!Operands(2)[2]
               x == Type!Compares(FALSE, u.typed, v.typed)
               y == Type!Compares(TRUE, u.later, v.later)
               heeds == TRUE
    <2>1. PICK kinds : Type!OfKinds(2, kinds)
      BY <1>1 DEF Type!LowerComparison, Type!SameKind
    <2>2. /\ types' = SubSeq(types, 1, Len(types) - 2)
          /\ filter'.typed = (Declined \notin {u.typed, v.typed} /\ x)
          /\ filter'.later = (Declined \notin {u.later, v.later} /\ y)
          /\ filter'.blind = Type!Blind(2, heeds)
      BY <1>1 DEF Type!LowerComparison, Type!Conclude
    <2>3. heeds \/ (u.later = u.typed /\ v.later = v.typed) => (x => y)
      BY ComparedLater
    <2> HIDE DEF x, y, heeds
    <2>4. 2 \in 1..2
      OBVIOUS
    <2> QED BY <2>1, <2>2, <2>3, <2>4, Concluded
  <1>2. CASE Type!LowerNullSafe
    <2> DEFINE u == Type!Operands(2)[1]
               v == Type!Operands(2)[2]
               x == Type!ComparesNulls(FALSE, u.typed, v.typed)
               y == Type!ComparesNulls(TRUE, u.later, v.later)
               heeds == FALSE
    <2>1. PICK kinds : Type!OfKinds(2, kinds)
      BY <1>2 DEF Type!LowerNullSafe, Type!SameKind
    <2>2. /\ types' = SubSeq(types, 1, Len(types) - 2)
          /\ filter'.typed = (Declined \notin {u.typed, v.typed} /\ x)
          /\ filter'.later = (Declined \notin {u.later, v.later} /\ y)
          /\ filter'.blind = Type!Blind(2, heeds)
      BY <1>2 DEF Type!LowerNullSafe, Type!Conclude
    <2>3. heeds \/ (u.later = u.typed /\ v.later = v.typed) => (x => y)
      BY ComparedLater
    <2> HIDE DEF x, y, heeds
    <2>4. 2 \in 1..2
      OBVIOUS
    <2> QED BY <2>1, <2>2, <2>3, <2>4, Concluded
  <1>3. ASSUME NEW dtype \in Type!DTypes, Type!LowerIsIn(dtype)
        PROVE  types' \in Seq(Pairs) /\ (filter'.typed => filter'.later \/ filter'.blind)
    <2> DEFINE u == Type!Operands(1)[1]
               x == Type!ComparesList(FALSE, u.typed, dtype)
               y == Type!ComparesList(TRUE, u.later, dtype)
               heeds == TRUE
    <2>1. PICK kinds : Type!OfKinds(1, kinds)
      BY <1>3 DEF Type!LowerIsIn
    <2>2. /\ types' = SubSeq(types, 1, Len(types) - 1)
          /\ filter'.typed = (Declined \notin {u.typed, u.typed} /\ x)
          /\ filter'.later = (Declined \notin {u.later, u.later} /\ y)
          /\ filter'.blind = Type!Blind(1, heeds)
      BY <1>3 DEF Type!LowerIsIn, Type!Conclude
    <2>3. heeds \/ (u.later = u.typed /\ u.later = u.typed) => (x => y)
      BY ComparedLater
    <2> HIDE DEF x, y, heeds
    <2>4. 1 \in 1..2
      OBVIOUS
    <2> QED BY <2>1, <2>2, <2>3, <2>4, Concluded
  <1>4. ASSUME NEW dtype \in Type!DTypes, Type!LowerContains(dtype)
        PROVE  types' \in Seq(Pairs) /\ (filter'.typed => filter'.later \/ filter'.blind)
    <2> DEFINE u == Type!Operands(1)[1]
               x == Type!Contains(FALSE, dtype, u.typed)
               y == Type!Contains(TRUE, Unknown, u.later)
               heeds == TRUE
    <2>1. PICK kinds : Type!OfKinds(1, kinds)
      BY <1>4 DEF Type!LowerContains
    <2>2. /\ types' = SubSeq(types, 1, Len(types) - 1)
          /\ filter'.typed = (Declined \notin {u.typed, u.typed} /\ x)
          /\ filter'.later = (Declined \notin {u.later, u.later} /\ y)
          /\ filter'.blind = Type!Blind(1, heeds)
      BY <1>4 DEF Type!LowerContains, Type!Conclude
    <2>3. heeds \/ (u.later = u.typed /\ u.later = u.typed) => (x => y)
      BY ComparedLater
    <2> HIDE DEF x, y, heeds
    <2>4. 1 \in 1..2
      OBVIOUS
    <2> QED BY <2>1, <2>2, <2>3, <2>4, Concluded
  <1> QED BY <1>1, <1>2, <1>3, <1>4

PairsInv == types \in Seq(Pairs) /\ (filter.typed => filter.later \/ filter.blind)

LEMMA PairsStep ==
  ASSUME PairsInv, Type!Next
  PROVE  PairsInv'
  <1>1. types \in Seq(Pairs) /\ (filter.typed => filter.later \/ filter.blind)
    BY DEF PairsInv
  <1>2. SUFFICES types' \in Seq(Pairs) /\ (UNCHANGED filter \/ (filter'.typed => filter'.later \/ filter'.blind))
    BY <1>1 DEF PairsInv
  <1>3. ASSUME NEW dtype \in Type!DTypes, Type!LowerColumn(dtype)
        PROVE  types' \in Seq(Pairs) /\ UNCHANGED filter
    BY <1>1, <1>3, ColumnStep
  <1>4. ASSUME NEW literal \in Type!Literals, Type!LowerLiteral(literal[1], literal[2])
        PROVE  types' \in Seq(Pairs) /\ UNCHANGED filter
    BY <1>1, <1>4, LiteralStep
  <1>5. ASSUME NEW target \in Type!DTypes, NEW strict \in BOOLEAN, Type!LowerCast(target, strict)
        PROVE  types' \in Seq(Pairs) /\ UNCHANGED filter
    BY <1>1, <1>5, CastStep
  <1>6. ASSUME NEW rel \in {"Plus", "Minus", "TrueDivide"}, Type!LowerArithmetic(rel)
        PROVE  types' \in Seq(Pairs) /\ UNCHANGED filter
    BY <1>1, <1>6, ArithmeticStep
  <1>7. ASSUME NEW rel \in {"Modulus", "FloorDivide"}, Type!LowerRemainderOrFloor(rel)
        PROVE  types' \in Seq(Pairs) /\ UNCHANGED filter
    BY <1>1, <1>7, RemainderStep
  <1>8. CASE Type!LowerFunction
    <2>1. CASE /\ Type!OfKinds(1, {"Number"})
               /\ \/ Type!Unary("Number", LAMBDA later, v : Type!Value(v.dtype))
                  \/ Type!Unary("Number", Type!Rounded)
                  \/ \E name \in {"Sqrt", "Log"} :
                       Type!Unary("Number", LAMBDA later, v : Type!RootOrLog(later, name, v))
      BY <1>1, <2>1, FunctionOfOneStep
    <2>2. CASE /\ Type!OfKinds(2, {"Number"})
               /\ \/ Type!Binary("Number", TRUE, LAMBDA later, l, r : Type!FillNull(l, r))
                  \/ Type!Binary("Number", TRUE, Type!Extreme)
                  \/ Type!Binary("Number", TRUE, Type!Power)
      BY <1>1, <2>2, FunctionOfTwoStep
    <2> QED BY <1>8, <2>1, <2>2 DEF Type!LowerFunction
  <1>9. CASE Type!LowerTernary
    BY <1>1, <1>9, TernaryStep
  <1>10. ASSUME \/ Type!LowerComparison \/ Type!LowerNullSafe
                \/ \E dtype \in Type!DTypes : Type!LowerIsIn(dtype) \/ Type!LowerContains(dtype)
         PROVE  types' \in Seq(Pairs) /\ (filter'.typed => filter'.later \/ filter'.blind)
    BY <1>1, <1>10, PredicateStep
  <1>11. {"Int64", "Float32", "Float64", "String", "Boolean"} \subseteq Type!DTypes
    BY TypesAre
  <1> QED BY <1>3, <1>4, <1>5, <1>6, <1>7, <1>8, <1>9, <1>10, <1>11 DEF Type!Next

\* A prefilter that the schema lets through is not refused before the schema is
\* known, however deep it is, unless one of the four operations that go by the types
\* at hand met a value that the schema says more about (scan_lance, lower_predicate).
THEOREM NothingIsRefusedForItsTypes == Type!Spec => []NeverDeclinesForItsTypes
  <1>1. Type!Init => PairsInv
    BY DEF Type!Init, PairsInv
  <1>2. PairsInv /\ [Type!Next]_(Type!vars) => PairsInv'
    <2>1. ASSUME PairsInv, Type!Next PROVE PairsInv'
      BY <2>1, PairsStep
    <2>2. ASSUME PairsInv, UNCHANGED Type!vars PROVE PairsInv'
      BY <2>2 DEF PairsInv, Type!vars
    <2> QED BY <2>1, <2>2
  <1>3. PairsInv => NeverDeclinesForItsTypes
    <2> SUFFICES ASSUME PairsInv PROVE NeverDeclinesForItsTypes
      OBVIOUS
    <2>1. \A i \in 1..Len(types) : types[i] \in Pairs
      BY DEF PairsInv
    <2>2. \A i \in 1..Len(types) :
            types[i].later = Declined => types[i].typed = Declined \/ types[i].blind
      BY <2>1, BothSides
    <2> QED BY <2>2 DEF PairsInv, NeverDeclinesForItsTypes, Type!NeverDeclinesForItsTypes
  <1> QED BY <1>1, <1>2, <1>3, PTL DEF Type!Spec
=============================================================================
