--------------------------- MODULE TypesKnownLater ---------------------------
(***************************************************************************)
(* The two lowerings of a prefilter in _predicate.py: one when the scan is *)
(* built, before the schema is at hand, which assumes of a value of        *)
(* unknown type that the schema will settle it (types_known_later), and    *)
(* one with the schema, when the scan runs.  The first only checks that    *)
(* the second will be possible; a prefilter it declines is refused.        *)
(*                                                                         *)
(* The walk is that of ValueLowering.  Of a value there is only what the   *)
(* guards look at: its type as far as it is known, and of which sort it is *)
(* if it is a literal.  Besides, it is recorded (blind) whether one of the *)
(* four operations that go by the types at hand, whatever the mode, met an *)
(* operand of which the schema says more than is known without it.         *)
(***************************************************************************)
EXTENDS Integers, Sequences

CONSTANTS Unknown,    \* Python's None in place of a type
          Declined,   \* a value that does not translate
          MaxStack    \* bound on the values waiting for their operation

VARIABLES stack,     \* values, lowered both ways
          filter     \* the predicate that was made of them, lowered both ways

vars == <<stack, filter>>

Integer == {"Int8", "Int64", "UInt64"}
Floating == {"Float32", "Float64"}
Numeric == Integer \cup Floating
DTypes == Numeric \cup {"String", "Boolean", "Null"}

\* A value is no literal, or it is a null, a whole number, minus one, a fraction or
\* a text.
Sorts == {"none", "null", "whole", "minus one", "fraction", "text"}
Value(dtype) == [dtype |-> dtype, literal |-> "none"]
IsLiteral(v) == v.literal # "none"
Untyped(v) == v.dtype = Unknown /\ ~IsLiteral(v)
MaybeNumber(v) == v.dtype \in Numeric \cup {Unknown}

\* Written without a type of its own, as 1 or 1.5.
Bare(v) == IsLiteral(v) /\ v.dtype \in {"Int64", "Float64"}

Kind(dtype) == IF dtype \in Numeric THEN "Number" ELSE dtype

NumericSupertype(l, r) ==
  IF {l, r} \cap Floating # {}
  THEN IF {l, r} \subseteq {"Float32", "Int8"} THEN "Float32" ELSE "Float64"
  ELSE IF {l, r} \subseteq Integer THEN "Int64" ELSE Unknown

\* All integers, none a UInt64.
BothInteger(vs) == {v.dtype : v \in vs} \subseteq Integer \ {"UInt64"}

-----------------------------------------------------------------------------
(* The operations.  `later` is types_known_later.                          *)

TryCastExact(target, source) ==
  LET scalar == source \in Integer \cup {"Boolean"}
  IN  \/ scalar
      \/ target = "String" /\ source = "String"
      \/ target = "Boolean" /\ source \in Floating
      \/ target \in Numeric /\ source \in Floating \cup {"String"}

Cast(later, target, strict, v) ==
  IF strict \/ (Untyped(v) /\ later) \/ TryCastExact(target, v.dtype)
  THEN Value(target) ELSE Declined

Arithmetic(later, op, l, r) ==
  IF op = "Plus" /\ "String" \in {l.dtype, r.dtype} THEN Value("String")
  ELSE IF (Untyped(l) \/ Untyped(r)) /\ ~later THEN Declined
  ELSE Value(IF op = "TrueDivide" THEN "Float64" ELSE NumericSupertype(l.dtype, r.dtype))

\* A Float32 beside a wider operand is left to Polars, as is a fraction.
FloatFloor(later, a, b) ==
  LET dtype == NumericSupertype(a.dtype, b.dtype)
  IN  IF /\ \A v \in {a, b} : v.dtype \in Numeric \/ (Untyped(v) /\ later)
         /\ \A v \in {a, b} : v.literal \notin {"null", "fraction"}
         /\ "Float32" \in {a.dtype, b.dtype} => dtype = "Float32"
      THEN Value(dtype) ELSE Declined

RemainderOrFloor(later, floor, a, b) ==
  IF {a.dtype, b.dtype} \cap Floating # {} THEN FloatFloor(later, a, b)
  ELSE IF /\ floor => /\ IsLiteral(b) /\ b.literal # "minus one"
                      /\ "UInt64" \notin {a.dtype, b.dtype}
          /\ \A v \in {a, b} : v.dtype \in Integer \/ (Untyped(v) /\ later)
  THEN Value(NumericSupertype(a.dtype, b.dtype)) ELSE Declined

\* An integer is its own floor.
Rounded(later, v) ==
  IF v.dtype \in Integer THEN v
  ELSE IF v.dtype \in Floating \/ (Untyped(v) /\ later) THEN Value(v.dtype) ELSE Declined

FillNull(l, r) == Value(NumericSupertype(l.dtype, r.dtype))

Extreme(later, l, r) ==
  IF (Untyped(l) \/ Untyped(r)) /\ ~later THEN Declined
  ELSE Value(NumericSupertype(l.dtype, r.dtype))

\* To a large or fractional Float64; a Float32 base is left to Polars.
Power(later, base, exponent) ==
  IF /\ exponent.dtype = "Float64" /\ IsLiteral(exponent)
     /\ base.dtype \in Integer \cup {"Float64"} \/ (Untyped(base) /\ later)
  THEN Value("Float64") ELSE Declined

RootOrLog(later, name, v) ==
  IF \/ v.dtype \notin Numeric \cup {Unknown}
     \/ name = "Log" /\ ((Untyped(v) /\ ~later) \/ v.dtype = "Float32")
  THEN Declined ELSE Value(IF v.dtype = "Float32" THEN "Float32" ELSE "Float64")

\* A literal is spelled as the float that it is compared to.
CoerceLiteral(v, other) ==
  IF ~IsLiteral(v) \/ IsLiteral(other) THEN v
  ELSE IF Bare(v) /\ other.dtype = "Float32" THEN [v EXCEPT !.dtype = "Float32"]
  ELSE IF v.dtype \in Integer /\ other.dtype \in Floating THEN [v EXCEPT !.dtype = "Float64"]
  ELSE v

\* when/then/otherwise over an exact condition: both branches share a type.
Ternary(truthy, falsy) ==
  LET t == CoerceLiteral(truthy, falsy)
      f == CoerceLiteral(falsy, t)
  IN  IF f.literal = "null" THEN Value(t.dtype)
      ELSE IF t.literal = "null" \/ t.dtype = f.dtype THEN Value(f.dtype)
      ELSE IF BothInteger({t, f}) THEN Value("Int64") ELSE Declined

\* Deliberately wrong variant: nothing is assumed of a value of unknown type.
ComparesAtOnce(later, l, r) ==
  ~((Untyped(l) /\ MaybeNumber(r)) \/ (Untyped(r) /\ MaybeNumber(l)))

\* Whether _compare lowers a comparison.
Compares(later, l, r) ==
  ~((Untyped(l) /\ MaybeNumber(r)) \/ (Untyped(r) /\ MaybeNumber(l))) \/ later

\* Null-safe equality, with a literal or between two values of one exact type.
ComparesNulls(later, l, r) ==
  IF "null" \in {l.literal, r.literal} THEN TRUE
  ELSE IF IsLiteral(l) \/ IsLiteral(r) THEN Compares(later, l, r)
  ELSE (l.dtype = r.dtype /\ l.dtype \in {"Boolean", "String"}) \/ BothInteger({l, r})

\* is_in: a list of literals, of which there is the type.
ComparesList(later, column, elements) ==
  ~Untyped(column) \/ elements \notin Numeric \/ later

\* list.contains: of a list there is the type of its elements.
Contains(later, inner, needle) ==
  inner # Unknown \/ ~MaybeNumber(needle) \/ later

-----------------------------------------------------------------------------
(* The walk, both ways at once.                                            *)

Operands(n) == SubSeq(stack, Len(stack) - n + 1, Len(stack))
OfKinds(n, kinds) ==
  Len(stack) >= n /\ \A i \in 1..n : Operands(n)[i].kind \in kinds

\* History: whether that happened below, or happens now in an operation that does not
\* heed types_known_later.
Blind(n, heeds) ==
  \E i \in 1..n : LET u == Operands(n)[i] IN u.blind \/ (~heeds /\ u.later # u.typed)

Push(kind, n, typed, later, heeds) ==
  /\ stack' = Append(SubSeq(stack, 1, Len(stack) - n),
                     [kind |-> kind, typed |-> typed, later |-> later, blind |-> Blind(n, heeds)])
  /\ UNCHANGED filter

OrDeclined(args, result) == IF Declined \in args THEN Declined ELSE result

\* Op takes the switch and the operands.
Unary(kind, Op(_, _)) ==
  LET u == Operands(1)[1]
  IN  Push(kind, 1, OrDeclined({u.typed}, Op(FALSE, u.typed)),
                    OrDeclined({u.later}, Op(TRUE, u.later)), TRUE)
Binary(kind, heeds, Op(_, _, _)) ==
  LET u == Operands(2)[1]
      v == Operands(2)[2]
  IN  Push(kind, 2, OrDeclined({u.typed, v.typed}, Op(FALSE, u.typed, v.typed)),
                    OrDeclined({u.later, v.later}, Op(TRUE, u.later, v.later)), heeds)

\* A column, a field of a struct, an element of a list: its type is the schema's.
LowerColumn(dtype) ==
  Len(stack) < MaxStack /\ Push(Kind(dtype), 0, Value(dtype), Value(Unknown), TRUE)

LowerLiteral(dtype, literal) ==
  LET v == [dtype |-> dtype, literal |-> literal]
  IN  Len(stack) < MaxStack /\ Push(Kind(dtype), 0, v, v, TRUE)

LowerCast(target, strict) ==
  /\ OfKinds(1, {"Number", "String", "Boolean"})
  /\ Unary(Kind(target), LAMBDA later, v : Cast(later, target, strict, v))

LowerArithmetic(op) ==
  /\ OfKinds(2, {"Number"}) \/ (op = "Plus" /\ OfKinds(2, {"String"}))
  /\ Binary(stack[Len(stack)].kind, TRUE, LAMBDA later, l, r : Arithmetic(later, op, l, r))

LowerRemainderOrFloor(op) ==
  /\ OfKinds(2, {"Number"})
  /\ Binary("Number", FALSE,
            LAMBDA later, a, b : RemainderOrFloor(later, op = "FloorDivide", a, b))

LowerFunction ==
  \/ OfKinds(1, {"Number"}) /\ Unary("Number", LAMBDA later, v : Value(v.dtype))   \* Abs
  \/ OfKinds(1, {"Number"}) /\ Unary("Number", Rounded)
  \/ \E name \in {"Sqrt", "Log"} :
       OfKinds(1, {"Number"}) /\ Unary("Number", LAMBDA later, v : RootOrLog(later, name, v))
  \/ OfKinds(2, {"Number"}) /\ Binary("Number", TRUE, LAMBDA later, l, r : FillNull(l, r))
  \/ OfKinds(2, {"Number"}) /\ Binary("Number", TRUE, Extreme)
  \/ OfKinds(2, {"Number"}) /\ Binary("Number", TRUE, Power)

LowerTernary ==
  /\ \E kind \in {"Number", "String", "Boolean"} :
       /\ OfKinds(2, {kind, "Null"})
       /\ Binary(kind, FALSE, LAMBDA later, t, f : Ternary(t, f))

\* A predicate ends the walk; deeper ones are those of PredicateLowering.
Conclude(n, heeds, Holds(_, _, _)) ==
  LET u == Operands(n)[1]
      v == Operands(n)[n]
      lowers(l, r, later) == Declined \notin {l, r} /\ Holds(later, l, r)
  IN  /\ filter' = [typed |-> lowers(u.typed, v.typed, FALSE),
                    later |-> lowers(u.later, v.later, TRUE), blind |-> Blind(n, heeds)]
      /\ stack' = SubSeq(stack, 1, Len(stack) - n)

SameKind == \E kind \in {"Number", "String", "Boolean"} : OfKinds(2, {kind, "Null"})

LowerComparison == SameKind /\ Conclude(2, TRUE, Compares)
LowerNullSafe == SameKind /\ Conclude(2, FALSE, ComparesNulls)
LowerIsIn(elements) ==
  /\ OfKinds(1, {Kind(elements)})
  /\ Conclude(1, TRUE, LAMBDA later, l, r : ComparesList(later, l, elements))
LowerContains(inner) ==
  /\ OfKinds(1, {Kind(inner)})
  /\ Conclude(1, TRUE, LAMBDA later, l, r : Contains(later, IF later THEN Unknown ELSE inner, l))

Literals ==
  {"Int8", "Int64"} \X {"whole", "minus one"} \cup Floating \X {"whole", "fraction"}
    \cup {"String", "Boolean"} \X {"text"} \cup {"Null"} \X {"null"}

Init == stack = <<>> /\ filter = [typed |-> TRUE, later |-> TRUE, blind |-> FALSE]

Next ==
  \/ \E dtype \in DTypes \ {"Null"} : LowerColumn(dtype)
  \/ \E literal \in Literals : LowerLiteral(literal[1], literal[2])
  \/ \E target \in {"Int64", "Float32", "Float64", "String", "Boolean"}, strict \in BOOLEAN :
       LowerCast(target, strict)
  \/ \E op \in {"Plus", "Minus", "TrueDivide"} : LowerArithmetic(op)
  \/ \E op \in {"Modulus", "FloorDivide"} : LowerRemainderOrFloor(op)
  \/ LowerFunction
  \/ LowerTernary
  \/ LowerComparison \/ LowerNullSafe
  \/ \E dtype \in DTypes \ {"Null"} : LowerIsIn(dtype) \/ LowerContains(dtype)

Spec == Init /\ [][Next]_vars

-----------------------------------------------------------------------------
(* Correctness.                                                            *)

\* What translates with the schema is not declined without it, unless one of the four
\* operations that go by the types at hand has met a value that the schema says more
\* about: % and //, which choose between integers and floats by them, when/then of
\* values and null-safe equality of two values, which compare them.  Everywhere else
\* the mode keeps what lower_predicate promises of it.
NeverDeclinesForItsTypes ==
  /\ \A i \in 1..Len(stack) :
       stack[i].later = Declined => stack[i].typed = Declined \/ stack[i].blind
  /\ filter.typed => filter.later \/ filter.blind

\* lower_predicate: "With `types_known_later`, a value of unknown type is assumed to be
\* one the schema will settle, so it never declines for that reason alone."
TypesNeverDecline ==
  /\ \A i \in 1..Len(stack) : stack[i].later = Declined => stack[i].typed = Declined
  /\ filter.typed => filter.later
=============================================================================
