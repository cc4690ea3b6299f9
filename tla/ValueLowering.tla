---------------------------- MODULE ValueLowering ----------------------------
(***************************************************************************)
(* The expressions in value position of _predicate.py, on one row: what    *)
(* `value` knows of the type and of the NaNs of what it has lowered, and   *)
(* what the SQL makes of the value.  The comparisons of LeafLowering take  *)
(* this knowledge for granted: a value that is wrongly thought to hold no  *)
(* NaN is compared without the tests that put NaNs where Polars has them.  *)
(*                                                                         *)
(* As in PredicateLowering the operands of an operation that is still to   *)
(* be visited wait on a stack.  A number is its sign, a text the number    *)
(* it spells.  The widths of numbers are left out; FunctionLowering has    *)
(* the texts and IntegerDivision the division of integers.  The two sides  *)
(* are taken to agree on what a kernel computes where the code relies on   *)
(* it, so an arithmetic result is one choice for both.                     *)
(***************************************************************************)
EXTENDS Markers, Integers, Sequences, FiniteSetsExt

CONSTANTS NoNumber,      \* a float that is not a number
          Garbled,       \* a text that spells no number
          Unknown,       \* Python's None in place of a type
          Respelt,       \* what the SQL makes of a float that Lance has spelt its own way
          MaxStack       \* bound on the values waiting for their operation

\* Lowered values, the one lowered last at the end: for each its Polars type (kind)
\* and value, the value of its SQL, and what _Value knows of it (dtype, literal, and
\* whether it cannot be a NaN, nanFree).
VARIABLE stack

valueVars == <<stack>>

-----------------------------------------------------------------------------
(* Values and their types.                                                 *)

Signs == -1 .. 1
Text(x) == <<x>>   \* what a number is printed as
Texts == {Text(x) : x \in Signs \cup {NoNumber}} \cup {Garbled}

Numeric == {"Float", "Integer"}
Kinds == Numeric \cup {"Boolean", "String", "Null"}

Of(kind) ==
  IF kind = "Float" THEN Signs \cup {NoNumber}
  ELSE IF kind = "Integer" THEN Signs
  ELSE IF kind = "Boolean" THEN {0, 1}
  ELSE IF kind = "String" THEN Texts
  ELSE {}

\* Missing values, NaNs, numbers, texts and types are told apart.
ASSUME ConstantsDiffer ==
  /\ Null \notin Int /\ NoNumber \notin Int /\ Null # NoNumber
  /\ Null \notin Texts /\ NoNumber \notin Texts
  /\ Garbled \notin {Text(x) : x \in Signs \cup {NoNumber}}
  /\ Unknown \notin Kinds
  /\ Respelt \notin Texts \cup Int \cup {Null, NoNumber}
  /\ MaxStack \in Nat

Floating(v) == v.dtype = "Float"
Untyped(v) == v.dtype = Unknown /\ ~v.literal
CannotBeNan(dtype, nanFree) == nanFree \/ dtype \notin {"Float", Unknown}
CouldBeNan(v) == Floating(v) /\ ~v.nanFree
NullLiteral(v) == v.literal /\ v.sql = Null

\* Deliberately wrong variant: a number of unknown type is of the other's type.
NumericSupertypeGuessed(l, r) ==
  IF "Float" \in {l, r} THEN "Float"
  ELSE IF l \in {"Integer", Unknown} /\ r \in {"Integer", Unknown} THEN "Integer"
  ELSE Unknown

NumericSupertype(l, r) ==
  IF "Float" \in {l, r} THEN "Float" ELSE IF l = "Integer" /\ r = "Integer" THEN "Integer"
  ELSE Unknown

\* The type Polars gives two values that meet; the code has its own reckoning.
Alike(u, v) == u.kind = v.kind \/ {u.kind, v.kind} \subseteq Numeric \/ "Null" \in {u.kind, v.kind}
Supertype(j, k) ==
  IF j = "Null" THEN k ELSE IF k = "Null" \/ j = k THEN j ELSE "Float"

-----------------------------------------------------------------------------
(* Casts.                                                                  *)

\* Polars has a value of the other kind for this one.
Converts(x, from, to) ==
  /\ from = "String" /\ to # "String" =>
       x # Garbled /\ to # "Boolean" /\ (to = "Integer" => x # Text(NoNumber))
  /\ to = "Integer" => x # NoNumber

Convert(x, from, to) ==
  IF from = to THEN x
  ELSE IF from = "String" THEN x[1]
  ELSE IF to = "String" THEN IF from = "Boolean" THEN Garbled ELSE Text(x)
  ELSE IF to = "Boolean" THEN IF x = 0 THEN 0 ELSE 1
  ELSE x

\* _try_cast_exact.
TryCastExact(target, source) ==
  LET scalar == source \in {"Integer", "Boolean"}
  IN  \/ scalar
      \/ target = "String" /\ source = "String"
      \/ target = "Boolean" /\ source = "Float"
      \/ target \in Numeric /\ source \in {"Float", "String"}

\* Lance prints some floats in another way, and a strict cast to text is pushed down
\* all the same.
SqlConversions(v, to, strict, converted) ==
  IF v.kind = "Float" /\ to = "String" /\ v.value \in Signs
  THEN {converted, IF strict THEN Respelt ELSE Garbled} ELSE {converted}

\* Deliberately wrong variant: a value known to hold no NaN is cast to one.
CastNanFreeText(v, target) == v.nanFree

\* A string can parse to NaN.
CastNanFree(v, target) == v.nanFree /\ v.dtype # "String"

-----------------------------------------------------------------------------
(* least and greatest, that skip nulls.                                    *)

PolarsExtreme(fn, S) ==
  LET numbers == S \ {Null, NoNumber}
  IN  IF numbers # {} THEN IF fn = "Min" THEN Min(numbers) ELSE Max(numbers)
      ELSE IF NoNumber \in S THEN NoNumber ELSE Null

\* Lance takes a NaN for the greatest number.
SqlExtreme(fn, S) ==
  IF fn = "Max" /\ NoNumber \in S THEN NoNumber ELSE PolarsExtreme(fn, S)

Coalesce(S, x) == IF x # Null THEN x ELSE IF S \ {Null} = {} THEN Null
                  ELSE CHOOSE y \in S : y # Null

\* Deliberately wrong variant: NaNs are left among the numbers.
LowerExtremePlain(fn, args) == SqlExtreme(fn, {v.sql : v \in args})

\* A NaN is nulled out, and comes back when nothing else remains.
LowerExtreme(fn, args) ==
  LET nans == {v.sql : v \in {u \in args : CouldBeNan(u)}}
      rendered == {IF CouldBeNan(v) /\ v.sql = NoNumber THEN Null ELSE v.sql : v \in args}
  IN  Coalesce(nans, SqlExtreme(fn, rendered))

-----------------------------------------------------------------------------
(* The walk: one operation takes its operands from the stack.              *)

Top == stack[Len(stack)]
Below(n) == SubSeq(stack, 1, Len(stack) - n)
Operand(n, i) == stack[Len(stack) - n + i]

\* What is computed from a float that Lance has spelt its own way is not followed.
Outcome(n, sql) == IF \E i \in 1..n : Operand(n, i).sql = Respelt THEN Respelt ELSE sql

PushValue(kind, value, sql, dtype, nanFree, n) ==
  stack' = Append(Below(n),
                  [kind |-> kind, value |-> value, sql |-> Outcome(n, sql), dtype |-> dtype,
                   literal |-> FALSE, nanFree |-> CannotBeNan(dtype, nanFree)])

NullIf(condition, x) == IF condition THEN Null ELSE x

\* An operation that is null where an operand is; its kernel gives both sides
\* one and the same of the results.
Compute(n, kind, dtype, nanFree, results) ==
  \E r \in results :
    PushValue(kind, NullIf(\E i \in 1..n : Operand(n, i).value = Null, r),
              NullIf(\E i \in 1..n : Operand(n, i).sql = Null, r), dtype, nanFree, n)

ValuesInit == stack = <<>>

\* The type of a column may be known from the schema.
Column(kind, value, known) ==
  /\ Len(stack) < MaxStack
  /\ PushValue(kind, value, value, IF known THEN kind ELSE Unknown, FALSE, 0)

\* A NaN or an infinity is not written out; a null has a type of its own, and
\* becomes a cast when it is given another.
LiteralValue(kind, value) ==
  /\ Len(stack) < MaxStack
  /\ value # NoNumber
  /\ stack' = Append(stack, [kind |-> kind, value |-> value, sql |-> value, dtype |-> kind,
                             literal |-> TRUE, nanFree |-> TRUE])

\* A strict cast that cannot convert the value fails the query for both.
Cast(target, strict) ==
  /\ stack # <<>>
  /\ target \in Kinds \ {"Null"}
  /\ ~strict => TryCastExact(target, Top.dtype)
  /\ LET x == Top.value
         converts == x = Null \/ Converts(x, Top.kind, target)
         converted == IF x = Null \/ ~converts THEN Null ELSE Convert(x, Top.kind, target)
     IN  /\ strict => converts
         /\ \E sql \in SqlConversions(Top, target, strict, converted) :
              PushValue(target, converted, sql, target, CastNanFree(Top, target), 1)

\* Plus on texts is concatenation.
Concatenate ==
  /\ Len(stack) >= 2
  /\ \A i \in 1..2 : Operand(2, i).kind \in {"String", "Null"}
  /\ \E i \in 1..2 : Operand(2, i).dtype = "String"
  /\ Compute(2, "String", "String", FALSE, Texts)

Numbers(n) ==
  /\ Len(stack) >= n
  /\ \A i \in 1..n : Operand(n, i).kind \in Numeric

\* A null that is written out has a type of its own.
NumbersOrNull(n) ==
  /\ Len(stack) >= n
  /\ \A i \in 1..n : Operand(n, i).kind \in Numeric \cup {"Null"}
  /\ \E i \in 1..n : Operand(n, i).kind \in Numeric

Claim(n) == NumericSupertype(Operand(n, 1).dtype, Operand(n, n).dtype)

\* Plus, Minus and Multiply, of numbers whose types are known.
Arithmetic ==
  /\ NumbersOrNull(2)
  /\ \A i \in 1..2 : ~Untyped(Operand(2, i))
  /\ LET kind == Supertype(Operand(2, 1).kind, Operand(2, 2).kind)
     IN  Compute(2, kind, Claim(2), FALSE, Of(kind))

\* The dividend is a double, so that Lance does not divide integers.
TrueDivide ==
  /\ NumbersOrNull(2)
  /\ \A i \in 1..2 : ~Untyped(Operand(2, i))
  /\ Compute(2, "Float", "Float", FALSE, Of("Float"))

\* A remainder or a floor division over floats; IntegerDivision has the integers.
FloatFloor ==
  /\ Numbers(2)
  /\ \A i \in 1..2 : Operand(2, i).dtype \in Numeric /\ ~NullLiteral(Operand(2, i))
  /\ \E i \in 1..2 : Floating(Operand(2, i))
  /\ Compute(2, "Float", Claim(2), FALSE, Of("Float"))

\* Abs and Negate.
Signed(name) ==
  /\ Numbers(1)
  /\ Compute(1, Top.kind, Top.dtype, FALSE,
             IF Top.value \notin Signs THEN {NoNumber}
             ELSE IF name = "Negate" \/ Top.value < 0 THEN {-Top.value} ELSE {Top.value})

\* An integer is its own floor.
Rounded ==
  /\ Numbers(1)
  /\ Floating(Top)
  /\ Compute(1, "Float", Top.dtype, Top.nanFree,
             IF Top.value \in Signs THEN {0, Top.value} ELSE {NoNumber})

\* FillNull, as coalesce.
FillNull ==
  /\ Len(stack) >= 2
  /\ Alike(Operand(2, 1), Operand(2, 2))
  /\ LET l == Operand(2, 1)
         r == Operand(2, 2)
     IN  PushValue(Supertype(l.kind, r.kind), IF l.value = Null THEN r.value ELSE l.value,
                   IF l.sql = Null THEN r.sql ELSE l.sql, Claim(2), FALSE, 2)

\* MinHorizontal and MaxHorizontal, of two or more numbers.
Extreme(fn, n) ==
  /\ n >= 2 /\ NumbersOrNull(n)
  /\ LET args == {Operand(n, i) : i \in 1..n}
         kind == IF \E v \in args : v.kind = "Float" THEN "Float" ELSE "Integer"
         dtypes == {v.dtype : v \in args}
         dtype == IF "Float" \in dtypes THEN "Float"
                  ELSE IF dtypes = {"Integer"} THEN "Integer" ELSE Unknown
     IN  /\ \A v \in args : ~Untyped(v)
         /\ PushValue(kind, PolarsExtreme(fn, {v.value : v \in args}),
                      LowerExtreme(fn, args), dtype, \A v \in args : ~CouldBeNan(v), n)

\* A fractional or large power, computed in Float64.
Power ==
  /\ Numbers(2)
  /\ Operand(2, 1).dtype \in Numeric
  /\ Top.literal /\ Top.dtype = "Float" /\ Top.value # Null /\ Top.value > 0
  /\ Compute(2, "Float", "Float", FALSE, Of("Float"))

\* The cube root is defined everywhere; the others make a NaN of a negative.
RootNanFree(name, v) == name = "Cbrt" /\ v.nanFree

\* Sqrt, Cbrt and the natural logarithm.
RootOrLog(name) ==
  /\ Numbers(1)
  /\ name = "Log" => ~Untyped(Top)
  /\ Compute(1, "Float", "Float", RootNanFree(name, Top),
             IF Top.value \notin Signs \/ (name # "Cbrt" /\ Top.value < 0) THEN {NoNumber}
             ELSE IF name = "Log" THEN Signs ELSE {Top.value})

\* An integer literal is spelled as the float that the other value is.
CoerceLiteral(v, other) ==
  IF v.literal /\ ~other.literal /\ v.dtype = "Integer" /\ Floating(other)
  THEN [v EXCEPT !.dtype = "Float"] ELSE v

\* when/then/otherwise: a condition that is not true takes the otherwise branch.
Ternary(condition) ==
  /\ Len(stack) >= 2
  /\ Alike(Operand(2, 1), Operand(2, 2))
  /\ LET t == CoerceLiteral(Operand(2, 1), Operand(2, 2))
         f == CoerceLiteral(Operand(2, 2), Operand(2, 1))
         dtype == IF NullLiteral(f) THEN t.dtype ELSE f.dtype
     IN  /\ NullLiteral(f) \/ NullLiteral(t) \/ t.dtype = f.dtype
         /\ PushValue(Supertype(t.kind, f.kind),
                      IF condition = "true" THEN t.value ELSE f.value,
                      IF condition = "true" THEN t.sql ELSE f.sql, dtype, FALSE, 2)

\* A number that is to be compared with a float: as_double.
AsDouble ==
  /\ Numbers(1)
  /\ ~Untyped(Top) /\ ~Floating(Top)
  /\ PushValue("Float", Top.value, Top.sql, "Float", Top.nanFree, 1)

ValuesNext ==
  \/ \E kind \in Kinds, known \in BOOLEAN : \E value \in Of(kind) \cup {Null} :
       kind # "Null" /\ Column(kind, value, known)
  \/ \E kind \in Kinds : \E value \in Of(kind) \cup {Null} :
       (value = Null <=> kind = "Null") /\ LiteralValue(kind, value)
  \/ \E target \in Kinds, strict \in BOOLEAN : Cast(target, strict)
  \/ Concatenate \/ Arithmetic \/ TrueDivide \/ FloatFloor
  \/ \E name \in {"Abs", "Negate"} : Signed(name)
  \/ Rounded
  \/ FillNull
  \/ \E fn \in {"Min", "Max"}, n \in 2..MaxStack : Extreme(fn, n)
  \/ Power
  \/ \E name \in {"Sqrt", "Cbrt", "Log"} : RootOrLog(name)
  \/ \E condition \in {"true", "false", "null"} : Ternary(condition)
  \/ AsDouble

ValuesSpec == ValuesInit /\ [][ValuesNext]_valueVars

-----------------------------------------------------------------------------
(* Correctness.                                                            *)

\* What is known to hold no NaN never does, whatever it was computed from
\* (_Value.cannot_be_nan: "Known to hold no NaN").
KnowledgeOfNans ==
  \A i \in 1..Len(stack) : stack[i].nanFree => stack[i].value # NoNumber

\* A type that is known is the one that Polars computes in ("The Polars type,
\* where the schema or the expression settles it").
KnowledgeOfTypes ==
  \A i \in 1..Len(stack) : stack[i].dtype \in {stack[i].kind, Unknown}

\* The SQL of a value is the value that Polars computes (LanceFilter.exact: "True
\* when the filter keeps exactly the rows the predicate keeps"), unless it has met a
\* float that was strictly cast to text: CAST prints it as Lance does.
ValueIsExact ==
  \A i \in 1..Len(stack) : stack[i].sql \in {stack[i].value, Respelt}
=============================================================================
