--------------------------- MODULE FunctionLowering ---------------------------
(***************************************************************************)
(* The functions on texts, lists and dates of _predicate.py, on one row.   *)
(* Polars and SQL count from different ends: positions from 0 or from 1,   *)
(* weekdays from Monday or from Sunday, matches once or everywhere, nulls  *)
(* skipped or not; the lowering chooses the SQL function, its arguments    *)
(* and the cases it leaves to Polars.                                      *)
(*                                                                         *)
(* A text is a sequence over two characters, one of which stands for all   *)
(* when it is read as a regex; a list is a sequence of floats.             *)
(***************************************************************************)
EXTENDS Kleene, Markers, Selection, SequencesExt

CONSTANTS MaxLength,     \* bound on texts and lists, and beyond it on offsets
          Raised         \* a Python error other than _Decline

VARIABLES call,    \* the function and its arguments
          answer   \* the value of its SQL

functionVars == <<call, answer>>

Letters == {"a", "."}
Strings == BoundedSeq(Letters, MaxLength)
Elements == {"-0.0", "0.0", "1.0"}
Lists == BoundedSeq(Elements \cup {Null}, MaxLength)
Offsets == -MaxLength - 1 .. MaxLength + 1

ASSUME FunctionsAssumption ==
  /\ MaxLength \in Nat
  /\ Null \notin Int /\ Null \notin Elements /\ Null \notin Seq(Letters)

Window(s, first, last) == SubSeq(s, Max({first, 1}), Min({last, Len(s)}))

-----------------------------------------------------------------------------
(* str.slice.                                                              *)

\* The window is counted from the end when the offset is negative, and clipped.
PolarsSlice(s, offset, length) ==
  IF s = Null \/ offset = Null THEN Null
  ELSE LET start == IF offset < 0 THEN Len(s) + offset ELSE offset
       IN  Window(s, start + 1, IF length = Null THEN Len(s) ELSE start + length)

SqlSubstr(s, start, length) ==
  IF s = Null THEN Null
  ELSE Window(s, start, IF length = Null THEN Len(s) ELSE start + length - 1)

\* Deliberately wrong variant: only offsets from the front are counted from 1.
SliceOffByOne(s, offset, length, integer) ==
  IF ~integer THEN Declined
  ELSE IF offset = Null THEN Raised
  ELSE IF s = Null THEN Null
  ELSE SqlSubstr(s, IF offset < 0 THEN Len(s) + offset ELSE offset + 1, length)

\* The offset must be an integer literal.  It is read back from its SQL, which for a
\* null of an integer type is no number.
Slice(s, offset, length, integer) ==
  IF ~integer THEN Declined
  ELSE IF offset = Null THEN Raised
  ELSE IF s = Null THEN Null
  ELSE SqlSubstr(s, IF offset < 0 THEN Len(s) + offset + 1 ELSE offset + 1, length)

-----------------------------------------------------------------------------
(* str.replace and replace_all, concat_str.                                *)

Matches(pattern, literal) == IF ~literal /\ pattern = "." THEN Letters ELSE {pattern}

ReplacedEverywhere(s, chars, r) ==
  FlattenSeq([i \in 1..Len(s) |-> IF s[i] \in chars THEN r ELSE <<s[i]>>])

ReplacedOnce(s, chars, r) ==
  IF \E i \in 1..Len(s) : s[i] \in chars
  THEN LET i == Min({j \in 1..Len(s) : s[j] \in chars})
       IN  SubSeq(s, 1, i - 1) \o r \o SubSeq(s, i + 1, Len(s))
  ELSE s

AnyNull(s, pattern, r) == s = Null \/ pattern = Null \/ r = Null

\* A null pattern or replacement makes a null, where Polars does not refuse it.
PolarsReplace(s, pattern, literal, every, r) ==
  IF AnyNull(s, pattern, r) THEN Null
  ELSE IF every THEN ReplacedEverywhere(s, Matches(pattern, literal), r)
  ELSE ReplacedOnce(s, Matches(pattern, literal), r)

SqlReplace(s, pattern, r) ==
  IF AnyNull(s, pattern, r) THEN Null ELSE ReplacedEverywhere(s, {pattern}, r)

SqlRegexpReplace(s, pattern, r, flags) ==
  IF AnyNull(s, pattern, r) THEN Null
  ELSE IF flags = "g" THEN ReplacedEverywhere(s, Matches(pattern, FALSE), r)
  ELSE ReplacedOnce(s, Matches(pattern, FALSE), r)

\* SQL has no replacement of the first literal match.
Replace(s, pattern, literal, every, r) ==
  IF literal THEN IF every THEN SqlReplace(s, pattern, r) ELSE Declined
  ELSE SqlRegexpReplace(s, pattern, r, IF every THEN "g" ELSE "")

NonNulls(parts) == Selected(parts, ToSet(parts) \ {Null})

Joined(parts, delimiter) ==
  FlattenSeq([i \in 1..Len(parts) |-> (IF i = 1 THEN <<>> ELSE delimiter) \o parts[i]])

PolarsConcat(parts, delimiter, ignoreNulls) ==
  IF ~ignoreNulls /\ Null \in ToSet(parts) THEN Null
  ELSE Joined(NonNulls(parts), delimiter)

SqlBars(parts) == IF Null \in ToSet(parts) THEN Null ELSE FlattenSeq(parts)
SqlConcat(parts) == FlattenSeq(NonNulls(parts))
SqlConcatWs(separator, parts) == Joined(NonNulls(parts), separator)

\* A separator that is null with any part has no spelling.
Concat(parts, delimiter, ignoreNulls) ==
  IF delimiter = <<>> THEN IF ignoreNulls THEN SqlConcat(parts) ELSE SqlBars(parts)
  ELSE IF ignoreNulls THEN SqlConcatWs(delimiter, parts) ELSE Declined

-----------------------------------------------------------------------------
(* Lists.                                                                  *)

\* Polars indexes from 0 and from the end, and may raise beyond either.
PolarsGet(list, index) ==
  IF list = Null THEN Null
  ELSE LET i == IF index < 0 THEN Len(list) + index ELSE index
       IN  IF i \in 0 .. Len(list) - 1 THEN list[i + 1] ELSE Null

SqlArrayElement(list, position) ==
  IF list = Null THEN Null
  ELSE LET p == IF position < 0 THEN Len(list) + position + 1 ELSE position
       IN  IF p \in 1..Len(list) THEN list[p] ELSE Null

\* Deliberately wrong variant: indices from the end are counted from 1 as well.
ListGetShifted(list, index, nullOnOob) ==
  IF ~nullOnOob \/ index = Null THEN Declined ELSE SqlArrayElement(list, index + 1)

\* Only the form that is null out of bounds, and only with a number for index.
ListGet(list, index, nullOnOob) ==
  IF ~nullOnOob \/ index = Null THEN Declined
  ELSE SqlArrayElement(list, IF index >= 0 THEN index + 1 ELSE index)

Zeros == {"-0.0", "0.0"}
SameFloat(x, y) == x = y \/ (x \in Zeros /\ y \in Zeros)

\* A null is an element like any other, or with nulls_equal unset makes a null.
PolarsContains(list, x, nullsEqual) ==
  IF list = Null \/ (x = Null /\ ~nullsEqual) THEN "null"
  ELSE FromBool(\E i \in 1..Len(list) : SameFloat(list[i], x))

SqlArrayHas(list, x) ==
  IF list = Null \/ x = Null THEN "null" ELSE FromBool(\E i \in 1..Len(list) : list[i] = x)

\* Polars finds the zeros as each other; array_has does not.  What nulls_equal says
\* is not looked at.
ListContains(list, needle) ==
  IF needle.literal /\ needle.value \in Zeros
  THEN Disj({SqlArrayHas(list, "-0.0"), SqlArrayHas(list, "0.0")})
  ELSE SqlArrayHas(list, needle.value)

-----------------------------------------------------------------------------
(* Dates: days of the week, and months counted from a first of January.    *)

DayOfWeek(weekday) == weekday % 7   \* date_part('dow', ...), Sunday being 0

\* Polars counts Monday as 1.
WeekDay(weekday) == ((DayOfWeek(weekday) + 6) % 7) + 1

Windows == [w \in {"1mo", "2mo", "3mo", "1q", "1y"} |->
              IF w = "1mo" THEN 1 ELSE IF w = "2mo" THEN 2
              ELSE IF w = "1y" THEN 12 ELSE 3]
TruncateUnits == [w \in {"1mo", "3mo", "1q", "1y"} |->
                    IF w = "1mo" THEN "month" ELSE IF w = "1y" THEN "year" ELSE "quarter"]

PolarsTruncate(month, every) == month - (month % Windows[every])

SqlDateTrunc(unit, month) ==
  month - (month % (IF unit = "month" THEN 1 ELSE IF unit = "quarter" THEN 3 ELSE 12))

\* Multiples of a unit have no spelling, but for the quarter.
Truncate(month, every) ==
  IF every \in DOMAIN TruncateUnits THEN SqlDateTrunc(TruncateUnits[every], month)
  ELSE Declined

-----------------------------------------------------------------------------
(* One function is lowered.                                                *)

Slices ==
  [name: {"Slice"}, s: Strings \cup {Null}, length: 0 .. MaxLength + 1 \cup {Null},
   offset: Offsets \cup {Null}, integer: BOOLEAN]
Replaces ==
  [name: {"Replace"}, s: Strings \cup {Null}, pattern: Letters \cup {Null}, literal: BOOLEAN,
   every: BOOLEAN, r: BoundedSeq(Letters, 1) \cup {Null}]
Concats ==
  [name: {"Concat"}, parts: TupleOf(BoundedSeq(Letters, 1) \cup {Null}, 3),
   delimiter: BoundedSeq(Letters, 1), ignoreNulls: BOOLEAN]
Gets ==
  [name: {"Get"}, list: Lists \cup {Null}, index: Offsets \cup {Null}, nullOnOob: BOOLEAN]
Contained ==
  [name: {"Contains"}, list: Lists \cup {Null}, nullsEqual: BOOLEAN,
   needle: [value: Elements \cup {Null}, literal: BOOLEAN]]
WeekDays == [name: {"WeekDay"}, weekday: 1..7]
Truncates == [name: {"Truncate"}, month: 0..23, every: DOMAIN Windows]

FunctionsInit ==
  /\ \/ call \in Slices \/ call \in Replaces \/ call \in Concats
     \/ call \in Gets \/ call \in Contained
     \/ call \in WeekDays \/ call \in Truncates
  /\ answer = Pending

Answer(sql) == answer = Pending /\ answer' = sql /\ UNCHANGED call

LowerText ==
  \/ call.name = "Slice" /\ Answer(Slice(call.s, call.offset, call.length, call.integer))
  \/ /\ call.name = "Replace"
     /\ Answer(Replace(call.s, call.pattern, call.literal, call.every, call.r))
  \/ /\ call.name = "Concat"
     /\ Answer(Concat(call.parts, call.delimiter, call.ignoreNulls))

LowerList ==
  \/ call.name = "Get" /\ Answer(ListGet(call.list, call.index, call.nullOnOob))
  \/ call.name = "Contains" /\ Answer(ListContains(call.list, call.needle))

LowerDate ==
  \/ call.name = "WeekDay" /\ Answer(WeekDay(call.weekday))
  \/ call.name = "Truncate" /\ Answer(Truncate(call.month, call.every))

FunctionsNext == LowerText \/ LowerList \/ LowerDate

FunctionsSpec == FunctionsInit /\ [][FunctionsNext]_functionVars

-----------------------------------------------------------------------------
(* Correctness.                                                            *)

IsLowered == answer \notin {Pending, Declined}

\* A function on texts has, for Lance, the value that it has for Polars, wherever
\* the window lies, whether the text, the length, the pattern or what replaces it is
\* null, and for literal and for regular patterns (_slice: "A negative offset counts
\* from the end; both clip the requested window"; _replace: "Literal-and-first-only
\* has no spelling").  The exception is an offset that is a null of an integer type:
\* for it the lowering raises, where it neither lowers nor declines.
TextIsExact ==
  IsLowered =>
    /\ call.name = "Slice" =>
         answer = IF call.offset = Null THEN Raised
                  ELSE PolarsSlice(call.s, call.offset, call.length)
    /\ call.name = "Replace" =>
         answer = PolarsReplace(call.s, call.pattern, call.literal, call.every, call.r)
    /\ call.name = "Concat" =>
         answer = PolarsConcat(call.parts, call.delimiter, call.ignoreNulls)

\* The two values that list.contains is lowered for but does not find as Polars does:
\* a null, which is in no SQL array, and a zero that is the value of a column, which
\* is only found as itself.
NotFoundAlike(needle, nullsEqual) ==
  \/ needle.value = Null /\ nullsEqual
  \/ needle.value \in Zeros /\ ~needle.literal

\* An element of a list is found where Polars finds it, from either end, and one
\* zero for the other; a date falls on the same weekday and in the same window.
\* The exceptions are NotFoundAlike, and there as well what SQL finds is in the list and
\* a null list is null for both.
ElementIsExact ==
  IsLowered =>
    /\ call.name = "Get" => answer = PolarsGet(call.list, call.index)
    /\ call.name = "Contains" =>
         LET polars == PolarsContains(call.list, call.needle.value, call.nullsEqual)
         IN  IF NotFoundAlike(call.needle, call.nullsEqual)
             THEN /\ answer = "true" => polars = "true"
                  /\ call.list = Null => answer = polars
             ELSE answer = polars
    /\ call.name = "WeekDay" => answer = call.weekday
    /\ call.name = "Truncate" => answer = PolarsTruncate(call.month, call.every)
=============================================================================
