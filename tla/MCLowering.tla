----------------------------- MODULE MCLowering -----------------------------
(***************************************************************************)
(* The lowering of _predicate.py for TLC: the walk, the leaves and the     *)
(* values.  Each of these parts has a model of its own, and no two share a *)
(* variable: an initial state picks the part that is under way, and the    *)
(* others rest.                                                            *)
(***************************************************************************)
EXTENDS PredicateLowering, LeafLowering, IntegerDivision, ValueLowering, FunctionLowering

CONSTANTS MaxTypes   \* TypesKnownLater

\* Two rows: the operators act row by row, and a second row lets a filter be right
\* on one row and wrong on the other.
MCRows == {1, 2}

VARIABLES part,           \* the part under way
          types, filter   \* TypesKnownLater

typeVars == <<types, filter>>

Type == INSTANCE TypesKnownLater WITH stack <- types, MaxStack <- MaxTypes

ASSUME TypesAssumption ==
  /\ Unknown \notin Type!DTypes
  /\ Declined \notin [dtype: Type!DTypes \cup {Unknown}, literal: Type!Sorts]

\* A part at rest is in one of its initial states.
LeafRests == leaf = [kind |-> "test", test |-> "IsNull", x |-> Null] /\ lowered = Null
DivisionRests ==
  /\ op = "Modulus" /\ type = "Int64" /\ dividend = Null
  /\ divisor = [value |-> Null, literal |-> TRUE] /\ divided = Pending
FunctionRests == call = [name |-> "WeekDay", weekday |-> 1] /\ answer = Pending

OneInit ==
  /\ part \in {"walk", "leaf", "division", "value", "function", "type"}
  /\ Init /\ ValuesInit /\ Type!Init
  /\ IF part = "leaf" THEN LeavesInit ELSE LeafRests
  /\ IF part = "division" THEN DivisionInit ELSE DivisionRests
  /\ IF part = "function" THEN FunctionsInit ELSE FunctionRests

OneNext ==
  /\ UNCHANGED part
  /\ \/ part = "walk" /\ Next
        /\ UNCHANGED <<leafVars, divisionVars, valueVars, functionVars, typeVars>>
     \/ part = "leaf" /\ LeavesNext
        /\ UNCHANGED <<vars, divisionVars, valueVars, functionVars, typeVars>>
     \/ part = "division" /\ Evaluate
        /\ UNCHANGED <<vars, leafVars, valueVars, functionVars, typeVars>>
     \/ part = "value" /\ ValuesNext
        /\ UNCHANGED <<vars, leafVars, divisionVars, functionVars, typeVars>>
     \/ part = "function" /\ FunctionsNext
        /\ UNCHANGED <<vars, leafVars, divisionVars, valueVars, typeVars>>
     \/ part = "type" /\ Type!Next
        /\ UNCHANGED <<vars, leafVars, divisionVars, valueVars, functionVars>>

OneSpec ==
  OneInit
  /\ [][OneNext]_<<part, vars, leafVars, divisionVars, valueVars, functionVars, typeVars>>

-----------------------------------------------------------------------------
(* The properties of the other parts are stated with them.                 *)

\* What translates with the schema is not declined without it (TypesKnownLater).
NeverDeclinesForItsTypes == Type!NeverDeclinesForItsTypes
=============================================================================
