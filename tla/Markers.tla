------------------------------- MODULE Markers -------------------------------
(***************************************************************************)
(* What the models of the lowering have in place of a value.               *)
(***************************************************************************)

CONSTANTS Null,      \* a missing value
          Declined,  \* an expression that does not translate
          Pending    \* an expression that is not lowered yet
=============================================================================
