----------------------------- MODULE PythonNone -----------------------------
(***************************************************************************)
(* Python's None, where a value is optional.                               *)
(***************************************************************************)

CONSTANT None
=============================================================================
