------------------------------ MODULE Selection ------------------------------
(***************************************************************************)
(* SelectSeq for membership in a set, as a function on prefixes.           *)
(***************************************************************************)
EXTENDS Integers, Sequences

Selected(stream, kept) ==
  LET upTo[n \in 0..Len(stream)] ==
        IF n = 0 THEN <<>>
        ELSE IF stream[n] \in kept THEN Append(upTo[n - 1], stream[n])
        ELSE upTo[n - 1]
  IN  upTo[Len(stream)]
=============================================================================
