----------------------------- MODULE LanceTable -----------------------------
(***************************************************************************)
(* A Lance dataset as its writers see it: a sequence of versions, each the *)
(* set of fragments its manifest names.  The empty sequence is a URI with  *)
(* no dataset.  Lance is a library outside this repository; what is said   *)
(* of it here is what the code and its tests use.                          *)
(***************************************************************************)
EXTENDS Integers, Sequences

Version(by, replaces, frags) == [by |-> by, replaces |-> replaces, frags |-> frags]

Exists(versions) == versions # <<>>

Latest(versions) == IF Exists(versions) THEN versions[Len(versions)].frags ELSE {}

\* LanceOperation.Overwrite: a version of these fragments alone, whatever was
\* there before; it also creates a dataset that does not exist.
Overwritten(versions, by, frags) == Append(versions, Version(by, TRUE, frags))

\* LanceOperation.Append: these fragments beside those of the latest version.
Appended(versions, by, frags) ==
  Append(versions, Version(by, FALSE, Latest(versions) \cup frags))

\* An append read at version `base` is rebased over later appends, and refused
\* over a version that replaced the contents.
AppendConflicts(versions, base) ==
  \E i \in base + 1 .. Len(versions) : versions[i].replaces
=============================================================================
