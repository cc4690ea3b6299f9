--------------------------- MODULE CommitFragments ---------------------------
(***************************************************************************)
(* commit_lance_fragments of _sink.py, the second half of every write of   *)
(* fragments: it probes for the dataset or opens it, and commits.  Other   *)
(* writers can come between the two, so they are two steps of a caller.    *)
(***************************************************************************)
EXTENDS LanceTable

CONSTANT FlakyStore   \* whether the store can be out of reach when it is probed

ASSUME FlakyStoreAssumption == FlakyStore \in BOOLEAN

Modes == {"create", "overwrite", "append"}

\* _refuse_existing opens the dataset, and takes any failure for its absence.
MaySeeDataset(versions) == Exists(versions)
MaySeeNothing(versions) == ~Exists(versions) \/ FlakyStore

\* An append opens the dataset for the version to commit against, create probes
\* for it, overwrite goes straight to the commit.
MayRefuse(mode, versions) ==
  \/ mode = "append" /\ MaySeeNothing(versions)
  \/ mode = "create" /\ MaySeeDataset(versions)

MayAccept(mode, versions) ==
  /\ mode = "append" => Exists(versions)
  /\ mode = "create" => MaySeeNothing(versions)

\* What LanceDataset.commit makes of the dataset: only an append is checked
\* against other commits, and the set is empty if it is refused.
Landed(mode, by, frags, base, versions) ==
  IF mode # "append" THEN {Overwritten(versions, by, frags)}
  ELSE IF AppendConflicts(versions, base) THEN {}
  ELSE {Appended(versions, by, frags)}
=============================================================================
