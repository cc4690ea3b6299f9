--------------------------- MODULE AtomicPublish ---------------------------
(***************************************************************************)
(* What a distributed write promises, without its workers, its staging     *)
(* prefix or its phases: a run publishes in one step, once, and what it    *)
(* publishes holds one copy of every batch of the run.  Only a run whose   *)
(* publication was asked for again, after an error, may publish again, and *)
(* then no batch twice.                                                    *)
(***************************************************************************)
EXTENDS LanceTable

CONSTANTS Runs,      \* the distributed writes to one dataset
          Batches,   \* the result batches a query can produce
          Attempts,  \* the invocations one batch can have
          Other,     \* a writer that is none of the runs
          EmptyRuns  \* whether a run without rows publishes a version at all

VARIABLES mode,      \* each run's write mode
          rows,      \* the batches of each run that hold rows
          versions,  \* the dataset
          again      \* the runs whose publication was asked for again

avars == <<mode, rows, versions, again>>

Modes == {"create", "overwrite", "append"}

\* A fragment is named after the invocation that wrote its data files.
Fragment(r, b, a) == [run |-> r, batch |-> b, attempt |-> a]

Copies(r) ==
  {{Fragment(r, b, copy[b]) : b \in rows[r]} : copy \in [rows[r] -> Attempts]}

AInit ==
  /\ mode \in [Runs -> Modes]
  /\ rows \in [Runs -> SUBSET Batches]
  /\ versions = <<>>
  /\ again = {}

Published(r) == \E i \in 1..Len(versions) : versions[i].by = r

Publishes(r, frags) ==
  /\ IF mode[r] = "append"
     THEN Exists(versions) /\ versions' = Appended(versions, r, frags)
     ELSE versions' = Overwritten(versions, r, frags)
  /\ UNCHANGED <<mode, rows, again>>

Publish(r) ==
  /\ rows[r] = {} => EmptyRuns
  /\ ~Published(r)
  /\ \E frags \in Copies(r) : Publishes(r, frags)

AskAgain(r) ==
  /\ again' = again \cup {r}
  /\ UNCHANGED <<mode, rows, versions>>

\* What is left of a run that had been published without its holder knowing.
PublishAgain(r) ==
  /\ r \in again /\ Published(r)
  /\ \E copy \in Copies(r) : \E frags \in (SUBSET copy) \ {{}} : Publishes(r, frags)

OtherPublishes ==
  /\ LET frags == {Fragment(Other, Len(versions) + 1, 1)}
     IN  \/ versions' = Overwritten(versions, Other, frags)
         \/ Exists(versions) /\ versions' = Appended(versions, Other, frags)
  /\ UNCHANGED <<mode, rows, again>>

ANext == OtherPublishes \/ \E r \in Runs : Publish(r) \/ AskAgain(r) \/ PublishAgain(r)

ASpec == AInit /\ [][ANext]_avars
=============================================================================
