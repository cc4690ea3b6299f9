------------------------------ MODULE KeyedSink ------------------------------
(***************************************************************************)
(* The distributed write of StagedSink with the names of staging objects   *)
(* as they are: a digest of the contents, which two batches may share, or  *)
(* what the caller's fragment_key makes of a batch, which may hold a slash *)
(* and then names an object in a directory below the prefix.  Beside it is *)
(* someone who follows the advice of commit() for the data files that      *)
(* retried batches leave behind: cleanup_old_versions, with                *)
(* delete_unverified, takes every data file that no version names.         *)
(***************************************************************************)
EXTENDS StagedSink

CONSTANTS Keys,     \* names of staging objects
          Namings,  \* the ways to name the batches
          Nested    \* the names with a slash in them

ASSUME KeysAssumption == Namings \subseteq [Batches -> Keys] /\ Nested \subseteq Keys

VARIABLE keyOf   \* the name each batch is given

KeyedInit == Init /\ keyOf \in Namings

\* Deliberately wrong variant: a name of its own for every invocation.
CloseUnderOwnName(inv) ==
  /\ worker[inv] \in {"wrote", "opened"}
  /\ worker' = [worker EXCEPT ![inv] = "staged"]
  /\ Put(Object(inv.run, inv, inv))
  /\ UNCHANGED <<given, versions, files, clientVars>>

OpenKeyed(inv) ==
  /\ worker[inv] = "wrote"
  /\ keyOf[inv.batch] \notin Nested   \* a local directory would have to exist
  /\ worker' = [worker EXCEPT ![inv] = "opened"]
  /\ Put(Object(inv.run, keyOf[inv.batch], Truncated))
  /\ UNCHANGED <<given, versions, files, clientVars>>

CloseKeyed(inv) ==
  /\ worker[inv] \in {"wrote", "opened"}
  /\ worker' = [worker EXCEPT ![inv] = "staged"]
  /\ Put(Object(inv.run, keyOf[inv.batch], inv))
  /\ UNCHANGED <<given, versions, files, clientVars>>

\* The prefix is not searched recursively, and directories are passed over.
ListKeyed(r) ==
  /\ phase[r] = "awaited"
  /\ Goto(r, "reading")
  /\ unread' = [unread EXCEPT ![r] = {o.key : o \in Under(r)} \ Nested]
  /\ collected' = [collected EXCEPT ![r] = {}]
  /\ UNCHANGED <<given, versions, files, worker, staging, base, recommits>>

-----------------------------------------------------------------------------
(* Reclaiming, which commit() advises for "the *data* files a retried      *)
(* batch orphaned" and sets no time for.                                   *)

Referenced == UNION {versions[i].frags : i \in 1..Len(versions)}

Reclaim ==
  /\ Exists(versions)
  /\ files' = files \cap Referenced
  /\ UNCHANGED <<given, versions, worker, staging, clientVars>>

KeyedNext ==
  /\ \/ \E inv \in Invocations :
          WriteFragments(inv) \/ OpenKeyed(inv) \/ CloseKeyed(inv) \/ Crash(inv)
     \/ \E r \in Runs : \/ Stage(r) \/ AwaitResult(r) \/ ListKeyed(r) \/ ReadStaged(r)
                        \/ PrepareCommit(r) \/ Commit(r) \/ Cleanup(r) \/ Recommit(r)
     \/ OtherCommits
     \/ Reclaim
  /\ UNCHANGED keyOf

KeyedSpec == KeyedInit /\ [][KeyedNext]_<<vars, keyOf>>

-----------------------------------------------------------------------------
(* Correctness, beside CreatePublishesOnce.                                *)

\* The handle of a sink that failed can be used again: until a run has published,
\* its staging prefix still holds the whole of it.  Its first version has one batch
\* of every name, whichever worker was the last to stage it: a digest that two
\* batches share costs the copies, and never a batch of a name of its own
\* (_content_key: "only one of them would be committed").
FirstPublicationIsWhole ==
  \A i \in 1..Len(versions) :
    LET r == versions[i].by
        mine == {f \in versions[i].frags : f.run = r}
    IN  (r # Other /\ \A j \in 1..i - 1 : versions[j].by # r) =>
          /\ {keyOf[f.batch] : f \in mine} = {keyOf[b] : b \in rows[r]}
          /\ \A f, g \in mine : keyOf[f.batch] = keyOf[g.batch] => f = g

\* staged_fragments returns "Every fragment the workers staged", and commit() makes
\* one version of them: it takes up every object under the prefix.
EveryStagedFragmentIsCommitted ==
  \A r \in Runs : phase[r] = "committing" =>
    {o.key : o \in {p \in staging : p.run = r}} = {o.key : o \in collected[r]}

\* What commit() tells its caller to reclaim with delete_unverified are data files
\* "a retried batch orphaned", "unreferenced by any manifest": none of them belongs
\* to a fragment that a version names, then or later.
OnlyOrphansAreReclaimed == NoDanglingFragment
=============================================================================
