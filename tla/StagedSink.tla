----------------------------- MODULE StagedSink -----------------------------
(***************************************************************************)
(* The distributed write of _remote.py over Polars Cloud, and the commit   *)
(* of _sink.py it ends in.  Every run has a client, which stages a sink,   *)
(* submits the query, waits and commits, and workers, to which the cluster *)
(* ships the callback: each batch is handed to it one or more times, from  *)
(* different workers, and any invocation may die at any point.  Workers    *)
(* talk to the client only through JSON objects under the run's staging    *)
(* prefix.                                                                 *)
(***************************************************************************)
EXTENDS CommitFragments, FiniteSets

CONSTANTS Runs,         \* the distributed writes to one dataset
          Batches,      \* the result batches a query can produce
          Attempts,     \* the invocations of the callback one batch can have
          Other,        \* a writer that is none of the runs
          Truncated,    \* the payload of a staging object still being written
          MaxForeign,   \* bound on the commits of other writers
          Recommits     \* how often the holder of a failed sink calls commit() again

ASSUME MaxForeignAssumption == MaxForeign \in Nat
ASSUME RecommitsAssumption == Recommits \in Nat
ASSUME OtherAssumption == Other \notin Runs
ASSUME TruncatedAssumption ==
         Truncated \notin [run: Runs, batch: Batches, attempt: Attempts]

VARIABLES mode,       \* each run's write mode
          rows,       \* the batches of each run that hold rows
          versions,   \* the dataset
          files,      \* data files on storage, by the fragment they make up
          worker,     \* where each invocation of the callback stands
          staging,    \* the JSON objects under all staging prefixes
          phase,      \* where each run's client stands
          unread,     \* keys of listed staging objects the client has yet to read
          collected,  \* the staging objects the client has read
          base,       \* the version an append is committed against
          recommits   \* commit() calls repeated so far

given == <<mode, rows>>
clientVars == <<phase, unread, collected, base, recommits>>
vars == <<mode, rows, versions, files, worker, staging,
          phase, unread, collected, base, recommits>>

\* A fragment is named after the invocation that wrote its data files.
Invocations == [run: Runs, batch: Batches, attempt: Attempts]
Invocation(r, b, a) == [run |-> r, batch |-> b, attempt |-> a]
Fragments == Invocations \cup [run: {Other}, batch: Nat, attempt: {1}]

Phases == {"new", "running", "awaited", "reading", "committing", "cleaning",
           "done", "failed"}

Ended(r) == phase[r] \in {"done", "failed"}

-----------------------------------------------------------------------------
(* Staging objects.  The prefix of a run is named after its run_id, so an  *)
(* object belongs to one run.                                              *)

\* Deliberately wrong variant: a name of its own for every invocation.
KeyPerInvocation(inv) == <<inv.batch, inv.attempt>>

\* _content_key: the same for every invocation with the same batch.  Batches
\* here are batches with distinct contents.
Key(inv) == inv.batch

Object(r, key, frag) == [run |-> r, key |-> key, frag |-> frag]

\* Writing an object replaces the one of that name.
Put(object) ==
  staging' = {o \in staging : <<o.run, o.key>> # <<object.run, object.key>>} \cup {object}

\* Deliberately wrong variant: one prefix for all runs.
UnderAnyRun(r) == staging

Under(r) == {o \in staging : o.run = r}

-----------------------------------------------------------------------------
(* Workers: _FragmentWriter.__call__.  An empty batch returns at once and  *)
(* stages nothing, so only the batches in rows[r] have invocations.        *)

\* The cluster hands out a batch while the query runs; an invocation that is
\* under way outlives the query, since nothing waits for duplicates.
MayStart(inv) == phase[inv.run] = "running" /\ inv.batch \in rows[inv.run]

\* Deliberately wrong variant: what is staged is yet to be written.
WriteFragmentsLater(inv) ==
  /\ worker[inv] = "idle"
  /\ MayStart(inv)
  /\ worker' = [worker EXCEPT ![inv] = "wrote"]
  /\ UNCHANGED <<given, versions, files, staging, clientVars>>

\* write_fragments puts data files on storage and publishes nothing; appending
\* needs the dataset it appends to.
WriteFragments(inv) ==
  /\ worker[inv] = "idle"
  /\ MayStart(inv)
  /\ IF mode[inv.run] = "append" /\ ~Exists(versions)
     THEN worker' = [worker EXCEPT ![inv] = "dead"] /\ UNCHANGED files
     ELSE worker' = [worker EXCEPT ![inv] = "wrote"] /\ files' = files \cup {inv}
  /\ UNCHANGED <<given, versions, staging, clientVars>>

\* A local filesystem shows the object from the moment it is opened.
OpenStaging(inv) ==
  /\ worker[inv] = "wrote"
  /\ worker' = [worker EXCEPT ![inv] = "opened"]
  /\ Put(Object(inv.run, Key(inv), Truncated))
  /\ UNCHANGED <<given, versions, files, clientVars>>

\* The payload is complete; an object store shows nothing before this.
CloseStaging(inv) ==
  /\ worker[inv] \in {"wrote", "opened"}
  /\ worker' = [worker EXCEPT ![inv] = "staged"]
  /\ Put(Object(inv.run, Key(inv), inv))
  /\ UNCHANGED <<given, versions, files, clientVars>>

\* A worker dies, or the callback raises: what it wrote stays as it is.
Crash(inv) ==
  /\ worker[inv] \in {"wrote", "opened"} \/ (worker[inv] = "idle" /\ MayStart(inv))
  /\ worker' = [worker EXCEPT ![inv] = "dead"]
  /\ UNCHANGED <<given, versions, files, staging, clientVars>>

WorkerStep(inv) ==
  WriteFragments(inv) \/ OpenStaging(inv) \/ CloseStaging(inv) \/ Crash(inv)

-----------------------------------------------------------------------------
(* The client: stage_lance_sink, sink_lance_remote and StagedLanceSink.    *)

Goto(r, p) == phase' = [phase EXCEPT ![r] = p]

\* stage_lance_sink, then sink_batches: create is refused before a cluster run
\* is spent on it.
Stage(r) ==
  /\ phase[r] = "new"
  /\ \/ (mode[r] = "create" => MaySeeNothing(versions)) /\ Goto(r, "running")
     \/ mode[r] = "create" /\ MaySeeDataset(versions) /\ Goto(r, "failed")
  /\ UNCHANGED <<given, versions, files, worker, staging, unread, collected, base, recommits>>

\* Deliberately wrong variants: the client does not wait for every batch, or waits
\* also for those that have failed.
AwaitSomeResult(r) ==
  /\ phase[r] = "running"
  /\ \E inv \in Invocations : inv.run = r /\ worker[inv] = "staged"
  /\ Goto(r, "awaited")
  /\ UNCHANGED <<given, versions, files, worker, staging, unread, collected, base, recommits>>
AwaitForEver(r) ==
  /\ phase[r] = "running"
  /\ \A b \in rows[r] : \E a \in Attempts : worker[Invocation(r, b, a)] = "staged"
  /\ Goto(r, "awaited")
  /\ UNCHANGED <<given, versions, files, worker, staging, unread, collected, base, recommits>>

\* await_result returns once every batch has been through the callback, and
\* raises when the cluster has run out of attempts for one.
AwaitResult(r) ==
  /\ phase[r] = "running"
  /\ \/ /\ \A b \in rows[r] : \E a \in Attempts : worker[Invocation(r, b, a)] = "staged"
        /\ Goto(r, "awaited")
     \/ /\ \E b \in rows[r] : \A a \in Attempts : worker[Invocation(r, b, a)] = "dead"
        /\ Goto(r, "failed")
  /\ UNCHANGED <<given, versions, files, worker, staging, unread, collected, base, recommits>>

\* commit() calls staged_fragments, which lists the run's own prefix and then
\* reads the objects one at a time.
ListStaging(r) ==
  /\ phase[r] = "awaited"
  /\ Goto(r, "reading")
  /\ unread' = [unread EXCEPT ![r] = {o.key : o \in Under(r)}]
  /\ collected' = [collected EXCEPT ![r] = {}]
  /\ UNCHANGED <<given, versions, files, worker, staging, base, recommits>>

\* A payload that is not JSON yet, or an object that is gone, raises.
ReadStaged(r) ==
  /\ phase[r] = "reading"
  /\ \E key \in unread[r] :
       LET readable == {o \in Under(r) : o.key = key /\ o.frag # Truncated}
       IN  /\ collected' = [collected EXCEPT ![r] = @ \cup readable]
           /\ unread' = [unread EXCEPT ![r] = @ \ {key}]
           /\ IF readable = {} THEN Goto(r, "failed") ELSE UNCHANGED phase
  /\ UNCHANGED <<given, versions, files, worker, staging, base, recommits>>

\* Deliberately wrong variant: the probe made when the sink was staged is relied on.
PrepareUnprobed(r) ==
  /\ phase[r] = "reading"
  /\ unread[r] = {}
  /\ collected[r] # {}
  /\ Goto(r, "committing")
  /\ base' = [base EXCEPT ![r] = Len(versions)]
  /\ UNCHANGED <<given, versions, files, worker, staging, unread, collected, recommits>>

\* With every entry read: nothing staged is an error; otherwise it is for
\* commit_lance_fragments to refuse the write or go on to the commit.
PrepareCommit(r) ==
  /\ phase[r] = "reading"
  /\ unread[r] = {}
  /\ \/ /\ collected[r] = {} \/ MayRefuse(mode[r], versions)
        /\ Goto(r, "failed")
        /\ UNCHANGED base
     \/ /\ collected[r] # {} /\ MayAccept(mode[r], versions)
        /\ Goto(r, "committing")
        /\ base' = [base EXCEPT ![r] = Len(versions)]
  /\ UNCHANGED <<given, versions, files, worker, staging, unread, collected, recommits>>

\* LanceDataset.commit can fail before the manifest is in place, and also after.
Commit(r) ==
  /\ phase[r] = "committing"
  /\ LET frags == {o.frag : o \in collected[r]}
     IN  \/ UNCHANGED versions /\ Goto(r, "failed")
         \/ /\ versions' \in Landed(mode[r], r, frags, base[r], versions)
            /\ Goto(r, "cleaning") \/ Goto(r, "failed")
  /\ UNCHANGED <<given, files, worker, staging, unread, collected, base, recommits>>

\* Deliberately wrong variant: the prefix is also deleted after a failure.
CleanupAfterFailure(r) ==
  /\ phase[r] \in {"cleaning", "failed"}
  /\ \E left \in SUBSET Under(r) : staging' = (staging \ Under(r)) \cup left
  /\ Goto(r, IF phase[r] = "cleaning" THEN "done" ELSE "failed")
  /\ UNCHANGED <<given, versions, files, worker, unread, collected, base, recommits>>

\* delete_dir removes the prefix's objects, some of them if it fails halfway.
\* cleanup=False keeps them all.
Cleanup(r) ==
  /\ phase[r] = "cleaning"
  /\ \/ staging' = staging \ Under(r) /\ Goto(r, "done")
     \/ \E left \in SUBSET Under(r) :
          staging' = (staging \ Under(r)) \cup left /\ Goto(r, "failed")
     \/ UNCHANGED staging /\ Goto(r, "done")
  /\ UNCHANGED <<given, versions, files, worker, unread, collected, base, recommits>>

\* The handle is still there after commit() raised, and the staged fragments with
\* it: its holder may call commit() again.
Recommit(r) ==
  /\ phase[r] = "failed"
  /\ recommits[r] < Recommits
  /\ \A b \in rows[r] : \E a \in Attempts : worker[Invocation(r, b, a)] = "staged"
  /\ Goto(r, "awaited")
  /\ recommits' = [recommits EXCEPT ![r] = @ + 1]
  /\ UNCHANGED <<given, versions, files, worker, staging, unread, collected, base>>

ClientStep(r) ==
  Stage(r) \/ AwaitResult(r) \/ ListStaging(r) \/ ReadStaged(r)
    \/ PrepareCommit(r) \/ Commit(r) \/ Cleanup(r)

-----------------------------------------------------------------------------
(* Anything else that commits to the same dataset.                         *)

OtherCommits ==
  /\ Cardinality({i \in 1..Len(versions) : versions[i].by = Other}) < MaxForeign
  /\ LET frag == [run |-> Other, batch |-> Len(versions) + 1, attempt |-> 1]
     IN  /\ files' = files \cup {frag}
         /\ \/ versions' = Overwritten(versions, Other, {frag})
            \/ Exists(versions) /\ versions' = Appended(versions, Other, {frag})
  /\ UNCHANGED <<given, worker, staging, clientVars>>

Init ==
  /\ mode \in [Runs -> Modes]
  /\ rows \in [Runs -> SUBSET Batches]
  /\ versions = <<>>
  /\ files = {}
  /\ worker = [inv \in Invocations |-> "idle"]
  /\ staging = {}
  /\ phase = [r \in Runs |-> "new"]
  /\ unread = [r \in Runs |-> {}]
  /\ collected = [r \in Runs |-> {}]
  /\ base = [r \in Runs |-> 0]
  /\ recommits = [r \in Runs |-> 0]

Next ==
  \/ \E inv \in Invocations : WorkerStep(inv)
  \/ \E r \in Runs : ClientStep(r) \/ Recommit(r)
  \/ OtherCommits

Spec == Init /\ [][Next]_vars

\* The cluster goes on with every invocation it has started and starts another
\* for a batch not yet through; the client's calls return or raise.
Fairness ==
  /\ \A inv \in Invocations : WF_vars(WorkerStep(inv))
  /\ \A r \in Runs : WF_vars(ClientStep(r))

FairSpec == Spec /\ Fairness

-----------------------------------------------------------------------------
(* Correctness.                                                            *)

\* Type correctness of the table, the storage and both sides of a run.
TypeOK ==
  /\ mode \in [Runs -> Modes]
  /\ rows \in [Runs -> SUBSET Batches]
  /\ versions \in Seq([by: Runs \cup {Other}, replaces: BOOLEAN, frags: SUBSET Fragments])
  /\ files \in SUBSET Fragments
  /\ worker \in [Invocations -> {"idle", "wrote", "opened", "staged", "dead"}]
  /\ staging \in SUBSET [run: Runs, key: Batches, frag: Invocations \cup {Truncated}]
  /\ phase \in [Runs -> Phases]
  /\ unread \in [Runs -> SUBSET Batches]
  /\ collected \in [Runs -> SUBSET [run: Runs, key: Batches, frag: Invocations]]
  /\ base \in [Runs -> Nat]
  /\ recommits \in [Runs -> Nat]

\* No version names a fragment whose data files are missing, however workers
\* crash or repeat each other between the two writes of the callback
\* (_remote.py: "The reverse order could commit a dangling fragment").
NoDanglingFragment ==
  \A i \in 1..Len(versions) : versions[i].frags \subseteq files

\* A version holds the whole of a run or nothing of it, and one copy of each of
\* its batches: retried, duplicated and straggling invocations neither repeat a
\* batch nor lose one, and no other run's fragments are taken for its own.  That is
\* for a run whose holder calls commit() once; another call may find half a prefix.
WholeRunsOnce ==
  \A i \in 1..Len(versions) : \A r \in Runs :
    LET mine == {f \in versions[i].frags : f.run = r}
    IN  (mine # {} /\ recommits[r] = 0) => /\ {f.batch : f \in mine} = rows[r]
                     /\ \A f, g \in mine : f.batch = g.batch => f = g

\* A run in create mode publishes once, however often its holder calls commit()
\* again because the first call raised: what that call published without saying so
\* is found when the next one probes for the dataset.
CreatePublishesOnce ==
  \A i, j \in 1..Len(versions) :
    LET r == versions[i].by
    IN  (r # Other /\ r = versions[j].by /\ mode[r] = "create") => i = j

\* What the workers staged is not thrown away before it is published: "On failure
\* it is always left in place".
StagingKeptUntilPublished ==
  [][\A o \in staging :
       (\A p \in staging' : p.run # o.run \/ p.key # o.key) =>
         \E i \in 1..Len(versions) : versions[i].by = o.run]_vars

\* "create" fails if the dataset exists: no run in that mode replaces one.
CreateNeverReplaces ==
  [][\A r \in Runs :
       (mode[r] = "create" /\ Exists(versions) /\ versions' # versions)
         => versions'[Len(versions')].by # r]_vars

\* A store that cannot be reached when it is probed for the dataset "only ever
\* costs a clearer error message" (_refuse_existing): a run in create mode that
\* probes when there is a dataset does not commit.
ProbeFailureCostsOnlyTheMessage ==
  [][\A r \in Runs :
       (mode[r] = "create" /\ phase[r] = "committing" /\ base[r] > 0)
         => versions' = versions \/ versions'[Len(versions')].by # r]_vars

\* The whole protocol is one atomic, all-or-nothing publication per run.  Committing
\* again may publish again, from what the first cleanup left.
Again == {r \in Runs : recommits[r] > 0}
Abstract == INSTANCE AtomicPublish WITH EmptyRuns <- FALSE, again <- Again
PublishesAtomically == Abstract!ASpec

\* No run waits for ever: every one is committed or ends in an error.
EveryRunEnds == \A r \in Runs : <>Ended(r)
=============================================================================
