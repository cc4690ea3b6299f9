---------------------------- MODULE ThreadedSink ----------------------------
(***************************************************************************)
(* The local parallel write of _sink.py.  A call of write_lance_fragments  *)
(* hands its shards to a pool of threads, each of which writes data files  *)
(* and publishes nothing, looks at the results in the order of the shards, *)
(* and commits all fragments at once.  If a shard raises, the call cancels *)
(* what has not been started, waits for what has, and raises.              *)
(***************************************************************************)
EXTENDS CommitFragments, FiniteSets

CONSTANTS Calls,       \* calls that write to one dataset, at the same time
          MaxShards,   \* bound on the LazyFrames of a call
          Other,       \* a writer that is none of the calls
          MaxForeign   \* bound on the commits of other writers

ASSUME MaxShardsAssumption == MaxShards \in Nat
ASSUME MaxForeignAssumption == MaxForeign \in Nat
ASSUME OtherAssumption == Other \notin Calls

Shards == 1..MaxShards

VARIABLES mode,      \* each call's write mode
          shards,    \* how many LazyFrames it was given
          rows,      \* those of them that hold rows
          workers,   \* the threads of its pool
          versions,  \* the dataset
          thread,    \* what has become of each shard
          against,   \* the version an appended shard takes its field ids from
          phase,     \* where the calling thread stands
          base       \* the version an append is committed against

given == <<mode, shards, rows, workers>>
vars == <<mode, shards, rows, workers, versions, thread, against, phase, base>>

ThreadStates == {"queued", "running", "written", "failed", "cancelled"}
Phases == {"new", "refused", "writing", "stopping", "committing", "done", "failed"}

Of(c) == 1..shards[c]
Fragment(c, s) == [run |-> c, batch |-> s, attempt |-> 1]
Goto(c, p) == phase' = [phase EXCEPT ![c] = p]

-----------------------------------------------------------------------------
(* The pool.  Tasks are started in the order they were submitted in.       *)

\* A call without LazyFrames, or whose first one has no schema to resolve, raises
\* before anything is written.
Submit(c) ==
  /\ phase[c] = "new"
  /\ Goto(c, "refused") \/ (shards[c] # 0 /\ Goto(c, "writing"))
  /\ UNCHANGED <<given, versions, thread, against, base>>

\* A thread that is free takes the next task, whatever happened to earlier ones;
\* write_fragments in append mode takes its field ids from the latest version.
StartShard(c, s) ==
  /\ phase[c] \in {"writing", "stopping"}
  /\ thread[c][s] = "queued"
  /\ \A t \in 1..s - 1 : thread[c][t] # "queued"
  /\ Cardinality({t \in Of(c) : thread[c][t] = "running"}) < workers[c]
  /\ IF mode[c] = "append" /\ ~Exists(versions)
     THEN thread' = [thread EXCEPT ![c][s] = "failed"] /\ UNCHANGED against
     ELSE /\ thread' = [thread EXCEPT ![c][s] = "running"]
          /\ against' = [against EXCEPT ![c][s] = Len(versions)]
  /\ UNCHANGED <<given, versions, phase, base>>

\* The query of the shard, or the write, ends or raises.
FinishShard(c, s) ==
  /\ thread[c][s] = "running"
  /\ \E result \in {"written", "failed"} : thread' = [thread EXCEPT ![c][s] = result]
  /\ UNCHANGED <<given, versions, against, phase, base>>

\* list(pool.map(...)) meets an exception once it has seen the results of all
\* earlier shards.
MeetException(c) ==
  /\ phase[c] = "writing"
  /\ \E s \in Of(c) : /\ thread[c][s] = "failed"
                      /\ \A t \in 1..s - 1 : thread[c][t] = "written"
  /\ Goto(c, "stopping")
  /\ UNCHANGED <<given, versions, thread, against, base>>

\* It then cancels the tasks still queued, one by one, and may find one started.
CancelShard(c) ==
  /\ phase[c] = "stopping"
  /\ \E s \in Of(c) : /\ thread[c][s] = "queued"
                      /\ thread' = [thread EXCEPT ![c][s] = "cancelled"]
  /\ UNCHANGED <<given, versions, against, phase, base>>

\* Deliberately wrong variants: the pool is left without waiting, or waits for
\* the tasks it has cancelled.
LeavePoolAtOnce(c) ==
  /\ phase[c] = "stopping"
  /\ Goto(c, "failed")
  /\ UNCHANGED <<given, versions, thread, against, base>>
LeavePoolWhenAllWritten(c) ==
  /\ phase[c] = "stopping"
  /\ \A s \in Of(c) : thread[c][s] \in {"written", "failed"}
  /\ Goto(c, "failed")
  /\ UNCHANGED <<given, versions, thread, against, base>>

\* Leaving the pool waits for the threads that are still writing.
LeavePool(c) ==
  /\ phase[c] = "stopping"
  /\ \A s \in Of(c) : thread[c][s] \notin {"queued", "running"}
  /\ Goto(c, "failed")
  /\ UNCHANGED <<given, versions, thread, against, base>>

-----------------------------------------------------------------------------
(* The commit.                                                             *)

\* Deliberately wrong variant: shards that raised are passed over.
PrepareWhatThereIs(c) ==
  /\ phase[c] = "writing"
  /\ \A s \in Of(c) : thread[c][s] \in {"written", "failed"}
  /\ \/ MayRefuse(mode[c], versions) /\ Goto(c, "failed") /\ UNCHANGED base
     \/ /\ MayAccept(mode[c], versions)
        /\ Goto(c, "committing")
        /\ base' = [base EXCEPT ![c] = Len(versions)]
  /\ UNCHANGED <<given, versions, thread, against>>

\* Deliberately wrong variant: versions are counted from zero.
PrepareFromZero(c) ==
  /\ phase[c] = "writing"
  /\ \A s \in Of(c) : thread[c][s] = "written"
  /\ \/ MayRefuse(mode[c], versions) /\ Goto(c, "failed") /\ UNCHANGED base
     \/ /\ MayAccept(mode[c], versions)
        /\ Goto(c, "committing")
        /\ base' = [base EXCEPT ![c] = Len(versions) - 1]
  /\ UNCHANGED <<given, versions, thread, against>>

PrepareCommit(c) ==
  /\ phase[c] = "writing"
  /\ \A s \in Of(c) : thread[c][s] = "written"
  /\ \/ MayRefuse(mode[c], versions) /\ Goto(c, "failed") /\ UNCHANGED base
     \/ /\ MayAccept(mode[c], versions)
        /\ Goto(c, "committing")
        /\ base' = [base EXCEPT ![c] = Len(versions)]
  /\ UNCHANGED <<given, versions, thread, against>>

\* A shard without rows adds no fragment.
Fragments(c) == {Fragment(c, s) : s \in {t \in rows[c] : thread[c][t] = "written"}}

Commit(c) ==
  /\ phase[c] = "committing"
  /\ \/ UNCHANGED versions /\ Goto(c, "failed")
     \/ /\ versions' \in Landed(mode[c], c, Fragments(c), base[c], versions)
        /\ Goto(c, "done") \/ Goto(c, "failed")
  /\ UNCHANGED <<given, thread, against, base>>

CallerStep(c) ==
  Submit(c) \/ MeetException(c) \/ CancelShard(c) \/ LeavePool(c) \/ PrepareCommit(c) \/ Commit(c)

ShardStep(c, s) == StartShard(c, s) \/ FinishShard(c, s)

OtherCommits ==
  /\ Cardinality({i \in 1..Len(versions) : versions[i].by = Other}) < MaxForeign
  /\ LET frag == [run |-> Other, batch |-> Len(versions) + 1, attempt |-> 1]
     IN  \/ versions' = Overwritten(versions, Other, {frag})
         \/ Exists(versions) /\ versions' = Appended(versions, Other, {frag})
  /\ UNCHANGED <<given, thread, against, phase, base>>

Init ==
  /\ mode \in [Calls -> Modes]
  /\ shards \in [Calls -> 0..MaxShards]
  /\ rows \in {held \in [Calls -> SUBSET Shards] : \A c \in Calls : held[c] \subseteq Of(c)}
  /\ workers \in [Calls -> Shards]
  /\ versions = <<>>
  /\ thread = [c \in Calls |-> [s \in Shards |-> "queued"]]
  /\ against = [c \in Calls |-> [s \in Shards |-> 0]]
  /\ phase = [c \in Calls |-> "new"]
  /\ base = [c \in Calls |-> 0]

Next ==
  \/ \E c \in Calls : CallerStep(c) \/ \E s \in Of(c) : ShardStep(c, s)
  \/ OtherCommits

Spec == Init /\ [][Next]_vars

\* Every thread of a pool, and the calling thread, goes on while it can.
Fairness ==
  /\ \A c \in Calls : WF_vars(CallerStep(c))
  /\ \A c \in Calls, s \in Shards : WF_vars(s \in Of(c) /\ ShardStep(c, s))

FairSpec == Spec /\ Fairness

-----------------------------------------------------------------------------
(* Correctness.                                                            *)

FragmentNames == [run: Calls \cup {Other}, batch: Nat, attempt: {1}]

\* Type correctness of the calls, their pools and the dataset.
TypeOK ==
  /\ mode \in [Calls -> Modes]
  /\ shards \in [Calls -> 0..MaxShards]
  /\ rows \in [Calls -> SUBSET Shards] /\ \A c \in Calls : rows[c] \subseteq Of(c)
  /\ workers \in [Calls -> Shards]
  /\ versions \in Seq([by: Calls \cup {Other}, replaces: BOOLEAN, frags: SUBSET FragmentNames])
  /\ thread \in [Calls -> [Shards -> ThreadStates]]
  /\ against \in [Calls -> [Shards -> Nat]]
  /\ phase \in [Calls -> Phases]
  /\ base \in [Calls -> Nat]

\* One shard failing fails the call and publishes nothing: the single commit makes
\* one version of all shards or of none, once, whatever the threads' order.
Abstract == INSTANCE AtomicPublish
              WITH Runs <- Calls, Batches <- Shards, Attempts <- {1}, EmptyRuns <- TRUE,
                   again <- {}
PublishesAtomically == Abstract!ASpec

\* A call that has returned or raised has no thread left that writes files.
NoWriterOutlivesItsCall ==
  \A c \in Calls : phase[c] \in {"committing", "done", "failed"} =>
    \A s \in Of(c) : thread[c][s] \notin {"queued", "running"}

\* Every call returns or raises: no shard waits for a thread for ever, and no
\* exception is waited out.
EveryCallEnds == \A c \in Calls : <>(phase[c] \in {"refused", "done", "failed"})

\* The version whose overwrite installed the schema of version i.
SchemaOf(i) ==
  LET installs == {j \in 1..i : versions[j].replaces}
  IN  IF installs = {} THEN 0 ELSE CHOOSE j \in installs : \A k \in installs : k <= j

\* An append "reuses the existing dataset's field ids, which is what adding to it
\* needs" (fragment_write_mode): the fragments it adds to a version carry the field
\* ids of that version's schema.  Every overwrite here installs a schema of its own.
AppendReusesFieldIds ==
  \A i \in 1..Len(versions) :
    LET c == versions[i].by
    IN  (c # Other /\ ~versions[i].replaces) =>
          \A s \in rows[c] : SchemaOf(against[c][s]) = SchemaOf(i)
=============================================================================
