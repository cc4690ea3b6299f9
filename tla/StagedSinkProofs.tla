-------------------------- MODULE StagedSinkProofs --------------------------
(***************************************************************************)
(* Theorems about the distributed write, for any number of runs, batches   *)
(* and attempts.  No version names data files that are not on storage, a   *)
(* run publishes the whole of its result or nothing, and once; staging     *)
(* outlives whatever fails before the publication; and the write           *)
(* implements AtomicPublish.  The second part has the same write with any  *)
(* naming of its batches, and with someone who reclaims data files: what   *)
(* the first says of single steps holds there as it is.                    *)
(***************************************************************************)
EXTENDS KeyedSink, SequenceTheorems, TLAPS

-----------------------------------------------------------------------------
(* The dataset's type is preserved by both kinds of commit.                *)

VersionType == [by: Runs \cup {Other}, replaces: BOOLEAN, frags: SUBSET Fragments]

LEMMA CommitTypes ==
  ASSUME NEW tbl \in Seq(VersionType), NEW by \in Runs \cup {Other},
         NEW frags \in SUBSET Fragments
  PROVE  Overwritten(tbl, by, frags) \in Seq(VersionType)
         /\ Appended(tbl, by, frags) \in Seq(VersionType)
  <1>1. Latest(tbl) \in SUBSET Fragments
    <2>1. CASE tbl = <<>>
      BY <2>1 DEF Latest, Exists
    <2>2. CASE tbl # <<>>
      <3>1. tbl[Len(tbl)] \in VersionType
        BY <2>2, EmptySeq, ElementOfSeq
      <3> QED BY <2>2, <3>1 DEF Latest, Exists, VersionType
    <2> QED BY <2>1, <2>2
  <1> QED BY <1>1 DEF Overwritten, Appended, Version, VersionType

\* What a commit adds to the dataset are its own fragments.
LEMMA CommitContents ==
  ASSUME NEW tbl \in Seq(VersionType), NEW by, NEW frags, NEW onStorage,
         \A i \in 1..Len(tbl) : tbl[i].frags \subseteq onStorage,
         frags \subseteq onStorage
  PROVE  /\ \A i \in 1..Len(Overwritten(tbl, by, frags)) :
              Overwritten(tbl, by, frags)[i].frags \subseteq onStorage
         /\ \A i \in 1..Len(Appended(tbl, by, frags)) :
              Appended(tbl, by, frags)[i].frags \subseteq onStorage
  <1>1. Latest(tbl) \subseteq onStorage
    BY DEF Latest, Exists
  <1>2. ASSUME NEW v, v.frags \subseteq onStorage, NEW i \in 1..Len(Append(tbl, v))
        PROVE  Append(tbl, v)[i].frags \subseteq onStorage
    <2>1. CASE i = Len(tbl) + 1
      BY <1>2, <2>1
    <2>2. CASE i \in 1..Len(tbl)
      BY <1>2, <2>2
    <2> QED BY <2>1, <2>2, <1>2
  <1> QED BY <1>1, <1>2 DEF Overwritten, Appended, Version

-----------------------------------------------------------------------------
(* Type correctness.                                                       *)

LEMMA InitTypeOK == Init => TypeOK
  BY DEF Init, TypeOK, Phases, Invocations

LEMMA FragmentsOfInvocations == Invocations \subseteq Fragments
  BY DEF Fragments

LEMMA NextTypeOK == TypeOK /\ [Next]_vars => TypeOK'
  <1> SUFFICES ASSUME TypeOK, [Next]_vars PROVE TypeOK'
    OBVIOUS
  <1> USE DEF TypeOK
  <1>0. versions \in Seq(VersionType)
    BY DEF VersionType
  <1>1. CASE UNCHANGED vars
    BY <1>1 DEF vars
  <1>2. ASSUME NEW inv \in Invocations, WorkerStep(inv) PROVE TypeOK'
    <2>1. inv.run \in Runs /\ inv.batch \in Batches
      BY DEF Invocations
    <2>2. inv \in Fragments
      BY FragmentsOfInvocations
    <2>3. CASE WriteFragments(inv)
      BY <2>2, <2>3 DEF WriteFragments, given, clientVars
    <2>4. CASE OpenStaging(inv)
      BY <2>1, <2>4 DEF OpenStaging, Put, Object, Key, given, clientVars
    <2>5. CASE CloseStaging(inv)
      BY <2>1, <2>5 DEF CloseStaging, Put, Object, Key, given, clientVars
    <2>6. CASE Crash(inv)
      BY <2>6 DEF Crash, given, clientVars
    <2> QED BY <1>2, <2>3, <2>4, <2>5, <2>6 DEF WorkerStep
  <1>3. ASSUME NEW r \in Runs, ClientStep(r) \/ Recommit(r) PROVE TypeOK'
    <2>1. CASE Stage(r)
      BY <2>1 DEF Stage, Goto, Phases, given
    <2>2. CASE AwaitResult(r)
      BY <2>2 DEF AwaitResult, Goto, Phases, given
    <2>3. CASE ListStaging(r)
      <3>1. {o.key : o \in Under(r)} \in SUBSET Batches
        BY DEF Under
      <3> QED BY <2>3, <3>1 DEF ListStaging, Goto, Phases, given
    <2>4. CASE ReadStaged(r)
      <3>1. PICK key \in unread[r] :
              /\ collected' = [collected EXCEPT
                                ![r] = @ \cup {o \in Under(r) : o.key = key /\ o.frag # Truncated}]
              /\ unread' = [unread EXCEPT ![r] = @ \ {key}]
              /\ Goto(r, "failed") \/ UNCHANGED phase
        BY <2>4 DEF ReadStaged
      <3>2. {o \in Under(r) : o.key = key /\ o.frag # Truncated}
              \in SUBSET [run: Runs, key: Batches, frag: Invocations]
        BY DEF Under
      <3>3. collected' \in [Runs -> SUBSET [run: Runs, key: Batches, frag: Invocations]]
        BY <3>1, <3>2
      <3>4. unread' \in [Runs -> SUBSET Batches] /\ phase' \in [Runs -> Phases]
        BY <3>1 DEF Goto, Phases
      <3> QED BY <2>4, <3>3, <3>4 DEF ReadStaged, given
    <2>5. CASE PrepareCommit(r)
      <3>1. base' = base \/ base' = [base EXCEPT ![r] = Len(versions)]
        BY <2>5 DEF PrepareCommit
      <3>2. base' \in [Runs -> Nat]
        BY <1>0, <3>1
      <3>3. phase' \in [Runs -> Phases]
        BY <2>5 DEF PrepareCommit, Goto, Phases
      <3> QED BY <2>5, <3>2, <3>3 DEF PrepareCommit, given
    <2>6. CASE Commit(r)
      <3> DEFINE frags == {o.frag : o \in collected[r]}
      <3>1. frags \in SUBSET Fragments
        BY FragmentsOfInvocations
      <3>2. versions' = versions \/ versions' = Appended(versions, r, frags)
              \/ versions' = Overwritten(versions, r, frags)
        BY <2>6 DEF Commit, Landed
      <3>3. versions' \in Seq(VersionType)
        BY <1>0, <3>1, <3>2, CommitTypes
      <3>4. phase' \in [Runs -> Phases]
        BY <2>6 DEF Commit, Goto, Phases
      <3> QED BY <2>6, <3>3, <3>4 DEF Commit, VersionType, given
    <2>7. CASE Cleanup(r)
      BY <2>7 DEF Cleanup, Under, Goto, Phases, given
    <2>8. CASE Recommit(r)
      BY <2>8 DEF Recommit, Goto, Phases, given
    <2> QED BY <1>3, <2>1, <2>2, <2>3, <2>4, <2>5, <2>6, <2>7, <2>8 DEF ClientStep
  <1>4. CASE OtherCommits
    <2> DEFINE frag == [run |-> Other, batch |-> Len(versions) + 1, attempt |-> 1]
    <2>1. frag \in Fragments
      BY <1>0 DEF Fragments
    <2>2. versions' = Overwritten(versions, Other, {frag})
            \/ versions' = Appended(versions, Other, {frag})
      BY <1>4 DEF OtherCommits
    <2>3. versions' \in Seq(VersionType)
      <3> DEFINE added == {frag}
      <3>1. added \in SUBSET Fragments /\ Other \in Runs \cup {Other}
        BY <2>1
      <3>2. versions' = Overwritten(versions, Other, added)
              \/ versions' = Appended(versions, Other, added)
        BY <2>2
      <3> HIDE DEF added
      <3>3. /\ Overwritten(versions, Other, added) \in Seq(VersionType)
            /\ Appended(versions, Other, added) \in Seq(VersionType)
        BY <1>0, <3>1, CommitTypes
      <3> QED BY <3>2, <3>3
    <2>4. files' = files \cup {frag}
      BY <1>4 DEF OtherCommits
    <2> QED BY <1>4, <2>1, <2>3, <2>4 DEF OtherCommits, VersionType, given, clientVars
  <1> QED BY <1>1, <1>2, <1>3, <1>4 DEF Next

\* The state of a run, its workers and the table has the type it should.
THEOREM TypeCorrect == Spec => []TypeOK
  <1> QED BY InitTypeOK, NextTypeOK, PTL DEF Spec

-----------------------------------------------------------------------------
(* No dangling fragment.                                                   *)

\* Where a fragment can be named, and what is then known of it: its data files
\* were written before any name was.
WrittenFirst ==
  /\ \A inv \in Invocations : worker[inv] \in {"wrote", "opened", "staged"} => inv \in files
  /\ \A o \in staging : o.frag # Truncated => o.frag \in files
  /\ \A r \in Runs : \A o \in collected[r] : o.frag \in files

IInv == TypeOK /\ WrittenFirst /\ NoDanglingFragment

LEMMA InitIInv == Init => IInv
  <1> SUFFICES ASSUME Init PROVE IInv
    OBVIOUS
  <1>1. WrittenFirst
    BY DEF Init, WrittenFirst
  <1>2. NoDanglingFragment
    BY DEF Init, NoDanglingFragment
  <1> QED BY <1>1, <1>2, InitTypeOK DEF IInv

LEMMA NextIInv == IInv /\ [Next]_vars => IInv'
  <1> SUFFICES ASSUME IInv, [Next]_vars PROVE IInv'
    OBVIOUS
  <1>1. TypeOK /\ TypeOK' /\ versions \in Seq(VersionType)
    BY NextTypeOK DEF IInv, TypeOK, VersionType
  <1>2. files \subseteq files'
    <2>1. ASSUME NEW inv \in Invocations, WorkerStep(inv) PROVE files \subseteq files'
      BY <2>1 DEF WorkerStep, WriteFragments, OpenStaging, CloseStaging, Crash
    <2>2. ASSUME NEW r \in Runs, ClientStep(r) \/ Recommit(r) PROVE files \subseteq files'
      BY <2>2 DEF ClientStep, Stage, AwaitResult, ListStaging, ReadStaged, PrepareCommit,
                  Commit, Cleanup, Recommit
    <2>3. CASE OtherCommits
      BY <2>3 DEF OtherCommits
    <2>4. CASE UNCHANGED vars
      BY <2>4 DEF vars
    <2> QED BY <2>1, <2>2, <2>3, <2>4 DEF Next
  <1>3. WrittenFirst'
    <2> USE <1>1, <1>2 DEF IInv, TypeOK, WrittenFirst
    <2>1. CASE UNCHANGED vars
      BY <2>1 DEF vars
    <2>2. ASSUME NEW inv \in Invocations, WriteFragments(inv) PROVE WrittenFirst'
      BY <2>2 DEF WriteFragments, clientVars
    <2>3. ASSUME NEW inv \in Invocations, OpenStaging(inv) PROVE WrittenFirst'
      BY <2>3 DEF OpenStaging, Put, Object, clientVars
    <2>4. ASSUME NEW inv \in Invocations, CloseStaging(inv) PROVE WrittenFirst'
      BY <2>4 DEF CloseStaging, Put, Object, clientVars
    <2>5. ASSUME NEW inv \in Invocations, Crash(inv) PROVE WrittenFirst'
      BY <2>5 DEF Crash, clientVars
    <2>6. ASSUME NEW r \in Runs, Stage(r) \/ AwaitResult(r) \/ PrepareCommit(r) \/ Commit(r)
                                  \/ Recommit(r)
          PROVE  WrittenFirst'
      <3>1. UNCHANGED <<worker, staging, collected>>
        BY <2>6 DEF Stage, AwaitResult, PrepareCommit, Commit, Recommit
      <3> QED BY <3>1
    <2>7. ASSUME NEW r \in Runs, ListStaging(r) PROVE WrittenFirst'
      BY <2>7 DEF ListStaging
    <2>8. ASSUME NEW r \in Runs, ReadStaged(r) PROVE WrittenFirst'
      <3>1. PICK key \in unread[r] :
              collected' = [collected EXCEPT
                              ![r] = @ \cup {o \in Under(r) : o.key = key /\ o.frag # Truncated}]
        BY <2>8 DEF ReadStaged
      <3>2. \A q \in Runs : \A o \in collected'[q] :
               o \in collected[q] \/ (o \in staging /\ o.frag # Truncated)
        BY <3>1 DEF Under
      <3> QED BY <2>8, <3>2 DEF ReadStaged
    <2>9. ASSUME NEW r \in Runs, Cleanup(r) PROVE WrittenFirst'
      <3>1. staging' \subseteq staging /\ UNCHANGED <<worker, collected>>
        BY <2>9 DEF Cleanup, Under
      <3> QED BY <3>1
    <2>10. CASE OtherCommits
      BY <2>10 DEF OtherCommits, clientVars
    <2> QED BY <2>1, <2>2, <2>3, <2>4, <2>5, <2>6, <2>7, <2>8, <2>9, <2>10
            DEF Next, WorkerStep, ClientStep
  <1>4. NoDanglingFragment'
    <2>1. \A i \in 1..Len(versions) : versions[i].frags \subseteq files'
      BY <1>2 DEF IInv, NoDanglingFragment
    <2>2. ASSUME versions' = versions PROVE NoDanglingFragment'
      BY <2>1, <2>2 DEF NoDanglingFragment
    <2>3. ASSUME NEW by, NEW frags, frags \subseteq files',
                 versions' = Overwritten(versions, by, frags)
                   \/ versions' = Appended(versions, by, frags)
          PROVE  NoDanglingFragment'
      BY <1>1, <2>1, <2>3, CommitContents DEF NoDanglingFragment
    <2>4. ASSUME NEW r \in Runs, Commit(r) PROVE NoDanglingFragment'
      <3> DEFINE frags == {o.frag : o \in collected[r]}
      <3>1. frags \subseteq files'
        BY <1>2 DEF IInv, WrittenFirst
      <3>2. versions' = versions \/ versions' = Overwritten(versions, r, frags)
              \/ versions' = Appended(versions, r, frags)
        BY <2>4 DEF Commit, Landed
      <3> HIDE DEF frags
      <3> QED BY <2>2, <2>3, <3>1, <3>2
    <2>5. CASE OtherCommits
      <3>1. PICK frag : /\ files' = files \cup {frag}
                        /\ versions' = Overwritten(versions, Other, {frag})
                             \/ versions' = Appended(versions, Other, {frag})
        BY <2>5 DEF OtherCommits
      <3>2. {frag} \subseteq files'
        BY <3>1
      <3> QED BY <2>3, <3>1, <3>2
    <2>6. ASSUME NEW inv \in Invocations, WorkerStep(inv) PROVE NoDanglingFragment'
      BY <2>2, <2>6 DEF WorkerStep, WriteFragments, OpenStaging, CloseStaging, Crash
    <2>7. ASSUME NEW r \in Runs, ClientStep(r) \/ Recommit(r), ~Commit(r)
          PROVE  NoDanglingFragment'
      BY <2>2, <2>7 DEF ClientStep, Stage, AwaitResult, ListStaging, ReadStaged,
                        PrepareCommit, Cleanup, Recommit
    <2>8. CASE UNCHANGED vars
      BY <2>2, <2>8 DEF vars
    <2> QED BY <2>4, <2>5, <2>6, <2>7, <2>8 DEF Next
  <1> QED BY <1>1, <1>3, <1>4 DEF IInv

\* The order of the callback's two writes is enough: whatever crashes, repeats or
\* straggles, every fragment of every version has its data files.
THEOREM DanglingNever == Spec => []NoDanglingFragment
  <1>1. IInv => NoDanglingFragment
    BY DEF IInv
  <1> QED BY <1>1, InitIInv, NextIInv, PTL DEF Spec

-----------------------------------------------------------------------------
(* A run, from its workers to its versions.                                *)

Published(r) == \E i \in 1..Len(versions) : versions[i].by = r

\* Every batch of the run has been through the callback.
Through(r) == \A b \in rows[r] : \E a \in Attempts : worker[Invocation(r, b, a)] = "staged"

Names(objects) == {o.key : o \in objects}

\* Only batches with rows are ever staged.
StartedRows ==
  \A inv \in Invocations : worker[inv] # "idle" => inv.batch \in rows[inv.run]

\* A staging object is named after the batch of its run that its fragment holds,
\* and there is one of each name.
StagingFits ==
  \A o \in staging :
    /\ o.key \in rows[o.run]
    /\ o.frag # Truncated => o.frag.run = o.run /\ o.frag.batch = o.key
    /\ \A p \in staging : (o.run = p.run /\ o.key = p.key) => o = p

\* What was staged stays until it is published.
StagedIsThere ==
  \A inv \in Invocations : worker[inv] = "staged" =>
    Published(inv.run) \/ inv.batch \in Names(Under(inv.run))

\* What a client has read is one fragment of its run for each name.
CollectedFits ==
  \A r \in Runs : \A o \in collected[r] :
    /\ o.run = r /\ o.key \in rows[r] /\ o.frag.run = r /\ o.frag.batch = o.key
    /\ \A p \in collected[r] : o.key = p.key => o = p

\* A client that reads the prefix of a run that is not published yet finds every
\* batch of it; one that commits for the first time has not published before.
ReadingFits ==
  \A r \in Runs : phase[r] = "reading" =>
    /\ unread[r] \cap Names(collected[r]) = {}
    /\ ~Published(r) => unread[r] \cup Names(collected[r]) = rows[r]

CommittingFits ==
  \A r \in Runs : phase[r] = "committing" =>
    /\ collected[r] # {}
    /\ ~Published(r) => Names(collected[r]) = rows[r]
    /\ mode[r] = "append" => Exists(versions)

PhaseFits ==
  \A r \in Runs :
    /\ phase[r] \in {"awaited", "reading", "committing"} => Through(r)
    /\ phase[r] = "cleaning" => Published(r)
    /\ phase[r] \in {"new", "running", "awaited", "reading", "committing"}
         /\ recommits[r] = 0 => ~Published(r)

\* A version names fragments of runs that have published.
NamedByItsRun ==
  \A i \in 1..Len(versions) : \A f \in versions[i].frags : f.run \in Runs => Published(f.run)

RunInv ==
  /\ TypeOK /\ StartedRows /\ StagingFits /\ StagedIsThere /\ CollectedFits
  /\ ReadingFits /\ CommittingFits /\ PhaseFits /\ NamedByItsRun

-----------------------------------------------------------------------------
(* What every step does.                                                   *)

LEMMA AppendedVersion ==
  ASSUME NEW tbl \in Seq(VersionType), NEW v
  PROVE  /\ Len(Append(tbl, v)) = Len(tbl) + 1
         /\ \A i \in 1..Len(tbl) : Append(tbl, v)[i] = tbl[i]
         /\ Append(tbl, v)[Len(tbl) + 1] = v
         /\ Append(tbl, v) # <<>>
  <1>1. Len(tbl) \in Nat
    OBVIOUS
  <1>2. Len(Append(tbl, v)) = Len(tbl) + 1
    OBVIOUS
  <1>3. \A i \in 1..Len(tbl) : Append(tbl, v)[i] = tbl[i]
    OBVIOUS
  <1>4. Append(tbl, v)[Len(tbl) + 1] = v
    OBVIOUS
  <1> QED BY <1>1, <1>2, <1>3, <1>4

LEMMA PublishedByAppend ==
  ASSUME versions \in Seq(VersionType), NEW v, versions' = Append(versions, v)
  PROVE  /\ \A r : Published(r)' <=> (Published(r) \/ v.by = r)
         /\ Exists(versions)'
  <1>1. /\ Len(versions') = Len(versions) + 1 /\ Len(versions) \in Nat
        /\ \A i \in 1..Len(versions) : versions'[i] = versions[i]
        /\ versions'[Len(versions) + 1] = v
        /\ versions' # <<>>
    BY AppendedVersion
  <1>2. 1..Len(versions') = 1..Len(versions) \cup {Len(versions) + 1}
    BY <1>1
  <1>3. ASSUME NEW r PROVE Published(r)' <=> (Published(r) \/ v.by = r)
    BY <1>1, <1>2 DEF Published
  <1> QED BY <1>1, <1>3 DEF Exists

\* Only a run's commit and other writers touch the dataset.
LEMMA TableSteps ==
  ASSUME [Next]_vars
  PROVE  \/ UNCHANGED versions
         \/ \E r \in Runs : Commit(r)
         \/ OtherCommits
  BY DEF Next, vars, WorkerStep, WriteFragments, OpenStaging, CloseStaging, Crash, ClientStep,
         Stage, AwaitResult, ListStaging, ReadStaged, PrepareCommit, Cleanup, Recommit

\* A version is added at a time, and a run's commit adds its own.
LEMMA CommitAdds ==
  ASSUME NEW r \in Runs, Commit(r)
  PROVE  \/ UNCHANGED versions
         \/ \E v : versions' = Append(versions, v) /\ v.by = r
  BY DEF Commit, Landed, Overwritten, Appended, Version

LEMMA OtherAdds ==
  ASSUME OtherCommits
  PROVE  \E v : versions' = Append(versions, v) /\ v.by = Other
  BY DEF OtherCommits, Overwritten, Appended, Version

\* Nothing that a run relies on is taken back.
LEMMA Progress ==
  ASSUME TypeOK, [Next]_vars
  PROVE  /\ UNCHANGED given
         /\ \A r : Published(r) => Published(r)'
         /\ Exists(versions) => Exists(versions)'
         /\ \A inv \in Invocations : worker[inv] = "staged" => worker'[inv] = "staged"
         /\ \A r \in Runs : Through(r) => Through(r)'
  <1>1. UNCHANGED given
    BY DEF Next, vars, WorkerStep, WriteFragments, OpenStaging, CloseStaging, Crash, ClientStep,
           Stage, AwaitResult, ListStaging, ReadStaged, PrepareCommit, Commit, Cleanup, Recommit,
           OtherCommits, given
  <1>2. UNCHANGED versions \/ \E v : versions' = Append(versions, v)
    BY TableSteps, CommitAdds, OtherAdds
  <1>3. versions \in Seq(VersionType)
    BY DEF TypeOK, VersionType
  <1>4. /\ \A r : Published(r) => Published(r)'
        /\ Exists(versions) => Exists(versions)'
    BY <1>2, <1>3, PublishedByAppend DEF Published, Exists
  <1>5. \A inv \in Invocations : worker[inv] = "staged" => worker'[inv] = "staged"
    <2>1. ASSUME NEW inv \in Invocations, WorkerStep(inv)
          PROVE  \A i \in Invocations : worker[i] = "staged" => worker'[i] = "staged"
      BY <2>1 DEF WorkerStep, WriteFragments, OpenStaging, CloseStaging, Crash, TypeOK
    <2>2. UNCHANGED worker \/ \E inv \in Invocations : WorkerStep(inv)
      BY DEF Next, vars, ClientStep, Stage, AwaitResult, ListStaging, ReadStaged, PrepareCommit,
             Commit, Cleanup, Recommit, OtherCommits
    <2> QED BY <2>1, <2>2
  <1>6. ASSUME NEW r \in Runs, Through(r) PROVE Through(r)'
    <2>1. \A b \in rows[r], a \in Attempts : Invocation(r, b, a) \in Invocations
      BY DEF Invocation, Invocations, TypeOK
    <2> QED BY <1>1, <1>5, <1>6, <2>1 DEF Through, given
  <1> QED BY <1>1, <1>4, <1>5, <1>6

-----------------------------------------------------------------------------
(* The workers and the staging prefix.                                     *)

LEMMA StartedRowsNext == RunInv /\ [Next]_vars => StartedRows'
  <1> SUFFICES ASSUME RunInv, [Next]_vars PROVE StartedRows'
    OBVIOUS
  <1>1. TypeOK /\ StartedRows /\ UNCHANGED rows
    BY Progress DEF RunInv, given
  <1>2. ASSUME NEW inv \in Invocations, WorkerStep(inv) PROVE StartedRows'
    <2>1. inv.batch \in rows[inv.run]
      BY <1>1, <1>2 DEF WorkerStep, WriteFragments, OpenStaging, CloseStaging, Crash, MayStart,
                        StartedRows
    <2>2. \A i \in Invocations : i # inv => worker'[i] = worker[i]
      BY <1>1, <1>2 DEF WorkerStep, WriteFragments, OpenStaging, CloseStaging, Crash, TypeOK
    <2> QED BY <1>1, <2>1, <2>2 DEF StartedRows
  <1>3. UNCHANGED worker \/ \E inv \in Invocations : WorkerStep(inv)
    BY DEF Next, vars, ClientStep, Stage, AwaitResult, ListStaging, ReadStaged, PrepareCommit,
           Commit, Cleanup, Recommit, OtherCommits
  <1> QED BY <1>1, <1>2, <1>3 DEF StartedRows

\* The objects are those of before, fewer of a published run, or one has been put.
LEMMA StagingSteps ==
  ASSUME [Next]_vars
  PROVE  \/ UNCHANGED staging
         \/ \E inv \in Invocations : OpenStaging(inv) \/ CloseStaging(inv)
         \/ \E r \in Runs : Cleanup(r)
  BY DEF Next, vars, WorkerStep, WriteFragments, Crash, ClientStep, Stage, AwaitResult,
         ListStaging, ReadStaged, PrepareCommit, Commit, Recommit, OtherCommits

LEMMA CleanupRemoves ==
  ASSUME NEW r \in Runs, Cleanup(r)
  PROVE  /\ staging' \subseteq staging
         /\ \A o \in staging : o.run # r => o \in staging'
         /\ phase[r] = "cleaning" /\ UNCHANGED <<versions, worker>>
  BY DEF Cleanup, Under

LEMMA PutObject ==
  ASSUME NEW inv \in Invocations, OpenStaging(inv) \/ CloseStaging(inv)
  PROVE  \E frag \in {inv, Truncated} :
           /\ staging' = {o \in staging : <<o.run, o.key>> # <<inv.run, inv.batch>>}
                           \cup {Object(inv.run, inv.batch, frag)}
           /\ worker[inv] # "idle" /\ worker' = [worker EXCEPT ![inv] = worker'[inv]]
           /\ UNCHANGED versions
  BY DEF OpenStaging, CloseStaging, Put, Object, Key

LEMMA StagingFitsNext == RunInv /\ [Next]_vars => StagingFits'
  <1> SUFFICES ASSUME RunInv, [Next]_vars PROVE StagingFits'
    OBVIOUS
  <1>1. TypeOK /\ StartedRows /\ StagingFits /\ UNCHANGED rows
    BY Progress DEF RunInv, given
  <1>2. ASSUME NEW inv \in Invocations, OpenStaging(inv) \/ CloseStaging(inv)
        PROVE  StagingFits'
    <2>1. PICK frag \in {inv, Truncated} :
            /\ staging' = {o \in staging : <<o.run, o.key>> # <<inv.run, inv.batch>>}
                            \cup {Object(inv.run, inv.batch, frag)}
            /\ worker[inv] # "idle"
      BY <1>2, PutObject
    <2> DEFINE new == Object(inv.run, inv.batch, frag)
    <2>2. /\ new.run = inv.run /\ new.key = inv.batch /\ new.frag = frag
          /\ new.key \in rows[new.run]
          /\ new.frag # Truncated => new.frag.run = new.run /\ new.frag.batch = new.key
      BY <1>1, <2>1 DEF Object, StartedRows
    <2> HIDE DEF new
    <2>3. \A o \in staging' : o = new \/ (o \in staging /\ ~(o.run = new.run /\ o.key = new.key))
      BY <2>1, <2>2 DEF new
    <2>4. ASSUME NEW o \in staging'
          PROVE  /\ o.key \in rows[o.run]
                 /\ o.frag # Truncated => o.frag.run = o.run /\ o.frag.batch = o.key
                 /\ \A p \in staging' : (o.run = p.run /\ o.key = p.key) => o = p
      BY <1>1, <2>2, <2>3 DEF StagingFits
    <2> QED BY <1>1, <2>4 DEF StagingFits
  <1>3. ASSUME staging' \subseteq staging PROVE StagingFits'
    BY <1>1, <1>3 DEF StagingFits
  <1> QED BY <1>2, <1>3, StagingSteps, CleanupRemoves

LEMMA StagedIsThereNext == RunInv /\ [Next]_vars => StagedIsThere'
  <1> SUFFICES ASSUME RunInv, [Next]_vars, NEW i \in Invocations, worker'[i] = "staged",
                      ~Published(i.run)'
               PROVE  (i.batch \in Names(Under(i.run)))'
    BY DEF StagedIsThere
  <1>1. TypeOK /\ StagedIsThere /\ ~Published(i.run) /\ i.run \in Runs
    BY Progress DEF RunInv, Invocations
  <1>2. ASSUME NEW inv \in Invocations, OpenStaging(inv) \/ CloseStaging(inv)
        PROVE  \E o \in staging' : o.run = i.run /\ o.key = i.batch
    <2>1. PICK frag \in {inv, Truncated} :
            /\ staging' = {o \in staging : <<o.run, o.key>> # <<inv.run, inv.batch>>}
                            \cup {Object(inv.run, inv.batch, frag)}
            /\ worker' = [worker EXCEPT ![inv] = worker'[inv]]
      BY <1>2, PutObject
    <2> DEFINE new == Object(inv.run, inv.batch, frag)
    <2>2. new \in staging' /\ new.run = inv.run /\ new.key = inv.batch
      BY <2>1 DEF Object
    <2>3. CASE i.run = inv.run /\ i.batch = inv.batch
      BY <2>2, <2>3
    <2>4. CASE ~(i.run = inv.run /\ i.batch = inv.batch)
      <3>1. worker[i] = "staged"
        BY <1>1, <2>1, <2>4 DEF TypeOK
      <3>2. PICK o \in staging : o.run = i.run /\ o.key = i.batch
        BY <1>1, <3>1 DEF StagedIsThere, Names, Under
      <3> QED BY <2>1, <2>4, <3>2
    <2> QED BY <2>3, <2>4
  <1>3. ASSUME ~\E inv \in Invocations : OpenStaging(inv) \/ CloseStaging(inv)
        PROVE  \E o \in staging' : o.run = i.run /\ o.key = i.batch
    <2>1. worker[i] = "staged"
      <3>1. ASSUME NEW inv \in Invocations, WriteFragments(inv) \/ Crash(inv)
            PROVE  worker[i] = "staged"
        BY <1>1, <3>1 DEF WriteFragments, Crash, TypeOK
      <3>2. UNCHANGED worker \/ \E inv \in Invocations : WriteFragments(inv) \/ Crash(inv)
        BY <1>3 DEF Next, WorkerStep, vars, ClientStep, Stage, AwaitResult, ListStaging,
                    ReadStaged, PrepareCommit, Commit, Cleanup, Recommit, OtherCommits
      <3> QED BY <3>1, <3>2
    <2>2. PICK o \in staging : o.run = i.run /\ o.key = i.batch
      BY <1>1, <2>1 DEF StagedIsThere, Names, Under
    <2>3. ASSUME NEW r \in Runs, Cleanup(r) PROVE o \in staging'
      <3>1. Published(r)
        BY <2>3, CleanupRemoves DEF RunInv, PhaseFits
      <3> QED BY <1>1, <2>2, <2>3, <3>1, CleanupRemoves
    <2>4. o \in staging'
      BY <1>3, <2>2, <2>3, StagingSteps
    <2> QED BY <2>2, <2>4
  <1>4. PICK o \in staging' : o.run = i.run /\ o.key = i.batch
    BY <1>2, <1>3
  <1> QED BY <1>4 DEF Names, Under

-----------------------------------------------------------------------------
(* The client.                                                             *)

Readable(r, key) == {o \in Under(r) : o.key = key /\ o.frag # Truncated}

LEMMA ReadStep ==
  ASSUME NEW r \in Runs, ReadStaged(r), RunInv
  PROVE  \E key \in unread[r] :
           /\ collected' = [collected EXCEPT ![r] = @ \cup Readable(r, key)]
           /\ unread' = [unread EXCEPT ![r] = @ \ {key}]
           /\ IF Readable(r, key) = {} THEN Goto(r, "failed") ELSE UNCHANGED phase
           /\ \A o \in Readable(r, key) :
                /\ o.run = r /\ o.key = key /\ o.key \in rows[r]
                /\ o.frag.run = r /\ o.frag.batch = o.key
                /\ \A p \in Readable(r, key) : o = p
  <1>1. PICK key \in unread[r] :
          /\ collected' = [collected EXCEPT ![r] = @ \cup Readable(r, key)]
          /\ unread' = [unread EXCEPT ![r] = @ \ {key}]
          /\ IF Readable(r, key) = {} THEN Goto(r, "failed") ELSE UNCHANGED phase
    BY DEF ReadStaged, Readable
  <1>2. \A o \in Readable(r, key) :
          /\ o.run = r /\ o.key = key /\ o.key \in rows[r]
          /\ o.frag.run = r /\ o.frag.batch = o.key
          /\ \A p \in Readable(r, key) : o = p
    BY DEF RunInv, StagingFits, Under, Readable
  <1> QED BY <1>1, <1>2

\* Listing and reading are the only steps that touch what a client has read.
LEMMA ClientSteps ==
  ASSUME [Next]_vars
  PROVE  \/ UNCHANGED <<unread, collected>>
         \/ \E r \in Runs : ListStaging(r) \/ ReadStaged(r)
  BY DEF Next, vars, clientVars, WorkerStep, WriteFragments, OpenStaging, CloseStaging, Crash,
         ClientStep, Stage, AwaitResult, PrepareCommit, Commit, Cleanup, Recommit, OtherCommits

LEMMA CollectedFitsNext == RunInv /\ [Next]_vars => CollectedFits'
  <1> SUFFICES ASSUME RunInv, [Next]_vars PROVE CollectedFits'
    OBVIOUS
  <1>1. TypeOK /\ CollectedFits /\ UNCHANGED rows
    BY Progress DEF RunInv, given
  <1>2. CASE UNCHANGED <<unread, collected>>
    BY <1>1, <1>2 DEF CollectedFits
  <1>3. ASSUME NEW r \in Runs, ListStaging(r) PROVE CollectedFits'
    BY <1>1, <1>3 DEF ListStaging, CollectedFits, TypeOK
  <1>4. ASSUME NEW r \in Runs, ReadStaged(r) PROVE CollectedFits'
    <2>1. PICK key \in unread[r] :
            /\ collected' = [collected EXCEPT ![r] = @ \cup Readable(r, key)]
            /\ \A o \in Readable(r, key) :
                 /\ o.run = r /\ o.key = key /\ o.key \in rows[r]
                 /\ o.frag.run = r /\ o.frag.batch = o.key
                 /\ \A p \in Readable(r, key) : o = p
      BY <1>4, ReadStep
    <2> DEFINE readable == Readable(r, key)
    <2>2. /\ collected' = [collected EXCEPT ![r] = @ \cup readable]
          /\ \A o \in readable :
               /\ o.run = r /\ o.key = key /\ o.key \in rows[r]
               /\ o.frag.run = r /\ o.frag.batch = o.key
               /\ \A p \in readable : o = p
      BY <2>1
    <2> HIDE DEF readable
    <2>3. \A o \in collected[r] : o.key # key
      BY <1>4 DEF ReadStaged, RunInv, ReadingFits, Names
    <2>4. ASSUME NEW q \in Runs, NEW o \in collected'[q]
          PROVE  /\ o.run = q /\ o.key \in rows[q] /\ o.frag.run = q /\ o.frag.batch = o.key
                 /\ \A p \in collected'[q] : o.key = p.key => o = p
      <3>1. CASE q = r
        <4>1. collected'[r] = collected[r] \cup readable
          BY <1>1, <2>2 DEF TypeOK
        <4> QED BY <1>1, <2>2, <2>3, <2>4, <3>1, <4>1 DEF CollectedFits
      <3>2. CASE q # r
        BY <1>1, <2>2, <2>4, <3>2 DEF CollectedFits, TypeOK
      <3> QED BY <3>1, <3>2
    <2> QED BY <1>1, <2>4 DEF CollectedFits
  <1> QED BY <1>2, <1>3, <1>4, ClientSteps

\* A step of another run, of a worker or of another writer leaves a client where it is.
LEMMA PhaseSteps ==
  ASSUME TypeOK, [Next]_vars, NEW r \in Runs
  PROVE  \/ ClientStep(r) \/ Recommit(r)
         \/ UNCHANGED <<phase[r], unread[r], collected[r], recommits[r]>>
  <1>1. ASSUME NEW q \in Runs, q # r, ClientStep(q) \/ Recommit(q)
        PROVE  UNCHANGED <<phase[r], unread[r], collected[r], recommits[r]>>
    <2> USE <1>1 DEF TypeOK, Goto
    <2>1. CASE Stage(q)
      BY <2>1 DEF Stage
    <2>2. CASE AwaitResult(q)
      BY <2>2 DEF AwaitResult
    <2>3. CASE ListStaging(q)
      BY <2>3 DEF ListStaging
    <2>4. CASE ReadStaged(q)
      BY <2>4 DEF ReadStaged
    <2>5. CASE PrepareCommit(q)
      BY <2>5 DEF PrepareCommit
    <2>6. CASE Commit(q)
      BY <2>6 DEF Commit
    <2>7. CASE Cleanup(q)
      BY <2>7 DEF Cleanup
    <2>8. CASE Recommit(q)
      BY <2>8 DEF Recommit
    <2> QED BY <1>1, <2>1, <2>2, <2>3, <2>4, <2>5, <2>6, <2>7, <2>8 DEF ClientStep
  <1>2. CASE UNCHANGED clientVars
    BY <1>2 DEF clientVars
  <1>3. UNCHANGED clientVars \/ \E q \in Runs : ClientStep(q) \/ Recommit(q)
    BY DEF Next, vars, clientVars, WorkerStep, WriteFragments, OpenStaging, CloseStaging, Crash,
           OtherCommits
  <1> QED BY <1>1, <1>2, <1>3

LEMMA ListedAll ==
  ASSUME RunInv, NEW r \in Runs, Through(r), ~Published(r)
  PROVE  Names(Under(r)) = rows[r]
  <1>1. \A o \in Under(r) : o.key \in rows[r]
    BY DEF RunInv, StagingFits, Under
  <1>2. ASSUME NEW b \in rows[r] PROVE b \in Names(Under(r))
    <2>1. PICK a \in Attempts : worker[Invocation(r, b, a)] = "staged"
      BY <1>2 DEF Through
    <2>2. /\ Invocation(r, b, a) \in Invocations
          /\ Invocation(r, b, a).run = r /\ Invocation(r, b, a).batch = b
      BY <1>2 DEF Invocation, Invocations, RunInv, TypeOK
    <2> QED BY <2>1, <2>2 DEF RunInv, StagedIsThere
  <1> QED BY <1>1, <1>2 DEF Names

LEMMA ReadingFitsNext == RunInv /\ [Next]_vars => ReadingFits'
  <1> SUFFICES ASSUME RunInv, [Next]_vars, NEW r \in Runs, phase'[r] = "reading"
               PROVE  /\ unread'[r] \cap Names(collected'[r]) = {}
                      /\ ~Published(r)' => unread'[r] \cup Names(collected'[r]) = rows'[r]
    BY DEF ReadingFits, Names
  <1>1. TypeOK /\ ReadingFits /\ UNCHANGED rows /\ (~Published(r)' => ~Published(r))
    BY Progress DEF RunInv, given
  <1>2. CASE UNCHANGED <<phase[r], unread[r], collected[r], recommits[r]>>
    BY <1>1, <1>2 DEF ReadingFits
  <1>3. CASE ListStaging(r)
    <2>1. unread'[r] = Names(Under(r)) /\ collected'[r] = {} /\ phase[r] = "awaited"
      BY <1>1, <1>3 DEF ListStaging, Names, TypeOK
    <2>2. Through(r)
      BY <2>1 DEF RunInv, PhaseFits
    <2> QED BY <1>1, <2>1, <2>2, ListedAll DEF Names
  <1>4. CASE ReadStaged(r)
    <2>1. PICK key \in unread[r] :
            /\ collected' = [collected EXCEPT ![r] = @ \cup Readable(r, key)]
            /\ unread' = [unread EXCEPT ![r] = @ \ {key}]
            /\ IF Readable(r, key) = {} THEN Goto(r, "failed") ELSE UNCHANGED phase
            /\ \A o \in Readable(r, key) : o.key = key
      BY <1>4, ReadStep
    <2> DEFINE readable == Readable(r, key)
    <2>2. /\ collected' = [collected EXCEPT ![r] = @ \cup readable]
          /\ unread' = [unread EXCEPT ![r] = @ \ {key}]
          /\ IF readable = {} THEN Goto(r, "failed") ELSE UNCHANGED phase
          /\ \A o \in readable : o.key = key
      BY <2>1
    <2> HIDE DEF readable
    <2>3. readable # {} /\ phase[r] = "reading"
      BY <1>1, <1>4, <2>2 DEF Goto, TypeOK, ReadStaged
    <2>4. collected'[r] = collected[r] \cup readable /\ unread'[r] = unread[r] \ {key}
      BY <1>1, <2>2 DEF TypeOK
    <2>5. Names(collected'[r]) = Names(collected[r]) \cup {key}
      BY <2>2, <2>3, <2>4 DEF Names
    <2> QED BY <1>1, <2>1, <2>3, <2>4, <2>5 DEF ReadingFits
  <1>5. ASSUME ClientStep(r) \/ Recommit(r), ~ListStaging(r), ~ReadStaged(r) PROVE FALSE
    BY <1>1, <1>5 DEF ClientStep, Stage, AwaitResult, PrepareCommit, Commit, Cleanup, Recommit,
                      Goto, TypeOK
  <1> QED BY <1>1, <1>2, <1>3, <1>4, <1>5, PhaseSteps

LEMMA CommittingFitsNext == RunInv /\ [Next]_vars => CommittingFits'
  <1> SUFFICES ASSUME RunInv, [Next]_vars, NEW r \in Runs, phase'[r] = "committing"
               PROVE  /\ collected'[r] # {}
                      /\ ~Published(r)' => Names(collected'[r]) = rows'[r]
                      /\ mode'[r] = "append" => Exists(versions)'
    BY DEF CommittingFits, Names, Exists
  <1>1. /\ TypeOK /\ UNCHANGED <<mode, rows>> /\ (~Published(r)' => ~Published(r))
        /\ Exists(versions) => Exists(versions)'
    BY Progress DEF RunInv, given
  <1>2. CASE UNCHANGED <<phase[r], unread[r], collected[r], recommits[r]>>
    BY <1>1, <1>2 DEF RunInv, CommittingFits
  <1>3. CASE PrepareCommit(r)
    <2>1. /\ phase[r] = "reading" /\ unread[r] = {} /\ collected[r] # {}
          /\ MayAccept(mode[r], versions) /\ UNCHANGED collected
      BY <1>1, <1>3 DEF PrepareCommit, Goto, TypeOK
    <2> QED BY <1>1, <2>1 DEF RunInv, ReadingFits, MayAccept
  <1>4. ASSUME ClientStep(r) \/ Recommit(r), ~PrepareCommit(r) PROVE FALSE
    <2> USE <1>1 DEF Goto, TypeOK
    <2>1. CASE Stage(r)
      BY <2>1 DEF Stage
    <2>2. CASE AwaitResult(r)
      BY <2>2 DEF AwaitResult
    <2>3. CASE ListStaging(r)
      BY <2>3 DEF ListStaging
    <2>4. CASE ReadStaged(r)
      BY <2>4 DEF ReadStaged
    <2>5. CASE Commit(r)
      BY <2>5 DEF Commit
    <2>6. CASE Cleanup(r)
      BY <2>6 DEF Cleanup
    <2>7. CASE Recommit(r)
      BY <2>7 DEF Recommit
    <2> QED BY <1>4, <2>1, <2>2, <2>3, <2>4, <2>5, <2>6, <2>7 DEF ClientStep
  <1> QED BY <1>1, <1>2, <1>3, <1>4, PhaseSteps

\* A client's next phase, and from which one it comes.
LEMMA PhaseFrom ==
  ASSUME TypeOK, NEW r \in Runs, ClientStep(r)
  PROVE  /\ phase'[r] = "running" => phase[r] = "new"
         /\ phase'[r] = "awaited" => phase[r] = "running" /\ Through(r)
         /\ phase'[r] \in {"reading", "committing"} => phase[r] \in {"awaited", "reading"}
         /\ phase'[r] = "cleaning" => Commit(r)
         /\ phase'[r] # "new" /\ UNCHANGED recommits
  <1> USE DEF Goto, TypeOK
  <1>1. CASE Stage(r)
    BY <1>1 DEF Stage
  <1>2. CASE AwaitResult(r)
    BY <1>2 DEF AwaitResult, Through
  <1>3. CASE ListStaging(r)
    BY <1>3 DEF ListStaging
  <1>4. CASE ReadStaged(r)
    BY <1>4 DEF ReadStaged
  <1>5. CASE PrepareCommit(r)
    BY <1>5 DEF PrepareCommit
  <1>6. CASE Commit(r)
    BY <1>6 DEF Commit
  <1>7. CASE Cleanup(r)
    BY <1>7 DEF Cleanup
  <1> QED BY <1>1, <1>2, <1>3, <1>4, <1>5, <1>6, <1>7 DEF ClientStep

\* A commit that goes on to clean up has published, and a run publishes only then.
LEMMA PublishedNext ==
  ASSUME TypeOK, [Next]_vars, NEW r \in Runs
  PROVE  /\ (Commit(r) /\ phase'[r] = "cleaning") => Published(r)'
         /\ (Published(r)' /\ ~Published(r)) => Commit(r)
  <1>1. versions \in Seq(VersionType)
    BY DEF TypeOK, VersionType
  <1>2. ASSUME Commit(r), phase'[r] = "cleaning" PROVE Published(r)'
    <2>1. PICK v : versions' = Append(versions, v) /\ v.by = r
      BY <1>2 DEF Commit, Landed, Overwritten, Appended, Version, Goto, TypeOK
    <2> QED BY <1>1, <2>1, PublishedByAppend
  <1>3. ASSUME Published(r)', ~Published(r) PROVE Commit(r)
    <2>1. CASE UNCHANGED versions
      BY <1>3, <2>1 DEF Published
    <2>2. ASSUME NEW q \in Runs, Commit(q) PROVE Commit(r)
      <3>1. CASE UNCHANGED versions
        BY <1>3, <3>1 DEF Published
      <3>2. ASSUME NEW v, versions' = Append(versions, v), v.by = q PROVE q = r
        BY <1>1, <1>3, <3>2, PublishedByAppend
      <3> QED BY <2>2, <3>1, <3>2, CommitAdds
    <2>3. CASE OtherCommits
      <3>1. PICK v : versions' = Append(versions, v) /\ v.by = Other
        BY <2>3, OtherAdds
      <3> QED BY <1>1, <1>3, <3>1, PublishedByAppend, OtherAssumption
    <2> QED BY <2>1, <2>2, <2>3, TableSteps
  <1> QED BY <1>2, <1>3

LEMMA PhaseFitsNext == RunInv /\ [Next]_vars => PhaseFits'
  <1> SUFFICES ASSUME RunInv, [Next]_vars, NEW r \in Runs
               PROVE  /\ phase'[r] \in {"awaited", "reading", "committing"} => Through(r)'
                      /\ phase'[r] = "cleaning" => Published(r)'
                      /\ phase'[r] \in {"new", "running", "awaited", "reading", "committing"}
                           /\ recommits'[r] = 0 => ~Published(r)'
    BY DEF PhaseFits
  <1>1. /\ TypeOK /\ (Published(r) => Published(r)') /\ (Through(r) => Through(r)')
        /\ phase[r] \in {"awaited", "reading", "committing"} => Through(r)
        /\ phase[r] = "cleaning" => Published(r)
        /\ phase[r] \in {"new", "running", "awaited", "reading", "committing"}
             /\ recommits[r] = 0 => ~Published(r)
    BY Progress DEF RunInv, PhaseFits
  <1>2. ASSUME Commit(r)
        PROVE  phase'[r] \notin {"new", "running", "awaited", "reading", "committing"}
    BY <1>1, <1>2 DEF Commit, Goto, TypeOK
  <1>3. (Published(r)' /\ ~Published(r)) => Commit(r)
    BY <1>1, PublishedNext
  <1>4. CASE UNCHANGED <<phase[r], unread[r], collected[r], recommits[r]>>
    BY <1>1, <1>2, <1>3, <1>4
  <1>5. CASE ClientStep(r)
    <2>1. (Commit(r) /\ phase'[r] = "cleaning") => Published(r)'
      BY <1>1, PublishedNext
    <2> QED BY <1>1, <1>2, <1>3, <1>5, <2>1, PhaseFrom
  <1>6. CASE Recommit(r)
    <2>1. phase'[r] = "awaited" /\ recommits'[r] = recommits[r] + 1 /\ recommits[r] \in Nat
      BY <1>1, <1>6 DEF Recommit, Goto, TypeOK
    <2>2. Through(r)
      BY <1>6 DEF Recommit, Through
    <2> QED BY <1>1, <2>1, <2>2
  <1> QED BY <1>1, <1>4, <1>5, <1>6, PhaseSteps

-----------------------------------------------------------------------------
(* The dataset.                                                            *)

FragmentsRead(r) == {o.frag : o \in collected[r]}

\* The fragments a client commits are of its run, at most one for each batch, and
\* one for every batch if it reads them for the first time.
LEMMA CommittedFragments ==
  ASSUME TypeOK, CollectedFits, NEW r \in Runs
  PROVE  /\ \A f \in FragmentsRead(r) : f \in Invocations /\ f.run = r /\ f.batch \in rows[r]
         /\ \A f, g \in FragmentsRead(r) : f.batch = g.batch => f = g
         /\ {f.batch : f \in FragmentsRead(r)} = Names(collected[r])
  <1>1. \A o \in collected[r] :
          o.frag \in Invocations /\ o.frag.run = r /\ o.frag.batch = o.key /\ o.key \in rows[r]
    BY DEF TypeOK, CollectedFits
  <1>2. \A o, p \in collected[r] : o.key = p.key => o = p
    BY DEF CollectedFits
  <1>3. \A f, g \in FragmentsRead(r) : f.batch = g.batch => f = g
    <2>1. ASSUME NEW o \in collected[r], NEW p \in collected[r], o.frag.batch = p.frag.batch
          PROVE  o.frag = p.frag
      BY <1>1, <1>2, <2>1
    <2> QED BY <2>1 DEF FragmentsRead
  <1>4. {f.batch : f \in FragmentsRead(r)} = Names(collected[r])
    BY <1>1 DEF FragmentsRead, Names
  <1> QED BY <1>1, <1>3, <1>4 DEF FragmentsRead

\* The version a commit adds: its own fragments, and those of the latest version if
\* it appends.
LEMMA CommitVersion ==
  ASSUME NEW r \in Runs, Commit(r)
  PROVE  \/ UNCHANGED versions
         \/ \E v : /\ versions' = Append(versions, v) /\ v.by = r
                   /\ \/ v.frags = FragmentsRead(r)
                      \/ v.frags = Latest(versions) \cup FragmentsRead(r)
  <1> DEFINE frags == FragmentsRead(r)
  <1>1. UNCHANGED versions \/ versions' = Overwritten(versions, r, frags)
          \/ versions' = Appended(versions, r, frags)
    BY DEF Commit, Landed, FragmentsRead
  <1> HIDE DEF frags
  <1>2. /\ Version(r, TRUE, frags).by = r /\ Version(r, TRUE, frags).frags = frags
        /\ Version(r, FALSE, Latest(versions) \cup frags).by = r
        /\ Version(r, FALSE, Latest(versions) \cup frags).frags = Latest(versions) \cup frags
    BY DEF Version
  <1>3. CASE versions' = Overwritten(versions, r, frags)
    BY <1>2, <1>3 DEF Overwritten, frags
  <1>4. CASE versions' = Appended(versions, r, frags)
    BY <1>2, <1>4 DEF Appended, frags
  <1> QED BY <1>1, <1>3, <1>4

LEMMA OtherVersion ==
  ASSUME OtherCommits
  PROVE  \E v : /\ versions' = Append(versions, v) /\ v.by = Other
                /\ \/ \A f \in v.frags : f.run = Other
                   \/ /\ Latest(versions) \subseteq v.frags
                      /\ \A f \in v.frags \ Latest(versions) : f.run = Other
  <1> DEFINE frag == [run |-> Other, batch |-> Len(versions) + 1, attempt |-> 1]
             alone == Version(Other, TRUE, {frag})
             beside == Version(Other, FALSE, Latest(versions) \cup {frag})
  <1>1. versions' = Append(versions, alone) \/ versions' = Append(versions, beside)
    BY DEF OtherCommits, Overwritten, Appended
  <1>2. frag.run = Other
    OBVIOUS
  <1>3. /\ alone.by = Other /\ alone.frags = {frag}
        /\ beside.by = Other /\ beside.frags = Latest(versions) \cup {frag}
    BY DEF Version
  <1> HIDE DEF frag, alone, beside
  <1>4. CASE versions' = Append(versions, alone)
    BY <1>2, <1>3, <1>4
  <1>5. CASE versions' = Append(versions, beside)
    BY <1>2, <1>3, <1>5
  <1> QED BY <1>1, <1>4, <1>5

\* What the latest version names is of runs that have published.
LEMMA LatestIsNamed ==
  ASSUME versions \in Seq(VersionType), NamedByItsRun
  PROVE  \A f \in Latest(versions) : f.run \in Runs => Published(f.run)
  <1>1. CASE versions = <<>>
    BY <1>1 DEF Latest, Exists
  <1>2. CASE versions # <<>>
    <2>1. Len(versions) \in 1..Len(versions)
      BY <1>2
    <2> QED BY <1>2, <2>1 DEF Latest, Exists, NamedByItsRun
  <1> QED BY <1>1, <1>2

LEMMA NamedByAppend ==
  ASSUME versions \in Seq(VersionType), NamedByItsRun, NEW v, versions' = Append(versions, v),
         \A f \in v.frags : f \in Latest(versions) \/ f.run = v.by \/ f.run \notin Runs
  PROVE  NamedByItsRun'
  <1>1. /\ \A r : Published(r)' <=> (Published(r) \/ v.by = r)
        /\ \A f \in Latest(versions) : f.run \in Runs => Published(f.run)
    BY PublishedByAppend, LatestIsNamed
  <1>2. \A f \in v.frags : f.run \in Runs => Published(f.run)'
    BY <1>1
  <1>3. /\ Len(versions') = Len(versions) + 1 /\ Len(versions) \in Nat
        /\ \A i \in 1..Len(versions) : versions'[i] = versions[i]
        /\ versions'[Len(versions) + 1] = v
    BY AppendedVersion
  <1>4. ASSUME NEW i \in 1..Len(versions'), NEW f \in versions'[i].frags, f.run \in Runs
        PROVE  Published(f.run)'
    <2>1. CASE i = Len(versions) + 1
      BY <1>2, <1>3, <1>4, <2>1
    <2>2. CASE i \in 1..Len(versions)
      BY <1>1, <1>3, <1>4, <2>2 DEF NamedByItsRun
    <2> QED BY <1>3, <2>1, <2>2
  <1> QED BY <1>4 DEF NamedByItsRun

\* Every version names fragments of its own writer and some of those before it.
LEMMA NamedByCommits ==
  ASSUME versions \in Seq(VersionType), NamedByItsRun,
         \A r \in Runs : \A f \in FragmentsRead(r) : f.run = r,
         \/ UNCHANGED versions
         \/ \E r \in Runs : Commit(r)
         \/ OtherCommits
  PROVE  NamedByItsRun'
  <1>1. CASE UNCHANGED versions
    BY <1>1 DEF NamedByItsRun, Published
  <1>2. ASSUME NEW r \in Runs, Commit(r), ~UNCHANGED versions PROVE NamedByItsRun'
    <2>1. PICK v : /\ versions' = Append(versions, v) /\ v.by = r
                   /\ \/ v.frags = FragmentsRead(r)
                      \/ v.frags = Latest(versions) \cup FragmentsRead(r)
      BY <1>2, CommitVersion
    <2>2. \A f \in v.frags : f \in Latest(versions) \/ f.run = v.by \/ f.run \notin Runs
      BY <2>1
    <2> QED BY <2>1, <2>2, NamedByAppend
  <1>3. CASE OtherCommits
    <2>1. PICK v : /\ versions' = Append(versions, v) /\ v.by = Other
                   /\ \/ \A f \in v.frags : f.run = Other
                      \/ /\ Latest(versions) \subseteq v.frags
                         /\ \A f \in v.frags \ Latest(versions) : f.run = Other
      BY <1>3, OtherVersion
    <2>2. \A f \in v.frags : f \in Latest(versions) \/ f.run = v.by \/ f.run \notin Runs
      BY <2>1
    <2> QED BY <2>1, <2>2, NamedByAppend
  <1> QED BY <1>1, <1>2, <1>3

LEMMA NamedByItsRunNext == RunInv /\ [Next]_vars => NamedByItsRun'
  <1> SUFFICES ASSUME RunInv, [Next]_vars PROVE NamedByItsRun'
    OBVIOUS
  <1>1. versions \in Seq(VersionType) /\ NamedByItsRun
    BY DEF RunInv, TypeOK, VersionType
  <1>2. \A r \in Runs : \A f \in FragmentsRead(r) : f.run = r
    BY CommittedFragments DEF RunInv
  <1> QED BY <1>1, <1>2, TableSteps, NamedByCommits

LEMMA InitRunInv == Init => RunInv
  <1> SUFFICES ASSUME Init PROVE RunInv
    OBVIOUS
  <1>1. \A r : ~Published(r)
    BY DEF Init, Published
  <1>2. StartedRows /\ StagingFits /\ StagedIsThere /\ CollectedFits
    BY DEF Init, StartedRows, StagingFits, StagedIsThere, CollectedFits
  <1>3. ReadingFits /\ CommittingFits /\ PhaseFits
    BY <1>1 DEF Init, ReadingFits, CommittingFits, PhaseFits
  <1>4. NamedByItsRun
    BY DEF Init, NamedByItsRun
  <1> QED BY <1>2, <1>3, <1>4, InitTypeOK DEF RunInv

LEMMA NextRunInv == RunInv /\ [Next]_vars => RunInv'
  <1> SUFFICES ASSUME RunInv, [Next]_vars PROVE RunInv'
    OBVIOUS
  <1>1. TypeOK'
    BY NextTypeOK DEF RunInv
  <1> QED BY <1>1, StartedRowsNext, StagingFitsNext, StagedIsThereNext, CollectedFitsNext,
             ReadingFitsNext, CommittingFitsNext, PhaseFitsNext, NamedByItsRunNext DEF RunInv

THEOREM RunsFit == Spec => []RunInv
  <1> QED BY InitRunInv, NextRunInv, PTL DEF Spec

-----------------------------------------------------------------------------
(* Whole runs.                                                             *)

Of(frags, r) == {f \in frags : f.run = r}

\* One copy of every batch of the run.
IsWhole(frags, r) ==
  /\ {f.batch : f \in frags} = rows[r]
  /\ \A f, g \in frags : f.batch = g.batch => f = g

LEMMA WholeRuns ==
  WholeRunsOnce <=>
    \A i \in 1..Len(versions) : \A r \in Runs :
      (Of(versions[i].frags, r) # {} /\ recommits[r] = 0) => IsWhole(Of(versions[i].frags, r), r)
  BY DEF WholeRunsOnce, Of, IsWhole

LEMMA RecommitsGrow ==
  ASSUME TypeOK, [Next]_vars, NEW r \in Runs, recommits'[r] = 0
  PROVE  recommits[r] = 0
  <1>1. CASE UNCHANGED recommits
    BY <1>1
  <1>2. ASSUME NEW q \in Runs, Recommit(q) PROVE recommits[r] = 0
    BY <1>2 DEF Recommit, TypeOK
  <1> QED BY <1>1, <1>2
          DEF Next, vars, WorkerStep, WriteFragments, OpenStaging, CloseStaging, Crash, ClientStep,
              Stage, AwaitResult, ListStaging, ReadStaged, PrepareCommit, Commit, Cleanup,
              OtherCommits, clientVars

LEMMA WholeRunsNext == RunInv /\ WholeRunsOnce /\ [Next]_vars => WholeRunsOnce'
  <1> SUFFICES ASSUME RunInv, WholeRunsOnce, [Next]_vars PROVE WholeRunsOnce'
    OBVIOUS
  <1>1. /\ TypeOK /\ CollectedFits /\ UNCHANGED rows /\ versions \in Seq(VersionType)
        /\ Len(versions) \in Nat
        /\ \A r \in Runs : recommits'[r] = 0 => recommits[r] = 0
    BY Progress, RecommitsGrow DEF RunInv, TypeOK, VersionType, given
  <1>2. \A i \in 1..Len(versions) : \A r \in Runs :
          (Of(versions[i].frags, r) # {} /\ recommits'[r] = 0) => IsWhole(Of(versions[i].frags, r), r)
    BY <1>1, WholeRuns
  <1>3. \A r \in Runs : (Of(Latest(versions), r) # {} /\ recommits'[r] = 0)
          => IsWhole(Of(Latest(versions), r), r)
    <2>1. CASE versions = <<>>
      BY <2>1 DEF Latest, Exists, Of
    <2>2. CASE versions # <<>>
      <3>1. Len(versions) \in 1..Len(versions)
        BY <1>1, <2>2
      <3> QED BY <1>2, <2>2, <3>1 DEF Latest, Exists
    <2> QED BY <2>1, <2>2
  <1>4. ASSUME NEW v, versions' = Append(versions, v),
               \A r \in Runs : \/ Of(v.frags, r) \in {{}, Of(Latest(versions), r)}
                               \/ recommits'[r] = 0 => IsWhole(Of(v.frags, r), r)
        PROVE  WholeRunsOnce'
    <2>1. /\ Len(versions') = Len(versions) + 1
          /\ \A i \in 1..Len(versions) : versions'[i] = versions[i]
          /\ versions'[Len(versions) + 1] = v
      BY <1>1, <1>4, AppendedVersion
    <2>2. ASSUME NEW i \in 1..Len(versions'), NEW r \in Runs,
                 Of(versions'[i].frags, r) # {}, recommits'[r] = 0
          PROVE  IsWhole(Of(versions'[i].frags, r), r)
      <3>1. CASE i = Len(versions) + 1
        BY <1>3, <1>4, <2>1, <2>2, <3>1
      <3>2. CASE i \in 1..Len(versions)
        BY <1>2, <2>1, <2>2, <3>2
      <3> QED BY <1>1, <2>1, <3>1, <3>2
    <2> QED BY <1>1, <2>2 DEF WholeRunsOnce, Of, IsWhole
  <1>5. CASE UNCHANGED versions
    BY <1>1, <1>5 DEF WholeRunsOnce
  <1>6. ASSUME NEW r \in Runs, Commit(r), ~UNCHANGED versions PROVE WholeRunsOnce'
    <2>1. PICK v : /\ versions' = Append(versions, v) /\ v.by = r
                   /\ \/ v.frags = FragmentsRead(r)
                      \/ v.frags = Latest(versions) \cup FragmentsRead(r)
      BY <1>6, CommitVersion
    <2>2. \A f \in FragmentsRead(r) : f.run = r
      BY <1>1, CommittedFragments
    <2>3. ASSUME NEW q \in Runs, q # r PROVE Of(v.frags, q) \in {{}, Of(Latest(versions), q)}
      <3>1. CASE v.frags = FragmentsRead(r)
        BY <2>2, <2>3, <3>1 DEF Of
      <3>2. CASE v.frags = Latest(versions) \cup FragmentsRead(r)
        <4>1. \A f : f \in Of(v.frags, q) <=> f \in Of(Latest(versions), q)
          BY <2>2, <2>3, <3>2 DEF Of
        <4>2. Of(v.frags, q) = Of(Latest(versions), q)
          BY <4>1 DEF Of
        <4> QED BY <4>2
      <3> QED BY <2>1, <3>1, <3>2
    <2>4. ASSUME recommits'[r] = 0 PROVE IsWhole(Of(v.frags, r), r)
      <3>1. phase[r] = "committing" /\ recommits[r] = 0
        BY <1>1, <1>6, <2>4 DEF Commit
      <3>2. ~Published(r)
        BY <3>1 DEF RunInv, PhaseFits
      <3>3. Names(collected[r]) = rows[r]
        BY <3>1, <3>2 DEF RunInv, CommittingFits
      <3>4. \A f \in Latest(versions) : f.run # r
        BY <1>1, <3>2, LatestIsNamed DEF RunInv
      <3>5. Of(v.frags, r) = FragmentsRead(r)
        BY <2>1, <2>2, <3>4 DEF Of
      <3> QED BY <1>1, <3>3, <3>5, CommittedFragments DEF IsWhole
    <2> QED BY <1>4, <2>1, <2>3, <2>4
  <1>7. CASE OtherCommits
    <2>1. PICK v : /\ versions' = Append(versions, v) /\ v.by = Other
                   /\ \/ \A f \in v.frags : f.run = Other
                      \/ /\ Latest(versions) \subseteq v.frags
                         /\ \A f \in v.frags \ Latest(versions) : f.run = Other
      BY <1>7, OtherVersion
    <2>2. ASSUME NEW r \in Runs PROVE Of(v.frags, r) \in {{}, Of(Latest(versions), r)}
      <3>1. r # Other
        BY OtherAssumption
      <3>2. CASE \A f \in v.frags : f.run = Other
        BY <3>1, <3>2 DEF Of
      <3>3. CASE /\ Latest(versions) \subseteq v.frags
                 /\ \A f \in v.frags \ Latest(versions) : f.run = Other
        <4>1. Of(v.frags, r) = Of(Latest(versions), r)
          BY <3>1, <3>3 DEF Of
        <4> QED BY <4>1
      <3> QED BY <2>1, <3>2, <3>3
    <2> QED BY <1>4, <2>1, <2>2
  <1> QED BY <1>5, <1>6, <1>7, TableSteps

\* However workers repeat and straggle, a run whose holder commits once is in a
\* version whole, with one copy of each batch, or not at all.
THEOREM WholeOrAbsent == Spec => []WholeRunsOnce
  <1>1. Init => WholeRunsOnce
    BY DEF Init, WholeRunsOnce
  <1> QED BY <1>1, WholeRunsNext, RunsFit, PTL DEF Spec

-----------------------------------------------------------------------------
(* Nothing staged is thrown away unpublished.                              *)

LEMMA StagingKept ==
  ASSUME RunInv, [Next]_vars, NEW o \in staging,
         \A p \in staging' : p.run # o.run \/ p.key # o.key
  PROVE  Published(o.run)
  <1>1. staging' # staging
    OBVIOUS
  <1>2. ASSUME NEW inv \in Invocations, OpenStaging(inv) \/ CloseStaging(inv) PROVE FALSE
    <2>1. PICK object : Put(object)
      BY <1>2 DEF OpenStaging, CloseStaging
    <2>2. CASE o.run = object.run /\ o.key = object.key
      BY <2>1, <2>2 DEF Put
    <2>3. CASE ~(o.run = object.run /\ o.key = object.key)
      BY <2>1, <2>3 DEF Put
    <2> QED BY <2>2, <2>3
  <1>3. ASSUME NEW r \in Runs, Cleanup(r) PROVE Published(o.run)
    <2>1. o.run = r /\ phase[r] = "cleaning"
      BY <1>3, CleanupRemoves
    <2> QED BY <2>1 DEF RunInv, PhaseFits
  <1> QED BY <1>1, <1>2, <1>3, StagingSteps

\* Only a published run's staging objects are ever removed.
THEOREM StagingOutlivesFailure == Spec => StagingKeptUntilPublished
  <1>1. RunInv /\ [Next]_vars =>
          [\A o \in staging :
             (\A p \in staging' : p.run # o.run \/ p.key # o.key) =>
               \E i \in 1..Len(versions) : versions[i].by = o.run]_vars
    BY StagingKept DEF Published
  <1> QED BY <1>1, RunsFit, PTL DEF Spec, StagingKeptUntilPublished

-----------------------------------------------------------------------------
(* Create mode, when the store answers.                                    *)

\* A run in create mode that is about to commit has not published.
CreateFits ==
  \A r \in Runs : (mode[r] = "create" /\ phase[r] = "committing") => ~Published(r)

LEMMA CreatedByAppend ==
  ASSUME versions \in Seq(VersionType), UNCHANGED mode, CreatePublishesOnce,
         NEW v, versions' = Append(versions, v),
         v.by \in Runs /\ mode[v.by] = "create" => ~Published(v.by)
  PROVE  CreatePublishesOnce'
  <1>1. /\ Len(versions') = Len(versions) + 1 /\ Len(versions) \in Nat
        /\ \A i \in 1..Len(versions) : versions'[i] = versions[i]
        /\ versions'[Len(versions) + 1] = v
    BY AppendedVersion
  <1>2. \A i \in 1..Len(versions') : i \in 1..Len(versions) \/ i = Len(versions) + 1
    BY <1>1
  <1>3. \A i \in 1..Len(versions) : versions[i].by \in Runs \cup {Other}
    <2>1. \A i \in 1..Len(versions) : versions[i] \in VersionType
      BY ElementOfSeq
    <2> QED BY <2>1 DEF VersionType
  <1> SUFFICES ASSUME NEW i \in 1..Len(versions'), NEW j \in 1..Len(versions'),
                      versions'[i].by # Other, versions'[i].by = versions'[j].by,
                      mode[versions'[i].by] = "create"
               PROVE  i = j
    BY DEF CreatePublishesOnce
  <1>4. CASE i \in 1..Len(versions) /\ j \in 1..Len(versions)
    BY <1>1, <1>4 DEF CreatePublishesOnce
  <1>5. ASSUME NEW k \in 1..Len(versions), versions[k].by = v.by, v.by # Other,
               mode[v.by] = "create"
        PROVE  FALSE
    BY <1>3, <1>5 DEF Published
  <1> QED BY <1>1, <1>2, <1>4, <1>5

LEMMA CreatedOnce ==
  ASSUME versions \in Seq(VersionType), UNCHANGED mode, CreateFits, CreatePublishesOnce,
         \/ UNCHANGED versions
         \/ \E r \in Runs : Commit(r)
         \/ OtherCommits
  PROVE  CreatePublishesOnce'
  <1>1. CASE UNCHANGED versions
    <2>1. versions' = versions /\ mode' = mode
      BY <1>1
    <2> QED BY <2>1 DEF CreatePublishesOnce
  <1>2. ASSUME NEW r \in Runs, Commit(r), ~UNCHANGED versions PROVE CreatePublishesOnce'
    <2>1. mode[r] = "create" => ~Published(r)
      BY <1>2 DEF Commit, CreateFits
    <2>2. PICK v : versions' = Append(versions, v) /\ v.by = r
      BY <1>2, CommitAdds
    <2> QED BY <2>1, <2>2, CreatedByAppend
  <1>3. CASE OtherCommits
    <2>1. PICK v : versions' = Append(versions, v) /\ v.by = Other
      BY <1>3, OtherAdds
    <2>2. v.by \notin Runs
      BY <2>1, OtherAssumption
    <2> QED BY <2>1, <2>2, CreatedByAppend
  <1> QED BY <1>1, <1>2, <1>3

LEMMA CreateNext ==
  ASSUME FlakyStore = FALSE
  PROVE  TypeOK /\ CreateFits /\ CreatePublishesOnce /\ [Next]_vars
           => CreateFits' /\ CreatePublishesOnce'
  <1> SUFFICES ASSUME TypeOK, CreateFits, CreatePublishesOnce, [Next]_vars
               PROVE  CreateFits' /\ CreatePublishesOnce'
    OBVIOUS
  <1>1. UNCHANGED mode /\ versions \in Seq(VersionType) /\ Len(versions) \in Nat
    BY Progress DEF TypeOK, VersionType, given
  <1>2. CreateFits'
    <2> SUFFICES ASSUME NEW r \in Runs, mode[r] = "create", phase'[r] = "committing"
                 PROVE  ~Published(r)'
      BY <1>1 DEF CreateFits
    <2>1. CASE PrepareCommit(r)
      <3>1. ~Exists(versions) /\ UNCHANGED versions
        BY <2>1 DEF PrepareCommit, Goto, TypeOK, MayAccept, MaySeeNothing
      <3> QED BY <1>1, <3>1 DEF Exists, Published
    <2>2. CASE ~PrepareCommit(r)
      <3>1. phase[r] = "committing"
        <4>1. UNCHANGED phase[r] \/ ClientStep(r) \/ Recommit(r)
          BY PhaseSteps
        <4>2. ASSUME ClientStep(r) \/ Recommit(r) PROVE phase'[r] = "committing" => phase[r] = "committing"
          BY <2>2, <4>2 DEF ClientStep, Stage, AwaitResult, ListStaging, ReadStaged, Commit,
                            Cleanup, Recommit, Goto, TypeOK
        <4> QED BY <4>1, <4>2
      <3>2. ~Commit(r)
        BY DEF Commit, Goto, TypeOK
      <3> QED BY <3>1, <3>2, PublishedNext DEF CreateFits
    <2> QED BY <2>1, <2>2
  <1>3. CreatePublishesOnce'
    BY <1>1, TableSteps, CreatedOnce
  <1> QED BY <1>2, <1>3

\* A run in create mode publishes once, if the store answers when it is probed: the
\* commit that landed and raised all the same is found by the next commit().
THEOREM CreateOnce ==
  ASSUME FlakyStore = FALSE
  PROVE  Spec => []CreatePublishesOnce
  <1>1. Init => CreateFits /\ CreatePublishesOnce
    BY DEF Init, CreateFits, CreatePublishesOnce
  <1> QED BY <1>1, CreateNext, TypeCorrect, PTL DEF Spec

-----------------------------------------------------------------------------
(* The refinement.                                                         *)

LEMMA InitAbstract == Init => Abstract!AInit
  <1> SUFFICES ASSUME Init PROVE Abstract!AInit
    OBVIOUS
  <1>1. Again = {}
    BY DEF Init, Again
  <1> QED BY <1>1 DEF Init, Abstract!AInit, Modes, Abstract!Modes

LEMMA SameTable ==
  ASSUME NEW by, NEW frags
  PROVE  /\ Overwritten(versions, by, frags) = Abstract!Overwritten(versions, by, frags)
         /\ Appended(versions, by, frags) = Abstract!Appended(versions, by, frags)
         /\ Exists(versions) = Abstract!Exists(versions)
  BY DEF Overwritten, Appended, Exists, Latest, Version, Abstract!Overwritten,
         Abstract!Appended, Abstract!Exists, Abstract!Latest, Abstract!Version

\* What a client commits is some of one copy of its run, and all of it if it has
\* read every batch.
LEMMA ReadOfACopy ==
  ASSUME TypeOK, CollectedFits, NEW r \in Runs, collected[r] # {}
  PROVE  /\ \E copy \in Abstract!Copies(r) : FragmentsRead(r) \in (SUBSET copy) \ {{}}
         /\ Names(collected[r]) = rows[r] => FragmentsRead(r) \in Abstract!Copies(r)
  <1> DEFINE held(b) == {f \in FragmentsRead(r) : f.batch = b}
             copy == [b \in rows[r] |-> IF held(b) = {} THEN CHOOSE a \in Attempts : TRUE
                                        ELSE (CHOOSE f \in held(b) : TRUE).attempt]
             whole == {Abstract!Fragment(r, b, copy[b]) : b \in rows[r]}
  <1>1. /\ \A f \in FragmentsRead(r) : f \in Invocations /\ f.run = r /\ f.batch \in rows[r]
        /\ \A f, g \in FragmentsRead(r) : f.batch = g.batch => f = g
        /\ {f.batch : f \in FragmentsRead(r)} = Names(collected[r])
    BY CommittedFragments
  <1>2. FragmentsRead(r) # {}
    BY DEF FragmentsRead
  <1>3. (CHOOSE a \in Attempts : TRUE) \in Attempts
    BY <1>1, <1>2 DEF Invocations
  <1>4. copy \in [rows[r] -> Attempts]
    BY <1>1, <1>3 DEF Invocations
  <1>5. \A f \in FragmentsRead(r) : f = Abstract!Fragment(r, f.batch, copy[f.batch])
    <2> TAKE f \in FragmentsRead(r)
    <2>1. held(f.batch) = {f} /\ f.batch \in rows[r]
      BY <1>1
    <2>2. copy[f.batch] = f.attempt
      BY <2>1
    <2> HIDE DEF copy
    <2> QED BY <1>1, <2>2 DEF Abstract!Fragment, Invocations
  <1> HIDE DEF copy
  <1>6. whole \in Abstract!Copies(r)
    BY <1>4 DEF Abstract!Copies
  <1>7. FragmentsRead(r) \subseteq whole
    BY <1>1, <1>5
  <1>8. ASSUME Names(collected[r]) = rows[r] PROVE whole \subseteq FragmentsRead(r)
    <2> SUFFICES ASSUME NEW b \in rows[r]
                 PROVE  Abstract!Fragment(r, b, copy[b]) \in FragmentsRead(r)
      OBVIOUS
    <2>1. PICK f \in FragmentsRead(r) : f.batch = b
      BY <1>1, <1>8
    <2> QED BY <1>5, <2>1
  <1> HIDE DEF whole
  <1>9. Names(collected[r]) = rows[r] => FragmentsRead(r) = whole
    BY <1>7, <1>8
  <1>10. FragmentsRead(r) \in (SUBSET whole) \ {{}}
    BY <1>2, <1>7
  <1>11. \E c \in Abstract!Copies(r) : FragmentsRead(r) \in (SUBSET c) \ {{}}
    BY <1>6, <1>10
  <1>12. Names(collected[r]) = rows[r] => FragmentsRead(r) \in Abstract!Copies(r)
    BY <1>6, <1>9
  <1> QED BY <1>11, <1>12

\* A commit that lands publishes, or publishes again.
LEMMA CommitPublishes ==
  ASSUME RunInv, NEW r \in Runs, Commit(r), ~UNCHANGED versions
  PROVE  Abstract!Publish(r) \/ Abstract!PublishAgain(r)
  <1>1. /\ TypeOK /\ CollectedFits /\ UNCHANGED <<mode, rows, recommits>>
        /\ phase[r] = "committing"
    BY DEF Commit, given, RunInv
  <1>2. UNCHANGED Again
    BY <1>1 DEF Again
  <1>3. collected[r] # {} /\ (mode[r] = "append" => Exists(versions))
    BY <1>1 DEF RunInv, CommittingFits
  <1>4. Abstract!Publishes(r, FragmentsRead(r))
    <2>1. versions' \in Landed(mode[r], r, FragmentsRead(r), base[r], versions)
      BY DEF Commit, FragmentsRead
    <2>2. IF mode[r] = "append"
          THEN Exists(versions) /\ versions' = Appended(versions, r, FragmentsRead(r))
          ELSE versions' = Overwritten(versions, r, FragmentsRead(r))
      BY <1>3, <2>1 DEF Landed
    <2> QED BY <1>1, <1>2, <2>2, SameTable DEF Abstract!Publishes
  <1>5. Abstract!Published(r) <=> Published(r)
    BY DEF Abstract!Published, Published
  <1>6. CASE Published(r)
    <2>1. recommits[r] # 0
      BY <1>1, <1>6 DEF RunInv, PhaseFits
    <2>2. r \in Again
      BY <1>1, <2>1 DEF Again, TypeOK
    <2>3. PICK copy \in Abstract!Copies(r) : FragmentsRead(r) \in (SUBSET copy) \ {{}}
      BY <1>1, <1>3, ReadOfACopy
    <2> QED BY <1>4, <1>5, <1>6, <2>2, <2>3 DEF Abstract!PublishAgain
  <1>7. CASE ~Published(r)
    <2>1. Names(collected[r]) = rows[r]
      BY <1>1, <1>7 DEF RunInv, CommittingFits
    <2>2. FragmentsRead(r) \in Abstract!Copies(r)
      BY <1>1, <1>3, <2>1, ReadOfACopy
    <2>3. rows[r] # {}
      BY <1>3, <2>1 DEF Names
    <2> QED BY <1>4, <1>5, <1>7, <2>2, <2>3 DEF Abstract!Publish
  <1> QED BY <1>6, <1>7

LEMMA StepAbstract ==
  ASSUME RunInv, [Next]_vars
  PROVE  [Abstract!ANext]_(Abstract!avars)
  <1>1. TypeOK /\ UNCHANGED <<mode, rows>>
    BY Progress DEF RunInv, given
  <1>2. ASSUME NEW r \in Runs, Recommit(r) PROVE Abstract!AskAgain(r)
    <2>1. /\ recommits' = [recommits EXCEPT ![r] = recommits[r] + 1] /\ UNCHANGED versions
          /\ recommits \in [Runs -> Nat]
      BY <1>1, <1>2 DEF Recommit, TypeOK
    <2>2. Again' = Again \cup {r}
      BY <2>1 DEF Again
    <2> QED BY <1>1, <2>1, <2>2 DEF Abstract!AskAgain
  <1>3. ASSUME \A r \in Runs : ~Recommit(r) PROVE UNCHANGED Again
    <2>1. UNCHANGED recommits
      BY <1>3 DEF Next, vars, WorkerStep, WriteFragments, OpenStaging, CloseStaging, Crash,
                  ClientStep, Stage, AwaitResult, ListStaging, ReadStaged, PrepareCommit, Commit,
                  Cleanup, OtherCommits, clientVars
    <2> QED BY <2>1 DEF Again
  <1>4. ASSUME OtherCommits, UNCHANGED Again PROVE Abstract!OtherPublishes
    <2> DEFINE frags == {[run |-> Other, batch |-> Len(versions) + 1, attempt |-> 1]}
    <2>1. \/ versions' = Overwritten(versions, Other, frags)
          \/ Exists(versions) /\ versions' = Appended(versions, Other, frags)
      BY <1>4 DEF OtherCommits
    <2>2. frags = {Abstract!Fragment(Other, Len(versions) + 1, 1)}
      BY DEF Abstract!Fragment
    <2> HIDE DEF frags
    <2> QED BY <1>1, <1>4, <2>1, <2>2, SameTable DEF Abstract!OtherPublishes
  <1>5. CASE UNCHANGED versions
    BY <1>1, <1>2, <1>3, <1>5 DEF Abstract!ANext, Abstract!avars
  <1>6. ASSUME NEW r \in Runs, Commit(r), ~UNCHANGED versions PROVE Abstract!ANext
    BY <1>6, CommitPublishes DEF Abstract!ANext
  <1>7. ASSUME OtherCommits PROVE Abstract!ANext
    <2>1. UNCHANGED recommits
      BY <1>7 DEF OtherCommits, clientVars
    <2> QED BY <1>4, <1>7, <2>1 DEF Abstract!ANext, Again
  <1> QED BY <1>5, <1>6, <1>7, TableSteps

\* The distributed write implements one atomic publication for each run; only a run
\* whose holder calls commit() again can publish again, and never a batch twice.
THEOREM ImplementsAtomicPublish == Spec => PublishesAtomically
  <1> QED BY InitAbstract, StepAbstract, RunsFit, PTL
          DEF Spec, PublishesAtomically, Abstract!ASpec

-----------------------------------------------------------------------------
(* Any naming of the batches, and reclaimed data files (KeyedSink).        *)

NamesOf(r) == {keyOf[b] : b \in rows[r]}

\* The types are those of StagedSink, with names in the place of batches.
KeyedTypeOK ==
  /\ mode \in [Runs -> Modes]
  /\ rows \in [Runs -> SUBSET Batches]
  /\ keyOf \in [Batches -> Keys]
  /\ versions \in Seq(VersionType)
  /\ files \in SUBSET Fragments
  /\ worker \in [Invocations -> {"idle", "wrote", "opened", "staged", "dead"}]
  /\ staging \in SUBSET [run: Runs, key: Keys, frag: Invocations \cup {Truncated}]
  /\ phase \in [Runs -> Phases]
  /\ unread \in [Runs -> SUBSET Keys]
  /\ collected \in [Runs -> SUBSET [run: Runs, key: Keys, frag: Invocations]]
  /\ base \in [Runs -> Nat]
  /\ recommits \in [Runs -> Nat]

\* A staging object has the name of the batch of its run that its fragment holds,
\* and there is one of each name.
KeyedStagingFits ==
  \A o \in staging :
    /\ o.key \in NamesOf(o.run)
    /\ o.frag # Truncated => /\ o.frag.run = o.run /\ o.frag.batch \in rows[o.run]
                             /\ keyOf[o.frag.batch] = o.key
    /\ \A p \in staging : (o.run = p.run /\ o.key = p.key) => o = p

\* The name of what was staged stays until it is published.
KeyedIsThere ==
  \A inv \in Invocations : worker[inv] = "staged" =>
    Published(inv.run) \/ keyOf[inv.batch] \in Names(Under(inv.run))

KeyedCollectedFits ==
  \A r \in Runs : \A o \in collected[r] :
    /\ o.run = r /\ o.frag.run = r /\ o.frag.batch \in rows[r] /\ keyOf[o.frag.batch] = o.key
    /\ \A p \in collected[r] : o.key = p.key => o = p

\* A client that reads the prefix of a run that is not published yet finds every
\* name of it.
KeyedClientFits ==
  \A r \in Runs :
    /\ phase[r] \in {"awaited", "reading", "committing"} => Through(r)
    /\ phase[r] = "cleaning" => Published(r)
    /\ phase[r] = "reading" =>
         /\ unread[r] \cap Names(collected[r]) = {}
         /\ ~Published(r) => unread[r] \cup Names(collected[r]) = NamesOf(r)
    /\ phase[r] = "committing" => (~Published(r) => Names(collected[r]) = NamesOf(r))

KeyedRunInv ==
  /\ KeyedTypeOK /\ StartedRows /\ KeyedStagingFits /\ KeyedIsThere /\ KeyedCollectedFits
  /\ KeyedClientFits /\ NamedByItsRun

-----------------------------------------------------------------------------
(* Steps.                                                                  *)

keyedVars == <<vars, keyOf>>

WorkerStepKeyed(inv) ==
  WriteFragments(inv) \/ OpenKeyed(inv) \/ CloseKeyed(inv) \/ Crash(inv)

ClientStepKeyed(r) ==
  \/ Stage(r) \/ AwaitResult(r) \/ ListKeyed(r) \/ ReadStaged(r)
  \/ PrepareCommit(r) \/ Commit(r) \/ Cleanup(r) \/ Recommit(r)

LEMMA KeyedSteps ==
  ASSUME [KeyedNext]_keyedVars
  PROVE  /\ UNCHANGED keyOf
         /\ \/ \E inv \in Invocations : WorkerStepKeyed(inv)
            \/ \E r \in Runs : ClientStepKeyed(r)
            \/ OtherCommits
            \/ Reclaim
            \/ UNCHANGED vars
  BY DEF KeyedNext, keyedVars, WorkerStepKeyed, ClientStepKeyed

\* Who touches what.
LEMMA WorkerTouches ==
  ASSUME NEW inv \in Invocations, WorkerStepKeyed(inv)
  PROVE  UNCHANGED <<mode, rows, versions, phase, unread, collected, base, recommits>>
  BY DEF WorkerStepKeyed, WriteFragments, OpenKeyed, CloseKeyed, Crash, given, clientVars

LEMMA ClientTouches ==
  ASSUME NEW r \in Runs, ClientStepKeyed(r)
  PROVE  /\ UNCHANGED <<mode, rows, files, worker>>
         /\ ~Commit(r) => UNCHANGED versions
         /\ ~Cleanup(r) => UNCHANGED staging
         /\ (~ListKeyed(r) /\ ~ReadStaged(r)) => UNCHANGED <<unread, collected>>
         /\ ~Recommit(r) => UNCHANGED recommits
  BY DEF ClientStepKeyed, Stage, AwaitResult, ListKeyed, ReadStaged, PrepareCommit, Commit,
         Cleanup, Recommit, given

LEMMA RestTouches ==
  ASSUME OtherCommits \/ Reclaim \/ UNCHANGED vars
  PROVE  /\ UNCHANGED <<mode, rows, worker, staging, phase, unread, collected, base, recommits>>
         /\ ~OtherCommits => UNCHANGED versions
  BY DEF OtherCommits, Reclaim, vars, given, clientVars

LEMMA KeyedTableSteps ==
  ASSUME [KeyedNext]_keyedVars
  PROVE  \/ UNCHANGED versions
         \/ \E r \in Runs : Commit(r)
         \/ OtherCommits
  BY KeyedSteps, WorkerTouches, ClientTouches, RestTouches

LEMMA KeyedProgress ==
  ASSUME KeyedTypeOK, [KeyedNext]_keyedVars
  PROVE  /\ UNCHANGED <<mode, rows, keyOf>>
         /\ \A r : Published(r) => Published(r)'
         /\ Exists(versions) => Exists(versions)'
         /\ \A inv \in Invocations : worker[inv] = "staged" => worker'[inv] = "staged"
         /\ \A r \in Runs : Through(r) => Through(r)'
         /\ \A r : NamesOf(r)' = NamesOf(r)
  <1>1. UNCHANGED <<mode, rows, keyOf>>
    BY KeyedSteps, WorkerTouches, ClientTouches, RestTouches
  <1>2. UNCHANGED versions \/ \E v : versions' = Append(versions, v)
    BY KeyedTableSteps, CommitAdds, OtherAdds
  <1>3. /\ \A r : Published(r) => Published(r)'
        /\ Exists(versions) => Exists(versions)'
    BY <1>2, PublishedByAppend DEF Published, Exists, KeyedTypeOK
  <1>4. \A inv \in Invocations : worker[inv] = "staged" => worker'[inv] = "staged"
    <2>1. ASSUME NEW inv \in Invocations, WorkerStepKeyed(inv)
          PROVE  \A i \in Invocations : worker[i] = "staged" => worker'[i] = "staged"
      BY <2>1 DEF WorkerStepKeyed, WriteFragments, OpenKeyed, CloseKeyed, Crash, KeyedTypeOK
    <2> QED BY <2>1, KeyedSteps, ClientTouches, RestTouches
  <1>5. ASSUME NEW r \in Runs, Through(r) PROVE Through(r)'
    <2>1. \A b \in rows[r], a \in Attempts : Invocation(r, b, a) \in Invocations
      BY DEF Invocation, Invocations, KeyedTypeOK
    <2> QED BY <1>1, <1>4, <1>5, <2>1 DEF Through
  <1> QED BY <1>1, <1>3, <1>4, <1>5 DEF NamesOf

\* A step of another run, of a worker, of another writer or of the reclaimer leaves a
\* client where it is.
LEMMA KeyedClientSteps ==
  ASSUME KeyedTypeOK, [KeyedNext]_keyedVars, NEW r \in Runs
  PROVE  \/ ClientStepKeyed(r)
         \/ UNCHANGED <<phase[r], unread[r], collected[r], recommits[r]>>
  <1>1. ASSUME NEW q \in Runs, q # r, ClientStepKeyed(q)
        PROVE  UNCHANGED <<phase[r], unread[r], collected[r], recommits[r]>>
    <2> USE <1>1 DEF KeyedTypeOK, Goto
    <2>1. CASE Stage(q)
      BY <2>1 DEF Stage
    <2>2. CASE AwaitResult(q)
      BY <2>2 DEF AwaitResult
    <2>3. CASE ListKeyed(q)
      BY <2>3 DEF ListKeyed
    <2>4. CASE ReadStaged(q)
      BY <2>4 DEF ReadStaged
    <2>5. CASE PrepareCommit(q)
      BY <2>5 DEF PrepareCommit
    <2>6. CASE Commit(q)
      BY <2>6 DEF Commit
    <2>7. CASE Cleanup(q)
      BY <2>7 DEF Cleanup
    <2>8. CASE Recommit(q)
      BY <2>8 DEF Recommit
    <2> QED BY <1>1, <2>1, <2>2, <2>3, <2>4, <2>5, <2>6, <2>7, <2>8 DEF ClientStepKeyed
  <1> QED BY <1>1, KeyedSteps, WorkerTouches, RestTouches

\* A client's next phase, and from which one it comes.
LEMMA KeyedPhaseFrom ==
  ASSUME KeyedTypeOK, NEW r \in Runs, ClientStepKeyed(r)
  PROVE  /\ phase'[r] = "running" => phase[r] = "new" /\ Stage(r)
         /\ phase'[r] = "awaited" => Through(r) /\ phase[r] \in {"running", "failed"}
         /\ phase'[r] = "reading" => ListKeyed(r) \/ ReadStaged(r)
         /\ phase'[r] = "committing" => PrepareCommit(r)
         /\ phase'[r] = "cleaning" => Commit(r)
         /\ phase'[r] # "new"
  <1> USE DEF Goto, KeyedTypeOK
  <1>1. CASE Stage(r)
    BY <1>1 DEF Stage
  <1>2. CASE AwaitResult(r)
    BY <1>2 DEF AwaitResult, Through
  <1>3. CASE ListKeyed(r)
    BY <1>3 DEF ListKeyed
  <1>4. CASE ReadStaged(r)
    BY <1>4 DEF ReadStaged
  <1>5. CASE PrepareCommit(r)
    BY <1>5 DEF PrepareCommit
  <1>6. CASE Commit(r)
    BY <1>6 DEF Commit
  <1>7. CASE Cleanup(r)
    BY <1>7 DEF Cleanup
  <1>8. CASE Recommit(r)
    BY <1>8 DEF Recommit, Through
  <1> QED BY <1>1, <1>2, <1>3, <1>4, <1>5, <1>6, <1>7, <1>8 DEF ClientStepKeyed

-----------------------------------------------------------------------------
(* Type correctness.                                                       *)

LEMMA InitKeyedTypeOK == KeyedInit => KeyedTypeOK
  BY KeysAssumption DEF KeyedInit, Init, KeyedTypeOK, Phases, Invocations, VersionType

LEMMA PutKeyed ==
  ASSUME NEW inv \in Invocations, OpenKeyed(inv) \/ CloseKeyed(inv)
  PROVE  \E frag \in {inv, Truncated} :
           /\ staging' = {o \in staging : <<o.run, o.key>> # <<inv.run, keyOf[inv.batch]>>}
                           \cup {Object(inv.run, keyOf[inv.batch], frag)}
           /\ worker[inv] \in {"wrote", "opened"}
           /\ worker' = [worker EXCEPT ![inv] = worker'[inv]]
           /\ UNCHANGED files
  BY DEF OpenKeyed, CloseKeyed, Put, Object

LEMMA KeyedVersionsType ==
  ASSUME KeyedTypeOK, [KeyedNext]_keyedVars
  PROVE  versions' \in Seq(VersionType)
  <1>1. CASE UNCHANGED versions
    BY <1>1 DEF KeyedTypeOK
  <1>2. ASSUME NEW r \in Runs, Commit(r) PROVE versions' \in Seq(VersionType)
    <2>1. FragmentsRead(r) \in SUBSET Fragments
      BY FragmentsOfInvocations DEF FragmentsRead, KeyedTypeOK
    <2>2. \/ versions' = versions \/ versions' = Appended(versions, r, FragmentsRead(r))
          \/ versions' = Overwritten(versions, r, FragmentsRead(r))
      BY <1>2 DEF Commit, Landed, FragmentsRead
    <2> QED BY <2>1, <2>2, CommitTypes DEF KeyedTypeOK
  <1>3. CASE OtherCommits
    <2> DEFINE added == {[run |-> Other, batch |-> Len(versions) + 1, attempt |-> 1]}
    <2>1. added \in SUBSET Fragments
      BY DEF Fragments, KeyedTypeOK
    <2>2. versions' = Overwritten(versions, Other, added)
            \/ versions' = Appended(versions, Other, added)
      BY <1>3 DEF OtherCommits
    <2> HIDE DEF added
    <2>3. /\ Overwritten(versions, Other, added) \in Seq(VersionType)
          /\ Appended(versions, Other, added) \in Seq(VersionType)
      BY <2>1, CommitTypes DEF KeyedTypeOK
    <2> QED BY <2>2, <2>3
  <1> QED BY <1>1, <1>2, <1>3, KeyedTableSteps

LEMMA NextKeyedTypeOK == KeyedTypeOK /\ [KeyedNext]_keyedVars => KeyedTypeOK'
  <1> SUFFICES ASSUME KeyedTypeOK, [KeyedNext]_keyedVars PROVE KeyedTypeOK'
    OBVIOUS
  <1>1. versions' \in Seq(VersionType) /\ UNCHANGED <<mode, rows, keyOf>>
    BY KeyedVersionsType, KeyedProgress
  <1>2. ASSUME NEW inv \in Invocations, WorkerStepKeyed(inv) PROVE KeyedTypeOK'
    <2>1. UNCHANGED <<phase, unread, collected, base, recommits>>
      BY <1>2, WorkerTouches
    <2>2. inv \in Fragments /\ inv.run \in Runs /\ inv.batch \in Batches
      BY FragmentsOfInvocations DEF Invocations
    <2>3. files' \in SUBSET Fragments
      BY <1>2, <2>2 DEF WorkerStepKeyed, WriteFragments, OpenKeyed, CloseKeyed, Crash, KeyedTypeOK
    <2>4. worker' \in [Invocations -> {"idle", "wrote", "opened", "staged", "dead"}]
      BY <1>2 DEF WorkerStepKeyed, WriteFragments, OpenKeyed, CloseKeyed, Crash, KeyedTypeOK
    <2>5. staging' \in SUBSET [run: Runs, key: Keys, frag: Invocations \cup {Truncated}]
      <3>1. CASE OpenKeyed(inv) \/ CloseKeyed(inv)
        <4>1. PICK frag \in {inv, Truncated} :
                staging' = {o \in staging : <<o.run, o.key>> # <<inv.run, keyOf[inv.batch]>>}
                             \cup {Object(inv.run, keyOf[inv.batch], frag)}
          BY <3>1, PutKeyed
        <4>2. Object(inv.run, keyOf[inv.batch], frag)
                \in [run: Runs, key: Keys, frag: Invocations \cup {Truncated}]
          BY <2>2 DEF Object, KeyedTypeOK
        <4> QED BY <4>1, <4>2 DEF KeyedTypeOK
      <3>2. CASE WriteFragments(inv) \/ Crash(inv)
        BY <3>2 DEF WriteFragments, Crash, KeyedTypeOK
      <3> QED BY <1>2, <3>1, <3>2 DEF WorkerStepKeyed
    <2> QED BY <1>1, <2>1, <2>3, <2>4, <2>5 DEF KeyedTypeOK
  <1>3. ASSUME NEW r \in Runs, ClientStepKeyed(r) PROVE KeyedTypeOK'
    <2>1. UNCHANGED <<files, worker>>
      BY <1>3, ClientTouches
    <2>2. staging' \subseteq staging
      BY <1>3, ClientTouches, CleanupRemoves
    <2>3. phase' \in [Runs -> Phases]
      <3>1. UNCHANGED phase \/ \E p \in Phases : phase' = [phase EXCEPT ![r] = p]
        BY <1>3 DEF ClientStepKeyed, Stage, AwaitResult, ListKeyed, ReadStaged, PrepareCommit,
                    Commit, Cleanup, Recommit, Goto, Phases
      <3> QED BY <3>1 DEF KeyedTypeOK
    <2>4. base' \in [Runs -> Nat]
      <3>1. UNCHANGED base \/ base' = [base EXCEPT ![r] = Len(versions)]
        BY <1>3 DEF ClientStepKeyed, Stage, AwaitResult, ListKeyed, ReadStaged, PrepareCommit,
                    Commit, Cleanup, Recommit
      <3>2. Len(versions) \in Nat
        BY DEF KeyedTypeOK
      <3> QED BY <3>1, <3>2 DEF KeyedTypeOK
    <2>5. recommits' \in [Runs -> Nat]
      <3>1. UNCHANGED recommits \/ recommits' = [recommits EXCEPT ![r] = @ + 1]
        BY <1>3, ClientTouches DEF Recommit
      <3>2. recommits \in [Runs -> Nat] /\ recommits[r] + 1 \in Nat
        BY DEF KeyedTypeOK
      <3> QED BY <3>1, <3>2
    <2>6. /\ unread' \in [Runs -> SUBSET Keys]
          /\ collected' \in [Runs -> SUBSET [run: Runs, key: Keys, frag: Invocations]]
      <3>1. CASE ListKeyed(r)
        <4>1. {o.key : o \in Under(r)} \ Nested \in SUBSET Keys
          BY DEF Under, KeyedTypeOK
        <4> QED BY <3>1, <4>1 DEF ListKeyed, KeyedTypeOK
      <3>2. CASE ReadStaged(r)
        <4>1. PICK key \in unread[r] :
                /\ collected' = [collected EXCEPT ![r] = @ \cup Readable(r, key)]
                /\ unread' = [unread EXCEPT ![r] = @ \ {key}]
          BY <3>2 DEF ReadStaged, Readable
        <4>2. Readable(r, key) \in SUBSET [run: Runs, key: Keys, frag: Invocations]
          BY DEF Readable, Under, KeyedTypeOK
        <4> QED BY <4>1, <4>2 DEF KeyedTypeOK
      <3> QED BY <1>3, <3>1, <3>2, ClientTouches DEF KeyedTypeOK
    <2> QED BY <1>1, <2>1, <2>2, <2>3, <2>4, <2>5, <2>6 DEF KeyedTypeOK
  <1>4. CASE OtherCommits \/ Reclaim \/ UNCHANGED vars
    <2>1. files' \in SUBSET Fragments
      <3>1. CASE OtherCommits
        <4> DEFINE frag == [run |-> Other, batch |-> Len(versions) + 1, attempt |-> 1]
        <4>1. files' = files \cup {frag}
          BY <3>1 DEF OtherCommits
        <4>2. frag \in Fragments
          BY DEF Fragments, KeyedTypeOK
        <4> HIDE DEF frag
        <4> QED BY <4>1, <4>2 DEF KeyedTypeOK
      <3>2. CASE Reclaim \/ UNCHANGED vars
        BY <3>2 DEF Reclaim, vars, KeyedTypeOK
      <3> QED BY <1>4, <3>1, <3>2
    <2> QED BY <1>1, <1>4, <2>1, RestTouches DEF KeyedTypeOK
  <1> QED BY <1>2, <1>3, <1>4, KeyedSteps

\* The keyed write keeps the types of its state.
LEMMA KeyedTypeCorrect == KeyedSpec => []KeyedTypeOK
  <1> QED BY InitKeyedTypeOK, NextKeyedTypeOK, PTL DEF KeyedSpec, keyedVars

-----------------------------------------------------------------------------
(* The staging prefix.                                                     *)

LEMMA KeyedStagingSteps ==
  ASSUME [KeyedNext]_keyedVars
  PROVE  \/ UNCHANGED staging
         \/ \E inv \in Invocations : OpenKeyed(inv) \/ CloseKeyed(inv)
         \/ \E r \in Runs : Cleanup(r)
  <1>1. ASSUME NEW inv \in Invocations, WriteFragments(inv) \/ Crash(inv)
        PROVE  UNCHANGED staging
    BY <1>1 DEF WriteFragments, Crash
  <1> QED BY <1>1, KeyedSteps, ClientTouches, RestTouches DEF WorkerStepKeyed

LEMMA KeyedStartedRows ==
  ASSUME KeyedTypeOK, StartedRows, [KeyedNext]_keyedVars
  PROVE  StartedRows'
  <1>1. UNCHANGED rows
    BY KeyedProgress
  <1>2. ASSUME NEW inv \in Invocations, WorkerStepKeyed(inv) PROVE StartedRows'
    <2>1. inv.batch \in rows[inv.run]
      BY <1>2 DEF WorkerStepKeyed, WriteFragments, OpenKeyed, CloseKeyed, Crash, MayStart,
                  StartedRows
    <2>2. \A i \in Invocations : i # inv => worker'[i] = worker[i]
      BY <1>2 DEF WorkerStepKeyed, WriteFragments, OpenKeyed, CloseKeyed, Crash, KeyedTypeOK
    <2> QED BY <1>1, <2>1, <2>2 DEF StartedRows
  <1> QED BY <1>1, <1>2, KeyedSteps, ClientTouches, RestTouches DEF StartedRows

LEMMA KeyedStagingFitsNext == KeyedRunInv /\ [KeyedNext]_keyedVars => KeyedStagingFits'
  <1> SUFFICES ASSUME KeyedRunInv, [KeyedNext]_keyedVars PROVE KeyedStagingFits'
    OBVIOUS
  <1>1. /\ KeyedTypeOK /\ StartedRows /\ KeyedStagingFits /\ UNCHANGED <<rows, keyOf>>
        /\ \A r : NamesOf(r)' = NamesOf(r)
    BY KeyedProgress DEF KeyedRunInv
  <1>2. ASSUME NEW inv \in Invocations, OpenKeyed(inv) \/ CloseKeyed(inv)
        PROVE  KeyedStagingFits'
    <2>1. PICK frag \in {inv, Truncated} :
            /\ staging' = {o \in staging : <<o.run, o.key>> # <<inv.run, keyOf[inv.batch]>>}
                            \cup {Object(inv.run, keyOf[inv.batch], frag)}
            /\ worker[inv] \in {"wrote", "opened"}
      BY <1>2, PutKeyed
    <2> DEFINE new == Object(inv.run, keyOf[inv.batch], frag)
    <2>2. /\ new.run = inv.run /\ new.key = keyOf[inv.batch] /\ new.frag = frag
          /\ inv.batch \in rows[inv.run]
      BY <1>1, <2>1 DEF Object, StartedRows
    <2> HIDE DEF new
    <2>3. /\ new.key \in NamesOf(new.run)
          /\ new.frag # Truncated => /\ new.frag.run = new.run
                                     /\ new.frag.batch \in rows[new.run]
                                     /\ keyOf[new.frag.batch] = new.key
      BY <2>1, <2>2 DEF NamesOf
    <2>4. \A o \in staging' : o = new \/ (o \in staging /\ ~(o.run = new.run /\ o.key = new.key))
      BY <2>1, <2>2 DEF new
    <2>5. ASSUME NEW o \in staging'
          PROVE  /\ o.key \in NamesOf(o.run)
                 /\ o.frag # Truncated => /\ o.frag.run = o.run /\ o.frag.batch \in rows[o.run]
                                          /\ keyOf[o.frag.batch] = o.key
                 /\ \A p \in staging' : (o.run = p.run /\ o.key = p.key) => o = p
      BY <1>1, <2>3, <2>4 DEF KeyedStagingFits
    <2> QED BY <1>1, <2>5 DEF KeyedStagingFits
  <1>3. ASSUME staging' \subseteq staging PROVE KeyedStagingFits'
    BY <1>1, <1>3 DEF KeyedStagingFits
  <1> QED BY <1>2, <1>3, KeyedStagingSteps, CleanupRemoves

LEMMA KeyedIsThereNext == KeyedRunInv /\ [KeyedNext]_keyedVars => KeyedIsThere'
  <1> SUFFICES ASSUME KeyedRunInv, [KeyedNext]_keyedVars,
                      NEW i \in Invocations, worker'[i] = "staged", ~Published(i.run)'
               PROVE  (keyOf[i.batch] \in Names(Under(i.run)))'
    BY DEF KeyedIsThere
  <1>1. /\ KeyedTypeOK /\ KeyedIsThere /\ ~Published(i.run) /\ i.run \in Runs
        /\ UNCHANGED keyOf
    BY KeyedProgress DEF KeyedRunInv, Invocations
  <1>2. ASSUME NEW inv \in Invocations, OpenKeyed(inv) \/ CloseKeyed(inv)
        PROVE  \E o \in staging' : o.run = i.run /\ o.key = keyOf[i.batch]
    <2>1. PICK frag \in {inv, Truncated} :
            /\ staging' = {o \in staging : <<o.run, o.key>> # <<inv.run, keyOf[inv.batch]>>}
                            \cup {Object(inv.run, keyOf[inv.batch], frag)}
            /\ worker' = [worker EXCEPT ![inv] = worker'[inv]]
      BY <1>2, PutKeyed
    <2> DEFINE new == Object(inv.run, keyOf[inv.batch], frag)
    <2>2. new \in staging' /\ new.run = inv.run /\ new.key = keyOf[inv.batch]
      BY <2>1 DEF Object
    <2>3. CASE i.run = inv.run /\ keyOf[i.batch] = keyOf[inv.batch]
      BY <2>2, <2>3
    <2>4. CASE ~(i.run = inv.run /\ keyOf[i.batch] = keyOf[inv.batch])
      <3>1. worker[i] = "staged"
        BY <1>1, <2>1, <2>4 DEF KeyedTypeOK
      <3>2. PICK o \in staging : o.run = i.run /\ o.key = keyOf[i.batch]
        BY <1>1, <3>1 DEF KeyedIsThere, Names, Under
      <3> QED BY <2>1, <2>4, <3>2
    <2> QED BY <2>3, <2>4
  <1>3. ASSUME ~\E inv \in Invocations : OpenKeyed(inv) \/ CloseKeyed(inv)
        PROVE  \E o \in staging' : o.run = i.run /\ o.key = keyOf[i.batch]
    <2>1. worker[i] = "staged"
      <3>1. ASSUME NEW inv \in Invocations, WriteFragments(inv) \/ Crash(inv)
            PROVE  worker[i] = "staged"
        BY <1>1, <3>1 DEF WriteFragments, Crash, KeyedTypeOK
      <3> QED BY <1>3, <3>1, KeyedSteps, ClientTouches, RestTouches DEF WorkerStepKeyed
    <2>2. PICK o \in staging : o.run = i.run /\ o.key = keyOf[i.batch]
      BY <1>1, <2>1 DEF KeyedIsThere, Names, Under
    <2>3. ASSUME NEW r \in Runs, Cleanup(r) PROVE o \in staging'
      <3>1. Published(r)
        BY <2>3, CleanupRemoves DEF KeyedRunInv, KeyedClientFits
      <3> QED BY <1>1, <2>2, <2>3, <3>1, CleanupRemoves
    <2>4. o \in staging'
      BY <1>3, <2>2, <2>3, KeyedStagingSteps
    <2> QED BY <2>2, <2>4
  <1>4. PICK o \in staging' : o.run = i.run /\ o.key = keyOf[i.batch]
    BY <1>2, <1>3
  <1> QED BY <1>1, <1>4 DEF Names, Under

-----------------------------------------------------------------------------
(* The client.                                                             *)

\* What a client finds under a name it has listed.
LEMMA KeyedReadStep ==
  ASSUME KeyedRunInv, NEW r \in Runs, ReadStaged(r)
  PROVE  \E key \in unread[r] :
           /\ collected' = [collected EXCEPT ![r] = @ \cup Readable(r, key)]
           /\ unread' = [unread EXCEPT ![r] = @ \ {key}]
           /\ IF Readable(r, key) = {} THEN Goto(r, "failed") ELSE UNCHANGED phase
           /\ key \notin Names(collected[r])
           /\ \A o \in Readable(r, key) :
                /\ o.run = r /\ o.key = key
                /\ o.frag.run = r /\ o.frag.batch \in rows[r] /\ keyOf[o.frag.batch] = o.key
                /\ \A p \in Readable(r, key) : o = p
  <1>1. PICK key \in unread[r] :
          /\ collected' = [collected EXCEPT ![r] = @ \cup Readable(r, key)]
          /\ unread' = [unread EXCEPT ![r] = @ \ {key}]
          /\ IF Readable(r, key) = {} THEN Goto(r, "failed") ELSE UNCHANGED phase
    BY DEF ReadStaged, Readable
  <1>2. key \notin Names(collected[r])
    BY DEF ReadStaged, KeyedRunInv, KeyedClientFits
  <1>3. \A o \in Readable(r, key) :
          /\ o.run = r /\ o.key = key
          /\ o.frag.run = r /\ o.frag.batch \in rows[r] /\ keyOf[o.frag.batch] = o.key
          /\ \A p \in Readable(r, key) : o = p
    BY DEF KeyedRunInv, KeyedStagingFits, Under, Readable
  <1> QED BY <1>1, <1>2, <1>3

LEMMA KeyedCollectedFitsNext == KeyedRunInv /\ [KeyedNext]_keyedVars => KeyedCollectedFits'
  <1> SUFFICES ASSUME KeyedRunInv, [KeyedNext]_keyedVars PROVE KeyedCollectedFits'
    OBVIOUS
  <1>1. KeyedTypeOK /\ KeyedCollectedFits /\ UNCHANGED <<rows, keyOf>>
    BY KeyedProgress DEF KeyedRunInv
  <1>2. CASE UNCHANGED collected
    BY <1>1, <1>2 DEF KeyedCollectedFits
  <1>3. ASSUME NEW r \in Runs, ListKeyed(r) PROVE KeyedCollectedFits'
    BY <1>1, <1>3 DEF ListKeyed, KeyedCollectedFits, KeyedTypeOK
  <1>4. ASSUME NEW r \in Runs, ReadStaged(r) PROVE KeyedCollectedFits'
    <2>0. PICK key \in unread[r] :
            /\ collected' = [collected EXCEPT ![r] = @ \cup Readable(r, key)]
            /\ key \notin Names(collected[r])
            /\ \A o \in Readable(r, key) :
                 /\ o.run = r /\ o.key = key
                 /\ o.frag.run = r /\ o.frag.batch \in rows[r] /\ keyOf[o.frag.batch] = o.key
                 /\ \A p \in Readable(r, key) : o = p
      BY <1>4, KeyedReadStep
    <2> DEFINE readable == Readable(r, key)
    <2>1. /\ collected' = [collected EXCEPT ![r] = @ \cup readable]
          /\ key \notin Names(collected[r])
          /\ \A o \in readable :
               /\ o.run = r /\ o.key = key
               /\ o.frag.run = r /\ o.frag.batch \in rows[r] /\ keyOf[o.frag.batch] = o.key
               /\ \A p \in readable : o = p
      BY <2>0
    <2> HIDE DEF readable
    <2>2. \A o \in collected[r] : o.key # key
      BY <2>1 DEF Names
    <2>3. ASSUME NEW q \in Runs, NEW o \in collected'[q]
          PROVE  /\ o.run = q /\ o.frag.run = q /\ o.frag.batch \in rows[q]
                 /\ keyOf[o.frag.batch] = o.key
                 /\ \A p \in collected'[q] : o.key = p.key => o = p
      <3>1. CASE q = r
        <4>1. collected'[r] = collected[r] \cup readable
          BY <1>1, <2>1 DEF KeyedTypeOK
        <4> QED BY <1>1, <2>1, <2>2, <2>3, <3>1, <4>1 DEF KeyedCollectedFits
      <3>2. CASE q # r
        BY <1>1, <2>1, <2>3, <3>2 DEF KeyedCollectedFits, KeyedTypeOK
      <3> QED BY <3>1, <3>2
    <2> QED BY <1>1, <2>3 DEF KeyedCollectedFits
  <1> QED BY <1>2, <1>3, <1>4, KeyedSteps, WorkerTouches, ClientTouches, RestTouches

LEMMA KeyedListedAll ==
  ASSUME KeyedRunInv, NEW r \in Runs, Through(r), ~Published(r)
  PROVE  Names(Under(r)) = NamesOf(r)
  <1>1. \A o \in Under(r) : o.key \in NamesOf(r)
    BY DEF KeyedRunInv, KeyedStagingFits, Under
  <1>2. ASSUME NEW b \in rows[r] PROVE keyOf[b] \in Names(Under(r))
    <2>1. PICK a \in Attempts : worker[Invocation(r, b, a)] = "staged"
      BY <1>2 DEF Through
    <2>2. /\ Invocation(r, b, a) \in Invocations
          /\ Invocation(r, b, a).run = r /\ Invocation(r, b, a).batch = b
      BY <1>2 DEF Invocation, Invocations, KeyedRunInv, KeyedTypeOK
    <2> QED BY <2>1, <2>2 DEF KeyedRunInv, KeyedIsThere
  <1> QED BY <1>1, <1>2 DEF Names, NamesOf

LEMMA KeyedClientFitsNext ==
  ASSUME Nested = {}
  PROVE  KeyedRunInv /\ [KeyedNext]_keyedVars => KeyedClientFits'
  <1> SUFFICES ASSUME KeyedRunInv, [KeyedNext]_keyedVars, NEW r \in Runs
               PROVE  /\ phase'[r] \in {"awaited", "reading", "committing"} => Through(r)'
                      /\ phase'[r] = "cleaning" => Published(r)'
                      /\ phase'[r] = "reading" =>
                           /\ unread'[r] \cap Names(collected'[r]) = {}
                           /\ ~Published(r)' => unread'[r] \cup Names(collected'[r]) = NamesOf(r)'
                      /\ phase'[r] = "committing" =>
                           (~Published(r)' => Names(collected'[r]) = NamesOf(r)')
    BY DEF KeyedClientFits, Names
  <1>1. /\ KeyedTypeOK /\ (~Published(r)' => ~Published(r)) /\ NamesOf(r)' = NamesOf(r)
        /\ Through(r) => Through(r)'
        /\ phase[r] \in {"awaited", "reading", "committing"} => Through(r)
        /\ phase[r] = "cleaning" => Published(r)
        /\ phase[r] = "reading" =>
             /\ unread[r] \cap Names(collected[r]) = {}
             /\ ~Published(r) => unread[r] \cup Names(collected[r]) = NamesOf(r)
        /\ phase[r] = "committing" => (~Published(r) => Names(collected[r]) = NamesOf(r))
    BY KeyedProgress DEF KeyedRunInv, KeyedClientFits
  <1>2. CASE UNCHANGED <<phase[r], unread[r], collected[r], recommits[r]>>
    BY <1>1, <1>2
  <1>3. CASE ClientStepKeyed(r)
    <2>1. CASE phase'[r] = "awaited"
      BY <1>1, <1>3, <2>1, KeyedPhaseFrom
    <2>2. CASE phase'[r] = "reading"
      <3>1. CASE ListKeyed(r)
        <4>1. unread'[r] = Names(Under(r)) /\ collected'[r] = {} /\ phase[r] = "awaited"
          BY <1>1, <3>1 DEF ListKeyed, Names, KeyedTypeOK
        <4>2. Names(collected'[r]) = {}
          BY <4>1 DEF Names
        <4> QED BY <1>1, <2>2, <4>1, <4>2, KeyedListedAll
      <3>2. CASE ReadStaged(r)
        <4>0. PICK key \in unread[r] :
                /\ collected' = [collected EXCEPT ![r] = @ \cup Readable(r, key)]
                /\ unread' = [unread EXCEPT ![r] = @ \ {key}]
                /\ IF Readable(r, key) = {} THEN Goto(r, "failed") ELSE UNCHANGED phase
                /\ \A o \in Readable(r, key) : o.key = key
          BY <3>2, KeyedReadStep
        <4> DEFINE readable == Readable(r, key)
        <4>1. /\ key \in unread[r]
              /\ collected' = [collected EXCEPT ![r] = @ \cup readable]
              /\ unread' = [unread EXCEPT ![r] = @ \ {key}]
              /\ IF readable = {} THEN Goto(r, "failed") ELSE UNCHANGED phase
              /\ \A o \in readable : o.key = key
              /\ phase[r] = "reading"
          BY <3>2, <4>0 DEF ReadStaged
        <4> HIDE DEF readable
        <4>2. readable # {}
          BY <1>1, <2>2, <4>1 DEF Goto, KeyedTypeOK
        <4>3. collected'[r] = collected[r] \cup readable /\ unread'[r] = unread[r] \ {key}
          BY <1>1, <4>1 DEF KeyedTypeOK
        <4>4. Names(collected'[r]) = Names(collected[r]) \cup {key}
          BY <4>1, <4>2, <4>3 DEF Names
        <4>5. unread'[r] \cap Names(collected'[r]) = {}
          BY <1>1, <4>1, <4>3, <4>4
        <4>6. ~Published(r)' => unread'[r] \cup Names(collected'[r]) = NamesOf(r)'
          BY <1>1, <4>1, <4>3, <4>4
        <4> QED BY <2>2, <4>5, <4>6, <1>1, <4>1
      <3> QED BY <1>1, <1>3, <2>2, <3>1, <3>2, KeyedPhaseFrom
    <2>3. CASE phase'[r] = "committing"
      <3>1. PrepareCommit(r)
        BY <1>1, <1>3, <2>3, KeyedPhaseFrom
      <3>2. phase[r] = "reading" /\ unread[r] = {} /\ UNCHANGED collected
        BY <3>1 DEF PrepareCommit
      <3> QED BY <1>1, <2>3, <3>2
    <2>4. CASE phase'[r] = "cleaning"
      <3>1. Commit(r)
        BY <1>1, <1>3, <2>4, KeyedPhaseFrom
      <3>2. PICK v : versions' = Append(versions, v) /\ v.by = r
        BY <1>1, <2>4, <3>1 DEF Commit, Landed, Overwritten, Appended, Version, Goto, KeyedTypeOK
      <3> QED BY <1>1, <2>4, <3>2, PublishedByAppend DEF KeyedTypeOK
    <2> QED BY <2>1, <2>2, <2>3, <2>4
  <1> QED BY <1>1, <1>2, <1>3, KeyedClientSteps

-----------------------------------------------------------------------------
(* Whole first publications.                                               *)

LEMMA InitKeyedRunInv == KeyedInit => KeyedRunInv
  <1> SUFFICES ASSUME KeyedInit PROVE KeyedRunInv
    OBVIOUS
  <1>1. StartedRows /\ KeyedStagingFits /\ KeyedIsThere /\ KeyedCollectedFits
    BY DEF KeyedInit, Init, StartedRows, KeyedStagingFits, KeyedIsThere, KeyedCollectedFits
  <1>2. KeyedClientFits /\ NamedByItsRun
    BY DEF KeyedInit, Init, KeyedClientFits, NamedByItsRun
  <1> QED BY <1>1, <1>2, InitKeyedTypeOK DEF KeyedRunInv

LEMMA NextKeyedRunInv ==
  ASSUME Nested = {}
  PROVE  KeyedRunInv /\ [KeyedNext]_keyedVars => KeyedRunInv'
  <1> SUFFICES ASSUME KeyedRunInv, [KeyedNext]_keyedVars PROVE KeyedRunInv'
    OBVIOUS
  <1>1. KeyedTypeOK' /\ StartedRows'
    BY NextKeyedTypeOK, KeyedStartedRows DEF KeyedRunInv
  <1>2. NamedByItsRun'
    <2>1. versions \in Seq(VersionType) /\ NamedByItsRun
      BY DEF KeyedRunInv, KeyedTypeOK
    <2>2. \A r \in Runs : \A f \in FragmentsRead(r) : f.run = r
      BY DEF KeyedRunInv, KeyedCollectedFits, FragmentsRead
    <2> QED BY <2>1, <2>2, KeyedTableSteps, NamedByCommits
  <1> QED BY <1>1, <1>2, KeyedStagingFitsNext, KeyedIsThereNext, KeyedCollectedFitsNext,
             KeyedClientFitsNext DEF KeyedRunInv

\* One fragment for every name that some batches are given.
HasEveryName(frags, naming, batches) ==
  /\ {naming[f.batch] : f \in frags} = {naming[b] : b \in batches}
  /\ \A f, g \in frags : naming[f.batch] = naming[g.batch] => f = g

LEMMA FirstPublications ==
  /\ FirstPublicationIsWhole <=>
       \A i \in 1..Len(versions) :
         (versions[i].by # Other /\ \A j \in 1..i - 1 : versions[j].by # versions[i].by)
           => HasEveryName(Of(versions[i].frags, versions[i].by), keyOf, rows[versions[i].by])
  /\ FirstPublicationIsWhole' <=>
       \A i \in 1..Len(versions') :
         (versions'[i].by # Other /\ \A j \in 1..i - 1 : versions'[j].by # versions'[i].by)
           => HasEveryName(Of(versions'[i].frags, versions'[i].by), keyOf', rows'[versions'[i].by])
  BY DEF FirstPublicationIsWhole, HasEveryName, Of

LEMMA KeyedFragments ==
  ASSUME KeyedCollectedFits, NEW r \in Runs, Names(collected[r]) = NamesOf(r)
  PROVE  HasEveryName(FragmentsRead(r), keyOf, rows[r])
  <1>1. \A o \in collected[r] : keyOf[o.frag.batch] = o.key
    BY DEF KeyedCollectedFits
  <1>2. \A o, p \in collected[r] : o.key = p.key => o = p
    BY DEF KeyedCollectedFits
  <1>3. \A f, g \in FragmentsRead(r) : keyOf[f.batch] = keyOf[g.batch] => f = g
    <2>1. ASSUME NEW o \in collected[r], NEW p \in collected[r],
                 keyOf[o.frag.batch] = keyOf[p.frag.batch]
          PROVE  o.frag = p.frag
      BY <1>1, <1>2, <2>1
    <2> QED BY <2>1 DEF FragmentsRead
  <1>4. {keyOf[f.batch] : f \in FragmentsRead(r)} = Names(collected[r])
    BY <1>1 DEF FragmentsRead, Names
  <1> QED BY <1>3, <1>4 DEF HasEveryName, NamesOf

LEMMA FirstPublicationNext ==
  KeyedRunInv /\ FirstPublicationIsWhole /\ [KeyedNext]_keyedVars => FirstPublicationIsWhole'
  <1> SUFFICES ASSUME KeyedRunInv, FirstPublicationIsWhole, [KeyedNext]_keyedVars
               PROVE  FirstPublicationIsWhole'
    OBVIOUS
  <1>1. /\ KeyedTypeOK /\ KeyedCollectedFits /\ NamedByItsRun /\ UNCHANGED <<rows, keyOf>>
        /\ versions \in Seq(VersionType) /\ Len(versions) \in Nat
    BY KeyedProgress DEF KeyedRunInv, KeyedTypeOK
  <1>2. \A i \in 1..Len(versions) :
          (versions[i].by # Other /\ \A j \in 1..i - 1 : versions[j].by # versions[i].by)
            => HasEveryName(Of(versions[i].frags, versions[i].by), keyOf, rows[versions[i].by])
    BY FirstPublications
  <1>3. ASSUME NEW v, versions' = Append(versions, v),
               (v.by # Other /\ ~Published(v.by))
                 => HasEveryName(Of(v.frags, v.by), keyOf, rows[v.by])
        PROVE  FirstPublicationIsWhole'
    <2>1. /\ Len(versions') = Len(versions) + 1
          /\ \A i \in 1..Len(versions) : versions'[i] = versions[i]
          /\ versions'[Len(versions) + 1] = v
      BY <1>1, <1>3, AppendedVersion
    <2>2. ASSUME NEW i \in 1..Len(versions'), versions'[i].by # Other,
                 \A j \in 1..i - 1 : versions'[j].by # versions'[i].by
          PROVE  HasEveryName(Of(versions'[i].frags, versions'[i].by), keyOf, rows[versions'[i].by])
      <3>1. CASE i = Len(versions) + 1
        <4>1. \A j \in 1..Len(versions) : versions[j].by # v.by
          BY <1>1, <2>1, <2>2, <3>1
        <4> QED BY <1>3, <2>1, <2>2, <3>1, <4>1 DEF Published
      <3>2. CASE i \in 1..Len(versions)
        <4>1. \A j \in 1..i - 1 : versions'[j] = versions[j]
          BY <1>1, <2>1, <3>2
        <4> QED BY <1>2, <2>1, <2>2, <3>2, <4>1
      <3> QED BY <1>1, <2>1, <3>1, <3>2
    <2>3. rows' = rows /\ keyOf' = keyOf
      BY <1>1
    <2> QED BY <2>2, <2>3, FirstPublications
  <1>4. CASE UNCHANGED versions
    <2>1. versions' = versions /\ rows' = rows /\ keyOf' = keyOf
      BY <1>1, <1>4
    <2> QED BY <1>2, <2>1, FirstPublications
  <1>5. ASSUME NEW r \in Runs, Commit(r), ~UNCHANGED versions PROVE FirstPublicationIsWhole'
    <2>1. PICK v : /\ versions' = Append(versions, v) /\ v.by = r
                   /\ \/ v.frags = FragmentsRead(r)
                      \/ v.frags = Latest(versions) \cup FragmentsRead(r)
      BY <1>5, CommitVersion
    <2>2. ASSUME ~Published(r) PROVE HasEveryName(Of(v.frags, r), keyOf, rows[r])
      <3>1. Names(collected[r]) = NamesOf(r)
        BY <1>5, <2>2 DEF Commit, KeyedRunInv, KeyedClientFits
      <3>2. \A f \in Latest(versions) : f.run # r
        BY <1>1, <2>2, LatestIsNamed
      <3>3. \A f \in FragmentsRead(r) : f.run = r
        BY <1>1 DEF KeyedCollectedFits, FragmentsRead
      <3>4. Of(v.frags, r) = FragmentsRead(r)
        BY <2>1, <3>2, <3>3 DEF Of
      <3> QED BY <1>1, <3>1, <3>4, KeyedFragments
    <2> QED BY <1>3, <2>1, <2>2
  <1>6. CASE OtherCommits
    <2>1. PICK v : versions' = Append(versions, v) /\ v.by = Other
      BY <1>6, OtherAdds
    <2> QED BY <1>3, <2>1
  <1> QED BY <1>4, <1>5, <1>6, KeyedTableSteps

\* The first version of a run has one batch of each of its names, whatever the names
\* are and whoever was the last to stage one; none of them may hold a slash.
THEOREM FirstIsWhole ==
  ASSUME Nested = {}
  PROVE  KeyedSpec => []FirstPublicationIsWhole
  <1>1. KeyedInit => FirstPublicationIsWhole
    BY DEF KeyedInit, Init, FirstPublicationIsWhole
  <1> QED BY <1>1, InitKeyedRunInv, NextKeyedRunInv, FirstPublicationNext, PTL
          DEF KeyedSpec, keyedVars

-----------------------------------------------------------------------------
(* Create mode.                                                            *)

LEMMA KeyedCreateNext ==
  ASSUME FlakyStore = FALSE
  PROVE  KeyedTypeOK /\ CreateFits /\ CreatePublishesOnce /\ [KeyedNext]_keyedVars
           => CreateFits' /\ CreatePublishesOnce'
  <1> SUFFICES ASSUME KeyedTypeOK, CreateFits, CreatePublishesOnce, [KeyedNext]_keyedVars
               PROVE  CreateFits' /\ CreatePublishesOnce'
    OBVIOUS
  <1>1. UNCHANGED mode /\ versions \in Seq(VersionType)
    BY KeyedProgress DEF KeyedTypeOK
  <1>2. CreateFits'
    <2> SUFFICES ASSUME NEW r \in Runs, mode[r] = "create", phase'[r] = "committing"
                 PROVE  ~Published(r)'
      BY <1>1 DEF CreateFits
    <2>1. CASE PrepareCommit(r)
      <3>1. ~Exists(versions) /\ UNCHANGED versions
        BY <2>1 DEF PrepareCommit, Goto, KeyedTypeOK, MayAccept, MaySeeNothing
      <3> QED BY <1>1, <3>1 DEF Exists, Published
    <2>2. CASE ~PrepareCommit(r)
      <3>1. phase[r] = "committing"
        BY <2>2, KeyedClientSteps, KeyedPhaseFrom
      <3>2. ~Commit(r)
        BY DEF Commit, Goto, KeyedTypeOK
      <3>3. ASSUME NEW q \in Runs, Commit(q) PROVE ~Published(r)'
        <4>1. UNCHANGED versions \/ \E v : versions' = Append(versions, v) /\ v.by = q
          BY <3>3, CommitAdds
        <4> QED BY <1>1, <3>1, <3>2, <3>3, <4>1, PublishedByAppend DEF CreateFits, Published
      <3>4. ASSUME OtherCommits PROVE ~Published(r)'
        <4>1. PICK v : versions' = Append(versions, v) /\ v.by = Other
          BY <3>4, OtherAdds
        <4> QED BY <1>1, <3>1, <4>1, PublishedByAppend, OtherAssumption DEF CreateFits
      <3>5. ASSUME UNCHANGED versions PROVE ~Published(r)'
        BY <3>1, <3>5 DEF CreateFits, Published
      <3> QED BY <3>3, <3>4, <3>5, KeyedTableSteps
    <2> QED BY <2>1, <2>2
  <1>3. CreatePublishesOnce'
    BY <1>1, KeyedTableSteps, CreatedOnce
  <1> QED BY <1>2, <1>3

\* Nor does the naming, or the reclaiming, make a run in create mode publish twice.
THEOREM KeyedCreateOnce ==
  ASSUME FlakyStore = FALSE
  PROVE  KeyedSpec => []CreatePublishesOnce
  <1>1. KeyedInit => CreateFits /\ CreatePublishesOnce
    BY DEF KeyedInit, Init, CreateFits, CreatePublishesOnce
  <1> QED BY <1>1, KeyedCreateNext, KeyedTypeCorrect, PTL DEF KeyedSpec, keyedVars

=============================================================================
