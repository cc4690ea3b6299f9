------------------------- MODULE ThreadedSinkProofs -------------------------
(***************************************************************************)
(* The parallel write implements the atomic one, for any calls, shards and *)
(* pools: whatever its threads do, a call adds at most one version, and it *)
(* is made of all of its shards; and it leaves no thread behind.           *)
(***************************************************************************)
EXTENDS ThreadedSink, SequenceTheorems, TLAPS

VersionType == [by: Calls \cup {Other}, replaces: BOOLEAN, frags: SUBSET FragmentNames]

-----------------------------------------------------------------------------
(* The dataset.                                                            *)

\* A commit of either kind adds one version, by whoever commits.
LEMMA CommitAdds ==
  ASSUME NEW tbl \in Seq(VersionType), NEW by \in Calls \cup {Other},
         NEW frags \in SUBSET FragmentNames,
         NEW new, new \in {Overwritten(tbl, by, frags), Appended(tbl, by, frags)}
  PROVE  /\ new \in Seq(VersionType)
         /\ Len(new) = Len(tbl) + 1
         /\ new[Len(tbl) + 1].by = by
         /\ \A i \in 1..Len(tbl) : new[i] = tbl[i]
  <1>1. Latest(tbl) \in SUBSET FragmentNames
    <2>1. CASE tbl = <<>>
      BY <2>1 DEF Latest, Exists
    <2>2. CASE tbl # <<>>
      <3>1. tbl[Len(tbl)] \in VersionType
        BY <2>2, EmptySeq, ElementOfSeq
      <3> QED BY <2>2, <3>1 DEF Latest, Exists, VersionType
    <2> QED BY <2>1, <2>2
  <1>2. PICK v \in VersionType : v.by = by /\ new = Append(tbl, v)
    <2>1. Version(by, TRUE, frags) \in VersionType
      BY DEF Version, VersionType
    <2>2. Version(by, FALSE, Latest(tbl) \cup frags) \in VersionType
      BY <1>1 DEF Version, VersionType
    <2> QED BY <2>1, <2>2 DEF Overwritten, Appended, Version
  <1> QED BY <1>2, AppendProperties

-----------------------------------------------------------------------------
(* The invariant.                                                          *)

\* A call that commits has all its shards written, and a dataset to append to; one
\* that may still commit has not done so before.
CommitsOnce ==
  \A c \in Calls :
    /\ phase[c] = "committing" => \A s \in Of(c) : thread[c][s] = "written"
    /\ phase[c] = "committing" /\ mode[c] = "append" => Exists(versions)
    /\ phase[c] \notin {"done", "failed"} => \A i \in 1..Len(versions) : versions[i].by # c

IInv == TypeOK /\ NoWriterOutlivesItsCall /\ CommitsOnce

LEMMA InitIInv == Init => IInv
  <1> SUFFICES ASSUME Init PROVE IInv
    OBVIOUS
  <1>1. TypeOK
    BY MaxShardsAssumption DEF Init, TypeOK, ThreadStates, Phases, Shards
  <1>2. NoWriterOutlivesItsCall /\ CommitsOnce
    BY DEF Init, NoWriterOutlivesItsCall, CommitsOnce
  <1> QED BY <1>1, <1>2 DEF IInv

\* Steps of a pool and its caller that leave the dataset alone.
Quiet(c) ==
  \/ Submit(c) \/ MeetException(c) \/ CancelShard(c) \/ LeavePool(c) \/ PrepareCommit(c)
  \/ \E s \in Of(c) : ShardStep(c, s)

LEMMA QuietTypeOK ==
  ASSUME TypeOK, NEW c \in Calls, Quiet(c)
  PROVE  TypeOK'
  <1> USE DEF TypeOK, given
  <1>1. Of(c) \subseteq Shards /\ Len(versions) \in Nat
    BY MaxShardsAssumption DEF Of, Shards
  <1>2. UNCHANGED <<given, versions>>
    BY DEF Quiet, Submit, MeetException, CancelShard, LeavePool, PrepareCommit, ShardStep,
           StartShard, FinishShard
  <1>3. phase' \in [Calls -> Phases]
    BY DEF Quiet, Submit, MeetException, CancelShard, LeavePool, PrepareCommit, ShardStep,
           StartShard, FinishShard, Goto, Phases
  <1>4. base' \in [Calls -> Nat]
    BY <1>1 DEF Quiet, Submit, MeetException, CancelShard, LeavePool, PrepareCommit, ShardStep,
           StartShard, FinishShard
  <1>5. thread' \in [Calls -> [Shards -> ThreadStates]]
    <2>1. CASE CancelShard(c)
      <3>1. PICK s \in Shards : thread' = [thread EXCEPT ![c][s] = "cancelled"]
        BY <1>1, <2>1 DEF CancelShard
      <3> QED BY <3>1 DEF ThreadStates
    <2>2. CASE \E s \in Of(c) : ShardStep(c, s)
      <3>1. PICK s \in Shards, state \in ThreadStates : thread' = [thread EXCEPT ![c][s] = state]
        BY <1>1, <2>2 DEF ShardStep, StartShard, FinishShard, ThreadStates
      <3> QED BY <3>1
    <2>3. CASE UNCHANGED thread
      BY <2>3
    <2> QED BY <2>1, <2>2, <2>3 DEF Quiet, Submit, MeetException, LeavePool, PrepareCommit
  <1>6. against' \in [Calls -> [Shards -> Nat]]
    <2>1. CASE \E s \in Of(c) : ShardStep(c, s)
      <3>1. PICK s \in Shards, seen \in Nat :
              against' = against \/ against' = [against EXCEPT ![c][s] = seen]
        BY <1>1, <2>1 DEF ShardStep, StartShard, FinishShard
      <3>2. CASE against' = against
        BY <3>2
      <3>3. CASE against' = [against EXCEPT ![c][s] = seen]
        BY <3>3
      <3> QED BY <3>1, <3>2, <3>3
    <2> QED BY <2>1 DEF Quiet, Submit, MeetException, CancelShard, LeavePool, PrepareCommit
  <1>7. \A d \in Calls : rows'[d] \subseteq Of(d)'
    BY <1>2 DEF Of
  <1> QED BY <1>2, <1>3, <1>4, <1>5, <1>6, <1>7

\* What a commit may do to the dataset.
Commits(by, frags) ==
  versions' \in {Overwritten(versions, by, frags), Appended(versions, by, frags)}

LEMMA CommitsAdd ==
  ASSUME versions \in Seq(VersionType), NEW by \in Calls \cup {Other},
         NEW frags \in SUBSET FragmentNames, Commits(by, frags)
  PROVE  /\ versions' \in Seq(VersionType)
         /\ Len(versions') = Len(versions) + 1
         /\ versions'[Len(versions) + 1].by = by
         /\ \A i \in 1..Len(versions) : versions'[i] = versions[i]
  BY CommitAdds DEF Commits

LEMMA CallCommits ==
  ASSUME NEW c \in Calls, Commit(c)
  PROVE  \/ versions' = versions
         \/ phase[c] = "committing" /\ Commits(c, Fragments(c))
  BY DEF Commit, Commits, Landed

LEMMA OthersCommit ==
  ASSUME TypeOK, OtherCommits
  PROVE  \E frags \in SUBSET FragmentNames : Commits(Other, frags)
  <1> DEFINE frag == [run |-> Other, batch |-> Len(versions) + 1, attempt |-> 1]
  <1>1. Len(versions) \in Nat
    BY DEF TypeOK
  <1>2. {frag} \in SUBSET FragmentNames
    BY <1>1 DEF FragmentNames
  <1>3. Commits(Other, {frag})
    BY DEF OtherCommits, Commits
  <1> QED BY <1>2, <1>3

LEMMA FragmentsType ==
  ASSUME TypeOK, NEW c \in Calls
  PROVE  Fragments(c) \in SUBSET FragmentNames
  <1>1. rows[c] \subseteq Nat
    BY MaxShardsAssumption DEF TypeOK, Shards
  <1> QED BY <1>1 DEF Fragments, Fragment, FragmentNames

LEMMA NextTypeOK ==
  ASSUME TypeOK, [Next]_vars
  PROVE  TypeOK'
  <1>1. versions \in Seq(VersionType)
    BY DEF TypeOK, VersionType
  <1>2. ASSUME NEW c \in Calls, Quiet(c) PROVE TypeOK'
    BY <1>2, QuietTypeOK
  <1>3. ASSUME NEW c \in Calls, Commit(c) PROVE TypeOK'
    <2>1. versions' \in Seq(VersionType)
      BY <1>1, <1>3, CallCommits, FragmentsType, CommitsAdd
    <2>2. phase' \in [Calls -> Phases]
      BY <1>3 DEF Commit, Goto, TypeOK, Phases
    <2>3. UNCHANGED <<given, thread, against, base>>
      BY <1>3 DEF Commit
    <2> QED BY <2>1, <2>2, <2>3 DEF TypeOK, VersionType, given, Of
  <1>4. CASE OtherCommits
    <2>1. versions' \in Seq(VersionType)
      BY <1>1, <1>4, OthersCommit, CommitsAdd
    <2>2. UNCHANGED <<given, thread, against, phase, base>>
      BY <1>4 DEF OtherCommits
    <2> QED BY <2>1, <2>2 DEF TypeOK, VersionType, given, Of
  <1>5. CASE UNCHANGED vars
    BY <1>5 DEF vars, TypeOK, Of
  <1> QED BY <1>2, <1>3, <1>4, <1>5 DEF Next, CallerStep, Quiet

LEMMA NextNoWriter ==
  ASSUME IInv, [Next]_vars
  PROVE  NoWriterOutlivesItsCall'
  <1> USE DEF NoWriterOutlivesItsCall, IInv, TypeOK
  <1> SUFFICES ASSUME NEW c \in Calls, NEW s \in Of(c)',
                      phase'[c] \in {"committing", "done", "failed"}
               PROVE  thread'[c][s] \notin {"queued", "running"}
    OBVIOUS
  <1>1. s \in Of(c) /\ s \in Shards
    <2>1. UNCHANGED shards
      BY DEF Next, CallerStep, ShardStep, Submit, MeetException, CancelShard, LeavePool,
             PrepareCommit, Commit, StartShard, FinishShard, OtherCommits, vars, given
    <2> QED BY <2>1, MaxShardsAssumption DEF Of, Shards
  <1>2. ASSUME NEW d \in Calls, NEW t \in Of(d), StartShard(d, t)
        PROVE  thread'[c][s] \notin {"queued", "running"}
    <2>1. phase'[d] \in {"writing", "stopping"} /\ UNCHANGED phase
      BY <1>2 DEF StartShard
    <2>2. PICK state : thread' = [thread EXCEPT ![d][t] = state]
      BY <1>2 DEF StartShard
    <2> QED BY <1>1, <2>1, <2>2
  <1>3. ASSUME NEW d \in Calls, NEW t \in Of(d), FinishShard(d, t)
        PROVE  thread'[c][s] \notin {"queued", "running"}
    <2>1. t \in Shards
      BY MaxShardsAssumption DEF Of, Shards
    <2>2. PICK state \in {"written", "failed"} : thread' = [thread EXCEPT ![d][t] = state]
      BY <1>3 DEF FinishShard
    <2> QED BY <1>1, <1>3, <2>1, <2>2 DEF FinishShard
  <1>4. ASSUME NEW d \in Calls, CancelShard(d)
        PROVE  thread'[c][s] \notin {"queued", "running"}
    <2>1. phase'[d] = "stopping" /\ UNCHANGED phase
      BY <1>4 DEF CancelShard
    <2>2. PICK t : thread' = [thread EXCEPT ![d][t] = "cancelled"]
      BY <1>4 DEF CancelShard
    <2> QED BY <1>1, <2>1, <2>2
  <1>5. ASSUME NEW d \in Calls, Submit(d)
        PROVE  thread'[c][s] \notin {"queued", "running"}
    <2>1. CASE c = d
      BY <1>1, <1>5, <2>1 DEF Submit, Goto, Of
    <2>2. CASE c # d
      BY <1>1, <1>5, <2>2 DEF Submit, Goto
    <2> QED BY <2>1, <2>2
  <1>6. ASSUME NEW d \in Calls, MeetException(d) \/ LeavePool(d) \/ PrepareCommit(d) \/ Commit(d)
        PROVE  thread'[c][s] \notin {"queued", "running"}
    <2>1. UNCHANGED thread
      BY <1>6 DEF MeetException, LeavePool, PrepareCommit, Commit
    <2>2. CASE c = d
      BY <1>1, <1>6, <2>1, <2>2 DEF MeetException, LeavePool, PrepareCommit, Commit, Goto
    <2>3. CASE c # d
      BY <1>1, <1>6, <2>1, <2>3 DEF MeetException, LeavePool, PrepareCommit, Commit, Goto
    <2> QED BY <2>2, <2>3
  <1>7. CASE OtherCommits \/ UNCHANGED vars
    BY <1>1, <1>7 DEF OtherCommits, vars
  <1> QED BY <1>2, <1>3, <1>4, <1>5, <1>6, <1>7 DEF Next, CallerStep, ShardStep

\* No commit of its own in the dataset, unless the call has ended.
LEMMA NextCommitsOnce ==
  ASSUME IInv, [Next]_vars
  PROVE  CommitsOnce'
  <1> USE DEF IInv, CommitsOnce
  <1>1. versions \in Seq(VersionType)
    BY DEF TypeOK, VersionType
  <1>2. ASSUME NEW c \in Calls, Quiet(c) PROVE CommitsOnce'
    <2>1. UNCHANGED <<mode, shards, versions>>
      BY <1>2 DEF Quiet, Submit, MeetException, CancelShard, LeavePool, PrepareCommit,
                  ShardStep, StartShard, FinishShard, given
    <2>2. ASSUME NEW d \in Calls, phase'[d] = "committing", NEW s \in Of(d)
          PROVE  thread'[d][s] = "written"
      <3>1. CASE \E t \in Of(c) : ShardStep(c, t)
        <4>1. PICK t \in Of(c), state \in ThreadStates :
                /\ thread' = [thread EXCEPT ![c][t] = state]
                /\ thread[c][t] \in {"queued", "running"}
                /\ UNCHANGED phase
          BY <3>1 DEF ShardStep, StartShard, FinishShard, ThreadStates
        <4>2. thread[d][s] = "written"
          BY <2>2, <4>1
        <4> QED BY <4>1, <4>2 DEF TypeOK
      <3>2. CASE CancelShard(c)
        <4>1. PICK t : /\ thread' = [thread EXCEPT ![c][t] = "cancelled"]
                       /\ phase[c] = "stopping" /\ UNCHANGED phase
          BY <3>2 DEF CancelShard
        <4>2. d # c /\ thread[d][s] = "written"
          BY <2>2, <4>1
        <4> QED BY <4>1, <4>2 DEF TypeOK
      <3>3. CASE Submit(c) \/ MeetException(c) \/ LeavePool(c) \/ PrepareCommit(c)
        <4>1. UNCHANGED thread
          BY <3>3 DEF Submit, MeetException, LeavePool, PrepareCommit
        <4>2. CASE d = c
          <5>1. PrepareCommit(c)
            BY <2>2, <3>3, <4>2 DEF Submit, MeetException, LeavePool, Goto, TypeOK
          <5> QED BY <4>1, <4>2, <5>1 DEF PrepareCommit
        <4>3. CASE d # c
          <5>1. phase'[d] = phase[d]
            BY <3>3, <4>3 DEF Submit, MeetException, LeavePool, PrepareCommit, Goto, TypeOK
          <5> QED BY <2>2, <4>1, <5>1
        <4> QED BY <4>2, <4>3
      <3> QED BY <1>2, <3>1, <3>2, <3>3 DEF Quiet
    <2>3. ASSUME NEW d \in Calls, phase'[d] \notin {"done", "failed"}
          PROVE  phase[d] \notin {"done", "failed"}
      BY <1>2, <2>3 DEF Quiet, Submit, MeetException, CancelShard, LeavePool, PrepareCommit,
                        ShardStep, StartShard, FinishShard, Goto, TypeOK
    <2>4. ASSUME NEW d \in Calls, phase'[d] = "committing", mode[d] = "append"
          PROVE  Exists(versions)
      <3>1. CASE PrepareCommit(c) /\ d = c
        BY <2>4, <3>1 DEF PrepareCommit, MayAccept, Goto, TypeOK
      <3>2. CASE ~(PrepareCommit(c) /\ d = c)
        <4>1. phase[d] = "committing"
          BY <1>2, <2>4, <3>2 DEF Quiet, Submit, MeetException, CancelShard, LeavePool,
                PrepareCommit, ShardStep, StartShard, FinishShard, Goto, TypeOK
        <4> QED BY <2>4, <4>1
      <3> QED BY <3>1, <3>2
    <2> QED BY <2>1, <2>2, <2>3, <2>4 DEF Of, Exists
  <1>3. ASSUME NEW c \in Calls, Commit(c) PROVE CommitsOnce'
    <2>1. UNCHANGED <<mode, shards, thread>> /\ phase'[c] \in {"done", "failed"}
            /\ \A d \in Calls \ {c} : phase'[d] = phase[d]
      BY <1>3 DEF Commit, Goto, given, TypeOK
    <2>2. ASSUME NEW d \in Calls \ {c}, \A i \in 1..Len(versions) : versions[i].by # d
          PROVE  \A i \in 1..Len(versions') : versions'[i].by # d
      <3>1. CASE versions' = versions
        BY <2>2, <3>1
      <3>2. CASE Commits(c, Fragments(c))
        <4>1. /\ Len(versions') = Len(versions) + 1
              /\ versions'[Len(versions) + 1].by = c
              /\ \A i \in 1..Len(versions) : versions'[i] = versions[i]
          BY <1>1, <3>2, FragmentsType, CommitsAdd
        <4> QED BY <1>1, <2>2, <4>1
      <3> QED BY <1>3, <3>1, <3>2, CallCommits
    <2>3. Exists(versions) => Exists(versions')
      BY <1>1, <1>3, CallCommits, FragmentsType, CommitsAdd DEF Exists
    <2> QED BY <2>1, <2>2, <2>3 DEF Of, Exists
  <1>4. CASE OtherCommits
    <2>1. PICK frags \in SUBSET FragmentNames : Commits(Other, frags)
      BY <1>4, OthersCommit
    <2>2. /\ Len(versions') = Len(versions) + 1
          /\ versions'[Len(versions) + 1].by = Other
          /\ \A i \in 1..Len(versions) : versions'[i] = versions[i]
      BY <1>1, <2>1, CommitsAdd
    <2>3. UNCHANGED <<mode, shards, thread, phase>>
      <3> HIDE DEF IInv, CommitsOnce
      <3> QED BY <1>4 DEF OtherCommits, given
    <2>4. Len(versions) \in Nat
      BY <1>1
    <2>5. versions' # <<>>
      BY <2>2, <2>4
    <2> QED BY <2>2, <2>3, <2>4, <2>5, OtherAssumption DEF Of, Exists
  <1>5. CASE UNCHANGED vars
    BY <1>5 DEF vars, Of, Exists
  <1> QED BY <1>2, <1>3, <1>4, <1>5 DEF Next, CallerStep, Quiet

LEMMA NextIInv == IInv /\ [Next]_vars => IInv'
  BY NextTypeOK, NextNoWriter, NextCommitsOnce DEF IInv

LEMMA Invariance == Spec => []IInv
  <1> QED BY InitIInv, NextIInv, PTL DEF Spec

\* The calls, their pools and the dataset have the types they should.
THEOREM TypeCorrect == Spec => []TypeOK
  <1>1. IInv => TypeOK
    BY DEF IInv
  <1> QED BY <1>1, Invariance, PTL

\* A call that has returned or raised, or that commits, has no thread writing.
THEOREM NoThreadLeftBehind == Spec => []NoWriterOutlivesItsCall
  <1>1. IInv => NoWriterOutlivesItsCall
    BY DEF IInv
  <1> QED BY <1>1, Invariance, PTL

-----------------------------------------------------------------------------
(* The refinement.                                                         *)

LEMMA InitAbstract == Init => Abstract!AInit
  <1> SUFFICES ASSUME Init PROVE Abstract!AInit
    OBVIOUS
  <1> QED BY DEF Init, Abstract!AInit, Modes, Abstract!Modes

\* What a call commits is one copy of each of its shards that hold rows.
LEMMA FragmentsAreCopies ==
  ASSUME IInv, NEW c \in Calls, phase[c] = "committing"
  PROVE  Fragments(c) \in Abstract!Copies(c)
  <1> DEFINE copy == [b \in rows[c] |-> 1]
  <1>1. \A s \in rows[c] : thread[c][s] = "written"
    BY DEF IInv, CommitsOnce, TypeOK
  <1>2. Fragments(c) = {Abstract!Fragment(c, b, copy[b]) : b \in rows[c]}
    BY <1>1 DEF Fragments, Fragment, Abstract!Fragment
  <1>3. copy \in [rows[c] -> {1}]
    OBVIOUS
  <1> HIDE DEF copy
  <1> QED BY <1>2, <1>3 DEF Abstract!Copies

LEMMA SameTable ==
  ASSUME NEW by, NEW frags
  PROVE  /\ Overwritten(versions, by, frags) = Abstract!Overwritten(versions, by, frags)
         /\ Appended(versions, by, frags) = Abstract!Appended(versions, by, frags)
         /\ Exists(versions) = Abstract!Exists(versions)
  BY DEF Overwritten, Appended, Exists, Latest, Version, Abstract!Overwritten,
         Abstract!Appended, Abstract!Exists, Abstract!Latest, Abstract!Version

LEMMA CommitPublishes ==
  ASSUME IInv, NEW c \in Calls, Commit(c)
  PROVE  Abstract!Publish(c) \/ UNCHANGED <<mode, rows, versions>>
  <1>1. UNCHANGED <<mode, rows>>
    BY DEF Commit, given
  <1>2. CASE phase[c] = "committing" /\ versions' \in Landed(mode[c], c, Fragments(c), base[c], versions)
    <2>1. Fragments(c) \in Abstract!Copies(c)
      BY <1>2, FragmentsAreCopies
    <2>2. \A i \in 1..Len(versions) : versions[i].by # c
      BY <1>2 DEF IInv, CommitsOnce
    <2>3. IF mode[c] = "append"
          THEN Abstract!Exists(versions) /\ versions' = Abstract!Appended(versions, c, Fragments(c))
          ELSE versions' = Abstract!Overwritten(versions, c, Fragments(c))
      <3>1. mode[c] = "append" => Exists(versions)
        BY <1>2 DEF IInv, CommitsOnce
      <3> QED BY <1>2, <3>1, SameTable DEF Landed
    <2> QED BY <1>1, <2>1, <2>2, <2>3
            DEF Abstract!Publish, Abstract!Publishes, Abstract!Published
  <1> QED BY <1>1, <1>2 DEF Commit

LEMMA StepAbstract ==
  ASSUME IInv, [Next]_vars
  PROVE  [Abstract!ANext]_(Abstract!avars)
  <1>1. ASSUME NEW c \in Calls, Quiet(c) PROVE UNCHANGED <<mode, rows, versions>>
    BY <1>1 DEF Quiet, Submit, MeetException, CancelShard, LeavePool, PrepareCommit,
                ShardStep, StartShard, FinishShard, given
  <1>2. ASSUME OtherCommits PROVE Abstract!OtherPublishes
    <2> DEFINE frags == {[run |-> Other, batch |-> Len(versions) + 1, attempt |-> 1]}
    <2>1. /\ \/ versions' = Overwritten(versions, Other, frags)
             \/ Exists(versions) /\ versions' = Appended(versions, Other, frags)
          /\ UNCHANGED <<mode, rows>>
      BY <1>2 DEF OtherCommits, given
    <2>2. frags = {Abstract!Fragment(Other, Len(versions) + 1, 1)}
      BY DEF Abstract!Fragment
    <2> HIDE DEF frags
    <2> QED BY <2>1, <2>2, SameTable DEF Abstract!OtherPublishes
  <1>3. ASSUME UNCHANGED vars PROVE UNCHANGED <<mode, rows, versions>>
    BY <1>3 DEF vars
  <1> QED BY <1>1, <1>2, <1>3, CommitPublishes
          DEF Next, CallerStep, Quiet, Abstract!ANext, Abstract!avars

\* The parallel write implements one atomic publication per call.
THEOREM ImplementsAtomicPublish == Spec => PublishesAtomically
  <1> QED BY InitAbstract, StepAbstract, Invariance, PTL
          DEF Spec, PublishesAtomically, Abstract!ASpec
=============================================================================
