-------------------------- MODULE LanceSinkProofs --------------------------
(***************************************************************************)
(* The streamed write: a version holds the whole result of one run of the  *)
(* query, for any number of calls, batches and collections.                *)
(***************************************************************************)
EXTENDS LanceSink, SequenceTheorems, TLAPS

\* The types that the steps rely on.  What the rows of a version are is a matter of
\* the other parts.
StateFits ==
  /\ versions \in Seq([by: Calls \cup {Other}, rows: SUBSET [by: Calls \cup {Other}, write: Nat, key: Nat]])
  /\ phase \in [Calls -> Phases]
  /\ runs \in [Calls -> Nat]
  /\ read \in [Calls -> 0..Batches]
  /\ dataset \in [Calls -> Nat]

\* The rows of a call have the keys of its batches: a merge replaces all it wrote.
KeysFit ==
  \A i \in 1..Len(versions) : \A r \in versions[i].rows : r.by \in Calls => r.key \in 1..Batches

\* A call that writes has begun to collect, and one that counts holds its version.
PhaseFits ==
  \A c \in Calls :
    /\ phase[c] = "new" => runs[c] = 0
    /\ phase[c] \in {"writing", "merging"} => runs[c] >= 1
    /\ phase[c] = "counting" => dataset[c] \in 1..Len(versions)

IInv == StateFits /\ KeysFit /\ PhaseFits /\ WholeResultsOnly

VersionType == [by: Calls \cup {Other}, rows: SUBSET [by: Calls \cup {Other}, write: Nat, key: Nat]]

-----------------------------------------------------------------------------
(* Steps.                                                                  *)

CallStep(c) == Call(c) \/ Collect(c) \/ ReadBatch(c) \/ Fail(c) \/ Finish(c) \/ Summarise(c)

LEMMA Steps ==
  ASSUME [SinkNext]_sinkVars
  PROVE  \/ \E c \in Calls : CallStep(c)
         \/ OtherCommits
         \/ UNCHANGED sinkVars
  BY DEF SinkNext, CallStep

\* A version more, or the same.
LEMMA TableSteps ==
  ASSUME [SinkNext]_sinkVars
  PROVE  /\ UNCHANGED given
         /\ \/ UNCHANGED versions
            \/ \E c \in Calls : Finish(c)
            \/ OtherCommits
  BY DEF SinkNext, sinkVars, given, Call, Collect, ReadBatch, Fail, Finish, Summarise, OtherCommits

LEMMA LatestFits ==
  ASSUME IInv
  PROVE  /\ Latest \in SUBSET [by: Calls \cup {Other}, write: Nat, key: Nat]
         /\ \A r \in Latest : r.by \in Calls => r.key \in 1..Batches
  <1>1. CASE versions = <<>>
    BY <1>1 DEF Latest, Exists
  <1>2. CASE versions # <<>>
    <2>1. versions \in Seq(VersionType) /\ Len(versions) \in 1..Len(versions)
      BY <1>2 DEF IInv, StateFits, VersionType
    <2>2. versions[Len(versions)] \in VersionType
      BY <2>1, ElementOfSeq
    <2> QED BY <1>2, <2>1, <2>2 DEF Latest, Exists, IInv, KeysFit, VersionType
  <1> QED BY <1>1, <1>2

\* The version a call publishes: the whole result of the collection under way, and
\* what its mode keeps, which is of the call itself only in an append.
LEMMA FinishPublishes ==
  ASSUME IInv, NEW c \in Calls, Finish(c)
  PROVE  \E v \in VersionType :
           /\ versions' = Append(versions, v) /\ v.by = c
           /\ {Row(c, runs[c], key) : key \in 1..Batches} \subseteq v.rows
           /\ \A r \in v.rows : r \in Latest \/ (r.by = c /\ r.key \in 1..Batches)
           /\ mode[c] # "append" => \A r \in v.rows : r.by = c => r.write = runs[c]
  <1> DEFINE new == RowsRead(c)
             v == [by |-> c, rows |-> Kept(c) \cup new]
  <1>1. read[c] = Batches /\ runs[c] \in Nat
    BY DEF Finish, IInv, StateFits
  <1>2. new = {Row(c, runs[c], key) : key \in 1..Batches}
    BY <1>1 DEF RowsRead
  <1>3. \A r \in new : r.by = c /\ r.write = runs[c] /\ r.key \in 1..Batches
    BY <1>2 DEF Row
  <1>4. /\ Kept(c) \subseteq Latest
        /\ mode[c] # "append" => \A r \in Kept(c) : r.by # c
    BY <1>1, LatestFits DEF Kept
  <1>5. new \in SUBSET [by: Calls \cup {Other}, write: Nat, key: Nat]
    BY <1>1, <1>2, BatchesAssumption DEF Row
  <1> HIDE DEF new
  <1>6. v \in VersionType
    BY <1>4, <1>5, LatestFits DEF VersionType
  <1>7. v.by = c /\ v.rows = Kept(c) \cup new
    OBVIOUS
  <1>8. versions' = Append(versions, v)
    BY DEF Finish, Publish, new
  <1> HIDE DEF v
  <1> QED BY <1>2, <1>3, <1>4, <1>6, <1>7, <1>8

LEMMA OtherPublishes ==
  ASSUME IInv, OtherCommits
  PROVE  \E v \in VersionType :
           /\ versions' = Append(versions, v) /\ v.by = Other
           /\ \A r \in v.rows : r \in Latest \/ r.by = Other
  <1>1. PICK kept \in {Latest, {}} :
          versions' = Append(versions, [by |-> Other, rows |-> kept \cup {Row(Other, Len(versions), 1)}])
    BY DEF OtherCommits, Publish
  <1> DEFINE v == [by |-> Other, rows |-> kept \cup {Row(Other, Len(versions), 1)}]
  <1>2. Len(versions) \in Nat
    BY DEF IInv, StateFits
  <1>3. Row(Other, Len(versions), 1) \in [by: Calls \cup {Other}, write: Nat, key: Nat]
          /\ Row(Other, Len(versions), 1).by = Other
    BY <1>2 DEF Row
  <1>4. v \in VersionType
    BY <1>1, <1>3, LatestFits DEF VersionType
  <1>5. v.by = Other /\ \A r \in v.rows : r \in Latest \/ r.by = Other
    BY <1>1, <1>3
  <1> HIDE DEF v
  <1>6. versions' = Append(versions, v)
    BY <1>1 DEF v
  <1> QED BY <1>4, <1>5, <1>6

\* What a step does to the dataset.
LEMMA Published ==
  ASSUME IInv, [SinkNext]_sinkVars
  PROVE  /\ versions' \in Seq(VersionType)
         /\ Len(versions') >= Len(versions) /\ Len(versions) \in Nat /\ Len(versions') \in Nat
         /\ \A i \in 1..Len(versions) : versions'[i] = versions[i]
         /\ \A i \in 1..Len(versions') :
              i \in 1..Len(versions)
                \/ (\E c \in Calls : Finish(c) /\ i = Len(versions) + 1)
                \/ (OtherCommits /\ i = Len(versions) + 1 /\ versions'[i].by = Other)
  <1>1. versions \in Seq(VersionType)
    BY DEF IInv, StateFits, VersionType
  <1>2. CASE UNCHANGED versions
    BY <1>1, <1>2
  <1>3. ASSUME NEW v \in VersionType, versions' = Append(versions, v)
        PROVE  /\ versions' \in Seq(VersionType)
               /\ Len(versions') = Len(versions) + 1 /\ Len(versions) \in Nat
               /\ \A i \in 1..Len(versions) : versions'[i] = versions[i]
               /\ versions'[Len(versions) + 1] = v
    BY <1>1, <1>3
  <1>4. ASSUME NEW c \in Calls, Finish(c)
        PROVE  \E v \in VersionType : versions' = Append(versions, v)
    BY <1>4, FinishPublishes
  <1>5. ASSUME OtherCommits
        PROVE  \E v \in VersionType : versions' = Append(versions, v) /\ v.by = Other
    BY <1>5, OtherPublishes
  <1>6. CASE \E c \in Calls : Finish(c)
    BY <1>3, <1>4, <1>6
  <1>7. CASE OtherCommits
    BY <1>3, <1>5, <1>7
  <1> QED BY <1>2, <1>6, <1>7, TableSteps

-----------------------------------------------------------------------------
(* The invariant.                                                          *)

LEMMA InitIInv == SinkInit => IInv
  <1> SUFFICES ASSUME SinkInit PROVE IInv
    OBVIOUS
  <1>1. StateFits
    BY BatchesAssumption DEF SinkInit, StateFits, Phases
  <1>2. KeysFit /\ WholeResultsOnly
    BY DEF SinkInit, KeysFit, WholeResultsOnly, WrittenBy
  <1>3. PhaseFits
    BY DEF SinkInit, PhaseFits
  <1> QED BY <1>1, <1>2, <1>3 DEF IInv

LEMMA StateFitsNext == IInv /\ [SinkNext]_sinkVars => StateFits'
  <1> SUFFICES ASSUME IInv, [SinkNext]_sinkVars PROVE StateFits'
    OBVIOUS
  <1>1. StateFits /\ versions' \in Seq(VersionType)
    BY Published DEF IInv
  <1>2. phase' \in [Calls -> Phases]
    <2>1. ASSUME NEW c \in Calls, CallStep(c)
          PROVE  UNCHANGED phase \/ \E p \in Phases : phase' = [phase EXCEPT ![c] = p]
      BY <2>1 DEF CallStep, Call, Collect, ReadBatch, Fail, Finish, Summarise, Goto, Phases
    <2> QED BY <1>1, <2>1, Steps DEF StateFits, OtherCommits, sinkVars
  <1>3. runs' \in [Calls -> Nat]
    <2>1. ASSUME NEW c \in Calls, CallStep(c)
          PROVE  UNCHANGED runs \/ \E n \in Nat : runs' = [runs EXCEPT ![c] = n]
      BY <1>1, <2>1 DEF CallStep, Call, Collect, ReadBatch, Fail, Finish, Summarise, StateFits
    <2> QED BY <1>1, <2>1, Steps DEF StateFits, OtherCommits, sinkVars
  <1>4. read' \in [Calls -> 0..Batches]
    <2>1. ASSUME NEW c \in Calls, CallStep(c)
          PROVE  UNCHANGED read \/ \E n \in 0..Batches : read' = [read EXCEPT ![c] = n]
      <3>1. read[c] < Batches => read[c] + 1 \in 0..Batches
        BY <1>1, BatchesAssumption DEF StateFits
      <3>2. 0 \in 0..Batches
        BY BatchesAssumption
      <3> QED BY <2>1, <3>1, <3>2
              DEF CallStep, Call, Collect, ReadBatch, Fail, Finish, Summarise
    <2> QED BY <1>1, <2>1, Steps DEF StateFits, OtherCommits, sinkVars
  <1>5. dataset' \in [Calls -> Nat]
    <2>1. ASSUME NEW c \in Calls, CallStep(c)
          PROVE  UNCHANGED dataset \/ \E n \in Nat : dataset' = [dataset EXCEPT ![c] = n]
      <3>1. Len(versions) \in Nat
        BY Published
      <3> QED BY <2>1, <3>1 DEF CallStep, Call, Collect, ReadBatch, Fail, Finish, Summarise
    <2> QED BY <1>1, <2>1, Steps DEF StateFits, OtherCommits, sinkVars
  <1> QED BY <1>1, <1>2, <1>3, <1>4, <1>5 DEF StateFits, VersionType

LEMMA KeysFitNext == IInv /\ [SinkNext]_sinkVars => KeysFit'
  <1> SUFFICES ASSUME IInv, [SinkNext]_sinkVars,
                      NEW i \in 1..Len(versions'), NEW r \in versions'[i].rows, r.by \in Calls
               PROVE  r.key \in 1..Batches
    BY DEF KeysFit
  <1>1. versions \in Seq(VersionType) /\ KeysFit
    BY DEF IInv, StateFits, VersionType
  <1>2. CASE i \in 1..Len(versions)
    BY <1>1, <1>2, Published DEF KeysFit
  <1>3. ASSUME NEW c \in Calls, Finish(c), i = Len(versions) + 1 PROVE r.key \in 1..Batches
    <2>1. PICK v \in VersionType :
            /\ versions' = Append(versions, v)
            /\ \A s \in v.rows : s \in Latest \/ (s.by = c /\ s.key \in 1..Batches)
      BY <1>3, FinishPublishes
    <2>2. r \in v.rows
      BY <1>1, <1>3, <2>1
    <2> QED BY <2>1, <2>2, LatestFits
  <1>4. ASSUME OtherCommits, i = Len(versions) + 1 PROVE r.key \in 1..Batches
    <2>1. PICK v \in VersionType :
            /\ versions' = Append(versions, v)
            /\ \A s \in v.rows : s \in Latest \/ s.by = Other
      BY <1>4, OtherPublishes
    <2>2. r \in v.rows
      BY <1>1, <1>4, <2>1
    <2> QED BY <2>1, <2>2, LatestFits, OtherAssumption
  <1> QED BY <1>2, <1>3, <1>4, Published

LEMMA PhaseFitsNext == IInv /\ [SinkNext]_sinkVars => PhaseFits'
  <1> SUFFICES ASSUME IInv, [SinkNext]_sinkVars, NEW d \in Calls
               PROVE  /\ phase'[d] = "new" => runs'[d] = 0
                      /\ phase'[d] \in {"writing", "merging"} => runs'[d] >= 1
                      /\ phase'[d] = "counting" => dataset'[d] \in 1..Len(versions')
    BY DEF PhaseFits
  <1>1. /\ StateFits /\ Len(versions) \in Nat /\ Len(versions') \in Nat
        /\ Len(versions') >= Len(versions)
        /\ phase[d] = "new" => runs[d] = 0
        /\ phase[d] \in {"writing", "merging"} => runs[d] >= 1
        /\ phase[d] = "counting" => dataset[d] \in 1..Len(versions)
    BY Published DEF IInv, PhaseFits
  <1>2. CASE UNCHANGED <<phase[d], runs[d], dataset[d]>>
    BY <1>1, <1>2
  <1>3. CASE CallStep(d)
    <2> USE <1>1 DEF StateFits, Goto
    <2>1. CASE Call(d)
      BY <2>1 DEF Call
    <2>2. CASE Collect(d)
      BY <2>2 DEF Collect
    <2>3. CASE ReadBatch(d) \/ Fail(d) \/ Summarise(d)
      BY <2>3 DEF ReadBatch, Fail, Summarise
    <2>4. CASE Finish(d)
      <3>1. Len(versions') = Len(versions) + 1
        BY <2>4 DEF Finish, Publish
      <3> QED BY <2>4, <3>1 DEF Finish
    <2> QED BY <1>3, <2>1, <2>2, <2>3, <2>4 DEF CallStep
  <1>4. ASSUME NEW c \in Calls, c # d, CallStep(c)
        PROVE  UNCHANGED <<phase[d], runs[d], dataset[d]>>
    BY <1>1, <1>4 DEF CallStep, Call, Collect, ReadBatch, Fail, Finish, Summarise, Goto, StateFits
  <1>5. CASE OtherCommits \/ UNCHANGED sinkVars
    BY <1>2, <1>5 DEF OtherCommits, sinkVars
  <1> QED BY <1>2, <1>3, <1>4, <1>5, Steps

\* The collections of a call are never fewer.
LEMMA RunsGrow ==
  ASSUME IInv, [SinkNext]_sinkVars, NEW d \in Calls
  PROVE  runs'[d] \in Nat /\ runs'[d] >= runs[d] /\ runs[d] \in Nat
  <1>1. StateFits /\ runs'[d] \in Nat /\ runs[d] \in Nat
    BY StateFitsNext DEF IInv, StateFits
  <1>2. ASSUME NEW c \in Calls, CallStep(c) PROVE runs'[d] >= runs[d]
    <2>1. CASE Call(c)
      <3>1. runs[c] = 0
        BY <2>1 DEF Call, IInv, PhaseFits
      <3>2. UNCHANGED runs \/ runs' = [runs EXCEPT ![c] = 1]
        BY <2>1 DEF Call
      <3>3. runs'[d] = runs[d] \/ (d = c /\ runs'[d] = 1)
        BY <1>1, <3>2 DEF StateFits
      <3> QED BY <1>1, <3>1, <3>3
    <2>2. CASE Collect(c)
      <3>1. runs' = [runs EXCEPT ![c] = runs[c] + 1]
        BY <2>2 DEF Collect
      <3> QED BY <1>1, <3>1 DEF StateFits
    <2>3. CASE ReadBatch(c) \/ Fail(c) \/ Finish(c) \/ Summarise(c)
      <3>1. UNCHANGED runs
        BY <2>3 DEF ReadBatch, Fail, Finish, Summarise
      <3> QED BY <1>1, <3>1
    <2> QED BY <1>2, <2>1, <2>2, <2>3 DEF CallStep
  <1> QED BY <1>1, <1>2, Steps DEF OtherCommits, sinkVars

LEMMA WholeResultsNext == IInv /\ [SinkNext]_sinkVars => WholeResultsOnly'
  <1> SUFFICES ASSUME IInv, [SinkNext]_sinkVars PROVE WholeResultsOnly'
    OBVIOUS
  <1>0. UNCHANGED mode
    BY TableSteps DEF given
  <1> SUFFICES ASSUME NEW c \in Calls, NEW i \in 1..Len(versions'), versions'[i].by = c
               PROVE  \E write \in 1..runs'[c] :
                        /\ {Row(c, write, key) : key \in 1..Batches} \subseteq versions'[i].rows
                        /\ mode[c] # "append" =>
                             \A r \in versions'[i].rows : r.by = c => r.write = write
    BY <1>0 DEF WholeResultsOnly, WrittenBy, Row
  <1>1. versions \in Seq(VersionType) /\ Len(versions) \in Nat
    BY DEF IInv, StateFits, VersionType
  <1>2. CASE i \in 1..Len(versions)
    <2>1. versions'[i] = versions[i] /\ i \in WrittenBy(c)
      BY <1>2, Published DEF WrittenBy
    <2>2. PICK write \in 1..runs[c] :
            /\ {Row(c, write, key) : key \in 1..Batches} \subseteq versions[i].rows
            /\ mode[c] # "append" => \A r \in versions[i].rows : r.by = c => r.write = write
      BY <2>1 DEF IInv, WholeResultsOnly
    <2>3. write \in 1..runs'[c]
      BY RunsGrow
    <2> QED BY <2>1, <2>2, <2>3
  <1>3. ASSUME NEW d \in Calls, Finish(d), i = Len(versions) + 1
        PROVE  \E write \in 1..runs'[c] :
                 /\ {Row(c, write, key) : key \in 1..Batches} \subseteq versions'[i].rows
                 /\ mode[c] # "append" =>
                      \A r \in versions'[i].rows : r.by = c => r.write = write
    <2>1. PICK v \in VersionType :
            /\ versions' = Append(versions, v) /\ v.by = d
            /\ {Row(d, runs[d], key) : key \in 1..Batches} \subseteq v.rows
            /\ mode[d] # "append" => \A r \in v.rows : r.by = d => r.write = runs[d]
      BY <1>3, FinishPublishes
    <2>2. versions'[i] = v /\ d = c
      BY <1>1, <1>3, <2>1
    <2>3. runs[c] \in 1..runs'[c]
      <3>1. phase[c] \in {"writing", "merging"} /\ UNCHANGED runs
        BY <1>3, <2>2 DEF Finish
      <3>2. runs[c] >= 1
        BY <3>1 DEF IInv, PhaseFits
      <3> QED BY <3>1, <3>2, RunsGrow
    <2> QED BY <2>1, <2>2, <2>3
  <1> QED BY <1>2, <1>3, OtherAssumption, Published

LEMMA Invariance == SinkSpec => []IInv
  <1>1. IInv /\ [SinkNext]_sinkVars => IInv'
    BY StateFitsNext, KeysFitNext, PhaseFitsNext, WholeResultsNext DEF IInv
  <1> QED BY <1>1, InitIInv, PTL DEF SinkSpec

\* A version holds the whole result of one run of the query, whatever fails, is
\* collected again or is committed by others.
THEOREM WholeResults == SinkSpec => []WholeResultsOnly
  <1>1. IInv => WholeResultsOnly
    BY DEF IInv
  <1> QED BY <1>1, Invariance, PTL
=============================================================================
