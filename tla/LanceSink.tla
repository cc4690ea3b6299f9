------------------------------ MODULE LanceSink ------------------------------
(***************************************************************************)
(* sink_lance of _sink.py: one query is streamed, batch by batch, into one *)
(* Lance write, at once or at every collection of the plan it returns.     *)
(* Lance takes the batches through an Arrow stream, publishes a version    *)
(* when the stream ends and nothing when it breaks off.                    *)
(*                                                                         *)
(* A row is the write that made it and its key; the keys of the batches    *)
(* are what an upsert matches rows by.                                     *)
(***************************************************************************)
EXTENDS PythonNone, Integers, Sequences, FiniteSets

CONSTANTS Calls,         \* calls of sink_lance on one dataset
          Batches,       \* how many batches a query has, one key each
          MaxRuns,       \* bound on the collections of a plan
          Other,         \* a writer that is none of the calls
          MaxForeign     \* bound on the commits of other writers

ASSUME BatchesAssumption == Batches \in Nat
ASSUME BoundsAssumption == MaxRuns \in Nat /\ MaxForeign \in Nat
ASSUME OtherAssumption == Other \notin Calls

VARIABLES mode,       \* each call's write mode
          on,         \* whether it names join keys
          lazy,       \* whether it is to return a plan
          kwargs,     \* whether it passes arguments on to write_dataset
          versions,   \* the dataset: its versions, with their writer and rows
          phase,      \* where the call, or the collection of its plan, stands
          runs,       \* how often the write was started
          read,       \* batches that Lance has taken from the stream
          dataset,    \* the version that the call holds: opened, or written
          summary     \* what the last collection returned, if anything

given == <<mode, on, lazy, kwargs>>
sinkVars == <<mode, on, lazy, kwargs, versions, phase, runs, read, dataset, summary>>

Phases == {"new", "refused", "planned", "merging", "writing", "counting", "done", "failed"}
Goto(c, p) == phase' = [phase EXCEPT ![c] = p]

Exists == versions # <<>>
Latest == IF Exists THEN versions[Len(versions)].rows ELSE {}
Publish(by, rows) == versions' = Append(versions, [by |-> by, rows |-> rows])

Row(c, write, key) == [by |-> c, write |-> write, key |-> key]
RowsRead(c) == {Row(c, runs[c], key) : key \in 1..read[c]}

\* What a version of the call's mode holds beside the rows of the call.
Kept(c) ==
  IF mode[c] = "append" THEN Latest
  ELSE IF mode[c] = "merge" THEN {r \in Latest : r.key \notin 1..read[c]}
  ELSE {}

-----------------------------------------------------------------------------
(* The call.                                                               *)

\* The arguments that do not go together.
ArgumentsClash(c) ==
  IF mode[c] = "merge" THEN ~on[c] \/ lazy[c] \/ kwargs[c] ELSE on[c]

Call(c) ==
  /\ phase[c] = "new"
  /\ IF ArgumentsClash(c) THEN Goto(c, "refused") /\ UNCHANGED <<runs, dataset>>
     ELSE IF lazy[c] THEN Goto(c, "planned") /\ UNCHANGED <<runs, dataset>>
     ELSE /\ runs' = [runs EXCEPT ![c] = 1]
          /\ IF mode[c] # "merge" THEN Goto(c, "writing") /\ UNCHANGED dataset
             ELSE IF ~Exists THEN Goto(c, "failed") /\ UNCHANGED dataset
             ELSE \* the caller's own LanceDataset may be an older version
                  /\ Goto(c, "merging")
                  /\ \E v \in 1..Len(versions) : dataset' = [dataset EXCEPT ![c] = v]
  /\ UNCHANGED <<given, versions, read, summary>>

\* Every collection of the plan performs the write again.
Collect(c) ==
  /\ lazy[c] /\ phase[c] \in {"planned", "done", "failed"}
  /\ runs[c] < MaxRuns
  /\ Goto(c, "writing")
  /\ runs' = [runs EXCEPT ![c] = @ + 1]
  /\ read' = [read EXCEPT ![c] = 0]
  /\ UNCHANGED <<given, versions, dataset, summary>>

\* collect_batches runs the query as Lance asks for more.
ReadBatch(c) ==
  /\ phase[c] \in {"writing", "merging"}
  /\ read[c] < Batches
  /\ read' = [read EXCEPT ![c] = @ + 1]
  /\ UNCHANGED <<given, versions, phase, runs, dataset, summary>>

\* Deliberately wrong variant: what was read before the error is published.
FailKeepingRows(c) ==
  /\ phase[c] \in {"writing", "merging"}
  /\ Goto(c, "failed")
  /\ Publish(c, Kept(c) \cup RowsRead(c))
  /\ UNCHANGED <<given, runs, read, dataset, summary>>

\* The query raises, Lance refuses the mode, the write fails, or a merge meets
\* another version than the one it was opened at.
Fail(c) ==
  /\ phase[c] \in {"writing", "merging"}
  /\ Goto(c, "failed")
  /\ UNCHANGED <<given, versions, runs, read, dataset, summary>>

\* The end of the stream publishes the version, which write_dataset returns.
Finish(c) ==
  /\ phase[c] \in {"writing", "merging"}
  /\ read[c] = Batches
  /\ mode[c] = "create" => ~Exists
  /\ phase[c] = "merging" => dataset[c] = Len(versions)
  /\ Publish(c, Kept(c) \cup RowsRead(c))
  /\ dataset' = [dataset EXCEPT ![c] = Len(versions) + 1]
  /\ Goto(c, IF lazy[c] THEN "counting" ELSE "done")
  /\ UNCHANGED <<given, runs, read, summary>>

Summarise(c) ==
  /\ phase[c] = "counting"
  /\ Goto(c, "done")
  /\ summary' = [summary EXCEPT ![c] =
                   [version |-> dataset[c],
                    rows |-> Cardinality(versions[dataset[c]].rows)]]
  /\ UNCHANGED <<given, versions, runs, read, dataset>>

OtherCommits ==
  /\ Cardinality({i \in 1..Len(versions) : versions[i].by = Other}) < MaxForeign
  /\ \E kept \in {Latest, {}} : Publish(Other, kept \cup {Row(Other, Len(versions), 1)})
  /\ UNCHANGED <<given, phase, runs, read, dataset, summary>>

SinkInit ==
  /\ mode \in [Calls -> {"create", "append", "overwrite", "merge"}]
  /\ on \in [Calls -> BOOLEAN] /\ lazy \in [Calls -> BOOLEAN] /\ kwargs \in [Calls -> BOOLEAN]
  /\ versions = <<>>
  /\ phase = [c \in Calls |-> "new"]
  /\ runs = [c \in Calls |-> 0] /\ read = [c \in Calls |-> 0]
  /\ dataset = [c \in Calls |-> 0] /\ summary = [c \in Calls |-> None]

SinkNext ==
  \/ \E c \in Calls : \/ Call(c) \/ Collect(c) \/ ReadBatch(c) \/ Fail(c) \/ Finish(c)
                      \/ Summarise(c)
  \/ OtherCommits

SinkSpec == SinkInit /\ [][SinkNext]_sinkVars

-----------------------------------------------------------------------------
(* Correctness.                                                            *)

WrittenBy(c) == {i \in 1..Len(versions) : versions[i].by = c}

\* A query that raises half-way publishes nothing, and a version holds the whole
\* result of one run of the query: never half of it, and never that of two runs
\* but where the plan of an append was collected twice.
WholeResultsOnly ==
  \A c \in Calls : \A i \in WrittenBy(c) : \E write \in 1..runs[c] :
    /\ {Row(c, write, key) : key \in 1..Batches} \subseteq versions[i].rows
    /\ mode[c] # "append" =>
         \A r \in versions[i].rows : r.by = c => r.write = write
=============================================================================
