----------------------------- MODULE ShardedScan -----------------------------
(***************************************************************************)
(* Which version of a dataset a scan reads: scan_lance and                 *)
(* scan_lance_fragments of _scan.py build LazyFrames from a URI or an open *)
(* handle, and every collection of one opens the dataset again, once for   *)
(* the schema and once for the rows, while other writers append, delete,   *)
(* overwrite, move tags and clean up old versions.                         *)
(*                                                                         *)
(* Fragment ids start over when a dataset is overwritten, so the same id   *)
(* names other data in another version.                                    *)
(***************************************************************************)
EXTENDS PythonNone, Integers, Sequences, FiniteSets, Functions

CONSTANTS Tag,           \* a tag of the dataset
          MaxVersions,   \* bound on the versions ever written
          MaxFragments,  \* bound on the fragments of one write
          MaxCollects    \* bound on the collections of LazyFrames

ASSUME MaxVersionsAssumption == MaxVersions \in Nat \ {0}
ASSUME MaxFragmentsAssumption == MaxFragments \in Nat
ASSUME MaxCollectsAssumption == MaxCollects \in Nat
ASSUME TagAssumption == None \notin Int \cup Seq(Nat) /\ Tag \notin Int /\ None # Tag

VARIABLES history,   \* the manifests of the dataset, by version number
          gone,      \* versions that have been cleaned up
          tag,       \* the version the tag names
          call,      \* the call that built the LazyFrames
          wanted,    \* the manifest that call was made for
          frames,    \* the LazyFrames: which version and which fragments each reads
          planned,   \* the schema each resolved for the collection under way
          results,   \* what their collections returned so far
          collects   \* collections so far

shardsVars == <<history, gone, tag, call, wanted, frames, planned, results, collects>>

-----------------------------------------------------------------------------
(* The dataset.  A fragment is its id and the data behind it, named after  *)
(* the version that wrote it.                                              *)

Manifest(schema, fragments, next) ==
  [schema |-> schema, fragments |-> fragments, next |-> next]

Written(version, from, n) ==
  [i \in 1..n |-> [id |-> from + i - 1, data |-> <<version, i>>]]

Newest == history[Len(history)]

Ids(manifest) == [i \in 1..Len(manifest.fragments) |-> manifest.fragments[i].id]

Data(manifest) == {manifest.fragments[i].data : i \in 1..Len(manifest.fragments)}

\* lance.dataset(uri, version=...): the latest version, a tag's, or a number.
Resolved(version) ==
  IF version = None THEN Len(history) ELSE IF version = Tag THEN tag ELSE version

Opens(version) == Resolved(version) \in (1..Len(history)) \ gone

-----------------------------------------------------------------------------
(* LazyFrames.                                                             *)

\* A LanceScanSpec; ids is None where all fragments are read.
ReadOf(version, ids) == [version |-> version, ids |-> ids]

\* Deliberately wrong variant: a handle stands for its URI.
PinnedByUri(handle, version) == version

\* scan_lance: a version given wins over that of an open handle.
Pinned(handle, version) == IF version # None THEN version ELSE handle

\* Deliberately wrong variant: the shards keep the version as it was given.
ShardVersionAsGiven(handle, version) == Pinned(handle, version)

\* scan_lance_fragments opens the dataset, or has it open, and hands its shards
\* the number of the version opened.
ShardVersion(handle, version) == Resolved(Pinned(handle, version))

\* Deliberately wrong variant: runs of neighbours, as long as the longest must be.
DealInRuns(ids, n) ==
  LET width == (Len(ids) + n - 1) \div n
      shards == (Len(ids) + width - 1) \div width
  IN  [s \in 1..shards |->
         SubSeq(ids, (s - 1) * width + 1,
                IF s * width < Len(ids) THEN s * width ELSE Len(ids))]

\* ids[s::n] for every s with anything in it.
Deal(ids, n) ==
  [s \in 1..(IF n < Len(ids) THEN n ELSE Len(ids)) |->
     [j \in 1..(Len(ids) - s) \div n + 1 |-> ids[s + (j - 1) * n]]]

\* One LazyFrame per fragment, or per shard; one that reads nothing if there are
\* no fragments, which is decided before n_shards is looked at.
Groups(ids, n) ==
  IF ids = <<>> THEN <<ids>>
  ELSE IF n = None THEN [i \in 1..Len(ids) |-> <<ids[i]>>]
  ELSE Deal(ids, n)

BuildFrames(name, shards, manifest, scans) ==
  /\ call' = [name |-> name, shards |-> shards]
  /\ wanted' = manifest
  /\ frames' = scans
  /\ planned' = [i \in 1..Len(scans) |-> None]
  /\ results' = [i \in 1..Len(scans) |-> {}]
  /\ UNCHANGED <<history, gone, tag, collects>>

Handles == {None} \cup ((1..Len(history)) \ gone)
VersionsGiven == {None, Tag} \cup ((1..Len(history)) \ gone)

\* scan_lance touches nothing: what an unpinned scan reads is not yet known.
ScanLance ==
  /\ call.name = "none"
  /\ \E handle \in Handles, version \in VersionsGiven, ids \in {None, <<0>>} :
       LET asked == IF version # None THEN version ELSE handle
       IN  BuildFrames("scan_lance", None,
                 IF asked \in {None, Tag} THEN None ELSE history[asked],
                 <<ReadOf(Pinned(handle, version), ids)>>)

ScanLanceFragments ==
  /\ call.name = "none"
  /\ \E handle \in Handles, version \in VersionsGiven, n \in {None} \cup 0..MaxFragments + 1 :
       LET opened == history[Resolved(Pinned(handle, version))]
           groups == Groups(Ids(opened), n)
           refused == Ids(opened) # <<>> /\ n # None /\ n < 1
       IN  BuildFrames("scan_lance_fragments", n, opened,
                 IF refused THEN <<>>
                 ELSE [i \in 1..Len(groups) |-> ReadOf(ShardVersion(handle, version), groups[i])])

-----------------------------------------------------------------------------
(* A collection: polars_schema first, then _frames.  Both open the dataset *)
(* and look the fragments up, and raise if one is missing.                 *)

HasFragments(manifest, ids) ==
  ids = None \/ \A i \in 1..Len(ids) : \E j \in 1..Len(manifest.fragments) :
                   manifest.fragments[j].id = ids[i]

\* The data behind the ids, in the order asked for.
RowsOf(manifest, ids) ==
  LET wantedIds == IF ids = None THEN Ids(manifest) ELSE ids
  IN  [i \in 1..Len(wantedIds) |->
         (CHOOSE f \in {manifest.fragments[j] : j \in 1..Len(manifest.fragments)} :
            f.id = wantedIds[i]).data]

Scannable(scan) ==
  Opens(scan.version) /\ HasFragments(history[Resolved(scan.version)], scan.ids)

ResolveSchema(i) ==
  /\ planned[i] = None
  /\ collects < MaxCollects
  /\ collects' = collects + 1
  /\ IF Scannable(frames[i])
     THEN planned' = [planned EXCEPT ![i] = history[Resolved(frames[i].version)].schema]
     ELSE UNCHANGED planned
  /\ UNCHANGED <<history, gone, tag, call, wanted, frames, results>>

ReadRows(i) ==
  /\ planned[i] # None
  /\ IF Scannable(frames[i])
     THEN LET manifest == history[Resolved(frames[i].version)]
          IN  results' = [results EXCEPT ![i] = @ \cup
                {[planned |-> planned[i], schema |-> manifest.schema,
                  rows |-> RowsOf(manifest, frames[i].ids)]}]
     ELSE UNCHANGED results
  /\ planned' = [planned EXCEPT ![i] = None]
  /\ UNCHANGED <<history, gone, tag, call, wanted, frames, collects>>

-----------------------------------------------------------------------------
(* Other writers.                                                          *)

Commit(manifest) ==
  /\ Len(history) < MaxVersions
  /\ history' = Append(history, manifest)
  /\ UNCHANGED <<gone, tag, call, wanted, frames, planned, results, collects>>

Overwrite ==
  \E n \in 0..MaxFragments :   \* under a schema of its own
    Commit(Manifest(Len(history) + 1, Written(Len(history) + 1, 0, n), n))

AppendFragment ==
  Commit(Manifest(Newest.schema,
                  Newest.fragments \o Written(Len(history) + 1, Newest.next, 1),
                  Newest.next + 1))

\* Deleting the rows of a fragment takes it out, and its id is not used again.
DeleteFragment ==
  \E p \in 1..Len(Newest.fragments) :
    Commit(Manifest(Newest.schema,
                    SubSeq(Newest.fragments, 1, p - 1)
                      \o SubSeq(Newest.fragments, p + 1, Len(Newest.fragments)),
                    Newest.next))

MoveTag ==
  /\ tag' \in ((1..Len(history)) \ gone) \ {tag}
  /\ UNCHANGED <<history, gone, call, wanted, frames, planned, results, collects>>

\* A version that is neither the latest nor tagged can be removed at any time.
CleanUp ==
  /\ \E v \in (1..Len(history) - 1) \ (gone \cup {tag}) : gone' = gone \cup {v}
  /\ UNCHANGED <<history, tag, call, wanted, frames, planned, results, collects>>

ShardsInit ==
  /\ \E n \in 0..MaxFragments : history = <<Manifest(1, Written(1, 0, n), n)>>
  /\ gone = {}
  /\ tag = 1
  /\ call = [name |-> "none", shards |-> None]
  /\ wanted = None
  /\ frames = <<>>
  /\ planned = <<>>
  /\ results = <<>>
  /\ collects = 0

ShardsNext ==
  \/ ScanLance \/ ScanLanceFragments
  \/ \E i \in 1..Len(frames) : ResolveSchema(i) \/ ReadRows(i)
  \/ Overwrite \/ AppendFragment \/ DeleteFragment \/ MoveTag \/ CleanUp

ShardsSpec == ShardsInit /\ [][ShardsNext]_shardsVars

-----------------------------------------------------------------------------
(* Correctness.                                                            *)

\* The shards of one call read the version its fragment ids came from, whatever
\* is written, tagged or cleaned up before each of them is collected: no fragment
\* twice, none of another version under the same id, and all of them once every
\* shard has been read.
ShardsMakeUpOneVersion ==
  call.name = "scan_lance_fragments" =>
    /\ \A i \in DOMAIN frames : \A got \in results[i] :
         IsInjective(got.rows) /\ Range(got.rows) \subseteq Data(wanted)
    /\ \A i, j \in DOMAIN frames : \A here \in results[i], there \in results[j] :
         i # j => Range(here.rows) \cap Range(there.rows) = {}
    /\ (frames # <<>> /\ \A i \in DOMAIN frames : results[i] # {}) =>
         UNION {Range(got.rows) : got \in UNION {results[i] : i \in DOMAIN frames}}
           = Data(wanted)

\* "Pinning the version is what makes a collection repeatable": a LazyFrame given a
\* handle or a number returns the same rows every time it returns any, under the
\* schema that was resolved before they were read.
PinnedCollectionsAgree ==
  wanted # None =>
    \A i \in DOMAIN frames : \A got \in results[i] :
      /\ got.planned = got.schema /\ got.schema = wanted.schema
      /\ got.rows = RowsOf(wanted, frames[i].ids)

\* "Fragments are dealt round-robin, so shards stay even", and asking for more
\* shards than there are fragments "yields one fragment per shard".
ShardsStayEven ==
  (call.name = "scan_lance_fragments" /\ call.shards # None /\ wanted.fragments # <<>>
     /\ frames # <<>>) =>
    /\ Len(frames) = IF call.shards < Len(wanted.fragments)
                     THEN call.shards ELSE Len(wanted.fragments)
    /\ \A i, j \in DOMAIN frames : Len(frames[i].ids) - Len(frames[j].ids) <= 1
=============================================================================
