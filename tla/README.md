# polars-pylance in TLA+

Specifications of [polars-pylance](../src/README.md), the bridge between Polars'
lazy engine and Lance datasets. The package scans a Lance dataset as a Polars
`LazyFrame`, pushing filters and limits into Lance, and writes query results to
Lance, locally or from the workers of a Polars Cloud cluster.

Paths below are relative to `src/src/polars_pylance/` unless they say otherwise.

## Inventory

| Component | State it keeps | Operations | Talks to | Modelled |
|---|---|---|---|---|
| Predicate lowering, the walk (`_predicate.py`) | none between calls; a recursion over a serialized expression | `to_lance_filter`, `lower_predicate`, `_Lowering.predicate` and its nodes | called by the scan | yes |
| Predicate lowering, leaves and values (`_predicate.py`) | none | comparisons, membership, ranges, tests; casts, arithmetic, string, list and temporal functions | the walk | partly |
| Scan (`_scan.py`) | a generator: the plan pushed to Lance, the rows the limit still allows | `scan_lance`, `_frames`, `_apply`, `iter_frames`, `_batches` | Polars' engine pulls it; it pulls Lance | partly |
| Sharded scan (`_scan.py`) | per LazyFrame, a version and a list of fragment ids | `scan_lance_fragments` | the scan | yes |
| Distributed write (`_remote.py`) | data files in the dataset, JSON objects under a staging prefix, the client's handle | `stage_lance_sink`, `_FragmentWriter.__call__`, `staged_fragments`, `commit`, `cleanup`, `sink_lance_remote` | Polars Cloud calls the callback on workers; the staging prefix is the only channel back | yes |
| Commit (`_sink.py`) | the dataset's versions | `commit_lance_fragments`, `_refuse_existing` | distributed write, threaded write | yes |
| Local sinks (`_sink.py`) | data files of shards, a pool of threads; the stream of a query into one write | `sink_lance`, `write_lance_shard`, `write_lance_fragments` | Lance's writer; the commit | yes |
| Options, cloud requirements, package surface (`_options.py`, `cloud.py`, `__init__.py`) | none | formatting of arguments and version pins | | no |
| Benchmarks, scripts (`src/bench`, `src/scripts`) | | | | no |

What is hard in this code, and the property that makes each part correct:

* *The walk* combines sub-filters of which some are exact and some keep a
  superset. A superset may be pushed, but not negated. The mistakes need a
  particular nesting of connectives: an `exact` flag forgotten on one level is
  harmless until something three levels up negates. Correct means: at every
  subtree, an exact filter has the predicate's own value on every row, null
  included, and a relaxed one is true wherever the predicate is.
* *The leaves* bridge two engines with different orders of floats. Correct means
  equal three-valued results for all operands, because a NOT above the leaf tells
  false and null apart.
* *The values* below a leaf bridge two engines that divide, slice, index, cast and
  order differently, and carry along what is known of their type and their NaNs for
  the leaf to rely on. Correct means: the SQL has the value Polars computes, what is
  known of it is true, and what is assumed before the schema is at hand is never
  less than what holds with it.
* *The scan* divides filter, search, prefilter and limit between Lance and Polars
  and may start over without the filter when Lance refuses it, while the engine is
  already pulling. It widens the projection by what a predicate left to Polars reads,
  while Lance adds columns of its own. Correct means: rows of the query's answer, in
  order, none twice, none missing, with the columns projected, in order.
* *The sharded scan* names fragments by ids that mean something in one version
  only, and opens the dataset anew for every collection, twice. Correct means: the
  shards of a call read, between them, exactly the fragments of the version their
  ids came from; a pinned scan gives the same rows each time; shards are even.
* *The threaded write* has shards that raise while others wait or write. Correct
  means: one version of all shards or none; no thread writes after the call has
  raised; the call ends.
* *sink_lance* streams a query into one write, and as a plan does so at every
  collection. Correct means: a query that raises leaves no version behind, and no
  version has parts of two collections.
* *The distributed write* has workers that are retried, duplicated and killed,
  objects on a store that are read while they are written, a commit that can fail
  before or after it has landed, and other writers. Correct means: each run
  publishes its whole result once, atomically, or not at all; no version names
  data that is not there; what is staged is not lost before it is published.

## Modules

| Module | What it is |
|---|---|
| `Kleene` | three-valued logic, shared by Polars and SQL |
| `PredicateLowering` | the walk |
| `PredicateLoweringProofs` | theorems about the walk |
| `LeafLowering` | the leaves over floats |
| `IntegerDivision` | `%` and `//` over signed and unsigned integers |
| `ValueLowering` | the walk over values: their types, their NaNs, their SQL |
| `FunctionLowering` | functions on texts, lists and dates |
| `TypesKnownLater` | lowering with the schema and before it is known, side by side |
| `MCLowering` | the walk and these five in one instance for TLC |
| `LoweringProofs` | theorems about the five: leaves, division at every width, values and types at any depth, texts and lists of any length |
| `Markers`, `PythonNone` | constants that several modules share |
| `Selection`, `RowStreams` | the members of a sequence that are in a set; streams of numbered rows |
| `SelectionProofs` | lemmas about such selections, and the induction they need |
| `RowSource` | abstract: what a scan promises the engine |
| `LanceScan` | the scan generator; implements `RowSource` |
| `LanceScanProofs` | theorems about a scan's rows and columns, its refinement among them |
| `ScanColumns` | the columns of a scan, on the way down and up |
| `ShardedScan` | which version and fragments LazyFrames read |
| `ShardedScanProofs` | theorems about versions and shards |
| `MCScan` | rows, columns and versions of scans, and `LanceSink`, in one instance for TLC |
| `LanceTable` | a Lance dataset as its writers see it |
| `CommitFragments` | `commit_lance_fragments`, shared by both writes of fragments |
| `AtomicPublish` | abstract: what such a write promises |
| `ThreadedSink` | a pool of threads and its caller; implements `AtomicPublish` |
| `MCThreadedSink` | its instance for TLC |
| `ThreadedSinkProofs` | theorems about the threaded write, its refinement among them |
| `LanceSink` | `sink_lance` in all modes, at once and deferred |
| `LanceSinkProofs` | theorems about the streamed write |
| `StagedSink` | workers, staging prefix, clients; implements `AtomicPublish` |
| `MCStagedSink` | its instances for TLC |
| `StagedSinkProofs` | theorems about the distributed write, its refinement among them, and about `KeyedSink` |
| `KeyedSink` | the distributed write with the names of staging objects as they are, and the reclaiming of data files |
| `MCKeyedSink` | its instances for TLC |

Definitions whose comment says *Deliberately wrong variant* are mutations: each
replaces the definition that follows it, to confirm that a property notices the
bug it stands for. The specifications never use them.

`MCLowering` and `MCScan` each check several modules in one run. The modules share no
variable, so their product would only multiply states; instead an initial state picks
the part that is under way, whose steps are those of its own `Next`, and the others
rest in one of their initial states. What is checked is the sum of the parts.

### PredicateLowering

`_Lowering.predicate` is a recursion. Its behaviours are made a state machine by
walking in post-order: `pending` holds the lowered subtrees whose parent is still
to be visited, a leaf pushes one, a node of arity k replaces the last k. All
expressions of any size and depth are covered as long as no more than `MaxPending`
subtrees wait at once.

A subtree is `value`, the truth value the Polars expression has on each row;
`lowered`, the pair the code returns, with the SQL kept as its meaning (a truth
value per row, or `NoSql` for `None`); and `translatable`, whether no leaf below
it was declined. One action per kind of node: `ExactLeaf`, `Literal`,
`UntranslatableLeaf`, `NotNode`, `BinaryNode` (AND, OR, XOR), `TernaryNode`,
`ValueTernaryNode` (a when/then inside a comparison), `HorizontalNode`
(all_horizontal, any_horizontal), then `Finish`, or `RecursionOverflow` anywhere.

### LeafLowering

A float is a sign and a magnitude; the two largest magnitudes are infinity and
NaN. `PolarsRank` and `LanceRank` are the two orders: in Polars the zeros are one
number and every NaN is the largest; in Lance the sign tells them apart (IEEE
total order), except against a zero that is written out. These rules are the ones
the docstring of `_float_comparison` gives for Lance, which is outside the
repository. `FloatComparison`, `EqMissing`, `NeMissing`, `IsIn`, `IsBetween` and
`Unary` follow `_float_comparison`, `_null_safe`, `_is_in`, `_is_between` and
`_unary`; `LeafIsExact` is what `ExactLeaf` of the walk takes for granted.

### IntegerDivision

`Lower` follows `_remainder_or_floor`: which divisors are declined, the divisor that is
nulled when zero, the correction of the truncated remainder or quotient by the signs
(`Differs`). The two sides are given by what the code relies on: Polars rounds down and
wraps (`FloorQuotient`, `FloorRemainder`, `Wrapped`), Lance truncates, and fails the
scan on a zero divisor or on a result that does not fit (`Fitting`), intermediate
results included. `DivisionIsExact` therefore also says that a scan never fails for a
row of its data.

### ValueLowering

The recursion of `_Lowering.value`, as a stack again. An entry is a value on one row
with its Polars type and the value of its SQL, beside the three facts `_Value` carries:
`dtype`, `literal`, and whether it cannot be a NaN (`nanFree`). One action per operation:
`Column`, `LiteralValue`, `Cast`,
`Concatenate`, `Arithmetic`, `TrueDivide`, `FloatFloor`, `Signed`, `Rounded`, `FillNull`,
`Extreme` (min_horizontal and max_horizontal), `Power`, `RootOrLog`, `Ternary`,
`AsDouble`. Numbers are their signs. What a kernel computes is one choice for both
sides, so this module does not show that Lance and Polars add alike; it shows what the
code adds to that: that knowledge of types and NaNs stays true through every nesting,
and that nulls, NaNs and casts come out alike. What the SQL makes of a float that is
strictly cast to text is `Respelt`, and so is all that is computed from it: that is the
one exception in `ValueIsExact` (below). `LeafLowering` takes `nanFree` for
granted (`Operands`), and `KnowledgeOfNans` is where it comes from.

### FunctionLowering

Slices, replacements, concatenation, `list.get`, `list.contains`, weekdays and
truncation, each a function of Polars beside the SQL it becomes. The cases that decide
are positions on either side of both ends, nulls in the place of every argument, literal
and regular patterns, the two zeros, needles that are literals or columns. Where the code
is not exact the properties name the case and what happens in it (`Raised` for a null
offset, `NotFoundAlike` for some needles), and nothing is cut from the inputs.

### TypesKnownLater

`scan_lance` lowers a prefilter twice: when the scan is built, without the schema
(`types_known_later`), to refuse what does not translate, and with it when the scan
runs. Each operation's guard on types is an operator that takes the switch; the walk
applies it both ways at once. `TypesNeverDecline` is what the docstring promises, and is
violated (run `types`). `NeverDeclinesForItsTypes` is what holds: only the four operations
of the finding decline, and only when the schema says more of an operand than is known
without it. `blind` is the record of that, which no operation reads.

### LanceScan

`query` holds the arguments; `status` follows the scan from `scan_lance` (`Build`)
to the first pull (`Open`) and through the batches (`Pull`, `EndOfStream`). `plan`
is what `_apply` asks of Lance (`sql`, `prefilter`, `limit`), what it leaves to
Polars (`residual`), and whether a failure may start over (`fallback`). `Refused`
and `Fault` are exceptions out of Lance, for the filter or for another reason; the
code cannot tell them apart at the first pull, and neither does the model. `Drop`
is the engine closing the generator. A filter is the set of rows it is true on,
and what a predicate lowers to is any lowering that `LoweringSound` allows: this
is how the scan composes with the walk. Lance may cut its stream anywhere, deliver
empty batches, and go on past its limit.

### ScanColumns

`request` is a projection in any order, the columns of the predicate left to Polars, and
the columns Lance generates for the scan (`_distance`, `_rowid` and the like). The code
tells generated columns by their names, `Virtual` (`VIRTUAL_COLUMNS`), and a dataset may
store a column of such a name. `Ask` is
`_with_predicate_columns` and the choice of columns in `iter_frames`; `Deliver` is
Lance, which refuses a name it does not store and appends what it generates;
`SelectWidened` is the end of `iter_frames`, a selection but for a batch without columns,
which is passed on for its height; `Filter` and `PassOn` are
`_apply`, which drops what only the predicate needed. `StoredIsOverlooked` is the exception
in both properties.

### ShardedScan

`history` is the dataset: one manifest per version, with a schema and fragments,
each an id and the data behind it. Ids start over with an overwrite, which is what
makes a moved version dangerous. `frames` are the LazyFrames of one call of
`scan_lance` or `scan_lance_fragments` (the record of a `LanceScanSpec`: version and
ids). Collecting one is two steps, `ResolveSchema` (`polars_schema`) and `ReadRows`
(`_frames`), since each opens the dataset for itself; either raises when the version
is gone or an id is missing. Between any two steps other writers `Overwrite`,
`AppendFragment`, `DeleteFragment`, `MoveTag` and `CleanUp`. `wanted` remembers the
manifest the call was made for, and `results` what the collections returned; only the
properties read them. The properties tell one id from another, so the deal is
modelled element by element, as `ids[s::n]`.

### CommitFragments and LanceTable

`LanceTable` states what the code relies on in Lance: overwrites are unconditional,
an append is rebased over appends and refused over an overwrite. `CommitFragments`
is `commit_lance_fragments` in its two halves: the look at the dataset
(`MayRefuse`, `MayAccept`; with an unreliable store a dataset can look absent) and
the commit (`Landed`). The two sinks take the halves as separate steps.

### ThreadedSink

A call of `write_lance_fragments` submits its shards (`Submit`) to a pool of
`workers` threads that take them in order (`StartShard`, `FinishShard`). The calling
thread looks at the results in the order of the shards: it learns of an exception
once everything before it is written (`MeetException`), cancels what is still queued
one task at a time while threads go on starting them (`CancelShard`), waits for the
rest (`LeavePool`) and raises; or, with all written, checks and commits
(`PrepareCommit`, `Commit`). `against` records the version from which
`write_fragments` took the field ids of an appended shard.

### StagedSink

An invocation of the callback is a (run, batch, attempt); `worker` says how far it
got: `WriteFragments`, `OpenStaging` (on a local filesystem the object is visible,
truncated, once it is opened), `CloseStaging`, or `Crash`. A batch may have
several invocations at once, and one that is under way outlives the query. The
client's `phase` follows `stage_lance_sink` (`Stage`), `await_result`
(`AwaitResult`), `staged_fragments` (`ListStaging`, then `ReadStaged` one object at
a time), `commit_lance_fragments` (`PrepareCommit`: the checks, `Commit`) and
`Cleanup`. The steps are apart because other runs, workers and writers act between
them. `Commit` and `Cleanup` can fail halfway, and `Commit` also after it landed.
`Recommit` is the holder of the handle calling `commit()` again; it is done only
when the query itself had run to its end. A run committed again is in `Again`: the
abstract specification lets it, and no other run, publish once more, and what is left of
its staging prefix is not the whole of it, so `WholeRunsOnce` leaves it out.

### LanceSink

A call picks a mode, whether it names join keys, whether it is deferred and whether it
passes arguments on. `Call` is the checks of `sink_lance` (`ArgumentsClash`) and the start of the
write; `Collect` is a collection of the plan, each of which writes again; `ReadBatch` is
`_reader_from_lazyframe` under Lance's pulling; `Fail` and `Finish` end the stream;
`Summarise` is the count after it. A merge is opened at a version and is refused by Lance
when another came in between.

### KeyedSink

`StagedSink` takes batches to have names of their own and nobody to delete data files.
Here `keyOf` names the batches: two may share a name (`_content_key` is a digest), and a
name may hold a slash (`fragment_key` is the caller's). `Reclaim` is
`cleanup_old_versions(delete_unverified=True)`, which the docstring of `commit()` gives as
the way to be rid of the files of retried batches, without naming a time for it: it may come
at any step, and takes every data file that no version names. `OnlyOrphansAreReclaimed` is
what the advice takes for granted, and is violated (run `reclaim`).

## Runs

| Run | Question | Instance and why it is enough |
|---|---|---|
| `lowering` | Does every walk return filters that claim no more than they do, and give nothing up needlessly? (`LoweringSound`, `TranslatableIsExact`, `ResultKeepsTheRows`) | Two rows: operators act row by row, and a second row lets a filter be right on one row and wrong on the other. Three pending subtrees: every node up to a ternary, over arbitrarily deep operands |
| | Do leaves have in Lance their value in Polars? (`LeafIsExact`, `SqlIsValid`) | Magnitudes 0, 1, infinity, NaN with both signs, and null; the code tells no more magnitudes apart. All subsets of them as `is_in` lists |
| | Does integer division? (`DivisionIsExact`) | Every pair of integers of four bits, signed and unsigned, and null; the theorem has every width |
| | Is what is known of a value true, and its SQL right? (`KnowledgeOfNans`, `KnowledgeOfTypes`, `ValueIsExact`) | Two pending values: every operation of one or two operands, the first of them arbitrarily deep, over everything a value can be; the theorems have any number. Three signs, NaN, null, texts that spell each of them or nothing; casts of floats to texts, strict ones included |
| | Do functions on texts, lists and dates? (`TextIsExact`, `ElementIsExact`) | Texts and lists of up to three elements, offsets up to one past either end, two characters of which one is the regex for both; every weekday, two years of months; a null for every argument, literal and column needles |
| | Is what runs with the schema accepted without it, but for four operations? (`NeverDeclinesForItsTypes`) | Two pending values, all pairs of eight types and all kinds of literal. Types are a finite set, so deeper nestings repeat the pairs |
| `scan` | Does the engine get the answer, in order and once? (`DeliversTheAnswer`, `RefusalIsSurvived`, `PrefilterNeverWidened`) | Three rows, limits and search sizes up to 3, one failure besides the refusal: enough for a batch that crosses a limit, a filter that skips a row before it, and a failure before and after the first batch |
| | With the columns it asked for? (`FramesAreTheProjection`, `EveryColumnIsFound`) | Two stored columns, one stored that has a virtual name, two generated ones: every projection in every order, every set of columns in the predicate, so that each kind is asked for by one, the other, both or neither |
| | Do LazyFrames keep to the version they were made for? (`ShardsMakeUpOneVersion`, `PinnedCollectionsAgree`, `ShardsStayEven`) | Three versions, up to three fragments in a write, up to four shards asked for, three collections: enough for a tag or the latest version to move twice, for two shards and a repeat, and for every relation between shards and fragments |
| | Does a query of `sink_lance` that raises leave nothing behind? (`WholeResultsOnly`) | Two calls of any mode, two batches, two collections of a plan, one commit by another writer: a call can fail after half its batches and meet a commit before, during and after its write |
| `pool` | Is a threaded write all or nothing, and does its call end with its threads? (`PublishesAtomically`, `NoWriterOutlivesItsCall`, `EveryCallEnds`) | One call of up to three shards on one to three threads, two commits by others: a shard can fail before, while and after others wait, run and finish |
| `retry` | Does a run publish whole and once under retries, crashes and races, and end? (`WholeRunsOnce`, `NoDanglingFragment`, `StagingKeptUntilPublished`, `PublishesAtomically`, `EveryRunEnds`) | One run, two batches with two invocations each, two commits by others, one repeated commit, an unreliable store: a straggler can meet every phase of its client |
| `two_runs` | Are concurrent runs apart? | Two runs of one batch and two invocations each |
| `staging_names` | Is a run whole when its batches share names, its commit is repeated and files are reclaimed at any time? (`FirstPublicationIsWhole`, `CreatePublishesOnce`) | One run of two batches with two invocations each, names of their own or one for both, one repeated commit, one commit by another writer |
| `create_race` | Is the commit-time check of `create` authoritative? | Violated: two runs in create mode |
| `stale_append` | Does an append carry the field ids of the version it is added to? | Violated: one call of one shard, two commits by another writer |
| `flaky_probe` | Does an unreachable store only cost the error message? | Violated: one run in create mode, one commit by another writer, an unreliable store |
| `nested_keys` | Is every staged fragment committed? (`EveryStagedFragmentIsCommitted`) | Violated: one run of two batches, one with a slash in its name |
| `types` | Does the mode for an unknown schema never decline for a type? (`TypesNeverDecline`) | Violated: two pending values |
| `reclaim` | Are the data files that `commit()` advises to reclaim orphans? (`OnlyOrphansAreReclaimed`) | Violated: two runs of one batch, one invocation each, no crash needed |

Bounds: `MaxPending`, `MaxStack` and `MaxTypes` cap the stacks of the walks; `MaxInt` and
`MaxLength` the integers, texts and lists; `NumRows`, `MaxLimit`, `MaxFaults` the scan;
`MaxVersions`, `MaxFragments`, `MaxCollects` the dataset and the collections of the
sharded scan, and `Batches`, `MaxRuns` those of `sink_lance`; `MaxShards` the shards of
a threaded write; `Attempts` the invocations of a batch, `MaxForeign` the commits of other
writers, `Recommits` the repeated commits of the distributed write. Deadlock is not
checked: expressions, scans, calls and runs end.

`retry` assumes weak fairness of each invocation and each client, one at a time:
the cluster goes on with what it has started and starts an attempt for a batch not
yet through, and a client's calls return or raise. `pool` assumes the same
of the threads of a pool, one by one, and of the calling thread: threads that can run
do run, and a query or a write in one of them returns or raises.
Nothing is assumed of other writers, and no step is fair towards success: a crash, a
refused commit and a failed read satisfy it too.

### Disagreements between code and documentation

* `create_race`: `_sink.py:331-334` probes and then overwrites. Lance does not check
  an overwrite against other commits, so a dataset created between the two is
  replaced. The comment at `_remote.py:378` calls the commit-time check
  authoritative, and `_sink.py:316` says that create fails if the dataset exists.
* `flaky_probe`: `_refuse_existing` takes any failure to open the dataset for its
  absence. Its docstring says that this only costs a clearer message since the
  commit then fails too; when the store is back by then, the commit succeeds.

* `stale_append`: an append's data files are written with the field ids of the
  version that is current then, and `_sink.py:326` takes the version to commit against
  only at the commit. An overwrite in between installs another schema and is not
  noticed, since the conflict check starts from the version that is current at the
  commit. `_sink.py:284` says that append reuses the existing dataset's field ids,
  which is what adding to it needs. The distributed write commits the same way.

* `nested_keys`: `_remote.py:257` lists the staging prefix without recursion and skips
  what is no file. A `fragment_key` with a slash in it makes an object in a directory
  below, on stores where a name is only a name, and that object is never read: the run
  is published without the rows of its batch. `_remote.py:251` says "Every fragment the
  workers staged", and the key at `_remote.py:352` only has to be stable and distinct.

* `types`: `_predicate.py:285-288` says that with `types_known_later` a value of unknown
  type "never declines for that reason alone". It does in a null-safe comparison
  of two columns (`:435`), a when/then over a column and a literal (`:689`), `//` between
  columns that turn out to be floats (`:761`) and `%` of a Float32 and a literal (`:794`).
  `scan_lance` refuses such a prefilter though it could run.
* `reclaim`: `_remote.py:279-282` calls the data files that are "unreferenced by any
  manifest" those that a retried batch orphaned, and advises
  `cleanup_old_versions(delete_unverified=True)`, as `docs/POLARS_CLOUD.md:52` does. The
  files of a run that has yet to commit are unreferenced too. Reclaiming then, or after a
  commit that raised and before it is repeated, takes them, and the commit names them.

The models also show the following, against what `exact` says of a filter or a comment
says of a function. They have no runs of their own: the properties state each as an
exception and say what happens in it, with the case among the inputs.

* `ValueIsExact`, `Respelt`: `_cast` asks `_try_cast_exact` only of casts that
  are not strict, so a strict cast of a float to String is pushed and marked exact
  (`_predicate.py:711`), although `_predicate.py:1256` says that floats print large
  exponents differently.
* `TextIsExact`, `Raised`: `_slice` reads the offset
  back with `int(offset.sql)`; a typed null passes the check before it and raises
  `ValueError` (`_predicate.py:969`), which `lower_predicate` does not take for a decline.
* `ElementIsExact`, `NotFoundAlike`: `_predicate.py:634` says that Polars finds the
  zeros as each other and `array_has` does not; the code sees to it for a literal needle
  only. A null needle is pushed as `array_has(column, NULL)` (`_predicate.py:639`), whatever
  `nulls_equal` says, where Polars can find null elements.
* `FramesAreTheProjection`, `EveryColumnIsFound`, `StoredIsOverlooked`: `_scan.py:148` leaves
  out every name of `VIRTUAL_COLUMNS`, stored or not. If a stored column has such a name
  (`query_index`, say), a projection of nothing else gives frames without columns, and one
  with other columns raises when they are selected.
* The summary of an append counts the rows of the whole version (`_sink.py:145`), where
  `_sink.py:86` speaks of "what was written".

Not a disagreement with any document, and worth knowing: when `commit()` raises
after its commit landed, calling it again publishes the run twice (append), or,
after a cleanup that failed halfway, publishes part of it (overwrite).
`FirstPublicationIsWhole` is the part that holds.

## Proofs

TLAPS proves, for every value of the constants:

* **Walk** (`PredicateLoweringProofs`): `TypeCorrect`, `LoweringIsSound`,
  `TranslatableIsPushedExactly`, `ResultIsFaithful`, for any set of rows and any
  bound. The invariant `IInv` says of every pending subtree that it is well typed,
  soundly lowered and, if translatable, exact; there is one lemma per kind of node,
  and the result is tied to the last pending subtree. Soundness alone is not
  inductive under `Finish`: the invariant must relate `result` to `pending`.
* **Leaves** (`LoweringProofs`): `LeavesAreExact` and `SqlStaysValid`, for any range of
  magnitudes.
  A literal's comparison is first reduced to ranks (`LiteralComparison`), then each
  spelling is compared with Polars' rank by operator and by whether the operand is
  NaN; null operands are a case of their own (`MissingOperand`). That the SQL can be
  parsed follows: what equals a Polars value is a truth value.
* **Integer division** (`LoweringProofs`): `DivisionExact`, for integers of any
  width, signed and unsigned. Quotient and remainder of the magnitudes are unique
  (`Uniqueness`), so the floored pair follows from them by the signs (`FloorBySigns`), and
  the correction in the SQL makes up the difference (`RemainderIsExact`,
  `QuotientIsExact`); `QuotientSize` and `Magnitudes` bound what is computed on the way, so
  that no intermediate result fails to fit, but for the least integer by -1, which is
  declined.
* **Values** (`LoweringProofs`): `TypesAreKnown`, `NansAreKnown` and `ValuesAreExact`,
  for stacks of any height, so for expressions of any depth. None of the three is inductive.
  `Known` says of every waiting value that it fits its type, that what `dtype` and `nanFree`
  claim is so, that a literal's type is known and it is null just if it is of type Null, that
  only a text can have another value in its SQL, and that both sides are null together. The
  clause that was hard to find: a text that is known to hold no NaN is known to be a text.
  Without it a cast to a float could give a NaN that nobody looks for. That a value is
  `Respelt` is carried from operand to result, so that the exception of `ValuesAreExact` is
  one of values that met the cast and of no others.
* **Functions** (`LoweringProofs`): `TextsAreExact` and `ElementsAreExact`, for texts and
  lists of any length. Each function has a lemma: the window of a slice is the same counted
  from 0 or from 1 (`SliceIsExact`), a join by nothing is a concatenation, and the parts that
  are no nulls are all of them when none is (`ConcatIsExact`), positions from either end
  (`GetIsExact`), the two zeros (`ContainsIsExact`), remainders by 7 and by the months of a
  window (`DatesAreExact`). What `FlattenSeq` and `SubSeq` compute need not be known: both
  sides are the same use of them. No hypothesis is needed; the needles of `NotFoundAlike` have a
  lemma that SQL finds nothing there that Polars does not.
* **Types known later** (`LoweringProofs`): `NothingIsRefusedForItsTypes`, for expressions of
  any depth. That a value is not declined is not inductive; `Related` says that a value has,
  without the schema, the type it has with it, or none, or is a Float64 where it would be a
  Float32, and that literals are the same both ways. A when/then of two nulls is a value of
  type Null of any kind, so types can be unknown with the schema too, and then they are
  unknown both ways. A value that was made `blind` may be related in no way, and makes
  blind what is made of it.
* **Scan, rows** (`LanceScanProofs`): `TypeCorrect`, `RefusalsAreSurvived`,
  `PrefiltersAreNeverWidened` and `ImplementsRowSource`, for any rows, limits and failures.
  The invariant `PlanFits` says of the plan that it may fall back just if it has a filter that is no
  prefilter, that it has a prefilter just if the query has one, and of the query that an
  exact lowering is the prefilter; `ExceptionFits` is the case that matters, an exception
  out of Lance on any pull. `ScanFits` relates what has been handed on to the stream:
  `emitted` is what the filter and the limit left to Polars make of the first `pos` rows of
  what Lance was asked for, `remaining` is what the limit allows beyond it, and what Lance was
  asked for serves the query (`PlanServes`). Each batch moves `pos`; a scan that starts over
  has handed nothing on. The lemmas on selecting and cutting sequences are proved by a least
  counterexample, over a set of lengths (`Least`, `Induction` in `SelectionProofs`).
* **Scan, columns** (`LanceScanProofs`): `FramesAreProjected` and `ColumnsAreFound`, for any
  stored and generated columns. The invariant says for each status which columns the frame
  has: those asked for, then the generated ones; after the selection the widened projection,
  which is the projection and what the predicate adds to it.
* **Sharded scan** (`ShardedScanProofs`): `MakeUpOneVersion`, `PinnedAgree` and `StayEven`,
  for any number of versions, fragments, shards and collections. That `ids[s::n]` deals
  every position to one shard and once is arithmetic on remainders. The invariant says of the
  history that ids and data within a version are distinct and data is no younger than its
  version (`HistoryFits`); of a frame that it carries ids of the version the call was made
  for (`FramesFit`, `ShardsFit`); and of a result that it is what the frame's version says
  (`ResultsFit`). It needs the tag only to name a version there is (`TagFits`).
* **Streamed write** (`LanceSinkProofs`): `WholeResults`, for any calls, batches and
  collections. The keys of a call's rows are those of its batches, so that a merge that is repeated replaces all it wrote before (`KeysFit`); a call that
  writes has started a run, and one that counts has a version (`PhaseFits`).
* **Distributed write** (`StagedSinkProofs`), for any runs, batches and attempts, any
  number of commits by others and of repeated commits:
  * `TypeCorrect` and `DanglingNever`. `NoDanglingFragment` is strengthened by
    `WrittenFirst`: wherever a fragment can be named (an invocation past its first step, a
    staging object, the client's list) its data files are on storage already.
  * `WholeOrAbsent`, `StagingOutlivesFailure` and `CreateOnce`, from one invariant, `RunInv`,
    of a run from its workers to its versions: a query that is through has an object for
    every batch; a list that is read has one of each; nothing is cleaned up before a version
    is published; and a run that is committing for the first time has published nothing.
    `CreateOnce` has the hypothesis `FlakyStore = FALSE`: `flaky_probe` shows what happens
    otherwise.
  * `ImplementsAtomicPublish`: the commit of a run maps to `Publish` of one copy of every
    batch, or of what a repeated commit finds; every other step to a stutter or to
    `OtherPublishes`.
  * For `KeyedSink`: `FirstIsWhole` with any naming of the batches in which no name holds a
    slash (`Nested = {}`; `nested_keys` shows the other case), and `KeyedCreateOnce`, both
    beside reclaiming at any time.
* **Threaded write** (`ThreadedSinkProofs`): `TypeCorrect`, `NoThreadLeftBehind` and
  `ImplementsAtomicPublish`, for any calls at a time, any shards, any number of
  threads and commits by others. The invariant adds `CommitsOnce`: a call about to
  commit has all shards written and, if it appends, a dataset; a call that has not
  ended has no version yet. From it every `Commit` maps to `Publish` (with each shard's
  only attempt as its copy) or to a stutter, `OtherCommits` to `OtherPublishes`, and
  every other step to a stutter.

The assumptions are the `ASSUME`s of the modules: markers such as `NoSql`, `Null`
and `Truncated` differ from the values they stand beside, bounds are natural
numbers. TLC evaluates them in the runs. Two kinds of theorem have a hypothesis besides:
`CreateOnce` and `KeyedCreateOnce` that the store answers (`FlakyStore = FALSE`), and
`FirstIsWhole` that no name holds a slash (`Nested = {}`). The runs `flaky_probe` and
`nested_keys` show what happens otherwise.

Model-checked only:

* `EveryCallEnds` and `EveryRunEnds`: liveness under fairness is beyond the prover.
* The six violations, which are single behaviours.

## Not modelled, and why

* Rendering of SQL text, names, literals; serialization of expressions; logging and
  warnings. SQL is kept as its meaning.
* Widths and rounding of floats, LIKE patterns, durations and time zones, string
  functions with no argument to get wrong (lengths, case, trimming).
* The casts of batches to the planned schema, and its field types.
* Lance and Polars Cloud themselves: external, modelled from how the code uses them.
* Filesystem resolution and credentials of the staging prefix; reader options, which
  are handed to Lance as they are; version pins of the cloud environment.
* Benchmarks, scripts, documentation tooling.

## Plan

1. *Proofs*: every property of the runs that is no liveness property has a theorem; a new
   property gets one with it.
2. *Table, the rest*: schemas and field ids in the distributed write too.
3. *Scan, the rest*: the casts of batches to the planned schema.
