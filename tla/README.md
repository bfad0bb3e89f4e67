# Bloom filter predicate transfer: a TLA+ model

This directory specifies the code that this repository adds to DataFusion: an
optimizer rule that wraps inner hash joins with Bloom filters, the run-time
protocol between the two sides of a wrapped join, the machine-learned policy
that decides which filters are worth their memory, and the operators of
DataFusion that a wrapped join runs in: the hash join itself with its dynamic
filter, and the repartitioning that feeds its two sides.
The specifications are model-checked with TLC on small instances; the
properties that matter most are proved with TLAPS for every instance.

Abbreviations: *bft* is `bloom_filter_transfer.rs` and *bf_model.rs* its
neighbour, both in `src/datafusion/datafusion/physical-optimizer/src/`.

## The system

| Part | State | Operations | Hard behaviour |
|---|---|---|---|
| Run-time transfer (bft 171-492) | one tokio broadcast channel of capacity 1 per wrapped key; per build partition the values read; per probe partition a receiver | execute, read a batch, build and send, receive or fail to, filter a batch, write metrics | all partitions share the channel: payloads are overwritten, receivers subscribe late, senders outlive their use |
| Hash join (`physical-plan/src/joins/hash_join`) | shared build side with its bitmap of visited rows, accumulator and barrier of the dynamic filter, a stream per partition | collect, report, fetch and join a probe batch, return what is left | streams share the build side and finish in any order; the filter changes under the scans; batches are joined in pieces |
| Distributor channels (`repartition/distributor_channels.rs`) | a queue per output, a counter of empty channels, a gate with wakers | poll of a send or a receive, clone, drop | the counter and the gate are changed in two steps; everybody may wait for everybody |
| Spill pool (`spill/spill_pool.rs`) | a queue of files, the current one, clones of the writer | push, rotate, drop, read | files are written outside the pool's lock while they are read |
| Repartitioning (`repartition/mod.rs`) | a task per input, a stream per output, a reservation per output | split, reserve or spill, send, receive, hang up | a spilled batch and its marker travel apart; outputs are dropped or never read |
| Drivers (`execution_plan.rs`, `coalesce_partitions.rs`, `sort_preserving_merge.rs`) | which partitions are executed, who holds the plan | execute, spawn, drop | the order of `execute` calls and of polls |
| Plan rewriting (bft 147-167, 496-673, 744-934) | plan, candidates, selected pairs | collect, select, insert | two passes must agree; columns are found by substring |
| Knapsack (bft 675-710, `ml/knapsack.py`) | dynamic-programming row, choice matrix | fill, trace back | index arithmetic, rounding to KB |
| Model cache (bf_model.rs 51-66) | one `OnceLock` | load once, get | threads meet; the file changes |
| Model (`ml/bf_model.py` 78-113, bf_model.rs 70-96) | exported trees | export, walk, add up | two languages must agree |
| CSV logs (bft 113-124, 712-742) | two files | check, open, write, fail to | several writers, kills between writes, write errors that panic or are discarded |

The rule (plan rewriting) asks the model cache for a model, scores candidates
with the model, selects with the knapsack and wraps the joins.  The wrapped
joins run the transfer protocol and log metrics; the metrics train the model.
In `Partitioned` mode both sides of the join are outputs of a `RepartitionExec`,
whose channels and spill pools lie below the build and the probe streams.

## Modules

| Module | Models |
|---|---|
| `InnerJoin` | abstract: what an inner hash join promises its consumer, filters or not |
| `BloomTransfer` | one wrapped join at run time; implements `InnerJoin` |
| `PlanRewrite` | `MultiHopBloomFilterRule::optimize` and the functions it calls |
| `Knapsack` | `knapsack_select`, loop iteration by loop iteration; `select_filters_exact` is the same algorithm |
| `GreedySelect` | `select_filters_greedy` |
| `ModelCache` | `load_model_once` and the script that rewrites the file |
| `GbtModel` | `_tree_to_nodes`, `walk_tree`, `predict_proba` |
| `CsvLog` | `write_metrics` and `write_predictions_csv` |
| `HashJoin` | the streams of a `HashJoinExec` of any type, and `SharedBuildAccumulator` |
| `DistributorChannels` | senders, receivers and the gate, at the grain of their locks and atomics |
| `SpillPool` | writers and reader of a pool; used by `Repartition` |
| `Repartition` | `RepartitionExec`: tasks, channels, spill pools and output streams together |
| `BudgetPolicies` | both policies on the same candidates, and the reference for the exact one |
| `MC...` | instances for TLC and reference definitions |
| `...Proofs` | theorems about the module of that name |

Operators whose comment speaks of a *mutant* come in groups: the last is the
code, those before it are plausible mistakes that a property must notice.

### BloomTransfer

A row is its join key and a batch is any non-empty set of the rows left, so
every batching and every order of rows is covered.  `bpc[b]` follows a build
stream: *unstarted*, *reading* (bft 250-271), *sent* (bft 294) and *collected*,
when `collect_left_input` has drained it.  `pc[p]` follows a join partition:
*idle*, *wait_build* from `execute` (which subscribes, bft 384) until the
shared build future resolves, *recv*, then *filter* with a payload or *pass*
after an error of `recv`, and *done* or *dropped*.

The channel is the sequence of everything sent and one read position per
receiver: more unread payloads than the capacity is tokio's `Lagged`, none and
no sender `Closed`.  The rule treats both as "pass everything".  A send without
receivers stores nothing.  A Bloom filter is any set of strings that contains
the inserted ones, so false positives are chosen freely.  `supported` says
whether the key type is one of the three that both sides downcast to.

`driver` says who executes the partitions.  *eager*: all are executed before
one is polled (`execute_stream_partitioned`).  *merge*: one after the other,
each polled at once, and the plan may be dropped afterwards
(`SortPreservingMergeExec`).  *tasks*: spawned tasks that execute when they are
scheduled and hold the plan until they end (`CoalescePartitionsExec`).
`buildOf` gives the partition mode: a build partition for each probe partition
(`Partitioned`) or one for all (`CollectLeft`).

The three are fixed in the initial state, chosen from the constant `Plans`.

Left out: the barrier that dynamic filters put between build and probe. It only
delays the first poll of a probe stream, so the safety properties cover it; its
own liveness is in `HashJoin`.  Several keys stack several filters on a join, and
wrapped joins nest; the module has one of each.  After an error the consumers
modelled stop polling, as DataFusion's do.  A panic of `write_metrics` at the end of a
probe stream counts as an error of that stream (`ProbeError`).

### HashJoin

`state[p]` is the `HashJoinStreamState` of a partition, with a value of its own for
the leader of the barrier that has not set the filter yet (*leader*) and for the
stream that has counted itself down last (*last*).  A build row is an index and a
key, a probe row a number and a key; a hash table is the function `Hash`, which may
collide, and the chains of a bucket, which a lookup follows for `batch_size` pairs.
The steps are cut where streams share something: the build future, the report and
the barrier (`report_build_data`, `update`), the bitmap and the flags of a null-aware
join (one step per lookup), the counter of running probes
(`report_probe_completed`).  A scan that holds the dynamic filter may leave out any
set of rows that the filter, as it is when the batch is fetched, rejects: a scan
that read ahead, or only prunes by statistics, leaves out fewer.

The reference is `Expected`, the join of the inputs by definition.

### DistributorChannels

A poll is as many steps as it has accesses to `empty_channels` and sections under
the lock of `send_wakers`; the channel's own lock is held from the first to the
last, and `lock` says by whom.  `pc` and `rpc` follow a handle and a receiver.  A
queue is its length and `n_senders` the set of handles it counts.  Every handle may
be dropped between two polls, also while its send waits.

### SpillPool and Repartition

`SpillPool` cuts `push_batch` at the pool's lock: take or miss the current file,
create one, append, put it back; a failing creation, write or finish ends the push
where it is.  The reader follows `file[front]`, `file[front + 1]`, ...; `waiting` is
its registration for a wake-up.  `Repartition` extends it with the task of each
input (`tpc`: *route*, *push*, *send_memory*, *send_spilled*, *remove*, *drop*,
*notify*) and the `PerPartitionStream` of each link.  With `preserve_order` a link is
a pair of an input and an output, otherwise an output.  Whether a reservation can
grow is left open, so that every mix of memory and spilling occurs.  The channels
appear with what `DistributorChannels` shows of them: a queue that may take a
message at any time and must when some channel of the gate is empty and open.

### The other modules

`PlanRewrite` takes a plan as the sequence of its hash joins in the order of the
traversal.  A key expression is the set of field names that occur in its printed
form, which is all that the substring search can see, and the column it really
denotes.  Which fitting set the knapsack returns is left open.

`Knapsack` keeps `dp`, `chosen` and both loop variables.  Its history variables
(the finished rows, an arbitrary competing choice built alongside, and totals)
are read by no guard.  Probabilities are naturals; the code adds `f64`.

`ModelCache` separates the entry into `get_or_init`, the read, the parse and
the store.  The trainer truncates the file before it writes it.

`GbtModel` starts from scikit-learn's arrays, exports them and walks the result.
Integers stand for `f64`; the final sigmoid is monotone and left out.  scikit-learn
casts its inputs to `float32` before it compares them with a threshold and Rust does
not: `ScoreIsClassifiers` is about inputs that the cast leaves on their side.

`CsvLog` has a step for the emptiness check, the open, the header and each write
call.  A metrics row is one write of a finished string; a prediction row is
formatted straight into an unbuffered file, which is several.  A kill and a
restart may come between any two steps.  Every write may fail, as on a full disk,
and leave nothing or its beginning in the file (`Fails`; `whole` tells the two kinds
of entry apart).  The two functions differ in what they do then: `write_metrics`
unwraps and panics (bft 119, 121, 123), which ends its stream; `write_predictions_csv`
discards the error (bft 728, 736), goes on with its rows after a header that failed,
and after a row that failed with the next one, since the formatter gives up the rest
of the row at the first error.  `lost` records the failed writes for the properties.

## What the runs check

Runs that pass:

| Run | Instance | Shows |
|---|---|---|
| `bloom` | 2 partitions with build sides of their own (tasks) or a shared one (eager; merge, also with an unsupported key type); errors, drops, nulls, empty sides | `FilterIsOwn`, `NoLostRows`, `RecvReady`, `JoinRefines`, `Termination`: a payload that was overwritten is noticed, another partition's is never used, late receivers are released by dropping the plan, the join is the unfiltered one and ends |
| `plan_rewrite` | up to 2 joins of 7 kinds, 3 names | the passes agree (`SelectedInserted`), the fallback is complete (`FallbackComplete`); exact selection when the pairs of names are distinct (`DistinctPairsExact`) |
| `budget_policies` | 3 candidates around the KB boundaries | exact: `Feasible`, optimal (`RivalNeverWins`, `MatchesReference`), `OvershootBounded`; greedy: `GreedyWithinBudget`, `LosesToBetter`; `ExactBeatsGreedy` |
| `model_cache` | 2 threads, 2 paths, 2 models, 2 file changes | `AnswersAgree`, `LoadedOnce`, `CallReturns` |
| `gbt_model` | up to 2 trees with up to 2 levels | `IndexInTree`, `ScoreIsClassifiers`, `Returns`: Rust's score is scikit-learn's |
| `csv_log` | both logs, 2 writers, 2 prediction rows in 2 pieces, 2 processes, a failing write | `HeaderFirst`: the metrics file never starts with a row, the predictions file only after a discarded header error; `HeadersOfOneRun`: headers repeat only within the process that wrote first, one per writer; `DoneMeansWritten`: a failing write costs its own row and no other |
| `hash_join` | 2 partitions, ten join types, both modes, up to 3 build rows with a duplicate and a null key, colliding hashes, lookups of 1 or 2, fetch none, 1 or 2, with and without join filter and dynamic filter, errors and drops | `ResultExact`: the result is the join's, no row twice; `FilterAdmitsMatches`; `UnmatchedIsFinal`; `Termination` unless a partner failed before the barrier |
| `dist_channels` | 2 channels, 3 handles (one a clone), 2 elements each, drops at any time | `CounterCovers`, `GateFollowsCounter`, `SenderNotStranded`, `NeverBothWait`, `ReceiverNotStranded`, `SendReturns`: the gate follows the counter and nobody is forgotten |
| `repartition` | 2 inputs, 2 outputs, with and without order, files that one piece fills and files that take several, one input that may fail, one output that may be dropped | `ReservationBalanced`, `MarkerHasBatch`, `NothingLost`, `OrderKept`, `OutputsEnd` |

Runs that show a disagreement between the code and what a comment, a doc or an
example says of it (PROJECT.json quotes the lines):

| Run | Shows |
|---|---|
| `bloom_late` | CollectLeft below CoalescePartitionsExec: a partition executed after the only send waits for ever, since the plan keeps the channel open |
| `bloom_nulleq` | joins with `NullEqualsNull` lose their null matches |
| `plan_columns` | a key `ab` is filtered on an earlier column `a` |

Smaller limits of the code met while modelling, which the passing properties
step around by an explicit premise or a weaker claim: equally named pairs of
columns are selected together (`DistinctPairsExact` has the premise); KB rounding
lets the selection exceed the budget in bytes (`OvershootBounded` says by how
much) and makes filters below one KB look larger than they are
(`ExactBeatsGreedy` excludes them); `load_model_once` ignores its path after the
first call; prediction rows of two queries may mix (no property claims otherwise);
headers may repeat (`HeadersOfOneRun` says how far); a prediction row or header whose
write failed is missing without a trace (`DoneMeansWritten` and `HeaderFirst` say
what that can cost); `BF_PROB_FLOOR` is read and printed but never applied.

In the hash join: `allow_join_dynamic_filter_pushdown` asks neither whether the join
is null-aware nor whether its nulls are equal.  Where a scan applies the filter, a
`NOT IN` no longer sees the null, or the rows that do not match, of the other side
(`null_aware_anti_join.slt:66` expects no rows for a null in the subquery), and a
`NullEqualsNull` join loses its null matches.  `MCHashJoin` excludes both by the
premise `SafePush`; without it TLC finds `ResultExact` violated.  A partition that
fails or is dropped before it reports its build side keeps the others at the
barrier (`Stuck`).  When the build side is empty the stream ignores that the fetch
limit is reached and reads on; the result is the same.

In the repartitioning: between a last sender's subtraction and its lock a receiver
may be dropped, and then neither subtracts the channel; the counter stays too high,
which only lets senders pass.  The second look at the counter in `RecvFuture::poll`
never fails, since the channel's lock is held.  Clones of a spill writer that push
at the same time would leave a file that is neither current nor finished; the lock
of the reservation, held through `push_batch`, is what prevents it.  A push that
fails leaves such a file all the same, and the stream of a shared pool then waits
behind it instead of reading the error from its channel (`Orphan`; the properties
exempt it).  Without `preserve_order` the pieces of one input may be returned out of
order when some are spilled, although the diagram of `StreamState` says "(Order
preserved within (input, output) pair)".

### Bounds

Two partitions are the least at which one partition's payload can overwrite
another's; with a shared build side, one is executed before the send and one after
it.  The theorems hold for any number.  Two keys are enough for a match, a non-match
and a false positive; null is a third kind of row.  Two joins are enough for a name
to repeat.  Three candidates let a greedy or a reused choice differ from the best
one; weights lie on both sides of 1024 bytes.  Two threads are enough for one to
wait for the other.  Two processes are enough for a kill and what it leaves behind,
and two rows for one that fails and one that must not suffer.  `MaxFailures` is 1 in
`csv_log`; with 2 the properties hold as well (24 million states).  The two writers
are symmetric.

In `HashJoin`, two streams are the least that meet at the barrier and at the
counter.  Three build rows in one bucket with lookups of one or two pairs cut a
probe row's matches, cut between two rows and end exactly at the end; a batch of
three probe rows has a first, a middle and a last one.  Two channels are enough for
one to be full while the other is empty, and two elements for a push on a queue
that is not empty.  Two inputs meet in one output, one input feeds two outputs, and
one sends twice to one output, with files of one piece and of two.

`MaxChanges`, `MaxRuns`, `MaxFailures` and `MaxSends` are the only bounds on counters.

### Fairness

`BloomTransfer` assumes that a task that can go on is polled again: tokio does
that for spawned tasks, and the consumer does it for the streams it reads.  It
assumes nothing of errors and dropped streams.  Below a merge the caller also drops
the plan, as `DataFrame::collect` does, which owns it.  `ModelCache` assumes that
threads are scheduled, `GbtModel` that its one thread is.

`HashJoin` assumes that a stream that can go on is polled, and the build future with
it.  `DistributorChannels` assumes that a poll is finished, that a task that was woken
is polled again, and that the consumer of each output reads on until its end or drops
it; nobody has to send, clone or drop.  `Repartition` assumes only that while a task
can run or the stream of a started output can be polled, one of them does; a send
counts as able to run when the gate has to be open or its receiver is gone, which is
what `SendReturns` gives.  No output has to be started.

## What is proved

`BloomTransferProofs`, for any partitions, keys, inputs and drivers:
`TypeCorrect`, `OwnFilter`, `NoRowLost` and `Refinement` (both for joins whose
nulls are not equal) and `RecvNeverWaits` (about partitioned joins, and those whose
partitions are all executed first).  The assumptions on the constants are the shape
of the two partition modes and the types of the inputs.  `FilterIsOwn` is not
inductive: that the one unread payload is the partition's own needs
`OwnUnread`.  Once its own build partition has sent, a receiver has something
unread, and if it is a single payload it is that one; any later send makes two,
which a channel of capacity 1 reports as `Lagged`.  This in turn needs that a
build stream is started only by its own partition's `execute`, after which that
partition is subscribed (`StartedByOwn`).  With a capacity of 2 the theorem is
false, as a mutant shows.  `Refinement` maps the build side of a partition to
that of the abstract join; everything before the probe is a stutter.

`KnapsackProofs`, for any number of candidates and any weights, values and
budget: `IndicesInRange`, `SelectionFits`, `SelectionOptimal`, `OvershootSmall`.
The invariant relates the half-filled row to the finished rows before it, the
choice matrix to the cells that improved, the competing choice to the row it
must not beat, and the traceback's position to the value still to be collected.
Optimality is stated with a competing choice that is built step by step, since a
sum over an arbitrary set would need induction; TLC compares with the real
maximum over all subsets (`MatchesReference` in `BudgetPolicies`).

`ModelCacheProofs` (`OneModel`, `SetOnce`): whoever runs the closure owns the
lock and the cell is unset; whoever has returned holds what the cell holds.
`GbtModelProofs` (`WalkInBounds`): children of an exported inner node are those
of the fitted one, given that scikit-learn's trees are well formed.
`CsvLogProofs` (`HeaderAlwaysFirst`, `HeadersRepeatInOneRun`), for any writers,
kills and failing writes: a writer that writes no header saw a file that is not
empty, or discarded an error (`HeaderlessSawRows`), and no file becomes empty again;
a writer on its way to the header saw an empty file in this process
(`HeaderSawNothing`) and has no header in the file yet (`NotYetWritten`).

`DistributorChannelsProofs`, for any channels, handles and numbers of elements:
`CounterNeverWraps`, `GateIsRight`, `SendersAreReleased`, `NoMutualWait`,
`ReceiversAreReleased`.  The invariant says who holds a channel's lock in which state,
that the counter is at least the number of empty and open channels (an inequality,
because of the drop described above), that a gate at odds with the counter has a poll
under way that will correct it, and that a receiver or a sender waits only where a
registered waker is left.  The counting rests on lemmas about the cardinality of a set
that gains or loses one channel.

`HashJoinProofs`, for any partitions, joins, inputs and hashes: `UnmatchedAtTheEnd`
and `FilterIsComplete` (for joins whose nulls are not equal).  `UnmatchedIsFinal`
needs that the counter holds every stream that is not past its probe side, so that
the set is empty only when all are; `FilterAdmitsMatches` needs that every stream has
reported before the filter is set, and that build rows lie where their keys are
routed, since the filter asks one partition about each key.  Lemma `Steps` reduces the actions to the few that touch these variables.

Only model-checked: everything about liveness and fairness, the comparison of
`Knapsack` and `GbtModel` with their recursive reference definitions, and the
properties of `PlanRewrite`, `GreedySelect` and `Repartition`; for `HashJoin`, that
the result is exact; for `CsvLog`, `DoneMeansWritten`.

## Not modelled

Feature extraction and the policy evaluation are floating-point arithmetic
without interacting state.  The scripts that patch `ml/WRITEUP.md` are run by hand,
one at a time, and nothing of the engine reads what they write.  The hash functions
of the Bloom filter are replaced by arbitrary false positives.  Timing columns of the
metrics are left out.

Of the hash join: the perfect-hash `ArrayMap`, the memory reservation of the build
side, min/max bounds (they admit a superset of the members), and planning.  Of the
repartitioning: round robin (the same tasks with another choice of the output), the
coalescing of small batches, the merge above the streams of an output, read errors of
spill files, and the abort of the tasks once plan and streams are all gone, after
which there is nobody left to observe them.  The rest of DataFusion (parser, logical
optimizer, file formats, expressions, other operators) does not interact with the
filters and is far larger than a model of it could be.

## Plan

1. Several filters on one join, and a wrapped join below another one, with the
   order in which stacked probe streams receive.
2. `OnceAsync` and `OnceFut` as a module of their own, with dropped pollers.
3. `Repartition` below `BloomTransfer`: a probe stream that waits in `recv` holds
   back its channel, and the gate lets the tasks fill the others only while one is
   empty.
4. Proofs for `PlanRewrite` (the passes agree).
