-------------------------------- MODULE HashJoin --------------------------------
(* HashJoinExec (joins/hash_join): a stream per partition collects a build side,  *)
(* reports its keys to the accumulator of the dynamic filter, and joins the       *)
(* batches of its probe side.  In CollectLeft mode all streams share one build    *)
(* side, with its bitmap of visited rows; the last one to finish returns the rows *)
(* that only the whole probe side decides.                                        *)
(*                                                                                *)
(* A build row is its index and key, a probe row its number and key.  The join    *)
(* filter is the set of the pairs it rejects.  A poll runs to its end except      *)
(* where streams share something: the build side, the barrier, the bitmap, the    *)
(* counter of running probes, and the dynamic filter that the scans read.         *)
EXTENDS Integers, FiniteSetsExt, SequencesExt, Bags

CONSTANTS Parts,         \* partitions, numbered from 0
          Keys, Null,
          Hash,          \* the hash of a key in the hash table
          JoinChoices,   \* the joins: type, mode, null handling, push-down, batch size, fetch
          LeftChoices(_),    \* the keys of the build rows, for each build side, in a mode
          ProbeChoices(_),   \* the batches of each partition, in a mode
          Route,         \* where hash repartitioning sends a key, in Partitioned mode
          RejectChoices, \* pairs that the join filter rejects
          MayFail        \* whether a stream may fail or be dropped

NoRow == <<>>
NoLimit == -1
Values == Keys \cup {Null}

ASSUME JoinAssumption ==
  /\ 0 \in Parts /\ Null \notin Keys /\ MayFail \in BOOLEAN
  /\ Hash \in [Values -> Nat] /\ Route \in [Values -> Parts]

\* Rows have keys; in Partitioned mode a build row lies where its key is routed, in
\* CollectLeft mode all are in the one build side.
ASSUME DataAssumption == \A mode \in {"CollectLeft", "Partitioned"} :
  /\ \A l \in LeftChoices(mode) :
       /\ l \in [Parts -> Seq(Values)]
       /\ mode = "Partitioned" => \A b \in Parts : \A i \in DOMAIN l[b] : Route[l[b][i]] = b
  /\ ProbeChoices(mode) \subseteq [Parts -> Seq(Seq([key : Values, id : Nat]))]
ASSUME ModeAssumption == \A j \in JoinChoices : j.mode \in {"CollectLeft", "Partitioned"}

VARIABLES join,              \* the operator that is executed
          left, probe,       \* its inputs
          rejects,           \* its join filter
          build,             \* left_fut: pending, ready or failed
          state,             \* HashJoinStreamState, "leader" between barrier and update
          taken,             \* the batches fetched from the probe side
          batch, offset, joined_probe_idx,   \* ProcessProbeBatchState
          partitions,        \* AccumulatedBuildData: the build sides reported
          arrived,           \* who has reached the barrier
          filter,            \* what the dynamic filter lets through
          visited,           \* visited_indices_bitmap
          running,           \* probe_threads_counter, as the set of those it counts
          probe_side_non_empty, probe_side_has_null,
          emitted,           \* the build sides whose remaining rows were returned
          total_rows,        \* of each stream's LimitedBatchCoalescer
          output             \* what all streams have returned

input == <<join, left, probe, rejects>>
cursor == <<batch, offset, joined_probe_idx>>
accumulator == <<partitions, arrived, filter>>
shared == <<visited, running, probe_side_non_empty, probe_side_has_null, emitted>>
vars == <<join, left, probe, rejects, build, state, taken, batch, offset, joined_probe_idx,
          partitions, arrived, filter, visited, running, probe_side_non_empty,
          probe_side_has_null, emitted, total_rows, output>>

Build(p) == IF join.mode = "CollectLeft" THEN 0 ELSE p
Builds == {Build(p) : p \in Parts}
Probes(b) == {p \in Parts : Build(p) = b}
RowsOf(p) == UNION {ToSet(probe[p][n]) : n \in DOMAIN probe[p]}

--------------------------------------------------------------------------------
(* JoinType. *)

need_produce_result_in_final ==
  join.type \in {"Left", "LeftAnti", "LeftSemi", "LeftMark", "Full"}

\* The second half of on_lr_is_preserved, all that allow_join_dynamic_filter_pushdown asks
\* of the join.
allow_join_dynamic_filter_pushdown(j) ==
  j.type \in {"Inner", "Left", "LeftSemi", "RightSemi", "LeftAnti", "LeftMark"}

\* equal_rows_arr, and then the join filter.
equal_rows(k, l) == k = l /\ (k # Null \/ join.nulls_equal)
Joined(b, i, row) == equal_rows(left[b][i], row.key) /\ <<i, row.id>> \notin rejects

Out(l, r, mark) == [left |-> l, right |-> r, mark |-> mark]

--------------------------------------------------------------------------------
Init ==
  /\ join \in JoinChoices /\ (join.pushed => allow_join_dynamic_filter_pushdown(join))
  /\ left \in LeftChoices(join.mode)
  /\ probe \in ProbeChoices(join.mode)
  /\ rejects \in RejectChoices
  /\ build = [b \in Parts |-> "pending"]
  /\ state = [p \in Parts |-> "WaitBuildSide"]
  /\ taken = [p \in Parts |-> 0]
  /\ batch = [p \in Parts |-> <<>>] /\ offset = [p \in Parts |-> 0]
  /\ joined_probe_idx = [p \in Parts |-> 0]
  /\ partitions = {} /\ arrived = {} /\ filter = Values
  /\ visited = [b \in Parts |-> {}] /\ running = [b \in Parts |-> Probes(b)]
  /\ probe_side_non_empty = [b \in Parts |-> FALSE]
  /\ probe_side_has_null = [b \in Parts |-> FALSE]
  /\ emitted = {} /\ total_rows = [p \in Parts |-> 0] /\ output = EmptyBag

--------------------------------------------------------------------------------
(* The build side. *)

\* collect_left_input, run once for all the streams that share its future.
CollectLeft(b) ==
  /\ b \in Builds /\ build[b] = "pending" /\ \E p \in Probes(b) : state[p] = "WaitBuildSide"
  /\ \E r \in {"ready", "failed"} : (r = "failed" => MayFail) /\ build' = [build EXCEPT ![b] = r]
  /\ UNCHANGED <<input, state, taken, cursor, accumulator, shared, total_rows, output>>

\* collect_build_side, and the error of the shared future.
collect_build_side(p) ==
  /\ state[p] = "WaitBuildSide" /\ build[Build(p)] # "pending"
  /\ state' = [state EXCEPT ![p] = IF build[Build(p)] = "failed" THEN "failed"
                                   ELSE IF join.pushed THEN "WaitPartitionBoundsReport"
                                   ELSE "FetchProbeBatch"]
  /\ UNCHANGED <<input, build, taken, cursor, accumulator, shared, total_rows, output>>

\* report_build_data up to the barrier: the last to arrive is its leader (mutant: the
\* first one is).
ReportFirst(p) ==
  /\ state[p] = "WaitPartitionBoundsReport" /\ p \notin arrived
  /\ partitions' = partitions \cup {Build(p)}
  /\ arrived' = arrived \cup {p}
  /\ state' = IF arrived = {} THEN [state EXCEPT ![p] = "leader"] ELSE state
  /\ UNCHANGED <<input, build, taken, cursor, filter, shared, total_rows, output>>
report_build_data(p) ==
  /\ state[p] = "WaitPartitionBoundsReport" /\ p \notin arrived
  /\ partitions' = partitions \cup {Build(p)}
  /\ arrived' = arrived \cup {p}
  /\ state' = IF arrived' = Parts THEN [state EXCEPT ![p] = "leader"] ELSE state
  /\ UNCHANGED <<input, build, taken, cursor, filter, shared, total_rows, output>>

\* The membership predicate of a build side: null is no member.
Members(b) == ToSet(left[b]) \ {Null}

\* The filter of all the data reported: nothing is pushed for an empty CollectLeft
\* build side, and a single non-empty partition needs no routing.
FilterExpr ==
  LET full == {b \in partitions : left[b] # <<>>} IN
  IF join.mode = "CollectLeft" THEN (IF full = {} THEN filter ELSE Members(0))
  ELSE IF Cardinality(full) = 1 THEN UNION {Members(b) : b \in full}
  ELSE {k \in Keys : Route[k] \in full /\ k \in Members(Route[k])}

\* The rest of report_build_data: the leader updates the filter.
update(p) ==
  /\ state[p] = "leader"
  /\ filter' = FilterExpr
  /\ state' = [state EXCEPT ![p] = "FetchProbeBatch"]
  /\ UNCHANGED <<input, build, taken, cursor, partitions, arrived, shared, total_rows, output>>

\* The barrier lets the others go when the last one arrives, before the update.
wait_for_partition_bounds_report(p) ==
  /\ state[p] = "WaitPartitionBoundsReport" /\ p \in arrived /\ arrived = Parts
  /\ state' = [state EXCEPT ![p] = "FetchProbeBatch"]
  /\ UNCHANGED <<input, build, taken, cursor, accumulator, shared, total_rows, output>>

--------------------------------------------------------------------------------
(* The probe side. *)

\* The state after the last batch (mutant: the stream goes on fetching).
StillFetching == "FetchProbeBatch"
ProbeSideEnded == "ExhaustedProbeSide"

\* fetch_probe_batch.  A scan that the filter was pushed into leaves out rows that it
\* rejects; one that read ahead, or that only prunes, leaves out fewer.
fetch_probe_batch(p) ==
  /\ state[p] = "FetchProbeBatch"
  /\ IF taken[p] = Len(probe[p])
     THEN /\ state' = [state EXCEPT ![p] = ProbeSideEnded]
          /\ UNCHANGED <<taken, cursor>>
     ELSE LET rows == probe[p][taken[p] + 1] IN
          \E pruned \in SUBSET {r \in ToSet(rows) : r.key \notin filter} :
            /\ batch' = [batch EXCEPT ![p] = SelectSeq(rows, LAMBDA r : r \notin pruned)]
            /\ offset' = [offset EXCEPT ![p] = 0]
            /\ joined_probe_idx' = [joined_probe_idx EXCEPT ![p] = 0]
            /\ taken' = [taken EXCEPT ![p] = @ + 1]
            /\ state' = [state EXCEPT ![p] = "ProcessProbeBatch"]
  /\ UNCHANGED <<input, build, accumulator, shared, total_rows, output>>

\* get_matched_indices_with_limit_offset.  With distinct hashes a lookup takes batch_size
\* rows; otherwise it follows the chains for batch_size pairs, in the order of rows and
\* build indices, and is done early only if the last pair is of the last row.
Lookup(p) ==
  LET keys == left[Build(p)]
      rows == batch[p]
      pairs == {x \in (DOMAIN rows) \X (DOMAIN keys) : Hash[rows[x[1]].key] = Hash[keys[x[2]]]}
      rank(x) == Cardinality({y \in pairs : y[1] < x[1] \/ (y[1] = x[1] /\ y[2] <= x[2])})
      end == offset[p] + join.batch_size
      unique == \A i, j \in DOMAIN keys : Hash[keys[i]] = Hash[keys[j]] => i = j
  IN  IF unique
      THEN [pairs |-> {x \in pairs : x[1] > offset[p] /\ x[1] <= end}, done |-> end >= Len(rows)]
      ELSE [pairs |-> {x \in pairs : rank(x) > offset[p] /\ rank(x) <= end},
            done |-> \/ end > Cardinality(pairs)
                     \/ end = Cardinality(pairs) /\ \E x \in pairs : x[1] = Len(rows)]

\* The probe rows that a lookup decides: those after the last one joined before, up to the
\* last one joined now or, at the end, all (mutant: from the first row).
FromFirstRow(p, joined, done) ==
  1..(IF done THEN Len(batch[p]) ELSE Max({x[1] : x \in joined} \cup {0}))
AlignmentRange(p, joined, done) ==
  (joined_probe_idx[p] + 1)..(IF done THEN Len(batch[p]) ELSE Max({x[1] : x \in joined} \cup {0}))

\* adjust_indices_by_join_type: the rows of a lookup that joined these pairs.
adjust_indices(p, joined, done) ==
  LET row(r) == <<batch[p][r].id>>
      hit == {x[1] : x \in joined}
      range == AlignmentRange(p, joined, done)
      pairs == {Out(<<Build(p), x[2]>>, row(x[1]), FALSE) : x \in joined}
  IN  CASE join.type \in {"Inner", "Left"} -> pairs
        [] join.type \in {"Right", "Full"} ->
             pairs \cup {Out(NoRow, row(r), FALSE) : r \in range \ hit}
        [] join.type = "RightSemi" -> {Out(NoRow, row(r), FALSE) : r \in range \cap hit}
        [] join.type = "RightAnti" -> {Out(NoRow, row(r), FALSE) : r \in range \ hit}
        [] join.type = "RightMark" -> {Out(NoRow, row(r), r \in hit) : r \in range}
        [] OTHER -> {}

\* LimitedBatchCoalescer::push_batch; which rows are the head of a batch is left open.
LimitReached(p, rows) ==
  join.fetch # NoLimit /\ total_rows[p] + Cardinality(rows) >= join.fetch
push_batch(p, rows) ==
  \E head \in IF LimitReached(p, rows) THEN kSubset(join.fetch - total_rows[p], rows)
              ELSE {rows} :
    /\ output' = output (+) SetToBag(head)
    /\ total_rows' = [total_rows EXCEPT ![p] = @ + Cardinality(head)]

SawNull(b) == join.null_aware /\ probe_side_has_null[b]

\* process_probe_batch begins by noting what a null-aware join must know of the probe
\* side, and drops the batch once a null was seen in any partition.
NoteProbe(p) ==
  LET b == Build(p)
      mark(flags, cond) == [flags EXCEPT ![b] = @ \/ (join.null_aware /\ cond)]
  IN  /\ probe_side_non_empty' = mark(probe_side_non_empty, batch[p] # <<>>)
      /\ probe_side_has_null' = mark(probe_side_has_null, \E r \in ToSet(batch[p]) : r.key = Null)

SkipBatch(p) ==
  /\ state[p] = "ProcessProbeBatch" /\ NoteProbe(p) /\ probe_side_has_null'[Build(p)]
  /\ state' = [state EXCEPT ![p] = "FetchProbeBatch"]
  /\ UNCHANGED <<input, build, taken, cursor, accumulator, visited, running, emitted,
                 total_rows, output>>

\* build_batch_empty_build_side, when there is no join filter to evaluate.  The status
\* of push_batch is not looked at.
JoinEmpty(p) ==
  LET rows == IF join.type \in {"Right", "Full", "RightAnti", "RightMark"}
              THEN {Out(NoRow, <<r.id>>, FALSE) : r \in ToSet(batch[p])} ELSE {}
  IN  /\ state[p] = "ProcessProbeBatch" /\ NoteProbe(p) /\ ~probe_side_has_null'[Build(p)]
      /\ left[Build(p)] = <<>> /\ rejects = {}
      /\ push_batch(p, rows)
      /\ state' = [state EXCEPT ![p] = "FetchProbeBatch"]
      /\ UNCHANGED <<input, build, taken, cursor, accumulator, visited, running, emitted>>

\* One lookup of process_probe_batch: the pairs that pass the equality check and the
\* filter are marked in the bitmap, and the probe rows from the last joined one on are
\* aligned with them.
process_probe_batch(p) ==
  LET b == Build(p)
      found == Lookup(p)
      joined == {x \in found.pairs : Joined(b, x[2], batch[p][x[1]])}
      rows == adjust_indices(p, joined, found.done)
  IN  /\ state[p] = "ProcessProbeBatch" /\ NoteProbe(p) /\ ~probe_side_has_null'[b]
      /\ left[b] # <<>> \/ rejects # {}
      /\ visited' = IF need_produce_result_in_final
                    THEN [visited EXCEPT ![b] = @ \cup {x[2] : x \in joined}] ELSE visited
      /\ push_batch(p, rows)
      /\ IF LimitReached(p, rows)
         THEN state' = [state EXCEPT ![p] = "Completed"] /\ UNCHANGED cursor
         ELSE IF found.done
         THEN state' = [state EXCEPT ![p] = "FetchProbeBatch"] /\ UNCHANGED cursor
         ELSE /\ offset' = [offset EXCEPT ![p] = @ + join.batch_size]
              /\ joined_probe_idx' = [joined_probe_idx EXCEPT ![p] =
                                     IF joined = {} THEN @ ELSE Max({x[1] : x \in joined})]
              /\ UNCHANGED <<state, batch>>
      /\ UNCHANGED <<input, build, taken, accumulator, running, emitted>>

--------------------------------------------------------------------------------
(* The rows that are left. *)

\* The early returns of process_unmatched_build_batch that leave the counter alone.
FinishQuietly(p) ==
  /\ state[p] = "ExhaustedProbeSide" /\ (need_produce_result_in_final => SawNull(Build(p)))
  /\ state' = [state EXCEPT ![p] = "Completed"]
  /\ UNCHANGED <<input, build, taken, cursor, accumulator, shared, total_rows, output>>

\* report_probe_completed: all but the last stream are then done, the last one goes on
\* (mutant: the one before the last does, too).
CompletedEarly(p) ==
  LET b == Build(p) IN
  /\ state[p] = "ExhaustedProbeSide" /\ need_produce_result_in_final /\ ~SawNull(b)
  /\ running' = [running EXCEPT ![b] = @ \ {p}]
  /\ state' = [state EXCEPT ![p] = IF Cardinality(running'[b]) <= 1 THEN "last" ELSE "Completed"]
  /\ UNCHANGED <<input, build, taken, cursor, accumulator, visited, probe_side_non_empty,
                 probe_side_has_null, emitted, total_rows, output>>
report_probe_completed(p) ==
  LET b == Build(p) IN
  /\ state[p] = "ExhaustedProbeSide" /\ need_produce_result_in_final /\ ~SawNull(b)
  /\ running' = [running EXCEPT ![b] = @ \ {p}]
  /\ state' = [state EXCEPT ![p] = IF running'[b] = {} THEN "last" ELSE "Completed"]
  /\ UNCHANGED <<input, build, taken, cursor, accumulator, visited, probe_side_non_empty,
                 probe_side_has_null, emitted, total_rows, output>>

\* get_final_indices_from_bit_map, without the null keys of a null-aware join that has
\* seen probe rows.
FinalIndices(b) ==
  LET rows == IF join.type = "LeftSemi" THEN visited[b]
              ELSE IF join.type = "LeftMark" THEN DOMAIN left[b]
              ELSE (DOMAIN left[b]) \ visited[b]
  IN  {i \in rows : (join.null_aware /\ probe_side_non_empty[b]) => left[b][i] # Null}

\* The rest of process_unmatched_build_batch.
process_unmatched_build_batch(p) ==
  LET b == Build(p) IN
  /\ state[p] = "last"
  /\ push_batch(p, {Out(<<b, i>>, NoRow, join.type = "LeftMark" /\ i \in visited[b])
                       : i \in FinalIndices(b)})
  /\ emitted' = emitted \cup {b}
  /\ state' = [state EXCEPT ![p] = "Completed"]
  /\ UNCHANGED <<input, build, taken, cursor, accumulator, visited, running,
                 probe_side_non_empty, probe_side_has_null>>

\* A stream is dropped, or an error of its probe side ends it.
Abandon(p) ==
  /\ MayFail /\ state[p] \notin {"leader", "last", "Completed", "failed"}
  /\ state' = [state EXCEPT ![p] = "failed"]
  /\ UNCHANGED <<input, build, taken, cursor, accumulator, shared, total_rows, output>>

poll_next(p) ==
  \/ collect_build_side(p) \/ report_build_data(p) \/ update(p)
  \/ wait_for_partition_bounds_report(p) \/ fetch_probe_batch(p)
  \/ SkipBatch(p) \/ JoinEmpty(p) \/ process_probe_batch(p)
  \/ FinishQuietly(p) \/ report_probe_completed(p) \/ process_unmatched_build_batch(p)

\* A stream that waits at the barrier for one that failed.
Stuck(p) == state[p] = "WaitPartitionBoundsReport" /\ p \in arrived
            /\ \E q \in Parts \ arrived : state[q] = "failed"
Over(p) == state[p] \in {"Completed", "failed"}

Terminating == (\A p \in Parts : Over(p) \/ Stuck(p)) /\ UNCHANGED vars

Next == \/ \E b \in Parts : CollectLeft(b)
        \/ \E p \in Parts : poll_next(p) \/ Abandon(p)
        \/ Terminating

Spec == Init /\ [][Next]_vars

\* The runtime polls every stream that was woken, and the build future with it.
FairSpec == Spec /\ \A p \in Parts : WF_vars(poll_next(p)) /\ WF_vars(CollectLeft(p))

--------------------------------------------------------------------------------
(* What the join is, by its inputs alone. *)

LeftRows == UNION {{<<b, i>> : i \in DOMAIN left[b]} : b \in Builds}
Matches(b, i) == {r \in UNION {RowsOf(p) : p \in Probes(b)} : Joined(b, i, r)}
Partners(p, r) == {i \in DOMAIN left[Build(p)] : Joined(Build(p), i, r)}

\* A build row that NOT IN returns: nothing to compare with, or no null and no match.
NotIn(l) ==
  LET b == l[1]
      k == left[b][l[2]]
      rows == UNION {RowsOf(p) : p \in Probes(b)}
  IN  rows = {} \/ (k # Null /\ \A r \in rows : r.key # Null /\ r \notin Matches(b, l[2]))

Expected ==
  LET pairs == UNION {{Out(l, <<r.id>>, FALSE) : r \in Matches(l[1], l[2])} : l \in LeftRows}
      lefts(S(_)) == {Out(l, NoRow, FALSE) : l \in {x \in LeftRows : S(x)}}
      rights(S(_, _)) == UNION {{Out(NoRow, <<r.id>>, FALSE) : r \in {x \in RowsOf(p) : S(p, x)}}
                                  : p \in Parts}
      alone(l) == Matches(l[1], l[2]) = {}
      matched(l) == ~alone(l)
      single(p, r) == Partners(p, r) = {}
      partnered(p, r) == ~single(p, r)
  IN  CASE join.type = "Inner" -> pairs
        [] join.type = "Left" -> pairs \cup lefts(alone)
        [] join.type = "Right" -> pairs \cup rights(single)
        [] join.type = "Full" -> pairs \cup lefts(alone) \cup rights(single)
        [] join.type = "LeftSemi" -> lefts(matched)
        [] join.type = "LeftAnti" -> IF join.null_aware THEN lefts(NotIn) ELSE lefts(alone)
        [] join.type = "LeftMark" -> {Out(l, NoRow, matched(l)) : l \in LeftRows}
        [] join.type = "RightSemi" -> rights(partnered)
        [] join.type = "RightAnti" -> rights(single)
        [] join.type = "RightMark" ->
             UNION {{Out(NoRow, <<r.id>>, partnered(p, r)) : r \in RowsOf(p)} : p \in Parts}

--------------------------------------------------------------------------------
(* Properties. *)

\* However the streams interleave, whatever the scans prune and wherever a batch is cut
\* into lookups, no row is returned that the join does not have and none twice; once
\* every stream has completed, every row of the join was returned, or with a fetch
\* limit that many of them.
ResultExact ==
  LET rows == BagToSet(output) IN
  /\ rows \subseteq Expected /\ \A x \in rows : output[x] = 1
  /\ (\A p \in Parts : state[p] = "Completed") =>
       IF join.fetch = NoLimit THEN rows = Expected
       ELSE Cardinality(rows) >= Min({join.fetch, Cardinality(Expected)})

\* "Incomplete filters would incorrectly eliminate valid join results": the dynamic
\* filter, set by whichever stream is last at the barrier and read by scans that may
\* already run, admits every probe row that has a partner in its build side.
FilterAdmitsMatches ==
  \A p \in Parts : \A r \in RowsOf(p) : Partners(p, r) # {} => r.key \in filter

\* The rows that only the whole probe side decides are returned when no stream of that
\* build side can mark a row as visited any more.
UnmatchedIsFinal ==
  \A b \in emitted : \A p \in Probes(b) : state[p] = "Completed"

\* Every stream completes or fails; only one whose partner failed before it reported its
\* build side waits at the barrier for ever.
Termination == <>(\A p \in Parts : Over(p) \/ Stuck(p))
=================================================================================
