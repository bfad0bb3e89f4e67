---------------------------- MODULE BloomTransfer ----------------------------
(***************************************************************************)
(* One inner HashJoinExec whose children were wrapped by                   *)
(* MultiHopBloomFilterRule: a BloomFilterBuildExec on the build (left)     *)
(* side and a BloomFilterProbeExec on the probe (right) side share one     *)
(* tokio broadcast channel.  Every build partition sends its filter, every *)
(* probe partition subscribes when it is executed and receives once.  The  *)
(* module interleaves the partitions' tasks with the operator that         *)
(* executes them, so it shows which filter a probe partition can see.      *)
(*                                                                         *)
(* A row is represented by its join key; a batch is any non-empty set of   *)
(* the rows that are left.                                                 *)
(***************************************************************************)
EXTENDS Naturals, Sequences

CONSTANTS
  Parts,          \* output partitions of the join
  Builds,         \* build-side partitions
  Keys, Null,     \* join keys: non-null ones, and null
  Strings,        \* what a key can look like after to_string()
  KeyString,      \* KeyString[k]: the string of key k
  NullEqualsNull, \* HashJoinExec.null_equality
  Plans,          \* the plans Init ranges over: driver, buildOf and supported
  MayFail,        \* inputs may return errors
  MayDrop,        \* the consumer may drop an output stream early
  LeftChoices, RightChoices  \* the inputs Init ranges over

\* "eager": execute_stream_partitioned executes every partition, then polls;
\* "merge": SortPreservingMergeExec executes and spawns one after the other;
\* "tasks": CoalescePartitionsExec spawns tasks that hold the plan and execute.
Drivers == {"eager", "merge", "tasks"}

Rows == Keys \cup {Null}

\* Partitioned: every partition has a build side of its own; CollectLeft: all share one.
Shape(of) == \/ \A p, q \in Parts : of[p] = of[q] => p = q
             \/ \A p, q \in Parts : of[p] = of[q]

ASSUME PlanAssumption ==
  /\ Plans \subseteq [driver : Drivers, buildOf : [Parts -> Builds], supported : BOOLEAN]
  /\ \A q \in Plans : Shape(q.buildOf)
ASSUME DataAssumption ==
  /\ Null \notin Keys
  /\ KeyString \in [Keys -> Strings]
  /\ LeftChoices \subseteq SUBSET Rows
  /\ RightChoices \subseteq SUBSET Rows
ASSUME ConfigAssumption ==
  {NullEqualsNull, MayFail, MayDrop} \subseteq BOOLEAN

VARIABLES
  driver,    \* who executes the partitions (constant in a behaviour)
  buildOf,   \* buildOf[p]: the build partition that p joins with (constant)
  supported, \* the key column is Int32, Int64 or Utf8 (constant)
  left,      \* left[b]: rows of build partition b (constant in a behaviour)
  right,     \* right[p]: rows of probe partition p (constant in a behaviour)
  bpc,       \* bpc[b]: state of the build stream and of collect_left_input
  leftRest,  \* leftRest[b]: rows the build stream has not read
  values,    \* values[b]: all_values of the build stream
  pc,        \* pc[p]: state of the HashJoinStream and its probe stream
  sent,      \* payloads ever sent on the broadcast channel
  next,      \* next[p]: number of payloads receiver p has behind it
  payload,   \* payload[p]: what recv() returned to partition p
  rightRest, \* rightRest[p]: rows the probe stream has not read
  out,       \* out[p]: probe rows the join matched and emitted
  metrics,   \* probe partitions that wrote a metrics row
  planHeld,  \* the caller still owns the plan
  failed     \* the query returned an error

config == <<driver, buildOf, supported>>
chan == <<sent, next, payload>>
vars == <<config, left, right, bpc, leftRest, values, pc, chan, rightRest, out, metrics,
          planHeld, failed>>

NoPayload == [from |-> "none", filter |-> {}]
Payloads == [from : Builds, filter : SUBSET Strings]

Init ==
  /\ \E q \in Plans : driver = q.driver /\ buildOf = q.buildOf /\ supported = q.supported
  /\ left \in [Builds -> LeftChoices]
  /\ right \in [Parts -> RightChoices]
  /\ bpc = [b \in Builds |-> "unstarted"]
  /\ leftRest = left
  /\ values = [b \in Builds |-> {}]
  /\ pc = [p \in Parts |-> "idle"]
  /\ sent = <<>>
  /\ next = [p \in Parts |-> 0]
  /\ payload = [p \in Parts |-> NoPayload]
  /\ rightRest = right
  /\ out = [p \in Parts |-> {}]
  /\ metrics = {}
  /\ planHeld = TRUE
  /\ failed = FALSE
------------------------------------------------------------------------------
\* The broadcast channel (tokio::sync::broadcast).

\* broadcast::channel(1) (mutant: broadcast::channel(2))
CapacityTwo == 2
Capacity == 1

Unread(p) == Len(sent) - next[p]

\* Partitions whose receiver exists.
Receivers == {p \in Parts : pc[p] \in {"wait_build", "recv", "filter", "pass"}}

\* send stores the value only if somebody is subscribed; its Err is ignored.
Send(v) == sent' = IF Receivers = {} THEN sent ELSE Append(sent, v)

\* Senders live in the plan and in the build streams that are not finished
\* (mutant: some stream keeps its clone for ever).
SenderLeaked == TRUE
SenderAlive == \/ planHeld
               \/ driver = "tasks" /\ \E p \in Parts : pc[p] \notin {"done", "dropped"}
               \/ \E p \in Parts : /\ pc[p] = "wait_build"
                                  /\ bpc[buildOf[p]] \in {"reading", "sent"}
------------------------------------------------------------------------------
\* execute_stream_partitioned polls no stream before it has executed them all
\* (mutant: it does).
AllExecuted == \A p \in Parts : pc[p] # "idle"
MayPollAtOnce == TRUE
MayPoll == driver = "eager" => AllExecuted

\* Some task that is polled waits for build partition b and so drives it.
Driven(b) == MayPoll /\ \E p \in Parts : buildOf[p] = b /\ pc[p] = "wait_build"

\* BloomFilterProbeExec::execute: a receiver only sees what is sent from now on.
Subscribe(p) == next' = [next EXCEPT ![p] = Len(sent)]

\* HashJoinExec::execute(p): the build stream is created once per build
\* partition, then the probe side is executed.
Execute(p) ==
  /\ ~failed
  /\ pc[p] = "idle"
  /\ pc' = [pc EXCEPT ![p] = "wait_build"]
  /\ bpc' = IF bpc[buildOf[p]] = "unstarted"
              THEN [bpc EXCEPT ![buildOf[p]] = "reading"] ELSE bpc
  /\ Subscribe(p)
  /\ UNCHANGED <<config, left, right, leftRest, values, sent, payload, rightRest, out,
                 metrics, planHeld, failed>>

\* The caller lets go of the plan, at the earliest when it needs it no more.
DropPlan ==
  /\ planHeld
  /\ driver # "tasks" => AllExecuted
  /\ planHeld' = FALSE
  /\ UNCHANGED <<config, left, right, bpc, leftRest, values, pc, chan, rightRest, out,
                 metrics, failed>>
------------------------------------------------------------------------------
\* BloomFilterBuildExec's stream, driven through collect_left_input.

\* What one batch adds to all_values (mutant: the key type is missing from the
\* downcasts of the build side only).
AllValuesNone(S) == {}
AllValues(S) == IF supported THEN {KeyString[k] : k \in S \ {Null}} ELSE {}

\* One batch of the build input is read and buffered.
BuildBatch(b, S) ==
  /\ ~failed
  /\ bpc[b] = "reading" /\ Driven(b)
  /\ S # {}
  /\ leftRest' = [leftRest EXCEPT ![b] = @ \ S]
  /\ values' = [values EXCEPT ![b] = @ \cup AllValues(S)]
  /\ UNCHANGED <<config, left, right, bpc, pc, chan, rightRest, out, metrics, planHeld,
                 failed>>

\* The input is exhausted: the filter is built (a Bloom filter answers "maybe"
\* for every inserted string and for some others) and sent, then the buffered
\* batches are handed on.
BuildSend(b) ==
  /\ ~failed
  /\ bpc[b] = "reading" /\ Driven(b)
  /\ leftRest[b] = {}
  /\ \E positives \in SUBSET Strings :
       /\ values[b] \subseteq positives
       /\ Send([from |-> b, filter |-> positives])
  /\ bpc' = [bpc EXCEPT ![b] = "sent"]
  /\ UNCHANGED <<config, left, right, leftRest, values, pc, next, payload, rightRest,
                 out, metrics, planHeld, failed>>

\* collect_left_input has drained the build stream and built the hash table.
Collect(b) ==
  /\ ~failed
  /\ bpc[b] = "sent" /\ Driven(b)
  /\ bpc' = [bpc EXCEPT ![b] = "collected"]
  /\ UNCHANGED <<config, left, right, leftRest, values, pc, chan, rightRest, out,
                 metrics, planHeld, failed>>

\* The build input fails before anything is sent, or collect_left_input runs
\* out of memory after it: the shared future resolves to the error.
BuildError(b) ==
  /\ MayFail /\ ~failed
  /\ bpc[b] \in {"reading", "sent"} /\ Driven(b)
  /\ bpc' = [bpc EXCEPT ![b] = "failed"]
  /\ UNCHANGED <<config, left, right, leftRest, values, pc, chan, rightRest, out,
                 metrics, planHeld, failed>>
------------------------------------------------------------------------------
\* HashJoinStream and BloomFilterProbeExec's stream.

\* collect_build_side: WaitBuildSide -> FetchProbeBatch.
CollectBuildSide(p) ==
  /\ ~failed
  /\ pc[p] = "wait_build" /\ MayPoll
  /\ bpc[buildOf[p]] = "collected"
  /\ pc' = [pc EXCEPT ![p] = "recv"]
  /\ UNCHANGED <<config, left, right, bpc, leftRest, values, chan, rightRest, out,
                 metrics, planHeld, failed>>

\* The error of the build side is the result of the query.
BuildSideFailed(p) ==
  /\ ~failed
  /\ pc[p] = "wait_build" /\ MayPoll
  /\ bpc[buildOf[p]] = "failed"
  /\ failed' = TRUE
  /\ UNCHANGED <<config, left, right, bpc, leftRest, values, pc, chan, rightRest, out,
                 metrics, planHeld>>

\* First poll of the probe stream: recv() returns the one unread payload.
RecvPayload(p) ==
  /\ ~failed
  /\ pc[p] = "recv"
  /\ Unread(p) \in 1..Capacity
  /\ payload' = [payload EXCEPT ![p] = sent[next[p] + 1]]
  /\ next' = [next EXCEPT ![p] = @ + 1]
  /\ pc' = [pc EXCEPT ![p] = "filter"]
  /\ UNCHANGED <<config, left, right, bpc, leftRest, values, sent, rightRest, out,
                 metrics, planHeld, failed>>

\* recv() returns Err: Lagged when a payload was overwritten, Closed when all
\* senders are gone and nothing is unread.  The probe passes rows unfiltered.
RecvErr(p) ==
  /\ ~failed
  /\ pc[p] = "recv"
  /\ \/ Unread(p) > Capacity
     \/ Unread(p) = 0 /\ ~SenderAlive
  /\ pc' = [pc EXCEPT ![p] = "pass"]
  /\ UNCHANGED <<config, left, right, bpc, leftRest, values, chan, rightRest, out,
                 metrics, planHeld, failed>>

\* The keep mask of one row (mutant: a row of another type is not kept).
KeepSupported(r, filter) == r # Null /\ supported /\ KeyString[r] \in filter
Keep(r, filter) == r # Null /\ (supported => KeyString[r] \in filter)

\* The rows of S that the hash table of build partition b matches.
Matching(S, b) == {r \in S : r \in left[b] /\ (r # Null \/ NullEqualsNull)}

\* The join pulls one batch through the probe stream and emits its matches.
ProbeBatch(p, S) ==
  LET through == IF pc[p] = "filter"
                   THEN {r \in S : Keep(r, payload[p].filter)} ELSE S
  IN /\ ~failed
     /\ pc[p] \in {"filter", "pass"}
     /\ S # {}
     /\ rightRest' = [rightRest EXCEPT ![p] = @ \ S]
     /\ out' = [out EXCEPT ![p] = @ \cup Matching(through, buildOf[p])]
     /\ UNCHANGED <<config, left, right, bpc, leftRest, values, pc, chan, metrics,
                    planHeld, failed>>

ProbeError(p) ==
  /\ MayFail /\ ~failed
  /\ pc[p] \in {"filter", "pass"}
  /\ failed' = TRUE
  /\ UNCHANGED <<config, left, right, bpc, leftRest, values, pc, chan, rightRest, out,
                 metrics, planHeld>>

\* The probe input is exhausted; a stream that filtered writes its metrics.  (When
\* write_metrics panics, the stream ends as in ProbeError.)
ProbeEnd(p) ==
  /\ ~failed
  /\ pc[p] \in {"filter", "pass"}
  /\ rightRest[p] = {}
  /\ pc' = [pc EXCEPT ![p] = "done"]
  /\ metrics' = IF pc[p] = "filter" THEN metrics \cup {p} ELSE metrics
  /\ UNCHANGED <<config, left, right, bpc, leftRest, values, chan, rightRest, out,
                 planHeld, failed>>

\* The consumer drops the output stream of p.
DropStream(p) ==
  /\ MayDrop /\ ~failed
  /\ pc[p] \notin {"idle", "done", "dropped"}
  /\ pc' = [pc EXCEPT ![p] = "dropped"]
  /\ UNCHANGED <<config, left, right, bpc, leftRest, values, chan, rightRest, out,
                 metrics, planHeld, failed>>
------------------------------------------------------------------------------
Ended == failed \/ \A p \in Parts : pc[p] \in {"done", "dropped"}
Terminating == Ended /\ UNCHANGED vars

BuildStep(b) == \/ \E S \in SUBSET leftRest[b] : BuildBatch(b, S)
                \/ BuildSend(b) \/ Collect(b)
PartStep(p) == \/ Execute(p) \/ CollectBuildSide(p) \/ BuildSideFailed(p)
               \/ RecvPayload(p) \/ RecvErr(p) \/ ProbeEnd(p)
               \/ \E S \in SUBSET rightRest[p] : ProbeBatch(p, S)

Next == \/ \E b \in Builds : BuildStep(b) \/ BuildError(b)
        \/ \E p \in Parts : PartStep(p) \/ ProbeError(p) \/ DropStream(p)
        \/ DropPlan
        \/ Terminating

Spec == Init /\ [][Next]_vars

\* The runtime polls every task that can make progress.  DataFrame::collect gives a plan
\* with a merge on top away: it is dropped once executed.
Fairness == /\ \A b \in Builds : WF_vars(BuildStep(b))
            /\ \A p \in Parts : WF_vars(PartStep(p))
            /\ WF_vars(driver = "merge" /\ DropPlan)
FairSpec == Spec /\ Fairness
------------------------------------------------------------------------------
\* Every variable stays in its range; the filters in flight hold strings of
\* keys, as all_values does in BloomFilterBuildExec::execute.
TypeOK ==
  /\ driver \in Drivers /\ buildOf \in [Parts -> Builds] /\ supported \in BOOLEAN
  /\ left \in [Builds -> SUBSET Rows] /\ right \in [Parts -> SUBSET Rows]
  /\ bpc \in [Builds -> {"unstarted", "reading", "sent", "collected", "failed"}]
  /\ leftRest \in [Builds -> SUBSET Rows]
  /\ values \in [Builds -> SUBSET Strings]
  /\ pc \in [Parts -> {"idle", "wait_build", "recv", "filter", "pass", "done", "dropped"}]
  /\ sent \in Seq(Payloads)
  /\ next \in [Parts -> Nat]
  /\ payload \in [Parts -> Payloads \cup {NoPayload}]
  /\ rightRest \in [Parts -> SUBSET Rows]
  /\ out \in [Parts -> SUBSET Rows]
  /\ metrics \subseteq Parts
  /\ planHeld \in BOOLEAN /\ failed \in BOOLEAN

\* A probe partition only ever filters with the filter of the build partition
\* it joins with, although all build partitions send on the one channel that
\* insert_bloom_filters creates for the join.
FilterIsOwn ==
  \A p \in Parts : pc[p] = "filter" => payload[p].from = buildOf[p]

\* BloomFilterProbeExec loses no row the join needs: what a partition has
\* emitted is what an unfiltered join would have emitted for the rows read.
NoLostRows ==
  \A p \in Parts : out[p] = Matching(right[p] \ rightRest[p], buildOf[p])

\* recv() never waits in PartitionMode::Partitioned, or when every partition is executed
\* before any is polled: by the time the join polls a probe stream, the receiver
\* that stream subscribed with has a payload (or a Lagged error) to return.
Partitioned == \A p, q \in Parts : buildOf[p] = buildOf[q] => p = q
RecvReady == Partitioned \/ driver = "eager" => \A p \in Parts : pc[p] = "recv" => Unread(p) >= 1

\* The join with its filters implements the join without them.
status == [p \in Parts |-> IF pc[p] \in {"done", "dropped"} THEN pc[p] ELSE "running"]
Unfiltered == INSTANCE InnerJoin WITH
  build <- [p \in Parts |-> left[buildOf[p]]], rest <- rightRest
JoinRefines == Unfiltered!Spec

\* Every query ends: no partition waits forever for a filter.
Termination == <>Ended
==============================================================================
