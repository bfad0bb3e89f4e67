------------------------------ MODULE Repartition ------------------------------
(* RepartitionExec (repartition/mod.rs): a task per input pulls batches, splits  *)
(* them and sends each piece to the channel of its output, in memory while the   *)
(* output's reservation can grow and else through the output's spill pool, with  *)
(* a marker in the channel.  A stream per output reads the channel, and the pool *)
(* at every marker.  With preserve_order each pair of an input and an output has *)
(* its own channel, pool and stream, and the output merges its streams.          *)
(*                                                                               *)
(* The channels are those of DistributorChannels: a send can go through at any   *)
(* time, and must when the gate has to be open.  A piece is named by its input   *)
(* and its number among those for the same output.                              *)
EXTENDS SpillPool, SequencesExt, FiniteSetsExt

CONSTANTS Inputs, Outputs,   \* partitions, numbered from 0
          InputChoices,      \* what the inputs may hold: for each a sequence of batches,
                             \* a batch being the set of the outputs that its rows hash to
          MayDrop,           \* the outputs whose consumer may drop the stream before its end
          Size,              \* get_array_memory_size of the pieces of each input
          Owner              \* who holds the writers that consume_input_streams created

ASSUME ShapeAssumption ==
  /\ Pools = Inputs \X Outputs /\ Writers = Inputs \cup {Owner} /\ Owner \notin Inputs
  /\ 0 \in Inputs /\ MayDrop \subseteq Outputs /\ Size \in [Inputs -> Nat]
  /\ \A choice \in InputChoices : choice \in [Inputs -> Seq(SUBSET Outputs)]

VARIABLES preserve_order,   \* sort_exprs is given
          input,            \* the batches each input has left
          pieces,           \* the outputs that the current batch has pieces for
          count,            \* the pieces that an input has made for each output
          tpc,              \* what the task of each input does
          output_channels,  \* the outputs it still sends to
          outcome,          \* how pull_from_input ended
          txs,              \* the outputs that wait_for_task has to notify
          used,             \* the reservation of each output
          queue,            \* the messages in each channel
          output,           \* the stream of each output: unstarted, started or dropped
          state,            \* the StreamState of each PerPartitionStream, and its end
          remaining,        \* remaining_partitions
          failed,           \* whether it has returned an error
          delivered         \* what each stream has returned

task == <<input, pieces, count, tpc, output_channels, outcome, txs>>
stream == <<state, remaining, failed, delivered>>
vars == <<preserve_order, input, pieces, count, tpc, output_channels, outcome, txs, used, queue,
          output, state, remaining, failed, delivered, file, front, current, writers, writer_dropped,
          wpc, hold, reading, batches_read, waiting>>

\* The channel, the pool and the stream from input i to output o.
Link(i, o) == IF preserve_order THEN <<i, o>> ELSE <<0, o>>
Links == {Link(i, o) : i \in Inputs, o \in Outputs}
Sources(s) == {i \in Inputs : Link(i, s[2]) = s}

Message(kind, piece) == [kind |-> kind, piece |-> piece]
Target(i) == Head(pieces[i])
Piece(i) == <<i, count[i][Target(i)]>>

\* partition_iter for Hash: a piece for every output with rows, by number.
partition_iter(batch) == SetToSortSeq(batch, LAMBDA a, b : a < b)

--------------------------------------------------------------------------------
Init ==
  /\ preserve_order \in BOOLEAN
  /\ input \in InputChoices
  /\ pieces = [i \in Inputs |-> <<>>]
  /\ count = [i \in Inputs |-> [o \in Outputs |-> 0]]
  /\ tpc = [i \in Inputs |-> "new"]
  /\ output_channels = [i \in Inputs |-> Outputs]
  /\ outcome = [i \in Inputs |-> "none"]
  /\ txs = [i \in Inputs |-> Outputs]
  /\ used = [o \in Outputs |-> 0]
  /\ queue = [s \in Pools |-> <<>>]
  /\ output = [o \in Outputs |-> "unstarted"]
  /\ state = [s \in Pools |-> "ReadingMemory"]
  /\ remaining = [s \in Pools |-> IF preserve_order THEN 1 ELSE Cardinality(Inputs)]
  /\ failed = [s \in Pools |-> FALSE]
  /\ delivered = [s \in Pools |-> <<>>]
  /\ PoolInit([s \in Pools |-> Sources(s) \cup {Owner}])

\* The first poll of an output's stream: consume_input_streams spawns the tasks unless
\* it has; the output's entry of channels is removed, and with it go the writers that
\* the tasks cloned.  The output's pools have no reader yet.
Start(o) ==
  /\ output[o] = "unstarted"
  /\ output' = [output EXCEPT ![o] = "started"]
  /\ tpc' = [i \in Inputs |-> IF tpc[i] = "new" THEN "route" ELSE tpc[i]]
  /\ DropWriters(Owner, {s \in Links : s[2] = o})
  /\ UNCHANGED <<preserve_order, input, pieces, count, output_channels, outcome, txs, used, queue,
                 stream, reader>>

--------------------------------------------------------------------------------
(* pull_from_input. *)

\* A piece for an output that is gone is dropped.
StillOpen(outputs, open) == SelectSeq(outputs, LAMBDA o : o \in open)

Pull(i) ==
  /\ tpc[i] = "route" /\ pieces[i] = <<>> /\ output_channels[i] # {} /\ input[i] # <<>>
  /\ input' = [input EXCEPT ![i] = Tail(@)]
  /\ pieces' = [pieces EXCEPT ![i] = StillOpen(partition_iter(Head(input[i])), output_channels[i])]
  /\ UNCHANGED <<preserve_order, count, tpc, output_channels, outcome, txs, used, queue, output,
                 stream, pool, reader, waiting>>

\* The input ends, or fails, or there is no output left.
PullEnd(i) ==
  /\ tpc[i] = "route" /\ pieces[i] = <<>>
  /\ \/ (output_channels[i] = {} \/ input[i] = <<>>) /\ outcome' = [outcome EXCEPT ![i] = "ok"]
     \/ i \in MayFail /\ output_channels[i] # {} /\ outcome' = [outcome EXCEPT ![i] = "err"]
  /\ tpc' = [tpc EXCEPT ![i] = IF output_channels[i] = {} THEN "notify" ELSE "drop"]
  /\ UNCHANGED <<preserve_order, input, pieces, count, output_channels, txs, used, queue, output,
                 stream, pool, reader, waiting>>

\* The guard of channel.reservation.lock() lives to the end of the match on try_grow,
\* so it is held through push_batch (mutant: it is let go before).
ReservationUnlocked(o) == TRUE
ReservationFree(o) == \A j \in Inputs : ~(tpc[j] = "push" /\ Target(j) = o)

\* try_grow: the pool has room ...
Grow(i) ==
  /\ tpc[i] = "route" /\ pieces[i] # <<>>
  /\ ReservationFree(Target(i))
  /\ used' = [used EXCEPT ![Target(i)] = @ + Size[i]]
  /\ count' = [count EXCEPT ![i][Target(i)] = @ + 1]
  /\ tpc' = [tpc EXCEPT ![i] = "send_memory"]
  /\ UNCHANGED <<preserve_order, input, pieces, output_channels, outcome, txs, queue, output,
                 stream, pool, reader, waiting>>

\* ... or it has none, and the piece is spilled.
Spill(i) ==
  /\ tpc[i] = "route" /\ pieces[i] # <<>>
  /\ ReservationFree(Target(i))
  /\ count' = [count EXCEPT ![i][Target(i)] = @ + 1]
  /\ tpc' = [tpc EXCEPT ![i] = "push"]
  /\ wpc' = [wpc EXCEPT ![i] = "push"]
  /\ UNCHANGED <<preserve_order, input, pieces, output_channels, outcome, txs, used, queue, output,
                 stream, file, front, current, writers, writer_dropped, hold, reader, waiting>>

\* push_batch: the marker is sent when it returns, its error ends the task.
push_batch(i) ==
  LET p == Link(i, Target(i)) IN
  /\ tpc[i] = "push"
  /\ \/ /\ \/ TakeFile(i, p) \/ MissFile(i, p) \/ CreateFile(i, p)
           \/ AppendBatch(i, p, Piece(i), Size[i]) \/ PutBack(i, p)
        /\ tpc' = [tpc EXCEPT ![i] = IF wpc'[i] = "idle" THEN "send_spilled" ELSE @]
        /\ UNCHANGED outcome
     \/ /\ PushFails(i, p, Piece(i), Size[i])
        /\ tpc' = [tpc EXCEPT ![i] = "drop"]
        /\ outcome' = [outcome EXCEPT ![i] = "err"]
  /\ UNCHANGED <<preserve_order, input, pieces, count, output_channels, txs, used, queue, output,
                 stream, reader>>

\* send succeeds: the message is queued.
Send(i) ==
  LET s == Link(i, Target(i))
      kind == IF tpc[i] = "send_memory" THEN "memory" ELSE "spilled" IN
  /\ tpc[i] \in {"send_memory", "send_spilled"} /\ output[Target(i)] # "dropped"
  /\ queue' = [queue EXCEPT ![s] = Append(@, Message(kind, Piece(i)))]
  /\ pieces' = [pieces EXCEPT ![i] = Tail(@)]
  /\ tpc' = [tpc EXCEPT ![i] = "route"]
  /\ UNCHANGED <<preserve_order, input, count, output_channels, outcome, txs, used, output, stream,
                 pool, reader, waiting>>

\* send fails, the receiver is gone: the memory is given back and the channel removed
\* (mutant: also what a spilled piece never took).
SendErrShrinks(i) ==
  /\ tpc[i] \in {"send_memory", "send_spilled"} /\ output[Target(i)] = "dropped"
  /\ ReservationFree(Target(i))
  /\ used' = [used EXCEPT ![Target(i)] = @ - Size[i]]
  /\ output_channels' = [output_channels EXCEPT ![i] = @ \ {Target(i)}]
  /\ pieces' = [pieces EXCEPT ![i] = StillOpen(@, output_channels'[i])]
  /\ tpc' = [tpc EXCEPT ![i] = "remove"]
  /\ UNCHANGED <<preserve_order, input, count, outcome, txs, queue, output, stream,
                 pool, reader, waiting>>
SendErr(i) ==
  /\ tpc[i] \in {"send_memory", "send_spilled"} /\ output[Target(i)] = "dropped"
  /\ tpc[i] = "send_memory" => ReservationFree(Target(i))
  /\ used' = [used EXCEPT ![Target(i)] = IF tpc[i] = "send_memory" THEN @ - Size[i] ELSE @]
  /\ output_channels' = [output_channels EXCEPT ![i] = @ \ {Target(i)}]
  /\ pieces' = [pieces EXCEPT ![i] = StillOpen(@, output_channels'[i])]
  /\ tpc' = [tpc EXCEPT ![i] = "remove"]
  /\ UNCHANGED <<preserve_order, input, count, outcome, txs, queue, output, stream,
                 pool, reader, waiting>>

\* Dropping the OutputChannel that was removed, or all of them at the end, drops the
\* task's clones of the spill writers.  The order of a HashMap is arbitrary; pools of
\* different outputs share nothing, so that one order stands for all.
DropClone(i) ==
  LET outputs == IF tpc[i] = "drop" THEN Outputs ELSE Outputs \ output_channels[i]
      held == {o \in outputs : i \in writers[Link(i, o)] \/ hold[Link(i, o)][i] # 0}
      p == Link(i, Min(held)) IN
  /\ tpc[i] \in {"remove", "drop"}
  /\ DropWriter(i, p) \/ FinishLast(i, p) \/ MarkDropped(i, p)
  /\ tpc' = [tpc EXCEPT ![i] = IF wpc'[i] # "idle" \/ held # {Min(held)} THEN @
                                ELSE IF @ = "remove" THEN "route" ELSE "notify"]
  /\ UNCHANGED <<preserve_order, input, pieces, count, output_channels, outcome, txs, used, queue,
                 output, stream, reader>>

--------------------------------------------------------------------------------
\* wait_for_task: the end of the input, or its error, goes to every output in some
\* order; the receivers that are gone are ignored.
Notify(i, o) ==
  /\ tpc[i] = "notify" /\ o \in txs[i]
  /\ queue' = IF output[o] = "dropped" THEN queue
              ELSE [queue EXCEPT ![Link(i, o)] =
                      Append(@, Message(IF outcome[i] = "ok" THEN "none" ELSE "err", <<>>))]
  /\ txs' = [txs EXCEPT ![i] = @ \ {o}]
  /\ tpc' = [tpc EXCEPT ![i] = IF txs[i] = {o} THEN "gone" ELSE @]
  /\ UNCHANGED <<preserve_order, input, pieces, count, output_channels, outcome, used, output,
                 stream, pool, reader, waiting>>

--------------------------------------------------------------------------------
(* PerPartitionStream::poll_next_inner. *)

\* Every sender of the channel is gone.
Closed(s) == \A i \in Sources(s) : s[2] \notin txs[i]

ReadingMemory(s) ==
  output[s[2]] = "started" /\ state[s] = "ReadingMemory"

Receive(s, kind) ==
  /\ ReadingMemory(s) /\ queue[s] # <<>> /\ Head(queue[s]).kind = kind
  /\ queue' = [queue EXCEPT ![s] = Tail(@)]

RecvMemory(s) ==
  /\ Receive(s, "memory") /\ ReservationFree(s[2])
  /\ used' = [used EXCEPT ![s[2]] = @ - Size[Head(queue[s]).piece[1]]]
  /\ delivered' = [delivered EXCEPT ![s] = Append(@, Head(queue[s]).piece)]
  /\ UNCHANGED <<preserve_order, task, output, state, remaining, failed, pool, reader, waiting>>

\* A marker: the piece comes from the pool (mutant: when the channel is done).
RecvSpilledLater(s) ==
  /\ Receive(s, "spilled")
  /\ UNCHANGED <<preserve_order, task, used, output, stream, pool, reader, waiting>>
RecvSpilled(s) ==
  /\ Receive(s, "spilled")
  /\ state' = [state EXCEPT ![s] = "ReadingSpilled"]
  /\ UNCHANGED <<preserve_order, task, used, output, remaining, failed, delivered, pool, reader, waiting>>

RecvErr(s) ==
  /\ Receive(s, "err")
  /\ failed' = [failed EXCEPT ![s] = TRUE]
  /\ UNCHANGED <<preserve_order, task, used, output, state, remaining, delivered, pool, reader, waiting>>

\* One input is done; the stream ends with the last one (mutant: with the first).
RecvNoneEnds(s) ==
  /\ Receive(s, "none")
  /\ remaining' = [remaining EXCEPT ![s] = @ - 1]
  /\ state' = [state EXCEPT ![s] = "ended"]
  /\ UNCHANGED <<preserve_order, task, used, output, failed, delivered, pool, reader, waiting>>
RecvNone(s) ==
  /\ Receive(s, "none")
  /\ remaining' = [remaining EXCEPT ![s] = @ - 1]
  /\ state' = [state EXCEPT ![s] = IF remaining[s] = 1 THEN "ended" ELSE @]
  /\ UNCHANGED <<preserve_order, task, used, output, failed, delivered, pool, reader, waiting>>

RecvClosed(s) ==
  /\ ReadingMemory(s) /\ queue[s] = <<>> /\ Closed(s)
  /\ state' = [state EXCEPT ![s] = "ended"]
  /\ UNCHANGED <<preserve_order, task, used, queue, output, remaining, failed, delivered,
                 pool, reader, waiting>>

ReadingSpilled(s) ==
  output[s[2]] = "started" /\ state[s] = "ReadingSpilled" /\ ~waiting[s]

\* The spilled piece, or the end of the spill stream; both lead back to the channel
\* (mutant: only the end does).
ReadSpilledOn(s) ==
  /\ ReadingSpilled(s)
  /\ state' = [state EXCEPT ![s] = IF Ended(s) THEN "ReadingMemory" ELSE @]
  /\ IF Ended(s)
     THEN UNCHANGED <<delivered, pool, reader, waiting>>
     ELSE ReadBatch(s) /\ delivered' = [delivered EXCEPT ![s] = Append(@, NextBatch(s))]
  /\ UNCHANGED <<preserve_order, task, used, queue, output, remaining, failed>>
ReadSpilled(s) ==
  /\ ReadingSpilled(s)
  /\ state' = [state EXCEPT ![s] = "ReadingMemory"]
  /\ IF Ended(s)
     THEN UNCHANGED <<delivered, pool, reader, waiting>>
     ELSE ReadBatch(s) /\ delivered' = [delivered EXCEPT ![s] = Append(@, NextBatch(s))]
  /\ UNCHANGED <<preserve_order, task, used, queue, output, remaining, failed>>

SeekSpilled(s) ==
  /\ ReadingSpilled(s)
  /\ NextFile(s) \/ AwaitBatch(s)
  /\ UNCHANGED <<preserve_order, task, used, queue, output, stream>>

\* The consumer drops the stream of an output: at its end, before (a LIMIT), or when it
\* gives up waiting.
DropOutput(o) ==
  /\ output[o] = "started"
  /\ \/ o \in MayDrop
     \/ \A s \in Links : s[2] = o => state[s] = "ended" \/ failed[s] \/ waiting[s]
  /\ output' = [output EXCEPT ![o] = "dropped"]
  /\ queue' = [s \in Pools |-> IF s[2] = o THEN <<>> ELSE queue[s]]
  /\ UNCHANGED <<preserve_order, task, used, stream, pool, reader, waiting>>

--------------------------------------------------------------------------------
Task(i) ==
  \/ Pull(i) \/ PullEnd(i) \/ Grow(i) \/ Spill(i) \/ push_batch(i)
  \/ Send(i) \/ SendErr(i) \/ DropClone(i)
  \/ \E o \in Outputs : Notify(i, o)

Stream(s) ==
  \/ RecvMemory(s) \/ RecvSpilled(s) \/ RecvErr(s) \/ RecvNone(s) \/ RecvClosed(s)
  \/ ReadSpilled(s) \/ SeekSpilled(s)

Terminating ==
  /\ \A i \in Inputs : tpc[i] = "gone"
  /\ \A o \in Outputs : output[o] = "dropped"
  /\ \A s \in Links : writers[s] = {}
  /\ UNCHANGED vars

Next ==
  \/ \E i \in Inputs : Task(i)
  \/ \E s \in Links : Stream(s)
  \/ \E o \in Outputs : Start(o) \/ DropOutput(o)
  \/ Terminating

Spec == Init /\ [][Next]_vars

\* The gate of the channels that task i sends to must be open: one is empty and open
\* (DistributorChannels).
GateOpen(i) ==
  \E o \in Outputs :
    output[o] # "dropped" /\ queue[Link(i, o)] = <<>> /\ ~Closed(Link(i, o))

Progress(i) ==
  /\ tpc[i] \in {"send_memory", "send_spilled", "notify"} =>
       GateOpen(i) \/ \E o \in txs[i] : output[o] = "dropped" /\ (tpc[i] = "notify" \/ o = Target(i))
  /\ Task(i)

\* While a task can run or the stream of a started output can be polled, one of them
\* does; a send returns once the gate has to be open or the receiver is gone.  No output
\* has to be started.
FairSpec == Spec /\ WF_vars((\E i \in Inputs : Progress(i)) \/ \E s \in Links : Stream(s))

--------------------------------------------------------------------------------
Positions(seq, P(_)) == {k \in 1..Len(seq) : P(seq[k])}
Queued(s, kind) == Cardinality(Positions(queue[s], LAMBDA m : m.kind = kind))

\* The size of the pieces in the channel of a link, and of those being sent.
InMemory(s) ==
  MapThenSumSet(LAMBDA k : Size[queue[s][k].piece[1]],
                Positions(queue[s], LAMBDA m : m.kind = "memory"))
InHand(o) ==
  MapThenSumSet(LAMBDA i : Size[i],
                {i \in Inputs : tpc[i] = "send_memory" /\ Target(i) = o})

\* The memory that an output has reserved is that of the pieces in its channels and of
\* those being sent to it, however sends, receives, spills and hang-ups interleave; with
\* the receiver gone it still covers those being sent.  So no shrink takes more than was
\* grown, which would panic.
ReservationBalanced ==
  \A o \in Outputs :
    IF output[o] = "dropped" THEN used[o] >= InHand(o)
    ELSE used[o] = InHand(o) + MapThenSumSet(InMemory, {s \in Links : s[2] = o})

Unread(s) ==
  MapThenSumSet(LAMBDA f : Len(file[s][f].batches), front[s]..Len(file[s])) - batches_read[s]

\* A marker never overtakes its batch: for every marker in the channel, and for the
\* one that the stream follows, the pool holds a batch that was not read.  So the
\* stream waits in ReadingSpilled only behind a file that a failed push left.
MarkerHasBatch ==
  \A s \in Links :
    output[s[2]] # "dropped" =>
      /\ Unread(s) >= Queued(s, "spilled") + (IF state[s] = "ReadingSpilled" THEN 1 ELSE 0)
      /\ waiting[s] => Orphan(s)

\* A stream that ends without an error has returned every piece that its inputs made
\* for the output, each once.
NothingLost ==
  \A s \in Links :
    state[s] = "ended" /\ ~failed[s] /\ output[s[2]] # "dropped" =>
      /\ IsInjective(delivered[s])
      /\ Range(delivered[s]) = UNION {{<<i, k>> : k \in 1..count[i][s[2]]} : i \in Sources(s)}
      /\ \A i \in Sources(s) : input[i] = <<>> /\ outcome[i] = "ok"

\* With preserve_order the pieces of an input reach an output in their order, spilled
\* or not.
OrderKept ==
  preserve_order =>
    \A s \in Links : \A k \in 1..Len(delivered[s]) : delivered[s][k] = <<s[1], k>>

\* An output that is started ends, fails or is dropped, whichever others nobody reads,
\* unless a push to its pool failed.
OutputsEnd ==
  \A o \in Outputs :
    output[o] = "started" ~>
      \/ output[o] = "dropped"
      \/ \A s \in Links : s[2] = o => state[s] = "ended" \/ failed[s] \/ Orphan(s)
================================================================================
