------------------------------- MODULE SpillPool -------------------------------
(* The spill pool of an output (spill/spill_pool.rs): clones of a writer append  *)
(* batches to a file and rotate it when it is full, one reader follows through   *)
(* the files in the order of their creation while they are written.              *)
(*                                                                               *)
(* push_batch holds the pool's lock only to take the current file and to put it  *)
(* back, and writes without it: every section between two locks is one step.     *)
EXTENDS Integers, Sequences, FiniteSets

CONSTANTS Pools,         \* the pools
          Writers,       \* the owners of a clone of a pool's writer
          MaxFileSize,   \* max_file_size_bytes
          MayFail        \* those for whom creating, writing and finishing a file can fail

ASSUME PoolAssumption == MaxFileSize \in Nat /\ MayFail \subseteq Writers

VARIABLES file,             \* every file created for a pool: its batches, and writer_finished
          front,            \* files: the queue is file[front], file[front + 1], ...
          current,          \* current_write_file, or 0
          writers,          \* active_writer_count, as the set of those who count
          writer_dropped,   \* set by the last writer
          wpc,              \* where each writer is in push_batch or drop
          hold,             \* the file of the pool that it took from current_write_file, or 0
          reading,          \* SpillPoolReader.current_file, or 0
          batches_read,     \* how many batches of it were read
          waiting           \* the reader is Pending, registered with its file and the pool

pool == <<file, front, current, writers, writer_dropped, wpc, hold>>
reader == <<reading, batches_read>>

PoolInit(clones) ==
  /\ file = [p \in Pools |-> <<>>]
  /\ front = [p \in Pools |-> 1]
  /\ current = [p \in Pools |-> 0]
  /\ writers = clones
  /\ writer_dropped = [p \in Pools |-> FALSE]
  /\ wpc = [w \in Writers |-> "idle"]
  /\ hold = [p \in Pools |-> [w \in Writers |-> 0]]
  /\ reading = [p \in Pools |-> 0]
  /\ batches_read = [p \in Pools |-> 0]
  /\ waiting = [p \in Pools |-> FALSE]

WakePool(p) == waiting' = [waiting EXCEPT ![p] = FALSE]
\* The waker of a file is the reader's only while that is the file it reads.
WakeFile(p, f) == waiting' = [waiting EXCEPT ![p] = @ /\ reading[p] # f]

--------------------------------------------------------------------------------
(* push_batch of writer w on pool p. *)

TakeFile(w, p) ==
  /\ wpc[w] = "push" /\ current[p] # 0
  /\ hold' = [hold EXCEPT ![p][w] = current[p]]
  /\ current' = [current EXCEPT ![p] = 0]
  /\ wpc' = [wpc EXCEPT ![w] = "append"]
  /\ UNCHANGED <<file, front, writers, writer_dropped, waiting>>

\* No current file: the pool is unlocked while one is created.
MissFile(w, p) ==
  /\ wpc[w] = "push" /\ current[p] = 0
  /\ wpc' = [wpc EXCEPT ![w] = "create"]
  /\ UNCHANGED <<file, front, current, writers, writer_dropped, hold, waiting>>

\* Locked again: the file is queued, made the current one and taken at once.
CreateFile(w, p) ==
  /\ wpc[w] = "create"
  /\ file' = [file EXCEPT ![p] = Append(@, [batches |-> <<>>, size |-> 0, finished |-> FALSE])]
  /\ hold' = [hold EXCEPT ![p][w] = Len(file[p]) + 1]
  /\ current' = [current EXCEPT ![p] = 0]
  /\ wpc' = [wpc EXCEPT ![w] = "append"]
  /\ WakePool(p)
  /\ UNCHANGED <<front, writers, writer_dropped>>

\* The batch is appended and flushed under the file's lock; a full file is finished
\* and given up, so that the next push creates one.
AppendBatch(w, p, batch, size) ==
  LET f == hold[p][w]
      estimated_size == file[p][f].size + size
      full == estimated_size > MaxFileSize IN
  /\ wpc[w] = "append"
  /\ file' = [file EXCEPT ![p][f] = [batches |-> Append(@.batches, batch),
                                     size |-> estimated_size, finished |-> full]]
  /\ wpc' = [wpc EXCEPT ![w] = IF full THEN "idle" ELSE "put_back"]
  /\ hold' = [hold EXCEPT ![p][w] = IF full THEN 0 ELSE f]
  /\ WakeFile(p, f)
  /\ UNCHANGED <<front, current, writers, writer_dropped>>

PutBack(w, p) ==
  /\ wpc[w] = "put_back"
  /\ current' = [current EXCEPT ![p] = hold[p][w]]
  /\ hold' = [hold EXCEPT ![p][w] = 0]
  /\ wpc' = [wpc EXCEPT ![w] = "idle"]
  /\ UNCHANGED <<file, front, writers, writer_dropped, waiting>>

\* create_in_progress_file fails; append_batch or flush fails; finish fails after the
\* batch was counted.  A file that push_batch has taken is neither put back nor
\* marked as finished.
PushFails(w, p, batch, size) ==
  /\ w \in MayFail
  /\ \/ /\ wpc[w] \in {"create", "append"}
        /\ UNCHANGED <<file, waiting>>
     \/ /\ wpc[w] = "append" /\ file[p][hold[p][w]].size + size > MaxFileSize
        /\ file' = [file EXCEPT ![p][hold[p][w]] = [@ EXCEPT !.batches = Append(@, batch),
                                                              !.size = @ + size]]
        /\ WakeFile(p, hold[p][w])
  /\ wpc' = [wpc EXCEPT ![w] = "idle"]
  /\ hold' = [hold EXCEPT ![p][w] = 0]
  /\ UNCHANGED <<front, current, writers, writer_dropped>>

--------------------------------------------------------------------------------
(* Drop for SpillPoolWriter: the last clone finishes the current file. *)

DropWriter(w, p) ==
  LET last == writers[p] = {w} IN
  /\ wpc[w] = "idle" /\ w \in writers[p]
  /\ writers' = [writers EXCEPT ![p] = @ \ {w}]
  /\ IF last /\ current[p] # 0
     THEN /\ wpc' = [wpc EXCEPT ![w] = "finish"]
          /\ hold' = [hold EXCEPT ![p][w] = current[p]]
          /\ current' = [current EXCEPT ![p] = 0]
          /\ UNCHANGED <<writer_dropped, waiting>>
     ELSE /\ writer_dropped' = [writer_dropped EXCEPT ![p] = last]
          /\ IF last THEN WakePool(p) ELSE UNCHANGED waiting
          /\ UNCHANGED <<wpc, hold, current>>
  /\ UNCHANGED <<file, front>>

FinishLast(w, p) ==
  /\ wpc[w] = "finish"
  /\ file' = [file EXCEPT ![p][hold[p][w]].finished = TRUE]
  /\ wpc' = [wpc EXCEPT ![w] = "mark"]
  /\ WakeFile(p, hold[p][w])
  /\ UNCHANGED <<front, current, writers, writer_dropped, hold>>

MarkDropped(w, p) ==
  /\ wpc[w] = "mark"
  /\ writer_dropped' = [writer_dropped EXCEPT ![p] = TRUE]
  /\ hold' = [hold EXCEPT ![p][w] = 0]
  /\ wpc' = [wpc EXCEPT ![w] = "idle"]
  /\ WakePool(p)
  /\ UNCHANGED <<file, front, current, writers>>

\* The writer w of the pools ps is dropped where nobody reads or writes them but the
\* other clones: the sections are one step.
DropWriters(w, ps) ==
  LET last(p) == p \in ps /\ writers[p] = {w} IN
  /\ writers' = [p \in Pools |-> IF p \in ps THEN writers[p] \ {w} ELSE writers[p]]
  /\ current' = [p \in Pools |-> IF last(p) THEN 0 ELSE current[p]]
  /\ file' = [p \in Pools |-> [f \in DOMAIN file[p] |->
                [file[p][f] EXCEPT !.finished = @ \/ (last(p) /\ f = current[p])]]]
  /\ writer_dropped' = [p \in Pools |-> writer_dropped[p] \/ last(p)]
  /\ UNCHANGED <<front, wpc, hold, waiting>>

--------------------------------------------------------------------------------
(* SpillPoolReader::poll_next. *)

Readable(p) == reading[p] # 0 /\ batches_read[p] < Len(file[p][reading[p]].batches)
NextBatch(p) == file[p][reading[p]].batches[batches_read[p] + 1]
Exhausted(p) == reading[p] # 0 /\ ~Readable(p) /\ file[p][reading[p]].finished
\* The file that the reader opens when it has none or has read its own to the end.
Following(p) == IF Exhausted(p) THEN front[p] + 1 ELSE front[p]
Between(p) == reading[p] = 0 \/ Exhausted(p)
HasNext(p) == Between(p) /\ Following(p) <= Len(file[p])
Ended(p) == Between(p) /\ Following(p) > Len(file[p]) /\ writer_dropped[p]

ReadBatch(p) ==
  /\ Readable(p)
  /\ batches_read' = [batches_read EXCEPT ![p] = @ + 1]
  /\ UNCHANGED <<file, front, current, writers, writer_dropped, wpc, hold, reading, waiting>>

\* A finished file that was read is popped, and the next in the queue is opened.
NextFile(p) ==
  /\ HasNext(p)
  /\ front' = [front EXCEPT ![p] = Following(p)]
  /\ reading' = [reading EXCEPT ![p] = Following(p)]
  /\ batches_read' = [batches_read EXCEPT ![p] = 0]
  /\ UNCHANGED <<file, current, writers, writer_dropped, wpc, hold, waiting>>

\* Nothing to read and more may come: Pending.
AwaitBatch(p) ==
  /\ ~Readable(p) /\ ~HasNext(p) /\ ~Ended(p)
  /\ waiting' = [waiting EXCEPT ![p] = TRUE]
  /\ UNCHANGED <<file, front, current, writers, writer_dropped, wpc, hold, reading, batches_read>>

\* A file that nobody writes to and that nobody will finish.
Orphan(p) ==
  \E f \in 1..Len(file[p]) :
    ~file[p][f].finished /\ current[p] # f /\ \A w \in Writers : hold[p][w] # f
================================================================================
