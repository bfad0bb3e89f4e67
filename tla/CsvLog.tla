-------------------------------- MODULE CsvLog --------------------------------
(****************************************************************************)
(* The two CSV files that the optimizer and the probe streams append to:    *)
(* write_metrics (one row per probe stream, handed to the file in one       *)
(* write; every error is unwrapped and panics) and write_predictions_csv    *)
(* (one row per candidate, which the formatter hands to the unbuffered file *)
(* piece by piece; the errors of header and rows are discarded).  Writers   *)
(* are probe streams or planned queries of one process, on several threads. *)
(* The file outlives the process: a kill between two writes and a later     *)
(* process that appends are part of the model.                              *)
(****************************************************************************)
EXTENDS Naturals, Sequences, FiniteSets

CONSTANTS
  Logs,        \* the files Init ranges over
  Writers,
  Candidates,  \* rows of write_predictions_csv
  FmtPieces,   \* writes of one of its formatted rows
  MaxRuns,     \* processes that append to the file, one after the other
  MaxFailures  \* writes that fail

ASSUME LogsAssumption == Logs \subseteq {"metrics", "predictions"}
ASSUME SizesAssumption ==
  /\ Candidates \in Nat \ {0} /\ FmtPieces \in Nat \ {0}
  /\ MaxRuns \in Nat \ {0} /\ MaxFailures \in Nat

VARIABLES
  log,            \* which of the two files this is (constant in a behaviour)
  exists, file,   \* the file: a sequence of writes
  lost,           \* the writes that returned an error, read by no guard
  run,            \* which process is running
  pc, write_header, row, piece   \* per writer

writer == <<pc, write_header, row, piece>>
vars == <<log, exists, file, lost, run, writer>>

Rows == IF log = "metrics" THEN 1 ELSE Candidates
Pieces == IF log = "metrics" THEN 1 ELSE FmtPieces

Header(w) ==
  [kind |-> "header", run |-> run, writer |-> w, row |-> 0, piece |-> 0, whole |-> TRUE]
Write(w, r, k) ==
  [kind |-> "row", run |-> run, writer |-> w, row |-> r, piece |-> k, whole |-> TRUE]

Start ==
  /\ pc' = [w \in Writers |-> "check"]
  /\ write_header' = [w \in Writers |-> FALSE]
  /\ row' = [w \in Writers |-> 1] /\ piece' = [w \in Writers |-> 1]

Init ==
  /\ log \in Logs
  /\ exists = FALSE /\ file = <<>> /\ lost = {} /\ run = 1
  /\ pc = [w \in Writers |-> "check"]
  /\ write_header = [w \in Writers |-> FALSE]
  /\ row = [w \in Writers |-> 1] /\ piece = [w \in Writers |-> 1]

\* !exists() || metadata().len() == 0 (mutants: the first half alone; the test of
\* the length inverted).
NeedsHeaderIfAbsent == ~exists
NeedsHeaderIfWritten == ~exists \/ file # <<>>
NeedsHeader == ~exists \/ file = <<>>

Check(w) ==
  /\ pc[w] = "check"
  /\ write_header' = [write_header EXCEPT ![w] = NeedsHeader]
  /\ pc' = [pc EXCEPT ![w] = "open"]
  /\ UNCHANGED <<log, exists, file, lost, run, row, piece>>

Open(w) ==
  /\ pc[w] = "open"
  /\ exists' = TRUE
  /\ pc' = [pc EXCEPT ![w] = IF write_header[w] THEN "header" ELSE "rows"]
  /\ UNCHANGED <<log, file, lost, run, write_header, row, piece>>

\* write_predictions_csv warns and returns; write_metrics panics in its stream.
OpenFails(w) ==
  /\ pc[w] = "open"
  /\ pc' = [pc EXCEPT ![w] = "failed"]
  /\ UNCHANGED <<log, exists, file, lost, run, write_header, row, piece>>
-------------------------------------------------------------------------------
\* One write_all on the file, which is open for appending, so that the operating
\* system puts the bytes at the end.
Succeeds(e) == file' = Append(file, e) /\ UNCHANGED lost

\* write_all returns an error, as on a full disk: nothing of e is in the file, or
\* its beginning is.
Fails(e) ==
  /\ Cardinality(lost) < MaxFailures
  /\ file' \in {file, Append(file, [e EXCEPT !.whole = FALSE])}
  /\ lost' = lost \cup {e}

WriteHeader(w) ==
  /\ pc[w] = "header"
  /\ Succeeds(Header(w))
  /\ pc' = [pc EXCEPT ![w] = "rows"]
  /\ UNCHANGED <<log, exists, run, write_header, row, piece>>

\* write_metrics panics, write_predictions_csv goes on with its rows.
HeaderFails(w) ==
  /\ pc[w] = "header"
  /\ Fails(Header(w))
  /\ pc' = [pc EXCEPT ![w] = IF log = "metrics" THEN "failed" ELSE "rows"]
  /\ UNCHANGED <<log, exists, run, write_header, row, piece>>

\* The loop over the candidates goes on to the next row, or ends.
NextRow(w) ==
  /\ pc' = IF row[w] = Rows THEN [pc EXCEPT ![w] = "done"] ELSE pc
  /\ row' = [row EXCEPT ![w] = @ + 1]
  /\ piece' = [piece EXCEPT ![w] = 1]

WritePiece(w) ==
  /\ pc[w] = "rows"
  /\ Succeeds(Write(w, row[w], piece[w]))
  /\ \/ piece[w] = Pieces /\ NextRow(w)
     \/ /\ piece[w] < Pieces
        /\ piece' = [piece EXCEPT ![w] = @ + 1]
        /\ UNCHANGED <<pc, row>>
  /\ UNCHANGED <<log, exists, run, write_header>>

\* write_metrics panics; the formatter of write_predictions_csv gives up the rest
\* of the row, and the loop goes on (mutant: it breaks off).
RowErrorBreaks(w) ==
  /\ pc' = [pc EXCEPT ![w] = IF log = "metrics" THEN "failed" ELSE "done"]
  /\ UNCHANGED <<row, piece>>
RowError(w) ==
  \/ log = "predictions" /\ NextRow(w)
  \/ /\ log = "metrics"
     /\ pc' = [pc EXCEPT ![w] = "failed"]
     /\ UNCHANGED <<row, piece>>

PieceFails(w) ==
  /\ pc[w] = "rows"
  /\ Fails(Write(w, row[w], piece[w]))
  /\ RowError(w)
  /\ UNCHANGED <<log, exists, run, write_header>>
-------------------------------------------------------------------------------
\* The process ends, in the middle of anything, and another one starts.
Restart ==
  /\ run < MaxRuns
  /\ run' = run + 1
  /\ Start
  /\ UNCHANGED <<log, exists, file, lost>>

Terminating == (\A w \in Writers : pc[w] \in {"done", "failed"}) /\ UNCHANGED vars

Next ==
  \/ \E w \in Writers : \/ Check(w) \/ Open(w) \/ OpenFails(w)
                        \/ WriteHeader(w) \/ HeaderFails(w)
                        \/ WritePiece(w) \/ PieceFails(w)
  \/ Restart \/ Terminating

Spec == Init /\ [][Next]_vars
-------------------------------------------------------------------------------
\* The metrics file never starts with a row, wherever a process was killed and
\* whichever write failed: what comes first is a header, at worst the beginning of
\* one.  The predictions file starts with a row only if the write of a header
\* failed, whose error write_predictions_csv discards.
HeaderFirst ==
  file # <<>> /\ file[1].kind = "row" =>
    log = "predictions" /\ \E e \in lost : e.kind = "header"

\* Headers repeat only when writers of one process meet at the emptiness check of
\* an empty file: none is added by a process that comes after the one that wrote
\* first, and no writer adds two.
HeadersOfOneRun ==
  \A m \in DOMAIN file : file[m].kind = "header" =>
    /\ file[m].run = file[1].run
    /\ \A n \in DOMAIN file : file[n].kind = "header" /\ file[n].writer = file[m].writer
                                => n = m

\* The pieces of all rows in the order of the loop of w.
Loop(w) == [n \in 1..(Rows * Pieces) |->
              Write(w, ((n - 1) \div Pieces) + 1, ((n - 1) % Pieces) + 1)]

\* A failing write costs its own row from there on and nothing else: a writer
\* of predictions that is done has all the other pieces in the file, once and in
\* the order of its loop, and a writer of metrics is done only if nothing failed.
DoneMeansWritten ==
  \A w \in Writers : pc[w] = "done" =>
    LET mine == SelectSeq(file, LAMBDA e : /\ e.kind = "row" /\ e.whole
                                           /\ e.run = run /\ e.writer = w)
        Abandoned(e) == \E k \in 1..e.piece : Write(w, e.row, k) \in lost
    IN mine = IF log = "metrics" THEN Loop(w)
              ELSE SelectSeq(Loop(w), LAMBDA e : ~Abandoned(e))
===============================================================================
