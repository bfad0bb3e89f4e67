----------------------------- MODULE CsvLogProofs -----------------------------
(* HeaderFirst and HeadersOfOneRun for any number of writers, rows, pieces,  *)
(* processes and failing writes.                                             *)
EXTENDS CsvLog, SequenceTheorems, TLAPS

Entry == [kind : {"header", "row"}, run : Nat, writer : Writers, row : Nat,
          piece : Nat, whole : BOOLEAN]

Types ==
  /\ log \in {"metrics", "predictions"}
  /\ file \in Seq(Entry)
  /\ run \in Nat
  /\ pc \in [Writers -> {"check", "open", "header", "rows", "done", "failed"}]
  /\ write_header \in [Writers -> BOOLEAN]
  /\ row \in [Writers -> Nat] /\ piece \in [Writers -> Nat]

\* A prediction writer went on after the error of its header.
HeaderDiscarded == log = "predictions" /\ \E e \in lost : e.kind = "header"

\* A writer that will write no header any more found the file with something in
\* it, wrote something, or discarded an error.
HeaderlessSawRows ==
  \A w \in Writers :
    (pc[w] = "rows" \/ (pc[w] = "open" /\ ~write_header[w]))
      => file # <<>> \/ HeaderDiscarded

\* A writer on its way to the header found the file empty in this process, so that
\* whatever comes first in it is of this process.
HeaderSawNothing ==
  /\ ~exists => file = <<>>
  /\ \A w \in Writers :
       /\ pc[w] = "header" => write_header[w]
       /\ pc[w] \in {"open", "header"} /\ write_header[w]
            => file = <<>> \/ file[1].run = run

\* Whoever writes has opened the file, which creates it.
Opened == \A w \in Writers : pc[w] \in {"header", "rows"} => exists

\* A writer that has not come past its header has none in the file.
NotYetWritten ==
  /\ \A n \in DOMAIN file : file[n].run <= run
  /\ \A w \in Writers : pc[w] \in {"check", "open", "header"} =>
       \A n \in DOMAIN file :
         ~(file[n].kind = "header" /\ file[n].run = run /\ file[n].writer = w)

Ind == /\ Types /\ HeaderlessSawRows /\ HeaderSawNothing /\ Opened /\ NotYetWritten
       /\ HeaderFirst /\ HeadersOfOneRun

\* What is in the file after a write that leaves f there.
Grows(f) == /\ file' \in Seq(Entry) /\ file' # <<>>
            /\ DOMAIN file' = DOMAIN file \cup {Len(file) + 1}
            /\ Len(file) + 1 \notin DOMAIN file
            /\ \A n \in DOMAIN file : file'[n] = file[n]
            /\ file'[Len(file) + 1] = f
            /\ file = <<>> => Len(file) = 0
            /\ file # <<>> => 1 \in DOMAIN file

LEMMA AppendGrows ==
  ASSUME file \in Seq(Entry), NEW f \in Entry, file' = Append(file, f)
  PROVE Grows(f)
<1> HIDE DEF Entry
<1>1. /\ file' \in Seq(Entry) /\ Len(file') = Len(file) + 1 /\ file' # <<>>
      /\ \A n \in 1..Len(file) : file'[n] = file[n]
      /\ file'[Len(file) + 1] = f
  BY AppendProperties
<1>2. DOMAIN file = 1..Len(file) /\ DOMAIN file' = 1..Len(file') /\ Len(file) \in Nat
  BY <1>1, LenProperties
<1>3. (file = <<>> => Len(file) = 0) /\ (file # <<>> => 1 \in DOMAIN file)
  BY <1>2, EmptySeq
<1> QED BY <1>1, <1>2, <1>3 DEF Grows

LEMMA InitInd == Init => Ind
  BY LogsAssumption DEF Init, Ind, Types, HeaderlessSawRows, HeaderSawNothing, Opened,
                        NotYetWritten, HeaderFirst, HeadersOfOneRun

\* The emptiness check and the open.
LEMMA ControlStep ==
  ASSUME Ind, NEW w \in Writers, Check(w) \/ Open(w) \/ OpenFails(w)
  PROVE Ind'
<1> USE DEF Ind, Types, HeaderlessSawRows, HeaderSawNothing, Opened, NotYetWritten,
            HeaderFirst, HeadersOfOneRun, HeaderDiscarded
<1>1. CASE Check(w) BY Zenon, <1>1 DEF Check, NeedsHeader
<1>2. CASE Open(w) BY SMTT(20), <1>2 DEF Open
<1>3. CASE OpenFails(w) BY <1>3 DEF OpenFails
<1> QED BY Zenon, <1>1, <1>2, <1>3

\* A write of w, of which f is left in the file.
LEMMA FileGrows ==
  ASSUME Ind, NEW w \in Writers, NEW f \in Entry, file' = Append(file, f),
         f.run = run, f.writer = w, run' = run, log' = log, exists',
         lost \subseteq lost', UNCHANGED write_header,
         NEW q \in {"rows", "done", "failed"}, pc' = [pc EXCEPT ![w] = q],
         row' \in [Writers -> Nat], piece' \in [Writers -> Nat],
         f.kind = "header" => pc[w] = "header",
         f.kind = "row" => pc[w] = "rows"
  PROVE Ind'
<1>1. Grows(f) BY AppendGrows DEF Ind, Types
<1>2. file'[1] = IF file = <<>> THEN f ELSE file[1] BY <1>1 DEF Grows
<1>3. Types' BY Zenon, <1>1 DEF Ind, Types, Grows
<1>4. HeaderlessSawRows' BY <1>1 DEF HeaderlessSawRows, Grows
<1>5. HeaderSawNothing'
  BY SMTT(20), <1>1, <1>2 DEF Ind, Types, HeaderSawNothing, Grows
<1>6. NotYetWritten'
  BY SMTT(20), <1>1 DEF Ind, Types, NotYetWritten, Grows
<1>7. HeaderFirst'
  BY <1>1, <1>2 DEF Ind, HeaderFirst, HeaderlessSawRows, HeaderDiscarded, Grows
<1>8. HeadersOfOneRun'
  <2>1. CASE f.kind = "row"
    BY SMTT(20), <1>1, <1>2, <2>1 DEF Ind, HeadersOfOneRun, Grows
  <2>2. CASE f.kind = "header"
    <3>1. file = <<>> \/ file[1].run = run
      BY <2>2 DEF Ind, HeaderSawNothing
    <3>2. \A n \in DOMAIN file : file[n].kind = "header" => file[n].writer # w
      BY <2>2, <3>1, <1>1 DEF Ind, NotYetWritten, HeadersOfOneRun, Grows
    <3> QED BY SMTT(20), <1>1, <1>2, <3>1, <3>2, <2>2 DEF Ind, HeadersOfOneRun, Grows
  <2> QED BY <2>1, <2>2 DEF Entry
<1>9. Opened' BY DEF Opened
<1> QED BY <1>3, <1>4, <1>5, <1>6, <1>7, <1>8, <1>9 DEF Ind
\* A write of w that leaves nothing in the file.
LEMMA FileStays ==
  ASSUME Ind, NEW w \in Writers, UNCHANGED <<log, file, run, write_header>>, exists',
         lost \subseteq lost',
         NEW q \in {"rows", "done", "failed"}, pc' = [pc EXCEPT ![w] = q],
         row' \in [Writers -> Nat], piece' \in [Writers -> Nat],
         q = "rows" => pc[w] = "rows" \/ HeaderDiscarded'
  PROVE Ind'
<1>1. Types' BY Zenon DEF Ind, Types
<1>2. HeaderlessSawRows' BY DEF Ind, Types, HeaderlessSawRows, HeaderDiscarded
<1>3. HeaderSawNothing' /\ NotYetWritten' /\ HeadersOfOneRun'
  BY SMTT(20) DEF Ind, Types, HeaderSawNothing, NotYetWritten, HeadersOfOneRun
<1>4. HeaderFirst' /\ Opened' BY DEF Ind, HeaderFirst, Opened
<1> QED BY <1>1, <1>2, <1>3, <1>4 DEF Ind

LEMMA HeaderStep ==
  ASSUME Ind, NEW w \in Writers, WriteHeader(w) \/ HeaderFails(w)
  PROVE Ind'
<1> DEFINE h == Header(w)
           cut == [h EXCEPT !.whole = FALSE]
<1>1. /\ h \in Entry /\ h.run = run /\ h.writer = w /\ h.kind = "header"
      /\ cut \in Entry /\ cut.run = run /\ cut.writer = w /\ cut.kind = "header"
  BY Zenon DEF Header, Entry, Ind, Types
<1>2. /\ pc[w] = "header" /\ UNCHANGED <<log, exists, run, write_header, row, piece>>
      /\ lost \subseteq lost'
      /\ row' \in [Writers -> Nat] /\ piece' \in [Writers -> Nat]
  BY DEF WriteHeader, HeaderFails, Succeeds, Fails, Ind, Types
<1>3. exists' BY <1>2 DEF Ind, Opened
<1>4. log = "metrics" \/ log = "predictions" BY DEF Ind, Types
<1>5. PICK q \in {"rows", "failed"} :
        /\ pc' = [pc EXCEPT ![w] = q]
        /\ q = "rows" => WriteHeader(w) \/ log = "predictions"
  BY <1>4, Zenon DEF WriteHeader, HeaderFails
<1>6. CASE file' = Append(file, h) \/ file' = Append(file, cut)
  <2> HIDE DEF h, cut
  <2> QED BY Zenon, <1>1, <1>2, <1>3, <1>5, <1>6, FileGrows
<1>7. CASE HeaderFails(w) /\ ~WriteHeader(w) /\ file' = file
  <2>1. q = "rows" => HeaderDiscarded'
    BY <1>1, <1>2, <1>5, <1>7 DEF HeaderDiscarded, HeaderFails, Fails
  <2> HIDE DEF h, cut
  <2> QED BY Zenon, <1>2, <1>3, <1>5, <1>7, <2>1, FileStays
<1> QED BY <1>6, <1>7 DEF WriteHeader, HeaderFails, Succeeds, Fails

LEMMA PieceStep ==
  ASSUME Ind, NEW w \in Writers, WritePiece(w) \/ PieceFails(w)
  PROVE Ind'
<1> DEFINE e == Write(w, row[w], piece[w])
           cut == [e EXCEPT !.whole = FALSE]
<1>1. /\ e \in Entry /\ e.run = run /\ e.writer = w /\ e.kind = "row"
      /\ cut \in Entry /\ cut.run = run /\ cut.writer = w /\ cut.kind = "row"
  BY Zenon DEF Write, Entry, Ind, Types
<1>2. /\ pc[w] = "rows" /\ UNCHANGED <<log, exists, run, write_header>>
      /\ lost \subseteq lost'
  BY DEF WritePiece, PieceFails, Succeeds, Fails
<1>3. exists' BY <1>2 DEF Ind, Opened
<1>4. row' \in [Writers -> Nat] /\ piece' \in [Writers -> Nat]
  <2>1. \A i \in Nat : /\ [row EXCEPT ![w] = @ + 1] \in [Writers -> Nat]
                       /\ [piece EXCEPT ![w] = i] \in [Writers -> Nat]
                       /\ [piece EXCEPT ![w] = @ + 1] \in [Writers -> Nat]
    BY DEF Ind, Types
  <2>2. row \in [Writers -> Nat] /\ piece \in [Writers -> Nat] BY DEF Ind, Types
  <2>3. CASE NextRow(w) BY <2>1, <2>3 DEF NextRow
  <2>4. CASE ~NextRow(w)
    BY <2>1, <2>2, <2>4, Zenon DEF WritePiece, PieceFails, RowError
  <2> QED BY <2>3, <2>4
<1>5. PICK q \in {"rows", "done", "failed"} : pc' = [pc EXCEPT ![w] = q]
  <2>1. pc = [pc EXCEPT ![w] = "rows"] BY <1>2 DEF Ind, Types
  <2> QED BY <2>1 DEF WritePiece, PieceFails, RowError, NextRow
<1>6. CASE file' = Append(file, e) \/ file' = Append(file, cut)
  <2> HIDE DEF e, cut
  <2> QED BY Zenon, <1>1, <1>2, <1>3, <1>4, <1>5, <1>6, FileGrows
<1>7. CASE file' = file
  BY Zenon, <1>2, <1>3, <1>4, <1>5, <1>7, FileStays
<1> QED BY <1>6, <1>7 DEF WritePiece, PieceFails, Succeeds, Fails

LEMMA RestartStep == Ind /\ Restart => Ind'
<1> SUFFICES ASSUME Ind, Restart PROVE Ind' OBVIOUS
<1>1. Types' BY DEF Ind, Types, Restart, Start
<1>2. HeaderlessSawRows' /\ HeaderSawNothing' /\ Opened'
  BY DEF Ind, HeaderlessSawRows, HeaderSawNothing, Opened, Restart, Start
<1>3. NotYetWritten'
  <2>1. \A n \in DOMAIN file : file[n].run <= run /\ file[n].run \in Nat
    <3>1. file \in Seq(Entry) BY DEF Ind, Types
    <3>2. \A n \in DOMAIN file : file[n] \in Entry BY <3>1, ElementOfSeq, LenProperties
    <3> QED BY <3>2 DEF Ind, NotYetWritten, Entry
  <2>2. run \in Nat /\ run' = run + 1 /\ file' = file BY DEF Ind, Types, Restart
  <2>3. \A n \in DOMAIN file' : file'[n].run <= run' /\ file'[n].run # run'
    BY <2>1, <2>2
  <2> QED BY <2>3 DEF NotYetWritten
<1>4. HeaderFirst' /\ HeadersOfOneRun'
  BY DEF Ind, HeaderFirst, HeadersOfOneRun, Restart
<1> QED BY <1>1, <1>2, <1>3, <1>4 DEF Ind

LEMMA NextInd == Ind /\ [Next]_vars => Ind'
<1> SUFFICES ASSUME Ind, [Next]_vars PROVE Ind' OBVIOUS
<1>1. CASE \E w \in Writers : Check(w) \/ Open(w) \/ OpenFails(w)
  BY <1>1, ControlStep
<1>2. CASE \E w \in Writers : WriteHeader(w) \/ HeaderFails(w)
  BY <1>2, HeaderStep
<1>3. CASE \E w \in Writers : WritePiece(w) \/ PieceFails(w)
  BY <1>3, PieceStep
<1>4. CASE Restart
  BY <1>4, RestartStep
<1>5. CASE UNCHANGED vars
  BY <1>5 DEF vars, writer, Ind, Types, HeaderlessSawRows, HeaderSawNothing, Opened,
              NotYetWritten, HeaderFirst, HeadersOfOneRun, HeaderDiscarded
<1> QED BY <1>1, <1>2, <1>3, <1>4, <1>5 DEF Next, Terminating

LEMMA Invariance == Spec => []Ind
  BY InitInd, NextInd, PTL DEF Spec

\* However many streams write the metrics at the same time, wherever the process is
\* killed and whichever writes fail, write_metrics never leaves a file that starts
\* with a row, and write_predictions_csv only after it discarded the error of a
\* header.
THEOREM HeaderAlwaysFirst == Spec => []HeaderFirst
<1>1. Ind => HeaderFirst BY DEF Ind
<1> QED BY Invariance, <1>1, PTL

\* Headers repeat only among the writers of the process that wrote to the file
\* first, and each of them writes at most one.
THEOREM HeadersRepeatInOneRun == Spec => []HeadersOfOneRun
<1>1. Ind => HeadersOfOneRun BY DEF Ind
<1> QED BY Invariance, <1>1, PTL
===============================================================================
