----------------------------- MODULE HashJoinProofs -----------------------------
(* HashJoin for any number of partitions, any rows and any join: the dynamic filter *)
(* admits every row with a partner, and the rows that are left are returned once    *)
(* nobody can visit one any more.                                                   *)
EXTENDS HashJoin, TLAPS

States == {"WaitBuildSide", "WaitPartitionBoundsReport", "leader", "FetchProbeBatch",
           "ProcessProbeBatch", "ExhaustedProbeSide", "last", "Completed", "failed"}

\* What the steps may rely on: the operator and its inputs, the states, the sets.
Shape ==
  /\ join \in JoinChoices /\ left \in LeftChoices(join.mode)
  /\ probe \in ProbeChoices(join.mode)
  /\ state \in [Parts -> States] /\ running \in [Parts -> SUBSET Parts]
  /\ emitted \subseteq Parts /\ arrived \subseteq Parts

\* Whoever is at the barrier has reported, and its leader came last.
Reported == /\ \A p \in arrived : Build(p) \in partitions
            /\ \A p \in Parts : state[p] = "leader" => arrived = Parts
            /\ \A p \in Parts :
                 state[p] \in {"WaitPartitionBoundsReport", "leader"} => join.pushed

\* A stream is counted until it reports the end of its probe side; the last one to report
\* finds nobody else counted.
Counted ==
  /\ \A p \in Parts : p \in running[Build(p)] \/ state[p] \in {"last", "Completed"}
  /\ \A p \in Parts : state[p] = "last" => running[Build(p)] = {}
  /\ \A p, q \in Parts : state[p] = "last" /\ state[q] = "last" /\ Build(p) = Build(q) => p = q
  /\ \A b \in emitted : running[b] = {} /\ \A p \in Probes(b) : state[p] # "last"

\* What all the other steps of a stream do to these variables.
Move(p) ==
  /\ state[p] \notin {"last", "Completed"}
  /\ \E s \in States \ {"leader", "last"} :
       /\ state' = [state EXCEPT ![p] = s]
       /\ s = "WaitPartitionBoundsReport" => join.pushed
  /\ UNCHANGED <<join, left, probe, rejects, partitions, arrived, filter, running, emitted>>

\* The steps that neither meet at the barrier nor count down are such moves.
LEMMA PollMoves ==
  ASSUME Shape, Reported, NEW p \in Parts,
         \/ collect_build_side(p) \/ wait_for_partition_bounds_report(p)
         \/ fetch_probe_batch(p) \/ SkipBatch(p) \/ JoinEmpty(p)
         \/ process_probe_batch(p) \/ FinishQuietly(p) \/ Abandon(p)
  PROVE  Move(p)
<1>1. state \in [Parts -> States]
  BY DEF Shape
<1>2. state = [state EXCEPT ![p] = state[p]] /\ state[p] \in States
  BY SMTT(20), <1>1
<1>3. CASE collect_build_side(p)
  <2>1. /\ state[p] = "WaitBuildSide"
        /\ \E s \in {"failed", "WaitPartitionBoundsReport", "FetchProbeBatch"} :
             state' = [state EXCEPT ![p] = s] /\ (s = "WaitPartitionBoundsReport" => join.pushed)
    <3>1. CASE build[Build(p)] = "failed"
      BY <1>3, <3>1 DEF collect_build_side
    <3>2. CASE build[Build(p)] # "failed" /\ join.pushed
      BY <1>3, <3>2 DEF collect_build_side
    <3>3. CASE build[Build(p)] # "failed" /\ ~join.pushed
      BY Zenon, <1>3, <3>3 DEF collect_build_side
    <3> QED
      BY <3>1, <3>2, <3>3
  <2>2. UNCHANGED <<join, left, probe, rejects, partitions, arrived, filter, running, emitted>>
    BY <1>3 DEF collect_build_side, input, accumulator, shared
  <2> QED
    BY Zenon, <2>1, <2>2 DEF Move, States
<1>4. CASE wait_for_partition_bounds_report(p)
  <2>1. /\ state[p] = "WaitPartitionBoundsReport"
        /\ \E s \in {"FetchProbeBatch"} : state' = [state EXCEPT ![p] = s]
    BY <1>4 DEF wait_for_partition_bounds_report
  <2>2. UNCHANGED <<join, left, probe, rejects, partitions, arrived, filter, running, emitted>>
    BY <1>4 DEF wait_for_partition_bounds_report, input, accumulator, shared
  <2> QED
    BY Zenon, <2>1, <2>2 DEF Move, States
<1>5. CASE fetch_probe_batch(p)
  <2>1. /\ state[p] = "FetchProbeBatch"
        /\ \/ state' = [state EXCEPT ![p] = "ExhaustedProbeSide"]
           \/ state' = [state EXCEPT ![p] = "ProcessProbeBatch"]
    BY <1>5, Zenon DEF fetch_probe_batch, ProbeSideEnded
  <2>2. UNCHANGED <<join, left, probe, rejects, partitions, arrived, filter, running, emitted>>
    BY SMTT(20), <1>5 DEF fetch_probe_batch, input, accumulator, shared
  <2> QED
    BY <2>1, <2>2 DEF Move, States
<1>6. CASE SkipBatch(p)
  <2>1. /\ state[p] = "ProcessProbeBatch"
        /\ \E s \in {"FetchProbeBatch"} : state' = [state EXCEPT ![p] = s]
    BY <1>6 DEF SkipBatch
  <2>2. UNCHANGED <<join, left, probe, rejects, partitions, arrived, filter, running, emitted>>
    BY <1>6 DEF SkipBatch, input, accumulator
  <2> QED
    BY Zenon, <2>1, <2>2 DEF Move, States
<1>7. CASE JoinEmpty(p)
  <2>1. /\ state[p] = "ProcessProbeBatch"
        /\ \E s \in {"FetchProbeBatch"} : state' = [state EXCEPT ![p] = s]
    BY <1>7 DEF JoinEmpty
  <2>2. UNCHANGED <<join, left, probe, rejects, partitions, arrived, filter, running, emitted>>
    BY <1>7 DEF JoinEmpty, input, accumulator
  <2> QED
    BY Zenon, <2>1, <2>2 DEF Move, States
<1>8. CASE process_probe_batch(p)
  <2>1. /\ state[p] = "ProcessProbeBatch"
        /\ \/ \E s \in {"Completed", "FetchProbeBatch"} : state' = [state EXCEPT ![p] = s]
           \/ state' = state
    BY <1>8 DEF process_probe_batch
  <2>2. UNCHANGED <<join, left, probe, rejects, partitions, arrived, filter, running, emitted>>
    BY <1>8 DEF process_probe_batch, input, accumulator
  <2>3. \E s \in {"Completed", "FetchProbeBatch", "ProcessProbeBatch"} :
          state' = [state EXCEPT ![p] = s]
    BY SMTT(20), <1>2, <2>1
  <2> QED
    BY Zenon, <2>1, <2>2, <2>3 DEF Move, States
<1>9. CASE FinishQuietly(p)
  <2>1. /\ state[p] = "ExhaustedProbeSide"
        /\ \E s \in {"Completed"} : state' = [state EXCEPT ![p] = s]
    BY <1>9 DEF FinishQuietly
  <2>2. UNCHANGED <<join, left, probe, rejects, partitions, arrived, filter, running, emitted>>
    BY <1>9 DEF FinishQuietly, input, accumulator, shared
  <2> QED
    BY Zenon, <2>1, <2>2 DEF Move, States
<1>10. CASE Abandon(p)
  <2>1. /\ state[p] \notin {"last", "Completed"}
        /\ \E s \in {"failed"} : state' = [state EXCEPT ![p] = s]
    BY <1>10 DEF Abandon
  <2>2. UNCHANGED <<join, left, probe, rejects, partitions, arrived, filter, running, emitted>>
    BY <1>10 DEF Abandon, input, accumulator, shared
  <2> QED
    BY Zenon, <2>1, <2>2 DEF Move, States
<1> QED
  BY SMTT(20), <1>3, <1>4, <1>5, <1>6, <1>7, <1>8, <1>9, <1>10

\* The same, of every step.
LEMMA Steps ==
  ASSUME Shape, Reported, [Next]_vars
  PROVE  \/ \E p \in Parts : \/ Move(p) \/ report_build_data(p) \/ update(p)
                            \/ report_probe_completed(p) \/ process_unmatched_build_batch(p)
         \/ UNCHANGED <<join, left, probe, rejects, state, partitions, arrived, filter,
                        running, emitted>>
<1>1. ASSUME NEW b \in Parts, CollectLeft(b)
      PROVE UNCHANGED <<join, left, probe, rejects, state, partitions, arrived, filter,
                        running, emitted>>
  BY SMTT(20), <1>1 DEF CollectLeft, input, accumulator, shared
<1>2. Terminating \/ UNCHANGED vars
        => UNCHANGED <<join, left, probe, rejects, state, partitions, arrived, filter,
                       running, emitted>>
  BY DEF Terminating, vars
<1> QED
  BY <1>1, <1>2, PollMoves DEF Next, poll_next

Ind == Shape /\ Reported /\ Counted

\* Every stream has a build side.
LEMMA BuildInParts == ASSUME NEW p \in Parts PROVE Build(p) \in Parts
BY SMTT(20), JoinAssumption DEF Build

\* The invariant holds before the streams are polled.
LEMMA InitInd == Init => Ind
<1> SUFFICES ASSUME Init PROVE Ind
  OBVIOUS
<1>1. Shape
  BY SMTT(20) DEF Init, Shape, States, Probes
<1>2. Reported
  BY SMTT(20) DEF Init, Reported
<1>3. Counted
  BY SMTT(20), BuildInParts DEF Init, Counted, Probes
<1> QED
  BY SMTT(20), <1>1, <1>2, <1>3 DEF Ind

\* A move keeps it,
LEMMA MoveKeeps == ASSUME Ind, NEW p \in Parts, Move(p) PROVE Ind'
<1>1. PICK s \in States \ {"leader", "last"} :
        state' = [state EXCEPT ![p] = s] /\ (s = "WaitPartitionBoundsReport" => join.pushed)
  BY Zenon DEF Move
<1>2. state \in [Parts -> States]
  BY DEF Ind, Shape
<1>3. /\ \A q \in Parts \ {p} : state'[q] = state[q]
      /\ state'[p] = s /\ state[p] \notin {"last", "Completed"}
  BY <1>1, <1>2 DEF Move
<1>4. UNCHANGED <<join, left, probe, rejects, partitions, arrived, filter, running, emitted>>
  BY DEF Move
<1>5. Shape'
  BY <1>1, <1>2, <1>4 DEF Ind, Shape
<1>6. Reported'
  BY SMTT(20), <1>1, <1>3, <1>4 DEF Ind, Reported, Build
<1>7. Counted'
  <2>1. p \in running[Build(p)]
    BY SMTT(20), <1>3 DEF Ind, Counted
  <2> QED
    BY SMTT(20), <1>3, <1>4, <2>1 DEF Ind, Counted, Build, Probes
<1> QED
  BY SMTT(20), <1>5, <1>6, <1>7 DEF Ind

\* ... the two halves of report_build_data do,
LEMMA ReportKeeps ==
  ASSUME Ind, NEW p \in Parts, report_build_data(p) \/ update(p)
  PROVE  Ind'
<1>1. state \in [Parts -> States]
  BY SMTT(20) DEF Ind, Shape
<1>2. /\ \A q \in Parts \ {p} : state'[q] = state[q]
      /\ state[p] \in {"WaitPartitionBoundsReport", "leader"}
      /\ state'[p] \in {"WaitPartitionBoundsReport", "leader", "FetchProbeBatch"}
      /\ state'[p] = "leader" => arrived' = Parts
      /\ state' \in [Parts -> States]
  BY SMTT(20), <1>1 DEF report_build_data, update, States
<1>3. /\ UNCHANGED <<join, left, probe, rejects, running, emitted>>
      /\ arrived' \in {arrived, arrived \cup {p}}
      /\ partitions \subseteq partitions'
      /\ arrived' = arrived \/ Build(p) \in partitions'
  BY SMTT(20) DEF report_build_data, update, input, shared
<1>4. Shape'
  BY SMTT(20), <1>2, <1>3 DEF Ind, Shape
<1>5. Reported'
  <2>1. \A q \in arrived' : Build(q)' \in partitions'
    BY SMTT(20), <1>3 DEF Ind, Reported, Build
  <2>2. ASSUME NEW q \in Parts, state'[q] = "leader" PROVE arrived' = Parts
    <3>1. CASE q = p
      BY SMTT(20), <1>2, <2>2, <3>1
    <3>2. CASE q # p
      BY SMTT(20), <1>2, <1>3, <2>2, <3>2 DEF Ind, Reported, Shape
    <3> QED
      BY SMTT(20), <3>1, <3>2
  <2>3. join.pushed
    BY SMTT(20), <1>2 DEF Ind, Reported
  <2> QED
    BY SMTT(20), <1>3, <2>1, <2>2, <2>3 DEF Reported
<1>6. Counted'
  BY SMTT(20), <1>2, <1>3 DEF Ind, Counted, Build, Probes
<1> QED
  BY SMTT(20), <1>4, <1>5, <1>6 DEF Ind

\* ... and so does the end of a probe side: the last to report finds every other stream
\* of its build side completed.
LEMMA CompletedKeeps ==
  ASSUME Ind, NEW p \in Parts, report_probe_completed(p)
  PROVE  Ind'
<1> DEFINE b == Build(p)
<1>1. state \in [Parts -> States] /\ running \in [Parts -> SUBSET Parts] /\ b \in Parts
  BY SMTT(20), BuildInParts DEF Ind, Shape
<1>2. /\ UNCHANGED <<join, left, probe, rejects, partitions, arrived, emitted>>
      /\ running' = [running EXCEPT ![b] = @ \ {p}]
      /\ state[p] = "ExhaustedProbeSide"
      /\ state' = [state EXCEPT ![p] = IF running'[b] = {} THEN "last" ELSE "Completed"]
  BY SMTT(20) DEF report_probe_completed, input, accumulator
<1> HIDE DEF b
<1>3. /\ \A q \in Parts \ {p} : state'[q] = state[q]
      /\ state'[p] = "last" => running'[b] = {}
      /\ state'[p] \in {"last", "Completed"}
      /\ \A c \in Parts \ {b} : running'[c] = running[c]
      /\ running'[b] = running[b] \ {p}
  BY SMTT(20), <1>1, <1>2
<1>4. Shape'
  <2>1. state' \in [Parts -> States]
    BY SMTT(20), <1>1, <1>2 DEF States
  <2>2. running' \in [Parts -> SUBSET Parts]
    BY SMTT(20), <1>1, <1>2
  <2> QED
    BY SMTT(20), <1>2, <2>1, <2>2 DEF Ind, Shape
<1>5. Reported'
  BY SMTT(20), <1>2, <1>3 DEF Ind, Reported, Build
<1>6. p \in running[b]
  BY SMTT(20), <1>2 DEF Ind, Counted, b
<1>7. \A q \in Parts : Build(q)' = Build(q) /\ Build(q) \in Parts
  BY SMTT(20), <1>2, BuildInParts DEF Build
<1>8. /\ \A q \in Parts : q \in running'[Build(q)] \/ state'[q] \in {"last", "Completed"}
      /\ \A q \in Parts : state'[q] = "last" => running'[Build(q)] = {}
  BY SMTT(20), <1>3, <1>6, <1>7 DEF Ind, Counted, b
<1>9. ASSUME NEW q \in Parts, NEW r \in Parts,
             state'[q] = "last", state'[r] = "last", Build(q) = Build(r)
      PROVE  q = r
  BY SMTT(20), <1>3, <1>6, <1>9 DEF Ind, Counted, b
<1>10. ASSUME NEW c \in emitted
       PROVE  running'[c] = {} /\ \A q \in Parts : Build(q) = c => state'[q] # "last"
  <2>1. running[c] = {} /\ c # b /\ c \in Parts
    BY SMTT(20), <1>6 DEF Ind, Counted, Shape
  <2> QED
    BY SMTT(20), <1>3, <2>1 DEF Ind, Counted, Probes, b
<1>11. Counted'
  BY SMTT(20), <1>2, <1>7, <1>8, <1>9, <1>10 DEF Counted, Probes
<1> QED
  BY SMTT(20), <1>4, <1>5, <1>11 DEF Ind

\* The last stream returns the rows that are left, when it is the only one not completed.
LEMMA UnmatchedKeeps ==
  ASSUME Ind, NEW p \in Parts, process_unmatched_build_batch(p)
  PROVE  Ind'
<1>1. state \in [Parts -> States] /\ Build(p) \in Parts
  BY SMTT(20), BuildInParts DEF Ind, Shape
<1>2. /\ UNCHANGED <<join, left, probe, rejects, partitions, arrived, running>>
      /\ emitted' = emitted \cup {Build(p)}
      /\ state[p] = "last" /\ state' = [state EXCEPT ![p] = "Completed"]
  BY SMTT(20) DEF process_unmatched_build_batch, input, accumulator
<1>3. (\A q \in Parts \ {p} : state'[q] = state[q]) /\ state'[p] = "Completed"
  BY SMTT(20), <1>1, <1>2
<1>4. Shape'
  BY SMTT(20), <1>1, <1>2 DEF Ind, Shape, States
<1>5. Reported'
  BY SMTT(20), <1>2, <1>3 DEF Ind, Reported, Build
<1>6. \A q \in Parts : Build(q)' = Build(q)
  BY SMTT(20), <1>2 DEF Build
<1>7. \A q \in Parts : q \in running[Build(q)] \/ state'[q] \in {"last", "Completed"}
  BY SMTT(20), <1>3 DEF Ind, Counted
<1>8. \A q \in Parts : state'[q] = "last" => state[q] = "last" /\ Build(q) # Build(p)
  BY SMTT(20), <1>2, <1>3 DEF Ind, Counted
<1>9. ASSUME NEW c \in emitted'
      PROVE  running[c] = {} /\ \A q \in Parts : Build(q) = c => state'[q] # "last"
  BY SMTT(20), <1>2, <1>8, <1>9 DEF Ind, Counted, Probes
<1>10. Counted'
  <2>1. \A q \in Parts : state'[q] = "last" => running[Build(q)] = {}
    BY SMTT(20), <1>8 DEF Ind, Counted
  <2>2. \A q, r \in Parts : state'[q] = "last" /\ state'[r] = "last" /\ Build(q) = Build(r)
                            => q = r
    BY SMTT(20), <1>8 DEF Ind, Counted
  <2> QED
    BY SMTT(20), <1>2, <1>6, <1>7, <1>9, <2>1, <2>2 DEF Counted, Probes
<1> QED
  BY <1>4, <1>5, <1>10 DEF Ind

\* The invariant is inductive.
LEMMA NextInd == Ind /\ [Next]_vars => Ind'
<1> SUFFICES ASSUME Ind, [Next]_vars PROVE Ind'
  BY SMTT(20)
<1>1. CASE UNCHANGED <<join, left, probe, rejects, state, partitions, arrived, filter,
                       running, emitted>>
  BY SMTT(20), <1>1 DEF Ind, Shape, Reported, Counted, Build, Probes
<1>2. Shape /\ Reported
  BY DEF Ind
<1> QED
  BY SMTT(20), <1>1, <1>2, Steps, MoveKeeps, ReportKeeps, CompletedKeeps, UnmatchedKeeps

\* ... and so holds always.
LEMMA Invariance == Spec => []Ind
BY InitInd, NextInd, PTL DEF Spec

\* For any number of streams, the rows that only the whole probe side decides are returned
\* when every stream of their build side has completed: process_unmatched_build_batch runs
\* past report_probe_completed once, for the last of them.
THEOREM UnmatchedAtTheEnd == Spec => []UnmatchedIsFinal
<1>1. Ind => UnmatchedIsFinal
  BY SMTT(20) DEF Ind, Counted, UnmatchedIsFinal, Probes
<1> QED
  BY <1>1, Invariance, PTL

\* A probe row with a partner has the key of a build row of its side.
LEMMA PartnerKey ==
  ASSUME Ind, ~join.nulls_equal, NEW p \in Parts, NEW r \in RowsOf(p), Partners(p, r) # {}
  PROVE  /\ r.key \in Members(Build(p)) /\ r.key \in Keys /\ left[Build(p)] # <<>>
         /\ join.mode = "Partitioned" => Route[r.key] = Build(p)
<1>1. PICK i \in DOMAIN left[Build(p)] : Joined(Build(p), i, r)
  BY SMTT(20) DEF Partners
<1>2. left[Build(p)][i] = r.key /\ r.key # Null
  BY SMTT(20), <1>1 DEF Joined, equal_rows
<1>3. /\ Build(p) \in Parts /\ left \in [Parts -> Seq(Values)]
      /\ join.mode = "Partitioned" =>
           \A b \in Parts : \A n \in DOMAIN left[b] : Route[left[b][n]] = b
  BY SMTT(20), BuildInParts, DataAssumption, ModeAssumption DEF Ind, Shape
<1>4. left[Build(p)] \in Seq(Values)
  BY SMTT(20), <1>3
<1>5. left[Build(p)][i] \in Values /\ left[Build(p)] # <<>>
  BY SMTT(20), <1>4
<1> QED
  BY SMTT(20), <1>2, <1>3, <1>5 DEF Members, Values, ToSet

\* The leader's filter admits it: every partition has reported by then.
LEMMA UpdateAdmits ==
  ASSUME Ind, ~join.nulls_equal, NEW q \in Parts, update(q)
  PROVE  FilterAdmitsMatches'
<1>1. /\ UNCHANGED <<join, left, probe, rejects>> /\ filter' = FilterExpr
      /\ state[q] = "leader"
  BY DEF update, input
<1>2. \A p \in Parts : Build(p) \in partitions
  BY <1>1 DEF Ind, Reported
<1>3. ASSUME NEW p \in Parts, NEW r \in RowsOf(p), Partners(p, r) # {}
      PROVE  r.key \in FilterExpr
  <2> DEFINE full == {b \in partitions : left[b] # <<>>}
  <2>1. Build(p) \in full /\ r.key \in Members(Build(p)) /\ r.key \in Keys
    BY SMTT(20), <1>2, <1>3, PartnerKey
  <2>2. CASE join.mode = "CollectLeft"
    BY SMTT(20), <2>1, <2>2 DEF FilterExpr, Build
  <2>3. CASE join.mode # "CollectLeft"
    <3>1. Route[r.key] = Build(p)
      BY SMTT(20), <1>3, <2>3, PartnerKey, ModeAssumption DEF Ind, Shape
    <3> QED
      BY SMTT(20), <2>1, <2>3, <3>1 DEF FilterExpr
  <2> QED
    BY <2>2, <2>3
<1> QED
  BY SMTT(20), <1>1, <1>3
     DEF FilterAdmitsMatches, RowsOf, Partners, Joined, equal_rows, Build

\* In every join but one that equates nulls, the dynamic filter admits every probe row that
\* has a partner, however many partitions report to the accumulator and in which order.
THEOREM FilterIsComplete ==
  ASSUME \A j \in JoinChoices : j.pushed => ~j.nulls_equal
  PROVE  Spec => []FilterAdmitsMatches
<1>1. Init => FilterAdmitsMatches
  <2> SUFFICES ASSUME Init, NEW p \in Parts, NEW r \in RowsOf(p) PROVE r.key \in filter
    BY SMTT(20) DEF FilterAdmitsMatches
  <2> DEFINE Row == [key : Values, id : Nat]
  <2>1. probe \in [Parts -> Seq(Seq(Row))]
    BY Zenon, DataAssumption, ModeAssumption DEF Init
  <2>2. PICK n \in DOMAIN probe[p] : r \in ToSet(probe[p][n])
    BY DEF RowsOf
  <2>3. r \in Row
    <3> HIDE DEF Row
    <3>1. probe[p] \in Seq(Seq(Row))
      BY <2>1
    <3>2. probe[p][n] \in Seq(Row)
      BY SMTT(20), <2>2, <3>1
    <3>3. PICK i \in DOMAIN probe[p][n] : r = probe[p][n][i]
      BY SMTT(20), <2>2 DEF ToSet
    <3> QED
      BY <3>2, <3>3
  <2> QED
    BY SMTT(20), <2>3 DEF Init
<1>2. Ind /\ FilterAdmitsMatches /\ [Next]_vars => FilterAdmitsMatches'
  <2> SUFFICES ASSUME Ind, FilterAdmitsMatches, [Next]_vars PROVE FilterAdmitsMatches'
    BY SMTT(20)
  <2>1. ASSUME NEW q \in Parts, update(q) PROVE FilterAdmitsMatches'
    <3>1. join \in JoinChoices /\ join.pushed
      BY SMTT(20), <2>1 DEF update, Ind, Shape, Reported
    <3> QED
      BY SMTT(20), <2>1, <3>1, UpdateAdmits
  <2>2. CASE UNCHANGED <<join, left, probe, rejects, filter>>
    BY SMTT(20), <2>2 DEF FilterAdmitsMatches, RowsOf, Partners, Joined, equal_rows, Build
  <2>3. ASSUME NEW q \in Parts,
               \/ Move(q) \/ report_build_data(q) \/ report_probe_completed(q)
               \/ process_unmatched_build_batch(q)
        PROVE  UNCHANGED <<join, left, probe, rejects, filter>>
    BY SMTT(20), <2>3 DEF Move, report_build_data, report_probe_completed,
                process_unmatched_build_batch, input, accumulator
  <2>4. Shape /\ Reported
    BY DEF Ind
  <2> QED
    BY SMTT(20), <2>1, <2>2, <2>3, <2>4, Steps
<1> QED
  BY <1>1, <1>2, Invariance, PTL DEF Spec
=================================================================================
