------------------------- MODULE BloomTransferProofs -------------------------
(***************************************************************************)
(* BloomTransfer for any number of partitions, any keys and any inputs:    *)
(* a probe partition filters only with its own build partition's filter,   *)
(* loses no row of the join, and the filtered join implements InnerJoin.   *)
(***************************************************************************)
EXTENDS BloomTransfer, TLAPS

USE DEF config

\* In the other mode all partitions share one build side.
ShapeOK == Shape(buildOf)

\* The build stream has remembered every key it has read.
ReadKept == \A b \in Builds : AllValues(left[b] \ leftRest[b]) \subseteq values[b]

\* A payload comes from a build side that some partition joins with, and its filter
\* answers "maybe" for every key of that side.
SentComplete ==
  \A i \in 1..Len(sent) : /\ \E p \in Parts : sent[i].from = buildOf[p]
                          /\ AllValues(left[sent[i].from]) \subseteq sent[i].filter

\* A build stream is created by the execute() of a partition that joins with it.
StartedByOwn ==
  Partitioned => \A p \in Parts : pc[p] = "idle" => bpc[buildOf[p]] = "unstarted"

\* The probe stream is polled only after the build side is collected.
ProbeAfterBuild == \A p \in Parts : pc[p] = "recv" => bpc[buildOf[p]] = "collected"

\* Once its own build partition has sent, a waiting receiver has something
\* unread, and if that is a single payload then it is its own.
OwnUnread ==
  Partitioned => \A p \in Parts :
    (pc[p] \in {"wait_build", "recv"} /\ bpc[buildOf[p]] \in {"sent", "collected"})
      => /\ Unread(p) >= 1
         /\ Unread(p) = 1 => sent[Len(sent)].from = buildOf[p]

\* A receiver is never ahead of the channel.
Behind == \A p \in Parts : next[p] <= Len(sent)

\* The filter in use is the partition's own and complete.
FilterComplete ==
  \A p \in Parts : pc[p] = "filter" =>
    /\ payload[p].from = buildOf[p]
    /\ AllValues(left[buildOf[p]]) \subseteq payload[p].filter

IndInv == /\ TypeOK /\ ShapeOK /\ ReadKept /\ SentComplete /\ StartedByOwn
          /\ ProbeAfterBuild /\ OwnUnread /\ Behind /\ FilterComplete

\* The inductive invariant holds initially.
LEMMA InitInd == Init => IndInv
<1> SUFFICES ASSUME Init PROVE IndInv
  OBVIOUS
<1>1. TypeOK
  <2>0. driver \in Drivers /\ buildOf \in [Parts -> Builds] /\ supported \in BOOLEAN
    BY PlanAssumption DEF Init
  <2>1. left \in [Builds -> SUBSET Rows] /\ right \in [Parts -> SUBSET Rows]
    BY DataAssumption DEF Init
  <2>2. sent \in Seq(Payloads) /\ next \in [Parts -> Nat]
    BY DEF Init
  <2>3. payload \in [Parts -> Payloads \cup {NoPayload}]
    BY DEF Init
  <2> QED
    BY Zenon, <2>0, <2>1, <2>2, <2>3 DEF Init, TypeOK
<1>0. ShapeOK
  BY PlanAssumption DEF Init, ShapeOK
<1>2. ReadKept
  BY DEF Init, ReadKept, AllValues
<1>3. SentComplete /\ Behind
  BY DEF Init, SentComplete, Behind
<1>4. StartedByOwn /\ ProbeAfterBuild /\ OwnUnread /\ FilterComplete
  BY PlanAssumption
     DEF Init, StartedByOwn, ProbeAfterBuild, OwnUnread, FilterComplete
<1> QED
  BY <1>0, <1>1, <1>2, <1>3, <1>4 DEF IndInv

\* Every step keeps the types.
LEMMA TypeStep == IndInv /\ [Next]_vars => TypeOK'
<1> SUFFICES ASSUME TypeOK, Behind, [Next]_vars PROVE TypeOK'
  BY DEF IndInv
<1> USE DataAssumption
<1>1. ASSUME NEW b \in Builds, NEW S \in SUBSET leftRest[b], BuildBatch(b, S)
      PROVE TypeOK'
  BY <1>1 DEF TypeOK, BuildBatch, AllValues, chan, Rows
<1>2. ASSUME NEW b \in Builds, BuildSend(b) PROVE TypeOK'
  <2>1. sent' \in Seq(Payloads)
    <3>1. PICK positives \in SUBSET Strings : Send([from |-> b, filter |-> positives])
      BY SMTT(20), <1>2 DEF BuildSend
    <3>2. [from |-> b, filter |-> positives] \in Payloads
      BY DEF Payloads
    <3> QED
      BY <3>1, <3>2 DEF TypeOK, Send
  <2>2. bpc' \in [Builds -> {"unstarted", "reading", "sent", "collected", "failed"}]
    BY <1>2 DEF TypeOK, BuildSend
  <2>3. UNCHANGED <<config, left, right, leftRest, values, pc, next, payload, rightRest,
                    out, metrics, planHeld, failed>>
    BY <1>2 DEF BuildSend
  <2> QED
    BY <2>1, <2>2, <2>3 DEF TypeOK
<1>3. ASSUME NEW b \in Builds, Collect(b) \/ BuildError(b) PROVE TypeOK'
  BY Zenon, <1>3 DEF TypeOK, Collect, BuildError, chan
<1>4. ASSUME NEW p \in Parts, Execute(p) PROVE TypeOK'
  BY <1>4 DEF TypeOK, Execute, Subscribe
<1>5. ASSUME NEW p \in Parts, CollectBuildSide(p) \/ BuildSideFailed(p) PROVE TypeOK'
  BY Zenon, <1>5 DEF TypeOK, CollectBuildSide, BuildSideFailed, chan
<1>6. ASSUME NEW p \in Parts, RecvPayload(p) PROVE TypeOK'
  <2>1. next[p] + 1 \in 1..Len(sent)
    BY <1>6 DEF TypeOK, RecvPayload, Unread, Capacity
  <2>2. sent[next[p] + 1] \in Payloads
    BY <2>1 DEF TypeOK
  <2> QED
    BY SMTT(20), <1>6, <2>2 DEF TypeOK, RecvPayload
<1>7. ASSUME NEW p \in Parts, RecvErr(p) \/ ProbeEnd(p) \/ ProbeError(p) \/ DropStream(p)
      PROVE TypeOK'
  BY Zenon, <1>7 DEF TypeOK, RecvErr, ProbeEnd, ProbeError, DropStream, chan
<1>8. ASSUME NEW p \in Parts, NEW S \in SUBSET rightRest[p], ProbeBatch(p, S)
      PROVE TypeOK'
  BY <1>8 DEF TypeOK, ProbeBatch, Matching, chan, Rows
<1>9. CASE DropPlan
  BY Zenon, <1>9 DEF TypeOK, DropPlan, chan
<1>10. CASE UNCHANGED vars
  BY <1>10 DEF TypeOK, vars, chan
<1> QED
  BY <1>1, <1>2, <1>3, <1>4, <1>5, <1>6, <1>7, <1>8, <1>9, <1>10
     DEF Next, BuildStep, PartStep, Terminating

\* No step changes the plan, and so neither its shape.
LEMMA PlanStep ==
  [Next]_vars => UNCHANGED config /\ (ShapeOK => ShapeOK') /\ (Partitioned' => Partitioned)
<1> SUFFICES ASSUME [Next]_vars PROVE UNCHANGED config
  BY DEF ShapeOK, Shape, Partitioned
<1>1. ASSUME NEW b \in Builds, BuildStep(b) \/ BuildError(b) PROVE UNCHANGED config
  BY SMTT(20), <1>1 DEF BuildStep, BuildBatch, BuildSend, Collect, BuildError
<1>2. ASSUME NEW p \in Parts, PartStep(p) \/ ProbeError(p) \/ DropStream(p)
      PROVE UNCHANGED config
  BY <1>2 DEF PartStep, Execute, CollectBuildSide, BuildSideFailed, RecvPayload, RecvErr,
     ProbeEnd, ProbeBatch, ProbeError, DropStream
<1>3. DropPlan \/ UNCHANGED vars => UNCHANGED config
  BY DEF DropPlan, vars
<1> QED
  BY <1>1, <1>2, <1>3 DEF Next, Terminating

\* A step that leaves a part of the state alone keeps the conjunct about it:
\* what the build streams remember,
LEMMA FrameRead == ReadKept /\ UNCHANGED <<config, left, leftRest, values>> => ReadKept'
BY SMTT(20) DEF ReadKept, AllValues

\* ... that every payload sent is complete,
LEMMA FrameSent == SentComplete /\ UNCHANGED <<config, left, sent>> => SentComplete'
BY DEF SentComplete, AllValues

\* ... the order of execute, send and poll,
LEMMA FrameBuild ==
  StartedByOwn /\ ProbeAfterBuild /\ OwnUnread /\ UNCHANGED <<config, bpc, pc, sent, next>>
    => (StartedByOwn /\ ProbeAfterBuild /\ OwnUnread)'
BY DEF StartedByOwn, ProbeAfterBuild, OwnUnread, Unread, Partitioned

\* ... the filter in use,
LEMMA FrameFilter ==
  FilterComplete /\ UNCHANGED <<config, left, pc, payload>> => FilterComplete'
BY DEF FilterComplete, AllValues

\* ... and the receivers' positions.
LEMMA FrameBehind == Behind /\ UNCHANGED <<sent, next>> => Behind'
BY DEF Behind

\* BuildBatch disturbs ReadKept only.
LEMMA BuildBatchStep ==
  ASSUME IndInv, NEW b \in Builds, NEW S \in SUBSET leftRest[b], BuildBatch(b, S)
  PROVE  ReadKept'
<1>0. /\ UNCHANGED config /\ (Partitioned' => Partitioned)
      /\ buildOf \in [Parts -> Builds]
  BY PlanStep DEF IndInv, TypeOK, Next, BuildStep
<1> SUFFICES ASSUME NEW c \in Builds
             PROVE AllValues(left'[c] \ leftRest'[c]) \subseteq values'[c]
  BY <1>0 DEF ReadKept, AllValues
<1>1. CASE c = b
  <2>1. left'[c] \ leftRest'[c] \subseteq (left[c] \ leftRest[c]) \cup S
    BY <1>1 DEF BuildBatch, IndInv, TypeOK
  <2>2. values'[c] = values[c] \cup AllValues(S)
    BY <1>1 DEF BuildBatch, IndInv, TypeOK
  <2>3. AllValues(left'[c] \ leftRest'[c])
          \subseteq AllValues(left[c] \ leftRest[c]) \cup AllValues(S)
    BY <2>1 DEF AllValues
  <2>4. AllValues(left[c] \ leftRest[c]) \subseteq values[c]
    BY Zenon DEF IndInv, ReadKept
  <2> QED
    BY Zenon, <2>2, <2>3, <2>4
<1>2. CASE c # b
  BY Zenon, <1>2 DEF BuildBatch, IndInv, TypeOK, ReadKept
<1> QED
  BY <1>1, <1>2

\* BuildSend appends the complete filter of b; whoever waits for b now has its
\* payload as the newest one, everybody else who waited has one more unread.
LEMMA BuildSendStep ==
  ASSUME IndInv, NEW b \in Builds, BuildSend(b)
  PROVE  (SentComplete /\ StartedByOwn /\ ProbeAfterBuild /\ OwnUnread /\ Behind)'
<1>0. /\ UNCHANGED config /\ (Partitioned' => Partitioned)
      /\ buildOf \in [Parts -> Builds]
  BY PlanStep DEF IndInv, TypeOK, Next, BuildStep
<1>1. PICK positives \in SUBSET Strings :
        values[b] \subseteq positives /\ Send([from |-> b, filter |-> positives])
  BY DEF BuildSend
<1> DEFINE v == [from |-> b, filter |-> positives]
<1>2. v \in Payloads /\ v.from = b /\ v.filter = positives
  BY DEF Payloads
<1>3. sent' = Append(sent, v)
  BY <1>1 DEF Send, Receivers, BuildSend, Driven
<1> HIDE DEF v
<1>4. sent \in Seq(Payloads)
  BY DEF IndInv, TypeOK
<1>5. /\ Len(sent') = Len(sent) + 1
      /\ sent'[Len(sent')] = v
      /\ \A i \in 1..Len(sent) : sent'[i] = sent[i]
  BY <1>2, <1>3, <1>4
<1>6. Len(sent) \in Nat
  BY <1>4
<1>7. AllValues(left[b]) \subseteq v.filter
  <2>1. left[b] \ leftRest[b] = left[b]
    BY DEF BuildSend
  <2> QED
    BY Zenon, <1>1, <1>2, <2>1 DEF IndInv, ReadKept
<1>8. SentComplete'
  <2> SUFFICES ASSUME NEW i \in 1..Len(sent')
               PROVE /\ \E p \in Parts : sent'[i].from = buildOf[p]
                     /\ AllValues(left'[sent'[i].from]) \subseteq sent'[i].filter
    BY <1>0 DEF SentComplete, AllValues
  <2>0. \E p \in Parts : buildOf[p] = b
    BY DEF BuildSend, Driven
  <2>1. left' = left
    BY DEF BuildSend
  <2>2. CASE i = Len(sent')
    BY <1>2, <1>5, <1>7, <2>0, <2>1, <2>2
  <2>3. CASE i # Len(sent')
    BY SMTT(20), <1>5, <1>6, <2>1, <2>3 DEF IndInv, SentComplete
  <2> QED
    BY <2>2, <2>3
<1>9. Behind'
  BY SMTT(20), <1>5, <1>6 DEF BuildSend, IndInv, Behind, TypeOK
<1>10. StartedByOwn'
  BY <1>0 DEF BuildSend, IndInv, StartedByOwn, TypeOK
<1>11. ProbeAfterBuild'
  BY SMTT(20) DEF BuildSend, IndInv, ProbeAfterBuild, TypeOK
<1>12. OwnUnread'
  <2> SUFFICES ASSUME Partitioned, NEW p \in Parts,
                      pc'[p] \in {"wait_build", "recv"},
                      bpc'[buildOf[p]] \in {"sent", "collected"}
               PROVE  /\ Unread(p)' >= 1
                      /\ Unread(p)' = 1 => sent'[Len(sent')].from = buildOf[p]
    BY <1>0 DEF OwnUnread
  <2>1. next[p] \in Nat /\ next[p] <= Len(sent) /\ next'[p] = next[p]
    BY SMTT(20) DEF BuildSend, IndInv, TypeOK, Behind
  <2>2. CASE buildOf[p] = b
    BY <1>2, <1>5, <1>6, <2>1, <2>2 DEF Unread
  <2>3. CASE buildOf[p] # b
    <3>1. bpc[buildOf[p]] \in {"sent", "collected"} /\ pc[p] \in {"wait_build", "recv"}
      BY SMTT(20), <2>3 DEF BuildSend, IndInv, TypeOK
    <3>2. Len(sent) - next[p] >= 1
      BY <3>1 DEF IndInv, OwnUnread, Unread
    <3> QED
      BY <1>5, <1>6, <2>1, <3>2 DEF Unread
  <2> QED
    BY SMTT(20), <2>2, <2>3
<1> QED
  BY <1>8, <1>9, <1>10, <1>11, <1>12

\* Execute subscribes p before its own build partition can have sent.
LEMMA ExecuteStep ==
  ASSUME IndInv, NEW p \in Parts, Execute(p)
  PROVE  (StartedByOwn /\ ProbeAfterBuild /\ OwnUnread /\ Behind /\ FilterComplete)'
<1>0. /\ UNCHANGED config /\ (Partitioned' => Partitioned)
      /\ buildOf \in [Parts -> Builds]
  BY PlanStep DEF IndInv, TypeOK, Next, PartStep
<1>1. /\ bpc \in [Builds -> {"unstarted", "reading", "sent", "collected", "failed"}]
      /\ pc \in [Parts -> {"idle", "wait_build", "recv", "filter", "pass", "done", "dropped"}]
      /\ next \in [Parts -> Nat] /\ Len(sent) \in Nat
  BY DEF IndInv, TypeOK
<1>2. StartedByOwn'
  BY <1>1 DEF Execute, Subscribe, IndInv, StartedByOwn, Partitioned
<1>3. ProbeAfterBuild'
  BY <1>1 DEF Execute, Subscribe, IndInv, ProbeAfterBuild
<1>4. Behind'
  BY <1>1 DEF Execute, Subscribe, IndInv, Behind
<1>5. FilterComplete'
  BY <1>0, <1>1 DEF Execute, Subscribe, IndInv, FilterComplete, AllValues
<1>6. OwnUnread'
  <2> SUFFICES ASSUME Partitioned, NEW q \in Parts,
                      pc'[q] \in {"wait_build", "recv"},
                      bpc'[buildOf[q]] \in {"sent", "collected"}
               PROVE  /\ Unread(q)' >= 1
                      /\ Unread(q)' = 1 => sent'[Len(sent')].from = buildOf[q]
    BY <1>0 DEF OwnUnread
  <2>1. q # p
    BY <1>1 DEF Execute, Subscribe, IndInv, StartedByOwn
  <2>2. /\ pc[q] \in {"wait_build", "recv"} /\ bpc[buildOf[q]] \in {"sent", "collected"}
        /\ next'[q] = next[q] /\ sent' = sent
    BY <1>1, <2>1 DEF Execute, Subscribe
  <2> QED
    BY <2>2 DEF IndInv, OwnUnread, Unread
<1> QED
  BY <1>2, <1>3, <1>4, <1>5, <1>6

\* RecvPayload: the single unread payload is the partition's own and complete.
LEMMA RecvPayloadStep ==
  ASSUME IndInv, NEW p \in Parts, RecvPayload(p)
  PROVE  (StartedByOwn /\ ProbeAfterBuild /\ OwnUnread /\ Behind /\ FilterComplete)'
<1>0. /\ UNCHANGED config /\ (Partitioned' => Partitioned)
      /\ buildOf \in [Parts -> Builds]
  BY PlanStep DEF IndInv, TypeOK, Next, PartStep
<1>1. /\ bpc \in [Builds -> {"unstarted", "reading", "sent", "collected", "failed"}]
      /\ pc \in [Parts -> {"idle", "wait_build", "recv", "filter", "pass", "done", "dropped"}]
      /\ next \in [Parts -> Nat] /\ Len(sent) \in Nat /\ sent \in Seq(Payloads)
      /\ payload \in [Parts -> Payloads \cup {NoPayload}]
  BY DEF IndInv, TypeOK
<1>2. Len(sent) - next[p] = 1 /\ next[p] + 1 = Len(sent) /\ Len(sent) \in 1..Len(sent)
  BY <1>1 DEF RecvPayload, Unread, Capacity
<1>4. sent[Len(sent)].from = buildOf[p]
  <2>1. CASE Partitioned
    BY <1>2, <2>1 DEF RecvPayload, IndInv, OwnUnread, ProbeAfterBuild, Unread
  <2>2. CASE ~Partitioned
    BY <1>2, <2>2 DEF Partitioned, IndInv, ShapeOK, Shape, SentComplete
  <2> QED
    BY <2>1, <2>2
<1>5. FilterComplete'
  <2> SUFFICES ASSUME NEW q \in Parts, pc'[q] = "filter"
               PROVE  /\ payload'[q].from = buildOf[q]
                      /\ AllValues(left'[buildOf[q]]) \subseteq payload'[q].filter
    BY SMTT(20), <1>0 DEF FilterComplete, AllValues
  <2>1. CASE q = p
    <3>1. payload'[q] = sent[Len(sent)] /\ left' = left
      BY SMTT(20), <1>1, <1>2, <2>1 DEF RecvPayload
    <3> QED
      BY <1>2, <1>4, <2>1, <3>1 DEF IndInv, SentComplete
  <2>2. CASE q # p
    BY <1>1, <2>2 DEF RecvPayload, IndInv, FilterComplete
  <2> QED
    BY <2>1, <2>2
<1>6. Behind'
  BY SMTT(20), <1>1, <1>2 DEF RecvPayload, IndInv, Behind
<1>7. StartedByOwn' /\ ProbeAfterBuild'
  BY <1>0, <1>1 DEF RecvPayload, IndInv, StartedByOwn, ProbeAfterBuild
<1>8. OwnUnread'
  <2> SUFFICES ASSUME Partitioned, NEW q \in Parts,
                      pc'[q] \in {"wait_build", "recv"},
                      bpc'[buildOf[q]] \in {"sent", "collected"}
               PROVE  /\ Unread(q)' >= 1
                      /\ Unread(q)' = 1 => sent'[Len(sent')].from = buildOf[q]
    BY <1>0 DEF OwnUnread
  <2>1. /\ pc[q] \in {"wait_build", "recv"} /\ bpc[buildOf[q]] \in {"sent", "collected"}
        /\ next'[q] = next[q] /\ sent' = sent
    BY <1>1 DEF RecvPayload
  <2> QED
    BY <2>1 DEF IndInv, OwnUnread, Unread
<1> QED
  BY <1>5, <1>6, <1>7, <1>8

\* Collect and BuildError move only the state of one build partition.
LEMMA BuildEndStep ==
  ASSUME IndInv, NEW b \in Builds, Collect(b) \/ BuildError(b)
  PROVE  (StartedByOwn /\ ProbeAfterBuild /\ OwnUnread)'
<1>0. /\ UNCHANGED config /\ (Partitioned' => Partitioned)
      /\ buildOf \in [Parts -> Builds]
  BY PlanStep DEF IndInv, TypeOK, Next, BuildStep
<1>1. bpc \in [Builds -> {"unstarted", "reading", "sent", "collected", "failed"}]
  BY SMTT(20) DEF IndInv, TypeOK
<1>2. StartedByOwn' /\ ProbeAfterBuild'
  BY SMTT(20), <1>0, <1>1 DEF Collect, BuildError, IndInv, StartedByOwn, ProbeAfterBuild
<1>3. OwnUnread'
  BY <1>0, <1>1 DEF Collect, BuildError, IndInv, OwnUnread, Unread, chan
<1> QED
  BY SMTT(20), <1>2, <1>3

\* A move of one probe partition that neither subscribes nor receives.
LEMMA PartMoveStep ==
  ASSUME IndInv, NEW p \in Parts,
         CollectBuildSide(p) \/ RecvErr(p) \/ ProbeEnd(p) \/ DropStream(p)
  PROVE  (StartedByOwn /\ ProbeAfterBuild /\ OwnUnread /\ FilterComplete)'
<1>0. /\ UNCHANGED config /\ (Partitioned' => Partitioned)
      /\ buildOf \in [Parts -> Builds]
  BY PlanStep DEF IndInv, TypeOK, Next, PartStep
<1>1. pc \in [Parts -> {"idle", "wait_build", "recv", "filter", "pass", "done", "dropped"}]
  BY SMTT(20) DEF IndInv, TypeOK
<1>2. /\ UNCHANGED <<config, left, bpc, sent, next, payload>>
      /\ \A q \in Parts \ {p} : pc'[q] = pc[q]
      /\ \/ pc[p] = "wait_build" /\ pc'[p] = "recv" /\ bpc[buildOf[p]] = "collected"
         \/ pc[p] # "idle" /\ pc'[p] \in {"pass", "done", "dropped"}
  BY SMTT(20), <1>1 DEF CollectBuildSide, RecvErr, ProbeEnd, DropStream, chan
<1>3. StartedByOwn' /\ ProbeAfterBuild'
  BY SMTT(20), <1>0, <1>2 DEF IndInv, StartedByOwn, ProbeAfterBuild
<1>4. OwnUnread'
  BY SMTT(20), <1>0, <1>2 DEF IndInv, OwnUnread, Unread
<1>5. FilterComplete'
  BY SMTT(20), <1>0, <1>2 DEF IndInv, FilterComplete, AllValues
<1> QED
  BY <1>3, <1>4, <1>5

\* The invariant is inductive.
LEMMA NextInd == IndInv /\ [Next]_vars => IndInv'
<1> SUFFICES ASSUME IndInv, [Next]_vars PROVE IndInv'
  OBVIOUS
<1>0. TypeOK' /\ ShapeOK'
  BY Zenon, TypeStep, PlanStep DEF IndInv
<1> USE FrameRead, FrameSent, FrameBuild, FrameFilter, FrameBehind
<1>1. ASSUME NEW b \in Builds, NEW S \in SUBSET leftRest[b], BuildBatch(b, S)
      PROVE IndInv'
  BY Zenon, <1>0, <1>1, BuildBatchStep DEF IndInv, BuildBatch, chan
<1>2. ASSUME NEW b \in Builds, BuildSend(b) PROVE IndInv'
  BY Zenon, <1>0, <1>2, BuildSendStep DEF IndInv, BuildSend
<1>3. ASSUME NEW b \in Builds, Collect(b) \/ BuildError(b) PROVE IndInv'
  <2>1. UNCHANGED <<config, left, leftRest, values, pc, sent, next, payload>>
    BY <1>3 DEF Collect, BuildError, chan
  <2> QED
    BY <1>0, <1>3, <2>1, BuildEndStep DEF IndInv
<1>4. ASSUME NEW p \in Parts, Execute(p) PROVE IndInv'
  BY Zenon, <1>0, <1>4, ExecuteStep DEF IndInv, Execute, Subscribe
<1>5. ASSUME NEW p \in Parts, RecvPayload(p) PROVE IndInv'
  BY Zenon, <1>0, <1>5, RecvPayloadStep DEF IndInv, RecvPayload
<1>6. ASSUME NEW p \in Parts,
             CollectBuildSide(p) \/ RecvErr(p) \/ ProbeEnd(p) \/ DropStream(p)
      PROVE IndInv'
  <2>1. UNCHANGED <<config, left, leftRest, values, sent, next>>
    BY <1>6 DEF CollectBuildSide, RecvErr, ProbeEnd, DropStream, chan
  <2> QED
    BY <1>0, <1>6, <2>1, PartMoveStep DEF IndInv
<1>7. CASE UNCHANGED <<config, left, leftRest, values, bpc, pc, sent, next, payload>>
  BY <1>0, <1>7 DEF IndInv
<1>8. ASSUME NEW p \in Parts,
             \/ BuildSideFailed(p) \/ ProbeError(p)
             \/ \E S \in SUBSET rightRest[p] : ProbeBatch(p, S)
      PROVE UNCHANGED <<config, left, leftRest, values, bpc, pc, sent, next, payload>>
  BY SMTT(20), <1>8 DEF BuildSideFailed, ProbeError, ProbeBatch, chan
<1>9. DropPlan \/ UNCHANGED vars
        => UNCHANGED <<config, left, leftRest, values, bpc, pc, sent, next, payload>>
  BY DEF DropPlan, vars, chan
<1> QED
  BY <1>1, <1>2, <1>3, <1>4, <1>5, <1>6, <1>7, <1>8, <1>9
     DEF Next, BuildStep, PartStep, Terminating

\* The invariant holds in every reachable state.
LEMMA Invariance == Spec => []IndInv
BY InitInd, NextInd, PTL DEF Spec

\* Every variable keeps its type, for every set of partitions and keys.
THEOREM TypeCorrect == Spec => []TypeOK
<1>1. IndInv => TypeOK
  BY DEF IndInv
<1> QED
  BY <1>1, Invariance, PTL

\* A probe partition filters only with the filter of its own build partition,
\* however many partitions share the channel and whoever executes them.
THEOREM OwnFilter == Spec => []FilterIsOwn
<1>1. IndInv => FilterIsOwn
  BY SMTT(20) DEF IndInv, FilterComplete, FilterIsOwn
<1> QED
  BY <1>1, Invariance, PTL

\* Filtering with the partition's own complete filter removes no match, unless
\* the join treats null keys as equal.
LEMMA FilterKeepsMatches ==
  ASSUME NullEqualsNull = FALSE, IndInv, NEW p \in Parts, pc[p] = "filter",
         NEW S \in SUBSET Rows
  PROVE  Matching({r \in S : Keep(r, payload[p].filter)}, buildOf[p])
           = Matching(S, buildOf[p])
<1> SUFFICES ASSUME NEW r \in S, r \in left[buildOf[p]], r # Null
             PROVE Keep(r, payload[p].filter)
  BY SMTT(20) DEF Matching
<1>1. supported => KeyString[r] \in AllValues(left[buildOf[p]])
  BY SMTT(20) DEF AllValues
<1> QED
  BY SMTT(20), <1>1 DEF Keep, IndInv, FilterComplete

\* The rows a batch lets through match as the whole batch does.
LEMMA BatchMatches ==
  ASSUME NullEqualsNull = FALSE, IndInv, NEW p \in Parts,
         NEW S \in SUBSET rightRest[p], ProbeBatch(p, S)
  PROVE  /\ rightRest' = [rightRest EXCEPT ![p] = @ \ S]
         /\ out' = [out EXCEPT ![p] = @ \cup Matching(S, buildOf[p])]
<1>1. S \in SUBSET Rows
  BY DEF IndInv, TypeOK
<1> QED
  BY Zenon, <1>1, FilterKeepsMatches DEF ProbeBatch

\* What a partition has emitted and what it still has to read.
RowInv == NoLostRows /\ \A p \in Parts : rightRest[p] \subseteq right[p]

\* Only ProbeBatch moves rows, and it keeps the account.
LEMMA RowStep ==
  NullEqualsNull = FALSE /\ IndInv /\ RowInv /\ [Next]_vars => RowInv'
<1> SUFFICES ASSUME NullEqualsNull = FALSE, IndInv, RowInv, [Next]_vars
             PROVE RowInv'
  BY Zenon
<1>1. ASSUME NEW p \in Parts, NEW S \in SUBSET rightRest[p], ProbeBatch(p, S)
      PROVE RowInv'
  <2>1. UNCHANGED <<config, left, right>>
    BY SMTT(20), <1>1 DEF ProbeBatch
  <2>2. /\ rightRest' = [rightRest EXCEPT ![p] = @ \ S]
        /\ out' = [out EXCEPT ![p] = @ \cup Matching(S, buildOf[p])]
    BY Zenon, <1>1, BatchMatches
  <2>3. rightRest \in [Parts -> SUBSET Rows] /\ out \in [Parts -> SUBSET Rows]
    BY DEF IndInv, TypeOK
  <2> SUFFICES ASSUME NEW q \in Parts
               PROVE  /\ out'[q] = Matching(right[q] \ rightRest[q], buildOf[q])'
                      /\ rightRest'[q] \subseteq right'[q]
    BY Zenon DEF RowInv, NoLostRows
  <2>4. CASE q # p
    BY <2>1, <2>2, <2>3, <2>4 DEF RowInv, NoLostRows, Matching
  <2>5. CASE q = p
    <3>1. out[q] = Matching(right[q] \ rightRest[q], buildOf[q])
      BY SMTT(20) DEF RowInv, NoLostRows
    <3>2. right[q] \ (rightRest[q] \ S) = (right[q] \ rightRest[q]) \cup S
      BY SMTT(20), <2>5 DEF RowInv
    <3>3. Matching((right[q] \ rightRest[q]) \cup S, buildOf[q])
            = out[q] \cup Matching(S, buildOf[q])
      BY <3>1 DEF Matching
    <3>4. out'[q] = out[q] \cup Matching(S, buildOf[q]) /\ rightRest'[q] = rightRest[q] \ S
      BY SMTT(20), <2>2, <2>3, <2>5
    <3> QED
      BY <2>1, <3>2, <3>3, <3>4 DEF RowInv, Matching
  <2> QED
    BY <2>4, <2>5
<1>2. CASE UNCHANGED <<config, left, right, rightRest, out>>
  BY SMTT(20), <1>2 DEF RowInv, NoLostRows, Matching
<1>3. ASSUME NEW b \in Builds,
             \/ BuildSend(b) \/ Collect(b) \/ BuildError(b)
             \/ \E S \in SUBSET leftRest[b] : BuildBatch(b, S)
      PROVE UNCHANGED <<config, left, right, rightRest, out>>
  BY SMTT(20), <1>3 DEF BuildSend, Collect, BuildError, BuildBatch
<1>4. ASSUME NEW p \in Parts,
             \/ Execute(p) \/ CollectBuildSide(p) \/ BuildSideFailed(p)
             \/ RecvPayload(p) \/ RecvErr(p) \/ ProbeEnd(p) \/ ProbeError(p)
             \/ DropStream(p)
      PROVE UNCHANGED <<config, left, right, rightRest, out>>
  BY <1>4 DEF Execute, Subscribe, CollectBuildSide, BuildSideFailed, RecvPayload, RecvErr,
     ProbeEnd, ProbeError, DropStream
<1>5. DropPlan \/ UNCHANGED vars => UNCHANGED <<config, left, right, rightRest, out>>
  BY DEF DropPlan, vars
<1> QED
  BY Zenon, <1>1, <1>2, <1>3, <1>4, <1>5 DEF Next, BuildStep, PartStep, Terminating

\* A join whose nulls are not equal loses no row to its Bloom filter.
THEOREM NoRowLost ==
  ASSUME NullEqualsNull = FALSE PROVE Spec => []NoLostRows
<1>1. Init => RowInv
  BY PlanAssumption DEF Init, RowInv, NoLostRows, Matching
<1>2. IndInv /\ RowInv /\ [Next]_vars => RowInv'
  BY SMTT(20), RowStep
<1>3. RowInv => NoLostRows
  BY Zenon DEF RowInv
<1> QED
  BY <1>1, <1>2, <1>3, Invariance, PTL DEF Spec

\* A step of the filtered join is a step of the unfiltered one, or none.
LEMMA StepSimulation ==
  ASSUME NullEqualsNull = FALSE, IndInv, [Next]_vars
  PROVE  [Unfiltered!Next]_Unfiltered!vars
<1>1. pc \in [Parts -> {"idle", "wait_build", "recv", "filter", "pass", "done", "dropped"}]
  BY DEF IndInv, TypeOK
<1>2. CASE UNCHANGED <<config, left, rightRest, out, failed, pc>>
  BY SMTT(20), <1>2 DEF Unfiltered!vars, status
<1>3. ASSUME NEW p \in Parts, NEW S \in SUBSET rightRest[p], ProbeBatch(p, S)
      PROVE Unfiltered!Join(p, S)
  <2>1. /\ rightRest' = [rightRest EXCEPT ![p] = @ \ S]
        /\ out' = [out EXCEPT ![p] = @ \cup Matching(S, buildOf[p])]
    BY Zenon, <1>3, BatchMatches
  <2>2. UNCHANGED <<config, left, pc, failed>> /\ ~failed /\ S # {} /\ status[p] = "running"
    BY <1>1, <1>3 DEF ProbeBatch, status
  <2>3. Matching(S, buildOf[p]) = Unfiltered!Matching(S, [q \in Parts |-> left[buildOf[q]]][p])
    BY DEF Matching, Unfiltered!Matching
  <2> QED
    BY SMTT(20), <2>1, <2>2, <2>3 DEF Unfiltered!Join, status
<1>4. ASSUME NEW p \in Parts, ProbeEnd(p) PROVE Unfiltered!Finish(p)
  BY Zenon, <1>1, <1>4 DEF ProbeEnd, Unfiltered!Finish, status
<1>5. ASSUME NEW p \in Parts, DropStream(p) PROVE Unfiltered!Drop(p)
  BY Zenon, <1>1, <1>5 DEF DropStream, Unfiltered!Drop, status
<1>6. ASSUME NEW p \in Parts, BuildSideFailed(p) \/ ProbeError(p)
      PROVE Unfiltered!Fail
  BY <1>6 DEF BuildSideFailed, ProbeError, Unfiltered!Fail, status
<1>7. ASSUME NEW p \in Parts,
             Execute(p) \/ CollectBuildSide(p) \/ RecvPayload(p) \/ RecvErr(p)
      PROVE UNCHANGED Unfiltered!vars
  <2>1. UNCHANGED <<config, left, rightRest, out, failed>>
    BY <1>7 DEF Execute, Subscribe, CollectBuildSide, RecvPayload, RecvErr
  <2>2. status' = status
    BY SMTT(20), <1>1, <1>7 DEF Execute, Subscribe, CollectBuildSide, RecvPayload, RecvErr, status
  <2> QED
    BY <2>1, <2>2 DEF Unfiltered!vars
<1>8. ASSUME NEW b \in Builds,
             \/ BuildSend(b) \/ Collect(b) \/ BuildError(b)
             \/ \E S \in SUBSET leftRest[b] : BuildBatch(b, S)
      PROVE UNCHANGED <<config, left, rightRest, out, failed, pc>>
  BY SMTT(20), <1>8 DEF BuildSend, Collect, BuildError, BuildBatch
<1>9. DropPlan \/ UNCHANGED vars => UNCHANGED <<config, left, rightRest, out, failed, pc>>
  BY DEF DropPlan, vars
<1> QED
  BY Zenon, <1>2, <1>3, <1>4, <1>5, <1>6, <1>7, <1>8, <1>9
     DEF Next, BuildStep, PartStep, Terminating, Unfiltered!Next

\* The join with Bloom filters implements the inner join without them.
THEOREM Refinement ==
  ASSUME NullEqualsNull = FALSE PROVE Spec => JoinRefines
<1>1. Init => Unfiltered!Init
  <2> SUFFICES ASSUME Init PROVE Unfiltered!Init
    OBVIOUS
  <2>1. status = [p \in Parts |-> "running"]
    BY SMTT(20) DEF Init, status
  <2>2. /\ [p \in Parts |-> left[buildOf[p]]] \in [Parts -> SUBSET (Keys \cup {Null})]
        /\ rightRest \in [Parts -> SUBSET (Keys \cup {Null})]
    BY PlanAssumption, DataAssumption DEF Init, Rows
  <2> QED
    BY <2>1, <2>2 DEF Init, Unfiltered!Init, Unfiltered!Rows
<1>2. IndInv /\ [Next]_vars => [Unfiltered!Next]_Unfiltered!vars
  BY Zenon, StepSimulation
<1> QED
  BY <1>1, <1>2, Invariance, PTL DEF Spec, JoinRefines, Unfiltered!Spec

\* With every partition executed before any is polled, nothing is sent before
\* the last receiver has subscribed.
EagerOrder ==
  driver = "eager" => \A p \in Parts : pc[p] = "idle" =>
    \A b \in Builds : bpc[b] \in {"unstarted", "reading"}
EagerUnread ==
  driver = "eager" => \A p \in Parts :
    (pc[p] \in {"wait_build", "recv"} /\ bpc[buildOf[p]] \in {"sent", "collected"})
      => Unread(p) >= 1
EagerInv == EagerOrder /\ EagerUnread

\* Both hold after every step: only BuildSend and Execute need the order.
LEMMA EagerStep == IndInv /\ EagerInv /\ [Next]_vars => EagerInv'
<1> SUFFICES ASSUME IndInv, EagerInv, [Next]_vars, driver = "eager" PROVE EagerInv'
  BY Zenon, PlanStep DEF EagerInv, EagerOrder, EagerUnread
<1>0. UNCHANGED config /\ buildOf \in [Parts -> Builds]
  BY SMTT(20), PlanStep DEF IndInv, TypeOK
<1>1. /\ bpc \in [Builds -> {"unstarted", "reading", "sent", "collected", "failed"}]
      /\ pc \in [Parts -> {"idle", "wait_build", "recv", "filter", "pass", "done", "dropped"}]
      /\ next \in [Parts -> Nat] /\ Len(sent) \in Nat /\ sent \in Seq(Payloads)
  BY SMTT(20) DEF IndInv, TypeOK
<1>2. CASE UNCHANGED <<config, bpc, pc, sent, next>>
  BY SMTT(20), <1>2 DEF EagerInv, EagerOrder, EagerUnread, Unread
<1>3. ASSUME NEW b \in Builds, BuildSend(b) PROVE EagerInv'
  <2>1. \A p \in Parts : pc[p] # "idle" /\ pc' = pc /\ next' = next
    BY SMTT(20), <1>3 DEF BuildSend, Driven, MayPoll, AllExecuted
  <2>2. Len(sent') = Len(sent) + 1
    BY SMTT(20), <1>1, <1>3 DEF BuildSend, Send, Receivers, Driven
  <2> QED
    BY SMTT(20), <1>1, <2>1, <2>2 DEF EagerInv, EagerOrder, EagerUnread, Unread, IndInv, Behind
<1>4. ASSUME NEW b \in Builds, Collect(b) \/ BuildError(b) PROVE EagerInv'
  <2>1. \A p \in Parts : pc[p] # "idle"
    BY SMTT(20), <1>4 DEF Collect, BuildError, Driven, MayPoll, AllExecuted
  <2>2. /\ UNCHANGED <<config, pc, sent, next>>
        /\ \A c \in Builds : bpc'[c] = bpc[c] \/ (bpc[c] = "sent" /\ bpc'[c] = "collected")
                                              \/ bpc'[c] = "failed"
    BY SMTT(20), <1>1, <1>4 DEF Collect, BuildError, chan
  <2> QED
    BY SMTT(20), <1>0, <2>1, <2>2 DEF EagerInv, EagerOrder, EagerUnread, Unread
<1>5. ASSUME NEW p \in Parts, Execute(p) PROVE EagerInv'
  <2>1. \A b \in Builds : bpc'[b] \in {"unstarted", "reading"}
    BY SMTT(20), <1>1, <1>5 DEF Execute, Subscribe, EagerInv, EagerOrder
  <2> QED
    BY SMTT(20), <1>0, <2>1 DEF EagerInv, EagerOrder, EagerUnread
<1>6. ASSUME NEW p \in Parts,
             CollectBuildSide(p) \/ RecvErr(p) \/ ProbeEnd(p) \/ DropStream(p)
                \/ RecvPayload(p)
      PROVE EagerInv'
  <2>1. /\ UNCHANGED <<config, bpc, sent>>
        /\ \A q \in Parts \ {p} : pc'[q] = pc[q] /\ next'[q] = next[q]
        /\ \/ pc[p] = "wait_build" /\ pc'[p] = "recv" /\ next'[p] = next[p]
           \/ pc[p] # "idle" /\ pc'[p] \in {"filter", "pass", "done", "dropped"}
    BY SMTT(20), <1>1, <1>6 DEF CollectBuildSide, RecvErr, ProbeEnd, DropStream, RecvPayload, chan
  <2> QED
    BY SMTT(20), <2>1 DEF EagerInv, EagerOrder, EagerUnread, Unread
<1>7. ASSUME NEW p \in Parts,
             \/ BuildSideFailed(p) \/ ProbeError(p)
             \/ \E S \in SUBSET rightRest[p] : ProbeBatch(p, S)
      PROVE UNCHANGED <<config, bpc, pc, sent, next>>
  BY Zenon, <1>7 DEF BuildSideFailed, ProbeError, ProbeBatch, chan
<1>8. ASSUME NEW b \in Builds, NEW S \in SUBSET leftRest[b], BuildBatch(b, S)
      PROVE UNCHANGED <<config, bpc, pc, sent, next>>
  BY Zenon, <1>8 DEF BuildBatch, chan
<1>9. DropPlan \/ UNCHANGED vars => UNCHANGED <<config, bpc, pc, sent, next>>
  BY DEF DropPlan, vars, chan
<1> QED
  BY Zenon, <1>2, <1>3, <1>4, <1>5, <1>6, <1>7, <1>8, <1>9
     DEF Next, BuildStep, PartStep, Terminating

\* No probe partition ever waits for a filter when each build partition serves
\* one probe partition, or when all partitions are executed before any is polled.
THEOREM RecvNeverWaits == Spec => []RecvReady
<1>1. Init => EagerInv
  BY SMTT(20), PlanAssumption DEF Init, EagerInv, EagerOrder, EagerUnread
<1>2. IndInv /\ EagerInv => RecvReady
  BY DEF IndInv, ProbeAfterBuild, OwnUnread, EagerInv, EagerUnread, RecvReady
<1> QED
  BY <1>1, <1>2, EagerStep, Invariance, PTL DEF Spec
==============================================================================
