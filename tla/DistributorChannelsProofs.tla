----------------------- MODULE DistributorChannelsProofs -----------------------
(* The gate of the distribution channels, for any number of channels, of        *)
(* senders and of elements.                                                     *)
EXTENDS DistributorChannels, FiniteSetTheorems, TLAPS

\* The channel's lock: who is between the steps of a poll or of a drop holds it,
\* and a sender that holds it has seen that the receiver is alive.
Locking ==
  /\ \A s \in Senders :
       /\ pc[s] \in {"gate", "push", "close", "drop_close"} => lock[ChannelOf[s]] = s
       /\ pc[s] \in {"gate", "push", "close", "drop_close"} => Alive(ChannelOf[s])
       /\ pc[s] \in {"gate", "push"} => sends[s] < MaxSends
       /\ pc[s] = "close" => len[ChannelOf[s]] > 0
  /\ \A c \in Channels :
       rpc[c] \in {"open", "rx_close", "rx_wake"} => lock[c] = c

\* The last sender: while it drops its handle no other handle of the channel is
\* left to clone, and the channel is closed when it is done and not before.
Dropping ==
  /\ \A c \in Channels :
       \/ closed[c] /\ \A s \in Senders : ChannelOf[s] = c => pc[s] \in {"none", "gone"}
       \/ ~closed[c] /\ \E s \in Senders :
                          ChannelOf[s] = c /\ pc[s] \in Counted \cup {"dropping", "drop_close"}
  /\ \A s, t \in Senders :
       pc[s] \in {"dropping", "drop_close"} /\ s # t /\ ChannelOf[s] = ChannelOf[t]
         => pc[t] \in {"none", "gone"}

\* A sender that waits is registered, and its receiver has not left.
Waiting ==
  \A s \in Senders :
    pc[s] = "pending" => gate_closed /\ s \in send_wakers /\ rpc[ChannelOf[s]] # "gone"

\* A receiver waits on an open channel with nothing in it that it was not told of.
Reading ==
  \A c \in Channels :
    rpc[c] = "waiting" =>
      /\ ~closed[c]
      /\ len[c] > 0 => \E s \in Senders : ChannelOf[s] = c /\ pc[s] = "close"

Ind ==
  /\ TypeOK /\ Locking /\ Dropping /\ Waiting /\ Reading
  /\ GateFollowsCounter /\ CounterCovers

\* How a count that covers a set of channels follows the set.
LEMMA Fewer ==
  ASSUME NEW E \in SUBSET Channels, NEW F \in SUBSET E, NEW n \in Int, n >= Cardinality(E)
  PROVE /\ n >= Cardinality(F) /\ n >= 0
        /\ \A c \in E : F \subseteq E \ {c} => n >= 1 /\ n - 1 >= Cardinality(F)
<1>1. IsFiniteSet(E) BY FS_Subset, ChannelsAssumption
<1>2. IsFiniteSet(F) /\ Cardinality(F) <= Cardinality(E) BY <1>1, FS_Subset
<1>3. Cardinality(E) \in Nat /\ Cardinality(F) \in Nat BY <1>1, <1>2, FS_CardinalityType
<1>4. ASSUME NEW c \in E, F \subseteq E \ {c} PROVE n >= 1 /\ n - 1 >= Cardinality(F)
  <2>1. IsFiniteSet(E \ {c}) /\ Cardinality(E \ {c}) = Cardinality(E) - 1
    BY <1>1, FS_RemoveElement
  <2>2. Cardinality(F) <= Cardinality(E \ {c}) BY <1>4, <2>1, FS_Subset
  <2> QED BY <1>3, <2>1, <2>2
<1> QED BY <1>2, <1>3, <1>4

LEMMA OneMore ==
  ASSUME NEW E \in SUBSET Channels, NEW c \in Channels, NEW F \in SUBSET (E \cup {c}),
         NEW n \in Int, n >= Cardinality(E)
  PROVE n + 1 >= Cardinality(F)
<1>1. IsFiniteSet(E) BY FS_Subset, ChannelsAssumption
<1>2. IsFiniteSet(E \cup {c}) /\ Cardinality(E \cup {c}) <= Cardinality(E) + 1
  BY SMTT(20), <1>1, FS_AddElement, FS_CardinalityType
<1>3. IsFiniteSet(F) /\ Cardinality(F) <= Cardinality(E \cup {c}) BY <1>2, FS_Subset
<1> QED BY <1>1, <1>2, <1>3, FS_CardinalityType

LEMMA CountNat == ASSUME Ind PROVE empty_channels >= 0
<1> DEFINE E == EmptyAndOpen
<1>1. E \in SUBSET Channels /\ empty_channels \in Int /\ empty_channels >= Cardinality(E)
  BY DEF Ind, TypeOK, CounterCovers, EmptyAndOpen
<1> QED BY <1>1, Fewer

LEMMA TypeStep ==
  ASSUME Ind, [Next]_vars PROVE TypeOK'
<1> USE ChannelsAssumption DEF Ind, TypeOK, Locking, Counted
<1>1. ASSUME NEW s \in Senders, NEW t \in Senders, Clone(s, t) PROVE TypeOK'
  BY <1>1 DEF Clone
<1>2. ASSUME NEW s \in Senders, SendPoll(s) PROVE TypeOK'
  BY <1>2 DEF SendPoll, Acquire
<1>3. ASSUME NEW s \in Senders, SendErr(s) PROVE TypeOK'
  BY <1>3 DEF SendErr
<1>4. ASSUME NEW s \in Senders, SendRegister(s) PROVE TypeOK'
  BY <1>4 DEF SendRegister, Release
<1>5. ASSUME NEW s \in Senders, SendPass(s) PROVE TypeOK'
  BY <1>5 DEF SendPass
<1>6. ASSUME NEW s \in Senders, SendMore(s) PROVE TypeOK'
  BY <1>6 DEF SendMore, Release
<1>7. ASSUME NEW s \in Senders, SendFirst(s) PROVE TypeOK'
  BY <1>7 DEF SendFirst, Release, WakeReceiver
<1>8. ASSUME NEW s \in Senders, SendClose(s) PROVE TypeOK'
  BY Zenon, <1>8 DEF SendClose, CloseGate, Release, WakeReceiver
<1>9. ASSUME NEW s \in Senders, DropSender(s) PROVE TypeOK'
  BY <1>9 DEF DropSender, n_senders
<1>10. ASSUME NEW s \in Senders, DropLast(s) PROVE TypeOK'
  BY <1>10 DEF DropLast, LeaveChannel, Release, WakeReceiver, gate
<1>11. ASSUME NEW s \in Senders, DropLastEmpty(s) PROVE TypeOK'
  <2>1. CASE empty_channels = 1
    <3>1. lock' = [lock EXCEPT ![ChannelOf[s]] = s] /\ pc' = [pc EXCEPT ![s] = "drop_close"]
      BY <1>11, <2>1 DEF DropLastEmpty, Acquire
    <3>2. UNCHANGED <<len, closed, rpc, sends, gate_closed, send_wakers>>
      BY <1>11, <2>1 DEF DropLastEmpty
    <3>3. empty_channels' \in Int
      BY <1>11 DEF DropLastEmpty
    <3> QED BY <3>1, <3>2, <3>3
  <2>2. CASE empty_channels # 1
    <3>1. LeaveChannel(s) /\ UNCHANGED <<gate_closed, send_wakers>>
      BY <1>11, <2>2 DEF DropLastEmpty
    <3>2. empty_channels' \in Int
      BY <1>11 DEF DropLastEmpty
    <3> QED BY <3>1, <3>2 DEF LeaveChannel, Release, WakeReceiver
  <2> QED BY <2>1, <2>2
<1>12. ASSUME NEW s \in Senders, DropClose(s) PROVE TypeOK'
  BY Zenon, <1>12 DEF DropClose, CloseGate, LeaveChannel, Release, WakeReceiver
<1>13. ASSUME NEW c \in Channels, RecvPop(c) PROVE TypeOK'
  BY <1>13 DEF RecvPop, Acquire
<1>14. ASSUME NEW c \in Channels, RecvOpen(c) PROVE TypeOK'
  <2>1. pc' \in [Senders -> Counted \cup {"none", "dropping", "drop_close", "gone"}]
    <3>1. CASE empty_channels > 0
      BY <1>14, <3>1 DEF RecvOpen, Woken
    <3>2. CASE ~(empty_channels > 0)
      BY <1>14, <3>2 DEF RecvOpen
    <3> QED BY <3>1, <3>2
  <2>2. gate_closed' \in BOOLEAN /\ send_wakers' \subseteq Senders
    BY Zenon, <1>14 DEF RecvOpen
  <2> QED BY <1>14, <2>1, <2>2 DEF RecvOpen, Release
<1>15. ASSUME NEW c \in Channels, RecvNone(c) PROVE TypeOK'
  BY <1>15 DEF RecvNone
<1>16. ASSUME NEW c \in Channels, DropReceiver(c) PROVE TypeOK'
  BY <1>16 DEF DropReceiver, Acquire, n_senders
<1>17. ASSUME NEW c \in Channels, DropReceiverClose(c) PROVE TypeOK'
  BY Zenon, <1>17 DEF DropReceiverClose, CloseGate
<1>18. ASSUME NEW c \in Channels, DropReceiverWake(c) PROVE TypeOK'
  BY <1>18 DEF DropReceiverWake, Release, Woken
<1>19. ASSUME UNCHANGED vars PROVE TypeOK'
  BY <1>19 DEF vars
<1> QED
  BY SMTT(20), <1>1, <1>2, <1>3, <1>4, <1>5, <1>6, <1>7, <1>8, <1>9, <1>10, <1>11, <1>12, <1>13, <1>14, <1>15, <1>16, <1>17, <1>18, <1>19 DEF Next, Sender, Receiver, Terminating

LEMMA LockingStep ==
  ASSUME Ind, [Next]_vars PROVE Locking'
<1> USE ChannelsAssumption DEF Ind, TypeOK, Locking, Alive, Counted
<1>1. ASSUME NEW s \in Senders, NEW t \in Senders, Clone(s, t) PROVE Locking'
  BY SMTT(20), <1>1 DEF Clone
<1>2. ASSUME NEW s \in Senders, SendPoll(s) PROVE Locking'
  BY SMTT(20), <1>2 DEF SendPoll, Acquire
<1>3. ASSUME NEW s \in Senders, SendErr(s) PROVE Locking'
  BY SMTT(20), <1>3 DEF SendErr
<1>4. ASSUME NEW s \in Senders, SendRegister(s) PROVE Locking'
  BY <1>4 DEF SendRegister, Release
<1>5. ASSUME NEW s \in Senders, SendPass(s) PROVE Locking'
  BY SMTT(20), <1>5 DEF SendPass
<1>6. ASSUME NEW s \in Senders, SendMore(s) PROVE Locking'
  BY SMTT(20), <1>6 DEF SendMore, Release
<1>7. ASSUME NEW s \in Senders, SendFirst(s) PROVE Locking'
  BY SMTT(20), <1>7 DEF SendFirst, Release, WakeReceiver
<1>8. ASSUME NEW s \in Senders, SendClose(s) PROVE Locking'
  BY SMTT(20), <1>8 DEF SendClose, CloseGate, Release, WakeReceiver
<1>9. ASSUME NEW s \in Senders, DropSender(s) PROVE Locking'
  BY SMTT(20), <1>9 DEF DropSender, n_senders
<1>10. ASSUME NEW s \in Senders, DropLast(s) PROVE Locking'
  BY SMTT(20), <1>10 DEF DropLast, LeaveChannel, Release, WakeReceiver, gate
<1>11. ASSUME NEW s \in Senders, DropLastEmpty(s) PROVE Locking'
  BY SMTT(20), <1>11 DEF DropLastEmpty, LeaveChannel, Release, WakeReceiver, Acquire
<1>12. ASSUME NEW s \in Senders, DropClose(s) PROVE Locking'
  BY SMTT(20), <1>12 DEF DropClose, CloseGate, LeaveChannel, Release, WakeReceiver
<1>13. ASSUME NEW c \in Channels, RecvPop(c) PROVE Locking'
  BY SMTT(20), <1>13 DEF RecvPop, Acquire
<1>14. ASSUME NEW c \in Channels, RecvOpen(c) PROVE Locking'
  BY SMTT(20), <1>14 DEF RecvOpen, Release, Woken
<1>15. ASSUME NEW c \in Channels, RecvNone(c) PROVE Locking'
  BY SMTT(20), <1>15 DEF RecvNone
<1>16. ASSUME NEW c \in Channels, DropReceiver(c) PROVE Locking'
  BY SMTT(20), <1>16 DEF DropReceiver, Acquire, n_senders
<1>17. ASSUME NEW c \in Channels, DropReceiverClose(c) PROVE Locking'
  BY SMTT(20), <1>17 DEF DropReceiverClose, CloseGate
<1>18. ASSUME NEW c \in Channels, DropReceiverWake(c) PROVE Locking'
  BY SMTT(20), <1>18 DEF DropReceiverWake, Release, Woken
<1>19. ASSUME UNCHANGED vars PROVE Locking'
  BY Zenon, <1>19 DEF vars
<1> QED
  BY Zenon, <1>1, <1>2, <1>3, <1>4, <1>5, <1>6, <1>7, <1>8, <1>9, <1>10, <1>11, <1>12, <1>13, <1>14, <1>15, <1>16, <1>17, <1>18, <1>19 DEF Next, Sender, Receiver, Terminating

LEMMA DroppingStep ==
  ASSUME Ind, [Next]_vars PROVE Dropping'
<1> USE ChannelsAssumption DEF Ind, TypeOK, Locking, Dropping, Counted
<1>1. ASSUME NEW s \in Senders, NEW t \in Senders, Clone(s, t) PROVE Dropping'
  BY SMTT(20), <1>1 DEF Clone
<1>2. ASSUME NEW s \in Senders, SendPoll(s) PROVE Dropping'
  BY SMTT(20), <1>2 DEF SendPoll, Acquire
<1>3. ASSUME NEW s \in Senders, SendErr(s) PROVE Dropping'
  BY SMTT(20), <1>3 DEF SendErr
<1>4. ASSUME NEW s \in Senders, SendRegister(s) PROVE Dropping'
  BY SMTT(20), <1>4 DEF SendRegister, Release
<1>5. ASSUME NEW s \in Senders, SendPass(s) PROVE Dropping'
  BY SMTT(20), <1>5 DEF SendPass
<1>6. ASSUME NEW s \in Senders, SendMore(s) PROVE Dropping'
  BY SMTT(20), <1>6 DEF SendMore, Release
<1>7. ASSUME NEW s \in Senders, SendFirst(s) PROVE Dropping'
  BY SMTT(20), <1>7 DEF SendFirst, Release, WakeReceiver
<1>8. ASSUME NEW s \in Senders, SendClose(s) PROVE Dropping'
  BY <1>8 DEF SendClose, CloseGate, Release, WakeReceiver
<1>9. ASSUME NEW s \in Senders, DropSender(s) PROVE Dropping'
  BY <1>9 DEF DropSender, n_senders
<1>10. ASSUME NEW s \in Senders, DropLast(s) PROVE Dropping'
  BY SMTT(20), <1>10 DEF DropLast, LeaveChannel, Release, WakeReceiver, gate
<1>11. ASSUME NEW s \in Senders, DropLastEmpty(s) PROVE Dropping'
  BY SMTT(20), <1>11 DEF DropLastEmpty, LeaveChannel, Release, WakeReceiver, Acquire
<1>12. ASSUME NEW s \in Senders, DropClose(s) PROVE Dropping'
  BY SMTT(20), <1>12 DEF DropClose, CloseGate, LeaveChannel, Release, WakeReceiver
<1>13. ASSUME NEW c \in Channels, RecvPop(c) PROVE Dropping'
  BY SMTT(20), <1>13 DEF RecvPop, Acquire
<1>14. ASSUME NEW c \in Channels, RecvOpen(c) PROVE Dropping'
  BY SMTT(20), <1>14 DEF RecvOpen, Release, Woken
<1>15. ASSUME NEW c \in Channels, RecvNone(c) PROVE Dropping'
  BY SMTT(20), <1>15 DEF RecvNone
<1>16. ASSUME NEW c \in Channels, DropReceiver(c) PROVE Dropping'
  BY SMTT(20), <1>16 DEF DropReceiver, Acquire, n_senders
<1>17. ASSUME NEW c \in Channels, DropReceiverClose(c) PROVE Dropping'
  BY SMTT(20), <1>17 DEF DropReceiverClose, CloseGate
<1>18. ASSUME NEW c \in Channels, DropReceiverWake(c) PROVE Dropping'
  BY SMTT(20), <1>18 DEF DropReceiverWake, Release, Woken
<1>19. ASSUME UNCHANGED vars PROVE Dropping'
  BY SMTT(20), <1>19 DEF vars
<1> QED
  BY Zenon, <1>1, <1>2, <1>3, <1>4, <1>5, <1>6, <1>7, <1>8, <1>9, <1>10, <1>11, <1>12, <1>13, <1>14, <1>15, <1>16, <1>17, <1>18, <1>19 DEF Next, Sender, Receiver, Terminating

LEMMA WaitingStep ==
  ASSUME Ind, [Next]_vars PROVE Waiting'
<1> USE ChannelsAssumption DEF Ind, TypeOK, Locking, Waiting, Counted
<1>1. ASSUME NEW s \in Senders, NEW t \in Senders, Clone(s, t) PROVE Waiting'
  BY SMTT(20), <1>1 DEF Clone
<1>2. ASSUME NEW s \in Senders, SendPoll(s) PROVE Waiting'
  BY SMTT(20), <1>2 DEF SendPoll, Acquire
<1>3. ASSUME NEW s \in Senders, SendErr(s) PROVE Waiting'
  BY SMTT(20), <1>3 DEF SendErr
<1>4. ASSUME NEW s \in Senders, SendRegister(s) PROVE Waiting'
  BY SMTT(20), <1>4 DEF SendRegister, Release, Alive
<1>5. ASSUME NEW s \in Senders, SendPass(s) PROVE Waiting'
  BY SMTT(20), <1>5 DEF SendPass
<1>6. ASSUME NEW s \in Senders, SendMore(s) PROVE Waiting'
  BY SMTT(20), <1>6 DEF SendMore, Release
<1>7. ASSUME NEW s \in Senders, SendFirst(s) PROVE Waiting'
  BY SMTT(20), <1>7 DEF SendFirst, Release, WakeReceiver
<1>8. ASSUME NEW s \in Senders, SendClose(s) PROVE Waiting'
  BY SMTT(20), <1>8 DEF SendClose, CloseGate, Release, WakeReceiver
<1>9. ASSUME NEW s \in Senders, DropSender(s) PROVE Waiting'
  BY SMTT(20), <1>9 DEF DropSender, n_senders
<1>10. ASSUME NEW s \in Senders, DropLast(s) PROVE Waiting'
  BY SMTT(20), <1>10 DEF DropLast, LeaveChannel, Release, WakeReceiver, gate
<1>11. ASSUME NEW s \in Senders, DropLastEmpty(s) PROVE Waiting'
  BY SMTT(20), <1>11 DEF DropLastEmpty, LeaveChannel, Release, WakeReceiver, Acquire
<1>12. ASSUME NEW s \in Senders, DropClose(s) PROVE Waiting'
  BY SMTT(20), <1>12 DEF DropClose, CloseGate, LeaveChannel, Release, WakeReceiver
<1>13. ASSUME NEW c \in Channels, RecvPop(c) PROVE Waiting'
  BY SMTT(20), <1>13 DEF RecvPop, Acquire
<1>14. ASSUME NEW c \in Channels, RecvOpen(c) PROVE Waiting'
  BY SMTT(20), <1>14 DEF RecvOpen, Release, Woken
<1>15. ASSUME NEW c \in Channels, RecvNone(c) PROVE Waiting'
  BY SMTT(20), <1>15 DEF RecvNone
<1>16. ASSUME NEW c \in Channels, DropReceiver(c) PROVE Waiting'
  BY SMTT(20), <1>16 DEF DropReceiver, Acquire, n_senders
<1>17. ASSUME NEW c \in Channels, DropReceiverClose(c) PROVE Waiting'
  BY SMTT(20), <1>17 DEF DropReceiverClose, CloseGate
<1>18. ASSUME NEW c \in Channels, DropReceiverWake(c) PROVE Waiting'
  BY SMTT(20), <1>18 DEF DropReceiverWake, Release, Woken
<1>19. ASSUME UNCHANGED vars PROVE Waiting'
  BY Zenon, <1>19 DEF vars
<1> QED
  BY Zenon, <1>1, <1>2, <1>3, <1>4, <1>5, <1>6, <1>7, <1>8, <1>9, <1>10, <1>11, <1>12, <1>13, <1>14, <1>15, <1>16, <1>17, <1>18, <1>19 DEF Next, Sender, Receiver, Terminating

LEMMA ReadingStep ==
  ASSUME Ind, [Next]_vars PROVE Reading'
<1> USE ChannelsAssumption DEF Ind, TypeOK, Locking, Dropping, Reading, Counted
<1>1. ASSUME NEW s \in Senders, NEW t \in Senders, Clone(s, t) PROVE Reading'
  BY SMTT(20), <1>1 DEF Clone
<1>2. ASSUME NEW s \in Senders, SendPoll(s) PROVE Reading'
  BY SMTT(20), <1>2 DEF SendPoll, Acquire
<1>3. ASSUME NEW s \in Senders, SendErr(s) PROVE Reading'
  BY SMTT(20), <1>3 DEF SendErr
<1>4. ASSUME NEW s \in Senders, SendRegister(s) PROVE Reading'
  BY SMTT(20), <1>4 DEF SendRegister, Release
<1>5. ASSUME NEW s \in Senders, SendPass(s) PROVE Reading'
  BY SMTT(20), <1>5 DEF SendPass
<1>6. ASSUME NEW s \in Senders, SendMore(s) PROVE Reading'
  BY SMTT(20), <1>6 DEF SendMore, Release
<1>7. ASSUME NEW s \in Senders, SendFirst(s) PROVE Reading'
  BY SMTT(20), <1>7 DEF SendFirst, Release, WakeReceiver
<1>8. ASSUME NEW s \in Senders, SendClose(s) PROVE Reading'
  BY SMTT(20), <1>8 DEF SendClose, CloseGate, Release, WakeReceiver
<1>9. ASSUME NEW s \in Senders, DropSender(s) PROVE Reading'
  BY SMTT(20), <1>9 DEF DropSender, n_senders
<1>10. ASSUME NEW s \in Senders, DropLast(s) PROVE Reading'
  BY SMTT(20), <1>10 DEF DropLast, LeaveChannel, Release, WakeReceiver, gate
<1>11. ASSUME NEW s \in Senders, DropLastEmpty(s) PROVE Reading'
  BY SMTT(20), <1>11 DEF DropLastEmpty, LeaveChannel, Release, WakeReceiver, Acquire
<1>12. ASSUME NEW s \in Senders, DropClose(s) PROVE Reading'
  BY SMTT(20), <1>12 DEF DropClose, CloseGate, LeaveChannel, Release, WakeReceiver
<1>13. ASSUME NEW c \in Channels, RecvPop(c) PROVE Reading'
  BY SMTT(20), <1>13 DEF RecvPop, Acquire
<1>14. ASSUME NEW c \in Channels, RecvOpen(c) PROVE Reading'
  BY SMTT(20), <1>14 DEF RecvOpen, Release, Woken
<1>15. ASSUME NEW c \in Channels, RecvNone(c) PROVE Reading'
  BY SMTT(20), <1>15 DEF RecvNone
<1>16. ASSUME NEW c \in Channels, DropReceiver(c) PROVE Reading'
  BY SMTT(20), <1>16 DEF DropReceiver, Acquire, n_senders
<1>17. ASSUME NEW c \in Channels, DropReceiverClose(c) PROVE Reading'
  BY SMTT(20), <1>17 DEF DropReceiverClose, CloseGate
<1>18. ASSUME NEW c \in Channels, DropReceiverWake(c) PROVE Reading'
  BY SMTT(20), <1>18 DEF DropReceiverWake, Release, Woken
<1>19. ASSUME UNCHANGED vars PROVE Reading'
  BY SMTT(20), <1>19 DEF vars
<1> QED
  BY Zenon, <1>1, <1>2, <1>3, <1>4, <1>5, <1>6, <1>7, <1>8, <1>9, <1>10, <1>11, <1>12, <1>13, <1>14, <1>15, <1>16, <1>17, <1>18, <1>19 DEF Next, Sender, Receiver, Terminating

LEMMA GateStep ==
  ASSUME Ind, [Next]_vars PROVE GateFollowsCounter'
<1> USE ChannelsAssumption DEF Ind, TypeOK, Locking, GateFollowsCounter, Opening, Closing, Counted
<1>1. ASSUME NEW s \in Senders, NEW t \in Senders, Clone(s, t) PROVE GateFollowsCounter'
  BY SMTT(20), <1>1 DEF Clone
<1>2. ASSUME NEW s \in Senders, SendPoll(s) PROVE GateFollowsCounter'
  BY SMTT(20), <1>2 DEF SendPoll, Acquire
<1>3. ASSUME NEW s \in Senders, SendErr(s) PROVE GateFollowsCounter'
  BY SMTT(20), <1>3 DEF SendErr
<1>4. ASSUME NEW s \in Senders, SendRegister(s) PROVE GateFollowsCounter'
  BY SMTT(20), <1>4 DEF SendRegister, Release
<1>5. ASSUME NEW s \in Senders, SendPass(s) PROVE GateFollowsCounter'
  BY SMTT(20), <1>5 DEF SendPass
<1>6. ASSUME NEW s \in Senders, SendMore(s) PROVE GateFollowsCounter'
  BY SMTT(20), <1>6 DEF SendMore, Release
<1>7. ASSUME NEW s \in Senders, SendFirst(s) PROVE GateFollowsCounter'
  BY SMTT(20), <1>7 DEF SendFirst, Release, WakeReceiver
<1>8. ASSUME NEW s \in Senders, SendClose(s) PROVE GateFollowsCounter'
  BY SMTT(20), <1>8 DEF SendClose, CloseGate, Release, WakeReceiver
<1>9. ASSUME NEW s \in Senders, DropSender(s) PROVE GateFollowsCounter'
  BY SMTT(20), <1>9 DEF DropSender, n_senders
<1>10. ASSUME NEW s \in Senders, DropLast(s) PROVE GateFollowsCounter'
  BY SMTT(20), <1>10 DEF DropLast, LeaveChannel, Release, WakeReceiver, gate
<1>11. ASSUME NEW s \in Senders, DropLastEmpty(s) PROVE GateFollowsCounter'
  BY SMTT(20), <1>11 DEF DropLastEmpty, LeaveChannel, Release, WakeReceiver, Acquire
<1>12. ASSUME NEW s \in Senders, DropClose(s) PROVE GateFollowsCounter'
  BY SMTT(20), <1>12 DEF DropClose, CloseGate, LeaveChannel, Release, WakeReceiver
<1>13. ASSUME NEW c \in Channels, RecvPop(c) PROVE GateFollowsCounter'
  <2>1. CASE len[c] = 1 /\ ~closed[c]
    <3>1. CASE empty_channels = 0
      <4>1. empty_channels' = 1 /\ rpc'[c] = "open"
        BY SMTT(20), <1>13, <2>1, <3>1 DEF RecvPop
      <4> QED BY SMTT(20), <4>1
    <3>2. CASE empty_channels # 0
      <4>1. empty_channels' = empty_channels + 1 /\ UNCHANGED <<rpc, pc, gate_closed>>
        BY SMTT(20), <1>13, <2>1, <3>2 DEF RecvPop
      <4>2. empty_channels >= 0
        BY SMTT(20), CountNat
      <4> QED BY SMTT(20), <3>2, <4>1, <4>2
    <3> QED BY SMTT(20), <3>1, <3>2
  <2>2. CASE ~(len[c] = 1 /\ ~closed[c])
    BY SMTT(20), <1>13, <2>2 DEF RecvPop
  <2> QED BY SMTT(20), <2>1, <2>2
<1>14. ASSUME NEW c \in Channels, RecvOpen(c) PROVE GateFollowsCounter'
  BY SMTT(20), <1>14 DEF RecvOpen, Release, Woken
<1>15. ASSUME NEW c \in Channels, RecvNone(c) PROVE GateFollowsCounter'
  BY SMTT(20), <1>15 DEF RecvNone
<1>16. ASSUME NEW c \in Channels, DropReceiver(c) PROVE GateFollowsCounter'
  BY SMTT(20), <1>16 DEF DropReceiver, Acquire, n_senders
<1>17. ASSUME NEW c \in Channels, DropReceiverClose(c) PROVE GateFollowsCounter'
  BY SMTT(20), <1>17 DEF DropReceiverClose, CloseGate
<1>18. ASSUME NEW c \in Channels, DropReceiverWake(c) PROVE GateFollowsCounter'
  BY SMTT(20), <1>18 DEF DropReceiverWake, Release, Woken
<1>19. ASSUME UNCHANGED vars PROVE GateFollowsCounter'
  BY SMTT(20), <1>19 DEF vars
<1> QED
  BY Zenon, <1>1, <1>2, <1>3, <1>4, <1>5, <1>6, <1>7, <1>8, <1>9, <1>10, <1>11, <1>12, <1>13, <1>14, <1>15, <1>16, <1>17, <1>18, <1>19 DEF Next, Sender, Receiver, Terminating

\* The channels that count: a step leaves the counter and adds none of them, or
\* subtracts one with a channel that leaves them, or adds one with one that joins.
LEMMA CounterStep ==
  ASSUME Ind, [Next]_vars PROVE CounterCovers'
<1> DEFINE E == EmptyAndOpen
<1>e. E \in SUBSET Channels /\ empty_channels \in Int /\ empty_channels >= Cardinality(E)
  BY DEF Ind, TypeOK, CounterCovers, EmptyAndOpen
<1>t. /\ len \in [Channels -> Nat] /\ closed \in [Channels -> BOOLEAN]
      /\ rpc = [c \in Channels |-> rpc[c]] /\ pc = [s \in Senders |-> pc[s]]
      /\ \A s \in Senders : ChannelOf[s] \in Channels
  BY ChannelsAssumption DEF Ind, TypeOK
<1>f. SUFFICES \/ UNCHANGED empty_channels /\ E' \subseteq E
               \/ \E c \in E : empty_channels' = empty_channels - 1 /\ E' \subseteq E \ {c}
               \/ \E c \in Channels : empty_channels' = empty_channels + 1 /\ E' \subseteq E \cup {c}
  <2> HIDE DEF E
  <2>1. CASE UNCHANGED empty_channels /\ E' \subseteq E
    BY SMTT(20), <1>e, <2>1, Fewer DEF CounterCovers, E
  <2>2. ASSUME NEW c \in E, empty_channels' = empty_channels - 1, E' \subseteq E \ {c}
        PROVE CounterCovers'
    BY SMTT(20), <1>e, <2>2, Fewer DEF CounterCovers, E
  <2>3. ASSUME NEW c \in Channels, empty_channels' = empty_channels + 1, E' \subseteq E \cup {c}
        PROVE CounterCovers'
    BY SMTT(20), <1>e, <2>3, OneMore DEF CounterCovers, E
  <2> QED BY SMTT(20), <1>f, <2>1, <2>2, <2>3
<1>1. ASSUME NEW s \in Senders, NEW t \in Senders, Clone(s, t) PROVE UNCHANGED empty_channels /\ E' \subseteq E
  BY SMTT(20), <1>1, <1>t DEF Clone, EmptyAndOpen, Alive
<1>2. ASSUME NEW s \in Senders, SendPoll(s) PROVE UNCHANGED empty_channels /\ E' \subseteq E
  BY SMTT(20), <1>2, <1>t DEF SendPoll, EmptyAndOpen, Alive
<1>3. ASSUME NEW s \in Senders, SendErr(s) PROVE UNCHANGED empty_channels /\ E' \subseteq E
  BY SMTT(20), <1>3, <1>t DEF SendErr, EmptyAndOpen, Alive
<1>4. ASSUME NEW s \in Senders, SendRegister(s) PROVE UNCHANGED empty_channels /\ E' \subseteq E
  BY <1>4, <1>t DEF SendRegister, EmptyAndOpen, Alive
<1>5. ASSUME NEW s \in Senders, SendPass(s) PROVE UNCHANGED empty_channels /\ E' \subseteq E
  BY SMTT(20), <1>5, <1>t DEF SendPass, EmptyAndOpen, Alive
<1>6. ASSUME NEW s \in Senders, SendMore(s) PROVE UNCHANGED empty_channels /\ E' \subseteq E
  BY SMTT(20), <1>6, <1>t DEF SendMore, EmptyAndOpen, Alive
<1>7. ASSUME NEW s \in Senders, SendClose(s) PROVE UNCHANGED empty_channels /\ E' \subseteq E
  BY Zenon, <1>7, <1>t DEF SendClose, CloseGate, WakeReceiver, EmptyAndOpen, Alive
<1>8. ASSUME NEW s \in Senders, DropSender(s) PROVE UNCHANGED empty_channels /\ E' \subseteq E
  BY <1>8, <1>t DEF DropSender, EmptyAndOpen, Alive
<1>9. ASSUME NEW s \in Senders, DropLast(s) PROVE UNCHANGED empty_channels /\ E' \subseteq E
  BY <1>9, <1>t DEF DropLast, LeaveChannel, WakeReceiver, gate, EmptyAndOpen, Alive
<1>10. ASSUME NEW s \in Senders, DropClose(s) PROVE UNCHANGED empty_channels /\ E' \subseteq E
  BY <1>10, <1>t DEF DropClose, CloseGate, LeaveChannel, WakeReceiver, EmptyAndOpen, Alive
<1>11. ASSUME NEW c \in Channels, RecvOpen(c) PROVE UNCHANGED empty_channels /\ E' \subseteq E
  BY <1>11, <1>t DEF RecvOpen, Woken, EmptyAndOpen, Alive
<1>12. ASSUME NEW c \in Channels, RecvNone(c) PROVE UNCHANGED empty_channels /\ E' \subseteq E
  BY <1>12, <1>t DEF RecvNone, EmptyAndOpen, Alive
<1>13. ASSUME NEW c \in Channels, DropReceiverClose(c) PROVE UNCHANGED empty_channels /\ E' \subseteq E
  BY SMTT(20), <1>13, <1>t DEF DropReceiverClose, CloseGate, EmptyAndOpen, Alive
<1>14. ASSUME NEW c \in Channels, DropReceiverWake(c) PROVE UNCHANGED empty_channels /\ E' \subseteq E
  BY <1>14, <1>t DEF DropReceiverWake, Woken, EmptyAndOpen, Alive
<1>15. ASSUME UNCHANGED vars PROVE UNCHANGED empty_channels /\ E' \subseteq E
  BY <1>15, <1>t DEF vars, EmptyAndOpen, Alive
<1>16. ASSUME NEW s \in Senders, SendFirst(s)
       PROVE \E c \in E : empty_channels' = empty_channels - 1 /\ E' \subseteq E \ {c}
  <2>1. ChannelOf[s] \in E
    BY SMTT(20), <1>16, <1>t, ChannelsAssumption DEF SendFirst, EmptyAndOpen, Ind, Locking, Dropping
  <2>2. ChannelOf[s] \notin E' /\ E' \subseteq E
    BY SMTT(20), <1>16, <1>t DEF SendFirst, WakeReceiver, EmptyAndOpen, Alive
  <2>3. empty_channels' = empty_channels - 1 BY SMTT(20), <1>16 DEF SendFirst
  <2> HIDE DEF E
  <2> QED BY SMTT(20), <2>1, <2>2, <2>3
<1>17. ASSUME NEW s \in Senders, DropLastEmpty(s)
       PROVE \E c \in E : empty_channels' = empty_channels - 1 /\ E' \subseteq E \ {c}
  <2>1. ChannelOf[s] \in E
    BY SMTT(20), <1>17, <1>t DEF DropLastEmpty, EmptyAndOpen, Ind, Dropping
  <2>2. ChannelOf[s] \notin E' /\ E' \subseteq E
    BY SMTT(20), <1>17, <1>t DEF DropLastEmpty, LeaveChannel, WakeReceiver, EmptyAndOpen, Alive
  <2>3. empty_channels' = empty_channels - 1 BY SMTT(20), <1>17 DEF DropLastEmpty
  <2> HIDE DEF E
  <2> QED BY <2>1, <2>2, <2>3
<1>18. ASSUME NEW c \in Channels, RecvPop(c)
       PROVE \/ UNCHANGED empty_channels /\ E' \subseteq E
             \/ empty_channels' = empty_channels + 1 /\ E' \subseteq E \cup {c}
  <2>1. CASE len[c] = 1 /\ ~closed[c]
    <3>1. E' \subseteq E \cup {c}
      BY SMTT(20), <1>18, <1>t DEF RecvPop, EmptyAndOpen, Alive
    <3> QED BY SMTT(20), <1>18, <2>1, <3>1 DEF RecvPop
  <2>2. CASE ~(len[c] = 1 /\ ~closed[c])
    <3>1. c \notin E'
      BY SMTT(20), <1>18, <1>t, <2>2 DEF RecvPop, EmptyAndOpen
    <3>2. E' \subseteq E
      BY <1>18, <1>t, <3>1 DEF RecvPop, EmptyAndOpen, Alive
    <3> QED BY SMTT(20), <1>18, <2>2, <3>2 DEF RecvPop
  <2> QED BY SMTT(20), <2>1, <2>2
<1>19. ASSUME NEW c \in Channels, DropReceiver(c)
       PROVE \/ UNCHANGED empty_channels /\ E' \subseteq E
             \/ c \in E /\ empty_channels' = empty_channels - 1 /\ E' \subseteq E \ {c}
  <2>1. c \notin E' /\ E' \subseteq E
    BY SMTT(20), <1>19, <1>t DEF DropReceiver, EmptyAndOpen, Alive
  <2>2. CASE len[c] = 0 /\ n_senders(c) # {}
    <3>1. c \in E
      BY SMTT(20), <1>19, <1>t, <2>2
         DEF DropReceiver, n_senders, Counted, EmptyAndOpen, Alive, Ind, Dropping
    <3> QED BY SMTT(20), <1>19, <2>1, <2>2, <3>1 DEF DropReceiver
  <2>3. CASE ~(len[c] = 0 /\ n_senders(c) # {})
    BY <1>19, <2>1, <2>3 DEF DropReceiver
  <2> QED BY SMTT(20), <2>2, <2>3
<1> HIDE DEF E
<1> QED
  BY SMTT(20), <1>1, <1>2, <1>3, <1>4, <1>5, <1>6, <1>7, <1>8, <1>9, <1>10, <1>11, <1>12, <1>13,
     <1>14, <1>15, <1>16, <1>17, <1>18, <1>19 DEF Next, Sender, Receiver, Terminating

LEMMA InitInd == Init => Ind
<1> SUFFICES ASSUME Init PROVE Ind BY SMTT(20)
<1> USE ChannelsAssumption DEF Init, Counted
<1>1. Cardinality(Channels) \in Nat /\ Cardinality(Channels) > 0
  BY SMTT(20), FS_CardinalityType, FS_EmptySet
<1>2. TypeOK
  <2>1. pc \in [Senders -> Counted \cup {"none", "dropping", "drop_close", "gone"}]
    OBVIOUS
  <2>2. sends \in [Senders -> 0..MaxSends]
    OBVIOUS
  <2>3. len \in [Channels -> Nat] /\ lock \in [Channels -> Senders \cup Channels \cup {Nobody}]
    OBVIOUS
  <2>4. closed \in [Channels -> BOOLEAN] /\ rpc \in [Channels -> {"idle"}]
    OBVIOUS
  <2>5. empty_channels \in Int
    BY <1>1
  <2>6. gate_closed \in BOOLEAN /\ send_wakers \subseteq Senders
    BY Zenon
  <2> HIDE DEF Init
  <2> QED BY SMTT(20), <2>1, <2>2, <2>3, <2>4, <2>5, <2>6 DEF TypeOK
<1>3. EmptyAndOpen \subseteq Channels BY DEF EmptyAndOpen
<1>4. CounterCovers BY <1>1, <1>3, FS_Subset DEF CounterCovers
<1>5. GateFollowsCounter BY <1>1 DEF GateFollowsCounter
<1>6. Locking /\ Waiting /\ Reading BY DEF Locking, Waiting, Reading
<1>7. Dropping
  <2>1. ASSUME NEW c \in Channels
        PROVE \E s \in Senders : ChannelOf[s] = c /\ pc[s] = "ready"
    OBVIOUS
  <2> QED BY <2>1 DEF Dropping
<1> QED BY <1>2, <1>4, <1>5, <1>6, <1>7 DEF Ind

LEMMA NextInd == Ind /\ [Next]_vars => Ind'
  BY TypeStep, LockingStep, DroppingStep, WaitingStep, ReadingStep, GateStep, CounterStep DEF Ind

LEMMA Always == Spec => []Ind
  BY InitInd, NextInd, PTL DEF Spec

\* A channel that counts makes the counter positive.
LEMMA PositiveCount ==
  ASSUME Ind, NEW c \in Channels, c \in EmptyAndOpen PROVE empty_channels > 0
<1> DEFINE E == EmptyAndOpen
<1>1. E \in SUBSET Channels /\ empty_channels \in Int /\ empty_channels >= Cardinality(E)
  BY DEF Ind, TypeOK, CounterCovers, EmptyAndOpen
<1>2. empty_channels >= 1
  <2> HIDE DEF E
  <2>1. c \in E BY DEF E
  <2>2. E \ {c} \in SUBSET E OBVIOUS
  <2> QED BY Zenon, <1>1, <2>1, <2>2, Fewer
<1> QED BY SMTT(20), <1>1, <1>2

\* The counter never misses an empty open channel and never wraps, however the
\* sends, the receives and the drops of the handles of any channels interleave.
THEOREM CounterNeverWraps == Spec => [](CounterCovers /\ empty_channels >= 0)
<1>1. Ind => CounterCovers /\ empty_channels >= 0 BY CountNat DEF Ind
<1> QED BY Always, <1>1, PTL

\* The gate is closed over an empty channel, or open over none, only while the poll
\* that will correct it is under way.
THEOREM GateIsRight == Spec => []GateFollowsCounter
<1>1. Ind => GateFollowsCounter BY DEF Ind
<1> QED BY Always, <1>1, PTL

\* No sender waits for ever at the gate for want of a wake-up: the data in its own
\* channel, an opening under way, or the drop of its receiver will release it.
THEOREM SendersAreReleased == Spec => []SenderNotStranded
<1>1. Ind => SenderNotStranded
  <2> SUFFICES ASSUME Ind, NEW s \in Senders, pc[s] = "pending"
               PROVE /\ gate_closed /\ s \in send_wakers
                     /\ \/ rpc[ChannelOf[s]] \in {"rx_close", "rx_wake"}
                        \/ Alive(ChannelOf[s]) /\ len[ChannelOf[s]] > 0
                        \/ Opening
    BY DEF SenderNotStranded
  <2> DEFINE c == ChannelOf[s]
  <2>1. c \in Channels /\ gate_closed /\ s \in send_wakers /\ rpc[c] # "gone"
    BY ChannelsAssumption DEF Ind, Waiting
  <2>2. ASSUME Alive(c), ~(len[c] > 0) PROVE Opening
    <3>1. c \in EmptyAndOpen
      BY <2>1, <2>2, ChannelsAssumption DEF Ind, TypeOK, Dropping, EmptyAndOpen
    <3>2. empty_channels > 0 BY SMTT(20), <2>1, <3>1, PositiveCount
    <3> QED BY <2>1, <3>2 DEF Ind, GateFollowsCounter
  <2> QED BY <2>1, <2>2 DEF Alive, Ind, TypeOK
<1> QED BY Always, <1>1, PTL

\* The gate never makes the two sides wait for each other.
THEOREM NoMutualWait == Spec => []NeverBothWait
<1>1. Ind => NeverBothWait
  <2> SUFFICES ASSUME Ind, NEW c \in Channels, NEW s \in Senders,
                      rpc[c] = "waiting", pc[s] = "pending",
                      ~\E t \in Senders : ChannelOf[t] = c /\ pc[t] \in {"close", "drop_close"}
               PROVE Opening
    BY SMTT(20) DEF NeverBothWait
  <2>1. c \in EmptyAndOpen BY DEF Ind, TypeOK, Reading, EmptyAndOpen, Alive
  <2>2. empty_channels > 0 BY SMTT(20), <2>1, PositiveCount
  <2> QED BY SMTT(20), <2>2 DEF Ind, Waiting, GateFollowsCounter
<1> QED BY Always, <1>1, PTL

\* No receiver waits on a channel that has data or that nobody will ever close.
THEOREM ReceiversAreReleased == Spec => []ReceiverNotStranded
<1>1. Ind => ReceiverNotStranded BY DEF Ind, Reading, Dropping, ReceiverNotStranded
<1> QED BY Always, <1>1, PTL
================================================================================
