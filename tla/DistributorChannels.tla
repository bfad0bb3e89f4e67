-------------------------- MODULE DistributorChannels --------------------------
(* The channels between the inputs and the outputs of RepartitionExec           *)
(* (repartition/distributor_channels.rs): one unbounded queue per output, many  *)
(* senders, one receiver, and a gate that all channels share.  The gate is      *)
(* closed while no channel is empty, so that a sender waits; it has to be open  *)
(* while some receiver needs data, or everybody waits for everybody.            *)
(*                                                                              *)
(* The counter empty_channels is an atomic that is read and changed outside the *)
(* lock of the gate, so a poll is several steps: each access of the counter and *)
(* each section under the gate's lock is one, and the channel's lock is held    *)
(* from the first to the last.  Waking, which happens after the lock is let go, *)
(* is part of the step that lets it go.  A queue is its length, the reference   *)
(* count n_senders is the set of the handles that it counts.                    *)
EXTENDS Integers, FiniteSets

CONSTANTS Channels,    \* the channels that share the gate
          Senders,     \* the handles that may come to exist
          ChannelOf,   \* the channel of each handle
          Originals,   \* the handles that channels() returns; the others are clones
          Nobody,      \* the holder of a free lock
          MaxSends     \* bound: the elements that each handle sends

ASSUME ChannelsAssumption ==
  /\ IsFiniteSet(Channels) /\ Channels # {}
  /\ Senders \cap Channels = {} /\ Nobody \notin Senders \cup Channels
  /\ ChannelOf \in [Senders -> Channels]
  /\ Originals \subseteq Senders
  /\ \A c \in Channels : \E s \in Originals : ChannelOf[s] = c
  /\ MaxSends \in Nat

VARIABLES len,              \* data: the elements in each queue
          closed,           \* recv_wakers is None: the last sender has left
          lock,             \* the holder of each channel's mutex
          empty_channels,   \* Gate.empty_channels
          gate_closed,      \* Gate.send_wakers is Some
          send_wakers,      \* the handles registered in it
          pc,               \* what each handle does
          rpc,              \* what the receiver of each channel does
          sends             \* the elements that each handle has sent

gate == <<empty_channels, gate_closed, send_wakers>>
vars == <<len, closed, lock, empty_channels, gate_closed, send_wakers, pc, rpc, sends>>

\* The states in which a handle is counted by n_senders.
Counted == {"ready", "gate", "push", "close", "pending", "woken"}
n_senders(c) == {s \in Senders : ChannelOf[s] = c /\ pc[s] \in Counted}

\* data is Some until the receiver is dropped.
Alive(c) == rpc[c] \notin {"rx_close", "rx_wake", "gone"}

Init ==
  /\ len = [c \in Channels |-> 0]
  /\ closed = [c \in Channels |-> FALSE]
  /\ lock = [c \in Channels |-> Nobody]
  /\ empty_channels = Cardinality(Channels)
  /\ gate_closed = FALSE /\ send_wakers = {}
  /\ pc = [s \in Senders |-> IF s \in Originals THEN "ready" ELSE "none"]
  /\ rpc = [c \in Channels |-> "idle"]
  /\ sends = [s \in Senders |-> 0]

Acquire(c, p) == lock[c] = Nobody /\ lock' = [lock EXCEPT ![c] = p]
Release(c) == lock' = [lock EXCEPT ![c] = Nobody]

\* A waker wakes the task that waits; it is without effect on any other.
Woken(W) == [s \in Senders |-> IF s \in W /\ pc[s] = "pending" THEN "woken" ELSE pc[s]]
WakeReceiver(c) == rpc' = [rpc EXCEPT ![c] = IF @ = "waiting" THEN "idle" ELSE @]

\* The gate's section of decr_empty_channels: the count is read again under its lock
\* (mutant: it is not).
CloseAnyway == gate_closed' = TRUE /\ UNCHANGED <<empty_channels, send_wakers>>
CloseGate ==
  /\ gate_closed' = IF empty_channels = 0 THEN TRUE ELSE gate_closed
  /\ UNCHANGED <<empty_channels, send_wakers>>

--------------------------------------------------------------------------------
(* The sender. *)

\* DistributionSender::clone, by the owner of some handle of the channel.
Clone(s, t) ==
  /\ pc[s] = "ready" /\ pc[t] = "none" /\ ChannelOf[t] = ChannelOf[s]
  /\ pc' = [pc EXCEPT ![t] = "ready"]
  /\ UNCHANGED <<len, closed, lock, empty_channels, gate_closed, send_wakers, rpc, sends>>

\* SendFuture::poll up to the load of the counter, when the receiver is alive.
SendPoll(s) ==
  /\ pc[s] \in {"ready", "woken"} /\ sends[s] < MaxSends
  /\ Alive(ChannelOf[s])
  /\ Acquire(ChannelOf[s], s)
  /\ pc' = [pc EXCEPT ![s] = IF empty_channels = 0 THEN "gate" ELSE "push"]
  /\ UNCHANGED <<len, closed, empty_channels, gate_closed, send_wakers, rpc, sends>>

\* SendFuture::poll when the receiver is gone: Err(SendError).
SendErr(s) ==
  /\ pc[s] \in {"ready", "woken"} /\ sends[s] < MaxSends
  /\ ~Alive(ChannelOf[s]) /\ lock[ChannelOf[s]] = Nobody
  /\ pc' = [pc EXCEPT ![s] = "ready"]
  /\ sends' = [sends EXCEPT ![s] = @ + 1]
  /\ UNCHANGED <<len, closed, lock, empty_channels, gate_closed, send_wakers, rpc>>

\* The counter was 0: register and return Pending, unless the gate is open.
SendRegister(s) ==
  /\ pc[s] = "gate" /\ gate_closed
  /\ send_wakers' = send_wakers \cup {s}
  /\ pc' = [pc EXCEPT ![s] = "pending"]
  /\ Release(ChannelOf[s])
  /\ UNCHANGED <<len, closed, empty_channels, gate_closed, rpc, sends>>

SendPass(s) ==
  /\ pc[s] = "gate" /\ ~gate_closed
  /\ pc' = [pc EXCEPT ![s] = "push"]
  /\ UNCHANGED <<len, closed, lock, empty_channels, gate_closed, send_wakers, rpc, sends>>

\* push_back on a queue that has elements: no signal changes.
SendMore(s) ==
  LET c == ChannelOf[s] IN
  /\ pc[s] = "push" /\ len[c] > 0
  /\ len' = [len EXCEPT ![c] = @ + 1]
  /\ sends' = [sends EXCEPT ![s] = @ + 1]
  /\ pc' = [pc EXCEPT ![s] = "ready"]
  /\ Release(c)
  /\ UNCHANGED <<closed, empty_channels, gate_closed, send_wakers, rpc>>

\* push_back on an empty queue, and the fetch_sub of decr_empty_channels (mutant: the
\* receiver is woken only with the gate's closing).
SendFirstSilent(s) ==
  LET c == ChannelOf[s] IN
  /\ pc[s] = "push" /\ len[c] = 0
  /\ len' = [len EXCEPT ![c] = 1]
  /\ sends' = [sends EXCEPT ![s] = @ + 1]
  /\ empty_channels' = empty_channels - 1
  /\ IF empty_channels = 1
     THEN pc' = [pc EXCEPT ![s] = "close"] /\ UNCHANGED lock
     ELSE pc' = [pc EXCEPT ![s] = "ready"] /\ Release(c)
  /\ UNCHANGED <<closed, gate_closed, send_wakers, rpc>>
SendFirst(s) ==
  LET c == ChannelOf[s] IN
  /\ pc[s] = "push" /\ len[c] = 0
  /\ len' = [len EXCEPT ![c] = 1]
  /\ sends' = [sends EXCEPT ![s] = @ + 1]
  /\ empty_channels' = empty_channels - 1
  /\ IF empty_channels = 1
     THEN pc' = [pc EXCEPT ![s] = "close"] /\ UNCHANGED <<lock, rpc>>
     ELSE pc' = [pc EXCEPT ![s] = "ready"] /\ Release(c) /\ WakeReceiver(c)
  /\ UNCHANGED <<closed, gate_closed, send_wakers>>

SendClose(s) ==
  /\ pc[s] = "close"
  /\ CloseGate
  /\ pc' = [pc EXCEPT ![s] = "ready"]
  /\ Release(ChannelOf[s]) /\ WakeReceiver(ChannelOf[s])
  /\ UNCHANGED <<len, closed, sends>>

\* Drop for DistributionSender: the fetch_sub of n_senders, before any lock.  The
\* handle may be dropped while its send waits, with the task that owns it.
DropSender(s) ==
  /\ pc[s] \in {"ready", "pending", "woken"}
  /\ pc' = [pc EXCEPT ![s] = IF n_senders(ChannelOf[s]) = {s} THEN "dropping" ELSE "gone"]
  /\ UNCHANGED <<len, closed, lock, empty_channels, gate_closed, send_wakers, rpc, sends>>

\* ... and what the last sender does under the channel's lock.
LeaveChannel(s) ==
  LET c == ChannelOf[s] IN
  /\ closed' = [closed EXCEPT ![c] = TRUE]
  /\ pc' = [pc EXCEPT ![s] = "gone"]
  /\ Release(c) /\ WakeReceiver(c)
  /\ UNCHANGED <<len, sends>>

DropLast(s) ==
  LET c == ChannelOf[s] IN
  /\ pc[s] = "dropping" /\ lock[c] = Nobody
  /\ ~(Alive(c) /\ len[c] = 0)
  /\ LeaveChannel(s)
  /\ UNCHANGED gate

DropLastEmpty(s) ==
  LET c == ChannelOf[s] IN
  /\ pc[s] = "dropping" /\ lock[c] = Nobody
  /\ Alive(c) /\ len[c] = 0
  /\ empty_channels' = empty_channels - 1
  /\ IF empty_channels = 1
     THEN /\ pc' = [pc EXCEPT ![s] = "drop_close"] /\ Acquire(c, s)
          /\ UNCHANGED <<len, closed, rpc, sends>>
     ELSE LeaveChannel(s)
  /\ UNCHANGED <<gate_closed, send_wakers>>

DropClose(s) == pc[s] = "drop_close" /\ CloseGate /\ LeaveChannel(s)

--------------------------------------------------------------------------------
(* The receiver. *)

\* RecvFuture::poll that finds an element; the pop that empties an open channel
\* adds to the counter, and the one that finds 0 there has to open the gate (mutant:
\* it leaves the gate to the next one).
RecvPopShut(c) ==
  /\ rpc[c] = "idle" /\ lock[c] = Nobody /\ len[c] > 0
  /\ len' = [len EXCEPT ![c] = @ - 1]
  /\ empty_channels' = empty_channels + (IF len[c] = 1 /\ ~closed[c] THEN 1 ELSE 0)
  /\ UNCHANGED <<closed, lock, gate_closed, send_wakers, pc, rpc, sends>>
RecvPop(c) ==
  /\ rpc[c] = "idle" /\ lock[c] = Nobody /\ len[c] > 0
  /\ len' = [len EXCEPT ![c] = @ - 1]
  /\ IF len[c] = 1 /\ ~closed[c]
     THEN /\ empty_channels' = empty_channels + 1
          /\ IF empty_channels = 0
             THEN rpc' = [rpc EXCEPT ![c] = "open"] /\ Acquire(c, c)
             ELSE UNCHANGED <<rpc, lock>>
     ELSE UNCHANGED <<empty_channels, rpc, lock>>
  /\ UNCHANGED <<closed, gate_closed, send_wakers, pc, sends>>

\* The gate's section of that poll: it is opened when the count is still positive,
\* and everyone who waits for it is woken (mutant: only the senders of this channel).
RecvOpenOwn(c) ==
  /\ rpc[c] = "open"
  /\ gate_closed' = FALSE /\ send_wakers' = {}
  /\ pc' = Woken({s \in send_wakers : ChannelOf[s] = c})
  /\ rpc' = [rpc EXCEPT ![c] = "idle"]
  /\ Release(c)
  /\ UNCHANGED <<len, closed, empty_channels, sends>>
RecvOpen(c) ==
  /\ rpc[c] = "open"
  /\ IF empty_channels > 0
     THEN gate_closed' = FALSE /\ send_wakers' = {} /\ pc' = Woken(send_wakers)
     ELSE UNCHANGED <<gate_closed, send_wakers, pc>>
  /\ rpc' = [rpc EXCEPT ![c] = "idle"]
  /\ Release(c)
  /\ UNCHANGED <<len, closed, empty_channels, sends>>

\* RecvFuture::poll that finds none: Pending, or the end of the channel.  (Polled
\* again without having been woken, it registers again: a stutter.)
RecvNone(c) ==
  /\ rpc[c] = "idle" /\ lock[c] = Nobody /\ len[c] = 0
  /\ rpc' = [rpc EXCEPT ![c] = IF closed[c] THEN "ended" ELSE "waiting"]
  /\ UNCHANGED <<len, closed, lock, empty_channels, gate_closed, send_wakers, pc, sends>>

\* Drop for DistributionReceiver (mutant: a channel that its last sender has left is
\* subtracted again).
DropReceiverTwice(c) ==
  /\ rpc[c] \in {"idle", "waiting", "ended"}
  /\ Acquire(c, c)
  /\ len' = [len EXCEPT ![c] = 0]
  /\ IF len[c] = 0
     THEN /\ empty_channels' = empty_channels - 1
          /\ rpc' = [rpc EXCEPT ![c] = IF empty_channels = 1 THEN "rx_close" ELSE "rx_wake"]
     ELSE rpc' = [rpc EXCEPT ![c] = "rx_wake"] /\ UNCHANGED empty_channels
  /\ UNCHANGED <<closed, gate_closed, send_wakers, pc, sends>>
DropReceiver(c) ==
  /\ rpc[c] \in {"idle", "waiting", "ended"}
  /\ Acquire(c, c)
  /\ len' = [len EXCEPT ![c] = 0]
  /\ IF len[c] = 0 /\ n_senders(c) # {}
     THEN /\ empty_channels' = empty_channels - 1
          /\ rpc' = [rpc EXCEPT ![c] = IF empty_channels = 1 THEN "rx_close" ELSE "rx_wake"]
     ELSE rpc' = [rpc EXCEPT ![c] = "rx_wake"] /\ UNCHANGED empty_channels
  /\ UNCHANGED <<closed, gate_closed, send_wakers, pc, sends>>

DropReceiverClose(c) ==
  /\ rpc[c] = "rx_close"
  /\ CloseGate
  /\ rpc' = [rpc EXCEPT ![c] = "rx_wake"]
  /\ UNCHANGED <<len, closed, lock, pc, sends>>

\* wake_channel_senders: the senders of this channel have to see that it is gone
\* (mutant: they are left to the gate).
DropReceiverSilent(c) ==
  /\ rpc[c] = "rx_wake"
  /\ rpc' = [rpc EXCEPT ![c] = "gone"]
  /\ Release(c)
  /\ UNCHANGED <<len, closed, empty_channels, gate_closed, send_wakers, pc, sends>>
DropReceiverWake(c) ==
  LET mine == {s \in send_wakers : ChannelOf[s] = c} IN
  /\ rpc[c] = "rx_wake"
  /\ IF gate_closed
     THEN send_wakers' = send_wakers \ mine /\ pc' = Woken(mine)
     ELSE UNCHANGED <<send_wakers, pc>>
  /\ rpc' = [rpc EXCEPT ![c] = "gone"]
  /\ Release(c)
  /\ UNCHANGED <<len, closed, empty_channels, gate_closed, sends>>
--------------------------------------------------------------------------------
Sender(s) ==
  \/ \E t \in Senders : Clone(s, t)
  \/ SendPoll(s) \/ SendErr(s) \/ SendRegister(s) \/ SendPass(s)
  \/ SendMore(s) \/ SendFirst(s) \/ SendClose(s)
  \/ DropSender(s) \/ DropLast(s) \/ DropLastEmpty(s) \/ DropClose(s)

Receiver(c) ==
  \/ RecvPop(c) \/ RecvOpen(c) \/ RecvNone(c)
  \/ DropReceiver(c) \/ DropReceiverClose(c) \/ DropReceiverWake(c)

Terminating ==
  /\ \A s \in Senders : pc[s] \in {"none", "gone"}
  /\ \A c \in Channels : rpc[c] = "gone"
  /\ UNCHANGED vars

Next == (\E s \in Senders : Sender(s)) \/ (\E c \in Channels : Receiver(c)) \/ Terminating

Spec == Init /\ [][Next]_vars

\* A task that runs finishes its poll, one that was woken is polled again, and the
\* consumer of each output reads on.  Nobody has to send, to clone or to drop.
FairSpec ==
  /\ Spec
  /\ \A s \in Senders :
       /\ WF_vars(pc[s] = "woken" /\ (SendPoll(s) \/ SendErr(s)))
       /\ WF_vars(SendRegister(s) \/ SendPass(s) \/ SendMore(s) \/ SendFirst(s) \/ SendClose(s))
       /\ WF_vars(DropLast(s) \/ DropLastEmpty(s) \/ DropClose(s))
  /\ \A c \in Channels :
       /\ WF_vars(RecvPop(c) \/ RecvNone(c))
       /\ WF_vars(RecvOpen(c) \/ DropReceiverClose(c) \/ DropReceiverWake(c))

--------------------------------------------------------------------------------
TypeOK ==
  /\ len \in [Channels -> Nat] /\ closed \in [Channels -> BOOLEAN]
  /\ lock \in [Channels -> Senders \cup Channels \cup {Nobody}]
  /\ empty_channels \in Int /\ gate_closed \in BOOLEAN /\ send_wakers \subseteq Senders
  /\ pc \in [Senders -> Counted \cup {"none", "dropping", "drop_close", "gone"}]
  /\ rpc \in [Channels -> {"idle", "open", "waiting", "ended", "rx_close", "rx_wake", "gone"}]
  /\ sends \in [Senders -> 0..MaxSends]

\* A channel that counts: empty and still open.  A last sender that has subtracted
\* its channel already, and waits to close the gate, has taken it out of the count.
EmptyAndOpen ==
  {c \in Channels : /\ Alive(c) /\ len[c] = 0 /\ ~closed[c]
                    /\ ~\E s \in Senders : ChannelOf[s] = c /\ pc[s] = "drop_close"}

\* The counter never misses a channel that is empty and open (the comment on
\* Gate.empty_channels), whatever handles and receivers are dropped meanwhile.
\* Hence no fetch_sub of decr_empty_channels makes the unsigned counter wrap.
CounterCovers == empty_channels >= Cardinality(EmptyAndOpen)

\* Someone is between the fetch_sub that found 1 and the gate.
Closing ==
  \/ \E s \in Senders : pc[s] \in {"close", "drop_close"}
  \/ \E c \in Channels : rpc[c] = "rx_close"
Opening == \E c \in Channels : rpc[c] = "open"

\* The gate follows the counter: it is closed over a positive count, or open over
\* a count of 0, only while the poll that will correct it is under way.
GateFollowsCounter ==
  /\ gate_closed /\ empty_channels > 0 => Opening
  /\ ~gate_closed /\ empty_channels = 0 => Closing

\* A sender that waits is registered at a closed gate, and it is not forgotten:
\* its receiver is alive with something to read, whose last pop opens the gate, or
\* the gate is being opened, or the receiver is being dropped and will wake it.
SenderNotStranded ==
  \A s \in Senders :
    pc[s] = "pending" =>
      /\ gate_closed /\ s \in send_wakers
      /\ \/ rpc[ChannelOf[s]] \in {"rx_close", "rx_wake"}
         \/ Alive(ChannelOf[s]) /\ len[ChannelOf[s]] > 0
         \/ Opening

\* The deadlock that the gate must not cause (the module's "preventing deadlocks"):
\* while a receiver waits for data, no sender of any channel waits for the gate,
\* unless one of the two is about to be released.
NeverBothWait ==
  \A c \in Channels, s \in Senders :
    rpc[c] = "waiting" /\ pc[s] = "pending" =>
      Opening \/ \E t \in Senders : ChannelOf[t] = c /\ pc[t] \in {"close", "drop_close"}

\* A receiver waits only on an empty channel that has senders: an element pushed,
\* or the last sender leaving, wakes it.
ReceiverNotStranded ==
  \A c \in Channels :
    rpc[c] = "waiting" =>
      /\ ~closed[c]
      /\ len[c] > 0 => \E s \in Senders : ChannelOf[s] = c /\ pc[s] = "close"
      /\ \E s \in Senders : ChannelOf[s] = c /\ pc[s] \in Counted \cup {"dropping", "drop_close"}

\* Every send that waits returns, with the element queued or with the error, when
\* every output is read on or dropped.
SendReturns ==
  \A s \in Senders : pc[s] = "pending" ~> pc[s] \in {"ready", "dropping", "gone"}
================================================================================
