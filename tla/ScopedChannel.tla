---------------------------- MODULE ScopedChannel ----------------------------
(***************************************************************************)
(* The tasks of one scope using one channel: the channel operations of     *)
(* src/src/structured_scope.ml, each of which changes the channel and the  *)
(* scheduler entries of the tasks it blocks or wakes in one step.          *)
(*                                                                         *)
(* A scheduler entry is abstracted to what the operations look at: whether *)
(* the task can call (its token is with the driver), is suspended on the   *)
(* channel, or is settled.  Values are the ordinals of the send calls.     *)
(***************************************************************************)
EXTENDS Naturals, SequencesExt

CONSTANTS Tasks,       \* the tasks of the scope
          Capacities,  \* the capacities a channel may be opened with
          MaxSends     \* bound on the send calls

ASSUME MaxSendsAssumption == MaxSends \in Nat
ASSUME CapacitiesAssumption == Capacities \subseteq Nat

Values == 1..MaxSends

Chan == INSTANCE ChannelContract WITH Sender <- Tasks, Value <- Values

VARIABLES channel,
          state,        \* of each task
          answer,       \* what each task's last channel operation returned
          sends,        \* send calls so far
          received,     \* values received, in order
          acknowledged  \* values whose sender was told Channel_send_ok

vars == <<channel, state, answer, sends, received, acknowledged>>

States == {"Calling", "Channel_sending", "Channel_receiving", "Settled"}
Answers == {"None", "Send_ok", "Send_closed", "Recv_ok", "Recv_closed"}

Init ==
  /\ \E capacity \in Capacities : channel = Chan!Opened(capacity)
  /\ state = [t \in Tasks |-> "Calling"]
  /\ answer = [t \in Tasks |-> "None"]
  /\ sends = 0
  /\ received = <<>>
  /\ acknowledged = {}

\* commit_channel_wake: the tasks of W resume their operation with answer a.
WokenWith(W, a) ==
  /\ state' = [t \in Tasks |-> IF t \in W THEN "Calling" ELSE state[t]]
  /\ answer' = [t \in Tasks |-> IF t \in W THEN a[t] ELSE answer[t]]

----------------------------------------------------------------------------
(* channel_send: the caller's value is the next ordinal.                   *)

SendClosed(t) ==
  /\ Chan!SendOutcome(channel) = "Send_closed"
  /\ answer' = [answer EXCEPT ![t] = "Send_closed"]
  /\ UNCHANGED <<state, received, acknowledged>>

\* The woken receiver is answered before the sender continues.
SendDelivered(t, v) ==
  /\ Chan!SendOutcome(channel) = "Send_delivered"
  /\ LET receiver == Head(channel.receivers)
     IN  /\ state[receiver] = "Channel_receiving"
         /\ WokenWith({t, receiver}, [u \in {t, receiver} |->
                                        IF u = receiver THEN "Recv_ok" ELSE "Send_ok"])
  /\ received' = Append(received, v)
  /\ acknowledged' = acknowledged \cup {v}

SendCompleted(t, v) ==
  /\ Chan!SendOutcome(channel) = "Send_completed"
  /\ answer' = [answer EXCEPT ![t] = "Send_ok"]
  /\ acknowledged' = acknowledged \cup {v}
  /\ UNCHANGED <<state, received>>

SendBlocked(t) ==
  /\ Chan!SendOutcome(channel) = "Send_blocked"
  /\ state' = [state EXCEPT ![t] = "Channel_sending"]
  /\ UNCHANGED <<answer, received, acknowledged>>

Send(t) ==
  /\ state[t] = "Calling"
  /\ sends < MaxSends
  /\ sends' = sends + 1
  /\ channel' = Chan!AfterSend(channel, t, sends + 1)
  /\ \/ SendClosed(t)
     \/ SendDelivered(t, sends + 1)
     \/ SendCompleted(t, sends + 1)
     \/ SendBlocked(t)

----------------------------------------------------------------------------
(* channel_recv *)

\* A receive takes a value, and the first blocked sender, if any, learns that
\* its own was accepted.
RecvDelivered(t) ==
  /\ Chan!RecvOutcome(channel) = "Recv_delivered"
  /\ received' = Append(received, Chan!ReceivedValue(channel))
  /\ IF channel.senders = <<>>
     THEN /\ WokenWith({t}, [u \in {t} |-> "Recv_ok"])
          /\ UNCHANGED acknowledged
     ELSE LET completed == Head(channel.senders)
          IN  /\ state[completed.sender] = "Channel_sending"
              /\ WokenWith({t, completed.sender},
                           [u \in {t, completed.sender} |->
                              IF u = t THEN "Recv_ok" ELSE "Send_ok"])
              /\ acknowledged' = acknowledged \cup {completed.sent_value}

RecvClosed(t) ==
  /\ Chan!RecvOutcome(channel) = "Recv_closed"
  /\ answer' = [answer EXCEPT ![t] = "Recv_closed"]
  /\ UNCHANGED <<state, received, acknowledged>>

RecvBlocked(t) ==
  /\ Chan!RecvOutcome(channel) = "Recv_blocked"
  /\ state' = [state EXCEPT ![t] = "Channel_receiving"]
  /\ UNCHANGED <<answer, received, acknowledged>>

Recv(t) ==
  /\ state[t] = "Calling"
  /\ channel' = Chan!AfterRecv(channel, t)
  /\ RecvDelivered(t) \/ RecvClosed(t) \/ RecvBlocked(t)
  /\ UNCHANGED sends

----------------------------------------------------------------------------
(* channel_close: every wake is prepared before anything changes, so a     *)
(* waiter that could not be woken would leave the channel open.            *)

Close(t) ==
  LET rejected_senders == {p.sender : p \in ToSet(Chan!RejectedSenders(channel))}
      rejected_receivers == ToSet(Chan!RejectedReceivers(channel))
      rejected == rejected_senders \cup rejected_receivers
  IN  /\ state[t] = "Calling"
      /\ \A u \in rejected : state[u] \in {"Channel_sending", "Channel_receiving"}
      /\ channel' = Chan!AfterClose(channel)
      /\ WokenWith(rejected, [u \in rejected |-> IF u \in rejected_senders
                                                 THEN "Send_closed" ELSE "Recv_closed"])
      /\ UNCHANGED <<sends, received, acknowledged>>

----------------------------------------------------------------------------
(* Leaving the channel. *)

\* complete, fail, or a cancellation at a boundary of the running task.
Settle(t) ==
  /\ state[t] = "Calling"
  /\ state' = [state EXCEPT ![t] = "Settled"]
  /\ UNCHANGED <<channel, answer, sends, received, acknowledged>>

\* deliver_cancel of a suspended task takes it off the channel first.
DeliverCancel(t) ==
  /\ state[t] \in {"Channel_sending", "Channel_receiving"}
  /\ channel' = Chan!AfterCancel(channel, t)
  /\ state' = [state EXCEPT ![t] = "Settled"]
  /\ UNCHANGED <<answer, sends, received, acknowledged>>

\* close_owned: the channels are torn down, then every task is settled.
CloseScope ==
  /\ ~channel.torn_down
  /\ channel' = Chan!AfterTeardown(channel)
  /\ state' = [t \in Tasks |-> "Settled"]
  /\ UNCHANGED <<answer, sends, received, acknowledged>>

Next ==
  \/ \E t \in Tasks : Send(t) \/ Recv(t) \/ Close(t) \/ Settle(t) \/ DeliverCancel(t)
  \/ CloseScope

Spec == Init /\ [][Next]_vars

----------------------------------------------------------------------------
(* Properties. *)

SentValues(s) == [i \in DOMAIN s |-> s[i].sent_value]
Waiting(t, s) == \E i \in DOMAIN s : s[i] = t
Senders == [i \in DOMAIN channel.senders |-> channel.senders[i].sender]

\* Every variable stays in its declared range.
TypeOK ==
  /\ channel \in Chan!ChannelState
  /\ state \in [Tasks -> States]
  /\ answer \in [Tasks -> Answers]
  /\ sends \in 0..MaxSends
  /\ received \in Seq(Values)
  /\ acknowledged \subseteq Values

\* The channel's waiting lists name exactly the tasks suspended on it, in the
\* direction they are suspended in, each once: a cancelled waiter leaves no
\* entry behind that would later swallow a value or be woken.
WaitersAreSuspended ==
  /\ \A t \in Tasks : /\ Waiting(t, Senders) <=> state[t] = "Channel_sending"
                      /\ Waiting(t, channel.receivers) <=> state[t] = "Channel_receiving"
  /\ IsInjective(Senders)
  /\ IsInjective(channel.receivers)

\* Nobody waits for what is there: a sender waits only behind a full buffer,
\* a receiver only when nothing is buffered or offered, and nobody at a closed
\* channel; the buffer never exceeds the capacity.
NoNeedlessWait ==
  /\ Len(channel.buffer) <= channel.capacity
  /\ channel.senders # <<>> => Len(channel.buffer) = channel.capacity
  /\ channel.receivers # <<>> => channel.buffer = <<>> /\ channel.senders = <<>>
  /\ channel.closed => channel.senders = <<>> /\ channel.receivers = <<>>

\* Values are received in the order their sends were called, each at most
\* once, across every mix of buffered, blocked, handed-over and cancelled
\* sends.
DeliveryIsFifo ==
  LET line == received \o channel.buffer \o SentValues(channel.senders)
  IN  \A i, j \in DOMAIN line : i < j => line[i] < line[j]

\* A sender is told ok exactly for the values that were received or are
\* buffered; only the end of the scope drops a buffered value.
AcknowledgedIsKept ==
  IF channel.torn_down
  THEN ToSet(received) \subseteq acknowledged
  ELSE acknowledged = ToSet(received) \cup ToSet(channel.buffer)

\* A receiver told that the channel is closed has missed nothing: every
\* acknowledged value has been received by then, and none is acknowledged
\* later.
EndOfStreamIsFinal ==
  (\E t \in Tasks : answer[t] = "Recv_closed") /\ ~channel.torn_down
     => acknowledged = ToSet(received)

\* What waits, what was delivered and what callers were told fit together:
\* the four invariants above other than NoNeedlessWait.
ChannelAgrees == WaitersAreSuspended /\ DeliveryIsFifo /\ AcknowledgedIsKept /\ EndOfStreamIsFinal

\* The channel with its buffer and blocked senders is a bounded FIFO.
Fifo == INSTANCE BoundedFifo WITH
  Value <- Values,
  capacity <- channel.capacity,
  offered <- channel.buffer \o SentValues(channel.senders),
  readers <- Len(channel.receivers),
  open <- ~channel.closed,
  received <- received

ImplementsFifo == Fifo!FifoSpec
==============================================================================
