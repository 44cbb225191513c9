--------------------------- MODULE ChannelContract ---------------------------
(***************************************************************************)
(* The transitions of one scoped channel: src/src/channel_contract.ml.  A  *)
(* channel is a record; each operation has an outcome and a channel after  *)
(* it, as the source's functions have a result and assignments.            *)
(***************************************************************************)
EXTENDS Integers, SequencesExt

CONSTANTS Sender,     \* the tasks that use the channel
          Value       \* what they send

PendingSender == [sender : Sender, sent_value : Value]

ChannelState == [ capacity : Nat, closed : BOOLEAN, torn_down : BOOLEAN,
                  buffer : Seq(Value), senders : Seq(PendingSender),
                  receivers : Seq(Sender) ]

\* A wrong open: the capacity counts the value being handed over.
OpenedOneShort(capacity) ==
  [ capacity |-> capacity - 1, closed |-> FALSE, torn_down |-> FALSE,
    buffer |-> <<>>, senders |-> <<>>, receivers |-> <<>> ]

\* open_channel; a negative capacity is refused before anything is built.
Opened(capacity) ==
  [ capacity |-> capacity, closed |-> FALSE, torn_down |-> FALSE,
    buffer |-> <<>>, senders |-> <<>>, receivers |-> <<>> ]

----------------------------------------------------------------------------
(* send *)

\* A wrong send: it does not ask whether the channel is closed.
SendOutcomeUnasked(c) ==
  CASE c.receivers # <<>> -> "Send_delivered"
    [] c.receivers = <<>> /\ Len(c.buffer) < c.capacity -> "Send_completed"
    [] OTHER -> "Send_blocked"

SendOutcome(c) ==
  CASE c.closed -> "Send_closed"
    [] ~c.closed /\ c.receivers # <<>> -> "Send_delivered"
    [] ~c.closed /\ c.receivers = <<>> /\ Len(c.buffer) < c.capacity -> "Send_completed"
    [] OTHER -> "Send_blocked"

AfterSend(c, t, v) ==
  CASE SendOutcome(c) = "Send_closed" -> c
    [] SendOutcome(c) = "Send_delivered" -> [c EXCEPT !.receivers = Tail(@)]
    [] SendOutcome(c) = "Send_completed" -> [c EXCEPT !.buffer = Append(@, v)]
    [] SendOutcome(c) = "Send_blocked" ->
         [c EXCEPT !.senders = Append(@, [sender |-> t, sent_value |-> v])]

----------------------------------------------------------------------------
(* recv *)

RecvOutcome(c) ==
  CASE c.buffer # <<>> \/ c.senders # <<>> -> "Recv_delivered"
    [] c.buffer = <<>> /\ c.senders = <<>> /\ c.closed -> "Recv_closed"
    [] OTHER -> "Recv_blocked"

ReceivedValue(c) ==
  IF c.buffer # <<>> THEN Head(c.buffer) ELSE Head(c.senders).sent_value

\* A wrong recv: the freed slot is left to whoever sends next.
RecvWithoutRefill(c, t) ==
  CASE c.buffer # <<>> -> [c EXCEPT !.buffer = Tail(@)]
    [] c.buffer = <<>> /\ c.senders # <<>> -> [c EXCEPT !.senders = Tail(@)]
    [] RecvOutcome(c) = "Recv_closed" -> c
    [] RecvOutcome(c) = "Recv_blocked" -> [c EXCEPT !.receivers = Append(@, t)]

\* The first blocked sender moves its value into the slot a receive frees, or
\* hands it over directly when nothing is buffered.
AfterRecv(c, t) ==
  CASE c.buffer # <<>> /\ c.senders = <<>> -> [c EXCEPT !.buffer = Tail(@)]
    [] c.buffer # <<>> /\ c.senders # <<>> ->
         [c EXCEPT !.buffer = Append(Tail(@), Head(c.senders).sent_value),
                   !.senders = Tail(@)]
    [] c.buffer = <<>> /\ c.senders # <<>> -> [c EXCEPT !.senders = Tail(@)]
    [] RecvOutcome(c) = "Recv_closed" -> c
    [] RecvOutcome(c) = "Recv_blocked" -> [c EXCEPT !.receivers = Append(@, t)]

----------------------------------------------------------------------------
(* close, cancel, teardown *)

RejectedSenders(c) == IF c.closed THEN <<>> ELSE c.senders
RejectedReceivers(c) == IF c.closed \/ c.buffer # <<>> THEN <<>> ELSE c.receivers

AfterClose(c) ==
  IF c.closed THEN c
  ELSE [c EXCEPT !.closed = TRUE, !.senders = <<>>,
                 !.receivers = IF c.buffer = <<>> THEN <<>> ELSE @]

\* A wrong cancel: it forgets that a task may be receiving.
CancelSenderOnly(c, t) ==
  [c EXCEPT !.senders = RemoveFirstMatch(@, LAMBDA p : p.sender = t)]

AfterCancel(c, t) ==
  IF \E i \in DOMAIN c.senders : c.senders[i].sender = t
  THEN [c EXCEPT !.senders = RemoveFirstMatch(@, LAMBDA p : p.sender = t)]
  ELSE [c EXCEPT !.receivers = RemoveFirst(@, t)]

AfterTeardown(c) ==
  [c EXCEPT !.closed = TRUE, !.torn_down = TRUE, !.buffer = <<>>, !.senders = <<>>,
            !.receivers = <<>>]
==============================================================================
