----------------------------- MODULE BoundedFifo -----------------------------
(***************************************************************************)
(* What a scoped channel promises, without buffers and blocked senders     *)
(* being different things: values are offered in an order and received in  *)
(* that order.  The first `capacity` of the values on offer are accepted:  *)
(* only the others can be withdrawn by cancelling their sender or refused  *)
(* by closing.                                                             *)
(***************************************************************************)
EXTENDS Naturals, SequencesExt

CONSTANT Value

VARIABLES capacity,   \* how many offered values are accepted at once
          offered,    \* values sent and not received yet, oldest first
          readers,    \* how many receivers wait
          open,
          received    \* values received so far, in order

fifoVars == <<capacity, offered, readers, open, received>>

FifoInit ==
  /\ capacity \in Nat
  /\ offered = <<>>
  /\ readers = 0
  /\ open = TRUE
  /\ received = <<>>

Offer(v) ==
  /\ open
  /\ IF readers > 0
     THEN /\ readers' = readers - 1
          /\ received' = Append(received, v)
          /\ UNCHANGED offered
     ELSE /\ offered' = Append(offered, v)
          /\ UNCHANGED <<readers, received>>
  /\ UNCHANGED <<capacity, open>>

Take ==
  /\ offered # <<>>
  /\ received' = Append(received, Head(offered))
  /\ offered' = Tail(offered)
  /\ UNCHANGED <<capacity, readers, open>>

\* A reader waits only when nothing is on offer and more may come.
WaitForValue ==
  /\ open
  /\ offered = <<>>
  /\ readers' = readers + 1
  /\ UNCHANGED <<capacity, offered, open, received>>

Withdraw ==
  /\ \E i \in DOMAIN offered : i > capacity /\ offered' = RemoveAt(offered, i)
  /\ UNCHANGED <<capacity, readers, open, received>>

StopWaiting ==
  /\ readers > 0
  /\ readers' = readers - 1
  /\ UNCHANGED <<capacity, offered, open, received>>

CloseFifo ==
  /\ open
  /\ open' = FALSE
  /\ readers' = 0
  /\ offered' = IF Len(offered) > capacity THEN SubSeq(offered, 1, capacity) ELSE offered
  /\ UNCHANGED <<capacity, received>>

\* The end of the scope.
Abandon ==
  /\ open' = FALSE
  /\ readers' = 0
  /\ offered' = <<>>
  /\ UNCHANGED <<capacity, received>>

FifoNext ==
  \/ \E v \in Value : Offer(v)
  \/ Take
  \/ WaitForValue
  \/ Withdraw
  \/ StopWaiting
  \/ CloseFifo
  \/ Abandon

FifoSpec == FifoInit /\ [][FifoNext]_fifoVars
==============================================================================
