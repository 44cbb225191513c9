------------------------- MODULE ScopedChannelProofs -------------------------
(***************************************************************************)
(* Proofs about ScopedChannel for every set of tasks, every set of         *)
(* capacities and every number of sends: the channel's lists name the      *)
(* suspended tasks, nobody waits needlessly, values stay in order, what    *)
(* waits, what was delivered and what the callers were told fit together,  *)
(* and the channel implements BoundedFifo.                                 *)
(***************************************************************************)
EXTENDS ScopedChannel, SequenceTheorems, TLAPS

Pending == Chan!PendingSender

----------------------------------------------------------------------------
(* Sequences.                                                              *)

\* RemoveAt keeps the other elements, in order.
LEMMA RemoveAtElements ==
  ASSUME NEW S, NEW s \in Seq(S), NEW k \in 1..Len(s)
  PROVE  /\ RemoveAt(s, k) \in Seq(S)
         /\ Len(RemoveAt(s, k)) = Len(s) - 1
         /\ \A i \in 1..(Len(s) - 1) : RemoveAt(s, k)[i] = s[IF i < k THEN i ELSE i + 1]
<1> DEFINE left == SubSeq(s, 1, k - 1)
           right == SubSeq(s, k + 1, Len(s))
<1>1. left \in Seq(S) /\ Len(left) = k - 1 /\ \A i \in 1..(k - 1) : left[i] = s[i]
  OBVIOUS
<1>2. /\ right \in Seq(S)
      /\ Len(right) = Len(s) - k
      /\ \A i \in 1..(Len(s) - k) : right[i] = s[k + i]
  OBVIOUS
<1> HIDE DEF left, right
<1>3. /\ left \o right \in Seq(S)
      /\ Len(left \o right) = Len(left) + Len(right)
      /\ \A i \in 1..(Len(left) + Len(right)) :
           (left \o right)[i] = IF i <= Len(left) THEN left[i] ELSE right[i - Len(left)]
  BY <1>1, <1>2, ConcatProperties
<1>4. ASSUME NEW i \in 1..(Len(s) - 1)
      PROVE  (left \o right)[i] = s[IF i < k THEN i ELSE i + 1]
  <2>1. CASE i < k
    BY <2>1, <1>1, <1>2, <1>3
  <2>2. CASE ~(i < k)
    <3> DEFINE j == i - (k - 1)
    <3>1. j \in 1..(Len(s) - k) /\ k + j = i + 1
      BY <2>2
    <3>2. (left \o right)[i] = right[j]
      BY <2>2, <1>1, <1>2, <1>3
    <3> QED
      BY <2>2, <3>1, <3>2, <1>2
  <2> QED
    BY <2>1, <2>2
<1>5. RemoveAt(s, k) = left \o right
  BY DEF RemoveAt, left, right
<1>6. Len(left) + Len(right) = Len(s) - 1
  BY <1>1, <1>2
<1> QED
  BY <1>3, <1>4, <1>5, <1>6

\* Who waits in a list.
In(t, s) == \E i \in 1..Len(s) : s[i] = t
SendersOf(s) == [i \in DOMAIN s |-> s[i].sender]

\* The values and the tasks of the waiting senders, as sequences.
LEMMA FieldsAre ==
  ASSUME NEW s \in Seq(Pending)
  PROVE  /\ SentValues(s) \in Seq(Values)
         /\ Len(SentValues(s)) = Len(s)
         /\ \A i \in 1..Len(s) : SentValues(s)[i] = s[i].sent_value
         /\ SendersOf(s) \in Seq(Tasks)
         /\ Len(SendersOf(s)) = Len(s)
         /\ \A i \in 1..Len(s) : SendersOf(s)[i] = s[i].sender
<1>1. ASSUME NEW i \in 1..Len(s)
      PROVE  s[i].sent_value \in Values /\ s[i].sender \in Tasks
  <2>1. s[i] \in Pending
    OBVIOUS
  <2> QED
    BY <2>1 DEF Pending, Chan!PendingSender
<1> DEFINE w == [i \in 1..Len(s) |-> s[i].sent_value]
           u == [i \in 1..Len(s) |-> s[i].sender]
<1>2. SentValues(s) = w /\ SendersOf(s) = u
  BY DEF SentValues, SendersOf
<1>3. w \in Seq(Values) /\ u \in Seq(Tasks)
  BY <1>1
<1>4. Len(w) = Len(s) /\ Len(u) = Len(s)
  BY <1>3
<1> QED
  BY <1>2, <1>3, <1>4

\* The fields of a list without its head.
LEMMA FieldsOfTail ==
  ASSUME NEW s \in Seq(Pending), s # <<>>
  PROVE  /\ SentValues(s) # <<>> /\ SendersOf(s) # <<>>
         /\ Head(SentValues(s)) = Head(s).sent_value
         /\ Head(SendersOf(s)) = Head(s).sender
         /\ SentValues(Tail(s)) = Tail(SentValues(s))
         /\ SendersOf(Tail(s)) = Tail(SendersOf(s))
<1> DEFINE r == Tail(s)
<1>1. r \in Seq(Pending) /\ Len(s) > 0 /\ Len(r) = Len(s) - 1 /\ \A i \in 1..Len(r) : r[i] = s[i + 1]
  BY HeadTailProperties, EmptySeq
<1>2. SentValues(s) # <<>> /\ SendersOf(s) # <<>>
  BY <1>1, FieldsAre
<1> DEFINE w == Tail(SentValues(s))
           u == Tail(SendersOf(s))
<1> HIDE DEF r
<1>3. /\ w \in Seq(Values)
      /\ Len(w) = Len(s) - 1
      /\ \A i \in 1..Len(r) : w[i] = s[i + 1].sent_value
  BY <1>1, <1>2, FieldsAre, HeadTailProperties
<1>4. /\ u \in Seq(Tasks)
      /\ Len(u) = Len(s) - 1
      /\ \A i \in 1..Len(r) : u[i] = s[i + 1].sender
  BY <1>1, <1>2, FieldsAre, HeadTailProperties
<1> HIDE DEF w, u
<1>5. SentValues(r) = w
  <2>1. /\ SentValues(r) \in Seq(Values) /\ Len(SentValues(r)) = Len(r)
        /\ \A i \in 1..Len(r) : SentValues(r)[i] = r[i].sent_value
    BY <1>1, FieldsAre
  <2>2. \A i \in 1..Len(r) : SentValues(r)[i] = w[i]
    BY <1>1, <1>3, <2>1
  <2> QED
    BY <1>1, <1>3, <2>1, <2>2, SeqEqual
<1>6. SendersOf(r) = u
  <2>1. /\ SendersOf(r) \in Seq(Tasks) /\ Len(SendersOf(r)) = Len(r)
        /\ \A i \in 1..Len(r) : SendersOf(r)[i] = r[i].sender
    BY <1>1, FieldsAre
  <2>2. \A i \in 1..Len(r) : SendersOf(r)[i] = u[i]
    BY <1>1, <1>4, <2>1
  <2> QED
    BY <1>1, <1>4, <2>1, <2>2, SeqEqual
<1>7. Head(SentValues(s)) = Head(s).sent_value /\ Head(SendersOf(s)) = Head(s).sender
  BY <1>1, FieldsAre
<1> QED
  BY <1>2, <1>5, <1>6, <1>7 DEF r, u, w

\* The fields of a list with one more entry.
LEMMA FieldsOfAppend ==
  ASSUME NEW s \in Seq(Pending), NEW t \in Tasks, NEW v \in Values,
         NEW r, r = Append(s, [sender |-> t, sent_value |-> v])
  PROVE  /\ SentValues(r) = Append(SentValues(s), v)
         /\ SendersOf(r) = Append(SendersOf(s), t)
<1> DEFINE e == [sender |-> t, sent_value |-> v]
<1>1. e \in Pending /\ e.sender = t /\ e.sent_value = v
  BY DEF Pending, Chan!PendingSender
<1> HIDE DEF e
<1>2. /\ r \in Seq(Pending) /\ Len(r) = Len(s) + 1
      /\ \A i \in 1..Len(s) : r[i] = s[i]
      /\ r[Len(s) + 1] = e
  BY <1>1, AppendProperties DEF e
<1>3. /\ Append(SentValues(s), v) \in Seq(Values)
      /\ Len(Append(SentValues(s), v)) = Len(s) + 1
      /\ \A i \in 1..Len(s) : Append(SentValues(s), v)[i] = s[i].sent_value
      /\ Append(SentValues(s), v)[Len(s) + 1] = v
  BY FieldsAre, AppendProperties
<1>4. /\ Append(SendersOf(s), t) \in Seq(Tasks)
      /\ Len(Append(SendersOf(s), t)) = Len(s) + 1
      /\ \A i \in 1..Len(s) : Append(SendersOf(s), t)[i] = s[i].sender
      /\ Append(SendersOf(s), t)[Len(s) + 1] = t
  BY FieldsAre, AppendProperties
<1>5. /\ SentValues(r) \in Seq(Values) /\ Len(SentValues(r)) = Len(r)
      /\ \A i \in 1..Len(r) : SentValues(r)[i] = r[i].sent_value
      /\ SendersOf(r) \in Seq(Tasks) /\ Len(SendersOf(r)) = Len(r)
      /\ \A i \in 1..Len(r) : SendersOf(r)[i] = r[i].sender
  BY <1>2, FieldsAre
<1>6. \A i \in 1..Len(r) : i \in 1..Len(s) \/ i = Len(s) + 1
  BY <1>2
<1>7. \A i \in 1..Len(r) : SentValues(r)[i] = Append(SentValues(s), v)[i]
  BY <1>1, <1>2, <1>3, <1>5, <1>6
<1>8. \A i \in 1..Len(r) : SendersOf(r)[i] = Append(SendersOf(s), t)[i]
  BY <1>1, <1>2, <1>4, <1>5, <1>6
<1>9. SentValues(r) = Append(SentValues(s), v)
  BY <1>2, <1>3, <1>5, <1>7, SeqEqual
<1>10. SendersOf(r) = Append(SendersOf(s), t)
  BY <1>2, <1>4, <1>5, <1>8, SeqEqual
<1> QED
  BY <1>9, <1>10

\* The fields of a list without one entry.
LEMMA FieldsOfRemoveAt ==
  ASSUME NEW s \in Seq(Pending), NEW k \in 1..Len(s), NEW r, r = RemoveAt(s, k)
  PROVE  /\ SentValues(r) = RemoveAt(SentValues(s), k)
         /\ SendersOf(r) = RemoveAt(SendersOf(s), k)
<1>1. /\ r \in Seq(Pending) /\ Len(r) = Len(s) - 1
      /\ \A i \in 1..(Len(s) - 1) : r[i] = s[IF i < k THEN i ELSE i + 1]
  BY RemoveAtElements
<1>2. /\ SentValues(r) \in Seq(Values) /\ Len(SentValues(r)) = Len(r)
      /\ \A i \in 1..Len(r) : SentValues(r)[i] = r[i].sent_value
      /\ SendersOf(r) \in Seq(Tasks) /\ Len(SendersOf(r)) = Len(r)
      /\ \A i \in 1..Len(r) : SendersOf(r)[i] = r[i].sender
  BY <1>1, FieldsAre
<1> DEFINE vs == SentValues(s)
           ts == SendersOf(s)
           w == RemoveAt(vs, k)
           u == RemoveAt(ts, k)
<1>0. /\ vs \in Seq(Values) /\ Len(vs) = Len(s) /\ \A i \in 1..Len(s) : vs[i] = s[i].sent_value
      /\ ts \in Seq(Tasks) /\ Len(ts) = Len(s) /\ \A i \in 1..Len(s) : ts[i] = s[i].sender
  BY FieldsAre
<1> HIDE DEF vs, ts
<1>3. /\ w \in Seq(Values) /\ Len(w) = Len(s) - 1
      /\ \A i \in 1..(Len(s) - 1) : w[i] = vs[IF i < k THEN i ELSE i + 1]
  BY <1>0, RemoveAtElements
<1>4. /\ u \in Seq(Tasks) /\ Len(u) = Len(s) - 1
      /\ \A i \in 1..(Len(s) - 1) : u[i] = ts[IF i < k THEN i ELSE i + 1]
  BY <1>0, RemoveAtElements
<1> HIDE DEF w, u
<1>6. ASSUME NEW i \in 1..Len(r)
      PROVE  SentValues(r)[i] = w[i] /\ SendersOf(r)[i] = u[i]
  <2> DEFINE j == IF i < k THEN i ELSE i + 1
  <2>1. i \in 1..(Len(s) - 1) /\ j \in 1..Len(s)
    BY <1>1
  <2>2. r[i] = s[j] /\ w[i] = vs[j] /\ u[i] = ts[j]
    BY <2>1, <1>1, <1>3, <1>4
  <2> HIDE DEF j
  <2> QED
    BY <2>1, <2>2, <1>0, <1>2
<1>7. SentValues(r) = w
  <2>1. Len(SentValues(r)) = Len(w) /\ \A i \in 1..Len(SentValues(r)) : SentValues(r)[i] = w[i]
    BY <1>1, <1>2, <1>3, <1>6
  <2> QED
    BY <1>2, <1>3, <2>1, SeqEqual
<1>8. SendersOf(r) = u
  <2>1. Len(SendersOf(r)) = Len(u) /\ \A i \in 1..Len(SendersOf(r)) : SendersOf(r)[i] = u[i]
    BY <1>1, <1>2, <1>4, <1>6
  <2> QED
    BY <1>2, <1>4, <2>1, SeqEqual
<1> QED
  BY <1>7, <1>8 DEF w, u, vs, ts

\* Membership in a duplicate-free list, when its head leaves, ...
LEMMA InTail ==
  ASSUME NEW s \in Seq(Tasks), s # <<>>, IsInjective(s)
  PROVE  /\ Head(s) \in Tasks /\ In(Head(s), s)
         /\ IsInjective(Tail(s))
         /\ \A t : In(t, Tail(s)) <=> In(t, s) /\ t # Head(s)
<1>1. /\ Tail(s) \in Seq(Tasks) /\ Len(s) > 0 /\ Len(Tail(s)) = Len(s) - 1
      /\ \A i \in 1..Len(Tail(s)) : Tail(s)[i] = s[i + 1]
      /\ Head(s) = s[1] /\ Head(s) \in Tasks
  BY HeadTailProperties, EmptySeq
<1>2. IsInjective(Tail(s))
  BY <1>1 DEF IsInjective
<1>3. ASSUME NEW t
      PROVE  In(t, Tail(s)) <=> In(t, s) /\ t # Head(s)
  <2>1. ASSUME In(t, Tail(s)) PROVE In(t, s) /\ t # Head(s)
    BY <1>1, <2>1 DEF In, IsInjective
  <2>2. ASSUME In(t, s), t # Head(s) PROVE In(t, Tail(s))
    <3>1. PICK i \in 1..Len(s) : s[i] = t
      BY <2>2 DEF In
    <3>2. i - 1 \in 1..Len(Tail(s)) /\ Tail(s)[i - 1] = t
      BY <1>1, <2>2, <3>1
    <3> QED
      BY <3>2 DEF In
  <2> QED
    BY <2>1, <2>2
<1>4. In(Head(s), s)
  BY <1>1 DEF In
<1> QED
  BY <1>1, <1>2, <1>3, <1>4

\* ... a newcomer joins, ...
LEMMA InAppend ==
  ASSUME NEW s \in Seq(Tasks), IsInjective(s), NEW t \in Tasks, ~In(t, s)
  PROVE  /\ IsInjective(Append(s, t))
         /\ \A u : In(u, Append(s, t)) <=> In(u, s) \/ u = t
<1> DEFINE r == Append(s, t)
<1>1. /\ r \in Seq(Tasks) /\ Len(r) = Len(s) + 1
      /\ \A i \in 1..Len(s) : r[i] = s[i]
      /\ r[Len(s) + 1] = t
  BY AppendProperties
<1> HIDE DEF r
<1>2. \A i \in 1..Len(r) : i \in 1..Len(s) \/ i = Len(s) + 1
  BY <1>1
<1>3. IsInjective(r)
  BY <1>1, <1>2 DEF IsInjective, In
<1>4. ASSUME NEW u
      PROVE  In(u, r) <=> In(u, s) \/ u = t
  BY <1>1, <1>2 DEF In
<1> QED
  BY <1>3, <1>4 DEF r

\* ... or a member is taken out.
LEMMA InRemoveAt ==
  ASSUME NEW s \in Seq(Tasks), IsInjective(s), NEW k \in 1..Len(s)
  PROVE  /\ IsInjective(RemoveAt(s, k))
         /\ \A t : In(t, RemoveAt(s, k)) <=> In(t, s) /\ t # s[k]
<1> DEFINE r == RemoveAt(s, k)
<1>1. /\ r \in Seq(Tasks) /\ Len(r) = Len(s) - 1
      /\ \A i \in 1..(Len(s) - 1) : r[i] = s[IF i < k THEN i ELSE i + 1]
  BY RemoveAtElements
<1> HIDE DEF r
<1> DEFINE at(i) == IF i < k THEN i ELSE i + 1
<1>a. \A i \in 1..Len(r) : at(i) \in 1..Len(s) /\ at(i) # k /\ r[i] = s[at(i)]
  BY <1>1
<1>b. \A i, j \in 1..Len(r) : at(i) = at(j) => i = j
  BY <1>1
<1> HIDE DEF at
<1>2. IsInjective(r)
  BY <1>1, <1>a, <1>b DEF IsInjective
<1>3. ASSUME NEW t
      PROVE  In(t, r) <=> In(t, s) /\ t # s[k]
  <2>1. ASSUME In(t, r) PROVE In(t, s) /\ t # s[k]
    <3>1. PICK i \in 1..Len(r) : r[i] = t
      BY <2>1 DEF In
    <3> QED
      BY <1>a, <3>1 DEF In, IsInjective
  <2>2. ASSUME In(t, s), t # s[k] PROVE In(t, r)
    <3>1. PICK i \in 1..Len(s) : s[i] = t
      BY <2>2 DEF In
    <3>2. CASE i < k
      BY <1>1, <3>1, <3>2 DEF In
    <3>3. CASE i > k
      <4>1. i - 1 \in 1..(Len(s) - 1) /\ r[i - 1] = t
        BY <1>1, <3>1, <3>3
      <4> QED
        BY <1>1, <4>1 DEF In
    <3> QED
      BY <2>2, <3>1, <3>2, <3>3
  <2> QED
    BY <2>1, <2>2
<1> QED
  BY <1>2, <1>3 DEF r

----------------------------------------------------------------------------
(* The contract's transitions keep a channel well-formed.                  *)

\* d is c but for its lists.
OnlyLists(c, d) ==
  d.capacity = c.capacity /\ d.closed = c.closed /\ d.torn_down = c.torn_down

\* The lists of d are b, p and r.
ListsAre(d, b, p, r) == d.buffer = b /\ d.senders = p /\ d.receivers = r

\* The fields of a channel.
LEMMA ChannelFields ==
  ASSUME NEW c \in Chan!ChannelState
  PROVE  /\ c.capacity \in Nat /\ c.closed \in BOOLEAN /\ c.torn_down \in BOOLEAN
         /\ c.buffer \in Seq(Values) /\ c.senders \in Seq(Pending)
         /\ c.receivers \in Seq(Tasks)
BY DEF Chan!ChannelState, Pending

\* send changes one list, by its outcome.
LEMMA AfterSendIs ==
  ASSUME NEW c \in Chan!ChannelState, NEW t \in Tasks, NEW v \in Values,
         NEW d, d = Chan!AfterSend(c, t, v)
  PROVE  /\ d \in Chan!ChannelState
         /\ OnlyLists(c, d)
         /\ \/ /\ Chan!SendOutcome(c) = "Send_closed"
               /\ c.closed
               /\ ListsAre(d, c.buffer, c.senders, c.receivers)
            \/ /\ Chan!SendOutcome(c) = "Send_delivered"
               /\ ~c.closed /\ c.receivers # <<>>
               /\ ListsAre(d, c.buffer, c.senders, Tail(c.receivers))
            \/ /\ Chan!SendOutcome(c) = "Send_completed"
               /\ ~c.closed /\ c.receivers = <<>> /\ Len(c.buffer) < c.capacity
               /\ ListsAre(d, Append(c.buffer, v), c.senders, c.receivers)
            \/ /\ Chan!SendOutcome(c) = "Send_blocked"
               /\ ~c.closed /\ c.receivers = <<>> /\ ~(Len(c.buffer) < c.capacity)
               /\ ListsAre(d, c.buffer, Append(c.senders, [sender |-> t, sent_value |-> v]),
                           c.receivers)
<1> DEFINE p == Append(c.senders, [sender |-> t, sent_value |-> v])
           b == Append(c.buffer, v)
           r == Tail(c.receivers)
<1>f. /\ c.closed \in BOOLEAN /\ c.buffer \in Seq(Values) /\ c.senders \in Seq(Pending)
      /\ c.receivers \in Seq(Tasks)
  BY ChannelFields
<1>1. CASE c.closed
  BY <1>1 DEF Chan!AfterSend, Chan!SendOutcome, OnlyLists, ListsAre
<1>2. CASE ~c.closed /\ c.receivers # <<>>
  <2>1. d = [c EXCEPT !.receivers = r]
    BY <1>2 DEF Chan!AfterSend, Chan!SendOutcome
  <2>2. r \in Seq(Tasks)
    BY <1>2, <1>f
  <2> HIDE DEF r
  <2>3. d \in Chan!ChannelState
    BY <2>1, <2>2 DEF Chan!ChannelState, Pending
  <2>4. OnlyLists(c, d) /\ ListsAre(d, c.buffer, c.senders, r)
    BY <2>1 DEF OnlyLists, ListsAre, Chan!ChannelState
  <2> QED
    BY <1>2, <2>3, <2>4 DEF r, Chan!SendOutcome
<1>3. CASE ~c.closed /\ c.receivers = <<>> /\ Len(c.buffer) < c.capacity
  <2>1. d = [c EXCEPT !.buffer = b]
    BY <1>3 DEF Chan!AfterSend, Chan!SendOutcome
  <2>2. b \in Seq(Values)
    BY <1>f, AppendProperties
  <2> HIDE DEF b
  <2>3. d \in Chan!ChannelState
    BY <2>1, <2>2 DEF Chan!ChannelState, Pending
  <2>4. OnlyLists(c, d) /\ ListsAre(d, b, c.senders, c.receivers)
    BY <2>1 DEF OnlyLists, ListsAre, Chan!ChannelState
  <2> QED
    BY <1>3, <2>3, <2>4 DEF b, Chan!SendOutcome
<1>4. CASE ~c.closed /\ c.receivers = <<>> /\ ~(Len(c.buffer) < c.capacity)
  <2>1. d = [c EXCEPT !.senders = p]
    BY <1>4 DEF Chan!AfterSend, Chan!SendOutcome
  <2>2. p \in Seq(Pending)
    <3>1. [sender |-> t, sent_value |-> v] \in Pending
      BY DEF Pending, Chan!PendingSender
    <3> QED
      BY <3>1, <1>f, AppendProperties
  <2> HIDE DEF p
  <2>3. d \in Chan!ChannelState
    BY <2>1, <2>2 DEF Chan!ChannelState, Pending
  <2>4. OnlyLists(c, d) /\ ListsAre(d, c.buffer, p, c.receivers)
    BY <2>1 DEF OnlyLists, ListsAre, Chan!ChannelState
  <2> QED
    BY <1>4, <2>3, <2>4 DEF p, Chan!SendOutcome
<1> QED
  BY <1>1, <1>2, <1>3, <1>4

\* recv takes a value, finds the channel closed, or waits.
LEMMA AfterRecvIs ==
  ASSUME NEW c \in Chan!ChannelState, NEW t \in Tasks, NEW d, d = Chan!AfterRecv(c, t)
  PROVE  /\ d \in Chan!ChannelState
         /\ OnlyLists(c, d)
         /\ \/ /\ Chan!RecvOutcome(c) = "Recv_delivered"
               /\ c.buffer # <<>> /\ c.senders = <<>>
               /\ ListsAre(d, Tail(c.buffer), c.senders, c.receivers)
            \/ /\ Chan!RecvOutcome(c) = "Recv_delivered"
               /\ c.buffer # <<>> /\ c.senders # <<>>
               /\ ListsAre(d, Append(Tail(c.buffer), Head(c.senders).sent_value),
                           Tail(c.senders), c.receivers)
            \/ /\ Chan!RecvOutcome(c) = "Recv_delivered"
               /\ c.buffer = <<>> /\ c.senders # <<>>
               /\ ListsAre(d, c.buffer, Tail(c.senders), c.receivers)
            \/ /\ Chan!RecvOutcome(c) = "Recv_closed"
               /\ c.buffer = <<>> /\ c.senders = <<>> /\ c.closed
               /\ ListsAre(d, c.buffer, c.senders, c.receivers)
            \/ /\ Chan!RecvOutcome(c) = "Recv_blocked"
               /\ c.buffer = <<>> /\ c.senders = <<>> /\ ~c.closed
               /\ ListsAre(d, c.buffer, c.senders, Append(c.receivers, t))
<1> DEFINE b == Tail(c.buffer)
           v == Head(c.senders).sent_value
           p == Tail(c.senders)
           r == Append(c.receivers, t)
<1>f. /\ c.closed \in BOOLEAN /\ c.buffer \in Seq(Values) /\ c.senders \in Seq(Pending)
      /\ c.receivers \in Seq(Tasks)
  BY ChannelFields
<1>p. c.senders # <<>> => p \in Seq(Pending) /\ v \in Values
  <2> SUFFICES ASSUME c.senders # <<>> PROVE p \in Seq(Pending) /\ v \in Values
    OBVIOUS
  <2>1. Head(c.senders) \in Pending /\ p \in Seq(Pending)
    BY <1>f, HeadTailProperties
  <2> QED
    BY <2>1 DEF Pending, Chan!PendingSender
<1>b. c.buffer # <<>> => b \in Seq(Values)
  BY <1>f
<1>r. r \in Seq(Tasks)
  BY <1>f, AppendProperties
<1> HIDE DEF b, v, p, r
<1>1. CASE c.buffer # <<>> /\ c.senders = <<>>
  <2>1. d = [c EXCEPT !.buffer = b]
    BY <1>1 DEF Chan!AfterRecv, Chan!RecvOutcome, b
  <2>2. d \in Chan!ChannelState
    BY <2>1, <1>1, <1>b DEF Chan!ChannelState, Pending
  <2>3. OnlyLists(c, d) /\ ListsAre(d, b, c.senders, c.receivers)
    BY <2>1 DEF OnlyLists, ListsAre, Chan!ChannelState
  <2> QED
    BY <1>1, <2>2, <2>3 DEF b, Chan!RecvOutcome
<1>2. CASE c.buffer # <<>> /\ c.senders # <<>>
  <2> DEFINE e == Append(b, v)
  <2>1. d = [c EXCEPT !.buffer = e, !.senders = p]
    BY <1>2 DEF Chan!AfterRecv, Chan!RecvOutcome, b, v, p
  <2>2. e \in Seq(Values)
    BY <1>2, <1>b, <1>p, AppendProperties
  <2> HIDE DEF e
  <2>3. d \in Chan!ChannelState
    BY <2>1, <2>2, <1>2, <1>p DEF Chan!ChannelState, Pending
  <2>4. OnlyLists(c, d) /\ ListsAre(d, e, p, c.receivers)
    BY <2>1 DEF OnlyLists, ListsAre, Chan!ChannelState
  <2> QED
    BY <1>2, <2>3, <2>4 DEF e, b, v, p, Chan!RecvOutcome
<1>3. CASE c.buffer = <<>> /\ c.senders # <<>>
  <2>1. d = [c EXCEPT !.senders = p]
    BY <1>3 DEF Chan!AfterRecv, Chan!RecvOutcome, p
  <2>2. d \in Chan!ChannelState
    BY <2>1, <1>3, <1>p DEF Chan!ChannelState, Pending
  <2>3. OnlyLists(c, d) /\ ListsAre(d, c.buffer, p, c.receivers)
    BY <2>1 DEF OnlyLists, ListsAre, Chan!ChannelState
  <2> QED
    BY <1>3, <2>2, <2>3 DEF p, Chan!RecvOutcome
<1>4. CASE c.buffer = <<>> /\ c.senders = <<>> /\ c.closed
  BY <1>4 DEF Chan!AfterRecv, Chan!RecvOutcome, OnlyLists, ListsAre
<1>5. CASE c.buffer = <<>> /\ c.senders = <<>> /\ ~c.closed
  <2>1. d = [c EXCEPT !.receivers = r]
    BY <1>5 DEF Chan!AfterRecv, Chan!RecvOutcome, r
  <2>2. d \in Chan!ChannelState
    BY <2>1, <1>r DEF Chan!ChannelState
  <2>3. OnlyLists(c, d) /\ ListsAre(d, c.buffer, c.senders, r)
    BY <2>1 DEF OnlyLists, ListsAre, Chan!ChannelState
  <2> QED
    BY <1>5, <2>2, <2>3 DEF r, Chan!RecvOutcome
<1> QED
  BY <1>1, <1>2, <1>3, <1>4, <1>5

\* close empties the list of senders, and the receivers' when nothing is left
\* for them.
LEMMA AfterCloseIs ==
  ASSUME NEW c \in Chan!ChannelState, NEW d, d = Chan!AfterClose(c)
  PROVE  /\ d \in Chan!ChannelState
         /\ d.capacity = c.capacity /\ d.torn_down = c.torn_down /\ d.closed
         /\ IF c.closed THEN d = c
            ELSE ListsAre(d, c.buffer, <<>>, IF c.buffer = <<>> THEN <<>> ELSE c.receivers)
<1> DEFINE r == IF c.buffer = <<>> THEN <<>> ELSE c.receivers
<1>1. CASE c.closed
  BY <1>1 DEF Chan!AfterClose
<1>2. CASE ~c.closed
  <2>1. d = [c EXCEPT !.closed = TRUE, !.senders = <<>>, !.receivers = r]
    BY <1>2 DEF Chan!AfterClose
  <2>2. r \in Seq(Tasks) /\ <<>> \in Seq(Pending)
    BY ChannelFields
  <2> HIDE DEF r
  <2>3. d \in Chan!ChannelState
    BY <2>1, <2>2 DEF Chan!ChannelState, Pending
  <2>4. /\ d.capacity = c.capacity /\ d.torn_down = c.torn_down /\ d.closed
        /\ ListsAre(d, c.buffer, <<>>, r)
    BY <2>1 DEF ListsAre, Chan!ChannelState
  <2> QED
    BY <1>2, <2>3, <2>4 DEF r
<1> QED
  BY <1>1, <1>2

\* The end of the scope empties every list.
LEMMA AfterTeardownIs ==
  ASSUME NEW c \in Chan!ChannelState, NEW d, d = Chan!AfterTeardown(c)
  PROVE  /\ d \in Chan!ChannelState
         /\ d.capacity = c.capacity /\ d.torn_down /\ d.closed
         /\ ListsAre(d, <<>>, <<>>, <<>>)
<1>1. d = [c EXCEPT !.closed = TRUE, !.torn_down = TRUE, !.buffer = <<>>, !.senders = <<>>,
                    !.receivers = <<>>]
  BY DEF Chan!AfterTeardown
<1>2. <<>> \in Seq(Values) /\ <<>> \in Seq(Chan!PendingSender) /\ <<>> \in Seq(Tasks)
  OBVIOUS
<1> QED
  BY <1>1, <1>2 DEF Chan!ChannelState, ListsAre

\* Cancelling a waiter removes its one entry.
LEMMA AfterCancelIs ==
  ASSUME NEW c \in Chan!ChannelState, NEW t \in Tasks, NEW d, d = Chan!AfterCancel(c, t),
         IsInjective([i \in DOMAIN c.senders |-> c.senders[i].sender]),
         IsInjective(c.receivers),
         \/ \E i \in DOMAIN c.senders : c.senders[i].sender = t
         \/ \E i \in DOMAIN c.receivers : c.receivers[i] = t
  PROVE  /\ d \in Chan!ChannelState
         /\ OnlyLists(c, d)
         /\ \/ \E k \in 1..Len(c.senders) :
                  /\ c.senders[k].sender = t
                  /\ ListsAre(d, c.buffer, RemoveAt(c.senders, k), c.receivers)
            \/ \E k \in 1..Len(c.receivers) :
                  /\ c.receivers[k] = t
                  /\ ~\E i \in DOMAIN c.senders : c.senders[i].sender = t
                  /\ ListsAre(d, c.buffer, c.senders, RemoveAt(c.receivers, k))
<1>f. c.senders \in Seq(Pending) /\ c.receivers \in Seq(Tasks)
  BY ChannelFields
<1>m. \A k \in Nat : {k} # {} /\ Chan!Min({k}) = k
  BY DEF Chan!Min
<1>1. CASE \E i \in DOMAIN c.senders : c.senders[i].sender = t
  <2>1. PICK k \in 1..Len(c.senders) : c.senders[k].sender = t
    BY <1>1, <1>f
  <2> DEFINE p == RemoveAt(c.senders, k)
  <2>2. {i \in 1..Len(c.senders) : c.senders[i].sender = t} = {k}
    <3>1. ASSUME NEW i \in 1..Len(c.senders), c.senders[i].sender = t
          PROVE  i = k
      <4> DEFINE f == [j \in DOMAIN c.senders |-> c.senders[j].sender]
      <4>1. DOMAIN f = 1..Len(c.senders) /\ f[i] = t /\ f[k] = t
        BY <1>f, <2>1, <3>1
      <4>2. IsInjective(f)
        OBVIOUS
      <4> HIDE DEF f
      <4> QED
        BY <4>1, <4>2 DEF IsInjective
    <3> QED
      BY <2>1, <3>1
  <2>3. p \in Seq(Pending)
    BY <1>f, RemoveAtElements
  <2>4. Chan!SelectInSeq(c.senders, LAMBDA q : q.sender = t) = k
    BY <2>2, <1>m DEF Chan!SelectInSeq
  <2>5. d = [c EXCEPT !.senders = p]
    BY <1>1, <1>f, <2>1, <2>4 DEF Chan!AfterCancel, Chan!RemoveFirstMatch, Chan!RemoveAt, RemoveAt
  <2> HIDE DEF p
  <2>6. d \in Chan!ChannelState
    BY <2>3, <2>5 DEF Chan!ChannelState, Pending
  <2>7. OnlyLists(c, d) /\ ListsAre(d, c.buffer, p, c.receivers)
    BY <2>5 DEF OnlyLists, ListsAre, Chan!ChannelState
  <2> QED
    BY <2>1, <2>6, <2>7 DEF p
<1>2. CASE ~\E i \in DOMAIN c.senders : c.senders[i].sender = t
  <2>1. PICK k \in 1..Len(c.receivers) : c.receivers[k] = t
    BY <1>2, <1>f
  <2> DEFINE r == RemoveAt(c.receivers, k)
  <2>2. {i \in 1..Len(c.receivers) : c.receivers[i] = t} = {k}
    BY <1>f, <2>1 DEF IsInjective
  <2>3. r \in Seq(Tasks)
    BY <1>f, RemoveAtElements
  <2>4. Chan!SelectInSeq(c.receivers, LAMBDA q : q = t) = k
    BY <2>2, <1>m DEF Chan!SelectInSeq
  <2>5. d = [c EXCEPT !.receivers = r]
    BY <1>2, <2>1, <2>4 DEF Chan!AfterCancel, Chan!RemoveFirst, Chan!RemoveAt, RemoveAt
  <2> HIDE DEF r
  <2>6. d \in Chan!ChannelState
    BY <2>3, <2>5 DEF Chan!ChannelState, Pending
  <2>7. OnlyLists(c, d) /\ ListsAre(d, c.buffer, c.senders, r)
    BY <2>5 DEF OnlyLists, ListsAre, Chan!ChannelState
  <2> QED
    BY <1>2, <2>1, <2>6, <2>7 DEF r
<1> QED
  BY <1>1, <1>2

----------------------------------------------------------------------------
(* The inductive invariant.                                                *)

IInv == TypeOK /\ WaitersAreSuspended /\ NoNeedlessWait

\* WaitersAreSuspended and NoNeedlessWait of a channel and the tasks' states.
Waits(c, st) ==
  /\ \A t \in Tasks : /\ In(t, SendersOf(c.senders)) <=> st[t] = "Channel_sending"
                      /\ In(t, c.receivers) <=> st[t] = "Channel_receiving"
  /\ IsInjective(SendersOf(c.senders))
  /\ IsInjective(c.receivers)
Tidy(c) ==
  /\ Len(c.buffer) <= c.capacity
  /\ c.senders # <<>> => Len(c.buffer) = c.capacity
  /\ c.receivers # <<>> => c.buffer = <<>> /\ c.senders = <<>>
  /\ c.closed => c.senders = <<>> /\ c.receivers = <<>>

\* The invariant now, ...
LEMMA InvariantForm ==
  ASSUME TypeOK
  PROVE  /\ WaitersAreSuspended <=> Waits(channel, state)
         /\ NoNeedlessWait <=> Tidy(channel)
<1>1. channel.senders \in Seq(Pending) /\ channel.receivers \in Seq(Tasks)
  BY ChannelFields DEF TypeOK
<1>2. Senders = SendersOf(channel.senders)
  BY DEF Senders, SendersOf
<1>3. SendersOf(channel.senders) \in Seq(Tasks)
  BY <1>1, FieldsAre
<1>5. WaitersAreSuspended => Waits(channel, state)
  BY <1>1, <1>2, <1>3 DEF WaitersAreSuspended, Waits, Waiting, In, IsInjective
<1>6. Waits(channel, state) => WaitersAreSuspended
  BY <1>1, <1>2, <1>3 DEF WaitersAreSuspended, Waits, Waiting, In, IsInjective
<1>7. NoNeedlessWait <=> Tidy(channel)
  BY DEF NoNeedlessWait, Tidy
<1> QED
  BY <1>5, <1>6, <1>7

\* ... and after a step.
LEMMA InvariantFormNext ==
  ASSUME TypeOK'
  PROVE  /\ WaitersAreSuspended' <=> Waits(channel', state')
         /\ NoNeedlessWait' <=> Tidy(channel')
<1>1. channel'.senders \in Seq(Pending) /\ channel'.receivers \in Seq(Tasks)
  BY ChannelFields DEF TypeOK
<1>2. Senders' = SendersOf(channel'.senders)
  BY DEF Senders, SendersOf
<1>3. SendersOf(channel'.senders) \in Seq(Tasks)
  BY <1>1, FieldsAre
<1>5. WaitersAreSuspended' => Waits(channel', state')
  BY <1>1, <1>2, <1>3 DEF WaitersAreSuspended, Waits, Waiting, In, IsInjective
<1>6. Waits(channel', state') => WaitersAreSuspended'
  BY <1>1, <1>2, <1>3 DEF WaitersAreSuspended, Waits, Waiting, In, IsInjective
<1>7. NoNeedlessWait' <=> Tidy(channel')
  BY DEF NoNeedlessWait, Tidy
<1> QED
  BY <1>5, <1>6, <1>7

\* A fresh channel has nobody waiting.
LEMMA InitIInv == Init => IInv
<1> SUFFICES ASSUME Init PROVE IInv
  OBVIOUS
<1>1. PICK capacity \in Capacities : channel = Chan!Opened(capacity)
  BY DEF Init
<1>2. capacity \in Nat
  BY CapacitiesAssumption
<1>3. <<>> \in Seq(Values) /\ <<>> \in Seq(Chan!PendingSender) /\ <<>> \in Seq(Tasks)
  OBVIOUS
<1>4. channel \in Chan!ChannelState
  BY <1>1, <1>2, <1>3 DEF Chan!Opened, Chan!ChannelState
<1>5. TypeOK
  BY <1>3, <1>4, MaxSendsAssumption DEF Init, TypeOK, States, Answers
<1>6. channel.buffer = <<>> /\ channel.senders = <<>> /\ channel.receivers = <<>> /\ ~channel.closed
  BY <1>1 DEF Chan!Opened
<1>7. Waits(channel, state)
  <2>1. SendersOf(channel.senders) \in Seq(Tasks) /\ Len(SendersOf(channel.senders)) = 0
    BY <1>4, <1>6, ChannelFields, FieldsAre
  <2> QED
    BY <1>6, <2>1 DEF Waits, In, IsInjective, Init
<1>8. Tidy(channel)
  BY <1>2, <1>4, <1>6, ChannelFields DEF Tidy
<1> QED
  BY <1>5, <1>7, <1>8, InvariantForm DEF IInv

\* A woken task can call and nobody else's state changes.
LEMMA WokenWithIs ==
  ASSUME TypeOK, NEW W \in SUBSET Tasks, NEW a \in [W -> Answers], WokenWith(W, a)
  PROVE  /\ state' \in [Tasks -> States]
         /\ answer' \in [Tasks -> Answers]
         /\ \A t \in Tasks : state'[t] = IF t \in W THEN "Calling" ELSE state[t]
         /\ \A t \in Tasks : answer'[t] = IF t \in W THEN a[t] ELSE answer[t]
BY DEF TypeOK, WokenWith, States

----------------------------------------------------------------------------
(* Every operation keeps it.                                               *)

\* send.
LEMMA StepSend ==
  ASSUME IInv, NEW t \in Tasks, Send(t)
  PROVE  IInv'
<1> DEFINE v == sends + 1
           p == channel.senders
           r == channel.receivers
<1>1. /\ channel \in Chan!ChannelState /\ state \in [Tasks -> States]
      /\ answer \in [Tasks -> Answers] /\ v \in Values /\ sends' \in 0..MaxSends
      /\ received \in Seq(Values) /\ acknowledged \subseteq Values
  BY MaxSendsAssumption DEF IInv, TypeOK, Send, Values
<1>2. /\ channel.buffer \in Seq(Values) /\ p \in Seq(Pending) /\ r \in Seq(Tasks)
      /\ channel.capacity \in Nat
  BY <1>1, ChannelFields
<1>3. Waits(channel, state) /\ Tidy(channel)
  BY InvariantForm DEF IInv
<1>4. state[t] = "Calling" /\ channel' = Chan!AfterSend(channel, t, v)
  BY DEF Send
<1>5. channel' \in Chan!ChannelState /\ OnlyLists(channel, channel')
  BY <1>1, <1>4, AfterSendIs
<1>6. SendersOf(p) \in Seq(Tasks)
  BY <1>2, FieldsAre
<1> SUFFICES ASSUME TRUE
             PROVE  TypeOK' /\ Waits(channel', state') /\ Tidy(channel')
  BY InvariantFormNext DEF IInv
<1> HIDE DEF v
<1>7. CASE Chan!SendOutcome(channel) = "Send_closed"
  <2>1. ListsAre(channel', channel.buffer, p, r)
    BY <1>1, <1>4, <1>7, AfterSendIs
  <2>2. SendClosed(t)
    BY <1>7 DEF Send, SendClosed, SendDelivered, SendCompleted, SendBlocked
  <2>3. TypeOK'
    BY <1>1, <1>5, <2>2 DEF TypeOK, SendClosed, Answers
  <2>4. Waits(channel', state')
    BY <1>3, <2>1, <2>2 DEF Waits, ListsAre, SendClosed
  <2>5. Tidy(channel')
    BY <1>3, <1>5, <2>1 DEF Tidy, ListsAre, OnlyLists
  <2> QED
    BY <2>3, <2>4, <2>5
<1>8. CASE Chan!SendOutcome(channel) = "Send_delivered"
  <2>1. ~channel.closed /\ r # <<>> /\ ListsAre(channel', channel.buffer, p, Tail(r))
    BY <1>1, <1>4, <1>8, AfterSendIs
  <2>2. SendDelivered(t, v)
    BY <1>8 DEF Send, SendClosed, SendDelivered, SendCompleted, SendBlocked, v
  <2> DEFINE u == Head(r)
             a == [w \in {t, u} |-> IF w = u THEN "Recv_ok" ELSE "Send_ok"]
  <2>3. /\ u \in Tasks /\ In(u, r) /\ IsInjective(Tail(r))
        /\ \A w : In(w, Tail(r)) <=> In(w, r) /\ w # u
    BY <1>2, <1>3, <2>1, InTail DEF Waits
  <2>4. state[u] = "Channel_receiving" /\ WokenWith({t, u}, a)
    BY <2>2 DEF SendDelivered
  <2> HIDE DEF u
  <2>5. a \in [{t, u} -> Answers]
    BY DEF Answers
  <2>6. /\ state' \in [Tasks -> States] /\ answer' \in [Tasks -> Answers]
        /\ \A w \in Tasks : state'[w] = IF w \in {t, u} THEN "Calling" ELSE state[w]
    BY <2>3, <2>4, <2>5, WokenWithIs DEF IInv
  <2>7. received' \in Seq(Values) /\ acknowledged' \subseteq Values
    BY <1>1, <2>2, AppendProperties DEF SendDelivered
  <2>8. TypeOK'
    BY <1>1, <1>5, <2>6, <2>7 DEF TypeOK
  <2>9. Waits(channel', state')
    BY <1>3, <1>4, <2>1, <2>3, <2>4, <2>6 DEF Waits, ListsAre
  <2>10. Tidy(channel')
    BY <1>3, <1>5, <2>1 DEF Tidy, ListsAre, OnlyLists
  <2> QED
    BY <2>8, <2>9, <2>10
<1>9. CASE Chan!SendOutcome(channel) = "Send_completed"
  <2>1. /\ ~channel.closed /\ r = <<>> /\ Len(channel.buffer) < channel.capacity
        /\ ListsAre(channel', Append(channel.buffer, v), p, r)
    BY <1>1, <1>4, <1>9, AfterSendIs
  <2>2. SendCompleted(t, v)
    BY <1>9 DEF Send, SendClosed, SendDelivered, SendCompleted, SendBlocked, v
  <2>3. TypeOK'
    BY <1>1, <1>5, <2>2 DEF TypeOK, SendCompleted, Answers
  <2>4. Waits(channel', state')
    BY <1>3, <2>1, <2>2 DEF Waits, ListsAre, SendCompleted
  <2>5. Len(Append(channel.buffer, v)) = Len(channel.buffer) + 1
    BY <1>1, <1>2, AppendProperties
  <2>6. Tidy(channel')
    BY <1>2, <1>3, <1>5, <2>1, <2>5 DEF Tidy, ListsAre, OnlyLists
  <2> QED
    BY <2>3, <2>4, <2>6
<1>10. CASE Chan!SendOutcome(channel) = "Send_blocked"
  <2> DEFINE q == Append(p, [sender |-> t, sent_value |-> v])
  <2>1. /\ ~channel.closed /\ r = <<>> /\ ~(Len(channel.buffer) < channel.capacity)
        /\ ListsAre(channel', channel.buffer, q, r)
    BY <1>1, <1>4, <1>10, AfterSendIs
  <2>2. SendBlocked(t)
    BY <1>10 DEF Send, SendClosed, SendDelivered, SendCompleted, SendBlocked
  <2>3. TypeOK'
    BY <1>1, <1>5, <2>2 DEF TypeOK, SendBlocked, States
  <2>4. SendersOf(q) = Append(SendersOf(p), t)
    BY <1>1, <1>2, FieldsOfAppend
  <2>5. ~In(t, SendersOf(p))
    BY <1>3, <1>4 DEF Waits
  <2>6. /\ IsInjective(SendersOf(q))
        /\ \A w : In(w, SendersOf(q)) <=> In(w, SendersOf(p)) \/ w = t
    <3> DEFINE ts == SendersOf(p)
    <3>1. ts \in Seq(Tasks) /\ IsInjective(ts) /\ ~In(t, ts)
      BY <1>3, <1>6, <2>5 DEF Waits
    <3> HIDE DEF ts
    <3>2. /\ IsInjective(Append(ts, t))
          /\ \A w : In(w, Append(ts, t)) <=> In(w, ts) \/ w = t
      BY <3>1, InAppend
    <3> QED
      BY <2>4, <3>2 DEF ts
  <2>7. Waits(channel', state')
    BY <1>1, <1>3, <1>4, <2>1, <2>2, <2>6 DEF Waits, ListsAre, SendBlocked
  <2>8. Tidy(channel')
    BY <1>2, <1>3, <1>5, <2>1 DEF Tidy, ListsAre, OnlyLists
  <2> QED
    BY <2>3, <2>7, <2>8
<1> QED
  BY <1>1, <1>4, <1>7, <1>8, <1>9, <1>10, AfterSendIs

\* recv.
LEMMA StepRecv ==
  ASSUME IInv, NEW t \in Tasks, Recv(t)
  PROVE  IInv'
<1> DEFINE b == channel.buffer
           p == channel.senders
           r == channel.receivers
<1>1. /\ channel \in Chan!ChannelState /\ state \in [Tasks -> States]
      /\ answer \in [Tasks -> Answers] /\ sends' \in 0..MaxSends
      /\ received \in Seq(Values) /\ acknowledged \subseteq Values
  BY DEF IInv, TypeOK, Recv
<1>2. /\ b \in Seq(Values) /\ p \in Seq(Pending) /\ r \in Seq(Tasks)
      /\ channel.capacity \in Nat
  BY <1>1, ChannelFields
<1>3. Waits(channel, state) /\ Tidy(channel)
  BY InvariantForm DEF IInv
<1>4. state[t] = "Calling" /\ channel' = Chan!AfterRecv(channel, t)
  BY DEF Recv
<1>5. channel' \in Chan!ChannelState /\ OnlyLists(channel, channel')
  BY <1>1, <1>4, AfterRecvIs
<1>6. SendersOf(p) \in Seq(Tasks)
  BY <1>2, FieldsAre
<1> SUFFICES ASSUME TRUE
             PROVE  TypeOK' /\ Waits(channel', state') /\ Tidy(channel')
  BY InvariantFormNext DEF IInv
<1>v. Chan!RecvOutcome(channel) = "Recv_delivered" => received' \in Seq(Values)
  <2> SUFFICES ASSUME Chan!RecvOutcome(channel) = "Recv_delivered"
               PROVE  received' \in Seq(Values)
    OBVIOUS
  <2>1. received' = Append(received, Chan!ReceivedValue(channel))
    BY DEF Recv, RecvDelivered, RecvClosed, RecvBlocked
  <2>2. b # <<>> \/ p # <<>>
    BY <1>1, <1>4, AfterRecvIs
  <2>3. b # <<>> => Head(b) \in Values
    BY <1>2
  <2>4. p # <<>> => Head(p).sent_value \in Values
    <3> SUFFICES ASSUME p # <<>> PROVE Head(p).sent_value \in Values
      OBVIOUS
    <3>1. Head(p) \in Pending
      BY <1>2, HeadTailProperties
    <3> QED
      BY <3>1 DEF Pending, Chan!PendingSender
  <2>5. Chan!ReceivedValue(channel) \in Values
    BY <2>2, <2>3, <2>4 DEF Chan!ReceivedValue
  <2> QED
    BY <1>1, <2>1, <2>5, AppendProperties
<1>7. CASE b # <<>> /\ p = <<>>
  <2>1. /\ Chan!RecvOutcome(channel) = "Recv_delivered"
        /\ ListsAre(channel', Tail(b), p, r)
    BY <1>1, <1>4, <1>7, AfterRecvIs
  <2>2. RecvDelivered(t)
    BY <2>1 DEF Recv, RecvDelivered, RecvClosed, RecvBlocked
  <2> DEFINE a == [u \in {t} |-> "Recv_ok"]
  <2>3. WokenWith({t}, a) /\ UNCHANGED acknowledged
    BY <1>7, <2>2 DEF RecvDelivered
  <2>4. a \in [{t} -> Answers]
    BY DEF Answers
  <2>5. /\ state' \in [Tasks -> States] /\ answer' \in [Tasks -> Answers]
        /\ \A w \in Tasks : state'[w] = IF w \in {t} THEN "Calling" ELSE state[w]
    BY <2>3, <2>4, WokenWithIs DEF IInv
  <2>6. TypeOK'
    BY <1>1, <1>5, <1>v, <2>1, <2>3, <2>5 DEF TypeOK
  <2>7. Waits(channel', state')
    BY <1>3, <1>4, <2>1, <2>5 DEF Waits, ListsAre
  <2>8. Len(Tail(b)) = Len(b) - 1
    BY <1>2, <1>7, HeadTailProperties
  <2>9. Tidy(channel')
    BY <1>2, <1>3, <1>5, <1>7, <2>1, <2>8 DEF Tidy, ListsAre, OnlyLists
  <2> QED
    BY <2>6, <2>7, <2>9
<1>8. CASE p # <<>>
  <2> DEFINE e == Append(Tail(b), Head(p).sent_value)
             u == Head(p).sender
             a == [w \in {t, u} |-> IF w = t THEN "Recv_ok" ELSE "Send_ok"]
  <2>1. /\ Chan!RecvOutcome(channel) = "Recv_delivered"
        /\ \/ b # <<>> /\ ListsAre(channel', e, Tail(p), r)
           \/ b = <<>> /\ ListsAre(channel', b, Tail(p), r)
    BY <1>1, <1>4, <1>8, AfterRecvIs
  <2>2. RecvDelivered(t)
    BY <2>1 DEF Recv, RecvDelivered, RecvClosed, RecvBlocked
  <2>3. /\ state[u] = "Channel_sending" /\ WokenWith({t, u}, a)
        /\ acknowledged' = acknowledged \cup {Head(p).sent_value}
    BY <1>8, <2>2 DEF RecvDelivered
  <2>4. Head(p).sent_value \in Values /\ Len(b) \in Nat
    <3>1. Head(p) \in Pending
      BY <1>2, <1>8, HeadTailProperties
    <3> QED
      BY <1>2, <3>1 DEF Pending, Chan!PendingSender
  <2>5. /\ SendersOf(p) # <<>> /\ Head(SendersOf(p)) = u
        /\ SendersOf(Tail(p)) = Tail(SendersOf(p))
    BY <1>2, <1>8, FieldsOfTail
  <2>6. /\ u \in Tasks /\ In(u, SendersOf(p)) /\ IsInjective(SendersOf(Tail(p)))
        /\ \A w : In(w, SendersOf(Tail(p))) <=> In(w, SendersOf(p)) /\ w # u
    <3> DEFINE ts == SendersOf(p)
    <3>1. ts \in Seq(Tasks) /\ ts # <<>> /\ IsInjective(ts)
      BY <1>3, <1>6, <2>5 DEF Waits
    <3>2. u = Head(ts) /\ SendersOf(Tail(p)) = Tail(ts)
      BY <2>5
    <3> HIDE DEF u, ts
    <3>3. /\ Head(ts) \in Tasks /\ In(Head(ts), ts) /\ IsInjective(Tail(ts))
          /\ \A w : In(w, Tail(ts)) <=> In(w, ts) /\ w # Head(ts)
      BY <3>1, InTail
    <3>4. /\ u \in Tasks /\ In(u, ts) /\ IsInjective(SendersOf(Tail(p)))
          /\ \A w : In(w, SendersOf(Tail(p))) <=> In(w, ts) /\ w # u
      BY <3>2, <3>3
    <3> QED
      BY <3>4 DEF ts
  <2>7. b # <<>> => Len(e) = Len(b)
    <3> SUFFICES ASSUME b # <<>> PROVE Len(e) = Len(b)
      OBVIOUS
    <3>1. Tail(b) \in Seq(Values) /\ Len(Tail(b)) = Len(b) - 1
      BY <1>2, HeadTailProperties
    <3> QED
      BY <2>4, <3>1, AppendProperties
  <2> HIDE DEF u, e
  <2>8. a \in [{t, u} -> Answers]
    BY DEF Answers
  <2>9. /\ state' \in [Tasks -> States] /\ answer' \in [Tasks -> Answers]
        /\ \A w \in Tasks : state'[w] = IF w \in {t, u} THEN "Calling" ELSE state[w]
    BY <2>3, <2>6, <2>8, WokenWithIs DEF IInv
  <2>10. TypeOK'
    BY <1>1, <1>5, <1>v, <2>1, <2>3, <2>4, <2>9 DEF TypeOK
  <2>11. Waits(channel', state')
    BY <1>3, <1>4, <2>1, <2>3, <2>6, <2>9 DEF Waits, ListsAre
  <2>12. Tidy(channel')
    BY <1>3, <1>5, <1>8, <2>1, <2>7 DEF Tidy, ListsAre, OnlyLists
  <2> QED
    BY <2>10, <2>11, <2>12
<1>9. CASE b = <<>> /\ p = <<>> /\ channel.closed
  <2>1. Chan!RecvOutcome(channel) = "Recv_closed" /\ ListsAre(channel', b, p, r)
    BY <1>1, <1>4, <1>9, AfterRecvIs
  <2>2. RecvClosed(t)
    BY <2>1 DEF Recv, RecvDelivered, RecvClosed, RecvBlocked
  <2>3. TypeOK'
    BY <1>1, <1>5, <2>2 DEF TypeOK, RecvClosed, Answers
  <2>4. Waits(channel', state')
    BY <1>3, <2>1, <2>2 DEF Waits, ListsAre, RecvClosed
  <2>5. Tidy(channel')
    BY <1>3, <1>5, <2>1 DEF Tidy, ListsAre, OnlyLists
  <2> QED
    BY <2>3, <2>4, <2>5
<1>10. CASE b = <<>> /\ p = <<>> /\ ~channel.closed
  <2>1. Chan!RecvOutcome(channel) = "Recv_blocked" /\ ListsAre(channel', b, p, Append(r, t))
    BY <1>1, <1>4, <1>10, AfterRecvIs
  <2>2. RecvBlocked(t)
    BY <2>1 DEF Recv, RecvDelivered, RecvClosed, RecvBlocked
  <2>3. TypeOK'
    BY <1>1, <1>5, <2>2 DEF TypeOK, RecvBlocked, States
  <2>4. ~In(t, r)
    BY <1>3, <1>4 DEF Waits
  <2>5. IsInjective(Append(r, t)) /\ \A w : In(w, Append(r, t)) <=> In(w, r) \/ w = t
    BY <1>2, <1>3, <2>4, InAppend DEF Waits
  <2>6. Waits(channel', state')
    BY <1>1, <1>3, <1>4, <2>1, <2>2, <2>5 DEF Waits, ListsAre, RecvBlocked
  <2>7. Tidy(channel')
    BY <1>3, <1>5, <1>10, <2>1 DEF Tidy, ListsAre, OnlyLists
  <2> QED
    BY <2>3, <2>6, <2>7
<1> QED
  BY <1>7, <1>8, <1>9, <1>10

\* close.
LEMMA StepClose ==
  ASSUME IInv, NEW t \in Tasks, Close(t)
  PROVE  IInv'
<1> DEFINE p == channel.senders
           r == channel.receivers
           rejected_senders == {q.sender : q \in ToSet(Chan!RejectedSenders(channel))}
           rejected_receivers == ToSet(Chan!RejectedReceivers(channel))
           rejected == rejected_senders \cup rejected_receivers
           a == [u \in rejected |-> IF u \in rejected_senders THEN "Send_closed" ELSE "Recv_closed"]
<1>1. /\ channel \in Chan!ChannelState /\ state \in [Tasks -> States]
      /\ answer \in [Tasks -> Answers] /\ sends' \in 0..MaxSends
      /\ received' \in Seq(Values) /\ acknowledged' \subseteq Values
  BY DEF IInv, TypeOK, Close
<1>2. p \in Seq(Pending) /\ r \in Seq(Tasks) /\ SendersOf(p) \in Seq(Tasks)
  BY <1>1, ChannelFields, FieldsAre
<1>3. Waits(channel, state) /\ Tidy(channel)
  BY InvariantForm DEF IInv
<1>4. state[t] = "Calling" /\ channel' = Chan!AfterClose(channel) /\ WokenWith(rejected, a)
  BY DEF Close
<1>5. rejected_senders = IF channel.closed THEN {} ELSE {u \in Tasks : In(u, SendersOf(p))}
  <2>1. CASE channel.closed
    BY <2>1 DEF Chan!RejectedSenders, ToSet
  <2>2. CASE ~channel.closed
    <3>1. rejected_senders = {q.sender : q \in {p[i] : i \in 1..Len(p)}}
      BY <1>2, <2>2 DEF Chan!RejectedSenders, ToSet
    <3>2. \A i \in 1..Len(p) : SendersOf(p)[i] = p[i].sender /\ SendersOf(p)[i] \in Tasks
      BY <1>2, FieldsAre
    <3>3. Len(SendersOf(p)) = Len(p)
      BY <1>2, FieldsAre
    <3> DEFINE ts == SendersOf(p)
    <3>4. ASSUME NEW u
          PROVE  u \in rejected_senders <=> u \in Tasks /\ In(u, ts)
      <4>1. u \in rejected_senders <=> \E i \in 1..Len(p) : u = p[i].sender
        BY <3>1
      <4> HIDE DEF rejected_senders
      <4>2. u \in Tasks /\ In(u, ts) <=> \E i \in 1..Len(p) : u = p[i].sender
        BY <3>2, <3>3 DEF In
      <4> QED
        BY <4>1, <4>2
    <3> HIDE DEF rejected_senders, ts
    <3>5. rejected_senders = {u \in Tasks : In(u, ts)}
      BY <3>4
    <3> QED
      BY <2>2, <3>5 DEF ts
  <2> QED
    BY <2>1, <2>2
<1>6. rejected_receivers = {u \in Tasks : In(u, Chan!RejectedReceivers(channel))}
  <2>1. Chan!RejectedReceivers(channel) \in Seq(Tasks)
    BY <1>2 DEF Chan!RejectedReceivers
  <2> QED
    BY <2>1 DEF ToSet, In
<1> HIDE DEF rejected_senders, rejected_receivers
<1>7. rejected \in SUBSET Tasks
  BY <1>5, <1>6
<1>8. a \in [rejected -> Answers]
  BY DEF Answers
<1>9. /\ state' \in [Tasks -> States] /\ answer' \in [Tasks -> Answers]
      /\ \A u \in Tasks : state'[u] = IF u \in rejected THEN "Calling" ELSE state[u]
  BY <1>4, <1>7, <1>8, WokenWithIs DEF IInv
<1>10. /\ channel' \in Chan!ChannelState
       /\ channel'.capacity = channel.capacity /\ channel'.closed
       /\ IF channel.closed THEN channel' = channel
          ELSE ListsAre(channel', channel.buffer, <<>>,
                        IF channel.buffer = <<>> THEN <<>> ELSE r)
  BY <1>1, <1>4, AfterCloseIs
<1>11. TypeOK'
  BY <1>1, <1>9, <1>10 DEF TypeOK
<1>12. Waits(channel', state') /\ Tidy(channel')
  <2>1. CASE channel.closed
    <3>1. p = <<>> /\ r = <<>>
      BY <1>3, <2>1 DEF Tidy
    <3>2. rejected = {}
      BY <1>5, <1>6, <2>1 DEF In, Chan!RejectedReceivers
    <3> QED
      BY <1>3, <1>9, <1>10, <2>1, <3>2 DEF Waits
  <2>2. CASE ~channel.closed
    <3>1. r = <<>> \/ channel.buffer = <<>>
      BY <1>3 DEF Tidy
    <3>2. channel'.senders = <<>> /\ channel'.receivers = <<>>
      BY <1>10, <2>2, <3>1 DEF ListsAre
    <3>3. Chan!RejectedReceivers(channel) = r
      BY <2>2, <3>1 DEF Chan!RejectedReceivers
    <3>4. \A u \in Tasks : state'[u] \notin {"Channel_sending", "Channel_receiving"}
      BY <1>3, <1>5, <1>6, <1>9, <2>2, <3>3 DEF Waits
    <3>5. SendersOf(<<>>) \in Seq(Tasks) /\ Len(SendersOf(<<>>)) = 0
      BY FieldsAre, EmptySeq
    <3>6. Waits(channel', state')
      BY <3>2, <3>4, <3>5 DEF Waits, In, IsInjective
    <3>7. Tidy(channel')
      BY <1>3, <1>10, <2>2, <3>2 DEF Tidy, ListsAre
    <3> QED
      BY <3>6, <3>7
  <2> QED
    BY <2>1, <2>2
<1> QED
  BY <1>11, <1>12, InvariantFormNext DEF IInv

\* A settled task leaves the lists as they are: it was on none.
LEMMA StepSettle ==
  ASSUME IInv, NEW t \in Tasks, Settle(t)
  PROVE  IInv'
<1>1. TypeOK'
  BY DEF IInv, TypeOK, Settle, States
<1>2. Waits(channel, state) /\ Tidy(channel)
  BY InvariantForm DEF IInv
<1>3. Waits(channel', state')
  BY <1>2 DEF Waits, Settle, IInv, TypeOK
<1>4. Tidy(channel')
  BY <1>2 DEF Settle
<1> QED
  BY <1>1, <1>3, <1>4, InvariantFormNext DEF IInv

\* A cancelled waiter takes its entry along.
LEMMA StepDeliverCancel ==
  ASSUME IInv, NEW t \in Tasks, DeliverCancel(t)
  PROVE  IInv'
<1> DEFINE p == channel.senders
           r == channel.receivers
           ts == SendersOf(p)
<1>1. /\ channel \in Chan!ChannelState /\ state \in [Tasks -> States]
      /\ state[t] \in {"Channel_sending", "Channel_receiving"}
      /\ channel' = Chan!AfterCancel(channel, t)
      /\ state' = [state EXCEPT ![t] = "Settled"]
  BY DEF IInv, TypeOK, DeliverCancel
<1>2. /\ p \in Seq(Pending) /\ r \in Seq(Tasks) /\ ts \in Seq(Tasks) /\ Len(ts) = Len(p)
      /\ \A i \in 1..Len(p) : ts[i] = p[i].sender
  BY <1>1, ChannelFields, FieldsAre
<1>3. Waits(channel, state) /\ Tidy(channel)
  BY InvariantForm DEF IInv
<1>4. IsInjective([i \in DOMAIN p |-> p[i].sender]) /\ IsInjective(r)
  BY <1>3 DEF Waits, SendersOf
<1>5. \/ \E i \in DOMAIN p : p[i].sender = t
      \/ \E i \in DOMAIN r : r[i] = t
  <2> HIDE DEF ts
  <2>1. In(t, ts) \/ In(t, r)
    BY <1>1, <1>3 DEF Waits, ts
  <2> QED
    BY <1>2, <2>1 DEF In
<1>6. /\ channel' \in Chan!ChannelState
      /\ OnlyLists(channel, channel')
      /\ \/ \E k \in 1..Len(p) : /\ p[k].sender = t
                                /\ ListsAre(channel', channel.buffer, RemoveAt(p, k), r)
         \/ \E k \in 1..Len(r) : /\ r[k] = t
                                /\ ListsAre(channel', channel.buffer, p, RemoveAt(r, k))
  BY <1>1, <1>4, <1>5, AfterCancelIs
<1>7. TypeOK'
  BY <1>1, <1>6 DEF IInv, TypeOK, DeliverCancel, States
<1>8. CASE \E k \in 1..Len(p) : /\ p[k].sender = t
                              /\ ListsAre(channel', channel.buffer, RemoveAt(p, k), r)
  <2>1. PICK k \in 1..Len(p) : /\ p[k].sender = t
                              /\ ListsAre(channel', channel.buffer, RemoveAt(p, k), r)
    BY <1>8
  <2>2. SendersOf(RemoveAt(p, k)) = RemoveAt(ts, k)
    BY <1>2, FieldsOfRemoveAt
  <2>3. IsInjective(ts) /\ k \in 1..Len(ts) /\ ts[k] = t
    BY <1>2, <1>3, <2>1 DEF Waits
  <2>4. /\ \A u \in Tasks : In(u, ts) <=> state[u] = "Channel_sending"
        /\ \A u \in Tasks : In(u, r) <=> state[u] = "Channel_receiving"
    BY <1>3 DEF Waits
  <2> HIDE DEF ts
  <2>5. /\ IsInjective(RemoveAt(ts, k))
        /\ \A u : In(u, RemoveAt(ts, k)) <=> In(u, ts) /\ u # t
    BY <1>2, <2>3, InRemoveAt
  <2>6. In(t, ts)
    BY <2>3 DEF In
  <2>7. Waits(channel', state')
    BY <1>1, <1>4, <2>1, <2>2, <2>4, <2>5, <2>6 DEF Waits, ListsAre
  <2>8. RemoveAt(p, k) # <<>> => p # <<>>
    BY <1>2, <2>1
  <2>9. channel.closed => p = <<>>
    BY <1>3 DEF Tidy
  <2>10. p # <<>>
    BY <1>2, <2>1
  <2>11. Tidy(channel')
    BY <1>3, <1>6, <2>1, <2>10 DEF Tidy, ListsAre, OnlyLists
  <2> QED
    BY <1>7, <2>7, <2>11, InvariantFormNext DEF IInv
<1>9. CASE \E k \in 1..Len(r) : /\ r[k] = t
                              /\ ListsAre(channel', channel.buffer, p, RemoveAt(r, k))
  <2>1. PICK k \in 1..Len(r) : /\ r[k] = t
                              /\ ListsAre(channel', channel.buffer, p, RemoveAt(r, k))
    BY <1>9
  <2>2. /\ IsInjective(RemoveAt(r, k))
        /\ \A u : In(u, RemoveAt(r, k)) <=> In(u, r) /\ u # t
    BY <1>2, <1>4, <2>1, InRemoveAt
  <2>3. In(t, r)
    BY <2>1 DEF In
  <2>4. Waits(channel', state')
    BY <1>1, <1>3, <2>1, <2>2, <2>3 DEF Waits, ListsAre
  <2>5. r # <<>>
    BY <1>2, <2>1
  <2>6. Tidy(channel')
    BY <1>3, <1>6, <2>1, <2>5 DEF Tidy, ListsAre, OnlyLists
  <2> QED
    BY <1>7, <2>4, <2>6, InvariantFormNext DEF IInv
<1> QED
  BY <1>6, <1>8, <1>9

\* The end of the scope leaves nobody waiting.
LEMMA StepCloseScope ==
  ASSUME IInv, CloseScope
  PROVE  IInv'
<1>1. /\ channel \in Chan!ChannelState /\ channel' = Chan!AfterTeardown(channel)
      /\ state' = [u \in Tasks |-> "Settled"]
  BY DEF IInv, TypeOK, CloseScope
<1>2. /\ channel' \in Chan!ChannelState /\ channel'.capacity = channel.capacity
      /\ ListsAre(channel', <<>>, <<>>, <<>>)
  BY <1>1, AfterTeardownIs
<1>3. TypeOK'
  BY <1>1, <1>2 DEF IInv, TypeOK, CloseScope, States
<1>4. SendersOf(<<>>) \in Seq(Tasks) /\ Len(SendersOf(<<>>)) = 0
  BY FieldsAre, EmptySeq
<1>5. Waits(channel', state')
  BY <1>1, <1>2, <1>4 DEF Waits, ListsAre, In, IsInjective
<1>6. channel'.capacity \in Nat
  BY <1>2, ChannelFields
<1>7. Tidy(channel')
  BY <1>2, <1>6 DEF Tidy, ListsAre
<1> QED
  BY <1>3, <1>5, <1>7, InvariantFormNext DEF IInv

\* No step breaks the invariant.
LEMMA StepKeepsIInv == IInv /\ [Next]_vars => IInv'
<1> SUFFICES ASSUME IInv, [Next]_vars PROVE IInv'
  OBVIOUS
<1>1. ASSUME NEW t \in Tasks, Send(t) \/ Recv(t) \/ Close(t) \/ Settle(t) \/ DeliverCancel(t)
      PROVE  IInv'
  BY <1>1, StepSend, StepRecv, StepClose, StepSettle, StepDeliverCancel
<1>2. CASE CloseScope
  BY <1>2, StepCloseScope
<1>3. CASE UNCHANGED vars
  BY <1>3 DEF vars, IInv, TypeOK, WaitersAreSuspended, Waiting, Senders, NoNeedlessWait
<1> QED
  BY <1>1, <1>2, <1>3 DEF Next

\* The inductive invariant holds of every reachable state.
LEMMA Invariance == Spec => []IInv
BY InitIInv, StepKeepsIInv, PTL DEF Spec

\* Every variable stays in its declared range, whatever the tasks, the
\* capacity and the number of sends.
THEOREM TypeCorrect == Spec => []TypeOK
BY Invariance, PTL DEF IInv

\* The lists of a channel name exactly the tasks suspended on it, each once:
\* commit_channel_wake and deliver_cancel always find the waiter they take.
THEOREM WaitersAlwaysSuspended == Spec => []WaitersAreSuspended
BY Invariance, PTL DEF IInv

\* Nobody waits for what the channel could give at once.
THEOREM NobodyWaitsNeedlessly == Spec => []NoNeedlessWait
BY Invariance, PTL DEF IInv

\* What a channel has on offer, in order.
Offered(c) == c.buffer \o SentValues(c.senders)

----------------------------------------------------------------------------
(* Concatenations.                                                         *)

\* Taking the first of two lists' elements.
LEMMA TailOfConcat ==
  ASSUME NEW S, NEW b \in Seq(S), NEW w \in Seq(S), b # <<>>
  PROVE  /\ b \o w # <<>>
         /\ Head(b \o w) = Head(b)
         /\ Tail(b \o w) = Tail(b) \o w
<1>1. /\ b \o w \in Seq(S) /\ Len(b \o w) = Len(b) + Len(w) /\ Len(b) > 0
      /\ \A i \in 1..(Len(b) + Len(w)) : (b \o w)[i] = IF i <= Len(b) THEN b[i] ELSE w[i - Len(b)]
  BY ConcatProperties, EmptySeq
<1>2. b \o w # <<>> /\ Head(b \o w) = Head(b)
  BY <1>1
<1> DEFINE c == b \o w
           l == Tail(c)
           tb == Tail(b)
           r == tb \o w
<1>3. /\ tb \in Seq(S) /\ Len(tb) = Len(b) - 1 /\ \A i \in 1..Len(tb) : tb[i] = b[i + 1]
  BY HeadTailProperties
<1> HIDE DEF tb
<1>4. /\ r \in Seq(S) /\ Len(r) = Len(tb) + Len(w)
      /\ \A i \in 1..(Len(tb) + Len(w)) : r[i] = IF i <= Len(tb) THEN tb[i] ELSE w[i - Len(tb)]
  BY <1>3, ConcatProperties
<1> HIDE DEF r, c
<1>5. /\ l \in Seq(S) /\ Len(l) = Len(c) - 1 /\ \A i \in 1..Len(l) : l[i] = c[i + 1]
  BY <1>1, <1>2, HeadTailProperties DEF c
<1> HIDE DEF l
<1>6. Len(l) = Len(r)
  BY <1>1, <1>3, <1>4, <1>5 DEF c
<1>7. ASSUME NEW i \in 1..Len(l)
      PROVE  l[i] = r[i]
  <2>1. l[i] = IF i + 1 <= Len(b) THEN b[i + 1] ELSE w[i + 1 - Len(b)]
    BY <1>1, <1>5 DEF c
  <2>2. r[i] = IF i <= Len(tb) THEN tb[i] ELSE w[i - Len(tb)]
    BY <1>4, <1>6
  <2>3. CASE i <= Len(tb)
    BY <2>1, <2>2, <2>3, <1>3
  <2>4. CASE ~(i <= Len(tb))
    <3>1. i + 1 - Len(b) = i - Len(tb) /\ ~(i + 1 <= Len(b))
      BY <1>3, <2>4
    <3> QED
      BY <2>1, <2>2, <2>4, <3>1
  <2> QED
    BY <2>3, <2>4
<1>8. l = r
  BY <1>4, <1>5, <1>6, <1>7, SeqEqual
<1> QED
  BY <1>2, <1>8 DEF l, r, tb, c

\* A list grows at the end of the second part, ...
LEMMA ConcatAppend ==
  ASSUME NEW S, NEW b \in Seq(S), NEW w \in Seq(S), NEW v \in S
  PROVE  b \o Append(w, v) = Append(b \o w, v)
<1>1. <<v>> \in Seq(S) /\ b \o w \in Seq(S)
  BY ConcatProperties
<1>2. Append(w, v) = w \o <<v>>
  BY AppendIsConcat
<1>3. Append(b \o w, v) = (b \o w) \o <<v>>
  BY <1>1, AppendIsConcat
<1>4. (b \o w) \o <<v>> = b \o (w \o <<v>>)
  BY <1>1, ConcatAssociative
<1> QED
  BY <1>2, <1>3, <1>4

\* ... its seam moves, ...
LEMMA MoveHead ==
  ASSUME NEW S, NEW b \in Seq(S), NEW w \in Seq(S), w # <<>>
  PROVE  Append(b, Head(w)) \o Tail(w) = b \o w
<1> DEFINE h == Head(w)
           l == Tail(w)
<1>1. h \in S /\ l \in Seq(S) /\ <<h>> \in Seq(S)
  BY HeadTailProperties
<1>2. w = <<h>> \o l
  <2>1. Len(<<h>>) = 1 /\ <<h>>[1] = h
    OBVIOUS
  <2> DEFINE r == <<h>> \o l
             one == <<h>>
  <2>2. /\ Len(w) > 0 /\ Len(l) = Len(w) - 1 /\ \A i \in 1..Len(l) : l[i] = w[i + 1]
        /\ h = w[1]
    BY HeadTailProperties, EmptySeq
  <2> HIDE DEF h, l, one
  <2>3. /\ one \o l \in Seq(S) /\ Len(one \o l) = 1 + Len(l)
        /\ \A i \in 1..(1 + Len(l)) : (one \o l)[i] = IF i <= 1 THEN one[i] ELSE l[i - 1]
    <3>1. one \in Seq(S) /\ Len(one) = 1
      BY <1>1, <2>1 DEF one
    <3>2. /\ one \o l \in Seq(S) /\ Len(one \o l) = Len(one) + Len(l)
          /\ \A i \in 1..(Len(one) + Len(l)) :
               (one \o l)[i] = IF i <= Len(one) THEN one[i] ELSE l[i - Len(one)]
      BY <1>1, <3>1, ConcatProperties
    <3> QED
      BY <3>1, <3>2
  <2>4. \A i \in 1..Len(w) : w[i] = (one \o l)[i]
    BY <2>1, <2>2, <2>3 DEF one
  <2>5. Len(w) = Len(one \o l)
    BY <2>2, <2>3
  <2>6. w = one \o l
    BY <2>3, <2>4, <2>5, SeqEqual
  <2> QED
    BY <2>6 DEF one
<1>3. Append(b, h) = b \o <<h>>
  BY <1>1, AppendIsConcat
<1> HIDE DEF h, l
<1>4. (b \o <<h>>) \o l = b \o (<<h>> \o l)
  BY <1>1, ConcatAssociative
<1>5. Append(b, h) \o l = b \o w
  BY <1>2, <1>3, <1>4
<1> QED
  BY <1>5 DEF h, l

\* ... an element of the second part leaves, ...
LEMMA ConcatRemoveAt ==
  ASSUME NEW S, NEW b \in Seq(S), NEW w \in Seq(S), NEW k \in 1..Len(w)
  PROVE  /\ Len(b) + k \in 1..Len(b \o w)
         /\ b \o RemoveAt(w, k) = RemoveAt(b \o w, Len(b) + k)
<1> DEFINE c == b \o w
           u == RemoveAt(w, k)
           l == b \o u
           r == RemoveAt(c, Len(b) + k)
<1>1. /\ c \in Seq(S) /\ Len(c) = Len(b) + Len(w)
      /\ \A i \in 1..(Len(b) + Len(w)) : c[i] = IF i <= Len(b) THEN b[i] ELSE w[i - Len(b)]
  BY ConcatProperties
<1>2. /\ u \in Seq(S) /\ Len(u) = Len(w) - 1
      /\ \A i \in 1..(Len(w) - 1) : u[i] = w[IF i < k THEN i ELSE i + 1]
  BY RemoveAtElements
<1> HIDE DEF c, u
<1>3. /\ l \in Seq(S) /\ Len(l) = Len(b) + Len(u)
      /\ \A i \in 1..(Len(b) + Len(u)) : l[i] = IF i <= Len(b) THEN b[i] ELSE u[i - Len(b)]
  BY <1>2, ConcatProperties
<1>4. Len(b) + k \in 1..Len(c)
  BY <1>1
<1>5. /\ r \in Seq(S) /\ Len(r) = Len(c) - 1
      /\ \A i \in 1..(Len(c) - 1) : r[i] = c[IF i < Len(b) + k THEN i ELSE i + 1]
  BY <1>1, <1>4, RemoveAtElements
<1> HIDE DEF l, r
<1>6. ASSUME NEW i \in 1..Len(l)
      PROVE  l[i] = r[i]
  <2>0. i \in 1..(Len(c) - 1) /\ i \in 1..(Len(b) + Len(u))
    BY <1>1, <1>2, <1>3
  <2>1. CASE i <= Len(b)
    <3>1. l[i] = b[i]
      BY <1>3, <2>0, <2>1
    <3>2. i < Len(b) + k /\ i \in 1..(Len(b) + Len(w))
      BY <1>1, <2>0, <2>1
    <3>3. r[i] = c[i]
      BY <1>5, <2>0, <3>2
    <3>4. c[i] = b[i]
      BY <1>1, <2>1, <3>2
    <3> QED
      BY <3>1, <3>3, <3>4
  <2>2. CASE i > Len(b)
    <3> DEFINE j == i - Len(b)
    <3>0. /\ Len(b) \in Nat /\ Len(w) \in Nat /\ j \in Nat /\ j > 0 /\ i = Len(b) + j
          /\ j <= Len(w) - 1
      BY <1>1, <1>2, <1>3, <2>0, <2>2
    <3>1. l[i] = u[j]
      BY <1>3, <2>0, <2>2
    <3> HIDE DEF j
    <3>a. u[j] = w[IF j < k THEN j ELSE j + 1]
      BY <1>2, <3>0
    <3>b. r[i] = c[IF i < Len(b) + k THEN i ELSE i + 1]
      BY <1>5, <2>0
    <3>2. CASE j < k
      <4>1. i < Len(b) + k
        BY <3>0, <3>2
      <4>2. c[i] = w[i - Len(b)] /\ i - Len(b) = j
        BY <1>1, <2>2, <3>0
      <4> QED
        BY <3>1, <3>2, <3>a, <3>b, <4>1, <4>2
    <3>3. CASE ~(j < k)
      <4>1. ~(i < Len(b) + k)
        BY <3>0, <3>3
      <4>2. /\ i + 1 \in 1..(Len(b) + Len(w)) /\ ~(i + 1 <= Len(b))
            /\ (i + 1) - Len(b) = j + 1
        BY <3>0
      <4>3. c[i + 1] = w[j + 1]
        BY <1>1, <4>2
      <4> QED
        BY <3>1, <3>3, <3>a, <3>b, <4>1, <4>3
    <3> QED
      BY <3>2, <3>3
  <2> QED
    BY <2>1, <2>2
<1>7. Len(l) = Len(r)
  BY <1>1, <1>2, <1>3, <1>5
<1>8. l = r
  BY <1>3, <1>5, <1>6, <1>7, SeqEqual
<1> QED
  BY <1>4, <1>8 DEF l, r, c, u

\* ... or the whole second part does.
LEMMA ConcatPrefix ==
  ASSUME NEW S, NEW b \in Seq(S), NEW w \in Seq(S)
  PROVE  SubSeq(b \o w, 1, Len(b)) = b
<1> DEFINE c == b \o w
           l == SubSeq(c, 1, Len(b))
<1>1. /\ c \in Seq(S) /\ Len(c) = Len(b) + Len(w) /\ Len(b) \in Nat /\ Len(w) \in Nat
      /\ \A i \in 1..(Len(b) + Len(w)) : c[i] = IF i <= Len(b) THEN b[i] ELSE w[i - Len(b)]
  BY ConcatProperties
<1> HIDE DEF c
<1>2. \A i \in 1..Len(b) : c[i] = b[i] /\ c[i] \in S
  BY <1>1
<1>3. l \in Seq(S) /\ Len(l) = Len(b) /\ \A i \in 1..Len(b) : l[i] = c[i]
  <2>1. /\ l \in Seq(S)
        /\ Len(l) = IF 1 <= Len(b) THEN Len(b) - 1 + 1 ELSE 0
        /\ \A i \in 1..(Len(b) - 1 + 1) : l[i] = c[1 + i - 1]
    BY <1>1, <1>2, SubSeqProperties
  <2> QED
    BY <1>1, <2>1
<1> HIDE DEF l
<1>4. l = b
  BY <1>2, <1>3, SeqEqual
<1> QED
  BY <1>4 DEF l, c

----------------------------------------------------------------------------
(* Each operation is a step of the FIFO, or nothing happens there.         *)

FifoSame == UNCHANGED <<channel.capacity, Offered(channel), Len(channel.receivers),
                        ~channel.closed, received>>

\* What the invariant says of the lists.
LEMMA ListFacts ==
  ASSUME IInv
  PROVE  /\ channel \in Chan!ChannelState /\ channel.capacity \in Nat
         /\ channel.buffer \in Seq(Values) /\ channel.senders \in Seq(Pending)
         /\ channel.receivers \in Seq(Tasks) /\ received \in Seq(Values)
         /\ channel.closed \in BOOLEAN
         /\ SentValues(channel.senders) \in Seq(Values)
         /\ Len(SentValues(channel.senders)) = Len(channel.senders)
         /\ Offered(channel) \in Seq(Values)
         /\ channel.senders = <<>> =>
              SentValues(channel.senders) = <<>> /\ Offered(channel) = channel.buffer
         /\ Tidy(channel) /\ Waits(channel, state)
<1>1. /\ channel \in Chan!ChannelState /\ received \in Seq(Values)
      /\ Tidy(channel) /\ Waits(channel, state)
  BY InvariantForm DEF IInv, TypeOK
<1>2. /\ channel.capacity \in Nat /\ channel.closed \in BOOLEAN
      /\ channel.buffer \in Seq(Values) /\ channel.senders \in Seq(Pending)
      /\ channel.receivers \in Seq(Tasks)
  BY <1>1, ChannelFields
<1>3. /\ SentValues(channel.senders) \in Seq(Values)
      /\ Len(SentValues(channel.senders)) = Len(channel.senders)
  BY <1>2, FieldsAre
<1>4. Offered(channel) \in Seq(Values)
  BY <1>2, <1>3, ConcatProperties DEF Offered
<1>5. channel.senders = <<>> => SentValues(channel.senders) = <<>>
  BY <1>3
<1>6. channel.senders = <<>> => Offered(channel) = channel.buffer
  BY <1>2, <1>5, ConcatEmptySeq DEF Offered
<1> QED
  BY <1>1, <1>2, <1>3, <1>4, <1>5, <1>6

\* send offers the next value, unless the channel is closed.
LEMMA SendOffers ==
  ASSUME IInv, NEW t \in Tasks, Send(t)
  PROVE  Fifo!Offer(sends + 1) \/ FifoSame
<1> DEFINE v == sends + 1
           b == channel.buffer
           p == channel.senders
           r == channel.receivers
           w == SentValues(p)
<1>1. v \in Values /\ channel' = Chan!AfterSend(channel, t, v)
  BY MaxSendsAssumption DEF IInv, TypeOK, Send, Values
<1>2. OnlyLists(channel, channel')
  BY <1>1, ListFacts, AfterSendIs
<1> HIDE DEF v
<1>3. CASE Chan!SendOutcome(channel) = "Send_closed"
  <2>1. ListsAre(channel', b, p, r)
    BY <1>1, <1>3, ListFacts, AfterSendIs
  <2>2. received' = received
    BY <1>3 DEF Send, SendClosed, SendDelivered, SendCompleted, SendBlocked
  <2> QED
    BY <1>2, <2>1, <2>2 DEF FifoSame, ListsAre, OnlyLists, Offered
<1>4. CASE Chan!SendOutcome(channel) = "Send_delivered"
  <2>1. ~channel.closed /\ r # <<>> /\ ListsAre(channel', b, p, Tail(r))
    BY <1>1, <1>4, ListFacts, AfterSendIs
  <2>2. received' = Append(received, v)
    BY <1>4 DEF Send, SendClosed, SendDelivered, SendCompleted, SendBlocked, v
  <2>3. Len(r) > 0 /\ Len(Tail(r)) = Len(r) - 1
    BY <2>1, ListFacts, HeadTailProperties, EmptySeq
  <2> QED
    BY <1>2, <2>1, <2>2, <2>3 DEF Fifo!Offer, ListsAre, OnlyLists, v
<1>5. CASE Chan!SendOutcome(channel) = "Send_completed"
  <2>1. /\ ~channel.closed /\ r = <<>> /\ Len(b) < channel.capacity
        /\ ListsAre(channel', Append(b, v), p, r)
    BY <1>1, <1>5, ListFacts, AfterSendIs
  <2>2. received' = received
    BY <1>5 DEF Send, SendClosed, SendDelivered, SendCompleted, SendBlocked
  <2>3. p = <<>> /\ Len(r) = 0
    BY <2>1, ListFacts DEF Tidy
  <2>4. w = <<>> /\ b \o w = b
    BY <2>3, ListFacts DEF Offered
  <2>5. Append(b, v) \in Seq(Values)
    BY <1>1, ListFacts, AppendProperties
  <2>6. Append(b, v) \o w = Append(b, v)
    BY <2>4, <2>5, ConcatEmptySeq
  <2>7. channel'.buffer \o SentValues(channel'.senders) = Append(b \o w, v)
    BY <2>1, <2>4, <2>6 DEF ListsAre
  <2> QED
    BY <1>2, <2>1, <2>2, <2>3, <2>7 DEF Fifo!Offer, ListsAre, OnlyLists, v
<1>6. CASE Chan!SendOutcome(channel) = "Send_blocked"
  <2> DEFINE q == Append(p, [sender |-> t, sent_value |-> v])
  <2>1. ~channel.closed /\ r = <<>> /\ ListsAre(channel', b, q, r)
    BY <1>1, <1>6, ListFacts, AfterSendIs
  <2>2. received' = received
    BY <1>6 DEF Send, SendClosed, SendDelivered, SendCompleted, SendBlocked
  <2>3. SentValues(q) = Append(w, v)
    BY <1>1, ListFacts, FieldsOfAppend
  <2>4. b \o Append(w, v) = Append(b \o w, v)
    <3>1. b \in Seq(Values) /\ w \in Seq(Values)
      BY ListFacts
    <3> HIDE DEF b, w
    <3> QED
      BY <1>1, <3>1, ConcatAppend
  <2>5. Len(r) = 0
    BY <2>1
  <2>6. channel'.buffer \o SentValues(channel'.senders) = Append(b \o w, v)
    BY <2>1, <2>3, <2>4 DEF ListsAre
  <2>7. channel'.receivers = r /\ channel'.capacity = channel.capacity /\ ~channel'.closed
    BY <1>2, <2>1 DEF ListsAre, OnlyLists
  <2> QED
    BY <2>1, <2>2, <2>5, <2>6, <2>7 DEF Fifo!Offer, v
<1> QED
  BY <1>1, <1>3, <1>4, <1>5, <1>6, ListFacts, AfterSendIs

\* recv takes the first value, waits for one, or learns that there is none.
LEMMA RecvTakes ==
  ASSUME IInv, NEW t \in Tasks, Recv(t)
  PROVE  Fifo!Take \/ Fifo!WaitForValue \/ FifoSame
<1> DEFINE b == channel.buffer
           p == channel.senders
           r == channel.receivers
           w == SentValues(p)
<1>1. channel' = Chan!AfterRecv(channel, t)
  BY DEF Recv
<1>2. OnlyLists(channel, channel')
  BY <1>1, ListFacts, AfterRecvIs
<1>r. Chan!RecvOutcome(channel) = "Recv_delivered" =>
        received' = Append(received, Chan!ReceivedValue(channel))
  BY DEF Recv, RecvDelivered, RecvClosed, RecvBlocked
<1>s. p # <<>> => /\ w # <<>> /\ Head(w) = Head(p).sent_value /\ SentValues(Tail(p)) = Tail(w)
  BY ListFacts, FieldsOfTail
<1>3. CASE b # <<>> /\ p = <<>>
  <2>1. Chan!RecvOutcome(channel) = "Recv_delivered" /\ ListsAre(channel', Tail(b), p, r)
    BY <1>1, <1>3, ListFacts, AfterRecvIs
  <2>2. received' = Append(received, Head(b))
    BY <1>3, <1>r, <2>1 DEF Chan!ReceivedValue
  <2>3. b \o w # <<>> /\ Head(b \o w) = Head(b) /\ Tail(b \o w) = Tail(b) \o w
    BY <1>3, ListFacts, TailOfConcat
  <2>4. channel'.buffer \o SentValues(channel'.senders) = Tail(b \o w)
    BY <2>1, <2>3 DEF ListsAre
  <2> QED
    BY <1>2, <2>1, <2>2, <2>3, <2>4 DEF Fifo!Take, ListsAre, OnlyLists
<1>4. CASE b # <<>> /\ p # <<>>
  <2>1. /\ Chan!RecvOutcome(channel) = "Recv_delivered"
        /\ ListsAre(channel', Append(Tail(b), Head(p).sent_value), Tail(p), r)
    BY <1>1, <1>4, ListFacts, AfterRecvIs
  <2>2. received' = Append(received, Head(b))
    BY <1>4, <1>r, <2>1 DEF Chan!ReceivedValue
  <2>3. b \o w # <<>> /\ Head(b \o w) = Head(b) /\ Tail(b \o w) = Tail(b) \o w
    BY <1>4, ListFacts, TailOfConcat
  <2>4. Append(Tail(b), Head(w)) \o Tail(w) = Tail(b) \o w
    <3>1. Tail(b) \in Seq(Values) /\ w \in Seq(Values) /\ w # <<>>
      BY <1>4, <1>s, ListFacts, HeadTailProperties
    <3> QED
      BY <3>1, MoveHead
  <2>5. channel'.buffer \o SentValues(channel'.senders) = Tail(b \o w)
    BY <1>4, <1>s, <2>1, <2>3, <2>4 DEF ListsAre
  <2> QED
    BY <1>2, <2>1, <2>2, <2>3, <2>5 DEF Fifo!Take, ListsAre, OnlyLists
<1>5. CASE b = <<>> /\ p # <<>>
  <2>1. /\ Chan!RecvOutcome(channel) = "Recv_delivered"
        /\ ListsAre(channel', b, Tail(p), r)
    BY <1>1, <1>5, ListFacts, AfterRecvIs
  <2>2. received' = Append(received, Head(w))
    BY <1>5, <1>r, <1>s, <2>1 DEF Chan!ReceivedValue
  <2>3. b \o w = w
    BY <1>5, ListFacts, ConcatEmptySeq
  <2>4. b \o Tail(w) = Tail(w)
    <3>1. Tail(w) \in Seq(Values)
      BY <1>5, <1>s, ListFacts, HeadTailProperties
    <3> QED
      BY <1>5, <3>1, ConcatEmptySeq
  <2>5. channel'.buffer \o SentValues(channel'.senders) = Tail(b \o w)
    BY <1>5, <1>s, <2>1, <2>3, <2>4 DEF ListsAre
  <2> QED
    BY <1>2, <1>5, <1>s, <2>1, <2>2, <2>3, <2>5 DEF Fifo!Take, ListsAre, OnlyLists
<1>6. CASE b = <<>> /\ p = <<>> /\ channel.closed
  <2>1. Chan!RecvOutcome(channel) = "Recv_closed" /\ ListsAre(channel', b, p, r)
    BY <1>1, <1>6, ListFacts, AfterRecvIs
  <2>2. received' = received
    BY <2>1 DEF Recv, RecvDelivered, RecvClosed, RecvBlocked
  <2> QED
    BY <1>2, <2>1, <2>2 DEF FifoSame, ListsAre, OnlyLists, Offered
<1>7. CASE b = <<>> /\ p = <<>> /\ ~channel.closed
  <2>1. Chan!RecvOutcome(channel) = "Recv_blocked" /\ ListsAre(channel', b, p, Append(r, t))
    BY <1>1, <1>7, ListFacts, AfterRecvIs
  <2>2. received' = received
    BY <2>1 DEF Recv, RecvDelivered, RecvClosed, RecvBlocked
  <2>3. b \o w = <<>>
    BY <1>7, ListFacts DEF Offered
  <2>4. Len(Append(r, t)) = Len(r) + 1
    BY ListFacts, AppendProperties
  <2> QED
    BY <1>2, <1>7, <2>1, <2>2, <2>3, <2>4 DEF Fifo!WaitForValue, ListsAre, OnlyLists
<1> QED
  BY <1>3, <1>4, <1>5, <1>6, <1>7

\* close refuses what is not accepted, once.
LEMMA CloseRefuses ==
  ASSUME IInv, NEW t \in Tasks, Close(t)
  PROVE  Fifo!CloseFifo \/ FifoSame
<1> DEFINE b == channel.buffer
           p == channel.senders
           r == channel.receivers
           w == SentValues(p)
<1>1. channel' = Chan!AfterClose(channel) /\ received' = received
  BY DEF Close
<1>2. /\ channel'.capacity = channel.capacity /\ channel'.closed
      /\ IF channel.closed THEN channel' = channel
         ELSE ListsAre(channel', b, <<>>, IF b = <<>> THEN <<>> ELSE r)
  BY <1>1, ListFacts, AfterCloseIs
<1>3. CASE channel.closed
  BY <1>1, <1>2, <1>3 DEF FifoSame
<1>4. CASE ~channel.closed
  <2>1. channel'.buffer = b /\ channel'.senders = <<>> /\ channel'.receivers = <<>>
    BY <1>2, <1>4, ListFacts DEF ListsAre, Tidy
  <2>2. SentValues(<<>>) \in Seq(Values) /\ Len(SentValues(<<>>)) = 0
    BY FieldsAre, EmptySeq
  <2>3. channel'.buffer \o SentValues(channel'.senders) = b
    <3>1. SentValues(<<>>) = <<>>
      BY <2>2
    <3> QED
      BY <2>1, <3>1, ListFacts, ConcatEmptySeq
  <2>4. /\ Len(b \o w) = Len(b) + Len(w) /\ SubSeq(b \o w, 1, Len(b)) = b
        /\ Len(b) \in Nat /\ Len(w) \in Nat /\ channel.capacity \in Nat
    <3>1. b \in Seq(Values) /\ w \in Seq(Values) /\ channel.capacity \in Nat
      BY ListFacts
    <3> HIDE DEF b, w
    <3> QED
      BY <3>1, ConcatProperties, ConcatPrefix
  <2>5. Len(b) <= channel.capacity /\ (p # <<>> => Len(b) = channel.capacity)
    BY ListFacts DEF Tidy
  <2> HIDE DEF b, w, p
  <2>6. b = IF Len(b \o w) > channel.capacity THEN SubSeq(b \o w, 1, channel.capacity) ELSE b \o w
    <3>1. CASE p = <<>>
      <4>1. b \o w = b
        BY <3>1, ListFacts DEF Offered, b, w, p
      <4>2. ~(Len(b \o w) > channel.capacity)
        BY <2>4, <2>5, <4>1
      <4> QED
        BY <4>1, <4>2
    <3>2. CASE p # <<>>
      <4>1. Len(w) > 0
        BY <3>2, ListFacts, EmptySeq DEF w, p
      <4>2. Len(b \o w) > channel.capacity
        BY <2>4, <2>5, <3>2, <4>1
      <4> QED
        BY <2>4, <2>5, <3>2, <4>2
    <3> QED
      BY <3>1, <3>2
  <2>7. Len(channel'.receivers) = 0
    BY <2>1
  <2> QED
    BY <1>1, <1>2, <1>4, <2>3, <2>6, <2>7 DEF Fifo!CloseFifo, b, w, p
<1> QED
  BY <1>3, <1>4, ListFacts

\* Cancelling a waiter withdraws an unaccepted value or a reader.
LEMMA CancelWithdraws ==
  ASSUME IInv, NEW t \in Tasks, DeliverCancel(t)
  PROVE  Fifo!Withdraw \/ Fifo!StopWaiting
<1> DEFINE b == channel.buffer
           p == channel.senders
           r == channel.receivers
           w == SentValues(p)
           ts == SendersOf(p)
<1>1. /\ state[t] \in {"Channel_sending", "Channel_receiving"}
      /\ channel' = Chan!AfterCancel(channel, t)
      /\ received' = received
  BY DEF DeliverCancel
<1>2. ts \in Seq(Tasks) /\ Len(ts) = Len(p) /\ \A i \in 1..Len(p) : ts[i] = p[i].sender
  BY ListFacts, FieldsAre
<1>4. IsInjective([i \in DOMAIN p |-> p[i].sender]) /\ IsInjective(r)
  BY ListFacts DEF Waits, SendersOf
<1>5. \/ \E i \in DOMAIN p : p[i].sender = t
      \/ \E i \in DOMAIN r : r[i] = t
  <2>0. p \in Seq(Pending) /\ r \in Seq(Tasks)
    BY ListFacts
  <2>1. In(t, ts) \/ In(t, r)
    BY <1>1, ListFacts DEF Waits
  <2> HIDE DEF ts, p, r
  <2>2. DOMAIN p = 1..Len(p) /\ DOMAIN r = 1..Len(r)
    BY <2>0
  <2>3. CASE In(t, ts)
    <3>1. PICK i \in 1..Len(ts) : ts[i] = t
      BY <2>3 DEF In
    <3> QED
      BY <1>2, <2>2, <3>1
  <2>4. CASE In(t, r)
    BY <2>2, <2>4 DEF In
  <2> QED
    BY <2>1, <2>3, <2>4
<1>6. /\ OnlyLists(channel, channel')
      /\ \/ \E k \in 1..Len(p) : ListsAre(channel', b, RemoveAt(p, k), r)
         \/ \E k \in 1..Len(r) : ListsAre(channel', b, p, RemoveAt(r, k))
  BY <1>1, <1>4, <1>5, ListFacts, AfterCancelIs
<1>7. CASE \E k \in 1..Len(p) : ListsAre(channel', b, RemoveAt(p, k), r)
  <2>1. PICK k \in 1..Len(p) : ListsAre(channel', b, RemoveAt(p, k), r)
    BY <1>7
  <2>2. SentValues(RemoveAt(p, k)) = RemoveAt(w, k)
    BY ListFacts, FieldsOfRemoveAt
  <2>3. k \in 1..Len(w) /\ p # <<>>
    BY ListFacts
  <2>4. /\ Len(b) + k \in 1..Len(b \o w)
        /\ b \o RemoveAt(w, k) = RemoveAt(b \o w, Len(b) + k)
    BY <2>3, ListFacts, ConcatRemoveAt
  <2>5. Len(b) = channel.capacity
    BY <2>3, ListFacts DEF Tidy
  <2> DEFINE i == Len(b) + k
  <2>6. i > channel.capacity /\ i \in DOMAIN (b \o w)
    <3>1. b \o w \in Seq(Values) /\ k \in 1..Len(w) /\ Len(b) \in Nat
      BY <2>3, ListFacts DEF Offered
    <3>2. i > channel.capacity
      BY <2>5, <3>1
    <3>3. DOMAIN (b \o w) = 1..Len(b \o w)
      BY <3>1
    <3> QED
      BY <2>4, <3>2, <3>3
  <2>7. channel'.buffer \o SentValues(channel'.senders) = Fifo!RemoveAt(b \o w, i)
    BY <2>1, <2>2, <2>4 DEF ListsAre, RemoveAt, Fifo!RemoveAt
  <2> HIDE DEF i
  <2> QED
    BY <1>1, <1>6, <2>1, <2>6, <2>7 DEF Fifo!Withdraw, ListsAre, OnlyLists
<1>8. CASE \E k \in 1..Len(r) : ListsAre(channel', b, p, RemoveAt(r, k))
  <2>1. PICK k \in 1..Len(r) : ListsAre(channel', b, p, RemoveAt(r, k))
    BY <1>8
  <2>2. Len(RemoveAt(r, k)) = Len(r) - 1 /\ Len(r) > 0
    <3>1. r \in Seq(Tasks)
      BY ListFacts
    <3> HIDE DEF r
    <3> QED
      BY <3>1, RemoveAtElements
  <2> QED
    BY <1>1, <1>6, <2>1, <2>2 DEF Fifo!StopWaiting, ListsAre, OnlyLists
<1> QED
  BY <1>6, <1>7, <1>8

\* The end of the scope abandons everything.
LEMMA CloseScopeAbandons ==
  ASSUME IInv, CloseScope
  PROVE  Fifo!Abandon
<1>1. channel' = Chan!AfterTeardown(channel) /\ received' = received
  BY DEF CloseScope
<1>2. /\ channel'.capacity = channel.capacity /\ channel'.closed
      /\ ListsAre(channel', <<>>, <<>>, <<>>)
  BY <1>1, ListFacts, AfterTeardownIs
<1>3. SentValues(<<>>) = <<>>
  <2>1. SentValues(<<>>) \in Seq(Values) /\ Len(SentValues(<<>>)) = 0
    BY FieldsAre, EmptySeq
  <2> QED
    BY <2>1
<1>4. <<>> \o SentValues(<<>>) = <<>>
  <2>1. <<>> \in Seq(Values)
    OBVIOUS
  <2> QED
    BY <1>3, <2>1, ConcatEmptySeq
<1> QED
  BY <1>1, <1>2, <1>4 DEF Fifo!Abandon, ListsAre

\* A settled task leaves the channel alone.
LEMMA SettleLeaves ==
  ASSUME NEW t \in Tasks, Settle(t)
  PROVE  FifoSame
BY DEF Settle, FifoSame

\* A fresh channel is a fresh FIFO.
LEMMA InitIsFifoInit == Init => Fifo!FifoInit
<1> SUFFICES ASSUME Init PROVE Fifo!FifoInit
  OBVIOUS
<1>1. /\ channel.capacity \in Nat /\ ~channel.closed /\ channel.buffer = <<>>
      /\ channel.senders = <<>> /\ channel.receivers = <<>> /\ received = <<>>
  BY CapacitiesAssumption DEF Init, Chan!Opened
<1>2. channel.buffer \o SentValues(channel.senders) = <<>>
  BY <1>1, InitIInv, ListFacts DEF Offered
<1> QED
  BY <1>1, <1>2 DEF Fifo!FifoInit

\* The channel with its buffer and blocked senders is a bounded FIFO: values
\* leave in the order they came, and only an unaccepted one can be withdrawn
\* or refused.
THEOREM ChannelImplementsFifo == Spec => ImplementsFifo
<1>1. IInv /\ [Next]_vars => [Fifo!FifoNext]_(Fifo!fifoVars)
  <2> SUFFICES ASSUME IInv, [Next]_vars
               PROVE  Fifo!FifoNext \/ UNCHANGED Fifo!fifoVars
    OBVIOUS
  <2>0. FifoSame => UNCHANGED Fifo!fifoVars
    BY DEF FifoSame, Fifo!fifoVars, Offered
  <2>1. ASSUME NEW t \in Tasks, Send(t)
        PROVE  Fifo!FifoNext \/ UNCHANGED Fifo!fifoVars
    <3>1. sends + 1 \in Values
      BY <2>1, MaxSendsAssumption DEF IInv, TypeOK, Send, Values
    <3> QED
      BY <2>0, <2>1, <3>1, SendOffers DEF Fifo!FifoNext
  <2>2. ASSUME NEW t \in Tasks, Recv(t)
        PROVE  Fifo!FifoNext \/ UNCHANGED Fifo!fifoVars
    BY <2>0, <2>2, RecvTakes DEF Fifo!FifoNext
  <2>3. ASSUME NEW t \in Tasks, Close(t)
        PROVE  Fifo!FifoNext \/ UNCHANGED Fifo!fifoVars
    BY <2>0, <2>3, CloseRefuses DEF Fifo!FifoNext
  <2>4. ASSUME NEW t \in Tasks, Settle(t)
        PROVE  UNCHANGED Fifo!fifoVars
    BY <2>0, <2>4, SettleLeaves
  <2>5. ASSUME NEW t \in Tasks, DeliverCancel(t)
        PROVE  Fifo!FifoNext
    BY <2>5, CancelWithdraws DEF Fifo!FifoNext
  <2>6. CASE CloseScope
    BY <2>6, CloseScopeAbandons DEF Fifo!FifoNext
  <2>7. CASE UNCHANGED vars
    BY <2>7 DEF vars, Fifo!fifoVars
  <2> QED
    BY <2>1, <2>2, <2>3, <2>4, <2>5, <2>6, <2>7 DEF Next
<1> QED
  BY <1>1, InitIsFifoInit, Invariance, PTL DEF Spec, ImplementsFifo, Fifo!FifoSpec

----------------------------------------------------------------------------
(* The order of values.                                                    *)

\* s ascends and has no element above n.
Ordered(s, n) ==
  /\ \A i, j \in 1..Len(s) : i < j => s[i] < s[j]
  /\ \A i \in 1..Len(s) : s[i] <= n

Line == received \o Offered(channel)

\* A selection of an ascending list, in its order, ascends.
LEMMA SelectionOrdered ==
  ASSUME NEW s \in Seq(Values), NEW r \in Seq(Values), NEW n, Ordered(s, n),
         NEW at \in [1..Len(r) -> 1..Len(s)],
         \A i \in 1..Len(r) : r[i] = s[at[i]],
         \A i, j \in 1..Len(r) : i < j => at[i] < at[j]
  PROVE  Ordered(r, n)
BY DEF Ordered

\* Removing an element keeps the order, ...
LEMMA RemoveAtOrdered ==
  ASSUME NEW s \in Seq(Values), NEW n, Ordered(s, n), NEW k \in 1..Len(s)
  PROVE  Ordered(RemoveAt(s, k), n)
<1> DEFINE r == RemoveAt(s, k)
           at == [i \in 1..(Len(s) - 1) |-> IF i < k THEN i ELSE i + 1]
<1>1. /\ r \in Seq(Values) /\ Len(r) = Len(s) - 1
      /\ \A i \in 1..(Len(s) - 1) : r[i] = s[IF i < k THEN i ELSE i + 1]
  BY RemoveAtElements
<1>2. at \in [1..Len(r) -> 1..Len(s)]
  BY <1>1
<1>3. \A i \in 1..Len(r) : r[i] = s[at[i]]
  BY <1>1
<1>4. \A i, j \in 1..Len(r) : i < j => at[i] < at[j]
  BY <1>1
<1> HIDE DEF r, at
<1>5. Ordered(r, n)
  BY <1>1, <1>2, <1>3, <1>4, SelectionOrdered
<1> QED
  BY <1>5 DEF r

\* ... and so does dropping the end of the second of two parts.
LEMMA PrefixOrdered ==
  ASSUME NEW b \in Seq(Values), NEW w \in Seq(Values), NEW n, Ordered(b \o w, n),
         NEW m \in 0..Len(w)
  PROVE  Ordered(b \o SubSeq(w, 1, m), n)
<1> DEFINE u == SubSeq(w, 1, m)
           s == b \o w
           r == b \o u
           at == [i \in 1..(Len(b) + m) |-> i]
<1>1. u \in Seq(Values) /\ Len(u) = m /\ \A i \in 1..m : u[i] = w[i]
  OBVIOUS
<1>2. /\ s \in Seq(Values) /\ Len(s) = Len(b) + Len(w) /\ Len(b) \in Nat /\ Len(w) \in Nat
      /\ \A i \in 1..(Len(b) + Len(w)) : s[i] = IF i <= Len(b) THEN b[i] ELSE w[i - Len(b)]
  BY ConcatProperties
<1> HIDE DEF u
<1>3. /\ r \in Seq(Values) /\ Len(r) = Len(b) + Len(u)
      /\ \A i \in 1..(Len(b) + Len(u)) : r[i] = IF i <= Len(b) THEN b[i] ELSE u[i - Len(b)]
  BY <1>1, ConcatProperties
<1>4. Ordered(s, n)
  OBVIOUS
<1> HIDE DEF s, r
<1>5. at \in [1..Len(r) -> 1..Len(s)] /\ \A i, j \in 1..Len(r) : i < j => at[i] < at[j]
  BY <1>1, <1>2, <1>3
<1>6. ASSUME NEW i \in 1..Len(r)
      PROVE  r[i] = s[at[i]]
  <2>1. at[i] = i /\ i \in 1..(Len(b) + Len(w)) /\ i \in 1..(Len(b) + Len(u))
    BY <1>1, <1>2, <1>3
  <2>2. CASE i <= Len(b)
    BY <1>2, <1>3, <2>1, <2>2
  <2>3. CASE ~(i <= Len(b))
    <3>1. i - Len(b) \in 1..m
      BY <1>1, <1>2, <2>1, <2>3
    <3>2. r[i] = u[i - Len(b)] /\ s[i] = w[i - Len(b)]
      BY <1>2, <1>3, <2>1, <2>3
    <3> QED
      BY <1>1, <2>1, <3>1, <3>2
  <2> QED
    BY <2>2, <2>3
<1> HIDE DEF at
<1>7. Ordered(r, n)
  BY <1>2, <1>3, <1>4, <1>5, <1>6, SelectionOrdered
<1> QED
  BY <1>7 DEF r, u

\* A new largest value may join at the end.
LEMMA AppendOrdered ==
  ASSUME NEW s \in Seq(Values), NEW n \in Nat, Ordered(s, n), n + 1 \in Values
  PROVE  Ordered(Append(s, n + 1), n + 1)
<1> DEFINE v == n + 1
           r == Append(s, v)
<1>1. /\ r \in Seq(Values) /\ Len(r) = Len(s) + 1 /\ \A i \in 1..Len(s) : r[i] = s[i]
      /\ r[Len(s) + 1] = v
  BY AppendProperties
<1>2. \A i \in 1..Len(s) : s[i] \in Nat /\ s[i] <= n
  BY MaxSendsAssumption DEF Ordered, Values
<1> HIDE DEF r
<1>3. \A i \in 1..Len(r) : i \in 1..Len(s) \/ i = Len(s) + 1
  BY <1>1
<1>4. \A i \in 1..Len(r) : r[i] <= v
  BY <1>1, <1>2, <1>3
<1>5. ASSUME NEW i \in 1..Len(r), NEW j \in 1..Len(r), i < j
      PROVE  r[i] < r[j]
  <2>1. i \in 1..Len(s)
    BY <1>1, <1>5
  <2>2. CASE j \in 1..Len(s)
    BY <1>1, <1>5, <2>1, <2>2 DEF Ordered
  <2>3. CASE j = Len(s) + 1
    BY <1>1, <1>2, <2>1, <2>3
  <2> QED
    BY <1>3, <2>2, <2>3
<1> QED
  BY <1>4, <1>5 DEF Ordered, r

\* What the FIFO's steps do to the line of received and offered values.
LEMMA LineStaysOrdered ==
  ASSUME IInv, Ordered(Line, sends), [Next]_vars
  PROVE  Ordered(Line', sends')
<1> DEFINE o == Offered(channel)
<1>1. /\ received \in Seq(Values) /\ o \in Seq(Values) /\ channel.capacity \in Nat
      /\ Line \in Seq(Values) /\ sends \in Nat
  BY ListFacts, ConcatProperties, MaxSendsAssumption DEF Line, IInv, TypeOK
<1>2. FifoSame /\ sends' = sends => Ordered(Line', sends')
  BY DEF FifoSame, Line
<1>3. ASSUME NEW t \in Tasks, Send(t)
      PROVE  Ordered(Line', sends')
  <2>1. sends' = sends + 1 /\ sends + 1 \in Values
    BY <1>3, MaxSendsAssumption DEF Send, Values, IInv, TypeOK
  <2>2. CASE FifoSame
    <3>1. Line' = Line
      BY <2>2 DEF FifoSame, Line
    <3>2. \A i \in 1..Len(Line) : Line[i] \in Nat
      BY <1>1, MaxSendsAssumption DEF Values
    <3> HIDE DEF o
    <3> QED
      BY <1>1, <2>1, <3>1, <3>2 DEF Ordered
  <2>3. CASE Fifo!Offer(sends + 1)
    <3> DEFINE v == sends + 1
    <3>1. CASE Len(channel.receivers) > 0
      <4>1. received' = Append(received, v) /\ Offered(channel') = o
        BY <2>3, <3>1 DEF Fifo!Offer, Offered
      <4>2. o = <<>>
        <5>1. channel.receivers # <<>>
          BY <3>1
        <5> QED
          BY <5>1, ListFacts DEF Tidy
      <4>3. Append(received, v) \in Seq(Values)
        BY <1>1, <2>1, AppendProperties
      <4>4. Line = received
        BY <1>1, <4>2, ConcatEmptySeq DEF Line
      <4>5. Line' = Append(received, v)
        BY <4>1, <4>2, <4>3, ConcatEmptySeq DEF Line
      <4> QED
        BY <1>1, <2>1, <4>4, <4>5, AppendOrdered
    <3>2. CASE ~(Len(channel.receivers) > 0)
      <4>1. received' = received /\ Offered(channel') = Append(o, v)
        BY <2>3, <3>2 DEF Fifo!Offer, Offered
      <4>2. received \o Append(o, v) = Append(received \o o, v)
        <5> HIDE DEF o
        <5> QED
          BY <1>1, <2>1, ConcatAppend
      <4>3. Line' = Append(Line, v)
        BY <4>1, <4>2 DEF Line
      <4> QED
        BY <1>1, <2>1, <4>3, AppendOrdered
    <3> QED
      BY <3>1, <3>2
  <2> QED
    BY <1>3, <2>2, <2>3, SendOffers
<1>4. ASSUME NEW t \in Tasks, Recv(t)
      PROVE  Ordered(Line', sends')
  <2>1. sends' = sends
    BY <1>4 DEF Recv
  <2>2. CASE Fifo!Take
    <3>1. o # <<>> /\ received' = Append(received, Head(o)) /\ Offered(channel') = Tail(o)
      BY <2>2 DEF Fifo!Take, Offered
    <3>2. Append(received, Head(o)) \o Tail(o) = received \o o
      <4> HIDE DEF o
      <4> QED
        BY <1>1, <3>1, MoveHead
    <3>3. Line' = Line
      BY <3>1, <3>2 DEF Line
    <3> QED
      BY <2>1, <3>3
  <2>3. CASE Fifo!WaitForValue
    <3>1. Line' = Line
      BY <2>3 DEF Fifo!WaitForValue, Line, Offered
    <3> QED
      BY <2>1, <3>1
  <2> QED
    BY <1>2, <1>4, <2>1, <2>2, <2>3, RecvTakes
<1>5. ASSUME NEW t \in Tasks, Close(t)
      PROVE  Ordered(Line', sends')
  <2>1. sends' = sends
    BY <1>5 DEF Close
  <2>2. CASE Fifo!CloseFifo
    <3>1. /\ received' = received
          /\ Offered(channel') = IF Len(o) > channel.capacity
                                 THEN SubSeq(o, 1, channel.capacity) ELSE o
      BY <2>2 DEF Fifo!CloseFifo, Offered
    <3>2. CASE Len(o) > channel.capacity
      <4>1. Ordered(received \o SubSeq(o, 1, channel.capacity), sends)
        <5>1. channel.capacity \in 0..Len(o)
          BY <1>1, <3>2
        <5>2. Ordered(received \o o, sends)
          BY DEF Line
        <5> HIDE DEF o
        <5> QED
          BY <1>1, <5>1, <5>2, PrefixOrdered
      <4>2. Line' = received \o SubSeq(o, 1, channel.capacity)
        BY <3>1, <3>2 DEF Line
      <4> QED
        BY <2>1, <4>1, <4>2
    <3>3. CASE ~(Len(o) > channel.capacity)
      <4>1. Line' = Line
        BY <3>1, <3>3 DEF Line
      <4> QED
        BY <2>1, <4>1
    <3> QED
      BY <3>2, <3>3
  <2> QED
    BY <1>2, <1>5, <2>1, <2>2, CloseRefuses
<1>6. ASSUME NEW t \in Tasks, DeliverCancel(t)
      PROVE  Ordered(Line', sends')
  <2>1. sends' = sends
    BY <1>6 DEF DeliverCancel
  <2>2. CASE Fifo!Withdraw
    <3>1. PICK i \in DOMAIN o : Offered(channel') = RemoveAt(o, i)
      BY <2>2 DEF Fifo!Withdraw, Offered, Fifo!RemoveAt, RemoveAt
    <3>2. received' = received
      BY <2>2 DEF Fifo!Withdraw
    <3>3. i \in 1..Len(o)
      BY <1>1, <3>1
    <3>4. /\ Len(received) + i \in 1..Len(received \o o)
          /\ received \o RemoveAt(o, i) = RemoveAt(received \o o, Len(received) + i)
      <4> HIDE DEF o
      <4> QED
        BY <1>1, <3>3, ConcatRemoveAt
    <3>5. Line' = RemoveAt(Line, Len(received) + i)
      BY <3>1, <3>2, <3>4 DEF Line
    <3> QED
      BY <1>1, <2>1, <3>4, <3>5, RemoveAtOrdered DEF Line
  <2>3. CASE Fifo!StopWaiting
    <3>1. Line' = Line
      BY <2>3 DEF Fifo!StopWaiting, Line, Offered
    <3> QED
      BY <2>1, <3>1
  <2> QED
    BY <1>6, <2>2, <2>3, CancelWithdraws
<1>7. CASE CloseScope
  <2>1. sends' = sends
    BY <1>7 DEF CloseScope
  <2>2. Fifo!Abandon
    BY <1>7, CloseScopeAbandons
  <2>3. Line' = received \o SubSeq(o, 1, 0)
    <3>1. SubSeq(o, 1, 0) = <<>>
      BY <1>1
    <3> QED
      BY <2>2, <3>1 DEF Fifo!Abandon, Line, Offered
  <2>4. Ordered(received \o SubSeq(o, 1, 0), sends)
    <3>1. 0 \in 0..Len(o)
      BY <1>1
    <3>2. Ordered(received \o o, sends)
      BY DEF Line
    <3> HIDE DEF o
    <3> QED
      BY <1>1, <3>1, <3>2, PrefixOrdered
  <2> QED
    BY <2>1, <2>3, <2>4
<1>8. ASSUME NEW t \in Tasks, Settle(t)
      PROVE  Ordered(Line', sends')
  BY <1>2, <1>8, SettleLeaves DEF Settle
<1>9. CASE UNCHANGED vars
  BY <1>9 DEF vars, Line
<1> QED
  BY <1>3, <1>4, <1>5, <1>6, <1>7, <1>8, <1>9 DEF Next

----------------------------------------------------------------------------
(* What callers were told.                                                 *)

\* Somebody was told that the channel is closed.
ToldClosed == \E t \in Tasks : answer[t] = "Recv_closed"

Told ==
  /\ channel.torn_down => channel.closed /\ channel.buffer = <<>>
  /\ channel.torn_down => ToSet(received) \subseteq acknowledged
  /\ ~channel.torn_down => acknowledged = ToSet(received) \cup ToSet(channel.buffer)
  /\ ToldClosed /\ ~channel.torn_down => channel.closed /\ channel.buffer = <<>>

\* The elements of a list that grows or loses its head.
LEMMA Elements ==
  ASSUME NEW S, NEW s \in Seq(S)
  PROVE  /\ \A v \in S : ToSet(Append(s, v)) = ToSet(s) \cup {v}
         /\ s # <<>> => ToSet(s) = {Head(s)} \cup ToSet(Tail(s))
         /\ s = <<>> => ToSet(s) = {}
<1>1. ASSUME NEW v \in S
      PROVE  ToSet(Append(s, v)) = ToSet(s) \cup {v}
  <2> DEFINE r == Append(s, v)
  <2>1. /\ r \in Seq(S) /\ Len(r) = Len(s) + 1 /\ \A i \in 1..Len(s) : r[i] = s[i]
        /\ r[Len(s) + 1] = v /\ Len(s) \in Nat
    BY AppendProperties
  <2> HIDE DEF r
  <2>2. DOMAIN r = 1..(Len(s) + 1) /\ DOMAIN s = 1..Len(s)
    BY <2>1
  <2>3. \A x : x \in ToSet(r) => x \in ToSet(s) \cup {v}
    BY <2>1, <2>2 DEF ToSet
  <2>4. \A x : x \in ToSet(s) \cup {v} => x \in ToSet(r)
    BY <2>1, <2>2 DEF ToSet
  <2> QED
    BY <2>3, <2>4 DEF r
<1>2. ASSUME s # <<>>
      PROVE  ToSet(s) = {Head(s)} \cup ToSet(Tail(s))
  <2> DEFINE r == Tail(s)
             h == Head(s)
  <2>1. /\ r \in Seq(S) /\ Len(s) \in Nat /\ Len(s) > 0 /\ Len(r) = Len(s) - 1
        /\ \A i \in 1..Len(r) : r[i] = s[i + 1]
        /\ h = s[1]
    BY <1>2, HeadTailProperties, EmptySeq
  <2> HIDE DEF r, h
  <2>2. DOMAIN r = 1..Len(r) /\ DOMAIN s = 1..Len(s)
    BY <2>1
  <2>3. \A x : x \in ToSet(s) => x \in {h} \cup ToSet(r)
    <3> SUFFICES ASSUME NEW i \in 1..Len(s) PROVE s[i] \in {h} \cup ToSet(r)
      BY <2>2 DEF ToSet
    <3>1. CASE i = 1
      BY <2>1, <3>1
    <3>2. CASE i # 1
      <4>1. i - 1 \in 1..Len(r) /\ r[i - 1] = s[i]
        BY <2>1, <3>2
      <4> QED
        BY <2>2, <4>1 DEF ToSet
    <3> QED
      BY <3>1, <3>2
  <2>4. \A x : x \in {h} \cup ToSet(r) => x \in ToSet(s)
    BY <2>1, <2>2 DEF ToSet
  <2> QED
    BY <2>3, <2>4 DEF r, h
<1>3. s = <<>> => ToSet(s) = {}
  BY DEF ToSet
<1> QED
  BY <1>1, <1>2, <1>3

\* send acknowledges what it delivers or buffers.
LEMMA ToldBySend ==
  ASSUME IInv, Told, NEW t \in Tasks, Send(t)
  PROVE  Told'
<1> DEFINE v == sends + 1
           b == channel.buffer
           p == channel.senders
           r == channel.receivers
<1>1. /\ v \in Values /\ channel' = Chan!AfterSend(channel, t, v)
      /\ answer \in [Tasks -> Answers]
  BY MaxSendsAssumption DEF IInv, TypeOK, Send, Values
<1>2. OnlyLists(channel, channel')
  BY <1>1, ListFacts, AfterSendIs
<1>t. b \in Seq(Values) /\ received \in Seq(Values) /\ Tidy(channel) /\ r \in Seq(Tasks)
  BY ListFacts
<1> HIDE DEF v
<1>3. CASE Chan!SendOutcome(channel) = "Send_closed"
  <2>0. ListsAre(channel', b, p, r)
    BY <1>1, <1>3, ListFacts, AfterSendIs
  <2>1. channel'.buffer = b
    BY <2>0 DEF ListsAre
  <2>2. SendClosed(t)
    BY <1>3 DEF Send, SendClosed, SendDelivered, SendCompleted, SendBlocked
  <2>3. ToldClosed' => ToldClosed
    BY <1>1, <2>2 DEF SendClosed, ToldClosed
  <2> QED
    BY <1>2, <2>1, <2>2, <2>3 DEF Told, OnlyLists, SendClosed
<1>4. CASE Chan!SendOutcome(channel) = "Send_delivered"
  <2>1. ~channel.closed /\ r # <<>> /\ channel'.buffer = b
    BY <1>1, <1>4, ListFacts, AfterSendIs DEF ListsAre
  <2>2. SendDelivered(t, v)
    BY <1>4 DEF Send, SendClosed, SendDelivered, SendCompleted, SendBlocked, v
  <2>3. received' = Append(received, v) /\ acknowledged' = acknowledged \cup {v}
    BY <2>2 DEF SendDelivered
  <2>4. ToSet(received') = ToSet(received) \cup {v}
    BY <1>1, <1>t, <2>3, Elements
  <2>5. ~ToldClosed'
    <3> DEFINE u == Head(r)
    <3>1. answer' = [w \in Tasks |-> IF w \in {t, u}
                                     THEN [x \in {t, u} |-> IF x = u THEN "Recv_ok" ELSE "Send_ok"][w]
                                     ELSE answer[w]]
      BY <2>2 DEF SendDelivered, WokenWith
    <3> HIDE DEF u
    <3>2. \A w \in Tasks : answer'[w] \in {"Recv_ok", "Send_ok"} \/ answer'[w] = answer[w]
      BY <3>1
    <3>3. ~ToldClosed
      BY <2>1 DEF Told
    <3> QED
      BY <3>2, <3>3 DEF ToldClosed
  <2> QED
    BY <1>2, <2>1, <2>3, <2>4, <2>5 DEF Told, OnlyLists
<1>5. CASE Chan!SendOutcome(channel) = "Send_completed"
  <2>0. ~channel.closed /\ ListsAre(channel', Append(b, v), p, r)
    BY <1>1, <1>5, ListFacts, AfterSendIs
  <2>1. ~channel.closed /\ channel'.buffer = Append(b, v)
    BY <2>0 DEF ListsAre
  <2>2. SendCompleted(t, v)
    BY <1>5 DEF Send, SendClosed, SendDelivered, SendCompleted, SendBlocked, v
  <2>3. ToSet(Append(b, v)) = ToSet(b) \cup {v}
    BY <1>1, <1>t, Elements
  <2>4. ~ToldClosed'
    BY <1>1, <2>1, <2>2 DEF Told, ToldClosed, SendCompleted
  <2> QED
    BY <1>2, <2>1, <2>2, <2>3, <2>4 DEF Told, OnlyLists, SendCompleted
<1>6. CASE Chan!SendOutcome(channel) = "Send_blocked"
  <2>1. channel'.buffer = b
    BY <1>1, <1>6, ListFacts, AfterSendIs DEF ListsAre
  <2>2. SendBlocked(t)
    BY <1>6 DEF Send, SendClosed, SendDelivered, SendCompleted, SendBlocked
  <2> QED
    BY <1>2, <2>1, <2>2 DEF Told, ToldClosed, OnlyLists, SendBlocked
<1> QED
  BY <1>1, <1>3, <1>4, <1>5, <1>6, ListFacts, AfterSendIs

\* recv acknowledges the sender whose value moves up, and says closed only
\* when nothing is left.
LEMMA ToldByRecv ==
  ASSUME IInv, Told, NEW t \in Tasks, Recv(t)
  PROVE  Told'
<1> DEFINE b == channel.buffer
           p == channel.senders
           r == channel.receivers
           h == Head(p).sent_value
<1>1. channel' = Chan!AfterRecv(channel, t) /\ answer \in [Tasks -> Answers]
  BY DEF Recv, IInv, TypeOK
<1>2. OnlyLists(channel, channel')
  BY <1>1, ListFacts, AfterRecvIs
<1>t. /\ b \in Seq(Values) /\ received \in Seq(Values) /\ Tidy(channel)
      /\ p \in Seq(Pending)
  BY ListFacts
<1>r. ASSUME Chan!RecvOutcome(channel) = "Recv_delivered"
      PROVE  received' = Append(received, Chan!ReceivedValue(channel)) /\ RecvDelivered(t)
  BY <1>r DEF Recv, RecvDelivered, RecvClosed, RecvBlocked
<1>h. p # <<>> => h \in Values
  <2> SUFFICES ASSUME p # <<>> PROVE h \in Values
    OBVIOUS
  <2>1. Head(p) \in Pending
    BY <1>t, HeadTailProperties
  <2> QED
    BY <2>1 DEF Pending, Chan!PendingSender
<1>b. b # <<>> => /\ Head(b) \in Values /\ Tail(b) \in Seq(Values)
                  /\ ToSet(b) = {Head(b)} \cup ToSet(Tail(b))
                  /\ ToSet(Append(received, Head(b))) = ToSet(received) \cup {Head(b)}
  <2> SUFFICES ASSUME b # <<>>
               PROVE  /\ Head(b) \in Values /\ Tail(b) \in Seq(Values)
                      /\ ToSet(b) = {Head(b)} \cup ToSet(Tail(b))
                      /\ ToSet(Append(received, Head(b))) = ToSet(received) \cup {Head(b)}
    OBVIOUS
  <2> HIDE DEF b
  <2>1. Head(b) \in Values /\ Tail(b) \in Seq(Values)
    BY <1>t, HeadTailProperties
  <2> QED
    BY <1>t, <2>1, Elements
<1>3. CASE b # <<>> /\ p = <<>>
  <2>1. Chan!RecvOutcome(channel) = "Recv_delivered" /\ channel'.buffer = Tail(b)
    BY <1>1, <1>3, ListFacts, AfterRecvIs DEF ListsAre
  <2>2. /\ received' = Append(received, Head(b)) /\ acknowledged' = acknowledged
        /\ WokenWith({t}, [u \in {t} |-> "Recv_ok"])
    BY <1>3, <1>r, <2>1 DEF Chan!ReceivedValue, RecvDelivered
  <2>3. ~channel.torn_down /\ ~ToldClosed
    BY <1>3 DEF Told
  <2>4. ~ToldClosed'
    BY <1>1, <2>2, <2>3 DEF ToldClosed, WokenWith
  <2>5. acknowledged' = ToSet(received') \cup ToSet(channel'.buffer)
    BY <1>3, <1>b, <2>1, <2>2, <2>3 DEF Told
  <2> QED
    BY <1>2, <2>3, <2>4, <2>5 DEF Told, OnlyLists
<1>4. CASE p # <<>>
  <2>1. /\ Chan!RecvOutcome(channel) = "Recv_delivered"
        /\ \/ b # <<>> /\ channel'.buffer = Append(Tail(b), h)
           \/ b = <<>> /\ channel'.buffer = b
    BY <1>1, <1>4, ListFacts, AfterRecvIs DEF ListsAre
  <2>2. /\ received' = Append(received, IF b # <<>> THEN Head(b) ELSE h)
        /\ acknowledged' = acknowledged \cup {h}
    BY <1>4, <1>r, <2>1 DEF Chan!ReceivedValue, RecvDelivered
  <2>3. ~channel.torn_down /\ ~ToldClosed
    BY <1>4, <1>t DEF Told, Tidy
  <2>4. ~ToldClosed'
    <3> DEFINE u == Head(p).sender
    <3>1. answer' = [w \in Tasks |-> IF w \in {t, u}
                                     THEN [x \in {t, u} |-> IF x = t THEN "Recv_ok" ELSE "Send_ok"][w]
                                     ELSE answer[w]]
      BY <1>4, <1>r, <2>1 DEF RecvDelivered, WokenWith
    <3> HIDE DEF u
    <3>2. \A w \in Tasks : answer'[w] \in {"Recv_ok", "Send_ok"} \/ answer'[w] = answer[w]
      BY <3>1
    <3> QED
      BY <2>3, <3>2 DEF ToldClosed
  <2>5. acknowledged' = ToSet(received') \cup ToSet(channel'.buffer)
    <3>1. CASE b # <<>>
      <4>1. ToSet(Append(Tail(b), h)) = ToSet(Tail(b)) \cup {h}
        <5>1. Tail(b) \in Seq(Values) /\ h \in Values
          BY <1>4, <1>b, <1>h, <3>1
        <5> DEFINE l == Tail(b)
        <5> HIDE DEF h, l
        <5>2. l \in Seq(Values) /\ h \in Values
          BY <5>1 DEF l
        <5>3. ToSet(Append(l, h)) = ToSet(l) \cup {h}
          BY <5>2, Elements
        <5> QED
          BY <5>3 DEF l
      <4>2. received' = Append(received, Head(b)) /\ channel'.buffer = Append(Tail(b), h)
        BY <2>1, <2>2, <3>1
      <4> QED
        BY <1>b, <2>2, <2>3, <3>1, <4>1, <4>2 DEF Told
    <3>2. CASE b = <<>>
      <4>1. ToSet(Append(received, h)) = ToSet(received) \cup {h}
        <5>1. h \in Values
          BY <1>4, <1>h
        <5> HIDE DEF h
        <5> QED
          BY <1>t, <5>1, Elements
      <4>2. received' = Append(received, h) /\ channel'.buffer = b
        BY <2>1, <2>2, <3>2
      <4> QED
        BY <2>2, <2>3, <4>1, <4>2 DEF Told
    <3> QED
      BY <3>1, <3>2
  <2> QED
    BY <1>2, <2>3, <2>4, <2>5 DEF Told, OnlyLists
<1>5. CASE b = <<>> /\ p = <<>> /\ channel.closed
  <2>1. Chan!RecvOutcome(channel) = "Recv_closed" /\ channel'.buffer = b
    BY <1>1, <1>5, ListFacts, AfterRecvIs DEF ListsAre
  <2>2. RecvClosed(t)
    BY <2>1 DEF Recv, RecvDelivered, RecvClosed, RecvBlocked
  <2> QED
    BY <1>2, <1>5, <2>1, <2>2 DEF Told, OnlyLists, RecvClosed
<1>6. CASE b = <<>> /\ p = <<>> /\ ~channel.closed
  <2>1. Chan!RecvOutcome(channel) = "Recv_blocked" /\ channel'.buffer = b
    BY <1>1, <1>6, ListFacts, AfterRecvIs DEF ListsAre
  <2>2. RecvBlocked(t)
    BY <2>1 DEF Recv, RecvDelivered, RecvClosed, RecvBlocked
  <2> QED
    BY <1>2, <2>1, <2>2 DEF Told, ToldClosed, OnlyLists, RecvBlocked
<1> QED
  BY <1>3, <1>4, <1>5, <1>6

\* close tells receivers closed only when nothing is buffered.
LEMMA ToldByClose ==
  ASSUME IInv, Told, NEW t \in Tasks, Close(t)
  PROVE  Told'
<1> DEFINE rejected_senders == {q.sender : q \in ToSet(Chan!RejectedSenders(channel))}
           rejected_receivers == ToSet(Chan!RejectedReceivers(channel))
           rejected == rejected_senders \cup rejected_receivers
<1>1. /\ channel' = Chan!AfterClose(channel) /\ received' = received
      /\ acknowledged' = acknowledged /\ answer \in [Tasks -> Answers]
      /\ answer' = [u \in Tasks |-> IF u \in rejected
                                    THEN [w \in rejected |-> IF w \in rejected_senders
                                                             THEN "Send_closed" ELSE "Recv_closed"][u]
                                    ELSE answer[u]]
  BY DEF Close, WokenWith, IInv, TypeOK
<1>2. /\ channel'.torn_down = channel.torn_down /\ channel'.closed
      /\ channel'.buffer = channel.buffer
  BY <1>1, ListFacts, AfterCloseIs DEF ListsAre
<1>3. rejected_receivers # {} => channel.buffer = <<>>
  BY DEF Chan!RejectedReceivers, ToSet
<1> HIDE DEF rejected_senders, rejected_receivers
<1>4. \A u \in Tasks : answer'[u] = "Recv_closed" => answer[u] = "Recv_closed" \/ u \in rejected_receivers
  BY <1>1
<1>5. ToldClosed' => ToldClosed \/ channel.buffer = <<>>
  BY <1>3, <1>4 DEF ToldClosed
<1> QED
  BY <1>1, <1>2, <1>5 DEF Told

\* What callers were told stays true.
LEMMA ToldStays ==
  ASSUME IInv, Told, [Next]_vars
  PROVE  Told'
<1>1. ASSUME NEW t \in Tasks, Settle(t)
      PROVE  Told'
  BY <1>1 DEF Settle, Told, ToldClosed
<1>2. ASSUME NEW t \in Tasks, DeliverCancel(t)
      PROVE  Told'
  <2>1. Fifo!Withdraw \/ Fifo!StopWaiting
    BY <1>2, CancelWithdraws
  <2>2. /\ channel' = Chan!AfterCancel(channel, t)
        /\ UNCHANGED <<answer, received, acknowledged>>
    BY <1>2 DEF DeliverCancel
  <2>3. /\ channel'.buffer = channel.buffer /\ channel'.closed = channel.closed
        /\ channel'.torn_down = channel.torn_down
    BY <2>2, ListFacts DEF Chan!AfterCancel, Chan!ChannelState
  <2> QED
    BY <2>2, <2>3 DEF Told, ToldClosed
<1>3. CASE CloseScope
  <2>1. channel' = Chan!AfterTeardown(channel) /\ UNCHANGED <<answer, received, acknowledged>>
    BY <1>3 DEF CloseScope
  <2>2. channel'.torn_down /\ channel'.closed /\ channel'.buffer = <<>>
    BY <2>1, ListFacts, AfterTeardownIs DEF ListsAre
  <2>3. ToSet(received) \subseteq acknowledged
    BY DEF Told
  <2> QED
    BY <2>1, <2>2, <2>3 DEF Told
<1>4. CASE UNCHANGED vars
  BY <1>4 DEF vars, Told, ToldClosed
<1> QED
  BY <1>1, <1>2, <1>3, <1>4, ToldBySend, ToldByRecv, ToldByClose DEF Next

\* What waits, what was delivered and what callers were told fit together:
\* the lists name the suspended tasks, values arrive in the order they were
\* sent, a sender is told ok for exactly what is kept, and a receiver told
\* closed has missed nothing.
THEOREM ChannelAlwaysAgrees == Spec => []ChannelAgrees
<1> DEFINE Full == IInv /\ Ordered(Line, sends) /\ Told
<1>1. Init => Full
  <2> SUFFICES ASSUME Init PROVE Full
    OBVIOUS
  <2>1. IInv
    BY InitIInv
  <2>2. /\ received = <<>> /\ channel.buffer = <<>> /\ channel.senders = <<>>
        /\ ~channel.torn_down /\ acknowledged = {} /\ ~ToldClosed
    BY DEF Init, Chan!Opened, ToldClosed
  <2>3. Line = <<>>
    <3>1. Offered(channel) = <<>> /\ received \in Seq(Values)
      BY <2>1, <2>2, ListFacts
    <3> QED
      BY <2>2, <3>1, ConcatEmptySeq DEF Line
  <2>4. Ordered(Line, sends)
    BY <2>3 DEF Ordered
  <2>5. Told
    BY <2>2 DEF Told, ToSet
  <2> QED
    BY <2>1, <2>4, <2>5
<1>2. Full /\ [Next]_vars => Full'
  <2>1. IInv /\ [Next]_vars => IInv'
    BY StepKeepsIInv
  <2> QED
    BY <2>1, LineStaysOrdered, ToldStays
<1>3. Full => ChannelAgrees
  <2> SUFFICES ASSUME Full PROVE ChannelAgrees
    OBVIOUS
  <2>1. WaitersAreSuspended
    BY DEF IInv
  <2>2. DeliveryIsFifo
    <3>1. /\ received \in Seq(Values) /\ channel.buffer \in Seq(Values)
          /\ SentValues(channel.senders) \in Seq(Values) /\ Offered(channel) \in Seq(Values)
      BY ListFacts
    <3>2. received \o channel.buffer \o SentValues(channel.senders) = Line
      <4> DEFINE x == received
                 y == channel.buffer
                 z == SentValues(channel.senders)
      <4>1. (x \o y) \o z = x \o (y \o z)
        <5>1. x \in Seq(Values) /\ y \in Seq(Values) /\ z \in Seq(Values)
          BY <3>1
        <5> HIDE DEF x, y, z
        <5> QED
          BY <5>1, ConcatAssociative
      <4> QED
        BY <4>1 DEF Line, Offered
    <3>3. Line \in Seq(Values)
      BY <3>1, ConcatProperties DEF Line
    <3>4. DOMAIN Line = 1..Len(Line)
      BY <3>3
    <3>5. \A i, j \in DOMAIN Line : i < j => Line[i] < Line[j]
      BY <3>4 DEF Ordered
    <3> QED
      BY <3>2, <3>5 DEF DeliveryIsFifo
  <2>3. AcknowledgedIsKept
    BY DEF Told, AcknowledgedIsKept
  <2>4. EndOfStreamIsFinal
    BY DEF Told, ToldClosed, EndOfStreamIsFinal, ToSet
  <2> QED
    BY <2>1, <2>2, <2>3, <2>4 DEF ChannelAgrees
<1> QED
  BY <1>1, <1>2, <1>3, PTL DEF Spec
==============================================================================
