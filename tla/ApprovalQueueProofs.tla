------------------------- MODULE ApprovalQueueProofs -------------------------
(***************************************************************************)
(* Proofs about ApprovalQueue for every set of processes, domains and      *)
(* proposals and every length of the journal: one actor at a time, a       *)
(* journal that always scans, answers that are never taken back, and the   *)
(* single-use approval.                                                    *)
(***************************************************************************)
EXTENDS ApprovalQueue, SequenceTheorems, TLAPS

(***************************************************************************)
(* The inductive invariant.                                                *)
(***************************************************************************)

\* The guard keeps the domains of a process apart, and the record lock the
\* processes; whoever works on the file holds both.
Exclusive ==
  /\ \A a, b \in Actor :
       pc[a] # "idle" /\ pc[b] # "idle" /\ ProcessOf[a] = ProcessOf[b] => a = b
  /\ \A a \in Actor : pc[a] # "idle" => guard[ProcessOf[a]] = ProcessOf[a]
  /\ \A a \in Actor : pc[a] \in Locked => lock = ProcessOf[a]

\* A journal whose lines number their transactions: that the committed
\* history is as long as the committed lines is what Truncate relies on.
Journal(c) ==
  /\ c \in Seq(Line)
  /\ Scans(c)
  /\ \A i \in DOMAIN c : Len(c[i].history) = (i + 1) \div 2

\* One that ends with the commit of h.
Clean(c, h) == Journal(c) /\ Len(c) = RecoverAt(c) /\ Committed(c) = h

\* What is durable is what is seen, or lacks its last line, or still has a
\* tail that was cut off.
Follows(d, f) ==
  \/ d = f
  \/ Len(f) = Len(d) + 1 /\ SubSeq(f, 1, Len(d)) = d
  \/ f = SubSeq(d, 1, RecoverAt(d))

JournalInv ==
  /\ Journal(file) /\ Journal(disk) /\ Follows(disk, file)
  /\ Len(file) <= MaxLines /\ Len(disk) <= MaxLines
  /\ ~linked => file = <<>> /\ disk = <<>>
  /\ linked => exists
  /\ \A a \in Actor : pc[a] \in Locked \cup {"locking"} => exists

\* The file and the disk at each step of an operation that found b and is to
\* append the transaction of h.
Stage(step, b, h, f, d) ==
  /\ step \in {"syncing_truncation", "syncing"} => f = b
  /\ step \in {"syncing_directory", "choosing", "writing_record"} => f = b /\ d = b
  /\ step = "ending_record" => d = b /\ f = Append(b, Torn(Record(h)))
  /\ step = "syncing_record" => d = b /\ f = Append(b, Record(h))
  /\ step = "writing_commit" => d = f /\ f = Append(b, Record(h))
  /\ step = "ending_commit" => d = Append(b, Record(h)) /\ f = Append(d, Torn(Commit(h)))
  /\ step = "syncing_commit" => d = Append(b, Record(h)) /\ f = Append(d, Commit(h))
  /\ step \in {"resyncing", "resyncing_directory", "acknowledging"} =>
       d = f /\ f = Append(Append(b, Record(h)), Commit(h))

Appending == {"writing_record", "ending_record", "syncing_record", "writing_commit",
              "ending_commit", "syncing_commit", "resyncing", "resyncing_directory",
              "acknowledging"}

Base(a) == SubSeq(file, 1, 2 * Len(head[a]))

ActorInv(a) ==
  /\ pc[a] \in Locked \ {"scanning"} =>
       /\ Clean(Base(a), head[a])
       /\ Stage(pc[a], Base(a), History(a), file, disk)
  /\ pc[a] = "truncating" => head[a] = Committed(file)
  /\ pc[a] \in Appending \cup {"choosing"} => linked
  /\ pc[a] \in Appending => Appends(a)
  /\ pc[a] = "writing_record" => Len(file) + 2 <= MaxLines
  /\ pc[a] \in {"ending_record", "syncing_record", "writing_commit"} => Len(file) + 1 <= MaxLines

\* Answers rest on durable lines, and what was delivered is consumed there.
Answers ==
  /\ IsPrefix(told, Committed(disk))
  /\ \A i \in DOMAIN deliveries : Happened(told, "Consume", deliveries[i].proposal)

\* No caller was told yet of what an operation is appending.
Unanswered == \A a \in Actor : pc[a] \in Appending => IsPrefix(told, head[a])

IInv ==
  TypeOK /\ Exclusive /\ JournalInv /\ (\A a \in Actor : ActorInv(a)) /\ Answers /\ Unanswered

----------------------------------------------------------------------------
(* Journals.                                                               *)

\* A line keeps its kind and its history when its end is lost.
LEMMA TornLine ==
  ASSUME NEW line \in Line
  PROVE  /\ Torn(line) \in Line /\ ~Torn(line).whole
         /\ Torn(line).kind = line.kind /\ Torn(line).history = line.history
BY DEF Torn, Line

\* The lines a transaction consists of.
LEMMA LinesOf ==
  ASSUME NEW h \in Seq(Event)
  PROVE  /\ Record(h) \in Line /\ Record(h).whole /\ Record(h).kind = "record" /\ Record(h).history = h
         /\ Commit(h) \in Line /\ Commit(h).whole /\ Commit(h).kind = "commit" /\ Commit(h).history = h
BY DEF Record, Commit, Line

\* A journal is so many transactions and perhaps the beginning of one more.
LEMMA Shape ==
  ASSUME NEW c, Journal(c)
  PROVE  \E k \in Nat :
           /\ Transactions(c) = k /\ RecoverAt(c) = 2 * k
           /\ \/ Len(c) = 2 * k
              \/ Len(c) = 2 * k + 1
              \/ Len(c) = 2 * k + 2 /\ ~c[2 * k + 2].whole
           /\ 2 * k <= CompleteLines(c) /\ CompleteLines(c) <= 2 * k + 1
           /\ CompleteLines(c) \in {Len(c), Len(c) - 1}
           /\ 2 * k <= Len(c) /\ Len(c) <= 2 * k + 2
           /\ \A i \in 1..(2 * k) : c[i].whole
<1>0. Len(c) \in Nat /\ (c # <<>> => Len(c) > 0)
  BY EmptySeq, LenProperties DEF Journal
<1>1. DOMAIN c = 1..Len(c)
  BY LenProperties DEF Journal
<1>2. /\ CompleteLines(c) \in Nat
      /\ \/ CompleteLines(c) = Len(c)
         \/ CompleteLines(c) = Len(c) - 1 /\ ~c[Len(c)].whole
  <2>1. CASE c # <<>> /\ ~Last(c).whole
    <3>1. CompleteLines(c) = Len(c) - 1 /\ ~c[Len(c)].whole
      BY <2>1 DEF CompleteLines, Last
    <3> QED
      BY <1>0, <2>1, <3>1
  <2>2. CASE ~(c # <<>> /\ ~Last(c).whole)
    <3>1. CompleteLines(c) = Len(c)
      BY <2>2 DEF CompleteLines
    <3> QED
      BY <1>0, <3>1
  <2> QED
    BY <2>1, <2>2
<1>3. \A i \in 1..CompleteLines(c) : c[i].whole
  <2>1. CASE c # <<>> /\ ~Last(c).whole
    <3>1. CompleteLines(c) = Len(c) - 1
      BY <2>1 DEF CompleteLines
    <3> QED
      BY <1>0, <1>1, <3>1 DEF Journal, Scans
  <2>2. CASE c # <<>> /\ Last(c).whole
    <3>1. CompleteLines(c) = Len(c)
      BY <2>2 DEF CompleteLines
    <3> QED
      BY <1>0, <1>1, <2>2, <3>1 DEF Journal, Scans, Last
  <2>3. CASE c = <<>>
    <3>1. CompleteLines(c) = 0
      BY <2>3 DEF CompleteLines
    <3> QED
      BY <3>1
  <2> QED
    BY <2>1, <2>2, <2>3
<1> DEFINE k == CompleteLines(c) \div 2
<1>4. k \in Nat /\ 2 * k <= CompleteLines(c) /\ CompleteLines(c) <= 2 * k + 1
  BY <1>2
<1>5. Transactions(c) = k /\ RecoverAt(c) = 2 * k
  BY DEF Transactions, RecoverAt
<1> HIDE DEF k
<1>6. \A i \in 1..(2 * k) : c[i].whole
  BY <1>2, <1>3, <1>4
<1>7. \/ Len(c) = 2 * k
      \/ Len(c) = 2 * k + 1
      \/ Len(c) = 2 * k + 2 /\ ~c[2 * k + 2].whole
  <2> DEFINE n == CompleteLines(c)
  <2>1. n \in Nat /\ k \in Nat /\ 2 * k <= n /\ n <= 2 * k + 1
    BY <1>2, <1>4
  <2> HIDE DEF n
  <2>2. CASE Len(c) = n
    <3>1. Len(c) = 2 * k \/ Len(c) = 2 * k + 1
      BY <2>1, <2>2
    <3> QED
      BY <3>1
  <2>3. CASE n = Len(c) - 1 /\ ~c[Len(c)].whole
    <3>1. Len(c) = 2 * k + 1 \/ Len(c) = 2 * k + 2
      BY <1>0, <2>1, <2>3
    <3> QED
      BY <2>3, <3>1
  <2> QED
    BY <1>2, <2>2, <2>3 DEF n
<1>8. 2 * k <= Len(c) /\ Len(c) <= 2 * k + 2
  BY <1>0, <1>2, <1>4, <1>7
<1> QED
  BY <1>2, <1>4, <1>5, <1>6, <1>7, <1>8

\* What the lines of a journal say of the number of its transactions.
LEMMA ShapeOf ==
  ASSUME NEW c, Journal(c), NEW k \in Nat,
         \/ Len(c) = 2 * k /\ (k # 0 => c[2 * k].whole)
         \/ Len(c) = 2 * k + 1
         \/ Len(c) = 2 * k + 2 /\ ~c[2 * k + 2].whole
  PROVE  Transactions(c) = k /\ RecoverAt(c) = 2 * k
<1>1. PICK j \in Nat :
        /\ Transactions(c) = j /\ RecoverAt(c) = 2 * j
        /\ \/ Len(c) = 2 * j
           \/ Len(c) = 2 * j + 1
           \/ Len(c) = 2 * j + 2 /\ ~c[2 * j + 2].whole
        /\ \A i \in 1..(2 * j) : c[i].whole
  BY Shape
<1>2. j = k
  BY <1>1
<1> QED
  BY <1>1, <1>2

\* The committed history has one event for each transaction.
LEMMA CommittedHistory ==
  ASSUME NEW c, Journal(c)
  PROVE  /\ Committed(c) \in Seq(Event)
         /\ Len(Committed(c)) = Transactions(c)
         /\ RecoverAt(c) = 2 * Len(Committed(c))
         /\ RecoverAt(c) \in 0..Len(c)
         /\ \A i \in 1..RecoverAt(c) : c[i].whole
<1>1. c \in Seq(Line) /\ Len(c) \in Nat /\ DOMAIN c = 1..Len(c)
  BY LenProperties DEF Journal
<1>2. PICK k \in Nat :
        /\ Transactions(c) = k /\ RecoverAt(c) = 2 * k
        /\ 2 * k <= Len(c) /\ Len(c) <= 2 * k + 2
        /\ \A i \in 1..(2 * k) : c[i].whole
  BY Shape
<1>3. CASE k = 0
  BY <1>1, <1>2, <1>3, EmptySeq DEF Committed
<1>4. CASE k # 0
  <2>1. 2 * k \in DOMAIN c
    BY <1>1, <1>2, <1>4
  <2>2a. Committed(c) = c[2 * k].history
    BY <1>2, <1>4 DEF Committed
  <2>2. c[2 * k] \in Line
    BY <1>1, <2>1, ElementOfSeq
  <2>3. Len(c[2 * k].history) = (2 * k + 1) \div 2
    BY <2>1 DEF Journal
  <2>4. c[2 * k].history \in Seq(Event) /\ (2 * k + 1) \div 2 = k
    BY <2>2 DEF Line
  <2> QED
    BY <1>1, <1>2, <2>1, <2>2a, <2>3, <2>4
<1> QED
  BY <1>3, <1>4

\* Any number of a journal's first lines is a journal.
LEMMA PrefixIsJournal ==
  ASSUME NEW c, Journal(c), NEW n \in 0..Len(c)
  PROVE  /\ Journal(SubSeq(c, 1, n))
         /\ Len(SubSeq(c, 1, n)) = n
         /\ \A i \in 1..n : SubSeq(c, 1, n)[i] = c[i]
<1> DEFINE b == SubSeq(c, 1, n)
<1>1. c \in Seq(Line) /\ Len(c) \in Nat /\ DOMAIN c = 1..Len(c)
  BY LenProperties DEF Journal
<1>2. \A i \in 1..n : c[i] \in Line
  BY <1>1, ElementOfSeq
<1>3. b \in Seq(Line) /\ Len(b) = n /\ \A i \in 1..n : b[i] = c[i]
  BY <1>1, <1>2, SubSeqProperties
<1>4. DOMAIN b = 1..n
  BY <1>3, LenProperties
<1> HIDE DEF b
<1>5. Scans(b)
  <2> SUFFICES ASSUME NEW i \in 1..n
               PROVE  /\ b[i].whole \/ i = Len(b)
                      /\ \/ /\ i % 2 = 1
                            /\ b[i].kind = "record"
                            /\ b[i].whole => FollowsFrom(IF i = 1 THEN <<>> ELSE b[i - 1].history, b[i].history)
                         \/ /\ i % 2 = 0
                            /\ b[i].kind = "commit"
                            /\ b[i].history = b[i - 1].history
    BY <1>4 DEF Scans
  <2>1. i \in DOMAIN c /\ b[i] = c[i] /\ (i # 1 => b[i - 1] = c[i - 1])
    BY <1>1, <1>3
  <2>2. /\ c[i].whole \/ i = Len(c)
        /\ \/ /\ i % 2 = 1
              /\ c[i].kind = "record"
              /\ c[i].whole => FollowsFrom(IF i = 1 THEN <<>> ELSE c[i - 1].history, c[i].history)
           \/ /\ i % 2 = 0
              /\ c[i].kind = "commit"
              /\ c[i].history = c[i - 1].history
    BY <2>1 DEF Journal, Scans
  <2>3. i % 2 = 0 => i # 1
    OBVIOUS
  <2>4. c[i].whole \/ i = Len(b)
    BY <1>1, <1>3, <2>2
  <2>5. CASE i % 2 = 0
    BY <2>1, <2>2, <2>3, <2>4, <2>5
  <2>6. CASE i % 2 = 1 /\ i = 1
    BY <2>1, <2>2, <2>4, <2>6
  <2>7. CASE i % 2 = 1 /\ i # 1
    BY <2>1, <2>2, <2>4, <2>7
  <2> QED
    BY <2>5, <2>6, <2>7
<1>6. \A i \in DOMAIN b : Len(b[i].history) = (i + 1) \div 2
  BY <1>1, <1>3, <1>4 DEF Journal
<1> QED
  BY <1>3, <1>5, <1>6 DEF Journal, b

\* Cutting off the tail leaves what was committed, and no tail.
LEMMA TruncatedIsClean ==
  ASSUME NEW c, Journal(c)
  PROVE  Clean(SubSeq(c, 1, RecoverAt(c)), Committed(c))
<1> DEFINE k == Len(Committed(c))
           b == SubSeq(c, 1, 2 * k)
<1>1. /\ k \in Nat /\ Transactions(c) = k /\ RecoverAt(c) = 2 * k /\ 2 * k \in 0..Len(c)
      /\ \A i \in 1..(2 * k) : c[i].whole
  BY CommittedHistory, LenProperties
<1>2. Journal(b) /\ Len(b) = 2 * k /\ \A i \in 1..(2 * k) : b[i] = c[i]
  BY <1>1, PrefixIsJournal
<1> HIDE DEF k, b
<1>3. k # 0 => b[2 * k] = c[2 * k] /\ b[2 * k].whole
  BY <1>1, <1>2
<1>4. Transactions(b) = k /\ RecoverAt(b) = 2 * k
  BY <1>1, <1>2, <1>3, ShapeOf
<1>5. Committed(b) = Committed(c)
  BY <1>1, <1>3, <1>4 DEF Committed
<1> QED
  BY <1>1, <1>2, <1>4, <1>5 DEF Clean, b

\* A line after whole ones keeps a journal a journal when it is the record or
\* the commit whose turn it is.
LEMMA AppendLine ==
  ASSUME NEW c, Journal(c), NEW line \in Line,
         \A i \in 1..Len(c) : c[i].whole,
         Len(line.history) = (Len(c) + 2) \div 2,
         \/ /\ (Len(c) + 1) % 2 = 1
            /\ line.kind = "record"
            /\ line.whole => FollowsFrom(IF Len(c) = 0 THEN <<>> ELSE c[Len(c)].history, line.history)
         \/ /\ (Len(c) + 1) % 2 = 0
            /\ line.kind = "commit"
            /\ line.history = c[Len(c)].history
  PROVE  /\ Journal(Append(c, line))
         /\ Len(Append(c, line)) = Len(c) + 1
         /\ \A i \in 1..Len(c) : Append(c, line)[i] = c[i]
         /\ Append(c, line)[Len(c) + 1] = line
<1> DEFINE d == Append(c, line)
           n == Len(c)
<1>1. n \in Nat /\ c \in Seq(Line)
  BY LenProperties DEF Journal
<1>2. DOMAIN c = 1..n
  BY LenProperties DEF Journal
<1>3. /\ d \in Seq(Line) /\ Len(d) = n + 1
      /\ \A i \in 1..n : d[i] = c[i]
      /\ d[n + 1] = line
  BY <1>1, AppendProperties
<1>4. DOMAIN d = 1..(n + 1)
  BY <1>3, LenProperties
<1> HIDE DEF d
<1>5. Scans(d)
  <2> SUFFICES ASSUME NEW i \in 1..(n + 1)
               PROVE  /\ d[i].whole \/ i = Len(d)
                      /\ \/ /\ i % 2 = 1
                            /\ d[i].kind = "record"
                            /\ d[i].whole => FollowsFrom(IF i = 1 THEN <<>> ELSE d[i - 1].history, d[i].history)
                         \/ /\ i % 2 = 0
                            /\ d[i].kind = "commit"
                            /\ d[i].history = d[i - 1].history
    BY <1>4 DEF Scans
  <2>1. CASE i = n + 1
    <3> HIDE DEF n
    <3>1. d[i] = line /\ (n # 0 => d[i - 1] = c[n]) /\ (i = 1 <=> n = 0)
      BY <1>1, <1>3, <2>1
    <3>2. (n + 1) % 2 = 0 => n # 0
      BY <1>1
    <3> QED
      BY <1>3, <2>1, <3>1, <3>2 DEF n
  <2>2. CASE i # n + 1
    <3> HIDE DEF n
    <3>1. i \in 1..n
      BY <1>1, <2>2
    <3>2. d[i] = c[i] /\ (i # 1 => d[i - 1] = c[i - 1])
      BY <1>1, <1>3, <3>1
    <3>3. /\ c[i].whole
          /\ \/ /\ i % 2 = 1
                /\ c[i].kind = "record"
                /\ c[i].whole => FollowsFrom(IF i = 1 THEN <<>> ELSE c[i - 1].history, c[i].history)
             \/ /\ i % 2 = 0
                /\ c[i].kind = "commit"
                /\ c[i].history = c[i - 1].history
      BY <1>2, <3>1 DEF Journal, Scans, n
    <3>4. i % 2 = 0 => i # 1
      OBVIOUS
    <3> QED
      BY <3>2, <3>3, <3>4
  <2> QED
    BY <2>1, <2>2
<1>6. ASSUME NEW i \in 1..(n + 1)
      PROVE  Len(d[i].history) = (i + 1) \div 2
  <2>1. CASE i = n + 1
    <3>1. (n + 1) + 1 = n + 2
      BY <1>1
    <3> QED
      BY <1>3, <2>1, <3>1
  <2>2. CASE i # n + 1
    <3> HIDE DEF n
    <3>1. i \in 1..n /\ d[i] = c[i]
      BY <1>1, <1>3, <2>2
    <3> QED
      BY <1>2, <3>1 DEF Journal
  <2> QED
    BY <2>1, <2>2
<1> QED
  BY <1>3, <1>4, <1>5, <1>6 DEF Journal, d

\* A history that follows another has one event more, at its end.
LEMMA FollowingHistory ==
  ASSUME NEW g \in Seq(Event), NEW h \in Seq(Event), FollowsFrom(g, h)
  PROVE  /\ Len(h) = Len(g) + 1
         /\ \A i \in 1..Len(g) : h[i] = g[i]
         /\ h[Len(h)] \in Event /\ Transition(g, h[Len(h)])
<1>1. Len(g) \in Nat /\ Len(h) \in Nat /\ Len(h) > 0
  BY LenProperties, EmptySeq DEF FollowsFrom
<1>2. g = SubSeq(h, 1, Len(h) - 1)
  BY DEF FollowsFrom, Front
<1>3. \A i \in 1..(Len(h) - 1) : h[i] \in Event
  BY <1>1, ElementOfSeq
<1>4. Len(g) = IF 1 <= Len(h) - 1 THEN Len(h) - 1 - 1 + 1 ELSE 0
  BY <1>1, <1>2, <1>3, SubSeqProperties
<1>4a. \A i \in 1..(Len(h) - 1 - 1 + 1) : g[i] = h[1 + i - 1]
  BY <1>1, <1>2, <1>3, SubSeqProperties
<1>5. Len(h) \in 1..Len(h)
  BY <1>1
<1>6. Len(h) = Len(g) + 1
  <2> DEFINE m == Len(g)
             n == Len(h)
  <2>1. m \in Nat /\ n \in Nat /\ n > 0 /\ m = IF 1 <= n - 1 THEN n - 1 - 1 + 1 ELSE 0
    BY <1>1, <1>4
  <2> HIDE DEF m, n
  <2>2. n = m + 1
    BY <2>1
  <2> QED
    BY <2>2 DEF m, n
<1>7. \A i \in 1..Len(g) : h[i] = g[i]
  BY <1>1, <1>4a, <1>6
<1>8. h[Len(h)] \in Event
  BY <1>5, ElementOfSeq
<1>9. Transition(g, h[Len(h)])
  BY DEF FollowsFrom, Last
<1> QED
  BY <1>6, <1>7, <1>8, <1>9

\* What can be appended to a clean journal: a record, or part of it, leaves
\* what is committed; its commit makes it committed; part of that does not.
LEMMA AppendTransaction ==
  ASSUME NEW b, NEW g, NEW h \in Seq(Event), Clean(b, g), FollowsFrom(g, h)
  PROVE  /\ \A line \in {Record(h), Torn(Record(h))} :
              /\ Journal(Append(b, line)) /\ Committed(Append(b, line)) = g
              /\ Len(Append(b, line)) = Len(b) + 1
         /\ \A line \in {Commit(h), Torn(Commit(h))} :
              /\ Journal(Append(Append(b, Record(h)), line))
              /\ Len(Append(Append(b, Record(h)), line)) = Len(b) + 2
         /\ Clean(Append(Append(b, Record(h)), Commit(h)), h)
         /\ Committed(Append(Append(b, Record(h)), Torn(Commit(h)))) = g
<1> DEFINE k == Len(g)
           r == Append(b, Record(h))
<1>1. Journal(b) /\ Len(b) = RecoverAt(b) /\ Committed(b) = g
  BY DEF Clean
<1>2. /\ g \in Seq(Event) /\ k \in Nat /\ Transactions(b) = k /\ Len(b) = 2 * k
      /\ \A i \in 1..Len(b) : b[i].whole
  BY <1>1, CommittedHistory, LenProperties
<1>3. Len(h) = k + 1
  BY <1>2, FollowingHistory
<1>4. g = IF k = 0 THEN <<>> ELSE b[2 * k].history
  BY <1>1, <1>2 DEF Committed
<1> HIDE DEF k
<1>5. /\ (2 * k + 1) % 2 = 1 /\ (2 * k + 2) \div 2 = k + 1
      /\ (2 * k + 2) % 2 = 0 /\ (2 * k + 3) \div 2 = k + 1
  BY <1>2
<1>6. ASSUME NEW line \in {Record(h), Torn(Record(h))}
      PROVE  /\ Journal(Append(b, line)) /\ Committed(Append(b, line)) = g
             /\ Len(Append(b, line)) = 2 * k + 1
             /\ \A i \in 1..(2 * k) : Append(b, line)[i] = b[i]
             /\ Append(b, line)[2 * k + 1] = line
  <2>1. line \in Line /\ line.kind = "record" /\ line.history = h
    BY LinesOf, TornLine
  <2>2. FollowsFrom(IF Len(b) = 0 THEN <<>> ELSE b[Len(b)].history, line.history)
    <3>1. g = IF Len(b) = 0 THEN <<>> ELSE b[Len(b)].history
      BY <1>2, <1>4
    <3> QED
      BY <2>1, <3>1
  <2>3. Len(line.history) = (Len(b) + 2) \div 2 /\ (Len(b) + 1) % 2 = 1
    BY <1>2, <1>3, <1>5, <2>1
  <2>4. /\ Journal(Append(b, line)) /\ Len(Append(b, line)) = 2 * k + 1
        /\ \A i \in 1..(2 * k) : Append(b, line)[i] = b[i]
        /\ Append(b, line)[2 * k + 1] = line
    <3>1. /\ Journal(Append(b, line)) /\ Len(Append(b, line)) = Len(b) + 1
          /\ \A i \in 1..Len(b) : Append(b, line)[i] = b[i]
          /\ Append(b, line)[Len(b) + 1] = line
      BY <1>1, <1>2, <2>1, <2>2, <2>3, AppendLine
    <3> QED
      BY <1>2, <3>1
  <2>5. Transactions(Append(b, line)) = k /\ RecoverAt(Append(b, line)) = 2 * k
    BY <1>2, <2>4, ShapeOf
  <2>6. Committed(Append(b, line)) = g
    <3>1. k # 0 => 2 * k \in 1..(2 * k)
      BY <1>2
    <3> QED
      BY <1>4, <2>4, <2>5, <3>1 DEF Committed
  <2> QED
    BY <2>4, <2>6
<1>7. Journal(r) /\ Len(r) = 2 * k + 1 /\ r[2 * k + 1] = Record(h) /\ \A i \in 1..(2 * k) : r[i] = b[i]
  BY <1>6
<1> HIDE DEF r
<1>8. \A i \in 1..Len(r) : r[i].whole
  <2> SUFFICES ASSUME NEW i \in 1..(2 * k + 1)
               PROVE  r[i].whole
    BY <1>7
  <2>1. i \in 1..(2 * k) \/ i = 2 * k + 1
    BY <1>2
  <2> QED
    BY <1>2, <1>7, <2>1, LinesOf
<1>9. ASSUME NEW line \in {Commit(h), Torn(Commit(h))}
      PROVE  /\ Journal(Append(r, line))
             /\ Len(Append(r, line)) = 2 * k + 2
             /\ \A i \in 1..(2 * k + 1) : Append(r, line)[i] = r[i]
             /\ Append(r, line)[2 * k + 2] = line
  <2>1. line \in Line /\ line.kind = "commit" /\ line.history = h
    BY LinesOf, TornLine
  <2>2. line.history = r[Len(r)].history
    BY <1>7, <2>1, LinesOf
  <2>3. /\ Len(r) + 1 = 2 * k + 2 /\ Len(r) + 2 = 2 * k + 3
    BY <1>2, <1>7
  <2>4. Len(line.history) = (Len(r) + 2) \div 2 /\ (Len(r) + 1) % 2 = 0
    BY <1>3, <1>5, <2>1, <2>3
  <2>5. /\ Journal(Append(r, line)) /\ Len(Append(r, line)) = Len(r) + 1
        /\ \A i \in 1..Len(r) : Append(r, line)[i] = r[i]
        /\ Append(r, line)[Len(r) + 1] = line
    BY <1>7, <1>8, <2>1, <2>2, <2>4, AppendLine
  <2> QED
    BY <1>7, <2>3, <2>5
<1>10. Clean(Append(r, Commit(h)), h)
  <2> DEFINE c == Append(r, Commit(h))
  <2>1. Journal(c) /\ Len(c) = 2 * k + 2 /\ c[2 * k + 2] = Commit(h)
    BY <1>9
  <2> HIDE DEF c
  <2>2. 2 * k + 2 = 2 * (k + 1) /\ k + 1 \in Nat /\ k + 1 # 0
    BY <1>2
  <2>3. c[2 * (k + 1)].whole
    BY <2>1, <2>2, LinesOf
  <2>4. Transactions(c) = k + 1 /\ RecoverAt(c) = 2 * (k + 1)
    BY <2>1, <2>2, <2>3, ShapeOf
  <2>5. Committed(c) = h
    BY <2>1, <2>2, <2>4, LinesOf DEF Committed
  <2> QED
    BY <2>1, <2>2, <2>4, <2>5 DEF Clean, c
<1>11. Committed(Append(r, Torn(Commit(h)))) = g
  <2> DEFINE c == Append(r, Torn(Commit(h)))
  <2>1. /\ Journal(c) /\ Len(c) = 2 * k + 2 /\ c[2 * k + 2] = Torn(Commit(h))
        /\ \A i \in 1..(2 * k + 1) : c[i] = r[i]
    BY <1>9
  <2> HIDE DEF c
  <2>2. ~c[2 * k + 2].whole
    BY <2>1, LinesOf, TornLine
  <2>3. Transactions(c) = k /\ RecoverAt(c) = 2 * k
    BY <1>2, <2>1, <2>2, ShapeOf
  <2>4. k # 0 => c[2 * k] = b[2 * k]
    BY <1>2, <1>7, <2>1
  <2>5. Committed(c) = g
    BY <1>4, <2>3, <2>4 DEF Committed
  <2> QED
    BY <2>5 DEF c
<1>12. 2 * k + 1 = Len(b) + 1 /\ 2 * k + 2 = Len(b) + 2
  BY <1>2
<1> QED
  BY <1>6, <1>9, <1>10, <1>11, <1>12 DEF r

\* Records and commits take turns.
LEMMA TurnOf ==
  ASSUME NEW c, Journal(c), NEW i \in 1..Len(c)
  PROVE  /\ c[i].whole \/ i = Len(c)
         /\ \/ /\ i % 2 = 1
               /\ c[i].kind = "record"
               /\ c[i].whole => FollowsFrom(IF i = 1 THEN <<>> ELSE c[i - 1].history, c[i].history)
            \/ /\ i % 2 = 0
               /\ c[i].kind = "commit"
               /\ c[i].history = c[i - 1].history
<1>1. i \in DOMAIN c
  BY LenProperties DEF Journal
<1> QED
  BY <1>1 DEF Journal, Scans

\* One more line commits the transaction it completes, and nothing otherwise.
LEMMA OneMoreLine ==
  ASSUME NEW d, NEW f, Journal(d), Journal(f), Len(f) = Len(d) + 1,
         \A i \in 1..Len(d) : f[i] = d[i]
  PROVE  /\ \A i \in 1..Len(d) : f[i].whole
         /\ \/ RecoverAt(f) = RecoverAt(d) /\ Committed(f) = Committed(d)
            \/ /\ f[Len(f)].whole
               /\ RecoverAt(f) = Len(f)
               /\ FollowsFrom(Committed(d), Committed(f))
<1>1. Len(d) \in Nat
  BY LenProperties DEF Journal
<1>2. DOMAIN f = 1..Len(f)
  BY LenProperties DEF Journal
<1>3. \A i \in 1..Len(d) : f[i].whole
  <2> SUFFICES ASSUME NEW i \in 1..Len(d)
               PROVE  f[i].whole
    OBVIOUS
  <2>1. i \in 1..Len(f) /\ i # Len(f)
    BY <1>1
  <2> QED
    BY <1>2, <2>1 DEF Journal, Scans
<1>4. PICK k \in Nat :
        /\ Transactions(d) = k /\ RecoverAt(d) = 2 * k
        /\ \/ Len(d) = 2 * k
           \/ Len(d) = 2 * k + 1
           \/ Len(d) = 2 * k + 2 /\ ~d[2 * k + 2].whole
        /\ 2 * k <= Len(d)
  BY Shape
<1>5. Len(d) = 2 * k \/ Len(d) = 2 * k + 1
  <2>1. Len(d) = 2 * k + 2 => d[2 * k + 2].whole
    <3> SUFFICES ASSUME Len(d) = 2 * k + 2
                 PROVE  d[2 * k + 2].whole
      OBVIOUS
    <3>1. 2 * k + 2 \in 1..Len(d)
      OBVIOUS
    <3> QED
      BY <1>3, <3>1
  <2> QED
    BY <1>4, <2>1
<1>6. k # 0 => f[2 * k] = d[2 * k]
  <2>1. k # 0 => 2 * k \in 1..Len(d)
    BY <1>1, <1>4
  <2> QED
    BY <2>1
<1>7. ASSUME Transactions(f) = k, RecoverAt(f) = 2 * k
      PROVE  RecoverAt(f) = RecoverAt(d) /\ Committed(f) = Committed(d)
  BY <1>4, <1>6, <1>7 DEF Committed
<1>8. CASE Len(d) = 2 * k
  <2>1. Len(f) = 2 * k + 1
    BY <1>8
  <2>2. Transactions(f) = k /\ RecoverAt(f) = 2 * k
    BY <2>1, ShapeOf
  <2> QED
    BY <1>3, <1>7, <2>2
<1>9. CASE Len(d) = 2 * k + 1 /\ ~f[2 * k + 2].whole
  <2>1. Len(f) = 2 * k + 2
    BY <1>9
  <2>2. Transactions(f) = k /\ RecoverAt(f) = 2 * k
    BY <1>9, <2>1, ShapeOf
  <2> QED
    BY <1>3, <1>7, <2>2
<1>10. CASE Len(d) = 2 * k + 1 /\ f[2 * k + 2].whole
  <2>1. Len(f) = 2 * k + 2 /\ 2 * k + 2 = 2 * (k + 1) /\ k + 1 \in Nat /\ k + 1 # 0
    BY <1>10
  <2>2. Transactions(f) = k + 1 /\ RecoverAt(f) = 2 * (k + 1)
    <3>1. Len(f) = 2 * (k + 1) /\ f[2 * (k + 1)].whole
      BY <1>10, <2>1
    <3> QED
      BY <2>1, <3>1, ShapeOf
  <2>3. Committed(f) = f[2 * k + 2].history
    BY <2>1, <2>2 DEF Committed
  <2>4. f[2 * k + 2].history = f[2 * k + 1].history
    <3>1. 2 * k + 2 \in 1..Len(f) /\ (2 * k + 2) % 2 # 1 /\ 2 * k + 2 - 1 = 2 * k + 1
      BY <2>1
    <3> QED
      BY <3>1, TurnOf
  <2>5. FollowsFrom(IF k = 0 THEN <<>> ELSE f[2 * k].history, f[2 * k + 1].history)
    <3>1. /\ 2 * k + 1 \in 1..Len(f) /\ (2 * k + 1) % 2 # 0 /\ 2 * k + 1 - 1 = 2 * k
          /\ 2 * k + 1 = 1 <=> k = 0
      BY <2>1
    <3>2. f[2 * k + 1].whole
      BY <1>3, <1>10
    <3>3. CASE k = 0
      BY <3>1, <3>2, <3>3, TurnOf
    <3>4. CASE k # 0
      BY <3>1, <3>2, <3>4, TurnOf
    <3> QED
      BY <3>3, <3>4
  <2>6. Committed(d) = IF k = 0 THEN <<>> ELSE f[2 * k].history
    BY <1>4, <1>6 DEF Committed
  <2> QED
    BY <1>3, <1>10, <2>1, <2>2, <2>3, <2>4, <2>5, <2>6
<1> QED
  BY <1>5, <1>8, <1>9, <1>10

\* A journal and one with a line more agree on all others.
LEMMA FirstLines ==
  ASSUME NEW d, NEW f, Journal(d), Journal(f), Len(f) = Len(d) + 1, SubSeq(f, 1, Len(d)) = d
  PROVE  \A i \in 1..Len(d) : f[i] = d[i]
<1>1. Len(d) \in 0..Len(f)
  BY LenProperties DEF Journal
<1> QED
  BY <1>1, PrefixIsJournal

\* What is seen is what is durable, as far as it is committed, or one event
\* ahead of it.
LEMMA FollowsCommitted ==
  ASSUME NEW d, NEW f, Journal(d), Journal(f), Follows(d, f)
  PROVE  Committed(f) = Committed(d) \/ FollowsFrom(Committed(d), Committed(f))
<1>1. CASE d = f
  BY <1>1
<1>2. CASE Len(f) = Len(d) + 1 /\ SubSeq(f, 1, Len(d)) = d
  BY <1>2, FirstLines, OneMoreLine
<1>3. CASE f = SubSeq(d, 1, RecoverAt(d))
  BY <1>3, TruncatedIsClean DEF Clean
<1> QED
  BY <1>1, <1>2, <1>3 DEF Follows

\* What follows the durable lines still does without its tail.
LEMMA FollowsTruncated ==
  ASSUME NEW d, NEW f, Journal(d), Journal(f), Follows(d, f)
  PROVE  Follows(d, SubSeq(f, 1, RecoverAt(f)))
<1>0. f \in Seq(Line) /\ d \in Seq(Line)
  BY DEF Journal
<1>1. CASE d = f
  BY <1>1 DEF Follows
<1>2. CASE Len(f) = Len(d) + 1 /\ SubSeq(f, 1, Len(d)) = d
  <2>1. \A i \in 1..Len(d) : f[i] = d[i]
    BY <1>2, FirstLines
  <2>2. CASE RecoverAt(f) = Len(f)
    BY <1>0, <1>2, <2>2, SubSeqFull DEF Follows
  <2>3. CASE RecoverAt(f) = RecoverAt(d)
    <3> DEFINE n == RecoverAt(d)
               s == SubSeq(f, 1, n)
               t == SubSeq(d, 1, n)
    <3>1. n \in 0..Len(d) /\ n \in 0..Len(f)
      BY <1>2, <2>3, CommittedHistory
    <3>2. \A i \in 1..n : i \in 1..Len(d)
      BY <3>1, LenProperties DEF Journal
    <3> HIDE DEF n
    <3>3. s \in Seq(Line) /\ Len(s) = n /\ \A i \in 1..n : s[i] = f[i]
      BY <3>1, PrefixIsJournal DEF Journal
    <3>4. t \in Seq(Line) /\ Len(t) = n /\ \A i \in 1..n : t[i] = d[i]
      BY <3>1, PrefixIsJournal DEF Journal
    <3> HIDE DEF s, t
    <3>5. s = t
      BY <2>1, <3>2, <3>3, <3>4, SeqEqual
    <3> QED
      BY <2>3, <3>5 DEF Follows, s, t, n
  <2> QED
    BY <1>2, <2>1, <2>2, <2>3, OneMoreLine
<1>3. CASE f = SubSeq(d, 1, RecoverAt(d))
  <2>1. Len(f) = RecoverAt(f)
    BY <1>3, TruncatedIsClean DEF Clean
  <2> QED
    BY <1>0, <1>3, <2>1, SubSeqFull DEF Follows
<1> QED
  BY <1>1, <1>2, <1>3 DEF Follows

\* Losing the end of an unsynced line loses nothing that was committed before.
LEMMA TornLastLine ==
  ASSUME NEW d, NEW f, Journal(d), Journal(f), Len(f) = Len(d) + 1,
         \A i \in 1..Len(d) : f[i] = d[i],
         NEW c, c \in Seq(Line), Len(c) = Len(f),
         \A i \in 1..Len(d) : c[i] = f[i], c[Len(f)] = Torn(f[Len(f)])
  PROVE  Journal(c) /\ Committed(c) = Committed(d)
<1>1. Len(d) \in Nat /\ Len(f) \in Nat /\ d \in Seq(Line)
  BY LenProperties DEF Journal
<1>2. DOMAIN c = 1..Len(f)
  BY LenProperties
<1>3. DOMAIN f = 1..Len(f)
  BY LenProperties DEF Journal
<1> DEFINE n == Len(d)
<1>4. n \in Nat /\ Len(f) = n + 1
  BY <1>1
<1>5. f[n + 1] \in Line
  BY <1>4, ElementOfSeq DEF Journal
<1>6. /\ c[n + 1] \in Line /\ ~c[n + 1].whole
      /\ c[n + 1].kind = f[n + 1].kind /\ c[n + 1].history = f[n + 1].history
  BY <1>4, <1>5, TornLine
<1>7. \A i \in 1..n : c[i] = f[i] /\ f[i].whole
  BY OneMoreLine
<1> HIDE DEF n
<1>8. ASSUME NEW i \in 1..(n + 1)
      PROVE  /\ c[i].kind = f[i].kind /\ c[i].history = f[i].history
             /\ c[i].whole => f[i].whole
             /\ c[i].whole \/ i = n + 1
             /\ i # 1 => c[i - 1].history = f[i - 1].history
  <2>1. CASE i = n + 1
    <3>1. i # 1 => i - 1 \in 1..n
      BY <1>4, <2>1
    <3> QED
      BY <1>6, <1>7, <2>1, <3>1
  <2>2. CASE i # n + 1
    <3>1. i \in 1..n /\ (i # 1 => i - 1 \in 1..n)
      BY <1>4, <2>2
    <3> QED
      BY <1>7, <3>1
  <2> QED
    BY <2>1, <2>2
<1>9. Scans(c)
  <2> SUFFICES ASSUME NEW i \in 1..(n + 1)
               PROVE  /\ c[i].whole \/ i = Len(c)
                      /\ \/ /\ i % 2 = 1
                            /\ c[i].kind = "record"
                            /\ c[i].whole => FollowsFrom(IF i = 1 THEN <<>> ELSE c[i - 1].history, c[i].history)
                         \/ /\ i % 2 = 0
                            /\ c[i].kind = "commit"
                            /\ c[i].history = c[i - 1].history
    BY <1>2, <1>4 DEF Scans
  <2>1. \/ /\ i % 2 = 1
           /\ f[i].kind = "record"
           /\ f[i].whole => FollowsFrom(IF i = 1 THEN <<>> ELSE f[i - 1].history, f[i].history)
        \/ /\ i % 2 = 0
           /\ f[i].kind = "commit"
           /\ f[i].history = f[i - 1].history
    BY <1>3, <1>4 DEF Journal, Scans
  <2>2. i % 2 = 0 => i # 1
    OBVIOUS
  <2> QED
    BY <1>4, <1>8, <2>1, <2>2
<1>10. \A i \in 1..(n + 1) : Len(c[i].history) = (i + 1) \div 2
  BY <1>3, <1>4, <1>8 DEF Journal
<1>11. Journal(c)
  BY <1>2, <1>4, <1>9, <1>10 DEF Journal
<1>12. \A i \in 1..n : c[i] = d[i]
  BY <1>7 DEF n
<1>13. Len(c) = Len(d) + 1 /\ ~c[Len(c)].whole
  BY <1>4, <1>6 DEF n
<1> QED
  BY <1>11, <1>12, <1>13, OneMoreLine DEF n

\* Whatever a power loss leaves is a journal, and committed in it is what was
\* durable or what was seen.
LEMMA SurvivorIsJournal ==
  ASSUME Journal(file), Journal(disk), Follows(disk, file), NEW c \in Survivors
  PROVE  /\ Journal(c)
         /\ Len(c) \in {Len(disk), Len(file)}
         /\ Committed(c) \in {Committed(disk), Committed(file)}
<1>1. CASE c \in {disk, file}
  BY <1>1
<1>2. CASE c \notin {disk, file}
  <2>0. PICK n \in Len(disk)..Len(file) :
          \E T \in SUBSET ((Len(disk) + 1)..n) : c = [i \in 1..n |-> IF i \in T THEN Torn(file[i]) ELSE file[i]]
    BY <1>2 DEF Survivors
  <2>1. PICK T \in SUBSET ((Len(disk) + 1)..n) : c = [i \in 1..n |-> IF i \in T THEN Torn(file[i]) ELSE file[i]]
    BY <2>0
  <2>2. Len(disk) \in Nat /\ Len(file) \in Nat /\ file \in Seq(Line) /\ disk \in Seq(Line)
    BY LenProperties DEF Journal
  <2>3. \A i \in 1..n : i \in 1..Len(file)
    BY <2>2
  <2>4. \A i \in 1..n : file[i] \in Line /\ Torn(file[i]) \in Line
    BY <2>2, <2>3, ElementOfSeq, TornLine
  <2>5. n \in Nat
    BY <2>2
  <2>6. c \in Seq(Line) /\ Len(c) = n
    BY <2>1, <2>4, <2>5
  <2>7. \A i \in 1..n : c[i] = IF i \in T THEN Torn(file[i]) ELSE file[i]
    BY <2>1
  <2>8. n # Len(file) \/ T # {}
    <3> SUFFICES ASSUME n = Len(file), T = {}
                 PROVE  c = file
      BY <1>2
    <3> QED
      BY <2>2, <2>6, <2>7, SeqEqual
  <2>9. disk # file
    <3> SUFFICES ASSUME disk = file
                 PROVE  n = Len(file) /\ T = {}
      BY <2>8
    <3>1. n = Len(file)
      BY <2>2
    <3> QED
      BY <2>2, <3>1
  <2>10. file # SubSeq(disk, 1, RecoverAt(disk))
    <3> SUFFICES ASSUME file = SubSeq(disk, 1, RecoverAt(disk))
                 PROVE  disk = file
      BY <2>9
    <3>1. Len(file) = RecoverAt(disk) /\ RecoverAt(disk) \in 0..Len(disk)
      BY CommittedHistory, PrefixIsJournal
    <3>2. RecoverAt(disk) = Len(disk)
      BY <2>2, <3>1
    <3> QED
      BY <2>2, <3>2, SubSeqFull
  <2>11. Len(file) = Len(disk) + 1 /\ SubSeq(file, 1, Len(disk)) = disk
    BY <2>9, <2>10 DEF Follows
  <2>12. \A i \in 1..Len(disk) : file[i] = disk[i]
    BY <2>11, FirstLines
  <2>13. \A i \in 1..Len(disk) : i \notin T
    BY <2>2
  <2>14. n # Len(disk)
    <3> SUFFICES ASSUME n = Len(disk)
                 PROVE  c = disk
      BY <1>2
    <3> QED
      BY <2>2, <2>6, <2>7, <2>12, <2>13, SeqEqual
  <2>15. n = Len(file)
    <3> DEFINE x == Len(disk)
               y == Len(file)
    <3>1. x \in Nat /\ n \in x..y /\ y = x + 1 /\ n # x
      BY <2>2, <2>11, <2>14
    <3> HIDE DEF x, y
    <3>2. n = y
      BY <3>1
    <3> QED
      BY <3>2 DEF y
  <2>16. n \in T
    <3>1. PICK j \in T : TRUE
      BY <2>8, <2>15
    <3>2. j = n
      BY <2>2, <2>11, <2>15, <3>1
    <3> QED
      BY <3>2
  <2>17. c[Len(file)] = Torn(file[Len(file)])
    BY <2>2, <2>7, <2>11, <2>15, <2>16
  <2>18. \A i \in 1..Len(disk) : c[i] = file[i]
    BY <2>2, <2>7, <2>11, <2>13, <2>15
  <2> QED
    BY <2>6, <2>11, <2>12, <2>15, <2>17, <2>18, TornLastLine
<1> QED
  BY <1>1, <1>2

----------------------------------------------------------------------------
(* Events.                                                                 *)

\* The decision of a decided proposal is one of the decisions.
LEMMA DecisionIsRecorded ==
  ASSUME NEW h \in Seq(Event), NEW p, Happened(h, "Decide", p)
  PROVE  DecisionOf(h, p) \in Decision
<1> DEFINE D == {j \in DOMAIN h : h[j].kind = "Decide" /\ h[j].proposal = p}
           V == {h[i].value : i \in D}
<1>1. V # {}
  BY DEF Happened
<1>2. DecisionOf(h, p) = CHOOSE v \in V : TRUE
  BY DEF DecisionOf, ValueOf
<1>3. DecisionOf(h, p) \in V
  BY <1>1, <1>2
<1>4. PICK j \in D : DecisionOf(h, p) = h[j].value
  BY <1>3
<1>5. h[j] \in Event /\ h[j].kind = "Decide"
  <2>1. j \in 1..Len(h)
    BY LenProperties
  <2> QED
    BY <2>1, ElementOfSeq
<1> QED
  BY <1>4, <1>5 DEF Event

\* What an operation is about to append may follow the history it found.
LEMMA NextEvent ==
  ASSUME TypeOK, NEW a \in Actor, Appends(a)
  PROVE  /\ EventOf(a) \in Event
         /\ History(a) \in Seq(Event)
         /\ FollowsFrom(head[a], History(a))
         /\ Len(History(a)) = Len(head[a]) + 1
         /\ \A i \in 1..Len(head[a]) : History(a)[i] = head[a][i]
         /\ History(a)[Len(head[a]) + 1] = EventOf(a)
         /\ request[a].op = "consume" =>
              /\ EventOf(a).kind = "Consume" /\ EventOf(a).proposal = request[a].proposal
              /\ EventOf(a).value = DecisionOf(head[a], request[a].proposal)
              /\ StatusOf(head[a], request[a].proposal) = "Decided"
<1> DEFINE r == request[a]
           g == head[a]
           e == EventOf(a)
<1>1. g \in Seq(Event) /\ r \in Request \cup {NoRequest}
  BY DEF TypeOK
<1>2. e \in Event /\ Transition(g, e)
  <2>1. CASE r.op = "submit" /\ StatusOf(g, r.proposal) = "Absent"
    <3>1. e = [kind |-> "Submit", proposal |-> r.proposal, value |-> r.value]
      BY <2>1 DEF EventOf
    <3>2. r.proposal \in Proposal /\ r.value \in Approvers
      BY <1>1, <2>1 DEF Request, NoRequest
    <3> QED
      BY <2>1, <3>1, <3>2 DEF Event, Transition
  <2>2. CASE /\ r.op = "decide" /\ StatusOf(g, r.proposal) = "Pending"
             /\ <<ApproversOf(g, r.proposal), r.value>> \in Allowed
    <3>1. e = [kind |-> "Decide", proposal |-> r.proposal, value |-> r.value]
      BY <2>2 DEF EventOf
    <3>2. r.proposal \in Proposal /\ r.value \in Decision
      BY <1>1, <2>2 DEF Request, NoRequest
    <3> QED
      BY <2>2, <3>1, <3>2 DEF Event, Transition
  <2>3. CASE r.op = "consume" /\ StatusOf(g, r.proposal) = "Decided"
    <3>1. e = [kind |-> "Consume", proposal |-> r.proposal, value |-> DecisionOf(g, r.proposal)]
      BY <2>3 DEF EventOf
    <3>2. r.proposal \in Proposal
      BY <1>1, <2>3 DEF Request, NoRequest
    <3>3. Happened(g, "Decide", r.proposal)
      BY <2>3 DEF StatusOf
    <3>4. DecisionOf(g, r.proposal) \in Decision
      BY <1>1, <3>3, DecisionIsRecorded
    <3> QED
      BY <2>3, <3>1, <3>2, <3>4 DEF Event, Transition
  <2> QED
    BY <2>1, <2>2, <2>3 DEF Appends
<1> DEFINE h == History(a)
<1>3. /\ h \in Seq(Event) /\ h # <<>> /\ Len(h) = Len(g) + 1
      /\ \A i \in 1..Len(g) : h[i] = g[i]
      /\ h[Len(g) + 1] = e
  BY <1>1, <1>2, AppendProperties DEF History
<1>4. FollowsFrom(g, h)
  <2> DEFINE n == Len(g)
  <2>1. n \in Nat
    BY <1>1, LenProperties
  <2> HIDE DEF h, n
  <2>2. Len(h) = n + 1 /\ Len(h) - 1 = n
    BY <1>3, <2>1 DEF n
  <2>3. \A i \in 1..n : h[i] \in Event
    BY <1>1, <1>3, ElementOfSeq DEF n
  <2>4. /\ SubSeq(h, 1, n) \in Seq(Event)
        /\ Len(SubSeq(h, 1, n)) = n
        /\ \A i \in 1..n : SubSeq(h, 1, n)[i] = h[i]
    BY <2>1, <2>3, SubSeqProperties
  <2>5. SubSeq(h, 1, n) = g
    BY <1>1, <1>3, <2>4, SeqEqual DEF n
  <2>6. Front(h) = g /\ Last(h) = e
    BY <1>3, <2>2, <2>5 DEF Front, Last, n
  <2> QED
    BY <1>2, <1>3, <2>6 DEF FollowsFrom
<1>5. r.op = "consume" =>
        /\ e = [kind |-> "Consume", proposal |-> r.proposal, value |-> DecisionOf(g, r.proposal)]
        /\ StatusOf(g, r.proposal) = "Decided"
  BY DEF EventOf, Appends
<1> QED
  BY <1>2, <1>3, <1>4, <1>5

----------------------------------------------------------------------------
(* One actor at a time.                                                    *)

\* The steps between taking the lock and leaving.
LEMMA LockedSteps ==
  /\ Locked = {"syncing_truncation", "syncing", "syncing_record", "syncing_commit", "resyncing",
               "scanning", "truncating", "syncing_directory", "choosing", "writing_record",
               "ending_record", "writing_commit", "ending_commit", "resyncing_directory",
               "acknowledging"}
  /\ DOMAIN AfterSync = {"syncing_truncation", "syncing", "syncing_record", "syncing_commit",
                         "resyncing"}
BY DEF Locked, AfterSync

\* Exclusive is mutual exclusion: the lock names one process, and the guard of
\* that process lets one domain in.
LEMMA OneAtATime ==
  ASSUME Exclusive
  PROVE  OneActorAtATime
BY LockedSteps DEF Exclusive, OneActorAtATime

\* An actor that goes from one step to another keeps what it holds.
LEMMA MoveExclusive ==
  ASSUME TypeOK, Exclusive, NEW a \in Actor, NEW step, pc[a] # "idle",
         step \in Locked => pc[a] \in Locked,
         pc' = [pc EXCEPT ![a] = step], guard' = guard, lock' = lock
  PROVE  Exclusive'
<1>1. pc \in [Actor -> ProgramCounter]
  BY DEF TypeOK
<1> QED
  BY <1>1, LockedSteps DEF Exclusive

\* An actor that leaves gives up its guard, and the lock of its process, which
\* no one else of the process needs.
LEMMA LeaveExclusive ==
  ASSUME TypeOK, Exclusive, NEW a \in Actor, pc[a] # "idle", Leave(a)
  PROVE  /\ Exclusive' /\ guard' \in [Process -> Process \cup {Nobody}] /\ lock' \in Process \cup {Nobody}
         /\ pc' = [pc EXCEPT ![a] = "idle"] /\ pc' \in [Actor -> ProgramCounter]
         /\ request' = [request EXCEPT ![a] = NoRequest] /\ request' \in [Actor -> Request \cup {NoRequest}]
         /\ head' = [head EXCEPT ![a] = <<>>] /\ head' \in [Actor -> Seq(Event)]
<1>1. /\ pc \in [Actor -> ProgramCounter] /\ guard \in [Process -> Process \cup {Nobody}]
      /\ request \in [Actor -> Request \cup {NoRequest}] /\ head \in [Actor -> Seq(Event)]
      /\ lock \in Process \cup {Nobody}
  BY DEF TypeOK
<1>2. ProcessOf[a] \in Process /\ \A b \in Actor : ProcessOf[b] \in Process
  BY ProcessOfAssumption
<1>3. /\ pc' = [pc EXCEPT ![a] = "idle"]
      /\ request' = [request EXCEPT ![a] = NoRequest]
      /\ head' = [head EXCEPT ![a] = <<>>]
      /\ lock' = IF lock = ProcessOf[a] THEN Nobody ELSE lock
      /\ guard' = [guard EXCEPT ![ProcessOf[a]] = IF @ = ProcessOf[a] THEN Nobody ELSE @]
  BY DEF Leave
<1>4. /\ pc' \in [Actor -> ProgramCounter] /\ guard' \in [Process -> Process \cup {Nobody}]
      /\ lock' \in Process \cup {Nobody} /\ request' \in [Actor -> Request \cup {NoRequest}]
  BY <1>1, <1>2, <1>3 DEF ProgramCounter
<1>5. head' \in [Actor -> Seq(Event)]
  BY <1>1, <1>3, EmptySeq
<1>6. Exclusive'
  <2>1. \A b \in Actor : pc'[b] # "idle" => b # a /\ pc'[b] = pc[b]
    BY <1>1, <1>3
  <2>2. \A b \in Actor : pc'[b] # "idle" => ProcessOf[b] # ProcessOf[a]
    BY <2>1 DEF Exclusive
  <2>3. \A b \in Actor : pc'[b] # "idle" => guard'[ProcessOf[b]] = guard[ProcessOf[b]]
    BY <1>1, <1>2, <1>3, <2>2
  <2>4. \A b \in Actor : pc'[b] \in Locked => pc'[b] # "idle"
    BY LockedSteps
  <2>5. \A b \in Actor : pc'[b] \in Locked => lock' = ProcessOf[b]
    BY <1>3, <2>1, <2>2, <2>4 DEF Exclusive
  <2> QED
    BY <2>1, <2>3, <2>5 DEF Exclusive
<1> QED
  BY <1>3, <1>4, <1>5, <1>6

\* Every step leaves at most one actor with the lock.
LEMMA ExclusiveStep ==
  ASSUME TypeOK, Exclusive, [Next]_vars
  PROVE  Exclusive'
<1>1. /\ pc \in [Actor -> ProgramCounter] /\ guard \in [Process -> Process \cup {Nobody}]
      /\ lock \in Process \cup {Nobody}
  BY DEF TypeOK
<1>2. \A b \in Actor : ProcessOf[b] \in Process /\ ProcessOf[b] # Nobody
  BY ProcessOfAssumption, NobodyAssumption
<1>3. ASSUME NEW a \in Actor, NEW r \in Request, Call(a, r)
      PROVE  Exclusive'
  <2>1. /\ pc[a] = "idle" /\ guard[ProcessOf[a]] # ProcessOf[a]
        /\ guard' = [guard EXCEPT ![ProcessOf[a]] = ProcessOf[a]]
        /\ pc' = [pc EXCEPT ![a] = "opening"] /\ lock' = lock
    BY <1>3 DEF Call
  <2>2. \A b \in Actor : pc[b] # "idle" => ProcessOf[b] # ProcessOf[a]
    BY <2>1 DEF Exclusive
  <2>3. \A b \in Actor : guard'[ProcessOf[b]] =
          IF ProcessOf[b] = ProcessOf[a] THEN ProcessOf[a] ELSE guard[ProcessOf[b]]
    BY <1>1, <1>2, <2>1
  <2>4. \A b \in Actor : pc'[b] = IF b = a THEN "opening" ELSE pc[b]
    BY <1>1, <2>1
  <2>5. "opening" \notin Locked /\ "idle" \notin Locked
    BY LockedSteps
  <2> QED
    BY <2>1, <2>2, <2>3, <2>4, <2>5 DEF Exclusive
<1>4. ASSUME NEW a \in Actor, NEW step, GoTo(a, step), pc[a] # "idle", step \in Locked => pc[a] \in Locked
      PROVE  Exclusive'
  BY <1>4, MoveExclusive DEF GoTo
<1>5. ASSUME NEW a \in Actor, pc[a] # "idle", Leave(a)
      PROVE  Exclusive'
  BY <1>5, LeaveExclusive
<1>6. ASSUME NEW a \in Actor, TakeLock(a)
      PROVE  Exclusive'
  <2>1. /\ pc[a] = "locking" /\ lock \in {Nobody, ProcessOf[a]} /\ lock' = ProcessOf[a]
        /\ pc' = [pc EXCEPT ![a] = "scanning"] /\ guard' = guard
    BY <1>6 DEF TakeLock
  <2>2. \A b \in Actor : pc[b] \in Locked => b = a
    <3> SUFFICES ASSUME NEW b \in Actor, pc[b] \in Locked
                 PROVE  b = a
      OBVIOUS
    <3>1. lock = ProcessOf[b] /\ pc[b] # "idle"
      BY LockedSteps DEF Exclusive
    <3>2. ProcessOf[b] = ProcessOf[a]
      BY <1>2, <2>1, <3>1
    <3> QED
      BY <2>1, <3>1, <3>2 DEF Exclusive
  <2>3. \A b \in Actor : pc'[b] = IF b = a THEN "scanning" ELSE pc[b]
    BY <1>1, <2>1
  <2> QED
    BY <2>1, <2>2, <2>3 DEF Exclusive
<1>7. ASSUME NEW a \in Actor, Scan(a)
      PROVE  Exclusive'
  <2> DEFINE step == IF Len(file) > RecoverAt(file) THEN "truncating" ELSE "syncing"
  <2>1. pc[a] = "scanning" /\ pc' = [pc EXCEPT ![a] = step] /\ guard' = guard /\ lock' = lock
    BY <1>7 DEF Scan
  <2>2. "scanning" \in Locked
    BY LockedSteps
  <2> HIDE DEF step
  <2> QED
    BY <2>1, <2>2, MoveExclusive
<1>8. ASSUME NEW p \in Process, Crash(p)
      PROVE  Exclusive'
  <2>1. /\ pc' = [a \in Actor |-> IF a \in {b \in Actor : ProcessOf[b] = p} THEN "idle" ELSE pc[a]]
        /\ guard' = [guard EXCEPT ![p] = Nobody]
        /\ lock' = IF lock = p THEN Nobody ELSE lock
    BY <1>8 DEF Crash, Forgotten
  <2>2. \A b \in Actor : pc'[b] # "idle" => ProcessOf[b] # p /\ pc'[b] = pc[b]
    BY <2>1
  <2>3. \A b \in Actor : pc'[b] # "idle" => guard'[ProcessOf[b]] = guard[ProcessOf[b]]
    BY <1>1, <1>2, <2>1, <2>2
  <2>4. \A b \in Actor : pc'[b] \in Locked => pc'[b] # "idle"
    BY LockedSteps
  <2>5. \A b \in Actor : pc'[b] \in Locked => lock' = ProcessOf[b]
    BY <2>1, <2>2, <2>4 DEF Exclusive
  <2> QED
    BY <2>2, <2>3, <2>5 DEF Exclusive
<1>9. CASE PowerLoss
  <2>1. \A b \in Actor : pc'[b] = "idle"
    BY <1>9 DEF PowerLoss, Forgotten
  <2> QED
    BY <2>1, LockedSteps DEF Exclusive
<1>10. ASSUME NEW a \in Actor,
              \/ OpenExisting(a) \/ Create(a)
              \/ Truncate(a) \/ SyncFile(a) \/ SyncParent(a)
              \/ StartAppend(a) \/ BeginLine(a) \/ EndLine(a)
       PROVE  \E step : GoTo(a, step) /\ pc[a] # "idle" /\ (step \in Locked => pc[a] \in Locked)
  <2>1. CASE OpenExisting(a) \/ Create(a)
    <3>1. GoTo(a, "locking") /\ pc[a] = "opening"
      BY <2>1 DEF OpenExisting, Create
    <3> QED
      BY <3>1, LockedSteps
  <2>2. CASE SyncFile(a)
    BY <2>2, LockedSteps DEF SyncFile
  <2>3. CASE Truncate(a) \/ SyncParent(a) \/ StartAppend(a) \/ BeginLine(a) \/ EndLine(a)
    BY <2>3, LockedSteps DEF Truncate, SyncParent, StartAppend, BeginLine, EndLine
  <2> QED
    BY <1>10, <2>1, <2>2, <2>3
<1>11. ASSUME NEW a \in Actor,
              \/ Missing(a) \/ BusyLock(a) \/ ScanOnly(a) \/ Answer(a)
              \/ TooLarge(a) \/ Acknowledge(a) \/ Fail(a)
       PROVE  pc[a] # "idle" /\ Leave(a)
  BY <1>11 DEF Missing, BusyLock, ScanOnly, Answer, TooLarge, Acknowledge, Fail
<1>12. CASE UNCHANGED vars
  BY <1>12 DEF vars, Exclusive
<1> QED
  BY <1>3, <1>4, <1>5, <1>6, <1>7, <1>8, <1>9, <1>10, <1>11, <1>12 DEF Next

----------------------------------------------------------------------------
(* What an actor knows of the file while it works on it.                   *)

\* An actor without the lock knows nothing.
LEMMA WithoutLock ==
  ASSUME NEW a \in Actor, pc'[a] \notin Locked
  PROVE  ActorInv(a)'
BY LockedSteps DEF ActorInv, Appending

\* An actor whose file nobody touches knows what it knew.
LEMMA Undisturbed ==
  ASSUME NEW a \in Actor, ActorInv(a),
         pc'[a] = pc[a], head'[a] = head[a], request'[a] = request[a],
         file' = file, disk' = disk, linked' = linked
  PROVE  ActorInv(a)'
<1>1. /\ Base(a)' = Base(a) /\ EventOf(a)' = EventOf(a) /\ Appends(a)' = Appends(a)
  BY DEF Base, EventOf, Appends
<1>2. History(a)' = History(a)
  BY <1>1 DEF History
<1> QED
  BY <1>1, <1>2 DEF ActorInv

\* What an actor at work knows, and that it works alone.
LEMMA AtWork ==
  ASSUME TypeOK, Exclusive, JournalInv, NEW a \in Actor, ActorInv(a), pc[a] \in Locked \ {"scanning"}
  PROVE  /\ Base(a) \in Seq(Line) /\ Len(Base(a)) = 2 * Len(head[a])
         /\ Clean(Base(a), head[a])
         /\ Stage(pc[a], Base(a), History(a), file, disk)
         /\ pc[a] \in Appending => Appends(a)
         /\ pc[a] \in Appending \cup {"choosing"} => linked
         /\ \A b \in Actor : b # a => pc[b] \notin Locked
<1>1. Clean(Base(a), head[a]) /\ Stage(pc[a], Base(a), History(a), file, disk)
  BY DEF ActorInv
<1>2. Journal(Base(a)) /\ Len(Base(a)) = RecoverAt(Base(a)) /\ Committed(Base(a)) = head[a]
  BY <1>1 DEF Clean
<1>3. Len(Base(a)) = 2 * Len(head[a])
  BY <1>2, CommittedHistory
<1>4. \A b \in Actor : b # a => pc[b] \notin Locked
  BY OneAtATime DEF OneActorAtATime
<1> QED
  BY <1>1, <1>2, <1>3, <1>4 DEF ActorInv, Journal

\* What an actor at work knows at its next step.
LEMMA NextStage ==
  ASSUME TypeOK, NEW a \in Actor, NEW b, Clean(b, head[a]),
         SubSeq(file', 1, 2 * Len(head[a])) = b,
         NEW step, step \notin {"scanning", "truncating"},
         pc' = [pc EXCEPT ![a] = step], head' = head, request' = request,
         Stage(step, b, History(a), file', disk'),
         step \in Appending \cup {"choosing"} => linked',
         step \in Appending => Appends(a),
         step = "writing_record" => Len(file') + 2 <= MaxLines,
         step \in {"ending_record", "syncing_record", "writing_commit"} => Len(file') + 1 <= MaxLines
  PROVE  ActorInv(a)'
<1>1. pc'[a] = step
  BY DEF TypeOK
<1>2. Base(a)' = b /\ EventOf(a)' = EventOf(a) /\ Appends(a)' = Appends(a)
  BY DEF Base, EventOf, Appends
<1>3. History(a)' = History(a) /\ head'[a] = head[a]
  BY <1>2 DEF History
<1> QED
  BY <1>1, <1>2, <1>3 DEF ActorInv

\* When one actor goes on and the others are without the lock, all know what
\* they should if that one does.
LEMMA OthersWithoutLock ==
  ASSUME TypeOK, NEW a \in Actor, NEW step, pc' = [pc EXCEPT ![a] = step],
         \A b \in Actor : b # a => pc[b] \notin Locked,
         ActorInv(a)'
  PROVE  \A b \in Actor : ActorInv(b)'
<1> SUFFICES ASSUME NEW b \in Actor, b # a
             PROVE  ActorInv(b)'
  OBVIOUS
<1>1. pc'[b] = pc[b]
  BY DEF TypeOK
<1> QED
  BY <1>1, WithoutLock

\* Base finds what the lines were appended to.
LEMMA BaseOf ==
  ASSUME NEW b \in Seq(Line), NEW l \in Line, NEW m \in Line
  PROVE  /\ SubSeq(b, 1, Len(b)) = b
         /\ SubSeq(Append(b, l), 1, Len(b)) = b
         /\ SubSeq(Append(Append(b, l), m), 1, Len(b)) = b
<1> DEFINE n == Len(b)
           c == Append(b, l)
           d == Append(c, m)
<1>1. n \in Nat /\ b \in Seq(Line) /\ \A i \in 1..n : b[i] \in Line
  BY LenProperties, ElementOfSeq
<1>2. c \in Seq(Line) /\ Len(c) = n + 1 /\ \A i \in 1..n : c[i] = b[i]
  BY AppendProperties
<1> HIDE DEF c
<1>3. \A i \in 1..n : d[i] = b[i]
  <2>1. \A i \in 1..(n + 1) : d[i] = c[i]
    BY <1>2, AppendProperties
  <2>2. \A i \in 1..n : i \in 1..(n + 1)
    BY <1>1
  <2> QED
    BY <1>2, <2>1, <2>2
<1> HIDE DEF d, n
<1>4. ASSUME NEW e, \A i \in 1..n : e[i] = b[i]
      PROVE  SubSeq(e, 1, n) = b
  <2>1. \A i \in 1..n : e[i] \in Line
    BY <1>1, <1>4
  <2>2. SubSeq(e, 1, n) \in Seq(Line) /\ Len(SubSeq(e, 1, n)) = n /\ \A i \in 1..n : SubSeq(e, 1, n)[i] = e[i]
    BY <1>1, <2>1, SubSeqProperties
  <2>3. Len(b) = n
    BY DEF n
  <2> QED
    BY <1>1, <1>4, <2>2, <2>3, SeqEqual
<1>5. SubSeq(b, 1, n) = b /\ SubSeq(c, 1, n) = b /\ SubSeq(d, 1, n) = b
  BY <1>2, <1>3, <1>4
<1> QED
  BY <1>5 DEF c, d, n

\* The rest of a line makes it whole.
LEMMA LineEnded ==
  ASSUME NEW b \in Seq(Line), NEW l \in Line, NEW m \in Line
  PROVE  [Append(b, l) EXCEPT ![Len(Append(b, l))] = m] = Append(b, m)
<1> DEFINE n == Len(b)
           c == Append(b, l)
           d == Append(b, m)
           e == [c EXCEPT ![Len(c)] = m]
<1>1. n \in Nat
  BY LenProperties
<1>2. c \in Seq(Line) /\ Len(c) = n + 1 /\ \A i \in 1..n : c[i] = b[i]
  BY AppendProperties
<1>3. d \in Seq(Line) /\ Len(d) = n + 1 /\ d[n + 1] = m /\ \A i \in 1..n : d[i] = b[i]
  BY AppendProperties
<1> HIDE DEF c, d
<1>4. Len(c) \in 1..Len(c)
  BY <1>1, <1>2
<1>5. e \in Seq(Line) /\ Len(e) = Len(c) /\ \A j \in 1..Len(c) : e[j] = IF j = Len(c) THEN m ELSE c[j]
  BY <1>2, <1>4, ExceptSeq
<1> HIDE DEF e, n
<1>6. \A j \in 1..(n + 1) : e[j] = d[j]
  <2> SUFFICES ASSUME NEW j \in 1..(n + 1)
               PROVE  e[j] = d[j]
    OBVIOUS
  <2>1. CASE j = n + 1
    BY <1>2, <1>3, <1>5, <2>1
  <2>2. CASE j # n + 1
    <3>1. j \in 1..n
      BY <1>1, <2>2
    <3> QED
      BY <1>2, <1>3, <1>5, <2>2, <3>1
  <2> QED
    BY <2>1, <2>2
<1>7. e = d
  BY <1>2, <1>3, <1>5, <1>6, SeqEqual
<1> QED
  BY <1>7 DEF c, d, e

----------------------------------------------------------------------------
(* The answers.                                                            *)

\* A prefix agrees with what it is a prefix of.
LEMMA PrefixElements ==
  ASSUME NEW s \in Seq(Event), NEW h \in Seq(Event)
  PROVE  IsPrefix(s, h) <=> Len(s) <= Len(h) /\ \A i \in 1..Len(s) : s[i] = h[i]
<1> DEFINE n == Len(s)
           t == SubSeq(h, 1, n)
<1>1. n \in Nat /\ Len(h) \in Nat
  BY LenProperties
<1>2. SubSeq(s, 1, Len(s)) = s
  BY SubSeqFull
<1>3. ASSUME n <= Len(h)
      PROVE  t \in Seq(Event) /\ Len(t) = n /\ \A i \in 1..n : t[i] = h[i]
  <2>1. \A i \in 1..n : i \in 1..Len(h)
    BY <1>1, <1>3
  <2>2. \A i \in 1..n : h[i] \in Event
    BY <2>1, ElementOfSeq
  <2> QED
    BY <1>1, <2>2, SubSeqProperties
<1> HIDE DEF t
<1>4. ASSUME n <= Len(h), \A i \in 1..n : s[i] = h[i]
      PROVE  s = t
  BY <1>3, <1>4, SeqEqual
<1> QED
  BY <1>2, <1>3, <1>4 DEF IsPrefix, t

\* A prefix stays one when an event follows.
LEMMA PrefixFollows ==
  ASSUME NEW s \in Seq(Event), NEW g \in Seq(Event), NEW h \in Seq(Event),
         IsPrefix(s, g), h = g \/ FollowsFrom(g, h)
  PROVE  IsPrefix(s, h)
<1>1. CASE h = g
  BY <1>1
<1>2. CASE FollowsFrom(g, h)
  <2>1. Len(s) <= Len(g) /\ \A i \in 1..Len(s) : s[i] = g[i]
    BY PrefixElements
  <2>2. Len(h) = Len(g) + 1 /\ \A i \in 1..Len(g) : h[i] = g[i]
    BY <1>2, FollowingHistory
  <2>3. Len(s) \in Nat /\ Len(g) \in Nat
    BY LenProperties
  <2>4. \A i \in 1..Len(s) : i \in 1..Len(g)
    BY <2>1, <2>3
  <2>5. Len(s) <= Len(h)
    BY <2>1, <2>2, <2>3
  <2> QED
    BY <2>1, <2>2, <2>4, <2>5, PrefixElements
<1> QED
  BY <1>1, <1>2

\* What happened stays so.
LEMMA HappenedStays ==
  ASSUME NEW s \in Seq(Event), NEW h \in Seq(Event), IsPrefix(s, h),
         NEW kind, NEW p, Happened(s, kind, p)
  PROVE  Happened(h, kind, p)
<1>1. PICK i \in DOMAIN s : s[i].kind = kind /\ s[i].proposal = p
  BY DEF Happened
<1>2. i \in 1..Len(s)
  BY LenProperties
<1>3. Len(s) \in Nat /\ Len(h) \in Nat /\ Len(s) <= Len(h) /\ s[i] = h[i]
  BY <1>2, PrefixElements, LenProperties
<1>4. i \in 1..Len(h)
  BY <1>2, <1>3
<1>5. i \in DOMAIN h
  BY <1>4, LenProperties
<1> QED
  BY <1>1, <1>3, <1>5 DEF Happened

\* Answers stay good while what is durable stays or gains an event.
LEMMA AnswersStay ==
  ASSUME TypeOK, JournalInv, Answers, told' = told, deliveries' = deliveries,
         Journal(disk'),
         \/ Committed(disk') = Committed(disk)
         \/ FollowsFrom(Committed(disk), Committed(disk'))
  PROVE  Answers'
<1>1. told \in Seq(Event) /\ Committed(disk) \in Seq(Event) /\ Committed(disk') \in Seq(Event)
  BY CommittedHistory DEF TypeOK, JournalInv
<1>2. IsPrefix(told, Committed(disk'))
  BY <1>1, PrefixFollows DEF Answers
<1> QED
  BY <1>2 DEF Answers

----------------------------------------------------------------------------
(* The steps that write nothing.                                           *)

\* An actor that moves without the file keeps all that is known of it.
LEMMA QuietStep ==
  ASSUME TypeOK, JournalInv, \A b \in Actor : ActorInv(b),
         NEW a \in Actor, NEW step, step \notin Locked \ {"scanning"},
         pc' = [pc EXCEPT ![a] = step],
         \A b \in Actor : b # a => head'[b] = head[b] /\ request'[b] = request[b],
         exists => exists', step \in Locked \cup {"locking"} => exists',
         linked' = linked, file' = file, disk' = disk
  PROVE  JournalInv' /\ \A b \in Actor : ActorInv(b)'
<1>1. \A b \in Actor : pc'[b] = IF b = a THEN step ELSE pc[b]
  BY DEF TypeOK
<1>2. \A b \in Actor : pc'[b] \in Locked \cup {"locking"} => exists'
  BY <1>1 DEF JournalInv
<1>3. JournalInv'
  BY <1>2 DEF JournalInv
<1>4. ActorInv(a)'
  <2>1. pc'[a] \notin Locked \/ pc'[a] = "scanning"
    BY <1>1
  <2> QED
    BY <2>1, LockedSteps DEF ActorInv, Appending
<1>5. \A b \in Actor : b # a => ActorInv(b)'
  BY <1>1, Undisturbed
<1> QED
  BY <1>3, <1>4, <1>5

\* An actor that leaves takes nothing of the file with it.
LEMMA LeaveStep ==
  ASSUME TypeOK, Exclusive, JournalInv, \A b \in Actor : ActorInv(b),
         NEW a \in Actor, pc[a] # "idle", Leave(a), UNCHANGED journal
  PROVE  JournalInv' /\ \A b \in Actor : ActorInv(b)'
<1>1. /\ pc' = [pc EXCEPT ![a] = "idle"]
      /\ request' = [request EXCEPT ![a] = NoRequest]
      /\ head' = [head EXCEPT ![a] = <<>>]
  BY DEF Leave
<1>2. \A b \in Actor : b # a => head'[b] = head[b] /\ request'[b] = request[b]
  BY <1>1 DEF TypeOK
<1>3. "idle" \notin Locked \cup {"locking"}
  BY LockedSteps
<1>4. exists' = exists /\ linked' = linked /\ file' = file /\ disk' = disk
  BY DEF journal
<1> QED
  BY <1>1, <1>2, <1>3, <1>4, QuietStep

\* The steps before the lock, and those that leave, keep the invariant.
LEMMA EnterStep ==
  ASSUME IInv, NEW a \in Actor,
         \/ \E r \in Request : Call(a, r)
         \/ OpenExisting(a) \/ Create(a) \/ TakeLock(a)
  PROVE  JournalInv' /\ (\A b \in Actor : ActorInv(b)') /\ Answers'
<1>0. /\ TypeOK /\ Exclusive /\ JournalInv /\ \A b \in Actor : ActorInv(b)
      /\ Answers
  BY DEF IInv
<1>1. "opening" \notin Locked \cup {"locking"} /\ "locking" \notin Locked /\ "scanning" \in Locked
  BY LockedSteps
<1>2. Answers'
  BY <1>0 DEF Call, OpenExisting, Create, TakeLock, journal, answers, Answers
<1>3. ASSUME NEW r \in Request, Call(a, r)
      PROVE  JournalInv' /\ \A b \in Actor : ActorInv(b)'
  <2>1. /\ pc' = [pc EXCEPT ![a] = "opening"] /\ request' = [request EXCEPT ![a] = r] /\ head' = head
        /\ exists' = exists /\ linked' = linked /\ file' = file /\ disk' = disk
    BY <1>3 DEF Call, journal
  <2>2. \A b \in Actor : b # a => head'[b] = head[b] /\ request'[b] = request[b]
    BY <1>0, <2>1 DEF TypeOK
  <2> QED
    BY <1>0, <1>1, <2>1, <2>2, QuietStep
<1>4. CASE OpenExisting(a)
  <2>1. /\ pc' = [pc EXCEPT ![a] = "locking"] /\ request' = request /\ head' = head
        /\ exists' = exists /\ exists /\ linked' = linked /\ file' = file /\ disk' = disk
    BY <1>4 DEF OpenExisting, GoTo, journal
  <2> QED
    BY <1>0, <1>1, <1>2, <2>1, QuietStep
<1>5. CASE Create(a)
  <2>1. /\ pc' = [pc EXCEPT ![a] = "locking"] /\ request' = request /\ head' = head
        /\ exists' /\ linked' = linked /\ file' = file /\ disk' = disk
    BY <1>5 DEF Create, GoTo
  <2> QED
    BY <1>0, <1>1, <1>2, <2>1, QuietStep
<1>6. CASE TakeLock(a)
  <2>1. /\ pc[a] = "locking" /\ pc' = [pc EXCEPT ![a] = "scanning"] /\ request' = request /\ head' = head
        /\ exists' = exists /\ linked' = linked /\ file' = file /\ disk' = disk
    BY <1>6 DEF TakeLock, journal
  <2>2. exists
    BY <1>0, <2>1 DEF JournalInv
  <2> QED
    BY <1>0, <1>1, <1>2, <2>1, <2>2, QuietStep
<1> QED
  BY <1>2, <1>3, <1>4, <1>5, <1>6

\* An actor that only leaves keeps the invariant.
LEMMA OnlyLeave ==
  ASSUME IInv, NEW a \in Actor,
         \/ Missing(a) \/ BusyLock(a) \/ ScanOnly(a) \/ TooLarge(a) \/ Fail(a)
  PROVE  JournalInv' /\ (\A b \in Actor : ActorInv(b)') /\ Answers'
<1>1. pc[a] # "idle" /\ Leave(a) /\ UNCHANGED journal /\ UNCHANGED answers
  BY DEF Missing, BusyLock, ScanOnly, TooLarge, Fail
<1>2. Answers'
  BY <1>1 DEF IInv, answers, journal, Answers
<1> QED
  BY <1>1, <1>2, LeaveStep DEF IInv

\* An answer without an append rests on what the barrier made durable.
LEMMA AnswerStep ==
  ASSUME IInv, NEW a \in Actor, Answer(a)
  PROVE  JournalInv' /\ (\A b \in Actor : ActorInv(b)') /\ Answers'
<1>0. TypeOK /\ Exclusive /\ JournalInv /\ ActorInv(a) /\ Answers
  BY DEF IInv
<1>1. /\ pc[a] = "choosing" /\ pc[a] # "idle" /\ Leave(a) /\ UNCHANGED journal
      /\ told' = head[a] /\ deliveries' = deliveries /\ disk' = disk
  BY DEF Answer, journal
<1>2. JournalInv' /\ \A b \in Actor : ActorInv(b)'
  BY <1>1, LeaveStep DEF IInv
<1>3. Clean(Base(a), head[a]) /\ disk = Base(a)
  BY <1>0, <1>1, AtWork, LockedSteps DEF Stage
<1>4. Committed(disk) = head[a]
  BY <1>3 DEF Clean
<1>5. head[a] \in Seq(Event) /\ told \in Seq(Event)
  BY <1>0 DEF TypeOK
<1>6. IsPrefix(told', Committed(disk'))
  <2>1. Len(head[a]) \in Nat
    BY <1>5, LenProperties
  <2> QED
    BY <1>1, <1>4, <2>1 DEF IsPrefix
<1>7. IsPrefix(told, head[a])
  BY <1>0, <1>4 DEF Answers
<1>8. \A i \in DOMAIN deliveries : Happened(head[a], "Consume", deliveries[i].proposal)
  BY <1>0, <1>5, <1>7, HappenedStays DEF Answers
<1> QED
  BY <1>1, <1>2, <1>6, <1>8 DEF Answers

\* What was appended is durable before it is acknowledged.
LEMMA Acknowledged ==
  ASSUME IInv, NEW a \in Actor, Acknowledge(a)
  PROVE  /\ Appends(a) /\ linked
         /\ Committed(disk) = History(a)
         /\ FollowsFrom(head[a], History(a))
         /\ IsPrefix(told, History(a))
<1>0. TypeOK /\ Exclusive /\ JournalInv /\ ActorInv(a) /\ Answers
  BY DEF IInv
<1>1. pc[a] = "acknowledging"
  BY DEF Acknowledge
<1>2. /\ Clean(Base(a), head[a]) /\ Appends(a) /\ linked
      /\ disk = Append(Append(Base(a), Record(History(a))), Commit(History(a)))
  BY <1>0, <1>1, AtWork, LockedSteps DEF Stage, Appending
<1>3. History(a) \in Seq(Event) /\ FollowsFrom(head[a], History(a))
  BY <1>0, <1>2, NextEvent
<1>4. Committed(disk) = History(a)
  BY <1>2, <1>3, AppendTransaction DEF Clean
<1> QED
  BY <1>0, <1>2, <1>3, <1>4 DEF Answers

\* Acknowledging keeps the invariant.
LEMMA AcknowledgeStep ==
  ASSUME IInv, NEW a \in Actor, Acknowledge(a)
  PROVE  JournalInv' /\ (\A b \in Actor : ActorInv(b)') /\ Answers'
<1>0. TypeOK /\ Exclusive /\ JournalInv /\ ActorInv(a) /\ Answers
  BY DEF IInv
<1> DEFINE h == History(a)
           e == EventOf(a)
<1>1. /\ pc[a] # "idle" /\ Leave(a) /\ UNCHANGED journal /\ disk' = disk
      /\ told' = h
      /\ deliveries' = IF request[a].op = "consume"
                       THEN Append(deliveries, [proposal |-> request[a].proposal, decision |-> e.value])
                       ELSE deliveries
  BY DEF Acknowledge, journal
<1>2. JournalInv' /\ \A b \in Actor : ActorInv(b)'
  BY <1>1, LeaveStep DEF IInv
<1>3. Appends(a) /\ Committed(disk) = h /\ IsPrefix(told, h)
  BY Acknowledged
<1>4. /\ h \in Seq(Event) /\ told \in Seq(Event)
      /\ Len(h) = Len(head[a]) + 1 /\ h[Len(head[a]) + 1] = e
      /\ request[a].op = "consume" => e.kind = "Consume" /\ e.proposal = request[a].proposal
  BY <1>0, <1>3, NextEvent DEF TypeOK
<1>5. Len(head[a]) \in Nat /\ Len(h) \in Nat
  BY <1>0, <1>4, LenProperties DEF TypeOK
<1>6. IsPrefix(told', Committed(disk'))
  BY <1>1, <1>3, <1>5 DEF IsPrefix
<1>7. \A i \in DOMAIN deliveries : Happened(h, "Consume", deliveries[i].proposal)
  BY <1>0, <1>3, <1>4, HappenedStays DEF Answers
<1>8. request[a].op = "consume" => Happened(h, "Consume", request[a].proposal)
  <2>1. Len(head[a]) + 1 \in 1..Len(h)
    BY <1>4, <1>5
  <2>2. Len(head[a]) + 1 \in DOMAIN h
    BY <1>4, <2>1, LenProperties
  <2> QED
    BY <1>4, <2>2 DEF Happened
<1>9. \A i \in DOMAIN deliveries' : Happened(told', "Consume", deliveries'[i].proposal)
  <2>1. CASE request[a].op # "consume"
    BY <1>1, <1>7, <2>1
  <2>2. CASE request[a].op = "consume"
    <3> DEFINE x == [proposal |-> request[a].proposal, decision |-> e.value]
               S == [proposal : Proposal, decision : Decision]
    <3>1. x \in S
      <4>1. e \in Event
        BY <1>0, <1>3, NextEvent
      <4> QED
        BY <1>4, <2>2, <4>1 DEF Event
    <3>2. deliveries \in Seq(S)
      BY <1>0 DEF TypeOK
    <3>3. deliveries' = Append(deliveries, x) /\ x.proposal = request[a].proposal
      BY <1>1, <2>2
    <3> HIDE DEF x, S, h, e
    <3>4. /\ deliveries' \in Seq(S) /\ Len(deliveries') = Len(deliveries) + 1
          /\ \A i \in 1..Len(deliveries) : deliveries'[i] = deliveries[i]
          /\ deliveries'[Len(deliveries) + 1] = x
      BY <3>1, <3>2, <3>3, AppendProperties
    <3>5. Len(deliveries) \in Nat
      BY <3>2, LenProperties
    <3> SUFFICES ASSUME NEW i \in DOMAIN deliveries'
                 PROVE  Happened(h, "Consume", deliveries'[i].proposal)
      BY <1>1
    <3>6. i \in 1..(Len(deliveries) + 1)
      BY <3>4, LenProperties
    <3>7. CASE i = Len(deliveries) + 1
      BY <1>8, <2>2, <3>3, <3>4, <3>7
    <3>8. CASE i # Len(deliveries) + 1
      <4>1. i \in 1..Len(deliveries)
        BY <3>5, <3>6, <3>8
      <4>2. i \in DOMAIN deliveries
        BY <3>2, <4>1, LenProperties
      <4> QED
        BY <1>7, <3>4, <4>1, <4>2
    <3> QED
      BY <3>7, <3>8
  <2> QED
    BY <2>1, <2>2
<1> QED
  BY <1>2, <1>6, <1>9 DEF Answers

----------------------------------------------------------------------------
(* The steps on the file.                                                  *)

\* A scan finds the committed history and whether there is a tail.
LEMMA ScanStep ==
  ASSUME IInv, NEW a \in Actor, Scan(a)
  PROVE  JournalInv' /\ (\A b \in Actor : ActorInv(b)') /\ Answers'
<1>0. TypeOK /\ Exclusive /\ JournalInv /\ Answers
  BY DEF IInv
<1> DEFINE step == IF Len(file) > RecoverAt(file) THEN "truncating" ELSE "syncing"
<1>1. /\ pc[a] = "scanning" /\ pc' = [pc EXCEPT ![a] = step]
      /\ head' = [head EXCEPT ![a] = Committed(file)]
      /\ exists' = exists /\ linked' = linked /\ file' = file /\ disk' = disk
      /\ told' = told /\ deliveries' = deliveries
  BY DEF Scan, journal, answers
<1>2. pc[a] \in Locked
  BY <1>1, LockedSteps
<1>3. \A b \in Actor : b # a => pc[b] \notin Locked
  BY <1>0, <1>2, OneAtATime DEF OneActorAtATime
<1>4. pc'[a] = step /\ head'[a] = Committed(file) /\ \A b \in Actor : b # a => pc'[b] = pc[b]
  BY <1>0, <1>1 DEF TypeOK
<1>5. Answers'
  BY <1>0, <1>1 DEF Answers
<1>6. exists
  BY <1>0, <1>2 DEF JournalInv
<1>7. JournalInv'
  BY <1>0, <1>1, <1>6 DEF JournalInv
<1>8. Journal(file) /\ RecoverAt(file) = 2 * Len(Committed(file)) /\ RecoverAt(file) \in 0..Len(file)
  BY <1>0, CommittedHistory DEF JournalInv
<1>9. Base(a)' = SubSeq(file, 1, RecoverAt(file))
  BY <1>1, <1>4, <1>8 DEF Base
<1>10. Clean(Base(a)', head'[a])
  BY <1>4, <1>8, <1>9, TruncatedIsClean
<1>11. step = "syncing" => Base(a)' = file
  <2> SUFFICES ASSUME step = "syncing"
               PROVE  Base(a)' = file
    OBVIOUS
  <2>1. file \in Seq(Line)
    BY <1>8 DEF Journal
  <2>2. RecoverAt(file) = Len(file)
    BY <1>8, <2>1, LenProperties
  <2> QED
    BY <1>9, <2>1, <2>2, SubSeqFull
<1>12. Stage(step, Base(a)', History(a)', file, disk)
  BY <1>11 DEF Stage
<1>13. ActorInv(a)'
  <2>1. step \in {"truncating", "syncing"} /\ step \notin Appending \cup {"choosing"}
    BY DEF Appending
  <2> HIDE DEF step
  <2> QED
    BY <1>1, <1>4, <1>10, <1>12, <2>1 DEF ActorInv, Appending
<1>14. \A b \in Actor : ActorInv(b)'
  <2> HIDE DEF step
  <2> QED
    BY <1>0, <1>1, <1>3, <1>13, OthersWithoutLock
<1> QED
  BY <1>5, <1>7, <1>14

\* Truncating leaves the committed lines, and what is durable still a journal
\* whose committed lines these are.
LEMMA TruncateStep ==
  ASSUME IInv, NEW a \in Actor, Truncate(a)
  PROVE  JournalInv' /\ (\A b \in Actor : ActorInv(b)') /\ Answers'
<1>0. TypeOK /\ Exclusive /\ JournalInv /\ Answers /\ ActorInv(a)
  BY DEF IInv
<1>1. /\ pc[a] = "truncating" /\ pc' = [pc EXCEPT ![a] = "syncing_truncation"]
      /\ file' = SubSeq(file, 1, 2 * Len(head[a]))
      /\ head' = head /\ request' = request
      /\ exists' = exists /\ linked' = linked /\ disk' = disk
      /\ told' = told /\ deliveries' = deliveries
  BY DEF Truncate, GoTo, answers
<1>2. /\ Base(a) \in Seq(Line) /\ Len(Base(a)) = 2 * Len(head[a]) /\ Clean(Base(a), head[a])
      /\ \A b \in Actor : b # a => pc[b] \notin Locked
  BY <1>0, <1>1, AtWork, LockedSteps
<1>3. file' = Base(a)
  BY <1>1 DEF Base
<1>4. head[a] = Committed(file)
  BY <1>0, <1>1 DEF ActorInv
<1>5. /\ Journal(file) /\ Journal(disk) /\ Follows(disk, file)
      /\ RecoverAt(file) = 2 * Len(head[a]) /\ RecoverAt(file) \in 0..Len(file)
  BY <1>0, <1>4, CommittedHistory DEF JournalInv
<1>6. Follows(disk', file')
  BY <1>1, <1>5, FollowsTruncated
<1>7. Journal(file') /\ Len(file') <= MaxLines /\ (~linked => file' = <<>>)
  <2>1. Journal(file')
    BY <1>2, <1>3 DEF Clean
  <2>2. Len(file') = RecoverAt(file) /\ Len(file) \in Nat /\ Len(file) <= MaxLines
    BY <1>0, <1>2, <1>3, <1>5, LenProperties DEF JournalInv, Journal
  <2>3. Len(file') <= MaxLines
    BY <1>5, <2>2, MaxLinesAssumption
  <2>4. ASSUME ~linked
        PROVE  file' = <<>>
    <3>1. Len(file) = 0
      BY <1>0, <2>4 DEF JournalInv
    <3>2. Len(file') = 0
      BY <1>5, <2>2, <3>1
    <3> QED
      BY <2>1, <3>2 DEF Journal
  <2> QED
    BY <2>1, <2>3, <2>4
<1>8. exists
  BY <1>0, <1>1, LockedSteps DEF JournalInv
<1>9. JournalInv'
  BY <1>0, <1>1, <1>6, <1>7, <1>8 DEF JournalInv
<1>10. Answers'
  BY <1>0, <1>1 DEF Answers
<1>11. ActorInv(a)'
  <2>1. SubSeq(file', 1, 2 * Len(head[a])) = Base(a)
    BY <1>2, <1>3, SubSeqFull
  <2>2. Stage("syncing_truncation", Base(a), History(a), file', disk')
    BY <1>3 DEF Stage
  <2>3. "syncing_truncation" \notin Appending \cup {"choosing"}
    BY DEF Appending
  <2> QED
    BY <1>0, <1>1, <1>2, <2>1, <2>2, <2>3, NextStage
<1>12. \A b \in Actor : ActorInv(b)'
  BY <1>0, <1>1, <1>2, <1>11, OthersWithoutLock
<1> QED
  BY <1>9, <1>10, <1>12

\* What is synced is what is seen.
LEMMA SyncFileStep ==
  ASSUME IInv, NEW a \in Actor, SyncFile(a)
  PROVE  JournalInv' /\ (\A b \in Actor : ActorInv(b)') /\ Answers'
<1>0. TypeOK /\ Exclusive /\ JournalInv /\ Answers /\ ActorInv(a)
  BY DEF IInv
<1> DEFINE step == AfterSync[pc[a]]
           b == Base(a)
           h == History(a)
<1>1. /\ pc[a] \in DOMAIN AfterSync /\ pc' = [pc EXCEPT ![a] = step]
      /\ disk' = file /\ file' = file
      /\ head' = head /\ request' = request
      /\ exists' = exists /\ linked' = linked
      /\ told' = told /\ deliveries' = deliveries
  BY DEF SyncFile, GoTo, answers
<1>2. /\ b \in Seq(Line) /\ Len(b) = 2 * Len(head[a]) /\ Clean(b, head[a])
      /\ Stage(pc[a], b, h, file, disk)
      /\ pc[a] \in Appending => Appends(a)
      /\ pc[a] \in Appending \cup {"choosing"} => linked
      /\ \A c \in Actor : c # a => pc[c] \notin Locked
  BY <1>0, <1>1, AtWork, LockedSteps
<1>3. exists
  BY <1>0, <1>1, LockedSteps DEF JournalInv
<1>4. JournalInv'
  BY <1>0, <1>1, <1>3 DEF JournalInv, Follows
<1>5. Answers'
  <2>1. Journal(file) /\ Journal(disk) /\ Follows(disk, file)
    BY <1>0 DEF JournalInv
  <2> QED
    BY <1>0, <1>1, <2>1, FollowsCommitted, AnswersStay
<1>6. \/ pc[a] = "syncing_truncation" /\ step = "syncing"
      \/ pc[a] = "syncing" /\ step = "syncing_directory"
      \/ pc[a] = "syncing_record" /\ step = "writing_commit"
      \/ pc[a] = "syncing_commit" /\ step = "resyncing"
      \/ pc[a] = "resyncing" /\ step = "resyncing_directory"
  BY <1>1 DEF AfterSync
<1>7. Base(a)' = b
  BY <1>1 DEF Base
<1> HIDE DEF step
<1>8. Stage(step, b, h, file', disk')
  BY <1>1, <1>2, <1>6 DEF Stage
<1>9. /\ step \notin {"scanning", "truncating", "choosing", "writing_record"}
      /\ step \in Appending => pc[a] \in Appending
      /\ step \in {"ending_record", "syncing_record", "writing_commit"} => pc[a] = "syncing_record"
  BY <1>6 DEF Appending
<1>10. pc[a] = "syncing_record" => Len(file) + 1 <= MaxLines
  BY <1>0 DEF ActorInv
<1>11. ActorInv(a)'
  BY <1>0, <1>1, <1>2, <1>7, <1>8, <1>9, <1>10, NextStage DEF Base
<1>12. \A c \in Actor : ActorInv(c)'
  BY <1>0, <1>1, <1>2, <1>11, OthersWithoutLock
<1> QED
  BY <1>4, <1>5, <1>12

\* The directory entry is durable once the parent is synced.
LEMMA SyncParentStep ==
  ASSUME IInv, NEW a \in Actor, SyncParent(a)
  PROVE  JournalInv' /\ (\A b \in Actor : ActorInv(b)') /\ Answers'
<1>0. TypeOK /\ Exclusive /\ JournalInv /\ Answers /\ ActorInv(a)
  BY DEF IInv
<1> DEFINE step == IF pc[a] = "syncing_directory" THEN "choosing" ELSE "acknowledging"
           b == Base(a)
           h == History(a)
<1>1. /\ pc[a] \in {"syncing_directory", "resyncing_directory"} /\ pc' = [pc EXCEPT ![a] = step]
      /\ disk' = disk /\ file' = file
      /\ head' = head /\ request' = request
      /\ exists' = exists /\ linked' = TRUE
      /\ told' = told /\ deliveries' = deliveries
  BY DEF SyncParent, GoTo, answers
<1>2. /\ b \in Seq(Line) /\ Len(b) = 2 * Len(head[a]) /\ Clean(b, head[a])
      /\ Stage(pc[a], b, h, file, disk)
      /\ pc[a] \in Appending => Appends(a)
      /\ \A c \in Actor : c # a => pc[c] \notin Locked
  BY <1>0, <1>1, AtWork, LockedSteps
<1>3. exists
  BY <1>0, <1>1, LockedSteps DEF JournalInv
<1>4. JournalInv'
  BY <1>0, <1>1, <1>3 DEF JournalInv
<1>5. Answers'
  BY <1>0, <1>1 DEF Answers
<1>6. \/ pc[a] = "syncing_directory" /\ step = "choosing"
      \/ pc[a] = "resyncing_directory" /\ step = "acknowledging"
  BY <1>1
<1>7. Base(a)' = b
  BY <1>1 DEF Base
<1> HIDE DEF step
<1>8. Stage(step, b, h, file', disk')
  BY <1>1, <1>2, <1>6 DEF Stage
<1>9. /\ step \notin {"scanning", "truncating", "writing_record", "ending_record", "syncing_record",
                      "writing_commit"}
      /\ step \in Appending => pc[a] \in Appending
  BY <1>6 DEF Appending
<1>10. ActorInv(a)'
  BY <1>0, <1>1, <1>2, <1>7, <1>8, <1>9, NextStage DEF Base
<1>11. \A c \in Actor : ActorInv(c)'
  BY <1>0, <1>1, <1>2, <1>10, OthersWithoutLock
<1> QED
  BY <1>4, <1>5, <1>11

\* An append starts where the journal has room for two lines.
LEMMA StartAppendStep ==
  ASSUME IInv, NEW a \in Actor, StartAppend(a)
  PROVE  JournalInv' /\ (\A b \in Actor : ActorInv(b)') /\ Answers'
<1>0. TypeOK /\ Exclusive /\ JournalInv /\ Answers /\ ActorInv(a)
  BY DEF IInv
<1> DEFINE b == Base(a)
           h == History(a)
<1>1. /\ pc[a] = "choosing" /\ pc' = [pc EXCEPT ![a] = "writing_record"]
      /\ Appends(a) /\ Len(file) + 2 <= MaxLines
      /\ disk' = disk /\ file' = file
      /\ head' = head /\ request' = request
      /\ exists' = exists /\ linked' = linked
      /\ told' = told /\ deliveries' = deliveries
  BY DEF StartAppend, GoTo, answers, journal
<1>2. /\ b \in Seq(Line) /\ Len(b) = 2 * Len(head[a]) /\ Clean(b, head[a])
      /\ Stage(pc[a], b, h, file, disk)
      /\ linked
      /\ \A c \in Actor : c # a => pc[c] \notin Locked
  BY <1>0, <1>1, AtWork, LockedSteps
<1>3. exists
  BY <1>0, <1>1, LockedSteps DEF JournalInv
<1>4. JournalInv'
  BY <1>0, <1>1, <1>3 DEF JournalInv
<1>5. Answers'
  BY <1>0, <1>1 DEF Answers
<1>6. Stage("writing_record", b, h, file', disk')
  BY <1>1, <1>2 DEF Stage
<1>7. SubSeq(file', 1, 2 * Len(head[a])) = b
  BY <1>1 DEF Base
<1>8. ActorInv(a)'
  BY <1>0, <1>1, <1>2, <1>6, <1>7, NextStage
<1>9. \A c \in Actor : ActorInv(c)'
  BY <1>0, <1>1, <1>2, <1>8, OthersWithoutLock
<1> QED
  BY <1>4, <1>5, <1>9

\* Writing at the end of the durable lines.
LEMMA WriteStep ==
  ASSUME IInv, NEW a \in Actor, pc[a] \in Appending, pc[a] \in Locked \ {"scanning"},
         NEW step, step \in {"ending_record", "syncing_record", "ending_commit", "syncing_commit"},
         GoTo(a, step), UNCHANGED <<exists, linked, disk, answers>>,
         Journal(file'), Len(file') = Len(disk) + 1, SubSeq(file', 1, Len(disk)) = disk,
         SubSeq(file', 1, 2 * Len(head[a])) = Base(a),
         Stage(step, Base(a), History(a), file', disk),
         Len(file') <= MaxLines,
         step \in {"ending_record", "syncing_record"} => Len(file') + 1 <= MaxLines
  PROVE  JournalInv' /\ (\A b \in Actor : ActorInv(b)') /\ Answers'
<1>0. TypeOK /\ Exclusive /\ JournalInv /\ Answers /\ ActorInv(a)
  BY DEF IInv
<1>1. /\ pc' = [pc EXCEPT ![a] = step] /\ head' = head /\ request' = request
      /\ exists' = exists /\ linked' = linked /\ disk' = disk
      /\ told' = told /\ deliveries' = deliveries
  BY DEF GoTo, answers
<1>2. /\ Clean(Base(a), head[a]) /\ Appends(a) /\ linked
      /\ \A c \in Actor : c # a => pc[c] \notin Locked
  BY <1>0, AtWork
<1>3. exists
  BY <1>0 DEF JournalInv
<1>4. JournalInv'
  BY <1>0, <1>1, <1>2, <1>3 DEF JournalInv, Follows
<1>5. Answers'
  BY <1>0, <1>1 DEF Answers
<1>6. ActorInv(a)'
  <2>1. Stage(step, Base(a), History(a), file', disk')
    BY <1>1
  <2>2. /\ step \notin {"scanning", "truncating"} /\ step # "writing_record"
        /\ step \in {"ending_record", "syncing_record", "writing_commit"} => Len(file') + 1 <= MaxLines
    OBVIOUS
  <2>3. linked'
    BY <1>1, <1>2
  <2> QED
    BY <1>0, <1>1, <1>2, <2>1, <2>2, <2>3, NextStage
<1>7. \A c \in Actor : ActorInv(c)'
  BY <1>0, <1>1, <1>2, <1>6, OthersWithoutLock
<1> QED
  BY <1>4, <1>5, <1>7

\* Part of a line, and the rest of it, are written behind what is durable.
LEMMA LineStep ==
  ASSUME IInv, NEW a \in Actor, BeginLine(a) \/ EndLine(a)
  PROVE  JournalInv' /\ (\A b \in Actor : ActorInv(b)') /\ Answers'
<1>0. TypeOK /\ Exclusive /\ JournalInv /\ Answers /\ ActorInv(a)
  BY DEF IInv
<1> DEFINE b == Base(a)
           h == History(a)
           r == Record(h)
           c == Commit(h)
<1>1. pc[a] \in {"writing_record", "writing_commit", "ending_record", "ending_commit"}
  BY DEF BeginLine, EndLine
<1>2. pc[a] \in Appending /\ pc[a] \in Locked \ {"scanning"}
  BY <1>1, LockedSteps DEF Appending
<1>3. /\ b \in Seq(Line) /\ Len(b) = 2 * Len(head[a]) /\ Clean(b, head[a])
      /\ Stage(pc[a], b, h, file, disk) /\ Appends(a)
  BY <1>0, <1>2, AtWork
<1>4. h \in Seq(Event) /\ FollowsFrom(head[a], h)
  BY <1>0, <1>3, NextEvent
<1>5. r \in Line /\ c \in Line /\ Torn(r) \in Line /\ Torn(c) \in Line
  BY <1>4, LinesOf, TornLine
<1>6. /\ \A line \in {r, Torn(r)} : Journal(Append(b, line)) /\ Len(Append(b, line)) = Len(b) + 1
      /\ \A line \in {c, Torn(c)} : /\ Journal(Append(Append(b, r), line))
                                    /\ Len(Append(Append(b, r), line)) = Len(b) + 2
  BY <1>3, <1>4, AppendTransaction
<1>7. Len(file) \in Nat /\ Len(b) \in Nat /\ MaxLines \in Nat /\ Len(file) <= MaxLines
  BY <1>0, <1>3, LenProperties, MaxLinesAssumption DEF JournalInv, Journal
<1>8. UNCHANGED <<exists, linked, disk, answers>>
  BY DEF BeginLine, EndLine
<1>9. CASE pc[a] = "writing_record"
  <2>1. file' = Append(file, Torn(r)) /\ GoTo(a, "ending_record")
    BY <1>9 DEF BeginLine, EndLine, LineOf
  <2>2. file = b /\ disk = b
    BY <1>3, <1>9 DEF Stage
  <2>3. Journal(file') /\ Len(file') = Len(disk) + 1
    BY <1>6, <2>1, <2>2
  <2>4. SubSeq(file', 1, Len(disk)) = disk /\ SubSeq(file', 1, 2 * Len(head[a])) = b
    BY <1>3, <1>5, <2>1, <2>2, BaseOf
  <2>5. Stage("ending_record", b, h, file', disk)
    BY <2>1, <2>2 DEF Stage
  <2>6. Len(file) + 2 <= MaxLines
    BY <1>0, <1>9 DEF ActorInv
  <2>7. Len(file') <= MaxLines /\ Len(file') + 1 <= MaxLines
    <3>1. Len(file') = Len(file) + 1
      BY <2>2, <2>3
    <3> QED
      BY <1>7, <2>6, <3>1
  <2> QED
    BY <1>2, <1>8, <2>1, <2>3, <2>4, <2>5, <2>7, WriteStep
<1>10. CASE pc[a] = "ending_record"
  <2>1. file' = [file EXCEPT ![Len(file)] = r] /\ GoTo(a, "syncing_record")
    BY <1>10 DEF BeginLine, EndLine, LineOf
  <2>2. disk = b /\ file = Append(b, Torn(r))
    BY <1>3, <1>10 DEF Stage
  <2>3. file' = Append(b, r)
    BY <1>3, <1>5, <2>1, <2>2, LineEnded
  <2>4. Journal(file') /\ Len(file') = Len(disk) + 1 /\ Len(file') = Len(file)
    BY <1>6, <2>2, <2>3
  <2>5. SubSeq(file', 1, Len(disk)) = disk /\ SubSeq(file', 1, 2 * Len(head[a])) = b
    BY <1>3, <1>5, <2>2, <2>3, BaseOf
  <2>6. Stage("syncing_record", b, h, file', disk)
    BY <2>2, <2>3 DEF Stage
  <2>7. Len(file') <= MaxLines /\ Len(file') + 1 <= MaxLines
    BY <1>0, <1>7, <1>10, <2>4 DEF ActorInv
  <2> QED
    BY <1>2, <1>8, <2>1, <2>4, <2>5, <2>6, <2>7, WriteStep
<1>11. CASE pc[a] = "writing_commit"
  <2>1. file' = Append(file, Torn(c)) /\ GoTo(a, "ending_commit")
    BY <1>11 DEF BeginLine, EndLine, LineOf
  <2>2. disk = file /\ file = Append(b, r)
    BY <1>3, <1>11 DEF Stage
  <2>3. Journal(file') /\ Len(file') = Len(file) + 1
    <3>1. Len(file) = Len(b) + 1 /\ Len(file') = Len(b) + 2
      BY <1>6, <2>1, <2>2
    <3>2. Len(file') = Len(file) + 1
      BY <1>7, <3>1
    <3> QED
      BY <1>6, <2>1, <2>2, <3>2
  <2>4. file \in Seq(Line)
    BY <1>0 DEF TypeOK
  <2>5. SubSeq(file', 1, Len(disk)) = disk
    BY <1>5, <2>1, <2>2, <2>4, BaseOf
  <2>6. SubSeq(file', 1, 2 * Len(head[a])) = b
    BY <1>3, <1>5, <2>1, <2>2, BaseOf
  <2>7. Stage("ending_commit", b, h, file', disk)
    BY <2>1, <2>2 DEF Stage
  <2>8. Len(file') <= MaxLines
    BY <1>0, <1>7, <1>11, <2>3 DEF ActorInv
  <2> QED
    BY <1>2, <1>8, <2>1, <2>2, <2>3, <2>5, <2>6, <2>7, <2>8, WriteStep
<1>12. CASE pc[a] = "ending_commit"
  <2>1. file' = [file EXCEPT ![Len(file)] = c] /\ GoTo(a, "syncing_commit")
    BY <1>12 DEF BeginLine, EndLine, LineOf
  <2>2. disk = Append(b, r) /\ file = Append(disk, Torn(c))
    BY <1>3, <1>12 DEF Stage
  <2>3. disk \in Seq(Line)
    BY <1>0 DEF TypeOK
  <2>4. file' = Append(disk, c)
    BY <1>5, <2>1, <2>2, <2>3, LineEnded
  <2>5. Journal(file') /\ Len(file') = Len(disk) + 1 /\ Len(file') = Len(file)
    <3>1. Len(file) = Len(b) + 2 /\ Len(file') = Len(b) + 2 /\ Len(disk) = Len(b) + 1
      BY <1>6, <2>2, <2>4
    <3>2. Len(file') = Len(disk) + 1
      BY <1>7, <3>1
    <3> QED
      BY <1>6, <2>2, <2>4, <3>1, <3>2
  <2>6. SubSeq(file', 1, Len(disk)) = disk /\ SubSeq(file', 1, 2 * Len(head[a])) = b
    BY <1>3, <1>5, <2>2, <2>3, <2>4, BaseOf
  <2>7. Stage("syncing_commit", b, h, file', disk)
    BY <2>2, <2>4 DEF Stage
  <2>8. Len(file') <= MaxLines
    BY <1>7, <2>5
  <2> QED
    BY <1>2, <1>8, <2>1, <2>5, <2>6, <2>7, <2>8, WriteStep
<1> QED
  BY <1>1, <1>9, <1>10, <1>11, <1>12

----------------------------------------------------------------------------
(* What goes wrong.                                                        *)

\* The death of a process leaves its lines where they are.
LEMMA CrashStep ==
  ASSUME IInv, NEW p \in Process, Crash(p)
  PROVE  JournalInv' /\ (\A b \in Actor : ActorInv(b)') /\ Answers'
<1>0. TypeOK /\ Exclusive /\ JournalInv /\ Answers /\ \A b \in Actor : ActorInv(b)
  BY DEF IInv
<1> DEFINE A == {b \in Actor : ProcessOf[b] = p}
<1>1. /\ pc' = [b \in Actor |-> IF b \in A THEN "idle" ELSE pc[b]]
      /\ request' = [b \in Actor |-> IF b \in A THEN NoRequest ELSE request[b]]
      /\ head' = [b \in Actor |-> IF b \in A THEN <<>> ELSE head[b]]
      /\ exists' = exists /\ linked' = linked /\ file' = file /\ disk' = disk
      /\ told' = told /\ deliveries' = deliveries
  BY DEF Crash, Forgotten, journal, answers
<1> HIDE DEF A
<1>2. \A b \in Actor :
        pc'[b] # "idle" => pc'[b] = pc[b] /\ head'[b] = head[b] /\ request'[b] = request[b]
  BY <1>1
<1>3. "idle" \notin Locked \cup {"locking"}
  BY LockedSteps
<1>4. JournalInv'
  BY <1>0, <1>1, <1>2, <1>3 DEF JournalInv
<1>5. \A b \in Actor : ActorInv(b)'
  BY <1>0, <1>1, <1>2, <1>3, Undisturbed, WithoutLock
<1>6. Answers'
  BY <1>0, <1>1 DEF Answers
<1> QED
  BY <1>4, <1>5, <1>6

\* A power loss leaves a journal, and every answer in it.
LEMMA PowerLossStep ==
  ASSUME IInv, PowerLoss
  PROVE  JournalInv' /\ (\A b \in Actor : ActorInv(b)') /\ Answers'
<1>0. TypeOK /\ Exclusive /\ JournalInv /\ Answers
  BY DEF IInv
<1>1. told' = told /\ deliveries' = deliveries /\ \A b \in Actor : pc'[b] = "idle"
  BY DEF PowerLoss, Forgotten, answers
<1>2. "idle" \notin Locked \cup {"locking"}
  BY LockedSteps
<1>3. \A b \in Actor : ActorInv(b)'
  BY <1>1, <1>2, WithoutLock
<1>4. Journal(file) /\ Journal(disk) /\ Follows(disk, file)
  BY <1>0 DEF JournalInv
<1>5. ASSUME NEW c \in Survivors, file' = c, disk' = c, exists' = exists, linked' = exists
      PROVE  JournalInv' /\ Answers'
  <2>1. /\ Journal(c) /\ Len(c) \in {Len(disk), Len(file)}
        /\ Committed(c) \in {Committed(disk), Committed(file)}
    BY <1>4, SurvivorIsJournal
  <2>2. Len(c) <= MaxLines
    BY <1>0, <2>1 DEF JournalInv
  <2>3. ~exists => c = <<>>
    <3> SUFFICES ASSUME ~exists
                 PROVE  c = <<>>
      OBVIOUS
    <3>1. file = <<>> /\ disk = <<>>
      BY <1>0 DEF JournalInv
    <3>2. Len(c) = 0
      BY <2>1, <3>1
    <3> QED
      BY <2>1, <3>2 DEF Journal
  <2>4. JournalInv'
    BY <1>0, <1>1, <1>2, <1>5, <2>1, <2>2, <2>3 DEF JournalInv, Follows
  <2>5. Answers'
    BY <1>0, <1>1, <1>4, <1>5, <2>1, FollowsCommitted, AnswersStay
  <2> QED
    BY <2>4, <2>5
<1>6. ASSUME ~linked, file' = <<>>, disk' = <<>>, exists' = FALSE, linked' = FALSE
      PROVE  JournalInv' /\ Answers'
  <2>1. file = <<>> /\ disk = <<>>
    BY <1>0, <1>6 DEF JournalInv
  <2>2. JournalInv'
    BY <1>0, <1>1, <1>2, <1>6, <2>1 DEF JournalInv
  <2>3. Answers'
    BY <1>0, <1>1, <1>6, <2>1 DEF Answers
  <2> QED
    BY <2>2, <2>3
<1> QED
  BY <1>3, <1>5, <1>6 DEF PowerLoss

----------------------------------------------------------------------------
(* The invariant.                                                          *)

\* The operation of another actor, or of none.
LEMMA UnansweredStep ==
  ASSUME IInv, Next
  PROVE  Unanswered'
<1>0. TypeOK /\ Exclusive /\ JournalInv /\ Answers /\ Unanswered /\ \A b \in Actor : ActorInv(b)
  BY DEF IInv
<1>1. Appending \subseteq Locked /\ "idle" \notin Appending /\ "choosing" \notin Appending
  BY LockedSteps DEF Appending
<1>2. ASSUME told' = told,
             \A b \in Actor : pc'[b] \in Appending => pc[b] \in Appending /\ head'[b] = head[b]
      PROVE  Unanswered'
  BY <1>0, <1>2 DEF Unanswered
<1>3. ASSUME NEW a \in Actor, NEW step, step \notin Appending \/ pc[a] \in Appending,
             pc' = [pc EXCEPT ![a] = step], told' = told,
             step \in Appending => head'[a] = head[a],
             \A b \in Actor : b # a => head'[b] = head[b]
      PROVE  Unanswered'
  <2>1. \A b \in Actor : pc'[b] = IF b = a THEN step ELSE pc[b]
    BY <1>0, <1>3 DEF TypeOK
  <2> QED
    BY <1>2, <1>3, <2>1
<1>4. ASSUME NEW a \in Actor, pc[a] # "idle", Leave(a), told' = told
      PROVE  Unanswered'
  <2>1. pc' = [pc EXCEPT ![a] = "idle"] /\ head' = [head EXCEPT ![a] = <<>>]
    BY <1>4 DEF Leave
  <2>2. \A b \in Actor : b # a => head'[b] = head[b]
    BY <1>0, <2>1 DEF TypeOK
  <2> QED
    BY <1>1, <1>3, <1>4, <2>1, <2>2
<1>5. ASSUME NEW a \in Actor, NEW r \in Request, Call(a, r)
      PROVE  Unanswered'
  <2>1. pc' = [pc EXCEPT ![a] = "opening"] /\ head' = head /\ told' = told /\ "opening" \notin Appending
    BY <1>5 DEF Call, answers, Appending
  <2> QED
    BY <1>3, <2>1
<1>6. ASSUME NEW a \in Actor, OpenExisting(a) \/ Create(a) \/ Truncate(a)
      PROVE  Unanswered'
  <2>1. PICK step \in {"locking", "syncing_truncation"} : GoTo(a, step) /\ told' = told
    BY <1>6 DEF OpenExisting, Create, Truncate, answers
  <2>2. step \notin Appending /\ pc' = [pc EXCEPT ![a] = step] /\ head' = head
    BY <2>1 DEF GoTo, Appending
  <2> QED
    BY <1>3, <2>1, <2>2
<1>7. ASSUME NEW a \in Actor, TakeLock(a)
      PROVE  Unanswered'
  <2>1. pc' = [pc EXCEPT ![a] = "scanning"] /\ head' = head /\ told' = told /\ "scanning" \notin Appending
    BY <1>7 DEF TakeLock, answers, Appending
  <2> QED
    BY <1>3, <2>1
<1>8. ASSUME NEW a \in Actor, Scan(a)
      PROVE  Unanswered'
  <2> DEFINE step == IF Len(file) > RecoverAt(file) THEN "truncating" ELSE "syncing"
  <2>1. /\ pc' = [pc EXCEPT ![a] = step] /\ told' = told /\ step \notin Appending
        /\ head' = [head EXCEPT ![a] = Committed(file)]
    BY <1>8 DEF Scan, answers, Appending
  <2>2. \A b \in Actor : b # a => head'[b] = head[b]
    BY <1>0, <2>1 DEF TypeOK
  <2> HIDE DEF step
  <2> QED
    BY <1>3, <2>1, <2>2
<1>9. ASSUME NEW a \in Actor, SyncFile(a)
      PROVE  Unanswered'
  <2>1. /\ pc[a] \in DOMAIN AfterSync /\ pc' = [pc EXCEPT ![a] = AfterSync[pc[a]]]
        /\ head' = head /\ told' = told
    BY <1>9 DEF SyncFile, GoTo, answers
  <2>2. AfterSync[pc[a]] \in Appending => pc[a] \in Appending
    BY <2>1 DEF AfterSync, Appending
  <2> QED
    BY <1>3, <2>1, <2>2
<1>10. ASSUME NEW a \in Actor, SyncParent(a)
       PROVE  Unanswered'
  <2> DEFINE step == IF pc[a] = "syncing_directory" THEN "choosing" ELSE "acknowledging"
  <2>1. pc[a] \in {"syncing_directory", "resyncing_directory"} /\ GoTo(a, step) /\ told' = told
    BY <1>10 DEF SyncParent, answers
  <2>2. /\ step \in Appending => pc[a] \in Appending
        /\ pc' = [pc EXCEPT ![a] = step] /\ head' = head
    BY <2>1 DEF Appending, GoTo
  <2> HIDE DEF step
  <2> QED
    BY <1>3, <2>1, <2>2
<1>11. ASSUME NEW a \in Actor, BeginLine(a) \/ EndLine(a)
       PROVE  Unanswered'
  <2>1. pc[a] \in Appending /\ told' = told
    BY <1>11 DEF BeginLine, EndLine, Appending, answers
  <2>2. PICK step : GoTo(a, step)
    BY <1>11 DEF BeginLine, EndLine
  <2>3. pc' = [pc EXCEPT ![a] = step] /\ head' = head
    BY <2>2 DEF GoTo
  <2> QED
    BY <1>3, <2>1, <2>3
<1>12. ASSUME NEW a \in Actor, StartAppend(a)
       PROVE  Unanswered'
  <2>1. pc[a] = "choosing" /\ pc' = [pc EXCEPT ![a] = "writing_record"] /\ head' = head /\ told' = told
    BY <1>12 DEF StartAppend, GoTo, answers
  <2>2. Clean(Base(a), head[a]) /\ disk = Base(a)
    BY <1>0, <2>1, AtWork, LockedSteps DEF Stage
  <2>3. IsPrefix(told, head[a])
    BY <1>0, <2>2 DEF Answers, Clean
  <2>4. \A b \in Actor : b # a => pc'[b] = pc[b]
    BY <1>0, <2>1 DEF TypeOK
  <2> QED
    BY <1>0, <2>1, <2>3, <2>4 DEF Unanswered
<1>13. ASSUME NEW a \in Actor, Answer(a) \/ Acknowledge(a)
       PROVE  Unanswered'
  <2>1. pc[a] \in Locked /\ pc' = [pc EXCEPT ![a] = "idle"]
    BY <1>13, LockedSteps DEF Answer, Acknowledge, Leave
  <2>2. \A b \in Actor : b # a => pc[b] \notin Locked
    BY <1>0, <2>1, OneAtATime DEF OneActorAtATime
  <2>3. \A b \in Actor : pc'[b] \notin Appending
    BY <1>0, <1>1, <2>1, <2>2 DEF TypeOK
  <2> QED
    BY <2>3 DEF Unanswered
<1>14. ASSUME NEW a \in Actor,
              \/ Missing(a) \/ BusyLock(a) \/ ScanOnly(a) \/ TooLarge(a) \/ Fail(a)
       PROVE  Unanswered'
  <2>1. pc[a] # "idle" /\ Leave(a) /\ told' = told
    BY <1>14 DEF Missing, BusyLock, ScanOnly, TooLarge, Fail, answers
  <2> QED
    BY <1>4, <2>1
<1>15. ASSUME NEW A, Forgotten(A), told' = told
       PROVE  Unanswered'
  <2>1. \A b \in Actor : pc'[b] # "idle" => pc'[b] = pc[b] /\ head'[b] = head[b]
    BY <1>15 DEF Forgotten
  <2> QED
    BY <1>1, <1>2, <1>15, <2>1
<1>16. ASSUME NEW p \in Process, Crash(p)
       PROVE  Unanswered'
  BY <1>15, <1>16 DEF Crash, answers
<1>17. CASE PowerLoss
  BY <1>15, <1>17 DEF PowerLoss, answers
<1> QED
  BY <1>5, <1>6, <1>7, <1>8, <1>9, <1>10, <1>11, <1>12, <1>13, <1>14, <1>16, <1>17 DEF Next

\* The types of what does not belong to the file.
LEMMA TypeStep ==
  ASSUME IInv, Next, JournalInv'
  PROVE  TypeOK'
<1>0. TypeOK /\ Exclusive /\ JournalInv
  BY DEF IInv
<1> DEFINE Actors == /\ guard' \in [Process -> Process \cup {Nobody}]
                     /\ lock' \in Process \cup {Nobody}
                     /\ pc' \in [Actor -> ProgramCounter]
                     /\ request' \in [Actor -> Request \cup {NoRequest}]
                     /\ head' \in [Actor -> Seq(Event)]
           Ends == /\ exists' \in BOOLEAN /\ linked' \in BOOLEAN
                   /\ told' \in Seq(Event)
                   /\ deliveries' \in Seq([proposal : Proposal, decision : Decision])
<1>1. /\ exists \in BOOLEAN /\ linked \in BOOLEAN
      /\ guard \in [Process -> Process \cup {Nobody}] /\ lock \in Process \cup {Nobody}
      /\ pc \in [Actor -> ProgramCounter]
      /\ request \in [Actor -> Request \cup {NoRequest}] /\ head \in [Actor -> Seq(Event)]
      /\ told \in Seq(Event) /\ deliveries \in Seq([proposal : Proposal, decision : Decision])
  BY <1>0 DEF TypeOK
<1>2. \A b \in Actor : ProcessOf[b] \in Process
  BY ProcessOfAssumption
<1>3. ASSUME Actors, Ends
      PROVE  TypeOK'
  BY <1>3 DEF TypeOK, JournalInv, Journal
<1>4. ASSUME NEW a \in Actor, pc[a] # "idle", Leave(a)
      PROVE  Actors
  BY <1>0, <1>4, LeaveExclusive
<1>5. ASSUME NEW a \in Actor, NEW step \in ProgramCounter, GoTo(a, step)
      PROVE  Actors
  BY <1>1, <1>5 DEF GoTo
<1>6. ASSUME NEW a \in Actor, NEW r \in Request, Call(a, r)
      PROVE  TypeOK'
  <2>1. Actors /\ Ends
    BY <1>1, <1>2, <1>6 DEF Call, journal, answers, ProgramCounter
  <2> QED
    BY <1>3, <2>1
<1>7. ASSUME NEW a \in Actor, OpenExisting(a) \/ Create(a) \/ Truncate(a)
      PROVE  TypeOK'
  <2>1. PICK step \in {"locking", "syncing_truncation"} : GoTo(a, step)
    BY <1>7 DEF OpenExisting, Create, Truncate
  <2>2. step \in ProgramCounter
    BY LockedSteps DEF ProgramCounter
  <2>3. Ends
    BY <1>1, <1>7 DEF OpenExisting, Create, Truncate, journal, answers
  <2> QED
    BY <1>3, <1>5, <2>1, <2>2, <2>3
<1>8. ASSUME NEW a \in Actor, TakeLock(a)
      PROVE  TypeOK'
  <2>1. "scanning" \in ProgramCounter
    BY LockedSteps DEF ProgramCounter
  <2>2. Actors /\ Ends
    BY <1>1, <1>2, <1>8, <2>1 DEF TakeLock, journal, answers
  <2> QED
    BY <1>3, <2>2
<1>9. ASSUME NEW a \in Actor, Scan(a)
      PROVE  TypeOK'
  <2> DEFINE step == IF Len(file) > RecoverAt(file) THEN "truncating" ELSE "syncing"
  <2>1. step \in ProgramCounter
    BY LockedSteps DEF ProgramCounter
  <2>2. /\ pc' = [pc EXCEPT ![a] = step] /\ head' = [head EXCEPT ![a] = Committed(file)]
        /\ request' = request /\ guard' = guard /\ lock' = lock
    BY <1>9 DEF Scan
  <2> HIDE DEF step
  <2>3. Committed(file) \in Seq(Event)
    BY <1>0, CommittedHistory DEF JournalInv
  <2>4. Actors
    BY <1>1, <2>1, <2>2, <2>3
  <2>5. Ends
    BY <1>1, <1>9 DEF Scan, journal, answers
  <2> QED
    BY <1>3, <2>4, <2>5
<1>10. ASSUME NEW a \in Actor, SyncFile(a)
       PROVE  TypeOK'
  <2>1. GoTo(a, AfterSync[pc[a]]) /\ pc[a] \in DOMAIN AfterSync
    BY <1>10 DEF SyncFile
  <2>2. AfterSync[pc[a]] \in ProgramCounter
    BY <2>1, LockedSteps DEF ProgramCounter, AfterSync
  <2>3. Ends
    BY <1>1, <1>10 DEF SyncFile, answers
  <2> QED
    BY <1>3, <1>5, <2>1, <2>2, <2>3
<1>11. ASSUME NEW a \in Actor, SyncParent(a) \/ StartAppend(a) \/ BeginLine(a) \/ EndLine(a)
       PROVE  TypeOK'
  <2>1. PICK step \in {"choosing", "acknowledging", "writing_record", "ending_record", "ending_commit",
                       "syncing_record", "syncing_commit"} : GoTo(a, step)
    BY <1>11 DEF SyncParent, StartAppend, BeginLine, EndLine
  <2>2. step \in ProgramCounter
    BY LockedSteps DEF ProgramCounter
  <2>3. Ends
    BY <1>1, <1>11 DEF SyncParent, StartAppend, BeginLine, EndLine, journal, answers
  <2> QED
    BY <1>3, <1>5, <2>1, <2>2, <2>3
<1>12. ASSUME NEW a \in Actor, Answer(a)
       PROVE  TypeOK'
  <2>1. pc[a] # "idle" /\ Leave(a)
    BY <1>12 DEF Answer
  <2>2. Ends
    BY <1>1, <1>12 DEF Answer, journal
  <2> QED
    BY <1>3, <1>4, <2>1, <2>2
<1>13. ASSUME NEW a \in Actor, Acknowledge(a)
       PROVE  TypeOK'
  <2>1. /\ pc[a] # "idle" /\ Leave(a) /\ exists' = exists /\ linked' = linked
        /\ told' = History(a)
        /\ deliveries' = IF request[a].op = "consume"
                         THEN Append(deliveries, [proposal |-> request[a].proposal,
                                                  decision |-> EventOf(a).value])
                         ELSE deliveries
    BY <1>13 DEF Acknowledge, journal
  <2>2. Appends(a)
    BY <1>13, Acknowledged
  <2>3. /\ History(a) \in Seq(Event) /\ EventOf(a) \in Event
        /\ request[a].op = "consume" =>
             EventOf(a).kind = "Consume" /\ EventOf(a).proposal = request[a].proposal
    BY <1>0, <2>2, NextEvent
  <2>4. request[a].op = "consume" => request[a].proposal \in Proposal /\ EventOf(a).value \in Decision
    BY <2>3 DEF Event
  <2>5. deliveries' \in Seq([proposal : Proposal, decision : Decision])
    <3>1. CASE request[a].op = "consume"
      <4> DEFINE x == [proposal |-> request[a].proposal, decision |-> EventOf(a).value]
      <4>1. x \in [proposal : Proposal, decision : Decision]
        BY <2>4, <3>1
      <4>2. deliveries' = Append(deliveries, x)
        BY <2>1, <3>1
      <4> HIDE DEF x
      <4> QED
        BY <1>1, <4>1, <4>2, AppendProperties
    <3>2. CASE request[a].op # "consume"
      BY <1>1, <2>1, <3>2
    <3> QED
      BY <3>1, <3>2
  <2>6. Ends
    BY <1>1, <2>1, <2>3, <2>5
  <2> QED
    BY <1>3, <1>4, <2>1, <2>6
<1>14. ASSUME NEW a \in Actor,
              \/ Missing(a) \/ BusyLock(a) \/ ScanOnly(a) \/ TooLarge(a) \/ Fail(a)
       PROVE  TypeOK'
  <2>1. pc[a] # "idle" /\ Leave(a) /\ Ends
    BY <1>1, <1>14 DEF Missing, BusyLock, ScanOnly, TooLarge, Fail, journal, answers
  <2> QED
    BY <1>3, <1>4, <2>1
<1>15. ASSUME NEW A, Forgotten(A)
       PROVE  /\ pc' \in [Actor -> ProgramCounter]
              /\ request' \in [Actor -> Request \cup {NoRequest}]
              /\ head' \in [Actor -> Seq(Event)]
  BY <1>1, <1>15, EmptySeq DEF Forgotten, ProgramCounter
<1>16. ASSUME NEW p \in Process, Crash(p)
       PROVE  TypeOK'
  <2>1. /\ guard' \in [Process -> Process \cup {Nobody}] /\ lock' \in Process \cup {Nobody}
        /\ Ends
    BY <1>1, <1>16 DEF Crash, journal, answers
  <2>2. Actors
    BY <1>15, <1>16, <2>1 DEF Crash
  <2> QED
    BY <1>3, <2>1, <2>2
<1>17. CASE PowerLoss
  <2>1. /\ guard' \in [Process -> Process \cup {Nobody}] /\ lock' \in Process \cup {Nobody}
        /\ Ends
    BY <1>1, <1>17 DEF PowerLoss, answers
  <2>2. Actors
    BY <1>15, <1>17, <2>1 DEF PowerLoss
  <2> QED
    BY <1>3, <2>1, <2>2
<1> QED
  BY <1>6, <1>7, <1>8, <1>9, <1>10, <1>11, <1>12, <1>13, <1>14, <1>16, <1>17 DEF Next

\* A queue starts with no file, and nobody at work.
LEMMA Initially ==
  ASSUME Init
  PROVE  IInv
<1>1. "idle" \notin Locked \cup {"locking"} /\ "idle" \notin Appending \cup {"choosing", "truncating"}
  BY LockedSteps DEF Appending
<1>2. pc \in [Actor -> ProgramCounter] /\ \A a \in Actor : pc[a] = "idle"
  BY DEF Init, ProgramCounter
<1>3. TypeOK
  <2>1. guard \in [Process -> Process \cup {Nobody}] /\ lock \in Process \cup {Nobody}
    BY DEF Init
  <2>2. request \in [Actor -> Request \cup {NoRequest}] /\ head \in [Actor -> Seq(Event)]
    BY EmptySeq DEF Init
  <2>3. /\ file \in Seq(Line) /\ Len(file) <= MaxLines /\ disk \in Seq(Line)
        /\ told \in Seq(Event) /\ deliveries \in Seq([proposal : Proposal, decision : Decision])
    BY EmptySeq, MaxLinesAssumption DEF Init
  <2> QED
    BY <1>2, <2>1, <2>2, <2>3 DEF TypeOK, Init
<1>4. Journal(<<>>)
  BY EmptySeq DEF Journal, Scans
<1>5. JournalInv
  BY <1>1, <1>2, <1>4, EmptySeq, MaxLinesAssumption DEF Init, JournalInv, Follows
<1>6. Exclusive
  BY <1>1, <1>2 DEF Exclusive
<1>7. \A a \in Actor : ActorInv(a)
  BY <1>1, <1>2, LockedSteps DEF ActorInv, Appending
<1>8. Answers
  <2>1. Committed(<<>>) \in Seq(Event)
    BY <1>4, CommittedHistory
  <2>2. <<>> \in Seq(Event) /\ Len(<<>>) = 0
    BY EmptySeq
  <2>3. IsPrefix(<<>>, Committed(<<>>))
    <3>1. Len(Committed(<<>>)) \in Nat
      BY <2>1, LenProperties
    <3>2. Len(<<>>) <= Len(Committed(<<>>)) /\ \A i \in 1..Len(<<>>) : FALSE
      BY <2>2, <3>1
    <3> HIDE DEF Committed
    <3> QED
      BY <2>1, <2>2, <3>2, PrefixElements
  <2> QED
    BY <2>3 DEF Answers, Init
<1>9. Unanswered
  BY <1>1, <1>2 DEF Unanswered
<1> QED
  BY <1>3, <1>5, <1>6, <1>7, <1>8, <1>9 DEF IInv

\* Every step keeps the invariant.
LEMMA Inductive ==
  ASSUME IInv, [Next]_vars
  PROVE  IInv'
<1>1. CASE UNCHANGED vars
  <2>1. /\ exists' = exists /\ linked' = linked /\ file' = file /\ disk' = disk
        /\ guard' = guard /\ lock' = lock /\ pc' = pc /\ request' = request
        /\ head' = head /\ told' = told /\ deliveries' = deliveries
    BY <1>1 DEF vars
  <2>2. TypeOK' /\ Exclusive'
    BY <2>1 DEF IInv, TypeOK, Exclusive
  <2>3. JournalInv'
    BY <2>1 DEF IInv, JournalInv
  <2>4. \A a \in Actor : ActorInv(a)'
    BY <2>1, Undisturbed DEF IInv
  <2>5. Answers' /\ Unanswered'
    BY <2>1 DEF IInv, Answers, Unanswered
  <2> QED
    BY <2>2, <2>3, <2>4, <2>5 DEF IInv
<1>2. CASE Next
  <2>1. JournalInv' /\ (\A b \in Actor : ActorInv(b)') /\ Answers'
    BY <1>2, EnterStep, OnlyLeave, AnswerStep, AcknowledgeStep, ScanStep, TruncateStep, SyncFileStep,
       SyncParentStep, StartAppendStep, LineStep, CrashStep, PowerLossStep DEF Next
  <2>2. Exclusive'
    BY <1>2, ExclusiveStep DEF IInv
  <2>3. TypeOK'
    BY <1>2, <2>1, TypeStep
  <2>4. Unanswered'
    BY <1>2, UnansweredStep
  <2> QED
    BY <2>1, <2>2, <2>3, <2>4 DEF IInv
<1> QED
  BY <1>1, <1>2

\* The inductive invariant holds in every reachable state, whatever fails,
\* dies or loses power.
THEOREM Invariance == Spec => []IInv
<1> QED
  BY Initially, Inductive, PTL DEF Spec

----------------------------------------------------------------------------
(* What follows from it.                                                   *)

\* Every variable stays in its range, and the file within the limit: an
\* operation starts to append only where both lines have room.
THEOREM TypeCorrect == Spec => []TypeOK
<1>1. IInv => TypeOK
  BY DEF IInv
<1> QED
  BY <1>1, Invariance, PTL

\* However many processes and domains use the file, one is at work on it.
THEOREM MutualExclusion == Spec => []OneActorAtATime
<1>1. IInv => OneActorAtATime
  BY OneAtATime DEF IInv
<1> QED
  BY <1>1, Invariance, PTL

\* Whatever a power loss would leave at any moment is a journal the next caller
\* can read: no larger than the limit, and one the scan accepts.
THEOREM AlwaysRecoverable == Spec => []JournalAlwaysScans
<1>1. IInv => JournalAlwaysScans
  <2> SUFFICES ASSUME IInv, NEW c \in Survivors
               PROVE  Readable(c)
    BY DEF JournalAlwaysScans
  <2>1. JournalInv
    BY DEF IInv
  <2>2. Journal(c) /\ Len(c) \in {Len(disk), Len(file)}
    BY <2>1, SurvivorIsJournal DEF JournalInv
  <2> QED
    BY <2>1, <2>2 DEF JournalInv, Journal, Readable
<1> QED
  BY <1>1, Invariance, PTL

\* What any caller was answered from is committed in whatever a power loss
\* would leave, the directory entry included.
THEOREM AnswersAreDurable == Spec => []ToldIsDurable
<1>1. ASSUME IInv
      PROVE  ToldIsDurable
  <2>1. TypeOK /\ Journal(file) /\ Journal(disk) /\ Follows(disk, file) /\ IsPrefix(told, Committed(disk))
    BY <1>1 DEF IInv, JournalInv, Answers
  <2>2. ASSUME NEW c \in Survivors
        PROVE  IsPrefix(told, Committed(c))
    <3>1. Journal(c) /\ Committed(c) \in {Committed(disk), Committed(file)}
      BY <2>1, SurvivorIsJournal
    <3>2. told \in Seq(Event) /\ Committed(disk) \in Seq(Event) /\ Committed(c) \in Seq(Event)
      BY <2>1, <3>1, CommittedHistory DEF TypeOK
    <3>3. Committed(c) = Committed(disk) \/ FollowsFrom(Committed(disk), Committed(c))
      BY <2>1, <3>1, FollowsCommitted
    <3> QED
      BY <2>1, <3>2, <3>3, PrefixFollows
  <2>3. ASSUME ~linked
        PROVE  told = <<>>
    <3>1. disk = <<>>
      BY <1>1, <2>3 DEF IInv, JournalInv
    <3>2. Len(Committed(disk)) = Transactions(disk) /\ Len(disk) = 0 /\ RecoverAt(disk) \in 0..Len(disk)
      BY <2>1, <3>1, CommittedHistory
    <3>3. Committed(disk) \in Seq(Event) /\ Len(Committed(disk)) = 0
      BY <2>1, <3>2, CommittedHistory, LenProperties
    <3>4. told \in Seq(Event) /\ Len(told) = 0
      <4>1. told \in Seq(Event) /\ Len(told) \in Nat
        BY <2>1, LenProperties DEF TypeOK
      <4>2. Len(told) <= Len(Committed(disk))
        BY <2>1, <3>3, <4>1, PrefixElements
      <4> QED
        BY <3>3, <4>1, <4>2
    <3> QED
      BY <3>4, EmptySeq
  <2> QED
    BY <2>2, <2>3 DEF ToldIsDurable
<1> QED
  BY <1>1, Invariance, PTL

----------------------------------------------------------------------------
(* The single-use approval.                                                *)

StatusIn(h) == [p \in Proposal |-> StatusOf(h, p)]
DecisionIn(h) == [p \in Proposal |-> IF StatusOf(h, p) \in {"Decided", "Stale"}
                                     THEN DecisionOf(h, p) ELSE Nothing]

\* One event changes nothing else than what it is about.
LEMMA OneEvent ==
  ASSUME NEW g \in Seq(Event), NEW h \in Seq(Event), FollowsFrom(g, h)
  PROVE  \E e \in Event :
           /\ Transition(g, e)
           /\ Happened(h, e.kind, e.proposal)
           /\ \A kind, q : kind # e.kind \/ q # e.proposal =>
                /\ Happened(h, kind, q) <=> Happened(g, kind, q)
                /\ ValueOf(h, kind, q) = ValueOf(g, kind, q)
<1> DEFINE n == Len(g)
           e == h[Len(h)]
<1>1. /\ Len(h) = n + 1 /\ \A i \in 1..n : h[i] = g[i]
      /\ e \in Event /\ Transition(g, e) /\ h[n + 1] = e
  BY FollowingHistory
<1>2. n \in Nat
  BY LenProperties
<1>3. DOMAIN g = 1..n
  BY LenProperties
<1>4. DOMAIN h = 1..(n + 1)
  BY <1>1, LenProperties
<1> HIDE DEF n, e
<1>5. 1..(n + 1) = 1..n \cup {n + 1} /\ n + 1 \notin 1..n
  BY <1>2
<1>6. Happened(h, e.kind, e.proposal)
  BY <1>1, <1>4, <1>5 DEF Happened
<1>7. ASSUME NEW kind, NEW q, kind # e.kind \/ q # e.proposal
      PROVE  /\ Happened(h, kind, q) <=> Happened(g, kind, q)
             /\ ValueOf(h, kind, q) = ValueOf(g, kind, q)
  <2> DEFINE H == {j \in DOMAIN h : h[j].kind = kind /\ h[j].proposal = q}
             G == {j \in DOMAIN g : g[j].kind = kind /\ g[j].proposal = q}
  <2>1. H = G
    BY <1>1, <1>3, <1>4, <1>5, <1>7
  <2>2. \A i \in G : h[i] = g[i]
    BY <1>1, <1>3
  <2>3. {h[i].value : i \in H} = {g[i].value : i \in G}
    BY <2>1, <2>2
  <2>4. Happened(h, kind, q) <=> Happened(g, kind, q)
    BY <2>1 DEF Happened
  <2> QED
    BY <2>3, <2>4 DEF ValueOf
<1> QED
  BY <1>1, <1>6, <1>7

\* What the status says of what happened.
LEMMA StatusSays ==
  ASSUME NEW h, NEW p
  PROVE  /\ StatusOf(h, p) = "Stale" <=> Happened(h, "Consume", p)
         /\ StatusOf(h, p) = "Decided" <=> Happened(h, "Decide", p) /\ ~Happened(h, "Consume", p)
         /\ StatusOf(h, p) = "Pending" <=>
              Happened(h, "Submit", p) /\ ~Happened(h, "Decide", p) /\ ~Happened(h, "Consume", p)
         /\ StatusOf(h, p) = "Absent" <=>
              ~Happened(h, "Submit", p) /\ ~Happened(h, "Decide", p) /\ ~Happened(h, "Consume", p)
BY DEF StatusOf

\* An event that follows submits, decides or consumes, once.
LEMMA EventIsOnce ==
  ASSUME NEW g \in Seq(Event), NEW h \in Seq(Event), FollowsFrom(g, h)
  PROVE  \E p \in Proposal :
           \/ /\ StatusOf(g, p) = "Absent"
              /\ StatusIn(h) = [StatusIn(g) EXCEPT ![p] = "Pending"]
              /\ DecisionIn(h) = DecisionIn(g)
           \/ /\ StatusOf(g, p) = "Pending"
              /\ StatusIn(h) = [StatusIn(g) EXCEPT ![p] = "Decided"]
              /\ \E d \in Decision : DecisionIn(h) = [DecisionIn(g) EXCEPT ![p] = d]
           \/ /\ StatusOf(g, p) = "Decided"
              /\ StatusIn(h) = [StatusIn(g) EXCEPT ![p] = "Stale"]
              /\ DecisionIn(h) = DecisionIn(g)
<1>1. PICK e \in Event :
        /\ Transition(g, e)
        /\ Happened(h, e.kind, e.proposal)
        /\ \A kind, q : kind # e.kind \/ q # e.proposal =>
             /\ Happened(h, kind, q) <=> Happened(g, kind, q)
             /\ ValueOf(h, kind, q) = ValueOf(g, kind, q)
  BY OneEvent
<1> DEFINE p == e.proposal
<1>2. p \in Proposal
  BY DEF Event
<1>3. \A q \in Proposal : q # p =>
        /\ StatusOf(h, q) = StatusOf(g, q)
        /\ DecisionOf(h, q) = DecisionOf(g, q)
  BY <1>1 DEF StatusOf, DecisionOf
<1>4. ASSUME NEW s, StatusOf(h, p) = s
      PROVE  StatusIn(h) = [StatusIn(g) EXCEPT ![p] = s]
  BY <1>2, <1>3, <1>4 DEF StatusIn
<1>5. ASSUME StatusOf(h, p) \in {"Decided", "Stale"} <=> StatusOf(g, p) \in {"Decided", "Stale"},
             StatusOf(h, p) \in {"Decided", "Stale"} => DecisionOf(h, p) = DecisionOf(g, p)
      PROVE  DecisionIn(h) = DecisionIn(g)
  BY <1>2, <1>3, <1>5 DEF DecisionIn
<1>6. CASE e.kind = "Submit" /\ StatusOf(g, p) = "Absent"
  <2>1. StatusOf(h, p) = "Pending"
    BY <1>1, <1>6, StatusSays
  <2> QED
    BY <1>2, <1>4, <1>5, <1>6, <2>1
<1>7. CASE e.kind = "Decide" /\ StatusOf(g, p) = "Pending"
  <2>1. StatusOf(h, p) = "Decided"
    BY <1>1, <1>7, StatusSays
  <2>2. DecisionOf(h, p) \in Decision
    BY <2>1, StatusSays, DecisionIsRecorded
  <2>3. DecisionIn(h) = [DecisionIn(g) EXCEPT ![p] = DecisionOf(h, p)]
    BY <1>2, <1>3, <2>1 DEF DecisionIn
  <2> QED
    BY <1>2, <1>4, <1>7, <2>1, <2>2, <2>3
<1>8. CASE e.kind = "Consume" /\ StatusOf(g, p) = "Decided"
  <2>1. StatusOf(h, p) = "Stale"
    BY <1>1, <1>8, StatusSays
  <2>2. DecisionOf(h, p) = DecisionOf(g, p)
    BY <1>1, <1>8 DEF DecisionOf
  <2> QED
    BY <1>2, <1>4, <1>5, <1>8, <2>1, <2>2
<1> QED
  BY <1>1, <1>6, <1>7, <1>8 DEF Transition

\* What is durable changes by an event at a time, and not while a decision is
\* delivered.
LEMMA DurableStep ==
  ASSUME IInv, [Next]_vars
  PROVE  /\ Durable \in Seq(Event) /\ Durable' \in Seq(Event)
         /\ Durable' = Durable \/ FollowsFrom(Durable, Durable')
         /\ \/ deliveries' = deliveries
            \/ Durable' = Durable /\ \E a \in Actor : Acknowledge(a)
<1>0. TypeOK /\ JournalInv /\ JournalInv'
  BY Inductive DEF IInv
<1>1. /\ Journal(file) /\ Journal(disk) /\ Follows(disk, file) /\ Journal(disk')
      /\ ~linked => file = <<>> /\ disk = <<>>
  BY <1>0 DEF JournalInv
<1>2. Committed(<<>>) = <<>> /\ <<>> \in Seq(Event)
  <2>1. Journal(<<>>)
    BY EmptySeq DEF Journal, Scans
  <2>2. Committed(<<>>) \in Seq(Event) /\ 2 * Len(Committed(<<>>)) \in 0..0
    BY <2>1, EmptySeq, CommittedHistory
  <2>3. Len(Committed(<<>>)) = 0
    BY <2>2, LenProperties
  <2> HIDE DEF Committed
  <2> QED
    BY <2>2, <2>3, EmptySeq
<1>3. Durable = Committed(disk)
  BY <1>1, <1>2 DEF Durable
<1>4. Durable' = Committed(disk')
  <2>1. ~linked' => disk' = <<>>
    BY <1>0 DEF JournalInv
  <2> QED
    BY <1>2, <2>1 DEF Durable
<1>5. Durable \in Seq(Event) /\ Durable' \in Seq(Event)
  BY <1>1, <1>3, <1>4, CommittedHistory
<1>6. ASSUME disk' = disk
      PROVE  Durable' = Durable
  BY <1>3, <1>4, <1>6
<1>7. ASSUME NEW c \in Survivors, disk' = c
      PROVE  Durable' = Durable \/ FollowsFrom(Durable, Durable')
  BY <1>1, <1>3, <1>4, <1>7, SurvivorIsJournal, FollowsCommitted
<1>8. ASSUME NEW a \in Actor, SyncFile(a)
      PROVE  (Durable' = Durable \/ FollowsFrom(Durable, Durable')) /\ deliveries' = deliveries
  BY <1>7, <1>8 DEF SyncFile, Survivors, answers
<1>9. CASE PowerLoss
  <2>1. deliveries' = deliveries
    BY <1>9 DEF PowerLoss, answers
  <2>2. ~linked /\ disk' = <<>> => Durable' = Durable
    BY <1>1, <1>6
  <2>3. Durable' = Durable \/ FollowsFrom(Durable, Durable')
    BY <1>7, <1>9, <2>2 DEF PowerLoss
  <2> QED
    BY <1>5, <2>1, <2>3
<1>10. ASSUME NEW a \in Actor,
              \/ (\E r \in Request : Call(a, r))
              \/ OpenExisting(a) \/ Create(a) \/ Missing(a) \/ TakeLock(a) \/ BusyLock(a)
              \/ Scan(a) \/ ScanOnly(a) \/ Truncate(a) \/ SyncParent(a) \/ Answer(a)
              \/ StartAppend(a) \/ TooLarge(a) \/ BeginLine(a) \/ EndLine(a) \/ Fail(a)
       PROVE  Durable' = Durable /\ deliveries' = deliveries
  <2>1. disk' = disk /\ deliveries' = deliveries
    BY <1>10 DEF Call, OpenExisting, Create, Missing, TakeLock, BusyLock, Scan, ScanOnly, Truncate,
       SyncParent, Answer, StartAppend, TooLarge, BeginLine, EndLine, Fail, journal, answers
  <2> QED
    BY <1>6, <2>1
<1>11. ASSUME NEW a \in Actor, Acknowledge(a)
       PROVE  Durable' = Durable
  BY <1>6, <1>11 DEF Acknowledge, journal
<1>12. ASSUME NEW p \in Process, Crash(p)
       PROVE  Durable' = Durable /\ deliveries' = deliveries
  BY <1>6, <1>12 DEF Crash, journal, answers
<1>13. CASE UNCHANGED vars
  BY <1>5, <1>6, <1>13 DEF vars
<1>14. CASE Next
  BY <1>5, <1>8, <1>9, <1>10, <1>11, <1>12, <1>14 DEF Next
<1> QED
  BY <1>13, <1>14

\* A decision is delivered after it was consumed, and was not before.
LEMMA DeliverStep ==
  ASSUME IInv, NEW a \in Actor, Acknowledge(a), deliveries' # deliveries
  PROVE  \E p \in Proposal :
           /\ StatusOf(Durable, p) = "Stale"
           /\ \A i \in DOMAIN deliveries : deliveries[i].proposal # p
           /\ deliveries' = Append(deliveries, [proposal |-> p, decision |-> DecisionOf(Durable, p)])
<1> DEFINE g == head[a]
           h == History(a)
           p == request[a].proposal
<1>0. TypeOK /\ Answers /\ Unanswered
  BY DEF IInv
<1>1. /\ request[a].op = "consume" /\ pc[a] = "acknowledging"
      /\ deliveries' = Append(deliveries, [proposal |-> p, decision |-> EventOf(a).value])
  BY DEF Acknowledge
<1>2. Appends(a) /\ linked /\ Committed(disk) = h /\ FollowsFrom(g, h)
  BY Acknowledged
<1>3. Durable = h
  BY <1>2 DEF Durable
<1>4. /\ g \in Seq(Event) /\ h \in Seq(Event) /\ EventOf(a) \in Event
      /\ EventOf(a).kind = "Consume" /\ EventOf(a).proposal = p
      /\ EventOf(a).value = DecisionOf(g, p) /\ StatusOf(g, p) = "Decided"
  BY <1>0, <1>1, <1>2, NextEvent DEF TypeOK
<1>5. PICK e \in Event :
        /\ Transition(g, e)
        /\ Happened(h, e.kind, e.proposal)
        /\ \A kind, q : kind # e.kind \/ q # e.proposal =>
             /\ Happened(h, kind, q) <=> Happened(g, kind, q)
             /\ ValueOf(h, kind, q) = ValueOf(g, kind, q)
  BY <1>2, <1>4, OneEvent
<1>6. Happened(h, "Consume", p)
  <2>1. Len(g) \in Nat /\ Len(h) = Len(g) + 1 /\ h[Len(g) + 1] = EventOf(a)
    BY <1>0, <1>2, <1>4, NextEvent, LenProperties
  <2>2. Len(g) + 1 \in 1..Len(h)
    BY <2>1
  <2>3. Len(g) + 1 \in DOMAIN h
    BY <1>4, <2>2, LenProperties
  <2> QED
    BY <1>4, <2>1, <2>3 DEF Happened
<1>7. ~Happened(g, "Consume", p)
  BY <1>4, StatusSays
<1>8. e.kind = "Consume"
  BY <1>5, <1>6, <1>7
<1>9. DecisionOf(h, p) = DecisionOf(g, p)
  BY <1>5, <1>8 DEF DecisionOf
<1>10. \A i \in DOMAIN deliveries : deliveries[i].proposal # p
  <2>1. IsPrefix(told, g) /\ told \in Seq(Event)
    BY <1>0, <1>1 DEF Unanswered, Appending, TypeOK
  <2>2. ~Happened(told, "Consume", p)
    BY <1>4, <1>7, <2>1, HappenedStays
  <2> QED
    BY <1>0, <2>2 DEF Answers
<1>11. p \in Proposal
  BY <1>4 DEF Event
<1>12. StatusOf(h, p) = "Stale"
  BY <1>6, StatusSays
<1> QED
  BY <1>1, <1>3, <1>4, <1>9, <1>10, <1>11, <1>12

\* A proposal is submitted once, decided once, its decision consumed once and
\* delivered at most once, whatever fails, dies or loses power in between.
THEOREM SingleUse == Spec => ImplementsSingleUse
<1>1. Init => Approval!ApprovalInit
  <2> SUFFICES ASSUME Init
               PROVE  Approval!ApprovalInit
    OBVIOUS
  <2>1. Durable = <<>> /\ deliveries = <<>>
    BY DEF Init, Durable
  <2>2. \A kind, p : ~Happened(<<>>, kind, p)
    <3>1. DOMAIN <<>> = 1..Len(<<>>) /\ Len(<<>>) = 0
      BY EmptySeq, LenProperties
    <3> QED
      BY <3>1 DEF Happened
  <2>3. \A p : StatusOf(<<>>, p) = "Absent"
    BY <2>2, StatusSays
  <2> QED
    BY <2>1, <2>3 DEF Approval!ApprovalInit
<1>2. IInv /\ [Next]_vars => [Approval!ApprovalNext]_(Approval!approvalVars)
  <2> SUFFICES ASSUME IInv, [Next]_vars
               PROVE  [Approval!ApprovalNext]_(Approval!approvalVars)
    OBVIOUS
  <2> DEFINE s == StatusIn(Durable)
             d == DecisionIn(Durable)
  <2>1. /\ Durable \in Seq(Event) /\ Durable' \in Seq(Event)
        /\ Durable' = Durable \/ FollowsFrom(Durable, Durable')
        /\ \/ deliveries' = deliveries
           \/ Durable' = Durable /\ \E a \in Actor : Acknowledge(a)
    BY DurableStep
  <2>2. s' = StatusIn(Durable') /\ d' = DecisionIn(Durable')
    BY DEF StatusIn, DecisionIn
  <2>3. CASE Durable' = Durable /\ deliveries' = deliveries
    BY <2>3 DEF Approval!approvalVars
  <2>4. CASE FollowsFrom(Durable, Durable') /\ deliveries' = deliveries
    <3>1. PICK p \in Proposal :
           \/ /\ StatusOf(Durable, p) = "Absent"
              /\ s' = [s EXCEPT ![p] = "Pending"] /\ d' = d
           \/ /\ StatusOf(Durable, p) = "Pending"
              /\ s' = [s EXCEPT ![p] = "Decided"]
              /\ \E v \in Decision : d' = [d EXCEPT ![p] = v]
           \/ /\ StatusOf(Durable, p) = "Decided"
              /\ s' = [s EXCEPT ![p] = "Stale"] /\ d' = d
      BY <2>1, <2>2, <2>4, EventIsOnce
    <3>2. s[p] = StatusOf(Durable, p)
      BY DEF StatusIn
    <3>3. Approval!SubmitOnce(p) \/ (\E v \in Decision : Approval!DecideOnce(p, v)) \/ Approval!ConsumeOnce(p)
      BY <2>4, <3>1, <3>2 DEF Approval!SubmitOnce, Approval!DecideOnce, Approval!ConsumeOnce,
         StatusIn, DecisionIn
    <3> QED
      BY <3>3 DEF Approval!ApprovalNext
  <2>5. CASE deliveries' # deliveries
    <3>1. PICK p \in Proposal :
            /\ StatusOf(Durable, p) = "Stale"
            /\ \A i \in DOMAIN deliveries : deliveries[i].proposal # p
            /\ deliveries' = Append(deliveries, [proposal |-> p, decision |-> DecisionOf(Durable, p)])
      BY <2>1, <2>5, DeliverStep
    <3>2. Durable' = Durable
      BY <2>1, <2>5
    <3>3. s[p] = "Stale" /\ d[p] = DecisionOf(Durable, p) /\ s' = s /\ d' = d
      BY <3>1, <3>2 DEF StatusIn, DecisionIn
    <3>4. Approval!DeliverAtMostOnce(p)
      BY <3>1, <3>3 DEF Approval!DeliverAtMostOnce, StatusIn, DecisionIn
    <3> QED
      BY <3>4 DEF Approval!ApprovalNext
  <2> QED
    BY <2>1, <2>3, <2>4, <2>5
<1> QED
  BY <1>1, <1>2, Invariance, PTL DEF Spec, ImplementsSingleUse, Approval!ApprovalSpec
==============================================================================
