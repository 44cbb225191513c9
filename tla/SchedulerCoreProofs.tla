------------------------- MODULE SchedulerCoreProofs -------------------------
(***************************************************************************)
(* Proofs about SchedulerCore and the table it keeps, for every MaxTasks   *)
(* and every set of channels and registrations.                            *)
(*                                                                         *)
(* First the operators of TaskTable, and that deadlock detection is exact: *)
(* the walk finds a cycle of the wait graph when there is one and reports  *)
(* nothing else.  The opening section is induction on the steps of a       *)
(* computation, which the proofs about all recursive functions use.        *)
(*                                                                         *)
(* Then the scheduler.  Its inductive invariant is the conjunction of the  *)
(* invariants the model-checking run checks, NoWaitCycle aside: waking the *)
(* right tasks (WaitersAreExact) needs the entries to agree, and a token's *)
(* single owner needs to know what each lifecycle owns.                    *)
(***************************************************************************)
EXTENDS SchedulerCore, FiniteSetTheorems, SequenceTheorems, WellFoundedInduction,
        TLAPS

----------------------------------------------------------------------------
(* Induction, stated with sets: the least number that would break it.      *)

Less == {p \in Nat \X Nat : p[1] < p[2]}

LEMMA LeastNumber ==
  ASSUME NEW T, T \subseteq Nat, T # {}
  PROVE  \E n \in T : \A m \in T : n <= m
<1>0. IsWellFoundedOn(Less, Nat)
  BY NatLessThanWellFounded DEF OpToRel, Less
<1>1. PICK n \in T : \A m \in T : ~(<<m, n>> \in Less)
  BY <1>0, WFMin
<1>2. ASSUME NEW m \in T, m < n PROVE FALSE
  BY <1>1, <1>2 DEF Less
<1> QED
  BY <1>1, <1>2

\* What holds at 0 and is kept by each step up to n holds up to n.
LEMMA StepByStep ==
  ASSUME NEW n \in Nat, NEW G, 0 \in G,
         \A i \in 0..n : i < n /\ i \in G => i + 1 \in G
  PROVE  \A i \in 0..n : i \in G
<1> DEFINE T == {i \in 0..n : i \notin G}
<1> SUFFICES ASSUME T # {} PROVE FALSE
  OBVIOUS
<1>0. T \subseteq Nat /\ T \subseteq 0..n /\ \A i \in 0..n : i \in G \/ i \in T
  OBVIOUS
<1>4. \A i \in T : i \notin G
  OBVIOUS
<1> HIDE DEF T
<1>1. PICK k \in T : \A m \in T : k <= m
  BY <1>0, LeastNumber
<1>2. k # 0 /\ k - 1 \in 0..n /\ k - 1 < n /\ (k - 1) + 1 = k
  BY <1>0, <1>1, <1>4
<1>3. k - 1 \in G
  BY <1>0, <1>1, <1>2
<1> QED
  BY <1>1, <1>2, <1>3, <1>4

\* A computation of n steps over a set S: it has a value at every step.
Computes(f, n, base, step) == f[0] = base /\ \A i \in 1..n : f[i] = step[i][f[i - 1]]

LEMMA Computation ==
  ASSUME NEW n \in Nat, NEW S, NEW base \in S, NEW step \in [1..n -> [S -> S]]
  PROVE  \E f \in [0..n -> S] : Computes(f, n, base, step)
<1> DEFINE Runs(k) == {f \in [0..k -> S] : f[0] = base /\ \A i \in 1..k : f[i] = step[i][f[i - 1]]}
           G == {k \in 0..n : Runs(k) # {}}
<1>1. 0 \in G
  <2>1. [i \in 0..0 |-> base] \in Runs(0)
    OBVIOUS
  <2> QED
    BY <2>1
<1>2. ASSUME NEW k \in 0..n, k < n, k \in G PROVE k + 1 \in G
  <2>1. PICK f \in [0..k -> S] : f[0] = base /\ \A i \in 1..k : f[i] = step[i][f[i - 1]]
    BY <1>2
  <2> DEFINE h == [i \in 0..(k + 1) |-> IF i <= k THEN f[i] ELSE step[k + 1][f[k]]]
  <2>2. k + 1 \in 1..n /\ f[k] \in S /\ step[k + 1][f[k]] \in S
    BY <1>2
  <2>3. h \in [0..(k + 1) -> S] /\ h[0] = base
    BY <2>1, <2>2
  <2>4. ASSUME NEW i \in 1..(k + 1) PROVE h[i] = step[i][h[i - 1]]
    <3>1. CASE i <= k
      <4>1. h[i] = f[i] /\ h[i - 1] = f[i - 1] /\ i \in 1..k
        BY <3>1
      <4> QED
        BY <4>1, <2>1
    <3>2. CASE i = k + 1
      BY <3>2
    <3> QED
      BY <3>1, <3>2
  <2>5. h \in Runs(k + 1)
    BY <2>3, <2>4
  <2>6. k + 1 \in 0..n
    BY <1>2
  <2> HIDE DEF Runs, h
  <2> QED
    BY <2>5, <2>6
<1> HIDE DEF G
<1>3. \A i \in 0..n : i \in G
  BY <1>1, <1>2, StepByStep
<1>4. n \in G
  BY <1>3
<1> QED
  BY <1>4 DEF G, Computes

----------------------------------------------------------------------------
(* The walk.                                                               *)

IsPath(g, p) ==
  /\ p \in Seq(Task)
  /\ p # <<>>
  /\ \A i, j \in DOMAIN p : p[i] = p[j] => i = j
  /\ \A i \in 1..(Len(p) - 1) : g[p[i]] = p[i + 1]

Stuck(g, p) ==
  NextOnPath(g, p) = NoTask \/ \E i \in DOMAIN p : p[i] = NextOnPath(g, p)

\* What one step of the walk makes of a path.
LEMMA ExtendedPath ==
  ASSUME NEW g \in WaitGraph, NEW p, IsPath(g, p)
  PROVE  /\ IsPath(g, Extended(g, p))
         /\ Extended(g, p)[1] = p[1]
         /\ Stuck(g, p) => Extended(g, p) = p
         /\ ~Stuck(g, p) => Len(Extended(g, p)) = Len(p) + 1
<1> DEFINE x == NextOnPath(g, p)
<1>1. CASE Stuck(g, p)
  BY <1>1 DEF Stuck, Extended
<1>2. CASE ~Stuck(g, p)
  <2>1. p \in Seq(Task) /\ Len(p) \in Nat /\ Len(p) >= 1 /\ DOMAIN p = 1..Len(p)
    BY DEF IsPath
  <2>2. p[Len(p)] \in Task
    BY <2>1
  <2>3. x \in Task /\ x = g[p[Len(p)]] /\ \A i \in DOMAIN p : p[i] # x
    BY <1>2, <2>2 DEF Stuck, WaitGraph, NextOnPath
  <2>4. Extended(g, p) = Append(p, x)
    BY <1>2 DEF Extended, Stuck
  <2> HIDE DEF x
  <2> DEFINE q == Append(p, x)
  <2>5. /\ q \in Seq(Task) /\ Len(q) = Len(p) + 1 /\ DOMAIN q = 1..(Len(p) + 1)
        /\ q[Len(p) + 1] = x
        /\ \A i \in 1..Len(p) : q[i] = p[i]
    BY <2>1, <2>3
  <2> HIDE DEF q
  <2>6. q # <<>> /\ q[1] = p[1]
    BY <2>1, <2>5
  <2>7. \A i, j \in 1..Len(p) : p[i] = p[j] => i = j
    BY <2>1 DEF IsPath
  <2>8. \A i, j \in DOMAIN q : q[i] = q[j] => i = j
    <3> SUFFICES ASSUME NEW i \in 1..(Len(p) + 1), NEW j \in 1..(Len(p) + 1), q[i] = q[j]
                 PROVE  i = j
      BY <2>5
    <3>1. i \in 1..Len(p) \/ i = Len(p) + 1
      BY <2>1
    <3>2. j \in 1..Len(p) \/ j = Len(p) + 1
      BY <2>1
    <3> QED
      BY <2>1, <2>3, <2>5, <2>7, <3>1, <3>2
  <2>9. ASSUME NEW i \in 1..(Len(q) - 1) PROVE g[q[i]] = q[i + 1]
    <3>1. i \in 1..Len(p) /\ q[i] = p[i]
      BY <2>1, <2>5
    <3>2. CASE i = Len(p)
      BY <2>3, <2>5, <3>1, <3>2
    <3>3. CASE i # Len(p)
      <4>1. i \in 1..(Len(p) - 1) /\ i + 1 \in 1..Len(p)
        <5> DEFINE n == Len(p)
        <5>1. n \in Nat /\ i \in 1..n /\ i # n
          BY <2>1, <3>1, <3>3
        <5> HIDE DEF n
        <5>2. i \in 1..(n - 1) /\ i + 1 \in 1..n
          BY <5>1
        <5> QED
          BY <5>2 DEF n
      <4>2. g[p[i]] = p[i + 1]
        BY <4>1 DEF IsPath
      <4> QED
        BY <2>5, <3>1, <4>1, <4>2
    <3> QED
      BY <3>2, <3>3
  <2>10. IsPath(g, q)
    BY <2>5, <2>6, <2>8, <2>9 DEF IsPath
  <2> QED
    BY <1>2, <2>4, <2>5, <2>6, <2>10 DEF q
<1> QED
  BY <1>1, <1>2

\* There are MaxTasks tasks, so a path is no longer.
LEMMA PathIsShort ==
  ASSUME NEW g, NEW p, IsPath(g, p)
  PROVE  Len(p) \in 1..MaxTasks
<1>1. p \in Seq(Task) /\ Len(p) \in Nat /\ Len(p) >= 1 /\ DOMAIN p = 1..Len(p)
  BY DEF IsPath
<1>2. p \in [1..Len(p) -> Task]
  BY <1>1
<1>3. MaxTasks \in Nat /\ MaxTasks >= 1
  BY MaxTasksAssumption
<1>4. IsFiniteSet(Task) /\ Cardinality(Task) = MaxTasks
  BY <1>3, FS_Interval DEF Task
<1>5. IsFiniteSet(1..Len(p)) /\ Cardinality(1..Len(p)) = Len(p)
  BY <1>1, FS_Interval
<1>6. CASE Len(p) > MaxTasks
  <2>1. \E i, j \in 1..Len(p) : i # j /\ p[i] = p[j]
    BY <1>2, <1>4, <1>5, <1>6, FS_PigeonHole
  <2> QED
    BY <1>1, <2>1 DEF IsPath
<1> QED
  BY <1>1, <1>3, <1>6

\* The walk is a path from its start that leads nowhere new.
LEMMA WalkIsPath ==
  ASSUME NEW g \in WaitGraph, NEW start \in Task
  PROVE  /\ IsPath(g, Walk(g, start))
         /\ Walk(g, start)[1] = start
         /\ Stuck(g, Walk(g, start))
<1> DEFINE Paths == {p \in Seq(Task) : IsPath(g, p)}
           Equation(h) == h = [n \in 0..MaxTasks |-> IF n = 0 THEN <<start>> ELSE Extended(g, h[n - 1])]
           path == CHOOSE h : Equation(h)
           step == [i \in 1..MaxTasks |-> [p \in Paths |-> Extended(g, p)]]
<1>1. Walk(g, start) = path[MaxTasks]
  BY DEF Walk
<1>2. MaxTasks \in Nat /\ MaxTasks >= 1
  BY MaxTasksAssumption
<1>3. <<start>> \in Paths
  BY DEF IsPath
<1>4. \A p \in Paths : Extended(g, p) \in Paths
  BY ExtendedPath DEF IsPath
<1>5. \E h : Equation(h)
  <2>1. step \in [1..MaxTasks -> [Paths -> Paths]]
    BY <1>4
  <2>4. \A i \in 1..MaxTasks : \A p \in Paths : step[i][p] = Extended(g, p)
    OBVIOUS
  <2> HIDE DEF Paths, step
  <2>5. \E f \in [0..MaxTasks -> Paths] : Computes(f, MaxTasks, <<start>>, step)
    BY <1>2, <1>3, <2>1, Computation
  <2>7. PICK f \in [0..MaxTasks -> Paths] : Computes(f, MaxTasks, <<start>>, step)
    BY <2>5
  <2>2. f[0] = <<start>> /\ \A i \in 1..MaxTasks : f[i] = step[i][f[i - 1]]
    BY <2>7 DEF Computes
  <2>3. ASSUME NEW n \in 0..MaxTasks, n # 0 PROVE f[n] = Extended(g, f[n - 1])
    <3>1. n \in 1..MaxTasks /\ n - 1 \in 0..MaxTasks
      BY <1>2, <2>3
    <3> QED
      BY <2>2, <2>4, <3>1
  <2>6. Equation(f)
    BY <2>2, <2>3
  <2> HIDE DEF Equation
  <2> QED
    BY <2>6
<1>6. Equation(path)
  BY <1>5
<1> HIDE DEF path
<1>14. path = [n \in 0..MaxTasks |-> IF n = 0 THEN <<start>> ELSE Extended(g, path[n - 1])]
  BY <1>6
<1>7. /\ path[0] = <<start>>
      /\ \A n \in 0..MaxTasks : n # 0 => path[n] = Extended(g, path[n - 1])
  <2>1. 0 \in 0..MaxTasks
    BY <1>2
  <2> QED
    BY <1>14, <2>1
<1> DEFINE G == {n \in 0..MaxTasks : /\ IsPath(g, path[n])
                                     /\ path[n][1] = start
                                     /\ Stuck(g, path[n]) \/ Len(path[n]) = n + 1}
<1>8. 0 \in G
  BY <1>2, <1>3, <1>7
<1>9. ASSUME NEW n \in 0..MaxTasks, n < MaxTasks, n \in G PROVE n + 1 \in G
  <2>1. n + 1 \in 0..MaxTasks /\ n + 1 # 0 /\ (n + 1) - 1 = n
    BY <1>2, <1>9
  <2>2. path[n + 1] = Extended(g, path[n])
    BY <1>7, <2>1
  <2>3. IsPath(g, path[n]) /\ path[n][1] = start
    BY <1>9
  <2>4. CASE Stuck(g, path[n])
    BY <2>1, <2>2, <2>3, <2>4, ExtendedPath
  <2>5. CASE ~Stuck(g, path[n])
    <3>1. Len(path[n]) = n + 1
      BY <1>9, <2>5
    <3> QED
      BY <2>1, <2>2, <2>3, <2>5, <3>1, ExtendedPath
  <2> QED
    BY <2>4, <2>5
<1> HIDE DEF G
<1>10. \A n \in 0..MaxTasks : n \in G
  BY <1>2, <1>8, <1>9, StepByStep
<1>11. MaxTasks \in G
  BY <1>2, <1>10
<1>12. /\ IsPath(g, path[MaxTasks])
       /\ path[MaxTasks][1] = start
       /\ Stuck(g, path[MaxTasks]) \/ Len(path[MaxTasks]) = MaxTasks + 1
  BY <1>11 DEF G
<1>13. Len(path[MaxTasks]) # MaxTasks + 1
  BY <1>2, <1>12, PathIsShort
<1> QED
  BY <1>1, <1>12, <1>13

----------------------------------------------------------------------------
(* The cycle.                                                              *)

\* From the task met again on, the path is a cycle.
LEMMA LoopIsCycle ==
  ASSUME NEW g \in WaitGraph, NEW start \in Task, LoopsBack(g, start)
  PROVE  CycleOfWalk(g, start) \in WaitCycles(g)
<1> DEFINE p == Walk(g, start)
           x == NextOnPath(g, p)
           k == Index(p, x)
           c == SubSeq(p, k, Len(p))
<1>1. IsPath(g, p) /\ x # NoTask /\ \E i \in DOMAIN p : p[i] = x
  BY WalkIsPath DEF LoopsBack, Stuck
<1>2. CycleOfWalk(g, start) = c
  BY DEF CycleOfWalk
<1>3. x = g[p[Len(p)]]
  BY DEF NextOnPath
<1> HIDE DEF x
<1>4. k \in DOMAIN p /\ p[k] = x
  BY <1>1 DEF Index
<1> HIDE DEF p, k
<1>5. p \in Seq(Task) /\ Len(p) \in 1..MaxTasks /\ DOMAIN p = 1..Len(p)
  BY <1>1, PathIsShort DEF IsPath
<1> DEFINE m == Len(p)
           n == m - k + 1
<1>6. MaxTasks \in Nat /\ m \in Nat /\ m <= MaxTasks /\ k \in Nat /\ 1 <= k /\ k <= m
  BY <1>4, <1>5, MaxTasksAssumption
<1>7. c \in Seq(Task) /\ Len(c) = n /\ DOMAIN c = 1..n /\ \A i \in 1..n : c[i] = p[k + i - 1]
  <2>1. c \in Seq(Task) /\ Len(c) = n /\ \A i \in 1..n : c[i] = p[k + i - 1]
    BY <1>5, <1>6
  <2> QED
    BY <2>1
<1>8. m = Len(p)
  OBVIOUS
<1> HIDE DEF c, m
<1>9. n \in 1..MaxTasks
  BY <1>6
<1>10. \A i \in 1..n : k + i - 1 \in 1..m
  BY <1>6
<1>11. ASSUME NEW i \in 1..n PROVE g[c[i]] = c[Successor(c, i)]
  <2>1. CASE i = n
    <3>1. k + i - 1 = m /\ k + 1 - 1 = k /\ 1 \in 1..n
      BY <1>6, <2>1
    <3>2. Successor(c, i) = 1
      BY <1>7, <2>1 DEF Successor
    <3>3. c[i] = p[m] /\ c[1] = p[k]
      BY <1>7, <3>1
    <3> QED
      BY <1>3, <1>4, <1>8, <3>2, <3>3
  <2>2. CASE i # n
    <3>1. k + i - 1 \in 1..(m - 1) /\ i + 1 \in 1..n /\ k + (i + 1) - 1 = (k + i - 1) + 1
      BY <1>6, <2>2
    <3>2. Successor(c, i) = i + 1
      BY <1>7, <2>2 DEF Successor
    <3>3. c[i] = p[k + i - 1] /\ c[i + 1] = p[(k + i - 1) + 1]
      BY <1>7, <3>1
    <3>4. g[p[k + i - 1]] = p[(k + i - 1) + 1]
      BY <1>1, <1>8, <3>1 DEF IsPath
    <3> QED
      BY <3>2, <3>3, <3>4
  <2> QED
    BY <2>1, <2>2
<1>12. ASSUME NEW i \in 1..n, NEW j \in 1..n, c[i] = c[j] PROVE i = j
  <2>1. p[k + i - 1] = p[k + j - 1]
    BY <1>7, <1>12
  <2>2. k + i - 1 = k + j - 1
    BY <1>1, <1>5, <1>8, <1>10, <2>1 DEF IsPath
  <2> QED
    BY <1>6, <2>2
<1>13. IsWaitCycle(g, c)
  BY <1>6, <1>7, <1>9, <1>11, <1>12 DEF IsWaitCycle
<1>14. ASSUME NEW i \in 1..n PROVE c[i] \in Waiting(g)
  <2>1. Successor(c, i) \in 1..n
    BY <1>7, <1>9 DEF Successor
  <2>2. c[i] \in Task /\ c[Successor(c, i)] \in Task
    BY <1>7, <2>1
  <2>3. g[c[i]] # NoTask
    BY <1>11, <2>2, NoTaskAssumption, MaxTasksAssumption DEF Task
  <2> QED
    BY <2>2, <2>3 DEF Waiting
<1>15. c \in [1..n -> Waiting(g)]
  BY <1>7, <1>14
<1> QED
  BY <1>2, <1>9, <1>13, <1>15 DEF WaitCycles

\* A walk that starts on a cycle stays on it.
LEMMA CycleLoops ==
  ASSUME NEW g \in WaitGraph, NEW c \in WaitCycles(g)
  PROVE  \E s \in Task : LoopsBack(g, s)
<1>1. PICK n \in 1..MaxTasks : c \in [1..n -> Waiting(g)]
  BY DEF WaitCycles
<1>2. n \in Nat /\ 1 <= n /\ DOMAIN c = 1..n /\ Waiting(g) \subseteq Task
  BY <1>1, MaxTasksAssumption DEF Waiting
<1>3. \A i \in 1..n : g[c[i]] = c[Successor(c, i)]
  BY <1>2 DEF WaitCycles, IsWaitCycle
<1>4. Len(c) = n
  BY <1>1, <1>2
<1>5. \A i \in 1..n : Successor(c, i) \in 1..n
  BY <1>2, <1>4 DEF Successor
<1> DEFINE On == {c[i] : i \in 1..n}
           p == Walk(g, c[1])
<1>6. On \subseteq Task /\ c[1] \in On /\ \A t \in On : g[t] \in On
  <2>1. \A i \in 1..n : c[i] \in Task
    BY <1>1, <1>2
  <2>2. 1 \in 1..n
    BY <1>2
  <2>3. ASSUME NEW i \in 1..n PROVE g[c[i]] \in On
    BY <1>3, <1>5
  <2> QED
    BY <2>1, <2>2, <2>3
<1> HIDE DEF On
<1>7. IsPath(g, p) /\ p[1] = c[1]
  BY <1>6, WalkIsPath
<1> HIDE DEF p
<1>8. p \in Seq(Task) /\ Len(p) \in Nat /\ Len(p) >= 1
  BY <1>7 DEF IsPath
<1> DEFINE m == Len(p)
           G == {i \in 0..(m - 1) : p[i + 1] \in On}
<1>9. 0 \in G
  BY <1>6, <1>7, <1>8
<1>10. ASSUME NEW i \in 0..(m - 1), i < m - 1, i \in G PROVE i + 1 \in G
  <2>1. i + 1 \in 1..(m - 1) /\ i + 1 \in 0..(m - 1)
    BY <1>8, <1>10
  <2>2. g[p[i + 1]] = p[(i + 1) + 1]
    BY <1>7, <2>1 DEF IsPath
  <2> QED
    BY <1>6, <1>10, <2>1, <2>2
<1>11. m - 1 \in Nat /\ (m - 1) + 1 = m /\ m - 1 \in 0..(m - 1)
  BY <1>8
<1> HIDE DEF G
<1>12. \A i \in 0..(m - 1) : i \in G
  BY <1>9, <1>10, <1>11, StepByStep
<1>13. p[m] \in On
  BY <1>11, <1>12 DEF G
<1>14. NextOnPath(g, p) \in Task
  BY <1>6, <1>13 DEF NextOnPath
<1>15. NextOnPath(g, p) # NoTask
  BY <1>14, NoTaskAssumption, MaxTasksAssumption DEF Task
<1> QED
  BY <1>6, <1>15 DEF LoopsBack, p

\* Deadlock detection is exact: the first looping walk exists when there is a
\* cycle, and its loop is one.
THEOREM DetectsEveryCycle ==
  ASSUME NEW g \in WaitGraph
  PROVE  DetectorIsExact(g)
<1>1. CASE \E s \in Task : LoopsBack(g, s)
  <2> DEFINE T == {s \in Task : LoopsBack(g, s)}
  <2>1. T \subseteq Nat /\ T # {} /\ \A s \in T : s \in Task
    BY <1>1, MaxTasksAssumption DEF Task
  <2> HIDE DEF T
  <2>2. \E s \in T : \A r \in T : s <= r
    BY <2>1, LeastNumber
  <2>3. \E s \in Task : LoopsBack(g, s) /\ \A r \in Task : LoopsBack(g, r) => s <= r
    BY <2>2 DEF T
  <2>4. FirstLoopingStart(g) \in Task /\ LoopsBack(g, FirstLoopingStart(g))
    BY <2>3 DEF FirstLoopingStart
  <2>5. DetectWaitCycle(g) = CycleOfWalk(g, FirstLoopingStart(g))
    BY <1>1 DEF DetectWaitCycle
  <2>6. DetectWaitCycle(g) \in WaitCycles(g)
    BY <2>4, <2>5, LoopIsCycle
  <2>7. DetectWaitCycle(g) # <<>>
    BY <2>6 DEF WaitCycles, IsWaitCycle
  <2> QED
    BY <2>6, <2>7 DEF DetectorIsExact
<1>2. CASE ~\E s \in Task : LoopsBack(g, s)
  <2>1. DetectWaitCycle(g) = <<>>
    BY <1>2 DEF DetectWaitCycle
  <2>2. WaitCycles(g) = {}
    BY <1>2, CycleLoops
  <2> QED
    BY <2>1, <2>2 DEF DetectorIsExact
<1> QED
  BY <1>1, <1>2

----------------------------------------------------------------------------
(* Waiter lists.                                                           *)

AtMostOneOf(s, M) == \A i, j \in DOMAIN s : s[i] \in M /\ s[j] \in M => i = j

\* RemoveAt keeps the other elements, in order.
LEMMA RemoveAtElements ==
  ASSUME NEW S, NEW s \in Seq(S), NEW k \in 1..Len(s)
  PROVE  /\ RemoveAt(s, k) \in Seq(S)
         /\ Len(RemoveAt(s, k)) = Len(s) - 1
         /\ \A i \in 1..(Len(s) - 1) : RemoveAt(s, k)[i] = s[IF i < k THEN i ELSE i + 1]
<1> DEFINE left == SubSeq(s, 1, k - 1)
           right == SubSeq(s, k + 1, Len(s))
<1>1. left \in Seq(S) /\ Len(left) = k - 1 /\ \A i \in 1..(k - 1) : left[i] = s[i]
  OBVIOUS
<1>2. /\ right \in Seq(S)
      /\ Len(right) = Len(s) - k
      /\ \A i \in 1..(Len(s) - k) : right[i] = s[k + i]
  OBVIOUS
<1> HIDE DEF left, right
<1>3. /\ left \o right \in Seq(S)
      /\ Len(left \o right) = Len(left) + Len(right)
      /\ \A i \in 1..(Len(left) + Len(right)) :
           (left \o right)[i] = IF i <= Len(left) THEN left[i] ELSE right[i - Len(left)]
  BY <1>1, <1>2, ConcatProperties
<1>4. ASSUME NEW i \in 1..(Len(s) - 1)
      PROVE  (left \o right)[i] = s[IF i < k THEN i ELSE i + 1]
  <2>1. CASE i < k
    BY <2>1, <1>1, <1>2, <1>3
  <2>2. CASE ~(i < k)
    <3> DEFINE j == i - (k - 1)
    <3>1. j \in 1..(Len(s) - k) /\ k + j = i + 1
      BY <2>2
    <3>2. (left \o right)[i] = right[j]
      BY <2>2, <1>1, <1>2, <1>3
    <3>3. right[j] = s[k + j]
      BY <3>1, <1>2
    <3> QED
      BY <2>2, <3>1, <3>2, <3>3
  <2> QED
    BY <2>1, <2>2
<1>5. RemoveAt(s, k) = left \o right
  BY DEF RemoveAt, left, right
<1>6. Len(left) + Len(right) = Len(s) - 1
  BY <1>1, <1>2
<1> QED
  BY <1>3, <1>4, <1>5, <1>6

\* Without removes exactly the members of M from a duplicate-free list that
\* holds at most one of them.
LEMMA WithoutRemoves ==
  ASSUME NEW M, NEW s \in Seq(Task), Distinct(s), AtMostOneOf(s, M)
  PROVE  /\ Without(s, M) \in Seq(Task)
         /\ Distinct(Without(s, M))
         /\ \A x : In(x, Without(s, M)) <=> In(x, s) /\ x \notin M
<1>1. CASE \A i \in 1..Len(s) : s[i] \notin M
  <2>1. Without(s, M) = s
    BY <1>1 DEF Without, RemoveFirstMatch
  <2> QED
    BY <2>1, <1>1 DEF In
<1>2. CASE \E i \in 1..Len(s) : s[i] \in M
  <2>1. PICK k \in 1..Len(s) : s[k] \in M
    BY <1>2
  <2>2. \A i \in 1..Len(s) : s[i] \in M <=> i = k
    BY <2>1 DEF AtMostOneOf
  <2>3. {i \in 1..Len(s) : s[i] \in M} = {k}
    BY <2>2
  <2>4. Min({k}) = k
    BY DEF Min
  <2>5. SelectInSeq(s, LAMBDA t : t \in M) = k
    BY <2>3, <2>4 DEF SelectInSeq
  <2>6. Without(s, M) = RemoveAt(s, k)
    BY <2>5, <1>2 DEF Without, RemoveFirstMatch
  <2> DEFINE w == RemoveAt(s, k)
  <2>7. /\ w \in Seq(Task)
        /\ Len(w) = Len(s) - 1
        /\ \A i \in 1..(Len(s) - 1) : w[i] = s[IF i < k THEN i ELSE i + 1]
    BY RemoveAtElements
  <2> HIDE DEF w
  <2>8. Distinct(w)
    BY <2>7 DEF Distinct
  <2>9. ASSUME NEW x
        PROVE  In(x, w) <=> In(x, s) /\ x \notin M
    <3>1. ASSUME In(x, w)
          PROVE  In(x, s) /\ x \notin M
      <4>1. PICK i \in 1..(Len(s) - 1) : w[i] = x
        BY <3>1, <2>7 DEF In
      <4>2. CASE i < k
        BY <4>1, <4>2, <2>2, <2>7 DEF In
      <4>3. CASE ~(i < k)
        <5>1. i + 1 \in 1..Len(s) /\ i + 1 # k
          BY <4>3
        <5>2. s[i + 1] = x
          BY <4>1, <4>3, <2>7
        <5>3. In(x, s)
          BY <5>1, <5>2 DEF In
        <5> QED
          BY <5>1, <5>2, <5>3, <2>2
      <4> QED
        BY <4>2, <4>3
    <3>2. ASSUME In(x, s), x \notin M
          PROVE  In(x, w)
      <4>1. PICK j \in 1..Len(s) : s[j] = x
        BY <3>2 DEF In
      <4>2. j # k
        BY <4>1, <3>2, <2>1
      <4>3. CASE j < k
        BY <4>1, <4>3, <2>7 DEF In
      <4>4. CASE j > k
        <5>1. j - 1 \in 1..(Len(s) - 1) /\ w[j - 1] = x
          BY <4>1, <4>4, <2>7
        <5> QED
          BY <5>1, <2>7 DEF In
      <4> QED
        BY <4>2, <4>3, <4>4
    <3> QED
      BY <3>1, <3>2
  <2> QED
    BY <2>6, <2>7, <2>8, <2>9 DEF w
<1> QED
  BY <1>1, <1>2

----------------------------------------------------------------------------
(* Settling tasks.                                                         *)

Consistent(E) ==
  /\ E \in Table
  /\ \A t \in Task : EntryAgrees(E[t])
  /\ WaitersExact(E)

\* Live tasks no two of which await the same task: what terminalize and
\* fail_cycle settle.
Settlable(E, M) ==
  /\ M \subseteq Task
  /\ \A m \in M : Live(E, m)
  /\ \A t \in Task : AtMostOneOf(E[t].waiters, M)

\* After remove_waiter the lists name the same tasks but those of M.
LEMMA RemoveWaiterShape ==
  ASSUME NEW E, NEW M, Consistent(E), Settlable(E, M), NEW t \in Task
  PROVE  /\ E[t] \in Entry
         /\ RemoveWaiter(E, M)[t] = [E[t] EXCEPT !.waiters = Without(E[t].waiters, M)]
         /\ Without(E[t].waiters, M) \in Seq(Task)
         /\ Distinct(Without(E[t].waiters, M))
         /\ \A x : In(x, Without(E[t].waiters, M)) <=> In(x, E[t].waiters) /\ x \notin M
<1>1. E[t] \in Entry /\ E[t].waiters \in Seq(Task)
  BY DEF Consistent, Table, Entry
<1>2. Distinct(E[t].waiters) /\ AtMostOneOf(E[t].waiters, M)
  BY DEF Consistent, WaitersExact, Settlable
<1>3. RemoveWaiter(E, M)[t] = [E[t] EXCEPT !.waiters = Without(E[t].waiters, M)]
  BY DEF RemoveWaiter
<1> QED
  BY <1>1, <1>2, <1>3, WithoutRemoves

\* Who wakes when M settles: exactly the others that await a member of M.
LEMMA AwakenedBySettling ==
  ASSUME NEW E, NEW M, Consistent(E), Settlable(E, M), NEW r \in Result,
         NEW t \in Task, NEW m \in M
  PROVE  IsAwakenedBy(SettledTogether(E, M, r), m, t)
           <=> t \notin M /\ SuspendedOn(E, t, "Awaiting", m)
<1> DEFINE R == RemoveWaiter(E, M)
           T == SettledTogether(E, M, r)
<1>1. m \in Task
  BY DEF Settlable
<1>2. /\ E[m] \in Entry
      /\ R[m] = [E[m] EXCEPT !.waiters = Without(E[m].waiters, M)]
      /\ In(t, Without(E[m].waiters, M)) <=> In(t, E[m].waiters) /\ t \notin M
  BY <1>1, RemoveWaiterShape
<1>3. /\ E[t] \in Entry
      /\ R[t] = [E[t] EXCEPT !.waiters = Without(E[t].waiters, M)]
  BY RemoveWaiterShape
<1>4. T[m] = Settled(R[m], r) /\ (t \notin M => T[t] = R[t])
  BY <1>1 DEF SettledTogether
<1> HIDE DEF R, T
<1>5. T[m].waiters = Without(E[m].waiters, M)
  BY <1>2, <1>4 DEF Settled, Entry
<1>6. In(t, T[m].waiters) <=> SuspendedOn(E, t, "Awaiting", m) /\ t \notin M
  BY <1>1, <1>2, <1>5 DEF Consistent, WaitersExact
<1>7. t \notin M => (SuspendedOn(T, t, "Awaiting", m) <=> SuspendedOn(E, t, "Awaiting", m))
  BY <1>3, <1>4 DEF SuspendedOn, Entry
<1> QED
  BY <1>6, <1>7 DEF IsAwakenedBy, T

\* The entry of each task after M settles with result r.
SettledEntry(e, r) == [Settled(e, r) EXCEPT !.waiters = <<>>]
KeptEntry(e, M) == [e EXCEPT !.waiters = Without(e.waiters, M)]
WokenEntry(e, M) ==
  [e EXCEPT !.lifecycle = "Runnable", !.suspension = "None", !.on = Nothing,
            !.waiters = Without(e.waiters, M)]

LEMMA SettleShape ==
  ASSUME NEW E, NEW M, Consistent(E), Settlable(E, M), NEW r \in Result, NEW t \in Task
  PROVE  Settle(E, M, r)[t] =
           IF t \in M THEN SettledEntry(E[t], r)
           ELSE IF \E m \in M : SuspendedOn(E, t, "Awaiting", m) THEN WokenEntry(E[t], M)
           ELSE KeptEntry(E[t], M)
<1> DEFINE T == SettledTogether(E, M, r)
<1>1. E[t] \in Entry /\ RemoveWaiter(E, M)[t] = KeptEntry(E[t], M)
  BY RemoveWaiterShape DEF KeptEntry
<1>2. T[t] = IF t \in M THEN Settled(KeptEntry(E[t], M), r) ELSE KeptEntry(E[t], M)
  BY <1>1 DEF SettledTogether
<1>3. (\E m \in M : IsAwakenedBy(T, m, t))
        <=> t \notin M /\ \E m \in M : SuspendedOn(E, t, "Awaiting", m)
  BY AwakenedBySettling
<1>4. T \in [Task -> {T[u] : u \in Task}]
  BY DEF SettledTogether
<1>5. Wake(T, t)[t] = [T[t] EXCEPT !.lifecycle = "Runnable", !.suspension = "None",
                                   !.on = Nothing]
  BY <1>4 DEF Wake
<1>6. Settle(E, M, r)[t] =
        LET e == IF \E m \in M : IsAwakenedBy(T, m, t) THEN Wake(T, t)[t] ELSE T[t]
        IN  IF t \in M THEN [e EXCEPT !.waiters = <<>>] ELSE e
  BY DEF Settle, WakeWaiters
<1> HIDE DEF T
<1>7. CASE t \in M
  <2>1. Settle(E, M, r)[t] = [Settled(KeptEntry(E[t], M), r) EXCEPT !.waiters = <<>>]
    BY <1>2, <1>3, <1>6, <1>7
  <2> QED
    BY <2>1, <1>1, <1>7 DEF SettledEntry, Settled, KeptEntry, Entry
<1>8. CASE t \notin M /\ \E m \in M : SuspendedOn(E, t, "Awaiting", m)
  <2>1. Settle(E, M, r)[t] = [KeptEntry(E[t], M) EXCEPT !.lifecycle = "Runnable",
                                !.suspension = "None", !.on = Nothing]
    BY <1>2, <1>3, <1>5, <1>6, <1>8
  <2> QED
    BY <2>1, <1>1, <1>8 DEF WokenEntry, KeptEntry, Entry
<1>9. CASE t \notin M /\ ~\E m \in M : SuspendedOn(E, t, "Awaiting", m)
  BY <1>2, <1>3, <1>6, <1>9
<1> QED
  BY <1>7, <1>8, <1>9

LEMMA ResultLifecycles ==
  ASSUME NEW r \in Result
  PROVE  ResultLifecycle(r) \in Terminal
BY DEF Result, ResultLifecycle, Terminal

\* The three shapes of entry Settle leaves are entries, and they agree.
LEMMA SettledEntryAgrees ==
  ASSUME NEW e \in Entry, NEW r \in Result
  PROVE  /\ SettledEntry(e, r) \in Entry
         /\ EntryAgrees(SettledEntry(e, r))
         /\ SettledEntry(e, r).lifecycle \in Terminal
         /\ SettledEntry(e, r).lifecycle = ResultLifecycle(r)
         /\ SettledEntry(e, r).result = r
         /\ SettledEntry(e, r).waiters = <<>>
         /\ ~SettledEntry(e, r).resume
         /\ ~SettledEntry(e, r).cancellation_requested
<1> DEFINE d == SettledEntry(e, r)
<1>1. /\ d.lifecycle = ResultLifecycle(r) /\ d.suspension = "None" /\ d.on = Nothing
      /\ d.result = r /\ d.waiters = <<>>
      /\ d.resume = FALSE /\ d.cancellation_requested = FALSE
  BY DEF SettledEntry, Settled, Entry
<1>2. d.lifecycle \in Terminal
  BY <1>1, ResultLifecycles
<1>3. <<>> \in Seq(Task)
  OBVIOUS
<1>4. d \in Entry
  <2>1. ResultLifecycle(r) \in Lifecycle /\ Nothing \in Blocker
    BY ResultLifecycles DEF Terminal, Lifecycle, Blocker
  <2>2. Settled(e, r) \in Entry
    BY <2>1 DEF Settled, Entry, Result
  <2> QED
    BY <2>2, <1>3 DEF SettledEntry, Entry
<1> HIDE DEF d
<1>5. EntryAgrees(d)
  BY <1>1, <1>2 DEF EntryAgrees, Terminal, Result
<1> QED
  BY <1>1, <1>2, <1>4, <1>5 DEF d

LEMMA KeptEntryAgrees ==
  ASSUME NEW e \in Entry, NEW M, Without(e.waiters, M) \in Seq(Task)
  PROVE  /\ KeptEntry(e, M) \in Entry
         /\ EntryAgrees(e) => EntryAgrees(KeptEntry(e, M))
         /\ KeptEntry(e, M).waiters = Without(e.waiters, M)
         /\ KeptEntry(e, M).lifecycle = e.lifecycle
         /\ KeptEntry(e, M).suspension = e.suspension
         /\ KeptEntry(e, M).on = e.on
         /\ KeptEntry(e, M).result = e.result
         /\ KeptEntry(e, M).resume = e.resume
         /\ KeptEntry(e, M).cancellation_requested = e.cancellation_requested
BY DEF KeptEntry, Entry, EntryAgrees

LEMMA WokenEntryAgrees ==
  ASSUME NEW e \in Entry, NEW M, Without(e.waiters, M) \in Seq(Task),
         EntryAgrees(e), e.lifecycle = "Suspended"
  PROVE  /\ WokenEntry(e, M) \in Entry
         /\ EntryAgrees(WokenEntry(e, M))
         /\ WokenEntry(e, M).waiters = Without(e.waiters, M)
         /\ WokenEntry(e, M).lifecycle = "Runnable"
         /\ WokenEntry(e, M).result = e.result
         /\ WokenEntry(e, M).resume = e.resume
         /\ WokenEntry(e, M).cancellation_requested = e.cancellation_requested
BY DEF WokenEntry, Entry, EntryAgrees, Terminal, Lifecycle, Suspension, Blocker

\* Settling keeps a table consistent.
LEMMA SettleConsistent ==
  ASSUME NEW E, NEW M, Consistent(E), Settlable(E, M), NEW r \in Result
  PROVE  Consistent(Settle(E, M, r))
<1> DEFINE S == Settle(E, M, r)
           Wakes(t) == \E m \in M : SuspendedOn(E, t, "Awaiting", m)
<1>1. S = [t \in Task |-> S[t]]
  BY DEF Settle, WakeWaiters
<1>2. \A t \in Task : S[t] = IF t \in M THEN SettledEntry(E[t], r)
                            ELSE IF Wakes(t) THEN WokenEntry(E[t], M)
                            ELSE KeptEntry(E[t], M)
  BY SettleShape
<1>3. \A t \in Task : /\ E[t] \in Entry
                     /\ EntryAgrees(E[t])
                     /\ Without(E[t].waiters, M) \in Seq(Task)
                     /\ Distinct(Without(E[t].waiters, M))
                     /\ \A x : In(x, Without(E[t].waiters, M))
                                <=> In(x, E[t].waiters) /\ x \notin M
  BY RemoveWaiterShape DEF Consistent
<1>4. \A t \in Task : Wakes(t) => E[t].lifecycle = "Suspended"
  BY DEF SuspendedOn
<1> HIDE DEF S
<1>5. ASSUME NEW t \in Task
      PROVE  S[t] \in Entry /\ EntryAgrees(S[t])
  <2>1. CASE t \in M
    BY <2>1, <1>2, <1>3, SettledEntryAgrees
  <2>2. CASE t \notin M /\ Wakes(t)
    BY <2>2, <1>2, <1>3, <1>4, WokenEntryAgrees
  <2>3. CASE t \notin M /\ ~Wakes(t)
    BY <2>3, <1>2, <1>3, KeptEntryAgrees
  <2> QED
    BY <2>1, <2>2, <2>3
<1>6. ASSUME NEW t \in Task, NEW w \in Task
      PROVE  SuspendedOn(S, w, "Awaiting", t)
               <=> w \notin M /\ t \notin M /\ SuspendedOn(E, w, "Awaiting", t)
  <2>1. CASE w \in M
    <3>1. S[w].lifecycle \in Terminal
      BY <2>1, <1>2, <1>3, SettledEntryAgrees
    <3> QED
      BY <2>1, <3>1 DEF SuspendedOn, Terminal
  <2>2. CASE w \notin M /\ Wakes(w)
    <3>1. S[w].lifecycle = "Runnable"
      BY <2>2, <1>2, <1>3, <1>4, WokenEntryAgrees
    <3> QED
      BY <2>2, <3>1 DEF SuspendedOn
  <2>3. CASE w \notin M /\ ~Wakes(w)
    <3>1. /\ S[w].lifecycle = E[w].lifecycle
          /\ S[w].suspension = E[w].suspension
          /\ S[w].on = E[w].on
      <4>1. S[w] = KeptEntry(E[w], M)
        BY <2>3, <1>2
      <4>2. E[w] \in Entry /\ Without(E[w].waiters, M) \in Seq(Task)
        BY <1>3
      <4>3. /\ KeptEntry(E[w], M).lifecycle = E[w].lifecycle
            /\ KeptEntry(E[w], M).suspension = E[w].suspension
            /\ KeptEntry(E[w], M).on = E[w].on
        BY <4>2, KeptEntryAgrees
      <4> QED
        BY <4>1, <4>3
    <3> QED
      BY <2>3, <3>1 DEF SuspendedOn
  <2> QED
    BY <2>1, <2>2, <2>3
<1>7. ASSUME NEW t \in Task
      PROVE  /\ \A w \in Task : In(w, S[t].waiters) <=> SuspendedOn(S, w, "Awaiting", t)
             /\ Distinct(S[t].waiters)
             /\ S[t].waiters # <<>> => Live(S, t)
  <2>1. CASE t \in M
    <3>1. S[t].waiters = <<>>
      BY <2>1, <1>2, <1>3, SettledEntryAgrees
    <3>2. Distinct(<<>>) /\ \A w : ~In(w, <<>>)
      BY DEF Distinct, In
    <3> QED
      BY <2>1, <3>1, <3>2, <1>6
  <2>2. CASE t \notin M
    <3>1. /\ S[t].waiters = Without(E[t].waiters, M)
          /\ S[t].lifecycle \in {"Runnable", E[t].lifecycle}
      BY <2>2, <1>2, <1>3, <1>4, KeptEntryAgrees, WokenEntryAgrees
    <3>2. \A w \in Task : In(w, S[t].waiters) <=> SuspendedOn(S, w, "Awaiting", t)
      BY <2>2, <3>1, <1>3, <1>6 DEF Consistent, WaitersExact
    <3>3. ASSUME S[t].waiters # <<>>
          PROVE  Live(S, t)
      <4>1. S[t].waiters \in Seq(Task) /\ 1 \in DOMAIN S[t].waiters
        BY <3>1, <3>3, <1>3
      <4>2. In(S[t].waiters[1], E[t].waiters)
        BY <4>1, <3>1, <1>3 DEF In
      <4>3. E[t].waiters # <<>>
        BY <4>2 DEF In
      <4>4. Live(E, t)
        BY <4>3 DEF Consistent, WaitersExact
      <4> QED
        BY <4>4, <3>1 DEF Live
    <3> QED
      BY <3>1, <3>2, <3>3, <1>3
  <2> QED
    BY <2>1, <2>2
<1>8. S \in Table
  BY <1>1, <1>5 DEF Table
<1> QED
  BY <1>5, <1>7, <1>8 DEF Consistent, WaitersExact, S

\* What settling does to each task, field by field.
LEMMA SettleFields ==
  ASSUME NEW E, NEW M, Consistent(E), Settlable(E, M), NEW r \in Result, NEW u \in Task
  PROVE  /\ u \in M => /\ Settle(E, M, r)[u].lifecycle = ResultLifecycle(r)
                       /\ Settle(E, M, r)[u].lifecycle \in Terminal
                       /\ Settle(E, M, r)[u].result = r
                       /\ ~Settle(E, M, r)[u].resume
                       /\ ~Settle(E, M, r)[u].cancellation_requested
         /\ u \notin M => /\ Settle(E, M, r)[u].result = E[u].result
                          /\ Settle(E, M, r)[u].resume = E[u].resume
                          /\ Settle(E, M, r)[u].cancellation_requested
                               = E[u].cancellation_requested
                          /\ \/ Settle(E, M, r)[u].lifecycle = E[u].lifecycle
                             \/ /\ E[u].lifecycle = "Suspended"
                                /\ Settle(E, M, r)[u].lifecycle = "Runnable"
<1> DEFINE S == Settle(E, M, r)
           Wakes == \E m \in M : SuspendedOn(E, u, "Awaiting", m)
<1>1. S[u] = IF u \in M THEN SettledEntry(E[u], r)
             ELSE IF Wakes THEN WokenEntry(E[u], M) ELSE KeptEntry(E[u], M)
  BY SettleShape
<1>2. E[u] \in Entry /\ EntryAgrees(E[u]) /\ Without(E[u].waiters, M) \in Seq(Task)
  BY RemoveWaiterShape DEF Consistent
<1>3. Wakes => E[u].lifecycle = "Suspended"
  BY DEF SuspendedOn
<1> HIDE DEF S, Wakes
<1>4. CASE u \in M
  BY <1>4, <1>1, <1>2, SettledEntryAgrees DEF S
<1>5. CASE u \notin M /\ Wakes
  <2>1. S[u] = WokenEntry(E[u], M)
    BY <1>5, <1>1
  <2>2. /\ S[u].lifecycle = "Runnable" /\ S[u].result = E[u].result
        /\ S[u].resume = E[u].resume
        /\ S[u].cancellation_requested = E[u].cancellation_requested
    BY <2>1, <1>2, <1>3, <1>5, WokenEntryAgrees
  <2> QED
    BY <2>2, <1>3, <1>5 DEF S
<1>6. CASE u \notin M /\ ~Wakes
  <2>1. S[u] = KeptEntry(E[u], M)
    BY <1>6, <1>1
  <2>2. /\ S[u].lifecycle = E[u].lifecycle /\ S[u].result = E[u].result
        /\ S[u].resume = E[u].resume
        /\ S[u].cancellation_requested = E[u].cancellation_requested
    BY <2>1, <1>2, KeptEntryAgrees
  <2> QED
    BY <2>2, <1>6 DEF S
<1> QED
  BY <1>4, <1>5, <1>6

\* The await edges left after M settles: those among the others.
LEMMA SettleEdges ==
  ASSUME NEW E, NEW M, Consistent(E), Settlable(E, M), NEW r \in Result, NEW u \in Task,
         Settle(E, M, r)[u].lifecycle = "Suspended",
         Settle(E, M, r)[u].suspension = "Awaiting"
  PROVE  /\ u \notin M
         /\ E[u].lifecycle = "Suspended" /\ E[u].suspension = "Awaiting"
         /\ Settle(E, M, r)[u].on = E[u].on
<1> DEFINE S == Settle(E, M, r)
           Wakes == \E m \in M : SuspendedOn(E, u, "Awaiting", m)
<1>1. S[u] = IF u \in M THEN SettledEntry(E[u], r)
             ELSE IF Wakes THEN WokenEntry(E[u], M) ELSE KeptEntry(E[u], M)
  BY SettleShape
<1>2. E[u] \in Entry /\ EntryAgrees(E[u]) /\ Without(E[u].waiters, M) \in Seq(Task)
  BY RemoveWaiterShape DEF Consistent
<1>3. Wakes => E[u].lifecycle = "Suspended"
  BY DEF SuspendedOn
<1>4. S[u].lifecycle = "Suspended" /\ S[u].suspension = "Awaiting"
  OBVIOUS
<1> HIDE DEF S, Wakes
<1>5. u \notin M
  BY <1>1, <1>2, <1>4, SettledEntryAgrees DEF Terminal
<1>6. ~Wakes
  BY <1>1, <1>2, <1>3, <1>4, <1>5, WokenEntryAgrees
<1>7. S[u] = KeptEntry(E[u], M)
  BY <1>1, <1>5, <1>6
<1>8. S[u].lifecycle = E[u].lifecycle /\ S[u].suspension = E[u].suspension
      /\ S[u].on = E[u].on
  BY <1>2, <1>7, KeptEntryAgrees
<1> QED
  BY <1>4, <1>5, <1>8 DEF S

\* One live task is settlable: terminalize.
LEMMA OneTaskSettlable ==
  ASSUME NEW E, Consistent(E), NEW t \in Task, Live(E, t)
  PROVE  Settlable(E, {t})
BY DEF Settlable, AtMostOneOf, Consistent, WaitersExact, Distinct

\* The members of a wait cycle are settlable: fail_cycle.
LEMMA CycleSettlable ==
  ASSUME NEW E, Consistent(E), NEW c \in Seq(Task), IsWaitCycle(WaitEdges(E), c)
  PROVE  Settlable(E, ToSet(c))
<1> DEFINE n == Len(c)
           g == WaitEdges(E)
<1>1. n \in Nat /\ DOMAIN c = 1..n /\ \A i \in 1..n : c[i] \in Task
  OBVIOUS
<1>2. ToSet(c) = {c[i] : i \in 1..n}
  BY DEF ToSet
<1>5. \A i \in 1..n : g[c[i]] = c[Successor(c, i)]
  BY <1>1 DEF IsWaitCycle
<1>6. \A i, j \in 1..n : c[i] = c[j] => i = j
  BY <1>1 DEF IsWaitCycle
<1>0. \A i : Successor(c, i) = IF i = n THEN 1 ELSE i + 1
  BY DEF Successor
<1>7. \A u \in Task : g[u] \in Task => SuspendedOn(E, u, "Awaiting", g[u])
  BY NoTaskAssumption, MaxTasksAssumption DEF WaitEdges, SuspendedOn, Task
<1>8. \A u, t \in Task : SuspendedOn(E, u, "Awaiting", t) => g[u] = t
  BY DEF WaitEdges, SuspendedOn
<1> HIDE DEF g, n
<1>3. \A i \in 1..n : Successor(c, i) \in 1..n
  BY <1>0, <1>1
<1>4. \A i, j \in 1..n : Successor(c, i) = Successor(c, j) => i = j
  BY <1>0, <1>1
<1>9. \A i \in 1..n : Live(E, c[i])
  <2> TAKE i \in 1..n
  <2>1. g[c[i]] \in Task
    BY <1>1, <1>3, <1>5
  <2> QED
    BY <2>1, <1>1, <1>7 DEF SuspendedOn, Live
<1>10. ASSUME NEW t \in Task,
              NEW a \in DOMAIN E[t].waiters, NEW b \in DOMAIN E[t].waiters,
              E[t].waiters[a] \in ToSet(c), E[t].waiters[b] \in ToSet(c)
       PROVE  a = b
  <2>1. PICK i \in 1..n : E[t].waiters[a] = c[i]
    BY <1>10, <1>2
  <2>2. PICK j \in 1..n : E[t].waiters[b] = c[j]
    BY <1>10, <1>2
  <2>3. SuspendedOn(E, c[i], "Awaiting", t) /\ SuspendedOn(E, c[j], "Awaiting", t)
    BY <1>1, <2>1, <2>2 DEF Consistent, WaitersExact, In
  <2>4. g[c[i]] = t /\ g[c[j]] = t
    BY <2>3, <1>1, <1>8
  <2>5. c[Successor(c, i)] = c[Successor(c, j)]
    BY <2>4, <1>5
  <2>6. i = j
    BY <2>5, <1>3, <1>4, <1>6
  <2> QED
    BY <2>1, <2>2, <2>6 DEF Consistent, WaitersExact, Distinct
<1>11. ToSet(c) \subseteq Task /\ \A m \in ToSet(c) : Live(E, m)
  BY <1>1, <1>2, <1>9
<1> QED
  BY <1>10, <1>11 DEF Settlable, AtMostOneOf

\* The wait graph of a consistent table is one the detector is exact on.
LEMMA EdgesAreGraph ==
  ASSUME NEW E, Consistent(E)
  PROVE  WaitEdges(E) \in WaitGraph
BY DEF WaitEdges, WaitGraph, Consistent, EntryAgrees

\* Whatever the detector returns is nothing or a cycle of the wait graph.
LEMMA DetectedIsCycle ==
  ASSUME NEW g \in WaitGraph, DetectWaitCycle(g) # <<>>
  PROVE  /\ DetectWaitCycle(g) \in WaitCycles(g)
         /\ DetectWaitCycle(g) \in Seq(Task)
         /\ IsWaitCycle(g, DetectWaitCycle(g))
<1> DEFINE c == DetectWaitCycle(g)
<1>1. c \in WaitCycles(g)
  BY DetectsEveryCycle DEF DetectorIsExact
<1> HIDE DEF c
<1>2. IsWaitCycle(g, c)
  BY <1>1 DEF WaitCycles
<1>3. PICK n \in 1..MaxTasks : c \in [1..n -> Waiting(g)]
  BY <1>1 DEF WaitCycles
<1>4. Waiting(g) \subseteq Task /\ n \in Nat
  BY MaxTasksAssumption DEF Waiting
<1>5. c \in Seq(Task)
  BY <1>3, <1>4
<1> QED
  BY <1>1, <1>2, <1>5 DEF c

\* The detector misses no cycle.
LEMMA DetectorIsComplete ==
  ASSUME NEW g \in WaitGraph, DetectWaitCycle(g) = <<>>
  PROVE  WaitCycles(g) = {}
BY DetectsEveryCycle DEF DetectorIsExact

\* A cycle of g is one of h when h agrees with g on its members.
LEMMA CycleTransfer ==
  ASSUME NEW g, NEW h, NEW d \in WaitCycles(g),
         \A u \in Task : (\E i \in DOMAIN d : d[i] = u) => h[u] = g[u]
  PROVE  d \in WaitCycles(h)
<1>1. PICK n \in 1..MaxTasks : d \in [1..n -> Waiting(g)]
  BY DEF WaitCycles
<1>2. \A i \in 1..n : d[i] \in Task /\ g[d[i]] # NoTask /\ h[d[i]] = g[d[i]]
  BY <1>1 DEF Waiting
<1>3. d \in [1..n -> Waiting(h)]
  BY <1>1, <1>2 DEF Waiting
<1>4. IsWaitCycle(g, d)
  BY DEF WaitCycles
<1>5. IsWaitCycle(h, d)
  BY <1>1, <1>2, <1>4 DEF IsWaitCycle
<1> QED
  BY <1>3, <1>5 DEF WaitCycles

----------------------------------------------------------------------------
(* Changing one entry, and registering a waiter.                           *)

IsAwaiting(e) == e.lifecycle = "Suspended" /\ e.suspension = "Awaiting"

\* A change of one entry that leaves its waiter list and its awaiting status
\* alone keeps the table consistent.
LEMMA UpdateConsistent ==
  ASSUME NEW E, Consistent(E), NEW t \in Task, NEW e \in Entry, EntryAgrees(e),
         e.waiters = E[t].waiters,
         IsAwaiting(e) <=> IsAwaiting(E[t]),
         IsAwaiting(e) => e.on = E[t].on,
         e.waiters # <<>> => e.lifecycle \in {"Runnable", "Suspended"}
  PROVE  Consistent([E EXCEPT ![t] = e])
<1> DEFINE F == [E EXCEPT ![t] = e]
<1>1. F \in Table /\ F[t] = e /\ \A u \in Task \ {t} : F[u] = E[u]
  BY DEF Consistent, Table
<1> HIDE DEF F
<1>2. \A u \in Task : EntryAgrees(F[u])
  BY <1>1 DEF Consistent
<1>3. \A w, u \in Task : SuspendedOn(F, w, "Awaiting", u) <=> SuspendedOn(E, w, "Awaiting", u)
  BY <1>1 DEF SuspendedOn, IsAwaiting
<1>4. \A u \in Task : F[u].waiters = E[u].waiters
  BY <1>1
<1>5. \A u \in Task : F[u].waiters # <<>> => Live(F, u)
  BY <1>1 DEF Consistent, WaitersExact, Live
<1>6. WaitersExact(F)
  BY <1>3, <1>4, <1>5 DEF Consistent, WaitersExact
<1> QED
  BY <1>1, <1>2, <1>6 DEF Consistent, F

\* Registering a checked-out task as a waiter of a live one, possibly itself.
LEMMA RegisterConsistent ==
  ASSUME NEW E, Consistent(E), NEW w \in Task, CheckedOut(E, w),
         NEW t \in Task, Live(E, t)
  PROVE  /\ Consistent(RegisterWaiter(E, w, t))
         /\ \A u \in Task :
              /\ RegisterWaiter(E, w, t)[u].lifecycle
                   = IF u = w THEN "Suspended" ELSE E[u].lifecycle
              /\ RegisterWaiter(E, w, t)[u].resume = (u = w \/ E[u].resume)
              /\ RegisterWaiter(E, w, t)[u].result = E[u].result
              /\ RegisterWaiter(E, w, t)[u].cancellation_requested
                   = E[u].cancellation_requested
              /\ IsAwaiting(RegisterWaiter(E, w, t)[u]) <=> u = w \/ IsAwaiting(E[u])
              /\ RegisterWaiter(E, w, t)[u].on = IF u = w THEN t ELSE E[u].on
<1> DEFINE X == Suspend(E, w, "Awaiting", t)
           R == RegisterWaiter(E, w, t)
<1>1. E \in Table /\ \A u \in Task : E[u] \in Entry /\ E[u].waiters \in Seq(Task)
  BY DEF Consistent, Table, Entry
<1>2. t \in Blocker /\ "Awaiting" \in Suspension /\ "Suspended" \in Lifecycle
  BY DEF Blocker, Suspension, Lifecycle
<1>3. /\ X \in Table
      /\ \A u \in Task \ {w} : X[u] = E[u]
      /\ X[w].lifecycle = "Suspended" /\ X[w].suspension = "Awaiting" /\ X[w].on = t
      /\ X[w].resume /\ X[w].result = E[w].result /\ X[w].waiters = E[w].waiters
      /\ X[w].cancellation_requested = E[w].cancellation_requested
  BY <1>1, <1>2 DEF Suspend, Table, Entry
<1>4. R = [X EXCEPT ![t].waiters = Append(X[t].waiters, w)]
  BY DEF RegisterWaiter
<1> HIDE DEF X, R
<1>5. X[t].waiters = E[t].waiters
  BY <1>3
<1> DEFINE l == Append(E[t].waiters, w)
<1>6. /\ l \in Seq(Task)
      /\ Len(l) = Len(E[t].waiters) + 1
      /\ \A i \in 1..Len(E[t].waiters) : l[i] = E[t].waiters[i]
      /\ l[Len(E[t].waiters) + 1] = w
  BY <1>1
<1> HIDE DEF l
<1>7. /\ R \in Table
      /\ \A u \in Task : R[u].waiters = IF u = t THEN l ELSE E[u].waiters
      /\ \A u \in Task :
           /\ R[u].lifecycle = X[u].lifecycle /\ R[u].suspension = X[u].suspension
           /\ R[u].on = X[u].on /\ R[u].resume = X[u].resume
           /\ R[u].result = X[u].result
           /\ R[u].cancellation_requested = X[u].cancellation_requested
  <2> DEFINE e == [X[t] EXCEPT !.waiters = l]
  <2>1. R = [X EXCEPT ![t] = e]
    BY <1>3, <1>4, <1>5 DEF l, Table
  <2>2. /\ X[t] \in Entry
        /\ e \in Entry /\ e.waiters = l
        /\ e.lifecycle = X[t].lifecycle /\ e.suspension = X[t].suspension
        /\ e.on = X[t].on /\ e.resume = X[t].resume
        /\ e.result = X[t].result /\ e.cancellation_requested = X[t].cancellation_requested
    <3>1. X[t] \in Entry /\ l \in Seq(Task)
      BY <1>3, <1>6 DEF Table
    <3> QED
      BY <3>1 DEF Entry
  <2> HIDE DEF e
  <2>3. R \in Table /\ R[t] = e /\ \A u \in Task \ {t} : R[u] = X[u]
    BY <2>1, <2>2, <1>3 DEF Table
  <2>4. \A u \in Task : X[u].waiters = E[u].waiters
    BY <1>3
  <2> QED
    BY <2>2, <2>3, <2>4
<1>8. \A u \in Task : ~SuspendedOn(E, w, "Awaiting", u)
  BY DEF CheckedOut, SuspendedOn
<1>9. \A v, u \in Task :
        SuspendedOn(R, v, "Awaiting", u)
          <=> SuspendedOn(E, v, "Awaiting", u) \/ (v = w /\ u = t)
  BY <1>3, <1>7, <1>8 DEF SuspendedOn
<1>10. \A x : In(x, l) <=> In(x, E[t].waiters) \/ x = w
  <2> DEFINE n == Len(E[t].waiters)
  <2>1. n \in Nat /\ DOMAIN E[t].waiters = 1..n /\ DOMAIN l = 1..(n + 1)
    BY <1>1, <1>6
  <2>2. n + 1 \in 1..(n + 1) /\ \A i \in 1..(n + 1) : i \in 1..n \/ i = n + 1
    BY <2>1
  <2>3. 1..n \subseteq 1..(n + 1)
    BY <2>1
  <2> QED
    BY <2>1, <2>2, <2>3, <1>6 DEF In
<1>11. ~In(w, E[t].waiters)
  BY <1>8 DEF Consistent, WaitersExact
<1>12. Distinct(l)
  <2>1. Distinct(E[t].waiters)
    BY DEF Consistent, WaitersExact
  <2> QED
    BY <2>1, <1>1, <1>6, <1>11 DEF Distinct, In
<1>13. \A u \in Task : Live(E, u) => Live(R, u)
  BY <1>3, <1>7 DEF Live
<1>14. WaitersExact(R)
  BY <1>7, <1>9, <1>10, <1>12, <1>13 DEF Consistent, WaitersExact
<1>15. \A u \in Task : EntryAgrees(R[u])
  <2>1. EntryAgrees(R[w])
    BY <1>3, <1>7 DEF Consistent, EntryAgrees, CheckedOut, Terminal
  <2>2. \A u \in Task \ {w} : EntryAgrees(R[u])
    BY <1>3, <1>7 DEF Consistent, EntryAgrees
  <2> QED
    BY <2>1, <2>2
<1>16. \A u \in Task :
         /\ R[u].lifecycle = IF u = w THEN "Suspended" ELSE E[u].lifecycle
         /\ R[u].resume = (u = w \/ E[u].resume)
         /\ R[u].result = E[u].result
         /\ R[u].cancellation_requested = E[u].cancellation_requested
         /\ IsAwaiting(R[u]) <=> u = w \/ IsAwaiting(E[u])
         /\ R[u].on = IF u = w THEN t ELSE E[u].on
  <2> TAKE u \in Task
  <2>1. CASE u = w
    BY <2>1, <1>3, <1>7 DEF IsAwaiting
  <2>2. CASE u # w
    BY <2>2, <1>1, <1>3, <1>7 DEF Entry, IsAwaiting
  <2> QED
    BY <2>1, <2>2
<1>17. Consistent(R)
  BY <1>7, <1>14, <1>15 DEF Consistent
<1> QED
  BY <1>16, <1>17 DEF R

----------------------------------------------------------------------------
(* Who is reported as woken.                                               *)

\* A filter keeps the elements in K, in order.
LEMMA FilteredIs ==
  ASSUME NEW T, NEW K, NEW s \in Seq(T)
  PROVE  /\ Filtered(s, K) \in Seq(T)
         /\ \A x : In(x, Filtered(s, K)) <=> In(x, s) /\ x \in K
         /\ \A i, j \in DOMAIN Filtered(s, K) :
              i < j => \E a, b \in DOMAIN s :
                         a < b /\ s[a] = Filtered(s, K)[i] /\ s[b] = Filtered(s, K)[j]
<1> DEFINE n == Len(s)
           Next1(q, i) == IF s[i] \in K THEN Append(q, s[i]) ELSE q
           Equation(h) == h = [i \in 0..n |-> IF i = 0 THEN <<>> ELSE Next1(h[i - 1], i)]
           list == CHOOSE h : Equation(h)
           step == [i \in 1..n |-> [q \in Seq(T) |-> Next1(q, i)]]
<1>1. n \in Nat /\ DOMAIN s = 1..n /\ \A i \in 1..n : s[i] \in T
  OBVIOUS
<1>2. Filtered(s, K) = list[n]
  <2>1. Filtered(s, K) = (CHOOSE h : h = [i \in 0..n |-> IF i = 0 THEN <<>>
                            ELSE IF s[i] \in K THEN Append(h[i - 1], s[i]) ELSE h[i - 1]])[n]
    BY DEF Filtered
  <2> QED
    BY <2>1
<1> HIDE DEF n
<1>3. \A i \in 1..n, q \in Seq(T) : Next1(q, i) \in Seq(T)
  BY <1>1
<1>4. \E h : Equation(h)
  <2>1. step \in [1..n -> [Seq(T) -> Seq(T)]]
    BY <1>3
  <2>2. \A i \in 1..n, q \in Seq(T) : step[i][q] = Next1(q, i)
    OBVIOUS
  <2>3. <<>> \in Seq(T)
    OBVIOUS
  <2> HIDE DEF step, Next1
  <2>4. PICK f \in [0..n -> Seq(T)] : Computes(f, n, <<>>, step)
    BY <1>1, <2>1, <2>3, Computation
  <2>5. f[0] = <<>> /\ \A i \in 1..n : f[i] = step[i][f[i - 1]]
    BY <2>4 DEF Computes
  <2>6. ASSUME NEW i \in 0..n, i # 0 PROVE f[i] = Next1(f[i - 1], i)
    <3>1. i \in 1..n /\ i - 1 \in 0..n
      BY <1>1, <2>6
    <3> QED
      BY <2>2, <2>5, <3>1
  <2>7. Equation(f)
    BY <2>5, <2>6
  <2> HIDE DEF Equation
  <2> QED
    BY <2>7
<1>5. Equation(list)
  BY <1>4
<1> HIDE DEF list, Next1
<1>6. list = [i \in 0..n |-> IF i = 0 THEN <<>> ELSE Next1(list[i - 1], i)]
  BY <1>5
<1>7. /\ list[0] = <<>>
      /\ \A i \in 0..n : i # 0 => list[i] = Next1(list[i - 1], i)
  <2>1. 0 \in 0..n
    BY <1>1
  <2> QED
    BY <1>6, <2>1
<1> DEFINE InOrder(q, m) ==
             \A i, j \in DOMAIN q : i < j => \E a, b \in 1..m : a < b /\ s[a] = q[i] /\ s[b] = q[j]
           G == {i \in 0..n :
                   /\ list[i] \in Seq(T)
                   /\ \A t : In(t, list[i]) <=> t \in K /\ \E j \in 1..i : s[j] = t
                   /\ InOrder(list[i], i)}
<1>8. 0 \in G
  <2>1. <<>> \in Seq(T) /\ (\A t : ~In(t, <<>>)) /\ InOrder(<<>>, 0)
    BY DEF In
  <2>2. 0 \in 0..n /\ ~\E j \in 1..0 : TRUE
    BY <1>1
  <2> HIDE DEF InOrder
  <2> QED
    BY <1>7, <2>1, <2>2
<1>9. ASSUME NEW i \in 0..n, i < n, i \in G PROVE i + 1 \in G
  <2> DEFINE k == i + 1
  <2>1. k \in 1..n /\ k \in 0..n /\ k # 0 /\ k - 1 = i /\ k \notin 1..i
    BY <1>1, <1>9
  <2>5. \A j : j \in 1..k <=> j \in 1..i \/ j = k
    BY <1>9
  <2>8. \A j \in 1..i : j < k
    BY <1>9
  <2> HIDE DEF k
  <2>2. list[k] = Next1(list[i], k) /\ s[k] \in T
    BY <1>1, <1>7, <2>1
  <2>3. /\ list[i] \in Seq(T)
        /\ \A t : In(t, list[i]) <=> t \in K /\ \E j \in 1..i : s[j] = t
        /\ InOrder(list[i], i)
    BY <1>9
  <2>6. CASE s[k] \notin K
    <3>1. list[k] = list[i]
      BY <2>2, <2>6 DEF Next1
    <3>2. \A t : In(t, list[k]) <=> t \in K /\ \E j \in 1..k : s[j] = t
      BY <2>3, <2>5, <2>6, <3>1
    <3>3. InOrder(list[k], k)
      <4> SUFFICES ASSUME NEW e \in DOMAIN list[i], NEW j \in DOMAIN list[i], e < j
                   PROVE  \E a, b \in 1..k : a < b /\ s[a] = list[i][e] /\ s[b] = list[i][j]
        BY <3>1
      <4>1. \E a, b \in 1..i : a < b /\ s[a] = list[i][e] /\ s[b] = list[i][j]
        BY <2>3
      <4> QED
        BY <2>5, <4>1
    <3> HIDE DEF InOrder
    <3>4. k \in G
      BY <2>1, <2>3, <3>1, <3>2, <3>3
    <3> QED
      BY <3>4 DEF k
  <2>7. CASE s[k] \in K
    <3> DEFINE p == list[i]
               x == s[k]
               q == Append(p, x)
               m == Len(p)
    <3>1. list[k] = q
      BY <2>2, <2>7 DEF Next1
    <3>2. p \in Seq(T) /\ m \in Nat /\ DOMAIN p = 1..m
      BY <2>3
    <3>3. /\ q \in Seq(T) /\ DOMAIN q = 1..(m + 1)
          /\ q[m + 1] = x /\ \A j \in 1..m : q[j] = p[j]
      BY <2>2, <3>2
    <3> HIDE DEF q, m
    <3>4. \A j : j \in 1..(m + 1) <=> j \in 1..m \/ j = m + 1
      BY <3>2
    <3>5. \A t : In(t, q) <=> t = x \/ In(t, p)
      BY <3>2, <3>3, <3>4 DEF In
    <3>6. InOrder(p, i) /\ \A t : In(t, p) <=> t \in K /\ \E j \in 1..i : s[j] = t
      BY <2>3
    <3> HIDE DEF p
    <3>7. InOrder(q, k)
      <4> SUFFICES ASSUME NEW e \in 1..(m + 1), NEW j \in 1..(m + 1), e < j
                   PROVE  \E a, b \in 1..k : a < b /\ s[a] = q[e] /\ s[b] = q[j]
        BY <3>3
      <4>1. CASE j \in 1..m
        <5>1. e \in 1..m
          BY <3>2, <4>1
        <5>2. e \in DOMAIN p /\ j \in DOMAIN p
          BY <3>2, <4>1, <5>1
        <5>3. \E a, b \in 1..i : a < b /\ s[a] = p[e] /\ s[b] = p[j]
          BY <3>6, <5>2
        <5>4. q[e] = p[e] /\ q[j] = p[j]
          BY <3>3, <4>1, <5>1
        <5> QED
          BY <2>5, <5>3, <5>4
      <4>2. CASE j = m + 1
        <5>1. e \in 1..m
          BY <3>2, <4>2
        <5>2. In(p[e], p)
          BY <3>2, <5>1 DEF In
        <5>3. PICK a \in 1..i : s[a] = p[e]
          BY <3>6, <5>2
        <5>4. a < k /\ a \in 1..k /\ k \in 1..k
          BY <2>5, <2>8
        <5>5. s[k] = q[j] /\ s[a] = q[e]
          BY <3>3, <4>2, <5>1, <5>3
        <5> QED
          BY <5>4, <5>5
      <4> QED
        BY <3>4, <4>1, <4>2
    <3>8. \A t : In(t, q) <=> t \in K /\ \E j \in 1..k : s[j] = t
      BY <2>5, <2>7, <3>5, <3>6
    <3> HIDE DEF InOrder, x
    <3>9. k \in G
      BY <2>1, <3>1, <3>3, <3>7, <3>8
    <3> QED
      BY <3>9 DEF k
  <2> QED
    BY <2>6, <2>7
<1> HIDE DEF G
<1>10. \A i \in 0..n : i \in G
  BY <1>1, <1>8, <1>9, StepByStep
<1>11. n \in G
  BY <1>1, <1>10
<1>12. /\ list[n] \in Seq(T)
       /\ \A t : In(t, list[n]) <=> t \in K /\ \E j \in 1..n : s[j] = t
       /\ InOrder(list[n], n)
  BY <1>11 DEF G
<1>13. \A t : In(t, s) <=> \E j \in 1..n : s[j] = t
  BY <1>1 DEF In
<1>14. \A i, j \in DOMAIN list[n] :
         i < j => \E a, b \in DOMAIN s : a < b /\ s[a] = list[n][i] /\ s[b] = list[n][j]
  <2> SUFFICES ASSUME NEW i \in DOMAIN list[n], NEW j \in DOMAIN list[n], i < j
               PROVE  \E a, b \in DOMAIN s : a < b /\ s[a] = list[n][i] /\ s[b] = list[n][j]
    OBVIOUS
  <2>1. PICK a \in 1..n : \E b \in 1..n : a < b /\ s[a] = list[n][i] /\ s[b] = list[n][j]
    BY <1>12
  <2> QED
    BY <1>1, <2>1
<1> HIDE DEF InOrder
<1> QED
  BY <1>2, <1>12, <1>13, <1>14

\* A filter of a duplicate-free list has no duplicates.
LEMMA FilteredDistinct ==
  ASSUME NEW T, NEW K, NEW s \in Seq(T), Distinct(s)
  PROVE  Distinct(Filtered(s, K))
<1> DEFINE f == Filtered(s, K)
<1>1. f \in Seq(T) /\ DOMAIN f = 1..Len(f) /\ Len(f) \in Nat
  BY FilteredIs
<1>2. \A i, j \in DOMAIN f :
        i < j => \E a, b \in DOMAIN s : a < b /\ s[a] = f[i] /\ s[b] = f[j]
  BY FilteredIs
<1>3. \A a, b \in DOMAIN s : a < b => s[a] # s[b]
  BY DEF Distinct
<1> HIDE DEF f
<1>4. \A i, j \in DOMAIN f : i < j => f[i] # f[j]
  BY <1>2, <1>3
<1>5. \A i, j \in DOMAIN f : i < j \/ j < i \/ i = j
  BY <1>1
<1>6. Distinct(f)
  BY <1>4, <1>5 DEF Distinct
<1> QED
  BY <1>6 DEF f

\* wake_waiters reports the waiters still suspended on m, each once.
LEMMA AwakenedIs ==
  ASSUME NEW E, NEW m, E[m].waiters \in Seq(Task), Distinct(E[m].waiters)
  PROVE  /\ Awakened(E, m) \in Seq(Task)
         /\ Distinct(Awakened(E, m))
         /\ \A t : In(t, Awakened(E, m)) <=> IsAwakenedBy(E, m, t)
<1> DEFINE K == {t \in Task : SuspendedOn(E, t, "Awaiting", m)}
<1>1. Awakened(E, m) = Filtered(E[m].waiters, K)
  BY DEF Awakened
<1>2. \A t : In(t, E[m].waiters) => t \in Task
  BY DEF In
<1>3. \A t : In(t, E[m].waiters) /\ t \in K <=> IsAwakenedBy(E, m, t)
  BY <1>2 DEF IsAwakenedBy
<1> HIDE DEF K
<1> QED
  BY <1>1, <1>3, FilteredIs, FilteredDistinct

\* Two lists with nothing in common, one after the other.
LEMMA JoinedLists ==
  ASSUME NEW s \in Seq(Task), NEW p \in Seq(Task), Distinct(s), Distinct(p),
         \A t : ~(In(t, s) /\ In(t, p))
  PROVE  /\ s \o p \in Seq(Task)
         /\ Distinct(s \o p)
         /\ \A t : In(t, s \o p) <=> In(t, s) \/ In(t, p)
<1> DEFINE q == s \o p
           m == Len(s)
           k == Len(p)
<1>1. m \in Nat /\ k \in Nat /\ DOMAIN s = 1..m /\ DOMAIN p = 1..k
  OBVIOUS
<1>2. /\ q \in Seq(Task)
      /\ Len(q) = m + k
      /\ \A i \in 1..(m + k) : q[i] = IF i <= m THEN s[i] ELSE p[i - m]
  BY ConcatProperties
<1>3. DOMAIN q = 1..(m + k)
  BY <1>2
<1> HIDE DEF q, m, k
<1>4. \A i \in 1..m : i \in 1..(m + k) /\ q[i] = s[i]
  BY <1>1, <1>2
<1>5. ASSUME NEW i \in 1..k PROVE m + i \in 1..(m + k) /\ q[m + i] = p[i]
  <2>1. m + i \in 1..(m + k) /\ ~(m + i <= m) /\ (m + i) - m = i
    BY <1>1
  <2> QED
    BY <1>2, <2>1
<1>6. \A i \in 1..(m + k) : i \in 1..m \/ \E j \in 1..k : i = m + j
  <2> TAKE i \in 1..(m + k)
  <2>1. CASE i > m
    <3>1. i - m \in 1..k /\ i = m + (i - m)
      BY <1>1, <2>1
    <3> QED
      BY <3>1
  <2> QED
    BY <1>1, <2>1
<1>7. ASSUME NEW t
      PROVE  In(t, q) <=> In(t, s) \/ In(t, p)
  <2>1. ASSUME In(t, q) PROVE In(t, s) \/ In(t, p)
    <3>1. PICK i \in 1..(m + k) : q[i] = t
      BY <1>3, <2>1 DEF In
    <3>2. CASE i \in 1..m
      BY <1>1, <1>4, <3>1, <3>2 DEF In
    <3>3. CASE \E j \in 1..k : i = m + j
      <4>1. PICK j \in 1..k : i = m + j
        BY <3>3
      <4>2. p[j] = t
        BY <1>5, <3>1, <4>1
      <4> QED
        BY <1>1, <4>2 DEF In
    <3> QED
      BY <1>6, <3>2, <3>3
  <2>2. In(t, s) => In(t, q)
    BY <1>1, <1>3, <1>4 DEF In
  <2>3. In(t, p) => In(t, q)
    BY <1>1, <1>3, <1>5 DEF In
  <2> QED
    BY <2>1, <2>2, <2>3
<1>8. Distinct(q)
  <2> SUFFICES ASSUME NEW i \in 1..(m + k), NEW j \in 1..(m + k), q[i] = q[j]
               PROVE  i = j
    BY <1>3 DEF Distinct
  <2>1. CASE i \in 1..m /\ j \in 1..m
    BY <1>1, <1>4, <2>1 DEF Distinct
  <2>5. ASSUME NEW a \in 1..m, NEW b \in 1..k, s[a] = p[b] PROVE FALSE
    <3>1. In(p[b], s) /\ In(p[b], p)
      BY <1>1, <2>5 DEF In
    <3> QED
      BY <3>1
  <2>2. CASE i \in 1..m /\ \E b \in 1..k : j = m + b
    <3>1. PICK b \in 1..k : j = m + b
      BY <2>2
    <3>2. s[i] = p[b]
      BY <1>4, <1>5, <2>2, <3>1
    <3> QED
      BY <2>2, <2>5, <3>2
  <2>3. CASE j \in 1..m /\ \E b \in 1..k : i = m + b
    <3>1. PICK b \in 1..k : i = m + b
      BY <2>3
    <3>2. s[j] = p[b]
      BY <1>4, <1>5, <2>3, <3>1
    <3> QED
      BY <2>3, <2>5, <3>2
  <2>4. CASE (\E b \in 1..k : i = m + b) /\ (\E b \in 1..k : j = m + b)
    <3>1. PICK a \in 1..k : i = m + a
      BY <2>4
    <3>2. PICK b \in 1..k : j = m + b
      BY <2>4
    <3>3. p[a] = p[b]
      BY <1>5, <3>1, <3>2
    <3>4. a = b
      BY <1>1, <3>3 DEF Distinct
    <3> QED
      BY <3>1, <3>2, <3>4
  <2> QED
    BY <1>6, <2>1, <2>2, <2>3, <2>4
<1> QED
  BY <1>2, <1>7, <1>8 DEF q

\* fail_cycle reports what the members of the cycle awaken, one after the
\* other; no task awaits two of them, so none is reported twice.
LEMMA AwakenedByCycleIs ==
  ASSUME NEW E, NEW c \in Seq(Task), \A i, j \in DOMAIN c : c[i] = c[j] => i = j,
         Consistent(E), Settlable(E, ToSet(c))
  PROVE  /\ AwakenedByFailCycle(E, c) \in Seq(Task)
         /\ Distinct(AwakenedByFailCycle(E, c))
         /\ \A t : In(t, AwakenedByFailCycle(E, c))
                     <=> \E m \in ToSet(c) :
                           IsAwakenedBy(SettledTogether(E, ToSet(c), "Failed"), m, t)
<1> DEFINE F == SettledTogether(E, ToSet(c), "Failed")
           n == Len(c)
           Part(i) == Awakened(F, c[i])
           Equation(h) == h = [i \in 0..n |-> IF i = 0 THEN <<>> ELSE h[i - 1] \o Part(i)]
           list == CHOOSE h : Equation(h)
           step == [i \in 1..n |-> [s \in Seq(Task) |-> s \o Part(i)]]
<1>1. n \in Nat /\ DOMAIN c = 1..n /\ \A i \in 1..n : c[i] \in Task
  OBVIOUS
<1>0. ToSet(c) = {c[i] : i \in 1..n}
  BY <1>1 DEF ToSet
<1>2. AwakenedByFailCycle(E, c) = list[n]
  BY DEF AwakenedByFailCycle
<1>3. ASSUME NEW i \in 1..n
      PROVE  /\ Part(i) \in Seq(Task)
             /\ Distinct(Part(i))
             /\ \A t : In(t, Part(i)) <=> IsAwakenedBy(F, c[i], t)
  <2>1. c[i] \in Task /\ c[i] \in ToSet(c)
    BY <1>0, <1>1
  <2>2. /\ E[c[i]] \in Entry
        /\ RemoveWaiter(E, ToSet(c))[c[i]]
             = [E[c[i]] EXCEPT !.waiters = Without(E[c[i]].waiters, ToSet(c))]
        /\ Without(E[c[i]].waiters, ToSet(c)) \in Seq(Task)
        /\ Distinct(Without(E[c[i]].waiters, ToSet(c)))
    BY <2>1, RemoveWaiterShape
  <2>3. F[c[i]] = Settled(RemoveWaiter(E, ToSet(c))[c[i]], "Failed")
    BY <2>1 DEF SettledTogether
  <2>4. F[c[i]].waiters = Without(E[c[i]].waiters, ToSet(c))
    BY <2>2, <2>3 DEF Settled, Entry
  <2> HIDE DEF F
  <2> QED
    BY <2>2, <2>4, AwakenedIs
<1> HIDE DEF F, Part, n
<1>4. \E h : Equation(h)
  <2>1. step \in [1..n -> [Seq(Task) -> Seq(Task)]]
    BY <1>3
  <2>2. \A i \in 1..n, s \in Seq(Task) : step[i][s] = s \o Part(i)
    OBVIOUS
  <2>3. <<>> \in Seq(Task)
    OBVIOUS
  <2> HIDE DEF step
  <2>4. PICK f \in [0..n -> Seq(Task)] : Computes(f, n, <<>>, step)
    BY <1>1, <2>1, <2>3, Computation
  <2>5. f[0] = <<>> /\ \A i \in 1..n : f[i] = step[i][f[i - 1]]
    BY <2>4 DEF Computes
  <2>6. ASSUME NEW i \in 0..n, i # 0 PROVE f[i] = f[i - 1] \o Part(i)
    <3>1. i \in 1..n /\ i - 1 \in 0..n
      BY <1>1, <2>6
    <3> QED
      BY <2>2, <2>5, <3>1
  <2>7. Equation(f)
    BY <2>5, <2>6
  <2> HIDE DEF Equation
  <2> QED
    BY <2>7
<1>5. Equation(list)
  BY <1>4
<1> HIDE DEF list
<1>6. list = [i \in 0..n |-> IF i = 0 THEN <<>> ELSE list[i - 1] \o Part(i)]
  BY <1>5
<1>7. /\ list[0] = <<>>
      /\ \A i \in 0..n : i # 0 => list[i] = list[i - 1] \o Part(i)
  <2>1. 0 \in 0..n
    BY <1>1
  <2> QED
    BY <1>6, <2>1
<1>14. \A i, j \in 1..n : \A t : IsAwakenedBy(F, c[i], t) /\ IsAwakenedBy(F, c[j], t) => i = j
  BY <1>1 DEF IsAwakenedBy, SuspendedOn
<1> DEFINE G == {i \in 0..n :
                   /\ list[i] \in Seq(Task)
                   /\ Distinct(list[i])
                   /\ \A t : In(t, list[i]) <=> \E j \in 1..i : IsAwakenedBy(F, c[j], t)}
<1>8. 0 \in G
  <2>1. <<>> \in Seq(Task) /\ Distinct(<<>>) /\ \A t : ~In(t, <<>>)
    BY DEF Distinct, In
  <2>2. 0 \in 0..n /\ ~\E j \in 1..0 : TRUE
    BY <1>1
  <2> QED
    BY <1>7, <2>1, <2>2
<1>9. ASSUME NEW i \in 0..n, i < n, i \in G PROVE i + 1 \in G
  <2> DEFINE s == list[i]
             p == Part(i + 1)
             q == s \o p
  <2>1. i + 1 \in 1..n /\ i + 1 \in 0..n /\ (i + 1) - 1 = i
    BY <1>1, <1>9
  <2>2. list[i + 1] = q
    <3> DEFINE k == i + 1
    <3>3. k \in 0..n /\ k # 0
      BY <2>1
    <3> HIDE DEF k
    <3>4. list[k] = list[k - 1] \o Part(k)
      BY <1>7, <3>3
    <3>1. list[i + 1] = list[(i + 1) - 1] \o Part(i + 1)
      BY <3>4 DEF k
    <3>2. list[(i + 1) - 1] = list[i]
      BY <2>1
    <3> QED
      BY <3>1, <3>2
  <2>3. /\ s \in Seq(Task)
        /\ Distinct(s)
        /\ \A t : In(t, s) <=> \E j \in 1..i : IsAwakenedBy(F, c[j], t)
    BY <1>9
  <2>4. /\ p \in Seq(Task)
        /\ Distinct(p)
        /\ \A t : In(t, p) <=> IsAwakenedBy(F, c[i + 1], t)
    BY <1>3, <2>1
  <2>5. \A t : ~(In(t, s) /\ In(t, p))
    <3>1. \A j \in 1..i : j \in 1..n /\ j # i + 1
      BY <1>1, <1>9
    <3> QED
      BY <1>14, <2>1, <2>3, <2>4, <3>1
  <2>6. \A t : (\E j \in 1..(i + 1) : IsAwakenedBy(F, c[j], t))
                 <=> IsAwakenedBy(F, c[i + 1], t) \/ \E j \in 1..i : IsAwakenedBy(F, c[j], t)
    <3>1. \A j : j \in 1..(i + 1) <=> j \in 1..i \/ j = i + 1
      BY <1>9
    <3> QED
      BY <3>1
  <2> HIDE DEF s, p
  <2>7. q \in Seq(Task) /\ Distinct(q) /\ \A t : In(t, q) <=> In(t, s) \/ In(t, p)
    BY <2>3, <2>4, <2>5, JoinedLists
  <2> HIDE DEF q
  <2>8. \A t : In(t, q) <=> \E j \in 1..(i + 1) : IsAwakenedBy(F, c[j], t)
    BY <2>3, <2>4, <2>6, <2>7
  <2> QED
    BY <2>1, <2>2, <2>7, <2>8
<1> HIDE DEF G
<1>10. \A i \in 0..n : i \in G
  BY <1>1, <1>8, <1>9, StepByStep
<1>11. n \in G
  BY <1>1, <1>10
<1>12. /\ list[n] \in Seq(Task) /\ Distinct(list[n])
       /\ \A t : In(t, list[n]) <=> \E j \in 1..n : IsAwakenedBy(F, c[j], t)
  BY <1>11 DEF G
<1> QED
  BY <1>0, <1>2, <1>12 DEF F

----------------------------------------------------------------------------
(* The scheduler.                                                          *)

IInv ==
  /\ TypeOK
  /\ TokenHasOneOwner
  /\ EntriesAgree
  /\ WaitersAreExact
  /\ ClosedIsDrained

----------------------------------------------------------------------------
(* The invariant of a table E whose tokens in h are out, with n tasks      *)
(* spawned and the scope closed or not.                                    *)

OneOwner(E, h) ==
  \A t \in Task :
    /\ E[t].resume => t \notin h
    /\ E[t].lifecycle = "Runnable" => (E[t].resume <=> t \notin h)
    /\ ~InvalidOwnership(E, t)
    /\ E[t].lifecycle = "Absent" => t \notin h /\ ~E[t].resume

Drained(E) == \A t \in Task : ~Live(E, t) /\ ~E[t].resume /\ E[t].waiters = <<>>

TableInv(E, h, n, over) ==
  /\ Consistent(E)
  /\ h \subseteq Task
  /\ \A t \in Task : Present(E, t) <=> t < n
  /\ OneOwner(E, h)
  /\ over => Drained(E)

LEMMA IInvIsTableInv ==
  IInv <=> /\ next_spawn \in 1..MaxTasks
           /\ closed \in BOOLEAN
           /\ TableInv(entries, held, next_spawn, closed)
BY DEF IInv, TypeOK, EntriesAgree, WaitersAreExact, Consistent, TokenHasOneOwner,
       ClosedIsDrained, TableInv, OneOwner, Drained

LEMMA IInvIsTableInvPrimed ==
  IInv' <=> /\ next_spawn' \in 1..MaxTasks
            /\ closed' \in BOOLEAN
            /\ TableInv(entries', held', next_spawn', closed')
BY DEF IInv, TypeOK, EntriesAgree, WaitersAreExact, Consistent, TokenHasOneOwner,
       ClosedIsDrained, TableInv, OneOwner, Drained

\* Changing one spawned entry.
LEMMA UpdateStep ==
  ASSUME NEW E, NEW h, NEW n, NEW over, TableInv(E, h, n, over),
         NEW t \in Task, NEW e \in Entry, EntryAgrees(e), Present(E, t),
         e.lifecycle # "Absent",
         e.waiters = E[t].waiters,
         IsAwaiting(e) <=> IsAwaiting(E[t]),
         IsAwaiting(e) => e.on = E[t].on,
         e.waiters # <<>> => e.lifecycle \in {"Runnable", "Suspended"},
         NEW k \in SUBSET Task, k \ {t} = h \ {t},
         e.lifecycle = "Runnable" => (e.resume <=> t \notin k),
         e.lifecycle = "Suspended" => e.resume /\ t \notin k,
         e.lifecycle \in Terminal => ~e.resume,
         over => e.lifecycle \in Terminal
  PROVE  TableInv([E EXCEPT ![t] = e], k, n, over)
<1> DEFINE F == [E EXCEPT ![t] = e]
<1>1. Consistent(F)
  BY UpdateConsistent DEF TableInv
<1>2. F[t] = e /\ \A u \in Task \ {t} : F[u] = E[u]
  BY DEF TableInv, Consistent, Table
<1> HIDE DEF F
<1>3. \A u \in Task : Present(F, u) <=> u < n
  BY <1>2 DEF TableInv, Present
<1>4. e.lifecycle \in {"Runnable", "Suspended"} \cup Terminal
  BY DEF Entry, Lifecycle, Terminal
<1>5. OneOwner(F, k)
  BY <1>2, <1>4 DEF TableInv, OneOwner, InvalidOwnership, Terminal
<1>6. over => Drained(F)
  BY <1>2 DEF TableInv, Drained, Live, Terminal
<1> QED
  BY <1>1, <1>3, <1>5, <1>6 DEF TableInv, F

\* Settling live tasks, whose tokens the driver may let go of.
LEMMA SettleStep ==
  ASSUME NEW E, NEW h, NEW n, NEW over, TableInv(E, h, n, over),
         NEW M, Settlable(E, M), M # {}, NEW r \in Result,
         NEW k \in SUBSET h, h \ k \subseteq M
  PROVE  TableInv(Settle(E, M, r), k, n, over)
<1> DEFINE F == Settle(E, M, r)
<1>1. Consistent(E) /\ Consistent(F)
  BY SettleConsistent DEF TableInv
<1>2. \A u \in Task :
        /\ u \in M => F[u].lifecycle \in Terminal /\ ~F[u].resume
        /\ u \notin M => /\ F[u].resume = E[u].resume
                         /\ \/ F[u].lifecycle = E[u].lifecycle
                            \/ E[u].lifecycle = "Suspended" /\ F[u].lifecycle = "Runnable"
  BY <1>1, SettleFields
<1>3. ~over
  BY DEF TableInv, Drained, Settlable
<1>4. \A u \in M : u \in Task /\ Live(E, u)
  BY DEF Settlable
<1> HIDE DEF F
<1>5. \A u \in Task : Present(F, u) <=> u < n
  BY <1>2, <1>4 DEF TableInv, Present, Live, Terminal
<1>6. OneOwner(F, k)
  <2> SUFFICES ASSUME NEW u \in Task
               PROVE  /\ F[u].resume => u \notin k
                      /\ F[u].lifecycle = "Runnable" => (F[u].resume <=> u \notin k)
                      /\ ~InvalidOwnership(F, u)
                      /\ F[u].lifecycle = "Absent" => u \notin k /\ ~F[u].resume
    BY DEF OneOwner
  <2>1. CASE u \in M
    BY <2>1, <1>2 DEF Terminal, InvalidOwnership
  <2>2. CASE u \notin M
    <3>1. u \in k <=> u \in h
      BY <2>2
    <3> QED
      BY <2>2, <3>1, <1>2 DEF TableInv, OneOwner, InvalidOwnership, Terminal
  <2> QED
    BY <2>1, <2>2
<1> QED
  BY <1>1, <1>3, <1>5, <1>6 DEF TableInv, F

\* Registering a waiter.
LEMMA RegisterStep ==
  ASSUME NEW E, NEW h, NEW n, NEW over, TableInv(E, h, n, over),
         NEW w \in Task, CheckedOut(E, w), NEW t \in Task, Live(E, t)
  PROVE  TableInv(RegisterWaiter(E, w, t), h \ {w}, n, over)
<1> DEFINE F == RegisterWaiter(E, w, t)
<1>1. /\ Consistent(F)
      /\ \A u \in Task : /\ F[u].lifecycle = IF u = w THEN "Suspended" ELSE E[u].lifecycle
                         /\ F[u].resume = (u = w \/ E[u].resume)
  BY RegisterConsistent DEF TableInv
<1>2. ~over
  BY DEF TableInv, Drained
<1>3. \A u \in Task : E[u].resume \in BOOLEAN
  BY DEF TableInv, Consistent, Table, Entry
<1> HIDE DEF F
<1>4. \A u \in Task : Present(F, u) <=> u < n
  BY <1>1 DEF TableInv, Present, CheckedOut
<1>5. OneOwner(F, h \ {w})
  BY <1>1, <1>3 DEF TableInv, OneOwner, InvalidOwnership, Terminal
<1> QED
  BY <1>1, <1>2, <1>4, <1>5 DEF TableInv, F

\* The initial table: the body task alone, runnable.
LEMMA InitConsistent == Init => IInv
<1> SUFFICES ASSUME Init PROVE IInv
  OBVIOUS
<1>1. 0 \in Task /\ next_spawn = 1 /\ 1 \in 1..MaxTasks
  BY MaxTasksAssumption DEF Init, Task
<1>2. <<>> \in Seq(Task) /\ Nothing \in Blocker
  BY DEF Blocker
<1>3. AbsentEntry \in Entry /\ SpawnedEntry \in Entry
  BY <1>2 DEF AbsentEntry, SpawnedEntry, Entry, Lifecycle
<1>4. \A t \in Task : entries[t] = IF t = 0 THEN SpawnedEntry ELSE AbsentEntry
  BY DEF Init
<1>5. entries \in Table
  BY <1>3 DEF Init, Table
<1>6. EntryAgrees(AbsentEntry) /\ EntryAgrees(SpawnedEntry)
  BY DEF EntryAgrees, AbsentEntry, SpawnedEntry, Terminal
<1>7. AbsentEntry.waiters = <<>> /\ SpawnedEntry.waiters = <<>>
  BY DEF AbsentEntry, SpawnedEntry
<1>8. AbsentEntry.lifecycle = "Absent" /\ SpawnedEntry.lifecycle = "Runnable"
      /\ ~AbsentEntry.resume /\ SpawnedEntry.resume
  BY DEF AbsentEntry, SpawnedEntry
<1>9. WaitersExact(entries)
  BY <1>4, <1>7, <1>8 DEF WaitersExact, In, Distinct, SuspendedOn
<1>10. Consistent(entries)
  BY <1>4, <1>5, <1>6, <1>9 DEF Consistent
<1>11. \A t \in Task : Present(entries, t) <=> t < next_spawn
  BY <1>1, <1>4, <1>8 DEF Present, Task
<1>12. OneOwner(entries, held)
  BY <1>4, <1>8 DEF OneOwner, InvalidOwnership, Terminal, Init
<1> QED
  BY <1>1, <1>10, <1>11, <1>12, IInvIsTableInv DEF Init, TableInv

----------------------------------------------------------------------------
(* One lemma per operation: it preserves the invariant.                    *)

LEMMA SpawnInv == IInv /\ Spawn => IInv'
<1> SUFFICES ASSUME IInv, Spawn PROVE IInv'
  OBVIOUS
<1> DEFINE t == next_spawn
           F == [entries EXCEPT ![t] = SpawnedEntry]
<1>1. TableInv(entries, held, next_spawn, closed) /\ next_spawn \in 1..MaxTasks
  BY IInvIsTableInv
<1>2. t \in Task /\ next_spawn + 1 \in 1..MaxTasks
  BY <1>1, MaxTasksAssumption DEF Spawn, Task
<1>3. ~Present(entries, t)
  BY <1>1, <1>2 DEF TableInv
<1>4. /\ entries[t].waiters = <<>> /\ ~IsAwaiting(entries[t])
      /\ ~entries[t].resume /\ t \notin held
  BY <1>1, <1>2, <1>3
     DEF TableInv, Consistent, WaitersExact, Present, Live, IsAwaiting, OneOwner
<1>5. /\ SpawnedEntry \in Entry /\ EntryAgrees(SpawnedEntry)
      /\ SpawnedEntry.waiters = <<>> /\ ~IsAwaiting(SpawnedEntry)
      /\ SpawnedEntry.lifecycle = "Runnable" /\ SpawnedEntry.resume
  <2>1. <<>> \in Seq(Task) /\ Nothing \in Blocker
    BY DEF Blocker
  <2> QED
    BY <2>1 DEF SpawnedEntry, AbsentEntry, Entry, Lifecycle, EntryAgrees, Terminal, IsAwaiting
<1>6. Consistent(F)
  BY <1>1, <1>2, <1>4, <1>5, UpdateConsistent DEF TableInv
<1>7. F[t] = SpawnedEntry /\ \A u \in Task \ {t} : F[u] = entries[u]
  BY <1>1, <1>2 DEF TableInv, Consistent, Table
<1>8. \A u \in Task : Present(F, u) <=> u < next_spawn + 1
  BY <1>1, <1>2, <1>5, <1>7 DEF TableInv, Present, Task
<1>9. OneOwner(F, held)
  BY <1>1, <1>4, <1>5, <1>7 DEF TableInv, OneOwner, InvalidOwnership, Terminal
<1>10. entries' = F /\ next_spawn' = next_spawn + 1 /\ closed' = FALSE /\ held' = held
  BY DEF Spawn
<1>11. TableInv(F, held, next_spawn + 1, FALSE)
  BY <1>1, <1>6, <1>8, <1>9 DEF TableInv
<1> HIDE DEF F
<1> QED
  BY <1>2, <1>10, <1>11, IInvIsTableInvPrimed

\* What an operation on a spawned task starts from.
LEMMA EntryFacts ==
  ASSUME IInv, NEW t \in Task
  PROVE  /\ TableInv(entries, held, next_spawn, closed)
         /\ next_spawn \in 1..MaxTasks /\ closed \in BOOLEAN
         /\ entries[t] \in Entry /\ EntryAgrees(entries[t])
         /\ entries[t].waiters # <<>> => entries[t].lifecycle \in {"Runnable", "Suspended"}
         /\ closed => ~Live(entries, t)
BY IInvIsTableInv DEF TableInv, Consistent, Table, WaitersExact, Live, Drained

LEMMA NextTableInv ==
  ASSUME IInv, next_spawn' = next_spawn, closed' = closed,
         TableInv(entries', held', next_spawn, closed)
  PROVE  IInv'
BY IInvIsTableInv, IInvIsTableInvPrimed

\* Moving a token in or out of an entry, or noting a cancellation request.
LEMMA FieldUpdates ==
  ASSUME NEW x \in Entry, EntryAgrees(x), NEW b \in BOOLEAN
  PROVE  /\ x.lifecycle \in {"Runnable", "Suspended"} =>
              /\ [x EXCEPT !.cancellation_requested = b] \in Entry
              /\ EntryAgrees([x EXCEPT !.cancellation_requested = b])
              /\ [x EXCEPT !.cancellation_requested = b].resume = x.resume
              /\ [x EXCEPT !.cancellation_requested = b].lifecycle = x.lifecycle
              /\ [x EXCEPT !.cancellation_requested = b].suspension = x.suspension
              /\ [x EXCEPT !.cancellation_requested = b].on = x.on
              /\ [x EXCEPT !.cancellation_requested = b].waiters = x.waiters
         /\ [x EXCEPT !.resume = b] \in Entry
         /\ EntryAgrees([x EXCEPT !.resume = b])
         /\ [x EXCEPT !.resume = b].resume = b
         /\ [x EXCEPT !.resume = b].lifecycle = x.lifecycle
         /\ [x EXCEPT !.resume = b].suspension = x.suspension
         /\ [x EXCEPT !.resume = b].on = x.on
         /\ [x EXCEPT !.resume = b].waiters = x.waiters
BY DEF Entry, EntryAgrees

LEMMA CheckoutInv == ASSUME IInv, NEW t \in Task, Checkout(t) PROVE IInv'
<1> DEFINE e == [entries[t] EXCEPT !.resume = FALSE]
<1>1. e \in Entry /\ EntryAgrees(e)
  BY EntryFacts, FieldUpdates
<1>2. /\ e.lifecycle = "Runnable" /\ ~e.resume /\ e.waiters = entries[t].waiters
      /\ entries[t].lifecycle = "Runnable"
  BY EntryFacts, FieldUpdates DEF Checkout
<1>3. entries' = [entries EXCEPT ![t] = e] /\ held' = held \cup {t}
  BY DEF Checkout
<1> HIDE DEF e
<1>4. ~closed
  BY <1>2, EntryFacts DEF Live
<1>5. held \cup {t} \in SUBSET Task
  BY EntryFacts DEF TableInv
<1>6. TableInv([entries EXCEPT ![t] = e], held \cup {t}, next_spawn, closed)
  BY <1>1, <1>2, <1>4, <1>5, EntryFacts, UpdateStep DEF Present, IsAwaiting, Terminal
<1> QED
  BY <1>3, <1>6, NextTableInv DEF Checkout

\* The driver drops the token of a settled task.
LEMMA ReleaseStep ==
  ASSUME NEW E, NEW h, NEW n, NEW over, TableInv(E, h, n, over),
         NEW t \in Task, E[t].lifecycle \in Terminal
  PROVE  TableInv(E, h \ {t}, n, over)
BY DEF TableInv, OneOwner, InvalidOwnership, Terminal

LEMMA RestoreInv == ASSUME IInv, NEW t \in Task, RestoreCheckout(t) PROVE IInv'
<1> DEFINE e == [entries[t] EXCEPT !.resume = TRUE]
<1>1. t \in held /\ held' = held \ {t} /\ held \ {t} \in SUBSET Task
  BY EntryFacts DEF RestoreCheckout, TableInv
<1>2. CASE CheckedOut(entries, t)
  <2>1. entries' = [entries EXCEPT ![t] = e]
    BY <1>2 DEF RestoreCheckout
  <2>2. e \in Entry /\ EntryAgrees(e)
    BY EntryFacts, FieldUpdates
  <2>3. /\ e.lifecycle = "Runnable" /\ e.resume /\ e.waiters = entries[t].waiters
        /\ entries[t].lifecycle = "Runnable"
    BY <1>2, EntryFacts, FieldUpdates DEF CheckedOut
  <2> HIDE DEF e
  <2>4. ~closed
    BY <2>3, EntryFacts DEF Live
  <2>5. TableInv([entries EXCEPT ![t] = e], held \ {t}, next_spawn, closed)
    BY <1>1, <2>2, <2>3, <2>4, EntryFacts, UpdateStep DEF Present, IsAwaiting, Terminal
  <2> QED
    BY <1>1, <2>1, <2>5, NextTableInv DEF RestoreCheckout
<1>3. CASE ~CheckedOut(entries, t)
  <2>1. entries' = entries
    BY <1>3 DEF RestoreCheckout
  <2>2. TableInv(entries, held, next_spawn, closed) /\ entries[t] \in Entry
    BY EntryFacts
  <2>3. entries[t].lifecycle \in Terminal
    BY <1>1, <1>3, <2>2
       DEF TableInv, OneOwner, InvalidOwnership, CheckedOut, Terminal, Entry, Lifecycle
  <2>4. TableInv(entries, held \ {t}, next_spawn, closed)
    BY <2>2, <2>3, ReleaseStep
  <2> QED
    BY <1>1, <2>1, <2>4, NextTableInv DEF RestoreCheckout
<1> QED
  BY <1>2, <1>3

\* Suspending a checked-out task on anything but an await.
LEMMA SuspendInv ==
  ASSUME IInv, NEW t \in Task, NEW reason \in Suspension \ {"Awaiting"},
         NEW blocker \in BlockerFor(reason), SuspendTask(t, reason, blocker)
  PROVE  IInv'
<1> DEFINE e == [entries[t] EXCEPT !.lifecycle = "Suspended", !.suspension = reason,
                                   !.on = blocker, !.resume = TRUE]
<1>1. entries' = [entries EXCEPT ![t] = e] /\ held' = held \ {t}
  BY DEF SuspendTask, Suspend
<1>2. blocker \in Blocker
  BY DEF BlockerFor, RegistrationArgument, Blocker, Suspension
<1>3. /\ entries[t] \in Entry /\ EntryAgrees(entries[t])
      /\ entries[t].lifecycle = "Runnable"
  BY EntryFacts DEF SuspendTask, CheckedOut
<1>4. /\ e \in Entry /\ e.lifecycle = "Suspended" /\ e.suspension = reason
      /\ e.resume /\ e.waiters = entries[t].waiters
  BY <1>2, <1>3 DEF Entry, Lifecycle
<1>5. EntryAgrees(e)
  BY <1>3 DEF Entry, EntryAgrees, Terminal, Suspension
<1> HIDE DEF e
<1>6. ~closed /\ held \ {t} \in SUBSET Task
  BY <1>3, EntryFacts DEF Live, TableInv
<1>7. TableInv([entries EXCEPT ![t] = e], held \ {t}, next_spawn, closed)
  BY <1>3, <1>4, <1>5, <1>6, EntryFacts, UpdateStep DEF Present, IsAwaiting, Terminal
<1> QED
  BY <1>1, <1>7, NextTableInv DEF SuspendTask

LEMMA WakeInv ==
  ASSUME IInv, NEW t \in Task, NEW reason \in Suspension \ {"Awaiting"},
         NEW blocker, WakeTask(t, reason, blocker)
  PROVE  IInv'
<1> DEFINE e == [entries[t] EXCEPT !.lifecycle = "Runnable", !.suspension = "None",
                                   !.on = Nothing]
<1>1. entries' = [entries EXCEPT ![t] = e] /\ held' = held
  BY DEF WakeTask, Wake
<1>2. /\ entries[t] \in Entry /\ EntryAgrees(entries[t])
      /\ entries[t].lifecycle = "Suspended" /\ entries[t].suspension = reason
      /\ entries[t].resume
  BY EntryFacts DEF WakeTask, SuspendedOn
<1>3. /\ e \in Entry /\ e.lifecycle = "Runnable"
      /\ e.resume /\ e.waiters = entries[t].waiters
  BY <1>2 DEF Entry, Lifecycle, Blocker
<1>4. EntryAgrees(e)
  BY <1>2 DEF Entry, EntryAgrees, Terminal
<1> HIDE DEF e
<1>5. ~closed /\ t \notin held /\ held \in SUBSET Task
  BY <1>2, EntryFacts DEF Live, TableInv, OneOwner
<1>6. TableInv([entries EXCEPT ![t] = e], held, next_spawn, closed)
  BY <1>2, <1>3, <1>4, <1>5, EntryFacts, UpdateStep DEF Present, IsAwaiting, Terminal
<1> QED
  BY <1>1, <1>6, NextTableInv DEF WakeTask

LEMMA AwaitReadyInv ==
  ASSUME IInv, NEW w \in Task, NEW t \in Task, AwaitReady(w, t)
  PROVE  IInv'
<1> DEFINE e == [entries[w] EXCEPT !.resume = TRUE]
<1>1. entries' = [entries EXCEPT ![w] = e] /\ held' = held \ {w}
  BY DEF AwaitReady
<1>2. e \in Entry /\ EntryAgrees(e)
  BY EntryFacts, FieldUpdates
<1>3. /\ e.lifecycle = "Runnable" /\ e.resume /\ e.waiters = entries[w].waiters
      /\ entries[w].lifecycle = "Runnable"
  BY EntryFacts, FieldUpdates DEF AwaitReady, CheckedOut
<1> HIDE DEF e
<1>4. ~closed /\ held \ {w} \in SUBSET Task
  BY <1>3, EntryFacts DEF Live, TableInv
<1>5. TableInv([entries EXCEPT ![w] = e], held \ {w}, next_spawn, closed)
  BY <1>2, <1>3, <1>4, EntryFacts, UpdateStep DEF Present, IsAwaiting, Terminal
<1> QED
  BY <1>1, <1>5, NextTableInv DEF AwaitReady

LEMMA AwaitLiveInv ==
  ASSUME IInv, NEW w \in Task, NEW t \in Task, AwaitLive(w, t)
  PROVE  IInv'
<1> DEFINE R == RegisterWaiter(entries, w, t)
           c == AwaitCycle(entries, w, t)
           h == held \ {w}
<1>1. TableInv(R, h, next_spawn, closed)
  BY EntryFacts, RegisterStep DEF AwaitLive
<1>2. CASE c = <<>>
  BY <1>1, <1>2, NextTableInv DEF AwaitLive
<1>3. CASE c # <<>>
  <2>1. entries' = Settle(R, ToSet(c), "Failed") /\ held' = h
    BY <1>3 DEF AwaitLive, FailCycle
  <2>7. WaitEdges(R) \in WaitGraph
    BY <1>1, EdgesAreGraph DEF TableInv
  <2>2. c \in Seq(Task) /\ IsWaitCycle(WaitEdges(R), c)
    BY <1>3, <2>7, DetectedIsCycle DEF AwaitCycle
  <2> HIDE DEF R, c, h
  <2>3. Settlable(R, ToSet(c))
    BY <1>1, <2>2, CycleSettlable DEF TableInv
  <2>4. ToSet(c) # {}
    <3>1. 1 \in DOMAIN c
      BY <2>2 DEF IsWaitCycle
    <3> QED
      BY <3>1 DEF ToSet
  <2>5. "Failed" \in Result /\ h \in SUBSET h /\ h \ h \subseteq ToSet(c)
    BY DEF Result
  <2>6. TableInv(Settle(R, ToSet(c), "Failed"), h, next_spawn, closed)
    BY <1>1, <2>3, <2>4, <2>5, SettleStep
  <2> QED
    BY <2>1, <2>6, NextTableInv DEF AwaitLive
<1> QED
  BY <1>2, <1>3

\* complete, fail, deliver_cancel and a cancelling boundary.
LEMMA TerminalizeInv ==
  ASSUME IInv, NEW t \in Task, Live(entries, t), NEW r \in Result,
         entries' = Terminalize(entries, t, r),
         held' \in SUBSET held, held \ held' \subseteq {t},
         next_spawn' = next_spawn, closed' = closed
  PROVE  IInv'
<1>1. TableInv(entries, held, next_spawn, closed)
  BY EntryFacts
<1>2. Settlable(entries, {t})
  BY <1>1, OneTaskSettlable DEF TableInv
<1>3. TableInv(Settle(entries, {t}, r), held', next_spawn, closed)
  BY <1>1, <1>2, SettleStep
<1> QED
  BY <1>3, NextTableInv DEF Terminalize

LEMMA RequestCancelInv == ASSUME IInv, NEW t \in Task, RequestCancel(t) PROVE IInv'
<1> DEFINE e == [entries[t] EXCEPT !.cancellation_requested = TRUE]
<1>1. entries' = [entries EXCEPT ![t] = e] /\ held' = held
  BY DEF RequestCancel
<1>2. entries[t].lifecycle \in {"Runnable", "Suspended"}
  BY DEF RequestCancel, Live
<1>3. /\ e \in Entry /\ EntryAgrees(e)
      /\ e.lifecycle = entries[t].lifecycle /\ e.resume = entries[t].resume
      /\ e.suspension = entries[t].suspension /\ e.on = entries[t].on
      /\ e.waiters = entries[t].waiters
  BY <1>2, EntryFacts, FieldUpdates
<1> HIDE DEF e
<1>4. /\ ~closed /\ held \in SUBSET Task
      /\ entries[t].lifecycle = "Runnable" => (entries[t].resume <=> t \notin held)
      /\ entries[t].lifecycle = "Suspended" => entries[t].resume /\ t \notin held
  BY <1>2, EntryFacts DEF Live, TableInv, OneOwner, InvalidOwnership
<1>5. TableInv([entries EXCEPT ![t] = e], held, next_spawn, closed)
  BY <1>2, <1>3, <1>4, EntryFacts, UpdateStep DEF Present, IsAwaiting, Terminal
<1> QED
  BY <1>1, <1>5, NextTableInv DEF RequestCancel

\* Closing settles an unfinished entry and empties a settled one.
LEMMA ClosedEntryFacts ==
  ASSUME NEW e \in Entry, EntryAgrees(e),
         e.lifecycle = "Absent" => e.waiters = <<>> /\ ~e.resume
  PROVE  /\ ClosedEntry(e) \in Entry /\ EntryAgrees(ClosedEntry(e))
         /\ ClosedEntry(e).lifecycle \notin {"Runnable", "Suspended"}
         /\ ClosedEntry(e).lifecycle = "Absent" <=> e.lifecycle = "Absent"
         /\ e.result # "None" => ClosedEntry(e).result = e.result
         /\ ~ClosedEntry(e).resume /\ ClosedEntry(e).waiters = <<>>
         /\ ~ClosedEntry(e).cancellation_requested
<1>1. CASE e.lifecycle = "Absent"
  BY <1>1 DEF ClosedEntry, EntryAgrees, Terminal, Entry
<1>2. CASE e.lifecycle # "Absent" /\ e.result = "None"
  <2>1. "Cancelled" \in Result /\ ClosedEntry(e) = SettledEntry(e, "Cancelled")
    BY <1>2 DEF ClosedEntry, SettledEntry, Result
  <2> QED
    BY <1>2, <2>1, SettledEntryAgrees DEF Terminal
<1>3. CASE e.lifecycle # "Absent" /\ e.result # "None"
  <2> DEFINE d == [e EXCEPT !.resume = FALSE, !.waiters = <<>>,
                            !.suspension = "None", !.on = Nothing]
  <2>1. ClosedEntry(e) = d
    BY <1>3 DEF ClosedEntry
  <2>2. <<>> \in Seq(Task) /\ Nothing \in Blocker
    BY DEF Blocker
  <2>3. /\ d \in Entry /\ ~d.resume /\ d.waiters = <<>>
        /\ d.lifecycle = e.lifecycle /\ d.suspension = "None" /\ d.on = Nothing
        /\ d.result = e.result /\ d.cancellation_requested = e.cancellation_requested
    BY <2>2 DEF Entry
  <2>4. e.lifecycle \in Terminal /\ ~e.cancellation_requested
    BY <1>3 DEF EntryAgrees, Terminal
  <2> HIDE DEF d
  <2>5. EntryAgrees(d)
    BY <2>3, <2>4 DEF EntryAgrees, Terminal
  <2> QED
    BY <1>3, <2>1, <2>3, <2>4, <2>5 DEF Terminal
<1> QED
  BY <1>1, <1>2, <1>3

LEMMA CloseInv == IInv /\ Close => IInv'
<1> SUFFICES ASSUME IInv, Close PROVE IInv'
  OBVIOUS
<1>1. /\ TableInv(entries, held, next_spawn, closed)
      /\ next_spawn \in 1..MaxTasks
  BY IInvIsTableInv
<1>2. /\ closed' = TRUE /\ next_spawn' = next_spawn /\ held' = held
      /\ entries' = [t \in Task |-> ClosedEntry(entries[t])]
  BY DEF Close
<1>3. ASSUME NEW t \in Task
      PROVE  /\ entries'[t] \in Entry /\ EntryAgrees(entries'[t])
             /\ entries'[t].lifecycle \notin {"Runnable", "Suspended"}
             /\ entries'[t].lifecycle = "Absent" <=> entries[t].lifecycle = "Absent"
             /\ ~entries'[t].resume /\ entries'[t].waiters = <<>>
  <2>1. /\ entries[t] \in Entry /\ EntryAgrees(entries[t])
        /\ entries[t].lifecycle = "Absent" => entries[t].waiters = <<>> /\ ~entries[t].resume
    BY <1>1 DEF TableInv, Consistent, Table, WaitersExact, Live, OneOwner
  <2> QED
    BY <2>1, <1>2, ClosedEntryFacts
<1>4. entries' \in Table
  BY <1>2, <1>3 DEF Table
<1>5. WaitersExact(entries')
  BY <1>3 DEF WaitersExact, In, Distinct, SuspendedOn
<1>6. OneOwner(entries', held)
  BY <1>1, <1>3 DEF TableInv, OneOwner, InvalidOwnership
<1>7. Drained(entries')
  BY <1>3 DEF Drained, Live
<1>8. \A t \in Task : Present(entries', t) <=> t < next_spawn
  BY <1>1, <1>3 DEF TableInv, Present
<1>9. TableInv(entries', held, next_spawn, TRUE)
  BY <1>1, <1>3, <1>4, <1>5, <1>6, <1>7, <1>8 DEF TableInv, Consistent
<1> QED
  BY <1>1, <1>2, <1>9, IInvIsTableInvPrimed

----------------------------------------------------------------------------
(* The invariant holds throughout.                                         *)

LEMMA StutterInv == ASSUME IInv, UNCHANGED vars PROVE IInv'
BY IInvIsTableInv, IInvIsTableInvPrimed DEF vars

LEMMA NextInv == ASSUME IInv, [Next]_vars PROVE IInv'
<1>1. CASE Spawn
  BY <1>1, SpawnInv
<1>2. ASSUME NEW t \in Task, Checkout(t) PROVE IInv'
  BY <1>2, CheckoutInv
<1>3. ASSUME NEW t \in Task, RestoreCheckout(t) PROVE IInv'
  BY <1>3, RestoreInv
<1>4. ASSUME NEW t \in Task, NEW r \in {"Done", "Failed"}, Finish(t, r) PROVE IInv'
  BY <1>4, TerminalizeInv DEF Finish, CheckedOut, Live, Result
<1>5. ASSUME NEW t \in Task, RequestCancel(t) PROVE IInv'
  BY <1>5, RequestCancelInv
<1>6. ASSUME NEW t \in Task, DeliverCancel(t) PROVE IInv'
  BY <1>6, TerminalizeInv DEF DeliverCancel, Result
<1>7. ASSUME NEW t \in Task, CancellationBoundary(t) PROVE IInv'
  <2>1. CASE CheckedOut(entries, t) /\ entries' = Terminalize(entries, t, "Cancelled")
    BY <1>7, <2>1, TerminalizeInv DEF CancellationBoundary, CheckedOut, Live, Result
  <2>2. CASE entries[t].lifecycle = "Cancelled_state" /\ entries' = entries
    <3>1. TableInv(entries, held \ {t}, next_spawn, closed)
      BY <2>2, EntryFacts, ReleaseStep DEF Terminal
    <3> QED
      BY <1>7, <2>2, <3>1, NextTableInv DEF CancellationBoundary
  <2> QED
    BY <1>7, <2>1, <2>2 DEF CancellationBoundary
<1>8. ASSUME NEW t \in Task, NEW reason \in Suspension \ {"Awaiting"},
             NEW blocker \in BlockerFor(reason),
             SuspendTask(t, reason, blocker) \/ WakeTask(t, reason, blocker)
      PROVE  IInv'
  BY <1>8, SuspendInv, WakeInv
<1>9. ASSUME NEW w \in Task, NEW t \in Task, AwaitReady(w, t) \/ AwaitLive(w, t)
      PROVE  IInv'
  BY <1>9, AwaitReadyInv, AwaitLiveInv
<1>10. CASE Close
  BY <1>10, CloseInv
<1>11. CASE UNCHANGED vars
  BY <1>11, StutterInv
<1> QED
  BY <1>1, <1>2, <1>3, <1>4, <1>5, <1>6, <1>7, <1>8, <1>9, <1>10, <1>11 DEF Next

\* The inductive invariant holds in every reachable state, whatever the driver.
THEOREM Invariance == Spec => []IInv
<1>1. Init => IInv
  BY InitConsistent
<1>2. IInv /\ [Next]_vars => IInv'
  BY NextInv
<1> QED
  BY <1>1, <1>2, PTL DEF Spec

----------------------------------------------------------------------------
(* What a step does to results, requests and await edges.  A quiet step    *)
(* settles nothing and adds no await edge.                                 *)

Quiet(E, F) ==
  \A u \in Task :
    /\ F[u].result = E[u].result
    /\ E[u].cancellation_requested => F[u].cancellation_requested
    /\ F[u].lifecycle = E[u].lifecycle \/ F[u].lifecycle \in {"Runnable", "Suspended"}
    /\ IsAwaiting(F[u]) <=> IsAwaiting(E[u])
    /\ IsAwaiting(F[u]) => F[u].on = E[u].on

QuietStep ==
  \/ Spawn
  \/ \E t \in Task : Checkout(t) \/ RestoreCheckout(t) \/ RequestCancel(t)
  \/ \E t \in Task, reason \in Suspension \ {"Awaiting"} :
       \E blocker \in BlockerFor(reason) : \/ SuspendTask(t, reason, blocker)
                                           \/ WakeTask(t, reason, blocker)
  \/ \E w, t \in Task : AwaitReady(w, t)

LEMMA QuietUpdate ==
  ASSUME IInv, NEW t \in Task, NEW e,
         e.result = entries[t].result,
         entries[t].cancellation_requested => e.cancellation_requested,
         e.lifecycle \in {"Runnable", "Suspended", entries[t].lifecycle},
         IsAwaiting(e) <=> IsAwaiting(entries[t]),
         IsAwaiting(e) => e.on = entries[t].on
  PROVE  Quiet(entries, [entries EXCEPT ![t] = e])
BY EntryFacts DEF Quiet, TableInv, Consistent, Table

LEMMA QuietSteps == ASSUME IInv, QuietStep PROVE Quiet(entries, entries')
<1>1. CASE Spawn
  <2>1. next_spawn \in Task
    BY <1>1, IInvIsTableInv, MaxTasksAssumption DEF Spawn, Task
  <2>2. /\ entries[next_spawn].lifecycle = "Absent"
        /\ entries[next_spawn] \in Entry /\ EntryAgrees(entries[next_spawn])
    BY <2>1, EntryFacts DEF TableInv, Present, Task
  <2>3. /\ entries[next_spawn].result = "None" /\ ~IsAwaiting(entries[next_spawn])
        /\ ~entries[next_spawn].cancellation_requested
    BY <2>2 DEF EntryAgrees, IsAwaiting, Terminal, Entry
  <2>4. /\ SpawnedEntry.result = "None" /\ SpawnedEntry.lifecycle = "Runnable"
        /\ ~IsAwaiting(SpawnedEntry)
    BY DEF SpawnedEntry, AbsentEntry, IsAwaiting
  <2> QED
    BY <1>1, <2>1, <2>3, <2>4, QuietUpdate DEF Spawn
<1>2. ASSUME NEW t \in Task, Checkout(t) PROVE Quiet(entries, entries')
  <2> DEFINE e == [entries[t] EXCEPT !.resume = FALSE]
  <2>1. entries[t] \in Entry
    BY EntryFacts
  <2>2. /\ e.result = entries[t].result /\ e.lifecycle = entries[t].lifecycle
        /\ e.cancellation_requested = entries[t].cancellation_requested
        /\ e.suspension = entries[t].suspension /\ e.on = entries[t].on
    BY <2>1 DEF Entry
  <2>3. entries' = [entries EXCEPT ![t] = e]
    BY <1>2 DEF Checkout
  <2> HIDE DEF e
  <2> QED
    BY <2>2, <2>3, QuietUpdate DEF IsAwaiting
<1>3. ASSUME NEW t \in Task,
             RestoreCheckout(t) \/ \E w \in Task : AwaitReady(t, w)
      PROVE  Quiet(entries, entries')
  <2> DEFINE e == [entries[t] EXCEPT !.resume = TRUE]
  <2>1. entries[t] \in Entry
    BY EntryFacts
  <2>2. /\ e.result = entries[t].result /\ e.lifecycle = entries[t].lifecycle
        /\ e.cancellation_requested = entries[t].cancellation_requested
        /\ e.suspension = entries[t].suspension /\ e.on = entries[t].on
    BY <2>1 DEF Entry
  <2>3. entries' = entries \/ entries' = [entries EXCEPT ![t] = e]
    BY <1>3 DEF RestoreCheckout, AwaitReady
  <2> HIDE DEF e
  <2>4. CASE entries' = entries
    BY <2>4 DEF Quiet
  <2> QED
    BY <2>2, <2>3, <2>4, QuietUpdate DEF IsAwaiting
<1>4. ASSUME NEW t \in Task, RequestCancel(t) PROVE Quiet(entries, entries')
  <2> DEFINE e == [entries[t] EXCEPT !.cancellation_requested = TRUE]
  <2>1. entries[t] \in Entry
    BY EntryFacts
  <2>2. /\ e.result = entries[t].result /\ e.lifecycle = entries[t].lifecycle
        /\ e.cancellation_requested
        /\ e.suspension = entries[t].suspension /\ e.on = entries[t].on
    BY <2>1 DEF Entry
  <2>3. entries' = [entries EXCEPT ![t] = e]
    BY <1>4 DEF RequestCancel
  <2> HIDE DEF e
  <2> QED
    BY <2>2, <2>3, QuietUpdate DEF IsAwaiting
<1>5. ASSUME NEW t \in Task, NEW reason \in Suspension \ {"Awaiting"}, NEW blocker,
             SuspendTask(t, reason, blocker)
      PROVE  Quiet(entries, entries')
  <2> DEFINE e == [entries[t] EXCEPT !.lifecycle = "Suspended", !.suspension = reason,
                                     !.on = blocker, !.resume = TRUE]
  <2>1. entries[t] \in Entry /\ entries[t].lifecycle = "Runnable"
    BY <1>5, EntryFacts DEF SuspendTask, CheckedOut
  <2>2. /\ e.result = entries[t].result /\ e.lifecycle = "Suspended"
        /\ e.cancellation_requested = entries[t].cancellation_requested
        /\ e.suspension = reason
    BY <2>1 DEF Entry
  <2>3. entries' = [entries EXCEPT ![t] = e]
    BY <1>5 DEF SuspendTask, Suspend
  <2> HIDE DEF e
  <2> QED
    BY <2>1, <2>2, <2>3, QuietUpdate DEF IsAwaiting
<1>6. ASSUME NEW t \in Task, NEW reason \in Suspension \ {"Awaiting"}, NEW blocker,
             WakeTask(t, reason, blocker)
      PROVE  Quiet(entries, entries')
  <2> DEFINE e == [entries[t] EXCEPT !.lifecycle = "Runnable", !.suspension = "None",
                                     !.on = Nothing]
  <2>1. /\ entries[t] \in Entry /\ entries[t].lifecycle = "Suspended"
        /\ entries[t].suspension = reason
    BY <1>6, EntryFacts DEF WakeTask, SuspendedOn
  <2>2. /\ e.result = entries[t].result /\ e.lifecycle = "Runnable"
        /\ e.cancellation_requested = entries[t].cancellation_requested
    BY <2>1 DEF Entry
  <2>3. entries' = [entries EXCEPT ![t] = e]
    BY <1>6 DEF WakeTask, Wake
  <2> HIDE DEF e
  <2> QED
    BY <2>1, <2>2, <2>3, QuietUpdate DEF IsAwaiting
<1> QED
  BY <1>1, <1>2, <1>3, <1>4, <1>5, <1>6 DEF QuietStep

\* Every step is quiet, settles tasks of a table, closes, or stutters.
SettleStepOf(E, M, r) ==
  /\ Consistent(E) /\ Settlable(E, M)
  /\ entries' = Settle(E, M, r)
  /\ r = "Cancelled" => \A m \in M : E[m].cancellation_requested

AwaitStep(w, t) ==
  /\ Consistent(entries) /\ CheckedOut(entries, w) /\ Live(entries, t)
  /\ \/ /\ AwaitCycle(entries, w, t) = <<>>
        /\ entries' = RegisterWaiter(entries, w, t)
     \/ /\ AwaitCycle(entries, w, t) # <<>>
        /\ entries' = Settle(RegisterWaiter(entries, w, t),
                             ToSet(AwaitCycle(entries, w, t)), "Failed")

LEMMA StepKinds ==
  ASSUME IInv, [Next]_vars
  PROVE  \/ Quiet(entries, entries')
         \/ \E t \in Task, r \in Result : SettleStepOf(entries, {t}, r)
         \/ \E w, t \in Task : AwaitStep(w, t)
         \/ Close
<1> DEFINE Goal == \/ Quiet(entries, entries')
                   \/ \E t \in Task, r \in Result : SettleStepOf(entries, {t}, r)
                   \/ \E w, t \in Task : AwaitStep(w, t)
                   \/ Close
<1> SUFFICES Goal
  OBVIOUS
<1>1. Consistent(entries)
  BY IInvIsTableInv DEF TableInv
<1>2. CASE QuietStep
  BY <1>2, QuietSteps
<1>3. ASSUME NEW t \in Task, NEW r \in Result, Live(entries, t),
             entries' = Terminalize(entries, t, r),
             r = "Cancelled" => entries[t].cancellation_requested
      PROVE  Goal
  BY <1>1, <1>3, OneTaskSettlable DEF SettleStepOf, Terminalize
<1>4. ASSUME NEW t \in Task, NEW r \in {"Done", "Failed"}, Finish(t, r) PROVE Goal
  BY <1>3, <1>4 DEF Finish, CheckedOut, Live, Result
<1>5. ASSUME NEW t \in Task, DeliverCancel(t) PROVE Goal
  BY <1>3, <1>5 DEF DeliverCancel, Result
<1>6. CASE entries' = entries
  BY <1>6 DEF Quiet
<1>7. ASSUME NEW t \in Task, CancellationBoundary(t) PROVE Goal
  BY <1>3, <1>6, <1>7 DEF CancellationBoundary, CheckedOut, Live, Result
<1>8. ASSUME NEW w \in Task, NEW t \in Task, AwaitLive(w, t) PROVE Goal
  <2>1. AwaitStep(w, t)
    BY <1>1, <1>8 DEF AwaitLive, AwaitStep, FailCycle
  <2> QED
    BY <2>1
<1>9. CASE UNCHANGED vars
  BY <1>6, <1>9 DEF vars
<1> HIDE DEF Goal
<1>10. CASE Close
  BY <1>10 DEF Goal
<1>11. CASE QuietStep
  BY <1>2, <1>11 DEF Goal
<1>12. ASSUME NEW t \in Task, Checkout(t) \/ RestoreCheckout(t) \/ RequestCancel(t)
       PROVE  Goal
  BY <1>11, <1>12 DEF QuietStep
<1>13. ASSUME NEW t \in Task, NEW reason \in Suspension \ {"Awaiting"},
              NEW blocker \in BlockerFor(reason),
              SuspendTask(t, reason, blocker) \/ WakeTask(t, reason, blocker)
       PROVE  Goal
  BY <1>11, <1>13 DEF QuietStep
<1>14. ASSUME NEW w \in Task, NEW t \in Task, AwaitReady(w, t) PROVE Goal
  BY <1>11, <1>14 DEF QuietStep
<1>15. CASE Spawn
  BY <1>11, <1>15 DEF QuietStep
<1>16. CASE Next
  BY <1>4, <1>5, <1>7, <1>8, <1>10, <1>12, <1>13, <1>14, <1>15, <1>16 DEF Next
<1> QED
  BY <1>9, <1>16

\* Settling tasks without a result changes no recorded result.
KeepsResults(E, F) ==
  \A t \in Task : E[t].result # "None" => F[t].result = E[t].result

\* A request ends with its task, and cancels only a task it was made for.
KeepsRequests(E, F, over) ==
  \A t \in Task :
    /\ E[t].cancellation_requested /\ Live(F, t) => F[t].cancellation_requested
    /\ Live(E, t) /\ F[t].lifecycle = "Cancelled_state"
         => E[t].cancellation_requested \/ over

LEMMA SettleKeeps ==
  ASSUME NEW E, NEW M, Consistent(E), Settlable(E, M), NEW r \in Result,
         r = "Cancelled" => \A m \in M : E[m].cancellation_requested
  PROVE  KeepsResults(E, Settle(E, M, r)) /\ KeepsRequests(E, Settle(E, M, r), FALSE)
<1> DEFINE F == Settle(E, M, r)
<1>1. r # "Cancelled" => ResultLifecycle(r) # "Cancelled_state"
  BY DEF Result, ResultLifecycle
<1>2. ASSUME NEW t \in Task
      PROVE  /\ t \in M => E[t].result = "None"
             /\ t \in M => F[t].lifecycle = ResultLifecycle(r) /\ F[t].lifecycle \in Terminal
             /\ t \notin M => /\ F[t].result = E[t].result
                              /\ F[t].cancellation_requested = E[t].cancellation_requested
                              /\ \/ F[t].lifecycle = E[t].lifecycle
                                 \/ F[t].lifecycle = "Runnable"
  <2>1. t \in M => E[t].result = "None"
    BY DEF Consistent, EntryAgrees, Settlable, Live, Terminal
  <2> QED
    BY <2>1, SettleFields
<1> HIDE DEF F
<1>3. KeepsResults(E, F)
  BY <1>2 DEF KeepsResults
<1>4. KeepsRequests(E, F, FALSE)
  BY <1>1, <1>2 DEF KeepsRequests, Live, Terminal
<1> QED
  BY <1>3, <1>4 DEF F

LEMMA StepKeeps ==
  ASSUME IInv, [Next]_vars
  PROVE  KeepsResults(entries, entries') /\ KeepsRequests(entries, entries', closed')
<1>1. CASE Quiet(entries, entries')
  BY <1>1 DEF Quiet, KeepsResults, KeepsRequests, Live
<1>2. ASSUME NEW t \in Task, NEW r \in Result, SettleStepOf(entries, {t}, r)
      PROVE  KeepsResults(entries, entries') /\ KeepsRequests(entries, entries', closed')
  BY <1>2, SettleKeeps DEF SettleStepOf, KeepsRequests
<1>3. ASSUME NEW w \in Task, NEW t \in Task, AwaitStep(w, t)
      PROVE  KeepsResults(entries, entries') /\ KeepsRequests(entries, entries', closed')
  <2> DEFINE R == RegisterWaiter(entries, w, t)
             c == AwaitCycle(entries, w, t)
  <2>1. /\ Consistent(R)
        /\ \A u \in Task :
             /\ R[u].lifecycle = IF u = w THEN "Suspended" ELSE entries[u].lifecycle
             /\ R[u].result = entries[u].result
             /\ R[u].cancellation_requested = entries[u].cancellation_requested
    BY <1>3, RegisterConsistent DEF AwaitStep
  <2>2. \A u \in Task : Live(entries, u) => Live(R, u)
    BY <2>1 DEF Live
  <2>3. CASE c = <<>>
    <3>1. entries' = R
      BY <1>3, <2>3 DEF AwaitStep
    <3> HIDE DEF R
    <3> QED
      BY <2>1, <2>2, <3>1 DEF KeepsResults, KeepsRequests, Live
  <2>4. CASE c # <<>>
    <3>1. entries' = Settle(R, ToSet(c), "Failed") /\ "Failed" \in Result
      BY <1>3, <2>4 DEF AwaitStep, Result
    <3>2. Settlable(R, ToSet(c))
      BY <2>1, <2>4, EdgesAreGraph, DetectedIsCycle, CycleSettlable DEF AwaitCycle
    <3>3. KeepsResults(R, entries') /\ KeepsRequests(R, entries', FALSE)
      BY <2>1, <3>1, <3>2, SettleKeeps
    <3> HIDE DEF R
    <3> QED
      BY <2>1, <2>2, <3>3 DEF KeepsResults, KeepsRequests
  <2> QED
    BY <2>3, <2>4
<1>4. CASE Close
  <2>1. closed' /\ \A t \in Task : entries'[t] = ClosedEntry(entries[t])
    BY <1>4 DEF Close
  <2>2. ASSUME NEW t \in Task
        PROVE  /\ entries[t].result # "None" => entries'[t].result = entries[t].result
               /\ ~Live(entries', t)
    <3>1. /\ entries[t] \in Entry /\ EntryAgrees(entries[t])
          /\ entries[t].lifecycle = "Absent" => entries[t].waiters = <<>> /\ ~entries[t].resume
      BY EntryFacts DEF TableInv, OneOwner
    <3> QED
      BY <2>1, <3>1, ClosedEntryFacts DEF Live
  <2> QED
    BY <2>1, <2>2 DEF KeepsResults, KeepsRequests
<1> QED
  BY <1>1, <1>2, <1>3, <1>4, StepKinds

\* A cycle closed by an await goes through the new waiter: there was none
\* before, and no other edge is new.
LEMMA NewCycleHasWaiter ==
  ASSUME NoWaitCycle, Consistent(entries),
         NEW w \in Task, CheckedOut(entries, w), NEW t \in Task, Live(entries, t),
         AwaitCycle(entries, w, t) # <<>>
  PROVE  /\ AwaitCycle(entries, w, t) \in Seq(Task)
         /\ IsWaitCycle(WaitEdges(RegisterWaiter(entries, w, t)), AwaitCycle(entries, w, t))
         /\ w \in ToSet(AwaitCycle(entries, w, t))
<1> DEFINE g == WaitEdges(entries)
           R == RegisterWaiter(entries, w, t)
           k == WaitEdges(R)
           c == AwaitCycle(entries, w, t)
<1>1. \A E : \A u \in Task : WaitEdges(E)[u] = IF IsAwaiting(E[u]) THEN E[u].on ELSE NoTask
  BY DEF WaitEdges, IsAwaiting
<1>2. /\ Consistent(R)
      /\ \A u \in Task :
           /\ IsAwaiting(R[u]) <=> u = w \/ IsAwaiting(entries[u])
           /\ R[u].on = IF u = w THEN t ELSE entries[u].on
  BY RegisterConsistent
<1>3. k \in WaitGraph
  BY <1>2, EdgesAreGraph
<1>4. c \in WaitCycles(k) /\ c \in Seq(Task) /\ IsWaitCycle(k, c)
  BY <1>3, DetectedIsCycle DEF AwaitCycle
<1> HIDE DEF R
<1>5. \A u \in Task : u # w => k[u] = g[u]
  BY <1>1, <1>2
<1> HIDE DEF g, k, c
<1>6. WaitCycles(g) = {}
  BY DEF NoWaitCycle, g
<1>7. \E i \in DOMAIN c : c[i] = w
  BY <1>4, <1>5, <1>6, CycleTransfer
<1> QED
  BY <1>4, <1>7 DEF ToSet, k, c, R

\* No operation leaves a cycle of awaiting tasks behind.
LEMMA StepNoWaitCycle ==
  ASSUME IInv, NoWaitCycle, [Next]_vars
  PROVE  NoWaitCycle'
<1> DEFINE g == WaitEdges(entries)
           h == WaitEdges(entries')
<1>1. WaitCycles(g) = {}
  BY DEF NoWaitCycle
<1>2. \A E : \A u \in Task : WaitEdges(E)[u] = IF IsAwaiting(E[u]) THEN E[u].on ELSE NoTask
  BY DEF WaitEdges, IsAwaiting
<1> SUFFICES ASSUME NEW d \in WaitCycles(h) PROVE FALSE
  BY DEF NoWaitCycle
<1>3. \A u \in Task : (\E i \in DOMAIN d : d[i] = u) => h[u] # NoTask
  BY DEF WaitCycles, Waiting
<1> HIDE DEF g, h
<1>4. CASE \A u \in Task : h[u] # NoTask => g[u] = h[u]
  BY <1>1, <1>3, <1>4, CycleTransfer
<1>5. CASE Quiet(entries, entries')
  BY <1>2, <1>4, <1>5 DEF Quiet, g, h
<1>6. ASSUME NEW t \in Task, NEW r \in Result, SettleStepOf(entries, {t}, r) PROVE FALSE
  <2>1. /\ entries' = Settle(entries, {t}, r)
        /\ Consistent(entries) /\ Settlable(entries, {t})
    BY <1>6 DEF SettleStepOf
  <2>2. ASSUME NEW u \in Task, IsAwaiting(entries'[u])
        PROVE  IsAwaiting(entries[u]) /\ entries'[u].on = entries[u].on
    BY <2>1, <2>2, SettleEdges DEF IsAwaiting
  <2>3. \A u \in Task : h[u] # NoTask => g[u] = h[u]
    BY <1>2, <2>2 DEF g, h
  <2> QED
    BY <1>4, <2>3
<1>7. CASE Close
  <2>1. \A u \in Task : ~Live(entries', u)
    BY <1>7, NextInv, IInvIsTableInvPrimed DEF Close, TableInv, Drained, Next
  <2> QED
    BY <2>1, <1>2, <1>4 DEF Live, IsAwaiting, h
<1>8. ASSUME NEW w \in Task, NEW t \in Task, AwaitStep(w, t) PROVE FALSE
  <2> DEFINE R == RegisterWaiter(entries, w, t)
             k == WaitEdges(R)
             c == AwaitCycle(entries, w, t)
  <2>1. /\ Consistent(R)
        /\ \A u \in Task :
             /\ IsAwaiting(R[u]) <=> u = w \/ IsAwaiting(entries[u])
             /\ R[u].on = IF u = w THEN t ELSE entries[u].on
    BY <1>8, RegisterConsistent DEF AwaitStep
  <2>5. k \in WaitGraph
    BY <2>1, EdgesAreGraph
  <2>2. \A u \in Task : u # w => k[u] = g[u]
    BY <1>2, <2>1 DEF g
  <2>3. CASE c = <<>>
    <3>1. entries' = R
      BY <1>8, <2>3 DEF AwaitStep
    <3>2. WaitCycles(k) = {}
      BY <2>3, <2>5, DetectorIsComplete DEF AwaitCycle
    <3> QED
      BY <3>1, <3>2 DEF h
  <2>4. CASE c # <<>>
    <3>1. entries' = Settle(R, ToSet(c), "Failed") /\ "Failed" \in Result
      BY <1>8, <2>4 DEF AwaitStep, Result
    <3>2. c \in Seq(Task) /\ IsWaitCycle(k, c) /\ w \in ToSet(c)
      BY <1>8, <2>4, NewCycleHasWaiter DEF AwaitStep
    <3>3. Settlable(R, ToSet(c))
      BY <2>1, <3>2, CycleSettlable
    <3> HIDE DEF R, c
    <3>6. \A u \in Task : IsAwaiting(entries'[u])
             => u \notin ToSet(c) /\ IsAwaiting(R[u]) /\ entries'[u].on = R[u].on
      BY <2>1, <3>1, <3>3, SettleEdges DEF IsAwaiting
    <3>7. \A u \in Task : h[u] # NoTask => u # w /\ h[u] = k[u]
      BY <1>2, <3>2, <3>6 DEF h
    <3> HIDE DEF k
    <3>8. \A u \in Task : h[u] # NoTask => g[u] = h[u]
      BY <2>2, <3>7
    <3> QED
      BY <1>4, <3>8
  <2> QED
    BY <2>3, <2>4
<1> QED
  BY <1>5, <1>6, <1>7, <1>8, StepKinds
LEMMA InitNoWaitCycle == Init => NoWaitCycle
<1> SUFFICES ASSUME Init, NEW d \in WaitCycles(WaitEdges(entries)) PROVE FALSE
  BY DEF NoWaitCycle
<1>1. \A t \in Task : entries[t].lifecycle # "Suspended"
  BY DEF Init, SpawnedEntry, AbsentEntry
<1>2. \A t \in Task : WaitEdges(entries)[t] = NoTask
  BY <1>1 DEF WaitEdges
<1>3. PICK n \in 1..MaxTasks : d \in [1..n -> Waiting(WaitEdges(entries))]
  BY DEF WaitCycles
<1>4. 1 \in 1..n
  BY <1>3, MaxTasksAssumption
<1>5. d[1] \in Waiting(WaitEdges(entries))
  BY <1>3, <1>4
<1> QED
  BY <1>2, <1>5 DEF Waiting

----------------------------------------------------------------------------
(* Who a step reports as woken.                                            *)

\* The list names exactly the tasks that were suspended in E and run in F.
Reports(list, E, F) ==
  /\ \A t \in Task : In(t, list) <=> E[t].lifecycle = "Suspended" /\ F[t].lifecycle = "Runnable"
  /\ list \in Seq(Task) /\ Distinct(list)

\* Settling wakes the others that await a settled task, and nobody else.
LEMMA SettleWakes ==
  ASSUME NEW E, NEW M, Consistent(E), Settlable(E, M), NEW r \in Result, NEW u \in Task
  PROVE  E[u].lifecycle = "Suspended" /\ Settle(E, M, r)[u].lifecycle = "Runnable"
           <=> \E m \in M : IsAwakenedBy(SettledTogether(E, M, r), m, u)
<1> DEFINE S == Settle(E, M, r)
           Wakes == \E m \in M : SuspendedOn(E, u, "Awaiting", m)
<1>1. S[u] = IF u \in M THEN SettledEntry(E[u], r)
             ELSE IF Wakes THEN WokenEntry(E[u], M) ELSE KeptEntry(E[u], M)
  BY SettleShape
<1>2. E[u] \in Entry /\ EntryAgrees(E[u]) /\ Without(E[u].waiters, M) \in Seq(Task)
  BY RemoveWaiterShape DEF Consistent
<1>3. Wakes => E[u].lifecycle = "Suspended"
  BY DEF SuspendedOn
<1>4. (\E m \in M : IsAwakenedBy(SettledTogether(E, M, r), m, u)) <=> u \notin M /\ Wakes
  BY AwakenedBySettling
<1> HIDE DEF S, Wakes
<1>5. CASE u \in M
  <2>1. S[u].lifecycle # "Runnable"
    BY <1>1, <1>2, <1>5, SettledEntryAgrees DEF Terminal
  <2> QED
    BY <1>4, <1>5, <2>1 DEF S
<1>6. CASE u \notin M /\ Wakes
  <2>1. S[u].lifecycle = "Runnable"
    BY <1>1, <1>2, <1>3, <1>6, WokenEntryAgrees
  <2> QED
    BY <1>3, <1>4, <1>6, <2>1 DEF S
<1>7. CASE u \notin M /\ ~Wakes
  <2>1. S[u].lifecycle = E[u].lifecycle
    BY <1>1, <1>2, <1>7, KeptEntryAgrees
  <2> QED
    BY <1>4, <1>7, <2>1 DEF S
<1> QED
  BY <1>5, <1>6, <1>7

\* One settled task: what terminalize returns.
LEMMA TerminalizeReports ==
  ASSUME NEW E, Consistent(E), NEW t \in Task, Live(E, t), NEW r \in Result
  PROVE  Reports(AwakenedByTerminalize(E, t, r), E, Terminalize(E, t, r))
<1> DEFINE F == SettledTogether(E, {t}, r)
<1>1. Settlable(E, {t})
  BY OneTaskSettlable
<1>2. /\ E[t] \in Entry
      /\ RemoveWaiter(E, {t})[t] = [E[t] EXCEPT !.waiters = Without(E[t].waiters, {t})]
      /\ Without(E[t].waiters, {t}) \in Seq(Task)
      /\ Distinct(Without(E[t].waiters, {t}))
  BY <1>1, RemoveWaiterShape
<1>3. F[t] = Settled(RemoveWaiter(E, {t})[t], r)
  BY DEF SettledTogether
<1>4. F[t].waiters = Without(E[t].waiters, {t})
  BY <1>2, <1>3 DEF Settled, Entry
<1> HIDE DEF F
<1>5. /\ Awakened(F, t) \in Seq(Task) /\ Distinct(Awakened(F, t))
      /\ \A u : In(u, Awakened(F, t)) <=> IsAwakenedBy(F, t, u)
  BY <1>2, <1>4, AwakenedIs
<1>6. \A u \in Task : E[u].lifecycle = "Suspended" /\ Terminalize(E, t, r)[u].lifecycle = "Runnable"
                        <=> IsAwakenedBy(F, t, u)
  BY <1>1, SettleWakes DEF Terminalize, F
<1> QED
  BY <1>5, <1>6 DEF Reports, AwakenedByTerminalize, F

\* A failed cycle: what fail_cycle returns.
LEMMA FailCycleReports ==
  ASSUME NEW E, Consistent(E), NEW c \in Seq(Task), IsWaitCycle(WaitEdges(E), c)
  PROVE  Reports(AwakenedByFailCycle(E, c), E, FailCycle(E, c))
<1>1. Settlable(E, ToSet(c)) /\ "Failed" \in Result
  BY CycleSettlable DEF Result
<1>2. \A i, j \in DOMAIN c : c[i] = c[j] => i = j
  BY DEF IsWaitCycle
<1>3. /\ AwakenedByFailCycle(E, c) \in Seq(Task) /\ Distinct(AwakenedByFailCycle(E, c))
      /\ \A u : In(u, AwakenedByFailCycle(E, c))
                  <=> \E m \in ToSet(c) :
                        IsAwakenedBy(SettledTogether(E, ToSet(c), "Failed"), m, u)
  BY <1>1, <1>2, AwakenedByCycleIs
<1>4. \A u \in Task : E[u].lifecycle = "Suspended" /\ FailCycle(E, c)[u].lifecycle = "Runnable"
                        <=> \E m \in ToSet(c) :
                              IsAwakenedBy(SettledTogether(E, ToSet(c), "Failed"), m, u)
  BY <1>1, SettleWakes DEF FailCycle
<1> QED
  BY <1>3, <1>4 DEF Reports

\* Steps that change no task but t, which did not wait, and report nobody.
LEMMA NobodyWakes ==
  ASSUME IInv, NEW t \in Task, NEW e, entries' = [entries EXCEPT ![t] = e],
         e.lifecycle = "Runnable" => entries[t].lifecycle # "Suspended",
         awakened' = <<>>
  PROVE  Reports(awakened', entries, entries')
<1>1. entries'[t] = e /\ \A u \in Task \ {t} : entries'[u] = entries[u]
  BY EntryFacts DEF TableInv, Consistent, Table
<1>2. \A u \in Task : ~(entries[u].lifecycle = "Suspended" /\ entries'[u].lifecycle = "Runnable")
  BY <1>1
<1>3. <<>> \in Seq(Task) /\ Distinct(<<>>) /\ \A u : ~In(u, <<>>)
  BY DEF Distinct, In
<1> QED
  BY <1>2, <1>3 DEF Reports

LEMMA StepReports ==
  ASSUME IInv, NoWaitCycle, Next
  PROVE  Reports(awakened', entries, entries')
<1> DEFINE Goal == Reports(awakened', entries, entries')
<1>1. Consistent(entries)
  BY IInvIsTableInv DEF TableInv
<1>2. <<>> \in Seq(Task) /\ Distinct(<<>>) /\ \A u : ~In(u, <<>>)
  BY DEF Distinct, In
<1>3. CASE Spawn
  <2>1. next_spawn \in Task
    BY <1>3, IInvIsTableInv, MaxTasksAssumption DEF Spawn, Task
  <2>2. entries[next_spawn].lifecycle = "Absent"
    BY <2>1, EntryFacts DEF TableInv, Present, Task
  <2> QED
    BY <1>3, <2>1, <2>2, NobodyWakes DEF Spawn
<1>4. ASSUME NEW t \in Task, Checkout(t) PROVE Goal
  BY <1>4, NobodyWakes DEF Checkout
<1>5. ASSUME NEW t \in Task, RestoreCheckout(t) PROVE Goal
  <2>1. CASE CheckedOut(entries, t)
    <3>1. entries[t].lifecycle # "Suspended"
      BY <2>1 DEF CheckedOut
    <3> QED
      BY <1>5, <2>1, <3>1, NobodyWakes DEF RestoreCheckout
  <2>2. CASE ~CheckedOut(entries, t)
    BY <1>2, <1>5, <2>2 DEF RestoreCheckout, Reports
  <2> QED
    BY <2>1, <2>2
<1>6. ASSUME NEW t \in Task, NEW r \in {"Done", "Failed"}, Finish(t, r) PROVE Goal
  <2>1. Live(entries, t) /\ r \in Result
    BY <1>6 DEF Finish, CheckedOut, Live, Result
  <2> QED
    BY <1>1, <1>6, <2>1, TerminalizeReports DEF Finish
<1>7. ASSUME NEW t \in Task, RequestCancel(t) PROVE Goal
  <2> DEFINE e == [entries[t] EXCEPT !.cancellation_requested = TRUE]
  <2>1. e.lifecycle = entries[t].lifecycle
    BY EntryFacts DEF Entry
  <2>2. entries' = [entries EXCEPT ![t] = e] /\ awakened' = <<>>
    BY <1>7 DEF RequestCancel
  <2> HIDE DEF e
  <2> QED
    BY <2>1, <2>2, NobodyWakes
<1>8. ASSUME NEW t \in Task, DeliverCancel(t) PROVE Goal
  <2>1. Live(entries, t) /\ "Cancelled" \in Result
    BY <1>8 DEF DeliverCancel, Result
  <2> QED
    BY <1>1, <1>8, <2>1, TerminalizeReports DEF DeliverCancel
<1>9. ASSUME NEW t \in Task, CancellationBoundary(t) PROVE Goal
  <2>1. CASE CheckedOut(entries, t) /\ entries' = Terminalize(entries, t, "Cancelled")
             /\ awakened' = AwakenedByTerminalize(entries, t, "Cancelled")
    <3>1. Live(entries, t) /\ "Cancelled" \in Result
      BY <2>1 DEF CheckedOut, Live, Result
    <3> QED
      BY <1>1, <2>1, <3>1, TerminalizeReports
  <2>2. CASE entries' = entries /\ awakened' = <<>>
    BY <1>2, <2>2 DEF Reports
  <2> QED
    BY <1>9, <2>1, <2>2 DEF CancellationBoundary
<1>10. ASSUME NEW t \in Task, NEW reason, NEW blocker, SuspendTask(t, reason, blocker)
       PROVE  Goal
  <2> DEFINE e == [entries[t] EXCEPT !.lifecycle = "Suspended", !.suspension = reason,
                                     !.on = blocker, !.resume = TRUE]
  <2>1. e.lifecycle = "Suspended"
    BY EntryFacts DEF Entry
  <2>2. entries' = [entries EXCEPT ![t] = e] /\ awakened' = <<>>
    BY <1>10 DEF SuspendTask, Suspend
  <2> HIDE DEF e
  <2> QED
    BY <2>1, <2>2, NobodyWakes
<1>11. ASSUME NEW t \in Task, NEW reason, NEW blocker, WakeTask(t, reason, blocker)
       PROVE  Goal
  <2> DEFINE e == [entries[t] EXCEPT !.lifecycle = "Runnable", !.suspension = "None",
                                     !.on = Nothing]
  <2>1. e.lifecycle = "Runnable"
    BY EntryFacts DEF Entry
  <2>2. entries' = [entries EXCEPT ![t] = e] /\ awakened' = <<t>>
    BY <1>11 DEF WakeTask, Wake
  <2>3. entries[t].lifecycle = "Suspended"
    BY <1>11 DEF WakeTask, SuspendedOn
  <2> HIDE DEF e
  <2>4. entries'[t] = e /\ \A u \in Task \ {t} : entries'[u] = entries[u]
    BY <1>1, <2>2 DEF Consistent, Table
  <2>5. <<t>> \in Seq(Task) /\ Distinct(<<t>>) /\ \A u : In(u, <<t>>) <=> u = t
    BY DEF Distinct, In
  <2> QED
    BY <2>1, <2>2, <2>3, <2>4, <2>5 DEF Reports
<1>12. ASSUME NEW w \in Task, NEW t \in Task, AwaitReady(w, t) PROVE Goal
  BY <1>12, NobodyWakes DEF AwaitReady, CheckedOut
<1>13. ASSUME NEW w \in Task, NEW t \in Task, AwaitLive(w, t) PROVE Goal
  <2> DEFINE R == RegisterWaiter(entries, w, t)
             c == AwaitCycle(entries, w, t)
  <2>1. /\ Consistent(R)
        /\ \A u \in Task : R[u].lifecycle = IF u = w THEN "Suspended" ELSE entries[u].lifecycle
    BY <1>1, <1>13, RegisterConsistent DEF AwaitLive
  <2>2. entries[w].lifecycle = "Runnable"
    BY <1>13 DEF AwaitLive, CheckedOut
  <2>3. CASE c = <<>>
    <3>1. entries' = R /\ awakened' = <<>>
      BY <1>13, <2>3 DEF AwaitLive
    <3> HIDE DEF R
    <3> QED
      BY <1>2, <2>1, <2>2, <3>1 DEF Reports
  <2>4. CASE c # <<>>
    <3>1. entries' = FailCycle(R, c) /\ awakened' = AwakenedByFailCycle(R, c)
      BY <1>13, <2>4 DEF AwaitLive
    <3>2. c \in Seq(Task) /\ IsWaitCycle(WaitEdges(R), c) /\ w \in ToSet(c)
      BY <1>1, <1>13, <2>4, NewCycleHasWaiter DEF AwaitLive
    <3> HIDE DEF R, c
    <3>3. Reports(awakened', R, entries')
      BY <2>1, <3>1, <3>2, FailCycleReports
    <3>4. entries'[w].lifecycle # "Runnable"
      <4>1. Settlable(R, ToSet(c)) /\ "Failed" \in Result
        BY <2>1, <3>2, CycleSettlable DEF Result
      <4>2. entries'[w].lifecycle \in Terminal
        BY <2>1, <3>1, <3>2, <4>1, SettleFields DEF FailCycle
      <4> QED
        BY <4>2 DEF Terminal
    <3> QED
      BY <2>1, <2>2, <3>3, <3>4 DEF Reports
  <2> QED
    BY <2>3, <2>4
<1>14. CASE Close
  <2>1. \A u \in Task : ~Live(entries', u)
    BY <1>14, NextInv, IInvIsTableInvPrimed DEF Close, TableInv, Drained, Next
  <2>2. awakened' = <<>>
    BY <1>14 DEF Close
  <2> QED
    BY <1>2, <2>1, <2>2 DEF Live, Reports
<1> HIDE DEF Goal
<1>15. Goal
  BY <1>3, <1>4, <1>5, <1>6, <1>7, <1>8, <1>9, <1>10, <1>11, <1>12, <1>13, <1>14 DEF Next, Goal
<1> QED
  BY <1>15 DEF Goal

----------------------------------------------------------------------------
(* The results.                                                            *)

\* The inductive invariant's parts, in every reachable state.

\* Variables keep their types.
THEOREM TypeCorrect == Spec => []TypeOK
<1>1. IInv => TypeOK
  BY DEF IInv
<1> QED
  BY <1>1, Invariance, PTL

\* A one-shot resume token always has exactly one owner, so restore_checkout
\* never meets an impossible ownership.
THEOREM OneTokenOwner == Spec => []TokenHasOneOwner
<1>1. IInv => TokenHasOneOwner
  BY DEF IInv
<1> QED
  BY <1>1, Invariance, PTL

\* Lifecycle, result, suspension and request of every entry agree.
THEOREM EntriesAlwaysAgree == Spec => []EntriesAgree
<1>1. IInv => EntriesAgree
  BY DEF IInv
<1> QED
  BY <1>1, Invariance, PTL

\* A waiter list names exactly the tasks suspended on awaiting its owner.
THEOREM WaitersAlwaysExact == Spec => []WaitersAreExact
<1>1. IInv => WaitersAreExact
  BY DEF IInv
<1> QED
  BY <1>1, Invariance, PTL

\* A closed scope owns no live task, no token and no waiter.
THEOREM ClosedStaysDrained == Spec => []ClosedIsDrained
<1>1. IInv => ClosedIsDrained
  BY DEF IInv
<1> QED
  BY <1>1, Invariance, PTL

\* No cycle of awaiting tasks outlives the operation that closed it.  The
\* cycle check of await looks at the whole graph, and nothing else adds an
\* edge.
THEOREM NoCycleSurvives == Spec => []NoWaitCycle
<1>1. Init => NoWaitCycle
  BY InitNoWaitCycle
<1>2. IInv /\ NoWaitCycle /\ [Next]_vars => NoWaitCycle'
  BY StepNoWaitCycle
<1> QED
  BY <1>1, <1>2, Invariance, PTL DEF Spec

\* A recorded result is final.
THEOREM ResultsAreFinal == Spec => ResultIsFinal
<1>1. IInv /\ [Next]_vars
        => [\A t \in Task : entries[t].result # "None"
                              => entries'[t].result = entries[t].result]_vars
  BY StepKeeps DEF KeepsResults
<1> QED
  BY <1>1, Invariance, PTL DEF Spec, ResultIsFinal

\* A cancellation request ends only with its task, and no task is cancelled
\* without one except by close.
THEOREM RequestsAreKept == Spec => CancellationIsNotLost
<1>1. IInv /\ [Next]_vars
        => [\A t \in Task :
              /\ entries[t].cancellation_requested /\ Live(entries', t)
                   => entries'[t].cancellation_requested
              /\ Live(entries, t) /\ entries'[t].lifecycle = "Cancelled_state"
                   => entries[t].cancellation_requested \/ closed']_vars
  BY StepKeeps DEF KeepsRequests
<1> QED
  BY <1>1, Invariance, PTL DEF Spec, CancellationIsNotLost

\* Every task a step makes runnable is reported to the driver, once, and
\* nobody else is: by a wake-up, by a task that settles, and by a cycle that
\* fails, whose members' waiters are reported one list after the other.
THEOREM WakesAlwaysReported == Spec => WakesAreReported
<1>1. IInv /\ NoWaitCycle /\ Next
        => /\ \A t \in Task : In(t, awakened')
                               <=> (entries[t].lifecycle = "Suspended"
                                    /\ entries'[t].lifecycle = "Runnable")
           /\ \A i, j \in DOMAIN awakened' : awakened'[i] = awakened'[j] => i = j
  BY StepReports DEF Reports, Distinct
<1> QED
  BY <1>1, Invariance, NoCycleSurvives, PTL DEF Spec, WakesAreReported
==============================================================================
