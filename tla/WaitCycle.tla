------------------------------ MODULE WaitCycle ------------------------------
(***************************************************************************)
(* Deadlock detection among awaiting tasks: detect_wait_cycle of           *)
(* src/src/concurrency_contract.ml.  The wait graph is a function giving   *)
(* the task each task awaits (a suspended task has at most one await       *)
(* edge), or NoTask.                                                       *)
(***************************************************************************)
EXTENDS Naturals, Sequences

CONSTANTS MaxTasks,   \* bound on the tasks of a scope; a task is its spawn index
          NoTask      \* "awaits nobody"

ASSUME MaxTasksAssumption == MaxTasks \in Nat \ {0}
ASSUME NoTaskAssumption == NoTask \notin Nat

Task == 0..(MaxTasks - 1)
WaitGraph == [Task -> Task \cup {NoTask}]

(***************************************************************************)
(* A cycle of g: distinct tasks, each awaiting the next and the last       *)
(* awaiting the first.  The source repeats the first task at the end; the  *)
(* repetition only serves the message and unique_cycle removes it.         *)
(***************************************************************************)
Successor(c, i) == IF i = Len(c) THEN 1 ELSE i + 1

IsWaitCycle(g, c) ==
  /\ c # <<>>
  /\ \A i \in DOMAIN c : g[c[i]] = c[Successor(c, i)]
  /\ \A i, j \in DOMAIN c : c[i] = c[j] => i = j

Waiting(g) == {t \in Task : g[t] # NoTask}

WaitCycles(g) ==
  {c \in UNION {[1..n -> Waiting(g)] : n \in 1..MaxTasks} : IsWaitCycle(g, c)}

OnWaitCycle(g, t) == \E c \in WaitCycles(g) : \E i \in DOMAIN c : c[i] = t

----------------------------------------------------------------------------
(* The walk of the source: starts in ascending order, the path so far kept *)
(* to recognise the first task met again.                                  *)

Index(path, t) == CHOOSE i \in DOMAIN path : path[i] = t

NextOnPath(g, path) == g[path[Len(path)]]

\* One step of the walk: it stops at a task that awaits nobody and at a task
\* already on the path.
Extended(g, path) ==
  LET current == NextOnPath(g, path)
  IN  IF current = NoTask \/ \E i \in DOMAIN path : path[i] = current
      THEN path
      ELSE Append(path, current)

\* No path has more than MaxTasks tasks, so as many steps end every walk.
Walk(g, start) ==
  LET path[n \in 0..MaxTasks] == IF n = 0 THEN <<start>> ELSE Extended(g, path[n - 1])
  IN  path[MaxTasks]

\* A walk found a cycle iff its last task awaits some task of the walk.
LoopsBack(g, start) == NextOnPath(g, Walk(g, start)) # NoTask

\* A wrong cycle: the tail leading into it is not dropped.
WalkWithoutDrop(g, start) == Walk(g, start)

CycleOfWalk(g, start) ==
  LET path == Walk(g, start)
  IN  SubSeq(path, Index(path, NextOnPath(g, path)), Len(path))

\* find_map over the starts: the smallest waiter whose walk loops back.
FirstLoopingStart(g) ==
  CHOOSE s \in Task : /\ LoopsBack(g, s)
                      /\ \A r \in Task : LoopsBack(g, r) => s <= r

DetectWaitCycle(g) ==
  IF \E s \in Task : LoopsBack(g, s) THEN CycleOfWalk(g, FirstLoopingStart(g)) ELSE <<>>

----------------------------------------------------------------------------
\* What the detector is for: it returns a cycle of g when g has one, and else
\* nothing.
DetectorIsExact(g) ==
  /\ DetectWaitCycle(g) = <<>> <=> WaitCycles(g) = {}
  /\ DetectWaitCycle(g) # <<>> => DetectWaitCycle(g) \in WaitCycles(g)
==============================================================================
