---------------------------- MODULE SchedulerCore ----------------------------
(***************************************************************************)
(* One scheduler of a structured scope: src/src/scheduler_core.ml, one     *)
(* action per operation.  Whoever drives it may call the operations in any *)
(* order; a call the source refuses with E0908 changes nothing and is no   *)
(* step here.                                                              *)
(***************************************************************************)
EXTENDS TaskTable

VARIABLES entries,      \* the task table
          next_spawn,   \* the next spawn index
          closed,       \* the scope is closed
          held,         \* the tasks whose resume token the driver holds
          awakened      \* the handles the last operation reported as woken

vars == <<entries, next_spawn, closed, held, awakened>>

Init ==
  /\ entries = [t \in Task |-> IF t = 0 THEN SpawnedEntry ELSE AbsentEntry]
  /\ next_spawn = 1
  /\ closed = FALSE
  /\ held = {}
  /\ awakened = <<>>

----------------------------------------------------------------------------
(* A driver takes the token of a runnable task and gives it back by one of *)
(* the operations below, or by restore_checkout when none of them moved    *)
(* the task.                                                               *)

\* A wrong spawn: a closed scope still takes tasks.
SpawnIntoClosed ==
  /\ next_spawn < MaxTasks
  /\ entries' = [entries EXCEPT ![next_spawn] = SpawnedEntry]
  /\ next_spawn' = next_spawn + 1
  /\ awakened' = <<>>
  /\ UNCHANGED <<closed, held>>

Spawn ==
  /\ ~closed
  /\ next_spawn < MaxTasks
  /\ entries' = [entries EXCEPT ![next_spawn] = SpawnedEntry]
  /\ next_spawn' = next_spawn + 1
  /\ awakened' = <<>>
  /\ UNCHANGED <<closed, held>>

\* A wrong checkout: the entry keeps its token as well.
CheckoutWithoutTaking(t) ==
  /\ entries[t].lifecycle = "Runnable"
  /\ entries[t].resume
  /\ held' = held \cup {t}
  /\ awakened' = <<>>
  /\ UNCHANGED <<entries, next_spawn, closed>>

Checkout(t) ==
  /\ entries[t].lifecycle = "Runnable"
  /\ entries[t].resume
  /\ entries' = [entries EXCEPT ![t] = [@ EXCEPT !.resume = FALSE]]
  /\ held' = held \cup {t}
  /\ awakened' = <<>>
  /\ UNCHANGED <<next_spawn, closed>>

\* The states restore_checkout treats as impossible: it raises
\* Bug_scheduler_core there.
InvalidOwnership(E, t) ==
  \/ E[t].lifecycle = "Suspended" /\ ~E[t].resume
  \/ E[t].lifecycle \in Terminal /\ E[t].resume

RestoreCheckout(t) ==
  /\ t \in held
  /\ ~InvalidOwnership(entries, t)
  /\ entries' = IF CheckedOut(entries, t)
                THEN [entries EXCEPT ![t] = [@ EXCEPT !.resume = TRUE]]
                ELSE entries
  /\ held' = held \ {t}
  /\ awakened' = <<>>
  /\ UNCHANGED <<next_spawn, closed>>

----------------------------------------------------------------------------
(* Suspensions other than await, and their wake-ups.                       *)

\* What a caller may pass as a registration.
RegistrationArgument == Registration \cup {-1}

\* A wrong prepare_host_suspend: any number is taken.
BlockerForAnyNumber(reason) ==
  CASE reason = "Yielded" -> {Nothing}
    [] reason \in {"Channel_sending", "Channel_receiving"} -> Channel
    [] reason = "Host_readiness" -> RegistrationArgument

\* prepare_host_suspend refuses a negative registration.
BlockerFor(reason) ==
  CASE reason = "Yielded" -> {Nothing}
    [] reason \in {"Channel_sending", "Channel_receiving"} -> Channel
    [] reason = "Host_readiness" -> {r \in RegistrationArgument : r >= 0}

\* suspend_yield, commit_channel_suspend and commit_host_suspend.
SuspendTask(t, reason, blocker) ==
  /\ CheckedOut(entries, t)
  /\ entries' = Suspend(entries, t, reason, blocker)
  /\ held' = held \ {t}
  /\ awakened' = <<>>
  /\ UNCHANGED <<next_spawn, closed>>

\* wake_yielded, commit_channel_wake and wake_host_readiness.
WakeTask(t, reason, blocker) ==
  /\ SuspendedOn(entries, t, reason, blocker)
  /\ entries[t].resume
  /\ entries' = Wake(entries, t)
  /\ awakened' = <<t>>
  /\ UNCHANGED <<next_spawn, closed, held>>

----------------------------------------------------------------------------
(* Await and completion.                                                   *)

AwaitReady(w, t) ==
  /\ CheckedOut(entries, w)
  /\ entries[t].result # "None"
  /\ entries' = [entries EXCEPT ![w] = [@ EXCEPT !.resume = TRUE]]
  /\ held' = held \ {w}
  /\ awakened' = <<>>
  /\ UNCHANGED <<next_spawn, closed>>

\* A wrong await: no cycle check.
AwaitWithoutCycleCheck(w, t) ==
  /\ CheckedOut(entries, w)
  /\ Live(entries, t)
  /\ entries' = RegisterWaiter(entries, w, t)
  /\ awakened' = <<>>
  /\ held' = held \ {w}
  /\ UNCHANGED <<next_spawn, closed>>

AwaitLive(w, t) ==
  /\ CheckedOut(entries, w)
  /\ Live(entries, t)
  /\ LET registered == RegisterWaiter(entries, w, t)
         cycle == AwaitCycle(entries, w, t)
     IN  IF cycle = <<>>
         THEN /\ entries' = registered
              /\ awakened' = <<>>
         ELSE /\ entries' = FailCycle(registered, cycle)
              /\ awakened' = AwakenedByFailCycle(registered, cycle)
  /\ held' = held \ {w}
  /\ UNCHANGED <<next_spawn, closed>>

\* complete and fail.
Finish(t, r) ==
  /\ CheckedOut(entries, t)
  /\ entries' = Terminalize(entries, t, r)
  /\ awakened' = AwakenedByTerminalize(entries, t, r)
  /\ held' = held \ {t}
  /\ UNCHANGED <<next_spawn, closed>>

----------------------------------------------------------------------------
(* Cancellation and closing.                                               *)

RequestCancel(t) ==
  /\ Live(entries, t)
  /\ entries' = [entries EXCEPT ![t] = [@ EXCEPT !.cancellation_requested = TRUE]]
  /\ awakened' = <<>>
  /\ UNCHANGED <<next_spawn, closed, held>>

\* A task may be settled while the driver holds its token; the driver learns
\* of it at the next boundary.
DeliverCancel(t) ==
  /\ Live(entries, t)
  /\ entries[t].cancellation_requested
  /\ entries' = Terminalize(entries, t, "Cancelled")
  /\ awakened' = AwakenedByTerminalize(entries, t, "Cancelled")
  /\ UNCHANGED <<next_spawn, closed, held>>

\* cancellation_boundary reached with the request pending, or already
\* cancelled under the driver; the token goes back to be discarded.
CancellationBoundary(t) ==
  /\ t \in held
  /\ \/ /\ CheckedOut(entries, t)
        /\ entries[t].cancellation_requested
        /\ entries' = Terminalize(entries, t, "Cancelled")
        /\ awakened' = AwakenedByTerminalize(entries, t, "Cancelled")
     \/ /\ entries[t].lifecycle = "Cancelled_state"
        /\ awakened' = <<>>
        /\ UNCHANGED entries
  /\ held' = held \ {t}
  /\ UNCHANGED <<next_spawn, closed>>

Close ==
  /\ ~closed
  /\ closed' = TRUE
  /\ entries' = [t \in Task |-> ClosedEntry(entries[t])]
  /\ awakened' = <<>>
  /\ UNCHANGED <<next_spawn, held>>

Next ==
  \/ Spawn
  \/ \E t \in Task : \/ Checkout(t)
                     \/ RestoreCheckout(t)
                     \/ \E r \in {"Done", "Failed"} : Finish(t, r)
                     \/ RequestCancel(t)
                     \/ DeliverCancel(t)
                     \/ CancellationBoundary(t)
  \/ \E t \in Task, reason \in Suspension \ {"Awaiting"} :
       \E blocker \in BlockerFor(reason) : \/ SuspendTask(t, reason, blocker)
                                           \/ WakeTask(t, reason, blocker)
  \/ \E w, t \in Task : AwaitReady(w, t) \/ AwaitLive(w, t)
  \/ Close

Spec == Init /\ [][Next]_vars

----------------------------------------------------------------------------
(* Properties.                                                             *)

\* Every variable stays in its declared range.
TypeOK ==
  /\ entries \in Table
  /\ next_spawn \in 1..MaxTasks
  /\ closed \in BOOLEAN
  /\ held \subseteq Task

\* A one-shot resume token has one owner: the entry or the driver, never
\* both; a runnable task has exactly one, a suspended task's is in its entry,
\* a settled task's entry has none.  restore_checkout's Bug_scheduler_core
\* failure is therefore never raised.
TokenHasOneOwner ==
  \A t \in Task :
    /\ entries[t].resume => t \notin held
    /\ entries[t].lifecycle = "Runnable" => (entries[t].resume <=> t \notin held)
    /\ ~InvalidOwnership(entries, t)
    /\ entries[t].lifecycle = "Absent" => t \notin held /\ ~entries[t].resume

\* Lifecycle, result, suspension reason and cancellation request of an entry
\* agree, however it got there, and exactly the spawned tasks have one.
EntriesAgree ==
  \A t \in Task : /\ EntryAgrees(entries[t])
                  /\ Present(entries, t) <=> t < next_spawn

\* The waiter list of a task names exactly the tasks suspended on awaiting
\* it, each once: no waiter is lost and none is woken twice, after any mix of
\* completions, failures, cancellations and broken cycles.
WaitersAreExact == WaitersExact(entries)

\* No cycle of awaiting tasks survives an operation: a deadlock among tasks
\* is always broken by failing its members.
NoWaitCycle == WaitCycles(WaitEdges(entries)) = {}

\* A closed scope owns nothing: every task settled, no token, no waiter.
ClosedIsDrained ==
  closed => \A t \in Task : ~Live(entries, t) /\ ~entries[t].resume /\ entries[t].waiters = <<>>

\* A task's result, once recorded, is never changed, not even by close.
ResultIsFinal ==
  [][\A t \in Task : entries[t].result # "None" => entries'[t].result = entries[t].result]_vars

\* Every task a step makes runnable again is reported to the driver, once and
\* in an order that can be queued directly; nothing else is reported.  A task
\* that wakes unreported would never be scheduled again.
WakesAreReported ==
  [][/\ \A t \in Task : In(t, awakened')
                          <=> (entries[t].lifecycle = "Suspended"
                               /\ entries'[t].lifecycle = "Runnable")
     /\ \A i, j \in DOMAIN awakened' : awakened'[i] = awakened'[j] => i = j]_vars

\* A cancellation request outlives suspensions and wake-ups: it ends only
\* with the task, and a task is cancelled only on request or by close.
CancellationIsNotLost ==
  [][\A t \in Task :
       /\ entries[t].cancellation_requested /\ Live(entries', t)
            => entries'[t].cancellation_requested
       /\ Live(entries, t) /\ entries'[t].lifecycle = "Cancelled_state"
            => entries[t].cancellation_requested \/ closed']_vars
==============================================================================
