------------------------------ MODULE TaskTable ------------------------------
(***************************************************************************)
(* The task entries of one scheduler and the operations that change them   *)
(* without asking who called: src/src/scheduler_core.ml.  A table E maps   *)
(* each possible task (its spawn index) to its entry; a task not spawned   *)
(* yet is "Absent".                                                        *)
(***************************************************************************)
EXTENDS WaitCycle, SequencesExt

CONSTANTS Channel,        \* identities of the channels of the scope
          Registration,   \* identities of host-readiness registrations
          Nothing         \* "suspended on nothing in particular"

Lifecycle == {"Runnable", "Suspended", "Done_state", "Failed_state", "Cancelled_state"}
Terminal == {"Done_state", "Failed_state", "Cancelled_state"}
Result == {"Done", "Failed", "Cancelled"}
Suspension == {"Yielded", "Awaiting", "Channel_sending", "Channel_receiving",
               "Host_readiness"}
Blocker == Task \cup Channel \cup Registration \cup {Nothing}

\* `resume' says whether the entry owns its one-shot resume token.
Entry == [ lifecycle : Lifecycle \cup {"Absent"},
           suspension : Suspension \cup {"None"},
           on : Blocker,
           result : Result \cup {"None"},
           waiters : Seq(Task),
           cancellation_requested : BOOLEAN,
           resume : BOOLEAN ]

Table == [Task -> Entry]

AbsentEntry == [ lifecycle |-> "Absent", suspension |-> "None", on |-> Nothing,
                 result |-> "None", waiters |-> <<>>,
                 cancellation_requested |-> FALSE, resume |-> FALSE ]
SpawnedEntry == [AbsentEntry EXCEPT !.lifecycle = "Runnable", !.resume = TRUE]

Present(E, t) == E[t].lifecycle # "Absent"
Live(E, t) == E[t].lifecycle \in {"Runnable", "Suspended"}

\* ensure_checked_out: runnable, and its resume token is with the caller.
CheckedOut(E, t) == E[t].lifecycle = "Runnable" /\ ~E[t].resume

\* Suspended on exactly this blocker for this reason.
SuspendedOn(E, t, reason, blocker) ==
  E[t].lifecycle = "Suspended" /\ E[t].suspension = reason /\ E[t].on = blocker

\* Lists of task identities.
In(x, s) == \E i \in DOMAIN s : s[i] = x
Distinct(s) == \A i, j \in DOMAIN s : s[i] = s[j] => i = j

\* The elements of s in K, in order.
Filtered(s, K) ==
  LET kept[i \in 0..Len(s)] ==
        IF i = 0 THEN <<>>
        ELSE IF s[i] \in K THEN Append(kept[i - 1], s[i]) ELSE kept[i - 1]
  IN  kept[Len(s)]

----------------------------------------------------------------------------
(* Suspending and waking one task.                                         *)

\* A wrong suspension: it rebuilds the entry and forgets the request.
SuspendUnrequested(E, t, reason, blocker) ==
  [E EXCEPT ![t] = [@ EXCEPT !.lifecycle = "Suspended", !.suspension = reason,
                             !.on = blocker, !.resume = TRUE,
                             !.cancellation_requested = FALSE]]

Suspend(E, t, reason, blocker) ==
  [E EXCEPT ![t] = [@ EXCEPT !.lifecycle = "Suspended", !.suspension = reason,
                             !.on = blocker, !.resume = TRUE]]

Wake(E, t) ==
  [E EXCEPT ![t] = [@ EXCEPT !.lifecycle = "Runnable", !.suspension = "None",
                             !.on = Nothing]]

----------------------------------------------------------------------------
(* Settling tasks: terminalize one, or a whole await cycle.                *)

(***************************************************************************)
(* remove_waiter for every member of M.  The source filters each waiter    *)
(* list; a list never holds more than one task of M (a single task, or the *)
(* tasks of one cycle, each awaiting a different one), so removing the     *)
(* first match is the same list.  WaitersAreExact is that fact.            *)
(***************************************************************************)
Without(s, M) == RemoveFirstMatch(s, LAMBDA t : t \in M)

\* A wrong remove_waiter: it looks at the entry of the waiter only.
RemoveWaiterOfSelf(E, M) ==
  [t \in Task |-> IF t \in M THEN [E[t] EXCEPT !.waiters = Without(@, M)] ELSE E[t]]

RemoveWaiter(E, M) == [t \in Task |-> [E[t] EXCEPT !.waiters = Without(@, M)]]

ResultLifecycle(r) == CASE r = "Done" -> "Done_state"
                        [] r = "Failed" -> "Failed_state"
                        [] r = "Cancelled" -> "Cancelled_state"

\* A wrong terminalize: the request stays on the settled entry.
SettledStillRequested(e, r) ==
  [e EXCEPT !.resume = FALSE, !.lifecycle = ResultLifecycle(r), !.suspension = "None",
            !.on = Nothing, !.result = r]

Settled(e, r) ==
  [e EXCEPT !.resume = FALSE, !.lifecycle = ResultLifecycle(r), !.suspension = "None",
            !.on = Nothing, !.result = r, !.cancellation_requested = FALSE]

\* wake_waiters: the recorded waiters of m that are still suspended on m.
IsAwakenedBy(E, m, t) ==
  /\ In(t, E[m].waiters)
  /\ SuspendedOn(E, t, "Awaiting", m)

Awakened(E, m) ==
  Filtered(E[m].waiters, {t \in Task : SuspendedOn(E, t, "Awaiting", m)})

WakeWaiters(E, M) ==
  [t \in Task |->
     LET e == IF \E m \in M : IsAwakenedBy(E, m, t) THEN Wake(E, t)[t] ELSE E[t]
     IN  IF t \in M THEN [e EXCEPT !.waiters = <<>>] ELSE e]

\* All members terminal before any waiter wakes.
SettledTogether(E, M, r) ==
  LET removed == RemoveWaiter(E, M)
  IN  [t \in Task |-> IF t \in M THEN Settled(removed[t], r) ELSE removed[t]]

Settle(E, M, r) == WakeWaiters(SettledTogether(E, M, r), M)

\* The handles terminalize and fail_cycle report, in registration order.
Terminalize(E, t, r) == Settle(E, {t}, r)
AwakenedByTerminalize(E, t, r) == Awakened(SettledTogether(E, {t}, r), t)

\* A wrong fail_cycle: only the task that closed the cycle fails.
FailOneOfCycle(E, cycle) == Settle(E, {cycle[1]}, "Failed")

FailCycle(E, cycle) == Settle(E, ToSet(cycle), "Failed")
AwakenedByFailCycle(E, cycle) ==
  LET failed == SettledTogether(E, ToSet(cycle), "Failed")
      awakened[i \in 0..Len(cycle)] ==
        IF i = 0 THEN <<>> ELSE awakened[i - 1] \o Awakened(failed, cycle[i])
  IN  awakened[Len(cycle)]

----------------------------------------------------------------------------
(* Awaiting.                                                               *)

WaitEdges(E) ==
  [t \in Task |-> IF E[t].lifecycle = "Suspended" /\ E[t].suspension = "Awaiting"
                  THEN E[t].on ELSE NoTask]

\* The waiter suspended and registered, before the cycle check.
RegisterWaiter(E, w, t) ==
  LET suspended == Suspend(E, w, "Awaiting", t)
  IN  [suspended EXCEPT ![t].waiters = Append(@, w)]

AwaitCycle(E, w, t) == DetectWaitCycle(WaitEdges(RegisterWaiter(E, w, t)))

----------------------------------------------------------------------------
(* Closing the scheduler: every unsettled task is cancelled. *)

\* A wrong close: settled tasks are cancelled over.
ClosedOver(e) == [Settled(e, "Cancelled") EXCEPT !.waiters = <<>>]

ClosedEntry(e) ==
  IF e.lifecycle = "Absent" THEN e
  ELSE IF e.result = "None" THEN [Settled(e, "Cancelled") EXCEPT !.waiters = <<>>]
  ELSE [e EXCEPT !.resume = FALSE, !.waiters = <<>>, !.suspension = "None", !.on = Nothing]

----------------------------------------------------------------------------
(* What a consistent table looks like.                                     *)

EntryAgrees(e) ==
  /\ e.result # "None" <=> e.lifecycle \in Terminal
  /\ e.result # "None" => e.lifecycle = ResultLifecycle(e.result)
  /\ e.suspension # "None" <=> e.lifecycle = "Suspended"
  /\ e.suspension = "Awaiting" => e.on \in Task
  /\ e.suspension = "None" => e.on = Nothing
  /\ e.cancellation_requested => e.lifecycle \in {"Runnable", "Suspended"}

WaitersExact(E) ==
  \A t \in Task :
    /\ \A w \in Task : In(w, E[t].waiters) <=> SuspendedOn(E, w, "Awaiting", t)
    /\ Distinct(E[t].waiters)
    /\ E[t].waiters # <<>> => Live(E, t)
==============================================================================
