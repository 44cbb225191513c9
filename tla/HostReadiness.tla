----------------------------- MODULE HostReadiness -----------------------------
(***************************************************************************)
(* The registry of tasks that wait for a host descriptor to become         *)
(* readable: src/src/host_readiness.ml, one action per call.  It owns one  *)
(* duplicate of a descriptor per registration and drives the scheduler of  *)
(* its scope; a duplicate is known here by its registration.  A call       *)
(* refused before anything changed is no step.                             *)
(***************************************************************************)
EXTENDS SchedulerCore

CONSTANT MaxReplay      \* decisions given to one replay

ASSUME RegistrationAssumption == Registration \subseteq Nat

VARIABLES registry,    \* the registrations that own a duplicate, oldest first
          next_id,     \* the next registration
          releases,    \* how often each registration's duplicate was closed
          outcome      \* how the last call ended

hostVars == <<vars, registry, next_id, releases, outcome>>

\* A registration is what a decision records: which one, and whose.
Decision == [id : Registration, task : Task]
Outcome == {"Ok", "Descriptor_failed", "Stale", "Not_suspended"}

HostInit ==
  /\ Init
  /\ registry = <<>>
  /\ next_id = 0
  /\ releases = [r \in Registration |-> 0]
  /\ outcome = "Ok"

----------------------------------------------------------------------------
(* Calls as functions of the state before them: S holds the task table,    *)
(* the registry, the releases, the tasks woken so far and the outcome.     *)

Before == [entries |-> entries, registry |-> registry, releases |-> releases,
           awakened |-> <<>>, outcome |-> "Ok"]

\* retire_matching: out of the registry first, then each duplicate closed,
\* whether or not the closing of another fails.
RetireMatching(S, retiring) ==
  [S EXCEPT !.registry = Filtered(@, Decision \ retiring),
            !.releases = [r \in Registration |->
                            @[r] + Cardinality({i \in DOMAIN S.registry :
                                     S.registry[i] \in retiring /\ S.registry[i].id = r})]]

\* The task waits on exactly this registration and its token is with it.
StillOwned(E, e) == SuspendedOn(E, e.task, "Host_readiness", e.id) /\ E[e.task].resume

Reconciled(S) == RetireMatching(S, {e \in ToSet(S.registry) : ~StillOwned(S.entries, e)})

\* A wrong wake: the registration stays until the next reconcile.
WokenUnretired(S, e) ==
  IF S.outcome # "Ok" THEN S
  ELSE IF ~StillOwned(S.entries, e) THEN [S EXCEPT !.outcome = "Not_suspended"]
  ELSE [S EXCEPT !.entries = Wake(@, e.task), !.awakened = Append(@, e.task),
                 !.releases[e.id] = @ + 1]

\* wake, unless an earlier wake of the same call failed.  A failure to close
\* the duplicate is a diagnostic beside the result, not an error.
Woken(S, e) ==
  IF S.outcome # "Ok" THEN S
  ELSE IF ~StillOwned(S.entries, e) THEN [S EXCEPT !.outcome = "Not_suspended"]
  ELSE [RetireMatching(S, {e})
          EXCEPT !.entries = Wake(@, e.task), !.awakened = Append(@, e.task)]

\* A wrong poll: it trusts the registry and wakes without reconciling.
PolledUnreconciled(S, readable) ==
  LET ready == Filtered(S.registry, {e \in Decision : e.id \in readable})
      after[i \in 0..Len(ready)] == IF i = 0 THEN S ELSE Woken(after[i - 1], ready[i])
  IN  after[Len(ready)]

\* poll_live: the registrations found readable, in registration order.
Ready(S, readable) ==
  Filtered(Reconciled(S).registry, {e \in Decision : e.id \in readable})

Polled(S, readable) ==
  LET ready == Ready(S, readable)
      after[i \in 0..Len(ready)] ==
        IF i = 0 THEN Reconciled(S) ELSE Woken(after[i - 1], ready[i])
  IN  after[Len(ready)]

\* A wrong find_exact: any registration of the task will do.
FindByTask(S, d) == Filtered(S.registry, {e \in Decision : e.task = d.task})

FindExact(S, d) == Filtered(S.registry, {d})

Consume(S, d) ==
  LET found == FindExact(S, d)
  IN  IF S.outcome # "Ok" THEN S
      ELSE IF found = <<>> THEN [S EXCEPT !.outcome = "Stale"]
      ELSE Woken(S, found[1])

Replayed(S, decisions) ==
  LET after[i \in 0..Len(decisions)] ==
        IF i = 0 THEN Reconciled(S) ELSE Consume(after[i - 1], decisions[i])
  IN  after[Len(decisions)]

\* request_cancel and deliver_cancel; a settled task has nothing to deliver,
\* but what it still has in the registry is retired all the same.
Cancelled(S, t) ==
  RetireMatching(
    IF Live(S.entries, t)
    THEN [S EXCEPT !.entries = Terminalize(@, t, "Cancelled"),
                   !.awakened = AwakenedByTerminalize(S.entries, t, "Cancelled")]
    ELSE S,
    {e \in ToSet(S.registry) : e.task = t})

----------------------------------------------------------------------------
(* The registry's calls.                                                   *)

\* What the caller is left with: a call that ends in an error reports nobody.
Return(S) ==
  /\ entries' = S.entries
  /\ registry' = S.registry
  /\ releases' = S.releases
  /\ awakened' = IF S.outcome = "Ok" THEN S.awakened ELSE <<>>
  /\ outcome' = S.outcome
  /\ UNCHANGED <<next_spawn, held, next_id>>

\* The task is checked before the descriptor is duplicated, and suspended
\* only after.
Register(t) ==
  /\ ~closed
  /\ next_id \in Registration
  /\ \/ /\ SuspendTask(t, "Host_readiness", next_id)
        /\ registry' = Append(registry, [id |-> next_id, task |-> t])
        /\ next_id' = next_id + 1
        /\ outcome' = "Ok"
     \/ /\ CheckedOut(entries, t)
        /\ awakened' = <<>>
        /\ outcome' = "Descriptor_failed"
        /\ UNCHANGED <<entries, next_spawn, closed, held, registry, next_id>>
  /\ UNCHANGED releases

\* A failure to close what reconcile retires ends the call there, before any
\* task is woken; so does a failure to poll.
FailsBeforeWaking ==
  /\ ~closed
  /\ Return([Reconciled(Before) EXCEPT !.outcome = "Descriptor_failed"])
  /\ UNCHANGED closed

PollLive(readable) ==
  /\ ~closed
  /\ Return(Polled(Before, readable))
  /\ UNCHANGED closed

Replay(decisions) ==
  /\ ~closed
  /\ Return(Replayed(Before, decisions))
  /\ UNCHANGED closed

Cancel(t) ==
  /\ ~closed
  /\ Present(entries, t)
  /\ Return(Cancelled(Before, t))
  /\ UNCHANGED closed

Reconcile ==
  /\ Reconciled(Before) # Before
  /\ Return(Reconciled(Before))
  /\ UNCHANGED closed

\* The registry's own flag is set with the scheduler's.
Shutdown ==
  /\ ~closed
  /\ closed' = TRUE
  /\ Return([RetireMatching(Before, ToSet(registry))
               EXCEPT !.entries = [t \in Task |-> ClosedEntry(entries[t])]])

----------------------------------------------------------------------------
(* The scheduler under it: the tasks run, await each other and end; and it *)
(* may be cancelled behind the registry's back, which the source calls     *)
(* unsupported and reconcile is there for.                                 *)

SchedulerStep ==
  /\ \/ Spawn
     \/ \E t \in Task : \/ Checkout(t)
                        \/ RestoreCheckout(t)
                        \/ Finish(t, "Done")
                        \/ RequestCancel(t)
                        \/ DeliverCancel(t)
                        \/ CancellationBoundary(t)
     \/ \E w, t \in Task : AwaitReady(w, t) \/ AwaitLive(w, t)
  /\ outcome' = "Ok"
  /\ UNCHANGED <<registry, next_id, releases>>

HostNext ==
  \/ SchedulerStep
  \/ \E t \in Task : Register(t) \/ Cancel(t)
  \/ FailsBeforeWaking
  \/ \E readable \in SUBSET ToSet(registry) : PollLive({e.id : e \in readable})
  \/ \E decisions \in BoundedSeq(Decision, MaxReplay) : Replay(decisions)
  \/ Reconcile
  \/ Shutdown

HostSpec == HostInit /\ [][HostNext]_hostVars

----------------------------------------------------------------------------
(* Properties.                                                             *)

\* Every variable stays in its declared range.
HostTypeOK ==
  /\ TypeOK
  /\ registry \in Seq(Decision) /\ next_id \in Nat
  /\ releases \in [Registration -> Nat] /\ outcome \in Outcome

\* The duplicate of every registration ever made is closed exactly once, and
\* not while the registry owns it; a task that waits for readiness has the
\* registration that can wake it; and resume tokens keep a single owner.
\* This holds through wakes, replays, cancellations of waiters, shutdown, and
\* cancellations the registry was not told of.
OwnershipIsExact ==
  /\ HostTypeOK
  /\ \A i, j \in DOMAIN registry : i < j => registry[i].id < registry[j].id
  /\ \A r \in Registration :
       releases[r] = IF r < next_id /\ \A e \in ToSet(registry) : e.id # r THEN 1 ELSE 0
  /\ \A t \in Task, r \in Registration :
       SuspendedOn(entries, t, "Host_readiness", r) => In([id |-> r, task |-> t], registry)
  /\ closed => registry = <<>>
  /\ TokenHasOneOwner

\* A call reports exactly the tasks it made runnable, each once.  Only the
\* replay of a stale decision may wake tasks and report none of them: a live
\* poll that wakes one task never fails at the next, whatever happened to
\* the others since they registered.
WakesReachTheCaller ==
  [][LET woken == {t \in Task : entries[t].lifecycle = "Suspended"
                                  /\ entries'[t].lifecycle = "Runnable"}
     IN  /\ outcome' = "Ok" => ToSet(awakened') = woken /\ Distinct(awakened')
         /\ outcome' \notin {"Ok", "Stale"} => woken = {}]_hostVars

\* Replaying the decisions a live poll recorded, from the state the poll
\* found, does what the poll did; replaying one of them again, or any
\* decision the registry no longer owns, is refused and wakes nobody, even
\* when the same task waits again under a later registration.
ReplayIsThePoll ==
  ~closed =>
    /\ \A readable \in SUBSET {e.id : e \in ToSet(registry)} :
         LET decisions == Ready(Before, readable)
             polled == Polled(Before, readable)
         IN  /\ Replayed(Before, decisions) = polled
             /\ \A e \in ToSet(decisions) : Replayed(polled, <<e>>).outcome = "Stale"
    /\ \A d \in Decision :
         ~In(d, registry) => LET replayed == Replayed(Before, <<d>>)
                             IN  replayed.outcome = "Stale" /\ replayed.entries = entries
==============================================================================
