------------------------------ MODULE RoundRobin ------------------------------
(***************************************************************************)
(* The deterministic scheduler that runs a whole program: src/src/         *)
(* round_robin.ml, with the structured scopes it opens, their failure      *)
(* policies (scope_policy.ml) and one channel in each scope.               *)
(*                                                                         *)
(* The program is any program: a decision takes a task from the runnable   *)
(* queue, and the task performs any operation.  One decision is one step.  *)
(* A run (scope) is its opening order; task t of run r is <<r, t>>, and    *)
(* task 0 is the body.                                                     *)
(***************************************************************************)
EXTENDS TaskTable, FiniteSets

CONSTANTS MaxRuns,      \* bound on the scopes a program opens
          Capacities,   \* the capacities of its channels
          RootPolicy,   \* "Fail_fast" or "Collect", of the root scope
          Operations,   \* the operations programs perform
          Fifo          \* whether decisions take the head of the queue

Run == 0..(MaxRuns - 1)

\* The channel of a run goes by the run's number.
ASSUME ChannelAssumption == Channel = Run
ASSUME PolicyAssumption == RootPolicy \in {"Fail_fast", "Collect"}

TaskId == Run \X Task
TheMessage == "message"

Chan == INSTANCE ChannelContract WITH Sender <- Task, Value <- {TheMessage}

VARIABLES tables,     \* the scheduler of each run
          tokens,     \* what the resume token of each task continues
          channels,   \* the channel of each run, or Nothing
          scopes,     \* the run itself: who opened it and what it observed
          queue,      \* the runnable tasks
          phase       \* driving, or how the program ended

vars == <<tables, tokens, channels, scopes, queue, phase>>

(***************************************************************************)
(* The kinds of continuation: an evaluator state, an await of a target, a  *)
(* nested scope's completion, a channel operation's result.                *)
(***************************************************************************)
Token == [kind : {"state", "awaiting", "nested_wait", "channel"}, target : Task \cup {NoTask}]
GlobalState == [kind |-> "state", target |-> NoTask]
GlobalAwaiting(t) == [kind |-> "awaiting", target |-> t]
GlobalNestedWait == [kind |-> "nested_wait", target |-> NoTask]
GlobalChannel == [kind |-> "channel", target |-> NoTask]

Failures == {"Failed", "Cancelled"}

Scope == [ opened : BOOLEAN,
           parent : TaskId \cup {Nothing},
           seen_terminal : SUBSET Task,
           first_non_success : Failures \cup {"None"},
           aggregate : Result \cup {"Collected", "None"},
           cancellation_started : BOOLEAN ]

Unopened == [ opened |-> FALSE, parent |-> Nothing, seen_terminal |-> {},
              first_non_success |-> "None", aggregate |-> "None",
              cancellation_started |-> FALSE ]
OpenedBy(parent) == [Unopened EXCEPT !.opened = TRUE, !.parent = parent]

NoTable == [t \in Task |-> AbsentEntry]
BodyTable == [NoTable EXCEPT ![0] = SpawnedEntry]

Init ==
  /\ tables = [r \in Run |-> IF r = 0 THEN BodyTable ELSE NoTable]
  /\ tokens = [r \in Run |-> [t \in Task |-> GlobalState]]
  /\ channels = [r \in Run |-> Nothing]
  /\ scopes = [r \in Run |-> IF r = 0 THEN OpenedBy(Nothing) ELSE Unopened]
  /\ queue = << <<0, 0>> >>
  /\ phase = "driving"

----------------------------------------------------------------------------
(* Within a decision the scheduler passes from world to world; `bug' says  *)
(* that it met a state it takes for impossible.                            *)

World == [tables |-> tables, tokens |-> tokens, channels |-> channels,
          scopes |-> scopes, queue |-> queue, bug |-> FALSE]

Require(w, holds) == [w EXCEPT !.bug = @ \/ ~holds]

Children(w, r) ==
  LET n == Cardinality({t \in Task : Present(w.tables[r], t)}) - 1
  IN  [i \in 1..n |-> i]

PolicyOf(r) == IF r = 0 THEN RootPolicy ELSE "Fail_fast"

\* A wrong queue: new entries come right behind the first one.
EnqueueBehindFirst(w, r, ts) ==
  LET new == [i \in DOMAIN ts |-> <<r, ts[i]>>]
  IN  [w EXCEPT !.queue = IF @ = <<>> THEN new ELSE <<Head(@)>> \o new \o Tail(@)]

Enqueue(w, r, ts) ==
  [w EXCEPT !.queue = @ \o [i \in DOMAIN ts |-> <<r, ts[i]>>]]

\* remove_task
Dequeue(w, r, t) == [w EXCEPT !.queue = SelectSeq(@, LAMBDA q : q # <<r, t>>)]

\* The task owns a token again; suspended and woken in one go it is runnable.
Owning(w, r, t, token) ==
  [w EXCEPT !.tables[r][t].resume = TRUE, !.tokens[r][t] = token]

\* suspend_and_requeue
Requeue(w, r, t) == Enqueue(Owning(w, r, t, GlobalState), r, <<t>>)

Blocked(w, r, t, reason, on, token) ==
  Owning([w EXCEPT !.tables[r] = Suspend(@, t, reason, on)], r, t, token)

\* A wrong settlement: whoever awaited the task is not queued.
SettleSilently(w, r, t, result) ==
  [w EXCEPT !.tables[r] = Terminalize(@, t, result)]

\* complete, fail or cancel one task and queue the tasks that awaited it.
SettleTask(w, r, t, result) ==
  LET E == w.tables[r]
  IN  Enqueue([w EXCEPT !.tables[r] = Terminalize(E, t, result)], r,
              AwakenedByTerminalize(E, t, result))

\* A wrong delivery: the channel still lists the task.
DeliverCancelInPlace(w, r, t) == SettleTask(w, r, t, "Cancelled")

\* deliver_cancel takes a task off the channel of its scope first.
DeliverCancel(w, r, t) ==
  LET off == [w EXCEPT !.channels[r] = IF @ = Nothing THEN @ ELSE Chan!AfterCancel(@, t)]
  IN  SettleTask(off, r, t, "Cancelled")

Request(w, r, t) == [w EXCEPT !.tables[r][t].cancellation_requested = TRUE]

----------------------------------------------------------------------------
(* scope_policy.ml *)

\* Every unfinished child in spawn order: a suspended one is cancelled on the
\* spot, a runnable one is asked.
CancelUnfinished(w, r) ==
  LET cancel(z, t) ==
        CASE z.tables[r][t].result # "None" -> z
          [] z.tables[r][t].lifecycle = "Suspended" -> DeliverCancel(z, r, t)
          [] OTHER -> Request(z, r, t)
  IN  FoldLeft(cancel, w, Children(w, r))

\* A wrong record_terminal: the failure is frozen and the siblings run on.
FreezeOnly(w, r, t) ==
  LET result == w.tables[r][t].result
  IN  IF PolicyOf(r) = "Fail_fast" /\ result \in Failures
         /\ w.scopes[r].first_non_success = "None"
      THEN [w EXCEPT !.scopes[r].first_non_success = result]
      ELSE w

RecordTerminal(w, r, t) ==
  LET result == w.tables[r][t].result
  IN  IF PolicyOf(r) = "Fail_fast" /\ result \in Failures
         /\ w.scopes[r].first_non_success = "None"
      THEN CancelUnfinished([w EXCEPT !.scopes[r].first_non_success = result], r)
      ELSE w

Aggregate(w, r) ==
  CASE PolicyOf(r) = "Collect" -> "Collected"
    [] PolicyOf(r) = "Fail_fast" /\ w.scopes[r].first_non_success # "None"
         -> w.scopes[r].first_non_success
    [] OTHER -> "Done"

----------------------------------------------------------------------------
(* Settled tasks: observing them, completing their scopes, cancelling what *)
(* they own.                                                               *)

\* The parent waits, Yielded, for its nested scope; a settled parent does not
\* care any more.
ResumeParent(w, parent) ==
  LET r == parent[1]
      t == parent[2]
      E == w.tables[r]
  IN  IF E[t].result # "None" THEN w
      ELSE Requeue(Require([w EXCEPT !.tables[r] = Wake(E, t)],
                           /\ SuspendedOn(E, t, "Yielded", Nothing)
                           /\ E[t].resume
                           /\ w.tokens[r][t].kind = "nested_wait"), r, t)

MaybeFinalize(w, r) ==
  IF \/ w.scopes[r].aggregate # "None"
     \/ w.tables[r][0].result = "None"
     \/ ~(ToSet(Children(w, r)) \subseteq w.scopes[r].seen_terminal)
  THEN w
  ELSE LET checked == Require(w, w.scopes[r].first_non_success = "None"
                                 /\ PolicyOf(r) = "Fail_fast"
                                 => \A t \in ToSet(Children(w, r)) :
                                      w.tables[r][t].result = "Done")
           done == [checked EXCEPT !.scopes[r].aggregate = Aggregate(w, r)]
       IN  IF w.scopes[r].parent = Nothing THEN done
           ELSE ResumeParent(done, w.scopes[r].parent)

RECURSIVE ObserveTerminal(_, _, _), CancelRun(_, _)

ObserveAllChildren(w, r) ==
  LET observe(z, t) == ObserveTerminal(z, r, t) IN FoldLeft(observe, w, Children(w, r))

\* The runs opened by the tasks T of run r, newest first.
RunsOpenedBy(w, r, T) ==
  SelectSeq([i \in 1..MaxRuns |-> MaxRuns - i],
            LAMBDA n : w.scopes[n].opened /\ \E t \in T : w.scopes[n].parent = <<r, t>>)

CancelRuns(w, runs) ==
  LET cancel(z, n) == CancelRun(z, n) IN FoldLeft(cancel, w, runs)

\* A run is cancelled with its owner: what it opened first, then its body and
\* children, queued or not.
CancelRun(w, r) ==
  LET cancel(z, t) ==
        ObserveTerminal(IF z.tables[r][t].result # "None" THEN z
                        ELSE DeliverCancel(Dequeue(z, r, t), r, t), r, t)
      started == [w EXCEPT !.scopes[r].cancellation_started = TRUE]
  IN  IF w.scopes[r].cancellation_started \/ w.scopes[r].aggregate # "None" THEN w
      ELSE FoldLeft(cancel, CancelRuns(started, RunsOpenedBy(w, r, Task)),
                    <<0>> \o Children(w, r))

\* A wrong observe_terminal: the runs a cancelled task owns run on.
ForgetNested(w, r, t) == w

CancelNestedScopes(w, r, t) == CancelRuns(w, RunsOpenedBy(w, r, {t}))

ObserveTerminal(w, r, t) ==
  LET result == w.tables[r][t].result
      unowned == IF result = "Cancelled" THEN CancelNestedScopes(w, r, t) ELSE w
      marked == [unowned EXCEPT !.scopes[r].seen_terminal = @ \cup {t}]
      recorded == IF t = 0 THEN marked ELSE RecordTerminal(marked, r, t)
  IN  CASE t \in w.scopes[r].seen_terminal -> MaybeFinalize(w, r)
        [] t \notin w.scopes[r].seen_terminal /\ result = "None" -> w
        [] OTHER -> MaybeFinalize(ObserveAllChildren(recorded, r), r)

SettleAndObserve(w, r, t, result) == ObserveTerminal(SettleTask(w, r, t, result), r, t)

----------------------------------------------------------------------------
(* A decision. *)

\* close_owned: everything is cancelled, children's scopes included.
CloseOwned(w) ==
  [w EXCEPT !.tables = [r \in Run |-> [t \in Task |-> ClosedEntry(w.tables[r][t])]],
            !.channels = [r \in Run |-> IF w.channels[r] = Nothing THEN Nothing
                                        ELSE Chan!AfterTeardown(w.channels[r])],
            !.queue = <<>>]

\* A token is worth keeping as long as its entry owns it.
Becomes(w) ==
  /\ tables' = w.tables
  /\ tokens' = [r \in Run |-> [t \in Task |-> IF w.tables[r][t].resume
                                              THEN w.tokens[r][t] ELSE GlobalState]]
  /\ channels' = w.channels
  /\ scopes' = w.scopes
  /\ queue' = w.queue

EndsAs(w, how) == Becomes(CloseOwned(w)) /\ phase' = how

\* state_for_awakened: what a queued task's token must be.
Resumable(w, r, t) ==
  \/ w.tokens[r][t].kind = "state"
  \/ /\ w.tokens[r][t].kind = "awaiting"
     /\ w.tables[r][w.tokens[r][t].target].result # "None"

\* The task leaves the queue and hands over its token.
CheckedOutWorld(r, t) ==
  LET E == tables[r]
  IN  Require([Dequeue(World, r, t) EXCEPT !.tables[r][t].resume = FALSE],
              /\ E[t].lifecycle = "Runnable" /\ E[t].resume
              /\ Resumable(World, r, t))

Choosable(r, t) == IF Fifo THEN queue # <<>> /\ Head(queue) = <<r, t>>
                   ELSE In(<<r, t>>, queue)

Decide(r, t, w) ==
  /\ phase = "driving"
  /\ Choosable(r, t)
  /\ Becomes(w)
  /\ phase' = IF w.bug THEN "broken" ELSE "driving"

Requested(r, t) == tables[r][t].cancellation_requested
Performs(op) == op \in Operations
TaskCount == Cardinality({id \in TaskId : Present(tables[id[1]], id[2])})

\* The task returns or fails; neither is a cancellation point.
Return(r, t) ==
  \E result \in {"Done", "Failed"} :
    /\ result = "Failed" => Performs("fail")
    /\ Decide(r, t, SettleAndObserve(CheckedOutWorld(r, t), r, t, result))

\* Any other operation first delivers a pending cancellation.
CancelledAtBoundary(r, t) ==
  /\ Requested(r, t)
  /\ Decide(r, t, SettleAndObserve(CheckedOutWorld(r, t), r, t, "Cancelled"))

\* A wrong routing: operations are no cancellation points.
UninterruptedOperation(r, t, op, w) == Performs(op) /\ Decide(r, t, w)

Operation(r, t, op, w) == Performs(op) /\ ~Requested(r, t) /\ Decide(r, t, w)

\* async.yield and the effects routed to the host.
Yield(r, t) == Operation(r, t, "yield", Requeue(CheckedOutWorld(r, t), r, t))

Spawn(r, t) ==
  LET w == CheckedOutWorld(r, t)
      child == Len(Children(w, r)) + 1
      spawned == [w EXCEPT !.tables[r][child] = SpawnedEntry]
  IN  /\ TaskCount < MaxTasks
      /\ Operation(r, t, "spawn", Requeue(Enqueue(spawned, r, <<child>>), r, t))

\* A task can hold the handle of any child of its scope, its own included.
AwaitReady(r, t, u) ==
  /\ tables[r][u].result # "None"
  /\ Operation(r, t, "await", Requeue(CheckedOutWorld(r, t), r, t))

AwaitLive(r, t, u) ==
  LET w == CheckedOutWorld(r, t)
      registered == RegisterWaiter(w.tables[r], t, u)
      cycle == AwaitCycle(w.tables[r], t, u)
      waiting == [w EXCEPT !.tables[r] = registered, !.tokens[r][t] = GlobalAwaiting(u)]
      failed == Enqueue([waiting EXCEPT !.tables[r] = FailCycle(registered, cycle)], r,
                        AwakenedByFailCycle(registered, cycle))
  IN  /\ tables[r][u].result = "None"
      /\ Operation(r, t, "await", IF cycle = <<>> THEN waiting
                                  ELSE ObserveAllChildren(failed, r))

\* A task that cancels itself is cancelled on the spot.
CancelSelf(r, t) ==
  /\ t \in ToSet(Children(World, r))
  /\ Operation(r, t, "cancel", SettleAndObserve(CheckedOutWorld(r, t), r, t, "Cancelled"))

CancelOther(r, t, u) ==
  LET w == CheckedOutWorld(r, t)
      requested == CASE w.tables[r][u].result # "None" -> Dequeue(w, r, u)
                     [] w.tables[r][u].lifecycle = "Suspended" ->
                          Dequeue(DeliverCancel(w, r, u), r, u)
                     [] OTHER -> Request(w, r, u)
  IN  /\ t # u
      /\ Operation(r, t, "cancel", ObserveAllChildren(Requeue(requested, r, t), r))

\* async.scope: the task waits for the nested run it opens.
OpenScope(r, t) ==
  LET w == CheckedOutWorld(r, t)
      n == Cardinality({m \in Run : scopes[m].opened})
      nested == [w EXCEPT !.scopes[n] = OpenedBy(<<r, t>>), !.tables[n] = BodyTable]
  IN  /\ n < MaxRuns
      /\ TaskCount < MaxTasks
      /\ Operation(r, t, "scope",
                   Enqueue(Blocked(nested, r, t, "Yielded", Nothing, GlobalNestedWait), n, <<0>>))

OpenChannel(r, t) ==
  /\ channels[r] = Nothing
  /\ \E capacity \in Capacities :
       Operation(r, t, "channel",
                 Requeue([CheckedOutWorld(r, t) EXCEPT !.channels[r] = Chan!Opened(capacity)], r, t))

\* commit_channel_wake of the tasks W, in order, each with its result.
WakeOnChannel(w, r, W) ==
  LET wake(z, t) ==
        Enqueue([Require(z, /\ z.tables[r][t].lifecycle = "Suspended"
                            /\ z.tables[r][t].on = r
                            /\ z.tokens[r][t].kind = "channel")
                   EXCEPT !.tables[r] = Wake(@, t), !.tokens[r][t] = GlobalState], r, <<t>>)
  IN  FoldLeft(wake, w, W)

Send(r, t) ==
  LET w == CheckedOutWorld(r, t)
      c == channels[r]
      sent == [w EXCEPT !.channels[r] = Chan!AfterSend(c, t, TheMessage)]
      delivered == IF Chan!SendOutcome(c) = "Send_delivered" THEN <<Head(c.receivers)>> ELSE <<>>
  IN  /\ c # Nothing
      /\ Operation(r, t, "channel",
                   IF Chan!SendOutcome(c) = "Send_blocked"
                   THEN Blocked(sent, r, t, "Channel_sending", r, GlobalChannel)
                   ELSE Requeue(WakeOnChannel(sent, r, delivered), r, t))

Recv(r, t) ==
  LET w == CheckedOutWorld(r, t)
      c == channels[r]
      taken == [w EXCEPT !.channels[r] = Chan!AfterRecv(c, t)]
      completed == IF c.senders # <<>> THEN <<Head(c.senders).sender>> ELSE <<>>
  IN  /\ c # Nothing
      /\ Operation(r, t, "channel",
                   IF Chan!RecvOutcome(c) = "Recv_blocked"
                   THEN Blocked(taken, r, t, "Channel_receiving", r, GlobalChannel)
                   ELSE Requeue(WakeOnChannel(taken, r, completed), r, t))

CloseChannel(r, t) ==
  LET w == CheckedOutWorld(r, t)
      c == channels[r]
      rejected == [i \in DOMAIN Chan!RejectedSenders(c) |-> Chan!RejectedSenders(c)[i].sender]
                  \o Chan!RejectedReceivers(c)
  IN  /\ c # Nothing
      /\ Operation(r, t, "channel",
                   Requeue(WakeOnChannel([w EXCEPT !.channels[r] = Chan!AfterClose(c)], r,
                                         rejected), r, t))
----------------------------------------------------------------------------
(* The end. *)

\* channel_deadlocked: everything left is suspended, some of it on a channel.
LiveTasks == {id \in TaskId : Live(tables[id[1]], id[2])}
EntryOf(id) == tables[id[1]][id[2]]

ChannelDeadlocked ==
  /\ LiveTasks # {}
  /\ \A id \in LiveTasks : EntryOf(id).lifecycle = "Suspended"
  /\ \E id \in LiveTasks : EntryOf(id).suspension \in {"Channel_sending", "Channel_receiving"}

\* The queue ran empty: a deadlock on channels, or the root scope's result.
DriveEnds ==
  LET observe(w, r) == ObserveAllChildren(w, r)
      runs == SelectSeq([i \in 1..MaxRuns |-> MaxRuns - i], LAMBDA r : scopes[r].opened)
      drained == FoldLeft(observe, World, runs)
  IN  /\ phase = "driving"
      /\ queue = <<>>
      /\ IF ChannelDeadlocked THEN EndsAs(World, "deadlocked")
         ELSE EndsAs(drained, IF /\ drained.tables[0][0].result # "None"
                                 /\ drained.scopes[0].aggregate # "None"
                                 /\ ~drained.bug
                              THEN "finished" ELSE "broken")

(***************************************************************************)
(* Whatever else stops the program at a decision: the decision or task     *)
(* bound, exhausted fuel, a handle used outside its scope.  The bounds are *)
(* arbitrary, so a program may be stopped at any decision.                 *)
(***************************************************************************)
Stop ==
  /\ phase = "driving"
  /\ queue # <<>>
  /\ EndsAs(World, "stopped")

Decision ==
  \E r \in Run, t \in Task :
    \/ Return(r, t)
    \/ CancelledAtBoundary(r, t)
    \/ Yield(r, t)
    \/ Spawn(r, t)
    \/ CancelSelf(r, t)
    \/ OpenScope(r, t)
    \/ OpenChannel(r, t)
    \/ Send(r, t)
    \/ Recv(r, t)
    \/ CloseChannel(r, t)
    \/ \E u \in ToSet(Children(World, r)) : \/ AwaitReady(r, t, u)
                                            \/ AwaitLive(r, t, u)
                                            \/ CancelOther(r, t, u)

Next == Decision \/ DriveEnds \/ Stop

Spec == Init /\ [][Next]_vars

(***************************************************************************)
(* drive loops as long as a task is runnable.  Every step from such a      *)
(* state is a decision, or the stop that ends the loop, so this is weak    *)
(* fairness of Next there.                                                 *)
(***************************************************************************)
Drives == <>[](phase = "driving" /\ queue # <<>>) => []<><<TRUE>>_vars
FairSpec == Spec /\ Drives

----------------------------------------------------------------------------
(* Properties. *)

\* Every variable stays in its declared range.
TypeOK ==
  /\ tables \in [Run -> Table]
  /\ tokens \in [Run -> [Task -> Token]]
  /\ \A r \in Run : channels[r] = Nothing \/ channels[r] \in Chan!ChannelState
  /\ scopes \in [Run -> Scope]
  /\ queue \in Seq(TaskId)
  /\ phase \in {"driving", "finished", "deadlocked", "stopped", "broken"}

\* The scheduler never meets one of the states it treats as its own error: a
\* queued task that cannot run or whose token continues something else, a
\* parent that does not wait, a scope result that contradicts its children,
\* an empty queue with the root scope unfinished and no channel to blame.
NeverBroken == phase # "broken"

\* The queue holds exactly the runnable tasks, each once: no wake-up is lost
\* and no settled task is left to run.
QueueIsExact ==
  phase = "driving" =>
    /\ \A id \in TaskId : In(id, queue) <=> EntryOf(id).lifecycle = "Runnable"
    /\ Distinct(queue)

\* A task's token continues what the task is suspended on.
TokensFit ==
  \A r \in Run, t \in Task :
    LET e == tables[r][t]
        kind == tokens[r][t].kind
    IN  /\ e.suspension = "Awaiting" => tokens[r][t] = GlobalAwaiting(e.on)
        /\ e.suspension = "Yielded" <=> kind = "nested_wait"
        /\ e.suspension \in {"Channel_sending", "Channel_receiving"} <=> kind = "channel"

\* A cancellation is pending only for a task that will run again: a suspended
\* task never waits with a request nobody delivers.
SuspendedIsUnrequested ==
  \A id \in TaskId : EntryOf(id).lifecycle = "Suspended" => ~EntryOf(id).cancellation_requested

\* In every scope the waiter lists are exact, across cancellations that come
\* from the policy, another task, or an outer scope.
WaitersAreExact == \A r \in Run : WaitersExact(tables[r])

\* The tasks waiting at a scope's channel are those suspended on it.
ChannelWaitersAgree ==
  \A r \in Run, t \in Task :
    LET e == tables[r][t]
        sending == channels[r] # Nothing /\ \E i \in DOMAIN channels[r].senders :
                                              channels[r].senders[i].sender = t
        receiving == channels[r] # Nothing /\ In(t, channels[r].receivers)
    IN  /\ e.suspension = "Channel_sending" <=> sending
        /\ e.suspension = "Channel_receiving" <=> receiving

\* A nested scope without a result belongs to a task that waits for it and
\* for nothing else; so when the owner is gone, everything below it is.
NestedScopesAreOwned ==
  phase = "driving" =>
    /\ \A r \in Run \ {0} :
         scopes[r].opened /\ scopes[r].aggregate = "None" => EntryOf(scopes[r].parent).suspension = "Yielded"
    /\ \A id \in TaskId :
         EntryOf(id).suspension = "Yielded" =>
           Cardinality({r \in Run : /\ scopes[r].opened
                                    /\ scopes[r].parent = id
                                    /\ scopes[r].aggregate = "None"}) = 1

\* A scope with a result has nothing left to run in it or below it.
CompletedScopesAreDrained ==
  \A r \in Run : scopes[r].aggregate # "None" =>
    \A t \in Task : ~Live(tables[r], t)

\* Between decisions every settled task has been observed by its scope, so
\* that its policy and its nested scopes have been dealt with.
SettledIsObserved ==
  phase = "driving" =>
    \A r \in Run : scopes[r].seen_terminal = {t \in Task : tables[r][t].result # "None"}

\* The four invariants of the tasks of every scope, that every variable is of
\* its type, and that the scheduler never meets a state it treats as its own
\* error.
TasksAgree ==
  TypeOK /\ NeverBroken /\ QueueIsExact /\ TokensFit /\ SuspendedIsUnrequested /\ WaitersAreExact

\* The three invariants that relate a scope to the tasks in it and around it.
ScopesAgree == NestedScopesAreOwned /\ CompletedScopesAreDrained /\ SettledIsObserved

\* The scopes' channels and the tasks suspended on them agree, and neither
\* brings the scheduler into a state it treats as its own error.
ChannelsAgree == NeverBroken /\ ChannelWaitersAgree

\* The first observed failure is the one a scope reports, and the decision
\* that observes it reaches every sibling: none runs on unasked.
FailFastReachesSiblings ==
  [][phase' = "driving" =>
       \A r \in Run :
         /\ scopes[r].first_non_success # "None" =>
              scopes'[r].first_non_success = scopes[r].first_non_success
         /\ scopes[r].first_non_success # scopes'[r].first_non_success =>
              \A t \in Task \ {0} : Live(tables'[r], t) => tables'[r][t].cancellation_requested]_vars

\* Under first-in first-out decisions a runnable task reaches the front.
EveryTaskGetsItsTurn ==
  \A id \in TaskId :
    In(id, queue) ~> (queue = <<>> \/ Head(queue) = id \/ ~In(id, queue))

\* A requested cancellation is served: the task settles, although nothing
\* interrupts it.
CancellationIsServed ==
  \A id \in TaskId :
    EntryOf(id).cancellation_requested ~> EntryOf(id).result # "None"
==============================================================================
