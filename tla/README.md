# Verification of the Jacquard concurrency core, native runtime and approval queue

TLA+ specifications of the parts of jacquard-lang that keep state: the structured
concurrency of the interpreter (tasks, channels, scopes, the deterministic
scheduler), the durable approval queue of its governance layer, and the C runtime
that natively compiled programs are linked with (effect handlers and captured
continuations, reference counting, seeded inference, texts, integers, handles).
TLC checks them on small instances; TLAPS proves the deadlock detector, the
scheduler core, the host-readiness registry, the channel, the approval queue, the
native heap, the native control stacks, the task handles and the tagged integers
for all of them. File names below are
relative to the repository's `src/` directory, or `runtime/` where they say so;
`PROJECT.json` maps every definition to the lines it models.

## The system

| Component | State | Operations | What makes it correct |
|---|---|---|---|
| Wait-cycle detection (`concurrency_contract.ml`) | none | `detect_wait_cycle` | finds a cycle exactly when there is one |
| Scheduler core (`scheduler_core.ml`) | per task: lifecycle, suspension, result, waiters, cancellation request, one-shot resume token | spawn, checkout, suspend and wake (yield, channel, host), await, complete, fail, request/deliver cancel, boundary, close | one owner per token; exact waiter lists; no await cycle; final results; no lost request; every wake reported |
| Channel contract (`channel_contract.ml`) | capacity, buffer, waiting senders and receivers, closed | open, send, recv, close, cancel, teardown | bounded FIFO; accepted values are kept; the end of the stream is the end |
| Structured scopes (`structured_scope.ml`) | a scheduler, its channels, child scopes | the above on validated handles, all wakes prepared before any is committed; nesting; closing | channel and scheduler agree on who waits |
| Failure policy (`scope_policy.ml`) | children, first failure, last observation | register, record_terminal, finish | the first observed failure cancels every sibling and is the scope's result |
| Round-robin scheduler (`round_robin.ml`) | one runnable queue over all scopes, continuation of each task, what each scope has observed | a decision runs one task to its next operation | the queue is exactly the runnable tasks; cancelled owners take their scopes along; scopes complete when drained |
| Approval queue (`governance_approval_queue.ml`) | an append-only journal file; a record lock; a guard per process | submit, decide, consume, inspect, recover | a decision is delivered at most once, through crashes and power loss |
| Evaluator's control (`eval.ml`, `value.ml`) | the continuation, resumptions | perform, handle, resume, return | the specification the native runtime implements |
| Native effects (`runtime/jq_effects.c`, `jq_frames.c`, `jq_apply.c`) | handler stack, frame stack, C stack, pending capture, resumption blocks | call, handle, perform, capture, dispatch, resume | every capture finds its handler and slices exactly its frames; nearest handler first |
| Native memory (`runtime/jq_rc.c`, `jq_alloc.c`, `jq_value.h`) | blocks with counts, size-class free lists, frames that borrow or own, reuse tokens | dup, drop, free walk, allocate, reuse, clone | a count is the number of owners; nothing freed is reachable, nothing unreachable stays |
| Native inference (`runtime/jq_intrinsics.c`, `jq_error.c`, `prelude/31-inference-outcome.jqd`) | per driver: weight, possible, the runs made | sample-lw, sample-lw-weights-v1, draw, observe, report a failure | runs do not influence one another; both drivers conclude the same; a failure reads as the interpreter's |
| Native values (`runtime/jq_utf8.c`, `jq_code.c`, `jq_show.c`, `jq_value.h`, `jq_alloc.c`) | none | text, integer, code, display and handle operations | each computes what its definition says |
| Host readiness (`host_readiness.ml`) | registrations of descriptors | register, poll, replay, cancel, reconcile, shutdown | a duplicate is closed once; a wake reaches the caller; a replayed poll does what the poll did |
| Schedule recording and replay (`schedule_control.ml`, `exhaustive_schedule.ml`) | cursor in a recorded trace | creation, begin/observe/finish decision | planned |
| Host worker and session (`host_worker.ml`, `host_protocol_v0.ml`) | request and response slots | serve, respond, cancel | planned |
| Meters (`fuel_meter.ml`, `alloc_meter.ml`, `retain_meter.ml`) | counters and nested ceilings | charge, bound, restore | planned |
| Audit chain, exploration log, transcripts | append-only files | append, verify | planned |
| Definition store (`store.ml`) | a directory of hashed objects, a name table | put, bind, rename | planned last |

The remaining parts (syntax, type checking, expression evaluation, project
frontends, review tools, the translation done by the native compiler) are listed in
`PROJECT.json` with the reason they are not modelled. Most are sequential
translations of trees.

The interpreter's parts call each other downwards and synchronously: a *decision*
of the round-robin scheduler checks a task's token out of the scheduler core, runs
the evaluator to the next operation, and performs it through the structured scope,
which changes the scheduler core and the channel together. The result of a task
flows back up through `observe_terminal`: policy, nested scopes, completion of
the scope, resumption of the owner. That upward part is re-entrant and is where
most of the hazards are. The approval queue is concurrent in the other sense:
OS processes and domains share a file.

The native runtime is sequential C, but its control is not: a captured
continuation leaves the C stack frame by frame, is kept in the heap, and comes
back, possibly many times and under other handlers. Four structures must agree
about where the program is (C stack, handler stack, frame stack, heap), and who
owns a slot of a frame changes with where the frame is.

### Hard behaviours

- Cancellation reaches a task in any state: queued, waiting for a task, a
  channel, a nested scope or the host, running, or settled already.
- One decision can settle many tasks in several scopes, each of which wakes
  others; what was read before (a queue, a waiter list, a token) is then stale.
- Awaiting forms cycles, also through tasks that wait from outside.
- Everything waits: a finished program, a broken cycle and a channel deadlock
  have to be told apart.
- A journal append is two writes and two syncs; any of them can be the last.
- A record lock belongs to a process, not to a domain, and a `fork` copies the
  guard that makes up for it.
- A capture passes through handlers of other operations, resumed chains, callers
  that saved no frame and, inside inference, a floor it must not cross.
- A frame's slots are borrowed while its activation runs and owned afterwards;
  a shell is reused in place; a count saturates; a clone needs its own references.
- A driver's state is shared through one pointer and carried from run to run.

`PROJECT.json` lists the hazards, each at its line, with the properties that cover
it or the reason none does.

## Modules

```
WaitCycle ── TaskTable ┬─ SchedulerCore ── HostReadiness
                       └─ RoundRobin ── (INSTANCE) ChannelContract
ScopedChannel ── (INSTANCE) ChannelContract, BoundedFifo
ApprovalJournal ─ ApprovalQueue ── (INSTANCE) SingleUseApproval
                     └─ MCApprovalQueue
NativeEffects ── (INSTANCE) EvalContinuation
   └─ MCNativeEffects
NativeHeap ── MCNativeHeap
LikelihoodWeighting, TaggedInts, TaskHandles ┐
Distributions, NativeText, CodeForms, WaitCycle ┴─ MCAlgorithms
```

The proofs follow the modules, each extending the proofs of what it is built on:

```
SchedulerCoreProofs  (WaitCycle, TaskTable, SchedulerCore) ── HostReadinessProofs
ScopedChannelProofs
ApprovalQueueProofs
NativeControlProofs  (NativeEffects)
NativeHeapLemmas ── NativeHeapProofs
NativeValueProofs  (TaggedInts, TaskHandles)
```

**WaitCycle.** The wait graph is a function, since a suspended task awaits one
task. `Walk` follows the source step by step from each start in turn, and
`DetectWaitCycle` is what the first walk that loops gives. `WaitCycles`, the
cycles of the graph, is the definition it is compared with: `DetectorIsExact`
says that the result is a cycle, and empty only if there is none.

**TaskTable.** Task entries and the operators on them, without asking who calls:
`Suspend`, `Wake`, `Terminalize`, `FailCycle`, `RegisterWaiter`, `ClosedEntry`.
Entry fields are the source's; `resume` is TRUE while the entry owns the token.
`suspension`'s argument is the separate field `on`. Results carry no values.

**SchedulerCore.** One action per operation. `held` are the tokens the driver has
checked out, `awakened` the handle list the last operation returned. The driver
is arbitrary: it may call any operation at any time, so the results hold for
`round_robin.ml`, for `host_readiness.ml`, and for the tests' own drivers. A call
that returns `Error` (E0908) changes nothing and is not a step. The operations on
yield, channels and host registrations differ only in the reason and its
argument; `SuspendTask` and `WakeTask` take them as parameters. `BlockerFor` says
which arguments are accepted: `prepare_host_suspend` refuses a negative
registration, and callers pass one (`RegistrationArgument`).

**HostReadiness.** The registry over the scheduler core, which it extends: its own
variables beside `SchedulerCore`'s (`HostInit`, `HostNext` and so on beside `Init`
and `Next`), whose actions it uses for the tasks' other steps. A call is a
function of a state record (`Polled`, `Replayed`, `Cancelled`), so that
`ReplayIsThePoll` can compare two calls from one state; `Return` says what of it
the caller sees. A duplicate descriptor is known by its registration, `releases`
counts how often it was closed, `outcome` how the last call ended. Duplicating,
polling and closing may fail. Cancellations behind the registry's back, which the
interface calls unsupported and `reconcile` is there for, are included; closing
the scheduler behind it is not. The replayed decisions are arbitrary.

**ChannelContract, ScopedChannel.** The contract's functions as operators on a
channel record (`SendOutcome`, `AfterSend`, ...). `ScopedChannel` is
`structured_scope.ml`'s use of them: one action performs the channel transition
and commits the prepared wakes. Values are the ordinals of the send calls, so
order and duplication are visible. **BoundedFifo** is the abstract
specification: values are offered, taken in order or withdrawn, and at most
`capacity` of them accepted ahead of their readers.

**RoundRobin.** A whole program run. `tables[r]` is the scheduler of scope `r`,
`tokens` the kind of continuation each task owns (`Global_state`,
`Global_awaiting`, `Global_nested_wait`, `Global_channel`), `scopes[r]` the
`global_scope_run`. A decision is one step, from taking a task off the queue to
`finish_decision`. Inside it a *world* record is passed on as the source passes
on its mutable state; the mutually recursive `observe_terminal`,
`observe_all_children`, `cancel_run` and `maybe_finalize` are recursive
operators of the same names. `Require` records a state the source answers with a
diagnostic or a `Bug_` exception of its own; such a decision ends in phase
`broken`. The program is arbitrary: each task may perform any operation in
`Operations` at any decision.

**ApprovalJournal, ApprovalQueue.** A journal is a sequence of lines, record and
commit in turn. Record hashes chain, so a record *is* the history of events that
it ends. `Scans` is `scan_string`'s acceptance, `Committed` its result,
`RecoverAt` where the recoverable tail begins, `Readable` adds the size limit that
`read_descriptor` checks before the scan. In `ApprovalQueue` each system
call is a step: open or create, lock, scan, truncate, sync, write of part of a
line and of its rest, sync of the directory, unlock. `pc` names the next one.
**SingleUseApproval** is the promise in the interface's comment: a proposal is
submitted, decided and consumed once, and its decision delivered at most once.

**EvalContinuation.** What the interpreter promises about control: a program runs
against one continuation, a handled operation takes the frames above the nearest
covering handler away, its clause runs against what is left, applying the
resumption puts the frames back. An inference run is a frame the search for a
handler does not pass, because `infer_dist.ml` evaluates the model with a state
machine of its own.

**NativeEffects.** The same in C. `hs`, `ks`, `cap`, `floor`, `lw` and `pending`
are the fields of `jq_rt` of those (or the obvious longer) names; `heap` are the
frame blocks, `res` the resumption blocks; `stk` is the C stack, reduced to the
activations that do something when the call they made returns: a suspendable call
site (`act`), a dispatch (`handle`), a tail clause in progress inside
`jq_perform` (`perform`), a driver (`lw`), and `run_from`'s entered and
re-entered frames (`enter`, `rerun`). `mode` is running, returning a value,
returning `JQ_SUSPEND`, or how the process ended. The compiled program is
arbitrary: whenever it runs it may call, install a handler, perform, apply or drop
a resumption, start an inference run or return. `Kont` reconstructs from these
stacks the continuation they stand for, and `Refinement` says that every step of
the C code is a step of EvalContinuation on it, or none.

**NativeHeap.** Blocks with counts. `work` is the free walk's list, `token` a
Perceus reuse token, `chain` a resumption being cloned. The locals of all
activations are one function; the frame of a running activation *mirrors* the
locals it pins (`pins`), a captured or cloned frame owns its slots.
Values that are not counted (integers, static blocks) are `Nil`. A dup or drop is
a change of `rc` inside the step that takes or gives up the value, as in the
emitted code. The program is arbitrary within its budget of blocks.

**LikelihoodWeighting, Distributions.** The two drivers with their nested states,
the classification the prelude adds to the second, the merge into a posterior, and
the report of a failure from within. Weights are naturals in units of `1/One`, and
a product below one unit underflows to 0. `Distributions` has check, support,
mass and draw. `InterpreterReport` and the property definitions
(`Survivors`, `WeightOf`) are the other side of each comparison.

**NativeText, TaggedInts, TaskHandles, CodeForms.** The value algorithms and,
beside each, a definition of what it should compute that does not follow the
algorithm: code points by the scalar they encode, integers modulo 2^63, a handle
by the run and scope that made it, a diff by the places where two forms differ.

**MCAlgorithms** puts the pure parts and the drivers in one behaviour: `part`
says which, `input` is the input. **MCNativeEffects** and **MCNativeHeap** say
what the handlers are made of and which blocks a program may ask for.

### Abstractions

- Tasks are numbered by spawn index, as in the source; values, messages, error
  texts, events and diagnostics are left out.
- In RoundRobin each scope has at most one channel and sends one message value;
  `ScopedChannel` covers order. Tasks use handles of their own scope only: the
  source refuses others, and a refused handle ends the run (`Stop`).
- `Stop` stands for every reason to give up at a decision: bounds, exhausted
  fuel or retention, a failed replay. It can happen at any decision.
- A cancelled task's dropped continuation runs no code (`drop` is `fun _ -> ()`).
- Approval queue: a call refused because the guard or lock is taken changes
  nothing; arguments are valid; `inspect_file`, which takes no durability
  barrier, is not counted among the durable answers (`told`).
- Power loss keeps everything synced. Of what is not synced, a truncation
  happened or not, and any number of the lines at the end survive, each possibly
  torn (`Survivors`). A new file's directory entry survives for certain only
  after the directory was synced. A torn line is always a prefix of a line:
  stray bytes are outside the model.
- `SyncFile` makes durable what the file shows, also when an earlier `fsync` of the
  same bytes failed: that a retried `fsync` makes the data durable is assumed of
  the operating system, by the code as by the model.
- A crash kills a process with all its domains. The kernel releases its locks;
  the restarted process has a fresh guard. In the initial state the guard may
  hold a foreign PID, as after `fork`.
- Tail calls are not on `stk`: `jq_tc_drive` runs them in the same activation.
- Native programs are those whose **tail clauses finish** (`TailClausesFinish` in
  `NativeEffects`): while a tail clause runs, no operation is performed that is
  captured by a handler installed around it. `jq_perform` would return
  `JQ_SUSPEND` after putting the hidden entries back, and the resumption holds no
  frame for "restore what perform hid", so the rest of such a clause, when
  resumed, sees the handlers the comment at `runtime/jq_effects.c:8` says it must
  not. This case is outside the checked refinement.
- Real numbers are fractions of a common unit; binary64 rounding is not modelled.
  The mass of an observation may exceed one, as a density does.
  A rendering is a sequence of tokens, a scalar's spelling one of them; the
  first-class operations and primitives that `jq_show` prints by name are shown
  as constructors are, and a constructor's arity is not shown. A form has few
  arguments: the refusal of more than 32,767 (`runtime/jq_code.c:21`,
  `runtime/jq_intrinsics.c:962`) is not modelled.
- In `native_control` a frame holds no values, so a once resumption is shared
  through the references to it that the program keeps, and not through a clone of
  a frame that holds it.
- A freed address is reused only through the pool or as new memory; the contents
  of libc's allocator are not modelled. A block has at most two fields.

## Runs

| Run | Instance | Shows |
|---|---|---|
| `scheduler_core` | 4 tasks, one host registration and a number that is none | all properties of the core, in every order of operations; a broken cycle of three wakes and reports waiters outside it |
| `host_readiness` | 3 tasks, 3 registrations, replays of up to 2 decisions | duplicates closed once, no wake lost by a later failure, replay does what the poll did |
| `scoped_channel` | 3 tasks, capacities 0–2, 4 sends | order, acceptance, end of stream, no needless waiting; refinement of `BoundedFifo` |
| `round_robin_nested` | 4 tasks, 3 scopes, fail-fast, decisions in any order | the queue, tokens, nested scopes and policy agree after every decision |
| `round_robin_channels` | 4 tasks, 2 scopes with a channel each, collecting root | channel waiters and deadlock diagnosis; no impossible state |
| `round_robin_fair` | 4 tasks, 2 scopes, FIFO decisions | turn taking and service of cancellation |
| `approval_queue` | 3 domains, 2 processes, 1 proposal, 2 decisions | exclusion, recovery, durability, refinement of `SingleUseApproval` |
| `approval_queue_full` | 1 domain, 2 proposals, room for 5 of 6 transactions and the record of the sixth | an append near the limit never leaves a journal that the next caller cannot read |
| `native_heap` | 8 addresses, 2 locals, 4 programs of a few blocks each | counts, soundness of memory and pool, no leak, sharing |
| `native_control` | a multi-shot handler; a handler with a tail clause and a once clause; 3 C activations, 6 frames, up to two nested inference runs | the stacks agree, the search is the interpreter's, a suspension arrives, refinement of `EvalContinuation` |
| `native_siblings` | a handler with two tail clauses | *violated*: finding below |
| `algorithms` | all wait graphs of 4 tasks; models of 3 draws and observations under 2 nested drivers; every small text, numeral, form, value, integer of 4 bits and handle path | each algorithm computes its definition |

Every property is paired with a *mutant* in `PROJECT.json`: a plausible wrong
version of one definition (kept in its module, with a comment that says what it
gets wrong) under which TLC reports the property violated.

**Finding.** `native_siblings` states what the comment at `runtime/jq_effects.c:8`
says: the body of a clause runs outside its handler and does not see "the matched
handler or anything above it". `jq_perform` hides the entries from the matched one
up, but the clauses of one handler are separate entries, pushed in order; the
entries of *earlier* clauses of the same handler lie below the match and stay
visible. TLC finds a handler with two tail clauses in which the second clause's
body performs the first one's operation: the native search finds its own handler,
where the interpreter finds an outer one or none. `native_control` therefore
takes handlers whose tail clause comes first.

**Why the bounds are enough.** Three tasks give a scheduler a body, a target and
a competing waiter; a cycle with an outside waiter per member needs four.
Channels and registrations suspend and wake a task as a yield does in
`SchedulerCore`, so its run has one registration, for the arguments that are
refused, and no channel; `host_readiness` has more registrations and
`round_robin_channels` has channels. In `host_readiness` a third registration lets a
task wait again while a decision of its first wait is still around and another task
waits too.
Channel operations look at the heads of three lists, so two tasks in line behind
a third, with a buffer of zero, one and two slots, reach every branch with every
neighbour. Three scopes give an owner, a scope below it and one below that, and
also two scopes side by side. One proposal and two competing decisions reach
every status; two processes, one of them with two domains, reach each pair of
exclusion mechanisms. MaxSends bounds history only. `MaxLines` is a constant of
the code (16 MiB) made small; in `approval_queue` it never binds, and in
`approval_queue_full` it is odd, so that the last transaction's record fits and its
commit does not.

`MaxStk = 3` in `native_control` gives a handler, something between and the code
that performs, in every order, and a resumed chain under another handler;
`MaxFrames = 6` leaves room for a captured slice and its clone; `MaxDepth = 2` is
the least with a driver inside a driver. In `native_heap`
`RcStatic` (2^32 - 1 in the code) is 4, so saturation happens, and
`PoolWords` (`JQ_POOL_MAX_WORDS`) is 2, so blocks of both allocators occur. Its
four programs divide the work: suspension and multi-shot re-entry, reuse, sharing,
nested handlers; a block is asked for at most twice per tag. `Half = 8` makes a
4-bit integer, where every pair can be tried; the theorem covers the real width.
Texts are up to 4 bytes, one per class of the decoder, the length of the longest
encoding. `Grid = 12` divides by every total mass used, so shares are exact.

**Deadlock** is not checked where a program may finish: RoundRobin ends in a
final phase, a closed scheduler, a channel's settled tasks and a heap given up
with an empty budget have nothing left to do, and a pure input in `algorithms`
takes no step. The approval queue's runs and `native_control` check it: a
suspension no C activation would take further would be a deadlock there.

**Fairness.** `FairSpec` of RoundRobin assumes `Drives`: while the queue is not
empty, the loop of `drive` takes another step. That is what the loop does unless
the evaluator never returns from a task; a task that computes for ever without
performing an operation starves all others, in the code as here. It is stated as
"infinitely many non-stuttering steps" because a lone task that yields reproduces
its own state: that decision is a stutter, and the property asks nothing of a
program that only does this. Decisions take the head of the queue in this run, as
`begin_decision` does when recording; seeded, replayed and forked schedules may
starve a task. `FairSpec` of NativeEffects assumes that C code between two points
of the program runs on (weak fairness of `Deliver` and `Unwind`); nothing is
assumed of the program itself.

## Proofs

The assumptions are those of the modules and no more: `MaxTasks` is a positive
number and `NoTask` is not a number; capacities are numbers; the word width and
the handle's bounds are numbers of the right sign; registrations are numbers. The
approval queue's: every actor belongs to a process, `Nobody` is no process, the
file limit is a number, and approvers allow decisions. The heap's: addresses are
finitely many numbers, variables are finitely many, `Nil` is neither, bounds and
budgets are numbers, and the immortal count is at least 2. Native handlers are
lists of clauses, any number of either kind in any order, some once. The last two
theorems about them have a hypothesis, `Separate` (in `NativeControlProofs`): a
tail clause is the first of its handler, and no handler has two clauses for one
operation. Without the first part they are false, as the finding shows. Without
the second the two searches differ: the evaluator takes the first of two clauses
(`eval.ml:1773`), `jq_perform`, which searches from the top, the last one
pushed (`runtime/jq_effects.c:51`); neither of them refuses such a handler. The
handlers of `native_control` are separate.

| Module | Theorem | Property |
|---|---|---|
| `SchedulerCoreProofs` | `DetectsEveryCycle` | `DetectorIsExact`, of which `WalkIsExact` is an instance |
| | `TypeCorrect` | `TypeOK` |
| | `OneTokenOwner` | `TokenHasOneOwner` |
| | `EntriesAlwaysAgree` | `EntriesAgree` |
| | `WaitersAlwaysExact` | `WaitersAreExact` |
| | `NoCycleSurvives` | `NoWaitCycle` |
| | `ClosedStaysDrained` | `ClosedIsDrained` |
| | `ResultsAreFinal` | `ResultIsFinal` |
| | `RequestsAreKept` | `CancellationIsNotLost` |
| | `WakesAlwaysReported` | `WakesAreReported` |
| `HostReadinessProofs` | `OwnershipAlwaysExact` | `OwnershipIsExact` |
| | `WakesAlwaysReachTheCaller` | `WakesReachTheCaller` |
| | `ReplayIsAlwaysThePoll` | `ReplayIsThePoll` |
| `ScopedChannelProofs` | `TypeCorrect` | `TypeOK` |
| | `WaitersAlwaysSuspended` | `WaitersAreSuspended`, a part of `ChannelAgrees` |
| | `NobodyWaitsNeedlessly` | `NoNeedlessWait` |
| | `ChannelImplementsFifo` | `ImplementsFifo` |
| | `ChannelAlwaysAgrees` | `ChannelAgrees` |
| `ApprovalQueueProofs` | `TypeCorrect` | `TypeOK`, which no run checks |
| | `MutualExclusion` | `OneActorAtATime` |
| | `AlwaysRecoverable` | `JournalAlwaysScans` |
| | `AnswersAreDurable` | `ToldIsDurable` |
| | `SingleUse` | `ImplementsSingleUse` |
| `NativeControlProofs` | `StacksInvariant` | the inductive invariant `StacksInv` |
| | `NativeStacksAgree` | `StacksAgree` |
| | `NativeSearchAgrees` | `SearchAgrees`, for `Separate` handlers |
| | `ImplementsEvalContinuation` | `Refinement`, for `Separate` handlers |
| `NativeHeapProofs` | `HeapInvariant` | the inductive invariant `IInv` |
| | `CountsStayExact` | `CountsAreExact` |
| | `MemoryStaysSound` | `MemoryIsSound` |
| | `SharedStaysUnchanged` | `SharedIsUnchanged` |
| | `NoCircle` | no blocks own each other in a circle |
| | `NothingEverLeaks` | `NothingLeaks` |
| `NativeValueProofs` | `HandlesAreScoped`, `NothingElseIsAccepted` | the handle parts of `WordsAgree` |
| | `TaggedIntsAgree` | the integer part of `WordsAgree` |

**Scheduler core.** The inductive invariant `IInv` is the conjunction of `TypeOK`,
`TokenHasOneOwner`, `EntriesAgree`, `WaitersAreExact` and `ClosedIsDrained`. None
of them is inductive alone. Waking the waiters of a settled task keeps
`WaitersAreExact` only if no waiter is on two lists, which follows from
`EntriesAgree` (one `on` field) and `WaitersAreExact` itself; a settled task
leaves nothing to its waiters only if those lists were exact before; a token has
one owner after a wake only if the suspended entry owned it. `SchedulerCoreProofs`
first says what each table operator does to a consistent table, one lemma per
operator; then it has one step lemma per action and collects them in `Invariance`.

`NoCycleSurvives` adds one argument: only `AwaitLive` adds an edge to the wait
graph, a cycle that is new must contain it, hence is the only one, is found, and
its members fail in the same step; removing edges adds no cycle. That it is found
is `DetectsEveryCycle`.

`WakesAlwaysReported` needs to know what the returned lists hold. A settled task's
recorded waiters are filtered by those still suspended on it (`FilteredIs`,
`AwakenedIs`); for a failed cycle the lists of its members are joined, and have
nothing in common because a task awaits one other (`AwakenedByCycleIs`).

**Deadlock detection.** A path of the graph repeats no task, so it has at most
`MaxTasks` of them (`PathIsShort`): the walk, which makes that many steps, ends
where it can go no further (`WalkIsPath`). If it met a task again, the loop is a
cycle (`LoopIsCycle`); a walk that starts on a cycle does (`CycleLoops`).

**What a loop computes.** The models' loops over a list are recursive functions of
the number of steps done. No induction rule of the library can be instantiated
here; `StepByStep` replaces it: a set that holds 0 and is closed under steps
up to `n` holds `0..n`, because what it lacks would have a least element.
`Computation` gives the existence of such a function from that of one step.
`Filtered` is written this way instead of with `SelectSeq`, whose definition the
provers cannot expand.

**Host readiness.** The inductive invariant `HIInv` is `SchedulerCore`'s, with
`NoWaitCycle`, and the registry's: registrations are in ascending order and below
the next one, a duplicate is closed exactly when its registration was made and is
no longer there, and whoever waits for readiness is registered. The last part
needs the scheduler's own steps to make nobody wait for readiness
(`SchedulerReadiness`), the second that a registration occurs once. A call
that loops is followed as a chain of states. Each of them is `Reached`: the
scheduler's invariant holds of its table, the registry is exact, and what was
woken so far is exactly what will be reported. From `Reconciled` on every
registration left is its task's to wake (`AllOwned`), and waking one leaves the
others so, since two registrations cannot hold the same waiting task; so a poll
never meets a task it cannot wake. A replay of the poll's decisions takes the same
steps, because each decision is still in the registry when its turn comes
(`PolledSoFar`) and no longer is afterwards.

**Channel.** The inductive invariant is `TypeOK /\ WaitersAreSuspended /\
NoNeedlessWait`. They are carried together: closing empties the receivers' list
only because receivers never wait at a filled buffer, and a cancelled or woken
task leaves the lists exact only because it is on one of them and once.
The module first states what each operation
leaves behind (`AfterSendIs`, `AfterRecvIs` and so on), then one step lemma per
action. Then it shows that each action is one step of `BoundedFifo`,
or none, under the mapping in `ScopedChannel`: the offered values are the buffer
followed by what blocked senders hold. It also strengthens the
history part: the line *received, buffered, waiting* is strictly increasing and
below the next ordinal, and what senders were told is exact; then the end of
the stream is final because a closed channel with an empty line gets nothing more.

**Approval queue.** The inductive invariant `IInv` (in `ApprovalQueueProofs`) says
what each step of an operation may rely on. `Exclusive`: whoever works on the file
holds the guard of its process and the lock, so there is one. `JournalInv`: a
journal is a chain of transactions whose lines number them, what is on disk is what
is seen, or lacks its last line, or still has the tail that was cut off. `ActorInv`:
what an actor found in the file is still its beginning, and at each step (`Stage`)
the file and the disk differ from it by exactly what the step before wrote or
synced. `Answers` and `Unanswered`: what callers were told is committed on disk, and
is nothing of the transaction being appended. Exclusion is proved first, since
every other part is about the one actor at work. Numbering the lines is needed
where a recovered tail is cut: that the cut leaves the history that was scanned
follows from the length alone. For `SingleUse` a step maps to a step of
`SingleUseApproval` when it makes a commit line durable or hands a decision over;
all others, crashes and power loss included, change neither the durable history
nor the deliveries.

**Native control stacks.** `StacksAgree` compares totals: a count of clauses, the
lengths of two stacks, a floor. A step that pops needs to know more, what the level
below was, so the inductive invariant `StacksInv` (in `NativeControlProofs`) goes
through the C stack level by level.
`HsIs` says that there is a handler stack and a number of hidden clauses at each
level (`Levels`): a handle site adds its entries to the level below, a tail clause
in progress has cut a suffix off it and holds it in `saved`, a driver has left it and
keeps the floor found there. `cap_depth` does not shrink when `jq_perform` hides
entries and `jq_pop_handler` subtracts what it pops, so that it stays exact needs
both sums. Every entry is at every level its handle site's (`SiteIs`), and that site
lies outside exactly those runs that found it: this makes `floor` a fact about the
C stack and not only a number that is saved and restored.
`FramesFollow` numbers the activations with a frame: the n-th frame of `ks` belongs
to the n-th of them. A suspension leaves frames above, which become the captured
slice. `Owned` gives a frame to the frame stack, to one resumption, or to an
activation that `run_from` is about to enter; the last holds a frame nobody else
knows, for one step (`EnterOnTop`). `Suspends`: a suspension's handler is on the
C stack with no driver and no tail clause inside of it, so `JQ_SUSPEND` always
reaches it; this is where `TailClausesFinish` is used, and that no search passes the
floor. `RunsAre` gives each driver the state it saved.
Each part has its lemmas for growing a C stack by one activation and for taking one
off; a step lemma per action applies them. `Resume` is the longest: a chain of
frames, fresh or the resumption's own, becomes activations one after the other, each
installing what its descriptor says (`Linking`, `Contexts`). `FlattenSeq` in the model
is followed step by step (`Joins`, `Proceeds`), as described above.
`NativeStacksAgree` reads the totals off the levels.

**Native control implements the evaluator's.** `Kont` is computed from the top of the
C stack downwards, while a step changes the stack at its top. The proofs give
each level a *view* instead: the continuation `k` that the level and those below
stand for, the identities `id` of its handlers (their frames in the heap), the
handlers' entries `x`, and for each frame of `k` the number `b` of entries up to it.
In `Views` each view follows from the one below: an activation puts a frame on
(`Extends`), a tail clause takes the frames from its handler up away and keeps them
inside one frame (`Hides`). `Shows(V)` says that `V` is the views of the state: `hs`
and `floor` are what the top one says, whoever saved no frame had no capturing
clause around it (`Saved`), and while a suspension is under way the handler it goes
to is the one the interpreter finds in the whole continuation (`Answered`).
`KontIs` shows that `Kont` is the top view's continuation, followed in a suspension
by the frames left behind.
That views exist (`KontInv`) is the second inductive invariant. It has one lemma per
action (`CallShows`, `PerformTailShows`, `ResumeShows` and so on): the new stack
has views, those of the levels not touched are the old ones, and the change from
the old top to the new is a step of EvalContinuation or none (`Follows`).
`ResumeShows` adds a resumption's frames one at a time, on whatever view is below
(`Piles`). `SearchFinds` compares the searches: the last entry above the floor that
matches lies in the nearest handler frame that covers the operation and not
beyond a run, and is the clause the interpreter takes. `Separate` is needed twice:
an entry that a tail clause leaves visible is then a handler's outside its own
(`PerformTailShows`), and among a handler's entries only one matches (`SearchFinds`).

**Native heap.** What is counted are places that hold an address: a variable, an
entry of a stack, a field of a block. `CountOf(f, S, a)` is the number of places of
a finite set `S` where `f` is `a`; the lemmas on it say what writing one place,
extending or cutting a list, and changing one block's fields do to it. The model's
own sum, a cardinality of a union, is shown equal (`OwnersAre`).

The invariant `IInv` (in `NativeHeapLemmas`) has nine parts, none inductive without
others. `CountInv` is exactness. Which field owns what it holds is not in
the block: a frame that mirrors its activation's variables owns nothing (`IsMirror`),
a shell under reuse only the fields not yet released (`Released`), a closure not
itself. The other parts are what an action relies on when it changes one of these.
`ShapeInv`: a block has the fields its tag asks for, and a frame is never shared.
`SortInv`: frames are held by the frame stack, resumptions and a chain only, values
everywhere else, so no dup meets a frame. `PinInv`: a mirror repeats its variables and
no variable is pinned twice, so a capture can move their references into the frames
without a dup. `HandlerInv`: the handler stack is the handler frames of `ks`, in
order, so what cuts one at a handler cuts the other. `TokenInv`: a token's shell is a
constructor with one owner, the token. `ChainInv`: the resumption being cloned has an
owner while its frames are copied. `PoolInv`: the free lists hold the dead addresses of
their size, each once.

Each action has a step lemma. Immortality is why counts are related (`Exact`) and not
equal: a count that reaches the immortal one stays there. `Capture` is the longest: one
step cuts both stacks, moves the mirrors' references, releases the handlers' and makes
the resumption; `CaptureIs` names the parts, and each is counted on its own.
`SharedStaysUnchanged` adds that a step is `Steady`: a block's tag and fields are as
they were, or it is freed, or it was dead or a token's shell and is made of values in
use; exact counts say that nobody sees such a block.

Exact counts alone do not exclude garbage: blocks that own each other in a circle
would never be freed. `Acyclic` says that every set of blocks has a member that
none of the set owns. A step lets a block own something new in two ways only.
`Steady` has the first: what was dead, or a shell, is made of other blocks, and nobody
owned it. The second is a capture, after which the slice's frames own what they
mirrored; only the resumption, which is new, owns those frames (`GrowAcyclic`). With
that, a group of blocks without an anchor has a member nobody in the group owns; its
count is not zero, so somebody outside does (`NothingEverLeaks`).

**Task handles.** The block is written and read at computed indices; the proofs
compare the two for paths of any length, and show that a block whose words do not
have the shape of a handle is read no further than its count.

**Tagged integers.** Two lemmas on division (`TimesMonotone`, `DivModUnique`) are
needed because the products involve the word width, which is a parameter. On them
rest: a conversion between signed and unsigned changes a number by a multiple of
the range (`UnsignedIs`, `SignedIs`); a number that agrees up to that multiple
is tagged as the number wrapped (`WordIs`); C's division
truncates and overflows in one case only (`QuotientIs`).

Model-checked only:
- RoundRobin: its observation is mutually recursive (RECURSIVE), which the prover
  does not accept.
- The algorithms that fold over data of any length: texts, diffs, draws.
- Liveness (`EveryTaskGetsItsTurn`, `CancellationIsServed`, `Arrives`).

## Not modelled

- Handle validation and escape diagnostics of `structured_scope.ml`; the events,
  retention limits and schedule control of `round_robin.ml`.
- Of the native runtime: the system calls of the root grants
  (`runtime/jq_grants.c`: files, network, clock), program start (`jq_main.c`),
  SHA-256 and effect-order keys, binary64 arithmetic, parsing and printing of
  reals, compiled pattern matching. They are straight calls of libraries or
  numerical code with nothing for a model checker to interleave.
- Of the native compiler, everything but what emitted code does to the runtime's
  state.
- Of inference, exact enumeration and the posterior over models; ranges longer
  than 2^62, whose length wraps at 64 bits in C and at 63 in OCaml; the 16-bit
  count of a resumption's frames, which no guard keeps below 65,536.
- Of host readiness, the exceptions a caller's `drop` may raise, and `max_int`
  registrations. A replay that meets a stale decision after good ones has woken
  tasks it does not report; the diagnostic tells the caller to discard the scope,
  and `WakesReachTheCaller` shows that no other call does this.
- Hazards without a property: replay and exhaustive exploration, nested meters,
  and the audit log each need a module of their own; a tail clause that suspends
  is excluded as said above.

## Plan

1. Schedule recording, replay and fork over abstract decisions; exhaustive
   exploration visits every schedule within the bounds once and says complete
   only then.
2. Retention and allocation meters: nested bounds, restoration, stickiness.
3. Host worker and session: one response per request, cancellation, carrier loss.
4. Approval bridge on top of SingleUseApproval; the audit chain's append.
5. Proofs: the text decoder, now that loops can be followed step by step.
6. A non-recursive formulation of the cancellation drain, to prove about it.
7. The definition store's name table and manifests.
