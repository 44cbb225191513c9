--------------------------- MODULE NativeEffects ---------------------------
(***************************************************************************)
(* The native runtime's control stacks: src/runtime/jq_effects.c (handler  *)
(* stack and perform), jq_frames.c (frame stack, dispatch, resumptions),   *)
(* the resumption case of jq_apply.c, the suspendable call sites emitted   *)
(* by src/src/native/emit.ml, and the isolation of an inference run in     *)
(* jq_intrinsics.c.                                                        *)
(*                                                                         *)
(* The C stack is explicit: stk holds the C activations that have          *)
(* something left to do when the call they made returns.  The compiled     *)
(* program is arbitrary code: whenever it runs it may call, handle,        *)
(* perform, resume, drop a resumption, start an inference run or return.   *)
(***************************************************************************)
EXTENDS Integers, Sequences, FiniteSets, SequencesExt

CONSTANTS
    Labels, Handlers, ResIds,  \* as in EvalContinuation
    Granted,           \* operations with a root grant (--allow)
    SampleOps,         \* operations the inference driver answers
    InstanceOps,       \* operations of a scoped capability
    MaxStk, MaxFrames, \* bounds on the C stack and on the allocated frames
    MaxDepth           \* bound on nested inference runs

ASSUME NativeBounds == {MaxStk, MaxFrames, MaxDepth} \subseteq Nat

VARIABLES
    hs,       \* rt->hs: installed clauses, [op, kind, once, hf]
    floor,    \* rt->hs_floor
    lw,       \* rt->lw: 0, or which inference driver's state is in use
    depth,    \* inference_depth of jq_error.c
    cap,      \* rt->cap_depth
    ks,       \* rt->ks: frame blocks, innermost last
    heap,     \* frame block -> its descriptor, or Free
    pending,  \* rt->pending, or NoCapture
    res,      \* resumption blocks: [frames, once, used], or NoRes
    stk,      \* the C stack
    mode      \* "run", "ret" (a value is returning), "susp" (JQ_SUSPEND is),
              \* or how the process ended
vars == <<hs, floor, lw, depth, cap, ks, heap, pending, res, stk, mode>>
stacks == <<hs, cap, ks, heap, pending, res>>
run == <<floor, lw, depth>>

Frames == 1 .. MaxFrames
Free == [t |-> "free"]
ActFrame(a) == [t |-> "act", a |-> a]   \* a suspended activation
HfFrame(h) == [t |-> "handle", h |-> h] \* a handle site
NoRes == [frames |-> << >>, once |-> FALSE, used |-> FALSE]
NoCapture == [mark |-> 0, once |-> FALSE]
Ops == UNION {{Handlers[h][i].op : i \in DOMAIN Handlers[h]} : h \in DOMAIN Handlers}
Clauses == [op : Ops, kind : {"tail", "capturing"}, once : BOOLEAN]
ASSUME HandlersAssumption == \A h \in DOMAIN Handlers : Handlers[h] \in Seq(Clauses)

FreeFrames(n) == Cardinality({f \in Frames : heap[f] = Free}) >= n
NewFrame == CHOOSE f \in Frames : heap[f] = Free
Room(n) == Len(stk) + n <= MaxStk
TopCtx == stk[Len(stk)]
Pop(s) == SubSeq(s, 1, Len(s) - 1)
KsTopIs(f) == ks # << >> /\ ks[Len(ks)] = f
CapturingIn(s) == Cardinality({i \in DOMAIN s : s[i].kind = "capturing"})

----------------------------------------------------------------------------
\* Handler entries.
EntriesOf(h, f) ==
    [i \in DOMAIN Handlers[h] |-> [op |-> Handlers[h][i].op, kind |-> Handlers[h][i].kind,
                                   once |-> Handlers[h][i].once, hf |-> f]]
HandlePush(es) == hs' = hs \o es /\ cap' = cap + CapturingIn(es)
HandlePop(n) ==
    /\ hs' = SubSeq(hs, 1, Len(hs) - n)
    /\ cap' = cap - CapturingIn(SubSeq(hs, Len(hs) - n + 1, Len(hs)))
EntryCount(f) == Len(Handlers[heap[f].h])

\* What perform's search can find: the entries above the search floor.
Matching(op) == {i \in floor + 1 .. Len(hs) : hs[i].op = op}
Match(op) == CHOOSE i \in Matching(op) : \A j \in Matching(op) : j <= i

----------------------------------------------------------------------------
\* Running code.

\* Mutant: one capturing clause installed is taken for none.
CallUnsaved(a) ==
    /\ mode = "run" /\ Room(1) /\ UNCHANGED <<hs, cap, pending, res, mode, run>>
    /\ IF cap > 1
       THEN /\ FreeFrames(1) /\ heap' = [heap EXCEPT ![NewFrame] = ActFrame(a)]
            /\ ks' = Append(ks, NewFrame)
            /\ stk' = Append(stk, [t |-> "act", fr |-> NewFrame, a |-> a])
       ELSE stk' = Append(stk, [t |-> "act", fr |-> 0, a |-> a]) /\ UNCHANGED <<heap, ks>>

\* A non-tail call at a suspendable site: the live locals are saved in a
\* frame when a capture is possible.
Call(a) ==
    /\ mode = "run" /\ Room(1)
    /\ IF cap > 0
       THEN /\ FreeFrames(1)
            /\ heap' = [heap EXCEPT ![NewFrame] = ActFrame(a)]
            /\ ks' = Append(ks, NewFrame)
            /\ stk' = Append(stk, [t |-> "act", fr |-> NewFrame, a |-> a])
       ELSE stk' = Append(stk, [t |-> "act", fr |-> 0, a |-> a]) /\ UNCHANGED <<heap, ks>>
    /\ UNCHANGED <<hs, cap, pending, res, mode, run>>

Yield == mode = "run" /\ mode' = "ret" /\ UNCHANGED <<stacks, run, stk>>

\* jq_handle2: the handler frame, its entries, then the handled thunk.
Handle2(h) ==
    /\ mode = "run" /\ Room(1) /\ FreeFrames(1)
    /\ heap' = [heap EXCEPT ![NewFrame] = HfFrame(h)]
    /\ ks' = Append(ks, NewFrame)
    /\ HandlePush(EntriesOf(h, NewFrame))
    /\ stk' = Append(stk, [t |-> "handle", fr |-> NewFrame])
    /\ UNCHANGED <<pending, res, mode, run>>

\* Mutant: the matched clause itself stays visible.
PerformTailVisible(op) ==
    /\ mode = "run" /\ Matching(op) # {} /\ hs[Match(op)].kind = "tail" /\ Room(1)
    /\ hs' = SubSeq(hs, 1, Match(op))
    /\ stk' = Append(stk, [t |-> "perform", hf |-> hs[Match(op)].hf,
                           saved |-> SubSeq(hs, Match(op) + 1, Len(hs))])
    /\ UNCHANGED <<cap, ks, heap, pending, res, mode, run>>

\* jq_perform, a tail clause: the slice of hs from the match up is hidden
\* while the clause runs.
PerformTail(op) ==
    /\ mode = "run" /\ Matching(op) # {} /\ hs[Match(op)].kind = "tail" /\ Room(1)
    /\ hs' = SubSeq(hs, 1, Match(op) - 1)
    /\ stk' = Append(stk, [t |-> "perform", hf |-> hs[Match(op)].hf,
                           saved |-> SubSeq(hs, Match(op), Len(hs))])
    /\ UNCHANGED <<cap, ks, heap, pending, res, mode, run>>

SiteOf(f) == CHOOSE i \in DOMAIN stk : stk[i].t = "handle" /\ stk[i].fr = f
\* The programs considered: no tail clause suspends.  (The runtime re-installs
\* what such a clause hid before the rest of the clause runs; see the README.)
TailClausesFinish(f) == \A i \in SiteOf(f) .. Len(stk) : stk[i].t # "perform"

\* jq_perform, a capturing clause: record the capture and unwind.
PerformCapturing(op) ==
    /\ mode = "run" /\ Matching(op) # {} /\ hs[Match(op)].kind = "capturing"
    /\ TailClausesFinish(hs[Match(op)].hf)
    /\ \E r \in ResIds : res[r] = NoRes
    /\ pending' = [mark |-> hs[Match(op)].hf, once |-> hs[Match(op)].once]
    /\ mode' = "susp"
    /\ UNCHANGED <<hs, cap, ks, heap, res, run, stk>>

\* The process ends, and nothing is left of it.
Exit(how) ==
    /\ mode' = how
    /\ hs' = << >> /\ cap' = 0 /\ ks' = << >> /\ heap' = [f \in Frames |-> Free]
    /\ pending' = NoCapture /\ res' = [r \in ResIds |-> NoRes] /\ stk' = << >>
    /\ floor' = 0 /\ lw' = 0 /\ depth' = 0

\* jq_perform, no clause found: the stale-capability trap, the root grants,
\* the inference driver, then the unhandled exit.
PerformAtRoot(op) ==
    /\ mode = "run" /\ Matching(op) = {}
    /\ IF op \in InstanceOps THEN Exit("stale capability")
       ELSE IF op \in Granted \/ (lw > 0 /\ op \in SampleOps)
       THEN mode' = "ret" /\ UNCHANGED <<stacks, run, stk>>
       ELSE Exit(IF lw > 0 THEN "E0902" ELSE "unhandled")

Cloned(fs) == [i \in DOMAIN fs |-> heap[fs[i]]]
CloneIds(n) == CHOOSE ids \in [1 .. n -> {f \in Frames : heap[f] = Free}] : IsInjective(ids)
\* run_from: every frame but the innermost joins ks before its inner extent
\* runs, handler frames with their entries; an innermost activation is
\* entered at once, an innermost handler frame dispatched at once.
EntriesOfChain(ids, ds) ==
    FlattenSeq([i \in DOMAIN ids |-> IF ds[i].t = "handle" THEN EntriesOf(ds[i].h, ids[i]) ELSE << >>])
CtxOf(i, ids, ds) ==
    IF ds[i].t = "handle" THEN [t |-> "handle", fr |-> ids[i]]
    ELSE [t |-> IF i = Len(ids) THEN "enter" ELSE "rerun", fr |-> ids[i]]
\* Mutant: activations join ks only when a suspension reaches them.
LinkedLazily(ids, ds) == SelectSeq(ids, LAMBDA f : ds[CHOOSE i \in DOMAIN ids : ids[i] = f].t = "handle")

\* The frames run_from puts on ks: an innermost activation is not among them.
Linked(ids, ds) == IF ds[Len(ds)].t = "handle" THEN ids ELSE Pop(ids)

\* jq_resume: clone the chain, then run it from its innermost frame.
Resume(r) ==
    LET fs == res[r].frames
        ids == CloneIds(Len(fs))
        ds == Cloned(fs)
    IN /\ mode = "run" /\ res[r] # NoRes
       /\ IF res[r].once /\ res[r].used
          THEN Exit("E0906")
          ELSE /\ Room(Len(fs)) /\ FreeFrames(Len(fs))
               /\ res' = IF res[r].once THEN [res EXCEPT ![r].used = TRUE] ELSE res
               /\ heap' = [f \in Frames |-> IF \E i \in DOMAIN ids : ids[i] = f
                                            THEN ds[CHOOSE i \in DOMAIN ids : ids[i] = f] ELSE heap[f]]
               /\ ks' = ks \o Linked(ids, ds)
               /\ HandlePush(EntriesOfChain(ids, ds))
               /\ stk' = stk \o [i \in DOMAIN ids |-> CtxOf(i, ids, ds)]
               /\ mode' = "ret"
               /\ UNCHANGED <<pending, run>>

\* The last reference to a resumption goes: the free walk releases its frames.
Drop(r) ==
    /\ mode = "run" /\ res[r] # NoRes
    /\ res' = [res EXCEPT ![r] = NoRes]
    /\ heap' = [f \in Frames |-> IF f \in Range(res[r].frames) THEN Free ELSE heap[f]]
    /\ UNCHANGED <<hs, cap, ks, pending, mode, run, stk>>

\* Mutant: the run sees the handlers outside it.
StartRunUnfloored ==
    /\ mode = "run" /\ Room(1) /\ depth < MaxDepth
    /\ stk' = Append(stk, [t |-> "lw", floor |-> floor, lw |-> lw])
    /\ floor' = floor /\ lw' = depth + 1 /\ depth' = depth + 1
    /\ UNCHANGED <<stacks, mode>>

\* dist.sample-lw: one run of the model, outer handlers below the floor.
StartRun ==
    /\ mode = "run" /\ Room(1) /\ depth < MaxDepth
    /\ stk' = Append(stk, [t |-> "lw", floor |-> floor, lw |-> lw])
    /\ floor' = Len(hs) /\ lw' = depth + 1 /\ depth' = depth + 1
    /\ UNCHANGED <<stacks, mode>>

----------------------------------------------------------------------------
\* A value returns to the C activation on top of the stack.
Returning(t) == mode = "ret" /\ stk # << >> /\ TopCtx.t = t /\ stk' = Pop(stk)
Release(f) == heap' = [heap EXCEPT ![f] = Free]

ReturnToActivation ==
    /\ Returning("act")
    /\ IF TopCtx.fr = 0 THEN UNCHANGED <<ks, heap>>
       ELSE ks' = Pop(ks) /\ Release(TopCtx.fr)
    /\ mode' = "run" /\ UNCHANGED <<hs, cap, pending, res, run>>

\* run_from: the innermost captured activation is entered with the value.
EnterFrame ==
    /\ Returning("enter") /\ Release(TopCtx.fr) /\ mode' = "run"
    /\ UNCHANGED <<hs, cap, ks, pending, res, run>>

\* run_from: an outer captured activation is entered with the inner result.
ReenterFrame ==
    /\ Returning("rerun")
    /\ IF KsTopIs(TopCtx.fr)
       THEN ks' = Pop(ks) /\ Release(TopCtx.fr) /\ mode' = "run"
       ELSE mode' = "internal error" /\ UNCHANGED <<ks, heap>>
    /\ UNCHANGED <<hs, cap, pending, res, run>>

\* jq_perform: the tail clause returned, its value is the operation's.
ReturnFromClause ==
    /\ Returning("perform") /\ hs' = hs \o TopCtx.saved
    /\ UNCHANGED <<cap, ks, heap, pending, res, mode, run>>

\* jq_dispatch on a value: entries off, frame off, the return clause runs.
DispatchValue ==
    /\ Returning("handle") /\ HandlePop(EntryCount(TopCtx.fr))
    /\ IF KsTopIs(TopCtx.fr)
       THEN ks' = Pop(ks) /\ Release(TopCtx.fr) /\ mode' = "run"
       ELSE mode' = "internal error" /\ UNCHANGED <<ks, heap>>
    /\ UNCHANGED <<pending, res, run>>

\* The run's value is back in the driver, which restores what it set.
EndRun ==
    /\ Returning("lw") /\ floor' = TopCtx.floor /\ lw' = TopCtx.lw /\ depth' = depth - 1
    /\ mode' = "run" /\ UNCHANGED stacks

Finish == mode = "ret" /\ stk = << >> /\ Exit("finished")

----------------------------------------------------------------------------
\* JQ_SUSPEND returns to the C activation on top of the stack.  Nothing takes
\* it out of main or out of an inference run: there the model would be stuck.
\* (No tail clause suspends, by TailClausesFinish.)
Unwinding(t) == mode = "susp" /\ stk # << >> /\ TopCtx.t = t /\ stk' = Pop(stk)

UnwindActivation ==
    /\ Unwinding("act") \/ Unwinding("rerun")
    /\ UNCHANGED <<stacks, mode, run>>

\* jq_dispatch on another handler's capture: the entries come off, the frame
\* stays on ks as part of the slice.
PassHandle ==
    /\ Unwinding("handle") /\ pending.mark # TopCtx.fr
    /\ HandlePop(EntryCount(TopCtx.fr))
    /\ UNCHANGED <<ks, heap, pending, res, mode, run>>

\* jq_dispatch on its own capture: the slice from the handler frame to the
\* top becomes a resumption and the clause runs outside the handler.
PositionOf(f) == CHOOSE i \in DOMAIN ks : ks[i] = f
DispatchCapture ==
    /\ Unwinding("handle") /\ pending.mark = TopCtx.fr
    /\ HandlePop(EntryCount(TopCtx.fr))
    /\ IF \E i \in DOMAIN ks : ks[i] = TopCtx.fr
       THEN \E r \in ResIds :
              LET slice == SubSeq(ks, PositionOf(TopCtx.fr), Len(ks))
              IN /\ res[r] = NoRes /\ \A q \in ResIds : res[q] = NoRes => r <= q
                 /\ res' = [res EXCEPT ![r] = [frames |-> slice, once |-> pending.once, used |-> FALSE]]
                 /\ ks' = SubSeq(ks, 1, PositionOf(TopCtx.fr) - 1)
                 /\ mode' = "run"
       ELSE mode' = "internal error" /\ UNCHANGED <<ks, res>>
    /\ pending' = NoCapture
    /\ UNCHANGED <<heap, run>>

----------------------------------------------------------------------------
Init ==
    /\ hs = << >> /\ floor = 0 /\ lw = 0 /\ depth = 0 /\ cap = 0
    /\ ks = << >> /\ heap = [f \in Frames |-> Free] /\ pending = NoCapture
    /\ res = [r \in ResIds |-> NoRes] /\ stk = << >> /\ mode = "run"

Deliver == \/ ReturnToActivation \/ EnterFrame \/ ReenterFrame \/ ReturnFromClause
           \/ DispatchValue \/ EndRun \/ Finish
Unwind == UnwindActivation \/ PassHandle \/ DispatchCapture

\* A process that has ended stays so.
Ended == mode \notin {"run", "ret", "susp"} /\ UNCHANGED vars

Next ==
    \/ \E a \in Labels : Call(a)
    \/ \E h \in DOMAIN Handlers : Handle2(h)
    \/ \E op \in Ops \cup Granted \cup SampleOps \cup InstanceOps :
           PerformTail(op) \/ PerformCapturing(op) \/ PerformAtRoot(op)
    \/ \E r \in ResIds : Resume(r) \/ Drop(r)
    \/ Yield \/ StartRun \/ Deliver \/ Unwind \/ Ended

Spec == Init /\ [][Next]_vars
\* The C code between two points of the program runs on: a value or a
\* suspension on its way down the stack is not stopped by anything.
FairSpec == Spec /\ WF_vars(Deliver) /\ WF_vars(Unwind)

----------------------------------------------------------------------------
(* The continuation the C stack stands for: one frame per C activation; a  *)
(* tail clause in progress stands for "return into what perform hid".      *)
(* While a capture unwinds, the frames already left behind on ks count.    *)

LastIn(s, x) == CHOOSE i \in DOMAIN s : s[i] = x /\ \A j \in i + 1 .. Len(s) : s[j] # x
FrameOf(d) == IF d.t = "handle" THEN [t |-> "handle", h |-> d.h] ELSE [t |-> "act", a |-> d.a]
Enclose(acc, c) ==
    LET at == LastIn(acc.id, c.hf)
        add(f, id) == [k |-> Append(acc.k, f), id |-> Append(acc.id, id)]
    IN CASE c.t = "act" -> add([t |-> "act", a |-> c.a], 0)
         [] c.t = "lw" -> add([t |-> "lw"], 0)
         [] c.t \in {"enter", "rerun", "handle"} -> add(FrameOf(heap[c.fr]), c.fr)
         [] c.t = "perform" /\ c.hf \notin Range(acc.id) -> add([t |-> "tail", inner |-> << >>], 0)
         [] OTHER -> [k |-> Append(SubSeq(acc.k, 1, at - 1),
                                   [t |-> "tail", inner |-> SubSeq(acc.k, at, Len(acc.k))]),
                      id |-> Append(SubSeq(acc.id, 1, at - 1), 0)]
Enclosing ==
    LET upTo[n \in 0 .. Len(stk)] ==
            IF n = 0 THEN [k |-> << >>, id |-> << >>] ELSE Enclose(upTo[n - 1], stk[n])
    IN upTo[Len(stk)]

OnKs(c) == c.t \in {"handle", "rerun"} \/ (c.t = "act" /\ c.fr # 0)
\* How many of the first n activations of a C stack have a frame.
FramesUpTo(s, n) == Cardinality({i \in 1 .. n : OnKs(s[i])})
LeftBehind == SubSeq(ks, FramesUpTo(stk, Len(stk)) + 1, Len(ks))
Kont == Enclosing.k \o (IF mode = "susp"
                        THEN [i \in DOMAIN LeftBehind |-> FrameOf(heap[LeftBehind[i]])] ELSE << >>)

Captured(r) == IF res[r] = NoRes \/ (res[r].once /\ res[r].used)
               THEN [frames |-> << >>, once |-> FALSE]
               ELSE [frames |-> [i \in DOMAIN res[r].frames |-> FrameOf(heap[res[r].frames[i]])],
                     once |-> res[r].once]

A == INSTANCE EvalContinuation WITH
         kont <- Kont, res <- [r \in ResIds |-> Captured(r)],
         st <- CASE mode \in {"run", "susp"} -> "eval" [] mode = "ret" -> "value" [] OTHER -> "stop"

----------------------------------------------------------------------------
(* Properties.                                                             *)

FrameIds == Frames \cup {0}
\* Every variable stays in its declared range.
TypeOK ==
    /\ hs \in Seq([op : Ops, kind : {"tail", "capturing"}, once : BOOLEAN, hf : Frames])
    /\ floor \in 0 .. Len(hs) /\ {lw, depth, cap} \subseteq Nat
    /\ ks \in Seq(Frames) /\ Len(stk) <= MaxStk
    /\ \A f \in Frames : heap[f] \in {Free} \cup {ActFrame(a) : a \in Labels}
                                     \cup {HfFrame(h) : h \in DOMAIN Handlers}
    /\ pending \in [mark : FrameIds, once : BOOLEAN]
    /\ \A r \in ResIds : res[r].frames \in Seq(Frames)
    /\ mode \in {"run", "ret", "susp", "finished", "unhandled", "stale capability",
                 "E0902", "E0906", "internal error"}

\* cap_depth counts the capturing clauses installed, those a running tail
\* clause hides included: it decides which call sites save their frame.
CapDepthIsExact ==
    cap = CapturingIn(hs \o FlattenSeq([i \in DOMAIN stk |->
                                         IF stk[i].t = "perform" THEN stk[i].saved ELSE << >>]))
\* The frame stack is the C stack's frames in the order of their calls; a
\* suspension leaves the frames of the activations it has unwound above them.
FrameStackFollowsCalls ==
    /\ \A i \in DOMAIN stk :
           OnKs(stk[i]) => LET n == FramesUpTo(stk, i) IN n <= Len(ks) /\ ks[n] = stk[i].fr
    /\ mode # "susp" => Len(ks) = FramesUpTo(stk, Len(stk))
\* The search floor, the driver's state and the diagnostic depth are those of
\* the innermost inference run, and a capture never unwinds out of it.
RunsOnStack == {i \in DOMAIN stk : stk[i].t = "lw"}
InferenceIsIsolated ==
    /\ depth = Cardinality(RunsOnStack) /\ lw = depth
    /\ \A i \in DOMAIN hs : i <= floor <=> \E j \in RunsOnStack : SiteOf(hs[i].hf) < j
    /\ mode = "susp" => \A i \in RunsOnStack : SiteOf(pending.mark) > i
\* Every allocated frame has one owner: the frame stack, one resumption, or
\* the C activation about to enter it; nothing freed is still owned.
OwnersOf(f) ==
    Cardinality({i \in DOMAIN ks : ks[i] = f})
    + Cardinality({i \in DOMAIN stk : stk[i].t = "enter" /\ stk[i].fr = f})
    + Cardinality({p \in ResIds \X (1 .. MaxFrames) :
                       p[2] \in DOMAIN res[p[1]].frames /\ res[p[1]].frames[p[2]] = f})
OneOwnerPerFrame == \A f \in Frames : OwnersOf(f) = IF heap[f] = Free THEN 0 ELSE 1
\* The three stacks the runtime keeps beside C's agree with it, every frame has
\* one owner, none of the failures the runtime calls internal is reachable, and
\* every variable is of its type.
StacksAgree ==
    /\ TypeOK
    /\ mode # "internal error" /\ CapDepthIsExact /\ FrameStackFollowsCalls
    /\ InferenceIsIsolated /\ OneOwnerPerFrame

\* The search finds what the interpreter finds: for every operation the
\* handler jq_perform would pick is the nearest one the continuation shows,
\* so a clause never sees its own handler or one inside it.
SearchAgrees ==
    mode = "run" =>
        LET e == Enclosing
        IN \A op \in Ops :
            IF A!Covering(e.k, op) = {} THEN Matching(op) = {}
            ELSE Matching(op) # {} /\ hs[Match(op)].hf = e.id[A!Nearest(A!Covering(e.k, op))]

\* The native control stacks implement the interpreter's continuation.
Refinement == A!ASpec

\* A value or a suspension on its way down always arrives.
Arrives == (mode = "susp" ~> mode # "susp") /\ (mode = "ret" ~> mode # "ret")
============================================================================
