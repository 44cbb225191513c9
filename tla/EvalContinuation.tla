------------------------- MODULE EvalContinuation -------------------------
(***************************************************************************)
(* What the interpreter (src/eval.ml) promises about control: a program    *)
(* runs against one continuation, kont, the frames still to be returned    *)
(* to, innermost last.  A handled operation takes the frames above the     *)
(* nearest covering handler, that handler included, away from kont; the    *)
(* operation's clause runs against what is left, and applying the          *)
(* resumption puts the frames back.                                        *)
(*                                                                         *)
(* The program itself is arbitrary: whenever it runs ("eval") it may do    *)
(* any of the actions.  A clause whose body ends in one call of its        *)
(* resumption is "tail": its resumption is kept in kont as a frame that    *)
(* re-installs the captured frames when the clause returns.                *)
(***************************************************************************)
EXTENDS Naturals, Sequences

CONSTANTS
    Labels,    \* activations a program may leave waiting for a value
    Handlers,  \* function: handler name -> its clauses, a sequence of
               \* [op, kind: "tail" | "capturing", once: BOOLEAN]
    ResIds     \* names of live resumptions (a bound)

VARIABLES
    kont,  \* frames to return to, innermost last
    res,   \* resumption name -> [frames, once], or NoRes
    st     \* "eval": code runs; "value": a value returns to kont; "stop"
avars == <<kont, res, st>>

NoRes == [frames |-> << >>, once |-> FALSE]
Waiting(a) == [t |-> "act", a |-> a]
Handling(h) == [t |-> "handle", h |-> h]
Inference == [t |-> "lw"]
ThenResume(inner) == [t |-> "tail", inner |-> inner]

Ops == UNION {{Handlers[h][i].op : i \in DOMAIN Handlers[h]} : h \in DOMAIN Handlers}
Clause(h, op) == Handlers[h][CHOOSE i \in DOMAIN Handlers[h] : Handlers[h][i].op = op]
Covers(f, op) == f.t = "handle" /\ \E i \in DOMAIN Handlers[f.h] : Handlers[f.h][i].op = op

\* Positions of a continuation the search of an operation can see: an inference
\* run is a state machine of its own, nothing below its frame is visible.
Covering(k, op) == {i \in DOMAIN k : Covers(k[i], op) /\ \A j \in i .. Len(k) : k[j].t # "lw"}
Nearest(S) == CHOOSE i \in S : \A j \in S : j <= i

AInit == kont = << >> /\ res = [r \in ResIds |-> NoRes] /\ st = "eval"

\* Code leaves a frame to be returned to: a caller, a handler, an inference run.
NewFrames == {Waiting(a) : a \in Labels} \cup {Handling(h) : h \in DOMAIN Handlers} \cup {Inference}
AEnter == st = "eval" /\ st' = "eval" /\ res' = res /\ kont' \in {Append(kont, f) : f \in NewFrames}
AYield == st = "eval" /\ st' = "value" /\ UNCHANGED <<kont, res>>

APerform(op) ==
    /\ st = "eval" /\ st' = "eval"
    /\ LET k == kont
           at == Nearest(Covering(k, op))
           clause == Clause(k[at].h, op)
           outer == SubSeq(k, 1, at - 1)
           captured == SubSeq(k, at, Len(k))
       IN /\ Covering(k, op) # {}
          /\ kont' = IF clause.kind = "tail" THEN Append(outer, ThenResume(captured)) ELSE outer
          /\ IF clause.kind = "tail" THEN res' = res
             ELSE \E r \in ResIds : /\ res[r] = NoRes
                                   /\ res' = [res EXCEPT ![r] = [frames |-> captured, once |-> clause.once]]

\* An operation nothing visible covers is answered at the root, which is
\* AYield here, or it stops the run, as a second use of a once resumption does.
\* Nothing is left of a run that is over.
Over == st' = "stop" /\ kont' = << >> /\ res' = [r \in ResIds |-> NoRes]
AStop == st = "eval" /\ Over

AResume(r) ==
    /\ st = "eval" /\ st' = "value" /\ res[r] # NoRes
    /\ res' = IF res[r].once THEN [res EXCEPT ![r] = NoRes] ELSE res
    /\ kont' = kont \o res[r].frames
AForget(r) ==
    st = "eval" /\ st' = "eval" /\ res[r] # NoRes /\ res' = [res EXCEPT ![r] = NoRes] /\ kont' = kont

AReturn ==
    /\ st = "value" /\ kont # << >>
    /\ LET f == kont[Len(kont)]
           outer == SubSeq(kont, 1, Len(kont) - 1)
       IN IF f.t = "tail" THEN st' = "value" /\ kont' = outer \o f.inner
          ELSE st' = "eval" /\ kont' = outer
    /\ res' = res
AFinish == st = "value" /\ kont = << >> /\ Over

ANext ==
    \/ \E op \in Ops : APerform(op)
    \/ \E r \in ResIds : AResume(r) \/ AForget(r)
    \/ AEnter \/ AYield \/ AStop \/ AReturn \/ AFinish

ASpec == AInit /\ [][ANext]_avars
===========================================================================
