------------------------ MODULE LikelihoodWeighting ------------------------
(***************************************************************************)
(* The seeded inference drivers of the native runtime: dist.sample-lw and  *)
(* dist.sample-lw-weights-v1 in src/runtime/jq_intrinsics.c, what answers  *)
(* a model's sample and observe while they run it, the classification the  *)
(* prelude adds to the second, and how a failure is reported from inside   *)
(* (src/runtime/jq_error.c).                                               *)
(*                                                                         *)
(* A model is arbitrary code: it may draw, observe, start a driver of its  *)
(* own, fail or return.  Real weights are naturals in units of 1/One; a    *)
(* product smaller than a unit underflows to 0, as a tiny binary64 does.   *)
(***************************************************************************)
EXTENDS Integers, Sequences, FiniteSets, SequencesExt

CONSTANTS
    One,         \* the weight 1.0, in units
    Masses,      \* what an observation may multiply a weight by
    Keys,        \* the renderings of the values a model returns, in order
    MaxSamples, MaxDepth, \* bounds on the runs of a driver and on nesting
    MaxOps       \* bound on the draws and observations kept in a history

ASSUME WeightingAssumption ==
    /\ One \in Nat \ {0} /\ Masses \subseteq Nat /\ Keys \subseteq Nat
    /\ {MaxSamples, MaxDepth, MaxOps} \subseteq Nat

VARIABLES
    drivers, \* the running drivers from the outermost in
    answer,  \* what the driver that finished last returned
    report   \* the diagnostic the process ended with
vars == <<drivers, answer, report>>

(* A driver: its kind, the runs still to make (the one in progress         *)
(* included), the runs it keeps, lw_state (weight, possible), and the      *)
(* histories the properties speak of: factors of the run in progress,      *)
(* traces of the finished ones.                                            *)
Kinds == {"sample-lw", "weights-v1"}
NoMass == [t |-> "draw"]                    \* a draw from a zero-mass support
Factor(p) == [t |-> "observe", p |-> p]
Factors == {NoMass} \cup {Factor(p) : p \in Masses}
NoAnswer == [kind |-> "none"]
NoReport == [code |-> "none"]

Running == report = NoReport
Top == drivers[Len(drivers)]
Below == SubSeq(drivers, 1, Len(drivers) - 1)
WithTop(d) == Append(Below, d)
\* The weights of a list of runs added up.
TotalOf(runs) == FoldLeft(LAMBDA n, r : n + r.weight, 0, runs)

----------------------------------------------------------------------------
\* Diagnostics.  An error is the code it carries ("" for the plain
\* categories) and its category; a cause is nested in what quotes it.
Plain(kind) == [code |-> "", kind |-> kind]
EmptyPosterior == [code |-> "E0901", kind |-> "empty posterior"]
PlainKinds == {"match", "unhandled", "arity", "arithmetic", "io", "type", "unresolved", "eval", "native"}
\* contract(): the exit status of each category.
Status(kind) == IF kind = "unhandled" THEN 3 ELSE 2
Quoted(code, cause) == [quotes |-> code, cause |-> cause]

\* jq_diagnostic_fail and start/finish at an inference depth: one E0902, its
\* cause wrapped once for every further driver around the failure.
NativeReport(depth, e) ==
    IF depth = 0 THEN [code |-> e.code, status |-> Status(e.kind), cause |-> e.kind]
    ELSE LET inner == IF e.code = "E0901" THEN Quoted("E0901", e.kind) ELSE e.kind
             wrapped[n \in Nat] == IF n = 0 THEN inner ELSE Quoted("E0902", wrapped[n - 1])
         IN [code |-> "E0902", status |-> 2, cause |-> wrapped[depth - 1]]
Fails(depth, e) ==
    /\ report' = NativeReport(depth, e) /\ drivers' = << >> /\ answer' = NoAnswer

----------------------------------------------------------------------------
\* lw_run lists.

\* The merge on the rendering, latest run first.
MergedRuns(runs) ==
    FoldRight(LAMBDA r, entries :
                  IF \E j \in DOMAIN entries : entries[j].key = r.key
                  THEN [j \in DOMAIN entries |->
                           IF entries[j].key = r.key
                           THEN [entries[j] EXCEPT !.weight = @ + r.weight] ELSE entries[j]]
                  ELSE Append(entries, r),
              runs, << >>)
\* lw_entry_cmp: likelier first, then by rendering.
LikelierFirst(a, b) == a.weight > b.weight \/ (a.weight = b.weight /\ a.key < b.key)
Posterior(runs) ==
    [outcome |-> "posterior", total |-> TotalOf(runs),
     entries |-> SortSeq(MergedRuns(runs), LikelierFirst)]

\* dist.classify-v1 on natural weights: no survivor, or survivors that all
\* underflowed, or a posterior with one entry per survivor.
Classify(leaves) ==
    CASE leaves = << >> -> [outcome |-> "impossible"]
      [] leaves # << >> /\ TotalOf(leaves) = 0 -> [outcome |-> "underflow"]
      [] OTHER -> [outcome |-> "posterior", total |-> TotalOf(leaves), entries |-> leaves]

----------------------------------------------------------------------------
Init == drivers = << >> /\ answer = NoAnswer /\ report = NoReport

\* A driver is called, from the program or from a model under inference.
Start(kind, samples) ==
    /\ Running /\ Len(drivers) < MaxDepth
    /\ IF samples <= 0 THEN Fails(Len(drivers), Plain("arithmetic"))
       ELSE /\ drivers' = Append(drivers, [kind |-> kind, left |-> samples, runs |-> << >>,
                                           weight |-> One, possible |-> TRUE,
                                           factors |-> << >>, traces |-> << >>])
            /\ answer' = NoAnswer /\ UNCHANGED report

OpsKept == FoldLeft(LAMBDA n, d : n + Len(d.factors)
                                   + FoldLeft(LAMBDA m, tr : m + Len(tr.factors), 0, d.traces),
                    0, drivers)
Interpreting == Running /\ drivers # << >> /\ OpsKept < MaxOps

\* jq_lw_sample: a draw from a support with no mass is impossible.
Sample(massless) ==
    /\ Interpreting
    /\ drivers' = IF massless
                  THEN WithTop([Top EXCEPT !.possible = FALSE, !.factors = Append(@, NoMass)])
                  ELSE drivers
    /\ answer' = NoAnswer /\ UNCHANGED report

\* jq_lw_observe: the mass multiplies the weight; an exact zero rules the run out.
Observe(p) ==
    /\ Interpreting
    /\ drivers' = WithTop([Top EXCEPT !.weight = (@ * p) \div One, !.possible = @ /\ p # 0,
                                      !.factors = Append(@, Factor(p))])
    /\ answer' = NoAnswer /\ UNCHANGED report

\* Mutant: a run ruled out rules out the runs after it.
NextRunStillImpossible(d) == [d EXCEPT !.left = @ - 1, !.weight = One, !.factors = << >>]
\* The driver's next run: weights-v1 resets both fields, sample-lw its weight.
NextRun(d) ==
    [d EXCEPT !.left = @ - 1, !.weight = One, !.factors = << >>,
              !.possible = IF d.kind = "weights-v1" THEN TRUE ELSE @]
\* The run ended with a value: sample-lw keeps every run, weights-v1 the
\* possible ones.
Kept(d, key) ==
    LET run == [key |-> key, weight |-> d.weight]
    IN [d EXCEPT !.runs = IF d.kind = "sample-lw" \/ d.possible THEN Append(@, run) ELSE @,
                 !.traces = Append(@, [key |-> key, factors |-> d.factors])]

\* The model returns a value, and the driver goes on or answers.
Return(key) ==
    LET d == Kept(Top, key)
    IN /\ Running /\ drivers # << >>
       /\ CASE d.left > 1 -> drivers' = WithTop(NextRun(d)) /\ answer' = NoAnswer /\ UNCHANGED report
            [] d.left = 1 /\ d.kind = "sample-lw" /\ TotalOf(d.runs) = 0 ->
                   Fails(Len(Below), EmptyPosterior)
            [] OTHER ->
                   /\ drivers' = Below /\ UNCHANGED report
                   /\ answer' = [kind |-> d.kind, traces |-> d.traces,
                                 result |-> IF d.kind = "sample-lw" THEN Posterior(d.runs)
                                            ELSE Classify(d.runs)]

\* Anything else goes wrong in the program or in a model under inference.
Fail(kind) == Running /\ Fails(Len(drivers), Plain(kind))

Next ==
    \/ \E kind \in Kinds, n \in 0 .. MaxSamples : Start(kind, n)
    \/ \E massless \in BOOLEAN : Sample(massless)
    \/ \E p \in Masses : Observe(p)
    \/ \E key \in Keys : Return(key)
    \/ \E kind \in PlainKinds : Fail(kind)
Spec == Init /\ [][Next]_vars

----------------------------------------------------------------------------
(* Properties.                                                             *)

\* The weight a list of factors gives, and whether none is an exact zero.
WeightOf(fs) == FoldLeft(LAMBDA w, f : IF f.t = "observe" THEN (w * f.p) \div One ELSE w, One, fs)
HasZero(fs) == \E i \in DOMAIN fs : fs[i] \in {NoMass, Factor(0)}
AsRun(tr) == [key |-> tr.key, weight |-> WeightOf(tr.factors)]
AllRuns(traces) == [i \in DOMAIN traces |-> AsRun(traces[i])]
Survivors(traces) == AllRuns(SelectSeq(traces, LAMBDA tr : ~HasZero(tr.factors)))
SumAt(runs, key) == TotalOf(SelectSeq(runs, LAMBDA r : r.key = key))

\* A run's weight comes from its own factors and no others: neither the runs
\* before it nor a driver the model started in the middle of it leave a trace
\* (the drivers share rt->lw, which each saves and restores).
RunsAreIndependent ==
    \A i \in DOMAIN drivers :
        LET d == drivers[i]
        IN /\ d.weight = WeightOf(d.factors)
           /\ d.kind = "weights-v1" => d.possible = ~HasZero(d.factors)
           /\ d.runs = IF d.kind = "sample-lw" THEN AllRuns(d.traces) ELSE Survivors(d.traces)

\* What the two drivers answer for the same runs agrees: the first driver's
\* table gives every value the weight of its runs, likeliest first, and the
\* second's survivors, merged, are that table without the rows of impossible
\* runs, provided no draw was from a zero-mass support; only runs with an
\* exact zero are called impossible, the rest underflowed.
DriversAgree ==
    answer # NoAnswer =>
        LET all == AllRuns(answer.traces)
            alive == Survivors(answer.traces)
            r == answer.result
            entryOf(key) == {j \in DOMAIN r.entries : r.entries[j].key = key}
        IN IF answer.kind = "sample-lw"
           THEN /\ \A j \in DOMAIN r.entries : \A k \in j + 1 .. Len(r.entries) :
                       r.entries[j].weight >= r.entries[k].weight /\ r.entries[j].key # r.entries[k].key
                /\ \A i \in DOMAIN all : Cardinality(entryOf(all[i].key)) = 1
                /\ \A j \in DOMAIN r.entries : r.entries[j].weight = SumAt(all, r.entries[j].key)
                /\ (\A i \in DOMAIN answer.traces : ~Contains(answer.traces[i].factors, NoMass)) =>
                       /\ Classify(alive).outcome = "posterior" /\ TotalOf(alive) = r.total
                       /\ \A key \in Keys :
                              SumAt(alive, key) = TotalOf(SelectSeq(r.entries, LAMBDA e : e.key = key))
           ELSE /\ r.outcome = "impossible" <=> \A i \in DOMAIN answer.traces : HasZero(answer.traces[i].factors)
                /\ r.outcome = "posterior" => r.entries = alive

\* How the interpreter reports: the innermost driver makes an E0902 of a
\* failure, or an E0901 of its own, and each driver around it makes another.
QuotedIn(diag) == IF diag.code = "" THEN diag.cause ELSE Quoted(diag.code, diag.cause)
InterpreterReport[depth \in Nat, e \in [code : {"", "E0901"}, kind : PlainKinds \cup {"empty posterior"}]] ==
    IF depth = 0 THEN [code |-> e.code, status |-> IF e.kind = "unhandled" THEN 3 ELSE 2, cause |-> e.kind]
    ELSE [code |-> "E0902", status |-> 2, cause |-> QuotedIn(InterpreterReport[depth - 1, e])]

\* A failure at the depth the program has reached is reported as the
\* interpreter reports it: its category, or E0902 around what went wrong.
ReportsAgree ==
    \A e \in {Plain(kind) : kind \in PlainKinds} \cup {EmptyPosterior} :
        NativeReport(Len(drivers), e) = InterpreterReport[Len(drivers), e]
=============================================================================
