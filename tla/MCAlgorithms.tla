---------------------------- MODULE MCAlgorithms ----------------------------
(***************************************************************************)
(* The pure algorithms of the system against the definitions of what they  *)
(* compute, over every input of a small set, and the seeded inference      *)
(* drivers over every model of a few draws and observations.  A behaviour  *)
(* is about one part; a part without steps is one input.                   *)
(***************************************************************************)
EXTENDS LikelihoodWeighting, TaggedInts, TaskHandles

CONSTANTS MaxTasks, NoTask   \* of the wait graphs
CONSTANTS Grid, MaxOutcomes  \* of the distributions
CONSTANT MaxInt              \* of the spellings of integers

VARIABLES part, input
mcVars == <<drivers, answer, report, part, input>>

W == INSTANCE WaitCycle
D == INSTANCE Distributions
T == INSTANCE NativeText
F == INSTANCE CodeForms WITH Unspellable <- {"Bad"}

UpTo(n, S) == BoundedSeq(S, n)
----------------------------------------------------------------------------
(* Inputs.                                                                 *)

\* Probabilities from below 0 to above 1, entries that repeat an outcome, have
\* no mass or add up to anything; ranges that are empty, short and negative.
Distributions ==
    {D!Bernoulli(p) : p \in -1 .. One + 1}
    \cup {D!Categorical(es) : es \in UpTo(3, {D!Entry(x, p) : x \in {"a", "b"}, p \in {0, 1, 2}})}
    \cup {D!UniformInt(lo, hi) : lo \in -2 .. 1, hi \in -3 .. 3}
Drawable(d) ==
    \/ d.con = "bernoulli"
    \/ d.con = "uniform-int" /\ D!Outcomes(d) \in {1, 2, 3, 4}
    \/ d.con = "uniform-int" /\ d.hi < d.lo
    \/ d.con = "categorical" /\ D!TotalMass(d.entries) \in {0, 1, 2, 3, 4}

\* One byte of every class the decoder distinguishes, at each of its edges.
Utf8Bytes == {65, 128, 144, 160, 194, 224, 237, 240, 244}
Samples ==
    {<<65>>, <<194, 128>>, <<224, 160, 128>>, <<237, 144, 160>>, <<240, 144, 128, 128>>,
     <<244, 128, 128, 128>>, <<65, 194, 144>>, <<194, 160, 65>>}
\* Two letters and a blank; texts of a separator inside itself, as in "aa".
PlainBytes == {97, 98, 32}
Separators == UpTo(2, {97, 98})
\* "0", "1", "9", ".", "e", "+" and "-".
NumberBytes == {48, 49, 57, 46, 101, 43, 45}
NamedNumbers == {sign \o name : sign \in {<< >>, <<43>>, <<45>>, <<43, 45>>}, name \in T!Named}

Paths == UpTo(MaxScopeLen, 0 .. MaxComponent)
Runs == {0, 1, 2}
TooLong == [i \in 1 .. MaxScopeLen + 1 |-> IF i = 1 THEN 0 ELSE 1]
Blocks ==
    {[tag |-> tag, n |-> Len(p), payload |-> p] :
        tag \in {"task", "tuple"}, p \in UNION {[1 .. n -> 0 .. MaxComponent + 1] : n \in 1 .. MaxWords}}

Scalars ==
    {F!Arg("int", "1"), F!Arg("text", "a"), F!Arg("symbol", "a"), F!Arg("symbol", "Bad")}
    \cup {F!Arg("real", r) : r \in F!Reals}
Leaves == {F!Form(h, as) : h \in {"lit", "group", "Bad"}, as \in UpTo(1, Scalars)}
Forms ==
    Leaves \cup
    {F!Form(h, as) : h \in {"lit", "group"},
        as \in UpTo(2, {F!Sub(f) : f \in {F!Form("lit", <<a>>) : a \in Scalars} \cup {F!Form("group", << >>)}}
                       \cup {F!Arg("real", F!Zero), F!Arg("real", F!NegativeZero)})}

Con(name, type, opaque, fields) ==
    [tag |-> "con", name |-> name, type |-> type, opaque |-> opaque, fields |-> fields]
SmallValues ==
    {[tag |-> "int", datum |-> "1"], [tag |-> "text", datum |-> "a"], [tag |-> "closure", is |-> 1]}
    \cup {[tag |-> "secret", is |-> i] : i \in {1, 2}} \cup {[tag |-> "task", is |-> i] : i \in {1, 2}}
    \cup {Con("key", "token", TRUE, << >>), Con("pin", "token", TRUE, << >>), Con("no", "option", FALSE, << >>)}
    \cup {[tag |-> "constructor", name |-> "key", type |-> "token", opaque |-> TRUE],
          [tag |-> "constructor", name |-> "some", type |-> "option", opaque |-> FALSE]}
Values ==
    SmallValues
    \cup {[tag |-> "tuple", fields |-> <<v, w>>] : v, w \in SmallValues}
    \cup {Con("some", "option", FALSE, <<v>>) : v \in SmallValues}
    \cup {Con("key", "token", TRUE, <<v>>) : v \in SmallValues}
    \cup {[tag |-> "code", datum |-> f] : f \in {g \in Leaves : ~F!Crashes(F!Inline(g))}}

----------------------------------------------------------------------------
NoInput == << >>
MCInit ==
    /\ Init
    /\ \/ part = "weighting" /\ input = NoInput
       \/ part = "waiting" /\ input = [t \in W!Task |-> NoTask]
       \/ part = "drawing" /\ input \in {d \in Distributions : Drawable(d)}
       \/ part = "decoding" /\ input \in UpTo(4, Utf8Bytes)
       \/ part = "splitting" /\ input \in UpTo(5, PlainBytes)
       \/ part = "numerals" /\ input \in UpTo(4, NumberBytes) \cup NamedNumbers
       \/ part = "integers" /\ input \in Int63
       \/ part = "handles" /\ input \in Paths
       \/ part = "blocks" /\ input \in Blocks
       \/ part = "forms" /\ input \in Forms
       \/ part = "values" /\ input \in Values

Weighing(A) == part = "weighting" /\ A /\ UNCHANGED <<part, input>>
\* async.await adds one edge; here nothing removes one, so every graph is met.
AddEdge(w, t) ==
    /\ part = "waiting" /\ input[w] = NoTask
    /\ input' = [input EXCEPT ![w] = t] /\ UNCHANGED <<vars, part>>

MCNext ==
    \/ \E kind \in Kinds, n \in 0 .. MaxSamples : Weighing(Start(kind, n))
    \/ \E massless \in BOOLEAN : Weighing(Sample(massless))
    \/ \E p \in Masses : Weighing(Observe(p))
    \/ \E key \in Keys : Weighing(Return(key))
    \/ \E kind \in PlainKinds : Weighing(Fail(kind))
    \/ \E w, t \in W!Task : AddEdge(w, t)
MCSpec == MCInit /\ [][MCNext]_mcVars

----------------------------------------------------------------------------
(* Properties.                                                             *)

\* detect_wait_cycle is sound and complete: the source's walk returns a cycle
\* of the wait graph whenever there is one, and nothing otherwise.
WalkIsExact == part = "waiting" => W!DetectorIsExact(input)

\* The inference drivers: a run's weight comes from its own factors, the two
\* drivers agree on what they conclude from the same runs, a failure is
\* reported as the interpreter reports it, and draws follow the masses.
SamplingAgrees ==
    /\ part = "weighting" => RunsAreIndependent /\ DriversAgree /\ ReportsAgree
    /\ part = "drawing" => D!DrawsFollowMass(input)

\* The text intrinsics: malformed UTF-8 is cut as the decoder's definition
\* cuts it, splitting loses nothing, order is by code point, and exactly the
\* numerals in range are read.
TextAgrees ==
    /\ part = "decoding" =>
           T!CodePointsAreRight(input) /\ \A t \in Samples : T!OrderIsByCodePoint(input, t)
    /\ part = "splitting" =>
           \A sep \in Separators : T!PiecesAreRight(input, sep)
    /\ part = "numerals" => T!NumbersAreRight(input)

\* Machine words: tagged integers wrap, fail and compare as the interpreter's,
\* and a task handle is accepted in its own run and scope only.
WordsAgree ==
    /\ part = "integers" => \A y \in Int63 : IntsAreInterpreted(input, y)
    /\ part = "handles" =>
           \A r, r2 \in Runs, p2 \in Paths \cup {TooLong} :
               HandleIsScoped(r, input, MaxComponent, r2, p2) /\ HandleIsScoped(r, p2, 0, r2, input)
    /\ part = "blocks" => \A r \in Runs, p \in Paths : OnlyCreatedAreValid(input, r, p)

\* Code and its renderings: a diff is exact, equal renderings are equal code
\* up to the sign of a zero, forms come apart as they were built, and a
\* display hides exactly what it should.
FormsAgree ==
    /\ part = "forms" => F!FormsComeApart(input) /\ \A g \in Forms : F!DiffIsExact(input, g)
    /\ part = "values" => \A w \in Values : F!DisplayHidesExactly(input, w)
=============================================================================
