--------------------------- MODULE Distributions ---------------------------
(***************************************************************************)
(* Distribution values in the native runtime (src/runtime/jq_intrinsics.c: *)
(* check_dist, support_of, pmf, draw_dist).  A real p is a natural number  *)
(* of parts of One; a uniform random number is u parts of Grid; a value    *)
(* stands for its rendering, which is what pmf compares.                   *)
(***************************************************************************)
EXTENDS Integers, Sequences, FiniteSets, SequencesExt

CONSTANTS
    One,   \* 1.0 in parts
    Grid,  \* the parts of [0, 1) a random number may be
    MaxOutcomes \* 10000: the longest uniform range whose support is listed

Bernoulli(p) == [con |-> "bernoulli", p |-> p]
Categorical(entries) == [con |-> "categorical", entries |-> entries]
UniformInt(lo, hi) == [con |-> "uniform-int", lo |-> lo, hi |-> hi]
Entry(x, p) == [x |-> x, p |-> p]

\* check_dist: what is wrong with the parameters, if anything is.
CheckDist(d) ==
    CASE d.con = "bernoulli" /\ d.p \notin 0 .. One -> "not in [0, 1]"
      [] d.con = "uniform-int" /\ d.hi < d.lo -> "empty range"
      [] OTHER -> "ok"

Outcomes(d) == d.hi - d.lo + 1
\* The parts of 1.0 the masses of d are given in.
Unit(d) == IF d.con = "uniform-int" THEN Outcomes(d) ELSE One

\* support_of: the outcomes with their masses, in the order they are tried.
SupportOf(d) ==
    CASE d.con = "bernoulli" -> <<Entry(TRUE, d.p), Entry(FALSE, One - d.p)>>
      [] d.con = "categorical" -> d.entries
      [] OTHER -> [i \in 1 .. Outcomes(d) |-> Entry(d.lo + i - 1, 1)]
\* The support of a long range is refused, and only the support.
CanList(d) == d.con # "uniform-int" \/ Outcomes(d) <= MaxOutcomes

MassBefore(entries, i) == FoldLeft(LAMBDA n, e : n + e.p, 0, SubSeq(entries, 1, i - 1))
TotalMass(entries) == MassBefore(entries, Len(entries) + 1)
\* pmf: a range by its bounds, anything else by adding up its entries.
Pmf(d, v) ==
    IF d.con = "uniform-int" THEN IF v \in d.lo .. d.hi THEN 1 ELSE 0
    ELSE TotalMass(SelectSeq(SupportOf(d), LAMBDA e : e.x = v))

\* The first entry whose cumulated mass exceeds the scaled random number.
DrawnEntry(entries, u) ==
    LET scale == IF TotalMass(entries) > 0 THEN TotalMass(entries) ELSE One
    IN {i \in DOMAIN entries : /\ u * scale < Grid * MassBefore(entries, i + 1)
                               /\ \A j \in 1 .. i - 1 : u * scale >= Grid * MassBefore(entries, j + 1)}
\* draw_dist: a range is drawn from without listing it; past the end of a
\* support the last entry is taken, and unit from an empty one.
DrawDist(d, u) ==
    IF d.con = "uniform-int" THEN d.lo + (u * Outcomes(d)) \div Grid
    ELSE LET entries == SupportOf(d)
             at == DrawnEntry(entries, u)
         IN IF at # {} THEN entries[CHOOSE i \in at : TRUE].x
            ELSE IF entries # << >> THEN Last(entries).x ELSE "unit"

----------------------------------------------------------------------------
\* Every outcome is drawn by its share of the random numbers and no other
\* value ever is, whatever the order, repetition and scale of the entries;
\* the masses of an outcome are added up the same whether it is drawn or
\* observed, and a range weighs what its listed support weighs.
DrawsFollowMass(d) ==
    CheckDist(d) = "ok" =>
        LET total == IF d.con = "uniform-int" THEN Outcomes(d) ELSE TotalMass(SupportOf(d))
            values == {e.x : e \in Range(SupportOf(d))}
            times(v) == Cardinality({u \in 0 .. Grid - 1 : DrawDist(d, u) = v})
        IN /\ total > 0 => \A v \in values : times(v) * total = Grid * Pmf(d, v)
           /\ total = 0 /\ values # {} => times(Last(SupportOf(d)).x) = Grid
           /\ values = {} => times("unit") = Grid
           /\ \A v \in values : Pmf(d, v) = TotalMass(SelectSeq(SupportOf(d), LAMBDA e : e.x = v))
=============================================================================
