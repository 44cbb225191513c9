------------------------ MODULE NativeControlProofs ------------------------
(***************************************************************************)
(* Proofs about NativeEffects, for every set of handlers, every bound and  *)
(* every program: the handler stack, the frame stack, the inference driver *)
(* and the frames' owners agree with the C stack (StacksAgree).  For       *)
(* handlers whose clauses do not see each other (Separate), the search     *)
(* finds the interpreter's handler (SearchAgrees), and every step is a     *)
(* step of EvalContinuation or none (Refinement).                          *)
(*                                                                         *)
(* The inductive invariant, StacksInv, says level by level what the C      *)
(* stack stands for: which entries each activation installed or hid, which *)
(* frame of ks is its own, which inference run its state is of; and who    *)
(* holds every frame of the heap.  The second one, KontInv, gives each     *)
(* level a view: the interpreter's continuation there and the entries its  *)
(* handlers have on hs.                                                    *)
(***************************************************************************)
EXTENDS NativeEffects, FiniteSetTheorems, SequenceTheorems, WellFoundedInduction, TLAPS

----------------------------------------------------------------------------
(* Induction, stated with sets.                                            *)

Smaller == {p \in Nat \X Nat : p[1] < p[2]}

\* A set of numbers has a least.
LEMMA LeastOf ==
  ASSUME NEW T, T \subseteq Nat, T # {}
  PROVE  \E n \in T : \A m \in T : n <= m
<1>1. IsWellFoundedOn(Smaller, Nat)
  BY NatLessThanWellFounded DEF OpToRel, Smaller
<1>2. PICK n \in T : \A m \in T : ~(<<m, n>> \in Smaller)
  BY <1>1, WFMin
<1>3. ASSUME NEW m \in T, m < n PROVE FALSE
  BY <1>2, <1>3 DEF Smaller
<1> QED
  BY <1>2, <1>3

\* What holds at 0 and is kept by each step up to n holds up to n.
LEMMA UpwardSteps ==
  ASSUME NEW n \in Nat, NEW G, 0 \in G,
         \A i \in 0 .. n : i < n /\ i \in G => i + 1 \in G
  PROVE  \A i \in 0 .. n : i \in G
<1> DEFINE T == {i \in 0 .. n : i \notin G}
<1> SUFFICES ASSUME T # {} PROVE FALSE
  OBVIOUS
<1>0. T \subseteq Nat /\ T \subseteq 0 .. n /\ \A i \in 0 .. n : i \in G \/ i \in T
  OBVIOUS
<1>4. \A i \in T : i \notin G
  OBVIOUS
<1> HIDE DEF T
<1>1. PICK k \in T : \A m \in T : k <= m
  BY <1>0, LeastOf
<1>2. k # 0 /\ k - 1 \in 0 .. n /\ k - 1 < n /\ (k - 1) + 1 = k
  BY <1>0, <1>1, <1>4
<1>3. k - 1 \in G
  BY <1>0, <1>1, <1>2
<1> QED
  BY <1>1, <1>2, <1>3, <1>4

----------------------------------------------------------------------------
(* Counting.                                                               *)

UpTo(T, n) == Cardinality({i \in 1 .. n : i \in T})

\* How many members of T are in 1 .. n, one number at a time.
LEMMA UpToStep ==
  ASSUME NEW T, NEW n \in Nat
  PROVE  /\ UpTo(T, n) \in Nat
         /\ UpTo(T, 0) = 0
         /\ UpTo(T, n + 1) = UpTo(T, n) + (IF n + 1 \in T THEN 1 ELSE 0)
<1> DEFINE Below == {i \in 1 .. n : i \in T}
           B == {i \in 1 .. n + 1 : i \in T}
<1>1. IsFiniteSet(Below)
  <2>1. IsFiniteSet(1 .. n) /\ Below \in SUBSET (1 .. n)
    BY FS_Interval
  <2> QED
    BY <2>1, FS_Subset
<1>2. UpTo(T, n) \in Nat
  BY <1>1, FS_CardinalityType DEF UpTo
<1>3. UpTo(T, 0) = 0
  <2>1. {i \in 1 .. 0 : i \in T} = {}
    OBVIOUS
  <2> QED
    BY <2>1, FS_EmptySet DEF UpTo
<1>4. CASE n + 1 \in T
  <2>1. B = Below \cup {n + 1} /\ n + 1 \notin Below
    BY <1>4
  <2>2. Cardinality(B) = Cardinality(Below) + 1
    BY <1>1, <2>1, FS_AddElement
  <2> QED
    BY <1>2, <1>3, <1>4, <2>2 DEF UpTo
<1>5. CASE n + 1 \notin T
  <2>1. B = Below
    BY <1>5
  <2> QED
    BY <1>2, <1>3, <1>5, <2>1 DEF UpTo
<1> QED
  BY <1>4, <1>5

\* The count grows with every member of T it reaches.
LEMMA UpToMonotone ==
  ASSUME NEW T, NEW m \in Nat, NEW n \in Nat, m <= n
  PROVE  /\ UpTo(T, m) <= UpTo(T, n)
         /\ n \in T /\ m < n => UpTo(T, m) < UpTo(T, n)
<1> DEFINE Below(k) == {i \in 1 .. k : i \in T}
<1>1. ASSUME NEW k \in Nat, m <= k PROVE UpTo(T, m) <= UpTo(T, k)
  <2>1. IsFiniteSet(1 .. k) /\ Below(k) \in SUBSET (1 .. k)
    BY FS_Interval
  <2>2. IsFiniteSet(Below(k)) /\ Below(m) \in SUBSET Below(k)
    BY <1>1, <2>1, FS_Subset
  <2>3. Cardinality(Below(m)) <= Cardinality(Below(k))
    BY <2>2, FS_Subset
  <2> QED
    BY <2>3 DEF UpTo
<1>2. ASSUME n \in T, m < n PROVE UpTo(T, m) < UpTo(T, n)
  <2>1. n - 1 \in Nat /\ m <= n - 1 /\ (n - 1) + 1 = n
    BY <1>2
  <2>2. UpTo(T, (n - 1) + 1) = UpTo(T, n - 1) + 1 /\ UpTo(T, n - 1) \in Nat /\ UpTo(T, m) \in Nat
    BY <1>2, <2>1, UpToStep
  <2>3. UpTo(T, m) <= UpTo(T, n - 1)
    BY <1>1, <2>1
  <2> QED
    BY <2>1, <2>2, <2>3
<1> QED
  BY <1>1, <1>2

\* The frames of the first activations, one activation after the other.
LEMMA FramesStep ==
  ASSUME NEW s, NEW n \in Nat
  PROVE  /\ FramesUpTo(s, n) \in Nat
         /\ FramesUpTo(s, 0) = 0
         /\ FramesUpTo(s, n + 1) = FramesUpTo(s, n) + (IF OnKs(s[n + 1]) THEN 1 ELSE 0)
<1> DEFINE T == {i \in 1 .. n + 1 : OnKs(s[i])}
<1>1. ASSUME NEW k \in 0 .. n + 1 PROVE FramesUpTo(s, k) = UpTo(T, k)
  <2>1. {i \in 1 .. k : OnKs(s[i])} = {i \in 1 .. k : i \in T}
    BY <1>1
  <2> QED
    BY <2>1 DEF FramesUpTo, UpTo
<1>2. n + 1 \in T <=> OnKs(s[n + 1])
  OBVIOUS
<1> HIDE DEF T
<1> QED
  BY <1>1, <1>2, UpToStep

\* An activation with a frame has more frames up to it than any below it.
LEMMA FramesMonotone ==
  ASSUME NEW s, NEW m \in Nat, NEW n \in Nat, m <= n
  PROVE  /\ FramesUpTo(s, m) <= FramesUpTo(s, n)
         /\ m < n /\ OnKs(s[n]) => FramesUpTo(s, m) < FramesUpTo(s, n)
<1> DEFINE T == {i \in 1 .. n : OnKs(s[i])}
<1>1. ASSUME NEW k \in 0 .. n PROVE FramesUpTo(s, k) = UpTo(T, k)
  <2>1. {i \in 1 .. k : OnKs(s[i])} = {i \in 1 .. k : i \in T}
    BY <1>1
  <2> QED
    BY <2>1 DEF FramesUpTo, UpTo
<1>2. m < n => (n \in T <=> OnKs(s[n]))
  OBVIOUS
<1> HIDE DEF T
<1> QED
  BY <1>1, <1>2, UpToMonotone

\* The count of frames depends only on which activations have one.
LEMMA FramesSame ==
  ASSUME NEW s, NEW t, NEW n \in Nat, \A i \in 1 .. n : OnKs(s[i]) <=> OnKs(t[i])
  PROVE  FramesUpTo(s, n) = FramesUpTo(t, n)
<1>1. {i \in 1 .. n : OnKs(s[i])} = {i \in 1 .. n : OnKs(t[i])}
  OBVIOUS
<1> QED
  BY <1>1 DEF FramesUpTo

\* The inference runs among the first activations.
RunsUpTo(s, n) == Cardinality({i \in 1 .. n : s[i].t = "lw"})

\* The count of inference runs, one activation at a time.
LEMMA RunsStep ==
  ASSUME NEW s, NEW n \in Nat
  PROVE  /\ RunsUpTo(s, n) \in Nat
         /\ RunsUpTo(s, 0) = 0
         /\ RunsUpTo(s, n + 1) = RunsUpTo(s, n) + (IF s[n + 1].t = "lw" THEN 1 ELSE 0)
<1> DEFINE T == {i \in 1 .. n + 1 : s[i].t = "lw"}
<1>1. ASSUME NEW k \in 0 .. n + 1 PROVE RunsUpTo(s, k) = UpTo(T, k)
  <2>1. {i \in 1 .. k : s[i].t = "lw"} = {i \in 1 .. k : i \in T}
    BY <1>1
  <2> QED
    BY <2>1 DEF RunsUpTo, UpTo
<1>2. n + 1 \in T <=> s[n + 1].t = "lw"
  OBVIOUS
<1> HIDE DEF T
<1> QED
  BY <1>1, <1>2, UpToStep

\* It depends only on which activations are runs.
LEMMA RunsSame ==
  ASSUME NEW s, NEW t, NEW n \in Nat, \A i \in 1 .. n : (s[i].t = "lw") <=> (t[i].t = "lw")
  PROVE  RunsUpTo(s, n) = RunsUpTo(t, n)
<1>1. {i \in 1 .. n : s[i].t = "lw"} = {i \in 1 .. n : t[i].t = "lw"}
  OBVIOUS
<1> QED
  BY <1>1 DEF RunsUpTo

----------------------------------------------------------------------------
(* Sequences put together.                                                 *)

\* The sequences of a sequence put together, one after the other.
Joins(f, ss) == f[0] = << >> /\ \A i \in 1 .. Len(ss) : f[i] = f[i - 1] \o ss[i]

\* A computation of n steps over a set has a value at every step.
Proceeds(f, n, base, step) == f[0] = base /\ \A i \in 1 .. n : f[i] = step[i][f[i - 1]]

\* A computation of n steps from base exists.
LEMMA StepsExist ==
  ASSUME NEW n \in Nat, NEW S, NEW base \in S, NEW step \in [1 .. n -> [S -> S]]
  PROVE  \E f \in [0 .. n -> S] : Proceeds(f, n, base, step)
<1> DEFINE Some(k) == {f \in [0 .. k -> S] : f[0] = base /\ \A i \in 1 .. k : f[i] = step[i][f[i - 1]]}
           G == {k \in 0 .. n : Some(k) # {}}
<1>1. 0 \in G
  <2>1. [i \in 0 .. 0 |-> base] \in Some(0)
    OBVIOUS
  <2> QED
    BY <2>1
<1>2. ASSUME NEW k \in 0 .. n, k < n, k \in G PROVE k + 1 \in G
  <2>1. PICK f \in [0 .. k -> S] : f[0] = base /\ \A i \in 1 .. k : f[i] = step[i][f[i - 1]]
    BY <1>2
  <2> DEFINE h == [i \in 0 .. (k + 1) |-> IF i <= k THEN f[i] ELSE step[k + 1][f[k]]]
  <2>2. k + 1 \in 1 .. n /\ f[k] \in S /\ step[k + 1][f[k]] \in S
    BY <1>2
  <2>3. h \in [0 .. (k + 1) -> S] /\ h[0] = base
    BY <2>1, <2>2
  <2>4. ASSUME NEW i \in 1 .. (k + 1) PROVE h[i] = step[i][h[i - 1]]
    <3>1. CASE i <= k
      <4>1. h[i] = f[i] /\ h[i - 1] = f[i - 1] /\ i \in 1 .. k
        BY <3>1
      <4> QED
        BY <4>1, <2>1
    <3>2. CASE i = k + 1
      BY <3>2
    <3> QED
      BY <3>1, <3>2
  <2>5. h \in Some(k + 1)
    BY <2>3, <2>4
  <2>6. k + 1 \in 0 .. n
    BY <1>2
  <2> HIDE DEF Some, h
  <2> QED
    BY <2>5, <2>6
<1> HIDE DEF G
<1>3. \A i \in 0 .. n : i \in G
  BY <1>1, <1>2, UpwardSteps
<1>4. n \in G
  BY <1>3
<1> QED
  BY <1>4 DEF G, Proceeds

\* The joins of every prefix of ss exist.
LEMMA JoinsExist ==
  ASSUME NEW V, NEW ss \in Seq(Seq(V))
  PROVE  \E f \in [0 .. Len(ss) -> Seq(V)] : Joins(f, ss)
<1>1. PICK n : n = Len(ss)
  OBVIOUS
<1>2. n \in Nat /\ \A i \in 1 .. n : ss[i] \in Seq(V)
  BY <1>1
<1>3. PICK S : S = Seq(V)
  OBVIOUS
<1> DEFINE step == [i \in 1 .. n |-> [x \in S |-> x \o ss[i]]]
<1>4. \A i \in 1 .. n : \A x \in S : x \o ss[i] \in S
  BY <1>2, <1>3
<1>5. step \in [1 .. n -> [S -> S]]
  BY ONLY <1>4
<1>6. \A i \in 1 .. n : \A x \in S : step[i][x] = x \o ss[i]
  OBVIOUS
<1>7. PICK base : base = << >>
  OBVIOUS
<1>8. base \in S
  BY <1>3, <1>7
<1> HIDE DEF step
<1>9. n \in Nat
  BY <1>2
<1>a. PICK f \in [0 .. n -> S] : Proceeds(f, n, base, step)
  BY ONLY <1>5, <1>8, <1>9, StepsExist
<1>10. f[0] = base /\ \A i \in 1 .. n : f[i] = step[i][f[i - 1]]
  BY ONLY <1>a DEF Proceeds
<1>11. \A i \in 1 .. n : f[i - 1] \in S
  BY ONLY <1>9, <1>a
<1>12. \A i \in 1 .. n : f[i] = f[i - 1] \o ss[i]
  BY ONLY <1>6, <1>10, <1>11
<1>13. Joins(f, ss)
  BY ONLY <1>1, <1>7, <1>10, <1>12 DEF Joins
<1>14. f \in [0 .. Len(ss) -> Seq(V)]
  BY ONLY <1>1, <1>3, <1>a
<1> QED
  BY ONLY <1>13, <1>14

\* FlattenSeq is the last of them.
LEMMA FlattenIs ==
  ASSUME NEW V, NEW ss \in Seq(Seq(V)), NEW f \in [0 .. Len(ss) -> Seq(V)], Joins(f, ss)
  PROVE  FlattenSeq(ss) = f[Len(ss)]
<1>0. PICK n : n = Len(ss)
  OBVIOUS
<1>a. n \in Nat /\ \A i \in 1 .. n : ss[i] \in Seq(V)
  BY <1>0
<1>b. f[0] = << >> /\ \A i \in 1 .. n : f[i] = f[i - 1] \o ss[i]
  BY ONLY <1>0, Joins(f, ss) DEF Joins
<1>c. \A i \in 0 .. n : f[i] \in Seq(V)
  BY ONLY <1>0, f \in [0 .. Len(ss) -> Seq(V)]
<1>1. CASE n = 0
  <2>1. ss = << >>
    <3>1. PICK S : S = Seq(V)
      OBVIOUS
    <3>2. ss \in Seq(S)
      BY ONLY <3>1, ss \in Seq(Seq(V))
    <3> QED
      BY ONLY <1>0, <1>1, <3>2, EmptySeq
  <2>2. FlattenSeq(ss) = ss
    BY <1>0, <1>1 DEF FlattenSeq
  <2>3. f[n] = << >>
    BY ONLY <1>1, <1>b
  <2> QED
    BY ONLY <1>0, <2>1, <2>2, <2>3
<1>2. CASE n # 0
  <2> DEFINE step(x) == [i \in 1 .. n |-> IF i = 1 THEN ss[i] ELSE x[i - 1] \o ss[i]]
             F == CHOOSE x : x = step(x)
  <2>c. f[1] = ss[1]
    <3>0. 1 \in 1 .. n /\ 1 - 1 = 0
      BY ONLY <1>2, <1>a
    <3>1. f[1] = << >> \o ss[1] /\ ss[1] \in Seq(V)
      BY ONLY <3>0, <1>a, <1>b
    <3> QED
      BY ONLY <3>1, ConcatEmptySeq
  <2>2. F = step(F)
    <3>1. PICK g : g = [i \in 1 .. n |-> f[i]]
      OBVIOUS
    <3>2. ASSUME NEW i \in 1 .. n PROVE g[i] = (IF i = 1 THEN ss[i] ELSE g[i - 1] \o ss[i])
      <4>1. CASE i = 1
        BY <2>c, <3>1, <4>1
      <4>2. CASE i # 1
        <5>1. i - 1 \in 1 .. n
          BY <1>a, <4>2
        <5>2. g[i] = f[i] /\ g[i - 1] = f[i - 1] /\ f[i] = f[i - 1] \o ss[i]
          BY <1>b, <3>1, <5>1
        <5> QED
          BY <4>2, <5>2
      <4> QED
        BY <4>1, <4>2
    <3>3. g = step(g)
      BY <3>1, <3>2
    <3> QED
      BY <3>3
  <2>3. FlattenSeq(ss) = F[n]
    BY <1>0, <1>2 DEF FlattenSeq
  <2> HIDE DEF F
  <2>4. \A i \in 1 .. n : F[i] = (IF i = 1 THEN ss[i] ELSE F[i - 1] \o ss[i])
    BY <2>2
  <2> DEFINE G == {i \in 0 .. n : i = 0 \/ F[i] = f[i]}
  <2>5. 0 \in G
    BY <1>a
  <2>6. ASSUME NEW i \in 0 .. n, i < n, i \in G PROVE i + 1 \in G
    <3>1. i + 1 \in 1 .. n /\ (i + 1) - 1 = i /\ i + 1 \in 0 .. n
      BY <1>a, <2>6
    <3>2. f[i + 1] = f[i] \o ss[i + 1]
      BY <1>b, <3>1
    <3>3. CASE i = 0
      <4>1. F[i + 1] = f[i + 1]
        BY <2>4, <2>c, <3>1, <3>3
      <4> QED
        BY <3>1, <4>1
    <3>4. CASE i # 0
      <4>0. F[i] = f[i]
        BY <2>6, <3>4
      <4>1. i + 1 # 1
        BY <3>4, <2>6
      <4>2. F[i + 1] = F[(i + 1) - 1] \o ss[i + 1]
        BY ONLY <2>4, <3>1, <4>1
      <4>3. F[i + 1] = f[i + 1]
        BY ONLY <3>1, <3>2, <4>0, <4>2
      <4> QED
        BY <3>1, <4>3
    <3> QED
      BY <3>3, <3>4
  <2> HIDE DEF G
  <2>7. \A i \in 0 .. n : i \in G
    BY <1>a, <2>5, <2>6, UpwardSteps
  <2>8. F[n] = f[n]
    BY <1>a, <1>2, <2>7 DEF G
  <2> QED
    BY <1>0, <2>3, <2>8
<1> QED
  BY <1>1, <1>2

----------------------------------------------------------------------------
(* Handler entries.                                                        *)

Entry == [op : Ops, kind : {"tail", "capturing"}, once : BOOLEAN, hf : Frames]

\* The capturing clauses of two stretches of the handler stack.
LEMMA CapturingSplit ==
  ASSUME NEW x \in Seq(Entry), NEW y \in Seq(Entry)
  PROVE  /\ CapturingIn(x) \in Nat /\ CapturingIn(y) \in Nat
         /\ CapturingIn(x \o y) = CapturingIn(x) + CapturingIn(y)
<1> DEFINE W == {i \in DOMAIN x : x[i].kind = "capturing"}
           B == {i \in DOMAIN y : y[i].kind = "capturing"}
           C == {i \in 1 .. Len(x) + Len(y) : i > Len(x) /\ i - Len(x) \in B}
           e == [i \in B |-> Len(x) + i]
<1>1. Len(x) \in Nat /\ Len(y) \in Nat /\ W \in SUBSET (1 .. Len(x)) /\ B \in SUBSET (1 .. Len(y))
  OBVIOUS
<1>2. IsFiniteSet(W) /\ IsFiniteSet(B)
  <2>1. IsFiniteSet(1 .. Len(x)) /\ IsFiniteSet(1 .. Len(y))
    BY <1>1, FS_Interval
  <2> QED
    BY <1>1, <2>1, FS_Subset
<1>3. {i \in DOMAIN (x \o y) : (x \o y)[i].kind = "capturing"} = W \cup C
  <2> DEFINE D == {i \in DOMAIN (x \o y) : (x \o y)[i].kind = "capturing"}
  <2>0. DOMAIN (x \o y) = 1 .. Len(x) + Len(y) /\ DOMAIN x = 1 .. Len(x) /\ DOMAIN y = 1 .. Len(y)
    OBVIOUS
  <2>1. ASSUME NEW i \in 1 .. Len(x) + Len(y) PROVE i \in D <=> i \in W \cup C
    <3>1. CASE i <= Len(x)
      <4>1. (x \o y)[i] = x[i] /\ i \in 1 .. Len(x)
        BY <1>1, <3>1
      <4> QED
        BY <1>1, <2>0, <3>1, <4>1
    <3>2. CASE i > Len(x)
      <4>1. (x \o y)[i] = y[i - Len(x)] /\ i - Len(x) \in 1 .. Len(y) /\ i \notin 1 .. Len(x)
        BY <1>1, <3>2
      <4> QED
        BY <1>1, <2>0, <3>2, <4>1
    <3> QED
      BY <1>1, <3>1, <3>2
  <2>2. D \subseteq 1 .. Len(x) + Len(y) /\ W \cup C \subseteq 1 .. Len(x) + Len(y)
    BY <1>1, <2>0
  <2> HIDE DEF W, C, D
  <2>3. D = W \cup C
    BY <2>1, <2>2
  <2> QED
    BY <2>3 DEF D
<1>4. e \in Bijection(B, C)
  <2>1. e \in [B -> C]
    BY <1>1
  <2>2. \A i, j \in B : e[i] = e[j] => i = j
    BY <1>1
  <2>3. ASSUME NEW c \in C PROVE \E i \in B : e[i] = c
    <3>1. c - Len(x) \in B /\ e[c - Len(x)] = c
      BY <1>1
    <3> QED
      BY <3>1
  <2> HIDE DEF B, C, e
  <2> QED
    BY <2>1, <2>2, <2>3 DEF Bijection, Injection, Surjection, IsInjective
<1>5. W \cap C = {}
  BY <1>1
<1> HIDE DEF W, B, C, e
<1>6. IsFiniteSet(C) /\ Cardinality(C) = Cardinality(B)
  BY <1>2, <1>4, FS_Bijection DEF ExistsBijection
<1>7. Cardinality(W \cup C) = Cardinality(W) + Cardinality(C)
  <2>1. Cardinality(W \cap C) = 0
    BY <1>5, FS_EmptySet
  <2>2. Cardinality(W) \in Nat /\ Cardinality(C) \in Nat
    BY <1>2, <1>6, FS_CardinalityType
  <2>3. Cardinality(W \cup C) = Cardinality(W) + Cardinality(C) - Cardinality(W \cap C)
    BY <1>2, <1>6, FS_Union
  <2> QED
    BY <2>1, <2>2, <2>3
<1>8. Cardinality(W) \in Nat /\ Cardinality(B) \in Nat
  BY <1>2, FS_CardinalityType
<1> QED
  BY <1>3, <1>6, <1>7, <1>8 DEF CapturingIn, W, B

\* Nothing installed, nothing capturing.
LEMMA CapturingNone == CapturingIn(<< >>) = 0
<1>1. {i \in DOMAIN << >> : << >>[i].kind = "capturing"} = {}
  OBVIOUS
<1> QED
  BY <1>1, FS_EmptySet DEF CapturingIn

\* The entries of a handler.
LEMMA EntriesAre ==
  ASSUME NEW h \in DOMAIN Handlers, NEW f \in Frames
  PROVE  /\ EntriesOf(h, f) \in Seq(Entry) /\ Len(EntriesOf(h, f)) = Len(Handlers[h])
         /\ \A i \in DOMAIN EntriesOf(h, f) : EntriesOf(h, f)[i].hf = f
<1>1. Handlers[h] \in Seq(Clauses)
  BY HandlersAssumption
<1>2. PICK s : s = Handlers[h]
  OBVIOUS
<1>3. s \in Seq(Clauses) /\ Len(s) \in Nat /\ DOMAIN s = 1 .. Len(s)
  BY <1>1, <1>2
<1>4. ASSUME NEW i \in 1 .. Len(s)
      PROVE  [op |-> s[i].op, kind |-> s[i].kind, once |-> s[i].once, hf |-> f] \in Entry
  <2>1. PICK c : c = s[i]
    OBVIOUS
  <2>2. c \in Clauses
    BY <1>3, <2>1
  <2>3. [op |-> c.op, kind |-> c.kind, once |-> c.once, hf |-> f] \in Entry
    BY ONLY <2>2, f \in Frames DEF Entry, Clauses
  <2> QED
    BY <2>1, <2>3
<1> DEFINE e == [i \in 1 .. Len(s) |-> [op |-> s[i].op, kind |-> s[i].kind, once |-> s[i].once, hf |-> f]]
<1>5. EntriesOf(h, f) = e
  BY <1>2, <1>3 DEF EntriesOf
<1>6. e \in Seq(Entry) /\ Len(e) = Len(s)
  BY <1>3, <1>4
<1> QED
  BY <1>2, <1>3, <1>5, <1>6

----------------------------------------------------------------------------
(* The handler stack level by level: h[i] are the entries installed, and   *)
(* z[i] the capturing ones hidden, when the first i activations of the C   *)
(* stack S are left.                                                       *)

Installed(c, H) == IF c.t = "handle" THEN EntriesOf(H[c.fr].h, c.fr) ELSE << >>
Plain(c, H) ==
  /\ c.t \notin {"perform", "lw"}
  /\ c.t = "handle" => c.fr \in Frames /\ H[c.fr].h \in DOMAIN Handlers

\* What an activation does to the entries, from the level below it.
LevelStep(c, H, x, y, p, q) ==
  \/ c.t = "perform" /\ c.saved \in Seq(Entry) /\ x = y \o c.saved /\ q = p + CapturingIn(c.saved)
  \/ c.t = "lw" /\ y = x /\ q = p
  \/ Plain(c, H) /\ y = x \o Installed(c, H) /\ q = p

\* x entries are below the innermost inference run of the first n activations.
FloorIs(S, h, n, x) ==
  \/ x = 0 /\ \A m \in 1 .. n : S[m].t # "lw"
  \/ \E m \in 1 .. n : S[m].t = "lw" /\ x = Len(h[m - 1]) /\ \A j \in m + 1 .. n : S[j].t # "lw"

\* Activation s installed the entry at p of level i, and it is outside of
\* exactly the runs that found the entry there.
SiteIs(S, h, i, p, s) ==
  /\ S[s].t = "handle" /\ S[s].fr = h[i][p].hf
  /\ \A m \in 1 .. i : S[m].t = "lw" => (p <= Len(h[m - 1]) <=> s < m)

Levels(S, H, h, z) ==
  /\ h[0] = << >> /\ z[0] = 0
  /\ \A i \in 0 .. Len(S) : h[i] \in Seq(Entry) /\ z[i] \in Nat
  /\ \A i \in 1 .. Len(S) : LevelStep(S[i], H, h[i - 1], h[i], z[i - 1], z[i])
  /\ \A m \in 1 .. Len(S) : S[m].t = "lw" => FloorIs(S, h, m - 1, S[m].floor)
  /\ \A m \in 1 .. Len(S) : \A i \in m .. Len(S) : S[m].t = "lw" => Len(h[m - 1]) <= Len(h[i])
  /\ \A i \in 0 .. Len(S) : \A p \in 1 .. Len(h[i]) : \E s \in 1 .. i : SiteIs(S, h, i, p, s)

\* The floor of the first n activations is that of any stack they begin.
LEMMA FloorSame ==
  ASSUME NEW S, NEW T, NEW h, NEW g, NEW n \in Nat, NEW x,
         \A i \in 1 .. n : T[i] = S[i], \A i \in 0 .. n : g[i] = h[i], FloorIs(S, h, n, x)
  PROVE  FloorIs(T, g, n, x)
<1>1. CASE x = 0 /\ \A m \in 1 .. n : S[m].t # "lw"
  BY <1>1 DEF FloorIs
<1>2. ASSUME NEW m \in 1 .. n, S[m].t = "lw", x = Len(h[m - 1]), \A j \in m + 1 .. n : S[j].t # "lw"
      PROVE  FloorIs(T, g, n, x)
  <2>1. m - 1 \in 0 .. n /\ g[m - 1] = h[m - 1] /\ T[m] = S[m] /\ \A j \in m + 1 .. n : T[j] = S[j]
    OBVIOUS
  <2> QED
    BY <1>2, <2>1 DEF FloorIs
<1> QED
  BY <1>1, <1>2 DEF FloorIs

\* It stays when an activation comes or goes that is no run.
LEMMA FloorRaised ==
  ASSUME NEW S, NEW T, NEW h, NEW g, NEW n \in Nat, NEW x, \A i \in 1 .. n : T[i] = S[i],
         \A i \in 0 .. n : g[i] = h[i], FloorIs(S, h, n, x), T[n + 1].t # "lw"
  PROVE  FloorIs(T, g, n + 1, x)
<1>1. FloorIs(T, g, n, x)
  BY FloorSame
<1>2. CASE x = 0 /\ \A m \in 1 .. n : T[m].t # "lw"
  <2>1. \A m \in 1 .. n + 1 : T[m].t # "lw"
    BY <1>2
  <2> QED
    BY <1>2, <2>1 DEF FloorIs
<1>3. ASSUME NEW m \in 1 .. n, T[m].t = "lw", x = Len(g[m - 1]), \A j \in m + 1 .. n : T[j].t # "lw"
      PROVE  FloorIs(T, g, n + 1, x)
  <2>1. m \in 1 .. n + 1 /\ \A j \in m + 1 .. n + 1 : T[j].t # "lw"
    BY <1>3
  <2> QED
    BY <1>3, <2>1 DEF FloorIs
<1> QED
  BY <1>1, <1>2, <1>3 DEF FloorIs

\* It stays when an activation that is no run is left.
LEMMA FloorLowered ==
  ASSUME NEW S, NEW T, NEW h, NEW n \in Nat, NEW x, \A i \in 1 .. n : T[i] = S[i],
         FloorIs(S, h, n + 1, x), S[n + 1].t # "lw"
  PROVE  FloorIs(T, h, n, x)
<1>1. CASE x = 0 /\ \A m \in 1 .. n + 1 : S[m].t # "lw"
  <2>1. \A m \in 1 .. n : T[m].t # "lw"
    BY <1>1
  <2> QED
    BY <1>1, <2>1 DEF FloorIs
<1>2. ASSUME NEW m \in 1 .. n + 1, S[m].t = "lw", x = Len(h[m - 1]), \A j \in m + 1 .. n + 1 : S[j].t # "lw"
      PROVE  FloorIs(T, h, n, x)
  <2>1. m \in 1 .. n
    BY <1>2
  <2>2. T[m].t = "lw" /\ \A j \in m + 1 .. n : T[j].t # "lw"
    BY <1>2, <2>1
  <2> QED
    BY <1>2, <2>1, <2>2 DEF FloorIs
<1> QED
  BY <1>1, <1>2 DEF FloorIs

\* The site of an entry is that of any stack that agrees on the levels below.
LEMMA SiteSame ==
  ASSUME NEW S, NEW T, NEW h, NEW g, NEW n \in Nat, NEW i \in 0 .. n, NEW p, NEW s \in 1 .. n,
         \A j \in 1 .. n : T[j] = S[j], \A j \in 0 .. n : g[j] = h[j], SiteIs(S, h, i, p, s)
  PROVE  SiteIs(T, g, i, p, s)
<1>1. \A m \in 1 .. i : T[m] = S[m] /\ g[m - 1] = h[m - 1]
  OBVIOUS
<1> QED
  BY <1>1 DEF SiteIs

\* One activation more.
Raised(S, T, H, h, z, g, w, n) ==
  /\ n \in Nat /\ Len(S) = n /\ Len(T) = n + 1
  /\ \A i \in 1 .. n : T[i] = S[i]
  /\ \A i \in 0 .. n : g[i] = h[i] /\ w[i] = z[i]
  /\ g[n + 1] \in Seq(Entry) /\ w[n + 1] \in Nat
  /\ LevelStep(T[n + 1], H, g[n], g[n + 1], w[n], w[n + 1])
  /\ T[n + 1].t = "lw" => FloorIs(S, h, n, T[n + 1].floor) /\ Len(g[n]) <= Len(g[n + 1])
  /\ \A m \in 1 .. n : S[m].t = "lw" => Len(h[m - 1]) <= Len(g[n + 1])
  /\ \A p \in 1 .. Len(g[n + 1]) : \E s \in 1 .. n + 1 : SiteIs(T, g, n + 1, p, s)

\* The levels of a stack with one activation more.
LEMMA LevelsPush ==
  ASSUME NEW S, NEW T, NEW H, NEW h, NEW z, NEW g, NEW w, NEW n,
         Levels(S, H, h, z), Raised(S, T, H, h, z, g, w, n)
  PROVE  Levels(T, H, g, w)
<1> USE DEF Raised
<1>n. n \in Nat /\ Len(S) = n /\ Len(T) = n + 1
  OBVIOUS
<1>1. g[0] = << >> /\ w[0] = 0
  BY DEF Levels
<1>0. (\A i \in 0 .. n : g[i] = h[i]) /\ \A i \in 0 .. n : w[i] = z[i]
  OBVIOUS
<1>2. ASSUME NEW i \in 0 .. n + 1 PROVE g[i] \in Seq(Entry) /\ w[i] \in Nat
  <2>1. CASE i = n + 1
    BY <2>1
  <2>2. CASE i \in 0 .. n
    <3>1. h[i] \in Seq(Entry) /\ z[i] \in Nat
      BY <2>2 DEF Levels
    <3> QED
      BY ONLY <1>0, <2>2, <3>1
  <2> QED
    BY <2>1, <2>2
<1>3. ASSUME NEW i \in 1 .. n + 1 PROVE LevelStep(T[i], H, g[i - 1], g[i], w[i - 1], w[i])
  <2>1. CASE i <= n
    <3>1. i \in 1 .. n /\ i - 1 \in 0 .. n /\ i \in 0 .. n
      BY <2>1
    <3>2. LevelStep(S[i], H, h[i - 1], h[i], z[i - 1], z[i])
      BY <3>1 DEF Levels
    <3>3. T[i] = S[i] /\ g[i - 1] = h[i - 1] /\ g[i] = h[i] /\ w[i - 1] = z[i - 1] /\ w[i] = z[i]
      BY <3>1
    <3> QED
      BY ONLY <3>2, <3>3
  <2>2. CASE i = n + 1
    BY <2>2
  <2> QED
    BY <2>1, <2>2
<1>4. ASSUME NEW m \in 1 .. n + 1, T[m].t = "lw" PROVE FloorIs(T, g, m - 1, T[m].floor)
  <2>1. CASE m <= n
    <3>1. m \in 1 .. n /\ T[m] = S[m]
      BY <2>1
    <3>2. FloorIs(S, h, m - 1, S[m].floor)
      BY <1>4, <3>1 DEF Levels
    <3>3. m - 1 \in Nat /\ (\A i \in 1 .. m - 1 : T[i] = S[i]) /\ \A i \in 0 .. m - 1 : g[i] = h[i]
      BY <3>1
    <3> QED
      BY <3>1, <3>2, <3>3, FloorSame
  <2>2. CASE m = n + 1
    <3>1. FloorIs(S, h, n, T[m].floor)
      BY <1>4, <2>2
    <3>2. FloorIs(T, g, n, T[m].floor)
      BY <3>1, FloorSame
    <3> QED
      BY <2>2, <3>2
  <2> QED
    BY <2>1, <2>2
<1>5. ASSUME NEW m \in 1 .. n + 1, NEW i \in m .. n + 1, T[m].t = "lw" PROVE Len(g[m - 1]) <= Len(g[i])
  <2>1. CASE i <= n
    <3>0. m \in 1 .. n /\ m - 1 \in 0 .. n /\ i \in 0 .. n /\ i \in m .. n
      BY <2>1
    <3>1. m \in 1 .. n /\ i \in m .. n /\ T[m] = S[m] /\ g[m - 1] = h[m - 1] /\ g[i] = h[i]
      BY <1>0, <3>0
    <3> QED
      BY <1>5, <3>1 DEF Levels
  <2>2. CASE i = n + 1 /\ m <= n
    <3>1. m \in 1 .. n /\ T[m] = S[m] /\ g[m - 1] = h[m - 1]
      BY <2>2
    <3> QED
      BY <1>5, <2>2, <3>1
  <2>3. CASE m = n + 1
    BY <1>5, <2>3
  <2> QED
    BY <2>1, <2>2, <2>3
<1>6. ASSUME NEW i \in 0 .. n + 1, NEW p \in 1 .. Len(g[i]) PROVE \E s \in 1 .. i : SiteIs(T, g, i, p, s)
  <2>1. CASE i <= n
    <3>1. i \in 0 .. n /\ g[i] = h[i]
      BY <2>1
    <3>2. PICK s \in 1 .. i : SiteIs(S, h, i, p, s)
      BY <3>1 DEF Levels
    <3>3. s \in 1 .. n
      BY <3>1
    <3>4. SiteIs(T, g, i, p, s)
      <4>1. i \in 0 .. n /\ \A j \in 1 .. n : T[j] = S[j]
        BY <3>1
      <4> QED
        <5>1. \A m \in 1 .. i : T[m] = S[m] /\ g[m - 1] = h[m - 1]
          BY ONLY <1>n, <1>0, <4>1
        <5>2. T[s] = S[s] /\ g[i] = h[i]
          BY ONLY <1>0, <3>3, <4>1
        <5> QED
          BY ONLY <3>2, <5>1, <5>2 DEF SiteIs
    <3> QED
      BY <3>4
  <2>2. CASE i = n + 1
    BY <2>2
  <2> QED
    BY <2>1, <2>2
<1> QED
  BY <1>1, <1>2, <1>3, <1>4, <1>5, <1>6 DEF Levels

\* One activation less.
LEMMA LevelsPop ==
  ASSUME NEW S, NEW T, NEW H, NEW h, NEW z, NEW n \in Nat, Len(S) = n + 1, Len(T) = n,
         \A i \in 1 .. n : T[i] = S[i], Levels(S, H, h, z)
  PROVE  Levels(T, H, h, z)
<1>1. h[0] = << >> /\ z[0] = 0 /\ \A i \in 0 .. n : h[i] \in Seq(Entry) /\ z[i] \in Nat
  BY DEF Levels
<1>2. \A i \in 1 .. n : LevelStep(T[i], H, h[i - 1], h[i], z[i - 1], z[i])
  BY DEF Levels
<1>3. ASSUME NEW m \in 1 .. n, T[m].t = "lw" PROVE FloorIs(T, h, m - 1, T[m].floor)
  <2>1. FloorIs(S, h, m - 1, S[m].floor) /\ T[m] = S[m] /\ m - 1 \in Nat /\ \A i \in 1 .. m - 1 : T[i] = S[i]
    BY <1>3 DEF Levels
  <2> QED
    BY <2>1, FloorSame
<1>4. \A m \in 1 .. n : \A i \in m .. n : T[m].t = "lw" => Len(h[m - 1]) <= Len(h[i])
  BY DEF Levels
<1>5. ASSUME NEW i \in 0 .. n, NEW p \in 1 .. Len(h[i]) PROVE \E s \in 1 .. i : SiteIs(T, h, i, p, s)
  <2>1. PICK s \in 1 .. i : SiteIs(S, h, i, p, s)
    BY DEF Levels
  <2>2. s \in 1 .. n
    OBVIOUS
  <2>3. SiteIs(T, h, i, p, s)
    BY <2>1, <2>2, SiteSame
  <2> QED
    BY <2>3
<1> QED
  BY <1>1, <1>2, <1>3, <1>4, <1>5 DEF Levels

\* The levels read the heap only at the handle sites.
LEMMA LevelsHeap ==
  ASSUME NEW S, NEW H, NEW I, NEW h, NEW z, Len(S) \in Nat, Levels(S, H, h, z),
         \A i \in 1 .. Len(S) : S[i].t = "handle" => I[S[i].fr] = H[S[i].fr]
  PROVE  Levels(S, I, h, z)
<1>1. ASSUME NEW i \in 1 .. Len(S) PROVE LevelStep(S[i], I, h[i - 1], h[i], z[i - 1], z[i])
  <2>1. LevelStep(S[i], H, h[i - 1], h[i], z[i - 1], z[i])
    BY DEF Levels
  <2> QED
    BY <2>1 DEF LevelStep, Plain, Installed
<1> QED
  BY <1>1 DEF Levels

\* The floor is the greatest number of entries a run has found.
FloorCounts(S, h, n, x) ==
  \A p \in Nat \ {0} : p <= x <=> \E m \in 1 .. n : S[m].t = "lw" /\ p <= Len(h[m - 1])

\* The floor is within the entries, and counts those below the innermost run.
LEMMA FloorBounds ==
  ASSUME NEW S, NEW H, NEW h, NEW z, NEW n \in Nat, Len(S) = n, Levels(S, H, h, z),
         NEW x, FloorIs(S, h, n, x)
  PROVE  /\ x \in 0 .. Len(h[n])
         /\ \A m \in 1 .. n : S[m].t = "lw" => Len(h[m - 1]) <= x
         /\ FloorCounts(S, h, n, x)
<1> USE DEF FloorCounts
<1>0. \A i \in 0 .. n : Len(h[i]) \in Nat
  BY DEF Levels
<1>1. CASE x = 0 /\ \A m \in 1 .. n : S[m].t # "lw"
  <2>1. Len(h[n]) \in Nat
    BY <1>0
  <2> QED
    BY <1>1, <2>1
<1>2. ASSUME NEW m \in 1 .. n, S[m].t = "lw", x = Len(h[m - 1]), \A j \in m + 1 .. n : S[j].t # "lw"
      PROVE  /\ x \in 0 .. Len(h[n])
             /\ \A j \in 1 .. n : S[j].t = "lw" => Len(h[j - 1]) <= x
             /\ \A p \in Nat \ {0} : p <= x <=> \E j \in 1 .. n : S[j].t = "lw" /\ p <= Len(h[j - 1])
  <2>1. x \in Nat /\ Len(h[n]) \in Nat
    BY <1>0, <1>2
  <2>2. x <= Len(h[n])
    BY <1>2 DEF Levels
  <2>3. ASSUME NEW j \in 1 .. n, S[j].t = "lw" PROVE Len(h[j - 1]) <= x
    <3>1. j <= m
      BY <1>2, <2>3
    <3>2. CASE j = m
      BY <1>2, <2>1, <3>2
    <3>3. CASE j < m
      <4>1. m - 1 \in j .. n
        BY <3>3
      <4> QED
        BY <1>2, <2>3, <4>1 DEF Levels
    <3> QED
      BY <3>1, <3>2, <3>3
  <2>4. ASSUME NEW p \in Nat \ {0}, NEW j \in 1 .. n, S[j].t = "lw", p <= Len(h[j - 1]) PROVE p <= x
    <3>1. Len(h[j - 1]) \in Nat /\ Len(h[j - 1]) <= x
      BY <1>0, <2>3, <2>4
    <3> QED
      BY <2>1, <2>4, <3>1
  <2> QED
    BY <1>2, <2>1, <2>2, <2>3, <2>4
<1> QED
  BY <1>1, <1>2 DEF FloorIs

Context == [t : {"act"}, fr : FrameIds, a : Labels] \cup [t : {"handle", "enter", "rerun"}, fr : Frames]
           \cup [t : {"perform"}, hf : Frames, saved : Seq(Entry)] \cup [t : {"lw"}, floor : Nat, lw : Nat]

\* What the handler stack x, the capture depth c and the search floor f have
\* to do with the C stack.
HsIs(S, H, x, c, f) ==
  \E h, z : /\ Levels(S, H, h, z)
            /\ x = h[Len(S)] /\ c = CapturingIn(x) + z[Len(S)] /\ FloorIs(S, h, Len(S), f)

\* The entries, the depth and the floor have their types.
LEMMA HsTyped ==
  ASSUME NEW S \in Seq(Context), NEW H, NEW x, NEW c, NEW f, HsIs(S, H, x, c, f)
  PROVE  x \in Seq(Entry) /\ c \in Nat /\ f \in 0 .. Len(x)
<1>1. PICK h, z : Levels(S, H, h, z) /\ x = h[Len(S)] /\ c = CapturingIn(x) + z[Len(S)] /\ FloorIs(S, h, Len(S), f)
  BY DEF HsIs
<1>2. Len(S) \in Nat
  OBVIOUS
<1>3. x \in Seq(Entry) /\ z[Len(S)] \in Nat
  BY <1>1, <1>2 DEF Levels
<1>4. CapturingIn(x) \in Nat
  BY <1>3, CapturingSplit
<1>5. f \in 0 .. Len(x)
  BY <1>1, <1>2, FloorBounds
<1> QED
  BY <1>1, <1>3, <1>4, <1>5

\* Every entry has its handler on the C stack, and the entries below the
\* floor are those whose handler some run is inside of.
LEMMA HsSites ==
  ASSUME NEW S \in Seq(Context), NEW H, NEW x, NEW c, NEW f, HsIs(S, H, x, c, f), NEW p \in 1 .. Len(x)
  PROVE  \E s \in 1 .. Len(S) : /\ S[s].t = "handle" /\ S[s].fr = x[p].hf
                                /\ p <= f <=> \E m \in 1 .. Len(S) : S[m].t = "lw" /\ s < m
<1>1. PICK h, z : Levels(S, H, h, z) /\ x = h[Len(S)] /\ FloorIs(S, h, Len(S), f)
  BY DEF HsIs
<1>2. PICK n : n = Len(S)
  OBVIOUS
<1>3. n \in Nat /\ Len(x) \in Nat
  BY <1>2, HsTyped
<1>4. PICK s \in 1 .. n : SiteIs(S, h, n, p, s)
  BY <1>1, <1>2, <1>3 DEF Levels
<1>5. p <= f <=> \E m \in 1 .. n : S[m].t = "lw" /\ p <= Len(h[m - 1])
  <2>1. n \in Nat /\ Len(S) = n /\ Levels(S, H, h, z) /\ FloorIs(S, h, n, f)
    BY <1>1, <1>2, <1>3
  <2>2. FloorCounts(S, h, n, f)
    BY ONLY <2>1, FloorBounds
  <2>3. p \in Nat \ {0}
    OBVIOUS
  <2> QED
    BY ONLY <2>2, <2>3 DEF FloorCounts
<1>6. \A m \in 1 .. n : S[m].t = "lw" => (p <= Len(h[m - 1]) <=> s < m)
  BY <1>4 DEF SiteIs
<1>7. S[s].t = "handle" /\ S[s].fr = x[p].hf
  BY <1>1, <1>2, <1>4 DEF SiteIs
<1> QED
  BY <1>2, <1>5, <1>6, <1>7

\* Only the frames of the handle sites matter.
LEMMA HsHeap ==
  ASSUME NEW S \in Seq(Context), NEW H, NEW I, NEW x, NEW c, NEW f, HsIs(S, H, x, c, f),
         \A i \in 1 .. Len(S) : S[i].t = "handle" => I[S[i].fr] = H[S[i].fr]
  PROVE  HsIs(S, I, x, c, f)
<1>1. PICK h, z : Levels(S, H, h, z) /\ x = h[Len(S)] /\ c = CapturingIn(x) + z[Len(S)] /\ FloorIs(S, h, Len(S), f)
  BY DEF HsIs
<1>2. Len(S) \in Nat
  OBVIOUS
<1>3. Levels(S, I, h, z)
  BY <1>1, <1>2, LevelsHeap
<1> QED
  BY <1>1, <1>3 DEF HsIs

\* An activation that hides nothing and starts no run goes on the stack.
LEMMA HsPushPlain ==
  ASSUME NEW S \in Seq(Context), NEW H, NEW x, NEW c, NEW f, HsIs(S, H, x, c, f),
         NEW d \in Context, Plain(d, H), NEW T, T = Append(S, d)
  PROVE  /\ Installed(d, H) \in Seq(Entry)
         /\ HsIs(T, H, x \o Installed(d, H), c + CapturingIn(Installed(d, H)), f)
<1>1. PICK h, z : Levels(S, H, h, z) /\ x = h[Len(S)] /\ c = CapturingIn(x) + z[Len(S)] /\ FloorIs(S, h, Len(S), f)
  BY DEF HsIs
<1>2. PICK n : n = Len(S)
  OBVIOUS
<1>3. n \in Nat /\ Len(T) = n + 1 /\ T[n + 1] = d /\ \A i \in 1 .. n : T[i] = S[i]
  BY <1>2
<1>4. PICK e : e = Installed(d, H)
  OBVIOUS
<1>5. e \in Seq(Entry) /\ \A i \in 1 .. Len(e) : d.t = "handle" /\ e[i].hf = d.fr
  <2>1. CASE d.t = "handle"
    <3>1. e = EntriesOf(H[d.fr].h, d.fr) /\ d.fr \in Frames /\ H[d.fr].h \in DOMAIN Handlers
      BY <1>4, <2>1 DEF Installed, Plain
    <3> QED
      BY <2>1, <3>1, EntriesAre
  <2>2. CASE d.t # "handle"
    BY <1>4, <2>2 DEF Installed
  <2> QED
    BY <2>1, <2>2
<1>6. PICK y : y = x \o e
  OBVIOUS
<1>7. /\ x \in Seq(Entry) /\ y \in Seq(Entry) /\ Len(y) = Len(x) + Len(e) /\ Len(x) \in Nat /\ Len(e) \in Nat
      /\ \A p \in 1 .. Len(x) : y[p] = x[p]
      /\ \A p \in Len(x) + 1 .. Len(x) + Len(e) : y[p] = e[p - Len(x)] /\ p - Len(x) \in 1 .. Len(e)
  BY <1>5, <1>6, HsTyped
<1> DEFINE g == [i \in 0 .. n + 1 |-> IF i <= n THEN h[i] ELSE y]
           w == [i \in 0 .. n + 1 |-> IF i <= n THEN z[i] ELSE z[n]]
<1>8. /\ \A i \in 0 .. n : g[i] = h[i] /\ w[i] = z[i]
      /\ g[n + 1] = y /\ w[n + 1] = z[n] /\ g[n] = x /\ w[n] = z[n] /\ z[n] \in Nat
  BY <1>1, <1>2, <1>3 DEF Levels
<1> HIDE DEF g, w
<1>9. LevelStep(T[n + 1], H, g[n], g[n + 1], w[n], w[n + 1])
  BY <1>3, <1>4, <1>6, <1>8 DEF LevelStep
<1>10. T[n + 1].t # "lw"
  BY <1>3 DEF Plain
<1>11. FloorIs(S, h, n, f)
  BY <1>1, <1>2
<1>12. ASSUME NEW m \in 1 .. n, S[m].t = "lw" PROVE Len(h[m - 1]) <= Len(x) /\ Len(h[m - 1]) \in Nat
  <2>1. Len(h[m - 1]) <= Len(h[n]) /\ h[m - 1] \in Seq(Entry)
    BY <1>1, <1>2, <1>12 DEF Levels
  <2> QED
    BY <1>1, <1>2, <2>1
<1>13. \A m \in 1 .. n : S[m].t = "lw" => Len(h[m - 1]) <= Len(g[n + 1])
  BY <1>7, <1>8, <1>12
<1>14. ASSUME NEW p \in 1 .. Len(g[n + 1]) PROVE \E s \in 1 .. n + 1 : SiteIs(T, g, n + 1, p, s)
  <2>1. CASE p <= Len(x)
    <3>1. p \in 1 .. Len(h[n]) /\ y[p] = x[p] /\ h[n] = x
      BY <1>1, <1>2, <1>7, <1>8, <2>1
    <3>2. PICK s \in 1 .. n : SiteIs(S, h, n, p, s)
      BY <1>1, <1>2, <1>3, <3>1, SMTT(30) DEF Levels
    <3>3. T[s].t = "handle" /\ T[s].fr = g[n + 1][p].hf
      BY <1>3, <1>8, <3>1, <3>2 DEF SiteIs
    <3>4. ASSUME NEW m \in 1 .. n + 1, T[m].t = "lw" PROVE p <= Len(g[m - 1]) <=> s < m
      <4>1. m \in 1 .. n /\ T[m] = S[m] /\ g[m - 1] = h[m - 1]
        BY <1>3, <1>8, <1>10, <3>4
      <4> QED
        BY <3>2, <3>4, <4>1 DEF SiteIs
    <3>5. SiteIs(T, g, n + 1, p, s)
      BY <3>3, <3>4 DEF SiteIs
    <3> QED
      BY <1>3, <3>5
  <2>2. CASE p > Len(x)
    <3>1. T[n + 1].t = "handle" /\ T[n + 1].fr = g[n + 1][p].hf
      <4>1. p \in Len(x) + 1 .. Len(x) + Len(e)
        BY <1>7, <1>8, <2>2
      <4> QED
        BY <1>3, <1>5, <1>7, <1>8, <4>1
    <3>2. ASSUME NEW m \in 1 .. n + 1, T[m].t = "lw" PROVE ~(p <= Len(g[m - 1])) /\ ~(n + 1 < m)
      <4>1. m \in 1 .. n /\ T[m] = S[m] /\ g[m - 1] = h[m - 1]
        BY <1>3, <1>8, <1>10, <3>2
      <4>2. Len(h[m - 1]) <= Len(x) /\ Len(h[m - 1]) \in Nat
        BY <1>12, <3>2, <4>1
      <4> QED
        BY <1>3, <1>7, <2>2, <4>1, <4>2
    <3>3. SiteIs(T, g, n + 1, p, n + 1)
      BY <3>1, <3>2 DEF SiteIs
    <3> QED
      BY <1>3, <3>3
  <2>3. p \in Nat
    OBVIOUS
  <2> QED
    BY <1>7, <2>1, <2>2, <2>3
<1>15. Levels(T, H, g, w)
  <2>1. /\ n \in Nat /\ Len(S) = n /\ Len(T) = n + 1
        /\ (\A i \in 1 .. n : T[i] = S[i]) /\ \A i \in 0 .. n : g[i] = h[i] /\ w[i] = z[i]
    BY <1>1, <1>2, <1>3, <1>8
  <2>2. /\ g[n + 1] \in Seq(Entry) /\ w[n + 1] \in Nat
        /\ T[n + 1].t = "lw" => FloorIs(S, h, n, T[n + 1].floor) /\ Len(g[n]) <= Len(g[n + 1])
    BY <1>7, <1>8, <1>10
  <2>3. Raised(S, T, H, h, z, g, w, n)
    BY ONLY <1>9, <1>13, <1>14, <2>1, <2>2 DEF Raised
  <2> QED
    BY <1>1, <2>3, LevelsPush
<1>16. FloorIs(T, g, n + 1, f)
  BY <1>3, <1>8, <1>10, <1>11, FloorRaised
<1>17. c + CapturingIn(e) = CapturingIn(y) + w[Len(T)]
  <2>1. CapturingIn(y) = CapturingIn(x) + CapturingIn(e) /\ CapturingIn(x) \in Nat /\ CapturingIn(e) \in Nat
    BY <1>5, <1>6, <1>7, CapturingSplit
  <2> QED
    BY <1>1, <1>2, <1>3, <1>8, <2>1
<1>18. y = g[Len(T)] /\ FloorIs(T, g, Len(T), f)
  BY <1>3, <1>8, <1>16
<1>19. HsIs(T, H, y, c + CapturingIn(e), f)
  BY <1>15, <1>17, <1>18 DEF HsIs
<1> QED
  BY <1>4, <1>5, <1>6, <1>19

\* A sequence cut in two.
LEMMA SplitAt ==
  ASSUME NEW V, NEW x \in Seq(V), NEW k \in 1 .. Len(x) + 1
  PROVE  /\ SubSeq(x, 1, k - 1) \in Seq(V) /\ SubSeq(x, k, Len(x)) \in Seq(V)
         /\ SubSeq(x, 1, k - 1) \o SubSeq(x, k, Len(x)) = x
         /\ Len(SubSeq(x, 1, k - 1)) = k - 1 /\ Len(SubSeq(x, k, Len(x))) = Len(x) - (k - 1)
         /\ \A p \in 1 .. k - 1 : SubSeq(x, 1, k - 1)[p] = x[p] /\ p \in 1 .. Len(x)
         /\ \A p \in 1 .. Len(x) - (k - 1) : /\ SubSeq(x, k, Len(x))[p] = x[k - 1 + p]
                                             /\ k - 1 + p \in 1 .. Len(x)
<1>1. Len(x) \in Nat /\ k \in Nat /\ k - 1 \in 0 .. Len(x) /\ k - 1 \in Int /\ k \in Int /\ Len(x) \in Int
  BY LenProperties
<1>2. \A i \in 1 .. Len(x) : x[i] \in V
  BY ElementOfSeq
<1>3. /\ SubSeq(x, 1, k - 1) \in Seq(V) /\ Len(SubSeq(x, 1, k - 1)) = k - 1
      /\ \A p \in 1 .. k - 1 : SubSeq(x, 1, k - 1)[p] = x[p] /\ p \in 1 .. Len(x)
  <2>1. \A i \in 1 .. k - 1 : x[i] \in V /\ i \in 1 .. Len(x)
    BY ONLY <1>1, <1>2
  <2>2. /\ SubSeq(x, 1, k - 1) \in Seq(V)
        /\ Len(SubSeq(x, 1, k - 1)) = IF 1 <= k - 1 THEN (k - 1) - 1 + 1 ELSE 0
        /\ \A i \in 1 .. (k - 1) - 1 + 1 : SubSeq(x, 1, k - 1)[i] = x[1 + i - 1]
    BY ONLY <1>1, <2>1, SubSeqProperties
  <2>3. (IF 1 <= k - 1 THEN (k - 1) - 1 + 1 ELSE 0) = k - 1 /\ (k - 1) - 1 + 1 = k - 1
    BY ONLY <1>1
  <2>4. \A i \in 1 .. k - 1 : 1 + i - 1 = i
    BY ONLY <1>1
  <2> QED
    BY ONLY <2>1, <2>2, <2>3, <2>4
<1>4. /\ SubSeq(x, k, Len(x)) \in Seq(V) /\ Len(SubSeq(x, k, Len(x))) = Len(x) - (k - 1)
      /\ \A p \in 1 .. Len(x) - (k - 1) : SubSeq(x, k, Len(x))[p] = x[k - 1 + p] /\ k - 1 + p \in 1 .. Len(x)
  <2>1. \A i \in k .. Len(x) : x[i] \in V
    BY ONLY <1>1, <1>2
  <2>2. /\ SubSeq(x, k, Len(x)) \in Seq(V)
        /\ Len(SubSeq(x, k, Len(x))) = IF k <= Len(x) THEN Len(x) - k + 1 ELSE 0
        /\ \A i \in 1 .. Len(x) - k + 1 : SubSeq(x, k, Len(x))[i] = x[k + i - 1]
    BY ONLY <1>1, <2>1, SubSeqProperties
  <2>3. (IF k <= Len(x) THEN Len(x) - k + 1 ELSE 0) = Len(x) - (k - 1) /\ Len(x) - k + 1 = Len(x) - (k - 1)
    BY ONLY <1>1, k \in 1 .. Len(x) + 1
  <2>4. \A i \in 1 .. Len(x) - (k - 1) : k + i - 1 = k - 1 + i /\ k - 1 + i \in 1 .. Len(x)
    BY ONLY <1>1
  <2> QED
    BY ONLY <2>2, <2>3, <2>4
<1>5. SubSeq(x, 1, k - 1) \o SubSeq(x, k, Len(x)) = x
  <2>1. 1 \in 1 .. Len(x) + 1 /\ k - 1 \in 1 - 1 .. Len(x) /\ Len(x) \in k - 1 .. Len(x) /\ (k - 1) + 1 = k
    BY <1>1
  <2>2. SubSeq(x, 1, k - 1) \o SubSeq(x, (k - 1) + 1, Len(x)) = SubSeq(x, 1, Len(x))
    BY ONLY <2>1, x \in Seq(V), ConcatAdjacentSubSeq
  <2>3. SubSeq(x, 1, Len(x)) = x
    BY ONLY x \in Seq(V), SubSeqFull
  <2> QED
    BY <2>1, <2>2, <2>3
<1> QED
  BY <1>3, <1>4, <1>5

\* An inference run starts: every entry is below its floor.
LEMMA HsPushRun ==
  ASSUME NEW S \in Seq(Context), NEW H, NEW x, NEW c, NEW f, HsIs(S, H, x, c, f),
         NEW d \in Context, d.t = "lw", d.floor = f, NEW T, T = Append(S, d)
  PROVE  HsIs(T, H, x, c, Len(x))
<1>1. PICK h, z : Levels(S, H, h, z) /\ x = h[Len(S)] /\ c = CapturingIn(x) + z[Len(S)] /\ FloorIs(S, h, Len(S), f)
  BY DEF HsIs
<1>2. PICK n : n = Len(S)
  OBVIOUS
<1>3. n \in Nat /\ Len(S) = n /\ Len(T) = n + 1 /\ T[n + 1] = d /\ \A i \in 1 .. n : T[i] = S[i]
  BY <1>2
<1> DEFINE g == [i \in 0 .. n + 1 |-> IF i <= n THEN h[i] ELSE x]
           w == [i \in 0 .. n + 1 |-> IF i <= n THEN z[i] ELSE z[n]]
<1>4. /\ \A i \in 0 .. n : g[i] = h[i] /\ w[i] = z[i]
      /\ g[n + 1] = x /\ w[n + 1] = z[n] /\ g[n] = x /\ w[n] = z[n]
      /\ x \in Seq(Entry) /\ z[n] \in Nat /\ h[n] = x /\ Len(x) \in Nat
  <2>1. x \in Seq(Entry) /\ Len(x) \in Nat
    BY HsTyped
  <2>2. h[n] = x /\ z[n] \in Nat
    <3>1. n \in 0 .. Len(S)
      BY <1>3
    <3> QED
      BY <1>1, <1>2, <3>1 DEF Levels
  <2>3. n + 1 \in 0 .. n + 1 /\ ~(n + 1 <= n) /\ n \in 0 .. n + 1 /\ n <= n
    BY <1>3
  <2>4. g[n + 1] = x /\ w[n + 1] = z[n] /\ g[n] = h[n] /\ w[n] = z[n]
    BY ONLY <2>3
  <2>5. \A i \in 0 .. n : g[i] = h[i] /\ w[i] = z[i]
    BY ONLY <1>3
  <2> QED
    BY ONLY <2>1, <2>2, <2>4, <2>5
<1> HIDE DEF g, w
<1>5. LevelStep(T[n + 1], H, g[n], g[n + 1], w[n], w[n + 1])
  <2>1. T[n + 1].t = "lw"
    BY <1>3
  <2> QED
    BY ONLY <1>4, <2>1 DEF LevelStep
<1>6. T[n + 1].t = "lw" => FloorIs(S, h, n, T[n + 1].floor) /\ Len(g[n]) <= Len(g[n + 1])
  BY <1>1, <1>2, <1>3, <1>4
<1>7. \A m \in 1 .. n : S[m].t = "lw" => Len(h[m - 1]) <= Len(g[n + 1])
  <2>1. \A m \in 1 .. n : S[m].t = "lw" => Len(h[m - 1]) <= Len(h[n])
    BY <1>1, <1>3 DEF Levels
  <2> QED
    BY ONLY <1>4, <2>1
<1>8. ASSUME NEW p \in 1 .. Len(g[n + 1]) PROVE \E s \in 1 .. n + 1 : SiteIs(T, g, n + 1, p, s)
  <2>1. PICK s \in 1 .. n : SiteIs(S, h, n, p, s)
    BY <1>1, <1>3, <1>4 DEF Levels
  <2>2. T[s].t = "handle" /\ T[s].fr = g[n + 1][p].hf
    BY <1>3, <1>4, <2>1 DEF SiteIs
  <2>3. ASSUME NEW m \in 1 .. n + 1, T[m].t = "lw" PROVE p <= Len(g[m - 1]) <=> s < m
    <3>1. CASE m \in 1 .. n
      <4>1. T[m] = S[m] /\ g[m - 1] = h[m - 1]
        BY <1>3, <1>4, <3>1
      <4> QED
        BY <2>1, <2>3, <3>1, <4>1 DEF SiteIs
    <3>2. CASE m = n + 1
      BY <1>3, <1>4, <3>2
    <3> QED
      BY <1>3, <3>1, <3>2
  <2>4. SiteIs(T, g, n + 1, p, s)
    BY <2>2, <2>3 DEF SiteIs
  <2> QED
    BY <1>3, <2>4
<1>9. Raised(S, T, H, h, z, g, w, n)
  BY <1>3, <1>4, <1>5, <1>6, <1>7, <1>8 DEF Raised
<1>10. Levels(T, H, g, w)
  BY <1>1, <1>9, LevelsPush
<1>11. FloorIs(T, g, n + 1, Len(x))
  <2>1. n + 1 \in 1 .. n + 1 /\ T[n + 1].t = "lw" /\ Len(x) = Len(g[(n + 1) - 1]) /\ \A j \in n + 1 + 1 .. n + 1 : T[j].t # "lw"
    BY <1>3, <1>4
  <2> QED
    BY <2>1 DEF FloorIs
<1>12. x = g[Len(T)] /\ c = CapturingIn(x) + w[Len(T)] /\ FloorIs(T, g, Len(T), Len(x))
  BY <1>1, <1>2, <1>3, <1>4, <1>11
<1> QED
  BY <1>10, <1>12 DEF HsIs

\* A tail clause is called: the entries from the match at k up are hidden.
LEMMA HsPushPerform ==
  ASSUME NEW S \in Seq(Context), NEW H, NEW x, NEW c, NEW f, HsIs(S, H, x, c, f),
         NEW k \in f + 1 .. Len(x), NEW d \in Context, d.t = "perform", d.saved = SubSeq(x, k, Len(x)),
         NEW T, T = Append(S, d)
  PROVE  d.saved \in Seq(Entry) /\ HsIs(T, H, SubSeq(x, 1, k - 1), c, f)
<1>1. PICK h, z : Levels(S, H, h, z) /\ x = h[Len(S)] /\ c = CapturingIn(x) + z[Len(S)] /\ FloorIs(S, h, Len(S), f)
  BY DEF HsIs
<1>2. PICK n : n = Len(S)
  OBVIOUS
<1>3. n \in Nat /\ Len(S) = n /\ Len(T) = n + 1 /\ T[n + 1] = d /\ \A i \in 1 .. n : T[i] = S[i]
  BY <1>2
<1>4. x \in Seq(Entry) /\ f \in 0 .. Len(x) /\ Len(x) \in Nat
  BY HsTyped
<1>5. PICK y, u : y = SubSeq(x, 1, k - 1) /\ u = SubSeq(x, k, Len(x))
  OBVIOUS
<1>6. /\ y \in Seq(Entry) /\ u \in Seq(Entry) /\ x = y \o u /\ Len(y) = k - 1
      /\ \A p \in 1 .. Len(y) : y[p] = x[p] /\ p \in 1 .. Len(x)
  <2>1. k \in 1 .. Len(x) + 1
    BY <1>4
  <2>2. /\ SubSeq(x, 1, k - 1) \in Seq(Entry) /\ SubSeq(x, k, Len(x)) \in Seq(Entry)
        /\ SubSeq(x, 1, k - 1) \o SubSeq(x, k, Len(x)) = x /\ Len(SubSeq(x, 1, k - 1)) = k - 1
        /\ \A p \in 1 .. k - 1 : SubSeq(x, 1, k - 1)[p] = x[p] /\ p \in 1 .. Len(x)
    BY ONLY <1>4, <2>1, SplitAt
  <2> QED
    BY ONLY <1>5, <2>2
<1>7. /\ CapturingIn(x) = CapturingIn(y) + CapturingIn(u) /\ CapturingIn(y) \in Nat /\ CapturingIn(u) \in Nat
  BY <1>6, CapturingSplit
<1> DEFINE g == [i \in 0 .. n + 1 |-> IF i <= n THEN h[i] ELSE y]
           w == [i \in 0 .. n + 1 |-> IF i <= n THEN z[i] ELSE z[n] + CapturingIn(u)]
<1>8. /\ \A i \in 0 .. n : g[i] = h[i] /\ w[i] = z[i]
      /\ g[n + 1] = y /\ w[n + 1] = z[n] + CapturingIn(u) /\ g[n] = x /\ w[n] = z[n]
      /\ z[n] \in Nat /\ w[n + 1] \in Nat /\ h[n] = x
  <2>2. h[n] = x /\ z[n] \in Nat
    <3>1. n \in 0 .. Len(S)
      BY <1>3
    <3> QED
      BY <1>1, <1>2, <3>1 DEF Levels
  <2>3. n + 1 \in 0 .. n + 1 /\ ~(n + 1 <= n) /\ n \in 0 .. n + 1 /\ n <= n
    BY <1>3
  <2>4. g[n + 1] = y /\ w[n + 1] = z[n] + CapturingIn(u) /\ g[n] = h[n] /\ w[n] = z[n]
    BY ONLY <2>3
  <2>5. \A i \in 0 .. n : g[i] = h[i] /\ w[i] = z[i]
    BY ONLY <1>3
  <2>6. z[n] + CapturingIn(u) \in Nat
    BY ONLY <1>7, <2>2
  <2> QED
    BY ONLY <2>2, <2>4, <2>5, <2>6
<1> HIDE DEF g, w
<1>9. LevelStep(T[n + 1], H, g[n], g[n + 1], w[n], w[n + 1])
  <2>1. T[n + 1].t = "perform" /\ T[n + 1].saved = u
    BY <1>3, <1>5
  <2> QED
    BY ONLY <1>6, <1>8, <2>1 DEF LevelStep
<1>10. T[n + 1].t # "lw"
  BY <1>3
<1>11. ASSUME NEW m \in 1 .. n, S[m].t = "lw" PROVE Len(h[m - 1]) <= Len(g[n + 1])
  <2>1. Len(h[m - 1]) <= f
    BY <1>1, <1>2, <1>3, <1>11, FloorBounds
  <2>2. Len(h[m - 1]) \in Nat
    BY <1>1, <1>3, SMTT(30) DEF Levels
  <2> QED
    BY <1>4, <1>6, <1>8, <2>1, <2>2
<1>12. ASSUME NEW p \in 1 .. Len(g[n + 1]) PROVE \E s \in 1 .. n + 1 : SiteIs(T, g, n + 1, p, s)
  <2>1. p \in 1 .. Len(h[n]) /\ g[n + 1][p] = h[n][p]
    BY <1>6, <1>8
  <2>2. PICK s \in 1 .. n : SiteIs(S, h, n, p, s)
    BY <1>1, <1>3, <2>1 DEF Levels
  <2>3. T[s].t = "handle" /\ T[s].fr = g[n + 1][p].hf
    BY <1>3, <2>1, <2>2 DEF SiteIs
  <2>4. ASSUME NEW m \in 1 .. n + 1, T[m].t = "lw" PROVE p <= Len(g[m - 1]) <=> s < m
    <3>1. m \in 1 .. n /\ T[m] = S[m] /\ g[m - 1] = h[m - 1]
      BY <1>3, <1>8, <1>10, <2>4, SMTT(30)
    <3> QED
      BY <2>2, <2>4, <3>1 DEF SiteIs
  <2>5. SiteIs(T, g, n + 1, p, s)
    BY <2>3, <2>4 DEF SiteIs
  <2> QED
    BY <1>3, <2>5
<1>13. Raised(S, T, H, h, z, g, w, n)
  BY <1>3, <1>6, <1>8, <1>9, <1>10, <1>11, <1>12 DEF Raised
<1>14. Levels(T, H, g, w)
  BY <1>1, <1>13, LevelsPush
<1>15. FloorIs(T, g, n + 1, f)
  BY <1>1, <1>3, <1>8, <1>10, FloorRaised
<1>16. y = g[Len(T)] /\ c = CapturingIn(y) + w[Len(T)] /\ FloorIs(T, g, Len(T), f)
  BY <1>1, <1>3, <1>7, <1>8, <1>15
<1>17. HsIs(T, H, y, c, f)
  BY <1>14, <1>16 DEF HsIs
<1> QED
  BY <1>5, <1>6, <1>17

----------------------------------------------------------------------------
(* The top activation goes.                                                *)

\* An activation that is neither clause nor run goes with what it installed.
LEMMA HsPopPlain ==
  ASSUME NEW n \in Nat, NEW S \in Seq(Context), Len(S) = n + 1, NEW T, T = SubSeq(S, 1, n),
         NEW H, NEW x, NEW c, NEW f, HsIs(S, H, x, c, f), S[n + 1].t \notin {"perform", "lw"}
  PROVE  \E y \in Seq(Entry) :
           /\ Installed(S[n + 1], H) \in Seq(Entry) /\ x = y \o Installed(S[n + 1], H)
           /\ HsIs(T, H, y, c - CapturingIn(Installed(S[n + 1], H)), f)
<1>1. PICK h, z : Levels(S, H, h, z) /\ x = h[Len(S)] /\ c = CapturingIn(x) + z[Len(S)] /\ FloorIs(S, h, Len(S), f)
  BY DEF HsIs
<1>2. Len(T) = n /\ \A i \in 1 .. n : T[i] = S[i]
  OBVIOUS
<1>3. Levels(T, H, h, z)
  BY <1>1, <1>2, LevelsPop
<1>4. PICK d : d = S[n + 1]
  OBVIOUS
<1>5. LevelStep(d, H, h[n], h[n + 1], z[n], z[n + 1])
  <2>1. n + 1 \in 1 .. Len(S) /\ (n + 1) - 1 = n
    OBVIOUS
  <2> QED
    BY <1>1, <1>4, <2>1 DEF Levels
<1>6. PICK e, y : e = Installed(d, H) /\ y = h[n]
  OBVIOUS
<1>7. Plain(d, H) /\ x = y \o e /\ z[n + 1] = z[n]
  BY <1>1, <1>4, <1>5, <1>6 DEF LevelStep
<1>8. e \in Seq(Entry)
  <2>1. CASE d.t = "handle"
    <3>1. e = EntriesOf(H[d.fr].h, d.fr) /\ d.fr \in Frames /\ H[d.fr].h \in DOMAIN Handlers
      BY <1>6, <1>7, <2>1 DEF Installed, Plain
    <3> QED
      BY <3>1, EntriesAre
  <2>2. CASE d.t # "handle"
    BY <1>6, <2>2 DEF Installed
  <2> QED
    BY <2>1, <2>2
<1>9. y \in Seq(Entry) /\ z[n] \in Nat
  BY <1>3, <1>2, <1>6 DEF Levels
<1>10. c - CapturingIn(e) = CapturingIn(y) + z[n]
  <2>1. CapturingIn(x) = CapturingIn(y) + CapturingIn(e) /\ CapturingIn(y) \in Nat /\ CapturingIn(e) \in Nat
    BY <1>7, <1>8, <1>9, CapturingSplit
  <2>2. c = CapturingIn(x) + z[n]
    BY <1>1, <1>7
  <2> QED
    BY <1>9, <2>1, <2>2
<1>11. FloorIs(T, h, n, f)
  <2>1. S[n + 1].t # "lw" /\ FloorIs(S, h, n + 1, f)
    BY <1>1
  <2> QED
    BY <1>2, <2>1, FloorLowered
<1>12. HsIs(T, H, y, c - CapturingIn(e), f)
  BY <1>2, <1>3, <1>6, <1>10, <1>11 DEF HsIs
<1> QED
  BY <1>4, <1>6, <1>7, <1>8, <1>9, <1>12

\* A tail clause returns: what perform hid is installed again.
LEMMA HsPopPerform ==
  ASSUME NEW n \in Nat, NEW S \in Seq(Context), Len(S) = n + 1, NEW T, T = SubSeq(S, 1, n),
         NEW H, NEW x, NEW c, NEW f, HsIs(S, H, x, c, f), S[n + 1].t = "perform"
  PROVE  HsIs(T, H, x \o S[n + 1].saved, c, f)
<1>1. PICK h, z : Levels(S, H, h, z) /\ x = h[Len(S)] /\ c = CapturingIn(x) + z[Len(S)] /\ FloorIs(S, h, Len(S), f)
  BY DEF HsIs
<1>2. Len(T) = n /\ \A i \in 1 .. n : T[i] = S[i]
  OBVIOUS
<1>3. Levels(T, H, h, z)
  BY <1>1, <1>2, LevelsPop
<1>4. PICK d : d = S[n + 1]
  OBVIOUS
<1>5. LevelStep(d, H, h[n], h[n + 1], z[n], z[n + 1])
  <2>1. n + 1 \in 1 .. Len(S) /\ (n + 1) - 1 = n
    OBVIOUS
  <2> QED
    BY <1>1, <1>4, <2>1 DEF Levels
<1>6. PICK u, y : u = d.saved /\ y = h[n]
  OBVIOUS
<1>7. u \in Seq(Entry) /\ y = x \o u /\ z[n + 1] = z[n] + CapturingIn(u)
  BY <1>1, <1>4, <1>5, <1>6 DEF LevelStep, Plain
<1>8. x \in Seq(Entry) /\ z[n] \in Nat
  BY <1>2, <1>3, HsTyped DEF Levels
<1>9. c = CapturingIn(y) + z[n]
  <2>1. CapturingIn(y) = CapturingIn(x) + CapturingIn(u) /\ CapturingIn(x) \in Nat /\ CapturingIn(u) \in Nat
    BY <1>7, <1>8, CapturingSplit
  <2>2. c = CapturingIn(x) + (z[n] + CapturingIn(u))
    BY <1>1, <1>7
  <2> QED
    BY <1>8, <2>1, <2>2
<1>10. FloorIs(T, h, n, f)
  <2>1. S[n + 1].t # "lw" /\ FloorIs(S, h, n + 1, f)
    BY <1>1
  <2> QED
    BY <1>2, <2>1, FloorLowered, ZenonT(40)
<1>11. HsIs(T, H, y, c, f)
  BY <1>2, <1>3, <1>6, <1>9, <1>10 DEF HsIs
<1> QED
  BY <1>4, <1>6, <1>7, <1>11

\* An inference run ends: the floor is the one its activation saved.
LEMMA HsPopRun ==
  ASSUME NEW n \in Nat, NEW S \in Seq(Context), Len(S) = n + 1, NEW T, T = SubSeq(S, 1, n),
         NEW H, NEW x, NEW c, NEW f, HsIs(S, H, x, c, f), S[n + 1].t = "lw"
  PROVE  HsIs(T, H, x, c, S[n + 1].floor)
<1>1. PICK h, z : Levels(S, H, h, z) /\ x = h[Len(S)] /\ c = CapturingIn(x) + z[Len(S)] /\ FloorIs(S, h, Len(S), f)
  BY DEF HsIs
<1>2. Len(T) = n /\ \A i \in 1 .. n : T[i] = S[i]
  OBVIOUS
<1>3. Levels(T, H, h, z)
  BY <1>1, <1>2, LevelsPop
<1>4. n + 1 \in 1 .. Len(S) /\ (n + 1) - 1 = n
  OBVIOUS
<1>5. LevelStep(S[n + 1], H, h[n], h[n + 1], z[n], z[n + 1])
  BY <1>1, <1>4 DEF Levels
<1>6. h[n] = x /\ z[n + 1] = z[n]
  BY <1>1, <1>5 DEF LevelStep, Plain
<1>7. FloorIs(S, h, n, S[n + 1].floor)
  BY <1>1, <1>4 DEF Levels
<1>8. FloorIs(T, h, n, S[n + 1].floor)
  BY <1>2, <1>7, FloorSame
<1> QED
  BY <1>1, <1>2, <1>3, <1>6, <1>8 DEF HsIs

\* The capture depth counts the capturing entries installed and hidden.
LEMMA HsCap ==
  ASSUME NEW S \in Seq(Context), NEW H, NEW x, NEW c, NEW f, HsIs(S, H, x, c, f)
  PROVE  c = CapturingIn(x \o FlattenSeq([i \in DOMAIN S |-> IF S[i].t = "perform" THEN S[i].saved ELSE << >>]))
<1>1. PICK h, z : Levels(S, H, h, z) /\ x = h[Len(S)] /\ c = CapturingIn(x) + z[Len(S)]
  BY DEF HsIs
<1>2. PICK n : n = Len(S)
  OBVIOUS
<1>3. n \in Nat /\ DOMAIN S = 1 .. n
  BY <1>2
<1>4. x \in Seq(Entry)
  BY HsTyped
<1>5. PICK ss : ss = [i \in 1 .. n |-> IF S[i].t = "perform" THEN S[i].saved ELSE << >>]
  OBVIOUS
<1>6. \A i \in 1 .. n : LevelStep(S[i], H, h[i - 1], h[i], z[i - 1], z[i])
  BY <1>1, <1>2 DEF Levels
<1>7. ASSUME NEW i \in 1 .. n
      PROVE  /\ ss[i] \in Seq(Entry)
             /\ z[i] = z[i - 1] + CapturingIn(ss[i])
  <2>1. LevelStep(S[i], H, h[i - 1], h[i], z[i - 1], z[i])
    BY <1>6
  <2>2. CASE S[i].t = "perform"
    BY <1>5, <2>1, <2>2 DEF LevelStep, Plain
  <2>3. CASE S[i].t # "perform"
    <3>1. z[i] = z[i - 1] /\ ss[i] = << >>
      BY <1>5, <2>1, <2>3 DEF LevelStep
    <3>2. z[i - 1] \in Nat
      <4>1. i - 1 \in 0 .. Len(S)
        BY <1>2, <1>3
      <4> QED
        BY <1>1, <4>1 DEF Levels
    <3> QED
      BY <3>1, <3>2, CapturingNone
  <2> QED
    BY <2>2, <2>3
<1>8. ss \in Seq(Seq(Entry)) /\ Len(ss) = n
  <2>1. PICK V : V = Seq(Entry)
    OBVIOUS
  <2>2. \A i \in 1 .. n : ss[i] \in V
    BY <1>7, <2>1
  <2>3. ss \in [1 .. n -> V]
    BY ONLY <1>5, <2>2
  <2>4. ss \in Seq(V) /\ Len(ss) = n
    BY ONLY <1>3, <2>3
  <2> QED
    BY ONLY <2>1, <2>4
<1>9. PICK g \in [0 .. n -> Seq(Entry)] : Joins(g, ss)
  BY ONLY <1>8, JoinsExist
<1>10. FlattenSeq(ss) = g[n]
  BY ONLY <1>8, <1>9, FlattenIs
<1>11. g[0] = << >> /\ \A i \in 1 .. n : g[i] = g[i - 1] \o ss[i]
  BY ONLY <1>8, <1>9 DEF Joins
<1> DEFINE G == {i \in 0 .. n : CapturingIn(g[i]) = z[i]}
<1>12. 0 \in G
  <2>1. z[0] = 0
    BY <1>1 DEF Levels
  <2> QED
    BY <1>3, <1>11, <2>1, CapturingNone
<1>13. ASSUME NEW i \in 0 .. n, i < n, i \in G PROVE i + 1 \in G
  <2>1. i + 1 \in 1 .. n /\ (i + 1) - 1 = i /\ i + 1 \in 0 .. n /\ CapturingIn(g[i]) = z[i]
    BY <1>3, <1>13
  <2>2. z[i + 1] = z[i] + CapturingIn(ss[i + 1]) /\ ss[i + 1] \in Seq(Entry)
    BY <1>7, <2>1
  <2>3. g[i + 1] = g[i] \o ss[i + 1] /\ g[i] \in Seq(Entry)
    BY <1>9, <1>11, <2>1
  <2>4. CapturingIn(g[i] \o ss[i + 1]) = CapturingIn(g[i]) + CapturingIn(ss[i + 1])
    BY ONLY <2>2, <2>3, CapturingSplit
  <2>5. CapturingIn(g[i + 1]) = z[i + 1]
    BY ONLY <2>1, <2>2, <2>3, <2>4
  <2> QED
    BY <2>1, <2>5
<1> HIDE DEF G
<1>14. \A i \in 0 .. n : i \in G
  BY <1>3, <1>12, <1>13, UpwardSteps
<1>15. CapturingIn(g[n]) = z[n]
  BY <1>3, <1>14 DEF G
<1>16. g[n] \in Seq(Entry)
  BY <1>3, <1>9
<1>17. CapturingIn(x \o g[n]) = CapturingIn(x) + CapturingIn(g[n])
  BY ONLY <1>4, <1>16, CapturingSplit
<1>18. c = CapturingIn(x \o FlattenSeq(ss))
  BY ONLY <1>1, <1>2, <1>10, <1>15, <1>17
<1> QED
  BY <1>3, <1>5, <1>18

\* Activations that hide nothing and start no run go on the stack together.
LEMMA HsPushAll ==
  ASSUME NEW S \in Seq(Context), NEW H, NEW x, NEW c, NEW f, HsIs(S, H, x, c, f),
         NEW D \in Seq(Context), \A i \in 1 .. Len(D) : Plain(D[i], H), NEW T, T = S \o D,
         NEW es, es = FlattenSeq([i \in 1 .. Len(D) |-> Installed(D[i], H)])
  PROVE  es \in Seq(Entry) /\ HsIs(T, H, x \o es, c + CapturingIn(es), f)
<1>1. PICK n : n = Len(D)
  OBVIOUS
<1>2. n \in Nat
  BY <1>1
<1>3. PICK ss : ss = [i \in 1 .. n |-> Installed(D[i], H)]
  OBVIOUS
<1>4. ASSUME NEW i \in 1 .. n PROVE ss[i] \in Seq(Entry) /\ D[i] \in Context /\ Plain(D[i], H)
  <2>1. D[i] \in Context /\ Plain(D[i], H)
    BY <1>1
  <2>2. Installed(D[i], H) \in Seq(Entry)
    BY <2>1, HsPushPlain
  <2> QED
    BY <1>3, <2>1, <2>2
<1>8. ss \in Seq(Seq(Entry)) /\ Len(ss) = n
  <2>1. PICK V : V = Seq(Entry)
    OBVIOUS
  <2>2. \A i \in 1 .. n : ss[i] \in V
    BY <1>4, <2>1
  <2>3. ss \in [1 .. n -> V]
    BY ONLY <1>3, <2>2
  <2>4. ss \in Seq(V) /\ Len(ss) = n
    BY ONLY <1>2, <2>3
  <2> QED
    BY ONLY <2>1, <2>4
<1>9. PICK g \in [0 .. n -> Seq(Entry)] : Joins(g, ss)
  BY ONLY <1>8, JoinsExist
<1>10. FlattenSeq(ss) = g[n]
  BY ONLY <1>8, <1>9, FlattenIs
<1>11. g[0] = << >> /\ \A i \in 1 .. n : g[i] = g[i - 1] \o ss[i]
  BY ONLY <1>8, <1>9 DEF Joins
<1>5. x \in Seq(Entry) /\ c \in Nat
  BY HsTyped
<1> DEFINE P(i) == S \o SubSeq(D, 1, i)
           G == {i \in 0 .. n : HsIs(P(i), H, x \o g[i], c + CapturingIn(g[i]), f)}
<1>12. 0 \in G
  <2>1. SubSeq(D, 1, 0) = << >>
    BY SubSeqEmpty
  <2>2. P(0) = S
    BY <2>1, ConcatEmptySeq
  <2>3. x \o g[0] = x /\ c + CapturingIn(g[0]) = c
    BY <1>5, <1>11, ConcatEmptySeq, CapturingNone
  <2>4. HsIs(P(0), H, x \o g[0], c + CapturingIn(g[0]), f)
    BY ONLY HsIs(S, H, x, c, f), <2>2, <2>3
  <2> QED
    BY <1>2, <2>4
<1>13. ASSUME NEW i \in 0 .. n, i < n, i \in G PROVE i + 1 \in G
  <2>1. i + 1 \in 1 .. n /\ (i + 1) - 1 = i /\ i + 1 \in 0 .. n
    BY <1>2, <1>13
  <2>2. PICK d, e, y, b : d = D[i + 1] /\ e = Installed(d, H) /\ y = x \o g[i] /\ b = c + CapturingIn(g[i])
    OBVIOUS
  <2>3. d \in Context /\ Plain(d, H) /\ e = ss[i + 1] /\ e \in Seq(Entry)
    BY <1>3, <1>4, <2>1, <2>2
  <2>4. g[i + 1] = g[i] \o e /\ g[i] \in Seq(Entry)
    BY <1>9, <1>11, <2>1, <2>3
  <2>5. HsIs(P(i), H, y, b, f)
    BY <1>13, <2>2
  <2>6. PICK W : W = SubSeq(D, 1, i)
    OBVIOUS
  <2>7. W \in Seq(Context) /\ SubSeq(D, 1, i + 1) = Append(W, d)
    <3>1. D \in Seq(Context) /\ i + 1 \in 1 .. Len(D) /\ 1 \in 1 .. Len(D) /\ i + 1 \in 1 .. Len(D) + 1
      BY <1>1, <1>2, <2>1
    <3>2. SubSeq(D, 1, i + 1) = SubSeq(D, 1, (i + 1) - 1) \o << D[i + 1] >>
      BY ONLY <3>1, 1 \in 1 .. Len(D), i + 1 \in 1 .. Len(D), SubSeqRecursiveSecond
    <3>3. SubSeq(D, 1, (i + 1) - 1) \in Seq(Context)
      BY ONLY <3>1, SplitAt
    <3>4. W \in Seq(Context)
      BY ONLY <2>1, <2>6, <3>3
    <3>5. Append(W, d) = W \o << d >>
      BY ONLY <2>3, <3>4, AppendIsConcat
    <3> QED
      BY ONLY <2>1, <2>2, <2>6, <3>2, <3>4, <3>5
  <2>8. P(i) \in Seq(Context) /\ P(i + 1) = Append(P(i), d)
    <3>1. S \o W \in Seq(Context)
      BY ONLY S \in Seq(Context), <2>7, ConcatProperties
    <3>2. S \o Append(W, d) = Append(S \o W, d)
      BY ONLY S \in Seq(Context), <2>3, <2>7
    <3> QED
      BY ONLY <2>6, <2>7, <3>1, <3>2
  <2>9. HsIs(P(i + 1), H, y \o e, b + CapturingIn(e), f)
    <3>1. PICK Q, R : Q = P(i) /\ R = P(i + 1)
      OBVIOUS
    <3>2. Q \in Seq(Context) /\ R = Append(Q, d) /\ HsIs(Q, H, y, b, f)
      BY <2>5, <2>8, <3>1
    <3>3. HsIs(R, H, y \o Installed(d, H), b + CapturingIn(Installed(d, H)), f)
      BY ONLY <3>2, <2>3, HsPushPlain
    <3> QED
      BY ONLY <2>2, <3>1, <3>3
  <2>10. x \o g[i + 1] = y \o e
    <3>0. PICK u, V : u = g[i] /\ V = Entry
      OBVIOUS
    <3>1. x \in Seq(V) /\ u \in Seq(V) /\ e \in Seq(V)
      BY ONLY <1>5, <2>3, <2>4, <3>0
    <3>2. (x \o u) \o e = x \o (u \o e)
      BY ONLY <3>1, ConcatAssociative, SMTT(30)
    <3> QED
      BY ONLY <2>2, <2>4, <3>0, <3>2
  <2>11. c + CapturingIn(g[i + 1]) = b + CapturingIn(e)
    <3>1. CapturingIn(g[i] \o e) = CapturingIn(g[i]) + CapturingIn(e) /\ CapturingIn(g[i]) \in Nat /\ CapturingIn(e) \in Nat
      BY ONLY <2>3, <2>4, CapturingSplit
    <3> QED
      BY ONLY <1>5, <2>2, <2>4, <3>1
  <2>12. HsIs(P(i + 1), H, x \o g[i + 1], c + CapturingIn(g[i + 1]), f)
    BY ONLY <2>9, <2>10, <2>11
  <2> QED
    BY <2>1, <2>12
<1> HIDE DEF G
<1>14. \A i \in 0 .. n : i \in G
  BY <1>2, <1>12, <1>13, UpwardSteps
<1>15. HsIs(P(n), H, x \o g[n], c + CapturingIn(g[n]), f)
  BY <1>2, <1>14 DEF G
<1>16. P(n) = T
  <2>1. SubSeq(D, 1, n) = D
    BY <1>1, SubSeqFull
  <2> QED
    BY <2>1
<1>17. es = g[n] /\ g[n] \in Seq(Entry)
  BY <1>1, <1>2, <1>3, <1>9, <1>10
<1> QED
  BY <1>15, <1>16, <1>17

\* T is S with n more activations, each with a frame on the frame stack.
Stacked(S, T, a, n) ==
  /\ a \in Nat /\ n \in Nat /\ \A i \in 1 .. a : T[i] = S[i]
  /\ \A j \in 1 .. n : OnKs(T[a + j])

\* Their frames are counted one by one.
LEMMA FramesPushAll ==
  ASSUME NEW S, NEW T, NEW a, NEW n, Stacked(S, T, a, n)
  PROVE  \A j \in 0 .. n : FramesUpTo(T, a + j) = FramesUpTo(S, a) + j
<1> DEFINE G == {j \in 0 .. n : FramesUpTo(T, a + j) = FramesUpTo(S, a) + j}
<1> USE DEF Stacked
<1>1. FramesUpTo(S, a) \in Nat
  BY FramesStep
<1>2. 0 \in G
  <2>1. FramesUpTo(T, a) = FramesUpTo(S, a)
    BY FramesSame
  <2> QED
    BY <1>1, <2>1
<1>3. ASSUME NEW j \in 0 .. n, j < n, j \in G PROVE j + 1 \in G
  <2>1. a + j \in Nat /\ j + 1 \in 1 .. n /\ a + (j + 1) = (a + j) + 1
    BY <1>3
  <2>2. OnKs(T[(a + j) + 1])
    BY <2>1
  <2>3. FramesUpTo(T, (a + j) + 1) = FramesUpTo(T, a + j) + 1
    BY <2>1, <2>2, FramesStep
  <2>4. FramesUpTo(T, a + j) = FramesUpTo(S, a) + j
    BY <1>3
  <2>5. FramesUpTo(T, a + (j + 1)) = FramesUpTo(S, a) + (j + 1)
    BY <1>1, <2>1, <2>3, <2>4
  <2> QED
    BY <2>1, <2>5
<1> HIDE DEF G
<1>4. \A j \in 0 .. n : j \in G
  BY <1>2, <1>3, UpwardSteps
<1> QED
  BY <1>4 DEF G

----------------------------------------------------------------------------
(* The C stack and the frame stack.                                        *)

\* Call frames of the C stack S are on the frame stack K in their order.
FramesFollow(S, K, m) ==
  /\ \A i \in 1 .. Len(S) : OnKs(S[i]) => FramesUpTo(S, i) <= Len(K) /\ K[FramesUpTo(S, i)] = S[i].fr
  /\ m # "susp" => Len(K) = FramesUpTo(S, Len(S))

\* One activation more than S, or the same stack seen from above.
Grown(S, T, n, d) ==
  /\ n \in Nat /\ Len(S) = n /\ Len(T) = n + 1 /\ T[n + 1] = d /\ d \in Context
  /\ S \in Seq(Context) /\ T \in Seq(Context) /\ \A i \in 1 .. n : T[i] = S[i]

\* A push adds one activation.
LEMMA Pushed ==
  ASSUME NEW S \in Seq(Context), NEW d \in Context, NEW T, T = Append(S, d)
  PROVE  Grown(S, T, Len(S), d)
<1>1. T \in Seq(Context) /\ Len(T) = Len(S) + 1 /\ Len(S) \in Nat /\ T[Len(S) + 1] = d
  BY AppendProperties, LenProperties
<1>2. \A i \in 1 .. Len(S) : T[i] = S[i]
  BY AppendProperties
<1> QED
  BY <1>1, <1>2 DEF Grown

\* A pop takes the top one away.
LEMMA Popped ==
  ASSUME NEW S \in Seq(Context), S # << >>, NEW T, T = Pop(S)
  PROVE  /\ Len(S) \in Nat \ {0} /\ S[Len(S)] \in Context
         /\ Grown(T, S, Len(S) - 1, S[Len(S)])
         /\ T = SubSeq(S, 1, Len(S) - 1)
<1>1. PICK n : n = Len(S)
  OBVIOUS
<1>2. n \in Nat /\ n # 0 /\ n \in 1 .. n /\ n - 1 \in Nat
  BY <1>1, EmptySeq, LenProperties
<1>3. n \in 1 .. Len(S) + 1 /\ (n - 1) + 1 = n
  BY <1>1, <1>2
<1>4. T = SubSeq(S, 1, n - 1)
  BY <1>1 DEF Pop
<1>5. T \in Seq(Context) /\ Len(T) = n - 1 /\ \A i \in 1 .. n - 1 : T[i] = S[i]
  BY ONLY S \in Seq(Context), <1>3, <1>4, SplitAt
<1>6. S[n] \in Context
  BY <1>1, <1>2, ElementOfSeq
<1>7. Grown(T, S, n - 1, S[n])
  BY ONLY <1>1, <1>2, <1>3, <1>5, <1>6, S \in Seq(Context) DEF Grown
<1> QED
  BY <1>1, <1>2, <1>4, <1>6, <1>7

\* The frames of a stack with one activation more.
LEMMA GrownFrames ==
  ASSUME NEW S, NEW T, NEW n, NEW d, Grown(S, T, n, d)
  PROVE  /\ \A i \in 0 .. n : FramesUpTo(T, i) = FramesUpTo(S, i) /\ FramesUpTo(S, i) \in Nat
         /\ FramesUpTo(T, n + 1) = FramesUpTo(S, n) + (IF OnKs(d) THEN 1 ELSE 0)
         /\ \A i \in 1 .. n : FramesUpTo(S, i) <= FramesUpTo(S, n)
         /\ \A i \in 1 .. n : OnKs(S[i]) => FramesUpTo(S, i) \in 1 .. FramesUpTo(S, n)
<1>1. n \in Nat /\ (\A i \in 1 .. n : T[i] = S[i]) /\ T[n + 1] = d
  BY DEF Grown
<1>2. ASSUME NEW i \in 0 .. n PROVE FramesUpTo(T, i) = FramesUpTo(S, i) /\ FramesUpTo(S, i) \in Nat
  <2>1. i \in Nat /\ \A j \in 1 .. i : OnKs(T[j]) <=> OnKs(S[j])
    BY <1>1
  <2> QED
    BY <2>1, FramesSame, FramesStep
<1>3. FramesUpTo(T, n + 1) = FramesUpTo(T, n) + (IF OnKs(T[n + 1]) THEN 1 ELSE 0)
  BY <1>1, FramesStep
<1>4. ASSUME NEW i \in 1 .. n
      PROVE  /\ FramesUpTo(S, i) <= FramesUpTo(S, n)
             /\ OnKs(S[i]) => FramesUpTo(S, i) \in 1 .. FramesUpTo(S, n)
  <2>1. FramesUpTo(S, i) <= FramesUpTo(S, n)
    BY <1>1, FramesMonotone
  <2>2. FramesUpTo(S, 0) = 0 /\ (OnKs(S[i]) => FramesUpTo(S, 0) < FramesUpTo(S, i))
    BY <1>1, FramesMonotone, FramesStep
  <2> QED
    BY <1>1, <1>2, <2>1, <2>2
<1> QED
  BY <1>1, <1>2, <1>3, <1>4

\* An activation is pushed, with its frame when it has one.
LEMMA FollowPush ==
  ASSUME NEW S, NEW T, NEW n, NEW d, Grown(S, T, n, d), NEW K \in Seq(Frames), NEW m, m # "susp",
         FramesFollow(S, K, m), NEW L, NEW o,
         OnKs(d) => d.fr \in Frames /\ L = Append(K, d.fr), ~OnKs(d) => L = K
  PROVE  FramesFollow(T, L, o)
<1>1. n \in Nat /\ Len(S) = n /\ Len(T) = n + 1 /\ (\A i \in 1 .. n : T[i] = S[i]) /\ T[n + 1] = d
  BY DEF Grown
<1>2. Len(K) = FramesUpTo(S, n) /\ Len(K) \in Nat
  BY <1>1 DEF FramesFollow
<1>3. /\ \A i \in 0 .. n : FramesUpTo(T, i) = FramesUpTo(S, i) /\ FramesUpTo(S, i) \in Nat
      /\ FramesUpTo(T, n + 1) = FramesUpTo(S, n) + (IF OnKs(d) THEN 1 ELSE 0)
      /\ \A i \in 1 .. n : OnKs(S[i]) => FramesUpTo(S, i) \in 1 .. FramesUpTo(S, n)
  BY GrownFrames
<1>4. /\ Len(L) = FramesUpTo(T, n + 1) /\ (\A j \in 1 .. Len(K) : L[j] = K[j])
      /\ OnKs(d) => L[Len(L)] = d.fr
  <2>1. CASE OnKs(d)
    <3>1. d.fr \in Frames /\ L = Append(K, d.fr)
      BY <2>1
    <3>2. Len(L) = Len(K) + 1 /\ L[Len(K) + 1] = d.fr /\ \A j \in 1 .. Len(K) : L[j] = K[j]
      BY ONLY <3>1, K \in Seq(Frames), AppendProperties
    <3> QED
      BY ONLY <1>2, <1>3, <2>1, <3>2
  <2>2. CASE ~OnKs(d)
    BY <1>2, <1>3, <2>2
  <2> QED
    BY <2>1, <2>2
<1>5. ASSUME NEW i \in 1 .. n + 1, OnKs(T[i])
      PROVE  FramesUpTo(T, i) <= Len(L) /\ L[FramesUpTo(T, i)] = T[i].fr
  <2>1. CASE i = n + 1
    BY <1>1, <1>2, <1>3, <1>4, <1>5, <2>1
  <2>2. CASE i \in 1 .. n
    <3>1. T[i] = S[i] /\ FramesUpTo(T, i) = FramesUpTo(S, i) /\ FramesUpTo(S, i) \in 1 .. Len(K)
      BY <1>1, <1>2, <1>3, <1>5, <2>2
    <3>2. K[FramesUpTo(S, i)] = S[i].fr
      BY <1>1, <1>5, <2>2, <3>1 DEF FramesFollow
    <3>3. FramesUpTo(T, i) <= Len(L)
      BY ONLY <1>2, <1>3, <1>4, <3>1
    <3> QED
      BY ONLY <1>4, <3>1, <3>2, <3>3
  <2> QED
    BY <1>1, <1>5, <2>1, <2>2
<1> QED
  BY <1>1, <1>4, <1>5 DEF FramesFollow

\* The top activation goes: with its frame when a value returns to it, without
\* when a suspension passes it.
LEMMA FollowPop ==
  ASSUME NEW S, NEW T, NEW n, NEW d, Grown(T, S, n, d), NEW K \in Seq(Frames), NEW m,
         FramesFollow(S, K, m)
  PROVE  /\ FramesFollow(T, K, "susp")
         /\ OnKs(d) => FramesUpTo(S, n + 1) \in 1 .. Len(K) /\ K[FramesUpTo(S, n + 1)] = d.fr
         /\ m # "susp" => FramesUpTo(S, n + 1) = Len(K)
         /\ \A o : OnKs(d) => FramesFollow(T, SubSeq(K, 1, FramesUpTo(S, n + 1) - 1), o)
         /\ \A o : ~OnKs(d) /\ m # "susp" => FramesFollow(T, K, o)
<1>1. n \in Nat /\ Len(T) = n /\ Len(S) = n + 1 /\ (\A i \in 1 .. n : S[i] = T[i]) /\ S[n + 1] = d
  BY DEF Grown
<1>3. /\ \A i \in 0 .. n : FramesUpTo(S, i) = FramesUpTo(T, i) /\ FramesUpTo(T, i) \in Nat
      /\ FramesUpTo(S, n + 1) = FramesUpTo(T, n) + (IF OnKs(d) THEN 1 ELSE 0)
      /\ \A i \in 1 .. n : OnKs(T[i]) => FramesUpTo(T, i) \in 1 .. FramesUpTo(T, n)
  BY GrownFrames
<1>2. FramesUpTo(T, n) \in Nat /\ Len(K) \in Nat
  BY <1>1, <1>3
<1>4. ASSUME NEW i \in 1 .. n, OnKs(T[i])
      PROVE  FramesUpTo(T, i) <= Len(K) /\ K[FramesUpTo(T, i)] = T[i].fr
  <2>1. i \in 1 .. Len(S) /\ OnKs(S[i]) /\ S[i] = T[i] /\ FramesUpTo(S, i) = FramesUpTo(T, i)
    BY <1>1, <1>3, <1>4
  <2> QED
    BY <2>1 DEF FramesFollow
<1>5. FramesFollow(T, K, "susp")
  BY <1>1, <1>4 DEF FramesFollow
<1>6. ASSUME OnKs(d) PROVE FramesUpTo(S, n + 1) \in 1 .. Len(K) /\ K[FramesUpTo(S, n + 1)] = d.fr
  <2>1. FramesUpTo(S, n + 1) <= Len(K) /\ K[FramesUpTo(S, n + 1)] = d.fr
    BY <1>1, <1>6 DEF FramesFollow
  <2> QED
    BY <1>2, <1>3, <1>6, <2>1
<1>7. m # "susp" => FramesUpTo(S, n + 1) = Len(K)
  BY <1>1 DEF FramesFollow
<1>8. ASSUME NEW o, OnKs(d) PROVE FramesFollow(T, SubSeq(K, 1, FramesUpTo(S, n + 1) - 1), o)
  <2>1. PICK p : p = FramesUpTo(S, n + 1)
    OBVIOUS
  <2>2. p \in 1 .. Len(K) + 1 /\ p - 1 = FramesUpTo(T, n)
    BY <1>2, <1>3, <1>6, <1>8, <2>1
  <2>3. PICK L : L = SubSeq(K, 1, p - 1)
    OBVIOUS
  <2>4. Len(L) = p - 1 /\ \A j \in 1 .. p - 1 : L[j] = K[j]
    BY ONLY <2>2, <2>3, K \in Seq(Frames), SplitAt
  <2>5. ASSUME NEW i \in 1 .. n, OnKs(T[i])
        PROVE  FramesUpTo(T, i) <= Len(L) /\ L[FramesUpTo(T, i)] = T[i].fr
    <3>1. FramesUpTo(T, i) \in 1 .. p - 1
      BY <1>3, <2>2, <2>5
    <3> QED
      BY <1>4, <2>4, <2>5, <3>1
  <2>6. FramesFollow(T, L, o)
    BY <1>1, <2>2, <2>4, <2>5 DEF FramesFollow
  <2> QED
    BY <2>1, <2>3, <2>6
<1>9. ASSUME NEW o, ~OnKs(d), m # "susp" PROVE FramesFollow(T, K, o)
  <2>1. Len(K) = FramesUpTo(T, n)
    BY <1>2, <1>3, <1>7, <1>9
  <2> QED
    BY <1>1, <1>4, <2>1 DEF FramesFollow
<1> QED
  BY <1>5, <1>6, <1>7, <1>8, <1>9

\* The handle site of a frame is unique.
LEMMA OneSite ==
  ASSUME NEW S \in Seq(Context), NEW K \in Seq(Frames), NEW m, FramesFollow(S, K, m),
         \A i, j \in 1 .. Len(K) : K[i] = K[j] => i = j,
         NEW i \in 1 .. Len(S), NEW j \in 1 .. Len(S), OnKs(S[i]), OnKs(S[j]), S[i].fr = S[j].fr
  PROVE  i = j
<1>1. /\ FramesUpTo(S, i) <= Len(K) /\ K[FramesUpTo(S, i)] = S[i].fr
      /\ FramesUpTo(S, j) <= Len(K) /\ K[FramesUpTo(S, j)] = S[j].fr
  BY DEF FramesFollow
<1>2. i \in Nat /\ j \in Nat /\ i > 0 /\ j > 0 /\ Len(K) \in Nat
  BY LenProperties
<1>3. /\ FramesUpTo(S, i) \in Nat /\ FramesUpTo(S, j) \in Nat
      /\ FramesUpTo(S, 0) = 0
      /\ FramesUpTo(S, 0) < FramesUpTo(S, i) /\ FramesUpTo(S, 0) < FramesUpTo(S, j)
  BY <1>2, FramesStep, FramesMonotone
<1>4. FramesUpTo(S, i) = FramesUpTo(S, j)
  BY <1>1, <1>2, <1>3
<1>5. CASE i < j
  BY <1>2, <1>3, <1>4, <1>5, FramesMonotone
<1>6. CASE j < i
  BY <1>2, <1>3, <1>4, <1>6, FramesMonotone
<1> QED
  BY <1>2, <1>5, <1>6

----------------------------------------------------------------------------
(* The inference runs on the C stack.                                      *)

\* The depth and the driver's state are those of the runs of the C stack S.
RunsAre(S, d, l) ==
  /\ d = RunsUpTo(S, Len(S)) /\ l = d
  /\ \A m \in 1 .. Len(S) : S[m].t = "lw" => S[m].lw = RunsUpTo(S, m - 1)

\* The runs of a stack with one activation more.
LEMMA GrownRuns ==
  ASSUME NEW S, NEW T, NEW n, NEW c, Grown(S, T, n, c)
  PROVE  /\ \A i \in 0 .. n : RunsUpTo(T, i) = RunsUpTo(S, i) /\ RunsUpTo(S, i) \in Nat
         /\ RunsUpTo(T, n + 1) = RunsUpTo(S, n) + (IF c.t = "lw" THEN 1 ELSE 0)
<1>1. n \in Nat /\ (\A i \in 1 .. n : T[i] = S[i]) /\ T[n + 1] = c
  BY DEF Grown
<1>2. ASSUME NEW i \in 0 .. n PROVE RunsUpTo(T, i) = RunsUpTo(S, i) /\ RunsUpTo(S, i) \in Nat
  <2>1. i \in Nat /\ \A j \in 1 .. i : (T[j].t = "lw") <=> (S[j].t = "lw")
    BY <1>1
  <2> QED
    BY <2>1, RunsSame, RunsStep
<1>3. RunsUpTo(T, n + 1) = RunsUpTo(T, n) + (IF T[n + 1].t = "lw" THEN 1 ELSE 0)
  BY <1>1, RunsStep
<1> QED
  BY <1>1, <1>2, <1>3

\* An activation is pushed: the depth and the driver change only for a run.
LEMMA RunsPush ==
  ASSUME NEW S, NEW T, NEW n, NEW c, Grown(S, T, n, c), NEW d, NEW l, RunsAre(S, d, l),
         c.t = "lw" => c.lw = l
  PROVE  /\ d \in Nat
         /\ c.t # "lw" => RunsAre(T, d, l)
         /\ c.t = "lw" => RunsAre(T, d + 1, d + 1)
<1>1. n \in Nat /\ Len(S) = n /\ Len(T) = n + 1 /\ (\A i \in 1 .. n : T[i] = S[i]) /\ T[n + 1] = c
  BY DEF Grown
<1>2. /\ \A i \in 0 .. n : RunsUpTo(T, i) = RunsUpTo(S, i) /\ RunsUpTo(S, i) \in Nat
      /\ RunsUpTo(T, n + 1) = RunsUpTo(S, n) + (IF c.t = "lw" THEN 1 ELSE 0)
  BY GrownRuns
<1>3. d = RunsUpTo(S, n) /\ l = d /\ d \in Nat
  BY <1>1, <1>2 DEF RunsAre
<1>4. ASSUME NEW m \in 1 .. n + 1, T[m].t = "lw" PROVE T[m].lw = RunsUpTo(T, m - 1)
  <2>1. CASE m \in 1 .. n
    <3>1. m - 1 \in 0 .. n /\ T[m] = S[m] /\ m \in 1 .. Len(S)
      BY <1>1, <2>1
    <3>2. S[m].lw = RunsUpTo(S, m - 1)
      BY <1>4, <3>1 DEF RunsAre
    <3> QED
      BY <1>2, <3>1, <3>2
  <2>2. CASE m = n + 1
    <3>1. m - 1 = n /\ T[m] = c
      BY <1>1, <2>2
    <3>2. n \in 0 .. n
      BY <1>1
    <3> QED
      BY <1>2, <1>3, <1>4, <3>1, <3>2
  <2> QED
    BY <1>1, <2>1, <2>2
<1>5. c.t # "lw" => RunsUpTo(T, Len(T)) = d
  BY <1>1, <1>2, <1>3
<1>6. c.t = "lw" => RunsUpTo(T, Len(T)) = d + 1
  BY <1>1, <1>2, <1>3
<1> QED
  BY <1>1, <1>3, <1>4, <1>5, <1>6 DEF RunsAre

\* The top activation goes: a run gives back the state it saved.
LEMMA RunsPop ==
  ASSUME NEW S, NEW T, NEW n, NEW c, Grown(T, S, n, c), NEW d, NEW l, RunsAre(S, d, l)
  PROVE  /\ d \in Nat
         /\ c.t # "lw" => RunsAre(T, d, l)
         /\ c.t = "lw" => RunsAre(T, d - 1, c.lw)
<1>1. n \in Nat /\ Len(T) = n /\ Len(S) = n + 1 /\ (\A i \in 1 .. n : S[i] = T[i]) /\ S[n + 1] = c
  BY DEF Grown
<1>2. /\ \A i \in 0 .. n : RunsUpTo(S, i) = RunsUpTo(T, i) /\ RunsUpTo(T, i) \in Nat
      /\ RunsUpTo(S, n + 1) = RunsUpTo(T, n) + (IF c.t = "lw" THEN 1 ELSE 0)
  BY GrownRuns
<1>3. d = RunsUpTo(S, n + 1) /\ l = d /\ n \in 0 .. n
  BY <1>1 DEF RunsAre
<1>4. ASSUME NEW m \in 1 .. n, T[m].t = "lw" PROVE T[m].lw = RunsUpTo(T, m - 1)
  <2>1. m - 1 \in 0 .. n /\ T[m] = S[m] /\ m \in 1 .. Len(S)
    BY <1>1
  <2>2. S[m].lw = RunsUpTo(S, m - 1)
    BY <1>4, <2>1 DEF RunsAre
  <2> QED
    BY <1>2, <2>1, <2>2
<1>5. RunsUpTo(T, n) \in Nat
  BY <1>2, <1>3
<1>6. c.t = "lw" => c.lw = RunsUpTo(T, n)
  <2>1. n + 1 \in 1 .. Len(S) /\ (n + 1) - 1 = n
    BY <1>1
  <2>2. c.t = "lw" => S[n + 1].lw = RunsUpTo(S, (n + 1) - 1)
    BY <1>1, <2>1 DEF RunsAre
  <2> QED
    BY <1>1, <1>2, <1>3, <2>1, <2>2
<1>7. c.t # "lw" => d = RunsUpTo(T, n)
  BY <1>2, <1>3, <1>5
<1>8. c.t = "lw" => d - 1 = RunsUpTo(T, n)
  BY <1>2, <1>3, <1>5
<1>9. d \in Nat
  BY <1>2, <1>3, <1>5
<1> QED
  BY <1>1, <1>3, <1>4, <1>6, <1>7, <1>8, <1>9 DEF RunsAre

----------------------------------------------------------------------------
(* A suspension has its handler on the C stack, inside of every run and    *)
(* outside of no clause in progress.                                       *)

Suspends(S, k, m) ==
  m = "susp" => \E s \in 1 .. Len(S) : /\ S[s].t = "handle" /\ S[s].fr = k
                                       /\ \A i \in s .. Len(S) : S[i].t \notin {"perform", "lw"}

\* A suspension passes an activation that is not its handler.
LEMMA SuspendsPop ==
  ASSUME NEW S, NEW T, NEW n, NEW c, Grown(T, S, n, c), NEW k, Suspends(S, k, "susp"),
         c.t = "handle" => c.fr # k
  PROVE  Suspends(T, k, "susp")
<1>1. n \in Nat /\ Len(T) = n /\ Len(S) = n + 1 /\ (\A i \in 1 .. n : S[i] = T[i]) /\ S[n + 1] = c
  BY DEF Grown
<1>2. PICK s \in 1 .. n + 1 : /\ S[s].t = "handle" /\ S[s].fr = k
                              /\ \A i \in s .. n + 1 : S[i].t \notin {"perform", "lw"}
  BY <1>1 DEF Suspends
<1>3. s \in 1 .. n
  BY <1>1, <1>2
<1>4. T[s].t = "handle" /\ T[s].fr = k /\ \A i \in s .. n : T[i].t \notin {"perform", "lw"}
  BY <1>1, <1>2, <1>3
<1> QED
  BY <1>1, <1>3, <1>4 DEF Suspends

\* A captured activation waits to be entered only on top, while a value returns.
EnterOnTop(S, m) == \A i \in 1 .. Len(S) : S[i].t = "enter" => i = Len(S) /\ m = "ret"
Entering(S) == {S[i].fr : i \in {j \in 1 .. Len(S) : S[j].t = "enter"}}

\* A push while code runs leaves nobody waiting to be entered.
LEMMA EnterPush ==
  ASSUME NEW S, NEW T, NEW n, NEW c, Grown(S, T, n, c), NEW m, m # "ret", EnterOnTop(S, m), c.t # "enter"
  PROVE  Entering(S) = {} /\ Entering(T) = {} /\ \A o : EnterOnTop(T, o)
<1>1. n \in Nat /\ Len(S) = n /\ Len(T) = n + 1 /\ (\A i \in 1 .. n : T[i] = S[i]) /\ T[n + 1] = c
  BY DEF Grown
<1>2. \A i \in 1 .. n : S[i].t # "enter"
  BY <1>1 DEF EnterOnTop
<1>3. \A i \in 1 .. n + 1 : T[i].t # "enter"
  BY <1>1, <1>2
<1> QED
  BY <1>1, <1>2, <1>3 DEF Entering, EnterOnTop

\* Below the top nobody waits to be entered.
LEMMA EnterPop ==
  ASSUME NEW S, NEW T, NEW n, NEW c, Grown(T, S, n, c), NEW m, EnterOnTop(S, m)
  PROVE  /\ Entering(T) = {} /\ \A o : EnterOnTop(T, o)
         /\ Entering(S) = IF c.t = "enter" THEN {c.fr} ELSE {}
<1>1. n \in Nat /\ Len(T) = n /\ Len(S) = n + 1 /\ (\A i \in 1 .. n : S[i] = T[i]) /\ S[n + 1] = c
  BY DEF Grown
<1>2. \A i \in 1 .. n : S[i].t # "enter" /\ T[i].t # "enter"
  BY <1>1 DEF EnterOnTop
<1>3. Entering(T) = {} /\ \A o : EnterOnTop(T, o)
  BY <1>1, <1>2 DEF Entering, EnterOnTop
<1>4. {j \in 1 .. Len(S) : S[j].t = "enter"} = IF c.t = "enter" THEN {n + 1} ELSE {}
  BY <1>1, <1>2
<1>5. Entering(S) = IF c.t = "enter" THEN {c.fr} ELSE {}
  BY <1>1, <1>4 DEF Entering
<1> QED
  BY <1>3, <1>5

\* Nobody waits to be entered unless a value returns.
LEMMA EnterNone ==
  ASSUME NEW S, NEW m, m # "ret", EnterOnTop(S, m)
  PROVE  Entering(S) = {} /\ \A o : EnterOnTop(S, o)
BY DEF EnterOnTop, Entering

----------------------------------------------------------------------------
(* Who holds a frame.                                                      *)

OnStack(K, f) == \E i \in 1 .. Len(K) : K[i] = f
InResumption(R, f) == \E r \in ResIds : \E i \in 1 .. Len(R[r].frames) : R[r].frames[i] = f
Distinct(K) == \A i, j \in 1 .. Len(K) : K[i] = K[j] => i = j
Apart(R) == \A q, r \in ResIds : \A i \in 1 .. Len(R[q].frames), j \in 1 .. Len(R[r].frames) :
                R[q].frames[i] = R[r].frames[j] => q = r /\ i = j

\* Every allocated frame is held once: by the frame stack K, by a resumption
\* of R, or by an activation of E that waits to be entered.
Owned(K, R, E, H) ==
  /\ Distinct(K) /\ Apart(R)
  /\ \A f \in Frames : /\ ~(OnStack(K, f) /\ InResumption(R, f))
                       /\ f \in E => ~OnStack(K, f) /\ ~InResumption(R, f)
                       /\ H[f] # Free <=> OnStack(K, f) \/ InResumption(R, f) \/ f \in E

\* A fresh frame is pushed on the frame stack.
LEMMA OwnedPush ==
  ASSUME NEW K \in Seq(Frames), NEW R, NEW E, NEW H, Owned(K, R, E, H), NEW f \in Frames, H[f] = Free,
         NEW I, \A g \in Frames : IF g = f THEN I[g] # Free ELSE I[g] = H[g],
         NEW L, L = Append(K, f)
  PROVE  Owned(L, R, E, I)
<1>1. /\ Len(K) \in Nat /\ Len(L) = Len(K) + 1 /\ L[Len(K) + 1] = f /\ \A i \in 1 .. Len(K) : L[i] = K[i]
  BY AppendProperties, LenProperties
<1>2. ~OnStack(K, f) /\ ~InResumption(R, f) /\ f \notin E
  BY DEF Owned
<1>3. ASSUME NEW g \in Frames PROVE OnStack(L, g) <=> g = f \/ OnStack(K, g)
  <2>1. OnStack(K, g) => OnStack(L, g)
    BY <1>1 DEF OnStack
  <2>2. OnStack(L, f)
    <3>1. Len(K) + 1 \in 1 .. Len(L)
      BY <1>1
    <3> QED
      BY <1>1, <3>1 DEF OnStack
  <2>3. ASSUME OnStack(L, g), g # f PROVE OnStack(K, g)
    <3>1. PICK i \in 1 .. Len(L) : L[i] = g
      BY <2>3 DEF OnStack
    <3>2. i \in 1 .. Len(K)
      BY <1>1, <2>3, <3>1
    <3> QED
      BY <1>1, <3>1, <3>2 DEF OnStack
  <2> QED
    BY <2>1, <2>2, <2>3
<1>4. Distinct(L)
  <2>1. ASSUME NEW i \in 1 .. Len(L), NEW j \in 1 .. Len(L), L[i] = L[j] PROVE i = j
    <3>1. CASE i \in 1 .. Len(K) /\ j \in 1 .. Len(K)
      BY <1>1, <2>1, <3>1 DEF Owned, Distinct
    <3>2. CASE i \in 1 .. Len(K) /\ j = Len(K) + 1
      BY <1>1, <1>2, <2>1, <3>2 DEF OnStack
    <3>3. CASE j \in 1 .. Len(K) /\ i = Len(K) + 1
      BY <1>1, <1>2, <2>1, <3>3 DEF OnStack
    <3>4. CASE j = Len(K) + 1 /\ i = Len(K) + 1
      BY <3>4
    <3> QED
      BY <1>1, <3>1, <3>2, <3>3, <3>4
  <2> QED
    BY <2>1 DEF Distinct
<1> QED
  BY <1>2, <1>3, <1>4 DEF Owned

\* The top frame is popped and freed.
LEMMA OwnedPop ==
  ASSUME NEW K \in Seq(Frames), NEW R, NEW E, NEW H, Owned(K, R, E, H), Len(K) # 0,
         NEW f \in Frames, f = K[Len(K)],
         NEW I, \A g \in Frames : I[g] = IF g = f THEN Free ELSE H[g],
         NEW L, L = SubSeq(K, 1, Len(K) - 1)
  PROVE  Owned(L, R, E, I)
<1>0. Len(K) \in Nat /\ Len(K) \in 1 .. Len(K) + 1 /\ Len(K) \in 1 .. Len(K)
  BY LenProperties
<1>1. Len(L) = Len(K) - 1 /\ \A i \in 1 .. Len(K) - 1 : L[i] = K[i]
  BY <1>0, SplitAt, ZenonT(40)
<1>2. OnStack(K, f) /\ ~InResumption(R, f) /\ f \notin E
  <2>1. OnStack(K, f)
    BY <1>0 DEF OnStack
  <2> QED
    BY <2>1 DEF Owned
<1>3. ASSUME NEW g \in Frames PROVE OnStack(L, g) <=> g # f /\ OnStack(K, g)
  <2>1. ASSUME OnStack(L, g) PROVE OnStack(K, g) /\ g # f
    <3>1. PICK i \in 1 .. Len(L) : L[i] = g
      BY <2>1 DEF OnStack
    <3>2. i \in 1 .. Len(K) /\ i # Len(K) /\ K[i] = g
      BY <1>0, <1>1, <3>1
    <3>3. g # f
      BY <1>0, <3>2 DEF Owned, Distinct
    <3> QED
      BY <3>2, <3>3 DEF OnStack
  <2>2. ASSUME OnStack(K, g), g # f PROVE OnStack(L, g)
    <3>1. PICK i \in 1 .. Len(K) : K[i] = g
      BY <2>2 DEF OnStack
    <3>2. i \in 1 .. Len(L)
      BY <1>0, <1>1, <2>2, <3>1
    <3> QED
      BY <1>1, <3>1, <3>2 DEF OnStack
  <2> QED
    BY <2>1, <2>2
<1>4. Distinct(L)
  BY <1>0, <1>1 DEF Owned, Distinct
<1> QED
  BY <1>2, <1>3, <1>4 DEF Owned

\* The frame of the activation that waited is freed.
LEMMA OwnedEntered ==
  ASSUME NEW K, NEW R, NEW H, NEW f \in Frames, Owned(K, R, {f}, H),
         NEW I, \A g \in Frames : I[g] = IF g = f THEN Free ELSE H[g]
  PROVE  Owned(K, R, {}, I)
BY DEF Owned

\* Only the frames of resumptions matter.
LEMMA OwnedSame ==
  ASSUME NEW K, NEW R, NEW E, NEW H, Owned(K, R, E, H), NEW Q, \A r \in ResIds : Q[r].frames = R[r].frames
  PROVE  Owned(K, Q, E, H)
<1>1. \A f \in Frames : InResumption(Q, f) <=> InResumption(R, f)
  BY DEF InResumption
<1>2. Apart(Q)
  BY SMTT(30) DEF Owned, Apart
<1> QED
  BY <1>1, <1>2 DEF Owned

\* The top of the frame stack becomes a resumption.
LEMMA OwnedSlice ==
  ASSUME NEW K \in Seq(Frames), NEW R, NEW E, NEW H, Owned(K, R, E, H), NEW p \in 1 .. Len(K),
         NEW r \in ResIds, Len(R[r].frames) = 0, NEW Q, Q[r].frames = SubSeq(K, p, Len(K)),
         \A q \in ResIds : q # r => Q[q].frames = R[q].frames, NEW L, L = SubSeq(K, 1, p - 1)
  PROVE  Owned(L, Q, E, H)
<1>0. Len(K) \in Nat /\ p \in 1 .. Len(K) + 1 /\ p \in Nat
  BY LenProperties
<1>1. PICK u : u = SubSeq(K, p, Len(K))
  OBVIOUS
<1>2. /\ Len(L) = p - 1 /\ \A i \in 1 .. p - 1 : L[i] = K[i]
      /\ Len(u) = Len(K) - (p - 1) /\ \A i \in 1 .. Len(u) : u[i] = K[p - 1 + i] /\ p - 1 + i \in 1 .. Len(K)
  <2>1. /\ Len(L) = p - 1 /\ \A i \in 1 .. p - 1 : L[i] = K[i]
    BY <1>0, SplitAt
  <2>2. /\ Len(u) = Len(K) - (p - 1)
        /\ \A i \in 1 .. Len(K) - (p - 1) : u[i] = K[p - 1 + i] /\ p - 1 + i \in 1 .. Len(K)
    BY ONLY <1>0, <1>1, K \in Seq(Frames), SplitAt
  <2> QED
    BY ONLY <2>1, <2>2
<1>3. Q[r].frames = u
  BY <1>1
<1>4. ASSUME NEW f \in Frames
      PROVE  /\ OnStack(K, f) <=> OnStack(L, f) \/ OnStack(u, f)
             /\ ~(OnStack(L, f) /\ OnStack(u, f))
             /\ InResumption(Q, f) <=> InResumption(R, f) \/ OnStack(u, f)
  <2>1. ASSUME OnStack(K, f) PROVE OnStack(L, f) \/ OnStack(u, f)
    <3>1. PICK i \in 1 .. Len(K) : K[i] = f
      BY <2>1 DEF OnStack
    <3>2. CASE i <= p - 1
      <4>1. i \in 1 .. Len(L) /\ L[i] = f
        BY <1>0, <1>2, <3>1, <3>2
      <4> QED
        BY <4>1 DEF OnStack
    <3>3. CASE i > p - 1
      <4>1. i - (p - 1) \in 1 .. Len(u) /\ p - 1 + (i - (p - 1)) = i
        BY <1>0, <1>2, <3>3
      <4>2. u[i - (p - 1)] = f
        BY <1>2, <3>1, <4>1
      <4> QED
        BY <4>1, <4>2 DEF OnStack
    <3> QED
      BY <1>0, <3>2, <3>3
  <2>2. OnStack(L, f) => OnStack(K, f)
    BY <1>0, <1>2 DEF OnStack
  <2>3. OnStack(u, f) => OnStack(K, f)
    BY <1>2 DEF OnStack
  <2>4. ASSUME OnStack(L, f), OnStack(u, f) PROVE FALSE
    <3>1. PICK i \in 1 .. Len(L) : L[i] = f
      BY <2>4 DEF OnStack
    <3>2. PICK j \in 1 .. Len(u) : u[j] = f
      BY <2>4 DEF OnStack
    <3>3. K[i] = f /\ i \in 1 .. Len(K) /\ K[p - 1 + j] = f /\ p - 1 + j \in 1 .. Len(K)
      BY <1>0, <1>2, <3>1, <3>2
    <3>4. i = p - 1 + j
      BY <3>3 DEF Owned, Distinct
    <3> QED
      BY <1>0, <1>2, <3>4
  <2>5. ASSUME InResumption(Q, f) PROVE InResumption(R, f) \/ OnStack(u, f)
    <3>1. PICK q \in ResIds : \E i \in 1 .. Len(Q[q].frames) : Q[q].frames[i] = f
      BY <2>5 DEF InResumption
    <3> QED
      BY <1>3, <3>1 DEF InResumption, OnStack
  <2>6. ASSUME InResumption(R, f) PROVE InResumption(Q, f)
    <3>1. PICK q \in ResIds : \E i \in 1 .. Len(R[q].frames) : R[q].frames[i] = f
      BY <2>6 DEF InResumption
    <3>2. q # r
      BY <3>1
    <3> QED
      BY <3>1, <3>2 DEF InResumption
  <2>7. OnStack(u, f) => InResumption(Q, f)
    BY <1>3 DEF InResumption, OnStack
  <2> QED
    BY <2>1, <2>2, <2>3, <2>4, <2>5, <2>6, <2>7
<1>5. Distinct(L)
  <2>1. ASSUME NEW i \in 1 .. Len(L), NEW j \in 1 .. Len(L), L[i] = L[j] PROVE i = j
    <3>1. i \in 1 .. p - 1 /\ j \in 1 .. p - 1 /\ i \in 1 .. Len(K) /\ j \in 1 .. Len(K)
      BY ONLY <1>0, <1>2, i \in 1 .. Len(L), j \in 1 .. Len(L)
    <3>2. K[i] = K[j]
      BY ONLY <1>2, <2>1, <3>1
    <3> QED
      BY <3>1, <3>2 DEF Owned, Distinct
  <2> QED
    BY <2>1 DEF Distinct
<1>6. Distinct(u)
  <2>1. ASSUME NEW i \in 1 .. Len(u), NEW j \in 1 .. Len(u), u[i] = u[j] PROVE i = j
    <3>1. K[p - 1 + i] = K[p - 1 + j] /\ p - 1 + i \in 1 .. Len(K) /\ p - 1 + j \in 1 .. Len(K)
      BY <1>2, <2>1
    <3>2. p - 1 + i = p - 1 + j
      BY <3>1 DEF Owned, Distinct
    <3> QED
      BY <1>0, <1>2, <3>2
  <2> QED
    BY <2>1 DEF Distinct
<1>7. Apart(Q)
  <2>1. ASSUME NEW q \in ResIds, NEW s \in ResIds, NEW i \in 1 .. Len(Q[q].frames),
               NEW j \in 1 .. Len(Q[s].frames), Q[q].frames[i] = Q[s].frames[j]
        PROVE  q = s /\ i = j
    <3>1. CASE q = r /\ s = r
      BY <1>3, <1>6, <2>1, <3>1 DEF Distinct
    <3>2. CASE q # r /\ s # r
      <4>1. Q[q].frames = R[q].frames /\ Q[s].frames = R[s].frames
        BY <3>2
      <4>2. i \in 1 .. Len(R[q].frames) /\ j \in 1 .. Len(R[s].frames) /\ R[q].frames[i] = R[s].frames[j]
        BY <2>1, <4>1
      <4>3. Apart(R)
        BY DEF Owned
      <4> QED
        BY ONLY <4>2, <4>3, q \in ResIds, s \in ResIds DEF Apart
    <3>3. ASSUME NEW a \in ResIds, NEW k \in 1 .. Len(Q[a].frames), NEW l \in 1 .. Len(u), a # r,
                 Q[a].frames[k] = u[l]
          PROVE  FALSE
      <4>1. u[l] \in Frames /\ OnStack(K, u[l])
        <5>1. u[l] = K[p - 1 + l] /\ p - 1 + l \in 1 .. Len(K)
          BY <1>2
        <5> QED
          BY <5>1, ElementOfSeq DEF OnStack
      <4>2. InResumption(R, u[l])
        BY <3>3 DEF InResumption
      <4> QED
        BY <4>1, <4>2 DEF Owned
    <3> QED
      BY <1>3, <2>1, <3>1, <3>2, <3>3
  <2> QED
    BY <2>1 DEF Apart
<1> QED
  BY <1>4, <1>5, <1>7 DEF Owned

\* A resumption goes, and its frames with it.
LEMMA OwnedDrop ==
  ASSUME NEW K, NEW R, NEW E, NEW H, Owned(K, R, E, H), NEW r \in ResIds, NEW Q, Len(Q[r].frames) = 0,
         \A q \in ResIds : q # r => Q[q].frames = R[q].frames,
         NEW I, \A f \in Frames : I[f] = IF \E i \in 1 .. Len(R[r].frames) : R[r].frames[i] = f THEN Free ELSE H[f]
  PROVE  Owned(K, Q, E, I)
<1>1. Apart(Q)
  <2>1. ASSUME NEW q \in ResIds, NEW s \in ResIds, NEW i \in 1 .. Len(Q[q].frames),
               NEW j \in 1 .. Len(Q[s].frames), Q[q].frames[i] = Q[s].frames[j]
        PROVE  q = s /\ i = j
    <3>1. q # r /\ s # r
      OBVIOUS
    <3> QED
      BY <2>1, <3>1, SMTT(30) DEF Owned, Apart
  <2> QED
    BY <2>1 DEF Apart
<1>2. ASSUME NEW f \in Frames
      PROVE  InResumption(Q, f) <=> InResumption(R, f) /\ ~\E i \in 1 .. Len(R[r].frames) : R[r].frames[i] = f
  <2>1. ASSUME InResumption(Q, f) PROVE InResumption(R, f) /\ ~\E i \in 1 .. Len(R[r].frames) : R[r].frames[i] = f
    <3>1. PICK q \in ResIds : \E i \in 1 .. Len(Q[q].frames) : Q[q].frames[i] = f
      BY <2>1 DEF InResumption
    <3>2. q # r /\ \E i \in 1 .. Len(R[q].frames) : R[q].frames[i] = f
      BY <3>1
    <3> QED
      BY <3>2 DEF InResumption, Owned, Apart
  <2>2. ASSUME InResumption(R, f), ~\E i \in 1 .. Len(R[r].frames) : R[r].frames[i] = f PROVE InResumption(Q, f)
    <3>1. PICK q \in ResIds : \E i \in 1 .. Len(R[q].frames) : R[q].frames[i] = f
      BY <2>2 DEF InResumption
    <3>2. q # r
      BY <2>2, <3>1
    <3> QED
      BY <3>1, <3>2 DEF InResumption
  <2> QED
    BY <2>1, <2>2
<1>3. ASSUME NEW f \in Frames, \E i \in 1 .. Len(R[r].frames) : R[r].frames[i] = f PROVE InResumption(R, f)
  BY <1>3 DEF InResumption
<1> QED
  BY <1>1, <1>2, <1>3 DEF Owned

\* Fresh frames go on the stack, the innermost ones to activations that wait.
LEMMA OwnedLink ==
  ASSUME NEW K \in Seq(Frames), NEW R, NEW H, Owned(K, R, {}, H), NEW ids \in Seq(Frames), Distinct(ids),
         \A i \in 1 .. Len(ids) : H[ids[i]] = Free, NEW k \in 0 .. Len(ids),
         NEW I, \A f \in Frames : IF OnStack(ids, f) THEN I[f] # Free ELSE I[f] = H[f],
         NEW L, L = K \o SubSeq(ids, 1, k), NEW E, E = {ids[i] : i \in k + 1 .. Len(ids)}
  PROVE  Owned(L, R, E, I)
<1>0. Len(K) \in Nat /\ Len(ids) \in Nat /\ k + 1 \in 1 .. Len(ids) + 1 /\ k \in Nat /\ (k + 1) - 1 = k
  BY LenProperties
<1>1. PICK u : u = SubSeq(ids, 1, k)
  OBVIOUS
<1>2. u \in Seq(Frames) /\ Len(u) = k /\ \A i \in 1 .. k : u[i] = ids[i]
  <2>1. /\ SubSeq(ids, 1, (k + 1) - 1) \in Seq(Frames) /\ Len(SubSeq(ids, 1, (k + 1) - 1)) = (k + 1) - 1
        /\ \A p \in 1 .. (k + 1) - 1 : SubSeq(ids, 1, (k + 1) - 1)[p] = ids[p]
    BY ONLY <1>0, ids \in Seq(Frames), SplitAt
  <2> QED
    BY ONLY <1>0, <1>1, <2>1
<1>3. /\ Len(L) = Len(K) + k /\ (\A i \in 1 .. Len(K) : L[i] = K[i])
      /\ \A i \in 1 .. k : L[Len(K) + i] = ids[i]
  <2>1. /\ Len(L) = Len(K) + k
        /\ \A i \in 1 .. Len(K) + k : L[i] = IF i <= Len(K) THEN K[i] ELSE u[i - Len(K)]
    BY <1>1, <1>2, ConcatProperties
  <2>2. \A i \in 1 .. Len(K) : i \in 1 .. Len(K) + k /\ i <= Len(K)
    BY <1>0
  <2>3. \A i \in 1 .. k : Len(K) + i \in 1 .. Len(K) + k /\ ~(Len(K) + i <= Len(K)) /\ (Len(K) + i) - Len(K) = i
    BY <1>0
  <2> QED
    BY ONLY <1>2, <2>1, <2>2, <2>3
<1>4. \A i \in 1 .. Len(ids) : ids[i] \in Frames /\ ~OnStack(K, ids[i]) /\ ~InResumption(R, ids[i])
  BY ElementOfSeq DEF Owned
<1>5. ASSUME NEW f \in Frames
      PROVE  /\ OnStack(L, f) <=> OnStack(K, f) \/ \E i \in 1 .. k : ids[i] = f
             /\ OnStack(ids, f) <=> f \in E \/ \E i \in 1 .. k : ids[i] = f
             /\ ~(f \in E /\ \E i \in 1 .. k : ids[i] = f)
  <2>1. ASSUME OnStack(L, f) PROVE OnStack(K, f) \/ \E i \in 1 .. k : ids[i] = f
    <3>1. PICK i \in 1 .. Len(L) : L[i] = f
      BY <2>1 DEF OnStack
    <3>2. CASE i <= Len(K)
      BY <1>0, <1>3, <3>1, <3>2 DEF OnStack
    <3>3. CASE i > Len(K)
      <4>1. i - Len(K) \in 1 .. k /\ Len(K) + (i - Len(K)) = i
        BY <1>0, <1>3, <3>3
      <4> QED
        BY <1>3, <3>1, <4>1
    <3> QED
      BY <1>0, <1>3, <3>2, <3>3
  <2>2. OnStack(K, f) => OnStack(L, f)
    BY <1>0, <1>3 DEF OnStack
  <2>3. ASSUME NEW i \in 1 .. k, ids[i] = f PROVE OnStack(L, f)
    <3>1. Len(K) + i \in 1 .. Len(L)
      BY <1>0, <1>3
    <3> QED
      BY <1>3, <2>3, <3>1 DEF OnStack
  <2>4. OnStack(ids, f) <=> f \in E \/ \E i \in 1 .. k : ids[i] = f
    <3>1. f \in E <=> \E i \in k + 1 .. Len(ids) : ids[i] = f
      OBVIOUS
    <3>2. \A i : i \in 1 .. Len(ids) <=> i \in 1 .. k \/ i \in k + 1 .. Len(ids)
      BY <1>0
    <3> QED
      BY ONLY <3>1, <3>2 DEF OnStack
  <2>5. ~(f \in E /\ \E i \in 1 .. k : ids[i] = f)
    BY <1>0 DEF Distinct
  <2> QED
    BY <2>1, <2>2, <2>3, <2>4, <2>5
<1>6. Distinct(L)
  <2>1. ASSUME NEW i \in 1 .. Len(L), NEW j \in 1 .. Len(L), L[i] = L[j] PROVE i = j
    <3>1. CASE i <= Len(K) /\ j <= Len(K)
      BY <1>0, <1>3, <2>1, <3>1 DEF Owned, Distinct
    <3>2. ASSUME NEW a \in 1 .. Len(L), NEW b \in 1 .. Len(L), a <= Len(K), b > Len(K), L[a] = L[b] PROVE FALSE
      <4>1. b - Len(K) \in 1 .. k /\ Len(K) + (b - Len(K)) = b /\ b - Len(K) \in 1 .. Len(ids) /\ a \in 1 .. Len(K)
        BY <1>0, <1>3, <3>2
      <4>2. L[b] = ids[b - Len(K)] /\ L[a] = K[a]
        BY <1>3, <4>1
      <4> QED
        BY <1>4, <3>2, <4>1, <4>2 DEF OnStack
    <3>3. CASE i > Len(K) /\ j > Len(K)
      <4>1. /\ i - Len(K) \in 1 .. k /\ Len(K) + (i - Len(K)) = i /\ i - Len(K) \in 1 .. Len(ids)
            /\ j - Len(K) \in 1 .. k /\ Len(K) + (j - Len(K)) = j /\ j - Len(K) \in 1 .. Len(ids)
        BY <1>0, <1>3, <3>3
      <4>2. ids[i - Len(K)] = ids[j - Len(K)]
        BY <1>3, <2>1, <4>1
      <4>3. i - Len(K) = j - Len(K)
        BY <4>1, <4>2 DEF Distinct
      <4> QED
        BY ONLY <4>1, <4>3
    <3> QED
      BY <1>0, <1>3, <2>1, <3>1, <3>2, <3>3
  <2> QED
    BY <2>1 DEF Distinct
<1>7. \A f \in Frames : OnStack(ids, f) => H[f] = Free /\ ~OnStack(K, f) /\ ~InResumption(R, f)
  BY <1>4 DEF OnStack
<1> QED
  BY <1>5, <1>6, <1>7 DEF Owned

\* An activation that neither handles, hides nor runs leaves the entries alone.
LEMMA HsPopQuiet ==
  ASSUME NEW n \in Nat, NEW S \in Seq(Context), Len(S) = n + 1, NEW T, T = SubSeq(S, 1, n),
         NEW H, NEW x, NEW c, NEW f, HsIs(S, H, x, c, f), S[n + 1].t \in {"act", "enter", "rerun"}
  PROVE  HsIs(T, H, x, c, f)
<1>1. PICK d : d = S[n + 1]
  OBVIOUS
<1>2. Installed(d, H) = << >> /\ d.t \notin {"perform", "lw"}
  BY <1>1 DEF Installed
<1>3. PICK y \in Seq(Entry) : x = y \o Installed(d, H) /\ HsIs(T, H, y, c - CapturingIn(Installed(d, H)), f)
  BY <1>1, <1>2, HsPopPlain
<1>4. x = y
  BY ONLY <1>2, <1>3, ConcatEmptySeq
<1>5. c - CapturingIn(Installed(d, H)) = c
  <2>1. c \in Nat
    BY HsTyped
  <2> QED
    BY ONLY <1>2, <2>1, CapturingNone
<1> QED
  BY ONLY <1>3, <1>4, <1>5

\* A handler goes with its entries.
LEMMA HsPopHandle ==
  ASSUME NEW n \in Nat, NEW S \in Seq(Context), Len(S) = n + 1, NEW T, T = SubSeq(S, 1, n),
         NEW H, NEW x, NEW c, NEW f, HsIs(S, H, x, c, f), S[n + 1].t = "handle",
         NEW k, k = Len(Handlers[H[S[n + 1].fr].h])
  PROVE  HsIs(T, H, SubSeq(x, 1, Len(x) - k), c - CapturingIn(SubSeq(x, Len(x) - k + 1, Len(x))), f)
<1>1. PICK d : d = S[n + 1]
  OBVIOUS
<1>2. PICK e : e = Installed(d, H)
  OBVIOUS
<1>3. PICK y \in Seq(Entry) : e \in Seq(Entry) /\ x = y \o e /\ HsIs(T, H, y, c - CapturingIn(e), f)
  BY <1>1, <1>2, HsPopPlain
<1>4. PICK h, z : Levels(S, H, h, z)
  BY DEF HsIs
<1>5. Plain(d, H)
  <2>1. n + 1 \in 1 .. Len(S)
    OBVIOUS
  <2> QED
    BY <1>1, <1>4, <2>1 DEF Levels, LevelStep
<1>6. Len(e) = k
  <2>1. e = EntriesOf(H[d.fr].h, d.fr) /\ d.fr \in Frames /\ H[d.fr].h \in DOMAIN Handlers
    BY <1>1, <1>2, <1>5 DEF Installed, Plain
  <2>2. Len(e) = Len(Handlers[H[d.fr].h])
    BY ONLY <2>1, EntriesAre
  <2> QED
    BY <1>1, <2>2
<1>7. Len(y) \in Nat /\ Len(e) \in Nat /\ Len(x) = Len(y) + Len(e) /\ x \in Seq(Entry)
  BY <1>3, ConcatProperties, LenProperties
<1>8. SubSeq(x, 1, Len(x) - k) = y /\ SubSeq(x, Len(x) - k + 1, Len(x)) = e
  <2>1. \A i \in 1 .. Len(y) + Len(e) : x[i] = IF i <= Len(y) THEN y[i] ELSE e[i - Len(y)]
    <3>1. PICK V : V = Entry
      OBVIOUS
    <3>2. y \in Seq(V) /\ e \in Seq(V)
      BY ONLY <1>3, <3>1
    <3>3. \A i \in 1 .. Len(y) + Len(e) : (y \o e)[i] = IF i <= Len(y) THEN y[i] ELSE e[i - Len(y)]
      BY ONLY <3>2, ConcatProperties
    <3> QED
      BY ONLY <1>3, <3>3
  <2>2. PICK a : a = Len(x) - k + 1
    OBVIOUS
  <2>3. a \in 1 .. Len(x) + 1 /\ a - 1 = Len(x) - k /\ a - 1 = Len(y) /\ Len(x) - (a - 1) = Len(e)
    <3>1. PICK q, r, t : q = Len(x) /\ r = Len(y) /\ t = Len(e)
      OBVIOUS
    <3>2. r \in Nat /\ t \in Nat /\ q = r + t /\ a = q - t + 1 /\ k = t
      BY ONLY <1>6, <1>7, <2>2, <3>1
    <3>3. a \in 1 .. q + 1 /\ a - 1 = q - k /\ a - 1 = r /\ q - (a - 1) = t
      BY ONLY <3>2
    <3> QED
      BY ONLY <3>1, <3>3
  <2>4. PICK u, v : u = SubSeq(x, 1, a - 1) /\ v = SubSeq(x, a, Len(x))
    OBVIOUS
  <2>5. /\ u \in Seq(Entry) /\ Len(u) = a - 1 /\ \A p \in 1 .. a - 1 : u[p] = x[p] /\ p \in 1 .. Len(x)
    BY ONLY <1>7, <2>3, <2>4, SplitAt
  <2>6. /\ v \in Seq(Entry) /\ Len(v) = Len(x) - (a - 1)
        /\ \A p \in 1 .. Len(x) - (a - 1) : v[p] = x[a - 1 + p] /\ a - 1 + p \in 1 .. Len(x)
    BY ONLY <1>7, <2>3, <2>4, SplitAt
  <2>7. ASSUME NEW p \in 1 .. Len(u) PROVE u[p] = y[p]
    <3>1. p \in 1 .. Len(y) + Len(e) /\ p <= Len(y) /\ p \in 1 .. a - 1
      BY ONLY <1>7, <2>3, <2>5, p \in 1 .. Len(u)
    <3>2. u[p] = x[p]
      BY ONLY <2>5, <3>1
    <3> QED
      BY ONLY <2>1, <3>1, <3>2
  <2>8. ASSUME NEW p \in 1 .. Len(v) PROVE v[p] = e[p]
    <3>1. a - 1 + p \in 1 .. Len(y) + Len(e) /\ ~(a - 1 + p <= Len(y)) /\ (a - 1 + p) - Len(y) = p
      BY ONLY <1>7, <2>3, <2>6, p \in 1 .. Len(v)
    <3>2. v[p] = x[a - 1 + p]
      BY ONLY <2>6, p \in 1 .. Len(v)
    <3> QED
      BY ONLY <2>1, <3>1, <3>2
  <2>9. u = y
    <3>1. Len(u) = Len(y)
      BY ONLY <2>3, <2>5
    <3> QED
      BY ONLY <1>3, <2>5, <2>7, <3>1, SeqEqual
  <2>10. v = e
    <3>1. Len(v) = Len(e)
      BY ONLY <2>3, <2>6
    <3> QED
      BY ONLY <1>3, <2>6, <2>8, <3>1, SeqEqual
  <2> QED
    BY ONLY <2>2, <2>3, <2>4, <2>9, <2>10
<1> QED
  BY ONLY <1>3, <1>8

\* Only the frames on the frame stack matter.
LEMMA HsUnmoved ==
  ASSUME NEW S \in Seq(Context), NEW H, NEW x, NEW c, NEW f, HsIs(S, H, x, c, f),
         NEW K \in Seq(Frames), NEW m, FramesFollow(S, K, m), NEW I,
         \A g \in Frames : OnStack(K, g) => I[g] = H[g]
  PROVE  HsIs(S, I, x, c, f)
<1>1. ASSUME NEW i \in 1 .. Len(S), S[i].t = "handle" PROVE I[S[i].fr] = H[S[i].fr]
  <2>1. OnKs(S[i])
    BY <1>1 DEF OnKs
  <2>2. FramesUpTo(S, i) <= Len(K) /\ K[FramesUpTo(S, i)] = S[i].fr
    BY <2>1 DEF FramesFollow
  <2>3. i \in Nat /\ 0 \in Nat /\ 0 < i /\ 0 <= i /\ Len(K) \in Nat
    BY LenProperties
  <2>4. FramesUpTo(S, 0) < FramesUpTo(S, i) /\ FramesUpTo(S, 0) = 0 /\ FramesUpTo(S, i) \in Nat
    BY ONLY <2>1, <2>3, FramesMonotone, FramesStep
  <2>5. FramesUpTo(S, i) \in 1 .. Len(K)
    BY ONLY <2>2, <2>3, <2>4
  <2>6. S[i].fr \in Frames /\ OnStack(K, S[i].fr)
    BY <2>2, <2>5, ElementOfSeq DEF OnStack
  <2> QED
    BY <2>6
<1> QED
  BY <1>1, HsHeap

\* An empty C stack has no entries.
LEMMA HsEmpty ==
  ASSUME NEW H PROVE HsIs(<< >>, H, << >>, 0, 0)
<1> DEFINE h == [i \in {0} |-> << >>]
           z == [i \in {0} |-> 0]
<1>1. Len(<< >>) = 0 /\ << >> \in Seq(Entry)
  BY EmptySeq
<1>2. h[0] = << >> /\ z[0] = 0
  OBVIOUS
<1> HIDE DEF h, z
<1>3. Levels(<< >>, H, h, z)
  <2>1. \A i \in 0 .. 0 : i = 0
    OBVIOUS
  <2>2. \A i \in 0 .. 0 : h[i] \in Seq(Entry) /\ z[i] \in Nat
    <3>1. PICK e, V : e = << >> /\ V = Seq(Entry)
      OBVIOUS
    <3>2. e \in V /\ h[0] = e /\ z[0] \in Nat
      BY ONLY <1>1, <1>2, <3>1
    <3>3. \A i \in 0 .. 0 : h[i] \in V /\ z[i] \in Nat
      BY ONLY <2>1, <3>2
    <3> QED
      BY ONLY <3>1, <3>3
  <2>3. \A i \in 0 .. 0 : Len(h[i]) = 0
    BY <1>1, <1>2, <2>1
  <2>4. \A i \in 0 .. 0 : \A p \in 1 .. Len(h[i]) : \E s \in 1 .. i : SiteIs(<< >>, h, i, p, s)
    BY <2>3
  <2> QED
    <3>1. /\ \A i \in 1 .. 0 : FALSE
      OBVIOUS
    <3>2. PICK S : S = << >>
      OBVIOUS
    <3>3. /\ \A i \in 0 .. Len(S) : h[i] \in Seq(Entry) /\ z[i] \in Nat
          /\ \A i \in 0 .. Len(S) : \A p \in 1 .. Len(h[i]) : \E s \in 1 .. i : SiteIs(S, h, i, p, s)
      BY ONLY <1>1, <2>2, <2>4, <3>2
    <3>4. \A i \in 1 .. Len(S) : FALSE
      BY ONLY <1>1, <3>1, <3>2
    <3>5. Levels(S, H, h, z)
      BY ONLY <1>2, <3>3, <3>4 DEF Levels
    <3> QED
      BY ONLY <3>2, <3>5
<1>4. FloorIs(<< >>, h, 0, 0)
  BY DEF FloorIs
<1>5. 0 = CapturingIn(<< >>) + z[0]
  BY <1>2, CapturingNone
<1> QED
  BY <1>1, <1>2, <1>3, <1>4, <1>5 DEF HsIs

----------------------------------------------------------------------------
(* The inductive invariant.                                                *)

Descriptors == {Free} \cup {ActFrame(a) : a \in Labels} \cup {HfFrame(h) : h \in DOMAIN Handlers}
Modes == {"run", "ret", "susp", "finished", "unhandled", "stale capability", "E0902", "E0906"}
Typed ==
  /\ ks \in Seq(Frames) /\ stk \in Seq(Context) /\ Len(stk) <= MaxStk /\ mode \in Modes
  /\ heap \in [Frames -> Descriptors] /\ pending \in [mark : FrameIds, once : BOOLEAN]
  /\ res \in [ResIds -> [frames : Seq(Frames), once : BOOLEAN, used : BOOLEAN]]
  /\ \A r \in ResIds : res[r] # NoRes => res[r].frames # << >>
StacksInv ==
  /\ Typed /\ FramesFollow(stk, ks, mode) /\ Owned(ks, res, Entering(stk), heap)
  /\ EnterOnTop(stk, mode) /\ Suspends(stk, pending.mark, mode)
  /\ RunsAre(stk, depth, lw) /\ HsIs(stk, heap, hs, cap, floor)

\* The fields of a C activation by its kind.
LEMMA ContextIs ==
  ASSUME NEW c \in Context
  PROVE  /\ c.t \in {"act", "handle", "enter", "rerun", "perform", "lw"}
         /\ c.t \in {"handle", "enter", "rerun"} => c.fr \in Frames
         /\ OnKs(c) => c.fr \in Frames
         /\ c.t = "act" => c.fr \in FrameIds
         /\ c.t = "perform" => c.saved \in Seq(Entry) /\ c.hf \in Frames
         /\ c.t = "lw" => c.floor \in Nat /\ c.lw \in Nat
<1>1. c.t \in {"act", "handle", "enter", "rerun", "perform", "lw"}
  BY DEF Context
<1>2. c.t \in {"handle", "enter", "rerun"} => c.fr \in Frames
  BY DEF Context
<1>3. c.t = "act" => c.fr \in FrameIds
  BY DEF Context
<1>4. c.t = "perform" => c.saved \in Seq(Entry) /\ c.hf \in Frames
  BY DEF Context
<1>5. c.t = "lw" => c.floor \in Nat /\ c.lw \in Nat
  BY DEF Context
<1>6. OnKs(c) => c.fr \in Frames
  BY <1>2, <1>3 DEF OnKs, FrameIds
<1> QED
  BY <1>1, <1>2, <1>3, <1>4, <1>5, <1>6

\* There is a free frame when there is room for one.
LEMMA NewFrameIs ==
  ASSUME FreeFrames(1)
  PROVE  NewFrame \in Frames /\ heap[NewFrame] = Free
<1>1. CASE {f \in Frames : heap[f] = Free} = {}
  <2>1. Cardinality({f \in Frames : heap[f] = Free}) = 0
    BY <1>1, FS_EmptySet
  <2> QED
    BY <2>1 DEF FreeFrames
<1>2. CASE \E f \in Frames : heap[f] = Free
  BY <1>2 DEF NewFrame
<1> QED
  BY <1>1, <1>2

\* An activation that hides nothing and starts no run is called.
LEMMA PlainPushed ==
  ASSUME StacksInv, mode = "run", Room(1), NEW CONSTANT d, d \in Context, d.t \in {"act", "handle"}, stk' = Append(stk, d),
         heap' \in [Frames -> Descriptors],
         \/ /\ OnKs(d) /\ heap[d.fr] = Free /\ ks' = Append(ks, d.fr)
            /\ heap'[d.fr] # Free /\ \A g \in Frames : g # d.fr => heap'[g] = heap[g]
         \/ ~OnKs(d) /\ ks' = ks /\ heap' = heap,
         d.t = "handle" => heap'[d.fr].h \in DOMAIN Handlers,
         hs' = hs \o Installed(d, heap'), cap' = cap + CapturingIn(Installed(d, heap')),
         UNCHANGED <<pending, res, mode, run>>
  PROVE  StacksInv'
<1>1. /\ Typed /\ FramesFollow(stk, ks, mode) /\ Owned(ks, res, Entering(stk), heap)
      /\ EnterOnTop(stk, mode) /\ RunsAre(stk, depth, lw) /\ HsIs(stk, heap, hs, cap, floor)
  BY DEF StacksInv
<1>2. ks \in Seq(Frames) /\ stk \in Seq(Context)
  BY <1>1 DEF Typed
<1>3. Grown(stk, stk', Len(stk), d) /\ Len(stk) \in Nat
  BY ONLY <1>2, d \in Context, stk' = Append(stk, d), Pushed, LenProperties
<1>4. OnKs(d) => d.fr \in Frames
  BY ContextIs
<1>5. stk' \in Seq(Context) /\ Len(stk') = Len(stk) + 1
  BY ONLY <1>3 DEF Grown
<1>6. Typed'
  <2>1. ks' \in Seq(Frames)
    <3>1. CASE OnKs(d)
      <4>1. ks' = Append(ks, d.fr) /\ d.fr \in Frames
        BY <1>4, <3>1
      <4> QED
        BY ONLY <1>2, <4>1, AppendProperties
    <3>2. CASE ~OnKs(d)
      BY <1>2, <3>2
    <3> QED
      BY <3>1, <3>2
  <2>2. Len(stk') <= MaxStk
    BY <1>5 DEF Room
  <2> QED
    BY <1>1, <1>5, <2>1, <2>2 DEF Typed, run
<1>7. FramesFollow(stk', ks', mode')
  <2>1. mode # "susp" /\ (~OnKs(d) => ks' = ks) /\ (OnKs(d) => d.fr \in Frames /\ ks' = Append(ks, d.fr))
    BY <1>4
  <2> QED
    BY ONLY <1>1, <1>2, <1>3, <2>1, FollowPush
<1>8. /\ Entering(stk) = {} /\ Entering(stk') = {} /\ EnterOnTop(stk', mode')
  <2>1. mode # "ret" /\ d.t # "enter"
    OBVIOUS
  <2> QED
    BY ONLY <1>1, <1>3, <2>1, EnterPush
<1>9. Owned(ks', res', {}, heap')
  <2>1. Owned(ks, res, {}, heap) /\ res' = res
    BY <1>1, <1>8
  <2>2. CASE OnKs(d)
    <3>1. d.fr \in Frames /\ heap[d.fr] = Free /\ ks' = Append(ks, d.fr)
      BY <1>4, <2>2
    <3>2. \A g \in Frames : IF g = d.fr THEN heap'[g] # Free ELSE heap'[g] = heap[g]
      BY <2>2
    <3> QED
      BY ONLY <1>2, <2>1, <3>1, <3>2, OwnedPush
  <2>3. CASE ~OnKs(d)
    BY <2>1, <2>3
  <2> QED
    BY <2>2, <2>3
<1>10. Suspends(stk', pending'.mark, mode')
  BY DEF Suspends
<1>11. RunsAre(stk', depth', lw')
  <2>1. d.t # "lw" /\ depth' = depth /\ lw' = lw /\ (d.t = "lw" => d.lw = lw)
    BY DEF run
  <2> QED
    BY ONLY <1>1, <1>3, <2>1, RunsPush
<1>12. HsIs(stk', heap', hs', cap', floor')
  <2>1. \A g \in Frames : OnStack(ks, g) => heap'[g] = heap[g]
    BY <1>1 DEF Owned
  <2>2. HsIs(stk, heap', hs, cap, floor)
    BY ONLY <1>1, <1>2, <2>1, HsUnmoved
  <2>3. Plain(d, heap')
    <3>1. d.t = "handle" => d.fr \in Frames
      BY ContextIs
    <3> QED
      BY <3>1 DEF Plain
  <2>4. HsIs(stk', heap', hs \o Installed(d, heap'), cap + CapturingIn(Installed(d, heap')), floor)
    BY ONLY <1>2, <2>2, <2>3, d \in Context, stk' = Append(stk, d), HsPushPlain
  <2>5. floor' = floor
    BY DEF run
  <2> QED
    BY <2>4, <2>5
<1> QED
  BY <1>6, <1>7, <1>8, <1>9, <1>10, <1>11, <1>12 DEF StacksInv

\* A call keeps the invariant, with a saved frame or without.
LEMMA CallKeeps ==
  ASSUME StacksInv, NEW CONSTANT a \in Labels, Call(a)
  PROVE  StacksInv'
<1> USE DEF Call
<1>1. hs \in Seq(Entry) /\ cap \in Nat /\ heap \in [Frames -> Descriptors]
  <2>1. stk \in Seq(Context) /\ HsIs(stk, heap, hs, cap, floor) /\ heap \in [Frames -> Descriptors]
    BY DEF StacksInv, Typed
  <2> QED
    BY ONLY <2>1, HsTyped
<1>2. CASE cap > 0
  <2>1. PICK f : f = NewFrame
    OBVIOUS
  <2>2. f \in Frames /\ heap[f] = Free /\ f # 0
    <3>1. f \in Frames /\ heap[f] = Free
      BY <1>2, <2>1, NewFrameIs
    <3> QED
      BY <3>1 DEF Frames
  <2>3. PICK d : d = [t |-> "act", fr |-> f, a |-> a]
    OBVIOUS
  <2>4. d \in Context /\ d.t = "act" /\ d.fr = f /\ OnKs(d) /\ Installed(d, heap') = << >>
    BY <2>2, <2>3 DEF Context, FrameIds, OnKs, Installed
  <2>5. heap' = [heap EXCEPT ![f] = ActFrame(a)] /\ ks' = Append(ks, f) /\ stk' = Append(stk, d)
    BY <1>2, <2>1, <2>3
  <2>6. heap' \in [Frames -> Descriptors] /\ heap'[f] # Free /\ \A g \in Frames : g # f => heap'[g] = heap[g]
    <3>1. ActFrame(a) \in Descriptors /\ ActFrame(a) # Free
      BY DEF Descriptors, ActFrame, Free
    <3> QED
      BY <1>1, <2>2, <2>5, <3>1
  <2>7. hs' = hs \o Installed(d, heap') /\ cap' = cap + CapturingIn(Installed(d, heap'))
    <3>1. hs' = hs /\ cap' = cap /\ hs \o << >> = hs /\ cap + CapturingIn(<< >>) = cap
      BY <1>1, ConcatEmptySeq, CapturingNone
    <3> QED
      BY <2>4, <3>1
  <2>8. mode = "run" /\ Room(1) /\ UNCHANGED <<pending, res, mode, run>>
    OBVIOUS
  <2> QED
    BY ONLY StacksInv, <2>2, <2>4, <2>5, <2>6, <2>7, <2>8, PlainPushed
<1>3. CASE ~(cap > 0)
  <2>3. PICK d : d = [t |-> "act", fr |-> 0, a |-> a]
    OBVIOUS
  <2>4. d \in Context /\ d.t = "act" /\ ~OnKs(d) /\ Installed(d, heap') = << >>
    BY <2>3 DEF Context, FrameIds, OnKs, Installed
  <2>5. heap' = heap /\ ks' = ks /\ stk' = Append(stk, d)
    BY <1>3, <2>3
  <2>7. hs' = hs \o Installed(d, heap') /\ cap' = cap + CapturingIn(Installed(d, heap'))
    <3>1. hs' = hs /\ cap' = cap /\ hs \o << >> = hs /\ cap + CapturingIn(<< >>) = cap
      BY <1>1, ConcatEmptySeq, CapturingNone
    <3> QED
      BY <2>4, <3>1
  <2>8. mode = "run" /\ Room(1) /\ UNCHANGED <<pending, res, mode, run>> /\ heap' \in [Frames -> Descriptors]
    BY <1>1, <2>5
  <2> QED
    BY ONLY StacksInv, <2>4, <2>5, <2>7, <2>8, PlainPushed
<1> QED
  BY <1>2, <1>3

\* So does a handle site.
LEMMA HandleKeeps ==
  ASSUME StacksInv, NEW CONSTANT h \in DOMAIN Handlers, Handle2(h)
  PROVE  StacksInv'
<1> USE DEF Handle2
<1>1. hs \in Seq(Entry) /\ cap \in Nat /\ heap \in [Frames -> Descriptors]
  <2>1. stk \in Seq(Context) /\ HsIs(stk, heap, hs, cap, floor) /\ heap \in [Frames -> Descriptors]
    BY DEF StacksInv, Typed
  <2> QED
    BY ONLY <2>1, HsTyped
<1>2. PICK f : f = NewFrame
  OBVIOUS
<1>3. f \in Frames /\ heap[f] = Free
  BY <1>2, NewFrameIs
<1>4. PICK d : d = [t |-> "handle", fr |-> f]
  OBVIOUS
<1>5. d \in Context /\ d.t = "handle" /\ d.fr = f /\ OnKs(d)
  BY <1>3, <1>4 DEF Context, OnKs
<1>6. heap' = [heap EXCEPT ![f] = HfFrame(h)] /\ ks' = Append(ks, f) /\ stk' = Append(stk, d)
  BY <1>2, <1>4
<1>7. /\ heap' \in [Frames -> Descriptors] /\ heap'[f] # Free /\ \A g \in Frames : g # f => heap'[g] = heap[g]
      /\ heap'[f].h = h
  <2>1. HfFrame(h) \in Descriptors /\ HfFrame(h) # Free /\ HfFrame(h).h = h
    BY DEF Descriptors, HfFrame, Free
  <2> QED
    BY <1>1, <1>3, <1>6, <2>1
<1>8. hs' = hs \o Installed(d, heap') /\ cap' = cap + CapturingIn(Installed(d, heap'))
  <2>1. Installed(d, heap') = EntriesOf(h, f)
    BY <1>5, <1>7 DEF Installed
  <2>2. hs' = hs \o EntriesOf(h, f) /\ cap' = cap + CapturingIn(EntriesOf(h, f))
    BY <1>2 DEF HandlePush
  <2> QED
    BY ONLY <2>1, <2>2
<1>9. mode = "run" /\ Room(1) /\ UNCHANGED <<pending, res, mode, run>>
  OBVIOUS
<1> QED
  BY ONLY StacksInv, <1>3, <1>5, <1>6, <1>7, <1>8, <1>9, PlainPushed, h \in DOMAIN Handlers

\* Nothing but the mode changes, and no suspension begins.
LEMMA ModeKeeps ==
  ASSUME StacksInv, mode = "run", mode' = "ret", UNCHANGED <<stacks, run, stk>>
  PROVE  StacksInv'
<1>1. /\ hs' = hs /\ cap' = cap /\ ks' = ks /\ heap' = heap /\ pending' = pending /\ res' = res /\ stk' = stk
      /\ floor' = floor /\ lw' = lw /\ depth' = depth
  BY DEF stacks, run
<1>2. Typed'
  BY <1>1 DEF StacksInv, Typed, Modes
<1>3. FramesFollow(stk', ks', mode')
  BY <1>1 DEF StacksInv, FramesFollow
<1>4. Owned(ks', res', Entering(stk'), heap')
  BY <1>1 DEF StacksInv
<1>5. EnterOnTop(stk', mode')
  BY <1>1 DEF StacksInv, EnterOnTop
<1>6. Suspends(stk', pending'.mark, mode')
  BY DEF Suspends
<1>7. RunsAre(stk', depth', lw') /\ HsIs(stk', heap', hs', cap', floor')
  BY <1>1 DEF StacksInv
<1> QED
  BY <1>2, <1>3, <1>4, <1>5, <1>6, <1>7 DEF StacksInv

\* A process that has not begun or has ended holds nothing.
LEMMA NothingHeld ==
  ASSUME NEW H, H = [f \in Frames |-> Free], NEW R, R = [r \in ResIds |-> NoRes], NEW m, m # "susp"
  PROVE  /\ << >> \in Seq(Frames) /\ << >> \in Seq(Context) /\ Len(<< >>) <= MaxStk
         /\ H \in [Frames -> Descriptors] /\ NoCapture \in [mark : FrameIds, once : BOOLEAN]
         /\ R \in [ResIds -> [frames : Seq(Frames), once : BOOLEAN, used : BOOLEAN]]
         /\ FramesFollow(<< >>, << >>, m) /\ Owned(<< >>, R, Entering(<< >>), H)
         /\ EnterOnTop(<< >>, m) /\ Suspends(<< >>, NoCapture.mark, m)
         /\ RunsAre(<< >>, 0, 0) /\ HsIs(<< >>, H, << >>, 0, 0)
<1>1. << >> \in Seq(Frames) /\ << >> \in Seq(Context) /\ Len(<< >>) = 0
  BY EmptySeq
<1>2. PICK S : S = << >>
  OBVIOUS
<1>3. Len(S) = 0
  BY <1>1, <1>2
<1>4. Len(S) <= MaxStk
  BY <1>3, NativeBounds
<1>5. NoRes \in [frames : Seq(Frames), once : BOOLEAN, used : BOOLEAN] /\ NoCapture \in [mark : FrameIds, once : BOOLEAN]
  BY <1>1 DEF NoRes, NoCapture, FrameIds
<1>6. H \in [Frames -> Descriptors]
  BY DEF Descriptors
<1>7. R \in [ResIds -> [frames : Seq(Frames), once : BOOLEAN, used : BOOLEAN]]
  BY <1>5
<1>8. FramesUpTo(S, 0) = 0 /\ RunsUpTo(S, 0) = 0
  BY FramesStep, RunsStep
<1>9. FramesFollow(S, S, m)
  BY <1>3, <1>8 DEF FramesFollow
<1>10. Entering(S) = {} /\ EnterOnTop(S, m)
  BY <1>3 DEF Entering, EnterOnTop
<1>11. \A r \in ResIds : Len(R[r].frames) = 0
  BY <1>1 DEF NoRes
<1>12. Owned(S, R, {}, H)
  BY <1>3, <1>11 DEF Owned, OnStack, InResumption, Distinct, Apart
<1>13. RunsAre(S, 0, 0)
  BY <1>3, <1>8 DEF RunsAre
<1>14. HsIs(S, H, S, 0, 0)
  BY <1>2, HsEmpty
<1>15. Suspends(S, NoCapture.mark, m)
  BY DEF Suspends
<1> QED
  BY ONLY <1>1, <1>2, <1>4, <1>5, <1>6, <1>7, <1>9, <1>10, <1>12, <1>13, <1>14, <1>15

\* So does the end of the process.
LEMMA ExitKeeps ==
  ASSUME NEW CONSTANT how, how \in Modes, how # "susp", Exit(how)
  PROVE  StacksInv'
<1>1. /\ hs' = << >> /\ floor' = 0 /\ lw' = 0 /\ depth' = 0 /\ cap' = 0 /\ ks' = << >>
      /\ heap' = [f \in Frames |-> Free] /\ pending' = NoCapture /\ res' = [r \in ResIds |-> NoRes]
      /\ stk' = << >> /\ mode' \in Modes /\ mode' # "susp"
  BY DEF Exit
<1>2. PICK H, R, m : H = heap' /\ R = res' /\ m = mode'
  OBVIOUS
<1>a. H = [f \in Frames |-> Free] /\ R = [r \in ResIds |-> NoRes] /\ m # "susp"
  BY ONLY <1>1, <1>2
<1>3. /\ << >> \in Seq(Frames) /\ << >> \in Seq(Context) /\ Len(<< >>) <= MaxStk
      /\ H \in [Frames -> Descriptors] /\ NoCapture \in [mark : FrameIds, once : BOOLEAN]
      /\ R \in [ResIds -> [frames : Seq(Frames), once : BOOLEAN, used : BOOLEAN]]
      /\ FramesFollow(<< >>, << >>, m) /\ Owned(<< >>, R, Entering(<< >>), H)
      /\ EnterOnTop(<< >>, m) /\ Suspends(<< >>, NoCapture.mark, m)
      /\ RunsAre(<< >>, 0, 0) /\ HsIs(<< >>, H, << >>, 0, 0)
  BY ONLY <1>a, NothingHeld
<1>4. \A r \in ResIds : R[r] = NoRes
  BY <1>1, <1>2
<1> QED
  BY ONLY <1>1, <1>2, <1>3, <1>4 DEF StacksInv, Typed

\* The invariant holds when the process begins.
LEMMA StacksInvInit == Init => StacksInv
<1> SUFFICES ASSUME Init PROVE StacksInv
  OBVIOUS
<1>1. /\ hs = << >> /\ floor = 0 /\ lw = 0 /\ depth = 0 /\ cap = 0 /\ ks = << >>
      /\ heap = [f \in Frames |-> Free] /\ pending = NoCapture /\ res = [r \in ResIds |-> NoRes]
      /\ stk = << >> /\ mode \in Modes /\ mode # "susp"
  BY DEF Init, Modes
<1>2. PICK H, R, m : H = heap /\ R = res /\ m = mode
  OBVIOUS
<1>a. H = [f \in Frames |-> Free] /\ R = [r \in ResIds |-> NoRes] /\ m # "susp"
  BY ONLY <1>1, <1>2
<1>3. /\ << >> \in Seq(Frames) /\ << >> \in Seq(Context) /\ Len(<< >>) <= MaxStk
      /\ H \in [Frames -> Descriptors] /\ NoCapture \in [mark : FrameIds, once : BOOLEAN]
      /\ R \in [ResIds -> [frames : Seq(Frames), once : BOOLEAN, used : BOOLEAN]]
      /\ FramesFollow(<< >>, << >>, m) /\ Owned(<< >>, R, Entering(<< >>), H)
      /\ EnterOnTop(<< >>, m) /\ Suspends(<< >>, NoCapture.mark, m)
      /\ RunsAre(<< >>, 0, 0) /\ HsIs(<< >>, H, << >>, 0, 0)
  BY ONLY <1>a, NothingHeld
<1>4. \A r \in ResIds : R[r] = NoRes
  BY <1>1, <1>2
<1> QED
  BY ONLY <1>1, <1>2, <1>3, <1>4 DEF StacksInv, Typed

\* The clause the search finds is the topmost of those it may find.
LEMMA MatchIs ==
  ASSUME StacksInv, NEW CONSTANT op, Matching(op) # {}
  PROVE  /\ Match(op) \in Matching(op) /\ Match(op) \in floor + 1 .. Len(hs)
         /\ floor \in 0 .. Len(hs) /\ hs \in Seq(Entry) /\ hs[Match(op)] \in Entry
<1>1. stk \in Seq(Context) /\ HsIs(stk, heap, hs, cap, floor)
  BY DEF StacksInv, Typed
<1>2. hs \in Seq(Entry) /\ floor \in 0 .. Len(hs)
  BY ONLY <1>1, HsTyped
<1>3. PICK n : n = Len(hs)
  OBVIOUS
<1>4. n \in Nat /\ floor \in Nat
  BY <1>2, <1>3, LenProperties
<1> DEFINE T == {k \in Nat : n - k \in Matching(op)}
<1>5. Matching(op) \subseteq floor + 1 .. n
  BY <1>3 DEF Matching
<1>6. T # {}
  <2>1. PICK i \in Matching(op) : TRUE
    OBVIOUS
  <2>2. n - i \in Nat /\ n - (n - i) = i
    BY <1>4, <1>5, <2>1
  <2> QED
    BY <2>1, <2>2
<1>7. T \subseteq Nat /\ \A k \in T : n - k \in Matching(op)
  OBVIOUS
<1>8. \A i \in Matching(op) : n - i \in T
  BY <1>4, <1>5
<1> HIDE DEF T
<1>9. PICK k \in T : \A m \in T : k <= m
  BY <1>6, <1>7, LeastOf
<1>10. n - k \in Matching(op) /\ \A j \in Matching(op) : j <= n - k
  <2>1. ASSUME NEW j \in Matching(op) PROVE j <= n - k
    <3>1. k <= n - j /\ j \in Nat /\ k \in Nat
      BY <1>4, <1>5, <1>7, <1>8, <1>9
    <3> QED
      BY <1>4, <3>1
  <2> QED
    BY <1>7, <1>9, <2>1
<1>11. Match(op) \in Matching(op)
  BY <1>10 DEF Match
<1>12. Match(op) \in floor + 1 .. Len(hs) /\ Match(op) \in 1 .. Len(hs)
  BY <1>3, <1>4, <1>5, <1>11
<1>13. hs[Match(op)] \in Entry
  BY ONLY <1>2, <1>12, ElementOfSeq
<1> QED
  BY <1>2, <1>11, <1>12, <1>13

\* An operation with a tail clause keeps the invariant.
LEMMA PerformTailKeeps ==
  ASSUME StacksInv, NEW CONSTANT op, PerformTail(op)
  PROVE  StacksInv'
<1> USE DEF PerformTail
<1>1. /\ Typed /\ FramesFollow(stk, ks, mode) /\ Owned(ks, res, Entering(stk), heap)
      /\ EnterOnTop(stk, mode) /\ RunsAre(stk, depth, lw) /\ HsIs(stk, heap, hs, cap, floor)
  BY DEF StacksInv
<1>2. ks \in Seq(Frames) /\ stk \in Seq(Context)
  BY <1>1 DEF Typed
<1>3. PICK k : k = Match(op)
  OBVIOUS
<1>4. k \in floor + 1 .. Len(hs) /\ floor \in 0 .. Len(hs) /\ hs \in Seq(Entry) /\ hs[k] \in Entry
  BY <1>3, MatchIs
<1>5. PICK d : d = [t |-> "perform", hf |-> hs[k].hf, saved |-> SubSeq(hs, k, Len(hs))]
  OBVIOUS
<1>6. d \in Context /\ d.t = "perform" /\ d.saved = SubSeq(hs, k, Len(hs)) /\ ~OnKs(d)
  <2>1. k \in 1 .. Len(hs) + 1
    BY <1>4, LenProperties
  <2>2. SubSeq(hs, k, Len(hs)) \in Seq(Entry)
    BY ONLY <1>4, <2>1, SplitAt
  <2>3. hs[k].hf \in Frames
    BY ONLY <1>4 DEF Entry
  <2> QED
    BY ONLY <1>5, <2>2, <2>3 DEF Context, OnKs
<1>7. stk' = Append(stk, d) /\ hs' = SubSeq(hs, 1, k - 1)
  BY <1>3, <1>5
<1>8. Grown(stk, stk', Len(stk), d) /\ Len(stk) \in Nat
  BY ONLY <1>2, <1>6, <1>7, Pushed, LenProperties
<1>9. stk' \in Seq(Context) /\ Len(stk') = Len(stk) + 1
  BY ONLY <1>8 DEF Grown
<1>10. Typed'
  <2>1. Len(stk') <= MaxStk
    BY <1>9 DEF Room
  <2> QED
    BY <1>1, <1>9, <2>1 DEF Typed
<1>11. FramesFollow(stk', ks', mode')
  <2>1. mode # "susp" /\ ks' = ks
    OBVIOUS
  <2> QED
    BY ONLY <1>1, <1>2, <1>6, <1>8, <2>1, FollowPush
<1>12. Entering(stk) = {} /\ Entering(stk') = {} /\ EnterOnTop(stk', mode')
  <2>1. mode # "ret" /\ d.t # "enter"
    BY <1>6
  <2> QED
    BY ONLY <1>1, <1>8, <2>1, EnterPush
<1>13. Owned(ks', res', Entering(stk'), heap')
  BY <1>1, <1>12
<1>14. Suspends(stk', pending'.mark, mode')
  BY DEF Suspends
<1>15. RunsAre(stk', depth', lw')
  <2>1. d.t # "lw" /\ depth' = depth /\ lw' = lw /\ (d.t = "lw" => d.lw = lw)
    BY <1>6 DEF run
  <2> QED
    BY ONLY <1>1, <1>8, <2>1, RunsPush
<1>16. HsIs(stk', heap', hs', cap', floor')
  <2>1. HsIs(stk', heap, SubSeq(hs, 1, k - 1), cap, floor)
    BY ONLY <1>1, <1>2, <1>4, <1>6, <1>7, HsPushPerform
  <2> QED
    BY <1>7, <2>1 DEF run
<1> QED
  BY <1>10, <1>11, <1>12, <1>13, <1>14, <1>15, <1>16 DEF StacksInv

\* So does the start of an inference run.
LEMMA StartRunKeeps ==
  ASSUME StacksInv, StartRun
  PROVE  StacksInv'
<1> USE DEF StartRun
<1>1. /\ Typed /\ FramesFollow(stk, ks, mode) /\ Owned(ks, res, Entering(stk), heap)
      /\ EnterOnTop(stk, mode) /\ RunsAre(stk, depth, lw) /\ HsIs(stk, heap, hs, cap, floor)
  BY DEF StacksInv
<1>2. ks \in Seq(Frames) /\ stk \in Seq(Context)
  BY <1>1 DEF Typed
<1>3. floor \in 0 .. Len(hs) /\ hs \in Seq(Entry)
  BY ONLY <1>1, <1>2, HsTyped
<1>4. lw \in Nat /\ depth \in Nat /\ lw = depth
  BY <1>1, <1>2, RunsStep, LenProperties DEF RunsAre
<1>5. PICK d : d = [t |-> "lw", floor |-> floor, lw |-> lw]
  OBVIOUS
<1>6. d \in Context /\ d.t = "lw" /\ d.floor = floor /\ d.lw = lw /\ ~OnKs(d)
  <2>1. floor \in Nat
    BY <1>3, LenProperties
  <2> QED
    BY ONLY <1>4, <1>5, <2>1 DEF Context, OnKs
<1>7. /\ stk' = Append(stk, d) /\ hs' = hs /\ cap' = cap /\ ks' = ks /\ heap' = heap /\ pending' = pending
      /\ res' = res /\ floor' = Len(hs) /\ lw' = depth + 1 /\ depth' = depth + 1
  BY <1>5 DEF stacks
<1>8. Grown(stk, stk', Len(stk), d) /\ Len(stk) \in Nat
  BY ONLY <1>2, <1>6, <1>7, Pushed, LenProperties
<1>9. stk' \in Seq(Context) /\ Len(stk') = Len(stk) + 1
  BY ONLY <1>8 DEF Grown
<1>10. Typed'
  <2>1. Len(stk') <= MaxStk
    BY <1>9 DEF Room
  <2> QED
    BY <1>1, <1>7, <1>9, <2>1 DEF Typed
<1>11. FramesFollow(stk', ks', mode')
  <2>1. mode # "susp"
    OBVIOUS
  <2> QED
    BY ONLY <1>1, <1>2, <1>6, <1>7, <1>8, <2>1, FollowPush
<1>12. Entering(stk) = {} /\ Entering(stk') = {} /\ EnterOnTop(stk', mode')
  <2>1. mode # "ret" /\ d.t # "enter"
    BY <1>6
  <2> QED
    BY ONLY <1>1, <1>8, <2>1, EnterPush
<1>13. Owned(ks', res', Entering(stk'), heap')
  BY <1>1, <1>7, <1>12
<1>14. Suspends(stk', pending'.mark, mode')
  BY DEF Suspends
<1>15. RunsAre(stk', depth', lw')
  BY ONLY <1>1, <1>6, <1>7, <1>8, RunsPush
<1>16. HsIs(stk', heap', hs', cap', floor')
  <2>1. HsIs(stk', heap, hs, cap, Len(hs))
    BY ONLY <1>1, <1>2, <1>6, <1>7, HsPushRun
  <2> QED
    BY <1>7, <2>1
<1> QED
  BY <1>10, <1>11, <1>12, <1>13, <1>14, <1>15, <1>16 DEF StacksInv

\* The site a frame was pushed by.
LEMMA SiteOfIs ==
  ASSUME StacksInv, NEW CONSTANT s \in 1 .. Len(stk), stk[s].t = "handle"
  PROVE  SiteOf(stk[s].fr) = s
<1>1. /\ stk \in Seq(Context) /\ ks \in Seq(Frames) /\ FramesFollow(stk, ks, mode)
      /\ \A i, j \in 1 .. Len(ks) : ks[i] = ks[j] => i = j
  BY DEF StacksInv, Typed, Owned, Distinct
<1>2. \A i \in 1 .. Len(stk) : stk[i].t = "handle" => OnKs(stk[i])
  BY DEF OnKs
<1>3. ASSUME NEW i \in 1 .. Len(stk), stk[i].t = "handle", stk[i].fr = stk[s].fr PROVE i = s
  BY ONLY <1>1, <1>2, <1>3, OneSite, s \in 1 .. Len(stk), stk[s].t = "handle"
<1>4. DOMAIN stk = 1 .. Len(stk)
  BY <1>1, LenProperties
<1> QED
  BY <1>3, <1>4 DEF SiteOf

\* A capture begins: its handler is on the C stack, inside of every run.
LEMMA PerformCapturingKeeps ==
  ASSUME StacksInv, NEW CONSTANT op, PerformCapturing(op)
  PROVE  StacksInv'
<1> USE DEF PerformCapturing
<1>1. /\ Typed /\ FramesFollow(stk, ks, mode) /\ Owned(ks, res, Entering(stk), heap)
      /\ EnterOnTop(stk, mode) /\ RunsAre(stk, depth, lw) /\ HsIs(stk, heap, hs, cap, floor)
  BY DEF StacksInv
<1>2. ks \in Seq(Frames) /\ stk \in Seq(Context)
  BY <1>1 DEF Typed
<1>3. PICK k : k = Match(op)
  OBVIOUS
<1>4. k \in floor + 1 .. Len(hs) /\ floor \in 0 .. Len(hs) /\ hs \in Seq(Entry) /\ hs[k] \in Entry
  BY <1>3, MatchIs
<1>5. k \in 1 .. Len(hs) /\ ~(k <= floor)
  BY <1>4, LenProperties
<1>6. PICK s \in 1 .. Len(stk) : /\ stk[s].t = "handle" /\ stk[s].fr = hs[k].hf
                                 /\ k <= floor <=> \E m \in 1 .. Len(stk) : stk[m].t = "lw" /\ s < m
  BY ONLY <1>1, <1>2, <1>5, HsSites
<1>7. SiteOf(hs[k].hf) = s
  BY <1>6, SiteOfIs
<1>8. \A i \in s .. Len(stk) : stk[i].t # "perform"
  BY <1>3, <1>7 DEF TailClausesFinish
<1>9. ASSUME NEW i \in s .. Len(stk) PROVE stk[i].t # "lw"
  <2>1. i \in 1 .. Len(stk) /\ (i = s \/ s < i)
    BY <1>2, LenProperties
  <2> QED
    BY <1>5, <1>6, <2>1
<1>10. /\ pending' = [mark |-> hs[k].hf, once |-> hs[k].once] /\ mode' = "susp" /\ hs' = hs /\ cap' = cap /\ ks' = ks
       /\ heap' = heap /\ res' = res /\ floor' = floor /\ lw' = lw /\ depth' = depth /\ stk' = stk
  BY <1>3 DEF run
<1>11. pending'.mark = hs[k].hf
  BY <1>10
<1>12. Suspends(stk', pending'.mark, mode')
  BY <1>6, <1>8, <1>9, <1>10, <1>11 DEF Suspends
<1>13. Typed'
  <2>1. pending' \in [mark : FrameIds, once : BOOLEAN]
    BY <1>4, <1>10 DEF Entry, FrameIds
  <2> QED
    BY <1>1, <1>10, <2>1 DEF Typed, Modes
<1>14. FramesFollow(stk', ks', mode')
  BY <1>1, <1>10 DEF FramesFollow
<1>15. EnterOnTop(stk', mode')
  BY <1>1, <1>10 DEF EnterOnTop
<1> QED
  BY <1>1, <1>10, <1>12, <1>13, <1>14, <1>15 DEF StacksInv

\* An operation without a clause keeps the invariant.
LEMMA PerformAtRootKeeps ==
  ASSUME StacksInv, NEW CONSTANT op, PerformAtRoot(op)
  PROVE  StacksInv'
<1> USE DEF PerformAtRoot
<1>1. {"stale capability", "E0902", "unhandled"} \subseteq Modes \ {"susp"}
  BY DEF Modes
<1>2. CASE Exit("stale capability")
  BY <1>1, <1>2, ExitKeeps
<1>3. CASE mode' = "ret" /\ UNCHANGED <<stacks, run, stk>>
  BY <1>3, ModeKeeps
<1>4. CASE Exit(IF lw > 0 THEN "E0902" ELSE "unhandled")
  <2>1. Exit("E0902") \/ Exit("unhandled")
    BY <1>4
  <2> QED
    BY <1>1, <2>1, ExitKeeps
<1> QED
  BY <1>2, <1>3, <1>4

----------------------------------------------------------------------------
(* A value returns.                                                        *)

\* The top activation and what it has on the stacks.
LEMMA TopIs ==
  ASSUME StacksInv, stk # << >>, NEW CONSTANT T, T = Pop(stk)
  PROVE  /\ Len(stk) - 1 \in Nat /\ Len(stk) = (Len(stk) - 1) + 1
         /\ T = SubSeq(stk, 1, Len(stk) - 1) /\ T \in Seq(Context) /\ Len(T) <= MaxStk
         /\ Grown(T, stk, Len(stk) - 1, TopCtx) /\ TopCtx \in Context
         /\ Entering(T) = {} /\ (\A o : EnterOnTop(T, o))
         /\ Entering(stk) = IF TopCtx.t = "enter" THEN {TopCtx.fr} ELSE {}
<1>1. stk \in Seq(Context) /\ Len(stk) <= MaxStk /\ EnterOnTop(stk, mode)
  BY DEF StacksInv, Typed
<1>2. PICK n, c : n = Len(stk) - 1 /\ c = TopCtx
  OBVIOUS
<1>3. /\ Len(stk) \in Nat \ {0} /\ c \in Context /\ Grown(T, stk, n, c) /\ T = SubSeq(stk, 1, n)
  BY <1>1, <1>2, Popped DEF TopCtx
<1>4. n \in Nat /\ Len(stk) = n + 1
  BY <1>2, <1>3
<1>5. T \in Seq(Context) /\ Len(T) = n
  BY ONLY <1>3 DEF Grown
<1>6. Len(T) <= MaxStk
  <2>1. MaxStk \in Nat
    BY NativeBounds
  <2> QED
    BY ONLY <1>1, <1>4, <1>5, <2>1
<1>7. /\ Entering(T) = {} /\ (\A o : EnterOnTop(T, o))
      /\ Entering(stk) = IF c.t = "enter" THEN {c.fr} ELSE {}
  BY ONLY <1>1, <1>3, EnterPop
<1> QED
  BY ONLY <1>2, <1>3, <1>4, <1>5, <1>6, <1>7

\* The frame of the activation a value returns to is the top of the frame stack.
LEMMA TopOnKs ==
  ASSUME StacksInv, stk # << >>, mode # "susp", OnKs(TopCtx)
  PROVE  KsTopIs(TopCtx.fr) /\ Len(ks) # 0 /\ TopCtx.fr \in Frames /\ TopCtx.fr = ks[Len(ks)]
<1>1. ks \in Seq(Frames) /\ FramesFollow(stk, ks, mode)
  BY DEF StacksInv, Typed
<1>2. PICK T : T = Pop(stk)
  OBVIOUS
<1>3. PICK n, c : n = Len(stk) - 1 /\ c = TopCtx
  OBVIOUS
<1>4. Grown(T, stk, n, c) /\ c \in Context
  BY <1>2, <1>3, TopIs
<1>5. FramesUpTo(stk, n + 1) \in 1 .. Len(ks) /\ ks[FramesUpTo(stk, n + 1)] = c.fr /\ FramesUpTo(stk, n + 1) = Len(ks)
  <2>1. OnKs(c) /\ mode # "susp"
    BY <1>3
  <2> QED
    BY ONLY <1>1, <1>4, <2>1, FollowPop
<1>6. c.fr \in Frames
  BY <1>3, <1>4, ContextIs
<1>7. Len(ks) \in Nat /\ Len(ks) # 0 /\ ks # << >>
  BY <1>1, <1>5, LenProperties, EmptySeq
<1> QED
  BY <1>3, <1>5, <1>6, <1>7 DEF KsTopIs

\* A value returns to the top activation: what all its kinds have in common.
LEMMA ReturnKeeps ==
  ASSUME StacksInv, mode = "ret", stk # << >>, stk' = Pop(stk), mode' \in {"run", "ret"},
         OnKs(TopCtx) => ks' = Pop(ks) /\ Release(TopCtx.fr),
         TopCtx.t = "enter" => ks' = ks /\ Release(TopCtx.fr),
         ~OnKs(TopCtx) /\ TopCtx.t # "enter" => ks' = ks /\ heap' = heap,
         pending' = pending, res' = res,
         HsIs(stk', heap, hs', cap', floor'), RunsAre(stk', depth', lw')
  PROVE  StacksInv'
<1>1. /\ Typed /\ FramesFollow(stk, ks, mode) /\ Owned(ks, res, Entering(stk), heap) /\ ks \in Seq(Frames)
      /\ heap \in [Frames -> Descriptors]
  BY DEF StacksInv, Typed
<1>2. PICK n, c, T : n = Len(stk) - 1 /\ c = TopCtx /\ T = stk'
  OBVIOUS
<1>3. /\ T \in Seq(Context) /\ Len(T) <= MaxStk /\ Grown(T, stk, n, c) /\ c \in Context
      /\ Entering(T) = {} /\ (\A o : EnterOnTop(T, o))
      /\ Entering(stk) = IF c.t = "enter" THEN {c.fr} ELSE {}
  BY <1>2, TopIs
<1>4. /\ c.t \in {"enter"} => c.fr \in Frames
      /\ OnKs(c) => c.fr \in Frames /\ c.t # "enter"
  BY <1>3, ContextIs DEF OnKs
<1>5. ASSUME OnKs(c)
      PROVE  /\ ks' \in Seq(Frames) /\ FramesFollow(T, ks', mode') /\ Owned(ks', res', {}, heap')
             /\ heap' \in [Frames -> Descriptors] /\ heap'[c.fr] = Free /\ \A g \in Frames : g # c.fr => heap'[g] = heap[g]
  <2>1. ks' = SubSeq(ks, 1, Len(ks) - 1) /\ heap' = [heap EXCEPT ![c.fr] = Free]
    BY <1>2, <1>5 DEF Pop, Release
  <2>2. Len(ks) # 0 /\ c.fr \in Frames /\ c.fr = ks[Len(ks)]
    BY <1>2, <1>5, TopOnKs
  <2>3. FramesUpTo(stk, n + 1) = Len(ks) /\ FramesFollow(T, SubSeq(ks, 1, FramesUpTo(stk, n + 1) - 1), mode')
    <3>1. mode # "susp"
      OBVIOUS
    <3>2. FramesUpTo(stk, n + 1) = Len(ks)
      BY ONLY <1>1, <1>3, <3>1, FollowPop
    <3>3. FramesFollow(T, SubSeq(ks, 1, FramesUpTo(stk, n + 1) - 1), mode')
      BY ONLY <1>1, <1>3, <1>5, FollowPop
    <3> QED
      BY ONLY <3>2, <3>3
  <2>4. ks' \in Seq(Frames)
    <3>1. Len(ks) \in 1 .. Len(ks) + 1
      BY <1>1, <2>2, LenProperties
    <3> QED
      BY ONLY <1>1, <2>1, <3>1, SplitAt
  <2>5. /\ heap' \in [Frames -> Descriptors] /\ heap'[c.fr] = Free /\ \A g \in Frames : g # c.fr => heap'[g] = heap[g]
        /\ \A g \in Frames : heap'[g] = IF g = c.fr THEN Free ELSE heap[g]
    <3>1. Free \in Descriptors
      BY DEF Descriptors
    <3> QED
      BY ONLY <1>1, <2>1, <2>2, <3>1
  <2>6. Owned(ks, res, {}, heap)
    BY <1>1, <1>3, <1>4, <1>5
  <2>7. Owned(ks', res, {}, heap')
    BY ONLY <1>1, <2>1, <2>2, <2>5, <2>6, OwnedPop
  <2> QED
    BY <2>1, <2>3, <2>4, <2>5, <2>7
<1>6. ASSUME c.t = "enter"
      PROVE  /\ ks' \in Seq(Frames) /\ FramesFollow(T, ks', mode') /\ Owned(ks', res', {}, heap')
             /\ heap' \in [Frames -> Descriptors] /\ heap'[c.fr] = Free /\ \A g \in Frames : g # c.fr => heap'[g] = heap[g]
  <2>1. ks' = ks /\ heap' = [heap EXCEPT ![c.fr] = Free] /\ c.fr \in Frames /\ ~OnKs(c)
    BY <1>2, <1>4, <1>6 DEF Release
  <2>2. FramesFollow(T, ks, mode')
    <3>1. mode # "susp"
      OBVIOUS
    <3> QED
      BY ONLY <1>1, <1>3, <2>1, <3>1, FollowPop
  <2>3. /\ heap' \in [Frames -> Descriptors] /\ heap'[c.fr] = Free /\ \A g \in Frames : g # c.fr => heap'[g] = heap[g]
        /\ \A g \in Frames : heap'[g] = IF g = c.fr THEN Free ELSE heap[g]
    <3>1. Free \in Descriptors
      BY DEF Descriptors
    <3> QED
      BY ONLY <1>1, <2>1, <3>1
  <2>4. Owned(ks, res, {c.fr}, heap)
    BY <1>1, <1>3, <1>6
  <2>5. Owned(ks, res, {}, heap')
    BY ONLY <2>1, <2>3, <2>4, OwnedEntered
  <2> QED
    BY <1>1, <2>1, <2>2, <2>3, <2>5
<1>7. ASSUME ~OnKs(c), c.t # "enter"
      PROVE  /\ ks' \in Seq(Frames) /\ FramesFollow(T, ks', mode') /\ Owned(ks', res', {}, heap')
             /\ heap' \in [Frames -> Descriptors] /\ \A g \in Frames : heap'[g] = heap[g]
  <2>1. ks' = ks /\ heap' = heap
    BY <1>2, <1>7
  <2>2. FramesFollow(T, ks, mode')
    <3>1. mode # "susp"
      OBVIOUS
    <3> QED
      BY ONLY <1>1, <1>3, <1>7, <3>1, FollowPop
  <2>3. Owned(ks, res, {}, heap)
    BY <1>1, <1>3, <1>7
  <2> QED
    BY <1>1, <2>1, <2>2, <2>3
<1>8. /\ ks' \in Seq(Frames) /\ FramesFollow(T, ks', mode') /\ Owned(ks', res', {}, heap')
      /\ heap' \in [Frames -> Descriptors]
  BY <1>5, <1>6, <1>7
<1>9. \A g \in Frames : OnStack(ks', g) => heap'[g] = heap[g]
  <2>1. \A g \in Frames : OnStack(ks', g) => heap'[g] # Free
    BY ONLY <1>8 DEF Owned
  <2> QED
    BY <1>5, <1>6, <1>7, <2>1
<1>10. HsIs(T, heap', hs', cap', floor')
  <2>1. HsIs(T, heap, hs', cap', floor')
    BY <1>2
  <2> QED
    BY ONLY <1>3, <1>8, <1>9, <2>1, HsUnmoved
<1>11. Typed'
  BY <1>1, <1>2, <1>3, <1>8 DEF Typed, Modes
<1>12. Suspends(stk', pending'.mark, mode')
  BY DEF Suspends
<1> QED
  BY <1>2, <1>3, <1>8, <1>10, <1>11, <1>12 DEF StacksInv

\* The inference runs, and the entries, of what the value returns to.
LEMMA QuietBelow ==
  ASSUME StacksInv, stk # << >>, TopCtx.t \in {"act", "enter", "rerun"}, NEW CONSTANT T, T = Pop(stk)
  PROVE  HsIs(T, heap, hs, cap, floor) /\ RunsAre(T, depth, lw)
<1>1. stk \in Seq(Context) /\ HsIs(stk, heap, hs, cap, floor) /\ RunsAre(stk, depth, lw)
  BY DEF StacksInv, Typed
<1>2. PICK n, c : n = Len(stk) - 1 /\ c = TopCtx
  OBVIOUS
<1>3. n \in Nat /\ Len(stk) = n + 1 /\ T = SubSeq(stk, 1, n) /\ Grown(T, stk, n, c)
  BY <1>2, TopIs
<1>4. stk[n + 1] = c /\ c.t \in {"act", "enter", "rerun"}
  BY <1>2, <1>3 DEF TopCtx
<1>5. HsIs(T, heap, hs, cap, floor)
  BY ONLY <1>1, <1>3, <1>4, HsPopQuiet
<1>6. RunsAre(T, depth, lw)
  <2>1. c.t # "lw"
    BY <1>4
  <2> QED
    BY ONLY <1>1, <1>3, <2>1, RunsPop
<1> QED
  BY <1>5, <1>6

\* A value returns to an activation.
LEMMA ReturnToActivationKeeps == ASSUME StacksInv, ReturnToActivation PROVE StacksInv'
<1> USE DEF ReturnToActivation, Returning
<1>1. stk # << >> /\ TopCtx.t \in {"act", "enter", "rerun"} /\ stk' = Pop(stk)
  OBVIOUS
<1>2. HsIs(stk', heap, hs, cap, floor) /\ RunsAre(stk', depth, lw)
  BY ONLY StacksInv, <1>1, QuietBelow
<1>3. OnKs(TopCtx) <=> TopCtx.fr # 0
  BY DEF OnKs
<1>4. hs' = hs /\ cap' = cap /\ floor' = floor /\ depth' = depth /\ lw' = lw /\ pending' = pending /\ res' = res
  BY DEF run
<1> QED
  BY <1>1, <1>2, <1>3, <1>4, ReturnKeeps

\* The innermost captured activation is entered.
LEMMA EnterFrameKeeps == ASSUME StacksInv, EnterFrame PROVE StacksInv'
<1> USE DEF EnterFrame, Returning
<1>1. stk # << >> /\ TopCtx.t \in {"act", "enter", "rerun"} /\ stk' = Pop(stk)
  OBVIOUS
<1>2. HsIs(stk', heap, hs, cap, floor) /\ RunsAre(stk', depth, lw)
  BY ONLY StacksInv, <1>1, QuietBelow
<1>3. ~OnKs(TopCtx)
  BY DEF OnKs
<1>4. hs' = hs /\ cap' = cap /\ floor' = floor /\ depth' = depth /\ lw' = lw /\ pending' = pending /\ res' = res
  BY DEF run
<1> QED
  BY <1>1, <1>2, <1>3, <1>4, ReturnKeeps

\* An outer captured activation is entered: its frame is on top of the frame stack.
LEMMA ReenterFrameKeeps == ASSUME StacksInv, ReenterFrame PROVE StacksInv'
<1> USE DEF ReenterFrame, Returning
<1>1. stk # << >> /\ TopCtx.t \in {"act", "enter", "rerun"} /\ stk' = Pop(stk)
  OBVIOUS
<1>2. HsIs(stk', heap, hs, cap, floor) /\ RunsAre(stk', depth, lw)
  BY ONLY StacksInv, <1>1, QuietBelow
<1>3. OnKs(TopCtx)
  BY DEF OnKs
<1>4. KsTopIs(TopCtx.fr)
  BY <1>3, TopOnKs
<1>5. hs' = hs /\ cap' = cap /\ floor' = floor /\ depth' = depth /\ lw' = lw /\ pending' = pending /\ res' = res
  BY DEF run
<1> QED
  BY <1>1, <1>2, <1>3, <1>4, <1>5, ReturnKeeps

\* A tail clause returns.
LEMMA ReturnFromClauseKeeps == ASSUME StacksInv, ReturnFromClause PROVE StacksInv'
<1> USE DEF ReturnFromClause, Returning
<1>1. stk \in Seq(Context) /\ HsIs(stk, heap, hs, cap, floor) /\ RunsAre(stk, depth, lw)
  BY DEF StacksInv, Typed
<1>2. PICK n, c, T : n = Len(stk) - 1 /\ c = TopCtx /\ T = stk'
  OBVIOUS
<1>3. n \in Nat /\ Len(stk) = n + 1 /\ T = SubSeq(stk, 1, n) /\ Grown(T, stk, n, c)
  BY <1>2, TopIs
<1>4. stk[n + 1] = c /\ c.t = "perform" /\ ~OnKs(c)
  BY <1>2, <1>3 DEF TopCtx, OnKs
<1>5. HsIs(T, heap, hs \o c.saved, cap, floor)
  <2>1. stk[n + 1].t = "perform" /\ stk[n + 1].saved = c.saved
    BY <1>4
  <2>2. HsIs(T, heap, hs \o stk[n + 1].saved, cap, floor)
    BY ONLY <1>1, <1>3, <2>1, HsPopPerform
  <2> QED
    BY <2>1, <2>2
<1>6. RunsAre(T, depth, lw)
  <2>1. c.t # "lw"
    BY <1>4
  <2> QED
    BY ONLY <1>1, <1>3, <2>1, RunsPop
<1>7. hs' = hs \o c.saved /\ cap' = cap /\ floor' = floor /\ depth' = depth /\ lw' = lw /\ pending' = pending /\ res' = res
  BY <1>2 DEF run
<1> QED
  BY <1>2, <1>4, <1>5, <1>6, <1>7, ReturnKeeps

\* Without a handler, without its entries.
LEMMA HandlerBelow ==
  ASSUME StacksInv, stk # << >>, TopCtx.t = "handle", NEW CONSTANT T, T = Pop(stk),
         HandlePop(EntryCount(TopCtx.fr))
  PROVE  HsIs(T, heap, hs', cap', floor) /\ RunsAre(T, depth, lw)
<1>1. stk \in Seq(Context) /\ HsIs(stk, heap, hs, cap, floor) /\ RunsAre(stk, depth, lw)
  BY DEF StacksInv, Typed
<1>2. PICK n, c, k : n = Len(stk) - 1 /\ c = TopCtx /\ k = EntryCount(c.fr)
  OBVIOUS
<1>3. n \in Nat /\ Len(stk) = n + 1 /\ T = SubSeq(stk, 1, n) /\ Grown(T, stk, n, c)
  BY <1>2, TopIs
<1>4. stk[n + 1] = c /\ c.t = "handle" /\ stk[n + 1].t = "handle" /\ k = Len(Handlers[heap[stk[n + 1].fr].h])
  BY <1>2, <1>3 DEF TopCtx, EntryCount
<1>5. HsIs(T, heap, SubSeq(hs, 1, Len(hs) - k), cap - CapturingIn(SubSeq(hs, Len(hs) - k + 1, Len(hs))), floor)
  BY ONLY <1>1, <1>3, <1>4, HsPopHandle
<1>6. hs' = SubSeq(hs, 1, Len(hs) - k) /\ cap' = cap - CapturingIn(SubSeq(hs, Len(hs) - k + 1, Len(hs)))
  BY <1>2 DEF HandlePop
<1>7. RunsAre(T, depth, lw)
  <2>1. c.t # "lw"
    BY <1>4
  <2> QED
    BY ONLY <1>1, <1>3, <2>1, RunsPop
<1> QED
  BY <1>5, <1>6, <1>7

\* A handled thunk returns: its frame is on top of the frame stack.
LEMMA DispatchValueKeeps == ASSUME StacksInv, DispatchValue PROVE StacksInv'
<1> USE DEF DispatchValue, Returning
<1>1. stk # << >> /\ TopCtx.t = "handle" /\ stk' = Pop(stk) /\ HandlePop(EntryCount(TopCtx.fr))
  OBVIOUS
<1>2. HsIs(stk', heap, hs', cap', floor) /\ RunsAre(stk', depth, lw)
  BY ONLY StacksInv, <1>1, HandlerBelow
<1>3. OnKs(TopCtx)
  BY DEF OnKs
<1>4. KsTopIs(TopCtx.fr)
  BY <1>3, TopOnKs
<1>5. floor' = floor /\ depth' = depth /\ lw' = lw /\ pending' = pending /\ res' = res
  BY DEF run
<1> QED
  BY <1>1, <1>2, <1>3, <1>4, <1>5, ReturnKeeps

\* An inference run ends.
LEMMA EndRunKeeps == ASSUME StacksInv, EndRun PROVE StacksInv'
<1> USE DEF EndRun, Returning
<1>1. stk \in Seq(Context) /\ HsIs(stk, heap, hs, cap, floor) /\ RunsAre(stk, depth, lw)
  BY DEF StacksInv, Typed
<1>2. PICK n, c, T : n = Len(stk) - 1 /\ c = TopCtx /\ T = stk'
  OBVIOUS
<1>3. n \in Nat /\ Len(stk) = n + 1 /\ T = SubSeq(stk, 1, n) /\ Grown(T, stk, n, c)
  BY <1>2, TopIs
<1>4. stk[n + 1] = c /\ c.t = "lw" /\ ~OnKs(c)
  BY <1>2, <1>3 DEF TopCtx, OnKs
<1>5. HsIs(T, heap, hs, cap, c.floor)
  <2>1. stk[n + 1].t = "lw"
    BY <1>4
  <2>2. HsIs(T, heap, hs, cap, stk[n + 1].floor)
    BY ONLY <1>1, <1>3, <2>1, HsPopRun
  <2> QED
    BY <1>4, <2>2
<1>6. RunsAre(T, depth - 1, c.lw)
  BY ONLY <1>1, <1>3, <1>4, RunsPop
<1>7. /\ hs' = hs /\ cap' = cap /\ ks' = ks /\ heap' = heap /\ floor' = c.floor /\ depth' = depth - 1 /\ lw' = c.lw
      /\ pending' = pending /\ res' = res
  BY <1>2 DEF stacks
<1> QED
  BY <1>2, <1>4, <1>5, <1>6, <1>7, ReturnKeeps

----------------------------------------------------------------------------
(* A suspension passes.                                                    *)

\* A suspension passes the top activation: what all its kinds have in common.
LEMMA UnwindKeeps ==
  ASSUME StacksInv, mode = "susp", stk # << >>, stk' = Pop(stk), mode' = "susp",
         ks' = ks, heap' = heap, pending' = pending, res' = res,
         TopCtx.t = "handle" => TopCtx.fr # pending.mark, TopCtx.t # "enter",
         HsIs(stk', heap, hs', cap', floor'), RunsAre(stk', depth', lw')
  PROVE  StacksInv'
<1>1. /\ Typed /\ FramesFollow(stk, ks, mode) /\ Owned(ks, res, Entering(stk), heap) /\ ks \in Seq(Frames)
      /\ Suspends(stk, pending.mark, "susp")
  BY DEF StacksInv, Typed
<1>2. PICK n, c, T, k : n = Len(stk) - 1 /\ c = TopCtx /\ T = stk' /\ k = pending.mark
  OBVIOUS
<1>3. /\ T \in Seq(Context) /\ Len(T) <= MaxStk /\ Grown(T, stk, n, c) /\ c \in Context
      /\ Entering(T) = {} /\ (\A o : EnterOnTop(T, o)) /\ Entering(stk) = {}
  BY <1>2, TopIs
<1>4. FramesFollow(T, ks, "susp")
  BY ONLY <1>1, <1>3, FollowPop
<1>5. Suspends(T, k, "susp")
  <2>1. Suspends(stk, k, "susp") /\ (c.t = "handle" => c.fr # k)
    BY <1>1, <1>2
  <2> QED
    BY ONLY <1>3, <2>1, SuspendsPop
<1>6. Typed'
  BY <1>1, <1>2, <1>3 DEF Typed
<1> QED
  BY <1>1, <1>2, <1>3, <1>4, <1>5, <1>6 DEF StacksInv

\* It passes an activation.
LEMMA UnwindActivationKeeps == ASSUME StacksInv, UnwindActivation PROVE StacksInv'
<1> USE DEF UnwindActivation, Unwinding
<1>1. stk # << >> /\ TopCtx.t \in {"act", "enter", "rerun"} /\ stk' = Pop(stk)
  OBVIOUS
<1>2. HsIs(stk', heap, hs, cap, floor) /\ RunsAre(stk', depth, lw)
  BY ONLY StacksInv, <1>1, QuietBelow
<1>3. /\ hs' = hs /\ cap' = cap /\ ks' = ks /\ heap' = heap /\ floor' = floor /\ depth' = depth /\ lw' = lw
      /\ pending' = pending /\ res' = res
  BY DEF run, stacks
<1>4. mode = "susp" /\ mode' = "susp" /\ TopCtx.t # "handle" /\ TopCtx.t # "enter"
  OBVIOUS
<1> QED
  BY <1>1, <1>2, <1>3, <1>4, UnwindKeeps

\* It passes a handler that is not its own.
LEMMA PassHandleKeeps == ASSUME StacksInv, PassHandle PROVE StacksInv'
<1> USE DEF PassHandle, Unwinding
<1>1. stk # << >> /\ TopCtx.t = "handle" /\ stk' = Pop(stk) /\ HandlePop(EntryCount(TopCtx.fr))
  OBVIOUS
<1>2. HsIs(stk', heap, hs', cap', floor) /\ RunsAre(stk', depth, lw)
  BY ONLY StacksInv, <1>1, HandlerBelow
<1>3. ks' = ks /\ heap' = heap /\ floor' = floor /\ depth' = depth /\ lw' = lw /\ pending' = pending /\ res' = res
  BY DEF run
<1>4. mode = "susp" /\ mode' = "susp" /\ TopCtx.t # "enter" /\ TopCtx.fr # pending.mark
  OBVIOUS
<1> QED
  BY <1>1, <1>2, <1>3, <1>4, UnwindKeeps

\* Where the frame of the handler on top is on the frame stack.
LEMMA CapturedAt ==
  ASSUME StacksInv, stk # << >>, TopCtx.t = "handle"
  PROVE  /\ \E i \in DOMAIN ks : ks[i] = TopCtx.fr
         /\ PositionOf(TopCtx.fr) = FramesUpTo(stk, Len(stk)) /\ PositionOf(TopCtx.fr) \in 1 .. Len(ks)
<1>1. ks \in Seq(Frames) /\ FramesFollow(stk, ks, mode) /\ \A i, j \in 1 .. Len(ks) : ks[i] = ks[j] => i = j
  BY DEF StacksInv, Typed, Owned, Distinct
<1>2. PICK n, c, T : n = Len(stk) - 1 /\ c = TopCtx /\ T = Pop(stk)
  OBVIOUS
<1>3. Grown(T, stk, n, c) /\ n + 1 = Len(stk)
  BY <1>2, TopIs
<1>4. OnKs(c)
  BY <1>2 DEF OnKs
<1>5. PICK p : p = FramesUpTo(stk, n + 1)
  OBVIOUS
<1>6. p \in 1 .. Len(ks) /\ ks[p] = c.fr
  BY ONLY <1>1, <1>3, <1>4, <1>5, FollowPop
<1>7. DOMAIN ks = 1 .. Len(ks)
  BY <1>1, LenProperties
<1>8. \A i \in DOMAIN ks : ks[i] = c.fr => i = p
  BY <1>1, <1>6, <1>7
<1>9. PositionOf(c.fr) = p
  BY <1>6, <1>7, <1>8 DEF PositionOf
<1> QED
  BY <1>2, <1>3, <1>5, <1>6, <1>7, <1>9

\* It reaches its handler: the slice becomes a resumption.
LEMMA DispatchCaptureKeeps == ASSUME StacksInv, DispatchCapture PROVE StacksInv'
<1> USE DEF DispatchCapture, Unwinding
<1>1. stk # << >> /\ TopCtx.t = "handle" /\ stk' = Pop(stk) /\ HandlePop(EntryCount(TopCtx.fr))
  OBVIOUS
<1>2. /\ \E i \in DOMAIN ks : ks[i] = TopCtx.fr
      /\ PositionOf(TopCtx.fr) = FramesUpTo(stk, Len(stk)) /\ PositionOf(TopCtx.fr) \in 1 .. Len(ks)
  BY <1>1, CapturedAt
<1>3. PICK n, c, T, p : n = Len(stk) - 1 /\ c = TopCtx /\ T = stk' /\ p = PositionOf(TopCtx.fr)
  OBVIOUS
<1>4. PICK r \in ResIds : /\ res[r] = NoRes
                          /\ res' = [res EXCEPT ![r] = [frames |-> SubSeq(ks, p, Len(ks)), once |-> pending.once, used |-> FALSE]]
                          /\ ks' = SubSeq(ks, 1, p - 1) /\ mode' = "run"
  BY <1>2, <1>3
<1>5. /\ Typed /\ FramesFollow(stk, ks, mode) /\ Owned(ks, res, Entering(stk), heap) /\ ks \in Seq(Frames)
      /\ res \in [ResIds -> [frames : Seq(Frames), once : BOOLEAN, used : BOOLEAN]]
      /\ pending \in [mark : FrameIds, once : BOOLEAN]
  BY DEF StacksInv, Typed
<1>6. /\ T \in Seq(Context) /\ Len(T) <= MaxStk /\ Grown(T, stk, n, c) /\ c \in Context /\ n + 1 = Len(stk)
      /\ Entering(T) = {} /\ (\A o : EnterOnTop(T, o)) /\ Entering(stk) = {}
  BY <1>1, <1>3, TopIs
<1>7. OnKs(c)
  BY <1>1, <1>3 DEF OnKs
<1>8. p = FramesUpTo(stk, n + 1) /\ p \in 1 .. Len(ks)
  BY <1>2, <1>3, <1>6
<1>9. p \in 1 .. Len(ks) + 1 /\ Len(ks) - (p - 1) # 0
  <2>1. Len(ks) \in Nat
    BY <1>5, LenProperties
  <2> QED
    BY ONLY <1>8, <2>1
<1>10. PICK u : u = SubSeq(ks, p, Len(ks))
  OBVIOUS
<1>11. ks' \in Seq(Frames) /\ u \in Seq(Frames) /\ u # << >>
  <2>1. ks' \in Seq(Frames)
    BY ONLY <1>4, <1>5, <1>9, SplitAt
  <2>2. u \in Seq(Frames) /\ Len(u) = Len(ks) - (p - 1)
    BY ONLY <1>5, <1>9, <1>10, SplitAt
  <2>3. u # << >>
    BY <1>9, <2>2, EmptySeq
  <2> QED
    BY <2>1, <2>2, <2>3
<1>12. FramesFollow(T, ks', mode')
  <2>1. FramesFollow(T, SubSeq(ks, 1, FramesUpTo(stk, n + 1) - 1), mode')
    BY ONLY <1>5, <1>6, <1>7, FollowPop
  <2> QED
    BY ONLY <1>4, <1>8, <2>1
<1>13. /\ res' \in [ResIds -> [frames : Seq(Frames), once : BOOLEAN, used : BOOLEAN]]
       /\ res'[r].frames = u /\ \A q \in ResIds : q # r => res'[q] = res[q]
  <2>1. PICK b : b = [frames |-> u, once |-> pending.once, used |-> FALSE]
    OBVIOUS
  <2>2. b \in [frames : Seq(Frames), once : BOOLEAN, used : BOOLEAN] /\ b.frames = u
    BY <1>5, <1>11, <2>1
  <2>3. res' = [res EXCEPT ![r] = b]
    BY <1>4, <1>10, <2>1
  <2> QED
    BY ONLY <1>5, <2>2, <2>3, r \in ResIds
<1>14. Owned(ks', res', {}, heap)
  <2>1. Owned(ks, res, {}, heap)
    BY <1>5, <1>6
  <2>2. Len(res[r].frames) = 0
    BY <1>4, EmptySeq DEF NoRes
  <2>3. res'[r].frames = SubSeq(ks, p, Len(ks)) /\ \A q \in ResIds : q # r => res'[q].frames = res[q].frames
    BY <1>10, <1>13
  <2> QED
    <3>1. PICK Q, L, R, H, K : Q = res' /\ L = ks' /\ R = res /\ H = heap /\ K = ks
      OBVIOUS
    <3>2. /\ Owned(K, R, {}, H) /\ Len(R[r].frames) = 0 /\ Q[r].frames = SubSeq(K, p, Len(K)) /\ K \in Seq(Frames)
          /\ L = SubSeq(K, 1, p - 1) /\ p \in 1 .. Len(K) /\ \A q \in ResIds : q # r => Q[q].frames = R[q].frames
      BY <1>4, <1>5, <1>8, <2>1, <2>2, <2>3, <3>1
    <3>3. Owned(L, Q, {}, H)
      BY ONLY <3>2, r \in ResIds, OwnedSlice
    <3> QED
      BY <3>1, <3>3
<1>15. HsIs(T, heap, hs', cap', floor) /\ RunsAre(T, depth, lw)
  BY ONLY StacksInv, <1>1, <1>3, HandlerBelow
<1>16. floor' = floor /\ depth' = depth /\ lw' = lw /\ heap' = heap /\ pending' = NoCapture
  BY DEF run
<1>17. Typed'
  <2>1. NoCapture \in [mark : FrameIds, once : BOOLEAN]
    BY DEF NoCapture, FrameIds
  <2>2. \A q \in ResIds : res'[q] # NoRes => res'[q].frames # << >>
    BY <1>5, <1>11, <1>13 DEF Typed
  <2> QED
    BY <1>3, <1>4, <1>5, <1>6, <1>11, <1>13, <1>16, <2>1, <2>2 DEF Typed, Modes
<1>18. Suspends(stk', pending'.mark, mode')
  BY <1>4 DEF Suspends
<1> QED
  BY <1>3, <1>6, <1>12, <1>14, <1>15, <1>16, <1>17, <1>18 DEF StacksInv

----------------------------------------------------------------------------
(* Resumptions.                                                            *)

\* A resumption is dropped, and its frames are freed.
LEMMA DropKeeps ==
  ASSUME StacksInv, NEW CONSTANT r \in ResIds, Drop(r)
  PROVE  StacksInv'
<1> USE DEF Drop
<1>1. /\ Typed /\ FramesFollow(stk, ks, mode) /\ Owned(ks, res, Entering(stk), heap)
      /\ stk \in Seq(Context) /\ ks \in Seq(Frames) /\ HsIs(stk, heap, hs, cap, floor)
      /\ res \in [ResIds -> [frames : Seq(Frames), once : BOOLEAN, used : BOOLEAN]]
      /\ heap \in [Frames -> Descriptors]
  BY DEF StacksInv, Typed
<1>2. res[r].frames \in Seq(Frames)
  BY <1>1
<1>3. ASSUME NEW f PROVE f \in Range(res[r].frames) <=> \E i \in 1 .. Len(res[r].frames) : res[r].frames[i] = f
  <2>1. DOMAIN res[r].frames = 1 .. Len(res[r].frames)
    BY <1>2, LenProperties
  <2> QED
    BY <2>1 DEF Range
<1>4. \A f \in Frames : heap'[f] = IF \E i \in 1 .. Len(res[r].frames) : res[r].frames[i] = f THEN Free ELSE heap[f]
  BY <1>3
<1>5. res' \in [ResIds -> [frames : Seq(Frames), once : BOOLEAN, used : BOOLEAN]] /\ res'[r] = NoRes
      /\ \A q \in ResIds : q # r => res'[q] = res[q]
  <2>1. NoRes \in [frames : Seq(Frames), once : BOOLEAN, used : BOOLEAN]
    BY EmptySeq DEF NoRes
  <2> QED
    BY <1>1, <2>1
<1>6. Owned(ks, res', Entering(stk), heap')
  <2>1. Len(res'[r].frames) = 0 /\ \A q \in ResIds : q # r => res'[q].frames = res[q].frames
    BY <1>5, EmptySeq DEF NoRes
  <2> QED
    <3>1. PICK Q, I, R, H, K, E : Q = res' /\ I = heap' /\ R = res /\ H = heap /\ K = ks /\ E = Entering(stk)
      OBVIOUS
    <3>2. /\ Owned(K, R, E, H) /\ Len(Q[r].frames) = 0 /\ \A q \in ResIds : q # r => Q[q].frames = R[q].frames
          /\ \A f \in Frames : I[f] = IF \E i \in 1 .. Len(R[r].frames) : R[r].frames[i] = f THEN Free ELSE H[f]
      BY <1>1, <1>4, <2>1, <3>1
    <3>3. Owned(K, Q, E, I)
      BY ONLY <3>2, r \in ResIds, OwnedDrop
    <3> QED
      BY <3>1, <3>3
<1>7. HsIs(stk, heap', hs, cap, floor)
  <2>1. \A g \in Frames : OnStack(ks, g) => heap'[g] = heap[g]
    <3>1. \A g \in Frames : OnStack(ks, g) => heap'[g] # Free
      BY <1>6 DEF Owned
    <3> QED
      BY <1>4, <3>1
  <2> QED
    BY ONLY <1>1, <2>1, HsUnmoved
<1>8. heap' \in [Frames -> Descriptors]
  <2>1. Free \in Descriptors
    BY DEF Descriptors
  <2> QED
    BY <1>1, <2>1
<1>9. Typed'
  BY <1>1, <1>5, <1>8 DEF Typed
<1>10. Suspends(stk', pending'.mark, mode')
  BY DEF Suspends
<1> QED
  BY <1>1, <1>6, <1>7, <1>9, <1>10 DEF StacksInv, run

\* The frames a chain is cloned into are free and distinct.
LEMMA CloneIdsAre ==
  ASSUME NEW CONSTANT n \in Nat, FreeFrames(n)
  PROVE  /\ CloneIds(n) \in Seq(Frames) /\ Len(CloneIds(n)) = n /\ Distinct(CloneIds(n))
         /\ DOMAIN CloneIds(n) = 1 .. n /\ \A i \in 1 .. n : heap[CloneIds(n)[i]] = Free
<1> DEFINE S == {f \in Frames : heap[f] = Free}
<1>1. IsFiniteSet(S)
  <2>1. MaxFrames \in Nat /\ 1 \in Int /\ MaxFrames \in Int
    BY NativeBounds
  <2>2. IsFiniteSet(1 .. MaxFrames)
    BY <2>1, FS_Interval
  <2>3. S \in SUBSET (1 .. MaxFrames)
    BY DEF Frames
  <2> QED
    BY ONLY <2>2, <2>3, FS_Subset
<1>2. Cardinality(S) \in Nat /\ n <= Cardinality(S)
  BY <1>1, FS_CardinalityType DEF FreeFrames
<1>3. PICK f : f \in Bijection(1 .. Cardinality(S), S)
  <2>1. ExistsBijection(1 .. Cardinality(S), S)
    BY ONLY <1>1, FS_NatBijection, FS_CardinalityType
  <2> QED
    BY <2>1 DEF ExistsBijection
<1>4. f \in [1 .. Cardinality(S) -> S] /\ \A i, j \in 1 .. Cardinality(S) : f[i] = f[j] => i = j
  BY <1>3 DEF Bijection, Injection, IsInjective
<1> HIDE DEF S
<1>5. PICK g : g = [i \in 1 .. n |-> f[i]]
  OBVIOUS
<1>6. \A i \in 1 .. n : i \in 1 .. Cardinality(S)
  BY <1>2
<1>7. g \in [1 .. n -> S] /\ IsInjective(g)
  BY ONLY <1>4, <1>5, <1>6 DEF IsInjective
<1>8. CloneIds(n) \in [1 .. n -> S] /\ IsInjective(CloneIds(n))
  BY <1>7 DEF CloneIds, S
<1>9. S \subseteq Frames /\ \A x \in S : heap[x] = Free
  BY DEF S
<1>10. PICK ids : ids = CloneIds(n)
  OBVIOUS
<1>11. ids \in [1 .. n -> Frames] /\ DOMAIN ids = 1 .. n /\ \A i \in 1 .. n : heap[ids[i]] = Free
  BY ONLY <1>8, <1>9, <1>10
<1>12. ids \in Seq(Frames) /\ Len(ids) = n
  BY ONLY <1>11, n \in Nat, IsASeq, LenProperties
<1>13. Distinct(ids)
  BY <1>8, <1>10, <1>11, <1>12 DEF IsInjective, Distinct
<1> QED
  BY ONLY <1>10, <1>11, <1>12, <1>13

----------------------------------------------------------------------------
(* A chain of captured frames is linked in.                                *)

\* D is called on S, the first k of D with a frame that goes on the frame stack.
Linking(S, T, D, a, n, k, ids) ==
  /\ a \in Nat /\ n \in Nat /\ n > 0 /\ k \in Nat /\ (k = n \/ k + 1 = n)
  /\ Len(S) = a /\ Len(T) = a + n /\ Len(D) = n /\ Len(ids) = n
  /\ S \in Seq(Context) /\ D \in Seq(Context) /\ T \in Seq(Context) /\ ids \in Seq(Frames)
  /\ \A i \in 1 .. a : T[i] = S[i]
  /\ \A j \in 1 .. n : T[a + j] = D[j] /\ D[j].fr = ids[j]
  /\ \A j \in 1 .. k : D[j].t \in {"handle", "rerun"}
  /\ \A j \in k + 1 .. n : D[j].t = "enter"

\* Every place of the longer stack is below the chain or in it.
LEMMA LinkPlaces ==
  ASSUME NEW a \in Nat, NEW n \in Nat, n > 0, NEW k \in Nat, k = n \/ k + 1 = n
  PROVE  /\ k <= n /\ \A j \in 1 .. n : j \in 1 .. k \/ j \in k + 1 .. n
         /\ \A j \in 1 .. k : j \in 1 .. n
         /\ \A j \in k + 1 .. n : j \in 1 .. n /\ j = n
         /\ \A j \in 1 .. n : a + j \in 1 .. a + n /\ a + j \in a + 1 .. a + n /\ (a + j) - a = j
         /\ \A i \in 1 .. a + n : i \in 1 .. a \/ i \in a + 1 .. a + n
         /\ \A i \in a + 1 .. a + n : i - a \in 1 .. n /\ a + (i - a) = i
OBVIOUS

\* Outside of a suspension the frame stack K is S's frames and no more.
Followed(S, K) == K \in Seq(Frames) /\ FramesFollow(S, K, "run")

\* The frame stack follows the calls of the longer stack.
LEMMA LinkFollow ==
  ASSUME NEW S, NEW T, NEW D, NEW a, NEW n, NEW k, NEW ids, Linking(S, T, D, a, n, k, ids),
         NEW K, Followed(S, K), NEW L, L = K \o SubSeq(ids, 1, k), NEW o
  PROVE  FramesFollow(T, L, o) /\ L \in Seq(Frames)
<1> USE DEF Linking, Followed
<1>0. a \in Nat /\ n \in Nat /\ n > 0 /\ k \in Nat /\ (k = n \/ k + 1 = n) /\ Len(ids) = n
  OBVIOUS
<1>1. a \in Nat /\ n \in Nat /\ k \in Nat /\ k <= n /\ Len(K) \in Nat /\ k + 1 \in 1 .. Len(ids) + 1 /\ (k + 1) - 1 = k
  <2>1. Len(K) \in Nat
    BY LenProperties
  <2> QED
    BY ONLY <1>0, <2>1
<1>2. PICK u : u = SubSeq(ids, 1, k)
  OBVIOUS
<1>3. u \in Seq(Frames) /\ Len(u) = k /\ \A j \in 1 .. k : u[j] = ids[j]
  <2>1. ids \in Seq(Frames)
    OBVIOUS
  <2>2. /\ SubSeq(ids, 1, (k + 1) - 1) \in Seq(Frames) /\ Len(SubSeq(ids, 1, (k + 1) - 1)) = (k + 1) - 1
        /\ \A p \in 1 .. (k + 1) - 1 : SubSeq(ids, 1, (k + 1) - 1)[p] = ids[p]
    BY ONLY <1>1, <2>1, SplitAt
  <2> QED
    BY ONLY <1>1, <1>2, <2>2
<1>4. /\ L \in Seq(Frames) /\ Len(L) = Len(K) + k
      /\ (\A i \in 1 .. Len(K) : L[i] = K[i]) /\ \A j \in 1 .. k : L[Len(K) + j] = ids[j]
  <2>0. L = K \o u /\ K \in Seq(Frames)
    BY <1>2
  <2>1. /\ L \in Seq(Frames) /\ Len(L) = Len(K) + Len(u)
        /\ \A i \in 1 .. Len(K) + Len(u) : L[i] = IF i <= Len(K) THEN K[i] ELSE u[i - Len(K)]
    BY ONLY <1>3, <2>0, ConcatProperties
  <2>2. \A i \in 1 .. Len(K) : i \in 1 .. Len(K) + k /\ i <= Len(K)
    BY ONLY <1>1
  <2>3. \A i \in 1 .. k : Len(K) + i \in 1 .. Len(K) + k /\ ~(Len(K) + i <= Len(K)) /\ (Len(K) + i) - Len(K) = i
    BY ONLY <1>1
  <2> QED
    BY ONLY <1>3, <2>1, <2>2, <2>3
<1>5. \A j \in 0 .. k : FramesUpTo(T, a + j) = FramesUpTo(S, a) + j
  <2>1. \A i \in 1 .. a : T[i] = S[i]
    OBVIOUS
  <2>2. ASSUME NEW j \in 1 .. k PROVE OnKs(T[a + j])
    <3>1. j \in 1 .. n
      BY ONLY <1>0, j \in 1 .. k
    <3>2. T[a + j] = D[j] /\ D[j].t \in {"handle", "rerun"}
      BY <3>1
    <3> QED
      BY ONLY <3>2 DEF OnKs
  <2>3. a \in Nat /\ k \in Nat
    BY ONLY <1>1
  <2>4. \A j \in 1 .. k : OnKs(T[a + j])
    BY ONLY <2>2
  <2>5. Stacked(S, T, a, k)
    BY ONLY <2>1, <2>3, <2>4 DEF Stacked
  <2> QED
    BY ONLY <2>5, FramesPushAll
<1>6. Len(K) = FramesUpTo(S, a)
  BY DEF FramesFollow
<1>7. FramesUpTo(T, a + n) = Len(K) + k
  <2>1. FramesUpTo(T, a + k) = Len(K) + k
    BY <1>1, <1>5, <1>6
  <2>2. CASE k = n
    BY ONLY <2>1, <2>2
  <2>3. CASE k + 1 = n
    <3>1. n \in k + 1 .. n /\ n \in 1 .. n /\ (a + k) + 1 = a + n /\ a + k \in Nat
      BY ONLY <1>1, <2>3
    <3>2. T[a + n].t = "enter"
      BY <3>1
    <3>3. ~OnKs(T[(a + k) + 1])
      BY <3>1, <3>2 DEF OnKs
    <3>4. FramesUpTo(T, (a + k) + 1) = FramesUpTo(T, a + k) + 0
      BY ONLY <3>1, <3>3, FramesStep
    <3> QED
      BY ONLY <1>1, <2>1, <3>1, <3>4
  <2> QED
    BY ONLY <1>0, <2>2, <2>3
<1>8. ASSUME NEW i \in 1 .. a + n, OnKs(T[i]) PROVE FramesUpTo(T, i) <= Len(L) /\ L[FramesUpTo(T, i)] = T[i].fr
  <2>1. CASE i \in 1 .. a
    <3>1. T[i] = S[i] /\ OnKs(S[i]) /\ i \in 1 .. Len(S) /\ i \in Nat /\ \A j \in 1 .. i : T[j] = S[j]
      BY <1>8, <2>1
    <3>2. FramesUpTo(S, i) <= Len(K) /\ K[FramesUpTo(S, i)] = S[i].fr
      BY <3>1 DEF FramesFollow
    <3>3. FramesUpTo(T, i) = FramesUpTo(S, i)
      <4>1. i \in Nat /\ \A j \in 1 .. i : OnKs(T[j]) <=> OnKs(S[j])
        BY ONLY <3>1
      <4> QED
        BY ONLY <4>1, FramesSame
    <3>4. FramesUpTo(S, 0) = 0 /\ FramesUpTo(S, 0) < FramesUpTo(S, i) /\ FramesUpTo(S, i) \in Nat
      <4>1. 0 \in Nat /\ 0 <= i /\ 0 < i
        BY <2>1
      <4> QED
        BY ONLY <3>1, <4>1, FramesMonotone, FramesStep
    <3>5. FramesUpTo(T, i) \in 1 .. Len(K)
      BY ONLY <1>1, <3>2, <3>3, <3>4
    <3> QED
      BY ONLY <1>1, <1>4, <3>1, <3>2, <3>3, <3>5
  <2>2. CASE i > a
    <3>1. PICK j : j = i - a
      OBVIOUS
    <3>2. j \in 1 .. n /\ i = a + j
      BY ONLY <1>1, <2>2, <3>1, i \in 1 .. a + n
    <3>3. j \in 1 .. k
      <4>1. T[i] = D[j]
        BY <3>2
      <4>2. CASE j \in k + 1 .. n
        BY <1>8, <4>1, <4>2 DEF OnKs
      <4> QED
        BY ONLY <1>0, <3>2, <4>2, LinkPlaces
    <3>4. FramesUpTo(T, i) = Len(K) + j
      BY <1>1, <1>5, <1>6, <3>2, <3>3
    <3>5. T[i].fr = ids[j]
      BY <3>2
    <3>6. L[Len(K) + j] = ids[j] /\ Len(K) + j <= Len(L)
      BY ONLY <1>1, <1>4, <3>3
    <3> QED
      BY ONLY <3>4, <3>5, <3>6
  <2>3. i \in 1 .. a \/ i > a
    BY ONLY <1>0, i \in 1 .. a + n
  <2> QED
    BY ONLY <2>1, <2>2, <2>3
<1>9. Len(T) = a + n /\ Len(L) = FramesUpTo(T, Len(T))
  BY <1>4, <1>7
<1> QED
  BY ONLY <1>4, <1>8, <1>9 DEF FramesFollow

\* A captured chain holds no inference run.
LEMMA LinkRuns ==
  ASSUME NEW S, NEW T, NEW D, NEW a, NEW n, NEW k, NEW ids, Linking(S, T, D, a, n, k, ids),
         NEW d, NEW l, RunsAre(S, d, l)
  PROVE  RunsAre(T, d, l)
<1> USE DEF Linking
<1>0. a \in Nat /\ n \in Nat /\ n > 0 /\ k \in Nat /\ (k = n \/ k + 1 = n)
  OBVIOUS
<1>1. ASSUME NEW i \in a + 1 .. a + n PROVE T[i].t # "lw"
  <2>1. i - a \in 1 .. n /\ a + (i - a) = i /\ (i - a \in 1 .. k \/ i - a \in k + 1 .. n)
    BY ONLY <1>0, <1>1, LinkPlaces
  <2>2. T[i] = D[i - a]
    BY <2>1
  <2> QED
    BY <2>1, <2>2
<1>2. {i \in 1 .. a + n : T[i].t = "lw"} = {i \in 1 .. a : S[i].t = "lw"}
  <2>1. ASSUME NEW i \in 1 .. a + n PROVE T[i].t = "lw" <=> i \in 1 .. a /\ S[i].t = "lw"
    <3>1. i \in 1 .. a \/ i \in a + 1 .. a + n
      BY ONLY <1>0, i \in 1 .. a + n, LinkPlaces
    <3>2. CASE i \in 1 .. a
      BY <3>2
    <3>3. CASE i \in a + 1 .. a + n
      <4>1. i \notin 1 .. a
        BY ONLY <1>0, <3>3
      <4> QED
        BY <1>1, <3>3, <4>1
    <3> QED
      BY ONLY <3>1, <3>2, <3>3
  <2>2. \A i \in 1 .. a : i \in 1 .. a + n
    BY ONLY <1>0
  <2> QED
    BY ONLY <2>1, <2>2
<1>3. RunsUpTo(T, a + n) = RunsUpTo(S, a)
  BY <1>2 DEF RunsUpTo
<1>4. ASSUME NEW m \in 1 .. a + n, T[m].t = "lw" PROVE T[m].lw = RunsUpTo(T, m - 1)
  <2>1. m \in 1 .. a
    BY <1>1, <1>4
  <2>2. T[m] = S[m] /\ m - 1 \in Nat /\ \A i \in 1 .. m - 1 : T[i] = S[i]
    BY <2>1
  <2>3. RunsUpTo(T, m - 1) = RunsUpTo(S, m - 1)
    <3>1. m - 1 \in Nat /\ \A i \in 1 .. m - 1 : (T[i].t = "lw") <=> (S[i].t = "lw")
      BY ONLY <2>2
    <3> QED
      BY ONLY <3>1, RunsSame
  <2>4. S[m].lw = RunsUpTo(S, m - 1)
    BY <1>4, <2>1, <2>2 DEF RunsAre
  <2> QED
    BY <2>2, <2>3, <2>4
<1> QED
  BY <1>3, <1>4 DEF RunsAre

\* The innermost activation of the chain waits to be entered, and nobody else.
LEMMA LinkEnter ==
  ASSUME NEW S, NEW T, NEW D, NEW a, NEW n, NEW k, NEW ids, Linking(S, T, D, a, n, k, ids),
         NEW m, m # "ret", EnterOnTop(S, m)
  PROVE  /\ Entering(S) = {} /\ EnterOnTop(T, "ret")
         /\ Entering(T) = {ids[i] : i \in k + 1 .. Len(ids)}
<1> USE DEF Linking
<1>0. a \in Nat /\ n \in Nat /\ n > 0 /\ k \in Nat /\ (k = n \/ k + 1 = n) /\ Len(T) = a + n
  OBVIOUS
<1>1. \A i \in 1 .. a : S[i].t # "enter" /\ T[i].t # "enter"
  BY DEF EnterOnTop
<1>2. ASSUME NEW i \in a + 1 .. a + n PROVE T[i].t = "enter" <=> i - a \in k + 1 .. n
  <2>1. i - a \in 1 .. n /\ a + (i - a) = i /\ (i - a \in 1 .. k \/ i - a \in k + 1 .. n)
    BY ONLY <1>0, <1>2, LinkPlaces
  <2>2. T[i] = D[i - a]
    BY <2>1
  <2>3. CASE i - a \in k + 1 .. n
    BY <2>2, <2>3
  <2>4. CASE i - a \in 1 .. k
    <3>1. i - a \notin k + 1 .. n
      BY ONLY <1>0, <2>4
    <3>2. T[i].t \in {"handle", "rerun"}
      BY <2>2, <2>4
    <3> QED
      BY ONLY <3>1, <3>2
  <2> QED
    BY <2>1, <2>3, <2>4
<1>3. ASSUME NEW i \in 1 .. a + n, T[i].t = "enter" PROVE i = a + n /\ n \in k + 1 .. n
  <2>1. i \in a + 1 .. a + n
    BY ONLY <1>0, <1>1, <1>3, LinkPlaces
  <2>2. i - a \in k + 1 .. n
    BY <1>2, <1>3, <2>1
  <2> QED
    BY ONLY <1>0, <2>1, <2>2, LinkPlaces
<1>4. Entering(S) = {}
  BY <1>1 DEF Entering
<1>5. EnterOnTop(T, "ret")
  BY <1>3 DEF EnterOnTop
<1>6. ASSUME NEW f PROVE f \in Entering(T) <=> f \in {ids[i] : i \in k + 1 .. Len(ids)}
  <2>1. ASSUME f \in Entering(T) PROVE f \in {ids[i] : i \in k + 1 .. n}
    <3>1. PICK i \in 1 .. a + n : T[i].t = "enter" /\ f = T[i].fr
      BY <2>1 DEF Entering
    <3>2. i = a + n /\ n \in k + 1 .. n /\ n \in 1 .. n
      <4>1. n \in 1 .. n
        BY ONLY <1>0
      <4> QED
        BY <1>3, <3>1, <4>1
    <3>3. T[i].fr = ids[n]
      BY <3>2
    <3> QED
      BY <3>1, <3>2, <3>3
  <2>2. ASSUME NEW i \in k + 1 .. n, f = ids[i] PROVE f \in Entering(T)
    <3>1. i \in 1 .. n /\ a + i \in 1 .. Len(T) /\ a + i \in a + 1 .. a + n /\ (a + i) - a = i
      BY ONLY <1>0, i \in k + 1 .. n, LinkPlaces
    <3>2. T[a + i].t = "enter" /\ T[a + i].fr = f
      BY <1>2, <2>2, <3>1
    <3> QED
      BY <3>1, <3>2 DEF Entering
  <2> QED
    BY <2>1, <2>2
<1> QED
  BY <1>4, <1>5, <1>6

\* A chain of n descriptors ds cloned into the frames ids, and its contexts D:
\* the first k have a frame that goes on the frame stack.
Chain(n, ids, ds) ==
  /\ n \in Nat /\ n > 0 /\ ids \in Seq(Frames) /\ Len(ids) = n /\ Distinct(ids)
  /\ ds \in Seq(Descriptors \ {Free}) /\ Len(ds) = n
ClonedInto(ids, ds, H) ==
  [f \in Frames |-> IF \E i \in DOMAIN ids : ids[i] = f
                    THEN ds[CHOOSE i \in DOMAIN ids : ids[i] = f] ELSE H[f]]
ChainOf(ids, ds) == [i \in DOMAIN ids |-> CtxOf(i, ids, ds)]
Contexts(n, ids, ds, D, k) ==
  /\ D \in Seq(Context) /\ Len(D) = n
  /\ k \in Nat /\ (k = n \/ k + 1 = n) /\ Linked(ids, ds) = SubSeq(ids, 1, k)
  /\ \A j \in 1 .. n : D[j].fr = ids[j] /\ (D[j].t = "handle" <=> ds[j].t = "handle")
                       /\ D[j].t \in {"handle", "rerun", "enter"}
  /\ \A j \in 1 .. k : D[j].t \in {"handle", "rerun"}
  /\ \A j \in k + 1 .. n : D[j].t = "enter"

\* The contexts of a cloned chain: those before the last have a frame that goes
\* on the frame stack, and the last when it is a handler.
LEMMA ChainIs ==
  ASSUME NEW n, NEW ids, NEW ds, Chain(n, ids, ds), NEW D, D = ChainOf(ids, ds),
         NEW k, k = IF ds[n].t = "handle" THEN n ELSE n - 1
  PROVE  Contexts(n, ids, ds, D, k)
<1> USE DEF Chain, ChainOf
<1>1. DOMAIN ids = 1 .. n /\ n \in 1 .. n
  BY LenProperties
<1>2. k \in Nat /\ (k = n \/ k + 1 = n)
  BY <1>1
<1>3. ASSUME NEW j \in 1 .. n
      PROVE  /\ D[j] \in Context /\ D[j].fr = ids[j] /\ D[j].t \in {"handle", "rerun", "enter"}
             /\ D[j].t = "handle" <=> ds[j].t = "handle"
             /\ D[j].t = "enter" <=> ds[j].t # "handle" /\ j = n
  <2>1. D[j] = CtxOf(j, ids, ds) /\ ids[j] \in Frames
    BY <1>1, ElementOfSeq
  <2>2. PICK f : f = ids[j]
    OBVIOUS
  <2>3. CASE ds[j].t = "handle"
    <3>1. D[j] = [t |-> "handle", fr |-> f]
      BY <2>1, <2>2, <2>3 DEF CtxOf
    <3> QED
      BY ONLY <2>1, <2>2, <2>3, <3>1 DEF Context
  <2>4. CASE ds[j].t # "handle" /\ j = n
    <3>1. D[j] = [t |-> "enter", fr |-> f]
      BY <2>1, <2>2, <2>4 DEF CtxOf
    <3> QED
      BY ONLY <2>1, <2>2, <2>4, <3>1 DEF Context
  <2>5. CASE ds[j].t # "handle" /\ j # n
    <3>1. D[j] = [t |-> "rerun", fr |-> f]
      BY <2>1, <2>2, <2>5 DEF CtxOf
    <3> QED
      BY ONLY <2>1, <2>2, <2>5, <3>1 DEF Context
  <2> QED
    BY ONLY <2>3, <2>4, <2>5
<1>4. D \in Seq(Context) /\ Len(D) = n
  <2>1. DOMAIN D = 1 .. n /\ D = [i \in 1 .. n |-> D[i]]
    BY <1>1
  <2>2. D \in [1 .. n -> Context]
    BY ONLY <1>3, <2>1
  <2> QED
    BY ONLY <2>1, <2>2, n \in Nat, IsASeq, LenProperties
<1>5. Linked(ids, ds) = SubSeq(ids, 1, k)
  <2>1. CASE ds[n].t = "handle"
    <3>1. SubSeq(ids, 1, n) = ids
      BY SubSeqFull
    <3> QED
      BY <2>1, <3>1 DEF Linked
  <2>2. CASE ds[n].t # "handle"
    BY <2>2 DEF Linked, Pop
  <2> QED
    BY <2>1, <2>2
<1>6. ASSUME NEW j \in 1 .. k PROVE D[j].t \in {"handle", "rerun"}
  <2>1. j \in 1 .. n /\ (ds[n].t = "handle" \/ j # n)
    BY <1>1, <1>2
  <2> QED
    BY ONLY <1>3, <2>1
<1>7. ASSUME NEW j \in k + 1 .. n PROVE D[j].t = "enter"
  <2>1. j \in 1 .. n /\ j = n /\ ds[n].t # "handle"
    BY <1>1, <1>2
  <2> QED
    BY ONLY <1>3, <2>1
<1> QED
  BY ONLY <1>2, <1>3, <1>4, <1>5, <1>6, <1>7 DEF Contexts

\* What run_from installs is what the contexts of the chain stand for.
LEMMA ChainEntries ==
  ASSUME NEW n, NEW ids, NEW ds, Chain(n, ids, ds), NEW D, NEW k, Contexts(n, ids, ds, D, k),
         NEW I, \A j \in 1 .. n : I[ids[j]] = ds[j]
  PROVE  /\ \A i \in 1 .. Len(D) : Plain(D[i], I)
         /\ EntriesOfChain(ids, ds) = FlattenSeq([i \in 1 .. Len(D) |-> Installed(D[i], I)])
<1> USE DEF Chain, Contexts
<1>1. DOMAIN ids = 1 .. n
  BY LenProperties
<1>2. ASSUME NEW i \in 1 .. n
      PROVE  /\ Plain(D[i], I)
             /\ Installed(D[i], I) = IF ds[i].t = "handle" THEN EntriesOf(ds[i].h, ids[i]) ELSE << >>
  <2>1. ids[i] \in Frames /\ ds[i] \in Descriptors /\ I[D[i].fr] = ds[i] /\ D[i].fr = ids[i]
    BY ElementOfSeq
  <2>2. ds[i].t = "handle" => ds[i].h \in DOMAIN Handlers
    BY ONLY <2>1 DEF Descriptors, Free, ActFrame, HfFrame
  <2>3. Plain(D[i], I)
    BY <2>1, <2>2 DEF Plain
  <2> QED
    BY <2>1, <2>3 DEF Installed
<1>3. [i \in 1 .. Len(D) |-> Installed(D[i], I)]
      = [i \in DOMAIN ids |-> IF ds[i].t = "handle" THEN EntriesOf(ds[i].h, ids[i]) ELSE << >>]
  BY <1>1, <1>2
<1> QED
  BY <1>2, <1>3 DEF EntriesOfChain

\* The frames a resumption is cloned from are not free.
LEMMA ClonedAre ==
  ASSUME StacksInv, NEW CONSTANT r \in ResIds
  PROVE  /\ res[r].frames \in Seq(Frames) /\ Cloned(res[r].frames) \in Seq(Descriptors \ {Free})
         /\ Len(Cloned(res[r].frames)) = Len(res[r].frames)
<1>1. PICK fs : fs = res[r].frames
  OBVIOUS
<1>2. fs \in Seq(Frames) /\ heap \in [Frames -> Descriptors]
  BY <1>1 DEF StacksInv, Typed
<1>3. PICK n : n = Len(fs)
  OBVIOUS
<1>4. n \in Nat /\ DOMAIN fs = 1 .. n
  BY <1>2, <1>3, LenProperties
<1>5. PICK ds : ds = Cloned(fs)
  OBVIOUS
<1>6. ds = [i \in 1 .. n |-> heap[fs[i]]]
  BY <1>4, <1>5 DEF Cloned
<1>7. ASSUME NEW i \in 1 .. n PROVE heap[fs[i]] \in Descriptors \ {Free}
  <2>1. fs[i] \in Frames
    BY <1>2, <1>3, ElementOfSeq
  <2>2. InResumption(res, fs[i])
    BY <1>1, <1>3 DEF InResumption
  <2>3. heap[fs[i]] # Free
    BY <2>1, <2>2 DEF StacksInv, Owned
  <2> QED
    BY <1>2, <2>1, <2>3
<1>8. DOMAIN ds = 1 .. n /\ ds \in [1 .. n -> Descriptors \ {Free}]
  BY ONLY <1>6, <1>7
<1>9. ds \in Seq(Descriptors \ {Free}) /\ Len(ds) = n
  BY ONLY <1>4, <1>8, IsASeq, LenProperties
<1> QED
  BY ONLY <1>1, <1>2, <1>3, <1>5, <1>9

\* The heap after the chain is cloned into the frames ids.
LEMMA ClonedHeap ==
  ASSUME NEW n, NEW ids, NEW ds, Chain(n, ids, ds), NEW H \in [Frames -> Descriptors],
         NEW I, I = ClonedInto(ids, ds, H)
  PROVE  /\ I \in [Frames -> Descriptors] /\ \A j \in 1 .. n : I[ids[j]] = ds[j]
         /\ \A f \in Frames : IF OnStack(ids, f) THEN I[f] # Free ELSE I[f] = H[f]
<1> USE DEF Chain, ClonedInto
<1>1. DOMAIN ids = 1 .. n
  BY LenProperties
<1>2. ASSUME NEW j \in 1 .. n PROVE ids[j] \in Frames /\ I[ids[j]] = ds[j]
  <2>1. ids[j] \in Frames /\ \E i \in DOMAIN ids : ids[i] = ids[j]
    BY <1>1, ElementOfSeq
  <2>2. (CHOOSE i \in DOMAIN ids : ids[i] = ids[j]) = j
    BY <1>1 DEF Distinct
  <2> QED
    BY <2>1, <2>2
<1>3. ASSUME NEW f \in Frames PROVE IF OnStack(ids, f) THEN I[f] \in Descriptors \ {Free} ELSE I[f] = H[f]
  <2>1. CASE OnStack(ids, f)
    <3>1. PICK j \in 1 .. n : ids[j] = f
      BY <2>1 DEF OnStack
    <3>2. I[f] = ds[j] /\ ds[j] \in Descriptors \ {Free}
      BY <1>2, <3>1, ElementOfSeq
    <3> QED
      BY <2>1, <3>2
  <2>2. CASE ~OnStack(ids, f)
    BY <1>1, <2>2 DEF OnStack
  <2> QED
    BY <2>1, <2>2
<1>4. I = [f \in Frames |-> I[f]]
  OBVIOUS
<1>5. \A f \in Frames : I[f] \in Descriptors
  BY <1>3
<1>6. I \in [Frames -> Descriptors]
  BY ONLY <1>4, <1>5
<1> QED
  BY <1>2, <1>3, <1>6

\* A chain of cloned frames is linked in: what every stack is afterwards.
LEMMA ChainLinked ==
  ASSUME StacksInv, mode # "susp", mode # "ret", NEW CONSTANT n, NEW CONSTANT ids, NEW CONSTANT ds,
         Chain(n, ids, ds), \A i \in 1 .. n : heap[ids[i]] = Free,
         NEW I, I = ClonedInto(ids, ds, heap),
         NEW L, L = ks \o Linked(ids, ds), NEW T, T = stk \o ChainOf(ids, ds),
         NEW es, es = EntriesOfChain(ids, ds)
  PROVE  /\ I \in [Frames -> Descriptors] /\ L \in Seq(Frames) /\ T \in Seq(Context) /\ Len(T) = Len(stk) + n
         /\ FramesFollow(T, L, "ret") /\ EnterOnTop(T, "ret") /\ RunsAre(T, depth, lw)
         /\ Owned(L, res, Entering(T), I) /\ HsIs(T, I, hs \o es, cap + CapturingIn(es), floor)
<1>1. /\ FramesFollow(stk, ks, mode) /\ Owned(ks, res, Entering(stk), heap) /\ EnterOnTop(stk, mode)
      /\ RunsAre(stk, depth, lw) /\ HsIs(stk, heap, hs, cap, floor)
      /\ ks \in Seq(Frames) /\ stk \in Seq(Context) /\ heap \in [Frames -> Descriptors]
  BY DEF StacksInv, Typed
<1>0. n \in Nat /\ n > 0 /\ ids \in Seq(Frames) /\ Len(ids) = n /\ Distinct(ids)
  BY DEF Chain
<1>2. PICK D, k : D = ChainOf(ids, ds) /\ k = IF ds[n].t = "handle" THEN n ELSE n - 1
  OBVIOUS
<1>b. Contexts(n, ids, ds, D, k)
  BY ONLY <1>2, Chain(n, ids, ds), ChainIs
<1>3. /\ D \in Seq(Context) /\ Len(D) = n
      /\ k \in Nat /\ (k = n \/ k + 1 = n) /\ Linked(ids, ds) = SubSeq(ids, 1, k)
      /\ \A j \in 1 .. n : D[j].fr = ids[j]
      /\ \A j \in 1 .. k : D[j].t \in {"handle", "rerun"}
      /\ \A j \in k + 1 .. n : D[j].t = "enter"
  BY ONLY <1>b DEF Contexts
<1>4. PICK S, K, R, H, a : S = stk /\ K = ks /\ R = res /\ H = heap /\ a = Len(stk)
  OBVIOUS
<1>5. /\ I \in [Frames -> Descriptors] /\ \A j \in 1 .. n : I[ids[j]] = ds[j]
      /\ \A f \in Frames : IF OnStack(ids, f) THEN I[f] # Free ELSE I[f] = H[f]
  <2>1. H \in [Frames -> Descriptors] /\ I = ClonedInto(ids, ds, H)
    BY ONLY <1>1, <1>4, I = ClonedInto(ids, ds, heap)
  <2> QED
    BY ONLY <1>0, <2>1, Chain(n, ids, ds), ClonedHeap
<1>6. Linking(S, T, D, a, n, k, ids)
  <2>1. T = S \o D /\ S \in Seq(Context) /\ a = Len(S) /\ a \in Nat
    BY ONLY <1>1, <1>2, <1>4, T = stk \o ChainOf(ids, ds), LenProperties
  <2>2. PICK V : V = Context
    OBVIOUS
  <2>3. S \in Seq(V) /\ D \in Seq(V)
    BY ONLY <1>3, <2>1, <2>2
  <2>4. /\ T \in Seq(V) /\ Len(T) = Len(S) + Len(D)
        /\ \A i \in 1 .. Len(S) + Len(D) : T[i] = IF i <= Len(S) THEN S[i] ELSE D[i - Len(S)]
    BY ONLY <2>1, <2>3, ConcatProperties
  <2>5. /\ \A i \in 1 .. a : i \in 1 .. a + n /\ i <= a
        /\ \A j \in 1 .. n : a + j \in 1 .. a + n /\ ~(a + j <= a) /\ (a + j) - a = j
    BY ONLY <1>0, <2>1
  <2>6. \A i \in 1 .. a : T[i] = S[i]
    BY ONLY <1>3, <2>1, <2>4, <2>5
  <2>7. \A j \in 1 .. n : T[a + j] = D[j]
    BY ONLY <1>3, <2>1, <2>4, <2>5
  <2>8. T \in Seq(Context) /\ Len(T) = a + n
    BY ONLY <1>3, <2>1, <2>2, <2>4
  <2> QED
    BY ONLY <1>0, <1>3, <2>1, <2>6, <2>7, <2>8 DEF Linking
<1>7. L = K \o SubSeq(ids, 1, k)
  BY ONLY <1>3, <1>4, L = ks \o Linked(ids, ds)
<1>8. FramesFollow(T, L, "ret") /\ L \in Seq(Frames)
  <2>1. K \in Seq(Frames) /\ FramesFollow(S, K, mode) /\ mode # "susp"
    BY ONLY <1>1, <1>4, mode # "susp"
  <2>3. Followed(S, K)
    BY ONLY <2>1 DEF Followed, FramesFollow
  <2>4. PICK o : o = "ret"
    OBVIOUS
  <2>5. FramesFollow(T, L, o) /\ L \in Seq(Frames)
    BY ONLY <1>6, <1>7, <2>3, LinkFollow
  <2> QED
    BY ONLY <2>4, <2>5
<1>9. RunsAre(T, depth, lw)
  <2>1. PICK d, l : d = depth /\ l = lw
    OBVIOUS
  <2>2. RunsAre(S, d, l)
    BY ONLY <1>1, <1>4, <2>1
  <2>3. RunsAre(T, d, l)
    BY ONLY <1>6, <2>2, LinkRuns
  <2> QED
    BY ONLY <2>1, <2>3
<1>10. Entering(S) = {} /\ EnterOnTop(T, "ret") /\ Entering(T) = {ids[i] : i \in k + 1 .. Len(ids)}
  <2>1. PICK m : m = mode
    OBVIOUS
  <2>2. m # "ret" /\ EnterOnTop(S, m)
    BY ONLY <1>1, <1>4, <2>1, mode # "ret"
  <2> QED
    BY ONLY <1>6, <2>2, LinkEnter
<1>11. Owned(L, R, Entering(T), I)
  <2>1. PICK E : E = Entering(T)
    OBVIOUS
  <2>2. /\ K \in Seq(Frames) /\ Owned(K, R, {}, H) /\ \A i \in 1 .. Len(ids) : H[ids[i]] = Free
        /\ ids \in Seq(Frames) /\ Distinct(ids) /\ k \in 0 .. Len(ids)
        /\ E = {ids[i] : i \in k + 1 .. Len(ids)}
    <3>1. Owned(K, R, {}, H)
      BY ONLY <1>1, <1>4, <1>10
    <3>2. \A i \in 1 .. Len(ids) : H[ids[i]] = Free
      BY <1>0, <1>4
    <3>3. k \in 0 .. Len(ids)
      BY ONLY <1>0, <1>3
    <3> QED
      BY <1>0, <1>1, <1>4, <1>10, <2>1, <3>1, <3>2, <3>3
  <2>3. \A f \in Frames : IF OnStack(ids, f) THEN I[f] # Free ELSE I[f] = H[f]
    BY ONLY <1>5
  <2>4. Owned(L, R, E, I)
    BY ONLY <1>7, <2>2, <2>3, OwnedLink
  <2> QED
    BY ONLY <2>1, <2>4
<1>12. HsIs(S, I, hs, cap, floor)
  <2>1. \A g \in Frames : OnStack(K, g) => I[g] = H[g]
    <3>1. ASSUME NEW g \in Frames, OnStack(K, g) PROVE I[g] = H[g]
      <4>1. H[g] # Free
        BY <1>1, <1>4, <3>1 DEF Owned
      <4>2. ~OnStack(ids, g)
        BY <1>0, <1>4, <4>1 DEF OnStack
      <4> QED
        BY ONLY <1>5, <4>2, g \in Frames
    <3> QED
      BY ONLY <3>1
  <2>2. PICK x, c, f, m : x = hs /\ c = cap /\ f = floor /\ m = mode
    OBVIOUS
  <2>3. S \in Seq(Context) /\ HsIs(S, H, x, c, f) /\ K \in Seq(Frames) /\ FramesFollow(S, K, m)
    BY ONLY <1>1, <1>4, <2>2
  <2>4. HsIs(S, I, x, c, f)
    BY ONLY <2>1, <2>3, HsUnmoved
  <2> QED
    BY ONLY <2>2, <2>4
<1>13. HsIs(T, I, hs \o es, cap + CapturingIn(es), floor)
  <2>1. PICK x, c, f : x = hs /\ c = cap /\ f = floor
    OBVIOUS
  <2>2. /\ \A i \in 1 .. Len(D) : Plain(D[i], I)
        /\ es = FlattenSeq([i \in 1 .. Len(D) |-> Installed(D[i], I)])
    <3>1. \A j \in 1 .. n : I[ids[j]] = ds[j]
      BY ONLY <1>5
    <3>2. es = EntriesOfChain(ids, ds)
      OBVIOUS
    <3> QED
      BY ONLY <1>b, <3>1, <3>2, Chain(n, ids, ds), ChainEntries, SMTT(30)
  <2>3. S \in Seq(Context) /\ HsIs(S, I, x, c, f) /\ D \in Seq(Context) /\ T = S \o D
    BY ONLY <1>1, <1>2, <1>3, <1>4, <1>12, <2>1, T = stk \o ChainOf(ids, ds)
  <2>4. HsIs(T, I, x \o es, c + CapturingIn(es), f)
    BY ONLY <2>2, <2>3, HsPushAll
  <2> QED
    BY ONLY <2>1, <2>4
<1>14. T \in Seq(Context) /\ Len(T) = Len(stk) + n
  BY ONLY <1>4, <1>6 DEF Linking
<1> QED
  BY ONLY <1>4, <1>5, <1>8, <1>9, <1>10, <1>11, <1>13, <1>14

\* A resumption is resumed, or refused when its one use is over.
LEMMA ResumeKeeps ==
  ASSUME StacksInv, NEW CONSTANT r \in ResIds, Resume(r)
  PROVE  StacksInv'
<1>1. mode = "run" /\ res[r] # NoRes
  BY DEF Resume
<1>2. CASE res[r].once /\ res[r].used
  <2>1. Exit("E0906")
    BY <1>2 DEF Resume
  <2> QED
    BY ONLY <2>1, ExitKeeps DEF Modes
<1>3. CASE ~(res[r].once /\ res[r].used)
  <2>1. PICK fs, n : fs = res[r].frames /\ n = Len(res[r].frames)
    OBVIOUS
  <2>2. PICK ids, ds : ids = CloneIds(n) /\ ds = Cloned(fs)
    OBVIOUS
  <2>3. /\ Room(n) /\ FreeFrames(n)
        /\ res' = IF res[r].once THEN [res EXCEPT ![r].used = TRUE] ELSE res
        /\ heap' = ClonedInto(ids, ds, heap) /\ ks' = ks \o Linked(ids, ds)
        /\ HandlePush(EntriesOfChain(ids, ds)) /\ stk' = stk \o ChainOf(ids, ds)
        /\ mode' = "ret" /\ UNCHANGED <<pending, run>>
    BY <1>3, <2>1, <2>2 DEF Resume, ClonedInto, ChainOf
  <2>4. /\ Typed /\ stk \in Seq(Context) /\ Len(stk) \in Nat
        /\ res \in [ResIds -> [frames : Seq(Frames), once : BOOLEAN, used : BOOLEAN]]
    BY LenProperties DEF StacksInv, Typed
  <2>5. fs \in Seq(Frames) /\ n \in Nat /\ n > 0 /\ ds \in Seq(Descriptors \ {Free}) /\ Len(ds) = n
    <3>1. fs \in Seq(Frames) /\ ds \in Seq(Descriptors \ {Free}) /\ Len(ds) = n
      BY <2>1, <2>2, ClonedAre
    <3>2. fs # << >>
      BY <1>1, <2>1 DEF StacksInv, Typed
    <3>3. n \in Nat /\ n # 0
      BY ONLY <2>1, <3>1, <3>2, EmptySeq, LenProperties
    <3> QED
      BY ONLY <3>1, <3>3
  <2>6. Chain(n, ids, ds) /\ \A i \in 1 .. n : heap[ids[i]] = Free
    <3>1. /\ ids \in Seq(Frames) /\ Len(ids) = n /\ Distinct(ids) /\ \A i \in 1 .. n : heap[ids[i]] = Free
      BY ONLY <2>2, <2>3, <2>5, CloneIdsAre
    <3> QED
      BY ONLY <2>5, <3>1 DEF Chain
  <2>7. PICK es, I, L, T : /\ es = EntriesOfChain(ids, ds) /\ I = ClonedInto(ids, ds, heap)
                           /\ L = ks \o Linked(ids, ds) /\ T = stk \o ChainOf(ids, ds)
    OBVIOUS
  <2>8. /\ I \in [Frames -> Descriptors] /\ L \in Seq(Frames) /\ T \in Seq(Context) /\ Len(T) = Len(stk) + n
        /\ FramesFollow(T, L, "ret") /\ EnterOnTop(T, "ret") /\ RunsAre(T, depth, lw)
        /\ Owned(L, res, Entering(T), I) /\ HsIs(T, I, hs \o es, cap + CapturingIn(es), floor)
    <3>1. StacksInv /\ mode # "susp" /\ mode # "ret"
      BY <1>1
    <3> QED
      BY ONLY <2>6, <2>7, <3>1, ChainLinked
  <2>9. /\ heap' = I /\ ks' = L /\ stk' = T /\ hs' = hs \o es /\ cap' = cap + CapturingIn(es) /\ mode' = "ret"
        /\ floor' = floor /\ lw' = lw /\ depth' = depth /\ pending' = pending
    BY ONLY <2>3, <2>7 DEF HandlePush, run
  <2>10. /\ res' \in [ResIds -> [frames : Seq(Frames), once : BOOLEAN, used : BOOLEAN]]
         /\ \A q \in ResIds : res'[q].frames = res[q].frames
    BY ONLY <2>3, <2>4, r \in ResIds
  <2>11. Owned(L, res', Entering(T), I)
    <3>1. PICK R, Q, E : R = res /\ Q = res' /\ E = Entering(T)
      OBVIOUS
    <3>2. Owned(L, R, E, I) /\ \A q \in ResIds : Q[q].frames = R[q].frames
      BY ONLY <2>8, <2>10, <3>1
    <3>3. Owned(L, Q, E, I)
      BY ONLY <3>2, OwnedSame
    <3> QED
      BY ONLY <3>1, <3>3
  <2>12. \A q \in ResIds : res'[q] # NoRes => res'[q].frames # << >>
    <3>1. ASSUME NEW q \in ResIds, res'[q] # NoRes PROVE res[q] # NoRes
      <4>1. CASE q = r
        BY <1>1, <4>1
      <4>2. CASE q # r
        BY ONLY <2>3, <2>4, <3>1, <4>2, r \in ResIds
      <4> QED
        BY <4>1, <4>2
    <3> QED
      BY <2>4, <2>10, <3>1 DEF Typed
  <2>13. Typed'
    <3>1. Len(T) <= MaxStk
      BY <2>3, <2>8 DEF Room
    <3> QED
      BY <2>4, <2>8, <2>9, <2>10, <2>12, <3>1 DEF Typed, Modes
  <2>14. Suspends(stk', pending'.mark, mode')
    BY <2>9 DEF Suspends
  <2> QED
    BY ONLY <2>8, <2>9, <2>11, <2>13, <2>14 DEF StacksInv
<1> QED
  BY <1>2, <1>3

\* Every step keeps the three stacks in agreement.
LEMMA StacksInvNext == ASSUME StacksInv, [Next]_vars PROVE StacksInv'
<1>1. ASSUME NEW CONSTANT a \in Labels, Call(a) PROVE StacksInv'
  BY ONLY StacksInv, <1>1, CallKeeps
<1>2. ASSUME NEW CONSTANT h \in DOMAIN Handlers, Handle2(h) PROVE StacksInv'
  BY ONLY StacksInv, <1>2, HandleKeeps
<1>3. ASSUME NEW CONSTANT op, PerformTail(op) PROVE StacksInv'
  BY ONLY StacksInv, <1>3, PerformTailKeeps
<1>4. ASSUME NEW CONSTANT op, PerformCapturing(op) PROVE StacksInv'
  BY ONLY StacksInv, <1>4, PerformCapturingKeeps
<1>5. ASSUME NEW CONSTANT op, PerformAtRoot(op) PROVE StacksInv'
  BY ONLY StacksInv, <1>5, PerformAtRootKeeps
<1>6. ASSUME NEW CONSTANT r \in ResIds, Resume(r) PROVE StacksInv'
  BY ONLY StacksInv, <1>6, ResumeKeeps
<1>7. ASSUME NEW CONSTANT r \in ResIds, Drop(r) PROVE StacksInv'
  BY ONLY StacksInv, <1>7, DropKeeps
<1>8. CASE Yield
  <2>1. mode' = "ret" /\ UNCHANGED <<stacks, run, stk>> /\ mode = "run"
    BY <1>8 DEF Yield
  <2> QED
    BY ONLY StacksInv, <2>1, ModeKeeps
<1>9. CASE StartRun
  BY ONLY StacksInv, <1>9, StartRunKeeps
<1>10. CASE Deliver
  <2>1. CASE Finish
    <3>1. Exit("finished")
      BY <2>1 DEF Finish
    <3> QED
      BY ONLY <3>1, ExitKeeps DEF Modes
  <2> QED
    BY <1>10, <2>1, ReturnToActivationKeeps, EnterFrameKeeps, ReenterFrameKeeps, ReturnFromClauseKeeps,
       DispatchValueKeeps, EndRunKeeps DEF Deliver
<1>11. CASE Unwind
  BY <1>11, UnwindActivationKeeps, PassHandleKeeps, DispatchCaptureKeeps DEF Unwind
<1>12. CASE UNCHANGED vars
  BY <1>12 DEF vars, StacksInv, Typed
<1> QED
  BY <1>1, <1>2, <1>3, <1>4, <1>5, <1>6, <1>7, <1>8, <1>9, <1>10, <1>11, <1>12 DEF Next, Ended

\* The three stacks of the runtime agree in every state a program reaches.
THEOREM StacksInvariant == Spec => []StacksInv
<1>1. Init => StacksInv
  BY StacksInvInit
<1>2. StacksInv /\ [Next]_vars => StacksInv'
  BY StacksInvNext
<1> QED
  BY <1>1, <1>2, PTL DEF Spec

\* Frame identifiers without repetition are at most MaxFrames.
LEMMA NoMoreThanFrames ==
  ASSUME NEW K \in Seq(Frames), Distinct(K)
  PROVE  Len(K) <= MaxFrames
<1>1. Len(K) \in Nat /\ MaxFrames \in Nat
  BY LenProperties, NativeBounds
<1>2. /\ IsFiniteSet(1 .. Len(K)) /\ Cardinality(1 .. Len(K)) = Len(K)
      /\ IsFiniteSet(1 .. MaxFrames) /\ Cardinality(1 .. MaxFrames) = MaxFrames
  <2>1. \A n \in Nat : IsFiniteSet(1 .. n) /\ Cardinality(1 .. n) = n
    <3>1. ASSUME NEW n \in Nat PROVE IsFiniteSet(1 .. n) /\ Cardinality(1 .. n) = n
      <4>1. 1 \in Int /\ n \in Int /\ (IF 1 > n THEN 0 ELSE n - 1 + 1) = n
        OBVIOUS
      <4> QED
        BY ONLY <4>1, FS_Interval
    <3> QED
      BY <3>1
  <2> QED
    BY <1>1, <2>1
<1>3. PICK g : g = [i \in 1 .. Len(K) |-> K[i]]
  OBVIOUS
<1>4. g \in [1 .. Len(K) -> 1 .. MaxFrames] /\ \A i \in 1 .. Len(K) : g[i] = K[i]
  BY <1>3, ElementOfSeq DEF Frames
<1>5. CASE MaxFrames < Len(K)
  <2>1. \E x, y \in 1 .. Len(K) : x # y /\ g[x] = g[y]
    <3>1. PICK X, Y : X = 1 .. Len(K) /\ Y = 1 .. MaxFrames
      OBVIOUS
    <3>2. /\ IsFiniteSet(X) /\ IsFiniteSet(Y) /\ Cardinality(Y) < Cardinality(X) /\ g \in [X -> Y]
      BY ONLY <1>2, <1>4, <1>5, <3>1
    <3>3. \E x, y \in X : x # y /\ g[x] = g[y]
      BY ONLY <3>2, FS_PigeonHole
    <3> QED
      BY ONLY <3>1, <3>3
  <2> QED
    BY <1>4, <2>1 DEF Distinct
<1> QED
  BY <1>1, <1>5

\* A set that has a member exactly when P, and never two, has 1 member or 0.
LEMMA AtMostOne ==
  ASSUME NEW X, NEW P \in BOOLEAN, (X # {}) <=> P, \A x, y \in X : x = y
  PROVE  Cardinality(X) = IF P THEN 1 ELSE 0
<1>1. CASE X = {}
  BY <1>1, FS_EmptySet
<1>2. ASSUME NEW x \in X PROVE Cardinality(X) = 1 /\ P
  <2>1. X = {x}
    OBVIOUS
  <2> QED
    BY <2>1, FS_Singleton
<1> QED
  BY <1>1, <1>2

\* A frame has as many owners as the invariant says.
LEMMA OwnersAre ==
  ASSUME StacksInv, NEW CONSTANT f \in Frames
  PROVE  OwnersOf(f) = IF heap[f] = Free THEN 0 ELSE 1
<1>1. /\ Owned(ks, res, Entering(stk), heap) /\ EnterOnTop(stk, mode)
      /\ ks \in Seq(Frames) /\ stk \in Seq(Context)
      /\ res \in [ResIds -> [frames : Seq(Frames), once : BOOLEAN, used : BOOLEAN]]
  BY DEF StacksInv, Typed
<1>2. DOMAIN ks = 1 .. Len(ks) /\ DOMAIN stk = 1 .. Len(stk)
  BY <1>1, LenProperties
<1>3. ASSUME NEW r \in ResIds
      PROVE  DOMAIN res[r].frames = 1 .. Len(res[r].frames) /\ Len(res[r].frames) <= MaxFrames
  <2>1. res[r].frames \in Seq(Frames)
    BY <1>1
  <2>2. Distinct(res[r].frames)
    BY <1>1 DEF Owned, Apart, Distinct
  <2> QED
    BY ONLY <2>1, <2>2, NoMoreThanFrames, LenProperties
<1>4. Cardinality({i \in DOMAIN ks : ks[i] = f}) = IF OnStack(ks, f) THEN 1 ELSE 0
  <2>1. PICK X, P : X = {i \in DOMAIN ks : ks[i] = f} /\ P = OnStack(ks, f)
    OBVIOUS
  <2>2. P \in BOOLEAN
    BY <2>1 DEF OnStack
  <2>3. X # {} <=> P
    BY <1>2, <2>1 DEF OnStack
  <2>4. \A x, y \in X : x = y
    BY <1>1, <1>2, <2>1 DEF Owned, Distinct
  <2>5. Cardinality(X) = IF P THEN 1 ELSE 0
    BY ONLY <2>2, <2>3, <2>4, AtMostOne
  <2> QED
    BY ONLY <2>1, <2>5
<1>5. Cardinality({i \in DOMAIN stk : stk[i].t = "enter" /\ stk[i].fr = f}) = IF f \in Entering(stk) THEN 1 ELSE 0
  <2>1. PICK X, P : X = {i \in DOMAIN stk : stk[i].t = "enter" /\ stk[i].fr = f} /\ P = (f \in Entering(stk))
    OBVIOUS
  <2>2. P \in BOOLEAN
    BY <2>1
  <2>3. X # {} <=> P
    BY <1>2, <2>1 DEF Entering
  <2>4. \A x, y \in X : x = y
    <3>1. \A x \in X : x \in 1 .. Len(stk) /\ stk[x].t = "enter"
      BY <1>2, <2>1
    <3>2. \A x \in X : x = Len(stk)
      BY ONLY <1>1, <3>1 DEF EnterOnTop
    <3> QED
      BY ONLY <3>2
  <2>5. Cardinality(X) = IF P THEN 1 ELSE 0
    BY ONLY <2>2, <2>3, <2>4, AtMostOne
  <2> QED
    BY ONLY <2>1, <2>5
<1>6. Cardinality({p \in ResIds \X (1 .. MaxFrames) :
                       p[2] \in DOMAIN res[p[1]].frames /\ res[p[1]].frames[p[2]] = f})
      = IF InResumption(res, f) THEN 1 ELSE 0
  <2>1. PICK X, P : /\ X = {p \in ResIds \X (1 .. MaxFrames) :
                                p[2] \in DOMAIN res[p[1]].frames /\ res[p[1]].frames[p[2]] = f}
                    /\ P = InResumption(res, f)
    OBVIOUS
  <2>2. P \in BOOLEAN
    BY <2>1 DEF InResumption
  <2>3. X # {} <=> P
    <3>1. ASSUME P PROVE X # {}
      <4>1. PICK r \in ResIds : \E j \in 1 .. Len(res[r].frames) : res[r].frames[j] = f
        BY <2>1, <3>1 DEF InResumption
      <4>a. PICK i \in 1 .. Len(res[r].frames) : res[r].frames[i] = f
        BY <4>1
      <4>2. MaxFrames \in Nat /\ Len(res[r].frames) \in Nat
        BY <1>1, NativeBounds, LenProperties
      <4>3. i \in 1 .. MaxFrames /\ i \in DOMAIN res[r].frames
        BY ONLY <1>3, <4>2, r \in ResIds, i \in 1 .. Len(res[r].frames)
      <4>4. <<r, i>> \in X
        BY <2>1, <4>a, <4>3
      <4> QED
        BY <4>4
    <3>2. ASSUME NEW p \in X PROVE P
      BY <1>3, <2>1 DEF InResumption
    <3> QED
      BY <3>1, <3>2
  <2>4. ASSUME NEW x \in X, NEW y \in X PROVE x = y
    <3>1. PICK q \in ResIds, i \in 1 .. MaxFrames : x = <<q, i>>
      BY <2>1
    <3>2. PICK s \in ResIds, j \in 1 .. MaxFrames : y = <<s, j>>
      BY <2>1
    <3>3. /\ i \in DOMAIN res[q].frames /\ res[q].frames[i] = f
          /\ j \in DOMAIN res[s].frames /\ res[s].frames[j] = f
      BY <2>1, <3>1, <3>2
    <3>4. i \in 1 .. Len(res[q].frames) /\ j \in 1 .. Len(res[s].frames) /\ res[q].frames[i] = res[s].frames[j]
      BY ONLY <1>3, <3>3, q \in ResIds, s \in ResIds
    <3>5. Apart(res)
      BY <1>1 DEF Owned
    <3>6. q = s /\ i = j
      BY ONLY <3>4, <3>5, q \in ResIds, s \in ResIds DEF Apart
    <3> QED
      BY <3>1, <3>2, <3>6
  <2>5. Cardinality(X) = IF P THEN 1 ELSE 0
    BY ONLY <2>2, <2>3, <2>4, AtMostOne
  <2> QED
    BY ONLY <2>1, <2>5
<1>7. /\ ~(OnStack(ks, f) /\ InResumption(res, f))
      /\ f \in Entering(stk) => ~OnStack(ks, f) /\ ~InResumption(res, f)
      /\ heap[f] # Free <=> OnStack(ks, f) \/ InResumption(res, f) \/ f \in Entering(stk)
  BY <1>1 DEF Owned
<1> QED
  BY ONLY <1>4, <1>5, <1>6, <1>7 DEF OwnersOf

\* The floor, the driver and the depth belong to the innermost run.
LEMMA RunsIsolated == ASSUME StacksInv PROVE InferenceIsIsolated
<1>1. /\ RunsAre(stk, depth, lw) /\ HsIs(stk, heap, hs, cap, floor) /\ Suspends(stk, pending.mark, mode)
      /\ stk \in Seq(Context)
  BY DEF StacksInv, Typed
<1>2. DOMAIN stk = 1 .. Len(stk) /\ hs \in Seq(Entry) /\ DOMAIN hs = 1 .. Len(hs)
  BY <1>1, HsTyped, LenProperties
<1>3. depth = Cardinality(RunsOnStack) /\ lw = depth
  BY <1>1, <1>2 DEF RunsAre, RunsUpTo, RunsOnStack
<1>4. ASSUME NEW i \in DOMAIN hs PROVE i <= floor <=> \E j \in RunsOnStack : SiteOf(hs[i].hf) < j
  <2>1. PICK s \in 1 .. Len(stk) : /\ stk[s].t = "handle" /\ stk[s].fr = hs[i].hf
                                   /\ i <= floor <=> \E m \in 1 .. Len(stk) : stk[m].t = "lw" /\ s < m
    BY <1>1, <1>2, HsSites
  <2>2. SiteOf(hs[i].hf) = s
    BY <2>1, SiteOfIs
  <2> QED
    BY <1>2, <2>1, <2>2 DEF RunsOnStack
<1>5. ASSUME mode = "susp", NEW i \in RunsOnStack PROVE SiteOf(pending.mark) > i
  <2>1. PICK s \in 1 .. Len(stk) : /\ stk[s].t = "handle" /\ stk[s].fr = pending.mark
                                   /\ \A j \in s .. Len(stk) : stk[j].t \notin {"perform", "lw"}
    BY <1>1, <1>5 DEF Suspends
  <2>2. SiteOf(pending.mark) = s
    BY <2>1, SiteOfIs
  <2>3. i \in 1 .. Len(stk) /\ stk[i].t = "lw"
    BY <1>2 DEF RunsOnStack
  <2>4. i \notin s .. Len(stk)
    BY ONLY <2>1, <2>3
  <2>5. i < s
    BY ONLY <2>3, <2>4, s \in 1 .. Len(stk)
  <2> QED
    BY <2>2, <2>3, <2>5
<1> QED
  BY <1>3, <1>4, <1>5 DEF InferenceIsIsolated

\* The type invariant, and the failures the runtime calls internal do not happen.
LEMMA StacksTyped == ASSUME StacksInv PROVE TypeOK /\ mode # "internal error"
<1>1. Typed /\ stk \in Seq(Context) /\ HsIs(stk, heap, hs, cap, floor) /\ RunsAre(stk, depth, lw)
  BY DEF StacksInv, Typed
<1>2. hs \in Seq(Entry) /\ cap \in Nat /\ floor \in 0 .. Len(hs)
  BY <1>1, HsTyped
<1>3. depth \in Nat /\ lw \in Nat
  <2>1. Len(stk) \in Nat
    BY <1>1, LenProperties
  <2> QED
    BY <1>1, <2>1, RunsStep DEF RunsAre
<1>4. /\ ks \in Seq(Frames) /\ Len(stk) <= MaxStk /\ mode \in Modes
      /\ pending \in [mark : FrameIds, once : BOOLEAN]
      /\ (\A f \in Frames : heap[f] \in Descriptors) /\ \A r \in ResIds : res[r].frames \in Seq(Frames)
  BY <1>1 DEF Typed
<1> QED
  BY <1>2, <1>3, <1>4 DEF TypeOK, Entry, Descriptors, Modes

\* What the inductive invariant says of the code.
LEMMA StacksAgreeFollows == ASSUME StacksInv PROVE StacksAgree
<1>1. TypeOK /\ mode # "internal error"
  BY StacksTyped
<1>2. stk \in Seq(Context) /\ HsIs(stk, heap, hs, cap, floor) /\ FramesFollow(stk, ks, mode)
  BY DEF StacksInv, Typed
<1>3. CapDepthIsExact
  BY ONLY <1>2, HsCap DEF CapDepthIsExact
<1>4. FrameStackFollowsCalls
  <2>1. DOMAIN stk = 1 .. Len(stk)
    BY <1>2, LenProperties
  <2> QED
    BY ONLY <1>2, <2>1 DEF FrameStackFollowsCalls, FramesFollow
<1>5. InferenceIsIsolated
  BY RunsIsolated
<1>6. OneOwnerPerFrame
  BY OwnersAre DEF OneOwnerPerFrame
<1> QED
  BY <1>1, <1>3, <1>4, <1>5, <1>6 DEF StacksAgree

\* The handler stack, the frame stack, the inference driver and the frames'
\* owners agree with the C stack in every state a program reaches.
THEOREM NativeStacksAgree == Spec => []StacksAgree
BY StacksInvariant, StacksAgreeFollows, PTL

----------------------------------------------------------------------------
(* Sequences of whatever members.                                          *)

\* A sequence, of whatever members.
IsSequence(s) == \E F : s \in Seq(F)

\* One member more.
LEMMA AppendIs ==
  ASSUME NEW s, IsSequence(s), NEW e
  PROVE  /\ IsSequence(Append(s, e)) /\ Len(s) \in Nat /\ Len(Append(s, e)) = Len(s) + 1
         /\ (\A p \in 1 .. Len(s) : Append(s, e)[p] = s[p]) /\ Append(s, e)[Len(s) + 1] = e
         /\ SubSeq(Append(s, e), 1, Len(s)) = s
<1>1. PICK F : s \in Seq(F)
  BY DEF IsSequence
<1> DEFINE G == F \cup {e}
<1>2. s \in Seq(G) /\ e \in G
  BY <1>1
<1> HIDE DEF G
<1>3. Append(s, e) \in Seq(G) /\ Len(s) \in Nat /\ Len(Append(s, e)) = Len(s) + 1
  BY <1>2
<1>4. \A p \in 1 .. Len(s) + 1 : Append(s, e)[p] = IF p = Len(s) + 1 THEN e ELSE s[p]
  BY <1>2
<1>5. SubSeq(Append(s, e), 1, Len(s)) = s
  <2> DEFINE t == Append(s, e)
  <2>1. t \in Seq(G) /\ Len(t) = Len(s) + 1 /\ Len(s) + 1 \in 1 .. Len(t) + 1 /\ (Len(s) + 1) - 1 = Len(s)
    BY <1>3
  <2> HIDE DEF t
  <2>2. /\ SubSeq(t, 1, Len(s)) \in Seq(G) /\ Len(SubSeq(t, 1, Len(s))) = Len(s)
        /\ \A p \in 1 .. Len(s) : SubSeq(t, 1, Len(s))[p] = t[p]
    BY <2>1, SplitAt
  <2>3. \A p \in 1 .. Len(s) : SubSeq(t, 1, Len(s))[p] = s[p]
    BY <2>2, <1>3, <1>4 DEF t
  <2> QED
    BY <2>2, <2>3, <1>2, SeqEqual DEF t
<1> QED
  BY <1>3, <1>4, <1>5 DEF IsSequence

\* A sequence cut in two.
LEMMA CutIs ==
  ASSUME NEW s, IsSequence(s), NEW k \in 1 .. Len(s) + 1
  PROVE  /\ IsSequence(SubSeq(s, 1, k - 1)) /\ IsSequence(SubSeq(s, k, Len(s)))
         /\ SubSeq(s, 1, k - 1) \o SubSeq(s, k, Len(s)) = s /\ Len(s) \in Nat
         /\ Len(SubSeq(s, 1, k - 1)) = k - 1 /\ Len(SubSeq(s, k, Len(s))) = Len(s) - (k - 1)
         /\ \A p \in 1 .. k - 1 : SubSeq(s, 1, k - 1)[p] = s[p] /\ p \in 1 .. Len(s)
         /\ \A p \in 1 .. Len(s) - (k - 1) : /\ SubSeq(s, k, Len(s))[p] = s[k - 1 + p]
                                             /\ k - 1 + p \in 1 .. Len(s)
<1>1. PICK F : s \in Seq(F)
  BY DEF IsSequence
<1>2. Len(s) \in Nat
  BY <1>1
<1> QED
  BY <1>1, <1>2, SplitAt DEF IsSequence

\* Two sequences joined.
LEMMA JoinIs ==
  ASSUME NEW s, IsSequence(s), NEW t, IsSequence(t)
  PROVE  /\ IsSequence(s \o t) /\ Len(s) \in Nat /\ Len(t) \in Nat /\ Len(s \o t) = Len(s) + Len(t)
         /\ (\A p \in 1 .. Len(s) : (s \o t)[p] = s[p])
         /\ \A p \in 1 .. Len(t) : (s \o t)[Len(s) + p] = t[p]
<1>1. PICK F : s \in Seq(F)
  BY DEF IsSequence
<1>2. PICK E : t \in Seq(E)
  BY DEF IsSequence
<1> DEFINE G == F \cup E
<1>3. s \in Seq(G) /\ t \in Seq(G)
  BY <1>1, <1>2
<1> HIDE DEF G
<1>4. s \o t \in Seq(G) /\ Len(s) \in Nat /\ Len(t) \in Nat /\ Len(s \o t) = Len(s) + Len(t)
  BY <1>3
<1>5. \A p \in 1 .. Len(s) : (s \o t)[p] = s[p]
  BY <1>3, <1>4
<1>6. \A p \in 1 .. Len(t) : (s \o t)[Len(s) + p] = t[p]
  BY <1>3, <1>4
<1> QED
  BY <1>4, <1>5, <1>6 DEF IsSequence

\* Sequences with the same members are the same.
LEMMA SameSequence ==
  ASSUME NEW s, IsSequence(s), NEW t, IsSequence(t), Len(s) = Len(t), \A p \in 1 .. Len(s) : s[p] = t[p]
  PROVE  s = t
<1>1. PICK F : s \in Seq(F)
  BY DEF IsSequence
<1>2. PICK E : t \in Seq(E)
  BY DEF IsSequence
<1> DEFINE G == F \cup E
<1>3. s \in Seq(G) /\ t \in Seq(G)
  BY <1>1, <1>2
<1> QED
  BY <1>3, SeqEqual

----------------------------------------------------------------------------
(* A view: the continuation k, its identities id, the entries x that its   *)
(* handlers have installed, and in b how many of them the first p frames   *)
(* of k account for.                                                       *)

\* The view of an empty C stack.
NoView == [k |-> << >>, id |-> << >>, b |-> [p \in 0 .. 0 |-> 0], x |-> << >>]

\* A handler's entries follow those of the frames below it.
FrameReads(v, p) ==
  IF v.k[p].t = "handle"
  THEN /\ v.k[p].h \in DOMAIN Handlers /\ v.id[p] \in Frames
       /\ v.b[p] = v.b[p - 1] + Len(Handlers[v.k[p].h])
       /\ \A j \in 1 .. Len(Handlers[v.k[p].h]) : v.x[v.b[p - 1] + j] = EntriesOf(v.k[p].h, v.id[p])[j]
  ELSE v.b[p] = v.b[p - 1]
\* What is true of every view.
Reads(v) ==
  /\ IsSequence(v.k) /\ v.id \in Seq(FrameIds) /\ Len(v.id) = Len(v.k) /\ v.x \in Seq(Entry)
  /\ v.b \in [0 .. Len(v.k) -> Nat] /\ v.b[0] = 0 /\ v.b[Len(v.k)] = Len(v.x)
  /\ \A p, q \in 0 .. Len(v.k) : p <= q => v.b[p] <= v.b[q]
  /\ \A p \in 1 .. Len(v.k) : FrameReads(v, p)
  /\ \A m \in 1 .. Len(v.x) : \E p \in 1 .. Len(v.k) : v.k[p].t = "handle" /\ v.b[p - 1] < m /\ m <= v.b[p]
  /\ \A p, q \in 1 .. Len(v.k) : v.id[p] = v.id[q] /\ v.id[p] # 0 => p = q
\* f entries are below the innermost inference run.
FloorAt(v, f) ==
  \/ f = 0 /\ \A p \in 1 .. Len(v.k) : v.k[p].t # "lw"
  \/ \E p \in 1 .. Len(v.k) : v.k[p].t = "lw" /\ f = v.b[p] /\ \A q \in p + 1 .. Len(v.k) : v.k[q].t # "lw"

\* What a C activation adds to the continuation, and under which identity.
Pushes(c, H) == IF c.t = "act" THEN [t |-> "act", a |-> c.a]
                ELSE IF c.t = "lw" THEN [t |-> "lw"] ELSE FrameOf(H[c.fr])
\* A frame of the heap is its frame's identity; other frames have none.
PushedId(c) == IF c.t \in {"handle", "enter", "rerun"} THEN c.fr ELSE 0

\* w is v after the call of c: with a frame on top, or cut where a tail
\* clause was found.
Extends(c, H, v, w) ==
  /\ c.t # "perform"
  /\ w.k = Append(v.k, Pushes(c, H)) /\ w.id = Append(v.id, PushedId(c)) /\ w.x = v.x \o Installed(c, H)
  /\ w.b = [p \in 0 .. Len(v.k) + 1 |-> IF p <= Len(v.k) THEN v.b[p] ELSE Len(v.x) + Len(Installed(c, H))]
\* A tail clause hides the frames from its handler up, and their entries.
Hides(c, v, w, at) ==
  /\ c.t = "perform" /\ at \in 1 .. Len(v.k) /\ v.k[at].t = "handle" /\ v.id[at] = c.hf
  /\ \A q \in at .. Len(v.k) : v.k[q].t # "lw"
  /\ w.k = Append(SubSeq(v.k, 1, at - 1), [t |-> "tail", inner |-> SubSeq(v.k, at, Len(v.k))])
  /\ w.id = Append(SubSeq(v.id, 1, at - 1), 0)
  /\ w.x = SubSeq(v.x, 1, v.b[at - 1]) /\ c.saved = SubSeq(v.x, v.b[at - 1] + 1, Len(v.x))
  /\ w.b = [p \in 0 .. at |-> IF p < at THEN v.b[p] ELSE v.b[at - 1]]
\* One activation more on the C stack.
ViewStep(c, H, v, w) == Extends(c, H, v, w) \/ \E at \in Nat : Hides(c, v, w, at)

\* A frame on top.
LEMMA ReadsExtend ==
  ASSUME NEW v, Reads(v), NEW c \in Context, NEW H, NEW w, Extends(c, H, v, w),
         c.t = "handle" => /\ H[c.fr].t = "handle" /\ H[c.fr].h \in DOMAIN Handlers,
         c.t \in {"enter", "rerun"} => H[c.fr].t # "handle",
         \A p \in 1 .. Len(v.k) : v.id[p] # 0 => v.id[p] # PushedId(c)
  PROVE  /\ Reads(w) /\ Len(w.k) = Len(v.k) + 1 /\ Len(v.k) \in Nat
         /\ \A p \in 1 .. Len(v.k) : w.k[p] = v.k[p] /\ w.id[p] = v.id[p]
         /\ \A p \in 0 .. Len(v.k) : w.b[p] = v.b[p]
         /\ w.k[Len(v.k) + 1] = Pushes(c, H) /\ w.id[Len(v.k) + 1] = PushedId(c)
         /\ w.b[Len(v.k) + 1] = Len(w.x)
<1> DEFINE n == Len(v.k)
           es == Installed(c, H)
           g == Pushes(c, H)
           d == PushedId(c)
<1>1. /\ IsSequence(v.k) /\ v.id \in Seq(FrameIds) /\ Len(v.id) = n /\ v.x \in Seq(Entry)
      /\ v.b \in [0 .. n -> Nat] /\ v.b[0] = 0 /\ v.b[n] = Len(v.x)
      /\ \A p, q \in 0 .. n : p <= q => v.b[p] <= v.b[q]
  BY DEF Reads
<1>2. n \in Nat /\ Len(v.x) \in Nat
  BY <1>1, AppendIs
<1>3. /\ c.t # "perform" /\ w.k = Append(v.k, g) /\ w.id = Append(v.id, d) /\ w.x = v.x \o es
      /\ w.b = [p \in 0 .. n + 1 |-> IF p <= n THEN v.b[p] ELSE Len(v.x) + Len(es)]
  BY DEF Extends
<1>4. d \in FrameIds /\ es \in Seq(Entry) /\ Len(es) \in Nat
  <2>1. c.t = "handle" => c.fr \in Frames /\ es = EntriesOf(H[c.fr].h, c.fr)
    BY ContextIs DEF Installed
  <2>2. c.t # "handle" => es = << >>
    BY DEF Installed
  <2>3. es \in Seq(Entry)
    BY <2>1, <2>2, EntriesAre, EmptySeq
  <2> QED
    BY <2>3, ContextIs DEF PushedId, FrameIds
<1>5. /\ IsSequence(w.k) /\ Len(w.k) = n + 1 /\ (\A p \in 1 .. n : w.k[p] = v.k[p]) /\ w.k[n + 1] = g
  BY <1>1, <1>3, AppendIs
<1>6. w.id \in Seq(FrameIds) /\ Len(w.id) = n + 1 /\ (\A p \in 1 .. n : w.id[p] = v.id[p]) /\ w.id[n + 1] = d
  <2>0. IsSequence(v.id)
    BY <1>1 DEF IsSequence
  <2>1. w.id \in Seq(FrameIds)
    BY <1>1, <1>3, <1>4
  <2> QED
    BY <1>1, <1>3, <2>0, <2>1, AppendIs
<1>7. /\ w.x \in Seq(Entry) /\ Len(w.x) = Len(v.x) + Len(es) /\ (\A m \in 1 .. Len(v.x) : w.x[m] = v.x[m])
      /\ \A m \in 1 .. Len(es) : w.x[Len(v.x) + m] = es[m]
  <2>2. v.x \o es \in Seq(Entry)
    BY <1>1, <1>4
  <2> HIDE DEF es
  <2>3. /\ Len(v.x \o es) = Len(v.x) + Len(es) /\ (\A m \in 1 .. Len(v.x) : (v.x \o es)[m] = v.x[m])
        /\ \A m \in 1 .. Len(es) : (v.x \o es)[Len(v.x) + m] = es[m]
    BY <1>1, <1>2, <1>4
  <2>4. w.x = v.x \o es
    BY <1>3
  <2> QED
    BY <2>2, <2>3, <2>4
<1>8. (\A p \in 0 .. n : w.b[p] = v.b[p]) /\ w.b[n + 1] = Len(w.x)
  BY <1>1, <1>2, <1>3, <1>4, <1>7
<1>9. w.b \in [0 .. n + 1 -> Nat] /\ w.b[0] = 0
  BY <1>1, <1>2, <1>3, <1>4
<1>10. \A p, q \in 0 .. n + 1 : p <= q => w.b[p] <= w.b[q]
  <2> SUFFICES ASSUME NEW p \in 0 .. n + 1, NEW q \in 0 .. n + 1, p <= q PROVE w.b[p] <= w.b[q]
    OBVIOUS
  <2>1. CASE q <= n
    BY <2>1, <1>1, <1>2, <1>8
  <2>2. CASE q = n + 1 /\ p <= n
    <3>1. w.b[p] = v.b[p] /\ v.b[p] <= v.b[n]
      BY <2>2, <1>1, <1>2, <1>8
    <3> QED
      BY <3>1, <2>2, <1>1, <1>2, <1>4, <1>7, <1>8, <1>9
  <2>3. CASE q = n + 1 /\ p = n + 1
    BY <2>3, <1>9, <1>2
  <2> QED
    BY <2>1, <2>2, <2>3, <1>2
<1>11. \A p \in 1 .. n : FrameReads(w, p)
  <2> SUFFICES ASSUME NEW p \in 1 .. n PROVE FrameReads(w, p)
    OBVIOUS
  <2>1. FrameReads(v, p)
    BY DEF Reads
  <2>2. /\ w.k[p] = v.k[p] /\ w.id[p] = v.id[p] /\ w.b[p] = v.b[p] /\ w.b[p - 1] = v.b[p - 1]
        /\ v.b[p] \in Nat /\ v.b[p - 1] \in Nat /\ v.b[p] <= Len(v.x)
    <3>1. p \in 0 .. n /\ p - 1 \in 0 .. n /\ n \in 0 .. n /\ p <= n
      BY <1>2
    <3> QED
      BY <3>1, <1>1, <1>5, <1>6, <1>8
  <2>3. CASE v.k[p].t = "handle"
    <3>1. Len(Handlers[v.k[p].h]) \in Nat /\ v.b[p] = v.b[p - 1] + Len(Handlers[v.k[p].h])
      BY <2>1, <2>3, HandlersAssumption DEF FrameReads
    <3>2. \A j \in 1 .. Len(Handlers[v.k[p].h]) : v.b[p - 1] + j \in 1 .. Len(v.x)
      <4> DEFINE l == Len(Handlers[v.k[p].h])
                 y == v.b[p - 1]
                 u == v.b[p]
      <4>1. l \in Nat /\ y \in Nat /\ u \in Nat /\ u = y + l /\ u <= Len(v.x)
        BY <3>1, <2>2
      <4> HIDE DEF l, y, u
      <4>2. \A j \in 1 .. l : y + j \in 1 .. Len(v.x)
        BY <4>1, <1>2
      <4> QED
        BY <4>2 DEF l, y
    <3>3. \A j \in 1 .. Len(Handlers[v.k[p].h]) : w.x[v.b[p - 1] + j] = v.x[v.b[p - 1] + j]
      BY <3>2, <1>7
    <3> QED
      BY <3>3, <2>1, <2>2, <2>3 DEF FrameReads
  <2>4. CASE v.k[p].t # "handle"
    BY <2>1, <2>2, <2>4 DEF FrameReads
  <2> QED
    BY <2>3, <2>4
<1>12. g.t = "handle" <=> c.t = "handle"
  <2>1. c.t \in {"act", "handle", "enter", "rerun", "lw"}
    BY ContextIs, <1>3
  <2> QED
    BY <2>1 DEF Pushes, FrameOf
<1>13. FrameReads(w, n + 1)
  <2>0. (n + 1) - 1 = n /\ w.b[n] = Len(v.x) /\ w.b[n + 1] = Len(v.x) + Len(es)
    <3>1. (n + 1) - 1 = n /\ n \in 0 .. n
      BY <1>2
    <3> QED
      BY <3>1, <1>1, <1>7, <1>8
  <2>1. CASE c.t = "handle"
    <3>1. c.fr \in Frames /\ g.t = "handle" /\ g.h = H[c.fr].h /\ g.h \in DOMAIN Handlers /\ d = c.fr
      BY <2>1, ContextIs DEF Pushes, FrameOf, PushedId
    <3>2. es = EntriesOf(g.h, d)
      BY <2>1, <3>1 DEF Installed
    <3>3. Len(es) = Len(Handlers[g.h])
      BY <3>1, <3>2, EntriesAre
    <3>4. \A j \in 1 .. Len(Handlers[g.h]) : w.x[Len(v.x) + j] = EntriesOf(g.h, d)[j]
      BY <3>2, <3>3, <1>7
    <3> QED
      BY <2>0, <3>1, <3>3, <3>4, <1>5, <1>6, ZenonT(40) DEF FrameReads
  <2>2. CASE c.t # "handle"
    <3>1. es = << >>
      BY <2>2 DEF Installed
    <3>2. w.b[n + 1] = w.b[n]
      BY <3>1, <2>0, <1>2
    <3> QED
      BY <2>0, <2>2, <3>2, <1>5, <1>12 DEF FrameReads
  <2> QED
    BY <2>1, <2>2
<1>14. \A m \in 1 .. Len(w.x) : \E p \in 1 .. n + 1 : w.k[p].t = "handle" /\ w.b[p - 1] < m /\ m <= w.b[p]
  <2> SUFFICES ASSUME NEW m \in 1 .. Len(w.x)
               PROVE  \E p \in 1 .. n + 1 : w.k[p].t = "handle" /\ w.b[p - 1] < m /\ m <= w.b[p]
    OBVIOUS
  <2>1. CASE m <= Len(v.x)
    <3>1. m \in 1 .. Len(v.x)
      BY <2>1, <1>2, <1>7
    <3>2. PICK p \in 1 .. n : v.k[p].t = "handle" /\ v.b[p - 1] < m /\ m <= v.b[p]
      BY <3>1 DEF Reads
    <3>3. p \in 1 .. n + 1 /\ p - 1 \in 0 .. n /\ p \in 0 .. n
      BY <3>2, <1>2
    <3> QED
      BY <3>2, <3>3, <1>5, <1>8
  <2>2. CASE m > Len(v.x)
    <3>1. Len(es) # 0
      BY <2>2, <1>2, <1>4, <1>7
    <3>2. c.t = "handle"
      BY <3>1 DEF Installed
    <3>3. n + 1 \in 1 .. n + 1 /\ (n + 1) - 1 = n /\ n \in 0 .. n
      BY <1>2
    <3>4. w.b[n] = Len(v.x) /\ w.b[n + 1] = Len(w.x)
      BY <1>1, <1>8, <3>3
    <3> QED
      BY <2>2, <3>2, <3>3, <3>4, <1>2, <1>5, <1>7, <1>12
  <2> QED
    BY <2>1, <2>2, <1>2, <1>7
<1>15. \A p, q \in 1 .. n + 1 : w.id[p] = w.id[q] /\ w.id[p] # 0 => p = q
  <2>1. \A p, q \in 1 .. n : v.id[p] = v.id[q] /\ v.id[p] # 0 => p = q
    BY DEF Reads
  <2>2. \A p \in 1 .. n : w.id[p] = v.id[p] /\ (v.id[p] # 0 => v.id[p] # d)
    BY <1>6
  <2>3. \A p \in 1 .. n + 1 : p \in 1 .. n \/ p = n + 1
    BY <1>2
  <2> QED
    BY <2>1, <2>2, <2>3, <1>6
<1>16. \A p \in 1 .. n + 1 : FrameReads(w, p)
  <2>1. \A p \in 1 .. n + 1 : p \in 1 .. n \/ p = n + 1
    BY <1>2
  <2> QED
    BY <2>1, <1>11, <1>13
<1>17. Reads(w)
  <2> HIDE DEF n, es, g, d
  <2> QED
    BY <1>5, <1>6, <1>7, <1>8, <1>9, <1>10, <1>14, <1>15, <1>16 DEF Reads
<1> QED
  BY <1>2, <1>5, <1>6, <1>8, <1>17

\* A tail clause in progress: the view ends below its handler.
LEMMA ReadsHide ==
  ASSUME NEW v, Reads(v), NEW c, NEW w, NEW at, Hides(c, v, w, at)
  PROVE  /\ Reads(w) /\ Len(w.k) = at /\ at \in 1 .. Len(v.k) /\ Len(v.k) \in Nat
         /\ \A p \in 1 .. at - 1 : w.k[p] = v.k[p] /\ w.id[p] = v.id[p]
         /\ \A p \in 0 .. at - 1 : w.b[p] = v.b[p]
         /\ w.k[at].t = "tail" /\ w.id[at] = 0 /\ w.b[at] = v.b[at - 1]
         /\ v.x = w.x \o c.saved /\ w.x \in Seq(Entry)
<1> DEFINE n == Len(v.k)
           g == [t |-> "tail", inner |-> SubSeq(v.k, at, Len(v.k))]
<1>1. /\ IsSequence(v.k) /\ v.id \in Seq(FrameIds) /\ Len(v.id) = n /\ v.x \in Seq(Entry)
      /\ v.b \in [0 .. n -> Nat] /\ v.b[0] = 0 /\ v.b[n] = Len(v.x)
      /\ \A p, q \in 0 .. n : p <= q => v.b[p] <= v.b[q]
  BY DEF Reads
<1>2. n \in Nat /\ Len(v.x) \in Nat
  BY <1>1, AppendIs
<1>3. /\ at \in 1 .. n /\ w.k = Append(SubSeq(v.k, 1, at - 1), g) /\ w.id = Append(SubSeq(v.id, 1, at - 1), 0)
      /\ w.x = SubSeq(v.x, 1, v.b[at - 1]) /\ c.saved = SubSeq(v.x, v.b[at - 1] + 1, Len(v.x))
      /\ w.b = [p \in 0 .. at |-> IF p < at THEN v.b[p] ELSE v.b[at - 1]]
  BY DEF Hides
<1>4. at \in Nat /\ at - 1 \in 0 .. n /\ at - 1 \in Nat /\ at \in 1 .. n + 1 /\ at # 0 /\ (at - 1) + 1 = at
  BY <1>2, <1>3
<1> DEFINE o == v.b[at - 1]
<1>5. o \in Nat /\ o <= Len(v.x) /\ o + 1 \in 1 .. Len(v.x) + 1 /\ (o + 1) - 1 = o
  <2>0. n \in 0 .. n /\ at - 1 <= n
    BY <1>2, <1>4
  <2>1. o \in Nat /\ o <= Len(v.x)
    BY <2>0, <1>1, <1>2, <1>4
  <2> QED
    BY <2>1, <1>2
<1>6. /\ IsSequence(w.k) /\ Len(w.k) = at /\ (\A p \in 1 .. at - 1 : w.k[p] = v.k[p]) /\ w.k[at] = g
  <2> DEFINE s == SubSeq(v.k, 1, at - 1)
  <2>1. IsSequence(s) /\ Len(s) = at - 1 /\ \A p \in 1 .. at - 1 : s[p] = v.k[p]
    BY <1>1, <1>4, CutIs
  <2>2. w.k = Append(s, g)
    BY <1>3
  <2> HIDE DEF s, g
  <2> QED
    BY <2>1, <2>2, <1>4, AppendIs
<1>7. /\ w.id \in Seq(FrameIds) /\ Len(w.id) = at /\ (\A p \in 1 .. at - 1 : w.id[p] = v.id[p]) /\ w.id[at] = 0
  <2> DEFINE s == SubSeq(v.id, 1, at - 1)
  <2>1. s \in Seq(FrameIds) /\ Len(s) = at - 1 /\ \A p \in 1 .. at - 1 : s[p] = v.id[p]
    BY <1>1, <1>4, SplitAt
  <2>2. w.id = Append(s, 0) /\ 0 \in FrameIds
    BY <1>3 DEF FrameIds
  <2> HIDE DEF s, g
  <2>3. w.id \in Seq(FrameIds)
    BY <2>1, <2>2
  <2>4. IsSequence(s)
    BY <2>1 DEF IsSequence
  <2> QED
    BY <2>1, <2>2, <2>3, <2>4, <1>4, AppendIs
<1>8. /\ w.x \in Seq(Entry) /\ Len(w.x) = o /\ (\A m \in 1 .. o : w.x[m] = v.x[m] /\ m \in 1 .. Len(v.x))
      /\ v.x = w.x \o c.saved
  <2> HIDE DEF o
  <2>1. w.x = SubSeq(v.x, 1, (o + 1) - 1) /\ c.saved = SubSeq(v.x, o + 1, Len(v.x))
    BY <1>3, <1>5 DEF o
  <2>2. v.x \in Seq(Entry) /\ o + 1 \in 1 .. Len(v.x) + 1
    BY <1>1, <1>5
  <2>3. /\ SubSeq(v.x, 1, (o + 1) - 1) \in Seq(Entry) /\ Len(SubSeq(v.x, 1, (o + 1) - 1)) = (o + 1) - 1
        /\ SubSeq(v.x, 1, (o + 1) - 1) \o SubSeq(v.x, o + 1, Len(v.x)) = v.x
        /\ \A m \in 1 .. (o + 1) - 1 : SubSeq(v.x, 1, (o + 1) - 1)[m] = v.x[m] /\ m \in 1 .. Len(v.x)
    BY <2>2, SplitAt
  <2> QED
    BY <2>1, <2>3, <1>5
<1>9. (\A p \in 0 .. at - 1 : w.b[p] = v.b[p]) /\ w.b[at] = o
  <2>1. \A p \in 0 .. at - 1 : p \in 0 .. at /\ p < at
    BY <1>4
  <2>2. at \in 0 .. at /\ ~(at < at)
    BY <1>4
  <2> QED
    BY <2>1, <2>2, <1>3
<1>10. w.b \in [0 .. at -> Nat] /\ w.b[0] = 0 /\ w.b[at] = Len(w.x)
  <2>1. \A p \in 0 .. at : p < at => p \in 0 .. n
    BY <1>3, <1>2
  <2>2. 0 \in 0 .. at - 1
    BY <1>3, <1>2
  <2>3. w.b \in [0 .. at -> Nat]
    BY <2>1, <1>1, <1>3, <1>5
  <2>4. w.b[0] = 0
    BY <2>2, <1>1, <1>9
  <2> QED
    BY <2>3, <2>4, <1>8, <1>9
<1>11. \A p, q \in 0 .. at : p <= q => w.b[p] <= w.b[q]
  <2> SUFFICES ASSUME NEW p \in 0 .. at, NEW q \in 0 .. at, p <= q PROVE w.b[p] <= w.b[q]
    OBVIOUS
  <2>0. p \in 0 .. at - 1 \/ p = at
    BY <1>4
  <2>1. CASE q \in 0 .. at - 1
    <3>1. p \in 0 .. at - 1 /\ p \in 0 .. n /\ q \in 0 .. n
      BY <2>1, <1>3, <1>2
    <3> QED
      BY <3>1, <2>1, <1>1, <1>9
  <2>2. CASE q = at /\ p \in 0 .. at - 1
    <3>1. p \in 0 .. n /\ p <= at - 1
      BY <2>2, <1>3, <1>2
    <3> QED
      BY <2>2, <3>1, <1>1, <1>4, <1>9
  <2>3. CASE q = at /\ p = at
    BY <2>3, <1>9, <1>5
  <2>4. q \in 0 .. at - 1 \/ q = at
    BY <1>4
  <2> QED
    BY <2>0, <2>1, <2>2, <2>3, <2>4
<1>12. \A p \in 1 .. at - 1 : FrameReads(w, p)
  <2> SUFFICES ASSUME NEW p \in 1 .. at - 1 PROVE FrameReads(w, p)
    OBVIOUS
  <2>0. p \in 1 .. n /\ p \in 0 .. n /\ p - 1 \in 0 .. n /\ p \in 0 .. at - 1 /\ p - 1 \in 0 .. at - 1 /\ p <= at - 1
    BY <1>2, <1>3
  <2>1. FrameReads(v, p)
    BY <2>0 DEF Reads
  <2>2. /\ w.k[p] = v.k[p] /\ w.id[p] = v.id[p] /\ w.b[p] = v.b[p] /\ w.b[p - 1] = v.b[p - 1]
        /\ v.b[p] \in Nat /\ v.b[p - 1] \in Nat /\ v.b[p] <= o
    BY <2>0, <1>1, <1>4, <1>6, <1>7, <1>9
  <2>3. CASE v.k[p].t = "handle"
    <3>1. Len(Handlers[v.k[p].h]) \in Nat /\ v.b[p] = v.b[p - 1] + Len(Handlers[v.k[p].h])
      BY <2>1, <2>3, HandlersAssumption DEF FrameReads
    <3>2. \A j \in 1 .. Len(Handlers[v.k[p].h]) : v.b[p - 1] + j \in 1 .. o
      <4> DEFINE l == Len(Handlers[v.k[p].h])
                 y == v.b[p - 1]
                 u == v.b[p]
      <4>1. l \in Nat /\ y \in Nat /\ u \in Nat /\ u = y + l /\ u <= o
        BY <3>1, <2>2
      <4> HIDE DEF l, y, u, o
      <4>2. \A j \in 1 .. l : y + j \in 1 .. o
        BY <4>1, <1>5
      <4> QED
        BY <4>2 DEF l, y
    <3>3. \A j \in 1 .. Len(Handlers[v.k[p].h]) : w.x[v.b[p - 1] + j] = v.x[v.b[p - 1] + j]
      BY <3>2, <1>8
    <3> QED
      BY <3>3, <2>1, <2>2, <2>3 DEF FrameReads
  <2>4. CASE v.k[p].t # "handle"
    BY <2>1, <2>2, <2>4 DEF FrameReads
  <2> QED
    BY <2>3, <2>4
<1>13. FrameReads(w, at)
  <2>1. at - 1 \in 0 .. at - 1
    BY <1>4
  <2> QED
    BY <2>1, <1>6, <1>9 DEF FrameReads
<1>14. \A p \in 1 .. at : FrameReads(w, p)
  <2>1. \A p \in 1 .. at : p \in 1 .. at - 1 \/ p = at
    BY <1>4
  <2> QED
    BY <2>1, <1>12, <1>13
<1>15. \A m \in 1 .. Len(w.x) : \E p \in 1 .. at : w.k[p].t = "handle" /\ w.b[p - 1] < m /\ m <= w.b[p]
  <2> SUFFICES ASSUME NEW m \in 1 .. o
               PROVE  \E p \in 1 .. at : w.k[p].t = "handle" /\ w.b[p - 1] < m /\ m <= w.b[p]
    BY <1>8
  <2>1. m \in 1 .. Len(v.x) /\ m <= o /\ m \in Nat
    <3>1. m \in 1 .. Len(v.x)
      BY <1>8
    <3> HIDE DEF o
    <3> QED
      BY <3>1, <1>5
  <2>2. PICK p \in 1 .. n : v.k[p].t = "handle" /\ v.b[p - 1] < m /\ m <= v.b[p]
    BY <2>1 DEF Reads
  <2>3. p \in Nat /\ p - 1 \in 0 .. n
    BY <1>2
  <2>4. p <= at - 1
    <3> SUFFICES ASSUME ~(p <= at - 1) PROVE FALSE
      OBVIOUS
    <3>1. at - 1 <= p - 1
      BY <2>3, <1>4
    <3>2. o <= v.b[p - 1] /\ v.b[p - 1] \in Nat
      BY <3>1, <2>3, <1>1, <1>4
    <3> QED
      BY <3>2, <2>1, <2>2, <1>5
  <2>5. p \in 1 .. at - 1 /\ p \in 0 .. at - 1 /\ p - 1 \in 0 .. at - 1 /\ p \in 1 .. at
    BY <2>3, <2>4, <1>4
  <2> QED
    BY <2>2, <2>5, <1>6, <1>9
<1>16. \A p, q \in 1 .. at : w.id[p] = w.id[q] /\ w.id[p] # 0 => p = q
  <2>1. \A p, q \in 1 .. n : v.id[p] = v.id[q] /\ v.id[p] # 0 => p = q
    BY DEF Reads
  <2>2. \A p \in 1 .. at - 1 : w.id[p] = v.id[p] /\ p \in 1 .. n
    BY <1>7, <1>2, <1>3
  <2>3. \A p \in 1 .. at : p \in 1 .. at - 1 \/ p = at
    BY <1>4
  <2> QED
    BY <2>1, <2>2, <2>3, <1>7
<1>17. Reads(w)
  <2> HIDE DEF n, g, o
  <2>1. Len(w.id) = Len(w.k)
    BY <1>6, <1>7
  <2> QED
    BY <2>1, <1>6, <1>7, <1>8, <1>10, <1>11, <1>14, <1>15, <1>16 DEF Reads
<1>18. w.k[at].t = "tail" /\ w.b[at] = v.b[at - 1]
  BY <1>6, <1>9
<1> HIDE DEF g
<1> QED
  BY <1>2, <1>3, <1>6, <1>7, <1>8, <1>9, <1>17, <1>18

----------------------------------------------------------------------------
(* The search.                                                             *)

\* A handler's tail clause comes before its other clauses, and no two of its
\* clauses are for one operation.
Separate ==
  \A h \in DOMAIN Handlers : \A i, j \in 1 .. Len(Handlers[h]) :
    /\ Handlers[h][i].kind = "tail" => i = 1
    /\ Handlers[h][i].op = Handlers[h][j].op => i = j

\* The entries of an operation above the floor, and the last of them.
Seen(x, f, op) == {m \in f + 1 .. Len(x) : x[m].op = op}

\* The last entry seen is the clause of the nearest covering handler.
LEMMA SearchFinds ==
  ASSUME Separate, NEW v, Reads(v), NEW f, FloorAt(v, f), NEW op
  PROVE  /\ A!Covering(v.k, op) = {} <=> Seen(v.x, f, op) = {}
         /\ Seen(v.x, f, op) # {} =>
              \E at \in A!Covering(v.k, op), m \in Seen(v.x, f, op) :
                /\ at = A!Nearest(A!Covering(v.k, op)) /\ at \in 1 .. Len(v.k) /\ v.k[at].t = "handle"
                /\ v.k[at].h \in DOMAIN Handlers /\ v.id[at] \in Frames
                /\ \A q \in A!Covering(v.k, op) : q <= at
                /\ \A i \in Seen(v.x, f, op) : i <= m
                /\ \E j \in 1 .. Len(Handlers[v.k[at].h]) :
                     /\ Handlers[v.k[at].h][j].op = op /\ m = v.b[at - 1] + j /\ v.b[at - 1] \in Nat
                     /\ A!Clause(v.k[at].h, op) = Handlers[v.k[at].h][j]
                     /\ v.x[m] = EntriesOf(v.k[at].h, v.id[at])[j]
<1> DEFINE n == Len(v.k)
           C == A!Covering(v.k, op)
           M == Seen(v.x, f, op)
<1>1. /\ IsSequence(v.k) /\ v.x \in Seq(Entry)
      /\ v.b \in [0 .. n -> Nat] /\ v.b[0] = 0 /\ v.b[n] = Len(v.x)
      /\ \A p, q \in 0 .. n : p <= q => v.b[p] <= v.b[q]
      /\ \A m \in 1 .. Len(v.x) : \E p \in 1 .. n : v.k[p].t = "handle" /\ v.b[p - 1] < m /\ m <= v.b[p]
  BY DEF Reads
<1>2. n \in Nat /\ Len(v.x) \in Nat /\ DOMAIN v.k = 1 .. n
  <2>1. PICK F : v.k \in Seq(F)
    BY <1>1 DEF IsSequence
  <2> QED
    BY <2>1, <1>1
<1>3. \A p \in 1 .. n : /\ p - 1 \in 0 .. n /\ p \in 0 .. n /\ v.b[p] \in Nat /\ v.b[p - 1] \in Nat
                        /\ v.b[p - 1] <= v.b[p] /\ v.b[p] <= Len(v.x)
  <2> SUFFICES ASSUME NEW p \in 1 .. n
               PROVE  /\ p - 1 \in 0 .. n /\ p \in 0 .. n /\ v.b[p] \in Nat /\ v.b[p - 1] \in Nat
                      /\ v.b[p - 1] <= v.b[p] /\ v.b[p] <= Len(v.x)
    OBVIOUS
  <2>1. p - 1 \in 0 .. n /\ p \in 0 .. n /\ n \in 0 .. n /\ p - 1 <= p /\ p <= n
    BY <1>2
  <2> QED
    BY <2>1, <1>1
<1>4. f \in Nat
  <2>1. CASE f = 0
    BY <2>1
  <2>2. CASE \E p \in 1 .. n : f = v.b[p]
    BY <2>2, <1>3
  <2> QED
    BY <2>1, <2>2 DEF FloorAt
\* What a handler frame shows.
<1>5. ASSUME NEW p \in 1 .. n, v.k[p].t = "handle"
      PROVE  /\ v.k[p].h \in DOMAIN Handlers /\ v.id[p] \in Frames /\ Len(Handlers[v.k[p].h]) \in Nat
             /\ DOMAIN Handlers[v.k[p].h] = 1 .. Len(Handlers[v.k[p].h])
             /\ v.b[p] = v.b[p - 1] + Len(Handlers[v.k[p].h])
             /\ \A j \in 1 .. Len(Handlers[v.k[p].h]) :
                  /\ v.x[v.b[p - 1] + j] = EntriesOf(v.k[p].h, v.id[p])[j]
                  /\ v.x[v.b[p - 1] + j].op = Handlers[v.k[p].h][j].op
  <2>1. FrameReads(v, p)
    BY DEF Reads
  <2>2. /\ v.k[p].h \in DOMAIN Handlers /\ v.id[p] \in Frames /\ v.b[p] = v.b[p - 1] + Len(Handlers[v.k[p].h])
        /\ \A j \in 1 .. Len(Handlers[v.k[p].h]) : v.x[v.b[p - 1] + j] = EntriesOf(v.k[p].h, v.id[p])[j]
    BY <2>1, <1>5 DEF FrameReads
  <2>3. Handlers[v.k[p].h] \in Seq(Clauses)
    BY <2>2, HandlersAssumption
  <2>4. Len(Handlers[v.k[p].h]) \in Nat /\ DOMAIN Handlers[v.k[p].h] = 1 .. Len(Handlers[v.k[p].h])
    BY <2>3
  <2>5. \A j \in 1 .. Len(Handlers[v.k[p].h]) : EntriesOf(v.k[p].h, v.id[p])[j].op = Handlers[v.k[p].h][j].op
    BY <2>4 DEF EntriesOf
  <2> QED
    BY <2>2, <2>4, <2>5
\* Frames above the floor are those above the innermost run.
<1>6. ASSUME NEW p \in 1 .. n
      PROVE  /\ (\A q \in p .. n : v.k[q].t # "lw") => f <= v.b[p - 1]
             /\ v.k[p].t = "handle" /\ f < v.b[p] => \A q \in p .. n : v.k[q].t # "lw"
  <2>1. CASE f = 0 /\ \A q \in 1 .. n : v.k[q].t # "lw"
    <3>1. \A q \in p .. n : q \in 1 .. n
      BY <1>2
    <3> QED
      BY <2>1, <3>1, <1>3
  <2>2. CASE \E r \in 1 .. n : v.k[r].t = "lw" /\ f = v.b[r] /\ \A q \in r + 1 .. n : v.k[q].t # "lw"
    <3>1. PICK r \in 1 .. n : v.k[r].t = "lw" /\ f = v.b[r] /\ \A q \in r + 1 .. n : v.k[q].t # "lw"
      BY <2>2
    <3>2. CASE p <= r
      <4>1. r \in p .. n
        BY <3>2, <1>2
      <4>2. v.b[p] <= v.b[r]
        BY <3>2, <1>1, <1>3
      <4>3. ~(f < v.b[p])
        BY <4>2, <3>1, <1>3
      <4> QED
        BY <4>1, <4>3, <3>1
    <3>3. CASE r < p
      <4>1. r <= p - 1 /\ \A q \in p .. n : q \in r + 1 .. n
        BY <3>3, <1>2
      <4>2. v.b[r] <= v.b[p - 1]
        BY <4>1, <1>1, <1>3
      <4> QED
        BY <4>1, <4>2, <3>1
    <3> QED
      BY <3>2, <3>3, <1>2
  <2> QED
    BY <2>1, <2>2 DEF FloorAt
\* A covering handler shows an entry.
<1>7. ASSUME NEW p \in C
      PROVE  /\ p \in 1 .. n /\ v.k[p].t = "handle"
             /\ \E j \in 1 .. Len(Handlers[v.k[p].h]) : /\ Handlers[v.k[p].h][j].op = op /\ v.b[p - 1] + j \in M
  <2>1. /\ p \in 1 .. n /\ v.k[p].t = "handle" /\ (\E j \in DOMAIN Handlers[v.k[p].h] : Handlers[v.k[p].h][j].op = op)
        /\ \A q \in p .. n : v.k[q].t # "lw"
    BY <1>2 DEF A!Covering, A!Covers
  <2>2. PICK j \in 1 .. Len(Handlers[v.k[p].h]) : Handlers[v.k[p].h][j].op = op
    BY <2>1, <1>5
  <2>3. f <= v.b[p - 1]
    BY <2>1, <1>6
  <2>4. v.b[p - 1] + j \in f + 1 .. Len(v.x) /\ v.x[v.b[p - 1] + j].op = op
    <3> DEFINE l == Len(Handlers[v.k[p].h])
               y == v.b[p - 1]
               u == v.b[p]
    <3>1. l \in Nat /\ y \in Nat /\ u \in Nat /\ u = y + l /\ u <= Len(v.x) /\ f <= y /\ j \in 1 .. l
      BY <2>1, <2>3, <1>3, <1>5
    <3>2. v.x[y + j].op = op
      BY <2>1, <2>2, <1>5
    <3> HIDE DEF l, y, u
    <3>3. y + j \in f + 1 .. Len(v.x)
      BY <3>1, <1>2, <1>4
    <3> QED
      BY <3>2, <3>3 DEF y
  <2> QED
    BY <2>1, <2>2, <2>4 DEF Seen
\* An entry seen is a covering handler's.
<1>8. ASSUME NEW m \in M
      PROVE  \E p \in C : /\ p \in 1 .. n /\ v.k[p].t = "handle" /\ v.b[p - 1] < m /\ m <= v.b[p]
                          /\ \E j \in 1 .. Len(Handlers[v.k[p].h]) : /\ Handlers[v.k[p].h][j].op = op /\ m = v.b[p - 1] + j
  <2>1. m \in 1 .. Len(v.x) /\ f < m /\ v.x[m].op = op
    BY <1>2, <1>4 DEF Seen
  <2>2. PICK p \in 1 .. n : v.k[p].t = "handle" /\ v.b[p - 1] < m /\ m <= v.b[p]
    BY <2>1, <1>1
  <2> DEFINE l == Len(Handlers[v.k[p].h])
             y == v.b[p - 1]
             u == v.b[p]
             j == m - y
  <2>3. l \in Nat /\ y \in Nat /\ u \in Nat /\ u = y + l /\ y < m /\ m <= u /\ m \in Nat
    BY <2>1, <2>2, <1>2, <1>3, <1>5
  <2>4. j \in 1 .. l /\ m = y + j
    <3> HIDE DEF l, y, u
    <3> QED
      BY <2>3
  <2>5. Handlers[v.k[p].h][j].op = op
    <3>1. v.x[y + j].op = Handlers[v.k[p].h][j].op
      BY <2>2, <2>4, <1>5
    <3> QED
      BY <3>1, <2>1, <2>4
  <2>6. f < u
    <3> HIDE DEF u
    <3> QED
      BY <2>1, <2>3, <1>4
  <2>7. \A q \in p .. n : v.k[q].t # "lw"
    BY <2>2, <2>6, <1>6
  <2>8. p \in C
    <3>1. j \in DOMAIN Handlers[v.k[p].h]
      BY <2>2, <2>4, <1>5
    <3> QED
      BY <2>2, <2>5, <2>7, <3>1, <1>2 DEF A!Covering, A!Covers
  <2> QED
    BY <2>2, <2>4, <2>5, <2>8
<1>9. C = {} <=> M = {}
  BY <1>7, <1>8
<1>10. ASSUME M # {}
       PROVE  \E at \in C, m \in M :
                /\ at = A!Nearest(C) /\ at \in 1 .. n /\ v.k[at].t = "handle"
                /\ v.k[at].h \in DOMAIN Handlers /\ v.id[at] \in Frames
                /\ \A q \in C : q <= at
                /\ \A i \in M : i <= m
                /\ \E j \in 1 .. Len(Handlers[v.k[at].h]) :
                     /\ Handlers[v.k[at].h][j].op = op /\ m = v.b[at - 1] + j /\ v.b[at - 1] \in Nat
                     /\ A!Clause(v.k[at].h, op) = Handlers[v.k[at].h][j]
                     /\ v.x[m] = EntriesOf(v.k[at].h, v.id[at])[j]
  <2>1. C # {} /\ \A q \in C : q \in 1 .. n
    BY <1>7, <1>9, <1>10
  <2>2. PICK at \in C : \A q \in C : q <= at
    <3> DEFINE T == {n - q : q \in C}
    <3>1. T \subseteq Nat /\ T # {}
      BY <2>1, <1>2
    <3> HIDE DEF T
    <3>2. PICK s \in T : \A t \in T : s <= t
      BY <3>1, LeastOf
    <3>3. PICK p \in C : s = n - p
      BY <3>2 DEF T
    <3>4. \A q \in C : n - p <= n - q
      BY <3>2, <3>3 DEF T
    <3>5. \A q \in C : q <= p
      BY <3>3, <3>4, <2>1, <1>2
    <3> QED
      BY <3>5
  <2>3. at = A!Nearest(C)
    <3>1. \A i \in C : (\A q \in C : q <= i) => i = at
      BY <2>1, <2>2
    <3> QED
      BY <2>2, <3>1 DEF A!Nearest
  <2>4. /\ at \in 1 .. n /\ v.k[at].t = "handle" /\ v.k[at].h \in DOMAIN Handlers /\ v.id[at] \in Frames
        /\ DOMAIN Handlers[v.k[at].h] = 1 .. Len(Handlers[v.k[at].h])
    BY <2>2, <1>5, <1>7
  <2>5. PICK j \in 1 .. Len(Handlers[v.k[at].h]) : Handlers[v.k[at].h][j].op = op /\ v.b[at - 1] + j \in M
    BY <2>2, <1>7
  <2>6. \A i \in 1 .. Len(Handlers[v.k[at].h]) : Handlers[v.k[at].h][i].op = op => i = j
    BY <2>4, <2>5 DEF Separate
  <2>7. A!Clause(v.k[at].h, op) = Handlers[v.k[at].h][j]
    BY <2>4, <2>5, <2>6 DEF A!Clause
  <2>8. ASSUME NEW i \in M PROVE i <= v.b[at - 1] + j
    <3>1. PICK p \in C : /\ p \in 1 .. n /\ i <= v.b[p]
                          /\ \E g \in 1 .. Len(Handlers[v.k[p].h]) :
                               Handlers[v.k[p].h][g].op = op /\ i = v.b[p - 1] + g
      BY <1>8
    <3>2. i \in Nat
      BY <1>2, <1>4 DEF Seen
    <3>3. CASE p = at
      BY <2>6, <3>1, <3>3, <1>3
    <3>4. CASE p # at
      <4>1. p <= at - 1 /\ at - 1 \in 0 .. n /\ p \in 0 .. n
        BY <3>1, <3>4, <2>2, <2>4, <1>2
      <4>2. v.b[p] <= v.b[at - 1] /\ v.b[p] \in Nat /\ v.b[at - 1] \in Nat
        BY <4>1, <1>1
      <4> QED
        BY <4>2, <3>1, <3>2, SMTT(30)
    <3> QED
      BY <3>3, <3>4
  <2>9. v.x[v.b[at - 1] + j] = EntriesOf(v.k[at].h, v.id[at])[j] /\ v.b[at - 1] \in Nat
    BY <2>4, <2>5, <1>3, <1>5
  <2> HIDE DEF C, M
  <2> QED
    BY <2>2, <2>3, <2>4, <2>5, <2>7, <2>8, <2>9
<1> QED
  BY <1>9, <1>10

----------------------------------------------------------------------------
(* A view for each level of the C stack.                                   *)

\* An activation with a frame of its own that belongs to the continuation.
HasFrame(c) == c.t \in {"handle", "enter", "rerun"}
\* The identities of a view are frames of the first i activations.
IdsOn(S, i, v) == \A p \in 1 .. Len(v.id) : v.id[p] # 0 => \E s \in 1 .. i : HasFrame(S[s]) /\ S[s].fr = v.id[p]
\* What an activation's frame describes.
Described(c, H) ==
  /\ c.t = "handle" => H[c.fr].t = "handle" /\ H[c.fr].h \in DOMAIN Handlers
  /\ c.t \in {"enter", "rerun"} => H[c.fr].t # "handle"
\* V[i] is the view of the first i activations of S.
Views(S, H, V) ==
  /\ V[0] = NoView
  /\ \A i \in 1 .. Len(S) : ViewStep(S[i], H, V[i - 1], V[i]) /\ Described(S[i], H)
  /\ \A i \in 0 .. Len(S) : Reads(V[i]) /\ IdsOn(S, i, V[i])
  /\ \A i \in 1 .. Len(S) : S[i].t = "lw" => FloorAt(V[i - 1], S[i].floor)

\* The view of an empty continuation.
LEMMA ReadsNothing == Reads(NoView) /\ FloorAt(NoView, 0)
<1> DEFINE v == NoView
<1>1. /\ v.k = << >> /\ v.id = << >> /\ v.x = << >> /\ v.b = [p \in 0 .. 0 |-> 0] /\ Len(v.k) = 0
  BY DEF NoView
<1>2. IsSequence(v.k)
  BY <1>1, EmptySeq DEF IsSequence
<1>3. v.b \in [0 .. Len(v.k) -> Nat] /\ v.b[0] = 0
  BY <1>1
<1>4. \A p, q \in 0 .. 0 : p <= q => v.b[p] <= v.b[q]
  BY <1>1
<1> HIDE DEF v
<1> QED
  BY <1>1, <1>2, <1>3, <1>4 DEF Reads, FloorAt, v

\* The view of an empty C stack is the empty view.
LEMMA NothingSeen ==
  ASSUME NEW S, Len(S) = 0, NEW H
  PROVE  \E V : Views(S, H, V) /\ V[0] = NoView
<1> DEFINE V == [i \in 0 .. 0 |-> NoView]
<1>1. V[0] = NoView
  OBVIOUS
<1>2. \A p \in 1 .. Len(NoView.id) : FALSE
  BY DEF NoView
<1> HIDE DEF V
<1> QED
  BY <1>1, <1>2, ReadsNothing DEF Views, IdsOn

\* What a step to the next level gives.
LEMMA ViewStepIs ==
  ASSUME NEW v, Reads(v), NEW c \in Context, NEW H, NEW w, ViewStep(c, H, v, w), Described(c, H),
         HasFrame(c) => \A p \in 1 .. Len(v.id) : v.id[p] # c.fr
  PROVE  /\ Reads(w) /\ Len(v.k) \in Nat
         /\ \A p \in 1 .. Len(w.id) : w.id[p] # 0 => \/ \E q \in 1 .. Len(v.id) : v.id[q] = w.id[p]
                                                     \/ HasFrame(c) /\ c.fr = w.id[p]
<1>0. Len(v.id) = Len(v.k)
  BY DEF Reads
<1>1. CASE Extends(c, H, v, w)
  <2>1. \A p \in 1 .. Len(v.k) : v.id[p] # 0 => v.id[p] # PushedId(c)
    BY <1>0 DEF PushedId, HasFrame
  <2>2. /\ Reads(w) /\ Len(w.k) = Len(v.k) + 1 /\ Len(v.k) \in Nat
        /\ \A p \in 1 .. Len(v.k) : w.id[p] = v.id[p]
        /\ w.id[Len(v.k) + 1] = PushedId(c)
    BY <1>1, <2>1, ReadsExtend DEF Described
  <2>3. Len(w.id) = Len(v.k) + 1
    BY <2>2 DEF Reads
  <2>4. \A p \in 1 .. Len(v.k) + 1 : p \in 1 .. Len(v.k) \/ p = Len(v.k) + 1
    BY <2>2
  <2> QED
    BY <1>0, <2>2, <2>3, <2>4 DEF PushedId, HasFrame
<1>2. CASE \E at \in Nat : Hides(c, v, w, at)
  <2>1. PICK at : Hides(c, v, w, at)
    BY <1>2
  <2>2. /\ Reads(w) /\ Len(w.k) = at /\ at \in 1 .. Len(v.k) /\ Len(v.k) \in Nat
        /\ \A p \in 1 .. at - 1 : w.k[p] = v.k[p] /\ w.id[p] = v.id[p]
        /\ \A p \in 0 .. at - 1 : w.b[p] = v.b[p]
        /\ w.k[at].t = "tail" /\ w.id[at] = 0 /\ w.b[at] = v.b[at - 1]
        /\ v.x = w.x \o c.saved /\ w.x \in Seq(Entry)
    BY <2>1, ReadsHide
  <2>3. Len(w.id) = at
    BY <2>2 DEF Reads
  <2>4. \A p \in 1 .. at : (p \in 1 .. at - 1 /\ p \in 1 .. Len(v.k)) \/ p = at
    BY <2>2
  <2> QED
    BY <1>0, <2>2, <2>3, <2>4
<1> QED
  BY <1>1, <1>2 DEF ViewStep

\* One activation more.
LEMMA ViewsPush ==
  ASSUME NEW S, NEW T, NEW n, NEW d, Grown(S, T, n, d), NEW H, NEW V, Views(S, H, V), Described(d, H),
         \A s \in 1 .. n : HasFrame(S[s]) /\ HasFrame(d) => S[s].fr # d.fr,
         d.t = "lw" => FloorAt(V[n], d.floor), NEW w, ViewStep(d, H, V[n], w)
  PROVE  \E W : Views(T, H, W) /\ W[n + 1] = w /\ \A i \in 0 .. n : W[i] = V[i]
<1>1. n \in Nat /\ Len(S) = n /\ Len(T) = n + 1 /\ (\A i \in 1 .. n : T[i] = S[i]) /\ T[n + 1] = d /\ d \in Context
  BY DEF Grown
<1> DEFINE W == [i \in 0 .. n + 1 |-> IF i <= n THEN V[i] ELSE w]
<1>2. (\A i \in 0 .. n : W[i] = V[i]) /\ W[n + 1] = w /\ W[0] = NoView
  <2>1. (\A i \in 0 .. n : i \in 0 .. n + 1 /\ i <= n) /\ n + 1 \in 0 .. n + 1 /\ ~(n + 1 <= n) /\ 0 \in 0 .. n
    BY <1>1
  <2> QED
    BY <2>1 DEF Views
<1> HIDE DEF W
<1>3. \A i \in 1 .. n + 1 : i \in 1 .. n \/ i = n + 1
  BY <1>1
<1>4. /\ (\A i \in 1 .. n : i - 1 \in 0 .. n /\ i \in 0 .. n) /\ (n + 1) - 1 = n /\ n \in 0 .. n
      /\ \A i \in 0 .. n + 1 : i \in 0 .. n \/ i = n + 1
  BY <1>1
<1>5. Reads(V[n]) /\ IdsOn(S, n, V[n]) /\ Len(V[n].id) = Len(V[n].k) /\ V[n].id \in Seq(FrameIds)
  BY <1>1, <1>4 DEF Views, Reads
<1>6. HasFrame(d) => \A p \in 1 .. Len(V[n].id) : V[n].id[p] # d.fr
  <2> SUFFICES ASSUME HasFrame(d), NEW p \in 1 .. Len(V[n].id), V[n].id[p] = d.fr PROVE FALSE
    OBVIOUS
  <2>1. d.fr # 0
    BY <1>1, ContextIs DEF HasFrame, Frames
  <2>2. PICK s \in 1 .. n : HasFrame(S[s]) /\ S[s].fr = V[n].id[p]
    BY <2>1, <1>5 DEF IdsOn
  <2> QED
    BY <2>2
<1>7. /\ Reads(w)
      /\ \A p \in 1 .. Len(w.id) : w.id[p] # 0 => \/ \E q \in 1 .. Len(V[n].id) : V[n].id[q] = w.id[p]
                                                  \/ HasFrame(d) /\ d.fr = w.id[p]
  BY <1>1, <1>5, <1>6, ViewStepIs
<1>8. IdsOn(T, n + 1, w)
  <2> SUFFICES ASSUME NEW p \in 1 .. Len(w.id), w.id[p] # 0
               PROVE  \E s \in 1 .. n + 1 : HasFrame(T[s]) /\ T[s].fr = w.id[p]
    BY DEF IdsOn
  <2>1. CASE HasFrame(d) /\ d.fr = w.id[p]
    <3>1. n + 1 \in 1 .. n + 1
      BY <1>1
    <3> QED
      BY <2>1, <3>1, <1>1
  <2>2. CASE \E q \in 1 .. Len(V[n].id) : V[n].id[q] = w.id[p]
    <3>1. PICK s \in 1 .. n : HasFrame(S[s]) /\ S[s].fr = w.id[p]
      BY <2>2, <1>5 DEF IdsOn
    <3>2. s \in 1 .. n + 1 /\ T[s] = S[s]
      BY <1>1
    <3> QED
      BY <3>1, <3>2
  <2> QED
    BY <2>1, <2>2, <1>7
<1>9. \A i \in 0 .. n : IdsOn(S, i, V[i]) => IdsOn(T, i, V[i])
  <2>1. \A i \in 0 .. n : \A s \in 1 .. i : T[s] = S[s]
    BY <1>1
  <2> QED
    BY <2>1 DEF IdsOn
<1>10. \A i \in 0 .. n + 1 : Reads(W[i]) /\ IdsOn(T, i, W[i])
  BY <1>1, <1>2, <1>4, <1>7, <1>8, <1>9 DEF Views
<1>11. \A i \in 1 .. n + 1 : ViewStep(T[i], H, W[i - 1], W[i]) /\ Described(T[i], H)
  BY <1>1, <1>2, <1>3, <1>4 DEF Views
<1>12. \A i \in 1 .. n + 1 : T[i].t = "lw" => FloorAt(W[i - 1], T[i].floor)
  BY <1>1, <1>2, <1>3, <1>4 DEF Views
<1>13. Views(T, H, W)
  BY <1>1, <1>2, <1>10, <1>11, <1>12 DEF Views
<1> QED
  BY <1>2, <1>13

\* One activation less.
LEMMA ViewsPop ==
  ASSUME NEW S, NEW T, NEW n, NEW c, Grown(T, S, n, c), NEW H, NEW V, Views(S, H, V)
  PROVE  /\ Views(T, H, V) /\ Reads(V[n]) /\ Reads(V[n + 1]) /\ ViewStep(c, H, V[n], V[n + 1])
         /\ Described(c, H) /\ IdsOn(T, n, V[n])
         /\ (HasFrame(c) => \A p \in 1 .. Len(V[n].id) : V[n].id[p] # c.fr \/ \E s \in 1 .. n : HasFrame(T[s]) /\ T[s].fr = c.fr)
         /\ c.t = "lw" => FloorAt(V[n], c.floor)
<1>1. n \in Nat /\ Len(T) = n /\ Len(S) = n + 1 /\ (\A i \in 1 .. n : S[i] = T[i]) /\ S[n + 1] = c /\ c \in Context
  BY DEF Grown
<1>2. /\ (\A i \in 1 .. n : i \in 1 .. n + 1 /\ i - 1 \in 0 .. n) /\ (\A i \in 0 .. n : i \in 0 .. n + 1)
      /\ n + 1 \in 1 .. n + 1 /\ n \in 0 .. n + 1 /\ n + 1 \in 0 .. n + 1 /\ (n + 1) - 1 = n
  BY <1>1
<1>3. \A i \in 0 .. n : IdsOn(S, i, V[i]) => IdsOn(T, i, V[i])
  <2>1. \A i \in 0 .. n : \A s \in 1 .. i : T[s] = S[s]
    BY <1>1
  <2> QED
    BY <2>1 DEF IdsOn
<1>4. Views(T, H, V)
  BY <1>1, <1>2, <1>3 DEF Views
<1>5. Reads(V[n]) /\ Reads(V[n + 1]) /\ ViewStep(c, H, V[n], V[n + 1]) /\ Described(c, H)
      /\ (c.t = "lw" => FloorAt(V[n], c.floor))
  BY <1>1, <1>2 DEF Views
<1>6. IdsOn(T, n, V[n])
  BY <1>1, <1>2, <1>3 DEF Views
<1>7. ASSUME HasFrame(c), NEW p \in 1 .. Len(V[n].id), V[n].id[p] = c.fr
      PROVE  \E s \in 1 .. n : HasFrame(T[s]) /\ T[s].fr = c.fr
  <2>1. c.fr # 0
    BY <1>1, <1>7, ContextIs DEF HasFrame, Frames
  <2> QED
    BY <1>6, <1>7, <2>1 DEF IdsOn
<1> QED
  BY <1>4, <1>5, <1>6, <1>7

\* Only the frames on the C stack matter.
LEMMA ViewsHeap ==
  ASSUME NEW S \in Seq(Context), NEW H, NEW I, NEW V, Views(S, H, V),
         \A i \in 1 .. Len(S) : HasFrame(S[i]) => I[S[i].fr] = H[S[i].fr]
  PROVE  Views(S, I, V)
<1>1. ASSUME NEW i \in 1 .. Len(S)
      PROVE  ViewStep(S[i], I, V[i - 1], V[i]) /\ Described(S[i], I)
  <2>1. ViewStep(S[i], H, V[i - 1], V[i]) /\ Described(S[i], H)
    BY DEF Views
  <2>2. S[i].t \in {"act", "handle", "enter", "rerun", "perform", "lw"}
    BY ContextIs
  <2>3. Described(S[i], I)
    BY <2>1 DEF Described, HasFrame
  <2>4. Extends(S[i], H, V[i - 1], V[i]) => Extends(S[i], I, V[i - 1], V[i])
    <3>1. Installed(S[i], H) = Installed(S[i], I)
      BY DEF Installed, HasFrame
    <3>2. S[i].t # "perform" => Pushes(S[i], H) = Pushes(S[i], I)
      BY <2>2 DEF Pushes, HasFrame
    <3> QED
      BY <3>1, <3>2 DEF Extends
  <2> QED
    BY <2>1, <2>3, <2>4 DEF ViewStep
<1> QED
  BY <1>1 DEF Views

\* Below a level nothing has changed if no clause was run since.
LEMMA ViewsAbove ==
  ASSUME NEW S \in Seq(Context), NEW H, NEW V, Views(S, H, V), NEW s \in 1 .. Len(S),
         \A i \in s + 1 .. Len(S) : S[i].t # "perform"
  PROVE  /\ Len(V[s].k) \in Nat /\ Len(V[Len(S)].k) \in Nat /\ Len(V[s].k) <= Len(V[Len(S)].k)
         /\ \A p \in 1 .. Len(V[s].k) : V[Len(S)].k[p] = V[s].k[p] /\ V[Len(S)].id[p] = V[s].id[p]
<1> DEFINE Same(i) == /\ Len(V[i].k) \in Nat /\ Len(V[s].k) <= Len(V[i].k)
                      /\ \A p \in 1 .. Len(V[s].k) : V[i].k[p] = V[s].k[p] /\ V[i].id[p] = V[s].id[p]
           G == {i \in 0 .. Len(S) : s <= i => Same(i)}
<1>0. Len(S) \in Nat
  OBVIOUS
<1>1. \A i \in 0 .. Len(S) : Len(V[i].k) \in Nat
  <2>1. \A i \in 0 .. Len(S) : IsSequence(V[i].k)
    BY DEF Views, Reads
  <2> QED
    BY <2>1, AppendIs
<1>2. s \in 0 .. Len(S) /\ Same(s)
  BY <1>0, <1>1
<1>3. ASSUME NEW i \in 0 .. Len(S), i < Len(S), i \in G
      PROVE  i + 1 \in G
  <2>0. i \in 0 .. Len(S) /\ i + 1 \in 0 .. Len(S) /\ i + 1 \in 1 .. Len(S) /\ (i + 1) - 1 = i
    BY <1>0, <1>3
  <2>1. CASE i + 1 = s
    BY <2>0, <2>1, <1>2
  <2>2. CASE i + 1 < s
    <3>1. ~(s <= i + 1)
      BY <2>2, <1>0
    <3> QED
      BY <2>0, <3>1
  <2>3. CASE s <= i
    <3>1. i + 1 \in s + 1 .. Len(S) /\ Same(i)
      BY <2>3, <2>0, <1>0, <1>3
    <3>2. Extends(S[i + 1], H, V[i], V[i + 1]) /\ IsSequence(V[i].k) /\ V[i].id \in Seq(FrameIds) /\ Len(V[i].id) = Len(V[i].k)
      <4>1. ViewStep(S[i + 1], H, V[(i + 1) - 1], V[i + 1]) /\ Reads(V[i])
        BY <2>0 DEF Views
      <4>2. S[i + 1].t # "perform"
        BY <3>1
      <4> QED
        BY <4>1, <4>2, <2>0 DEF ViewStep, Hides, Reads
    <3>3. IsSequence(V[i].id)
      BY <3>2 DEF IsSequence
    <3>4. /\ Len(V[i + 1].k) = Len(V[i].k) + 1 /\ (\A p \in 1 .. Len(V[i].k) : V[i + 1].k[p] = V[i].k[p])
          /\ \A p \in 1 .. Len(V[i].id) : V[i + 1].id[p] = V[i].id[p]
      BY <3>2, <3>3, AppendIs DEF Extends
    <3>5. Same(i + 1)
      <4>1. Len(V[i].k) \in Nat /\ Len(V[s].k) \in Nat /\ Len(V[s].k) <= Len(V[i].k)
        BY <3>1, <1>1, <1>2
      <4>2. \A p \in 1 .. Len(V[s].k) : p \in 1 .. Len(V[i].k)
        BY <4>1
      <4>3. Len(V[i + 1].k) \in Nat /\ Len(V[s].k) <= Len(V[i + 1].k)
        BY <4>1, <3>4, SMTT(30)
      <4> QED
        BY <4>2, <4>3, <3>1, <3>2, <3>4
    <3> QED
      BY <2>0, <3>5
  <2> HIDE DEF G
  <2> QED
    BY <2>1, <2>2, <2>3, <1>0, <1>2
<1>4. 0 \in G
  BY <1>0
<1> HIDE DEF G
<1>5. Len(S) \in G
  <2>1. Len(S) \in 0 .. Len(S)
    BY <1>0
  <2> QED
    BY <2>1, <1>0, <1>3, <1>4, UpwardSteps
<1>6. Same(Len(S))
  BY <1>5, <1>0 DEF G
<1> QED
  BY <1>1, <1>2, <1>6

----------------------------------------------------------------------------
(* The continuation the C stack stands for, level by level.                *)

\* The two parts of a view that Enclose builds.
Shown(v) == [k |-> v.k, id |-> v.id]

\* One activation more is one step of the reconstruction.
LEMMA EncloseIs ==
  ASSUME NEW v, Reads(v), NEW c \in Context, NEW w, ViewStep(c, heap, v, w)
  PROVE  Enclose(Shown(v), c) = Shown(w)
<1>0. /\ Shown(v).k = v.k /\ Shown(v).id = v.id /\ c.t \in {"act", "handle", "enter", "rerun", "perform", "lw"}
  BY ContextIs DEF Shown
<1>1. CASE Extends(c, heap, v, w)
  <2>1. c.t # "perform" /\ w.k = Append(v.k, Pushes(c, heap)) /\ w.id = Append(v.id, PushedId(c))
    BY <1>1 DEF Extends
  <2>2. CASE c.t = "act"
    <3>1. Enclose(Shown(v), c) = [k |-> Append(v.k, [t |-> "act", a |-> c.a]), id |-> Append(v.id, 0)]
      BY <1>0, <2>2 DEF Enclose
    <3> QED
      BY <3>1, <2>1, <2>2 DEF Pushes, PushedId, Shown
  <2>3. CASE c.t = "lw"
    <3>1. Enclose(Shown(v), c) = [k |-> Append(v.k, [t |-> "lw"]), id |-> Append(v.id, 0)]
      BY <1>0, <2>3 DEF Enclose
    <3> QED
      BY <3>1, <2>1, <2>3 DEF Pushes, PushedId, Shown
  <2>4. CASE c.t \in {"enter", "rerun", "handle"}
    <3>1. Enclose(Shown(v), c) = [k |-> Append(v.k, FrameOf(heap[c.fr])), id |-> Append(v.id, c.fr)]
      BY <1>0, <2>4 DEF Enclose
    <3>2. Pushes(c, heap) = FrameOf(heap[c.fr]) /\ PushedId(c) = c.fr
      BY <2>4 DEF Pushes, PushedId
    <3> QED
      BY <3>1, <3>2, <2>1 DEF Shown
  <2> QED
    BY <1>0, <2>1, <2>2, <2>3, <2>4
<1>2. CASE \E at \in Nat : Hides(c, v, w, at)
  <2>1. PICK at : Hides(c, v, w, at)
    BY <1>2
  <2>2. /\ c.t = "perform" /\ at \in 1 .. Len(v.k) /\ v.id[at] = c.hf
        /\ w.k = Append(SubSeq(v.k, 1, at - 1), [t |-> "tail", inner |-> SubSeq(v.k, at, Len(v.k))])
        /\ w.id = Append(SubSeq(v.id, 1, at - 1), 0)
    BY <2>1 DEF Hides
  <2>3. /\ v.id \in Seq(FrameIds) /\ Len(v.id) = Len(v.k) /\ c.hf # 0
        /\ \A p, q \in 1 .. Len(v.k) : v.id[p] = v.id[q] /\ v.id[p] # 0 => p = q
    <3>1. v.id \in Seq(FrameIds) /\ Len(v.id) = Len(v.k)
      BY DEF Reads
    <3>2. c.hf \in Frames
      BY <2>2, ContextIs
    <3>3. c.hf # 0
      BY ONLY NativeBounds, <3>2 DEF Frames
    <3>4. \A p, q \in 1 .. Len(v.k) : v.id[p] = v.id[q] /\ v.id[p] # 0 => p = q
      BY Zenon DEF Reads
    <3> QED
      BY ONLY <3>1, <3>3, <3>4, Zenon
  <2>4. DOMAIN v.id = 1 .. Len(v.k) /\ Len(v.k) \in Nat
    BY <2>3
  <2>5. LastIn(v.id, c.hf) = at
    <3>1. at \in DOMAIN v.id /\ v.id[at] = c.hf
      BY <2>2, <2>4
    <3>2. \A i \in DOMAIN v.id : v.id[i] = c.hf => i = at
      BY <2>2, <2>3, <2>4
    <3>3. \A j \in at + 1 .. Len(v.id) : j \in DOMAIN v.id /\ j # at
      BY <2>2, <2>3, <2>4
    <3>4. \A j \in at + 1 .. Len(v.id) : v.id[j] # c.hf
      BY <3>2, <3>3
    <3> QED
      BY <3>1, <3>2, <3>4 DEF LastIn
  <2>6. c.hf \in Range(v.id)
    BY <2>2, <2>4 DEF Range
  <2>7. /\ Enclose(Shown(v), c)
             = [k |-> Append(SubSeq(v.k, 1, at - 1), [t |-> "tail", inner |-> SubSeq(v.k, at, Len(v.k))]),
                id |-> Append(SubSeq(v.id, 1, at - 1), 0)]
    BY <1>0, <2>2, <2>5, <2>6 DEF Enclose
  <2> QED
    BY <2>2, <2>7 DEF Shown
<1> QED
  BY <1>1, <1>2 DEF ViewStep

\* What the model reconstructs is the uppermost view.
LEMMA EnclosingIs ==
  ASSUME stk \in Seq(Context), NEW V, Views(stk, heap, V)
  PROVE  Enclosing = Shown(V[Len(stk)])
<1> DEFINE n == Len(stk)
           Step(f, i) == IF i = 0 THEN [k |-> << >>, id |-> << >>] ELSE Enclose(f[i - 1], stk[i])
           u == CHOOSE u : u = [i \in 0 .. n |-> Step(u, i)]
           g == [i \in 0 .. n |-> Shown(V[i])]
<1>0. n \in Nat
  OBVIOUS
<1>1. Enclosing = u[n]
  BY DEF Enclosing
<1>2. \A i \in 0 .. n : Shown(V[i]) = Step(g, i)
  <2> SUFFICES ASSUME NEW i \in 0 .. n PROVE Shown(V[i]) = Step(g, i)
    OBVIOUS
  <2>1. CASE i = 0
    <3>1. V[0] = NoView
      BY DEF Views
    <3> QED
      BY <2>1, <3>1 DEF Shown, NoView
  <2>2. CASE i # 0
    <3>1. i \in 1 .. n /\ i - 1 \in 0 .. n
      BY <2>2, <1>0
    <3>2. Reads(V[i - 1]) /\ ViewStep(stk[i], heap, V[i - 1], V[i]) /\ stk[i] \in Context
      BY <3>1 DEF Views
    <3>3. g[i - 1] = Shown(V[i - 1])
      BY <3>1
    <3> QED
      BY <2>2, <3>2, <3>3, EncloseIs
  <2> QED
    BY <2>1, <2>2
<1>3. g = [i \in 0 .. n |-> Step(g, i)]
  BY <1>2
<1>4. u = [i \in 0 .. n |-> Step(u, i)]
  BY <1>3
<1> HIDE DEF u
<1> DEFINE G == {i \in 0 .. n : u[i] = g[i]}
<1>5. 0 \in G
  <2>1. 0 \in 0 .. n
    BY <1>0
  <2>2. u[0] = [k |-> << >>, id |-> << >>]
    BY <2>1, <1>4
  <2>3. g[0] = [k |-> << >>, id |-> << >>]
    BY <2>1, <1>3
  <2> QED
    BY <2>1, <2>2, <2>3
<1>6. ASSUME NEW i \in 0 .. n, i < n, i \in G
      PROVE  i + 1 \in G
  <2>1. i + 1 \in 0 .. n /\ i + 1 # 0 /\ (i + 1) - 1 = i
    BY <1>0, <1>6
  <2>2. u[i + 1] = Enclose(u[i], stk[i + 1])
    BY <2>1, <1>4
  <2>3. g[i + 1] = Enclose(g[i], stk[i + 1])
    BY <2>1, <1>3
  <2> QED
    BY <2>1, <2>2, <2>3, <1>6
<1> HIDE DEF G
<1>7. \A i \in 0 .. n : i \in G
  <2> HIDE DEF n
  <2> QED
    BY <1>0, <1>5, <1>6, UpwardSteps
<1>8. n \in 0 .. n
  BY <1>0
<1> QED
  BY <1>1, <1>7, <1>8 DEF G

----------------------------------------------------------------------------
(* The whole continuation, and what a suspension is for.                   *)

\* The frames a suspension has left behind on K.
LeftFrames(S, K, H) ==
  [i \in 1 .. Len(K) - FramesUpTo(S, Len(S)) |-> FrameOf(H[K[FramesUpTo(S, Len(S)) + i]])]
\* The continuation a suspension will have captured, were it to go on to the root.
Whole(V, S, K, H) == V[Len(S)].k \o LeftFrames(S, K, H)

\* Handler h has no capturing clause.
NoCapturing(h) == \A j \in 1 .. Len(Handlers[h]) : Handlers[h][j].kind # "capturing"
\* A call has saved its frame, or no capturing clause is installed outside.
Saved(S, H) ==
  \A i \in 1 .. Len(S) : S[i].t = "act" =>
    /\ S[i].fr # 0 => H[S[i].fr] = ActFrame(S[i].a)
    /\ S[i].fr = 0 => \A s \in 1 .. i : S[s].t = "handle" => NoCapturing(H[S[s].fr].h)

\* The handler of a suspension is the one the interpreter finds in the whole
\* continuation, wherever the unwinding has got to.
Answers(V, S, W, H, p, s, op, j) ==
  /\ S[s].t = "handle" /\ S[s].fr = p.mark /\ \A i \in s + 1 .. Len(S) : S[i].t \notin {"perform", "lw"}
  /\ j \in 1 .. Len(Handlers[H[p.mark].h])
  /\ LET c == Handlers[H[p.mark].h][j]
     IN c.op = op /\ c.kind = "capturing" /\ c.once = p.once /\ A!Clause(H[p.mark].h, op) = c
  /\ \A q \in Len(V[s].k) + 1 .. Len(W) : ~A!Covers(W[q], op) /\ W[q].t # "lw"
\* A suspension has a handler that answers it.
Answered(V, S, W, H, p) == \E s \in 1 .. Len(S), op \in Ops, j \in Nat : Answers(V, S, W, H, p, s, op, j)

\* V is the views of the state: hs and floor are what the last of them says.
Shows(V) ==
  /\ Views(stk, heap, V) /\ hs = V[Len(stk)].x /\ FloorAt(V[Len(stk)], floor) /\ Saved(stk, heap)
  /\ mode = "susp" => Answered(V, stk, Whole(V, stk, ks, heap), heap, pending)
\* The state has views: the second inductive invariant.
KontInv == \E V : Shows(V)

\* The frames left behind are a sequence.
LEMMA LeftIs ==
  ASSUME NEW S, NEW K \in Seq(Frames), NEW H, NEW n \in Nat, n = FramesUpTo(S, Len(S))
  PROVE  /\ IsSequence(LeftFrames(S, K, H)) /\ DOMAIN LeftFrames(S, K, H) = 1 .. Len(K) - n
         /\ n <= Len(K) => Len(LeftFrames(S, K, H)) = Len(K) - n
         /\ n = Len(K) => LeftFrames(S, K, H) = << >>
         /\ \A i \in 1 .. Len(K) - n : LeftFrames(S, K, H)[i] = FrameOf(H[K[n + i]])
<1> DEFINE L == LeftFrames(S, K, H)
           m == Len(K) - n
<1>1. L = [i \in 1 .. m |-> FrameOf(H[K[n + i]])]
  BY DEF LeftFrames
<1>2. Len(K) \in Nat
  OBVIOUS
<1>3. CASE n <= Len(K)
  <2>1. m \in Nat
    BY <1>2, <1>3
  <2> HIDE DEF m
  <2> DEFINE F == {L[i] : i \in 1 .. m}
  <2>2. L \in [1 .. m -> F]
    BY <1>1
  <2> HIDE DEF F, L
  <2>3. L \in Seq(F) /\ Len(L) = m
    BY <2>1, <2>2
  <2>4. m = 0 => L = << >>
    BY <2>1, <2>3
  <2>5. n = Len(K) => m = 0
    BY <1>2 DEF m
  <2>6. IsSequence(L)
    BY <2>3 DEF IsSequence
  <2> QED
    BY <2>3, <2>4, <2>5, <2>6, <1>1 DEF L, m
<1>4. CASE ~(n <= Len(K))
  <2>1. 1 .. m = {} /\ n # Len(K) /\ 1 .. 0 = {}
    BY <1>2, <1>4
  <2>2. L = [i \in 1 .. 0 |-> FrameOf(H[K[n + i]])]
    BY <1>1, <2>1
  <2> DEFINE F == {L[i] : i \in 1 .. 0}
  <2>3. L \in [1 .. 0 -> F] /\ 0 \in Nat
    BY <2>2
  <2> HIDE DEF F, L
  <2>4. L \in Seq(F)
    BY <2>3
  <2>5. IsSequence(L)
    BY <2>4 DEF IsSequence
  <2> QED
    BY <2>1, <2>5, <1>1, <1>4 DEF L
<1> QED
  BY <1>3, <1>4, <1>2

\* The continuation of the model is the uppermost view, and what a suspension
\* has left behind.
LEMMA KontIs ==
  \A V : StacksInv /\ Shows(V) =>
    Kont = IF mode = "susp" THEN Whole(V, stk, ks, heap) ELSE V[Len(stk)].k
<1> SUFFICES ASSUME StacksInv, NEW V, Shows(V)
             PROVE  Kont = IF mode = "susp" THEN Whole(V, stk, ks, heap) ELSE V[Len(stk)].k
  OBVIOUS
<1> DEFINE n == FramesUpTo(stk, Len(stk))
<1>1. stk \in Seq(Context) /\ ks \in Seq(Frames) /\ Views(stk, heap, V)
  BY DEF StacksInv, Typed, Shows
<1>2. Enclosing.k = V[Len(stk)].k
  BY <1>1, EnclosingIs DEF Shown
<1>3. Len(stk) \in Nat /\ Len(ks) \in Nat /\ n \in Nat
  BY <1>1, FramesStep
<1>4. CASE mode = "susp"
  <2>1. LeftBehind = SubSeq(ks, n + 1, Len(ks))
    BY DEF LeftBehind
  <2>2. /\ DOMAIN LeftBehind = 1 .. Len(ks) - n
        /\ \A i \in 1 .. Len(ks) - n : LeftBehind[i] = ks[n + i]
    <3> HIDE DEF n
    <3>1. CASE n + 1 <= Len(ks)
      <4>1. n + 1 \in 1 .. Len(ks) + 1 /\ Len(ks) - ((n + 1) - 1) = Len(ks) - n /\ (n + 1) - 1 = n
        BY <3>1, <1>3
      <4>2. /\ LeftBehind \in Seq(Frames) /\ Len(LeftBehind) = Len(ks) - n
            /\ \A i \in 1 .. Len(ks) - n : LeftBehind[i] = ks[n + i]
        BY <4>1, <1>1, <2>1, SplitAt
      <4> QED
        BY <4>2
    <3>2. CASE ~(n + 1 <= Len(ks))
      <4>1. LeftBehind = << >>
        BY <3>2, <1>1, <1>3, <2>1
      <4>2. 1 .. Len(ks) - n = {}
        BY <3>2, <1>3
      <4> QED
        BY <4>1, <4>2
    <3> QED
      BY <3>1, <3>2
  <2>3. [i \in DOMAIN LeftBehind |-> FrameOf(heap[LeftBehind[i]])] = LeftFrames(stk, ks, heap)
    BY <2>2 DEF LeftFrames
  <2> QED
    BY <1>2, <1>4, <2>3 DEF Kont, Whole
<1>5. CASE mode # "susp"
  <2>1. Kont = V[Len(stk)].k \o << >>
    BY <1>2, <1>5 DEF Kont
  <2>2. IsSequence(V[Len(stk)].k)
    <3>1. Len(stk) \in 0 .. Len(stk)
      BY <1>3
    <3> QED
      BY <3>1, <1>1 DEF Views, Reads
  <2>3. PICK F : V[Len(stk)].k \in Seq(F)
    BY <2>2 DEF IsSequence
  <2>4. V[Len(stk)].k \o << >> = V[Len(stk)].k
    BY <2>3, ConcatEmptySeq
  <2> QED
    BY <2>1, <2>4, <1>5
<1> QED
  BY <1>4, <1>5

\* KontIs, of the next state: what views that are kept say of the continuation.
LEMMA KontNext ==
  \A V : StacksInv' /\ Shows(V)' =>
    Kont' = IF mode' = "susp" THEN Whole(V, stk', ks', heap') ELSE V[Len(stk')].k
<1>1. (\A V : StacksInv /\ Shows(V) =>
         Kont = IF mode = "susp" THEN Whole(V, stk, ks, heap) ELSE V[Len(stk)].k)'
  BY KontIs, PTL
<1> QED
  BY <1>1

----------------------------------------------------------------------------
(* What a change of the heap leaves alone.                                 *)

\* Every frame of an activation that is not waiting to be entered is on ks.
LEMMA FramesOnKs ==
  ASSUME NEW S \in Seq(Context), NEW K \in Seq(Frames), NEW m, FramesFollow(S, K, m),
         NEW i \in 1 .. Len(S), OnKs(S[i])
  PROVE  S[i].fr \in Frames /\ OnStack(K, S[i].fr)
<1>2. FramesUpTo(S, i) <= Len(K) /\ K[FramesUpTo(S, i)] = S[i].fr
  BY DEF FramesFollow
<1>3. i \in Nat /\ 0 \in Nat /\ 0 < i /\ 0 <= i /\ Len(K) \in Nat
  BY LenProperties
<1>4. FramesUpTo(S, 0) < FramesUpTo(S, i) /\ FramesUpTo(S, 0) = 0 /\ FramesUpTo(S, i) \in Nat
  BY ONLY OnKs(S[i]), <1>3, FramesMonotone, FramesStep
<1>5. FramesUpTo(S, i) \in 1 .. Len(K)
  BY ONLY <1>2, <1>3, <1>4
<1> QED
  BY <1>2, <1>5, ElementOfSeq DEF OnStack

\* Views depend on the frames of ks alone.
LEMMA ViewsUnmoved ==
  ASSUME NEW S \in Seq(Context), NEW H, NEW V, Views(S, H, V), Saved(S, H),
         NEW K \in Seq(Frames), NEW m, FramesFollow(S, K, m), Entering(S) = {}, NEW I,
         \A g \in Frames : OnStack(K, g) => I[g] = H[g]
  PROVE  Views(S, I, V) /\ Saved(S, I)
<1>1. ASSUME NEW i \in 1 .. Len(S), OnKs(S[i]) PROVE I[S[i].fr] = H[S[i].fr]
  BY <1>1, FramesOnKs
<1>2. \A i \in 1 .. Len(S) : S[i].t # "enter"
  BY DEF Entering
<1>3. \A i \in 1 .. Len(S) : HasFrame(S[i]) => OnKs(S[i])
  BY <1>2 DEF HasFrame, OnKs
<1>4. Views(S, I, V)
  BY <1>1, <1>3, ViewsHeap
<1>5. \A i \in 1 .. Len(S) : \A s \in 1 .. i : s \in 1 .. Len(S)
  BY LenProperties
<1>6. \A i \in 1 .. Len(S) : S[i].t = "act" /\ S[i].fr # 0 => I[S[i].fr] = H[S[i].fr]
  BY <1>1 DEF OnKs
<1>7. \A i \in 1 .. Len(S) : S[i].t = "handle" => I[S[i].fr] = H[S[i].fr]
  BY <1>1 DEF OnKs
<1>8. Saved(S, I)
  BY <1>5, <1>6, <1>7 DEF Saved
<1> QED
  BY <1>4, <1>8

\* A call is saved as the one below it was.
LEMMA SavedPush ==
  ASSUME NEW S, NEW T, NEW n, NEW d, Grown(S, T, n, d), NEW H, Saved(S, H),
         d.t = "act" => /\ d.fr # 0 => H[d.fr] = ActFrame(d.a)
                        /\ d.fr = 0 => \A s \in 1 .. n : S[s].t = "handle" => NoCapturing(H[S[s].fr].h)
  PROVE  Saved(T, H)
<1>1. n \in Nat /\ Len(S) = n /\ Len(T) = n + 1 /\ (\A i \in 1 .. n : T[i] = S[i]) /\ T[n + 1] = d
  BY DEF Grown
<1>2. /\ \A i \in 1 .. n + 1 : i \in 1 .. n \/ i = n + 1
      /\ \A i \in 1 .. n : \A s \in 1 .. i : s \in 1 .. n
      /\ \A s \in 1 .. n + 1 : s \in 1 .. n \/ s = n + 1
  BY <1>1
<1>3. ASSUME NEW i \in 1 .. n + 1, T[i].t = "act"
      PROVE  /\ T[i].fr # 0 => H[T[i].fr] = ActFrame(T[i].a)
             /\ T[i].fr = 0 => \A s \in 1 .. i : T[s].t = "handle" => NoCapturing(H[T[s].fr].h)
  <2>1. CASE i \in 1 .. n
    BY <2>1, <1>1, <1>2, <1>3 DEF Saved
  <2>2. CASE i = n + 1
    BY <2>2, <1>1, <1>2, <1>3
  <2> QED
    BY <2>1, <2>2, <1>2
<1> QED
  BY <1>1, <1>3 DEF Saved

\* What Saved says of a stack, it says of the stack under its top.
LEMMA SavedPop ==
  ASSUME NEW S, NEW T, NEW n, NEW c, Grown(T, S, n, c), NEW H, Saved(S, H)
  PROVE  /\ Saved(T, H)
         /\ c.t = "act" => /\ c.fr # 0 => H[c.fr] = ActFrame(c.a)
                           /\ c.fr = 0 => \A s \in 1 .. n : T[s].t = "handle" => NoCapturing(H[T[s].fr].h)
<1>1. n \in Nat /\ Len(T) = n /\ Len(S) = n + 1 /\ (\A i \in 1 .. n : S[i] = T[i]) /\ S[n + 1] = c
  BY DEF Grown
<1>2. /\ \A i \in 1 .. n : i \in 1 .. n + 1 /\ \A s \in 1 .. i : s \in 1 .. n
      /\ n + 1 \in 1 .. n + 1 /\ \A s \in 1 .. n : s \in 1 .. n + 1
  BY <1>1
<1>3. Saved(T, H)
  BY <1>1, <1>2 DEF Saved
<1>4. c.t = "act" => /\ c.fr # 0 => H[c.fr] = ActFrame(c.a)
                     /\ c.fr = 0 => \A s \in 1 .. n : T[s].t = "handle" => NoCapturing(H[T[s].fr].h)
  BY <1>1, <1>2 DEF Saved
<1> QED
  BY <1>3, <1>4

----------------------------------------------------------------------------
(* The floor of a view.                                                    *)

\* Every activation but a tail clause adds a frame of its own kind.
LEMMA PushedFrame ==
  ASSUME NEW c \in Context, c.t # "perform", NEW H
  PROVE  /\ Pushes(c, H).t \in {"act", "handle", "lw"} /\ (Pushes(c, H).t = "lw" <=> c.t = "lw")
         /\ Described(c, H) => (Pushes(c, H).t = "handle" <=> c.t = "handle")
<1>1. c.t \in {"act", "handle", "enter", "rerun", "lw"}
  BY ContextIs
<1> QED
  BY <1>1 DEF Pushes, FrameOf, Described

\* An activation that is no inference run leaves the floor; a run raises it to the entries there are.
LEMMA FloorExtend ==
  ASSUME NEW v, Reads(v), NEW c \in Context, NEW H, NEW w, Extends(c, H, v, w), Reads(w), NEW f
  PROVE  /\ c.t # "lw" => (FloorAt(v, f) <=> FloorAt(w, f))
         /\ c.t = "lw" => FloorAt(w, Len(v.x))
<1> DEFINE n == Len(v.k)
<1>1. /\ c.t # "perform" /\ w.k = Append(v.k, Pushes(c, H)) /\ w.x = v.x \o Installed(c, H)
      /\ w.b = [p \in 0 .. n + 1 |-> IF p <= n THEN v.b[p] ELSE Len(v.x) + Len(Installed(c, H))]
  BY DEF Extends
<1>2. /\ n \in Nat /\ Len(w.k) = n + 1 /\ (\A p \in 1 .. n : w.k[p] = v.k[p]) /\ w.k[n + 1] = Pushes(c, H)
  <2>1. IsSequence(v.k)
    BY DEF Reads
  <2> QED
    BY <1>1, <2>1, AppendIs
<1>3. \A p \in 1 .. n : w.b[p] = v.b[p]
  <2>1. \A p \in 1 .. n : p \in 0 .. n + 1 /\ p <= n
    BY <1>2
  <2> QED
    BY <2>1, <1>1
<1>4. w.k[n + 1].t = "lw" <=> c.t = "lw"
  BY <1>1, <1>2, PushedFrame
<1>5. /\ \A p \in 1 .. n + 1 : p \in 1 .. n \/ p = n + 1
      /\ \A p \in 1 .. n : p \in 1 .. n + 1
      /\ \A p \in 1 .. n + 1 : \A q \in p + 1 .. n + 1 : q \in p + 1 .. n \/ q = n + 1
      /\ \A p \in 1 .. n : (\A q \in p + 1 .. n : q \in p + 1 .. n + 1 /\ q \in 1 .. n) /\ n + 1 \in p + 1 .. n + 1
      /\ n + 1 \in 1 .. n + 1 /\ \A q \in (n + 1) + 1 .. n + 1 : FALSE
  BY <1>2
<1>6. ASSUME c.t # "lw", FloorAt(v, f) PROVE FloorAt(w, f)
  <2>1. CASE f = 0 /\ \A p \in 1 .. n : v.k[p].t # "lw"
    BY <2>1, <1>2, <1>4, <1>5, <1>6 DEF FloorAt
  <2>2. CASE \E p \in 1 .. n : v.k[p].t = "lw" /\ f = v.b[p] /\ \A q \in p + 1 .. n : v.k[q].t # "lw"
    <3>1. PICK p \in 1 .. n : v.k[p].t = "lw" /\ f = v.b[p] /\ \A q \in p + 1 .. n : v.k[q].t # "lw"
      BY <2>2
    <3>2. \A q \in p + 1 .. n + 1 : w.k[q].t # "lw"
      BY <3>1, <1>2, <1>4, <1>5, <1>6
    <3>3. p \in 1 .. n + 1 /\ w.k[p].t = "lw" /\ f = w.b[p]
      BY <3>1, <1>2, <1>3, <1>5
    <3> QED
      BY <3>2, <3>3, <1>2 DEF FloorAt
  <2> QED
    BY <2>1, <2>2, <1>6 DEF FloorAt
<1>7. ASSUME c.t # "lw", FloorAt(w, f) PROVE FloorAt(v, f)
  <2>1. CASE f = 0 /\ \A p \in 1 .. n + 1 : w.k[p].t # "lw"
    BY <2>1, <1>2, <1>5 DEF FloorAt
  <2>2. CASE \E p \in 1 .. n + 1 : w.k[p].t = "lw" /\ f = w.b[p] /\ \A q \in p + 1 .. n + 1 : w.k[q].t # "lw"
    <3>1. PICK p \in 1 .. n + 1 : w.k[p].t = "lw" /\ f = w.b[p] /\ \A q \in p + 1 .. n + 1 : w.k[q].t # "lw"
      BY <2>2
    <3>2. p \in 1 .. n
      BY <3>1, <1>4, <1>5, <1>7
    <3>3. \A q \in p + 1 .. n : v.k[q].t # "lw"
      BY <3>1, <3>2, <1>2, <1>5
    <3> QED
      BY <3>1, <3>2, <3>3, <1>2, <1>3 DEF FloorAt
  <2> QED
    BY <2>1, <2>2, <1>2, <1>7 DEF FloorAt
<1>8. ASSUME c.t = "lw" PROVE FloorAt(w, Len(v.x))
  <2>1. Len(v.x) = w.b[n + 1]
    <3>1. w.b[n + 1] = Len(v.x) + Len(<< >>)
      BY <1>1, <1>2, <1>8 DEF Installed
    <3>2. Len(v.x) \in Nat
      <4>1. v.x \in Seq(Entry)
        BY DEF Reads
      <4> QED
        BY <4>1
    <3> QED
      BY <3>1, <3>2
  <2>2. w.k[n + 1].t = "lw"
    BY <1>4, <1>8
  <2> QED
    BY <2>1, <2>2, <1>2, <1>5 DEF FloorAt
<1> QED
  BY <1>6, <1>7, <1>8

\* A tail clause is found above the innermost inference run, so hiding keeps the floor.
LEMMA FloorHide ==
  ASSUME NEW v, Reads(v), NEW c, NEW w, NEW at, Hides(c, v, w, at), NEW f
  PROVE  FloorAt(v, f) <=> FloorAt(w, f)
<1> DEFINE n == Len(v.k)
<1>1. /\ Len(w.k) = at /\ at \in 1 .. n /\ n \in Nat
      /\ \A p \in 1 .. at - 1 : w.k[p] = v.k[p] /\ w.id[p] = v.id[p]
      /\ \A p \in 0 .. at - 1 : w.b[p] = v.b[p]
      /\ w.k[at].t = "tail"
  <2>1. /\ Reads(w) /\ Len(w.k) = at /\ at \in 1 .. Len(v.k) /\ Len(v.k) \in Nat
        /\ \A p \in 1 .. at - 1 : w.k[p] = v.k[p] /\ w.id[p] = v.id[p]
        /\ \A p \in 0 .. at - 1 : w.b[p] = v.b[p]
        /\ w.k[at].t = "tail" /\ w.id[at] = 0 /\ w.b[at] = v.b[at - 1]
        /\ v.x = w.x \o c.saved /\ w.x \in Seq(Entry)
    BY ReadsHide
  <2> QED
    BY <2>1
<1>2. \A q \in at .. n : v.k[q].t # "lw"
  BY DEF Hides
<1>3. /\ \A p \in 1 .. at - 1 : p \in 1 .. n /\ p \in 0 .. at - 1 /\ p \in 1 .. at
      /\ \A p \in 1 .. n : p \in 1 .. at - 1 \/ p \in at .. n
      /\ \A p \in 1 .. at : p \in 1 .. at - 1 \/ p = at
      /\ \A p \in 1 .. at - 1 : \A q \in p + 1 .. n : q \in p + 1 .. at \/ q \in at .. n
      /\ \A p \in 1 .. at - 1 : \A q \in p + 1 .. at : q \in p + 1 .. n /\ (q \in 1 .. at - 1 \/ q = at)
  BY <1>1
<1>4. ASSUME FloorAt(v, f) PROVE FloorAt(w, f)
  <2>1. CASE f = 0 /\ \A p \in 1 .. n : v.k[p].t # "lw"
    BY <2>1, <1>1, <1>3 DEF FloorAt
  <2>2. CASE \E p \in 1 .. n : v.k[p].t = "lw" /\ f = v.b[p] /\ \A q \in p + 1 .. n : v.k[q].t # "lw"
    <3>1. PICK p \in 1 .. n : v.k[p].t = "lw" /\ f = v.b[p] /\ \A q \in p + 1 .. n : v.k[q].t # "lw"
      BY <2>2
    <3>2. p \in 1 .. at - 1
      BY <3>1, <1>2, <1>3
    <3>3. w.k[p].t = "lw" /\ f = w.b[p] /\ p \in 1 .. at
      BY <3>1, <3>2, <1>1, <1>3
    <3>4. \A q \in p + 1 .. at : w.k[q].t # "lw"
      BY <3>1, <3>2, <1>1, <1>3
    <3> QED
      BY <3>3, <3>4, <1>1 DEF FloorAt
  <2> QED
    BY <2>1, <2>2, <1>4 DEF FloorAt
<1>5. ASSUME FloorAt(w, f) PROVE FloorAt(v, f)
  <2>1. CASE f = 0 /\ \A p \in 1 .. at : w.k[p].t # "lw"
    BY <2>1, <1>1, <1>2, <1>3 DEF FloorAt
  <2>2. CASE \E p \in 1 .. at : w.k[p].t = "lw" /\ f = w.b[p] /\ \A q \in p + 1 .. at : w.k[q].t # "lw"
    <3>1. PICK p \in 1 .. at : w.k[p].t = "lw" /\ f = w.b[p] /\ \A q \in p + 1 .. at : w.k[q].t # "lw"
      BY <2>2
    <3>2. p \in 1 .. at - 1
      BY <3>1, <1>1, <1>3
    <3>3. v.k[p].t = "lw" /\ f = v.b[p] /\ p \in 1 .. n
      BY <3>1, <3>2, <1>1, <1>3
    <3>4. \A q \in p + 1 .. n : v.k[q].t # "lw"
      <4> SUFFICES ASSUME NEW q \in p + 1 .. n PROVE v.k[q].t # "lw"
        OBVIOUS
      <4>1. CASE q \in at .. n
        BY <4>1, <1>2
      <4>2. CASE q \in p + 1 .. at
        BY <4>2, <3>1, <3>2, <1>1, <1>2, <1>3
      <4> QED
        BY <4>1, <4>2, <3>2, <1>3
    <3> QED
      BY <3>3, <3>4 DEF FloorAt
  <2> QED
    BY <2>1, <2>2, <1>1, <1>5 DEF FloorAt
<1> QED
  BY <1>4, <1>5

----------------------------------------------------------------------------
(* No capture is possible without a capturing clause.                      *)

\* Where no capturing clause is counted, no handler on the C stack has one.
LEMMA NoneCapturing ==
  ASSUME NEW S \in Seq(Context), NEW H, NEW x, NEW f, HsIs(S, H, x, 0, f),
         NEW s \in 1 .. Len(S), S[s].t = "handle", H[S[s].fr].h \in DOMAIN Handlers
  PROVE  NoCapturing(H[S[s].fr].h)
<1> DEFINE n == Len(S)
           g == H[S[s].fr].h
           es == EntriesOf(g, S[s].fr)
<1>1. PICK h, z : Levels(S, H, h, z) /\ x = h[n] /\ 0 = CapturingIn(x) + z[n]
  BY DEF HsIs
<1>2. n \in Nat /\ S[s].fr \in Frames
  BY ContextIs
<1>3. \A i \in 0 .. n : h[i] \in Seq(Entry) /\ z[i] \in Nat /\ CapturingIn(h[i]) \in Nat
  <2>1. \A i \in 0 .. n : h[i] \in Seq(Entry) /\ z[i] \in Nat
    BY <1>1 DEF Levels
  <2> QED
    BY <2>1, CapturingSplit
<1>4. es \in Seq(Entry) /\ CapturingIn(es) \in Nat
  <2>1. es \in Seq(Entry)
    BY <1>2, EntriesAre
  <2> QED
    BY <2>1, CapturingSplit
<1> DEFINE G == {i \in 0 .. n : s <= i => CapturingIn(es) <= CapturingIn(h[i]) + z[i]}
<1>5. 0 \in G
  BY <1>2
<1>6. ASSUME NEW i \in 0 .. n, i < n, i \in G PROVE i + 1 \in G
  <2> DEFINE c == S[i + 1]
  <2>1. i + 1 \in 1 .. n /\ (i + 1) - 1 = i /\ i + 1 \in 0 .. n
    BY <1>2, <1>6
  <2>2. LevelStep(c, H, h[i], h[i + 1], z[i], z[i + 1]) /\ c \in Context
    BY <2>1, <1>1 DEF Levels
  <2>3. CapturingIn(h[i]) + z[i] <= CapturingIn(h[i + 1]) + z[i + 1]
    <3>1. CASE c.t = "perform"
      <4>1. c.saved \in Seq(Entry) /\ h[i] = h[i + 1] \o c.saved /\ z[i + 1] = z[i] + CapturingIn(c.saved)
        BY <2>2, <3>1 DEF LevelStep, Plain
      <4>2. CapturingIn(h[i]) = CapturingIn(h[i + 1]) + CapturingIn(c.saved) /\ CapturingIn(c.saved) \in Nat
        BY <4>1, <2>1, <1>3, CapturingSplit
      <4>3. z[i] \in Nat /\ CapturingIn(h[i + 1]) \in Nat /\ z[i + 1] = z[i] + CapturingIn(c.saved)
        BY <4>1, <2>1, <1>3
      <4> QED
        BY ONLY <4>2, <4>3
    <3>2. CASE c.t = "lw"
      <4>1. h[i + 1] = h[i] /\ z[i + 1] = z[i]
        BY <2>2, <3>2 DEF LevelStep, Plain
      <4> QED
        BY <4>1, <2>1, <1>3
    <3>3. CASE Plain(c, H)
      <4>1. h[i + 1] = h[i] \o Installed(c, H) /\ z[i + 1] = z[i]
        BY <2>2, <3>3 DEF LevelStep, Plain
      <4>2. Installed(c, H) \in Seq(Entry)
        BY <3>3, EntriesAre, EmptySeq DEF Installed, Plain
      <4>3. CapturingIn(h[i + 1]) = CapturingIn(h[i]) + CapturingIn(Installed(c, H)) /\ CapturingIn(Installed(c, H)) \in Nat
        BY <4>1, <4>2, <2>1, <1>3, CapturingSplit
      <4> QED
        BY <4>1, <4>3, <2>1, <1>3
    <3> QED
      BY <2>2, <3>1, <3>2, <3>3 DEF LevelStep
  <2>4. CASE i + 1 = s
    <3>1. h[i + 1] = h[i] \o es
      BY <2>2, <2>4 DEF LevelStep, Plain, Installed
    <3>2. CapturingIn(h[i + 1]) = CapturingIn(h[i]) + CapturingIn(es)
      BY <3>1, <2>1, <1>3, <1>4, CapturingSplit
    <3>3. CapturingIn(es) <= CapturingIn(h[i + 1]) + z[i + 1]
      <4> HIDE DEF es
      <4> QED
        BY <3>2, <2>1, <1>3, <1>4, SMTT(30)
    <3> QED
      BY <3>3, <2>1
  <2>5. CASE s <= i
    <3>1. CapturingIn(es) <= CapturingIn(h[i]) + z[i]
      BY <2>5, <1>6
    <3>2. CapturingIn(es) <= CapturingIn(h[i + 1]) + z[i + 1]
      <4> HIDE DEF es
      <4> QED
        BY <2>3, <3>1, <2>1, <1>3, <1>4
    <3> QED
      BY <3>2, <2>1
  <2>6. CASE i + 1 < s
    <3>1. ~(s <= i + 1)
      BY <2>6, <2>1, <1>2
    <3> QED
      BY <3>1, <2>1
  <2>7. i + 1 = s \/ s <= i \/ i + 1 < s
    BY <2>1, <1>2
  <2> HIDE DEF G
  <2> QED
    BY <2>4, <2>5, <2>6, <2>7
<1> HIDE DEF G
<1>7. n \in G
  <2>1. n \in 0 .. n
    BY <1>2
  <2> HIDE DEF n
  <2> QED
    BY <2>1, <1>2, <1>5, <1>6, UpwardSteps
<1>8. CapturingIn(es) = 0
  <2>1. CapturingIn(es) <= CapturingIn(h[n]) + z[n]
    BY <1>7, <1>2 DEF G
  <2>2. n \in 0 .. n
    BY <1>2
  <2> HIDE DEF es
  <2> QED
    BY <2>1, <2>2, <1>1, <1>3, <1>4
<1>9. {i \in DOMAIN es : es[i].kind = "capturing"} = {}
  <2>1. DOMAIN es = 1 .. Len(es) /\ Len(es) \in Nat
    <3> HIDE DEF es
    <3> QED
      BY <1>4
  <2>2. IsFiniteSet(1 .. Len(es))
    BY <2>1, FS_Interval
  <2>3. IsFiniteSet({i \in DOMAIN es : es[i].kind = "capturing"})
    BY <2>1, <2>2, FS_Subset
  <2> QED
    BY <1>8, <2>3, FS_EmptySet DEF CapturingIn
<1>10. \A j \in 1 .. Len(Handlers[g]) : j \in DOMAIN es /\ es[j].kind = Handlers[g][j].kind
  <2>1. Handlers[g] \in Seq(Clauses)
    BY HandlersAssumption
  <2>2. DOMAIN Handlers[g] = 1 .. Len(Handlers[g])
    BY <2>1
  <2> QED
    BY <2>2 DEF EntriesOf
<1> QED
  BY <1>9, <1>10 DEF NoCapturing

----------------------------------------------------------------------------
(* The interpreter's steps in terms of the model's.                        *)

\* The resumptions, the mode and a step, as EvalContinuation has them.
ResAre == [r \in ResIds |-> Captured(r)]
\* The state of the interpreter that a mode stands for.
StIs == CASE mode \in {"run", "susp"} -> "eval" [] mode = "ret" -> "value" [] OTHER -> "stop"
\* A step of the runtime is a step of EvalContinuation or none.
Follows == [A!ANext]_(A!avars)

\* StIs, by cases.
LEMMA StValues ==
  /\ mode \in {"run", "susp"} => StIs = "eval"
  /\ mode = "ret" => StIs = "value"
  /\ mode \notin {"run", "susp", "ret"} => StIs = "stop"
<1>1. ASSUME mode \in {"run", "susp"} PROVE StIs = "eval"
  BY <1>1, Zenon DEF StIs
<1>2. ASSUME mode = "ret" PROVE StIs = "value"
  <2>1. mode \notin {"run", "susp"}
    BY <1>2
  <2> QED
    BY <2>1, <1>2, Zenon DEF StIs
<1>3. ASSUME mode \notin {"run", "susp", "ret"} PROVE StIs = "stop"
  <2>1. mode \notin {"run", "susp"} /\ mode # "ret"
    BY <1>3
  <2> QED
    BY <2>1, Zenon DEF StIs
<1> QED
  BY <1>1, <1>2, <1>3

\* StIs of the next state, by cases.
LEMMA StValuesNext ==
  /\ mode' \in {"run", "susp"} => StIs' = "eval"
  /\ mode' = "ret" => StIs' = "value"
  /\ mode' \notin {"run", "susp", "ret"} => StIs' = "stop"
<1>1. (/\ mode \in {"run", "susp"} => StIs = "eval"
       /\ mode = "ret" => StIs = "value"
       /\ mode \notin {"run", "susp", "ret"} => StIs = "stop")'
  BY StValues, PTL
<1> QED
  BY <1>1

\* A step that changes nothing shown is no step of the interpreter.
LEMMA StutterFollows ==
  ASSUME Kont' = Kont, ResAre' = ResAre, StIs' = StIs
  PROVE  Follows
BY DEF Follows, A!avars, ResAre, StIs

\* A frame on top is AEnter.
LEMMA EnterFollows ==
  ASSUME StIs = "eval", StIs' = "eval", ResAre' = ResAre, NEW f \in A!NewFrames, Kont' = Append(Kont, f)
  PROVE  Follows
<1>1. A!AEnter
  BY DEF A!AEnter, ResAre, StIs
<1> QED
  BY <1>1 DEF Follows, A!ANext

\* A computation that has a value is AYield.
LEMMA YieldFollows ==
  ASSUME StIs = "eval", StIs' = "value", ResAre' = ResAre, Kont' = Kont
  PROVE  Follows
<1>1. A!AYield
  BY DEF A!AYield, ResAre, StIs
<1> QED
  BY <1>1 DEF Follows, A!ANext

\* An exit, or the end of the program, is AStop.
LEMMA StopFollows ==
  ASSUME StIs \in {"eval", "value"}, StIs = "value" => Kont = << >>,
         StIs' = "stop", ResAre' = [r \in ResIds |-> A!NoRes], Kont' = << >>
  PROVE  Follows
<1>1. A!Over
  BY DEF A!Over, ResAre, StIs
<1>2. A!AStop \/ A!AFinish
  BY <1>1 DEF A!AStop, A!AFinish, ResAre, StIs
<1> QED
  BY <1>2 DEF Follows, A!ANext

\* The innermost frame removed, or a tail clause put back, is AReturn.
LEMMA ReturnFollows ==
  ASSUME StIs = "value", Kont # << >>, ResAre' = ResAre, NEW f, f = Kont[Len(Kont)],
         NEW outer, outer = SubSeq(Kont, 1, Len(Kont) - 1),
         IF f.t = "tail" THEN StIs' = "value" /\ Kont' = outer \o f.inner ELSE StIs' = "eval" /\ Kont' = outer
  PROVE  Follows
<1>1. A!AReturn
  BY DEF A!AReturn, ResAre, StIs
<1> QED
  BY <1>1 DEF Follows, A!ANext

\* A resumption released is AForget.
LEMMA ForgetFollows ==
  ASSUME StIs = "eval", StIs' = "eval", NEW r \in ResIds, Captured(r) # A!NoRes,
         ResAre' = [ResAre EXCEPT ![r] = A!NoRes], Kont' = Kont
  PROVE  Follows
<1>1. A!AForget(r)
  BY DEF A!AForget, ResAre, StIs
<1> QED
  BY <1>1 DEF Follows, A!ANext

\* A resumption's frames on top is AResume.
LEMMA ResumeFollows ==
  ASSUME StIs = "eval", StIs' = "value", NEW r \in ResIds, Captured(r) # A!NoRes,
         ResAre' = IF Captured(r).once THEN [ResAre EXCEPT ![r] = A!NoRes] ELSE ResAre,
         Kont' = Kont \o Captured(r).frames
  PROVE  Follows
<1>1. A!AResume(r)
  BY DEF A!AResume, ResAre, StIs
<1> QED
  BY <1>1 DEF Follows, A!ANext

\* The nearest clause taken, with its frames hidden or captured, is APerform.
LEMMA PerformFollows ==
  ASSUME StIs = "eval", StIs' = "eval", NEW op \in Ops, A!Covering(Kont, op) # {}, NEW at,
         at = A!Nearest(A!Covering(Kont, op)), NEW c, c = A!Clause(Kont[at].h, op),
         \/ /\ c.kind = "tail" /\ ResAre' = ResAre
            /\ Kont' = Append(SubSeq(Kont, 1, at - 1), [t |-> "tail", inner |-> SubSeq(Kont, at, Len(Kont))])
         \/ /\ c.kind # "tail" /\ Kont' = SubSeq(Kont, 1, at - 1)
            /\ \E r \in ResIds :
                 /\ Captured(r) = A!NoRes
                 /\ ResAre' = [ResAre EXCEPT ![r] = [frames |-> SubSeq(Kont, at, Len(Kont)), once |-> c.once]]
  PROVE  Follows
<1>1. A!APerform(op)
  BY DEF A!APerform, ResAre, StIs, A!ThenResume
<1>2. op \in A!Ops
  BY DEF A!Ops, Ops
<1> QED
  BY <1>1, <1>2 DEF Follows, A!ANext

\* A resumption whose frames are unchanged is captured as it was.
LEMMA CapturedSame ==
  ASSUME StacksInv, NEW CONSTANT r \in ResIds, res'[r] = res[r],
         \A i \in 1 .. Len(res[r].frames) : heap'[res[r].frames[i]] = heap[res[r].frames[i]]
  PROVE  Captured(r)' = Captured(r)
<1>1. res[r].frames \in Seq(Frames)
  BY DEF StacksInv, Typed
<1>2. \A i \in DOMAIN res[r].frames : heap'[res[r].frames[i]] = heap[res[r].frames[i]]
  <2>1. DOMAIN res[r].frames = 1 .. Len(res[r].frames)
    BY <1>1
  <2> QED
    BY <2>1
<1>3. [i \in DOMAIN res[r].frames |-> FrameOf(heap'[res[r].frames[i]])]
        = [i \in DOMAIN res[r].frames |-> FrameOf(heap[res[r].frames[i]])]
  BY <1>2
<1> DEFINE L == [i \in DOMAIN res[r].frames |-> FrameOf(heap[res[r].frames[i]])]
           M == [i \in DOMAIN res'[r].frames |-> FrameOf(heap'[res'[r].frames[i]])]
<1>4. M = L
  BY <1>3
<1>5. Captured(r)' = IF res'[r] = NoRes \/ (res'[r].once /\ res'[r].used)
                     THEN [frames |-> << >>, once |-> FALSE] ELSE [frames |-> M, once |-> res'[r].once]
  BY DEF Captured, NoRes
<1>6. Captured(r) = IF res[r] = NoRes \/ (res[r].once /\ res[r].used)
                    THEN [frames |-> << >>, once |-> FALSE] ELSE [frames |-> L, once |-> res[r].once]
  BY DEF Captured
<1> HIDE DEF L, M
<1> QED
  BY <1>4, <1>5, <1>6

\* Resumptions whose frames are unchanged are captured as they were.
LEMMA ResSame ==
  ASSUME StacksInv, res' = res, \A f \in Frames : InResumption(res, f) => heap'[f] = heap[f]
  PROVE  ResAre' = ResAre
<1>1. ASSUME NEW CONSTANT r \in ResIds PROVE Captured(r)' = Captured(r)
  <2>1. res[r].frames \in Seq(Frames)
    BY DEF StacksInv, Typed
  <2>2. \A i \in 1 .. Len(res[r].frames) : res[r].frames[i] \in Frames /\ InResumption(res, res[r].frames[i])
    BY <2>1 DEF InResumption
  <2> QED
    BY <2>2, CapturedSame
<1> QED
  BY <1>1 DEF ResAre

----------------------------------------------------------------------------
(* Code leaves a frame to be returned to.                                  *)

\* Every activation but a tail clause extends any view.
LEMMA ViewExtended ==
  ASSUME NEW v, NEW c, c.t # "perform", NEW H
  PROVE  \E w : Extends(c, H, v, w)
<1> DEFINE w == [k |-> Append(v.k, Pushes(c, H)), id |-> Append(v.id, PushedId(c)), x |-> v.x \o Installed(c, H),
                 b |-> [p \in 0 .. Len(v.k) + 1 |-> IF p <= Len(v.k) THEN v.b[p] ELSE Len(v.x) + Len(Installed(c, H))]]
<1>1. /\ w.k = Append(v.k, Pushes(c, H)) /\ w.id = Append(v.id, PushedId(c)) /\ w.x = v.x \o Installed(c, H)
      /\ w.b = [p \in 0 .. Len(v.k) + 1 |-> IF p <= Len(v.k) THEN v.b[p] ELSE Len(v.x) + Len(Installed(c, H))]
  OBVIOUS
<1> HIDE DEF w
<1>2. Extends(c, H, v, w)
  BY <1>1 DEF Extends
<1> QED
  BY <1>2

\* A call or an installed handler keeps the views and is a step of the interpreter.
LEMMA PlainShows ==
  ASSUME StacksInv, NEW CONSTANT V, Shows(V), mode = "run", NEW CONSTANT d, d \in Context, d.t \in {"act", "handle"},
         stk' = Append(stk, d), heap' \in [Frames -> Descriptors],
         \/ /\ OnKs(d) /\ heap[d.fr] = Free /\ ks' = Append(ks, d.fr)
            /\ heap'[d.fr] # Free /\ \A g \in Frames : g # d.fr => heap'[g] = heap[g]
         \/ ~OnKs(d) /\ ks' = ks /\ heap' = heap,
         d.t = "handle" => heap'[d.fr].t = "handle" /\ heap'[d.fr].h \in DOMAIN Handlers,
         d.t = "act" => IF d.fr = 0 THEN cap = 0 ELSE heap'[d.fr] = ActFrame(d.a),
         hs' = hs \o Installed(d, heap'), UNCHANGED <<pending, res, mode, run>>, StacksInv'
  PROVE  KontInv' /\ Follows
<1> DEFINE n == Len(stk)
<1>1. /\ stk \in Seq(Context) /\ ks \in Seq(Frames) /\ n \in Nat /\ Views(stk, heap, V) /\ Saved(stk, heap)
      /\ FramesFollow(stk, ks, mode) /\ Entering(stk) = {} /\ HsIs(stk, heap, hs, cap, floor)
      /\ Owned(ks, res, {}, heap) /\ hs = V[n].x /\ FloorAt(V[n], floor)
  <2>1. /\ stk \in Seq(Context) /\ ks \in Seq(Frames) /\ Views(stk, heap, V) /\ Saved(stk, heap)
        /\ FramesFollow(stk, ks, mode) /\ HsIs(stk, heap, hs, cap, floor)
        /\ Owned(ks, res, Entering(stk), heap) /\ hs = V[n].x /\ FloorAt(V[n], floor) /\ EnterOnTop(stk, mode)
    BY DEF StacksInv, Typed, Shows
  <2>2. Entering(stk) = {}
    BY <2>1, EnterNone
  <2> QED
    BY <2>1, <2>2
<1>2. Grown(stk, stk', n, d)
  BY <1>1, Pushed
<1>3. \A g \in Frames : OnStack(ks, g) \/ InResumption(res, g) => heap[g] # Free /\ heap'[g] = heap[g]
  BY <1>1 DEF Owned
<1>4. Views(stk, heap', V) /\ Saved(stk, heap')
  BY <1>1, <1>3, ViewsUnmoved, ZenonT(40)
<1>5. Described(d, heap')
  BY DEF Described
<1>6. \A s \in 1 .. n : HasFrame(stk[s]) /\ HasFrame(d) => stk[s].fr # d.fr
  <2> SUFFICES ASSUME NEW s \in 1 .. n, HasFrame(stk[s]), HasFrame(d) PROVE stk[s].fr # d.fr
    OBVIOUS
  <2>1. stk[s].t # "enter"
    BY <1>1 DEF Entering
  <2>2. OnKs(stk[s])
    BY <2>1 DEF HasFrame, OnKs
  <2>3. stk[s].fr \in Frames /\ OnStack(ks, stk[s].fr)
    BY <1>1, <2>2, FramesOnKs
  <2>4. OnKs(d)
    BY DEF HasFrame, OnKs
  <2> QED
    BY <1>3, <2>3, <2>4
<1>7. PICK w : Extends(d, heap', V[n], w)
  BY ViewExtended
<1>8. PICK W : Views(stk', heap', W) /\ W[n + 1] = w /\ \A i \in 0 .. n : W[i] = V[i]
  <2>1. ViewStep(d, heap', V[n], w)
    BY <1>7 DEF ViewStep
  <2>2. d.t # "lw"
    OBVIOUS
  <2>3. Grown(stk, stk', n, d) /\ Views(stk, heap', V) /\ Described(d, heap')
        /\ (\A s \in 1 .. n : HasFrame(stk[s]) /\ HasFrame(d) => stk[s].fr # d.fr)
        /\ (d.t = "lw" => FloorAt(V[n], d.floor)) /\ ViewStep(d, heap', V[n], w)
    BY ONLY <1>2, <1>4, <1>5, <1>6, <2>1, <2>2
  <2> HIDE DEF n
  <2> QED
    BY ONLY <2>3, ViewsPush
<1>9. Len(stk') = n + 1 /\ n \in 0 .. n /\ n + 1 \in 0 .. n + 1
  BY <1>1, <1>2 DEF Grown
<1>10. Reads(w) /\ Reads(V[n])
  BY <1>1, <1>8, <1>9 DEF Views
<1>11. hs' = W[Len(stk')].x /\ FloorAt(W[Len(stk')], floor')
  <2>1. hs' = w.x
    BY <1>1, <1>7 DEF Extends
  <2>2. floor' = floor
    BY DEF run
  <2>3. FloorAt(w, floor)
    BY <1>1, <1>7, <1>10, FloorExtend
  <2> QED
    BY <2>1, <2>2, <2>3, <1>8, <1>9
<1>12. Saved(stk', heap')
  <2>1. ASSUME d.t = "act", d.fr = 0, NEW s \in 1 .. n, stk[s].t = "handle"
        PROVE  NoCapturing(heap'[stk[s].fr].h)
    <3>1. heap' = heap /\ cap = 0
      BY <2>1 DEF OnKs
    <3>2. heap[stk[s].fr].h \in DOMAIN Handlers
      BY <1>1, <2>1 DEF Views, Described
    <3> QED
      BY <1>1, <2>1, <3>1, <3>2, NoneCapturing
  <2> QED
    BY <1>2, <1>4, <2>1, SavedPush
<1>13. Shows(W)'
  BY <1>8, <1>11, <1>12 DEF Shows
<1>14. Kont = V[n].k
  BY KontIs
<1>15. Kont' = Append(Kont, Pushes(d, heap'))
  <2>1. Kont' = W[Len(stk')].k
    BY <1>13, KontNext
  <2> QED
    BY <2>1, <1>7, <1>8, <1>9, <1>14 DEF Extends
<1>16. Pushes(d, heap') \in A!NewFrames
  <2>1. CASE d.t = "act"
    <3>1. Pushes(d, heap') = A!Waiting(d.a)
      BY <2>1 DEF Pushes, A!Waiting
    <3>2. d.a \in Labels
      BY <2>1 DEF Context
    <3> QED
      BY <3>1, <3>2 DEF A!NewFrames
  <2>2. CASE d.t = "handle"
    <3>1. Pushes(d, heap') = A!Handling(heap'[d.fr].h)
      BY <2>2 DEF Pushes, FrameOf, A!Handling
    <3> QED
      BY <3>1, <2>2 DEF A!NewFrames
  <2> QED
    BY <2>1, <2>2
<1>17. ResAre' = ResAre
  BY <1>3, ResSame
<1>18. StIs = "eval" /\ StIs' = "eval"
  BY StValues, StValuesNext
<1>19. Follows
  BY <1>15, <1>16, <1>17, <1>18, EnterFollows
<1> QED
  BY <1>13, <1>19 DEF KontInv

\* Call keeps the views and is AEnter.
LEMMA CallShows ==
  ASSUME StacksInv, NEW CONSTANT V, Shows(V), NEW CONSTANT a \in Labels, Call(a), StacksInv'
  PROVE  KontInv' /\ Follows
<1> USE DEF Call
<1>1. hs \in Seq(Entry) /\ cap \in Nat /\ heap \in [Frames -> Descriptors]
  <2>1. stk \in Seq(Context) /\ HsIs(stk, heap, hs, cap, floor) /\ heap \in [Frames -> Descriptors]
    BY DEF StacksInv, Typed
  <2> QED
    BY ONLY <2>1, HsTyped
<1>2. CASE cap > 0
  <2>1. PICK f : f = NewFrame
    OBVIOUS
  <2>2. f \in Frames /\ heap[f] = Free /\ f # 0
    <3>1. f \in Frames /\ heap[f] = Free
      BY <1>2, <2>1, NewFrameIs
    <3> QED
      BY <3>1 DEF Frames
  <2>3. PICK d : d = [t |-> "act", fr |-> f, a |-> a]
    OBVIOUS
  <2>4. d \in Context /\ d.t = "act" /\ d.fr = f /\ d.a = a /\ OnKs(d) /\ Installed(d, heap') = << >>
    BY <2>2, <2>3 DEF Context, FrameIds, OnKs, Installed
  <2>5. heap' = [heap EXCEPT ![f] = ActFrame(a)] /\ ks' = Append(ks, f) /\ stk' = Append(stk, d)
    BY <1>2, <2>1, <2>3
  <2>6. /\ heap' \in [Frames -> Descriptors] /\ heap'[f] # Free /\ \A g \in Frames : g # f => heap'[g] = heap[g]
        /\ heap'[f] = ActFrame(a)
    <3>1. ActFrame(a) \in Descriptors /\ ActFrame(a) # Free
      BY DEF Descriptors, ActFrame, Free
    <3> QED
      BY <1>1, <2>2, <2>5, <3>1
  <2>7. hs' = hs \o Installed(d, heap')
    <3>1. hs' = hs /\ hs \o << >> = hs
      BY <1>1, ConcatEmptySeq
    <3> QED
      BY <2>4, <3>1
  <2>8. mode = "run" /\ UNCHANGED <<pending, res, mode, run>>
    OBVIOUS
  <2> QED
    BY ONLY StacksInv, Shows(V), StacksInv', <2>2, <2>4, <2>5, <2>6, <2>7, <2>8, PlainShows
<1>3. CASE ~(cap > 0)
  <2>3. PICK d : d = [t |-> "act", fr |-> 0, a |-> a]
    OBVIOUS
  <2>4. d \in Context /\ d.t = "act" /\ d.fr = 0 /\ ~OnKs(d) /\ Installed(d, heap') = << >>
    BY <2>3 DEF Context, FrameIds, OnKs, Installed
  <2>5. heap' = heap /\ ks' = ks /\ stk' = Append(stk, d) /\ cap = 0
    BY <1>1, <1>3, <2>3
  <2>7. hs' = hs \o Installed(d, heap')
    <3>1. hs' = hs /\ hs \o << >> = hs
      BY <1>1, ConcatEmptySeq
    <3> QED
      BY <2>4, <3>1
  <2>8. mode = "run" /\ UNCHANGED <<pending, res, mode, run>> /\ heap' \in [Frames -> Descriptors]
    BY <1>1, <2>5
  <2> QED
    BY ONLY StacksInv, Shows(V), StacksInv', <2>4, <2>5, <2>7, <2>8, PlainShows
<1> QED
  BY <1>2, <1>3

\* Handle2 keeps the views and is AEnter: the handler is on top.
LEMMA HandleShows ==
  ASSUME StacksInv, NEW CONSTANT V, Shows(V), NEW CONSTANT h \in DOMAIN Handlers, Handle2(h), StacksInv'
  PROVE  KontInv' /\ Follows
<1> USE DEF Handle2
<1>1. heap \in [Frames -> Descriptors]
  BY DEF StacksInv, Typed
<1>2. PICK f : f = NewFrame
  OBVIOUS
<1>3. f \in Frames /\ heap[f] = Free
  BY <1>2, NewFrameIs
<1>4. PICK d : d = [t |-> "handle", fr |-> f]
  OBVIOUS
<1>5. d \in Context /\ d.t = "handle" /\ d.fr = f /\ OnKs(d)
  BY <1>3, <1>4 DEF Context, OnKs
<1>6. heap' = [heap EXCEPT ![f] = HfFrame(h)] /\ ks' = Append(ks, f) /\ stk' = Append(stk, d)
  BY <1>2, <1>4
<1>7. /\ heap' \in [Frames -> Descriptors] /\ heap'[f] # Free /\ \A g \in Frames : g # f => heap'[g] = heap[g]
      /\ heap'[f].h = h /\ heap'[f].t = "handle"
  <2>1. HfFrame(h) \in Descriptors /\ HfFrame(h) # Free /\ HfFrame(h).h = h /\ HfFrame(h).t = "handle"
    BY DEF Descriptors, HfFrame, Free
  <2> QED
    BY <1>1, <1>3, <1>6, <2>1
<1>8. hs' = hs \o Installed(d, heap')
  <2>1. Installed(d, heap') = EntriesOf(h, f)
    BY <1>5, <1>7 DEF Installed
  <2>2. hs' = hs \o EntriesOf(h, f)
    BY <1>2 DEF HandlePush
  <2> QED
    BY ONLY <2>1, <2>2
<1>9. mode = "run" /\ UNCHANGED <<pending, res, mode, run>>
  OBVIOUS
<1> QED
  BY ONLY StacksInv, Shows(V), StacksInv', <1>3, <1>5, <1>6, <1>7, <1>8, <1>9, PlainShows, h \in DOMAIN Handlers

\* StartRun keeps the views and is AEnter: the floor rises to the entries there are.
LEMMA StartRunShows ==
  ASSUME StacksInv, NEW CONSTANT V, Shows(V), StartRun, StacksInv'
  PROVE  KontInv' /\ Follows
<1> DEFINE n == Len(stk)
<1>1. /\ stk \in Seq(Context) /\ n \in Nat /\ Views(stk, heap, V) /\ Saved(stk, heap)
      /\ hs = V[n].x /\ FloorAt(V[n], floor)
  BY DEF StacksInv, Typed, Shows
<1>2. PICK d : d = [t |-> "lw", floor |-> floor, lw |-> lw]
  OBVIOUS
<1>3. /\ stk' = Append(stk, d) /\ floor' = Len(hs) /\ hs' = hs /\ heap' = heap /\ ks' = ks /\ res' = res /\ mode' = mode
      /\ mode = "run"
  BY <1>2 DEF StartRun, stacks
<1>4. d \in Context /\ d.t = "lw" /\ d.floor = floor
  <2>1. stk' \in Seq(Context)
    BY DEF StacksInv, Typed
  <2>2. stk'[n + 1] = d /\ Len(stk') = n + 1
    BY <1>1, <1>3
  <2>3. n + 1 \in 1 .. Len(stk')
    BY <1>1, <2>2
  <2> QED
    BY <1>2, <2>1, <2>2, <2>3
<1>5. Grown(stk, stk', n, d)
  BY <1>1, <1>3, <1>4, Pushed
<1>6. PICK w : Extends(d, heap, V[n], w)
  BY <1>4, ViewExtended
<1>7. PICK W : Views(stk', heap, W) /\ W[n + 1] = w /\ \A i \in 0 .. n : W[i] = V[i]
  <2>1. /\ Grown(stk, stk', n, d) /\ Views(stk, heap, V) /\ Described(d, heap) /\ ~HasFrame(d)
        /\ FloorAt(V[n], d.floor) /\ ViewStep(d, heap, V[n], w)
    BY <1>1, <1>4, <1>5, <1>6 DEF Described, HasFrame, ViewStep
  <2> HIDE DEF n
  <2> QED
    BY ONLY <2>1, ViewsPush
<1>8. Len(stk') = n + 1 /\ n \in 0 .. n /\ n + 1 \in 0 .. n + 1
  BY <1>1, <1>5 DEF Grown
<1>9. Reads(w) /\ Reads(V[n])
  BY <1>1, <1>7, <1>8 DEF Views
<1>10. hs' = W[Len(stk')].x /\ FloorAt(W[Len(stk')], floor')
  <2>1. w.x = hs \o << >>
    BY <1>1, <1>4, <1>6 DEF Extends, Installed
  <2>2. hs \in Seq(Entry)
    BY <1>1, <1>9 DEF Reads
  <2>3. FloorAt(w, Len(V[n].x))
    BY <1>4, <1>6, <1>9, FloorExtend
  <2>4. hs \o << >> = hs
    BY <2>2, ConcatEmptySeq
  <2> QED
    BY <1>1, <1>3, <2>1, <2>3, <2>4, <1>7, <1>8
<1>11. Saved(stk', heap')
  BY <1>1, <1>3, <1>4, <1>5, SavedPush
<1>12. Shows(W)'
  BY <1>3, <1>7, <1>10, <1>11 DEF Shows
<1>13. Kont' = Append(Kont, A!Inference)
  <2>1. Kont = V[n].k
    BY <1>3, KontIs
  <2>2. Kont' = W[Len(stk')].k
    BY <1>3, <1>12, KontNext
  <2> QED
    BY <2>1, <2>2, <1>4, <1>6, <1>7, <1>8 DEF Extends, Pushes, A!Inference
<1>14. A!Inference \in A!NewFrames
  BY DEF A!NewFrames
<1>15. ResAre' = ResAre
  BY <1>3, ResSame
<1>16. StIs = "eval" /\ StIs' = "eval"
  BY <1>3, StValues, StValuesNext
<1>17. Follows
  BY <1>13, <1>14, <1>15, <1>16, EnterFollows
<1> QED
  BY <1>12, <1>17 DEF KontInv

\* A value to return keeps the views and is AYield.
LEMMA ModeShows ==
  ASSUME StacksInv, NEW CONSTANT V, Shows(V), mode = "run", mode' = "ret", UNCHANGED <<stacks, run, stk>>, StacksInv'
  PROVE  KontInv' /\ Follows
<1>1. /\ hs' = hs /\ ks' = ks /\ heap' = heap /\ res' = res /\ stk' = stk /\ floor' = floor
  BY DEF stacks, run
<1>2. Shows(V)'
  BY <1>1 DEF Shows
<1>3. Kont' = Kont
  BY <1>1, <1>2, KontIs, KontNext
<1>4. ResAre' = ResAre
  BY <1>1, ResSame
<1>5. StIs = "eval" /\ StIs' = "value"
  BY StValues, StValuesNext
<1>6. Follows
  BY <1>3, <1>4, <1>5, YieldFollows
<1> QED
  BY <1>2, <1>6 DEF KontInv

\* Exit, and the end of a program, empty everything.
LEMMA ExitShows ==
  ASSUME StacksInv, NEW CONSTANT V, Shows(V), mode \in {"run", "ret"}, mode = "ret" => stk = << >>,
         NEW CONSTANT how, how \notin {"run", "ret", "susp"}, Exit(how), StacksInv'
  PROVE  KontInv' /\ Follows
<1>1. /\ mode' = how /\ hs' = << >> /\ ks' = << >> /\ heap' = [f \in Frames |-> Free]
      /\ res' = [r \in ResIds |-> NoRes] /\ stk' = << >> /\ floor' = 0
  BY DEF Exit
<1>2. Len(stk') = 0
  BY <1>1
<1>3. PICK W : Views(stk', heap', W) /\ W[0] = NoView
  BY <1>2, NothingSeen
<1>4. hs' = W[Len(stk')].x /\ FloorAt(W[Len(stk')], floor')
  <2>1. NoView.x = << >>
    BY DEF NoView
  <2> QED
    BY <1>1, <1>2, <1>3, <2>1, ReadsNothing
<1>5. Saved(stk', heap')
  BY <1>2 DEF Saved
<1>6. Shows(W)'
  BY <1>1, <1>3, <1>4, <1>5 DEF Shows
<1>7. Kont' = << >>
  <2>1. Kont' = W[Len(stk')].k
    BY <1>1, <1>6, KontNext
  <2> QED
    BY <1>2, <1>3, <2>1 DEF NoView
<1>8. mode = "ret" => Kont = << >>
  <2>1. mode = "ret" => Len(stk) = 0
    BY LenProperties, EmptySeq
  <2>2. V[0].k = << >>
    BY DEF Shows, Views, NoView
  <2> QED
    BY <2>1, <2>2, KontIs
<1>9. ResAre' = [r \in ResIds |-> A!NoRes]
  <2>1. \A r \in ResIds : Captured(r)' = A!NoRes
    <3> SUFFICES ASSUME NEW CONSTANT r \in ResIds PROVE Captured(r)' = A!NoRes
      OBVIOUS
    <3>1. res'[r] = NoRes
      BY <1>1
    <3> QED
      BY <3>1 DEF Captured, A!NoRes
  <2> QED
    BY <2>1 DEF ResAre
<1>10. /\ StIs \in {"eval", "value"} /\ (StIs = "value" => mode = "ret") /\ StIs' = "stop"
  BY <1>1, StValues, StValuesNext
<1>11. Follows
  BY <1>7, <1>8, <1>9, <1>10, StopFollows
<1> QED
  BY <1>6, <1>11 DEF KontInv

\* Drop (a resumption released) keeps the views and is AForget.
LEMMA DropShows ==
  ASSUME StacksInv, NEW CONSTANT V, Shows(V), NEW CONSTANT r \in ResIds, Drop(r), StacksInv'
  PROVE  KontInv' /\ Follows
<1> USE DEF Drop
<1>1. /\ stk \in Seq(Context) /\ ks \in Seq(Frames) /\ Views(stk, heap, V) /\ Saved(stk, heap)
      /\ FramesFollow(stk, ks, mode) /\ Entering(stk) = {} /\ Owned(ks, res, {}, heap)
      /\ res \in [ResIds -> [frames : Seq(Frames), once : BOOLEAN, used : BOOLEAN]]
      /\ res[r].frames # << >>
  <2>1. /\ stk \in Seq(Context) /\ ks \in Seq(Frames) /\ Views(stk, heap, V) /\ Saved(stk, heap)
        /\ FramesFollow(stk, ks, mode) /\ Owned(ks, res, Entering(stk), heap) /\ EnterOnTop(stk, mode)
        /\ res \in [ResIds -> [frames : Seq(Frames), once : BOOLEAN, used : BOOLEAN]]
        /\ res[r].frames # << >>
    BY DEF StacksInv, Typed, Shows
  <2>2. Entering(stk) = {}
    BY <2>1, EnterNone
  <2> QED
    BY <2>1, <2>2
<1>2. res[r].frames \in Seq(Frames)
  BY <1>1
<1>3. ASSUME NEW f PROVE f \in Range(res[r].frames) <=> \E i \in 1 .. Len(res[r].frames) : res[r].frames[i] = f
  <2>1. DOMAIN res[r].frames = 1 .. Len(res[r].frames)
    BY <1>2, LenProperties
  <2> QED
    BY <2>1 DEF Range
<1>4. \A f \in Frames : OnStack(ks, f) => heap'[f] = heap[f]
  <2> SUFFICES ASSUME NEW f \in Frames, OnStack(ks, f) PROVE heap'[f] = heap[f]
    OBVIOUS
  <2>1. ~InResumption(res, f)
    BY <1>1 DEF Owned
  <2> QED
    BY <2>1, <1>3 DEF InResumption
<1>5. \A q \in ResIds : q # r => \A i \in 1 .. Len(res[q].frames) : heap'[res[q].frames[i]] = heap[res[q].frames[i]]
  <2> SUFFICES ASSUME NEW CONSTANT q \in ResIds, q # r, NEW CONSTANT i \in 1 .. Len(res[q].frames)
               PROVE  heap'[res[q].frames[i]] = heap[res[q].frames[i]]
    OBVIOUS
  <2>1. res[q].frames[i] \in Frames
    BY <1>1
  <2>2. ~\E j \in 1 .. Len(res[r].frames) : res[r].frames[j] = res[q].frames[i]
    BY <1>1 DEF Owned, Apart
  <2> QED
    BY <2>1, <2>2, <1>3
<1>6. Views(stk, heap', V) /\ Saved(stk, heap')
  BY <1>1, <1>4, ViewsUnmoved
<1>7. stk' = stk /\ hs' = hs /\ ks' = ks /\ floor' = floor /\ mode = "run" /\ mode' = "run" /\ res' = [res EXCEPT ![r] = NoRes]
  BY DEF run
<1>8. Shows(V)'
  BY <1>6, <1>7 DEF Shows
<1>9. Kont' = Kont
  BY <1>7, <1>8, KontIs, KontNext
<1>10. StIs = "eval" /\ StIs' = "eval"
  BY <1>7, StValues, StValuesNext
<1>11. Captured(r)' = A!NoRes
  <2>1. res'[r] = NoRes
    BY <1>1, <1>7
  <2> QED
    BY <2>1 DEF Captured, A!NoRes
<1>12. \A q \in ResIds : q # r => Captured(q)' = Captured(q)
  <2> SUFFICES ASSUME NEW CONSTANT q \in ResIds, q # r PROVE Captured(q)' = Captured(q)
    OBVIOUS
  <2>1. res'[q] = res[q]
    BY <1>1, <1>7
  <2>2. res[q].frames \in Seq(Frames)
    BY <1>1
  <2> QED
    BY <1>5, <2>1, <2>2, CapturedSame
<1>13. ResAre' = [ResAre EXCEPT ![r] = A!NoRes]
  BY <1>11, <1>12 DEF ResAre
<1>14. CASE Captured(r) = A!NoRes
  <2>1. ResAre' = ResAre
    BY <1>11, <1>12, <1>14 DEF ResAre
  <2>2. Follows
    BY <2>1, <1>9, <1>10, StutterFollows
  <2> QED
    BY <2>2, <1>8 DEF KontInv
<1>15. CASE Captured(r) # A!NoRes
  <2>1. Follows
    BY <1>9, <1>10, <1>13, <1>15, ForgetFollows
  <2> QED
    BY <2>1, <1>8 DEF KontInv
<1> QED
  BY <1>14, <1>15

----------------------------------------------------------------------------
(* An operation.                                                           *)

\* The entry perform picks and the clause the interpreter picks.
Found(v, op, at, j) ==
  /\ A!Covering(v.k, op) # {} /\ at = A!Nearest(A!Covering(v.k, op)) /\ at \in A!Covering(v.k, op)
  /\ at \in 1 .. Len(v.k) /\ v.k[at].t = "handle" /\ v.k[at].h \in DOMAIN Handlers /\ v.id[at] \in Frames
  /\ \A q \in A!Covering(v.k, op) : q <= at
  /\ \A q \in at .. Len(v.k) : v.k[q].t # "lw"
  /\ j \in 1 .. Len(Handlers[v.k[at].h]) /\ Handlers[v.k[at].h][j].op = op
  /\ A!Clause(v.k[at].h, op) = Handlers[v.k[at].h][j] /\ v.b[at - 1] \in Nat

\* The entry jq_perform's search finds is an entry of the handler the interpreter finds.
LEMMA MatchFound ==
  ASSUME Separate, NEW v, Reads(v), hs = v.x, FloorAt(v, floor), NEW op, Matching(op) # {}
  PROVE  \E at, j : /\ Found(v, op, at, j) /\ Match(op) = v.b[at - 1] + j
                    /\ hs[Match(op)] = EntriesOf(v.k[at].h, v.id[at])[j]
<1>1. Matching(op) = Seen(v.x, floor, op)
  BY DEF Matching, Seen
<1>2. PICK at \in A!Covering(v.k, op), m \in Seen(v.x, floor, op) :
                /\ at = A!Nearest(A!Covering(v.k, op)) /\ at \in 1 .. Len(v.k) /\ v.k[at].t = "handle"
                /\ v.k[at].h \in DOMAIN Handlers /\ v.id[at] \in Frames
                /\ \A q \in A!Covering(v.k, op) : q <= at
                /\ \A i \in Seen(v.x, floor, op) : i <= m
                /\ \E j \in 1 .. Len(Handlers[v.k[at].h]) :
                     /\ Handlers[v.k[at].h][j].op = op /\ m = v.b[at - 1] + j /\ v.b[at - 1] \in Nat
                     /\ A!Clause(v.k[at].h, op) = Handlers[v.k[at].h][j]
                     /\ v.x[m] = EntriesOf(v.k[at].h, v.id[at])[j]
  BY <1>1, SearchFinds
<1>3. PICK j \in 1 .. Len(Handlers[v.k[at].h]) :
                     /\ Handlers[v.k[at].h][j].op = op /\ m = v.b[at - 1] + j /\ v.b[at - 1] \in Nat
                     /\ A!Clause(v.k[at].h, op) = Handlers[v.k[at].h][j]
                     /\ v.x[m] = EntriesOf(v.k[at].h, v.id[at])[j]
  BY <1>2
<1>4. Match(op) = m
  <2>1. \A i \in Matching(op) : i \in Int
    <3>1. IsSequence(v.k) /\ v.x \in Seq(Entry)
      BY DEF Reads, IsSequence
    <3>2. floor + 1 .. Len(hs) \subseteq Int
      OBVIOUS
    <3> QED
      BY <3>2 DEF Matching
  <2>2. m \in Matching(op) /\ \A i \in Matching(op) : i <= m
    BY <1>1, <1>2
  <2>3. \A i \in Matching(op) : (\A q \in Matching(op) : q <= i) <=> i = m
    BY <2>1, <2>2
  <2> QED
    BY <2>2, <2>3 DEF Match
<1>5. \A q \in at .. Len(v.k) : v.k[q].t # "lw"
  BY <1>2 DEF A!Covering
<1>6. Found(v, op, at, j)
  BY <1>2, <1>3, <1>5 DEF Found
<1> QED
  BY <1>3, <1>4, <1>6

\* With views, the search finds what the interpreter finds.
LEMMA SearchHolds ==
  ASSUME Separate, StacksInv, NEW CONSTANT V, Shows(V)
  PROVE  SearchAgrees
<1> DEFINE v == V[Len(stk)]
<1>1. stk \in Seq(Context) /\ Views(stk, heap, V) /\ hs = v.x /\ FloorAt(v, floor) /\ Len(stk) \in 0 .. Len(stk)
  BY LenProperties DEF StacksInv, Typed, Shows
<1>2. Enclosing = Shown(v)
  BY <1>1, EnclosingIs
<1>3. Enclosing.k = v.k /\ Enclosing.id = v.id
  BY <1>2 DEF Shown
<1>4. Reads(v)
  BY <1>1 DEF Views
<1> HIDE DEF v
<1> SUFFICES ASSUME NEW op \in Ops
             PROVE  IF A!Covering(v.k, op) = {} THEN Matching(op) = {}
                    ELSE Matching(op) # {} /\ hs[Match(op)].hf = v.id[A!Nearest(A!Covering(v.k, op))]
  BY <1>3 DEF SearchAgrees
<1>5. Matching(op) = Seen(v.x, floor, op)
  BY <1>1 DEF Matching, Seen
<1>6. A!Covering(v.k, op) = {} <=> Seen(v.x, floor, op) = {}
  BY <1>1, <1>4, SearchFinds
<1>7. ASSUME Matching(op) # {} PROVE hs[Match(op)].hf = v.id[A!Nearest(A!Covering(v.k, op))]
  <2>1. PICK at, j : /\ Found(v, op, at, j) /\ Match(op) = v.b[at - 1] + j
                     /\ hs[Match(op)] = EntriesOf(v.k[at].h, v.id[at])[j]
    BY <1>1, <1>4, <1>7, MatchFound
  <2>2. at = A!Nearest(A!Covering(v.k, op)) /\ v.k[at].h \in DOMAIN Handlers /\ v.id[at] \in Frames
        /\ j \in 1 .. Len(Handlers[v.k[at].h])
    BY <2>1 DEF Found
  <2>3. j \in DOMAIN EntriesOf(v.k[at].h, v.id[at])
    <3>1. Handlers[v.k[at].h] \in Seq(Clauses)
      BY <2>2, HandlersAssumption
    <3>2. j \in DOMAIN Handlers[v.k[at].h]
      BY <3>1, <2>2
    <3> QED
      BY <3>2 DEF EntriesOf
  <2> QED
    BY <2>1, <2>2, <2>3, EntriesAre
<1> QED
  BY <1>5, <1>6, <1>7

\* The operations of clauses are operations.
LEMMA OpKnown ==
  ASSUME NEW h \in DOMAIN Handlers, NEW j \in 1 .. Len(Handlers[h])
  PROVE  Handlers[h][j].op \in Ops /\ DOMAIN Handlers[h] = 1 .. Len(Handlers[h])
<1>1. Handlers[h] \in Seq(Clauses)
  BY HandlersAssumption
<1>2. DOMAIN Handlers[h] = 1 .. Len(Handlers[h])
  BY <1>1
<1>3. Handlers[h][j].op \in {Handlers[h][i].op : i \in DOMAIN Handlers[h]}
  BY <1>2
<1> QED
  BY <1>2, <1>3 DEF Ops

\* What an entry says of its clause.
LEMMA EntryIs ==
  ASSUME NEW h \in DOMAIN Handlers, NEW f \in Frames, NEW j \in 1 .. Len(Handlers[h]), NEW e, e = EntriesOf(h, f)[j]
  PROVE  /\ e.op = Handlers[h][j].op /\ e.kind = Handlers[h][j].kind /\ e.once = Handlers[h][j].once /\ e.hf = f
         /\ Handlers[h][j].kind \in {"tail", "capturing"}
<1>1. Handlers[h] \in Seq(Clauses)
  BY HandlersAssumption
<1>2. j \in DOMAIN Handlers[h]
  BY <1>1
<1>3. Handlers[h][j] \in Clauses
  BY <1>1
<1> QED
  BY <1>2, <1>3 DEF EntriesOf, Clauses

\* A view that ends below a handler.
LEMMA ViewHidden ==
  ASSUME NEW v, NEW c, NEW at, c.t = "perform", at \in 1 .. Len(v.k), v.k[at].t = "handle", v.id[at] = c.hf,
         \A q \in at .. Len(v.k) : v.k[q].t # "lw", c.saved = SubSeq(v.x, v.b[at - 1] + 1, Len(v.x))
  PROVE  \E w : Hides(c, v, w, at)
<1> DEFINE w == [k |-> Append(SubSeq(v.k, 1, at - 1), [t |-> "tail", inner |-> SubSeq(v.k, at, Len(v.k))]),
                 id |-> Append(SubSeq(v.id, 1, at - 1), 0), x |-> SubSeq(v.x, 1, v.b[at - 1]),
                 b |-> [p \in 0 .. at |-> IF p < at THEN v.b[p] ELSE v.b[at - 1]]]
<1>1. /\ w.k = Append(SubSeq(v.k, 1, at - 1), [t |-> "tail", inner |-> SubSeq(v.k, at, Len(v.k))])
      /\ w.id = Append(SubSeq(v.id, 1, at - 1), 0) /\ w.x = SubSeq(v.x, 1, v.b[at - 1])
      /\ w.b = [p \in 0 .. at |-> IF p < at THEN v.b[p] ELSE v.b[at - 1]]
  OBVIOUS
<1> HIDE DEF w
<1>2. Hides(c, v, w, at)
  BY <1>1 DEF Hides
<1> QED
  BY <1>2

\* PerformTail is APerform of a tail clause: what is hidden is what the interpreter hides.
LEMMA PerformTailShows ==
  ASSUME Separate, StacksInv, NEW CONSTANT V, Shows(V), NEW CONSTANT op, PerformTail(op), StacksInv'
  PROVE  KontInv' /\ Follows
<1> DEFINE n == Len(stk)
           m == Match(op)
<1>1. /\ stk \in Seq(Context) /\ n \in Nat /\ Views(stk, heap, V) /\ Saved(stk, heap)
      /\ hs = V[n].x /\ FloorAt(V[n], floor)
  BY DEF StacksInv, Typed, Shows
<1>2. /\ mode = "run" /\ Matching(op) # {} /\ hs[m].kind = "tail" /\ hs' = SubSeq(hs, 1, m - 1)
      /\ stk' = Append(stk, [t |-> "perform", hf |-> hs[m].hf, saved |-> SubSeq(hs, m, Len(hs))])
      /\ heap' = heap /\ ks' = ks /\ res' = res /\ mode' = mode /\ floor' = floor
  BY DEF PerformTail, run
<1>3. PICK v : v = V[n]
  OBVIOUS
<1>4. Reads(v) /\ hs = v.x /\ FloorAt(v, floor)
  <2>1. n \in 0 .. n
    BY <1>1
  <2> QED
    BY <2>1, <1>1, <1>3 DEF Views
<1>5. PICK at, j : /\ Found(v, op, at, j) /\ m = v.b[at - 1] + j
                   /\ hs[m] = EntriesOf(v.k[at].h, v.id[at])[j]
  BY <1>2, <1>4, MatchFound
<1>6. /\ A!Covering(v.k, op) # {} /\ at = A!Nearest(A!Covering(v.k, op))
      /\ at \in 1 .. Len(v.k) /\ v.k[at].t = "handle" /\ v.k[at].h \in DOMAIN Handlers /\ v.id[at] \in Frames
      /\ \A q \in at .. Len(v.k) : v.k[q].t # "lw"
      /\ j \in 1 .. Len(Handlers[v.k[at].h]) /\ Handlers[v.k[at].h][j].op = op
      /\ A!Clause(v.k[at].h, op) = Handlers[v.k[at].h][j] /\ v.b[at - 1] \in Nat
  BY <1>5 DEF Found
<1>7. hs[m].kind = Handlers[v.k[at].h][j].kind /\ hs[m].hf = v.id[at]
  BY <1>5, <1>6, EntryIs
<1>8. j = 1
  BY <1>2, <1>6, <1>7 DEF Separate
<1>9. m = v.b[at - 1] + 1 /\ m - 1 = v.b[at - 1]
  BY <1>5, <1>6, <1>8
<1>10. PICK d : d = [t |-> "perform", hf |-> hs[m].hf, saved |-> SubSeq(hs, m, Len(hs))]
  OBVIOUS
<1>11. stk' = Append(stk, d) /\ d.t = "perform" /\ d.hf = v.id[at] /\ d.saved = SubSeq(v.x, v.b[at - 1] + 1, Len(v.x))
  BY <1>2, <1>4, <1>7, <1>9, <1>10
<1>12. d \in Context
  <2>1. stk' \in Seq(Context)
    BY DEF StacksInv, Typed
  <2>2. stk'[n + 1] = d /\ Len(stk') = n + 1
    BY <1>1, <1>11
  <2>3. n + 1 \in 1 .. Len(stk')
    BY <1>1, <2>2
  <2> QED
    BY <2>1, <2>2, <2>3
<1>13. Grown(stk, stk', n, d)
  BY <1>1, <1>11, <1>12, Pushed
<1>14. PICK w : Hides(d, v, w, at)
  BY <1>6, <1>11, ViewHidden
<1>15. PICK W : Views(stk', heap, W) /\ W[n + 1] = w /\ \A i \in 0 .. n : W[i] = V[i]
  <2>1. at \in Nat
    BY <1>6
  <2>2. /\ Grown(stk, stk', n, d) /\ Views(stk, heap, V) /\ Described(d, heap) /\ ~HasFrame(d) /\ d.t # "lw"
        /\ ViewStep(d, heap, V[n], w)
    BY <1>1, <1>3, <1>11, <1>13, <1>14, <2>1 DEF Described, HasFrame, ViewStep
  <2> HIDE DEF n
  <2> QED
    BY ONLY <2>2, ViewsPush
<1>16. Len(stk') = n + 1 /\ n + 1 \in 0 .. n + 1
  BY <1>1, <1>13 DEF Grown
<1>17. hs' = W[Len(stk')].x /\ FloorAt(W[Len(stk')], floor')
  <2>1. w.x = SubSeq(v.x, 1, v.b[at - 1])
    BY <1>14 DEF Hides
  <2>2. FloorAt(w, floor)
    BY <1>4, <1>14, FloorHide
  <2> QED
    BY <2>1, <2>2, <1>2, <1>4, <1>9, <1>15, <1>16
<1>18. Saved(stk', heap')
  BY <1>1, <1>2, <1>11, <1>13, SavedPush
<1>19. Shows(W)'
  BY <1>2, <1>15, <1>17, <1>18 DEF Shows
<1>20. Kont = v.k
  BY <1>2, <1>3, KontIs
<1>21. Kont' = Append(SubSeq(Kont, 1, at - 1), [t |-> "tail", inner |-> SubSeq(Kont, at, Len(Kont))])
  <2>1. Kont' = w.k
    BY <1>2, <1>15, <1>16, <1>19, KontNext
  <2> QED
    BY <2>1, <1>14, <1>20 DEF Hides
<1>22. ResAre' = ResAre
  BY <1>2, ResSame
<1>23. StIs = "eval" /\ StIs' = "eval"
  BY <1>2, StValues, StValuesNext
<1>24. op \in Ops
  BY <1>6, OpKnown
<1>25. Follows
  <2>1. Handlers[v.k[at].h][j].kind = "tail"
    BY <1>2, <1>7
  <2> HIDE DEF m
  <2> QED
    BY <1>6, <1>20, <1>21, <1>22, <1>23, <1>24, <2>1, PerformFollows
<1> QED
  BY <1>19, <1>25 DEF KontInv

\* Where a handle site shows.
LEMMA SiteShown ==
  ASSUME NEW S \in Seq(Context), NEW H, NEW V, Views(S, H, V), NEW s \in 1 .. Len(S), S[s].t = "handle",
         \A i \in s + 1 .. Len(S) : S[i].t # "perform"
  PROVE  /\ Len(V[s].k) \in 1 .. Len(V[Len(S)].k) /\ Len(V[Len(S)].k) \in Nat
         /\ V[Len(S)].k[Len(V[s].k)] = FrameOf(H[S[s].fr]) /\ V[Len(S)].id[Len(V[s].k)] = S[s].fr
         /\ H[S[s].fr].t = "handle" /\ H[S[s].fr].h \in DOMAIN Handlers /\ Len(V[s].k) = Len(V[s - 1].k) + 1
         /\ \A p \in 1 .. Len(V[s].k) - 1 : V[Len(S)].k[p] = V[s - 1].k[p]
<1>1. Len(S) \in Nat /\ s \in Nat /\ s - 1 \in 0 .. Len(S) /\ s \in 0 .. Len(S)
  BY LenProperties
<1>2. Reads(V[s - 1]) /\ Reads(V[s]) /\ ViewStep(S[s], H, V[s - 1], V[s]) /\ Described(S[s], H)
  BY <1>1 DEF Views
<1>3. Extends(S[s], H, V[s - 1], V[s])
  BY <1>2 DEF ViewStep, Hides
<1>4. V[s].k = Append(V[s - 1].k, FrameOf(H[S[s].fr])) /\ V[s].id = Append(V[s - 1].id, S[s].fr)
  BY <1>3 DEF Extends, Pushes, PushedId
<1>5. IsSequence(V[s - 1].k) /\ IsSequence(V[s - 1].id) /\ Len(V[s - 1].id) = Len(V[s - 1].k)
  BY <1>2 DEF Reads, IsSequence
<1>6. /\ Len(V[s - 1].k) \in Nat /\ Len(V[s].k) = Len(V[s - 1].k) + 1
      /\ \A p \in 1 .. Len(V[s - 1].k) : V[s].k[p] = V[s - 1].k[p]
      /\ V[s].k[Len(V[s].k)] = FrameOf(H[S[s].fr])
  BY <1>4, <1>5, AppendIs
<1>7. V[s].id[Len(V[s].k)] = S[s].fr
  BY <1>4, <1>5, <1>6, AppendIs, SMTT(30)
<1>8. /\ Len(V[s].k) \in Nat /\ Len(V[Len(S)].k) \in Nat /\ Len(V[s].k) <= Len(V[Len(S)].k)
      /\ \A p \in 1 .. Len(V[s].k) : V[Len(S)].k[p] = V[s].k[p] /\ V[Len(S)].id[p] = V[s].id[p]
  BY ViewsAbove
<1>9. Len(V[s].k) \in 1 .. Len(V[s].k) /\ Len(V[s].k) \in 1 .. Len(V[Len(S)].k)
  BY <1>6, <1>8
<1>10. \A p \in 1 .. Len(V[s].k) - 1 : p \in 1 .. Len(V[s - 1].k) /\ p \in 1 .. Len(V[s].k)
  BY <1>6
<1> QED
  BY <1>2, <1>6, <1>7, <1>8, <1>9, <1>10 DEF Described

\* PerformCapturing is APerform: the frames still to be unwound are those the interpreter captures at once.
LEMMA PerformCapturingShows ==
  ASSUME Separate, StacksInv, NEW CONSTANT V, Shows(V), NEW CONSTANT op, PerformCapturing(op), StacksInv'
  PROVE  KontInv' /\ Follows
<1> DEFINE n == Len(stk)
           m == Match(op)
<1>1. /\ stk \in Seq(Context) /\ n \in Nat /\ Views(stk, heap, V) /\ Saved(stk, heap) /\ ks \in Seq(Frames)
      /\ hs = V[n].x /\ FloorAt(V[n], floor) /\ FramesFollow(stk, ks, mode)
  BY DEF StacksInv, Typed, Shows
<1>2. /\ mode = "run" /\ Matching(op) # {} /\ hs[m].kind = "capturing" /\ hs' = hs
      /\ stk' = stk /\ heap' = heap /\ ks' = ks /\ res' = res /\ mode' = "susp" /\ floor' = floor
      /\ pending' = [mark |-> hs[m].hf, once |-> hs[m].once]
  BY DEF PerformCapturing, run
<1>3. PICK v : v = V[n]
  OBVIOUS
<1>4. Reads(v) /\ hs = v.x /\ FloorAt(v, floor)
  <2>1. n \in 0 .. n
    BY <1>1
  <2> QED
    BY <2>1, <1>1, <1>3 DEF Views
<1>5. PICK at, j : /\ Found(v, op, at, j) /\ m = v.b[at - 1] + j
                   /\ hs[m] = EntriesOf(v.k[at].h, v.id[at])[j]
  BY <1>2, <1>4, MatchFound
<1>6. /\ at \in 1 .. Len(v.k) /\ v.k[at].t = "handle" /\ v.k[at].h \in DOMAIN Handlers /\ v.id[at] \in Frames
      /\ \A q \in at .. Len(v.k) : v.k[q].t # "lw"
      /\ \A q \in A!Covering(v.k, op) : q <= at
      /\ j \in 1 .. Len(Handlers[v.k[at].h]) /\ Handlers[v.k[at].h][j].op = op
      /\ A!Clause(v.k[at].h, op) = Handlers[v.k[at].h][j]
  BY <1>5 DEF Found
<1>7. /\ hs[m].kind = Handlers[v.k[at].h][j].kind /\ hs[m].hf = v.id[at]
      /\ hs[m].once = Handlers[v.k[at].h][j].once
  BY <1>5, <1>6, EntryIs
<1>8. pending'.mark = v.id[at] /\ pending'.once = Handlers[v.k[at].h][j].once
  BY <1>2, <1>7
<1>9. PICK s \in 1 .. Len(stk) : /\ stk[s].t = "handle" /\ stk[s].fr = pending'.mark
                                 /\ \A i \in s .. Len(stk) : stk[i].t \notin {"perform", "lw"}
  BY <1>2 DEF StacksInv, Suspends
<1>10. \A i \in s + 1 .. Len(stk) : stk[i].t \notin {"perform", "lw"}
  <2>1. \A i \in s + 1 .. Len(stk) : i \in s .. Len(stk)
    BY <1>1
  <2> QED
    BY <2>1, <1>9
<1>11. /\ Len(V[s].k) \in 1 .. Len(v.k) /\ v.k[Len(V[s].k)] = FrameOf(heap[stk[s].fr]) /\ v.id[Len(V[s].k)] = stk[s].fr
       /\ heap[stk[s].fr].t = "handle" /\ Len(v.k) \in Nat
  <2>1. /\ stk \in Seq(Context) /\ Views(stk, heap, V) /\ s \in 1 .. Len(stk) /\ stk[s].t = "handle"
        /\ \A i \in s + 1 .. Len(stk) : stk[i].t # "perform"
    BY <1>1, <1>9, <1>10
  <2>2. /\ Len(V[s].k) \in 1 .. Len(V[Len(stk)].k) /\ Len(V[Len(stk)].k) \in Nat
        /\ V[Len(stk)].k[Len(V[s].k)] = FrameOf(heap[stk[s].fr]) /\ V[Len(stk)].id[Len(V[s].k)] = stk[s].fr
        /\ heap[stk[s].fr].t = "handle"
    BY ONLY <2>1, SiteShown
  <2> QED
    BY <2>2, <1>3
<1>12. at = Len(V[s].k)
  <2>1. v.id[at] # 0
    BY <1>6 DEF Frames
  <2>2. v.id[Len(V[s].k)] = v.id[at]
    BY <1>8, <1>9, <1>11
  <2>3. \A p, q \in 1 .. Len(v.k) : v.id[p] = v.id[q] /\ v.id[p] # 0 => p = q
    BY <1>4 DEF Reads
  <2>4. at \in 1 .. Len(v.k) /\ Len(V[s].k) \in 1 .. Len(v.k)
    BY <1>6, <1>11
  <2> QED
    BY ONLY <2>1, <2>2, <2>3, <2>4
<1>13. v.k[at].h = heap[pending'.mark].h
  BY <1>9, <1>11, <1>12 DEF FrameOf
<1>14. IsSequence(v.k)
  BY <1>4 DEF Reads
<1>15. Whole(V, stk, ks, heap) = v.k
  <2>1. FramesUpTo(stk, n) = Len(ks) /\ FramesUpTo(stk, n) \in Nat
    BY <1>1, <1>2, FramesStep DEF FramesFollow
  <2>2. LeftFrames(stk, ks, heap) = << >>
    BY <1>1, <2>1, LeftIs
  <2>3. v.k \o << >> = v.k
    BY <1>14, ConcatEmptySeq DEF IsSequence
  <2> QED
    BY <2>2, <2>3, <1>3 DEF Whole
<1>16. \A q \in Len(V[s].k) + 1 .. Len(v.k) : ~A!Covers(v.k[q], op) /\ v.k[q].t # "lw"
  <2> SUFFICES ASSUME NEW q \in at + 1 .. Len(v.k) PROVE ~A!Covers(v.k[q], op) /\ v.k[q].t # "lw"
    BY <1>12
  <2>1. q \in at .. Len(v.k) /\ q \in 1 .. Len(v.k) /\ ~(q <= at) /\ \A i \in q .. Len(v.k) : i \in at .. Len(v.k)
    BY <1>6, <1>11
  <2>2. DOMAIN v.k = 1 .. Len(v.k)
    BY <1>14 DEF IsSequence
  <2>3. A!Covers(v.k[q], op) => q \in A!Covering(v.k, op)
    BY <2>1, <2>2, <1>6 DEF A!Covering
  <2> QED
    BY <2>1, <2>3, <1>6
<1>17. Answers(V, stk, v.k, heap, pending', s, op, j)
  <2>1. Handlers[v.k[at].h][j].kind = "capturing"
    BY <1>2, <1>7
  <2> HIDE DEF m
  <2> QED
    BY <1>6, <1>8, <1>9, <1>10, <1>13, <1>16, <2>1 DEF Answers
<1>18. Answered(V, stk', Whole(V, stk', ks', heap'), heap', pending')
  <2>1. op \in Ops /\ j \in Nat
    BY <1>6, OpKnown
  <2> QED
    BY <2>1, <1>2, <1>15, <1>17 DEF Answered
<1>19. Shows(V)'
  BY <1>1, <1>2, <1>18 DEF Shows
<1>20. Kont' = Kont
  <2>1. Kont = v.k
    BY <1>2, <1>3, KontIs
  <2>2. Kont' = Whole(V, stk', ks', heap')
    BY <1>2, <1>19, KontNext
  <2> QED
    BY <2>1, <2>2, <1>2, <1>15
<1>21. ResAre' = ResAre
  BY <1>2, ResSame
<1>22. StIs = "eval" /\ StIs' = "eval"
  BY <1>2, StValues, StValuesNext
<1>23. Follows
  BY <1>20, <1>21, <1>22, StutterFollows
<1> QED
  BY <1>19, <1>23 DEF KontInv

\* PerformAtRoot is AYield where the root answers, AStop where nothing does.
LEMMA PerformAtRootShows ==
  ASSUME StacksInv, NEW CONSTANT V, Shows(V), NEW CONSTANT op, PerformAtRoot(op), StacksInv'
  PROVE  KontInv' /\ Follows
<1>1. mode = "run"
  BY DEF PerformAtRoot
<1>2. CASE mode' = "ret" /\ UNCHANGED <<stacks, run, stk>>
  BY <1>1, <1>2, ModeShows
<1>3. CASE \E how \in {"stale capability", "E0902", "unhandled"} : Exit(how)
  <2>1. PICK how \in {"stale capability", "E0902", "unhandled"} : Exit(how)
    BY <1>3
  <2>2. how \notin {"run", "ret", "susp"}
    BY <2>1
  <2> QED
    BY <1>1, <2>1, <2>2, ExitShows
<1>4. \/ mode' = "ret" /\ UNCHANGED <<stacks, run, stk>>
      \/ \E how \in {"stale capability", "E0902", "unhandled"} : Exit(how)
  BY DEF PerformAtRoot
<1> QED
  BY <1>2, <1>3, <1>4

----------------------------------------------------------------------------
(* A value returns.                                                        *)

\* What the views say of the activation on top.
LEMMA TopShown ==
  ASSUME StacksInv, NEW CONSTANT V, Shows(V), stk # << >>, NEW CONSTANT T, T = Pop(stk)
  PROVE  /\ Len(stk) - 1 \in Nat /\ Len(T) = Len(stk) - 1 /\ TopCtx \in Context
         /\ Views(T, heap, V) /\ Saved(T, heap) /\ hs = V[Len(stk)].x /\ FloorAt(V[Len(stk)], floor)
         /\ Reads(V[Len(stk) - 1]) /\ Reads(V[Len(stk)])
         /\ ViewStep(TopCtx, heap, V[Len(stk) - 1], V[Len(stk)]) /\ Described(TopCtx, heap)
         /\ TopCtx.t = "lw" => FloorAt(V[Len(stk) - 1], TopCtx.floor)
         /\ TopCtx.t = "act" =>
              /\ TopCtx.fr # 0 => heap[TopCtx.fr] = ActFrame(TopCtx.a)
              /\ TopCtx.fr = 0 => \A s \in 1 .. Len(T) : T[s].t = "handle" => NoCapturing(heap[T[s].fr].h)
<1> DEFINE n == Len(stk) - 1
<1>1. n \in Nat /\ Len(stk) = n + 1 /\ Grown(T, stk, n, TopCtx) /\ TopCtx \in Context
  BY TopIs
<1>2. Views(stk, heap, V) /\ Saved(stk, heap) /\ hs = V[Len(stk)].x /\ FloorAt(V[Len(stk)], floor)
  BY DEF Shows
<1>3. PICK c : c = TopCtx
  OBVIOUS
<1>4. Len(T) = n
  BY <1>1 DEF Grown
<1> HIDE DEF n
<1>5. /\ Views(T, heap, V) /\ Reads(V[n]) /\ Reads(V[n + 1]) /\ ViewStep(c, heap, V[n], V[n + 1])
      /\ Described(c, heap) /\ IdsOn(T, n, V[n])
      /\ (HasFrame(c) => \A p \in 1 .. Len(V[n].id) : V[n].id[p] # c.fr \/ \E s \in 1 .. n : HasFrame(T[s]) /\ T[s].fr = c.fr)
      /\ c.t = "lw" => FloorAt(V[n], c.floor)
  BY ONLY <1>1, <1>2, <1>3, ViewsPop
<1>6. /\ Saved(T, heap)
      /\ c.t = "act" => /\ c.fr # 0 => heap[c.fr] = ActFrame(c.a)
                        /\ c.fr = 0 => \A s \in 1 .. n : T[s].t = "handle" => NoCapturing(heap[T[s].fr].h)
  BY ONLY <1>1, <1>2, <1>3, SavedPop
<1> QED
  BY <1>1, <1>2, <1>3, <1>4, <1>5, <1>6 DEF n

\* When the activation on top is gone, the views below it show the state.
LEMMA BelowShown ==
  ASSUME StacksInv, NEW CONSTANT V, Shows(V), stk # << >>, stk' = Pop(stk), mode' \in {"run", "ret"},
         \A f \in Frames : heap'[f] # Free => heap'[f] = heap[f],
         hs' = V[Len(stk) - 1].x, FloorAt(V[Len(stk) - 1], floor'), StacksInv'
  PROVE  Shows(V)' /\ Kont' = V[Len(stk) - 1].k /\ (res' = res => ResAre' = ResAre)
<1>1. PICK T : T = Pop(stk)
  OBVIOUS
<1>2. /\ Len(stk) - 1 \in Nat /\ Len(T) = Len(stk) - 1
      /\ Views(T, heap, V) /\ Saved(T, heap)
  BY <1>1, TopShown
<1>3. stk' = T /\ mode' # "susp"
  BY <1>1
<1>4. /\ T \in Seq(Context) /\ ks' \in Seq(Frames) /\ FramesFollow(T, ks', mode')
      /\ Owned(ks', res', Entering(T), heap')
  BY <1>3 DEF StacksInv, Typed
<1>5. Entering(T) = {}
  BY <1>1, TopIs
<1>6. \A g \in Frames : OnStack(ks', g) \/ InResumption(res', g) => heap'[g] = heap[g]
  BY <1>4 DEF Owned
<1>7. Views(T, heap', V) /\ Saved(T, heap')
  BY <1>2, <1>4, <1>5, <1>6, ViewsUnmoved
<1>8. Shows(V)'
  BY <1>2, <1>3, <1>7 DEF Shows
<1>9. Kont' = V[Len(stk) - 1].k
  BY <1>2, <1>3, <1>8, KontNext
<1>10. ASSUME res' = res PROVE ResAre' = ResAre
  BY <1>6, <1>10, ResSame
<1> QED
  BY <1>8, <1>9, <1>10

\* Without the entries of the activation on top, hs is that of the view below.
LEMMA HsBelow ==
  ASSUME NEW CONSTANT c, c \in Context, NEW CONSTANT v, Reads(v), NEW CONSTANT w, Extends(c, heap, v, w), Described(c, heap),
         hs = w.x, c.t # "handle" => hs' = hs,
         c.t = "handle" => hs' = SubSeq(hs, 1, Len(hs) - EntryCount(c.fr))
  PROVE  hs' = v.x
<1>0. w.x = v.x \o Installed(c, heap) /\ v.x \in Seq(Entry)
  BY DEF Extends, Reads
<1>1. CASE c.t # "handle"
  <2>1. Installed(c, heap) = << >>
    BY <1>1 DEF Installed
  <2>2. v.x \o << >> = v.x
    BY <1>0, ConcatEmptySeq
  <2> QED
    BY <1>0, <1>1, <2>1, <2>2
<1>2. CASE c.t = "handle"
  <2>1. c.fr \in Frames /\ heap[c.fr].h \in DOMAIN Handlers /\ Installed(c, heap) = EntriesOf(heap[c.fr].h, c.fr)
    BY <1>2, ContextIs DEF Described, Installed
  <2>2. PICK e : e = EntriesOf(heap[c.fr].h, c.fr)
    OBVIOUS
  <2>3. e \in Seq(Entry) /\ Len(e) = EntryCount(c.fr)
    BY <2>1, <2>2, EntriesAre DEF EntryCount
  <2>4. hs = v.x \o e
    BY <2>1, <2>2, <1>0
  <2>5. SubSeq(hs, 1, Len(hs) - Len(e)) = v.x
    <3>1. /\ IsSequence(v.x) /\ IsSequence(e) /\ IsSequence(hs) /\ Len(v.x) \in Nat /\ Len(e) \in Nat
          /\ Len(hs) = Len(v.x) + Len(e) /\ \A p \in 1 .. Len(v.x) : hs[p] = v.x[p]
      <4>1. IsSequence(v.x) /\ IsSequence(e)
        BY <1>0, <2>3 DEF IsSequence
      <4> QED
        BY <4>1, <2>4, JoinIs
    <3>2. Len(v.x) + 1 \in 1 .. Len(hs) + 1 /\ (Len(v.x) + 1) - 1 = Len(hs) - Len(e) /\ Len(hs) - Len(e) = Len(v.x)
      BY <3>1
    <3>3. PICK k : k = Len(v.x) + 1
      OBVIOUS
    <3>4. /\ IsSequence(SubSeq(hs, 1, k - 1)) /\ Len(SubSeq(hs, 1, k - 1)) = k - 1
          /\ \A p \in 1 .. k - 1 : SubSeq(hs, 1, k - 1)[p] = hs[p]
      BY <3>1, <3>2, <3>3, CutIs
    <3>5. k - 1 = Len(v.x) /\ k - 1 = Len(hs) - Len(e)
      BY <3>2, <3>3
    <3>6. PICK z : z = SubSeq(hs, 1, k - 1)
      OBVIOUS
    <3>7. IsSequence(z) /\ Len(z) = Len(v.x) /\ \A p \in 1 .. Len(z) : z[p] = v.x[p]
      BY ONLY <3>1, <3>4, <3>5, <3>6
    <3>8. z = v.x
      BY ONLY <3>1, <3>7, SameSequence
    <3> QED
      BY <3>5, <3>6, <3>8
  <2> QED
    BY <1>2, <2>3, <2>5
<1> QED
  BY <1>1, <1>2

\* A value returned through a frame keeps the views and is AReturn.
LEMMA ReturnShows ==
  ASSUME StacksInv, NEW CONSTANT V, Shows(V), mode = "ret", stk # << >>, TopCtx.t # "perform",
         stk' = Pop(stk), mode' = "run",
         \A f \in Frames : heap'[f] # Free => heap'[f] = heap[f], res' = res,
         TopCtx.t # "handle" => hs' = hs,
         TopCtx.t = "handle" => hs' = SubSeq(hs, 1, Len(hs) - EntryCount(TopCtx.fr)),
         floor' = IF TopCtx.t = "lw" THEN TopCtx.floor ELSE floor, StacksInv'
  PROVE  KontInv' /\ Follows
<1>1. PICK T : T = Pop(stk)
  OBVIOUS
<1>2. PICK v, w, c : v = V[Len(stk) - 1] /\ w = V[Len(stk)] /\ c = TopCtx
  OBVIOUS
<1>3. /\ c \in Context /\ hs = w.x /\ FloorAt(w, floor) /\ Reads(v) /\ Reads(w)
      /\ ViewStep(c, heap, v, w) /\ Described(c, heap)
      /\ c.t = "lw" => FloorAt(v, c.floor)
  BY <1>1, <1>2, TopShown
<1>4. Extends(c, heap, v, w)
  BY <1>2, <1>3 DEF ViewStep, Hides
<1>5. w.k = Append(v.k, Pushes(c, heap)) /\ w.x = v.x \o Installed(c, heap)
  BY <1>4 DEF Extends
<1>6. v.x \in Seq(Entry) /\ IsSequence(v.k)
  BY <1>3 DEF Reads
<1>7. hs' = v.x
  BY <1>2, <1>3, <1>4, HsBelow
<1>8. FloorAt(v, floor')
  <2>1. CASE c.t = "lw"
    BY <2>1, <1>2, <1>3
  <2>2. CASE c.t # "lw"
    BY <2>2, <1>2, <1>3, <1>4, FloorExtend
  <2> QED
    BY <2>1, <2>2
<1>9. Shows(V)' /\ Kont' = v.k /\ ResAre' = ResAre
  BY <1>2, <1>7, <1>8, BelowShown
<1>10. Kont = w.k
  BY <1>2, KontIs
<1>11. Kont # << >> /\ Kont[Len(Kont)] = Pushes(c, heap) /\ SubSeq(Kont, 1, Len(Kont) - 1) = v.k
  <2>1. /\ IsSequence(w.k) /\ Len(v.k) \in Nat /\ Len(w.k) = Len(v.k) + 1 /\ w.k[Len(v.k) + 1] = Pushes(c, heap)
        /\ SubSeq(w.k, 1, Len(v.k)) = v.k
    BY <1>5, <1>6, AppendIs
  <2>2. Len(w.k) # 0 /\ Len(w.k) - 1 = Len(v.k)
    BY <2>1
  <2>3. w.k # << >>
    BY <2>2, EmptySeq
  <2> QED
    BY <2>1, <2>2, <2>3, <1>10
<1>12. Pushes(c, heap).t # "tail"
  BY <1>2, <1>3, PushedFrame
<1>13. StIs = "value" /\ StIs' = "eval"
  BY StValues, StValuesNext
<1>14. Follows
  BY <1>9, <1>11, <1>12, <1>13, ReturnFollows
<1> QED
  BY <1>9, <1>14 DEF KontInv

\* ReturnFromClause is AReturn of a tail frame: the hidden frames and entries are back.
LEMMA ReturnFromClauseShows ==
  ASSUME StacksInv, NEW CONSTANT V, Shows(V), ReturnFromClause, StacksInv'
  PROVE  KontInv' /\ Follows
<1>1. /\ mode = "ret" /\ stk # << >> /\ TopCtx.t = "perform" /\ stk' = Pop(stk) /\ hs' = hs \o TopCtx.saved
      /\ heap' = heap /\ res' = res /\ mode' = "ret" /\ floor' = floor
  BY DEF ReturnFromClause, Returning, run
<1>2. PICK T : T = Pop(stk)
  OBVIOUS
<1>3. PICK v, w, c : v = V[Len(stk) - 1] /\ w = V[Len(stk)] /\ c = TopCtx
  OBVIOUS
<1>4. hs = w.x /\ FloorAt(w, floor) /\ Reads(v) /\ ViewStep(c, heap, v, w)
  BY <1>1, <1>2, <1>3, TopShown
<1>5. PICK at : Hides(c, v, w, at)
  BY <1>1, <1>3, <1>4 DEF ViewStep, Extends
<1>6. /\ at \in 1 .. Len(v.k) /\ Len(v.k) \in Nat /\ v.x = w.x \o c.saved
  <2>1. /\ Reads(w) /\ Len(w.k) = at /\ at \in 1 .. Len(v.k) /\ Len(v.k) \in Nat
        /\ \A p \in 1 .. at - 1 : w.k[p] = v.k[p] /\ w.id[p] = v.id[p]
        /\ \A p \in 0 .. at - 1 : w.b[p] = v.b[p]
        /\ w.k[at].t = "tail" /\ w.id[at] = 0 /\ w.b[at] = v.b[at - 1]
        /\ v.x = w.x \o c.saved /\ w.x \in Seq(Entry)
    BY <1>4, <1>5, ReadsHide
  <2> QED
    BY <2>1
<1>7. w.k = Append(SubSeq(v.k, 1, at - 1), [t |-> "tail", inner |-> SubSeq(v.k, at, Len(v.k))])
  BY <1>5 DEF Hides
<1>8. FloorAt(v, floor')
  BY <1>1, <1>4, <1>5, FloorHide
<1>9. Shows(V)' /\ Kont' = v.k /\ ResAre' = ResAre
  BY <1>1, <1>3, <1>4, <1>6, <1>8, BelowShown
<1>10. Kont = w.k
  BY <1>1, <1>3, KontIs
<1>11. PICK o, i : o = SubSeq(v.k, 1, at - 1) /\ i = SubSeq(v.k, at, Len(v.k))
  OBVIOUS
<1>12. IsSequence(o) /\ o \o i = v.k
  <2>1. IsSequence(v.k) /\ at \in 1 .. Len(v.k) + 1
    BY <1>4, <1>6 DEF Reads
  <2> QED
    BY <2>1, <1>11, CutIs
<1>16. PICK g : g = [t |-> "tail", inner |-> i]
  OBVIOUS
<1>13. Kont # << >> /\ Kont[Len(Kont)] = g /\ SubSeq(Kont, 1, Len(Kont) - 1) = o
  <2>1. /\ IsSequence(w.k) /\ Len(o) \in Nat /\ Len(w.k) = Len(o) + 1 /\ w.k[Len(o) + 1] = g
        /\ SubSeq(w.k, 1, Len(o)) = o
    <3>1. w.k = Append(o, g) /\ IsSequence(o)
      BY <1>7, <1>11, <1>12, <1>16
    <3> QED
      BY ONLY <3>1, AppendIs
  <2>2. Len(w.k) # 0 /\ Len(w.k) - 1 = Len(o)
    BY <2>1
  <2>3. w.k # << >>
    BY <2>2, EmptySeq
  <2> QED
    BY <2>1, <2>2, <2>3, <1>10
<1>14. StIs = "value" /\ StIs' = "value"
  BY <1>1, StValues, StValuesNext
<1>15. Follows
  <2>1. g.t = "tail" /\ Kont' = o \o g.inner
    BY <1>9, <1>12, <1>16
  <2> QED
    BY ONLY <2>1, <1>9, <1>13, <1>14, ReturnFollows
<1> QED
  BY <1>9, <1>15 DEF KontInv

\* ReturnToActivation is AReturn.
LEMMA ReturnToActivationShows ==
  ASSUME StacksInv, NEW CONSTANT V, Shows(V), ReturnToActivation, StacksInv'
  PROVE  KontInv' /\ Follows
<1>1. /\ mode = "ret" /\ stk # << >> /\ TopCtx.t = "act" /\ stk' = Pop(stk) /\ mode' = "run" /\ hs' = hs
      /\ res' = res /\ floor' = floor /\ (heap' = heap \/ Release(TopCtx.fr))
  BY DEF ReturnToActivation, Returning, run
<1>2. \A f \in Frames : heap'[f] # Free => heap'[f] = heap[f]
  BY <1>1 DEF Release, StacksInv, Typed
<1> QED
  BY ONLY StacksInv, StacksInv', Shows(V), <1>1, <1>2, ReturnShows

\* EnterFrame is AReturn, to the innermost frame of a resumption.
LEMMA EnterFrameShows ==
  ASSUME StacksInv, NEW CONSTANT V, Shows(V), EnterFrame, StacksInv'
  PROVE  KontInv' /\ Follows
<1>1. /\ mode = "ret" /\ stk # << >> /\ TopCtx.t = "enter" /\ stk' = Pop(stk) /\ mode' = "run" /\ hs' = hs
      /\ res' = res /\ floor' = floor /\ Release(TopCtx.fr)
  BY DEF EnterFrame, Returning, run
<1>2. \A f \in Frames : heap'[f] # Free => heap'[f] = heap[f]
  BY <1>1 DEF Release, StacksInv, Typed
<1> QED
  BY ONLY StacksInv, StacksInv', Shows(V), <1>1, <1>2, ReturnShows

\* ReenterFrame is AReturn, to an outer frame of a resumption.
LEMMA ReenterFrameShows ==
  ASSUME StacksInv, NEW CONSTANT V, Shows(V), ReenterFrame, StacksInv'
  PROVE  KontInv' /\ Follows
<1>1. /\ mode = "ret" /\ stk # << >> /\ TopCtx.t = "rerun" /\ stk' = Pop(stk) /\ hs' = hs
      /\ res' = res /\ floor' = floor
  BY DEF ReenterFrame, Returning, run
<1>2. KsTopIs(TopCtx.fr)
  BY <1>1, TopOnKs DEF OnKs
<1>3. mode' = "run" /\ Release(TopCtx.fr)
  BY <1>2 DEF ReenterFrame
<1>4. \A f \in Frames : heap'[f] # Free => heap'[f] = heap[f]
  BY <1>3 DEF Release, StacksInv, Typed
<1> QED
  BY ONLY StacksInv, StacksInv', Shows(V), <1>1, <1>3, <1>4, ReturnShows

\* DispatchValue is AReturn: the handler is gone, and so are its entries.
LEMMA DispatchValueShows ==
  ASSUME StacksInv, NEW CONSTANT V, Shows(V), DispatchValue, StacksInv'
  PROVE  KontInv' /\ Follows
<1>1. /\ mode = "ret" /\ stk # << >> /\ TopCtx.t = "handle" /\ stk' = Pop(stk)
      /\ hs' = SubSeq(hs, 1, Len(hs) - EntryCount(TopCtx.fr)) /\ res' = res /\ floor' = floor
  BY DEF DispatchValue, Returning, run, HandlePop
<1>2. KsTopIs(TopCtx.fr)
  BY <1>1, TopOnKs DEF OnKs
<1>3. mode' = "run" /\ Release(TopCtx.fr)
  BY <1>2 DEF DispatchValue
<1>4. \A f \in Frames : heap'[f] # Free => heap'[f] = heap[f]
  BY <1>3 DEF Release, StacksInv, Typed
<1> QED
  BY ONLY StacksInv, StacksInv', Shows(V), <1>1, <1>3, <1>4, ReturnShows

\* EndRun is AReturn: the floor is that of the run outside.
LEMMA EndRunShows ==
  ASSUME StacksInv, NEW CONSTANT V, Shows(V), EndRun, StacksInv'
  PROVE  KontInv' /\ Follows
<1>1. /\ mode = "ret" /\ stk # << >> /\ TopCtx.t = "lw" /\ stk' = Pop(stk) /\ mode' = "run" /\ hs' = hs
      /\ res' = res /\ floor' = TopCtx.floor /\ heap' = heap
  BY DEF EndRun, Returning, stacks
<1> QED
  BY ONLY StacksInv, StacksInv', Shows(V), <1>1, ReturnShows

\* Finish is AFinish.
LEMMA FinishShows ==
  ASSUME StacksInv, NEW CONSTANT V, Shows(V), Finish, StacksInv'
  PROVE  KontInv' /\ Follows
<1>1. mode = "ret" /\ stk = << >> /\ Exit("finished")
  BY DEF Finish
<1> QED
  BY <1>1, ExitShows

----------------------------------------------------------------------------
(* A suspension unwinds.                                                   *)

\* The frame left behind is the one the continuation shows.
LEMMA WholeBelow ==
  ASSUME NEW S, NEW T, NEW n, NEW c, Grown(T, S, n, c), NEW K \in Seq(Frames), NEW m, FramesFollow(S, K, m),
         OnKs(c), NEW H, NEW V, Extends(c, H, V[n], V[n + 1]), IsSequence(V[n].k), Pushes(c, H) = FrameOf(H[c.fr])
  PROVE  Whole(V, T, K, H) = Whole(V, S, K, H) /\ IsSequence(Whole(V, T, K, H))
<1> DEFINE a == FramesUpTo(T, n)
           v == V[n].k
           g == FrameOf(H[c.fr])
           L == LeftFrames(T, K, H)
           M == LeftFrames(S, K, H)
<1>1. n \in Nat /\ Len(T) = n /\ Len(S) = n + 1
  BY DEF Grown
<1>2. a \in Nat /\ FramesUpTo(S, n + 1) = a + 1
  <2>1. n \in 0 .. n
    BY <1>1
  <2> QED
    BY <2>1, GrownFrames
<1>3. a + 1 \in 1 .. Len(K) /\ K[a + 1] = c.fr /\ Len(K) \in Nat
  BY <1>2, FollowPop
<1>4. /\ IsSequence(L) /\ Len(L) = Len(K) - a /\ \A i \in 1 .. Len(K) - a : L[i] = FrameOf(H[K[a + i]])
  <2>1. a <= Len(K) /\ a \in Nat /\ a = FramesUpTo(T, Len(T))
    BY <1>1, <1>2, <1>3
  <2>2. PICK b : b = a
    OBVIOUS
  <2>3. b \in Nat /\ b <= Len(K) /\ b = FramesUpTo(T, Len(T))
    BY <2>1, <2>2
  <2>4. /\ IsSequence(L) /\ Len(L) = Len(K) - b /\ \A i \in 1 .. Len(K) - b : L[i] = FrameOf(H[K[b + i]])
    BY <2>3, LeftIs, SMTT(30)
  <2> QED
    BY <2>2, <2>4
<1>5. /\ IsSequence(M) /\ Len(M) = Len(K) - (a + 1) /\ \A i \in 1 .. Len(K) - (a + 1) : M[i] = FrameOf(H[K[(a + 1) + i]])
  <2>1. PICK b : b = a + 1
    OBVIOUS
  <2>2. b \in Nat /\ b <= Len(K) /\ b = FramesUpTo(S, Len(S))
    BY <1>1, <1>2, <1>3, <2>1
  <2>3. /\ IsSequence(M) /\ Len(M) = Len(K) - b /\ \A i \in 1 .. Len(K) - b : M[i] = FrameOf(H[K[b + i]])
    BY <2>2, LeftIs
  <2> QED
    BY <2>1, <2>3
<1>6. V[n + 1].k = Append(v, g)
  BY DEF Extends
<1>7. /\ IsSequence(Append(v, g)) /\ Len(v) \in Nat /\ Len(Append(v, g)) = Len(v) + 1
      /\ (\A p \in 1 .. Len(v) : Append(v, g)[p] = v[p]) /\ Append(v, g)[Len(v) + 1] = g
  BY AppendIs
<1>8. PICK x, y, u : x = v \o L /\ u = Append(v, g) /\ y = u \o M
  OBVIOUS
<1> HIDE DEF a, v, g, L, M
<1>9. IsSequence(v)
  BY DEF v
<1>10. /\ IsSequence(x) /\ Len(L) \in Nat /\ Len(x) = Len(v) + Len(L)
       /\ (\A p \in 1 .. Len(v) : x[p] = v[p]) /\ \A p \in 1 .. Len(L) : x[Len(v) + p] = L[p]
  <2>1. IsSequence(v) /\ IsSequence(L)
    BY <1>4, <1>9
  <2>2. /\ IsSequence(v \o L) /\ Len(L) \in Nat /\ Len(v \o L) = Len(v) + Len(L)
        /\ (\A p \in 1 .. Len(v) : (v \o L)[p] = v[p]) /\ \A p \in 1 .. Len(L) : (v \o L)[Len(v) + p] = L[p]
    BY <2>1, JoinIs
  <2> QED
    BY ONLY <2>2, <1>8
<1>11. /\ IsSequence(y) /\ Len(M) \in Nat /\ Len(y) = Len(u) + Len(M)
       /\ (\A p \in 1 .. Len(u) : y[p] = u[p]) /\ \A p \in 1 .. Len(M) : y[Len(u) + p] = M[p]
  <2>1. IsSequence(u) /\ IsSequence(M)
    BY <1>5, <1>7, <1>8
  <2>2. /\ IsSequence(u \o M) /\ Len(M) \in Nat /\ Len(u \o M) = Len(u) + Len(M)
        /\ (\A p \in 1 .. Len(u) : (u \o M)[p] = u[p]) /\ \A p \in 1 .. Len(M) : (u \o M)[Len(u) + p] = M[p]
    BY <2>1, JoinIs
  <2> QED
    BY ONLY <2>2, <1>8
<1>12. Len(x) = Len(y)
  <2>1. PICK i, k, l, o : i = Len(v) /\ k = Len(K) /\ l = Len(L) /\ o = Len(M)
    OBVIOUS
  <2>2. i \in Nat /\ k \in Nat /\ l = k - a /\ o = k - (a + 1) /\ a \in Nat
    BY ONLY <1>2, <1>3, <1>4, <1>5, <1>7, <2>1, Zenon
  <2>3. Len(x) = i + l
    BY ONLY <1>10, <2>1, Zenon
  <2>4. Len(u) = i + 1
    BY ONLY <1>7, <1>8, <2>1, Zenon
  <2>5. Len(y) = Len(u) + o
    BY ONLY <1>11, <2>1, Zenon
  <2>6. i + l = (i + 1) + o
    BY ONLY <2>2
  <2> QED
    BY ONLY <2>3, <2>4, <2>5, <2>6
<1>13. ASSUME NEW p \in 1 .. Len(x) PROVE x[p] = y[p]
  <2>1. CASE p \in 1 .. Len(v)
    <3>1. p \in 1 .. Len(u)
      BY ONLY <2>1, <1>7, <1>8
    <3> QED
      BY ONLY <2>1, <3>1, <1>7, <1>8, <1>10, <1>11
  <2>2. CASE p = Len(v) + 1
    <3>1. p \in 1 .. Len(u) /\ 1 \in 1 .. Len(L) /\ 1 \in 1 .. Len(K) - a
      BY ONLY <2>2, <1>2, <1>3, <1>4, <1>7, <1>8
    <3>2. y[p] = g
      BY ONLY <2>2, <3>1, <1>7, <1>8, <1>11
    <3>3. x[p] = L[1] /\ L[1] = FrameOf(H[K[a + 1]])
      BY ONLY <2>2, <3>1, <1>4, <1>10
    <3> QED
      BY <3>2, <3>3, <1>3 DEF g
  <2>3. CASE p \in Len(v) + 2 .. Len(x)
    <3>1. PICK q : q = p - Len(v) - 1
      OBVIOUS
    <3>2. q \in 1 .. Len(M) /\ q + 1 \in 1 .. Len(L) /\ p = Len(v) + (q + 1) /\ p = Len(u) + q
          /\ q \in 1 .. Len(K) - (a + 1) /\ q + 1 \in 1 .. Len(K) - a /\ a + (q + 1) = (a + 1) + q
      BY ONLY <2>3, <3>1, <1>2, <1>3, <1>4, <1>5, <1>7, <1>8, <1>10
    <3>3. x[p] = L[q + 1] /\ y[p] = M[q]
      BY ONLY <3>2, <1>10, <1>11
    <3>4. L[q + 1] = FrameOf(H[K[(a + 1) + q]]) /\ M[q] = FrameOf(H[K[(a + 1) + q]])
      BY ONLY <3>2, <1>4, <1>5
    <3> QED
      BY ONLY <3>3, <3>4
  <2> QED
    BY ONLY <2>1, <2>2, <2>3, <1>7, <1>10, p \in 1 .. Len(x)
<1>14. x = y
  BY ONLY <1>10, <1>11, <1>12, <1>13, SameSequence
<1>15. Whole(V, T, K, H) = x /\ Whole(V, S, K, H) = y
  BY <1>1, <1>6, <1>8 DEF Whole, v, L, M
<1> QED
  BY <1>10, <1>14, <1>15

\* The frame an unwinding activation leaves behind is shown as it was.
LEMMA TopLeftBehind ==
  ASSUME StacksInv, NEW CONSTANT V, Shows(V), stk # << >>, mode = "susp", NEW CONSTANT T, T = Pop(stk),
         TopCtx.t \in {"act", "rerun", "handle"}
  PROVE  /\ OnKs(TopCtx) /\ Extends(TopCtx, heap, V[Len(stk) - 1], V[Len(stk)])
         /\ Pushes(TopCtx, heap) = FrameOf(heap[TopCtx.fr])
         /\ Whole(V, T, ks, heap) = Whole(V, stk, ks, heap)
<1>1. PICK n, c : n = Len(stk) - 1 /\ c = TopCtx
  OBVIOUS
<1>2. n \in Nat /\ Len(stk) = n + 1 /\ Len(T) = n /\ Grown(T, stk, n, c) /\ c \in Context /\ stk[n + 1] = c
  <2>1. n \in Nat /\ Len(stk) = n + 1 /\ Grown(T, stk, n, c) /\ c \in Context
    BY <1>1, TopIs
  <2> QED
    BY <2>1 DEF Grown
<1>3. /\ Reads(V[n]) /\ ViewStep(c, heap, V[n], V[n + 1])
      /\ c.t = "act" => /\ c.fr # 0 => heap[c.fr] = ActFrame(c.a)
                        /\ c.fr = 0 => \A s \in 1 .. n : T[s].t = "handle" => NoCapturing(heap[T[s].fr].h)
  BY <1>1, <1>2, TopShown
<1>4. Extends(c, heap, V[n], V[n + 1])
  BY <1>1, <1>3 DEF ViewStep, Hides
<1>5. OnKs(c)
  <2> SUFFICES ASSUME c.t = "act", c.fr = 0 PROVE FALSE
    BY <1>1 DEF OnKs
  <2>1. PICK s \in 1 .. Len(stk), op \in Ops, j \in Nat :
             Answers(V, stk, Whole(V, stk, ks, heap), heap, pending, s, op, j)
    BY DEF Shows, Answered
  <2>2. /\ stk[s].t = "handle" /\ stk[s].fr = pending.mark /\ j \in 1 .. Len(Handlers[heap[pending.mark].h])
        /\ Handlers[heap[pending.mark].h][j].kind = "capturing"
    BY <2>1 DEF Answers
  <2>3. s \in 1 .. n
    BY <1>2, <2>2
  <2>4. T[s] = stk[s]
    BY <1>2, <2>3 DEF Grown
  <2> QED
    BY <1>3, <2>2, <2>3, <2>4 DEF NoCapturing
<1>6. Pushes(c, heap) = FrameOf(heap[c.fr])
  <2>1. CASE c.t = "act"
    <3>1. heap[c.fr] = ActFrame(c.a)
      BY <1>3, <1>5, <2>1 DEF OnKs
    <3> QED
      BY <2>1, <3>1 DEF Pushes, FrameOf, ActFrame
  <2>2. CASE c.t # "act"
    BY <1>1, <2>2 DEF Pushes
  <2> QED
    BY <2>1, <2>2
<1>7. ks \in Seq(Frames) /\ FramesFollow(stk, ks, mode) /\ IsSequence(V[n].k)
  BY <1>3 DEF StacksInv, Typed, Reads
<1>8. Whole(V, T, ks, heap) = Whole(V, stk, ks, heap)
  BY ONLY <1>2, <1>4, <1>5, <1>6, <1>7, WholeBelow
<1> QED
  BY <1>1, <1>2, <1>4, <1>5, <1>6, <1>8

\* A suspension passed on leaves its frame to the capture: nothing is shown to change.
LEMMA UnwindShows ==
  ASSUME StacksInv, NEW CONSTANT V, Shows(V), mode = "susp", stk # << >>, stk' = Pop(stk), mode' = "susp",
         ks' = ks, heap' = heap, pending' = pending, res' = res, floor' = floor,
         TopCtx.t \in {"act", "rerun", "handle"}, TopCtx.t = "handle" => TopCtx.fr # pending.mark,
         TopCtx.t # "handle" => hs' = hs,
         TopCtx.t = "handle" => hs' = SubSeq(hs, 1, Len(hs) - EntryCount(TopCtx.fr)), StacksInv'
  PROVE  KontInv' /\ Follows
<1>1. PICK n, c, T : n = Len(stk) - 1 /\ c = TopCtx /\ T = Pop(stk)
  OBVIOUS
<1>2. n \in Nat /\ Len(stk) = n + 1 /\ Len(T) = n /\ c \in Context /\ stk[n + 1] = c /\ stk' = T
      /\ \A i \in 1 .. n : T[i] = stk[i]
  <2>1. n \in Nat /\ Len(stk) = n + 1 /\ Grown(T, stk, n, c) /\ c \in Context
    BY <1>1, TopIs
  <2> QED
    BY <2>1, <1>1 DEF Grown
<1>3. /\ Views(T, heap, V) /\ Saved(T, heap) /\ hs = V[n + 1].x /\ FloorAt(V[n + 1], floor)
      /\ Reads(V[n]) /\ Reads(V[n + 1]) /\ Described(c, heap)
  BY <1>1, <1>2, TopShown
<1>4. Extends(c, heap, V[n], V[n + 1]) /\ Whole(V, T, ks, heap) = Whole(V, stk, ks, heap)
  BY <1>1, <1>2, TopLeftBehind
<1>5. hs' = V[n].x
  <2>1. PICK v, w : v = V[n] /\ w = V[n + 1]
    OBVIOUS
  <2>2. hs' = v.x
    BY <1>1, <1>2, <1>3, <1>4, <2>1, HsBelow
  <2> QED
    BY <2>1, <2>2
<1>6. FloorAt(V[n], floor)
  BY <1>1, <1>2, <1>3, <1>4, FloorExtend
<1>7. Answered(V, stk', Whole(V, stk', ks', heap'), heap', pending')
  <2>1. PICK s \in 1 .. Len(stk), op \in Ops, j \in Nat :
             Answers(V, stk, Whole(V, stk, ks, heap), heap, pending, s, op, j)
    BY DEF Shows, Answered
  <2>2. stk[s].t = "handle" /\ stk[s].fr = pending.mark
    BY <2>1 DEF Answers
  <2>3. s \in 1 .. n
    BY <1>1, <1>2, <2>2
  <2>4. \A i \in s + 1 .. n : i \in 1 .. n /\ i \in s + 1 .. n + 1
    BY <1>2, <2>3
  <2>5. Answers(V, T, Whole(V, stk, ks, heap), heap, pending, s, op, j)
    BY <2>1, <2>3, <2>4, <1>2 DEF Answers
  <2> QED
    BY <2>3, <2>5, <1>2, <1>4 DEF Answered
<1>8. Shows(V)'
  BY <1>2, <1>3, <1>5, <1>6, <1>7 DEF Shows
<1>9. Kont' = Kont
  <2>1. Kont = Whole(V, stk, ks, heap)
    BY KontIs
  <2>2. Kont' = Whole(V, T, ks, heap)
    BY <1>2, <1>8, KontNext
  <2> QED
    BY <2>1, <2>2, <1>4
<1>10. ResAre' = ResAre
  BY ResSame
<1>11. StIs = "eval" /\ StIs' = "eval"
  BY StValues, StValuesNext
<1>12. Follows
  BY <1>9, <1>10, <1>11, StutterFollows
<1> QED
  BY <1>8, <1>12 DEF KontInv

\* UnwindActivation shows nothing new.
LEMMA UnwindActivationShows ==
  ASSUME StacksInv, NEW CONSTANT V, Shows(V), UnwindActivation, StacksInv'
  PROVE  KontInv' /\ Follows
<1>1. /\ mode = "susp" /\ stk # << >> /\ TopCtx.t \in {"act", "rerun"} /\ stk' = Pop(stk) /\ mode' = "susp"
      /\ ks' = ks /\ heap' = heap /\ pending' = pending /\ res' = res /\ floor' = floor /\ hs' = hs
  BY DEF UnwindActivation, Unwinding, stacks, run
<1> QED
  BY ONLY StacksInv, StacksInv', Shows(V), <1>1, UnwindShows

\* PassHandle shows nothing new: the handler is uninstalled here and left on ks to be captured.
LEMMA PassHandleShows ==
  ASSUME StacksInv, NEW CONSTANT V, Shows(V), PassHandle, StacksInv'
  PROVE  KontInv' /\ Follows
<1>1. /\ mode = "susp" /\ stk # << >> /\ TopCtx.t = "handle" /\ stk' = Pop(stk) /\ mode' = "susp"
      /\ TopCtx.fr # pending.mark /\ hs' = SubSeq(hs, 1, Len(hs) - EntryCount(TopCtx.fr))
      /\ ks' = ks /\ heap' = heap /\ pending' = pending /\ res' = res /\ floor' = floor
  BY DEF PassHandle, Unwinding, HandlePop, run
<1> QED
  BY ONLY StacksInv, StacksInv', Shows(V), <1>1, UnwindShows

\* The two halves of a join.
LEMMA Halves ==
  ASSUME NEW s, IsSequence(s), NEW t, IsSequence(t), NEW x, x = s \o t
  PROVE  SubSeq(x, 1, Len(s)) = s /\ SubSeq(x, Len(s) + 1, Len(x)) = t
<1>1. /\ IsSequence(s \o t) /\ Len(s) \in Nat /\ Len(t) \in Nat /\ Len(s \o t) = Len(s) + Len(t)
      /\ (\A p \in 1 .. Len(s) : (s \o t)[p] = s[p])
      /\ \A p \in 1 .. Len(t) : (s \o t)[Len(s) + p] = t[p]
  BY JoinIs
<1>2. PICK k : k = Len(s) + 1
  OBVIOUS
<1>3. k \in 1 .. Len(x) + 1 /\ IsSequence(x) /\ k - 1 = Len(s) /\ Len(x) = Len(s) + Len(t)
  BY <1>1, <1>2
<1>4. /\ IsSequence(SubSeq(x, 1, k - 1)) /\ IsSequence(SubSeq(x, k, Len(x)))
      /\ Len(SubSeq(x, 1, k - 1)) = k - 1 /\ Len(SubSeq(x, k, Len(x))) = Len(x) - (k - 1)
      /\ \A p \in 1 .. k - 1 : SubSeq(x, 1, k - 1)[p] = x[p] /\ p \in 1 .. Len(x)
      /\ \A p \in 1 .. Len(x) - (k - 1) : SubSeq(x, k, Len(x))[p] = x[k - 1 + p]
  BY <1>3, CutIs
<1>5. PICK a, b : a = SubSeq(x, 1, k - 1) /\ b = SubSeq(x, k, Len(x))
  OBVIOUS
<1>6. Len(a) = Len(s) /\ (\A p \in 1 .. Len(a) : a[p] = s[p]) /\ IsSequence(a)
  BY <1>1, <1>3, <1>4, <1>5
<1>7. Len(b) = Len(t) /\ (\A p \in 1 .. Len(b) : b[p] = t[p]) /\ IsSequence(b)
  BY <1>1, <1>3, <1>4, <1>5
<1>8. a = s
  BY ONLY <1>6, IsSequence(s), SameSequence
<1>9. b = t
  BY ONLY <1>7, IsSequence(t), SameSequence
<1> QED
  BY <1>2, <1>3, <1>5, <1>8, <1>9

\* DispatchCapture shows nothing new: the frames left behind become the resumption.
LEMMA DispatchCaptureShows ==
  ASSUME StacksInv, NEW CONSTANT V, Shows(V), DispatchCapture, StacksInv'
  PROVE  KontInv' /\ Follows
<1>1. PICK n, c, T : n = Len(stk) - 1 /\ c = TopCtx /\ T = Pop(stk)
  OBVIOUS
<1>2. /\ mode = "susp" /\ stk # << >> /\ c.t = "handle" /\ stk' = T /\ c.fr = pending.mark
      /\ hs' = SubSeq(hs, 1, Len(hs) - EntryCount(c.fr)) /\ heap' = heap /\ floor' = floor
  BY <1>1 DEF DispatchCapture, Unwinding, HandlePop, run
<1>3. /\ n \in Nat /\ Len(stk) = n + 1 /\ Len(T) = n /\ c \in Context /\ stk[n + 1] = c /\ Grown(T, stk, n, c)
      /\ \A i \in 1 .. n : T[i] = stk[i]
  <2>1. n \in Nat /\ Len(stk) = n + 1 /\ Grown(T, stk, n, c) /\ c \in Context
    BY <1>1, <1>2, TopIs
  <2> QED
    BY <2>1, <1>1 DEF Grown
<1>4. /\ hs = V[n + 1].x /\ FloorAt(V[n + 1], floor) /\ Reads(V[n]) /\ Reads(V[n + 1]) /\ Described(c, heap)
  BY <1>1, <1>2, <1>3, TopShown
<1>5. /\ Extends(c, heap, V[n], V[n + 1]) /\ Whole(V, T, ks, heap) = Whole(V, stk, ks, heap)
      /\ Pushes(c, heap) = FrameOf(heap[c.fr])
  BY <1>1, <1>2, <1>3, TopLeftBehind
<1>6. PICK P : P = PositionOf(c.fr)
  OBVIOUS
<1>7. /\ \E i \in DOMAIN ks : ks[i] = c.fr
      /\ P = FramesUpTo(stk, Len(stk)) /\ P \in 1 .. Len(ks)
  BY <1>1, <1>2, <1>6, CapturedAt
<1>8. PICK r \in ResIds :
             /\ res[r] = NoRes
             /\ res' = [res EXCEPT ![r] = [frames |-> SubSeq(ks, P, Len(ks)), once |-> pending.once, used |-> FALSE]]
             /\ mode' = "run"
  BY <1>1, <1>6, <1>7 DEF DispatchCapture
<1>9. hs' = V[n].x
  <2>1. PICK v, w : v = V[n] /\ w = V[n + 1]
    OBVIOUS
  <2>2. hs' = v.x
    BY <1>2, <1>3, <1>4, <1>5, <2>1, HsBelow
  <2> QED
    BY <2>1, <2>2
<1>10. FloorAt(V[n], floor')
  BY <1>2, <1>3, <1>4, <1>5, FloorExtend
<1>11. Shows(V)' /\ Kont' = V[n].k
  BY <1>1, <1>2, <1>8, <1>9, <1>10, BelowShown
\* What is taken away.
<1>12. PICK L, K : L = LeftFrames(T, ks, heap) /\ K = Whole(V, stk, ks, heap)
  OBVIOUS
<1>13. K = V[n].k \o L /\ Kont = K /\ IsSequence(V[n].k) /\ ks \in Seq(Frames)
  <2>1. Kont = K
    BY <1>2, <1>12, KontIs
  <2>2. K = V[n].k \o L
    BY <1>3, <1>5, <1>12 DEF Whole
  <2> QED
    BY <2>1, <2>2, <1>4 DEF StacksInv, Typed, Reads
<1>14. PICK a : a = FramesUpTo(T, n)
  OBVIOUS
<1>15. a \in Nat /\ P = a + 1 /\ Len(ks) \in Nat
  <2>1. n \in 0 .. n
    BY <1>3
  <2>2. OnKs(c)
    BY <1>2 DEF OnKs
  <2> QED
    BY <1>3, <1>7, <1>13, <1>14, <2>1, <2>2, GrownFrames
<1>16. L = [i \in 1 .. Len(ks) - a |-> FrameOf(heap[ks[a + i]])]
  BY <1>3, <1>12, <1>14 DEF LeftFrames
<1>17. IsSequence(L) /\ Len(L) = Len(ks) - a
  <2>1. a \in Nat /\ a = FramesUpTo(T, Len(T)) /\ a <= Len(ks)
    BY <1>3, <1>7, <1>14, <1>15
  <2>2. IsSequence(LeftFrames(T, ks, heap)) /\ Len(LeftFrames(T, ks, heap)) = Len(ks) - a
    BY <1>13, <2>1, LeftIs
  <2> QED
    BY <1>12, <2>2
<1>18. SubSeq(K, 1, Len(V[n].k)) = V[n].k /\ SubSeq(K, Len(V[n].k) + 1, Len(K)) = L
  <2>1. PICK v : v = V[n].k
    OBVIOUS
  <2>2. IsSequence(v) /\ IsSequence(L)
    BY <2>1, <1>13, <1>17
  <2>3. K = v \o L
    BY <2>1, <1>13
  <2>4. SubSeq(K, 1, Len(v)) = v /\ SubSeq(K, Len(v) + 1, Len(K)) = L
    BY ONLY <2>2, <2>3, Halves, SMTT(30)
  <2> QED
    BY ONLY <2>1, <2>4, Zenon
<1>19. PICK at : at = Len(V[n].k) + 1
  OBVIOUS
<1>20. at - 1 = Len(V[n].k) /\ at \in Nat /\ at \in 1 .. Len(K) /\ Len(K) \in Nat /\ IsSequence(K)
       /\ K[at] = FrameOf(heap[c.fr])
  <2>1. /\ IsSequence(V[n].k \o L) /\ Len(V[n].k) \in Nat /\ Len(L) \in Nat /\ Len(V[n].k \o L) = Len(V[n].k) + Len(L)
        /\ \A p \in 1 .. Len(L) : (V[n].k \o L)[Len(V[n].k) + p] = L[p]
    <3>1. PICK v : v = V[n].k
      OBVIOUS
    <3>2. IsSequence(v) /\ IsSequence(L)
      BY <3>1, <1>13, <1>17
    <3>3. IsSequence(v \o L) /\ Len(v) \in Nat /\ Len(L) \in Nat /\ Len(v \o L) = Len(v) + Len(L)
      BY ONLY <3>2, JoinIs
    <3>4. \A p \in 1 .. Len(L) : (v \o L)[Len(v) + p] = L[p]
      BY ONLY <3>2, JoinIs
    <3> QED
      BY ONLY <3>1, <3>3, <3>4, Zenon
  <2>2. 1 \in 1 .. Len(L) /\ 1 \in 1 .. Len(ks) - a
    BY <1>7, <1>15, <1>17
  <2>3. K[at] = L[1]
    BY <1>13, <1>19, <2>1, <2>2
  <2>4. L[1] = FrameOf(heap[ks[a + 1]])
    BY <2>2, <1>16
  <2>5. ks[a + 1] = c.fr
    <3>1. FramesFollow(stk, ks, mode) /\ OnKs(stk[n + 1]) /\ n + 1 \in 1 .. Len(stk)
      BY <1>2, <1>3 DEF StacksInv, OnKs
    <3> QED
      BY <3>1, <1>3, <1>7, <1>15 DEF FramesFollow
  <2>6. Len(K) = Len(V[n].k) + Len(L)
    BY <2>1, <1>13
  <2>7. at - 1 = Len(V[n].k) /\ at \in Nat /\ at \in 1 .. Len(K) /\ Len(K) \in Nat
    BY ONLY <2>1, <2>2, <2>6, <1>19
  <2> QED
    BY <2>1, <2>3, <2>4, <2>5, <2>7, <1>13
\* For whom.
<1>21. PICK s \in 1 .. Len(stk), op \in Ops, j \in Nat : Answers(V, stk, K, heap, pending, s, op, j)
  BY <1>2, <1>12 DEF Shows, Answered
<1>22. /\ stk[s].t = "handle" /\ stk[s].fr = c.fr /\ j \in 1 .. Len(Handlers[heap[c.fr].h])
       /\ Handlers[heap[c.fr].h][j].op = op /\ Handlers[heap[c.fr].h][j].kind = "capturing"
       /\ Handlers[heap[c.fr].h][j].once = pending.once
       /\ A!Clause(heap[c.fr].h, op) = Handlers[heap[c.fr].h][j]
       /\ \A q \in Len(V[s].k) + 1 .. Len(K) : ~A!Covers(K[q], op) /\ K[q].t # "lw"
  BY <1>2, <1>21 DEF Answers
<1>23. s = n + 1
  <2>1. /\ stk \in Seq(Context) /\ FramesFollow(stk, ks, mode) /\ \A i, k \in 1 .. Len(ks) : ks[i] = ks[k] => i = k
    BY DEF StacksInv, Typed, Owned, Distinct
  <2>2. OnKs(stk[s]) /\ OnKs(stk[n + 1]) /\ stk[s].fr = stk[n + 1].fr /\ n + 1 \in 1 .. Len(stk)
    BY <1>2, <1>3, <1>22 DEF OnKs
  <2> QED
    BY ONLY <2>1, <2>2, <1>13, s \in 1 .. Len(stk), OneSite
<1>24. Len(V[s].k) = at
  <2>1. V[n + 1].k = Append(V[n].k, Pushes(c, heap))
    BY <1>5 DEF Extends
  <2> QED
    BY <2>1, <1>13, <1>19, <1>23, AppendIs
<1>25. heap[c.fr].t = "handle" /\ heap[c.fr].h \in DOMAIN Handlers
  BY <1>2, <1>4 DEF Described
<1>26. K[at].t = "handle" /\ K[at].h = heap[c.fr].h
  BY <1>20, <1>25 DEF FrameOf
<1>27. DOMAIN K = 1 .. Len(K)
  BY <1>20 DEF IsSequence
<1>28. at \in A!Covering(K, op)
  <2>1. A!Covers(K[at], op)
    <3>1. DOMAIN Handlers[heap[c.fr].h] = 1 .. Len(Handlers[heap[c.fr].h])
      BY <1>22, <1>25, OpKnown
    <3> QED
      BY <1>22, <1>26, <3>1 DEF A!Covers
  <2>2. \A q \in at .. Len(K) : K[q].t # "lw"
    <3>1. \A q \in at .. Len(K) : q = at \/ q \in at + 1 .. Len(K)
      BY <1>20
    <3> QED
      BY <3>1, <1>22, <1>24, <1>26
  <2> QED
    BY <2>1, <2>2, <1>20, <1>27 DEF A!Covering
<1>29. \A q \in A!Covering(K, op) : q <= at
  <2> SUFFICES ASSUME NEW q \in A!Covering(K, op) PROVE q <= at
    OBVIOUS
  <2>1. q \in 1 .. Len(K) /\ A!Covers(K[q], op)
    BY <1>27 DEF A!Covering
  <2>2. ~(q <= at) => q \in at + 1 .. Len(K)
    BY <2>1, <1>20
  <2> QED
    BY <2>1, <2>2, <1>22, <1>24
<1>30. at = A!Nearest(A!Covering(K, op))
  <2>1. \A q \in A!Covering(K, op) : q \in Int
    BY <1>27 DEF A!Covering
  <2>2. \A q \in A!Covering(K, op) : (\A i \in A!Covering(K, op) : i <= q) <=> q = at
    BY <2>1, <1>28, <1>29, <1>20
  <2> QED
    BY <2>2, <1>28 DEF A!Nearest
\* The resumption holds it.
<1>31. PICK Z : Z = SubSeq(ks, P, Len(ks))
  OBVIOUS
<1>32. Z \in Seq(Frames) /\ Len(Z) = Len(ks) - a /\ DOMAIN Z = 1 .. Len(ks) - a
       /\ (\A i \in 1 .. Len(ks) - a : Z[i] = ks[a + i]) /\ Z # << >>
  <2>1. P \in 1 .. Len(ks) + 1 /\ P - 1 = a
    BY <1>7, <1>15
  <2>2. /\ SubSeq(ks, P, Len(ks)) \in Seq(Frames) /\ Len(SubSeq(ks, P, Len(ks))) = Len(ks) - (P - 1)
        /\ \A p \in 1 .. Len(ks) - (P - 1) : SubSeq(ks, P, Len(ks))[p] = ks[P - 1 + p]
    BY <1>13, <2>1, SplitAt
  <2>3. Z \in Seq(Frames) /\ Len(Z) = Len(ks) - a /\ \A i \in 1 .. Len(ks) - a : Z[i] = ks[a + i]
    BY <2>1, <2>2, <1>31
  <2>4. Len(Z) # 0
    BY <2>3, <1>7, <1>15
  <2> QED
    BY <2>3, <2>4, EmptySeq
<1>33. [i \in DOMAIN Z |-> FrameOf(heap[Z[i]])] = L
  BY <1>16, <1>32
<1>34. res'[r] = [frames |-> Z, once |-> pending.once, used |-> FALSE] /\ \A q \in ResIds : q # r => res'[q] = res[q]
  <2>1. DOMAIN res = ResIds
    BY DEF StacksInv, Typed
  <2> QED
    BY <2>1, <1>8, <1>31
<1>35. Captured(r)' = [frames |-> L, once |-> pending.once]
  <2>1. res'[r] # NoRes /\ ~(res'[r].once /\ res'[r].used) /\ res'[r].frames = Z /\ res'[r].once = pending.once
    BY <1>32, <1>34 DEF NoRes
  <2>2. Captured(r)' = [frames |-> [i \in DOMAIN res'[r].frames |-> FrameOf(heap'[res'[r].frames[i]])], once |-> res'[r].once]
    BY <2>1 DEF Captured, NoRes
  <2> QED
    BY <2>1, <2>2, <1>2, <1>33
<1>36. Captured(r) = A!NoRes
  BY <1>8 DEF Captured, A!NoRes
<1>37. \A q \in ResIds : q # r => Captured(q)' = Captured(q)
  <2> SUFFICES ASSUME NEW CONSTANT q \in ResIds, q # r PROVE Captured(q)' = Captured(q)
    OBVIOUS
  <2> QED
    BY <1>2, <1>34, CapturedSame
<1>38. PICK y : y = [frames |-> L, once |-> pending.once]
  OBVIOUS
<1>39. ResAre' = [ResAre EXCEPT ![r] = y]
  BY <1>35, <1>37, <1>38 DEF ResAre
<1>40. StIs = "eval" /\ StIs' = "eval"
  BY <1>2, <1>8, StValues, StValuesNext
<1>41. PICK cl : cl = Handlers[heap[c.fr].h][j]
  OBVIOUS
<1>42. /\ A!Covering(Kont, op) # {} /\ at = A!Nearest(A!Covering(Kont, op)) /\ cl = A!Clause(Kont[at].h, op)
       /\ cl.kind # "tail" /\ Kont' = SubSeq(Kont, 1, at - 1)
       /\ Captured(r) = A!NoRes
       /\ ResAre' = [ResAre EXCEPT ![r] = [frames |-> SubSeq(Kont, at, Len(Kont)), once |-> cl.once]]
  BY <1>11, <1>13, <1>18, <1>19, <1>20, <1>22, <1>26, <1>28, <1>30, <1>36, <1>38, <1>39, <1>41
<1>43. Follows
  BY ONLY <1>40, <1>42, r \in ResIds, op \in Ops, PerformFollows
<1> QED
  BY <1>11, <1>43 DEF KontInv

\* The first i of the activations D on top of S.
LEMMA Piled ==
  ASSUME NEW S \in Seq(Context), NEW D \in Seq(Context), NEW i \in 0 .. Len(D), NEW P, P = S \o SubSeq(D, 1, i)
  PROVE  /\ P \in Seq(Context) /\ Len(S) \in Nat /\ Len(D) \in Nat /\ Len(P) = Len(S) + i
         /\ (\A s \in 1 .. Len(S) : P[s] = S[s]) /\ \A j \in 1 .. i : P[Len(S) + j] = D[j]
         /\ i < Len(D) => S \o SubSeq(D, 1, i + 1) = Append(P, D[i + 1]) /\ D[i + 1] \in Context
<1>1. PICK W : W = SubSeq(D, 1, i)
  OBVIOUS
<1>2. W \in Seq(Context) /\ Len(W) = i /\ \A j \in 1 .. i : W[j] = D[j]
  <2>1. i + 1 \in 1 .. Len(D) + 1 /\ (i + 1) - 1 = i
    OBVIOUS
  <2>2. /\ SubSeq(D, 1, (i + 1) - 1) \in Seq(Context) /\ Len(SubSeq(D, 1, (i + 1) - 1)) = (i + 1) - 1
        /\ \A j \in 1 .. (i + 1) - 1 : SubSeq(D, 1, (i + 1) - 1)[j] = D[j]
    BY ONLY <2>1, D \in Seq(Context), SplitAt
  <2> QED
    BY ONLY <1>1, <2>1, <2>2
<1>3. P = S \o W
  BY <1>1
<1>4. P \in Seq(Context) /\ Len(P) = Len(S) + Len(W) /\ Len(S) \in Nat /\ Len(D) \in Nat
  <2>1. PICK Z : Z = Context
    OBVIOUS
  <2>2. S \in Seq(Z) /\ D \in Seq(Z) /\ W \in Seq(Z)
    BY <1>2, <2>1
  <2>3. S \o W \in Seq(Z) /\ Len(S \o W) = Len(S) + Len(W) /\ Len(S) \in Nat /\ Len(D) \in Nat
    BY ONLY <2>2
  <2> QED
    BY ONLY <1>3, <2>1, <2>3
<1>5. \A s \in 1 .. Len(S) : P[s] = S[s]
  BY ONLY <1>2, <1>3, S \in Seq(Context)
<1>6. \A j \in 1 .. i : P[Len(S) + j] = D[j]
  BY ONLY <1>2, <1>3, S \in Seq(Context)
<1>7. ASSUME i < Len(D) PROVE S \o SubSeq(D, 1, i + 1) = Append(P, D[i + 1]) /\ D[i + 1] \in Context
  <2>1. i + 1 \in 1 .. Len(D) /\ 1 \in 1 .. Len(D) /\ (i + 1) - 1 = i
    BY <1>4, <1>7
  <2>2. PICK d : d = D[i + 1]
    OBVIOUS
  <2>3. d \in Context
    BY ONLY <2>1, <2>2, D \in Seq(Context)
  <2>4. SubSeq(D, 1, i + 1) = SubSeq(D, 1, (i + 1) - 1) \o << D[i + 1] >>
    BY ONLY <2>1, D \in Seq(Context), SubSeqRecursiveSecond
  <2>5. Append(W, d) = W \o << d >>
    BY ONLY <1>2, <2>3, AppendIsConcat
  <2>6. S \o Append(W, d) = Append(S \o W, d)
    BY ONLY S \in Seq(Context), <1>2, <2>3
  <2> QED
    BY ONLY <1>1, <1>3, <2>1, <2>2, <2>3, <2>4, <2>5, <2>6
<1> QED
  BY <1>2, <1>4, <1>5, <1>6, <1>7

\* v shows i more frames than u, those of D, and what their handlers install.
Taller(u, v, D, H, g, i) ==
  /\ Len(u.k) \in Nat /\ Len(v.k) = Len(u.k) + i /\ v.x = u.x \o g[i]
  /\ \A p \in 1 .. Len(u.k) : v.k[p] = u.k[p]
  /\ \A j \in 1 .. i : v.k[Len(u.k) + j] = Pushes(D[j], H)
\* The first i activations of D on top of S have views, i frames above u.
Piles(S, D, H, u, f, g, i) ==
  \E W : LET P == S \o SubSeq(D, 1, i)
         IN Views(P, H, W) /\ Saved(P, H) /\ FloorAt(W[Len(P)], f) /\ Taller(u, W[Len(P)], D, H, g, i)
\* D is the activations of a resumption's frames, each once and none of them on S.
Fresh(S, D, H) ==
  /\ \A j \in 1 .. Len(D) : D[j].t \in {"handle", "rerun", "enter"} /\ Described(D[j], H)
  /\ \A i, j \in 1 .. Len(D) : D[i].fr = D[j].fr => i = j
  /\ \A s \in 1 .. Len(S), j \in 1 .. Len(D) : HasFrame(S[s]) => S[s].fr # D[j].fr

\* A frame of a resumption on top, entered or to be returned to.
LEMMA PileUp ==
  ASSUME NEW P, NEW T, NEW m, NEW d, Grown(P, T, m, d), NEW H, NEW W, Views(P, H, W), Saved(P, H),
         NEW f, FloorAt(W[m], f), Described(d, H), d.t \in {"handle", "rerun", "enter"},
         \A s \in 1 .. m : HasFrame(P[s]) => P[s].fr # d.fr
  PROVE  \E X, w : /\ Views(T, H, X) /\ X[m + 1] = w /\ Extends(d, H, W[m], w) /\ Saved(T, H)
                   /\ FloorAt(w, f) /\ Reads(w) /\ Reads(W[m]) /\ Len(T) = m + 1
<1>1. d.t # "perform" /\ d.t # "lw" /\ d.t # "act"
  OBVIOUS
<1>2. PICK w : Extends(d, H, W[m], w)
  BY <1>1, ViewExtended
<1>3. PICK X : Views(T, H, X) /\ X[m + 1] = w
  <2>1. ViewStep(d, H, W[m], w)
    BY <1>2 DEF ViewStep
  <2>2. /\ Grown(P, T, m, d) /\ Views(P, H, W) /\ Described(d, H)
        /\ (\A s \in 1 .. m : HasFrame(P[s]) /\ HasFrame(d) => P[s].fr # d.fr)
        /\ (d.t = "lw" => FloorAt(W[m], d.floor)) /\ ViewStep(d, H, W[m], w)
    BY <1>1, <2>1
  <2>3. \E X : Views(T, H, X) /\ X[m + 1] = w /\ \A i \in 0 .. m : X[i] = W[i]
    BY ONLY <2>2, ViewsPush
  <2> QED
    BY <2>3
<1>4. m \in Nat /\ Len(P) = m /\ Len(T) = m + 1 /\ m \in 0 .. Len(P) /\ m + 1 \in 0 .. Len(T) /\ d \in Context
  BY DEF Grown
<1>5. Reads(W[m]) /\ Reads(w)
  BY <1>3, <1>4 DEF Views
<1>6. FloorAt(w, f)
  <2>1. PICK v : v = W[m]
    OBVIOUS
  <2>2. FloorAt(v, f) <=> FloorAt(w, f)
    BY <1>1, <1>2, <1>4, <1>5, <2>1, FloorExtend
  <2> QED
    BY <2>1, <2>2
<1>7. Saved(T, H)
  BY <1>1, SavedPush
<1> QED
  BY <1>2, <1>3, <1>4, <1>5, <1>6, <1>7

\* One more of the frames of a resumption is shown.
LEMMA PilesOne ==
  ASSUME NEW S \in Seq(Context), NEW D \in Seq(Context), NEW H, Fresh(S, D, H), NEW u, u.x \in Seq(Entry), NEW f,
         NEW g, g \in [0 .. Len(D) -> Seq(Entry)], NEW i, i \in 0 .. Len(D), i < Len(D),
         g[i + 1] = g[i] \o Installed(D[i + 1], H), Installed(D[i + 1], H) \in Seq(Entry),
         Piles(S, D, H, u, f, g, i)
  PROVE  Piles(S, D, H, u, f, g, i + 1)
<1>1. PICK P, d, T : P = S \o SubSeq(D, 1, i) /\ d = D[i + 1] /\ T = S \o SubSeq(D, 1, i + 1)
  OBVIOUS
<1>2. /\ P \in Seq(Context) /\ Len(S) \in Nat /\ Len(D) \in Nat /\ Len(P) = Len(S) + i /\ Len(P) \in Nat
      /\ (\A s \in 1 .. Len(S) : P[s] = S[s]) /\ (\A j \in 1 .. i : P[Len(S) + j] = D[j])
      /\ T = Append(P, d) /\ d \in Context /\ i \in Nat /\ i + 1 \in 1 .. Len(D)
  <2>1. /\ P \in Seq(Context) /\ Len(S) \in Nat /\ Len(D) \in Nat /\ Len(P) = Len(S) + i
        /\ (\A s \in 1 .. Len(S) : P[s] = S[s]) /\ (\A j \in 1 .. i : P[Len(S) + j] = D[j])
        /\ i < Len(D) => S \o SubSeq(D, 1, i + 1) = Append(P, D[i + 1]) /\ D[i + 1] \in Context
    BY <1>1, Piled, SMTT(30)
  <2>2. i \in Nat /\ i + 1 \in 1 .. Len(D)
    BY <2>1
  <2>3. Len(P) \in Nat
    BY ONLY <2>1, <2>2
  <2> QED
    BY ONLY <1>1, <2>1, <2>2, <2>3, i < Len(D)
<1>3. PICK m : m = Len(P)
  OBVIOUS
<1>4. PICK W : Views(P, H, W) /\ Saved(P, H) /\ FloorAt(W[m], f) /\ Taller(u, W[m], D, H, g, i)
  BY <1>1, <1>3 DEF Piles
<1>5. Grown(P, T, m, d)
  BY ONLY <1>2, <1>3, Pushed
<1>6. d.t \in {"handle", "rerun", "enter"} /\ Described(d, H) /\ HasFrame(d)
  BY <1>1, <1>2 DEF Fresh, HasFrame
<1>7. \A s \in 1 .. m : HasFrame(P[s]) /\ HasFrame(d) => P[s].fr # d.fr
  <2> SUFFICES ASSUME NEW s \in 1 .. m, HasFrame(P[s]) PROVE P[s].fr # d.fr
    OBVIOUS
  <2>1. CASE s \in 1 .. Len(S)
    <3>1. P[s] = S[s]
      BY <1>2, <2>1
    <3> QED
      BY <1>1, <1>2, <2>1, <3>1 DEF Fresh
  <2>2. CASE s \notin 1 .. Len(S)
    <3>1. PICK j : j = s - Len(S)
      OBVIOUS
    <3>2. j \in 1 .. i /\ s = Len(S) + j /\ j # i + 1 /\ j \in 1 .. Len(D)
      <4>1. Len(P) = Len(S) + i /\ Len(S) \in Nat /\ i \in Nat /\ Len(D) \in Nat /\ i + 1 \in 1 .. Len(D)
        BY <1>2
      <4> QED
        BY ONLY <4>1, <1>3, <2>2, <3>1, s \in 1 .. m
    <3>3. P[s] = D[j]
      BY <1>2, <3>2
    <3> QED
      BY <1>1, <1>2, <3>2, <3>3 DEF Fresh
  <2> QED
    BY <2>1, <2>2
<1>8. PICK X, w : /\ Views(T, H, X) /\ X[m + 1] = w /\ Extends(d, H, W[m], w) /\ Saved(T, H)
                  /\ FloorAt(w, f) /\ Reads(w) /\ Reads(W[m]) /\ Len(T) = m + 1
  <2>1. /\ Grown(P, T, m, d) /\ Views(P, H, W) /\ Saved(P, H) /\ FloorAt(W[m], f) /\ Described(d, H)
        /\ d.t \in {"handle", "rerun", "enter"} /\ \A s \in 1 .. m : HasFrame(P[s]) => P[s].fr # d.fr
    BY ONLY <1>4, <1>5, <1>6, <1>7
  <2> QED
    BY ONLY <2>1, PileUp
<1>9. PICK v : v = W[m]
  OBVIOUS
<1>15. Taller(u, w, D, H, g, i + 1)
  <2>1. PICK a, e : a = Installed(d, H) /\ e = Pushes(d, H)
    OBVIOUS
  <2>2. w.k = Append(v.k, e) /\ w.x = v.x \o a
    BY <1>8, <1>9, <2>1 DEF Extends
  <2>3. /\ Len(u.k) \in Nat /\ Len(v.k) = Len(u.k) + i /\ v.x = u.x \o g[i]
        /\ (\A p \in 1 .. Len(u.k) : v.k[p] = u.k[p])
        /\ \A j \in 1 .. i : v.k[Len(u.k) + j] = Pushes(D[j], H)
    BY <1>4, <1>9 DEF Taller
  <2>4. IsSequence(v.k)
    BY <1>8, <1>9 DEF Reads
  <2>5. /\ Len(Append(v.k, e)) = Len(v.k) + 1 /\ (\A p \in 1 .. Len(v.k) : Append(v.k, e)[p] = v.k[p])
        /\ Append(v.k, e)[Len(v.k) + 1] = e
    BY <2>4, AppendIs
  <2>0. i \in Nat
    OBVIOUS
  <2>6. Len(w.k) = Len(u.k) + (i + 1) /\ (\A p \in 1 .. Len(u.k) : w.k[p] = u.k[p])
    <3>0. Len(u.k) \in Nat /\ Len(v.k) = Len(u.k) + i
      BY <2>3
    <3>1. Len(v.k) \in Nat /\ Len(v.k) + 1 = Len(u.k) + (i + 1) /\ \A p \in 1 .. Len(u.k) : p \in 1 .. Len(v.k)
      <4>1. PICK x, y : x = Len(u.k) /\ y = Len(v.k)
        OBVIOUS
      <4>2. x \in Nat /\ y = x + i
        BY ONLY <3>0, <4>1
      <4>3. y \in Nat /\ y + 1 = x + (i + 1) /\ \A p \in 1 .. x : p \in 1 .. y
        BY ONLY <2>0, <4>2
      <4> QED
        BY ONLY <4>1, <4>3
    <3> QED
      BY ONLY <2>2, <2>3, <2>5, <3>1
  <2>7. ASSUME NEW j \in 1 .. i + 1 PROVE w.k[Len(u.k) + j] = Pushes(D[j], H)
    <3>1. CASE j \in 1 .. i
      <4>1. Len(u.k) + j \in 1 .. Len(v.k)
        BY ONLY <2>0, <2>3, <3>1
      <4> QED
        BY ONLY <2>2, <2>3, <2>5, <3>1, <4>1
    <3>2. CASE j = i + 1
      <4>1. Len(u.k) + j = Len(v.k) + 1
        BY ONLY <2>6, <2>2, <2>5, <3>2
      <4> QED
        BY ONLY <1>1, <2>1, <2>2, <2>5, <3>2, <4>1
    <3> QED
      BY <1>2, <3>1, <3>2
  <2>8. w.x = u.x \o g[i + 1]
    <3>1. PICK q, Z, y : q = g[i] /\ Z = Entry /\ y = u.x
      OBVIOUS
    <3>2. y \in Seq(Z) /\ q \in Seq(Z) /\ a \in Seq(Z)
      BY <1>1, <2>1, <3>1
    <3>3. (y \o q) \o a = y \o (q \o a)
      BY ONLY <3>2, ConcatAssociative, SMTT(30)
    <3>4. w.x = (y \o q) \o a /\ g[i + 1] = q \o a
      BY <1>1, <2>1, <2>2, <2>3, <3>1
    <3> QED
      BY ONLY <3>1, <3>3, <3>4
  <2> QED
    BY <2>3, <2>6, <2>7, <2>8 DEF Taller
<1> QED
  BY <1>1, <1>8, <1>15 DEF Piles

\* What activations add to the handlers' entries and to the continuation.
AllInstalled(D, H) == [i \in 1 .. Len(D) |-> Installed(D[i], H)]
\* What they add to the continuation.
AllPushed(D, H) == [i \in 1 .. Len(D) |-> Pushes(D[i], H)]
\* T has views, that show the entries es and the frames of D above those of S.
ShownOn(S, D, H, V, f, T, es) ==
  \E W : /\ Views(T, H, W) /\ Saved(T, H) /\ FloorAt(W[Len(T)], f) /\ W[Len(T)].x = V[Len(S)].x \o es
         /\ W[Len(T)].k = V[Len(S)].k \o AllPushed(D, H)

\* All the frames of a resumption are shown, with what their handlers install.
LEMMA ViewsPushAll ==
  ASSUME NEW S \in Seq(Context), NEW D \in Seq(Context), NEW H, Fresh(S, D, H), NEW V, Views(S, H, V), Saved(S, H),
         NEW f, FloorAt(V[Len(S)], f), \A i \in 1 .. Len(D) : Plain(D[i], H), NEW T, T = S \o D,
         NEW es, es = FlattenSeq(AllInstalled(D, H))
  PROVE  ShownOn(S, D, H, V, f, T, es)
<1>0. PICK ss, F : ss = AllInstalled(D, H) /\ F = AllPushed(D, H)
  OBVIOUS
<1>1. PICK n, u : n = Len(D) /\ u = V[Len(S)]
  OBVIOUS
<1>2. n \in Nat /\ Len(S) \in Nat /\ Len(S) \in 0 .. Len(S)
  BY <1>1
<1>3. ss = [i \in 1 .. n |-> Installed(D[i], H)] /\ F = [i \in 1 .. n |-> Pushes(D[i], H)]
  BY <1>0, <1>1 DEF AllInstalled, AllPushed
<1>4. ASSUME NEW i \in 1 .. n PROVE ss[i] \in Seq(Entry)
  <2>1. D[i] \in Context /\ Plain(D[i], H)
    BY <1>1
  <2>2. Installed(D[i], H) \in Seq(Entry)
    <3>1. CASE D[i].t = "handle"
      <4>1. D[i].fr \in Frames /\ H[D[i].fr].h \in DOMAIN Handlers
        BY <2>1, <3>1 DEF Plain
      <4> QED
        BY <3>1, <4>1, EntriesAre DEF Installed
    <3>2. CASE D[i].t # "handle"
      BY <3>2, EmptySeq DEF Installed
    <3> QED
      BY <3>1, <3>2
  <2> QED
    BY <1>3, <2>2
<1>5. ss \in Seq(Seq(Entry)) /\ Len(ss) = n
  <2>1. PICK Z : Z = Seq(Entry)
    OBVIOUS
  <2>2. \A i \in 1 .. n : ss[i] \in Z
    BY <1>4, <2>1
  <2>3. ss \in [1 .. n -> Z]
    BY ONLY <1>3, <2>2
  <2>4. ss \in Seq(Z) /\ Len(ss) = n
    BY ONLY <1>2, <2>3
  <2> QED
    BY ONLY <2>1, <2>4
<1>6. PICK g \in [0 .. n -> Seq(Entry)] : Joins(g, ss)
  BY ONLY <1>5, JoinsExist
<1>7. FlattenSeq(ss) = g[n]
  BY ONLY <1>5, <1>6, FlattenIs
<1>8. g[0] = << >> /\ \A i \in 1 .. n : g[i] = g[i - 1] \o ss[i]
  BY ONLY <1>5, <1>6 DEF Joins
<1>9. Reads(u) /\ u.x \in Seq(Entry) /\ IsSequence(u.k)
  BY <1>1, <1>2 DEF Views, Reads
<1>10. PICK G : G = {i \in 0 .. n : Piles(S, D, H, u, f, g, i)}
  OBVIOUS
<1>11. 0 \in G
  <2>1. SubSeq(D, 1, 0) = << >>
    BY SubSeqEmpty
  <2>2. S \o SubSeq(D, 1, 0) = S
    BY <2>1, ConcatEmptySeq
  <2>3. u.x \o g[0] = u.x
    BY <1>8, <1>9, ConcatEmptySeq
  <2>4. Len(u.k) \in Nat
    BY <1>9, AppendIs
  <2>5. Taller(u, u, D, H, g, 0)
    BY <2>3, <2>4 DEF Taller
  <2>6. Piles(S, D, H, u, f, g, 0)
    BY <1>1, <2>2, <2>5 DEF Piles
  <2> QED
    BY <1>2, <1>10, <2>6
<1>12. ASSUME NEW i \in 0 .. n, i < n, i \in G PROVE i + 1 \in G
  <2>1. i + 1 \in 1 .. n /\ (i + 1) - 1 = i /\ i + 1 \in 0 .. n
    BY <1>2, <1>12
  <2>2. g[i + 1] = g[i] \o Installed(D[i + 1], H) /\ Installed(D[i + 1], H) \in Seq(Entry)
    BY <1>3, <1>4, <1>8, <2>1
  <2>3. Piles(S, D, H, u, f, g, i)
    BY <1>10, <1>12
  <2>4. g \in [0 .. Len(D) -> Seq(Entry)] /\ i \in 0 .. Len(D) /\ i < Len(D)
    BY <1>1, <1>12
  <2>5. Piles(S, D, H, u, f, g, i + 1)
    BY ONLY S \in Seq(Context), D \in Seq(Context), Fresh(S, D, H), <1>9, <2>2, <2>3, <2>4, PilesOne
  <2> QED
    BY <1>10, <2>1, <2>5
<1>13. \A i \in 0 .. n : i \in G
  BY ONLY <1>2, <1>11, <1>12, UpwardSteps
<1>14. Piles(S, D, H, u, f, g, n)
  BY <1>2, <1>10, <1>13
<1>15. S \o SubSeq(D, 1, n) = T
  <2>1. SubSeq(D, 1, n) = D
    BY <1>1, SubSeqFull
  <2> QED
    BY <2>1
<1>16. PICK W : Views(T, H, W) /\ Saved(T, H) /\ FloorAt(W[Len(T)], f) /\ Taller(u, W[Len(T)], D, H, g, n)
  BY <1>14, <1>15 DEF Piles
<1>17. PICK v : v = W[Len(T)]
  OBVIOUS
<1>18. v.x = V[Len(S)].x \o es
  BY <1>0, <1>1, <1>7, <1>16, <1>17 DEF Taller
<1>19. IsSequence(v.k)
  <2>1. Len(T) \in 0 .. Len(T)
    OBVIOUS
  <2> QED
    BY <1>16, <1>17, <2>1 DEF Views, Reads
<1>20. IsSequence(F) /\ Len(F) = n
  <2>1. F \in [1 .. n -> {Pushes(D[i], H) : i \in 1 .. n}]
    BY <1>3
  <2>2. PICK Z : Z = {Pushes(D[i], H) : i \in 1 .. n}
    OBVIOUS
  <2>3. F \in Seq(Z) /\ Len(F) = n
    BY ONLY <1>2, <2>1, <2>2
  <2> QED
    BY <2>3 DEF IsSequence
<1>21. v.k = u.k \o F
  <2>1. PICK y, a : y = u.k \o F /\ a = u.k
    OBVIOUS
  <2>2. IsSequence(a) /\ y = a \o F
    BY <1>9, <2>1
  <2>3. /\ IsSequence(a \o F) /\ Len(a) \in Nat /\ Len(a \o F) = Len(a) + Len(F)
        /\ (\A p \in 1 .. Len(a) : (a \o F)[p] = a[p]) /\ \A p \in 1 .. Len(F) : (a \o F)[Len(a) + p] = F[p]
    <3>1. IsSequence(a) /\ IsSequence(F)
      BY <1>20, <2>2
    <3> QED
      BY ONLY <3>1, JoinIs
  <2>4. /\ IsSequence(y) /\ Len(a) \in Nat /\ Len(y) = Len(a) + n
        /\ (\A p \in 1 .. Len(a) : y[p] = a[p]) /\ \A p \in 1 .. n : y[Len(a) + p] = F[p]
    BY ONLY <1>20, <2>2, <2>3
  <2>5. /\ Len(v.k) = Len(a) + n /\ (\A p \in 1 .. Len(a) : v.k[p] = a[p])
        /\ \A j \in 1 .. n : v.k[Len(a) + j] = F[j]
    BY <1>3, <1>16, <1>17, <2>1 DEF Taller
  <2>6. ASSUME NEW p \in 1 .. Len(v.k) PROVE v.k[p] = y[p]
    <3>1. CASE p \in 1 .. Len(a)
      BY ONLY <2>4, <2>5, <3>1
    <3>2. CASE p \notin 1 .. Len(a)
      <4>1. PICK j : j = p - Len(a)
        OBVIOUS
      <4>2. j \in 1 .. n /\ p = Len(a) + j
        BY ONLY <1>2, <2>4, <2>5, <3>2, <4>1, p \in 1 .. Len(v.k)
      <4> QED
        BY ONLY <2>4, <2>5, <4>2
    <3> QED
      BY <3>1, <3>2
  <2>7. Len(v.k) = Len(y)
    BY ONLY <2>4, <2>5
  <2>8. v.k = y
    BY ONLY <1>19, <2>4, <2>6, <2>7, SameSequence
  <2> QED
    BY <2>1, <2>8
<1> QED
  BY <1>0, <1>1, <1>16, <1>17, <1>18, <1>21 DEF ShownOn

\* A resumption that may be taken up shows its frames.
LEMMA CapturedIs ==
  ASSUME StacksInv, NEW CONSTANT r \in ResIds, res[r] # NoRes, ~(res[r].once /\ res[r].used),
         NEW fs, fs = res[r].frames, NEW n, n = Len(fs), NEW F, F = [i \in 1 .. n |-> FrameOf(heap[fs[i]])]
  PROVE  Captured(r) = [frames |-> F, once |-> res[r].once] /\ Captured(r) # A!NoRes
<1>1. fs \in Seq(Frames) /\ fs # << >>
  BY DEF StacksInv, Typed
<1>2. DOMAIN fs = 1 .. n /\ n \in Nat /\ n # 0
  BY <1>1, EmptySeq, LenProperties
<1>3. Captured(r) = [frames |-> [i \in DOMAIN fs |-> FrameOf(heap[fs[i]])], once |-> res[r].once]
  BY DEF Captured
<1>4. Captured(r) = [frames |-> F, once |-> res[r].once]
  BY <1>2, <1>3
<1>5. F # << >>
  <2>1. DOMAIN F = 1 .. n /\ 1 \in 1 .. n
    BY <1>2
  <2>2. DOMAIN << >> = {}
    OBVIOUS
  <2> QED
    BY <2>1, <2>2
<1>6. A!NoRes.frames = << >>
  BY DEF A!NoRes
<1>7. Captured(r).frames = F
  BY <1>4
<1> QED
  BY ONLY <1>4, <1>5, <1>6, <1>7

\* Taking up a resumption continues with what it holds, and one for a single
\* use is used up.
LEMMA ResumeShows ==
  ASSUME StacksInv, NEW CONSTANT V, Shows(V), NEW CONSTANT r \in ResIds, Resume(r), StacksInv'
  PROVE  KontInv' /\ Follows
<1>1. mode = "run" /\ res[r] # NoRes
  BY DEF Resume
<1>2. CASE res[r].once /\ res[r].used
  <2>1. Exit("E0906")
    BY <1>2 DEF Resume
  <2> QED
    BY <1>1, <2>1, ExitShows
<1>3. CASE ~(res[r].once /\ res[r].used)
  <2>1. PICK fs, n : fs = res[r].frames /\ n = Len(res[r].frames)
    OBVIOUS
  <2>2. PICK ids, ds : ids = CloneIds(n) /\ ds = Cloned(fs)
    OBVIOUS
  <2>3. /\ FreeFrames(n)
        /\ res' = IF res[r].once THEN [res EXCEPT ![r].used = TRUE] ELSE res
        /\ heap' = ClonedInto(ids, ds, heap)
        /\ HandlePush(EntriesOfChain(ids, ds)) /\ stk' = stk \o ChainOf(ids, ds)
        /\ mode' = "ret" /\ UNCHANGED <<pending, run>>
    BY <1>3, <2>1, <2>2 DEF Resume, ClonedInto, ChainOf
  <2>4. /\ stk \in Seq(Context) /\ ks \in Seq(Frames) /\ heap \in [Frames -> Descriptors]
        /\ res \in [ResIds -> [frames : Seq(Frames), once : BOOLEAN, used : BOOLEAN]]
        /\ FramesFollow(stk, ks, mode) /\ Owned(ks, res, Entering(stk), heap) /\ EnterOnTop(stk, mode)
        /\ Views(stk, heap, V) /\ Saved(stk, heap) /\ FloorAt(V[Len(stk)], floor) /\ hs = V[Len(stk)].x
    BY DEF StacksInv, Typed, Shows
  <2>5. fs \in Seq(Frames) /\ n \in Nat /\ n > 0 /\ ds \in Seq(Descriptors \ {Free}) /\ Len(ds) = n
    <3>1. fs \in Seq(Frames) /\ ds \in Seq(Descriptors \ {Free}) /\ Len(ds) = n
      BY <2>1, <2>2, ClonedAre
    <3>2. fs # << >>
      BY <1>1, <2>1 DEF StacksInv, Typed
    <3>3. n \in Nat /\ n # 0
      BY ONLY <2>1, <3>1, <3>2, EmptySeq, LenProperties
    <3> QED
      BY ONLY <3>1, <3>3
  <2>6. Chain(n, ids, ds) /\ Distinct(ids) /\ \A i \in 1 .. n : ids[i] \in Frames /\ heap[ids[i]] = Free
    <3>1. /\ ids \in Seq(Frames) /\ Len(ids) = n /\ Distinct(ids) /\ DOMAIN ids = 1 .. n
          /\ \A i \in 1 .. n : heap[ids[i]] = Free
      BY ONLY <2>2, <2>3, <2>5, CloneIdsAre
    <3> QED
      BY ONLY <2>5, <3>1, ElementOfSeq DEF Chain
  <2>7. PICK I, D, k, es : /\ I = ClonedInto(ids, ds, heap) /\ D = ChainOf(ids, ds)
                           /\ k = IF ds[n].t = "handle" THEN n ELSE n - 1
                           /\ es = EntriesOfChain(ids, ds)
    OBVIOUS
  <2>8. Contexts(n, ids, ds, D, k)
    BY ONLY <2>6, <2>7, ChainIs
  <2>9. /\ I \in [Frames -> Descriptors] /\ \A j \in 1 .. n : I[ids[j]] = ds[j]
        /\ \A f \in Frames : IF OnStack(ids, f) THEN I[f] # Free ELSE I[f] = heap[f]
    BY ONLY <2>4, <2>6, <2>7, ClonedHeap
  <2>10. /\ \A i \in 1 .. Len(D) : Plain(D[i], I)
         /\ es = FlattenSeq([i \in 1 .. Len(D) |-> Installed(D[i], I)])
    BY ONLY <2>6, <2>7, <2>8, <2>9, ChainEntries
  <2>11. D \in Seq(Context) /\ Len(D) = n /\ \A j \in 1 .. n : /\ D[j].fr = ids[j] /\ (D[j].t = "handle" <=> ds[j].t = "handle")
                                                              /\ D[j].t \in {"handle", "rerun", "enter"}
    BY ONLY <2>8 DEF Contexts
  <2>12. \A f \in Frames : OnStack(ids, f) => heap[f] = Free
    BY <2>6 DEF OnStack, Chain
  <2>13. Entering(stk) = {}
    BY <1>1, <2>4, EnterNone
  <2>14. \A f \in Frames : OnStack(ks, f) \/ InResumption(res, f) => heap[f] # Free /\ I[f] = heap[f]
    BY <2>4, <2>9, <2>12 DEF Owned
  <2>15. Views(stk, I, V) /\ Saved(stk, I)
    BY <2>4, <2>13, <2>14, ViewsUnmoved
  <2>16. Fresh(stk, D, I)
    <3>1. ASSUME NEW j \in 1 .. n PROVE Described(D[j], I)
      <4>1. I[D[j].fr] = ds[j] /\ ds[j] \in Descriptors
        BY <2>5, <2>9, <2>11
      <4>2. ds[j].t = "handle" => ds[j].h \in DOMAIN Handlers
        BY ONLY <4>1 DEF Descriptors, Free, ActFrame, HfFrame
      <4> QED
        BY <2>11, <4>1, <4>2 DEF Described
    <3>2. ASSUME NEW i \in 1 .. n, NEW j \in 1 .. n, D[i].fr = D[j].fr PROVE i = j
      BY <2>6, <2>11, <3>2 DEF Distinct, Chain
    <3>3. ASSUME NEW s \in 1 .. Len(stk), NEW j \in 1 .. n, HasFrame(stk[s]) PROVE stk[s].fr # D[j].fr
      <4>1. stk[s].t # "enter"
        BY <2>13 DEF Entering
      <4>2. OnKs(stk[s])
        BY <3>3, <4>1 DEF HasFrame, OnKs
      <4>3. stk[s].fr \in Frames /\ OnStack(ks, stk[s].fr)
        BY <2>4, <4>2, FramesOnKs
      <4> QED
        BY <2>6, <2>11, <2>14, <4>3
    <3> QED
      BY <2>11, <3>1, <3>2, <3>3 DEF Fresh
  <2>17. PICK T : T = stk \o D
    OBVIOUS
  <2>18. PICK W : /\ Views(T, I, W) /\ Saved(T, I) /\ FloorAt(W[Len(T)], floor) /\ W[Len(T)].x = V[Len(stk)].x \o es
                  /\ W[Len(T)].k = V[Len(stk)].k \o AllPushed(D, I)
    <3>1. PICK S, f : S = stk /\ f = floor
      OBVIOUS
    <3>2. es = FlattenSeq(AllInstalled(D, I))
      BY <2>10 DEF AllInstalled
    <3>3. /\ S \in Seq(Context) /\ D \in Seq(Context) /\ Fresh(S, D, I) /\ Views(S, I, V) /\ Saved(S, I)
          /\ FloorAt(V[Len(S)], f) /\ (\A i \in 1 .. Len(D) : Plain(D[i], I)) /\ T = S \o D
      BY ONLY <2>4, <2>10, <2>11, <2>15, <2>16, <2>17, <3>1
    <3>4. ShownOn(S, D, I, V, f, T, es)
      BY ONLY <3>2, <3>3, ViewsPushAll
    <3> QED
      BY ONLY <3>1, <3>4 DEF ShownOn
  <2>19. heap' = I /\ stk' = T /\ hs' = hs \o es /\ mode' = "ret" /\ floor' = floor
    BY <2>3, <2>7, <2>17 DEF HandlePush, run
  <2>20. Shows(W)'
    BY <2>4, <2>18, <2>19 DEF Shows
  <2>21. PICK F : F = [i \in 1 .. n |-> FrameOf(heap[fs[i]])]
    OBVIOUS
  <2>22. AllPushed(D, I) = F
    <3>1. ASSUME NEW i \in 1 .. n PROVE Pushes(D[i], I) = FrameOf(heap[fs[i]])
      <4>1. D[i].t # "act" /\ D[i].t # "lw"
        BY <2>11
      <4>2. ds[i] = heap[fs[i]]
        BY <2>2, <2>5, <2>1 DEF Cloned
      <4>3. I[D[i].fr] = ds[i]
        BY <2>9, <2>11
      <4> QED
        BY <4>1, <4>2, <4>3 DEF Pushes
    <3> QED
      BY <2>11, <2>21, <3>1 DEF AllPushed
  <2>23. Kont = V[Len(stk)].k /\ Kont' = V[Len(stk)].k \o F
    <3>1. Kont' = W[Len(stk')].k
      BY <2>19, <2>20, KontNext
    <3>2. Kont = V[Len(stk)].k
      BY <1>1, KontIs
    <3> QED
      BY ONLY <2>18, <2>19, <2>22, <3>1, <3>2
  <2>24. PICK once : once = res[r].once
    OBVIOUS
  <2>25. Captured(r) = [frames |-> F, once |-> once] /\ Captured(r) # A!NoRes
    BY <1>1, <1>3, <2>1, <2>21, <2>24, CapturedIs
  <2>26. ASSUME NEW CONSTANT q \in ResIds, res'[q] = res[q] PROVE Captured(q)' = Captured(q)
    <3>1. res[q].frames \in Seq(Frames)
      BY <2>4
    <3>2. \A i \in 1 .. Len(res[q].frames) : res[q].frames[i] \in Frames /\ InResumption(res, res[q].frames[i])
      BY <3>1 DEF InResumption
    <3> QED
      BY <2>14, <2>19, <2>26, <3>2, CapturedSame
  <2>27. ResAre' = IF Captured(r).once THEN [ResAre EXCEPT ![r] = A!NoRes] ELSE ResAre
    <3>1. Captured(r).once = once
      BY <2>25
    <3>2. CASE once
      <4>1. res' = [res EXCEPT ![r].used = TRUE]
        BY <2>3, <2>24, <3>2
      <4>2. \A q \in ResIds : q # r => res'[q] = res[q]
        BY <2>4, <4>1
      <4>3. res'[r].once /\ res'[r].used
        BY <2>4, <2>24, <3>2, <4>1
      <4>4. Captured(r)' = A!NoRes
        BY <4>3 DEF Captured, A!NoRes
      <4>5. \A q \in ResIds : q # r => Captured(q)' = Captured(q)
        <5> SUFFICES ASSUME NEW CONSTANT q \in ResIds, q # r PROVE Captured(q)' = Captured(q)
          OBVIOUS
        <5> QED
          BY <4>2, <2>26
      <4> QED
        BY <3>1, <3>2, <4>4, <4>5 DEF ResAre
    <3>3. CASE ~once
      <4>1. res' = res
        BY <2>3, <2>24, <3>3
      <4>2. \A q \in ResIds : Captured(q)' = Captured(q)
        <5> SUFFICES ASSUME NEW CONSTANT q \in ResIds PROVE Captured(q)' = Captured(q)
          OBVIOUS
        <5> QED
          BY <4>1, <2>26
      <4> QED
        BY <3>1, <3>3, <4>2 DEF ResAre
    <3> QED
      BY <3>2, <3>3
  <2>28. StIs = "eval" /\ StIs' = "value"
    BY <1>1, <2>19, StValues, StValuesNext
  <2>29. Kont' = Kont \o Captured(r).frames
    BY <2>23, <2>25
  <2>30. Follows
    BY ONLY <2>25, <2>27, <2>28, <2>29, r \in ResIds, ResumeFollows
  <2> QED
    BY <2>20, <2>30 DEF KontInv
<1> QED
  BY <1>2, <1>3

\* Nothing is shown at first, as in the interpreter.
LEMMA KontInvInit == ASSUME Init, StacksInv PROVE KontInv /\ A!AInit
<1>1. /\ hs = << >> /\ floor = 0 /\ stk = << >> /\ mode = "run" /\ res = [r \in ResIds |-> NoRes] /\ Len(stk) = 0
  BY DEF Init
<1>2. PICK V : Views(stk, heap, V) /\ V[0] = NoView
  BY <1>1, NothingSeen
<1>3. NoView.x = << >> /\ NoView.k = << >>
  BY DEF NoView
<1>4. hs = V[Len(stk)].x /\ FloorAt(V[Len(stk)], floor) /\ Saved(stk, heap)
  BY <1>1, <1>2, <1>3, ReadsNothing DEF Saved
<1>5. Shows(V)
  BY <1>1, <1>2, <1>4 DEF Shows
<1>6. Kont = << >>
  BY <1>1, <1>2, <1>3, <1>5, KontIs
<1>7. ResAre = [r \in ResIds |-> A!NoRes]
  BY <1>1 DEF ResAre, Captured, A!NoRes
<1>8. StIs = "eval"
  BY <1>1, StValues
<1> QED
  BY <1>5, <1>6, <1>7, <1>8 DEF KontInv, A!AInit, ResAre, StIs

\* Every step of the runtime keeps the views, and is a step of the
\* interpreter or none.
LEMMA KontInvNext == ASSUME Separate, StacksInv, KontInv, [Next]_vars PROVE KontInv' /\ Follows
<1>0. StacksInv'
  BY StacksInvNext
<1>v. PICK V : Shows(V)
  BY DEF KontInv
<1>1. ASSUME NEW CONSTANT a \in Labels, Call(a) PROVE KontInv' /\ Follows
  BY ONLY StacksInv, <1>0, <1>v, <1>1, CallShows
<1>2. ASSUME NEW CONSTANT h \in DOMAIN Handlers, Handle2(h) PROVE KontInv' /\ Follows
  BY ONLY StacksInv, <1>0, <1>v, <1>2, HandleShows
<1>3. ASSUME NEW CONSTANT op, PerformTail(op) PROVE KontInv' /\ Follows
  BY ONLY Separate, StacksInv, <1>0, <1>v, <1>3, PerformTailShows
<1>4. ASSUME NEW CONSTANT op, PerformCapturing(op) PROVE KontInv' /\ Follows
  BY ONLY Separate, StacksInv, <1>0, <1>v, <1>4, PerformCapturingShows
<1>5. ASSUME NEW CONSTANT op, PerformAtRoot(op) PROVE KontInv' /\ Follows
  BY ONLY StacksInv, <1>0, <1>v, <1>5, PerformAtRootShows
<1>6. ASSUME NEW CONSTANT r \in ResIds, Resume(r) PROVE KontInv' /\ Follows
  BY ONLY StacksInv, <1>0, <1>v, <1>6, ResumeShows
<1>7. ASSUME NEW CONSTANT r \in ResIds, Drop(r) PROVE KontInv' /\ Follows
  BY ONLY StacksInv, <1>0, <1>v, <1>7, DropShows
<1>8. CASE Yield
  <2>1. mode' = "ret" /\ UNCHANGED <<stacks, run, stk>> /\ mode = "run"
    BY <1>8 DEF Yield
  <2> QED
    BY ONLY StacksInv, <1>0, <1>v, <2>1, ModeShows
<1>9. CASE StartRun
  BY ONLY StacksInv, <1>0, <1>v, <1>9, StartRunShows
<1>10. CASE Deliver
  <2>1. CASE ReturnToActivation
    BY ONLY StacksInv, <1>0, <1>v, <2>1, ReturnToActivationShows
  <2>2. CASE EnterFrame
    BY ONLY StacksInv, <1>0, <1>v, <2>2, EnterFrameShows
  <2>3. CASE ReenterFrame
    BY ONLY StacksInv, <1>0, <1>v, <2>3, ReenterFrameShows
  <2>4. CASE ReturnFromClause
    BY ONLY StacksInv, <1>0, <1>v, <2>4, ReturnFromClauseShows
  <2>5. CASE DispatchValue
    BY ONLY StacksInv, <1>0, <1>v, <2>5, DispatchValueShows
  <2>6. CASE EndRun
    BY ONLY StacksInv, <1>0, <1>v, <2>6, EndRunShows
  <2>7. CASE Finish
    BY ONLY StacksInv, <1>0, <1>v, <2>7, FinishShows
  <2> QED
    BY <1>10, <2>1, <2>2, <2>3, <2>4, <2>5, <2>6, <2>7 DEF Deliver
<1>11. CASE Unwind
  <2>1. CASE UnwindActivation
    BY ONLY StacksInv, <1>0, <1>v, <2>1, UnwindActivationShows
  <2>2. CASE PassHandle
    BY ONLY StacksInv, <1>0, <1>v, <2>2, PassHandleShows
  <2>3. CASE DispatchCapture
    BY ONLY StacksInv, <1>0, <1>v, <2>3, DispatchCaptureShows
  <2> QED
    BY <1>11, <2>1, <2>2, <2>3 DEF Unwind
<1>12. CASE UNCHANGED vars
  <2>1. /\ stk' = stk /\ heap' = heap /\ hs' = hs /\ floor' = floor /\ mode' = mode /\ ks' = ks
        /\ pending' = pending /\ res' = res
    BY <1>12 DEF vars
  <2>2. Shows(V)'
    BY <1>v, <2>1 DEF Shows
  <2>3. Kont' = Kont
    <3>1. Kont = IF mode = "susp" THEN Whole(V, stk, ks, heap) ELSE V[Len(stk)].k
      BY <1>v, KontIs
    <3>2. Kont' = IF mode' = "susp" THEN Whole(V, stk', ks', heap') ELSE V[Len(stk')].k
      BY <1>0, <2>2, KontNext
    <3> QED
      BY ONLY <2>1, <3>1, <3>2
  <2>4. ResAre' = ResAre
    BY <2>1, ResSame
  <2>5. StIs' = StIs
    BY <2>1, StValues, StValuesNext
  <2> QED
    BY <2>2, <2>3, <2>4, <2>5, StutterFollows DEF KontInv
<1> QED
  BY <1>1, <1>2, <1>3, <1>4, <1>5, <1>6, <1>7, <1>8, <1>9, <1>10, <1>11, <1>12 DEF Next, Ended

\* The views are kept by every run of the runtime.
LEMMA KontInvariant == Separate => (Spec => [](StacksInv /\ KontInv))
<1> SUFFICES ASSUME Separate PROVE Spec => [](StacksInv /\ KontInv)
  OBVIOUS
<1>1. Init => StacksInv /\ KontInv
  BY StacksInvInit, KontInvInit
<1>2. StacksInv /\ KontInv /\ [Next]_vars => (StacksInv /\ KontInv)'
  BY StacksInvNext, KontInvNext
<1> QED
  BY <1>1, <1>2, PTL DEF Spec

\* The search of jq_perform finds the handler the interpreter would find.
THEOREM NativeSearchAgrees == Separate => (Spec => []SearchAgrees)
<1> SUFFICES ASSUME Separate PROVE Spec => []SearchAgrees
  OBVIOUS
<1>1. Spec => [](StacksInv /\ KontInv)
  BY KontInvariant
<1>2. StacksInv /\ KontInv => SearchAgrees
  BY SearchHolds DEF KontInv
<1> QED
  BY <1>1, <1>2, PTL

\* The runtime's stacks implement the interpreter's continuation.
THEOREM ImplementsEvalContinuation == Separate => (Spec => Refinement)
<1> SUFFICES ASSUME Separate PROVE Spec => Refinement
  OBVIOUS
<1>1. Init => StacksInv /\ A!AInit
  BY StacksInvInit, KontInvInit
<1>2. Spec => [](StacksInv /\ KontInv)
  BY KontInvariant
<1>3. StacksInv /\ KontInv /\ [Next]_vars => [A!ANext]_(A!avars)
  BY KontInvNext DEF Follows
<1> QED
  BY <1>1, <1>2, <1>3, PTL DEF Spec, Refinement, A!ASpec
============================================================================
