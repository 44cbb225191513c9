-------------------------- MODULE NativeHeapLemmas ---------------------------
(***************************************************************************)
(* Lemmas about NativeHeap for every finite heap, any variables, any size  *)
(* of a block, a stack and the pool, any program and any immortal count:   *)
(* counting references, the inductive invariant IInv, what every operator  *)
(* of the model does to counts that are right, and the steps that allocate *)
(* nothing.  NativeHeapProofs has the other steps and the theorems.        *)
(***************************************************************************)
EXTENDS NativeHeap, FiniteSetTheorems, SequenceTheorems, WellFoundedInduction, TLAPS

----------------------------------------------------------------------------
(* Counting: how many members of a finite set a function takes to a value. *)

CountOf(f, S, a) == Cardinality({x \in S : f[x] = a})
OneIf(p) == IF p THEN 1 ELSE 0

\* A count is a number, and zero when the value does not occur.
LEMMA CountNat ==
  ASSUME NEW S, IsFiniteSet(S), NEW f, NEW a
  PROVE  /\ CountOf(f, S, a) \in Nat
         /\ CountOf(f, S, a) = 0 <=> \A x \in S : f[x] # a
<1> DEFINE T == {x \in S : f[x] = a}
<1>1. T \in SUBSET S
  OBVIOUS
<1>2. IsFiniteSet(T)
  BY <1>1, FS_Subset
<1>3. Cardinality(T) \in Nat
  BY <1>2, FS_CardinalityType
<1>4. Cardinality(T) = 0 <=> T = {}
  BY <1>2, FS_EmptySet
<1> QED
  BY <1>3, <1>4 DEF CountOf

\* The count depends only on where the value is.
LEMMA CountSame ==
  ASSUME NEW S, NEW f, NEW g, NEW a, \A x \in S : (f[x] = a) <=> (g[x] = a)
  PROVE  CountOf(f, S, a) = CountOf(g, S, a)
<1>1. {x \in S : f[x] = a} = {x \in S : g[x] = a}
  OBVIOUS
<1> QED
  BY <1>1 DEF CountOf

\* Two sets without a common member are counted one after the other.
LEMMA CountSplit ==
  ASSUME NEW S, NEW T, IsFiniteSet(S), IsFiniteSet(T), S \cap T = {}, NEW f, NEW a
  PROVE  CountOf(f, S \cup T, a) = CountOf(f, S, a) + CountOf(f, T, a)
<1> DEFINE A == {x \in S : f[x] = a}
           B == {x \in T : f[x] = a}
<1>1. A \in SUBSET S /\ B \in SUBSET T /\ A \cap B = {} /\ A \cup B = {x \in S \cup T : f[x] = a}
  OBVIOUS
<1>2. IsFiniteSet(A) /\ IsFiniteSet(B)
  BY <1>1, FS_Subset
<1>3. Cardinality(A) \in Nat /\ Cardinality(B) \in Nat /\ Cardinality(A \cap B) = 0
  BY <1>1, <1>2, FS_CardinalityType, FS_EmptySet
<1> HIDE DEF A, B
<1>4. Cardinality(A \cup B) = Cardinality(A) + Cardinality(B) - Cardinality(A \cap B)
  BY <1>2, FS_Union
<1>5. Cardinality(A \cup B) = Cardinality(A) + Cardinality(B)
  BY <1>3, <1>4
<1> QED
  BY <1>1, <1>5 DEF CountOf, A, B

\* Counting along a one-to-one map gives the same.
LEMMA CountMoved ==
  ASSUME NEW S, NEW T, IsFiniteSet(S), NEW h \in [S -> T],
         \A x, y \in S : h[x] = h[y] => x = y,
         \A t \in T : \E x \in S : h[x] = t,
         NEW f, NEW g, NEW a, \A x \in S : (f[x] = a) <=> (g[h[x]] = a)
  PROVE  CountOf(g, T, a) = CountOf(f, S, a)
<1> DEFINE A == {x \in S : f[x] = a}
           B == {t \in T : g[t] = a}
           e == [x \in A |-> h[x]]
<1>1. IsFiniteSet(A)
  BY FS_Subset
<1>2. e \in [A -> B] /\ \A x, y \in A : e[x] = e[y] => x = y
  OBVIOUS
<1>3. \A t \in B : \E x \in A : e[x] = t
  OBVIOUS
<1> HIDE DEF A, B, e
<1>4. e \in Bijection(A, B)
  BY <1>2, <1>3 DEF Bijection, Injection, Surjection, IsInjective
<1>5. ExistsBijection(A, B)
  BY <1>4 DEF ExistsBijection
<1>6. Cardinality(B) = Cardinality(A)
  BY <1>1, <1>5, FS_Bijection
<1> QED
  BY <1>6 DEF CountOf, A, B

\* A single place counts once or not at all.
LEMMA CountOne ==
  ASSUME NEW x, NEW f, NEW a
  PROVE  IsFiniteSet({x}) /\ CountOf(f, {x}, a) = OneIf(f[x] = a)
<1>1. CASE f[x] = a
  <2>1. {y \in {x} : f[y] = a} = {x}
    BY <1>1
  <2> QED
    BY <1>1, <2>1, FS_Singleton DEF CountOf, OneIf
<1>2. CASE f[x] # a
  <2>1. {y \in {x} : f[y] = a} = {}
    BY <1>2
  <2> QED
    BY <1>2, <2>1, FS_Singleton, FS_EmptySet DEF CountOf, OneIf
<1> QED
  BY <1>1, <1>2

\* One place changes: the count loses the old value and gains the new.
LEMMA CountChanged ==
  ASSUME NEW S, IsFiniteSet(S), NEW x \in S, NEW f, NEW g, NEW a,
         \A y \in S \ {x} : g[y] = f[y]
  PROVE  CountOf(g, S, a) = CountOf(f, S, a) - OneIf(f[x] = a) + OneIf(g[x] = a)
<1> DEFINE R == S \ {x}
<1>1. S = R \cup {x} /\ R \cap {x} = {} /\ IsFiniteSet(R)
  BY FS_RemoveElement
<1>2. \A y \in R : (f[y] = a) <=> (g[y] = a)
  OBVIOUS
<1> HIDE DEF R
<1>3. CountOf(f, R, a) = CountOf(g, R, a) /\ CountOf(f, R, a) \in Nat
  BY <1>1, <1>2, CountSame, CountNat
<1>4. CountOf(f, R \cup {x}, a) = CountOf(f, R, a) + CountOf(f, {x}, a)
  BY <1>1, CountOne, CountSplit
<1>5. CountOf(g, R \cup {x}, a) = CountOf(g, R, a) + CountOf(g, {x}, a)
  BY <1>1, CountOne, CountSplit
<1>6. /\ CountOf(f, {x}, a) = OneIf(f[x] = a) /\ CountOf(g, {x}, a) = OneIf(g[x] = a)
      /\ OneIf(f[x] = a) \in Nat /\ OneIf(g[x] = a) \in Nat
  BY CountOne DEF OneIf
<1>7. /\ CountOf(f, S, a) = CountOf(f, R, a) + OneIf(f[x] = a)
      /\ CountOf(g, S, a) = CountOf(f, R, a) + OneIf(g[x] = a)
  BY <1>1, <1>3, <1>4, <1>5, <1>6
<1> QED
  BY <1>3, <1>6, <1>7

\* Two places that hold the same value are two owners.
LEMMA CountTwo ==
  ASSUME NEW S, IsFiniteSet(S), NEW x \in S, NEW y \in S, x # y, NEW f, NEW a,
         f[x] = a, f[y] = a
  PROVE  CountOf(f, S, a) >= 2
<1> DEFINE R == S \ {x}
<1>1. S = R \cup {x} /\ R \cap {x} = {} /\ IsFiniteSet(R) /\ y \in R
  BY FS_RemoveElement
<1> HIDE DEF R
<1>2. CountOf(f, R, a) \in Nat /\ CountOf(f, R, a) # 0
  BY <1>1, CountNat
<1>3. CountOf(f, R \cup {x}, a) = CountOf(f, R, a) + CountOf(f, {x}, a)
  BY <1>1, CountOne, CountSplit
<1>4. CountOf(f, {x}, a) = 1
  BY CountOne DEF OneIf
<1> QED
  BY <1>1, <1>2, <1>3, <1>4

----------------------------------------------------------------------------
(* Counting in sequences.                                                  *)

\* The model's count of a list is a count of its positions.
LEMMA CountInIs ==
  ASSUME NEW V, NEW s \in Seq(V), NEW a
  PROVE  /\ CountIn(s, a) = CountOf(s, 1 .. Len(s), a)
         /\ CountIn(s, a) \in Nat
         /\ CountIn(s, a) = 0 <=> \A i \in 1 .. Len(s) : s[i] # a
         /\ a \notin V => CountIn(s, a) = 0
<1>1. DOMAIN s = 1 .. Len(s) /\ Len(s) \in Nat /\ IsFiniteSet(1 .. Len(s))
  BY FS_Interval
<1>2. CountIn(s, a) = CountOf(s, 1 .. Len(s), a)
  BY <1>1 DEF CountIn, CountOf
<1>3. /\ CountOf(s, 1 .. Len(s), a) \in Nat
      /\ CountOf(s, 1 .. Len(s), a) = 0 <=> \A i \in 1 .. Len(s) : s[i] # a
  BY <1>1, CountNat
<1> QED
  BY <1>1, <1>2, <1>3

\* The empty list counts nothing.
LEMMA CountInEmpty ==
  ASSUME NEW a
  PROVE  CountIn(<< >>, a) = 0
<1>1. {i \in DOMAIN << >> : << >>[i] = a} = {}
  OBVIOUS
<1> QED
  BY <1>1, FS_EmptySet DEF CountIn

\* A list of one.
LEMMA CountInSingle ==
  ASSUME NEW v, NEW a
  PROVE  CountIn(<<v>>, a) = OneIf(v = a)
<1> DEFINE w == <<v>>
<1>1. w \in Seq({v}) /\ Len(w) = 1 /\ 1 .. 1 = {1} /\ w[1] = v
  OBVIOUS
<1> HIDE DEF w
<1>2. CountIn(w, a) = CountOf(w, 1 .. Len(w), a)
  BY <1>1, CountInIs
<1>3. CountIn(w, a) = OneIf(v = a)
  BY <1>1, <1>2, CountOne
<1> QED
  BY <1>3 DEF w

\* What is pushed in a block is counted apart.
LEMMA CountInConcat ==
  ASSUME NEW V, NEW s \in Seq(V), NEW t \in Seq(V), NEW a
  PROVE  CountIn(s \o t, a) = CountIn(s, a) + CountIn(t, a)
<1> DEFINE c == s \o t
           S == 1 .. Len(s)
           T == Len(s) + 1 .. Len(s) + Len(t)
<1>1. /\ c \in Seq(V) /\ Len(c) = Len(s) + Len(t) /\ Len(s) \in Nat /\ Len(t) \in Nat
      /\ \A i \in 1 .. Len(s) + Len(t) : c[i] = IF i <= Len(s) THEN s[i] ELSE t[i - Len(s)]
  BY ConcatProperties
<1>20. IsFiniteSet(S) /\ IsFiniteSet(T) /\ IsFiniteSet(1 .. Len(t))
  BY <1>1, FS_Interval
<1>2. 1 .. Len(c) = S \cup T /\ S \cap T = {}
  BY <1>1
<1> DEFINE h == [i \in 1 .. Len(t) |-> i + Len(s)]
<1>3. /\ h \in [1 .. Len(t) -> T]
      /\ \A i, j \in 1 .. Len(t) : h[i] = h[j] => i = j
      /\ \A i \in 1 .. Len(t) : (t[i] = a) <=> (c[h[i]] = a)
  BY <1>1
<1>4. \A k \in T : \E i \in 1 .. Len(t) : h[i] = k
  <2> TAKE k \in T
  <2>1. k - Len(s) \in 1 .. Len(t) /\ h[k - Len(s)] = k
    BY <1>1
  <2> QED
    BY <2>1
<1>5. \A i \in S : (c[i] = a) <=> (s[i] = a)
  BY <1>1
<1> HIDE DEF h, c, S, T
<1>6. CountOf(c, T, a) = CountOf(t, 1 .. Len(t), a)
  <2> DEFINE I == 1 .. Len(t)
  <2>1. IsFiniteSet(I) /\ h \in [I -> T]
    BY <1>20, <1>3
  <2>2. \A i, j \in I : h[i] = h[j] => i = j
    BY <1>3
  <2>3. \A i \in I : (t[i] = a) <=> (c[h[i]] = a)
    BY <1>3
  <2>4. \A k \in T : \E i \in I : h[i] = k
    BY <1>4
  <2> HIDE DEF I
  <2>5. CountOf(c, T, a) = CountOf(t, I, a)
    BY <2>1, <2>2, <2>3, <2>4, CountMoved, Z3
  <2> QED
    BY <2>5 DEF I
<1>7. CountOf(c, S, a) = CountOf(s, S, a)
  BY <1>5, CountSame
<1>8. CountOf(c, S \cup T, a) = CountOf(c, S, a) + CountOf(c, T, a)
  BY <1>2, <1>20, CountSplit
<1>11. CountIn(c, a) = CountOf(c, 1 .. Len(c), a)
  BY <1>1, CountInIs
<1>9. CountIn(c, a) = CountOf(s, S, a) + CountOf(t, 1 .. Len(t), a)
  BY <1>2, <1>6, <1>7, <1>8, <1>11
<1>10. CountIn(s, a) = CountOf(s, 1 .. Len(s), a) /\ CountIn(t, a) = CountOf(t, 1 .. Len(t), a)
  BY CountInIs
<1> QED
  BY <1>9, <1>10 DEF S, c

\* What is pushed is counted once more.
LEMMA CountInAppend ==
  ASSUME NEW V, NEW s \in Seq(V), NEW v \in V, NEW a
  PROVE  CountIn(Append(s, v), a) = CountIn(s, a) + OneIf(v = a)
<1>1. Append(s, v) = s \o <<v>> /\ <<v>> \in Seq(V)
  BY AppendIsConcat
<1>2. CountIn(s \o <<v>>, a) = CountIn(s, a) + CountIn(<<v>>, a)
  BY <1>1, CountInConcat
<1> QED
  BY <1>1, <1>2, CountInSingle

\* A stack cut in two is counted in two.
LEMMA CountInCut ==
  ASSUME NEW V, NEW s \in Seq(V), NEW p \in 1 .. Len(s), NEW a
  PROVE  CountIn(s, a) = CountIn(SubSeq(s, 1, p - 1), a) + CountIn(SubSeq(s, p, Len(s)), a)
<1>1. Len(s) \in Nat /\ p - 1 \in 0 .. Len(s) /\ (p - 1) + 1 = p
  OBVIOUS
<1>2. SubSeq(s, 1, p - 1) \o SubSeq(s, (p - 1) + 1, Len(s)) = SubSeq(s, 1, Len(s))
  BY <1>1, ConcatAdjacentSubSeq
<1>3. SubSeq(s, 1, Len(s)) = s
  BY SubSeqFull
<1>4. SubSeq(s, 1, p - 1) \in Seq(V) /\ SubSeq(s, p, Len(s)) \in Seq(V)
  BY <1>1, SubSeqProperties, ElementOfSeq
<1> DEFINE l == SubSeq(s, 1, p - 1)
           r == SubSeq(s, p, Len(s))
<1>5. l \o r = s
  BY <1>1, <1>2, <1>3
<1>6. l \in Seq(V) /\ r \in Seq(V)
  BY <1>4
<1> HIDE DEF l, r
<1>7. CountIn(l \o r, a) = CountIn(l, a) + CountIn(r, a)
  BY <1>6, CountInConcat
<1> QED
  BY <1>5, <1>7 DEF l, r

\* What is popped is counted once less.
LEMMA CountInPop ==
  ASSUME NEW V, NEW s \in Seq(V), s # << >>, NEW a
  PROVE  /\ Len(s) \in 1 .. Len(s)
         /\ SubSeq(s, 1, Len(s) - 1) \in Seq(V)
         /\ CountIn(SubSeq(s, 1, Len(s) - 1), a) = CountIn(s, a) - OneIf(s[Len(s)] = a)
<1>1. Len(s) \in Nat \ {0} /\ Len(s) \in 1 .. Len(s)
  BY EmptySeq
<1>2. SubSeq(s, Len(s), Len(s)) = <<s[Len(s)]>>
  <2>1. SubSeq(s, Len(s), Len(s)) = <<s[Len(s)]>> \o SubSeq(s, Len(s) + 1, Len(s))
    BY <1>1, SubSeqRecursiveFirst
  <2>2. SubSeq(s, Len(s) + 1, Len(s)) = << >>
    BY <1>1, SubSeqEmpty
  <2>3. <<s[Len(s)]>> \in Seq(V)
    BY <1>1, ElementOfSeq
  <2> QED
    BY <2>1, <2>2, <2>3, ConcatEmptySeq
<1>3. SubSeq(s, 1, Len(s) - 1) \in Seq(V)
  BY <1>1, SubSeqProperties, ElementOfSeq
<1>5. CountIn(SubSeq(s, 1, Len(s) - 1), a) \in Nat
  BY <1>3, CountInIs
<1>6. CountIn(s, a) = CountIn(SubSeq(s, 1, Len(s) - 1), a) + CountIn(SubSeq(s, Len(s), Len(s)), a)
  BY <1>1, CountInCut
<1>4. CountIn(s, a) = CountIn(SubSeq(s, 1, Len(s) - 1), a) + CountIn(<<s[Len(s)]>>, a)
  BY <1>2, <1>6
<1> QED
  BY <1>1, <1>3, <1>4, <1>5, CountInSingle DEF OneIf

\* Operands leave their variables: what they held is counted in their values.
LEMMA CountEmptied ==
  ASSUME NEW S, IsFiniteSet(S), Nil \notin S, NEW k \in Nat, NEW s \in [1 .. k -> S \cup {Nil}],
         \A i, j \in 1 .. k : s[i] = s[j] /\ i # j => s[i] = Nil,
         NEW f, NEW g, NEW vals, NEW a, a # Nil,
         \A x \in S : g[x] = IF x \in Range(s) THEN Nil ELSE f[x],
         vals = [i \in 1 .. k |-> IF s[i] = Nil THEN Nil ELSE f[s[i]]]
  PROVE  CountOf(g, S, a) = CountOf(f, S, a) - CountOf(vals, 1 .. k, a)
<1> DEFINE I == {i \in 1 .. k : s[i] # Nil}
           N == (1 .. k) \ I
           R == {x \in S : x \in Range(s)}
           Q == S \ R
           h == [i \in I |-> s[i]]
<1>1. IsFiniteSet(1 .. k) /\ I \in SUBSET (1 .. k) /\ N \in SUBSET (1 .. k) /\ R \in SUBSET S /\ Q \in SUBSET S
  BY FS_Interval
<1>2. IsFiniteSet(I) /\ IsFiniteSet(N) /\ IsFiniteSet(R) /\ IsFiniteSet(Q)
  BY <1>1, FS_Subset
<1>3. I \cup N = 1 .. k /\ I \cap N = {} /\ R \cup Q = S /\ R \cap Q = {}
  OBVIOUS
<1>4. h \in [I -> R] /\ \A i, j \in I : h[i] = h[j] => i = j
  BY DEF Range
<1>5. \A x \in R : \E i \in I : h[i] = x
  BY DEF Range
<1>6. \A i \in I : (vals[i] = a) <=> (f[h[i]] = a)
  OBVIOUS
<1>7. \A i \in N : vals[i] # a
  OBVIOUS
<1>8. \A x \in R : g[x] # a
  OBVIOUS
<1>9. \A x \in Q : (g[x] = a) <=> (f[x] = a)
  OBVIOUS
<1> HIDE DEF I, N, R, Q, h
<1>10. CountOf(f, R, a) = CountOf(vals, I, a)
  BY ONLY <1>2, <1>4, <1>5, <1>6, CountMoved, Z3T(30)
<1>17. CountOf(vals, N, a) = 0
  BY ONLY <1>2, <1>7, CountNat
<1>18. CountOf(g, R, a) = 0
  BY ONLY <1>2, <1>8, CountNat
<1>12. CountOf(g, Q, a) = CountOf(f, Q, a)
  BY <1>9, CountSame
<1>13. CountOf(vals, I \cup N, a) = CountOf(vals, I, a) + CountOf(vals, N, a)
  BY <1>2, <1>3, CountSplit
<1>14. CountOf(f, R \cup Q, a) = CountOf(f, R, a) + CountOf(f, Q, a)
  BY <1>2, <1>3, CountSplit
<1>15. CountOf(g, R \cup Q, a) = CountOf(g, R, a) + CountOf(g, Q, a)
  BY <1>2, <1>3, CountSplit
<1>16. CountOf(f, R, a) \in Nat /\ CountOf(f, Q, a) \in Nat /\ CountOf(vals, I, a) \in Nat
  BY <1>2, CountNat
<1>19. /\ CountOf(vals, 1 .. k, a) = CountOf(vals, I \cup N, a)
       /\ CountOf(f, S, a) = CountOf(f, R \cup Q, a)
       /\ CountOf(g, S, a) = CountOf(g, R \cup Q, a)
  BY <1>3, Zenon
<1> QED
  BY <1>10, <1>12, <1>13, <1>14, <1>15, <1>16, <1>17, <1>18, <1>19

\* A frame's slots move into the variables of the activation that enters it.
LEMMA CountEntered ==
  ASSUME NEW S, IsFiniteSet(S), NEW V, NEW t \in Seq(V), NEW s \in [1 .. Len(t) -> S],
         \A i, j \in 1 .. Len(t) : s[i] = s[j] => i = j,
         NEW f, NEW g, NEW a, \A i \in 1 .. Len(t) : f[s[i]] # a /\ g[s[i]] = t[i],
         \A x \in S : x \notin Range(s) => g[x] = f[x]
  PROVE  CountOf(g, S, a) = CountOf(f, S, a) + CountIn(t, a)
<1> DEFINE I == 1 .. Len(t)
           R == {x \in S : x \in Range(s)}
           Q == S \ R
           h == [i \in I |-> s[i]]
<1>1. IsFiniteSet(I) /\ R \in SUBSET S /\ Q \in SUBSET S
  BY FS_Interval
<1>2. IsFiniteSet(R) /\ IsFiniteSet(Q)
  BY <1>1, FS_Subset
<1>3. R \cup Q = S /\ R \cap Q = {}
  OBVIOUS
<1>4. h \in [I -> R] /\ \A i, j \in I : h[i] = h[j] => i = j
  BY DEF Range
<1>5. \A x \in R : \E i \in I : h[i] = x
  BY DEF Range
<1>6. \A i \in I : (t[i] = a) <=> (g[h[i]] = a)
  OBVIOUS
<1>7. \A x \in R : f[x] # a
  BY DEF Range
<1>8. \A x \in Q : (g[x] = a) <=> (f[x] = a)
  OBVIOUS
<1>9. CountIn(t, a) = CountOf(t, I, a) /\ CountIn(t, a) \in Nat
  BY CountInIs
<1> HIDE DEF I, R, Q, h
<1>10. CountOf(g, R, a) = CountOf(t, I, a)
  BY ONLY <1>1, <1>4, <1>5, <1>6, CountMoved, Z3T(30)
<1>11. CountOf(f, R, a) = 0 /\ CountOf(f, Q, a) \in Nat
  BY <1>2, <1>7, CountNat
<1>12. CountOf(g, Q, a) = CountOf(f, Q, a)
  BY <1>8, CountSame
<1>13. CountOf(f, R \cup Q, a) = CountOf(f, R, a) + CountOf(f, Q, a)
  BY <1>2, <1>3, CountSplit
<1>14. CountOf(g, R \cup Q, a) = CountOf(g, R, a) + CountOf(g, Q, a)
  BY <1>2, <1>3, CountSplit
<1>15. CountOf(f, S, a) = CountOf(f, R \cup Q, a) /\ CountOf(g, S, a) = CountOf(g, R \cup Q, a)
  BY <1>3, Zenon
<1> QED
  BY <1>9, <1>10, <1>11, <1>12, <1>13, <1>14, <1>15

----------------------------------------------------------------------------
(* Counting in a heap: a list of references for every address.             *)

AN == Addr \cup {Nil}
Slots(H) == {p \in Addr \X Nat : p[2] \in 1 .. Len(H[p[1]])}
At(H) == [p \in Slots(H) |-> H[p[1]][p[2]]]
HeapCount(H, a) == CountOf(At(H), Slots(H), a)
SlotsIn(H, F) == {p \in Slots(H) : p[1] \in F}

\* The heap has finitely many slots.
LEMMA SlotsFinite ==
  ASSUME NEW V, NEW H \in [Addr -> Seq(V)]
  PROVE  IsFiniteSet(Slots(H))
<1> DEFINE of == [b \in Addr |-> {p \in Addr \X Nat : p[1] = b /\ p[2] \in 1 .. Len(H[b])}]
           T == {of[b] : b \in Addr}
<1>1. of \in Surjection(Addr, T)
  BY DEF Surjection
<1>2. IsFiniteSet(T)
  BY <1>1, FS_Surjection, HeapAssumption
<1>3. ASSUME NEW b \in Addr PROVE IsFiniteSet(of[b])
  <2> DEFINE e == [i \in 1 .. Len(H[b]) |-> <<b, i>>]
  <2>1. Len(H[b]) \in Nat
    OBVIOUS
  <2>2. IsFiniteSet(1 .. Len(H[b]))
    BY <2>1, FS_Interval
  <2>3. e \in Surjection(1 .. Len(H[b]), of[b])
    <3>1. e \in [1 .. Len(H[b]) -> of[b]]
      BY <2>1
    <3>2. \A p \in of[b] : \E i \in 1 .. Len(H[b]) : e[i] = p
      <4> TAKE p \in of[b]
      <4>1. p[2] \in 1 .. Len(H[b]) /\ p = <<b, p[2]>>
        OBVIOUS
      <4> WITNESS p[2] \in 1 .. Len(H[b])
      <4> QED
        BY <4>1
    <3> HIDE DEF e, of
    <3> QED
      BY <3>1, <3>2 DEF Surjection
  <2> HIDE DEF of, e
  <2> QED
    BY <2>2, <2>3, FS_Surjection
<1>4. \A t \in T : IsFiniteSet(t)
  BY <1>3
<1>5. Slots(H) = UNION T
  BY DEF Slots
<1> HIDE DEF T
<1> QED
  BY <1>2, <1>4, <1>5, FS_UNION

\* The references in one block.
LEMMA CountInBlock ==
  ASSUME NEW V, NEW H \in [Addr -> Seq(V)], NEW b \in Addr, NEW a
  PROVE  CountOf(At(H), SlotsIn(H, {b}), a) = CountIn(H[b], a)
<1> DEFINE I == 1 .. Len(H[b])
           T == SlotsIn(H, {b})
           h == [i \in I |-> <<b, i>>]
<1>1. Len(H[b]) \in Nat /\ H[b] \in Seq(V)
  OBVIOUS
<1>2. IsFiniteSet(I)
  BY <1>1, FS_Interval
<1>3. h \in [I -> T]
  BY <1>1 DEF SlotsIn, Slots
<1>4. \A i, j \in I : h[i] = h[j] => i = j
  OBVIOUS
<1>5. \A p \in T : \E i \in I : h[i] = p
  <2> TAKE p \in T
  <2>1. p[2] \in I /\ p = <<b, p[2]>>
    BY DEF SlotsIn, Slots
  <2>2. h[p[2]] = p
    BY <2>1
  <2> QED
    BY <2>1, <2>2
<1>6. \A i \in I : (H[b][i] = a) <=> (At(H)[h[i]] = a)
  <2> TAKE i \in I
  <2>1. <<b, i>> \in Slots(H)
    BY <1>1 DEF Slots
  <2> QED
    BY <2>1 DEF At
<1> DEFINE f == H[b]
<1>7. CountIn(f, a) = CountOf(f, I, a)
  BY <1>1, CountInIs
<1>8. \A i \in I : (f[i] = a) <=> (At(H)[h[i]] = a)
  BY <1>6
<1> HIDE DEF I, T, h, f
<1>9. CountOf(At(H), T, a) = CountOf(f, I, a)
  BY <1>2, <1>3, <1>4, <1>5, <1>8, CountMoved, Z3T(30)
<1> QED
  BY <1>7, <1>9 DEF T, f

\* A set of blocks changes, the others do not.
LEMMA HeapCountSplit ==
  ASSUME NEW V, NEW H \in [Addr -> Seq(V)], NEW F, NEW a
  PROVE  /\ HeapCount(H, a) = CountOf(At(H), SlotsIn(H, F), a) + CountOf(At(H), SlotsIn(H, Addr \ F), a)
         /\ IsFiniteSet(SlotsIn(H, F)) /\ IsFiniteSet(SlotsIn(H, Addr \ F))
         /\ CountOf(At(H), SlotsIn(H, F), a) \in Nat /\ CountOf(At(H), SlotsIn(H, Addr \ F), a) \in Nat
<1> DEFINE A == SlotsIn(H, F)
           B == SlotsIn(H, Addr \ F)
<1>1. A \in SUBSET Slots(H) /\ B \in SUBSET Slots(H) /\ A \cup B = Slots(H) /\ A \cap B = {}
  BY DEF SlotsIn, Slots
<1>2. IsFiniteSet(A) /\ IsFiniteSet(B)
  BY <1>1, SlotsFinite, FS_Subset
<1> HIDE DEF A, B
<1>3. CountOf(At(H), A \cup B, a) = CountOf(At(H), A, a) + CountOf(At(H), B, a)
  BY <1>1, <1>2, CountSplit
<1>4. CountOf(At(H), A, a) \in Nat /\ CountOf(At(H), B, a) \in Nat
  BY <1>2, CountNat
<1> QED
  BY <1>1, <1>2, <1>3, <1>4 DEF HeapCount, A, B

Holding(H) == H \in [Addr -> Seq(AN)]
AgreeOn(G, H, E) == \A c \in Addr : c \in E => G[c] = H[c]

\* Blocks that hold the same count the same.
LEMMA CountElsewhere ==
  ASSUME NEW H, Holding(H), NEW G, Holding(G), NEW E, AgreeOn(G, H, E), NEW a
  PROVE  CountOf(At(G), SlotsIn(G, E), a) = CountOf(At(H), SlotsIn(H, E), a)
<1>a. H \in [Addr -> Seq(AN)] /\ G \in [Addr -> Seq(AN)] /\ \A c \in Addr : c \in E => G[c] = H[c]
  BY DEF Holding, AgreeOn
<1>1. SlotsIn(G, E) = SlotsIn(H, E)
  BY <1>a DEF SlotsIn, Slots
<1>2. \A p \in SlotsIn(H, E) : At(G)[p] = At(H)[p]
  <2> TAKE p \in SlotsIn(H, E)
  <2>1. p \in Slots(H) /\ p \in Slots(G) /\ p[1] \in Addr /\ p[1] \in E
    BY <1>1 DEF SlotsIn, Slots
  <2> QED
    BY <1>a, <2>1 DEF At
<1> DEFINE T == SlotsIn(H, E)
           f == At(H)
           g == At(G)
<1>3. \A p \in T : (g[p] = a) <=> (f[p] = a)
  BY <1>2
<1> HIDE DEF T, f, g
<1>4. CountOf(g, T, a) = CountOf(f, T, a)
  BY ONLY <1>3, CountSame
<1> QED
  BY <1>1, <1>4 DEF T, f, g

AgreeBut(G, H, b) == \A c \in Addr : c # b => G[c] = H[c]

\* One block changes what it owns.
LEMMA HeapCountMoved ==
  ASSUME NEW H, NEW G, Holding(H), Holding(G), NEW b \in Addr, AgreeBut(G, H, b), NEW a
  PROVE  HeapCount(G, a) = HeapCount(H, a) - CountIn(H[b], a) + CountIn(G[b], a)
<1>a. /\ H \in [Addr -> Seq(AN)] /\ G \in [Addr -> Seq(AN)]
      /\ \A c \in Addr : c # b => G[c] = H[c]
  BY DEF Holding, AgreeBut
<1> DEFINE F == {b}
           E == Addr \ {b}
<1>0. E = Addr \ F /\ \A c \in Addr : c \in E => G[c] = H[c]
  BY <1>a
<1> HIDE DEF E
<1>1. HeapCount(H, a) = CountOf(At(H), SlotsIn(H, F), a) + CountOf(At(H), SlotsIn(H, Addr \ F), a)
  BY <1>a, HeapCountSplit
<1>2. HeapCount(G, a) = CountOf(At(G), SlotsIn(G, F), a) + CountOf(At(G), SlotsIn(G, Addr \ F), a)
  BY <1>a, HeapCountSplit
<1>3. CountOf(At(G), SlotsIn(G, E), a) = CountOf(At(H), SlotsIn(H, E), a)
  <2>1. AgreeOn(G, H, E)
    BY <1>0 DEF AgreeOn
  <2> QED
    BY ONLY <2>1, Holding(H), Holding(G), CountElsewhere
<1>4. CountOf(At(H), SlotsIn(H, F), a) = CountIn(H[b], a)
  BY <1>a, CountInBlock
<1>5. CountOf(At(G), SlotsIn(G, F), a) = CountIn(G[b], a)
  BY <1>a, CountInBlock
<1>6. CountOf(At(H), SlotsIn(H, Addr \ F), a) \in Nat /\ CountOf(At(H), SlotsIn(H, F), a) \in Nat
  BY <1>a, HeapCountSplit
<1>7. CountOf(At(G), SlotsIn(G, F), a) \in Nat
  BY <1>a, HeapCountSplit
<1>8. CountOf(At(G), SlotsIn(G, Addr \ F), a) = CountOf(At(H), SlotsIn(H, Addr \ F), a)
  BY <1>0, <1>3, Zenon
<1> QED
  BY <1>1, <1>2, <1>4, <1>5, <1>6, <1>7, <1>8

\* The heap counts with numbers, and nothing means no slot.
LEMMA HeapCountNat ==
  ASSUME NEW V, NEW H \in [Addr -> Seq(V)], NEW a
  PROVE  /\ HeapCount(H, a) \in Nat
         /\ \A b \in Addr : CountIn(H[b], a) \in Nat /\ CountIn(H[b], a) <= HeapCount(H, a)
         /\ HeapCount(H, a) = 0 => \A b \in Addr : \A i \in 1 .. Len(H[b]) : H[b][i] # a
<1>1. HeapCount(H, a) \in Nat
  BY SlotsFinite, CountNat DEF HeapCount
<1>2. ASSUME NEW b \in Addr PROVE CountIn(H[b], a) \in Nat /\ CountIn(H[b], a) <= HeapCount(H, a)
  <2>1. CountOf(At(H), SlotsIn(H, {b}), a) = CountIn(H[b], a)
    BY CountInBlock
  <2>2. /\ HeapCount(H, a) = CountOf(At(H), SlotsIn(H, {b}), a) + CountOf(At(H), SlotsIn(H, Addr \ {b}), a)
        /\ CountOf(At(H), SlotsIn(H, {b}), a) \in Nat /\ CountOf(At(H), SlotsIn(H, Addr \ {b}), a) \in Nat
    BY HeapCountSplit
  <2> QED
    BY <2>1, <2>2
<1>3. ASSUME HeapCount(H, a) = 0, NEW b \in Addr, NEW i \in 1 .. Len(H[b]) PROVE H[b][i] # a
  <2> DEFINE s == H[b]
  <2>1. s \in Seq(V)
    OBVIOUS
  <2>2. CountIn(s, a) = 0
    BY <1>1, <1>2, <1>3
  <2>3. CountIn(s, a) = 0 <=> \A j \in 1 .. Len(s) : s[j] # a
    BY <2>1, CountInIs
  <2> QED
    BY <2>2, <2>3
<1> QED
  BY <1>1, <1>2, <1>3

----------------------------------------------------------------------------
(* The inductive invariant.                                                *)

FrameTags == {"frame", "handler"}
ValueTags == {"tuple", "con", "closure", "resume", "leaf"}
Block == [tag : Tags \cup {"none"}, rc : Nat, fields : Seq(AN), self : Nat, pooled : BOOLEAN]
TypeInv ==
  /\ block \in [Addr -> Block] /\ class \in [Addr -> 0 .. PoolWords]
  /\ freelist \in [1 .. PoolWords -> Seq(Addr)]
  /\ local \in [Locals -> AN]
  /\ ks \in Seq([fr : Addr, pins : Seq(Locals)]) /\ hs \in Seq([clause : AN, hf : Addr])
  /\ work \in SUBSET Addr
  /\ token \in [on : BOOLEAN, shell : AN, next : Nat, arity : Nat]
  /\ chain \in [of : AN, made : Seq(Addr)] /\ budget \in [Tags -> Nat]

\* A block on its own.
Shaped(b, a) ==
  /\ b.tag = "none" => b = Dead
  /\ b.tag = "handler" => Len(b.fields) = 2
  /\ b.tag = "resume" => b.fields # << >>
  /\ b.tag = "leaf" => b.fields = << >>
  /\ b.self \in 0 .. Len(b.fields)
  /\ b.self # 0 => b.tag = "closure" /\ b.fields[b.self] = a
  /\ b.rc <= RcStatic
  /\ b.tag \in FrameTags => b.rc <= 1
ShapeInv == \A a \in Addr : Shaped(block[a], a)

\* The slots of a block that own what they hold, and what each block owns.
IsMirror(b) == \E i \in 1 .. Len(ks) : ks[i].fr = b /\ ks[i].pins # << >>
Released(b, i) == token.shell = b /\ i < token.next
HeldBy(b) == [i \in 1 .. Len(block[b].fields) |->
                IF IsMirror(b) \/ i = block[b].self \/ Released(b, i) THEN Nil ELSE block[b].fields[i]]
Held == [b \in Addr |-> HeldBy(b)]
Clauses == [i \in 1 .. Len(hs) |-> hs[i].clause]
Framed == [i \in 1 .. Len(ks) |-> ks[i].fr]
\* Who owns an address, counted.
Total(a) ==
  CountOf(local, Locals, a) + CountIn(Clauses, a) + CountIn(Framed, a) + CountIn(chain.made, a)
  + HeapCount(Held, a) + OneIf(token.shell = a)
Exact(rc, n) == rc = RcStatic \/ rc = n
CountInv ==
  /\ \A a \in Addr : Exact(block[a].rc, Total(a))
  /\ work = {a \in Addr : block[a].tag # "none" /\ block[a].rc = 0}

\* Frames and values are kept apart.
IsValue(bs, v) == v = Nil \/ bs[v].tag \in ValueTags
IsFrame(bs, v) == v \in Addr /\ bs[v].tag \in FrameTags
SortInv ==
  /\ \A x \in Locals : IsValue(block, local[x])
  /\ \A i \in 1 .. Len(hs) : IsValue(block, hs[i].clause)
  /\ \A i \in 1 .. Len(ks) : IsFrame(block, ks[i].fr)
  /\ \A i \in 1 .. Len(chain.made) : IsFrame(block, chain.made[i])
  /\ \A b \in Addr : \A i \in 1 .. Len(block[b].fields) :
        \/ Released(b, i)
        \/ IF block[b].tag = "resume" THEN IsFrame(block, block[b].fields[i]) ELSE IsValue(block, block[b].fields[i])

PinInv ==
  /\ \A i \in 1 .. Len(ks) : ks[i].pins # << >> =>
        /\ block[ks[i].fr].tag = "frame" /\ Len(block[ks[i].fr].fields) = Len(ks[i].pins)
        /\ \A j \in 1 .. Len(ks[i].pins) : block[ks[i].fr].fields[j] = local[ks[i].pins[j]]
  /\ \A i, k \in 1 .. Len(ks) : \A j \in 1 .. Len(ks[i].pins) : \A l \in 1 .. Len(ks[k].pins) :
        ks[i].pins[j] = ks[k].pins[l] => i = k /\ j = l

\* The handler stack is the frame stack's handlers, in order.
HandlerInv ==
  /\ \A p \in 1 .. Len(ks) : block[ks[p].fr].tag = "handler" => \E i \in 1 .. Len(hs) : hs[i].hf = ks[p].fr
  /\ \A i \in 1 .. Len(hs) : \E p \in 1 .. Len(ks) : hs[i].hf = ks[p].fr /\ block[ks[p].fr].tag = "handler"
  /\ \A i, j \in 1 .. Len(hs) : \A p, q \in 1 .. Len(ks) :
        hs[i].hf = ks[p].fr /\ hs[j].hf = ks[q].fr => (i < j <=> p < q)

TokenInv ==
  token.shell # Nil =>
    /\ token.on /\ block[token.shell].tag = "con" /\ block[token.shell].rc = 1
    /\ token.arity = Len(block[token.shell].fields) /\ token.next >= 1
ChainInv ==
  /\ chain.of = Nil => chain.made = << >>
  /\ chain.of # Nil => /\ work = {} /\ ~token.on /\ block[chain.of].tag = "resume"
                       /\ (\E x \in Locals : local[x] = chain.of)
                       /\ Len(chain.made) <= Len(block[chain.of].fields)

PoolInv ==
  /\ \A a \in Addr : block[a].tag # "none" =>
        /\ class[a] = IF block[a].pooled THEN Words(block[a].tag, Len(block[a].fields)) ELSE 0
        /\ block[a].pooled => class[a] # 0
  /\ \A n \in 1 .. PoolWords :
        /\ \A i, j \in 1 .. Len(freelist[n]) : freelist[n][i] = freelist[n][j] => i = j
        /\ \A a \in Addr : (\E i \in 1 .. Len(freelist[n]) : freelist[n][i] = a)
                              <=> class[a] = n /\ block[a].tag = "none"

IInv == /\ TypeInv /\ ShapeInv /\ CountInv /\ SortInv /\ PinInv /\ HandlerInv
        /\ TokenInv /\ ChainInv /\ PoolInv

----------------------------------------------------------------------------
(* What dup and drop do to a block.                                        *)

SameShape(b, c) == b.tag = c.tag /\ b.fields = c.fields /\ b.self = c.self /\ b.pooled = c.pooled

\* The immortal count is none a block starts with.
LEMMA RcStaticIs == RcStatic \in Nat /\ RcStatic >= 2
  BY HeapAssumption

\* jq_dup raises a count by the references made, up to the immortal one, and
\* changes nothing else of a block.
LEMMA DupedIs ==
  ASSUME NEW bs \in [Addr -> Block], NEW V, NEW s \in Seq(V), NEW a \in Addr
  PROVE  /\ Duped(bs, s) \in [Addr -> Block]
         /\ SameShape(Duped(bs, s)[a], bs[a])
         /\ \A n \in Nat : Exact(bs[a].rc, n) => Exact(Duped(bs, s)[a].rc, n + CountIn(s, a))
         /\ bs[a].rc <= RcStatic => Duped(bs, s)[a].rc <= RcStatic /\ Duped(bs, s)[a].rc >= bs[a].rc
         /\ CountIn(s, a) = 0 /\ bs[a].rc <= RcStatic => Duped(bs, s)[a] = bs[a]
<1>1. \A c \in Addr : CountIn(s, c) \in Nat
  BY CountInIs
<1>2. RcStatic \in Nat
  BY RcStaticIs
<1> DEFINE D(c) == IF bs[c].rc = RcStatic THEN bs[c]
                    ELSE [bs[c] EXCEPT !.rc = IF @ + CountIn(s, c) >= RcStatic THEN RcStatic ELSE @ + CountIn(s, c)]
<1>3. ASSUME NEW c \in Addr PROVE D(c) \in Block /\ SameShape(D(c), bs[c])
  <2>1. bs[c] \in Block /\ CountIn(s, c) \in Nat /\ bs[c].rc \in Nat
    BY <1>1 DEF Block
  <2> DEFINE r == IF bs[c].rc + CountIn(s, c) >= RcStatic THEN RcStatic ELSE bs[c].rc + CountIn(s, c)
  <2>2. r \in Nat
    BY <1>2, <2>1
  <2>3. D(c) = IF bs[c].rc = RcStatic THEN bs[c] ELSE [bs[c] EXCEPT !.rc = r]
    OBVIOUS
  <2> HIDE DEF r, D
  <2> QED
    BY <2>1, <2>2, <2>3 DEF Block, SameShape
<1>4. Duped(bs, s) = [c \in Addr |-> D(c)]
  BY DEF Duped
<1>5. D(a).rc = IF bs[a].rc = RcStatic THEN RcStatic
                ELSE IF bs[a].rc + CountIn(s, a) >= RcStatic THEN RcStatic ELSE bs[a].rc + CountIn(s, a)
  BY DEF Block
<1>6. bs[a].rc \in Nat /\ bs[a] \in Block
  BY DEF Block
<1>7. CountIn(s, a) = 0 /\ bs[a].rc <= RcStatic => D(a) = bs[a]
  BY <1>2, <1>6 DEF Block
<1> HIDE DEF D
<1>8. Duped(bs, s) \in [Addr -> Block] /\ Duped(bs, s)[a] = D(a)
  BY <1>3, <1>4
<1>9. \A n \in Nat : Exact(bs[a].rc, n) => Exact(D(a).rc, n + CountIn(s, a))
  BY <1>1, <1>2, <1>5, <1>6 DEF Exact
<1>10. bs[a].rc <= RcStatic => D(a).rc <= RcStatic /\ D(a).rc >= bs[a].rc
  BY <1>1, <1>2, <1>5, <1>6
<1>11. SameShape(D(a), bs[a])
  BY <1>3
<1> QED
  BY <1>7, <1>8, <1>9, <1>10, <1>11

\* A block that gives up fewer references than it has.
LEMMA DroppedIs ==
  ASSUME NEW bs \in [Addr -> Block], NEW V, NEW s \in Seq(V),
         \A c \in Addr : \E n \in Nat : Exact(bs[c].rc, n) /\ CountIn(s, c) <= n,
         NEW a \in Addr
  PROVE  /\ Dropped(bs, s) \in [Addr -> Block]
         /\ SameShape(Dropped(bs, s)[a], bs[a])
         /\ \A n \in Nat : Exact(bs[a].rc, n) => Exact(Dropped(bs, s)[a].rc, n - CountIn(s, a))
         /\ Dropped(bs, s)[a].rc <= bs[a].rc
         /\ CountIn(s, a) = 0 => Dropped(bs, s)[a] = bs[a]
<1>1. \A c \in Addr : CountIn(s, c) \in Nat
  BY CountInIs
<1>2. RcStatic \in Nat
  BY RcStaticIs
<1> DEFINE D(c) == IF bs[c].rc = RcStatic THEN bs[c] ELSE [bs[c] EXCEPT !.rc = @ - CountIn(s, c)]
<1>3. ASSUME NEW c \in Addr PROVE D(c) \in Block /\ SameShape(D(c), bs[c])
  <2>1. bs[c].rc = RcStatic \/ bs[c].rc - CountIn(s, c) \in Nat
    BY <1>1 DEF Exact
  <2> QED
    BY <1>1, <1>2, <2>1 DEF Block, SameShape
<1>4. Dropped(bs, s) = [c \in Addr |-> D(c)]
  BY DEF Dropped
<1>5. D(a).rc = IF bs[a].rc = RcStatic THEN RcStatic ELSE bs[a].rc - CountIn(s, a)
  BY DEF Block
<1>6. bs[a].rc \in Nat /\ bs[a] \in Block
  BY DEF Block
<1>7. CountIn(s, a) = 0 => D(a) = bs[a]
  BY <1>2, <1>6 DEF Block
<1> HIDE DEF D
<1>8. Dropped(bs, s) \in [Addr -> Block] /\ Dropped(bs, s)[a] = D(a)
  BY <1>3, <1>4
<1>9. \A n \in Nat : Exact(bs[a].rc, n) => Exact(D(a).rc, n - CountIn(s, a))
  BY <1>1, <1>2, <1>5, <1>6 DEF Exact
<1>10. D(a).rc <= bs[a].rc
  BY <1>1, <1>2, <1>5, <1>6
<1>11. SameShape(D(a), bs[a])
  BY <1>3
<1> QED
  BY <1>7, <1>8, <1>9, <1>10, <1>11

\* The blocks whose count has reached zero.
DyingIn(bs) == {a \in Addr : bs[a].tag # "none" /\ bs[a].rc = 0}

\* jq_drop: the blocks that must be freed are those whose last reference went.
LEMMA ZeroedIs ==
  ASSUME NEW bs \in [Addr -> Block], \A c \in Addr : bs[c].tag = "none" => bs[c].rc = 0,
         NEW s \in Seq(AN),
         \A c \in Addr : \E n \in Nat : Exact(bs[c].rc, n) /\ CountIn(s, c) <= n
  PROVE  /\ Zeroed(bs, s) \in SUBSET Addr
         /\ DyingIn(Dropped(bs, s)) = DyingIn(bs) \cup Zeroed(bs, s)
         /\ \A c \in Zeroed(bs, s) : bs[c].rc # 0
<1>1. \A c \in Addr : CountIn(s, c) \in Nat /\ (CountIn(s, c) = 0 <=> \A i \in 1 .. Len(s) : s[i] # c)
  BY CountInIs
<1>2. RcStatic \in Nat /\ RcStatic >= 2
  BY RcStaticIs
<1>3. DOMAIN s = 1 .. Len(s)
  OBVIOUS
<1>4. Range(s) = {s[i] : i \in 1 .. Len(s)}
  BY <1>3 DEF Range
<1>5. \A i \in 1 .. Len(s) : s[i] \in AN
  BY ElementOfSeq
<1>6. ASSUME NEW c
      PROVE  c \in Zeroed(bs, s) <=> c \in Addr /\ CountIn(s, c) # 0 /\ bs[c].rc # RcStatic /\ bs[c].rc = CountIn(s, c)
  <2>1. c \in Range(s) \ {Nil} <=> c \in Addr /\ \E i \in 1 .. Len(s) : s[i] = c
    BY <1>4, <1>5, HeapAssumption DEF AN
  <2> QED
    BY <1>1, <2>1 DEF Zeroed
<1>7. ASSUME NEW c \in Addr
      PROVE  c \in DyingIn(Dropped(bs, s)) <=> c \in DyingIn(bs) \/ c \in Zeroed(bs, s)
  <2>1. PICK n \in Nat : Exact(bs[c].rc, n) /\ CountIn(s, c) <= n
    OBVIOUS
  <2>2. SameShape(Dropped(bs, s)[c], bs[c]) /\ Exact(Dropped(bs, s)[c].rc, n - CountIn(s, c))
        /\ (CountIn(s, c) = 0 => Dropped(bs, s)[c] = bs[c])
    BY <2>1, DroppedIs
  <2>3. bs[c].rc \in Nat
    BY DEF Block
  <2>4. bs[c].rc = RcStatic => Dropped(bs, s)[c] = bs[c]
    BY DEF Dropped
  <2>5. c \in DyingIn(Dropped(bs, s)) <=> bs[c].tag # "none" /\ Dropped(bs, s)[c].rc = 0
    BY <2>2 DEF DyingIn, SameShape
  <2>6. c \in DyingIn(bs) <=> bs[c].tag # "none" /\ bs[c].rc = 0
    BY DEF DyingIn
  <2>7. CASE CountIn(s, c) = 0
    BY <1>6, <2>2, <2>5, <2>6, <2>7
  <2>8. CASE bs[c].rc = RcStatic
    BY <1>6, <2>4, <2>5, <2>6, <2>8
  <2>9. CASE CountIn(s, c) # 0 /\ bs[c].rc # RcStatic
    <3>1. bs[c].rc = n /\ CountIn(s, c) \in Nat /\ CountIn(s, c) > 0 /\ bs[c].rc # 0 /\ bs[c].tag # "none"
      BY <1>1, <2>1, <2>9 DEF Exact
    <3>2. Dropped(bs, s)[c].rc = n - CountIn(s, c)
      <4>1. Dropped(bs, s)[c] = [bs[c] EXCEPT !.rc = @ - CountIn(s, c)]
        BY <2>9 DEF Dropped
      <4>2. bs[c] \in Block
        OBVIOUS
      <4> QED
        BY <3>1, <4>1, <4>2 DEF Block
    <3> QED
      BY <1>6, <2>5, <2>6, <2>9, <3>1, <3>2
  <2> QED
    BY <2>7, <2>8, <2>9
<1>8. DyingIn(Dropped(bs, s)) \subseteq Addr /\ DyingIn(bs) \subseteq Addr /\ Zeroed(bs, s) \subseteq Addr
  BY <1>6 DEF DyingIn
<1>9. DyingIn(Dropped(bs, s)) = DyingIn(bs) \cup Zeroed(bs, s)
  BY <1>7, <1>8
<1> QED
  BY <1>6, <1>8, <1>9

----------------------------------------------------------------------------
(* The owners of an address, kind by kind.                                 *)

LocalCount(a) == CountOf(local, Locals, a)
ClauseCount(a) == CountIn(Clauses, a)
FramedCount(a) == CountIn(Framed, a)
MadeCount(a) == CountIn(chain.made, a)
HeldCount(a) == HeapCount(Held, a)
ShellCount(a) == OneIf(token.shell = a)

\* The owners of a block by kind.
LEMMA TotalIs ==
  ASSUME NEW a
  PROVE  Total(a) = LocalCount(a) + ClauseCount(a) + FramedCount(a) + MadeCount(a) + HeldCount(a) + ShellCount(a)
BY DEF Total, LocalCount, ClauseCount, FramedCount, MadeCount, HeldCount, ShellCount

\* The stacks seen as lists of what they own.
LEMMA SeqsTyped ==
  TypeInv => /\ Clauses \in Seq(AN) /\ Framed \in Seq(Addr) /\ Len(Clauses) = Len(hs) /\ Len(Framed) = Len(ks)
             /\ \A i \in 1 .. Len(hs) : Clauses[i] = hs[i].clause
             /\ \A i \in 1 .. Len(ks) : Framed[i] = ks[i].fr
             /\ chain.made \in Seq(Addr)
<1> SUFFICES ASSUME TypeInv PROVE SeqsTyped!2
  OBVIOUS
<1>0. ks \in Seq([fr : Addr, pins : Seq(Locals)]) /\ hs \in Seq([clause : AN, hf : Addr])
  BY DEF TypeInv
<1>1. /\ \A i \in 1 .. Len(hs) : hs[i].clause \in AN
      /\ \A i \in 1 .. Len(ks) : ks[i].fr \in Addr
      /\ Len(hs) \in Nat /\ Len(ks) \in Nat
  <2>1. \A i \in 1 .. Len(hs) : hs[i] \in [clause : AN, hf : Addr]
    BY <1>0, ElementOfSeq
  <2>2. \A i \in 1 .. Len(ks) : ks[i] \in [fr : Addr, pins : Seq(Locals)]
    BY <1>0, ElementOfSeq
  <2> QED
    BY <1>0, <2>1, <2>2, LenProperties
<1>2. Clauses \in Seq(AN) /\ Len(Clauses) = Len(hs)
  BY <1>1 DEF Clauses
<1>3. Framed \in Seq(Addr) /\ Len(Framed) = Len(ks)
  BY <1>1 DEF Framed
<1>4. chain.made \in Seq(Addr)
  BY DEF TypeInv
<1> QED
  BY <1>1, <1>2, <1>3, <1>4 DEF Clauses, Framed

\* What a block owns is a list as long as its fields.
LEMMA HeldTyped ==
  TypeInv => /\ Held \in [Addr -> Seq(AN)]
             /\ \A b \in Addr : /\ Held[b] = HeldBy(b) /\ HeldBy(b) \in Seq(AN)
                                /\ Len(HeldBy(b)) = Len(block[b].fields) /\ block[b].fields \in Seq(AN)
<1> SUFFICES ASSUME TypeInv, NEW b \in Addr
             PROVE  HeldBy(b) \in Seq(AN) /\ Len(HeldBy(b)) = Len(block[b].fields) /\ block[b].fields \in Seq(AN)
  BY DEF Held
<1>1. block[b].fields \in Seq(AN)
  BY DEF TypeInv, Block
<1>2. Len(block[b].fields) \in Nat /\ \A i \in 1 .. Len(block[b].fields) : block[b].fields[i] \in AN
  BY <1>1
<1>3. Nil \in AN
  BY DEF AN
<1> QED
  BY <1>1, <1>2, <1>3 DEF HeldBy

\* What a count of zero means.
Unowned(a) ==
  /\ \A x \in Locals : local[x] # a
  /\ \A i \in 1 .. Len(hs) : hs[i].clause # a
  /\ \A i \in 1 .. Len(ks) : ks[i].fr # a
  /\ \A i \in 1 .. Len(chain.made) : chain.made[i] # a
  /\ \A b \in Addr : \A i \in 1 .. Len(block[b].fields) :
        IsMirror(b) \/ i = block[b].self \/ Released(b, i) \/ block[b].fields[i] # a
  /\ token.shell # a

\* Each kind of owner is counted by a number, which is zero when there is
\* none.
LEMMA CountsTyped ==
  ASSUME TypeInv, NEW a \in Addr
  PROVE  /\ LocalCount(a) \in Nat /\ (LocalCount(a) = 0 <=> \A x \in Locals : local[x] # a)
         /\ ClauseCount(a) \in Nat /\ (ClauseCount(a) = 0 <=> \A i \in 1 .. Len(hs) : hs[i].clause # a)
         /\ FramedCount(a) \in Nat /\ (FramedCount(a) = 0 <=> \A i \in 1 .. Len(ks) : ks[i].fr # a)
         /\ MadeCount(a) \in Nat /\ (MadeCount(a) = 0 <=> \A i \in 1 .. Len(chain.made) : chain.made[i] # a)
         /\ HeldCount(a) \in Nat
         /\ HeldCount(a) = 0 => \A b \in Addr : \A i \in 1 .. Len(block[b].fields) :
               IsMirror(b) \/ i = block[b].self \/ Released(b, i) \/ block[b].fields[i] # a
         /\ \A b \in Addr : CountIn(HeldBy(b), a) \in Nat /\ CountIn(HeldBy(b), a) <= HeldCount(a)
         /\ ShellCount(a) \in Nat /\ (ShellCount(a) = 0 <=> token.shell # a)
<1>1. LocalCount(a) \in Nat /\ (LocalCount(a) = 0 <=> \A x \in Locals : local[x] # a)
  BY CountNat, HeapAssumption DEF LocalCount
<1>2. ClauseCount(a) \in Nat /\ (ClauseCount(a) = 0 <=> \A i \in 1 .. Len(hs) : hs[i].clause # a)
  <2>1. Clauses \in Seq(AN) /\ Len(Clauses) = Len(hs) /\ \A i \in 1 .. Len(hs) : Clauses[i] = hs[i].clause
    BY SeqsTyped
  <2>2. CountIn(Clauses, a) \in Nat /\ (CountIn(Clauses, a) = 0 <=> \A i \in 1 .. Len(Clauses) : Clauses[i] # a)
    BY ONLY <2>1, CountInIs
  <2> QED
    BY <2>1, <2>2 DEF ClauseCount
<1>3. FramedCount(a) \in Nat /\ (FramedCount(a) = 0 <=> \A i \in 1 .. Len(ks) : ks[i].fr # a)
  <2>1. Framed \in Seq(Addr) /\ Len(Framed) = Len(ks) /\ \A i \in 1 .. Len(ks) : Framed[i] = ks[i].fr
    BY SeqsTyped
  <2>2. CountIn(Framed, a) \in Nat /\ (CountIn(Framed, a) = 0 <=> \A i \in 1 .. Len(Framed) : Framed[i] # a)
    BY ONLY <2>1, CountInIs
  <2> QED
    BY <2>1, <2>2 DEF FramedCount
<1>4. MadeCount(a) \in Nat /\ (MadeCount(a) = 0 <=> \A i \in 1 .. Len(chain.made) : chain.made[i] # a)
  <2>1. chain.made \in Seq(Addr)
    BY SeqsTyped
  <2>2. CountIn(chain.made, a) \in Nat /\ (CountIn(chain.made, a) = 0 <=> \A i \in 1 .. Len(chain.made) : chain.made[i] # a)
    BY ONLY <2>1, CountInIs
  <2> QED
    BY <2>1, <2>2 DEF MadeCount
<1>5. /\ HeldCount(a) \in Nat
      /\ \A b \in Addr : CountIn(Held[b], a) \in Nat /\ CountIn(Held[b], a) <= HeldCount(a)
      /\ HeldCount(a) = 0 => \A b \in Addr : \A i \in 1 .. Len(Held[b]) : Held[b][i] # a
  <2>1. Held \in [Addr -> Seq(AN)]
    BY HeldTyped
  <2> QED
    BY ONLY <2>1, HeapCountNat DEF HeldCount
<1>6. \A b \in Addr : Held[b] = HeldBy(b) /\ Len(HeldBy(b)) = Len(block[b].fields)
  BY HeldTyped
<1>7. ASSUME HeldCount(a) = 0, NEW b \in Addr, NEW i \in 1 .. Len(block[b].fields),
             ~IsMirror(b), i # block[b].self, ~Released(b, i)
      PROVE  block[b].fields[i] # a
  <2>1. HeldBy(b)[i] # a
    BY <1>5, <1>6, <1>7
  <2>2. HeldBy(b)[i] = block[b].fields[i]
    BY <1>7 DEF HeldBy
  <2> QED
    BY <2>1, <2>2
<1>8. ShellCount(a) \in Nat /\ (ShellCount(a) = 0 <=> token.shell # a)
  BY DEF ShellCount, OneIf
<1>9. \A b \in Addr : CountIn(HeldBy(b), a) \in Nat /\ CountIn(HeldBy(b), a) <= HeldCount(a)
  BY <1>5, <1>6
<1> QED
  BY <1>1, <1>2, <1>3, <1>4, <1>5, <1>7, <1>8, <1>9

\* A total of zero means that no variable, stack, slot or token refers to the
\* block.
LEMMA NobodyOwns ==
  ASSUME TypeInv, NEW a \in Addr
  PROVE  Total(a) \in Nat /\ (Total(a) = 0 => Unowned(a))
<1>1. /\ LocalCount(a) \in Nat /\ ClauseCount(a) \in Nat /\ FramedCount(a) \in Nat
      /\ MadeCount(a) \in Nat /\ HeldCount(a) \in Nat /\ ShellCount(a) \in Nat
  BY CountsTyped
<1>2. Total(a) \in Nat
  BY <1>1, TotalIs
<1>3. Total(a) = 0 => /\ LocalCount(a) = 0 /\ ClauseCount(a) = 0 /\ FramedCount(a) = 0
                      /\ MadeCount(a) = 0 /\ HeldCount(a) = 0 /\ ShellCount(a) = 0
  BY <1>1, TotalIs
<1> QED
  BY <1>2, <1>3, CountsTyped DEF Unowned

Owned == \A a \in Addr : Total(a) \in Nat /\ (Total(a) = 0 => Unowned(a))

\* So for all blocks,
LEMMA Counted == TypeInv => Owned
  BY NobodyOwns DEF Owned

\* and after a step.
LEMMA CountedPrime == TypeInv' => Owned'
  BY Counted, PTL

----------------------------------------------------------------------------
(* Blocks whose counts are given by n.                                     *)

Good(bs, n) ==
  /\ bs \in [Addr -> Block] /\ n \in [Addr -> Nat]
  /\ \A a \in Addr : Shaped(bs[a], a) /\ Exact(bs[a].rc, n[a])
SameShapes(bs, cs) == \A a \in Addr : SameShape(bs[a], cs[a])

\* The block that is not there.
LEMMA DeadIs == Dead \in Block /\ Dead.rc = 0 /\ Dead.tag = "none" /\ Dead.fields = << >> /\ Len(Dead.fields) = 0
                /\ Dead.self = 0 /\ \A a : Shaped(Dead, a)
<1>1. Dead \in Block /\ Dead.rc = 0 /\ Dead.tag = "none" /\ Dead.fields = << >> /\ Len(Dead.fields) = 0 /\ Dead.self = 0
  BY DEF Dead, Block
<1>2. \A a : Shaped(Dead, a)
  BY <1>1, RcStaticIs DEF Shaped, FrameTags
<1> QED
  BY <1>1, <1>2

\* Counts that are right stay right when references are made to values,
LEMMA DupGood ==
  ASSUME NEW bs, NEW n, Good(bs, n), NEW s \in Seq(AN),
         \A i \in 1 .. Len(s) : s[i] = Nil \/ bs[s[i]].tag \in ValueTags
  PROVE  /\ Good(Duped(bs, s), [a \in Addr |-> n[a] + CountIn(s, a)])
         /\ SameShapes(Duped(bs, s), bs)
         /\ DyingIn(bs) = {} => DyingIn(Duped(bs, s)) = {}
<1>1. /\ bs \in [Addr -> Block] /\ n \in [Addr -> Nat]
      /\ \A a \in Addr : Shaped(bs[a], a) /\ Exact(bs[a].rc, n[a])
  BY DEF Good
<1>2. ASSUME NEW a \in Addr
      PROVE  /\ Duped(bs, s) \in [Addr -> Block]
             /\ SameShape(Duped(bs, s)[a], bs[a])
             /\ Exact(Duped(bs, s)[a].rc, n[a] + CountIn(s, a))
             /\ Duped(bs, s)[a].rc <= RcStatic /\ Duped(bs, s)[a].rc >= bs[a].rc
             /\ CountIn(s, a) = 0 => Duped(bs, s)[a] = bs[a]
  <2>1. bs[a].rc <= RcStatic
    BY <1>1 DEF Shaped
  <2> QED
    BY <1>1, <2>1, DupedIs
<1>3. \A a \in Addr : CountIn(s, a) \in Nat /\ (CountIn(s, a) = 0 <=> \A i \in 1 .. Len(s) : s[i] # a)
  BY CountInIs
<1>4. ASSUME NEW a \in Addr
      PROVE  Shaped(Duped(bs, s)[a], a)
  <2>1. CASE \A i \in 1 .. Len(s) : s[i] # a
    BY <1>1, <1>2, <1>3, <2>1
  <2>2. CASE \E i \in 1 .. Len(s) : s[i] = a
    <3>1. bs[a].tag \in ValueTags
      BY <2>2, HeapAssumption
    <3> QED
      BY <1>1, <1>2, <3>1 DEF Shaped, SameShape, ValueTags, FrameTags
  <2> QED
    BY <2>1, <2>2
<1>5. Good(Duped(bs, s), [a \in Addr |-> n[a] + CountIn(s, a)])
  <2> DEFINE m == [a \in Addr |-> n[a] + CountIn(s, a)]
  <2>1. m \in [Addr -> Nat] /\ \A a \in Addr : m[a] = n[a] + CountIn(s, a)
    BY <1>1, <1>3
  <2>2. Duped(bs, s) \in [Addr -> Block]
    <3>1. CASE Addr = {}
      BY <3>1 DEF Duped
    <3> QED
      BY <1>2, <3>1
  <2> HIDE DEF m
  <2> QED
    BY <1>2, <1>4, <2>1, <2>2 DEF Good
<1>6. SameShapes(Duped(bs, s), bs)
  BY <1>2 DEF SameShapes
<1>7. ASSUME DyingIn(bs) = {} PROVE DyingIn(Duped(bs, s)) = {}
  <2>1. \A a \in Addr : bs[a].rc \in Nat /\ Duped(bs, s)[a].rc \in Nat
    BY <1>1, <1>2 DEF Block
  <2>2. \A a \in Addr : bs[a].tag # "none" => bs[a].rc # 0
    BY <1>7 DEF DyingIn
  <2> QED
    BY <1>2, <2>1, <2>2 DEF DyingIn, SameShape
<1> QED
  BY <1>5, <1>6, <1>7

\* and when no more are given up than there were.
LEMMA DropGood ==
  ASSUME NEW bs, NEW n, Good(bs, n), NEW s \in Seq(AN), \A a \in Addr : CountIn(s, a) <= n[a]
  PROVE  /\ Good(Dropped(bs, s), [a \in Addr |-> n[a] - CountIn(s, a)])
         /\ SameShapes(Dropped(bs, s), bs)
         /\ DyingIn(Dropped(bs, s)) = DyingIn(bs) \cup Zeroed(bs, s)
         /\ Zeroed(bs, s) \in SUBSET Addr
<1>1. /\ bs \in [Addr -> Block] /\ n \in [Addr -> Nat]
      /\ \A a \in Addr : Shaped(bs[a], a) /\ Exact(bs[a].rc, n[a])
  BY DEF Good
<1>3. \A a \in Addr : CountIn(s, a) \in Nat
  BY CountInIs
<1>4. \A c \in Addr : \E k \in Nat : Exact(bs[c].rc, k) /\ CountIn(s, c) <= k
  BY <1>1
<1>2. ASSUME NEW a \in Addr
      PROVE  /\ Dropped(bs, s) \in [Addr -> Block]
             /\ SameShape(Dropped(bs, s)[a], bs[a])
             /\ Exact(Dropped(bs, s)[a].rc, n[a] - CountIn(s, a))
             /\ Dropped(bs, s)[a].rc <= bs[a].rc
             /\ CountIn(s, a) = 0 => Dropped(bs, s)[a] = bs[a]
  <2>1. n[a] \in Nat /\ Exact(bs[a].rc, n[a])
    BY <1>1
  <2> QED
    BY <1>1, <1>4, <2>1, DroppedIs
<1>5. ASSUME NEW a \in Addr
      PROVE  Shaped(Dropped(bs, s)[a], a)
  <2>1. Shaped(bs[a], a) /\ Exact(bs[a].rc, n[a]) /\ CountIn(s, a) \in Nat /\ CountIn(s, a) <= n[a] /\ n[a] \in Nat
        /\ bs[a].rc \in Nat
    BY <1>1, <1>3 DEF Block
  <2>2. CASE CountIn(s, a) = 0
    BY <1>2, <2>1, <2>2
  <2>3. CASE CountIn(s, a) # 0
    <3>1. bs[a].rc # 0
      BY <2>1, <2>3, RcStaticIs DEF Exact
    <3>2. bs[a].tag # "none"
      BY <2>1, <3>1, DeadIs DEF Shaped
    <3>3. Dropped(bs, s)[a].rc <= bs[a].rc /\ SameShape(Dropped(bs, s)[a], bs[a]) /\ Dropped(bs, s)[a].rc \in Nat
      BY <1>2 DEF Block
    <3>4. Dropped(bs, s)[a].rc <= RcStatic /\ (bs[a].tag \in FrameTags => Dropped(bs, s)[a].rc <= 1)
      BY <2>1, <3>3, RcStaticIs DEF Shaped
    <3> QED
      BY <2>1, <3>2, <3>3, <3>4 DEF Shaped, SameShape
  <2> QED
    BY <2>2, <2>3
<1>6. Good(Dropped(bs, s), [a \in Addr |-> n[a] - CountIn(s, a)])
  <2> DEFINE m == [a \in Addr |-> n[a] - CountIn(s, a)]
  <2>1. m \in [Addr -> Nat] /\ \A a \in Addr : m[a] = n[a] - CountIn(s, a)
    BY <1>1, <1>3
  <2>2. Dropped(bs, s) \in [Addr -> Block]
    <3>1. CASE Addr = {}
      BY <3>1 DEF Dropped
    <3> QED
      BY <1>2, <3>1
  <2> HIDE DEF m
  <2> QED
    BY <1>2, <1>5, <2>1, <2>2 DEF Good
<1>7. SameShapes(Dropped(bs, s), bs)
  BY <1>2 DEF SameShapes
<1>8. \A c \in Addr : bs[c].tag = "none" => bs[c].rc = 0
  BY <1>1, DeadIs DEF Shaped
<1>9. /\ Zeroed(bs, s) \in SUBSET Addr
      /\ DyingIn(Dropped(bs, s)) = DyingIn(bs) \cup Zeroed(bs, s)
  BY ONLY <1>1, <1>4, <1>8, s \in Seq(AN), ZeroedIs
<1> QED
  BY <1>6, <1>7, <1>9

\* A new block, whose only reference is still to be handed out, ...
LEMMA NewGood ==
  ASSUME NEW bs, NEW n, Good(bs, n), NEW a \in Addr, bs[a] = Dead, NEW b \in Block,
         Shaped(b, a), b.rc = 1, b.tag # "none"
  PROVE  /\ n[a] = 0
         /\ Good([bs EXCEPT ![a] = b], [n EXCEPT ![a] = 1])
         /\ DyingIn([bs EXCEPT ![a] = b]) = DyingIn(bs)
<1>1. /\ bs \in [Addr -> Block] /\ n \in [Addr -> Nat]
      /\ \A c \in Addr : Shaped(bs[c], c) /\ Exact(bs[c].rc, n[c])
  BY DEF Good
<1>2. n[a] = 0
  BY <1>1, DeadIs, RcStaticIs DEF Exact
<1> DEFINE cs == [bs EXCEPT ![a] = b]
           m == [n EXCEPT ![a] = 1]
<1>3. /\ cs \in [Addr -> Block] /\ m \in [Addr -> Nat] /\ cs[a] = b /\ m[a] = 1
      /\ \A c \in Addr : c # a => cs[c] = bs[c] /\ m[c] = n[c]
  BY <1>1
<1> HIDE DEF cs, m
<1>4. Good(cs, m)
  BY <1>1, <1>3 DEF Good, Exact
<1>5. DyingIn(cs) = DyingIn(bs)
  <2>1. \A c \in Addr : (cs[c].tag # "none" /\ cs[c].rc = 0) <=> (bs[c].tag # "none" /\ bs[c].rc = 0)
    BY <1>3, DeadIs
  <2> QED
    BY <2>1 DEF DyingIn
<1> QED
  BY <1>2, <1>4, <1>5 DEF cs, m

\* ... and a block that goes.
LEMMA FreeGood ==
  ASSUME NEW bs, NEW n, Good(bs, n), NEW a \in Addr
  PROVE  /\ Good([bs EXCEPT ![a] = Dead], [n EXCEPT ![a] = 0])
         /\ DyingIn([bs EXCEPT ![a] = Dead]) = DyingIn(bs) \ {a}
<1>1. /\ bs \in [Addr -> Block] /\ n \in [Addr -> Nat]
      /\ \A c \in Addr : Shaped(bs[c], c) /\ Exact(bs[c].rc, n[c])
  BY DEF Good
<1> DEFINE cs == [bs EXCEPT ![a] = Dead]
           m == [n EXCEPT ![a] = 0]
<1>3. /\ cs \in [Addr -> Block] /\ m \in [Addr -> Nat] /\ cs[a] = Dead /\ m[a] = 0
      /\ \A c \in Addr : c # a => cs[c] = bs[c] /\ m[c] = n[c]
  BY <1>1, DeadIs
<1> HIDE DEF cs, m
<1>4. Good(cs, m)
  BY <1>1, <1>3, DeadIs DEF Good, Exact
<1>5. DyingIn(cs) = DyingIn(bs) \ {a}
  BY <1>3, DeadIs DEF DyingIn
<1> QED
  BY <1>4, <1>5 DEF cs, m

CountFn == [a \in Addr |-> Total(a)]

\* The invariant says that the counts are right now.
LEMMA IsGood ==
  ASSUME IInv
  PROVE  /\ Good(block, CountFn) /\ work = DyingIn(block)
         /\ \A a \in Addr : CountFn[a] = Total(a)
<1>1. TypeInv /\ ShapeInv /\ CountInv
  BY DEF IInv
<1>2. CountFn \in [Addr -> Nat] /\ \A a \in Addr : CountFn[a] = Total(a)
  BY <1>1, Counted DEF CountFn, Owned
<1>3. block \in [Addr -> Block]
  BY <1>1 DEF TypeInv
<1> QED
  BY <1>1, <1>2, <1>3 DEF Good, ShapeInv, CountInv, DyingIn

\* Right counts of the right totals are the parts of the invariant about
\* counts.
LEMMA GoodIsCounted ==
  ASSUME NEW n, Good(block', n), work' = DyingIn(block'), \A a \in Addr : Total(a)' = n[a]
  PROVE  ShapeInv' /\ CountInv'
<1>1. ShapeInv'
  BY DEF ShapeInv, Good
<1>2. CountInv'
  BY DEF CountInv, Good, DyingIn
<1> QED
  BY <1>1, <1>2

----------------------------------------------------------------------------
(* How the counts change when a variable does.                             *)

\* One variable is assigned.
LEMMA LocalSet ==
  ASSUME NEW x \in Locals, \A y \in Locals : y # x => local'[y] = local[y], NEW a
  PROVE  LocalCount(a)' = LocalCount(a) - OneIf(local[x] = a) + OneIf(local'[x] = a)
<1>1. \A y \in Locals \ {x} : local'[y] = local[y]
  OBVIOUS
<1>2. CountOf(local', Locals, a) = CountOf(local, Locals, a) - OneIf(local[x] = a) + OneIf(local'[x] = a)
  BY <1>1, CountChanged, HeapAssumption
<1> QED
  BY <1>2 DEF LocalCount

\* What operands are: own variables that hold something, each given once, or
\* nothing.
LEMMA OperandsAre ==
  ASSUME TypeInv, NEW k \in Nat, NEW s \in Operands(k)
  PROVE  /\ s \in [1 .. k -> Own \cup {Nil}] /\ DOMAIN s = 1 .. k /\ Len(s) = k
         /\ \A i \in 1 .. k : s[i] = Nil \/ (s[i] \in Own /\ s[i] \in Locals /\ local[s[i]] # Nil)
         /\ \A i, j \in 1 .. k : s[i] = s[j] /\ i # j => s[i] = Nil
         /\ Values(s) \in Seq(AN) /\ Len(Values(s)) = k
         /\ \A i \in 1 .. k : Values(s)[i] = IF s[i] = Nil THEN Nil ELSE local[s[i]]
<1>1. /\ s \in [1 .. k -> {x \in Own : local[x] # Nil} \cup {Nil}]
      /\ \A i, j \in 1 .. k : s[i] = s[j] /\ i # j => s[i] = Nil
  BY DEF Operands
<1>2. /\ s \in [1 .. k -> Own \cup {Nil}] /\ DOMAIN s = 1 .. k
      /\ \A i \in 1 .. k : s[i] = Nil \/ (s[i] \in Own /\ local[s[i]] # Nil)
  BY <1>1
<1>3. Len(s) = k
  BY <1>2
<1>4. Own \subseteq Locals
  BY DEF Own
<1>5. \A i \in 1 .. k : (IF s[i] = Nil THEN Nil ELSE local[s[i]]) \in AN
  BY <1>2, <1>4 DEF TypeInv, AN
<1>6. Values(s) = [i \in 1 .. k |-> IF s[i] = Nil THEN Nil ELSE local[s[i]]]
  BY <1>2 DEF Values
<1>7. Values(s) \in Seq(AN) /\ Len(Values(s)) = k
  BY <1>5, <1>6
<1> QED
  BY <1>1, <1>2, <1>3, <1>4, <1>6, <1>7

\* Operands move out of their variables.
LEMMA LocalEmptied ==
  ASSUME TypeInv, NEW k \in Nat, NEW s \in Operands(k), NEW a \in Addr
  PROVE  CountOf(Emptied(Range(s)), Locals, a) = LocalCount(a) - CountIn(Values(s), a)
<1> DEFINE g == Emptied(Range(s))
           v == Values(s)
<1>1. /\ s \in [1 .. k -> Locals \cup {Nil}]
      /\ \A i, j \in 1 .. k : s[i] = s[j] /\ i # j => s[i] = Nil
      /\ v \in Seq(AN) /\ Len(v) = k
  BY OperandsAre DEF Own
<1>2. v = [i \in 1 .. k |-> IF s[i] = Nil THEN Nil ELSE local[s[i]]]
  BY OperandsAre DEF Values
<1>3. \A x \in Locals : g[x] = IF x \in Range(s) THEN Nil ELSE local[x]
  BY DEF Emptied
<1>4. a # Nil /\ IsFiniteSet(Locals) /\ Nil \notin Locals
  BY HeapAssumption
<1> HIDE DEF g, v
<1>5. CountOf(g, Locals, a) = CountOf(local, Locals, a) - CountOf(v, 1 .. k, a)
  BY ONLY <1>1, <1>2, <1>3, <1>4, k \in Nat, CountEmptied, Z3T(30)
<1>6. CountIn(v, a) = CountOf(v, 1 .. k, a)
  BY <1>1, CountInIs
<1> QED
  BY <1>5, <1>6 DEF g, v, LocalCount

\* The stacks are cut, ...
LEMMA HsCut ==
  ASSUME TypeInv, NEW n \in 0 .. Len(hs), hs' = SubSeq(hs, 1, n)
  PROVE  /\ hs' \in Seq([clause : AN, hf : Addr]) /\ Len(hs') = n /\ \A i \in 1 .. n : hs'[i] = hs[i]
         /\ Clauses' = SubSeq(Clauses, 1, n)
<1>1. hs \in Seq([clause : AN, hf : Addr]) /\ Len(hs) \in Nat
  BY DEF TypeInv
<1>2. /\ hs' \in Seq([clause : AN, hf : Addr]) /\ Len(hs') = n /\ \A i \in 1 .. n : hs'[i] = hs[i]
  <2>1. ASSUME NEW i \in 1 .. n PROVE hs[i] \in [clause : AN, hf : Addr]
    <3>1. i \in 1 .. Len(hs)
      BY <1>1
    <3> QED
      BY <1>1, <3>1, ElementOfSeq
  <2> QED
    BY <1>1, <2>1, SubSeqProperties
<1>3. Clauses \in Seq(AN) /\ Len(Clauses) = Len(hs) /\ \A i \in 1 .. Len(hs) : Clauses[i] = hs[i].clause
  BY SeqsTyped
<1>4. Clauses' = [i \in 1 .. n |-> hs[i].clause]
  BY <1>2 DEF Clauses
<1>5. SubSeq(Clauses, 1, n) = [i \in 1 .. n |-> hs[i].clause]
  BY <1>1, <1>3
<1> QED
  BY <1>2, <1>4, <1>5

\* The frame stack is cut.
LEMMA KsCut ==
  ASSUME TypeInv, NEW n \in 0 .. Len(ks), ks' = SubSeq(ks, 1, n)
  PROVE  /\ ks' \in Seq([fr : Addr, pins : Seq(Locals)]) /\ Len(ks') = n /\ \A i \in 1 .. n : ks'[i] = ks[i]
         /\ Framed' = SubSeq(Framed, 1, n)
<1>1. ks \in Seq([fr : Addr, pins : Seq(Locals)]) /\ Len(ks) \in Nat
  BY DEF TypeInv
<1>2. /\ ks' \in Seq([fr : Addr, pins : Seq(Locals)]) /\ Len(ks') = n /\ \A i \in 1 .. n : ks'[i] = ks[i]
  <2>1. ASSUME NEW i \in 1 .. n PROVE ks[i] \in [fr : Addr, pins : Seq(Locals)]
    <3>1. i \in 1 .. Len(ks)
      BY <1>1
    <3> QED
      BY <1>1, <3>1, ElementOfSeq
  <2> QED
    BY <1>1, <2>1, SubSeqProperties
<1>3. Framed \in Seq(Addr) /\ Len(Framed) = Len(ks) /\ \A i \in 1 .. Len(ks) : Framed[i] = ks[i].fr
  BY SeqsTyped
<1>4. Framed' = [i \in 1 .. n |-> ks[i].fr]
  BY <1>2 DEF Framed
<1>5. SubSeq(Framed, 1, n) = [i \in 1 .. n |-> ks[i].fr]
  BY <1>1, <1>3
<1> QED
  BY <1>2, <1>4, <1>5

\* ... popped ...
LEMMA HsPop ==
  ASSUME TypeInv, hs # << >>, hs' = SubSeq(hs, 1, Len(hs) - 1)
  PROVE  /\ hs' \in Seq([clause : AN, hf : Addr]) /\ Len(hs') = Len(hs) - 1
         /\ Len(hs) \in 1 .. Len(hs) /\ hs[Len(hs)].clause \in AN
         /\ \A i \in 1 .. Len(hs) - 1 : hs'[i] = hs[i]
         /\ \A a \in Addr : ClauseCount(a)' = ClauseCount(a) - OneIf(hs[Len(hs)].clause = a)
<1>1. hs \in Seq([clause : AN, hf : Addr])
  BY DEF TypeInv
<1>2. Len(hs) \in Nat \ {0} /\ Len(hs) - 1 \in 0 .. Len(hs) /\ Len(hs) \in 1 .. Len(hs)
  BY <1>1, EmptySeq
<1>3. /\ hs' \in Seq([clause : AN, hf : Addr]) /\ Len(hs') = Len(hs) - 1
      /\ \A i \in 1 .. Len(hs) - 1 : hs'[i] = hs[i]
      /\ Clauses' = SubSeq(Clauses, 1, Len(hs) - 1)
  BY <1>2, HsCut
<1>4. Clauses \in Seq(AN) /\ Len(Clauses) = Len(hs) /\ Clauses # << >> /\ Clauses[Len(Clauses)] = hs[Len(hs)].clause
  BY <1>2, SeqsTyped
<1>5. ASSUME NEW a \in Addr PROVE ClauseCount(a)' = ClauseCount(a) - OneIf(hs[Len(hs)].clause = a)
  <2>1. CountIn(SubSeq(Clauses, 1, Len(Clauses) - 1), a) = CountIn(Clauses, a) - OneIf(Clauses[Len(Clauses)] = a)
    BY ONLY <1>4, CountInPop
  <2> QED
    BY <1>3, <1>4, <2>1 DEF ClauseCount
<1>6. hs[Len(hs)].clause \in AN
  <2>1. hs[Len(hs)] \in [clause : AN, hf : Addr]
    BY <1>1, <1>2, ElementOfSeq
  <2> QED
    BY <2>1
<1> QED
  BY <1>2, <1>3, <1>5, <1>6

\* jq_ks_pop takes one reference off the frame stack.
LEMMA KsPopped ==
  ASSUME TypeInv, ks # << >>, KsPop
  PROVE  /\ ks' \in Seq([fr : Addr, pins : Seq(Locals)]) /\ Len(ks') = Len(ks) - 1
         /\ Len(ks) \in 1 .. Len(ks) /\ TopFrame.fr \in Addr /\ TopFrame.pins \in Seq(Locals)
         /\ \A i \in 1 .. Len(ks) - 1 : ks'[i] = ks[i]
         /\ \A a \in Addr : FramedCount(a)' = FramedCount(a) - OneIf(TopFrame.fr = a)
<1>1. ks \in Seq([fr : Addr, pins : Seq(Locals)])
  BY DEF TypeInv
<1>2. Len(ks) \in Nat \ {0} /\ Len(ks) - 1 \in 0 .. Len(ks) /\ Len(ks) \in 1 .. Len(ks)
  BY <1>1, EmptySeq
<1>3. /\ ks' \in Seq([fr : Addr, pins : Seq(Locals)]) /\ Len(ks') = Len(ks) - 1
      /\ \A i \in 1 .. Len(ks) - 1 : ks'[i] = ks[i]
      /\ Framed' = SubSeq(Framed, 1, Len(ks) - 1)
  BY <1>2, KsCut DEF KsPop
<1>4. Framed \in Seq(Addr) /\ Len(Framed) = Len(ks) /\ Framed # << >> /\ Framed[Len(Framed)] = TopFrame.fr
  BY <1>2, SeqsTyped DEF TopFrame
<1>5. ASSUME NEW a \in Addr PROVE FramedCount(a)' = FramedCount(a) - OneIf(TopFrame.fr = a)
  <2>1. CountIn(SubSeq(Framed, 1, Len(Framed) - 1), a) = CountIn(Framed, a) - OneIf(Framed[Len(Framed)] = a)
    BY ONLY <1>4, CountInPop
  <2> QED
    BY <1>3, <1>4, <2>1 DEF FramedCount
<1>6. TopFrame \in [fr : Addr, pins : Seq(Locals)]
  BY <1>1, <1>2, ElementOfSeq DEF TopFrame
<1> QED
  BY <1>2, <1>3, <1>5, <1>6

\* ... or grow.
LEMMA HsPush ==
  ASSUME TypeInv, NEW e \in [clause : AN, hf : Addr], hs' = Append(hs, e)
  PROVE  /\ hs' \in Seq([clause : AN, hf : Addr]) /\ Len(hs') = Len(hs) + 1 /\ Len(hs) \in Nat
         /\ hs'[Len(hs) + 1] = e
         /\ \A i \in 1 .. Len(hs) : hs'[i] = hs[i]
         /\ \A a \in Addr : ClauseCount(a)' = ClauseCount(a) + OneIf(e.clause = a)
<1>1. hs \in Seq([clause : AN, hf : Addr])
  BY DEF TypeInv
<1>2. /\ hs' \in Seq([clause : AN, hf : Addr]) /\ Len(hs') = Len(hs) + 1 /\ Len(hs) \in Nat
      /\ hs'[Len(hs) + 1] = e
      /\ \A i \in 1 .. Len(hs) : hs'[i] = hs[i]
  BY <1>1, AppendProperties
<1>3. Clauses \in Seq(AN) /\ Len(Clauses) = Len(hs) /\ \A i \in 1 .. Len(hs) : Clauses[i] = hs[i].clause
  BY SeqsTyped
<1>4. e.clause \in AN
  OBVIOUS
<1>5. Clauses' = Append(Clauses, e.clause)
  <2>1. Clauses' = [i \in 1 .. Len(hs) + 1 |-> IF i = Len(hs) + 1 THEN e.clause ELSE hs[i].clause]
    BY <1>2 DEF Clauses
  <2>2. Append(Clauses, e.clause) = [i \in 1 .. Len(hs) + 1 |-> IF i = Len(hs) + 1 THEN e.clause ELSE hs[i].clause]
    BY <1>2, <1>3, <1>4
  <2> QED
    BY <2>1, <2>2
<1>6. ASSUME NEW a \in Addr PROVE ClauseCount(a)' = ClauseCount(a) + OneIf(e.clause = a)
  <2>1. CountIn(Append(Clauses, e.clause), a) = CountIn(Clauses, a) + OneIf(e.clause = a)
    BY ONLY <1>3, <1>4, CountInAppend
  <2> QED
    BY <1>5, <2>1 DEF ClauseCount
<1> QED
  BY <1>2, <1>6

\* jq_ks_push puts one on.
LEMMA KsPush ==
  ASSUME TypeInv, NEW e \in [fr : Addr, pins : Seq(Locals)], ks' = Append(ks, e)
  PROVE  /\ ks' \in Seq([fr : Addr, pins : Seq(Locals)]) /\ Len(ks') = Len(ks) + 1 /\ Len(ks) \in Nat
         /\ ks'[Len(ks) + 1] = e
         /\ \A i \in 1 .. Len(ks) : ks'[i] = ks[i]
         /\ \A a \in Addr : FramedCount(a)' = FramedCount(a) + OneIf(e.fr = a)
<1>1. ks \in Seq([fr : Addr, pins : Seq(Locals)])
  BY DEF TypeInv
<1>2. /\ ks' \in Seq([fr : Addr, pins : Seq(Locals)]) /\ Len(ks') = Len(ks) + 1 /\ Len(ks) \in Nat
      /\ ks'[Len(ks) + 1] = e
      /\ \A i \in 1 .. Len(ks) : ks'[i] = ks[i]
  BY <1>1, AppendProperties
<1>3. Framed \in Seq(Addr) /\ Len(Framed) = Len(ks) /\ \A i \in 1 .. Len(ks) : Framed[i] = ks[i].fr
  BY SeqsTyped
<1>4. e.fr \in Addr
  OBVIOUS
<1>5. Framed' = Append(Framed, e.fr)
  <2>1. Framed' = [i \in 1 .. Len(ks) + 1 |-> IF i = Len(ks) + 1 THEN e.fr ELSE ks[i].fr]
    BY <1>2 DEF Framed
  <2>2. Append(Framed, e.fr) = [i \in 1 .. Len(ks) + 1 |-> IF i = Len(ks) + 1 THEN e.fr ELSE ks[i].fr]
    BY <1>2, <1>3, <1>4
  <2> QED
    BY <2>1, <2>2
<1>6. ASSUME NEW a \in Addr PROVE FramedCount(a)' = FramedCount(a) + OneIf(e.fr = a)
  <2>1. CountIn(Append(Framed, e.fr), a) = CountIn(Framed, a) + OneIf(e.fr = a)
    BY ONLY <1>3, <1>4, CountInAppend
  <2> QED
    BY <1>5, <2>1 DEF FramedCount
<1> QED
  BY <1>2, <1>6

\* What the blocks hold.
HeldAlike(b) ==
  /\ block'[b].fields = block[b].fields /\ block'[b].self = block[b].self
  /\ IsMirror(b)' <=> IsMirror(b)
  /\ \A i \in 1 .. Len(block[b].fields) : Released(b, i)' <=> Released(b, i)

\* A block owns the same when its fields, its mirror and its releases are the
\* same.
LEMMA HeldByAlike ==
  ASSUME NEW b \in Addr, HeldAlike(b)
  PROVE  HeldBy(b)' = HeldBy(b)
BY DEF HeldAlike, HeldBy

\* So the heap counts the same when that holds of every block.
LEMMA HeldSame ==
  ASSUME \A b \in Addr : HeldAlike(b)
  PROVE  \A a \in Addr : HeldCount(a)' = HeldCount(a)
<1>1. Held' = [b \in Addr |-> HeldBy(b)']
  BY DEF Held
<1>2. Held' = Held
  BY <1>1, HeldByAlike DEF Held
<1> QED
  BY <1>2 DEF HeldCount

\* What blocks own after a step.
LEMMA HeldTypedPrime ==
  TypeInv' => /\ Held' \in [Addr -> Seq(AN)]
              /\ \A b \in Addr : Held'[b] = HeldBy(b)' /\ HeldBy(b)' \in Seq(AN)
<1> DEFINE P == /\ Held \in [Addr -> Seq(AN)]
                /\ \A b \in Addr : Held[b] = HeldBy(b) /\ HeldBy(b) \in Seq(AN)
<1>1. TypeInv => P
  BY HeldTyped
<1> HIDE DEF P
<1>2. TypeInv' => P'
  BY <1>1, PTL
<1> QED
  BY <1>2 DEF P

\* One block owns something else.
LEMMA HeldChanged ==
  ASSUME TypeInv, TypeInv', NEW d \in Addr, \A b \in Addr : b # d => HeldAlike(b), NEW a \in Addr
  PROVE  HeldCount(a)' = HeldCount(a) - CountIn(HeldBy(d), a) + CountIn(HeldBy(d)', a)
<1>1. Held \in [Addr -> Seq(AN)] /\ \A b \in Addr : Held[b] = HeldBy(b)
  BY HeldTyped
<1>2. Held' \in [Addr -> Seq(AN)] /\ \A b \in Addr : Held'[b] = HeldBy(b)'
  BY HeldTypedPrime
<1>3. \A b \in Addr : b # d => Held'[b] = Held[b]
  BY <1>1, <1>2, HeldByAlike
<1> DEFINE H == Held
           G == Held'
<1>4. Holding(H) /\ Holding(G) /\ AgreeBut(G, H, d)
  BY <1>1, <1>2, <1>3 DEF Holding, AgreeBut
<1>5. H[d] = HeldBy(d) /\ G[d] = HeldBy(d)'
  BY <1>1, <1>2
<1>6. HeldCount(a) = HeapCount(H, a) /\ HeldCount(a)' = HeapCount(G, a)
  BY DEF HeldCount
<1> HIDE DEF H, G
<1>7. HeapCount(G, a) = HeapCount(H, a) - CountIn(H[d], a) + CountIn(G[d], a)
  BY <1>4, HeapCountMoved
<1> QED
  BY <1>5, <1>6, <1>7

\* A block that owns all its slots, or none.
LEMMA HeldAll ==
  ASSUME TypeInv, NEW b \in Addr, ~IsMirror(b), block[b].self = 0, token.shell # b
  PROVE  HeldBy(b) = block[b].fields
<1>1. block[b].fields \in Seq(AN)
  BY DEF TypeInv, Block
<1> QED
  BY <1>1 DEF HeldBy, Released

\* A mirror owns nothing.
LEMMA HeldNone ==
  ASSUME TypeInv, NEW b \in Addr, NEW a \in Addr,
         \A i \in 1 .. Len(block[b].fields) : IsMirror(b) \/ i = block[b].self \/ Released(b, i)
  PROVE  CountIn(HeldBy(b), a) = 0
<1>1. HeldBy(b) \in Seq(AN) /\ Len(HeldBy(b)) = Len(block[b].fields)
  BY HeldTyped
<1>2. \A i \in 1 .. Len(HeldBy(b)) : HeldBy(b)[i] # a
  BY <1>1, HeapAssumption DEF HeldBy
<1> QED
  BY ONLY <1>1, <1>2, CountInIs

----------------------------------------------------------------------------
(* What the invariant says of a block with one owner.                      *)

\* The running activation's variables are not pinned.
LEMMA OwnIs ==
  ASSUME TypeInv, NEW x \in Own
  PROVE  x \in Locals /\ x # Nil /\ \A i \in 1 .. Len(ks) : \A j \in 1 .. Len(ks[i].pins) : ks[i].pins[j] # x
<1>1. x \in Locals /\ x \notin Pinned /\ x # Nil
  BY HeapAssumption DEF Own
<1>2. ks \in Seq([fr : Addr, pins : Seq(Locals)])
  BY DEF TypeInv
<1>3. ASSUME NEW i \in 1 .. Len(ks), NEW j \in 1 .. Len(ks[i].pins) PROVE ks[i].pins[j] # x
  <2>0. ks[i] \in [fr : Addr, pins : Seq(Locals)]
    BY <1>2, ElementOfSeq
  <2>1. ks[i] \in [fr : Addr, pins : Seq(Locals)] /\ i \in DOMAIN ks
    BY <1>2, <2>0
  <2>2. ks[i].pins \in Seq(Locals) /\ j \in DOMAIN ks[i].pins
    BY <2>1
  <2>3. ks[i].pins[j] \in Range(ks[i].pins)
    BY <2>2 DEF Range
  <2>4. Range(ks[i].pins) \subseteq Pinned
    BY <2>1 DEF Pinned
  <2> QED
    BY <1>1, <2>3, <2>4
<1> QED
  BY <1>1, <1>3

\* An address with one owner, and who that is.
Alone(a) ==
  /\ Total(a) = 1 /\ block[a].rc = 1
  /\ LocalCount(a) + ClauseCount(a) + FramedCount(a) + MadeCount(a) + HeldCount(a) + ShellCount(a) = 1

\* A block with one owner has it in one place only.
LEMMA OnlyOne ==
  ASSUME TypeInv, NEW a \in Addr, Alone(a)
  PROVE  /\ ShellCount(a) = 1 => LocalCount(a) = 0 /\ ClauseCount(a) = 0 /\ FramedCount(a) = 0
                                 /\ MadeCount(a) = 0 /\ HeldCount(a) = 0
         /\ FramedCount(a) > 0 => LocalCount(a) = 0 /\ ClauseCount(a) = 0 /\ FramedCount(a) = 1
                                 /\ MadeCount(a) = 0 /\ HeldCount(a) = 0 /\ ShellCount(a) = 0
         /\ MadeCount(a) > 0 => LocalCount(a) = 0 /\ ClauseCount(a) = 0 /\ FramedCount(a) = 0
                                 /\ MadeCount(a) = 1 /\ HeldCount(a) = 0 /\ ShellCount(a) = 0
         /\ HeldCount(a) > 0 => LocalCount(a) = 0 /\ ClauseCount(a) = 0 /\ FramedCount(a) = 0
                                 /\ MadeCount(a) = 0 /\ HeldCount(a) = 1 /\ ShellCount(a) = 0
<1>1. /\ LocalCount(a) \in Nat /\ ClauseCount(a) \in Nat /\ FramedCount(a) \in Nat
      /\ MadeCount(a) \in Nat /\ HeldCount(a) \in Nat /\ ShellCount(a) \in Nat
  BY CountsTyped
<1>2. LocalCount(a) + ClauseCount(a) + FramedCount(a) + MadeCount(a) + HeldCount(a) + ShellCount(a) = 1
  BY DEF Alone
<1>3. ShellCount(a) = 1 => LocalCount(a) = 0 /\ ClauseCount(a) = 0 /\ FramedCount(a) = 0
                          /\ MadeCount(a) = 0 /\ HeldCount(a) = 0
  BY ONLY <1>1, <1>2
<1>4. FramedCount(a) > 0 => LocalCount(a) = 0 /\ ClauseCount(a) = 0 /\ FramedCount(a) = 1
                           /\ MadeCount(a) = 0 /\ HeldCount(a) = 0 /\ ShellCount(a) = 0
  BY ONLY <1>1, <1>2
<1>5. MadeCount(a) > 0 => LocalCount(a) = 0 /\ ClauseCount(a) = 0 /\ FramedCount(a) = 0
                         /\ MadeCount(a) = 1 /\ HeldCount(a) = 0 /\ ShellCount(a) = 0
  BY ONLY <1>1, <1>2
<1>6. HeldCount(a) > 0 => LocalCount(a) = 0 /\ ClauseCount(a) = 0 /\ FramedCount(a) = 0
                         /\ MadeCount(a) = 0 /\ HeldCount(a) = 1 /\ ShellCount(a) = 0
  BY ONLY <1>1, <1>2
<1> QED
  BY <1>3, <1>4, <1>5, <1>6

\* The shell of a reuse token ...
LEMMA ShellAlone ==
  ASSUME IInv, token.shell # Nil
  PROVE  /\ token.shell \in Addr /\ Alone(token.shell) /\ ShellCount(token.shell) = 1
         /\ \A x \in Locals : local[x] # token.shell
         /\ \A b \in Addr : CountIn(HeldBy(b), token.shell) = 0
<1> DEFINE a == token.shell
<1>1. TypeInv /\ TokenInv /\ CountInv
  BY DEF IInv
<1>2. a \in Addr /\ block[a].rc = 1
  BY <1>1 DEF TypeInv, AN, TokenInv
<1>3. Total(a) = 1
  BY <1>1, <1>2, RcStaticIs DEF CountInv, Exact
<1>4. Alone(a)
  BY <1>2, <1>3, TotalIs DEF Alone
<1>5. ShellCount(a) = 1
  BY DEF ShellCount, OneIf
<1> HIDE DEF a
<1>6. LocalCount(a) = 0 /\ HeldCount(a) = 0
  BY <1>1, <1>2, <1>4, <1>5, OnlyOne
<1>7. /\ LocalCount(a) = 0 <=> \A x \in Locals : local[x] # a
      /\ \A b \in Addr : CountIn(HeldBy(b), a) \in Nat /\ CountIn(HeldBy(b), a) <= HeldCount(a)
  BY <1>1, <1>2, CountsTyped
<1> QED
  BY <1>2, <1>4, <1>5, <1>6, <1>7 DEF a

\* ... and a frame.
LEMMA FrameAlone ==
  ASSUME IInv, NEW a \in Addr, block[a].tag \in FrameTags, Total(a) # 0
  PROVE  Alone(a)
<1>1. TypeInv /\ ShapeInv /\ CountInv
  BY DEF IInv
<1>2. Total(a) \in Nat /\ Exact(block[a].rc, Total(a)) /\ block[a].rc <= 1 /\ block[a].rc \in Nat
  BY <1>1, Counted DEF Owned, CountInv, ShapeInv, Shaped, TypeInv, Block
<1>3. Total(a) = 1 /\ block[a].rc = 1
  BY <1>2, RcStaticIs DEF Exact
<1> QED
  BY <1>3, TotalIs DEF Alone

\* A frame on the stack has that one owner and is on it once.
LEMMA TopAlone ==
  ASSUME IInv, NEW i \in 1 .. Len(ks)
  PROVE  /\ ks[i].fr \in Addr /\ ks[i].pins \in Seq(Locals)
         /\ block[ks[i].fr].tag \in FrameTags /\ Alone(ks[i].fr) /\ FramedCount(ks[i].fr) = 1
         /\ \A k \in 1 .. Len(ks) : ks[k].fr = ks[i].fr => k = i
<1> DEFINE a == ks[i].fr
<1>1. TypeInv /\ SortInv
  BY DEF IInv
<1>2. ks \in Seq([fr : Addr, pins : Seq(Locals)]) /\ i \in 1 .. Len(ks)
  BY <1>1 DEF TypeInv
<1>3. ks[i] \in [fr : Addr, pins : Seq(Locals)]
  BY <1>2, ElementOfSeq
<1>4. a \in Addr /\ ks[i].pins \in Seq(Locals) /\ block[a].tag \in FrameTags
  BY <1>1, <1>3 DEF SortInv, IsFrame
<1>5. FramedCount(a) \in Nat /\ FramedCount(a) # 0
  BY <1>1, <1>4, CountsTyped
<1>6. Total(a) # 0
  <2>1. Total(a) = 0 => Unowned(a)
    BY <1>1, <1>4, NobodyOwns
  <2>2. ~Unowned(a)
    BY DEF Unowned
  <2> QED
    BY <2>1, <2>2
<1>7. Alone(a)
  BY <1>4, <1>6, FrameAlone
<1>8. FramedCount(a) = 1
  BY <1>1, <1>4, <1>5, <1>7, OnlyOne
<1>9. ASSUME NEW k \in 1 .. Len(ks), ks[k].fr = a PROVE k = i
  <2>1. SUFFICES ASSUME k # i PROVE FALSE
    OBVIOUS
  <2>2. Framed \in Seq(Addr) /\ Len(Framed) = Len(ks) /\ Framed[i] = a /\ Framed[k] = a
    BY <1>1, <1>9, SeqsTyped
  <2>3. FramedCount(a) = CountOf(Framed, 1 .. Len(Framed), a)
    BY <2>2, CountInIs DEF FramedCount
  <2>4. IsFiniteSet(1 .. Len(Framed)) /\ i \in 1 .. Len(Framed) /\ k \in 1 .. Len(Framed)
    <3>1. Len(Framed) \in Nat
      BY <2>2, LenProperties
    <3>2. IsFiniteSet(1 .. Len(Framed))
      BY <3>1, FS_Interval
    <3> QED
      BY <2>2, <3>2
  <2>5. CountOf(Framed, 1 .. Len(Framed), a) >= 2
    BY <2>1, <2>2, <2>4, CountTwo
  <2> QED
    BY <1>8, <2>3, <2>5
<1> QED
  BY <1>4, <1>7, <1>8, <1>9

\* So has a clone that waits to be pushed.
LEMMA MadeAlone ==
  ASSUME IInv, NEW i \in 1 .. Len(chain.made)
  PROVE  /\ chain.made[i] \in Addr
         /\ block[chain.made[i]].tag \in FrameTags /\ Alone(chain.made[i]) /\ MadeCount(chain.made[i]) = 1
         /\ \A k \in 1 .. Len(chain.made) : chain.made[k] = chain.made[i] => k = i
<1> DEFINE a == chain.made[i]
<1>1. TypeInv /\ SortInv
  BY DEF IInv
<1>2. chain.made \in Seq(Addr)
  BY <1>1 DEF TypeInv
<1>4. a \in Addr /\ block[a].tag \in FrameTags
  BY <1>1 DEF SortInv, IsFrame
<1>5. MadeCount(a) \in Nat /\ MadeCount(a) # 0
  BY <1>1, <1>4, CountsTyped
<1>6. Total(a) # 0
  <2>1. Total(a) = 0 => Unowned(a)
    BY <1>1, <1>4, NobodyOwns
  <2>2. ~Unowned(a)
    BY DEF Unowned
  <2> QED
    BY <2>1, <2>2
<1>7. Alone(a)
  BY <1>4, <1>6, FrameAlone
<1>8. MadeCount(a) = 1
  BY <1>1, <1>4, <1>5, <1>7, OnlyOne
<1>9. ASSUME NEW k \in 1 .. Len(chain.made), chain.made[k] = a PROVE k = i
  <2>1. SUFFICES ASSUME k # i PROVE FALSE
    OBVIOUS
  <2>3. MadeCount(a) = CountOf(chain.made, 1 .. Len(chain.made), a)
    BY <1>2, CountInIs DEF MadeCount
  <2>4. IsFiniteSet(1 .. Len(chain.made))
    BY <1>2, FS_Interval
  <2>5. CountOf(chain.made, 1 .. Len(chain.made), a) >= 2
    BY <1>9, <2>1, <2>4, CountTwo
  <2> QED
    BY <1>8, <2>3, <2>5
<1> QED
  BY <1>4, <1>7, <1>8, <1>9

----------------------------------------------------------------------------
(* The pool.                                                               *)

Before == {p \in Nat \X Nat : p[1] < p[2]}

\* A set of numbers has a least: the address a fresh block gets.
LEMMA LowestAddress ==
  ASSUME NEW T, T \subseteq Nat, T # {}
  PROVE  \E n \in T : \A m \in T : n <= m
<1>1. IsWellFoundedOn(Before, Nat)
  <2>1. Before = OpToRel(<, Nat)
    BY DEF OpToRel, Before
  <2> QED
    BY <2>1, NatLessThanWellFounded
<1>2. PICK n \in T : \A m \in T : ~(<<m, n>> \in Before)
  BY <1>1, WFMin
<1>3. ASSUME NEW m \in T, m < n PROVE FALSE
  BY <1>2, <1>3 DEF Before
<1> QED
  BY <1>2, <1>3

SizeOf(b) == Words(b.tag, Len(b.fields))

\* The size of a block is a number.
LEMMA SizeIs ==
  ASSUME NEW b \in Block
  PROVE  SizeOf(b) \in Nat /\ Len(b.fields) \in Nat
<1>1. b.tag \in Tags \cup {"none"} /\ b.fields \in Seq(AN)
  BY DEF Block
<1>2. HeaderWords[b.tag] \in Nat
  BY <1>1 DEF HeaderWords, Tags
<1> QED
  BY <1>1, <1>2 DEF SizeOf, Words

\* The pool invariant, address by address.
LEMMA PoolIs ==
  PoolInv <=>
  /\ \A a \in Addr : block[a].tag # "none" =>
        class[a] = (IF block[a].pooled THEN SizeOf(block[a]) ELSE 0) /\ (block[a].pooled => class[a] # 0)
  /\ \A n \in 1 .. PoolWords :
        /\ \A i, j \in 1 .. Len(freelist[n]) : freelist[n][i] = freelist[n][j] => i = j
        /\ \A a \in Addr : (\E i \in 1 .. Len(freelist[n]) : freelist[n][i] = a)
                              <=> class[a] = n /\ block[a].tag = "none"
BY DEF PoolInv, SizeOf

\* Blocks that keep their shapes.
LEMMA PoolSame ==
  ASSUME PoolInv, UNCHANGED pool, SameShapes(block', block)
  PROVE  PoolInv'
<1>1. class' = class /\ freelist' = freelist
  BY DEF pool
<1>2. \A a \in Addr : block'[a].tag = block[a].tag /\ block'[a].fields = block[a].fields /\ block'[a].pooled = block[a].pooled
  BY DEF SameShapes, SameShape
<1> QED
  BY <1>1, <1>2 DEF PoolInv

\* jq_alloc_block.
LEMMA NewIs ==
  ASSUME TypeInv, ShapeInv, PoolInv, NEW n \in Nat, Alloc(n)
  PROVE  /\ New(n) \in Addr /\ block[New(n)] = Dead /\ block[New(n)].tag = "none"
         /\ class' \in [Addr -> 0 .. PoolWords] /\ freelist' \in [1 .. PoolWords -> Seq(Addr)]
         /\ \A b \in Addr : b # New(n) => class'[b] = class[b]
         /\ class'[New(n)] = IF Small(n) THEN n ELSE 0
         /\ \A m \in 1 .. PoolWords :
              /\ \A i, j \in 1 .. Len(freelist'[m]) : freelist'[m][i] = freelist'[m][j] => i = j
              /\ \A b \in Addr : (\E i \in 1 .. Len(freelist'[m]) : freelist'[m][i] = b)
                                    <=> class[b] = m /\ block[b].tag = "none" /\ b # New(n)
<1> DEFINE a == New(n)
<1>0. PoolWords \in Nat /\ Addr \subseteq Nat
  BY HeapAssumption
<1>1. /\ class \in [Addr -> 0 .. PoolWords] /\ freelist \in [1 .. PoolWords -> Seq(Addr)]
      /\ \A b \in Addr : block[b].tag = "none" => block[b] = Dead
  BY DEF TypeInv, ShapeInv, Shaped
<1>2. \A m \in 1 .. PoolWords :
        /\ \A i, j \in 1 .. Len(freelist[m]) : freelist[m][i] = freelist[m][j] => i = j
        /\ \A b \in Addr : (\E i \in 1 .. Len(freelist[m]) : freelist[m][i] = b)
                              <=> class[b] = m /\ block[b].tag = "none"
  BY DEF PoolInv
<1>3. CASE Listed(n)
  <2> DEFINE f == freelist[n]
  <2>1. Small(n) /\ n \in 1 .. PoolWords /\ freelist[n] # << >>
    BY <1>3 DEF Listed, Small
  <2>2. a = f[1]
    BY <1>3 DEF New
  <2>3. freelist' = [freelist EXCEPT ![n] = Tail(f)] /\ class' = [class EXCEPT ![a] = n]
    BY <1>3, <2>1 DEF Alloc
  <2>4. f \in Seq(Addr) /\ f # << >>
    BY <1>1, <2>1
  <2>5. /\ f[1] \in Addr /\ Len(f) \in Nat \ {0} /\ 1 \in 1 .. Len(f)
        /\ Tail(f) \in Seq(Addr) /\ Len(Tail(f)) = Len(f) - 1
        /\ \A i \in 1 .. Len(f) - 1 : Tail(f)[i] = f[i + 1] /\ i + 1 \in 1 .. Len(f)
    BY <2>4
  <2>6. class[a] = n /\ block[a].tag = "none" /\ block[a] = Dead /\ a \in Addr
    BY <1>1, <1>2, <2>1, <2>2, <2>5
  <2>7. class' \in [Addr -> 0 .. PoolWords] /\ freelist' \in [1 .. PoolWords -> Seq(Addr)]
        /\ freelist'[n] = Tail(f) /\ \A m \in 1 .. PoolWords : m # n => freelist'[m] = freelist[m]
    <3> DEFINE r == Tail(f)
    <3>1. r \in Seq(Addr) /\ freelist' = [freelist EXCEPT ![n] = r]
      BY <2>3, <2>5
    <3> HIDE DEF r, f, a
    <3>2. freelist' \in [1 .. PoolWords -> Seq(Addr)]
          /\ freelist'[n] = r /\ \A m \in 1 .. PoolWords : m # n => freelist'[m] = freelist[m]
      BY <1>1, <2>1, <3>1
    <3>3. class' \in [Addr -> 0 .. PoolWords]
      <4>1. n \in 0 .. PoolWords /\ class' = [class EXCEPT ![a] = n] /\ class \in [Addr -> 0 .. PoolWords]
        BY <1>0, <1>1, <2>1, <2>3
      <4> QED
        BY <4>1
    <3> QED
      BY <3>2, <3>3 DEF r
  <2>8. (\A b \in Addr : b # a => class'[b] = class[b]) /\ class'[a] = n
    BY <1>1, <2>3, <2>6
  <2>9. ASSUME NEW m \in 1 .. PoolWords
        PROVE  /\ \A i, j \in 1 .. Len(freelist'[m]) : freelist'[m][i] = freelist'[m][j] => i = j
               /\ \A b \in Addr : (\E i \in 1 .. Len(freelist'[m]) : freelist'[m][i] = b)
                                    <=> class[b] = m /\ block[b].tag = "none" /\ b # a
    <3>1. CASE m # n
      <4>1. freelist'[m] = freelist[m] /\ class[a] # m
        BY <2>6, <2>7, <3>1
      <4> HIDE DEF a
      <4> QED
        BY <1>2, <4>1
    <3>2. CASE m = n
      <4>1. freelist'[m] = Tail(f) /\ Len(freelist'[m]) = Len(f) - 1
        BY <2>5, <2>7, <3>2
      <4>2. \A i, j \in 1 .. Len(f) : f[i] = f[j] => i = j
        BY <1>2, <2>1
      <4>3. \A b \in Addr : (\E i \in 1 .. Len(f) : f[i] = b) <=> class[b] = n /\ block[b].tag = "none"
        BY <1>2, <2>1
      <4>4. \A i, j \in 1 .. Len(freelist'[m]) : freelist'[m][i] = freelist'[m][j] => i = j
        <5> TAKE i, j \in 1 .. Len(freelist'[m])
        <5>1. i \in 1 .. Len(f) - 1 /\ j \in 1 .. Len(f) - 1 /\ i \in Nat /\ j \in Nat
          BY <2>5, <4>1
        <5>2. freelist'[m][i] = f[i + 1] /\ freelist'[m][j] = f[j + 1] /\ i + 1 \in 1 .. Len(f) /\ j + 1 \in 1 .. Len(f)
          BY <2>5, <4>1, <5>1
        <5> HIDE DEF f
        <5>3. f[i + 1] = f[j + 1] => i + 1 = j + 1
          BY <4>2, <5>2
        <5> QED
          BY <5>1, <5>2, <5>3
      <4>5. ASSUME NEW b \in Addr
            PROVE  (\E i \in 1 .. Len(freelist'[m]) : freelist'[m][i] = b) <=> (\E i \in 1 .. Len(f) : f[i] = b) /\ b # a
        <5>1. ASSUME NEW i \in 1 .. Len(freelist'[m]), freelist'[m][i] = b
              PROVE  (\E k \in 1 .. Len(f) : f[k] = b) /\ b # a
          <6>1. i \in 1 .. Len(f) - 1 /\ i \in Nat /\ i # 0
            BY <2>5, <4>1
          <6>2. b = f[i + 1] /\ i + 1 \in 1 .. Len(f) /\ i + 1 # 1
            BY <2>5, <4>1, <5>1, <6>1
          <6> HIDE DEF f
          <6> QED
            BY <2>2, <2>5, <4>2, <6>2
        <5>2. ASSUME NEW i \in 1 .. Len(f), f[i] = b, b # a
              PROVE  \E k \in 1 .. Len(freelist'[m]) : freelist'[m][k] = b
          <6>1. i # 1 /\ i - 1 \in 1 .. Len(f) - 1 /\ (i - 1) + 1 = i
            BY <2>2, <2>5, <5>2
          <6>2. Tail(f)[i - 1] = f[(i - 1) + 1]
            BY <2>5, <6>1
          <6>3. freelist'[m][i - 1] = b /\ i - 1 \in 1 .. Len(freelist'[m])
            BY <4>1, <5>2, <6>1, <6>2
          <6> QED
            BY <6>3
        <5> QED
          BY <5>1, <5>2
      <4> QED
        BY <3>2, <4>3, <4>4, <4>5
    <3> QED
      BY <3>1, <3>2
  <2> HIDE DEF a, f
  <2>10. a \in Addr /\ block[a] = Dead /\ block[a].tag = "none"
         /\ class'[a] = IF Small(n) THEN n ELSE 0
    BY <2>1, <2>6, <2>8
  <2> QED
    BY <2>7, <2>8, <2>9, <2>10 DEF a
<1>4. CASE ~Listed(n)
  <2>1. Unused # {} /\ Unused \subseteq Nat
    BY <1>0, <1>4 DEF Alloc, Unused
  <2>2. \E c \in Unused : \A m \in Unused : c <= m
    BY <2>1, LowestAddress
  <2>3. a \in Unused
    BY <1>4, <2>2 DEF New
  <2>4. a \in Addr /\ block[a] = Dead /\ class[a] = 0 /\ block[a].tag = "none"
    BY <2>3, DeadIs DEF Unused
  <2>5. freelist' = freelist /\ class' = IF Small(n) THEN [class EXCEPT ![a] = n] ELSE class
    BY <1>4 DEF Alloc
  <2> HIDE DEF a
  <2>6. class' \in [Addr -> 0 .. PoolWords] /\ (\A b \in Addr : b # a => class'[b] = class[b])
        /\ class'[a] = IF Small(n) THEN n ELSE 0
    BY <1>0, <1>1, <2>4, <2>5 DEF Small
  <2>7. \A m \in 1 .. PoolWords : class[a] # m
    BY <2>4
  <2> QED
    BY <1>1, <1>2, <2>4, <2>5, <2>6, <2>7 DEF a
<1> QED
  BY <1>3, <1>4

\* jq_alloc_block keeps the pool sound.
LEMMA PoolGrows ==
  ASSUME TypeInv, ShapeInv, PoolInv, NEW n \in Nat, Alloc(n),
         block'[New(n)].tag # "none", block'[New(n)].pooled = Small(n), SizeOf(block'[New(n)]) = n,
         \A b \in Addr : b # New(n) => SameShape(block'[b], block[b])
  PROVE  PoolInv'
<1> DEFINE a == New(n)
<1>1. /\ a \in Addr /\ block[a].tag = "none"
      /\ \A b \in Addr : b # a => class'[b] = class[b]
      /\ class'[a] = IF Small(n) THEN n ELSE 0
      /\ \A m \in 1 .. PoolWords :
           /\ \A i, j \in 1 .. Len(freelist'[m]) : freelist'[m][i] = freelist'[m][j] => i = j
           /\ \A b \in Addr : (\E i \in 1 .. Len(freelist'[m]) : freelist'[m][i] = b)
                                 <=> class[b] = m /\ block[b].tag = "none" /\ b # a
  BY NewIs
<1>2. block'[a].tag # "none" /\ block'[a].pooled = Small(n) /\ SizeOf(block'[a]) = n
  OBVIOUS
<1> HIDE DEF a
<1>3. \A b \in Addr : b # a => /\ block'[b].tag = block[b].tag /\ block'[b].pooled = block[b].pooled
                              /\ SizeOf(block'[b]) = SizeOf(block[b])
  BY DEF a, SameShape, SizeOf
<1>4. \A b \in Addr : block'[b].tag # "none" =>
        class'[b] = (IF block'[b].pooled THEN SizeOf(block'[b]) ELSE 0) /\ (block'[b].pooled => class'[b] # 0)
  <2>1. \A b \in Addr : block[b].tag # "none" =>
          class[b] = (IF block[b].pooled THEN SizeOf(block[b]) ELSE 0) /\ (block[b].pooled => class[b] # 0)
    BY PoolIs
  <2>2. Small(n) => n # 0
    BY DEF Small
  <2> QED
    BY <1>1, <1>2, <1>3, <2>1, <2>2
<1>5. \A m \in 1 .. PoolWords :
        \A b \in Addr : (\E i \in 1 .. Len(freelist'[m]) : freelist'[m][i] = b)
                              <=> class'[b] = m /\ block'[b].tag = "none"
  BY <1>1, <1>2, <1>3
<1> QED
  BY <1>1, <1>4, <1>5 DEF PoolInv, SizeOf

\* jq_block_free.
LEMMA PoolShrinks ==
  ASSUME TypeInv, ShapeInv, PoolInv, NEW a \in Addr, block[a].tag # "none", BlockFree(a),
         block'[a] = Dead, \A b \in Addr : b # a => SameShape(block'[b], block[b])
  PROVE  PoolInv' /\ class' \in [Addr -> 0 .. PoolWords] /\ freelist' \in [1 .. PoolWords -> Seq(Addr)]
<1> DEFINE n == SizeOf(block[a])
<1>0. PoolWords \in Nat
  BY HeapAssumption
<1>1. /\ class \in [Addr -> 0 .. PoolWords] /\ freelist \in [1 .. PoolWords -> Seq(Addr)] /\ class' = class
      /\ block[a] \in Block
  BY DEF TypeInv, BlockFree
<1>2. /\ \A b \in Addr : block[b].tag # "none" =>
           class[b] = (IF block[b].pooled THEN SizeOf(block[b]) ELSE 0) /\ (block[b].pooled => class[b] # 0)
      /\ \A m \in 1 .. PoolWords :
           /\ \A i, j \in 1 .. Len(freelist[m]) : freelist[m][i] = freelist[m][j] => i = j
           /\ \A b \in Addr : (\E i \in 1 .. Len(freelist[m]) : freelist[m][i] = b)
                              <=> class[b] = m /\ block[b].tag = "none"
  BY PoolIs
<1>3. freelist' = IF block[a].pooled THEN [freelist EXCEPT ![n] = <<a>> \o @] ELSE freelist
  BY DEF BlockFree, SizeOf
<1>4. block'[a].tag = "none"
  BY DeadIs
<1>5. \A b \in Addr : b # a => /\ block'[b].tag = block[b].tag /\ block'[b].pooled = block[b].pooled
                              /\ SizeOf(block'[b]) = SizeOf(block[b])
  BY DEF SameShape, SizeOf
<1>6. \A b \in Addr : block'[b].tag # "none" =>
        class'[b] = (IF block'[b].pooled THEN SizeOf(block'[b]) ELSE 0) /\ (block'[b].pooled => class'[b] # 0)
  BY <1>1, <1>2, <1>4, <1>5
<1> HIDE DEF n
<1>7. freelist' \in [1 .. PoolWords -> Seq(Addr)]
      /\ \A m \in 1 .. PoolWords :
           /\ \A i, j \in 1 .. Len(freelist'[m]) : freelist'[m][i] = freelist'[m][j] => i = j
           /\ \A b \in Addr : (\E i \in 1 .. Len(freelist'[m]) : freelist'[m][i] = b)
                              <=> class'[b] = m /\ block'[b].tag = "none"
  <2>1. CASE ~block[a].pooled
    <3>1. freelist' = freelist /\ class[a] = 0
      BY <1>2, <1>3, <2>1
    <3>2. \A m \in 1 .. PoolWords : class[a] # m
      BY <3>1
    <3> QED
      BY <1>1, <1>2, <1>5, <3>1, <3>2
  <2>2. CASE block[a].pooled
    <3>1. class[a] = n /\ n \in 1 .. PoolWords
      BY <1>0, <1>1, <1>2, <2>2 DEF n
    <3> DEFINE f == freelist[n]
    <3>2. f \in Seq(Addr) /\ \A i \in 1 .. Len(f) : f[i] # a
      BY <1>1, <1>2, <3>1
    <3>3. freelist' = [freelist EXCEPT ![n] = <<a>> \o f]
      BY <1>3, <2>2
    <3>4. <<a>> \o f \in Seq(Addr) /\ Len(<<a>> \o f) = Len(f) + 1 /\ Len(f) \in Nat
          /\ \A i \in 1 .. Len(f) + 1 : (<<a>> \o f)[i] = IF i = 1 THEN a ELSE f[i - 1]
      BY <3>2
    <3> DEFINE g == <<a>> \o f
    <3> HIDE DEF g
    <3>5. freelist' \in [1 .. PoolWords -> Seq(Addr)] /\ freelist'[n] = g
          /\ \A m \in 1 .. PoolWords : m # n => freelist'[m] = freelist[m]
      BY <1>1, <3>1, <3>3, <3>4 DEF g
    <3>6. ASSUME NEW m \in 1 .. PoolWords
          PROVE  /\ \A i, j \in 1 .. Len(freelist'[m]) : freelist'[m][i] = freelist'[m][j] => i = j
                 /\ \A b \in Addr : (\E i \in 1 .. Len(freelist'[m]) : freelist'[m][i] = b)
                                      <=> class'[b] = m /\ block'[b].tag = "none"
      <4>1. CASE m # n
        <5>1. freelist'[m] = freelist[m] /\ class'[a] # m /\ class[a] # m
          BY <1>1, <3>1, <3>5, <4>1
        <5>2. \A b \in Addr : class'[b] = m /\ block'[b].tag = "none" <=> class[b] = m /\ block[b].tag = "none"
          BY <1>1, <1>5, <5>1
        <5> QED
          BY <1>2, <5>1, <5>2
      <4>2. CASE m = n
        <5>1. freelist'[m] = g /\ Len(g) = Len(f) + 1 /\ Len(f) \in Nat
              /\ \A i \in 1 .. Len(g) : g[i] = IF i = 1 THEN a ELSE f[i - 1]
          BY <3>4, <3>5, <4>2 DEF g
        <5>2. /\ \A i, j \in 1 .. Len(f) : f[i] = f[j] => i = j
              /\ \A b \in Addr : (\E i \in 1 .. Len(f) : f[i] = b) <=> class[b] = n /\ block[b].tag = "none"
          BY <1>2, <3>1
        <5>3. \A i, j \in 1 .. Len(g) : g[i] = g[j] => i = j
          <6> TAKE i, j \in 1 .. Len(g)
          <6> HAVE g[i] = g[j]
          <6>1. CASE i = 1
            <7>1. j # 1 => g[j] = f[j - 1] /\ j - 1 \in 1 .. Len(f)
              BY <5>1
            <7> HIDE DEF f
            <7> QED
              BY <3>2, <5>1, <6>1, <7>1
          <6>2. CASE j = 1
            <7>1. i # 1 => g[i] = f[i - 1] /\ i - 1 \in 1 .. Len(f)
              BY <5>1
            <7> HIDE DEF f
            <7> QED
              BY <3>2, <5>1, <6>2, <7>1
          <6>3. CASE i # 1 /\ j # 1
            <7>1. /\ g[i] = f[i - 1] /\ i - 1 \in 1 .. Len(f) /\ i \in Int
                  /\ g[j] = f[j - 1] /\ j - 1 \in 1 .. Len(f) /\ j \in Int
              BY <5>1, <6>3
            <7> DEFINE p == i - 1
                       q == j - 1
            <7>4. f[p] = f[q]
              BY <7>1
            <7>2. p \in 1 .. Len(f) /\ q \in 1 .. Len(f) /\ f[p] = f[q] /\ (p = q => i = j)
              BY <7>1, <7>4
            <7> HIDE DEF f, p, q
            <7>3. p = q
              BY <5>2, <7>2
            <7> QED
              BY <7>2, <7>3
          <6> QED
            BY <6>1, <6>2, <6>3
        <5>4. ASSUME NEW b \in Addr
              PROVE  (\E i \in 1 .. Len(g) : g[i] = b) <=> b = a \/ \E i \in 1 .. Len(f) : f[i] = b
          <6>1. b = a => \E i \in 1 .. Len(g) : g[i] = b
            BY <5>1
          <6>2. ASSUME NEW i \in 1 .. Len(f), f[i] = b PROVE \E k \in 1 .. Len(g) : g[k] = b
            <7>1. i + 1 \in 1 .. Len(g) /\ i + 1 # 1 /\ (i + 1) - 1 = i
              BY <5>1
            <7>2. g[i + 1] = f[(i + 1) - 1]
              BY <5>1, <7>1
            <7> QED
              BY <6>2, <7>1, <7>2
          <6>3. ASSUME NEW i \in 1 .. Len(g), g[i] = b, b # a PROVE \E k \in 1 .. Len(f) : f[k] = b
            <7>1. i # 1 /\ i - 1 \in 1 .. Len(f) /\ g[i] = f[i - 1]
              BY <5>1, <6>3
            <7> QED
              BY <6>3, <7>1
          <6> QED
            BY <6>1, <6>2, <6>3
        <5>5. \A b \in Addr : class'[b] = m /\ block'[b].tag = "none"
                               <=> b = a \/ (class[b] = n /\ block[b].tag = "none")
          BY <1>1, <1>4, <1>5, <3>1, <4>2
        <5>6. freelist'[m] = g
          BY <5>1
        <5>7. \A i, j \in 1 .. Len(freelist'[m]) : freelist'[m][i] = freelist'[m][j] => i = j
          BY <5>3, <5>6
        <5> HIDE DEF f
        <5>8. \A b \in Addr : (\E i \in 1 .. Len(g) : g[i] = b) <=> class'[b] = m /\ block'[b].tag = "none"
          BY <5>2, <5>4, <5>5
        <5>9. \A b \in Addr : (\E i \in 1 .. Len(freelist'[m]) : freelist'[m][i] = b)
                                 <=> class'[b] = m /\ block'[b].tag = "none"
          BY <5>6, <5>8
        <5> QED
          BY <5>7, <5>9
      <4> QED
        BY <4>1, <4>2
    <3> QED
      BY <3>5, <3>6
  <2> QED
    BY <2>1, <2>2
<1>8. PoolInv'
  BY <1>6, <1>7 DEF PoolInv, SizeOf
<1> QED
  BY <1>1, <1>7, <1>8

----------------------------------------------------------------------------
(* Steps that keep every block's shape.                                    *)

Typed == \A a \in Addr : /\ LocalCount(a) \in Nat /\ ClauseCount(a) \in Nat /\ FramedCount(a) \in Nat
                         /\ MadeCount(a) \in Nat /\ HeldCount(a) \in Nat /\ ShellCount(a) \in Nat

\* All counts are numbers,
LEMMA TypedNow == TypeInv => Typed
  BY CountsTyped DEF Typed

\* and after a step.
LEMMA TypedPrime == TypeInv' => Typed'
  BY TypedNow, PTL

\* A step that changes counts and own variables only keeps pool, handlers,
\* sorts and mirrors.
LEMMA CalmKeeps ==
  ASSUME IInv, TypeInv', SameShapes(block', block), UNCHANGED <<pool, ks, hs>>, chain'.made = chain.made,
         \A b \in Addr : \A i \in 1 .. Len(block[b].fields) : Released(b, i) => Released(b, i)',
         \A x \in Locals : local'[x] = local[x] \/ (x \in Own /\ IsValue(block, local'[x]))
  PROVE  /\ PoolInv' /\ HandlerInv' /\ SortInv' /\ PinInv'
         /\ \A a \in Addr : Total(a)' = Total(a) - LocalCount(a) + LocalCount(a)' - HeldCount(a) + HeldCount(a)'
                                        - ShellCount(a) + ShellCount(a)'
<1>1. TypeInv /\ PoolInv /\ HandlerInv /\ SortInv /\ PinInv
  BY DEF IInv
<1>2. ks' = ks /\ hs' = hs /\ chain'.made = chain.made /\ UNCHANGED pool
  OBVIOUS
<1>3. \A a \in Addr : /\ block'[a].tag = block[a].tag /\ block'[a].fields = block[a].fields
                      /\ block'[a].self = block[a].self
  BY DEF SameShapes, SameShape
<1>4. PoolInv'
  BY <1>1, <1>2, PoolSame
<1>5. \A v \in AN : (IsValue(block, v) => IsValue(block', v)) /\ (IsFrame(block, v) => IsFrame(block', v))
  BY <1>3 DEF IsValue, IsFrame, AN
<1>6. /\ \A i \in 1 .. Len(hs) : hs[i].clause \in AN
      /\ \A i \in 1 .. Len(ks) : ks[i].fr \in Addr
      /\ \A i \in 1 .. Len(chain.made) : chain.made[i] \in Addr
      /\ \A b \in Addr : \A i \in 1 .. Len(block[b].fields) : block[b].fields[i] \in AN
      /\ \A x \in Locals : local'[x] \in AN /\ local[x] \in AN
  <2>1. /\ Clauses \in Seq(AN) /\ Framed \in Seq(Addr) /\ Len(Clauses) = Len(hs) /\ Len(Framed) = Len(ks)
        /\ \A i \in 1 .. Len(hs) : Clauses[i] = hs[i].clause
        /\ \A i \in 1 .. Len(ks) : Framed[i] = ks[i].fr
        /\ chain.made \in Seq(Addr)
    BY <1>1, SeqsTyped
  <2>2. \A b \in Addr : block[b].fields \in Seq(AN)
    BY <1>1, HeldTyped
  <2>3. \A i \in 1 .. Len(hs) : hs[i].clause \in AN
    BY <2>1
  <2>4. \A i \in 1 .. Len(ks) : ks[i].fr \in Addr
    BY <2>1
  <2>5. \A x \in Locals : local'[x] \in AN /\ local[x] \in AN
    BY <1>1 DEF TypeInv
  <2>6. \A b \in Addr : \A i \in 1 .. Len(block[b].fields) : block[b].fields[i] \in AN
    BY <2>2
  <2>7. \A i \in 1 .. Len(chain.made) : chain.made[i] \in Addr
    BY <2>1
  <2> QED
    BY <2>3, <2>4, <2>5, <2>6, <2>7
<1>7. HandlerInv'
  <2>1. \A i \in 1 .. Len(ks) : block'[ks[i].fr].tag = block[ks[i].fr].tag
    BY <1>3, <1>6
  <2>2. \A p \in 1 .. Len(ks') : block'[ks'[p].fr].tag = block[ks[p].fr].tag
    BY <1>2, <2>1
  <2>3. /\ \A p \in 1 .. Len(ks) : block[ks[p].fr].tag = "handler" => \E i \in 1 .. Len(hs) : hs[i].hf = ks[p].fr
        /\ \A i \in 1 .. Len(hs) : \E p \in 1 .. Len(ks) : hs[i].hf = ks[p].fr /\ block[ks[p].fr].tag = "handler"
        /\ \A i, j \in 1 .. Len(hs) : \A p, q \in 1 .. Len(ks) :
              hs[i].hf = ks[p].fr /\ hs[j].hf = ks[q].fr => (i < j <=> p < q)
    BY <1>1 DEF HandlerInv
  <2>4. \A p \in 1 .. Len(ks') : block'[ks'[p].fr].tag = "handler" => \E i \in 1 .. Len(hs') : hs'[i].hf = ks'[p].fr
    BY <1>2, <2>2, <2>3
  <2>5. \A i \in 1 .. Len(hs') : \E p \in 1 .. Len(ks') : hs'[i].hf = ks'[p].fr /\ block'[ks'[p].fr].tag = "handler"
    BY <1>2, <2>2, <2>3
  <2>6. \A i, j \in 1 .. Len(hs') : \A p, q \in 1 .. Len(ks') :
              hs'[i].hf = ks'[p].fr /\ hs'[j].hf = ks'[q].fr => (i < j <=> p < q)
    BY <1>2, <2>3
  <2> QED
    BY <2>4, <2>5, <2>6 DEF HandlerInv
<1>8. SortInv'
  <2>1. \A x \in Locals : IsValue(block', local'[x])
    <3>1. \A x \in Locals : IsValue(block, local'[x])
      BY <1>1 DEF SortInv
    <3> QED
      BY <1>5, <1>6, <3>1
  <2>2. \A i \in 1 .. Len(hs') : IsValue(block', hs'[i].clause)
    BY <1>1, <1>2, <1>5, <1>6 DEF SortInv
  <2>3. \A i \in 1 .. Len(ks') : IsFrame(block', ks'[i].fr)
    BY <1>1, <1>2, <1>5, <1>6 DEF SortInv, AN
  <2>4. \A i \in 1 .. Len(chain'.made) : IsFrame(block', chain'.made[i])
    BY <1>1, <1>2, <1>5, <1>6 DEF SortInv, AN
  <2>5. ASSUME NEW b \in Addr, NEW i \in 1 .. Len(block'[b].fields)
        PROVE  \/ Released(b, i)'
               \/ IF block'[b].tag = "resume" THEN IsFrame(block', block'[b].fields[i]) ELSE IsValue(block', block'[b].fields[i])
    <3>1. \/ Released(b, i)
          \/ IF block[b].tag = "resume" THEN IsFrame(block, block[b].fields[i]) ELSE IsValue(block, block[b].fields[i])
      BY <1>1, <1>3 DEF SortInv
    <3>2. Released(b, i) => Released(b, i)'
      BY <1>3
    <3> QED
      BY <1>3, <1>5, <1>6, <3>1, <3>2
  <2> QED
    BY <2>1, <2>2, <2>3, <2>4, <2>5 DEF SortInv
<1>9. PinInv'
  <2>1. ASSUME NEW i \in 1 .. Len(ks), NEW j \in 1 .. Len(ks[i].pins)
        PROVE  local'[ks[i].pins[j]] = local[ks[i].pins[j]]
    <3>1. ks[i].pins \in Seq(Locals)
      BY TopAlone
    <3>2. ks[i].pins[j] \in Locals
      BY <3>1
    <3> QED
      BY <1>1, <3>2, OwnIs
  <2> QED
    BY <1>1, <1>2, <1>3, <1>6, <2>1, SMTT(40) DEF PinInv
<1>10. ASSUME NEW a \in Addr
       PROVE  Total(a)' = Total(a) - LocalCount(a) + LocalCount(a)' - HeldCount(a) + HeldCount(a)'
                          - ShellCount(a) + ShellCount(a)'
  <2>1. ClauseCount(a)' = ClauseCount(a) /\ FramedCount(a)' = FramedCount(a) /\ MadeCount(a)' = MadeCount(a)
    BY <1>2 DEF ClauseCount, FramedCount, MadeCount, Clauses, Framed
  <2>2. /\ LocalCount(a) \in Nat /\ ClauseCount(a) \in Nat /\ FramedCount(a) \in Nat
        /\ MadeCount(a) \in Nat /\ HeldCount(a) \in Nat /\ ShellCount(a) \in Nat
    BY <1>1, CountsTyped
  <2>3. LocalCount(a)' \in Nat /\ HeldCount(a)' \in Nat /\ ShellCount(a)' \in Nat
    BY TypedPrime DEF Typed
  <2>4. Total(a)' = LocalCount(a)' + ClauseCount(a)' + FramedCount(a)' + MadeCount(a)' + HeldCount(a)' + ShellCount(a)'
    BY DEF Total, LocalCount, ClauseCount, FramedCount, MadeCount, HeldCount, ShellCount
  <2> QED
    BY ONLY <2>1, <2>2, <2>3, <2>4, TotalIs
<1> QED
  BY <1>4, <1>7, <1>8, <1>9, <1>10

\* If the reuse token stays as well.
LEMMA CalmerKeeps ==
  ASSUME IInv, TypeInv', SameShapes(block', block), UNCHANGED <<pool, ks, hs, token>>, chain'.made = chain.made,
         \A x \in Locals : local'[x] = local[x] \/ (x \in Own /\ IsValue(block, local'[x]))
  PROVE  /\ PoolInv' /\ HandlerInv' /\ SortInv' /\ PinInv'
         /\ \A a \in Addr : Total(a)' = Total(a) - LocalCount(a) + LocalCount(a)'
<1>1. TypeInv
  BY DEF IInv
<1>2. \A b \in Addr : \A i \in 1 .. Len(block[b].fields) : Released(b, i) <=> Released(b, i)'
  BY DEF Released
<1>3. /\ PoolInv' /\ HandlerInv' /\ SortInv' /\ PinInv'
      /\ \A a \in Addr : Total(a)' = Total(a) - LocalCount(a) + LocalCount(a)' - HeldCount(a) + HeldCount(a)'
                                     - ShellCount(a) + ShellCount(a)'
  BY <1>2, CalmKeeps
<1>4. ASSUME NEW a \in Addr PROVE Total(a)' = Total(a) - LocalCount(a) + LocalCount(a)'
  <2>1. \A b \in Addr : HeldAlike(b)
    BY <1>2 DEF HeldAlike, IsMirror, SameShapes, SameShape
  <2>2. HeldCount(a)' = HeldCount(a) /\ ShellCount(a)' = ShellCount(a)
    BY <2>1, HeldSame DEF ShellCount
  <2>3. HeldCount(a) \in Nat /\ ShellCount(a) \in Nat /\ LocalCount(a) \in Nat /\ Total(a) \in Nat
    BY <1>1, CountsTyped, NobodyOwns
  <2>4. LocalCount(a)' \in Nat
    BY TypedPrime DEF Typed
  <2> QED
    BY <1>3, <2>2, <2>3, <2>4
<1> QED
  BY <1>3, <1>4

\* Right counts are numbers of blocks.
LEMMA GoodTyped == ASSUME NEW bs, NEW n, Good(bs, n) PROVE bs \in [Addr -> Block] /\ n \in [Addr -> Nat]
BY DEF Good

\* A token nobody touches stays what it was.
LEMMA TokenKept ==
  ASSUME IInv, UNCHANGED token, token.shell # Nil => block'[token.shell] = block[token.shell]
  PROVE  TokenInv'
BY DEF IInv, TokenInv

\* A value somebody other than the token holds is not its shell.
LEMMA DupKeepsShell ==
  ASSUME IInv, NEW v \in Addr, v # token.shell, block' = Duped(block, <<v>>)
  PROVE  token.shell # Nil => block'[token.shell] = block[token.shell]
<1> SUFFICES ASSUME token.shell # Nil PROVE block'[token.shell] = block[token.shell]
  OBVIOUS
<1> DEFINE a == token.shell
           s == <<v>>
<1>1. TypeInv /\ ShapeInv
  BY DEF IInv
<1>2. a \in Addr /\ block \in [Addr -> Block] /\ block[a].rc <= RcStatic
  BY <1>1, ShellAlone DEF TypeInv, ShapeInv, Shaped
<1>3. CountIn(s, a) = 0 /\ s \in Seq(Addr)
  BY CountInSingle DEF OneIf
<1> HIDE DEF a, s
<1>4. Duped(block, s)[a] = block[a]
  BY <1>2, <1>3, DupedIs
<1> QED
  BY <1>4 DEF a, s

\* A variable gets a new reference to a value.
LEMMA DupStep ==
  ASSUME IInv, NEW x \in Locals, NEW y \in Locals, NEW v, Running, Vacant(y),
         v \in Addr, IsValue(block, v), v # token.shell,
         local' = [local EXCEPT ![y] = v], block' = Duped(block, <<v>>),
         UNCHANGED <<pool, ks, hs, work, token, chain, budget>>
  PROVE  IInv'
<1> DEFINE s == <<v>>
           m == [a \in Addr |-> CountFn[a] + CountIn(s, a)]
<1>1. TypeInv /\ ShapeInv /\ CountInv
  BY DEF IInv
<1>2. /\ v \in Addr /\ v # Nil /\ block[v].tag \in ValueTags
      /\ y \in Own /\ local[y] = Nil /\ work = {} /\ chain = NoChain
  BY HeapAssumption DEF IsValue, Vacant, Running
<1>3. s \in Seq(AN) /\ \A i \in 1 .. Len(s) : s[i] = Nil \/ block[s[i]].tag \in ValueTags
  BY <1>2 DEF AN
<1>4. Good(block, CountFn) /\ work = DyingIn(block) /\ \A a \in Addr : CountFn[a] = Total(a)
  BY IsGood
<1>5. \A a \in Addr : CountIn(s, a) = OneIf(v = a)
  BY CountInSingle
<1>6. \A a \in Addr : m[a] = Total(a) + OneIf(v = a)
  BY <1>4, <1>5
<1> HIDE DEF s
<1>7. Good(Duped(block, s), m) /\ SameShapes(Duped(block, s), block) /\ DyingIn(Duped(block, s)) = {}
  BY <1>2, <1>3, <1>4, DupGood
<1>8. block' = Duped(block, s)
  BY DEF s
<1> HIDE DEF m
<1>9. block' \in [Addr -> Block]
  BY <1>7, <1>8, GoodTyped
<1>10. TypeInv'
  <2>1. local' \in [Locals -> AN]
    BY <1>1, <1>2 DEF TypeInv, AN
  <2> QED
    BY <1>1, <1>9, <2>1 DEF TypeInv, pool
<1>11. local'[y] = v /\ \A z \in Locals : z # y => local'[z] = local[z]
  BY <1>1 DEF TypeInv
<1>12. \A a \in Addr : LocalCount(a)' = LocalCount(a) + OneIf(v = a)
  <2> TAKE a \in Addr
  <2>1. LocalCount(a)' = LocalCount(a) - OneIf(local[y] = a) + OneIf(local'[y] = a)
    BY <1>11, LocalSet
  <2>2. LocalCount(a) \in Nat
    BY <1>1, CountsTyped
  <2>3. Nil # a
    BY HeapAssumption
  <2> QED
    BY <1>2, <1>11, <2>1, <2>2, <2>3 DEF OneIf
<1>13. /\ PoolInv' /\ HandlerInv' /\ SortInv' /\ PinInv'
       /\ \A a \in Addr : Total(a)' = Total(a) - LocalCount(a) + LocalCount(a)'
  BY <1>2, <1>7, <1>8, <1>10, <1>11, CalmerKeeps
<1>14. \A a \in Addr : Total(a)' = m[a]
  <2> TAKE a \in Addr
  <2>1. LocalCount(a) \in Nat /\ Total(a) \in Nat
    BY <1>1, CountsTyped, NobodyOwns
  <2> QED
    BY <1>6, <1>12, <1>13, <2>1 DEF OneIf
<1>15. ShapeInv' /\ CountInv'
  BY <1>2, <1>7, <1>8, <1>14, GoodIsCounted
<1>16. TokenInv'
  BY TokenKept, DupKeepsShell
<1>17. ChainInv'
  BY <1>2 DEF ChainInv, NoChain
<1> QED
  BY <1>10, <1>13, <1>15, <1>16, <1>17 DEF IInv

\* jq_dup keeps the invariant.
LEMMA KeepsDup == ASSUME IInv, NEW x \in Locals, NEW y \in Locals, Dup(x, y) PROVE IInv'
<1>1. TypeInv /\ SortInv
  BY DEF IInv
<1>2. local[x] # Nil /\ local[x] \in Addr /\ IsValue(block, local[x])
  BY <1>1 DEF Dup, Holds, TypeInv, SortInv, AN
<1>3. local[x] # token.shell
  BY <1>2, ShellAlone
<1> QED
  BY <1>2, <1>3, DupStep DEF Dup

\* Reading a field keeps the invariant: the reference is new, the block is the
\* owner of the old one.
LEMMA KeepsProject ==
  ASSUME IInv, NEW x \in Locals, NEW y \in Locals, NEW i \in Nat, Project(x, i, y)
  PROVE  IInv'
<1> DEFINE b == local[x]
           v == block[b].fields[i]
<1>1. TypeInv /\ SortInv /\ ShapeInv
  BY DEF IInv
<1>2. b # Nil /\ b \in Addr /\ b # token.shell
  BY <1>1, ShellAlone DEF Project, Holds, TypeInv, AN
<1>3. block[b].fields \in Seq(AN) /\ i \in 1 .. Len(block[b].fields)
  BY <1>1, <1>2 DEF Project, TypeInv, Block
<1>4. v # Nil /\ v \in AN /\ block[b].tag # "resume" /\ block[b].tag # "frame"
  BY <1>3 DEF Project
<1>5. IsValue(block, v)
  BY <1>1, <1>2, <1>3, <1>4 DEF SortInv, Released
<1>6. v \in Addr
  BY <1>4 DEF AN
<1>7. v # token.shell
  <2>1. SUFFICES ASSUME v = token.shell PROVE FALSE
    OBVIOUS
  <2>2. CountIn(HeldBy(b), token.shell) = 0
    <3>1. token.shell # Nil
      BY <1>4, <2>1
    <3>2. \A c \in Addr : CountIn(HeldBy(c), token.shell) = 0
      BY <3>1, ShellAlone
    <3> QED
      BY <1>2, <3>2
  <2>3. HeldBy(b) \in Seq(AN) /\ Len(HeldBy(b)) = Len(block[b].fields)
    BY <1>1, <1>2, HeldTyped
  <2>4. HeldBy(b)[i] # token.shell
    BY <1>3, <2>2, <2>3, CountInIs
  <2>5. HeldBy(b)[i] = IF IsMirror(b) \/ i = block[b].self \/ Released(b, i) THEN Nil ELSE v
    BY <1>3 DEF HeldBy
  <2>6. IsMirror(b) => block[b].tag = "frame"
    BY DEF IsMirror, IInv, PinInv
  <2>7. i # block[b].self
    BY <1>1, <1>2, <1>3, <2>1 DEF ShapeInv, Shaped
  <2> QED
    BY <1>2, <1>4, <2>1, <2>4, <2>5, <2>6, <2>7 DEF Released
<1> QED
  BY <1>5, <1>6, <1>7, DupStep DEF Project

----------------------------------------------------------------------------
(* A reference is given up.                                                *)

\* Giving up a reference leaves the shell of the token alone.
LEMMA DropKeepsShell ==
  ASSUME IInv, NEW v \in AN, v # token.shell, block' = Dropped(block, <<v>>),
         v # Nil => Total(v) # 0
  PROVE  token.shell # Nil => block'[token.shell] = block[token.shell]
<1> SUFFICES ASSUME token.shell # Nil PROVE block'[token.shell] = block[token.shell]
  OBVIOUS
<1> DEFINE a == token.shell
           s == <<v>>
<1>1. TypeInv /\ CountInv
  BY DEF IInv
<1>2. a \in Addr /\ block \in [Addr -> Block]
  BY <1>1, ShellAlone DEF TypeInv
<1>3. s \in Seq(AN) /\ \A c \in Addr : CountIn(s, c) = OneIf(v = c)
  BY CountInSingle
<1>4. CountIn(s, a) = 0
  BY <1>2, <1>3 DEF OneIf
<1>5. \A c \in Addr : \E n \in Nat : Exact(block[c].rc, n) /\ CountIn(s, c) <= n
  <2> TAKE c \in Addr
  <2>1. Total(c) \in Nat /\ Exact(block[c].rc, Total(c)) /\ Nil \notin Addr
    BY <1>1, Counted, HeapAssumption DEF Owned, CountInv
  <2>2. CountIn(s, c) <= Total(c)
    BY <1>3, <2>1 DEF OneIf
  <2> QED
    BY <2>1, <2>2
<1> HIDE DEF a, s
<1>6. Dropped(block, s)[a] = block[a]
  BY <1>2, <1>3, <1>4, <1>5, DroppedIs
<1> QED
  BY <1>6 DEF a, s

\* What a drop of one reference does to the counts.
LEMMA DropOne ==
  ASSUME IInv, NEW v \in AN, v # Nil => Total(v) # 0
  PROVE  \E m \in [Addr -> Nat] :
           /\ \A a \in Addr : m[a] = Total(a) - OneIf(v = a)
           /\ Good(Dropped(block, <<v>>), m) /\ SameShapes(Dropped(block, <<v>>), block)
           /\ DyingIn(Dropped(block, <<v>>)) = work \cup Zeroed(block, <<v>>)
           /\ Zeroed(block, <<v>>) \in SUBSET Addr
<1> DEFINE s == <<v>>
           m == [a \in Addr |-> CountFn[a] - CountIn(s, a)]
<1>1. s \in Seq(AN) /\ \A c \in Addr : CountIn(s, c) = OneIf(v = c)
  BY CountInSingle
<1>2. Good(block, CountFn) /\ work = DyingIn(block) /\ \A a \in Addr : CountFn[a] = Total(a)
  BY IsGood
<1>3. \A a \in Addr : Total(a) \in Nat /\ a # Nil
  BY Counted, HeapAssumption DEF IInv, Owned
<1>4. \A a \in Addr : CountIn(s, a) <= CountFn[a]
  BY <1>1, <1>2, <1>3 DEF OneIf
<1>5. \A a \in Addr : m[a] = Total(a) - OneIf(v = a)
  BY <1>1, <1>2
<1> HIDE DEF s
<1>6. /\ Good(Dropped(block, s), m)
      /\ SameShapes(Dropped(block, s), block)
      /\ DyingIn(Dropped(block, s)) = work \cup Zeroed(block, s)
      /\ Zeroed(block, s) \in SUBSET Addr
  <2>1. Good(block, CountFn) /\ s \in Seq(AN) /\ \A a \in Addr : CountIn(s, a) <= CountFn[a]
    BY <1>1, <1>2, <1>4
  <2>2. /\ Good(Dropped(block, s), m)
        /\ SameShapes(Dropped(block, s), block)
        /\ DyingIn(Dropped(block, s)) = DyingIn(block) \cup Zeroed(block, s)
        /\ Zeroed(block, s) \in SUBSET Addr
    BY ONLY <2>1, DropGood, Z3T(30)
  <2> QED
    BY <1>2, <2>2
<1>7. m \in [Addr -> Nat]
  BY <1>6, GoodTyped
<1> HIDE DEF m
<1> QED
  BY <1>5, <1>6, <1>7 DEF s

\* A variable that holds a block is one of its owners.
LEMMA LocalOwns ==
  ASSUME TypeInv, NEW x \in Locals, local[x] # Nil
  PROVE  local[x] \in Addr /\ LocalCount(local[x]) > 0 /\ Total(local[x]) # 0
<1>1. local[x] \in Addr
  BY DEF TypeInv, AN
<1>2. LocalCount(local[x]) \in Nat /\ LocalCount(local[x]) # 0
  BY <1>1, CountsTyped
<1>3. ~Unowned(local[x])
  BY DEF Unowned
<1> QED
  BY <1>1, <1>2, <1>3, NobodyOwns

\* A variable is emptied.
LEMMA LocalCleared ==
  ASSUME TypeInv, NEW x \in Locals, local' = [local EXCEPT ![x] = Nil]
  PROVE  /\ local' \in [Locals -> AN] /\ local'[x] = Nil /\ \A z \in Locals : z # x => local'[z] = local[z]
         /\ \A a \in Addr : LocalCount(a)' = LocalCount(a) - OneIf(local[x] = a)
<1>1. /\ local' \in [Locals -> AN] /\ local'[x] = Nil /\ \A z \in Locals : z # x => local'[z] = local[z]
  BY DEF TypeInv, AN
<1>2. ASSUME NEW a \in Addr PROVE LocalCount(a)' = LocalCount(a) - OneIf(local[x] = a)
  <2>1. LocalCount(a)' = LocalCount(a) - OneIf(local[x] = a) + OneIf(local'[x] = a)
    BY <1>1, LocalSet
  <2>2. LocalCount(a) \in Nat /\ Nil # a
    BY CountsTyped, HeapAssumption
  <2> QED
    BY <1>1, <2>1, <2>2 DEF OneIf
<1> QED
  BY <1>1, <1>2

\* jq_drop keeps the invariant.
LEMMA KeepsDrop == ASSUME IInv, NEW x \in Locals, Drop(x) PROVE IInv'
<1> DEFINE v == local[x]
<1>1. TypeInv
  BY DEF IInv
<1>2. /\ x \in Own /\ v # Nil /\ work = {} /\ chain = NoChain
      /\ local' = [local EXCEPT ![x] = Nil] /\ block' = Dropped(block, <<v>>)
      /\ work' = Zeroed(block, <<v>>) /\ UNCHANGED <<pool, ks, hs, token, chain, budget>>
  BY DEF Drop, Holds, Running
<1>3. v \in Addr /\ v \in AN /\ Total(v) # 0 /\ v # token.shell
  BY <1>1, <1>2, LocalOwns, ShellAlone DEF AN
<1> HIDE DEF v
<1>4. PICK m \in [Addr -> Nat] :
           /\ \A a \in Addr : m[a] = Total(a) - OneIf(v = a)
           /\ Good(Dropped(block, <<v>>), m) /\ SameShapes(Dropped(block, <<v>>), block)
           /\ DyingIn(Dropped(block, <<v>>)) = work \cup Zeroed(block, <<v>>)
           /\ Zeroed(block, <<v>>) \in SUBSET Addr
  BY <1>3, DropOne
<1>5. Good(block', m) /\ SameShapes(block', block) /\ work' = DyingIn(block') /\ work' \in SUBSET Addr
  BY <1>2, <1>4
<1>6. /\ local' \in [Locals -> AN] /\ local'[x] = Nil /\ \A z \in Locals : z # x => local'[z] = local[z]
      /\ \A a \in Addr : LocalCount(a)' = LocalCount(a) - OneIf(v = a)
  BY <1>1, <1>2, LocalCleared DEF v
<1>7. TypeInv'
  BY <1>1, <1>2, <1>5, <1>6, GoodTyped DEF TypeInv, pool
<1>8. /\ PoolInv' /\ HandlerInv' /\ SortInv' /\ PinInv'
      /\ \A a \in Addr : Total(a)' = Total(a) - LocalCount(a) + LocalCount(a)'
  BY <1>2, <1>5, <1>6, <1>7, CalmerKeeps DEF IsValue
<1>9. \A a \in Addr : Total(a)' = m[a]
  <2> TAKE a \in Addr
  <2>1. LocalCount(a) \in Nat /\ Total(a) \in Nat
    BY <1>1, CountsTyped, NobodyOwns
  <2> QED
    BY <1>4, <1>6, <1>8, <2>1 DEF OneIf
<1>10. ShapeInv' /\ CountInv'
  BY <1>5, <1>9, GoodIsCounted
<1>11. TokenInv'
  BY <1>2, <1>3, TokenKept, DropKeepsShell
<1>12. ChainInv'
  BY <1>2 DEF ChainInv, NoChain
<1> QED
  BY <1>7, <1>8, <1>10, <1>11, <1>12 DEF IInv

\* jq_resume keeps the invariant: the chain that is rebuilt is still held by
\* its variable.
LEMMA KeepsResume == ASSUME IInv, NEW x \in Locals, Resume(x) PROVE IInv'
<1>1. TypeInv
  BY DEF IInv
<1>2. /\ local[x] # Nil /\ work = {} /\ chain = NoChain /\ ~token.on /\ block[local[x]].tag = "resume"
      /\ chain' = [of |-> local[x], made |-> << >>]
      /\ UNCHANGED <<block, pool, local, ks, hs, work, token, budget>>
  BY DEF Resume, Holds, Suspendable, Running
<1>3. local[x] \in AN /\ local[x] \in Addr
  BY <1>1, <1>2 DEF TypeInv, AN
<1>4. TypeInv'
  BY <1>1, <1>2, <1>3 DEF TypeInv, pool
<1>5. SameShapes(block', block) /\ chain'.made = chain.made
  BY <1>2 DEF SameShapes, SameShape, NoChain
<1>6. /\ PoolInv' /\ HandlerInv' /\ SortInv' /\ PinInv'
      /\ \A a \in Addr : Total(a)' = Total(a) - LocalCount(a) + LocalCount(a)'
  BY <1>2, <1>4, <1>5, CalmerKeeps
<1>7. \A a \in Addr : Total(a)' = Total(a)
  BY <1>2, <1>5 DEF Total, Clauses, Framed, Held, HeldBy, IsMirror, Released
<1>8. ShapeInv' /\ CountInv'
  BY <1>2, <1>7 DEF IInv, ShapeInv, CountInv
<1>9. TokenInv'
  BY <1>2, TokenKept
<1>10. ChainInv'
  <2>1. block[local[x]] \in Block
    BY <1>1, <1>3 DEF TypeInv
  <2>2. Len(<< >>) <= Len(block[local[x]].fields)
    BY <2>1 DEF Block
  <2> QED
    BY <1>2, <1>3, <2>2 DEF ChainInv
<1> QED
  BY <1>4, <1>6, <1>8, <1>9, <1>10 DEF IInv

\* jq_drop_reuse keeps the invariant: a unique block becomes the shell of a
\* token, another one is dropped.
LEMMA KeepsReuseTake == ASSUME IInv, NEW x \in Locals, ReuseTake(x) PROVE IInv'
<1> DEFINE v == local[x]
           k == Len(block[v].fields)
<1>1. TypeInv /\ TokenInv /\ SortInv /\ CountInv /\ ShapeInv
  BY DEF IInv
<1>2. /\ x \in Own /\ v # Nil /\ work = {} /\ chain = NoChain /\ block[v].tag = "con" /\ ~token.on
      /\ local' = [local EXCEPT ![x] = Nil]
      /\ UNCHANGED <<pool, ks, hs, work, chain, budget>>
  BY DEF ReuseTake, Holds, Running
<1>3. v \in Addr /\ v \in AN /\ Total(v) # 0 /\ token.shell = Nil /\ k \in Nat /\ Total(v) \in Nat
  <2>1. v \in Addr /\ Total(v) # 0
    BY <1>1, <1>2, LocalOwns
  <2>2. token.shell = Nil
    BY <1>1, <1>2 DEF TokenInv
  <2>3. block[v].fields \in Seq(AN)
    BY <1>1, <2>1 DEF TypeInv, Block
  <2> QED
    BY <1>1, <2>1, <2>2, <2>3, NobodyOwns DEF AN
<1>4. /\ local' \in [Locals -> AN] /\ local'[x] = Nil /\ \A z \in Locals : z # x => local'[z] = local[z]
      /\ \A a \in Addr : LocalCount(a)' = LocalCount(a) - OneIf(v = a)
  BY <1>1, <1>2, LocalCleared
<1>5. \A a \in Addr : /\ Total(a) \in Nat /\ LocalCount(a) \in Nat /\ HeldCount(a) \in Nat /\ ShellCount(a) = 0 /\ a # Nil
                      /\ CountFn[a] = Total(a)
  BY <1>1, <1>3, CountsTyped, NobodyOwns, IsGood, HeapAssumption
<1>6. CASE block[v].rc = 1
  <2>1. token' = [on |-> TRUE, shell |-> v, next |-> 1, arity |-> k] /\ block' = block
    BY <1>6 DEF ReuseTake
  <2> HIDE DEF v, k
  <2>2. TypeInv'
    BY <1>1, <1>2, <1>3, <1>4, <2>1 DEF TypeInv, pool
  <2>3. SameShapes(block', block)
    BY <2>1 DEF SameShapes, SameShape
  <2>4. \A b \in Addr : \A i \in 1 .. Len(block[b].fields) : Released(b, i) <=> Released(b, i)'
    BY <1>3, <1>5, <2>1 DEF Released
  <2>5. /\ PoolInv' /\ HandlerInv' /\ SortInv' /\ PinInv'
        /\ \A a \in Addr : Total(a)' = Total(a) - LocalCount(a) + LocalCount(a)' - HeldCount(a) + HeldCount(a)'
                                     - ShellCount(a) + ShellCount(a)'
    BY <1>2, <1>4, <2>2, <2>3, <2>4, CalmKeeps DEF IsValue
  <2>6. \A a \in Addr : Total(a)' = CountFn[a]
    <3> TAKE a \in Addr
    <3>1. \A b \in Addr : HeldAlike(b)
      BY <1>2, <2>1, <2>4 DEF HeldAlike, IsMirror
    <3>2. HeldCount(a)' = HeldCount(a) /\ ShellCount(a)' = OneIf(v = a)
      BY <2>1, <3>1, HeldSame DEF ShellCount
    <3> QED
      BY <1>4, <1>5, <2>5, <3>2 DEF OneIf
  <2>7. ShapeInv' /\ CountInv'
    BY <1>2, <2>1, <2>6, IsGood, GoodIsCounted
  <2>8. TokenInv'
    BY <1>2, <1>6, <2>1 DEF TokenInv, k
  <2>9. ChainInv'
    BY <1>2 DEF ChainInv, NoChain
  <2> QED
    BY <2>2, <2>5, <2>7, <2>8, <2>9 DEF IInv
<1>7. CASE block[v].rc # 1
  <2>1. token' = [NoToken EXCEPT !.on = TRUE, !.arity = k] /\ block' = Dropped(block, <<v>>)
    BY <1>7 DEF ReuseTake
  <2>2. token' = [on |-> TRUE, shell |-> Nil, next |-> 0, arity |-> k]
    BY <2>1 DEF NoToken
  <2> HIDE DEF v, k
  <2>3. PICK m \in [Addr -> Nat] :
           /\ \A a \in Addr : m[a] = Total(a) - OneIf(v = a)
           /\ Good(Dropped(block, <<v>>), m) /\ SameShapes(Dropped(block, <<v>>), block)
           /\ DyingIn(Dropped(block, <<v>>)) = work \cup Zeroed(block, <<v>>)
           /\ Zeroed(block, <<v>>) \in SUBSET Addr
    BY <1>3, DropOne
  <2>4. Zeroed(block, <<v>>) = {}
    <3>1. Range(<<v>>) = {v} /\ CountIn(<<v>>, v) = 1
      BY CountInSingle DEF Range, OneIf
    <3> QED
      BY <1>7, <3>1 DEF Zeroed
  <2>5. Good(block', m) /\ SameShapes(block', block) /\ work' = DyingIn(block')
    BY <1>2, <2>1, <2>3, <2>4
  <2>6. TypeInv'
    BY <1>1, <1>2, <1>3, <1>4, <2>2, <2>5, GoodTyped DEF TypeInv, pool, AN
  <2>7. \A b \in Addr : \A i \in 1 .. Len(block[b].fields) : Released(b, i) <=> Released(b, i)'
    BY <1>3, <1>5, <2>2 DEF Released
  <2>8. /\ PoolInv' /\ HandlerInv' /\ SortInv' /\ PinInv'
        /\ \A a \in Addr : Total(a)' = Total(a) - LocalCount(a) + LocalCount(a)' - HeldCount(a) + HeldCount(a)'
                                     - ShellCount(a) + ShellCount(a)'
    BY <1>2, <1>4, <2>5, <2>6, <2>7, CalmKeeps DEF IsValue
  <2>9. \A a \in Addr : Total(a)' = m[a]
    <3> TAKE a \in Addr
    <3>1. \A b \in Addr : HeldAlike(b)
      BY <1>2, <2>5, <2>7 DEF HeldAlike, IsMirror, SameShapes, SameShape
    <3>2. HeldCount(a)' = HeldCount(a) /\ ShellCount(a)' = 0
      BY <1>5, <2>2, <3>1, HeldSame DEF ShellCount, OneIf
    <3> QED
      BY <1>4, <1>5, <2>3, <2>8, <3>2 DEF OneIf
  <2>10. ShapeInv' /\ CountInv'
    BY <2>5, <2>9, GoodIsCounted
  <2>11. TokenInv'
    BY <2>2 DEF TokenInv
  <2>12. ChainInv'
    BY <1>2 DEF ChainInv, NoChain
  <2> QED
    BY <2>6, <2>8, <2>10, <2>11, <2>12 DEF IInv
<1> QED
  BY <1>6, <1>7

CountsNow(a) ==
  /\ LocalCount(a) \in Nat /\ ClauseCount(a) \in Nat /\ FramedCount(a) \in Nat
  /\ MadeCount(a) \in Nat /\ HeldCount(a) \in Nat /\ ShellCount(a) \in Nat /\ Total(a) \in Nat
  /\ Total(a) = LocalCount(a) + ClauseCount(a) + FramedCount(a) + MadeCount(a) + HeldCount(a) + ShellCount(a)
AllCounted == \A a \in Addr : CountsNow(a)

\* Every total is the sum of its kinds, which are numbers,
LEMMA CountsAre == TypeInv => AllCounted
  BY CountsTyped, NobodyOwns, TotalIs DEF CountsNow, AllCounted

\* none of them more than the total,
LEMMA PartsOfTotal ==
  ASSUME NEW a, CountsNow(a)
  PROVE  /\ LocalCount(a) <= Total(a) /\ ClauseCount(a) <= Total(a) /\ FramedCount(a) <= Total(a)
         /\ MadeCount(a) <= Total(a) /\ HeldCount(a) <= Total(a) /\ ShellCount(a) <= Total(a)
<1>1. /\ LocalCount(a) \in Nat /\ ClauseCount(a) \in Nat /\ FramedCount(a) \in Nat
      /\ MadeCount(a) \in Nat /\ HeldCount(a) \in Nat /\ ShellCount(a) \in Nat
      /\ Total(a) = LocalCount(a) + ClauseCount(a) + FramedCount(a) + MadeCount(a) + HeldCount(a) + ShellCount(a)
  BY DEF CountsNow
<1>2. LocalCount(a) <= Total(a)
  BY ONLY <1>1
<1>3. ClauseCount(a) <= Total(a)
  BY ONLY <1>1
<1>4. FramedCount(a) <= Total(a)
  BY ONLY <1>1
<1>5. MadeCount(a) <= Total(a)
  BY ONLY <1>1
<1>6. HeldCount(a) <= Total(a)
  BY ONLY <1>1
<1>7. ShellCount(a) <= Total(a)
  BY ONLY <1>1
<1> QED
  BY <1>2, <1>3, <1>4, <1>5, <1>6, <1>7

\* and after a step.
LEMMA CountsArePrime == TypeInv' => AllCounted'
  BY CountsAre, PTL

\* Sorts stay when the blocks keep their tags.
LEMMA SortCalm ==
  ASSUME TypeInv, TypeInv', SortInv, SameShapes(block', block),
         \A b \in Addr : \A i \in 1 .. Len(block[b].fields) : Released(b, i) => Released(b, i)',
         \A x \in Locals : IsValue(block, local'[x]),
         \A i \in 1 .. Len(hs') : IsValue(block, hs'[i].clause),
         \A i \in 1 .. Len(ks') : IsFrame(block, ks'[i].fr),
         \A i \in 1 .. Len(chain'.made) : IsFrame(block, chain'.made[i])
  PROVE  SortInv'
<1>1. \A a \in Addr : block'[a].tag = block[a].tag /\ block'[a].fields = block[a].fields
  BY DEF SameShapes, SameShape
<1>2. \A v \in AN : (IsValue(block, v) => IsValue(block', v)) /\ (IsFrame(block, v) => IsFrame(block', v))
  BY <1>1 DEF IsValue, IsFrame, AN
<1>3. \A x \in Locals : IsValue(block', local'[x])
  BY <1>2 DEF TypeInv
<1>4. /\ \A i \in 1 .. Len(hs') : hs'[i].clause \in AN
      /\ \A b \in Addr : block[b].fields \in Seq(AN)
  <2>1. hs' \in Seq([clause : AN, hf : Addr])
    BY DEF TypeInv
  <2>2. \A i \in 1 .. Len(hs') : hs'[i] \in [clause : AN, hf : Addr]
    BY <2>1, ElementOfSeq
  <2> QED
    BY <2>2, HeldTyped
<1>5. \A i \in 1 .. Len(hs') : IsValue(block', hs'[i].clause)
  BY <1>2, <1>4
<1>6. /\ \A i \in 1 .. Len(ks') : IsFrame(block', ks'[i].fr)
      /\ \A i \in 1 .. Len(chain'.made) : IsFrame(block', chain'.made[i])
  BY <1>1 DEF IsFrame
<1>7. ASSUME NEW b \in Addr, NEW i \in 1 .. Len(block'[b].fields)
      PROVE  \/ Released(b, i)'
             \/ IF block'[b].tag = "resume" THEN IsFrame(block', block'[b].fields[i]) ELSE IsValue(block', block'[b].fields[i])
  <2>1. \/ Released(b, i)
        \/ IF block[b].tag = "resume" THEN IsFrame(block, block[b].fields[i]) ELSE IsValue(block, block[b].fields[i])
    BY <1>1 DEF SortInv
  <2>2. block[b].fields[i] \in AN
    BY <1>1, <1>4
  <2> QED
    BY <1>1, <1>2, <2>1, <2>2
<1> QED
  BY <1>3, <1>5, <1>6, <1>7 DEF SortInv

\* A mirror is a frame.
LEMMA MirrorIs ==
  ASSUME PinInv, NEW b, IsMirror(b)
  PROVE  block[b].tag = "frame"
BY DEF IsMirror, PinInv

\* New references to others leave the worklist as it is.
LEMMA DupDying ==
  ASSUME NEW bs, NEW n, Good(bs, n), NEW s \in Seq(AN), \A a \in DyingIn(bs) : CountIn(s, a) = 0
  PROVE  DyingIn(Duped(bs, s)) = DyingIn(bs)
<1>1. bs \in [Addr -> Block] /\ \A a \in Addr : Shaped(bs[a], a)
  BY DEF Good
<1>2. ASSUME NEW a \in Addr PROVE a \in DyingIn(Duped(bs, s)) <=> a \in DyingIn(bs)
  <2>1. bs[a].rc <= RcStatic /\ bs[a].rc \in Nat
    BY <1>1 DEF Shaped, Block
  <2>2. /\ Duped(bs, s) \in [Addr -> Block]
        /\ SameShape(Duped(bs, s)[a], bs[a])
        /\ Duped(bs, s)[a].rc >= bs[a].rc
        /\ CountIn(s, a) = 0 => Duped(bs, s)[a] = bs[a]
    BY <1>1, <2>1, DupedIs
  <2>3. Duped(bs, s)[a].rc \in Nat
    BY <2>2 DEF Block
  <2> QED
    BY <2>1, <2>2, <2>3 DEF DyingIn, SameShape
<1> QED
  BY <1>2 DEF DyingIn

\* jq_reuse_take keeps the invariant: each field of the shell is given up
\* once.
LEMMA KeepsReleaseField == ASSUME IInv, ReleaseField PROVE IInv'
<1> PICK d : d = token.shell
  OBVIOUS
<1> PICK k : k = token.next
  OBVIOUS
<1> PICK v : v = block[d].fields[k]
  OBVIOUS
<1>1. TypeInv /\ TokenInv /\ SortInv /\ CountInv /\ ShapeInv /\ ChainInv /\ PinInv
  BY DEF IInv
<1>2. /\ work = {} /\ d # Nil /\ k <= Len(block[d].fields)
      /\ block' = Dropped(block, <<v>>) /\ work' = Zeroed(block, <<v>>)
      /\ token' = [token EXCEPT !.next = @ + 1]
      /\ UNCHANGED <<pool, local, ks, hs, chain, budget>>
  BY DEF ReleaseField, Taking
<1>3. /\ d \in Addr /\ token.on /\ block[d].tag = "con" /\ block[d].rc = 1 /\ k >= 1
      /\ token.arity = Len(block[d].fields) /\ k \in Nat
  BY <1>1, <1>2, ShellAlone DEF TokenInv, TypeInv
<1>4. /\ block[d].fields \in Seq(AN) /\ k \in 1 .. Len(block[d].fields) /\ Len(block[d].fields) \in Nat
      /\ HeldBy(d) \in Seq(AN) /\ Len(HeldBy(d)) = Len(block[d].fields)
  BY <1>1, <1>2, <1>3, HeldTyped
<1>5. v \in AN
  BY <1>4
<1>6. token' \in [on : BOOLEAN, shell : AN, next : Nat, arity : Nat]
      /\ token'.on = token.on /\ token'.shell = d /\ token'.next = k + 1 /\ token'.arity = token.arity
  <2>1. token \in [on : BOOLEAN, shell : AN, next : Nat, arity : Nat]
    BY <1>1 DEF TypeInv
  <2>2. token' = [token EXCEPT !.next = k + 1] /\ k + 1 \in Nat
    BY <1>2, <1>3
  <2> QED
    BY <2>1, <2>2
<1>7. ~IsMirror(d) /\ block[d].self = 0 /\ chain.of = Nil
  <2>1. ~IsMirror(d)
    BY <1>1, <1>3, MirrorIs
  <2>2. block[d].self = 0
    BY <1>1, <1>3 DEF ShapeInv, Shaped
  <2> QED
    BY <1>1, <1>3, <2>1, <2>2 DEF ChainInv
<1>8. \A i \in 1 .. Len(block[d].fields) : HeldBy(d)[i] = IF i < k THEN Nil ELSE block[d].fields[i]
  BY <1>4, <1>7 DEF HeldBy, Released
<1>9. HeldBy(d)[k] = v
  BY <1>3, <1>4, <1>8
<1>10. v # Nil => Total(v) # 0 /\ v # d
  <2>1. SUFFICES ASSUME v # Nil PROVE Total(v) # 0 /\ v # d
    OBVIOUS
  <2>2. v \in Addr
    BY <1>5, <2>1 DEF AN
  <2>3. CountIn(HeldBy(d), v) # 0
    BY <1>4, <1>9, CountInIs, SMTT(40)
  <2>4. CountsNow(v) /\ CountIn(HeldBy(d), v) \in Nat /\ CountIn(HeldBy(d), v) <= HeldCount(v)
    BY <1>1, <1>3, <2>2, CountsAre, CountsTyped DEF AllCounted
  <2>5. CountIn(HeldBy(d), d) = 0
    BY <1>2, <1>3, ShellAlone
  <2>6. Total(v) # 0
    <3>1. HeldCount(v) # 0 /\ HeldCount(v) \in Nat /\ Total(v) \in Nat
      BY <2>3, <2>4 DEF CountsNow
    <3>2. HeldCount(v) <= Total(v)
      BY <2>4, PartsOfTotal
    <3> QED
      BY <3>1, <3>2
  <2> QED
    BY <2>3, <2>5, <2>6
<1>11. v # d
  BY <1>2, <1>10
<1>12. PICK m \in [Addr -> Nat] :
           /\ \A a \in Addr : m[a] = Total(a) - OneIf(v = a)
           /\ Good(Dropped(block, <<v>>), m) /\ SameShapes(Dropped(block, <<v>>), block)
           /\ DyingIn(Dropped(block, <<v>>)) = work \cup Zeroed(block, <<v>>)
           /\ Zeroed(block, <<v>>) \in SUBSET Addr
  BY <1>5, <1>10, DropOne
<1>13. Good(block', m) /\ SameShapes(block', block) /\ work' = DyingIn(block') /\ work' \in SUBSET Addr
  BY <1>2, <1>12
<1>14. TypeInv'
  BY <1>1, <1>2, <1>6, <1>13, GoodTyped DEF TypeInv, pool
<1>15. \A b \in Addr : \A i \in 1 .. Len(block[b].fields) :
          (Released(b, i) => Released(b, i)') /\ (b # d => (Released(b, i) <=> Released(b, i)'))
  BY <1>3, <1>6 DEF Released
<1>16. /\ PoolInv' /\ HandlerInv' /\ SortInv' /\ PinInv'
       /\ \A a \in Addr : Total(a)' = Total(a) - LocalCount(a) + LocalCount(a)' - HeldCount(a) + HeldCount(a)'
                                      - ShellCount(a) + ShellCount(a)'
  BY <1>2, <1>13, <1>14, <1>15, CalmKeeps
<1>17. \A a \in Addr : CountIn(HeldBy(d)', a) = CountIn(HeldBy(d), a) - OneIf(v = a)
  <2> TAKE a \in Addr
  <2>1. block'[d].fields = block[d].fields /\ block'[d].self = 0
    BY <1>3, <1>7, <1>13 DEF SameShapes, SameShape
  <2>2. HeldBy(d)' \in Seq(AN)
    BY <1>3, <1>14, HeldTypedPrime
  <2>3. ~IsMirror(d)'
    BY <1>2, <1>7 DEF IsMirror
  <2>4. HeldBy(d)' = [i \in 1 .. Len(block[d].fields) |-> IF i < k + 1 THEN Nil ELSE block[d].fields[i]]
    BY <1>4, <1>6, <2>1, <2>3 DEF HeldBy, Released
  <2> DEFINE g == HeldBy(d)'
             h == HeldBy(d)
  <2>5. Len(g) = Len(block[d].fields) /\ \A i \in 1 .. Len(block[d].fields) : i # k => g[i] = h[i]
    BY <1>3, <1>4, <1>8, <2>4
  <2>6. g[k] = Nil /\ h[k] = v
    BY <1>3, <1>4, <1>9, <2>4
  <2>7. Nil # a
    BY HeapAssumption
  <2> DEFINE S == 1 .. Len(block[d].fields)
  <2>8. IsFiniteSet(S) /\ k \in S /\ \A i \in S \ {k} : g[i] = h[i]
    BY <1>4, <2>5, FS_Interval
  <2>9. g \in Seq(AN) /\ h \in Seq(AN) /\ Len(g) = Len(block[d].fields) /\ Len(h) = Len(block[d].fields)
    BY <1>4, <2>2, <2>5
  <2>12. S = 1 .. Len(g) /\ S = 1 .. Len(h)
    BY <2>9
  <2> HIDE DEF g, h, S
  <2>10. CountOf(g, S, a) = CountOf(h, S, a) - OneIf(h[k] = a) + OneIf(g[k] = a)
    BY <2>8, CountChanged
  <2>11. CountIn(g, a) = CountOf(g, S, a) /\ CountIn(h, a) = CountOf(h, S, a) /\ CountIn(h, a) \in Nat
    <3>1. CountIn(g, a) = CountOf(g, S, a)
      BY ONLY <2>9, <2>12, CountInIs
    <3>2. CountIn(h, a) = CountOf(h, S, a) /\ CountIn(h, a) \in Nat
      BY ONLY <2>9, <2>12, CountInIs
    <3> QED
      BY <3>1, <3>2
  <2>13. CountIn(g, a) = CountIn(h, a) - OneIf(v = a)
    BY <2>6, <2>7, <2>10, <2>11 DEF OneIf
  <2> QED
    BY <2>13 DEF g, h
<1>18. \A a \in Addr : Total(a)' = m[a]
  <2> TAKE a \in Addr
  <2>1. \A b \in Addr : b # d => HeldAlike(b)
    BY <1>2, <1>13, <1>15 DEF HeldAlike, IsMirror, SameShapes, SameShape
  <2>2. HeldCount(a)' = HeldCount(a) - CountIn(HeldBy(d), a) + CountIn(HeldBy(d)', a)
    BY <1>1, <1>3, <1>14, <2>1, HeldChanged
  <2>3. CountIn(HeldBy(d), a) \in Nat
    BY <1>4, CountInIs
  <2>4. LocalCount(a)' = LocalCount(a) /\ ShellCount(a)' = ShellCount(a)
    BY <1>2, <1>6 DEF LocalCount, ShellCount
  <2>5. CountsNow(a)
    BY <1>1, CountsAre DEF AllCounted
  <2> QED
    BY <1>12, <1>16, <1>17, <2>2, <2>3, <2>4, <2>5 DEF CountsNow, OneIf
<1>19. ShapeInv' /\ CountInv'
  BY <1>13, <1>18, GoodIsCounted
<1>20. block'[d] = block[d]
  BY <1>2, <1>5, <1>10, <1>11, DropKeepsShell
<1>21. TokenInv'
  <2>1. k + 1 >= 1
    BY <1>3
  <2> QED
    BY <1>3, <1>6, <1>20, <2>1 DEF TokenInv
<1>22. ChainInv'
  BY <1>1, <1>2, <1>7 DEF ChainInv
<1> QED
  BY <1>14, <1>16, <1>19, <1>21, <1>22 DEF IInv

----------------------------------------------------------------------------
(* Blocks that are freed.                                                  *)

\* Nothing refers to a freed block: not even the slots that do not own.
LEMMA Forgotten ==
  ASSUME TypeInv, ShapeInv, PinInv, NEW d \in Addr, Unowned(d), block[d] = Dead,
         NEW b \in Addr, NEW i \in 1 .. Len(block[b].fields), ~Released(b, i)
  PROVE  block[b].fields[i] # d /\ b # d
<1>1. b # d
  BY DeadIs
<1>2. CASE IsMirror(b)
  <2>1. PICK k \in 1 .. Len(ks) : ks[k].fr = b /\ ks[k].pins # << >>
    BY <1>2 DEF IsMirror
  <2>2. /\ Len(block[b].fields) = Len(ks[k].pins)
        /\ \A j \in 1 .. Len(ks[k].pins) : block[b].fields[j] = local[ks[k].pins[j]]
    BY <2>1 DEF PinInv
  <2>3. ks \in Seq([fr : Addr, pins : Seq(Locals)])
    BY DEF TypeInv
  <2>4. ks[k] \in [fr : Addr, pins : Seq(Locals)]
    BY <2>3, ElementOfSeq
  <2>5. ks[k].pins[i] \in Locals
    BY <2>2, <2>4
  <2> QED
    BY <1>1, <2>2, <2>5 DEF Unowned
<1>3. CASE i = block[b].self
  BY <1>1, <1>3 DEF ShapeInv, Shaped
<1>4. CASE ~IsMirror(b) /\ i # block[b].self
  BY <1>1, <1>4 DEF Unowned
<1> QED
  BY <1>2, <1>3, <1>4
Unreached(d) ==
  block[d] = Dead /\ Unowned(d) =>
    \A b \in Addr : \A i \in 1 .. Len(block[b].fields) : Released(b, i) \/ (block[b].fields[i] # d /\ b # d)

\* What nobody owns, nobody refers to, neither a mirror nor a slot,
LEMMA ForgottenNow == TypeInv /\ ShapeInv /\ PinInv => \A d \in Addr : Unreached(d)
  BY Forgotten DEF Unreached
AllUnreached == \A d \in Addr : Unreached(d)

\* for every block,
LEMMA ForgottenAll == TypeInv /\ ShapeInv /\ PinInv => AllUnreached
  BY ForgottenNow DEF AllUnreached

\* and after a step.
LEMMA ForgottenPrime == TypeInv' /\ ShapeInv' /\ PinInv' => AllUnreached'
  BY ForgottenAll, PTL

\* The other blocks keep their shapes when one goes.
ShapesBut(cs, bs, d) == \A b \in Addr : b # d => SameShape(cs[b], bs[b])

\* Frames and values stay apart when a block nobody owns goes.
LEMMA SortFree ==
  ASSUME TypeInv, TypeInv', SortInv, ShapeInv', PinInv', NEW d \in Addr, block'[d] = Dead,
         ShapesBut(block', block, d), Unowned(d)',
         \A b \in Addr : \A i \in 1 .. Len(block[b].fields) : b # d /\ Released(b, i) => Released(b, i)',
         \A x \in Locals : IsValue(block, local'[x]),
         \A i \in 1 .. Len(hs') : IsValue(block, hs'[i].clause),
         \A i \in 1 .. Len(ks') : IsFrame(block, ks'[i].fr),
         \A i \in 1 .. Len(chain'.made) : IsFrame(block, chain'.made[i])
  PROVE  SortInv'
<1>1. \A a \in Addr : a # d => block'[a].tag = block[a].tag /\ block'[a].fields = block[a].fields
  BY DEF ShapesBut, SameShape
<1>2. \A v \in AN : v # d => (IsValue(block, v) => IsValue(block', v)) /\ (IsFrame(block, v) => IsFrame(block', v))
  BY <1>1 DEF IsValue, IsFrame, AN
<1>3. /\ \A x \in Locals : local'[x] # d /\ local'[x] \in AN
      /\ \A i \in 1 .. Len(hs') : hs'[i].clause # d
      /\ \A i \in 1 .. Len(ks') : ks'[i].fr # d
      /\ \A i \in 1 .. Len(chain'.made) : chain'.made[i] # d
  BY DEF Unowned, TypeInv
<1>4. /\ \A i \in 1 .. Len(hs') : hs'[i].clause \in AN
      /\ \A b \in Addr : block[b].fields \in Seq(AN)
  <2>1. hs' \in Seq([clause : AN, hf : Addr])
    BY DEF TypeInv
  <2>2. \A i \in 1 .. Len(hs') : hs'[i] \in [clause : AN, hf : Addr]
    BY <2>1, ElementOfSeq
  <2> QED
    BY <2>2, HeldTyped
<1>5. /\ \A x \in Locals : IsValue(block', local'[x])
      /\ \A i \in 1 .. Len(hs') : IsValue(block', hs'[i].clause)
      /\ \A i \in 1 .. Len(ks') : IsFrame(block', ks'[i].fr)
      /\ \A i \in 1 .. Len(chain'.made) : IsFrame(block', chain'.made[i])
  <2>1. \A x \in Locals : IsValue(block', local'[x])
    BY <1>2, <1>3
  <2>2. \A i \in 1 .. Len(hs') : IsValue(block', hs'[i].clause)
    BY <1>2, <1>3, <1>4
  <2>3. \A i \in 1 .. Len(ks') : IsFrame(block', ks'[i].fr)
    BY <1>1, <1>3 DEF IsFrame
  <2>4. \A i \in 1 .. Len(chain'.made) : IsFrame(block', chain'.made[i])
    BY <1>1, <1>3 DEF IsFrame
  <2> QED
    BY <2>1, <2>2, <2>3, <2>4
<1>6. Unreached(d)'
  BY ForgottenPrime DEF AllUnreached
<1>7. ASSUME NEW b \in Addr, NEW i \in 1 .. Len(block'[b].fields)
      PROVE  \/ Released(b, i)'
             \/ IF block'[b].tag = "resume" THEN IsFrame(block', block'[b].fields[i]) ELSE IsValue(block', block'[b].fields[i])
  <2>1. SUFFICES ASSUME ~Released(b, i)'
                 PROVE  IF block'[b].tag = "resume" THEN IsFrame(block', block'[b].fields[i]) ELSE IsValue(block', block'[b].fields[i])
    OBVIOUS
  <2>2. block'[b].fields[i] # d /\ b # d
    BY <1>6, <2>1 DEF Unreached
  <2>3. block'[b].fields = block[b].fields /\ block'[b].tag = block[b].tag /\ ~Released(b, i)
    BY <1>1, <2>1, <2>2
  <2>4. IF block[b].tag = "resume" THEN IsFrame(block, block[b].fields[i]) ELSE IsValue(block, block[b].fields[i])
    BY <2>3 DEF SortInv
  <2>5. block[b].fields[i] \in AN
    BY <1>4, <2>3
  <2> QED
    BY <1>2, <2>2, <2>3, <2>4, <2>5
<1> QED
  BY <1>5, <1>7 DEF SortInv

\* The stacks do not know the freed block.
LEMMA StacksFree ==
  ASSUME TypeInv, HandlerInv, PinInv, NEW d \in Addr, ShapesBut(block', block, d), UNCHANGED <<ks, hs>>,
         \A i \in 1 .. Len(ks) : ks[i].fr # d, \A x \in Locals : local'[x] = local[x] \/ x \in Own
  PROVE  HandlerInv' /\ PinInv'
<1>1. \A i \in 1 .. Len(ks) : block'[ks[i].fr].tag = block[ks[i].fr].tag /\ block'[ks[i].fr].fields = block[ks[i].fr].fields
  <2>1. Framed \in Seq(Addr) /\ Len(Framed) = Len(ks) /\ \A i \in 1 .. Len(ks) : Framed[i] = ks[i].fr
    BY SeqsTyped
  <2>2. \A i \in 1 .. Len(ks) : ks[i].fr \in Addr
    BY <2>1
  <2> QED
    BY <2>2 DEF ShapesBut, SameShape
<1>2. ks' = ks /\ hs' = hs
  OBVIOUS
<1>3. PinInv'
  <2>1. ASSUME NEW i \in 1 .. Len(ks), NEW j \in 1 .. Len(ks[i].pins)
        PROVE  local'[ks[i].pins[j]] = local[ks[i].pins[j]]
    <3>1. ks \in Seq([fr : Addr, pins : Seq(Locals)])
      BY DEF TypeInv
    <3>2. ks[i] \in [fr : Addr, pins : Seq(Locals)]
      BY <3>1, ElementOfSeq
    <3>3. ks[i].pins[j] \in Locals
      BY <3>2
    <3> QED
      BY <3>3, OwnIs
  <2> QED
    BY <1>1, <1>2, <2>1, SMTT(40) DEF PinInv
<1>4. /\ \A p \in 1 .. Len(ks') : block'[ks'[p].fr].tag = "handler" => \E i \in 1 .. Len(hs') : hs'[i].hf = ks'[p].fr
      /\ \A i \in 1 .. Len(hs') : \E p \in 1 .. Len(ks') : hs'[i].hf = ks'[p].fr /\ block'[ks'[p].fr].tag = "handler"
      /\ \A i, j \in 1 .. Len(hs') : \A p, q \in 1 .. Len(ks') :
              hs'[i].hf = ks'[p].fr /\ hs'[j].hf = ks'[q].fr => (i < j <=> p < q)
  <2>3. /\ \A p \in 1 .. Len(ks) : block[ks[p].fr].tag = "handler" => \E i \in 1 .. Len(hs) : hs[i].hf = ks[p].fr
        /\ \A i \in 1 .. Len(hs) : \E p \in 1 .. Len(ks) : hs[i].hf = ks[p].fr /\ block[ks[p].fr].tag = "handler"
        /\ \A i, j \in 1 .. Len(hs) : \A p, q \in 1 .. Len(ks) :
              hs[i].hf = ks[p].fr /\ hs[j].hf = ks[q].fr => (i < j <=> p < q)
    BY DEF HandlerInv
  <2>2. \A p \in 1 .. Len(ks') : block'[ks'[p].fr].tag = block[ks[p].fr].tag
    BY <1>1, <1>2
  <2>4. \A p \in 1 .. Len(ks') : block'[ks'[p].fr].tag = "handler" => \E i \in 1 .. Len(hs') : hs'[i].hf = ks'[p].fr
    BY <1>2, <2>2, <2>3
  <2>5. \A i \in 1 .. Len(hs') : \E p \in 1 .. Len(ks') : hs'[i].hf = ks'[p].fr /\ block'[ks'[p].fr].tag = "handler"
    <3> TAKE i \in 1 .. Len(hs')
    <3>1. PICK p \in 1 .. Len(ks) : hs[i].hf = ks[p].fr /\ block[ks[p].fr].tag = "handler"
      BY <1>2, <2>3
    <3>2. p \in 1 .. Len(ks') /\ hs'[i].hf = ks'[p].fr /\ block'[ks'[p].fr].tag = "handler"
      BY <1>2, <2>2, <3>1
    <3> QED
      BY <3>2
  <2>6. \A i, j \in 1 .. Len(hs') : \A p, q \in 1 .. Len(ks') :
              hs'[i].hf = ks'[p].fr /\ hs'[j].hf = ks'[q].fr => (i < j <=> p < q)
    BY <1>2, <2>3
  <2> QED
    BY <2>4, <2>5, <2>6
<1> QED
  BY <1>3, <1>4 DEF HandlerInv

AtMost(s, n) == \A a \in Addr : CountIn(s, a) <= n[a]
CutTo(bs, n, s, m) ==
  /\ \A a \in Addr : m[a] = n[a] - CountIn(s, a)
  /\ Good(Dropped(bs, s), m) /\ SameShapes(Dropped(bs, s), bs)
  /\ DyingIn(Dropped(bs, s)) = DyingIn(bs) \cup Zeroed(bs, s)
  /\ Zeroed(bs, s) \in SUBSET Addr

\* Counts stay right when no more references are given up than there were.
LEMMA CutGood ==
  ASSUME NEW bs, NEW n, Good(bs, n), NEW s \in Seq(AN), AtMost(s, n)
  PROVE  \E m \in [Addr -> Nat] : CutTo(bs, n, s, m)
<1> DEFINE m == [a \in Addr |-> n[a] - CountIn(s, a)]
<1>1. /\ Good(Dropped(bs, s), m) /\ SameShapes(Dropped(bs, s), bs)
      /\ DyingIn(Dropped(bs, s)) = DyingIn(bs) \cup Zeroed(bs, s)
      /\ Zeroed(bs, s) \in SUBSET Addr
  <2>1. \A a \in Addr : CountIn(s, a) <= n[a]
    BY DEF AtMost
  <2> QED
    BY <2>1, DropGood
<1>2. \A a \in Addr : m[a] = n[a] - CountIn(s, a)
  OBVIOUS
<1>3. m \in [Addr -> Nat]
  BY <1>1, GoodTyped
<1> HIDE DEF m
<1> QED
  BY <1>1, <1>2, <1>3 DEF CutTo

Gone(cs, bs, d) == cs = [bs EXCEPT ![d] = Dead]

\* A block goes: the counts of the others are as right as before.
LEMMA GoneGood ==
  ASSUME NEW bs, NEW n, Good(bs, n), NEW d \in Addr, NEW cs, Gone(cs, bs, d)
  PROVE  \E m \in [Addr -> Nat] :
           /\ m[d] = 0 /\ \A a \in Addr : a # d => m[a] = n[a]
           /\ Good(cs, m) /\ DyingIn(cs) = DyingIn(bs) \ {d}
           /\ cs[d] = Dead /\ \A a \in Addr : a # d => cs[a] = bs[a]
<1> DEFINE m == [n EXCEPT ![d] = 0]
<1>0. cs = [bs EXCEPT ![d] = Dead]
  BY DEF Gone
<1>1. Good(cs, m) /\ DyingIn(cs) = DyingIn(bs) \ {d}
  BY <1>0, FreeGood
<1>2. bs \in [Addr -> Block] /\ n \in [Addr -> Nat]
  BY GoodTyped
<1>3. m[d] = 0 /\ \A a \in Addr : a # d => m[a] = n[a]
  BY <1>2
<1>4. cs[d] = Dead /\ \A a \in Addr : a # d => cs[a] = bs[a]
  BY <1>0, <1>2
<1>5. m \in [Addr -> Nat]
  BY <1>2
<1> HIDE DEF m
<1> QED
  BY <1>1, <1>3, <1>4, <1>5

\* What reaches zero was not zero: a block is put on the worklist once.
LEMMA ZeroedNonzero ==
  ASSUME NEW bs, NEW n, Good(bs, n), NEW s \in Seq(AN), \A a \in Addr : CountIn(s, a) <= n[a],
         NEW c \in Zeroed(bs, s)
  PROVE  bs[c].rc # 0
<1>1. /\ bs \in [Addr -> Block] /\ n \in [Addr -> Nat]
      /\ \A a \in Addr : Shaped(bs[a], a) /\ Exact(bs[a].rc, n[a])
  BY DEF Good
<1>2. \A a \in Addr : \E k \in Nat : Exact(bs[a].rc, k) /\ CountIn(s, a) <= k
  BY <1>1
<1>3. \A a \in Addr : bs[a].tag = "none" => bs[a].rc = 0
  BY <1>1, DeadIs DEF Shaped
<1> QED
  BY ONLY <1>1, <1>2, <1>3, s \in Seq(AN), c \in Zeroed(bs, s), ZeroedIs

\* jq_free_walk keeps the invariant: the fields of a dead block are given up,
\* and the block with them.
LEMMA KeepsFreeWalk == ASSUME IInv, NEW b \in Addr, FreeWalk(b) PROVE IInv'
<1>1. TypeInv /\ TokenInv /\ SortInv /\ CountInv /\ ShapeInv /\ ChainInv /\ PinInv /\ HandlerInv /\ PoolInv
  BY DEF IInv
<1>2. /\ b \in work /\ block' = [Dropped(block, Children(b)) EXCEPT ![b] = Dead]
      /\ work' = (work \ {b}) \cup Zeroed(block, Children(b)) /\ BlockFree(b)
      /\ UNCHANGED <<local, ks, hs, token, chain, budget>>
  BY DEF FreeWalk
<1>3. Good(block, CountFn) /\ work = DyingIn(block) /\ \A a \in Addr : CountFn[a] = Total(a)
  BY IsGood
<1>4. block[b].tag # "none" /\ block[b].rc = 0 /\ Total(b) = 0
  BY <1>1, <1>2, <1>3, RcStaticIs DEF DyingIn, CountInv, Exact
<1>5. Unowned(b)
  BY <1>1, <1>4, NobodyOwns
<1>6. Children(b) = HeldBy(b)
  <2>1. ~IsMirror(b) /\ \A i : ~Released(b, i)
    BY <1>5 DEF Unowned, IsMirror, Released
  <2>2. block[b].fields \in Seq(AN) /\ DOMAIN block[b].fields = 1 .. Len(block[b].fields)
    BY <1>1, HeldTyped
  <2>3. block[b].tag = "leaf" => block[b].fields = << >>
    BY <1>1 DEF ShapeInv, Shaped
  <2> QED
    BY <2>1, <2>2, <2>3 DEF Children, OwnedByTag, HeldBy
<1>7. HeldBy(b) \in Seq(AN) /\ AllCounted
  BY <1>1, HeldTyped, CountsAre
<1> DEFINE s == HeldBy(b)
<1>8. \A a \in Addr : CountIn(s, a) \in Nat /\ CountIn(s, a) <= HeldCount(a) /\ CountIn(s, a) <= CountFn[a]
  <2> TAKE a \in Addr
  <2>1. CountIn(s, a) \in Nat /\ CountIn(s, a) <= HeldCount(a) /\ CountsNow(a)
    BY <1>1, <1>7, CountsTyped DEF AllCounted
  <2>2. HeldCount(a) <= Total(a) /\ HeldCount(a) \in Nat /\ Total(a) \in Nat
    BY <2>1, PartsOfTotal DEF CountsNow
  <2> QED
    BY <1>3, <2>1, <2>2
<1> HIDE DEF s
<1>9. s \in Seq(AN) /\ Children(b) = s
  BY <1>6, <1>7 DEF s
<1>10. PICK n \in [Addr -> Nat] :
           /\ \A a \in Addr : n[a] = CountFn[a] - CountIn(s, a)
           /\ Good(Dropped(block, s), n) /\ SameShapes(Dropped(block, s), block)
           /\ DyingIn(Dropped(block, s)) = DyingIn(block) \cup Zeroed(block, s)
           /\ Zeroed(block, s) \in SUBSET Addr
  <2>1. AtMost(s, CountFn)
    BY <1>8 DEF AtMost
  <2>2. \E n \in [Addr -> Nat] : CutTo(block, CountFn, s, n)
    BY <1>3, <1>9, <2>1, CutGood
  <2> QED
    BY <2>2 DEF CutTo
<1> DEFINE cs == Dropped(block, s)
<1>12. Gone(block', cs, b)
  BY <1>2, <1>9 DEF Gone
<1>a. Good(cs, n)
  BY <1>10
<1> HIDE DEF cs
<1>11. PICK m \in [Addr -> Nat] :
           /\ m[b] = 0 /\ \A a \in Addr : a # b => m[a] = n[a]
           /\ Good(block', m) /\ DyingIn(block') = DyingIn(cs) \ {b}
           /\ block'[b] = Dead /\ \A a \in Addr : a # b => block'[a] = cs[a]
  BY <1>12, <1>a, GoneGood
<1>13. /\ Good(block', m) /\ block'[b] = Dead /\ \A a \in Addr : a # b => block'[a] = cs[a]
       /\ DyingIn(block') = DyingIn(cs) \ {b}
  BY <1>11, <1>12
<1>14. ShapesBut(block', block, b)
  BY <1>10, <1>13 DEF SameShapes, ShapesBut, cs
<1>15. work' = DyingIn(block') /\ work' \in SUBSET Addr
  <2>1. b \notin Zeroed(block, s)
    BY <1>3, <1>4, <1>8, <1>9, ZeroedNonzero
  <2>2. work' = (work \ {b}) \cup Zeroed(block, s)
    BY <1>2, <1>9
  <2>3. DyingIn(cs) = work \cup Zeroed(block, s)
    BY <1>3, <1>10 DEF cs
  <2>4. work \in SUBSET Addr
    BY <1>1 DEF TypeInv
  <2> QED
    BY <1>10, <1>13, <2>1, <2>2, <2>3, <2>4
<1>16. \A c \in Addr : c # b => SameShape(block'[c], block[c])
  BY <1>14 DEF ShapesBut
<1>17. PoolInv' /\ class' \in [Addr -> 0 .. PoolWords] /\ freelist' \in [1 .. PoolWords -> Seq(Addr)]
  BY <1>1, <1>2, <1>4, <1>13, <1>16, PoolShrinks
<1>18. TypeInv'
  BY <1>1, <1>2, <1>13, <1>15, <1>17, GoodTyped DEF TypeInv
<1>19. HandlerInv' /\ PinInv'
  BY <1>1, <1>2, <1>5, <1>14, StacksFree DEF Unowned
<1>20. \A a \in Addr : Total(a)' = m[a]
  <2> TAKE a \in Addr
  <2>1. \A c \in Addr : c # b => HeldAlike(c)
    BY <1>2, <1>16 DEF HeldAlike, IsMirror, SameShape, Released
  <2>2. HeldCount(a)' = HeldCount(a) - CountIn(HeldBy(b), a) + CountIn(HeldBy(b)', a)
    BY <1>1, <1>18, <2>1, HeldChanged
  <2>3. CountIn(HeldBy(b)', a) = 0
    <3>1. HeldBy(b)' = << >>
      BY <1>13, DeadIs DEF HeldBy
    <3> QED
      BY <3>1, CountInEmpty
  <2>4. /\ LocalCount(a)' = LocalCount(a) /\ ShellCount(a)' = ShellCount(a) /\ ClauseCount(a)' = ClauseCount(a)
        /\ FramedCount(a)' = FramedCount(a) /\ MadeCount(a)' = MadeCount(a)
    BY <1>2 DEF LocalCount, ShellCount, ClauseCount, FramedCount, MadeCount, Clauses, Framed
  <2>5. CountsNow(a) /\ CountsNow(a)'
    BY <1>7, <1>18, CountsArePrime DEF AllCounted
  <2>6. Total(a)' = Total(a) - CountIn(s, a)
    BY <1>8, <2>2, <2>3, <2>4, <2>5 DEF CountsNow, s
  <2>7. CASE a = b
    BY <1>4, <1>8, <1>11, <2>5, <2>6, <2>7 DEF CountsNow
  <2>8. CASE a # b
    BY <1>3, <1>10, <1>11, <2>6, <2>8
  <2> QED
    BY <2>7, <2>8
<1>21. ShapeInv' /\ CountInv'
  BY <1>13, <1>15, <1>20, GoodIsCounted
<1>22. Unowned(b)'
  <2>1. Total(b)' = 0
    BY <1>11, <1>20
  <2> QED
    BY <1>18, <2>1, CountedPrime DEF Owned
<1>23. SortInv'
  <2>1. \A c \in Addr : \A i \in 1 .. Len(block[c].fields) : c # b /\ Released(c, i) => Released(c, i)'
    BY <1>2 DEF Released
  <2>2. /\ \A x \in Locals : IsValue(block, local'[x])
        /\ \A i \in 1 .. Len(hs') : IsValue(block, hs'[i].clause)
        /\ \A i \in 1 .. Len(ks') : IsFrame(block, ks'[i].fr)
        /\ \A i \in 1 .. Len(chain'.made) : IsFrame(block, chain'.made[i])
    BY <1>1, <1>2 DEF SortInv
  <2> QED
    BY <1>1, <1>13, <1>14, <1>18, <1>19, <1>21, <1>22, <2>1, <2>2, SortFree
<1>24. TokenInv'
  <2> SUFFICES ASSUME token.shell # Nil PROVE TokenInv'
    BY <1>2 DEF TokenInv
  <2> DEFINE d == token.shell
  <2>1. d \in Addr /\ d # b /\ \A c \in Addr : CountIn(HeldBy(c), d) = 0
    BY <1>5, ShellAlone DEF Unowned
  <2>2. CountIn(s, d) = 0
    BY <2>1 DEF s
  <2> HIDE DEF d
  <2>3. block \in [Addr -> Block] /\ \A a \in Addr : \E k \in Nat : Exact(block[a].rc, k) /\ CountIn(s, a) <= k
    BY <1>1, <1>3, <1>7, <1>8 DEF AllCounted, CountsNow, CountInv, TypeInv
  <2>4. cs[d] = block[d]
    BY ONLY <1>9, <2>1, <2>2, <2>3, DroppedIs DEF cs
  <2>5. block'[d] = block[d]
    BY <1>13, <2>1, <2>4
  <2> QED
    BY <1>2, <2>5, TokenKept DEF d
<1>25. ChainInv'
  <2>1. chain.of = Nil
    BY <1>1, <1>2 DEF ChainInv
  <2> QED
    BY <1>1, <1>2, <2>1 DEF ChainInv
<1> QED
  BY <1>17, <1>18, <1>19, <1>21, <1>23, <1>24, <1>25 DEF IInv

\* Freeing the shell of an unused token keeps the invariant.
LEMMA KeepsFreeToken == ASSUME IInv, FreeToken PROVE IInv'
<1>1. TypeInv /\ TokenInv /\ SortInv /\ CountInv /\ ShapeInv /\ ChainInv /\ PinInv /\ HandlerInv /\ PoolInv /\ AllCounted
  BY CountsAre DEF IInv
<1>2. /\ work = {} /\ ~Taking /\ chain = NoChain /\ token.on /\ token' = NoToken
      /\ UNCHANGED <<local, ks, hs, work, chain, budget>>
  BY DEF FreeToken, Running
<1>3. token' = [on |-> FALSE, shell |-> Nil, next |-> 0, arity |-> 0]
      /\ token' \in [on : BOOLEAN, shell : AN, next : Nat, arity : Nat]
  BY <1>2 DEF NoToken, AN
<1>4. Good(block, CountFn) /\ work = DyingIn(block) /\ \A a \in Addr : CountFn[a] = Total(a) /\ a # Nil
  BY IsGood, HeapAssumption
<1>5. TokenInv' /\ ChainInv'
  BY <1>2, <1>3 DEF TokenInv, ChainInv, NoChain
<1>6. CASE token.shell = Nil
  <2>1. UNCHANGED <<block, pool>>
    BY <1>6 DEF FreeToken
  <2>2. TypeInv'
    BY <1>1, <1>2, <1>3, <2>1 DEF TypeInv, pool
  <2>3. \A b \in Addr : \A i \in 1 .. Len(block[b].fields) : Released(b, i) <=> Released(b, i)'
    BY <1>3, <1>4, <1>6 DEF Released
  <2>4. SameShapes(block', block)
    BY <2>1 DEF SameShapes, SameShape
  <2>5. /\ PoolInv' /\ HandlerInv' /\ SortInv' /\ PinInv'
    BY <1>2, <2>1, <2>2, <2>3, <2>4, CalmKeeps
  <2>6. \A a \in Addr : Total(a)' = CountFn[a]
    <3>1. Held' = Held
      <4>1. Held' = [b \in Addr |-> HeldBy(b)']
        BY DEF Held
      <4>2. \A b \in Addr : HeldBy(b)' = HeldBy(b)
        BY <1>2, <2>1, <2>3 DEF HeldBy, IsMirror
      <4> QED
        BY <4>1, <4>2 DEF Held
    <3> QED
      BY <1>2, <1>3, <1>4, <1>6, <3>1 DEF Total, Clauses, Framed
  <2>7. ShapeInv' /\ CountInv'
    BY <1>2, <1>4, <2>1, <2>6, GoodIsCounted
  <2> QED
    BY <1>5, <2>2, <2>5, <2>7 DEF IInv
<1>7. CASE token.shell # Nil
  <2>1. PICK d : d = token.shell
    OBVIOUS
  <2>2. /\ d \in Addr /\ Total(d) = 1 /\ block[d].tag = "con" /\ token.next \in Nat /\ Len(block[d].fields) \in Nat
    BY <1>1, <1>7, <2>1, ShellAlone, HeldTyped DEF Alone, TokenInv, TypeInv
  <2>3. BlockFree(d) /\ Gone(block', block, d)
    BY <1>7, <2>1 DEF FreeToken, Gone
  <2>4. token.next > Len(block[d].fields)
    BY <1>2, <1>7, <2>1, <2>2 DEF Taking
  <2>5. PICK m \in [Addr -> Nat] :
           /\ m[d] = 0 /\ \A a \in Addr : a # d => m[a] = CountFn[a]
           /\ Good(block', m) /\ DyingIn(block') = DyingIn(block) \ {d}
           /\ block'[d] = Dead /\ \A a \in Addr : a # d => block'[a] = block[a]
    BY <1>4, <2>2, <2>3, GoneGood
  <2>6. ShapesBut(block', block, d) /\ \A c \in Addr : c # d => SameShape(block'[c], block[c])
    BY <2>5 DEF ShapesBut, SameShape
  <2>7. PoolInv' /\ class' \in [Addr -> 0 .. PoolWords] /\ freelist' \in [1 .. PoolWords -> Seq(Addr)]
    BY <1>1, <2>2, <2>3, <2>5, <2>6, PoolShrinks
  <2>8. TypeInv'
    BY <1>1, <1>2, <1>3, <2>5, <2>7, GoodTyped DEF TypeInv
  <2>9. \A i \in 1 .. Len(ks) : ks[i].fr # d
    BY <2>2, TopAlone DEF FrameTags
  <2>10. HandlerInv' /\ PinInv'
    BY <1>1, <1>2, <2>2, <2>6, <2>9, StacksFree
  <2>11. \A a \in Addr : Total(a)' = m[a]
    <3> TAKE a \in Addr
    <3>1. \A c \in Addr : c # d => HeldAlike(c)
      BY <1>2, <1>3, <1>4, <2>1, <2>6 DEF HeldAlike, IsMirror, SameShape, Released
    <3>2. HeldCount(a)' = HeldCount(a) - CountIn(HeldBy(d), a) + CountIn(HeldBy(d)', a)
      BY <1>1, <2>2, <2>8, <3>1, HeldChanged
    <3>3. CountIn(HeldBy(d)', a) = 0
      <4>1. HeldBy(d)' = << >>
        BY <2>5, DeadIs DEF HeldBy
      <4> QED
        BY <4>1, CountInEmpty
    <3>4. CountIn(HeldBy(d), a) = 0
      <4>1. \A i \in 1 .. Len(block[d].fields) : Released(d, i)
        BY <2>1, <2>2, <2>4 DEF Released
      <4> QED
        BY <1>1, <2>2, <4>1, HeldNone
    <3>5. /\ LocalCount(a)' = LocalCount(a) /\ ShellCount(a) = OneIf(d = a) /\ ShellCount(a)' = 0
          /\ ClauseCount(a)' = ClauseCount(a) /\ FramedCount(a)' = FramedCount(a) /\ MadeCount(a)' = MadeCount(a)
      BY <1>2, <1>3, <1>4, <2>1 DEF LocalCount, ShellCount, ClauseCount, FramedCount, MadeCount, Clauses, Framed, OneIf
    <3>6. CountsNow(a) /\ CountsNow(a)'
      BY <1>1, <2>8, CountsArePrime DEF AllCounted
    <3>7. Total(a)' = Total(a) - OneIf(d = a)
      BY <3>2, <3>3, <3>4, <3>5, <3>6 DEF CountsNow, OneIf
    <3>8. CASE a = d
      BY <2>2, <2>5, <3>7, <3>8 DEF OneIf
    <3>9. CASE a # d
      <4>1. Total(a) \in Nat /\ OneIf(d = a) = 0
        BY <3>6, <3>9 DEF OneIf, CountsNow
      <4> QED
        BY <1>4, <2>5, <3>7, <3>9, <4>1
    <3> QED
      BY <3>8, <3>9
  <2>12. ShapeInv' /\ CountInv'
    <3>1. work' = DyingIn(block')
      BY <1>2, <1>4, <2>5
    <3> QED
      BY <2>5, <2>11, <3>1, GoodIsCounted
  <2>13. Unowned(d)'
    <3>1. Total(d)' = 0
      BY <2>2, <2>5, <2>11
    <3> QED
      BY <2>2, <2>8, <3>1, CountedPrime DEF Owned
  <2>14. SortInv'
    <3>1. \A c \in Addr : \A i \in 1 .. Len(block[c].fields) : c # d /\ Released(c, i) => Released(c, i)'
      BY <2>1 DEF Released
    <3>2. /\ \A x \in Locals : IsValue(block, local'[x])
          /\ \A i \in 1 .. Len(hs') : IsValue(block, hs'[i].clause)
          /\ \A i \in 1 .. Len(ks') : IsFrame(block, ks'[i].fr)
          /\ \A i \in 1 .. Len(chain'.made) : IsFrame(block, chain'.made[i])
      BY <1>1, <1>2 DEF SortInv
    <3> QED
      BY <1>1, <2>2, <2>5, <2>6, <2>8, <2>10, <2>12, <2>13, <3>1, <3>2, SortFree
  <2> QED
    BY <1>5, <2>7, <2>8, <2>10, <2>12, <2>14 DEF IInv
<1> QED
  BY <1>6, <1>7

----------------------------------------------------------------------------
(* The frame stack is popped.                                              *)

\* What the pop of a frame that goes leaves.
LEMMA PopPins ==
  ASSUME IInv, ks # << >>, KsPop, ShapesBut(block', block, TopFrame.fr),
         \A x \in Locals : local'[x] = local[x] \/ x \in Own
  PROVE  PinInv'
<1>1. TypeInv /\ PinInv
  BY DEF IInv
<1>2. /\ Len(ks') = Len(ks) - 1 /\ Len(ks) \in 1 .. Len(ks) /\ \A i \in 1 .. Len(ks) - 1 : ks'[i] = ks[i]
  BY <1>1, KsPopped
<1>3. Len(ks) \in Nat
  BY <1>1 DEF TypeInv
<1>4. ASSUME NEW i \in 1 .. Len(ks')
      PROVE  /\ i \in 1 .. Len(ks) /\ ks'[i] = ks[i] /\ block'[ks[i].fr].tag = block[ks[i].fr].tag
             /\ block'[ks[i].fr].fields = block[ks[i].fr].fields
             /\ \A j \in 1 .. Len(ks[i].pins) : local'[ks[i].pins[j]] = local[ks[i].pins[j]]
  <2>1. i \in 1 .. Len(ks) /\ ks'[i] = ks[i] /\ i # Len(ks)
    BY <1>2, <1>3
  <2>2. ks[i].fr \in Addr /\ ks[i].pins \in Seq(Locals) /\ ks[i].fr # TopFrame.fr
    BY <1>2, <2>1, TopAlone DEF TopFrame
  <2>3. ASSUME NEW j \in 1 .. Len(ks[i].pins) PROVE local'[ks[i].pins[j]] = local[ks[i].pins[j]]
    <3>1. ks[i].pins[j] \in Locals
      BY <2>2
    <3> QED
      BY <1>1, <2>1, <3>1, OwnIs
  <2> QED
    BY <2>1, <2>2, <2>3 DEF ShapesBut, SameShape
<1>5. ASSUME NEW i \in 1 .. Len(ks'), ks'[i].pins # << >>
      PROVE  /\ block'[ks'[i].fr].tag = "frame" /\ Len(block'[ks'[i].fr].fields) = Len(ks'[i].pins)
             /\ \A j \in 1 .. Len(ks'[i].pins) : block'[ks'[i].fr].fields[j] = local'[ks'[i].pins[j]]
  <2>1. /\ i \in 1 .. Len(ks) /\ ks'[i] = ks[i] /\ block'[ks[i].fr].tag = block[ks[i].fr].tag
        /\ block'[ks[i].fr].fields = block[ks[i].fr].fields
        /\ \A j \in 1 .. Len(ks[i].pins) : local'[ks[i].pins[j]] = local[ks[i].pins[j]]
    BY <1>4
  <2>2. /\ block[ks[i].fr].tag = "frame" /\ Len(block[ks[i].fr].fields) = Len(ks[i].pins)
        /\ \A j \in 1 .. Len(ks[i].pins) : block[ks[i].fr].fields[j] = local[ks[i].pins[j]]
    BY <1>1, <1>5, <2>1 DEF PinInv
  <2> QED
    BY <2>1, <2>2
<1>6. ASSUME NEW i \in 1 .. Len(ks'), NEW k \in 1 .. Len(ks'),
             NEW j \in 1 .. Len(ks'[i].pins), NEW l \in 1 .. Len(ks'[k].pins), ks'[i].pins[j] = ks'[k].pins[l]
      PROVE  i = k /\ j = l
  <2>1. i \in 1 .. Len(ks) /\ ks'[i] = ks[i] /\ k \in 1 .. Len(ks) /\ ks'[k] = ks[k]
    BY <1>4
  <2>2. /\ j \in 1 .. Len(ks[i].pins) /\ l \in 1 .. Len(ks[k].pins) /\ ks[i].pins[j] = ks[k].pins[l]
    BY <1>6, <2>1
  <2>3. \A e, f \in 1 .. Len(ks) : \A g \in 1 .. Len(ks[e].pins) : \A h \in 1 .. Len(ks[f].pins) :
          ks[e].pins[g] = ks[f].pins[h] => e = f /\ g = h
    BY <1>1 DEF PinInv
  <2> QED
    BY ONLY <2>1, <2>2, <2>3, SMTT(40)
<1> QED
  BY <1>5, <1>6 DEF PinInv

\* A frame that is no handler leaves the stack.
LEMMA PopHandlers ==
  ASSUME IInv, ks # << >>, KsPop, ShapesBut(block', block, TopFrame.fr),
         block[TopFrame.fr].tag # "handler", UNCHANGED hs
  PROVE  HandlerInv'
<1>1. TypeInv /\ HandlerInv
  BY DEF IInv
<1>2. /\ Len(ks') = Len(ks) - 1 /\ Len(ks) \in 1 .. Len(ks) /\ \A i \in 1 .. Len(ks) - 1 : ks'[i] = ks[i]
  BY <1>1, KsPopped
<1>3. Len(ks) \in Nat
  BY <1>1 DEF TypeInv
<1>4. ASSUME NEW i \in 1 .. Len(ks')
      PROVE  i \in 1 .. Len(ks) /\ ks'[i] = ks[i] /\ block'[ks[i].fr].tag = block[ks[i].fr].tag
  <2>1. i \in 1 .. Len(ks) /\ ks'[i] = ks[i] /\ i # Len(ks)
    BY <1>2, <1>3
  <2>2. ks[i].fr \in Addr /\ ks[i].fr # TopFrame.fr
    BY <1>2, <2>1, TopAlone DEF TopFrame
  <2> QED
    BY <2>1, <2>2 DEF ShapesBut, SameShape
<1>5. \A p \in 1 .. Len(ks') : block'[ks'[p].fr].tag = "handler" => \E i \in 1 .. Len(hs') : hs'[i].hf = ks'[p].fr
  BY <1>1, <1>4 DEF HandlerInv
<1>6. ASSUME NEW i \in 1 .. Len(hs')
      PROVE  \E p \in 1 .. Len(ks') : hs'[i].hf = ks'[p].fr /\ block'[ks'[p].fr].tag = "handler"
  <2>1. PICK p \in 1 .. Len(ks) : hs[i].hf = ks[p].fr /\ block[ks[p].fr].tag = "handler"
    BY <1>1, <1>6 DEF HandlerInv
  <2>2. p # Len(ks)
    BY <2>1 DEF TopFrame
  <2>3. p \in 1 .. Len(ks')
    BY <1>2, <1>3, <2>2
  <2>4. hs'[i].hf = ks'[p].fr /\ block'[ks'[p].fr].tag = "handler"
    BY <1>4, <2>1, <2>3
  <2> QED
    BY <2>3, <2>4
<1>7. ASSUME NEW i \in 1 .. Len(hs'), NEW j \in 1 .. Len(hs'), NEW p \in 1 .. Len(ks'), NEW q \in 1 .. Len(ks'),
             hs'[i].hf = ks'[p].fr, hs'[j].hf = ks'[q].fr
      PROVE  i < j <=> p < q
  <2>1. /\ p \in 1 .. Len(ks) /\ q \in 1 .. Len(ks) /\ i \in 1 .. Len(hs) /\ j \in 1 .. Len(hs)
        /\ hs[i].hf = ks[p].fr /\ hs[j].hf = ks[q].fr
    BY <1>4, <1>7
  <2> QED
    BY <1>1, <2>1 DEF HandlerInv
<1>8. \A i \in 1 .. Len(hs') : \E p \in 1 .. Len(ks') : hs'[i].hf = ks'[p].fr /\ block'[ks'[p].fr].tag = "handler"
  BY <1>6
<1>9. \A i, j \in 1 .. Len(hs') : \A p, q \in 1 .. Len(ks') :
        hs'[i].hf = ks'[p].fr /\ hs'[j].hf = ks'[q].fr => (i < j <=> p < q)
  BY <1>7
<1> QED
  BY <1>5, <1>8, <1>9 DEF HandlerInv

\* The rest of a step that pops and frees the top frame.
LEMMA PopFree ==
  ASSUME IInv, Suspendable, ks # << >>, KsPop, NEW d, d = TopFrame.fr, block[d].tag = "frame",
         BlockFree(d), block' = [block EXCEPT ![d] = Dead],
         local' \in [Locals -> AN], \A x \in Locals : local'[x] = local[x] \/ (x \in Own /\ IsValue(block, local'[x])),
         \A a \in Addr : LocalCount(a)' = LocalCount(a) + CountIn(HeldBy(d), a),
         UNCHANGED <<hs, work, token, chain, budget>>
  PROVE  IInv'
<1>1. TypeInv /\ TokenInv /\ SortInv /\ CountInv /\ ShapeInv /\ ChainInv /\ PinInv /\ HandlerInv /\ PoolInv /\ AllCounted
  BY CountsAre DEF IInv
<1>2. /\ work = {} /\ chain = NoChain /\ ~token.on /\ token.shell = Nil
  BY <1>1 DEF Suspendable, Running, TokenInv
<1>3. /\ ks' \in Seq([fr : Addr, pins : Seq(Locals)]) /\ Len(ks') = Len(ks) - 1
      /\ Len(ks) \in 1 .. Len(ks) /\ d \in Addr
      /\ \A i \in 1 .. Len(ks) - 1 : ks'[i] = ks[i]
      /\ \A a \in Addr : FramedCount(a)' = FramedCount(a) - OneIf(d = a)
  BY <1>1, KsPopped
<1>4. Good(block, CountFn) /\ work = DyingIn(block) /\ \A a \in Addr : CountFn[a] = Total(a) /\ a # Nil
  BY IsGood, HeapAssumption
<1>5. Total(d) = 1 /\ \A k \in 1 .. Len(ks) : ks[k].fr = d => k = Len(ks)
  BY <1>3, TopAlone DEF TopFrame, Alone
<1>6. Gone(block', block, d)
  BY DEF Gone
<1>7. PICK m \in [Addr -> Nat] :
           /\ m[d] = 0 /\ \A a \in Addr : a # d => m[a] = CountFn[a]
           /\ Good(block', m) /\ DyingIn(block') = DyingIn(block) \ {d}
           /\ block'[d] = Dead /\ \A a \in Addr : a # d => block'[a] = block[a]
  BY ONLY <1>3, <1>4, <1>6, GoneGood
<1>8. ShapesBut(block', block, d) /\ \A c \in Addr : c # d => SameShape(block'[c], block[c])
  BY <1>7 DEF ShapesBut, SameShape
<1>9. PoolInv' /\ class' \in [Addr -> 0 .. PoolWords] /\ freelist' \in [1 .. PoolWords -> Seq(Addr)]
  <2>1. block[d].tag # "none"
    OBVIOUS
  <2> QED
    BY <1>1, <1>3, <1>7, <1>8, <2>1, PoolShrinks
<1>10. TypeInv'
  BY <1>1, <1>3, <1>7, <1>9, GoodTyped DEF TypeInv
<1>11. PinInv' /\ HandlerInv'
  <2>1. block[d].tag # "handler"
    OBVIOUS
  <2> QED
    BY <1>8, <2>1, PopPins, PopHandlers
<1>12. \A a \in Addr : Total(a)' = m[a]
  <2> TAKE a \in Addr
  <2>1. ASSUME NEW c \in Addr, c # d PROVE HeldAlike(c)
    <3>1. IsMirror(c)' <=> IsMirror(c)
      <4>1. ASSUME IsMirror(c) PROVE IsMirror(c)'
        <5>1. PICK k \in 1 .. Len(ks) : ks[k].fr = c /\ ks[k].pins # << >>
          BY <4>1 DEF IsMirror
        <5>2. k # Len(ks)
          BY <2>1, <5>1 DEF TopFrame
        <5>3. k \in 1 .. Len(ks') /\ ks'[k] = ks[k]
          BY <1>3, <5>2
        <5> QED
          BY <5>1, <5>3 DEF IsMirror
      <4>2. ASSUME IsMirror(c)' PROVE IsMirror(c)
        <5>1. PICK k \in 1 .. Len(ks') : ks'[k].fr = c /\ ks'[k].pins # << >>
          BY <4>2 DEF IsMirror
        <5>2. k \in 1 .. Len(ks) /\ ks'[k] = ks[k]
          BY <1>3
        <5> QED
          BY <5>1, <5>2 DEF IsMirror
      <4> QED
        BY <4>1, <4>2
    <3> QED
      BY <1>8, <2>1, <3>1 DEF HeldAlike, SameShape, Released
  <2>2. HeldCount(a)' = HeldCount(a) - CountIn(HeldBy(d), a) + CountIn(HeldBy(d)', a)
    BY <1>1, <1>3, <1>10, <2>1, HeldChanged
  <2>3. CountIn(HeldBy(d)', a) = 0
    <3>1. HeldBy(d)' = << >>
      BY <1>7, DeadIs DEF HeldBy
    <3> QED
      BY <3>1, CountInEmpty
  <2>4. CountIn(HeldBy(d), a) \in Nat
    BY <1>1, <1>3, CountsTyped
  <2>5. /\ ShellCount(a)' = ShellCount(a) /\ ClauseCount(a)' = ClauseCount(a) /\ MadeCount(a)' = MadeCount(a)
    BY DEF ShellCount, ClauseCount, MadeCount, Clauses
  <2>6. CountsNow(a) /\ CountsNow(a)'
    BY <1>1, <1>10, CountsArePrime DEF AllCounted
  <2>7. Total(a)' = Total(a) - OneIf(d = a)
    <3>1. /\ LocalCount(a)' = LocalCount(a) + CountIn(HeldBy(d), a) /\ FramedCount(a)' = FramedCount(a) - OneIf(d = a)
          /\ OneIf(d = a) \in Nat
      BY <1>3 DEF OneIf
    <3> QED
      BY ONLY <2>2, <2>3, <2>4, <2>5, <2>6, <3>1 DEF CountsNow
  <2>8. CASE a = d
    BY <1>5, <1>7, <2>7, <2>8 DEF OneIf
  <2>9. CASE a # d
    <3>1. Total(a) \in Nat /\ OneIf(d = a) = 0
      BY <2>6, <2>9 DEF OneIf, CountsNow
    <3> QED
      BY <1>4, <1>7, <2>7, <2>9, <3>1
  <2> QED
    BY <2>8, <2>9
<1>13. ShapeInv' /\ CountInv'
  <2>1. work' = DyingIn(block')
    BY <1>2, <1>4, <1>7
  <2> QED
    BY <1>7, <1>12, <2>1, GoodIsCounted
<1>14. Unowned(d)'
  <2>1. Total(d)' = 0
    BY <1>3, <1>7, <1>12
  <2> QED
    BY <1>3, <1>10, <2>1, CountedPrime DEF Owned
<1>15. SortInv'
  <2>1. \A c \in Addr : \A i \in 1 .. Len(block[c].fields) : c # d /\ Released(c, i) => Released(c, i)'
    BY DEF Released
  <2>2. /\ \A x \in Locals : IsValue(block, local'[x])
        /\ \A i \in 1 .. Len(hs') : IsValue(block, hs'[i].clause)
        /\ \A i \in 1 .. Len(chain'.made) : IsFrame(block, chain'.made[i])
    BY <1>1 DEF SortInv
  <2>3. \A i \in 1 .. Len(ks') : IsFrame(block, ks'[i].fr)
    <3> TAKE i \in 1 .. Len(ks')
    <3>1. i \in 1 .. Len(ks) /\ ks'[i] = ks[i]
      BY <1>3
    <3> QED
      BY <1>1, <3>1 DEF SortInv
  <2> QED
    BY <1>1, <1>3, <1>7, <1>8, <1>10, <1>11, <1>13, <1>14, <2>1, <2>2, <2>3, SortFree
<1>16. TokenInv' /\ ChainInv'
  BY <1>2 DEF TokenInv, ChainInv, NoChain
<1> QED
  BY <1>9, <1>10, <1>11, <1>13, <1>15, <1>16 DEF IInv

\* Returning keeps the invariant: the frame is freed with the locals it
\* mirrored still held.
LEMMA KeepsReturn == ASSUME IInv, Return PROVE IInv'
<1>1. TypeInv /\ PinInv
  BY DEF IInv
<1>2. PICK d : d = TopFrame.fr
  OBVIOUS
<1>3. /\ Suspendable /\ ks # << >> /\ block[d].tag = "frame" /\ TopFrame.pins # << >>
      /\ KsPop /\ BlockFree(d) /\ block' = [block EXCEPT ![d] = Dead]
      /\ UNCHANGED <<local, hs, work, token, chain, budget>>
  BY <1>2 DEF Return, Mirrors
<1>4. d \in Addr /\ Len(ks) \in 1 .. Len(ks)
  BY <1>1, <1>2, <1>3, KsPopped
<1>5. IsMirror(d)
  BY <1>2, <1>3, <1>4 DEF IsMirror, TopFrame
<1>6. \A a \in Addr : LocalCount(a)' = LocalCount(a) + CountIn(HeldBy(d), a)
  <2> TAKE a \in Addr
  <2>1. CountIn(HeldBy(d), a) = 0
    BY <1>1, <1>4, <1>5, HeldNone
  <2>2. LocalCount(a)' = LocalCount(a) /\ LocalCount(a) \in Nat
    BY <1>1, <1>3, CountsTyped DEF LocalCount
  <2> QED
    BY <2>1, <2>2
<1>7. local' \in [Locals -> AN] /\ \A x \in Locals : local'[x] = local[x]
  BY <1>1, <1>3 DEF TypeInv
<1> QED
  BY <1>2, <1>3, <1>6, <1>7, PopFree

\* A frame is entered: its slots become variables.
LEMMA EnteredIs ==
  ASSUME TypeInv, NEW d \in Addr, NEW s \in Seq(Locals), Entered(d, s)
  PROVE  /\ local' \in [Locals -> AN]
         /\ \A x \in Locals : local'[x] = local[x]
              \/ (x \in Own /\ \E i \in 1 .. Len(block[d].fields) : local'[x] = block[d].fields[i])
         /\ \A a \in Addr : LocalCount(a)' = LocalCount(a) + CountIn(block[d].fields, a)
<1> DEFINE t == block[d].fields
<1>1. /\ \A i \in 1 .. Len(s) : s[i] \in Own /\ local[s[i]] = Nil /\ s[i] \in Locals
      /\ Len(s) = Len(t) /\ \A i, j \in 1 .. Len(s) : s[i] = s[j] => i = j
      /\ local' = [x \in Locals |-> IF x \in Range(s) THEN t[CHOOSE i \in DOMAIN s : s[i] = x] ELSE local[x]]
      /\ DOMAIN s = 1 .. Len(s)
  BY DEF Entered, Vacant
<1>2. t \in Seq(AN) /\ local \in [Locals -> AN] /\ Len(t) \in Nat
  BY HeldTyped DEF TypeInv
<1> HIDE DEF t
<1>3. ASSUME NEW i \in 1 .. Len(s) PROVE local'[s[i]] = t[i] /\ s[i] \in Range(s)
  <2>1. s[i] \in Range(s)
    BY <1>1 DEF Range
  <2>2. (CHOOSE k \in DOMAIN s : s[k] = s[i]) = i
    BY <1>1
  <2> QED
    BY <1>1, <2>1, <2>2
<1>4. ASSUME NEW x \in Locals, x \notin Range(s) PROVE local'[x] = local[x]
  BY <1>1, <1>4
<1>5. ASSUME NEW x \in Range(s) PROVE \E i \in 1 .. Len(s) : s[i] = x
  BY <1>1 DEF Range
<1>6. \A x \in Locals : local'[x] = local[x]
              \/ (x \in Own /\ \E i \in 1 .. Len(t) : local'[x] = t[i])
  <2> TAKE x \in Locals
  <2>1. CASE x \in Range(s)
    <3>1. PICK i \in 1 .. Len(s) : s[i] = x
      BY <1>5, <2>1
    <3> QED
      BY <1>1, <1>3, <3>1
  <2>2. CASE x \notin Range(s)
    BY <1>4, <2>2
  <2> QED
    BY <2>1, <2>2
<1>7. \A x \in Locals : local'[x] \in AN
  <2> TAKE x \in Locals
  <2>1. local[x] \in AN /\ \A i \in 1 .. Len(t) : t[i] \in AN
    BY <1>2
  <2> QED
    BY <1>6, <2>1
<1>8. local' \in [Locals -> AN]
  <2>1. local' = [x \in Locals |-> local'[x]]
    BY <1>1
  <2> QED
    BY <1>7, <2>1
<1>9. ASSUME NEW a \in Addr PROVE LocalCount(a)' = LocalCount(a) + CountIn(t, a)
  <2>1. IsFiniteSet(Locals) /\ a # Nil
    BY HeapAssumption
  <2>2. s \in [1 .. Len(t) -> Locals]
    BY <1>1
  <2>3. \A i, j \in 1 .. Len(t) : s[i] = s[j] => i = j
    BY <1>1
  <2> DEFINE g == local'
             f == local
  <2>4. \A i \in 1 .. Len(t) : f[s[i]] # a /\ g[s[i]] = t[i]
    BY <1>1, <1>3, <2>1
  <2>5. \A x \in Locals : x \notin Range(s) => g[x] = f[x]
    BY <1>4
  <2> HIDE DEF f, g
  <2>6. CountOf(g, Locals, a) = CountOf(f, Locals, a) + CountIn(t, a)
    BY ONLY <1>2, <2>1, <2>2, <2>3, <2>4, <2>5, CountEntered, Z3T(40)
  <2> QED
    BY <2>6 DEF f, g, LocalCount
<1> QED
  BY <1>6, <1>8, <1>9 DEF t

\* The variables a frame is entered with.
LEMMA TuplesAre == ASSUME NEW n \in Nat, NEW s \in Tuples(n) PROVE s \in Seq(Locals)
<1>1. PICK k \in 0 .. n : s \in [1 .. k -> Locals]
  BY DEF Tuples
<1> QED
  BY <1>1

\* run_from keeps the invariant: the fields of the frame move to the variables
\* it is entered with, and the frame is freed.
LEMMA KeepsReenterFrame == ASSUME IInv, NEW s \in Seq(Locals), ReenterFrame(s) PROVE IInv'
<1>1. TypeInv /\ PinInv /\ SortInv /\ ShapeInv /\ TokenInv
  BY DEF IInv
<1>2. PICK d : d = TopFrame.fr
  OBVIOUS
<1>3. /\ Suspendable /\ ks # << >> /\ block[d].tag = "frame" /\ TopFrame.pins = << >>
      /\ Entered(d, s)
      /\ KsPop /\ BlockFree(d) /\ block' = [block EXCEPT ![d] = Dead]
      /\ UNCHANGED <<hs, work, token, chain, budget>>
  BY <1>2 DEF ReenterFrame, Mirrors
<1>4. d \in Addr /\ Len(ks) \in 1 .. Len(ks)
  BY <1>1, <1>2, <1>3, KsPopped
<1>5. ~IsMirror(d) /\ block[d].self = 0 /\ token.shell # d
  <2>1. \A k \in 1 .. Len(ks) : ks[k].fr = d => k = Len(ks)
    BY <1>2, <1>4, TopAlone DEF TopFrame
  <2>2. ~IsMirror(d)
    BY <1>3, <2>1 DEF IsMirror, TopFrame
  <2>3. block[d].self = 0
    BY <1>1, <1>3, <1>4 DEF ShapeInv, Shaped
  <2>4. token.shell # d
    BY <1>1, <1>3, <1>4, HeapAssumption DEF TokenInv
  <2> QED
    BY <2>2, <2>3, <2>4
<1>6. HeldBy(d) = block[d].fields
  BY <1>1, <1>4, <1>5, HeldAll
<1>7. /\ local' \in [Locals -> AN]
      /\ \A x \in Locals : local'[x] = local[x]
           \/ (x \in Own /\ \E i \in 1 .. Len(block[d].fields) : local'[x] = block[d].fields[i])
      /\ \A a \in Addr : LocalCount(a)' = LocalCount(a) + CountIn(HeldBy(d), a)
  BY <1>1, <1>3, <1>4, <1>6, EnteredIs
<1>8. \A i \in 1 .. Len(block[d].fields) : IsValue(block, block[d].fields[i])
  BY <1>1, <1>3, <1>4, <1>5 DEF SortInv, Released
<1>9. \A x \in Locals : local'[x] = local[x] \/ (x \in Own /\ IsValue(block, local'[x]))
  <2> TAKE x \in Locals
  <2>1. CASE local'[x] = local[x]
    BY <2>1
  <2>2. CASE local'[x] # local[x]
    <3>1. x \in Own
      BY <1>7, <2>2
    <3>2. PICK i \in 1 .. Len(block[d].fields) : local'[x] = block[d].fields[i]
      BY <1>7, <2>2
    <3>3. IsValue(block, local'[x])
      BY <1>8, <3>2
    <3> QED
      BY <3>1, <3>3
  <2> QED
    BY <2>1, <2>2
<1> QED
  BY <1>2, <1>3, <1>7, <1>9, PopFree

\* Counts stay right when references are made to values.
LEMMA AddGood ==
  ASSUME NEW bs, NEW n, Good(bs, n), NEW s \in Seq(AN),
         \A i \in 1 .. Len(s) : s[i] = Nil \/ bs[s[i]].tag \in ValueTags
  PROVE  \E m \in [Addr -> Nat] :
           /\ \A a \in Addr : m[a] = n[a] + CountIn(s, a)
           /\ Good(Duped(bs, s), m) /\ SameShapes(Duped(bs, s), bs)
           /\ DyingIn(bs) = {} => DyingIn(Duped(bs, s)) = {}
<1> DEFINE m == [a \in Addr |-> n[a] + CountIn(s, a)]
<1>1. /\ Good(Duped(bs, s), m) /\ SameShapes(Duped(bs, s), bs)
      /\ DyingIn(bs) = {} => DyingIn(Duped(bs, s)) = {}
  BY DupGood
<1>2. \A a \in Addr : m[a] = n[a] + CountIn(s, a)
  OBVIOUS
<1>3. m \in [Addr -> Nat]
  BY <1>1, GoodTyped
<1> HIDE DEF m
<1> QED
  BY <1>1, <1>2, <1>3

\* A block that nothing is added to or taken from stays as it is.
LEMMA Untouched ==
  ASSUME NEW bs, NEW n, Good(bs, n), NEW s \in Seq(AN), \A a \in Addr : CountIn(s, a) <= n[a],
         NEW d \in Addr, CountIn(s, d) = 0
  PROVE  Dropped(bs, s)[d] = bs[d]
<1>1. bs \in [Addr -> Block] /\ \A a \in Addr : \E k \in Nat : Exact(bs[a].rc, k) /\ CountIn(s, a) <= k
  BY DEF Good
<1> QED
  BY ONLY <1>1, s \in Seq(AN), d \in Addr, CountIn(s, d) = 0, DroppedIs

\* A block no new reference names is untouched.
LEMMA UntouchedByDup ==
  ASSUME NEW bs, NEW n, Good(bs, n), NEW s \in Seq(AN), NEW d \in Addr, CountIn(s, d) = 0
  PROVE  Duped(bs, s)[d] = bs[d]
<1>1. bs \in [Addr -> Block] /\ bs[d].rc <= RcStatic
  BY DEF Good, Shaped
<1> QED
  BY ONLY <1>1, s \in Seq(AN), d \in Addr, CountIn(s, d) = 0, DupedIs

----------------------------------------------------------------------------
(* A handler frame answers.                                                *)

\* The handler frame on top of the frame stack has the top entry of the
\* handler stack.
LEMMA HandlerTop ==
  ASSUME TypeInv, HandlerInv, ks # << >>, block[TopFrame.fr].tag = "handler"
  PROVE  hs # << >> /\ hs[Len(hs)].hf = TopFrame.fr
<1>1. Len(ks) \in 1 .. Len(ks) /\ Len(hs) \in Nat /\ Len(ks) \in Nat
  <2>1. ks \in Seq([fr : Addr, pins : Seq(Locals)]) /\ hs \in Seq([clause : AN, hf : Addr])
    BY DEF TypeInv
  <2>2. Len(ks) # 0
    BY <2>1, EmptySeq
  <2> QED
    BY <2>1, <2>2
<1>2. PICK i \in 1 .. Len(hs) : hs[i].hf = TopFrame.fr
  BY <1>1 DEF HandlerInv, TopFrame
<1>3. hs # << >> /\ Len(hs) \in 1 .. Len(hs)
  BY <1>1, <1>2
<1>4. PICK p \in 1 .. Len(ks) : hs[Len(hs)].hf = ks[p].fr
  BY <1>3 DEF HandlerInv
<1>5. i < Len(hs) <=> Len(ks) < p
  BY <1>1, <1>2, <1>3, <1>4 DEF HandlerInv, TopFrame
<1>6. i = Len(hs)
  BY <1>1, <1>5
<1> QED
  BY <1>2, <1>3, <1>6

\* A handler leaves both stacks.
LEMMA PopBoth ==
  ASSUME IInv, ks # << >>, KsPop, hs' = SubSeq(hs, 1, Len(hs) - 1), SameShapes(block', block),
         block[TopFrame.fr].tag = "handler"
  PROVE  HandlerInv'
<1>1. TypeInv /\ HandlerInv
  BY DEF IInv
<1>2. hs # << >> /\ hs[Len(hs)].hf = TopFrame.fr
  BY <1>1, HandlerTop
<1>3. /\ Len(ks') = Len(ks) - 1 /\ Len(ks) \in 1 .. Len(ks) /\ \A i \in 1 .. Len(ks) - 1 : ks'[i] = ks[i]
      /\ Len(hs') = Len(hs) - 1 /\ Len(hs) \in 1 .. Len(hs) /\ \A i \in 1 .. Len(hs) - 1 : hs'[i] = hs[i]
  BY <1>1, <1>2, KsPopped, HsPop
<1>4. Len(ks) \in Nat /\ Len(hs) \in Nat
  BY <1>3
<1>5. \A i \in 1 .. Len(ks') : i \in 1 .. Len(ks) /\ i # Len(ks) /\ ks'[i] = ks[i]
  BY <1>3, <1>4
<1>6. \A i \in 1 .. Len(hs') : i \in 1 .. Len(hs) /\ i < Len(hs) /\ hs'[i] = hs[i]
  BY <1>3, <1>4
<1>7. \A i \in 1 .. Len(ks) : ks[i].fr \in Addr /\ block'[ks[i].fr].tag = block[ks[i].fr].tag
  BY TopAlone DEF SameShapes, SameShape
<1>8. \A p \in 1 .. Len(ks) : hs[Len(hs)].hf = ks[p].fr => p = Len(ks)
  BY <1>2, <1>3, TopAlone DEF TopFrame
<1>9. /\ \A p \in 1 .. Len(ks) : block[ks[p].fr].tag = "handler" => \E i \in 1 .. Len(hs) : hs[i].hf = ks[p].fr
      /\ \A i \in 1 .. Len(hs) : \E p \in 1 .. Len(ks) : hs[i].hf = ks[p].fr /\ block[ks[p].fr].tag = "handler"
      /\ \A i, j \in 1 .. Len(hs) : \A p, q \in 1 .. Len(ks) :
            hs[i].hf = ks[p].fr /\ hs[j].hf = ks[q].fr => (i < j <=> p < q)
  BY <1>1 DEF HandlerInv
<1>10. \A p \in 1 .. Len(ks') : block'[ks'[p].fr].tag = "handler" => \E i \in 1 .. Len(hs') : hs'[i].hf = ks'[p].fr
  <2> TAKE p \in 1 .. Len(ks')
  <2> HAVE block'[ks'[p].fr].tag = "handler"
  <2>1. p \in 1 .. Len(ks) /\ p # Len(ks) /\ ks'[p] = ks[p] /\ block[ks[p].fr].tag = "handler"
    BY <1>5, <1>7
  <2>2. PICK i \in 1 .. Len(hs) : hs[i].hf = ks[p].fr
    BY <1>9, <2>1
  <2>3. i # Len(hs)
    BY <1>8, <2>1, <2>2
  <2>4. i \in 1 .. Len(hs') /\ hs'[i].hf = ks'[p].fr
    BY <1>3, <1>4, <1>6, <2>1, <2>2, <2>3
  <2> QED
    BY <2>4
<1>11. \A i \in 1 .. Len(hs') : \E p \in 1 .. Len(ks') : hs'[i].hf = ks'[p].fr /\ block'[ks'[p].fr].tag = "handler"
  <2> TAKE i \in 1 .. Len(hs')
  <2>1. i \in 1 .. Len(hs) /\ i < Len(hs) /\ hs'[i] = hs[i]
    BY <1>6
  <2>2. PICK p \in 1 .. Len(ks) : hs[i].hf = ks[p].fr /\ block[ks[p].fr].tag = "handler"
    BY <1>9, <2>1
  <2>3. p < Len(ks)
    <3>1. hs[Len(hs)].hf = ks[Len(ks)].fr /\ Len(hs) \in 1 .. Len(hs) /\ Len(ks) \in 1 .. Len(ks)
      BY <1>2, <1>3 DEF TopFrame
    <3> QED
      BY <1>9, <2>1, <2>2, <3>1
  <2>4. p \in 1 .. Len(ks')
    BY <1>3, <1>4, <2>3
  <2>5. hs'[i].hf = ks'[p].fr /\ block'[ks'[p].fr].tag = "handler"
    BY <1>5, <1>7, <2>1, <2>2, <2>4
  <2> QED
    BY <2>4, <2>5
<1>12. \A i, j \in 1 .. Len(hs') : \A p, q \in 1 .. Len(ks') :
            hs'[i].hf = ks'[p].fr /\ hs'[j].hf = ks'[q].fr => (i < j <=> p < q)
  <2> TAKE i, j \in 1 .. Len(hs')
  <2> TAKE p, q \in 1 .. Len(ks')
  <2>1. /\ i \in 1 .. Len(hs) /\ j \in 1 .. Len(hs) /\ hs'[i] = hs[i] /\ hs'[j] = hs[j]
        /\ p \in 1 .. Len(ks) /\ q \in 1 .. Len(ks) /\ ks'[p] = ks[p] /\ ks'[q] = ks[q]
    BY <1>5, <1>6
  <2>2. hs[i].hf = ks[p].fr /\ hs[j].hf = ks[q].fr => (i < j <=> p < q)
    BY <1>9, <2>1
  <2> QED
    BY ONLY <2>1, <2>2
<1> QED
  BY <1>10, <1>11, <1>12 DEF HandlerInv

\* A frame that mirrored nothing leaves no mirror behind.
LEMMA MirrorPop ==
  ASSUME TypeInv, ks # << >>, KsPop, TopFrame.pins = << >>, NEW c
  PROVE  IsMirror(c)' <=> IsMirror(c)
<1>1. /\ Len(ks') = Len(ks) - 1 /\ Len(ks) \in 1 .. Len(ks) /\ \A i \in 1 .. Len(ks) - 1 : ks'[i] = ks[i]
  BY KsPopped
<1>2. ASSUME IsMirror(c) PROVE IsMirror(c)'
  <2>1. PICK k \in 1 .. Len(ks) : ks[k].fr = c /\ ks[k].pins # << >>
    BY <1>2 DEF IsMirror
  <2>2. k # Len(ks)
    BY <2>1 DEF TopFrame
  <2>3. k \in 1 .. Len(ks') /\ ks'[k] = ks[k]
    BY <1>1, <2>2
  <2> QED
    BY <2>1, <2>3 DEF IsMirror
<1>3. ASSUME IsMirror(c)' PROVE IsMirror(c)
  <2>1. PICK k \in 1 .. Len(ks') : ks'[k].fr = c /\ ks'[k].pins # << >>
    BY <1>3 DEF IsMirror
  <2>2. k \in 1 .. Len(ks) /\ ks'[k] = ks[k]
    BY <1>1
  <2> QED
    BY <2>1, <2>2 DEF IsMirror
<1> QED
  BY <1>2, <1>3

\* The slots of a handler frame are owned.
LEMMA HandlerOwns ==
  ASSUME IInv, NEW f \in Addr, block[f].tag = "handler", NEW i \in 1 .. 2
  PROVE  /\ Len(block[f].fields) = 2 /\ block[f].fields[i] \in AN /\ IsValue(block, block[f].fields[i])
         /\ ~IsMirror(f) /\ block[f].self = 0 /\ token.shell # f
         /\ block[f].fields[i] # Nil => HeldCount(block[f].fields[i]) > 0
<1>1. TypeInv /\ ShapeInv /\ PinInv /\ SortInv /\ TokenInv
  BY DEF IInv
<1>2. Len(block[f].fields) = 2 /\ block[f].self = 0 /\ block[f].fields \in Seq(AN)
  BY <1>1, HeldTyped DEF ShapeInv, Shaped
<1>3. ~IsMirror(f) /\ token.shell # f
  BY <1>1, MirrorIs, HeapAssumption DEF TokenInv
<1>4. HeldBy(f) = block[f].fields
  BY <1>1, <1>2, <1>3, HeldAll
<1>5. block[f].fields[i] \in AN /\ IsValue(block, block[f].fields[i])
  <2>1. i \in 1 .. Len(block[f].fields)
    BY <1>2
  <2> QED
    BY <1>1, <1>2, <1>3, <2>1 DEF SortInv, Released
<1>6. ASSUME block[f].fields[i] # Nil PROVE HeldCount(block[f].fields[i]) > 0
  <2>1. PICK v : v = block[f].fields[i]
    OBVIOUS
  <2>2. v \in Addr
    BY <1>5, <1>6, <2>1 DEF AN
  <2>3. CountIn(HeldBy(f), v) # 0
    BY <1>2, <1>4, <2>1, CountInIs
  <2>4. CountIn(HeldBy(f), v) \in Nat /\ CountIn(HeldBy(f), v) <= HeldCount(v) /\ HeldCount(v) \in Nat
    BY <1>1, <2>2, CountsTyped
  <2> QED
    BY <2>1, <2>3, <2>4
<1> QED
  BY <1>2, <1>3, <1>5, <1>6

\* jq_dispatch on a value keeps the invariant: the handler's entry goes, its
\* return clause gets a reference for the call, its frame is dropped.
LEMMA KeepsDispatchValue == ASSUME IInv, NEW y \in Locals, DispatchValue(y) PROVE IInv'
<1> PICK f : f = TopFrame.fr
  OBVIOUS
<1> PICK c : c = hs[Len(hs)].clause
  OBVIOUS
<1> PICK v : v = block[f].fields[1]
  OBVIOUS
<1>0. PICK sc, sv, sf : sc = <<c>> /\ sv = <<v>> /\ sf = <<f>>
  OBVIOUS
<1>1. TypeInv /\ TokenInv /\ SortInv /\ CountInv /\ ShapeInv /\ ChainInv /\ PinInv /\ HandlerInv /\ PoolInv /\ AllCounted
  BY CountsAre DEF IInv
<1>2. /\ work = {} /\ chain = NoChain /\ ~token.on /\ token.shell = Nil
      /\ ks # << >> /\ block[f].tag = "handler" /\ y \in Own /\ local[y] = Nil
      /\ block' = Dropped(Duped(Dropped(block, sc), sv), sf)
      /\ work' = Zeroed(block, sc) \cup Zeroed(block, sf)
      /\ local' = [local EXCEPT ![y] = v]
      /\ KsPop /\ hs' = SubSeq(hs, 1, Len(hs) - 1)
      /\ UNCHANGED <<pool, token, chain, budget>>
  BY <1>0, <1>1 DEF DispatchValue, Suspendable, Running, TokenInv, Vacant
<1>3. /\ ks' \in Seq([fr : Addr, pins : Seq(Locals)]) /\ Len(ks') = Len(ks) - 1
      /\ Len(ks) \in 1 .. Len(ks) /\ f \in Addr
      /\ \A i \in 1 .. Len(ks) - 1 : ks'[i] = ks[i]
      /\ \A a \in Addr : FramedCount(a)' = FramedCount(a) - OneIf(f = a)
  BY <1>1, <1>2, KsPopped
<1>4. /\ hs # << >> /\ hs' \in Seq([clause : AN, hf : Addr]) /\ Len(hs') = Len(hs) - 1
      /\ Len(hs) \in 1 .. Len(hs) /\ c \in AN
      /\ \A i \in 1 .. Len(hs) - 1 : hs'[i] = hs[i]
      /\ \A a \in Addr : ClauseCount(a)' = ClauseCount(a) - OneIf(c = a)
  <2>1. hs # << >>
    BY <1>1, <1>2, HandlerTop
  <2> QED
    BY <1>1, <1>2, <2>1, HsPop
<1>5. Total(f) = 1 /\ TopFrame.pins = << >>
  <2>1. Total(f) = 1
    BY <1>3, TopAlone DEF TopFrame, Alone
  <2>2. TopFrame.pins # << >> => block[f].tag = "frame"
    BY <1>1, <1>3 DEF PinInv, TopFrame
  <2> QED
    BY <1>2, <2>1, <2>2
<1>6. /\ v \in AN /\ IsValue(block, v) /\ block[f].self = 0
      /\ v # Nil => HeldCount(v) > 0
  BY <1>2, <1>3, HandlerOwns
<1>7. IsValue(block, c) /\ (c # Nil => ClauseCount(c) > 0)
  <2>1. IsValue(block, c)
    BY <1>1, <1>4 DEF SortInv
  <2>2. c # Nil => c \in Addr
    BY <1>4 DEF AN
  <2>3. c # Nil => ClauseCount(c) \in Nat /\ ClauseCount(c) # 0
    BY <1>1, <1>4, <2>2, CountsTyped
  <2> QED
    BY <2>1, <2>3
<1>8. c # f /\ v # f /\ f # Nil
  <2>1. block[f].tag = "handler" /\ f # Nil
    BY <1>2, <1>3, HeapAssumption
  <2>2. ASSUME NEW w, IsValue(block, w), w # Nil PROVE w # f
    BY <2>1, <2>2 DEF IsValue, ValueTags
  <2> QED
    BY <1>6, <1>7, <2>1, <2>2
<1>9. /\ c # Nil => c \in Addr /\ Total(c) \in Nat /\ Total(c) >= 1
      /\ v # Nil => v \in Addr /\ Total(v) \in Nat /\ Total(v) >= 1 + OneIf(c = v)
  <2>1. ASSUME c # Nil PROVE c \in Addr /\ Total(c) \in Nat /\ Total(c) >= 1
    <3>1. c \in Addr
      BY <1>4, <2>1 DEF AN
    <3>2. CountsNow(c) /\ ClauseCount(c) > 0
      BY <1>1, <1>7, <2>1, <3>1 DEF AllCounted
    <3>3. ClauseCount(c) <= Total(c)
      BY <3>2, PartsOfTotal
    <3>4. ClauseCount(c) \in Nat /\ Total(c) \in Nat
      BY <3>2 DEF CountsNow
    <3> QED
      BY <3>1, <3>2, <3>3, <3>4
  <2>2. ASSUME v # Nil PROVE v \in Addr /\ Total(v) \in Nat /\ Total(v) >= 1 + OneIf(c = v)
    <3>1. v \in Addr
      BY <1>6, <2>2 DEF AN
    <3>2. CountsNow(v) /\ HeldCount(v) > 0
      BY <1>1, <1>6, <2>2, <3>1 DEF AllCounted
    <3>3. c = v => ClauseCount(v) > 0
      BY <1>7, <2>2
    <3>4. Total(v) >= 1 + OneIf(c = v)
      <4>1. CASE c = v
        <5>1. OneIf(c = v) = 1 /\ ClauseCount(v) > 0
          BY <3>3, <4>1 DEF OneIf
        <5> QED
          BY ONLY <3>2, <5>1 DEF CountsNow
      <4>2. CASE c # v
        <5>1. OneIf(c = v) = 0
          BY <4>2 DEF OneIf
        <5> QED
          BY ONLY <3>2, <5>1 DEF CountsNow
      <4> QED
        BY <4>1, <4>2
    <3> QED
      BY <3>1, <3>2, <3>4 DEF CountsNow
  <2> QED
    BY <2>1, <2>2
<1> PICK b1 : b1 = Dropped(block, sc)
  OBVIOUS
<1> PICK b2 : b2 = Duped(b1, sv)
  OBVIOUS
<1>10. PICK m1 \in [Addr -> Nat] :
           /\ \A a \in Addr : m1[a] = Total(a) - OneIf(c = a)
           /\ Good(b1, m1) /\ SameShapes(b1, block)
           /\ DyingIn(b1) = work \cup Zeroed(block, sc)
           /\ Zeroed(block, sc) \in SUBSET Addr
  <2>1. c \in AN /\ (c # Nil => Total(c) # 0)
    BY <1>4, <1>9
  <2> QED
    <3>1. \E m1 \in [Addr -> Nat] :
           /\ \A a \in Addr : m1[a] = Total(a) - OneIf(c = a)
           /\ Good(Dropped(block, <<c>>), m1) /\ SameShapes(Dropped(block, <<c>>), block)
           /\ DyingIn(Dropped(block, <<c>>)) = work \cup Zeroed(block, <<c>>)
           /\ Zeroed(block, <<c>>) \in SUBSET Addr
      BY <2>1, DropOne
    <3> QED
      BY <1>0, <3>1
<1>11. sv \in Seq(AN) /\ sf \in Seq(AN) /\ sc \in Seq(AN)
       /\ \A a : CountIn(sv, a) = OneIf(v = a) /\ CountIn(sf, a) = OneIf(f = a) /\ CountIn(sc, a) = OneIf(c = a)
  BY <1>0, <1>3, <1>4, <1>6, CountInSingle DEF AN
<1>12. \A i \in 1 .. Len(sv) : sv[i] = Nil \/ b1[sv[i]].tag \in ValueTags
  <2>1. v # Nil => v \in Addr /\ block[v].tag \in ValueTags
    BY <1>6, <1>9 DEF IsValue
  <2>2. v # Nil => b1[v].tag = block[v].tag
    BY <1>10, <2>1 DEF SameShapes, SameShape
  <2> QED
    BY <1>0, <2>1, <2>2
<1>13. PICK m2 \in [Addr -> Nat] :
           /\ \A a \in Addr : m2[a] = m1[a] + CountIn(sv, a)
           /\ Good(b2, m2) /\ SameShapes(b2, b1)
  <2>1. Good(b1, m1) /\ sv \in Seq(AN)
    BY <1>10, <1>11
  <2>2. \E m2 \in [Addr -> Nat] :
           /\ \A a \in Addr : m2[a] = m1[a] + CountIn(sv, a)
           /\ Good(Duped(b1, sv), m2) /\ SameShapes(Duped(b1, sv), b1)
    BY ONLY <1>12, <2>1, AddGood, Z3T(30)
  <2> QED
    BY <2>2
<1>14. DyingIn(b2) = DyingIn(b1)
  <2>1. Good(b1, m1) /\ sv \in Seq(AN)
    BY <1>10, <1>11
  <2>2. \A a \in DyingIn(b1) : CountIn(sv, a) = 0
    <3> TAKE a \in DyingIn(b1)
    <3>1. a \in Addr /\ b1[a].rc = 0 /\ a # Nil
      BY HeapAssumption DEF DyingIn
    <3>2. Exact(b1[a].rc, m1[a])
      BY <2>1, <3>1 DEF Good
    <3>3. m1[a] = 0 /\ m1[a] = Total(a) - OneIf(c = a)
      BY <1>10, <3>1, <3>2, RcStaticIs DEF Exact
    <3>4. v # a
      BY <1>9, <3>1, <3>3 DEF OneIf
    <3> QED
      BY <1>11, <3>4 DEF OneIf
  <2> QED
    BY <2>1, <2>2, DupDying
<1>15. \A a \in Addr : CountIn(sf, a) <= m2[a]
  <2> TAKE a \in Addr
  <2>1. m2[a] \in Nat /\ CountIn(sf, a) = OneIf(f = a)
    BY <1>11
  <2>2. m2[f] = 1
    <3>1. m2[f] = m1[f] + OneIf(v = f) /\ m1[f] = Total(f) - OneIf(c = f)
      BY <1>3, <1>10, <1>11, <1>13
    <3> QED
      BY <1>5, <1>8, <3>1 DEF OneIf
  <2> QED
    BY <2>1, <2>2 DEF OneIf
<1>16. PICK m \in [Addr -> Nat] :
           /\ \A a \in Addr : m[a] = m2[a] - CountIn(sf, a)
           /\ Good(Dropped(b2, sf), m) /\ SameShapes(Dropped(b2, sf), b2)
           /\ DyingIn(Dropped(b2, sf)) = DyingIn(b2) \cup Zeroed(b2, sf)
           /\ Zeroed(b2, sf) \in SUBSET Addr
  <2>1. Good(b2, m2) /\ sf \in Seq(AN)
    BY <1>11, <1>13
  <2> QED
    <3>1. AtMost(sf, m2)
      BY <1>15 DEF AtMost
    <3>2. \E m \in [Addr -> Nat] : CutTo(b2, m2, sf, m)
      BY ONLY <2>1, <3>1, CutGood
    <3> QED
      BY <3>2 DEF CutTo
<1>17. block' = Dropped(b2, sf)
  BY <1>2
<1>18. SameShapes(block', block)
  <2>1. \A a \in Addr : SameShape(block'[a], b2[a]) /\ SameShape(b2[a], b1[a]) /\ SameShape(b1[a], block[a])
    BY <1>10, <1>13, <1>16, <1>17 DEF SameShapes
  <2> QED
    BY <2>1 DEF SameShapes, SameShape
<1>19. b2[f] = block[f]
  <2>1. CountIn(sc, f) = 0 /\ CountIn(sv, f) = 0
    BY <1>8, <1>11 DEF OneIf
  <2>2. b1[f] = block[f]
    <3>1. \A a \in Addr : CountIn(sc, a) <= CountFn[a]
      <4> TAKE a \in Addr
      <4>1. CountFn[a] = Total(a) /\ Total(a) \in Nat /\ a # Nil
        BY <1>1, IsGood, HeapAssumption DEF AllCounted, CountsNow
      <4> QED
        BY <1>9, <1>11, <4>1 DEF OneIf
    <3>2. Good(block, CountFn)
      BY IsGood
    <3> QED
      <4>1. Good(block, CountFn) /\ f \in Addr /\ sc \in Seq(AN) /\ CountIn(sc, f) = 0
        BY <1>3, <1>11, <2>1, <3>2
      <4>2. Dropped(block, sc)[f] = block[f]
        BY ONLY <3>1, <4>1, Untouched
      <4> QED
        BY <4>2
  <2>3. b2[f] = b1[f]
    <3>1. Good(b1, m1)
      BY <1>10
    <3> QED
      BY <1>3, <1>11, <2>1, <3>1, UntouchedByDup
  <2> QED
    BY <2>2, <2>3
<1>20. Zeroed(b2, sf) = Zeroed(block, sf)
  <2>1. Range(sf) = {f}
    BY <1>0 DEF Range
  <2> QED
    BY <1>19, <2>1 DEF Zeroed
<1>21. work' = DyingIn(block') /\ work' \in SUBSET Addr /\ Good(block', m)
  BY <1>2, <1>10, <1>14, <1>16, <1>17, <1>20
<1>22. local' \in [Locals -> AN] /\ local'[y] = v /\ \A z \in Locals : z # y => local'[z] = local[z]
  BY <1>1, <1>2, <1>6 DEF TypeInv
<1>23. TypeInv'
  BY <1>1, <1>2, <1>3, <1>4, <1>21, <1>22, GoodTyped DEF TypeInv, pool
<1>24. \A b \in Addr : \A i \in 1 .. Len(block[b].fields) : Released(b, i) <=> Released(b, i)'
  BY <1>2 DEF Released
<1>25. \A a \in Addr : Total(a)' = m[a]
  <2> TAKE a \in Addr
  <2>1. \A b \in Addr : HeldAlike(b)
    <3> TAKE b \in Addr
    <3>1. IsMirror(b)' <=> IsMirror(b)
      BY <1>1, <1>2, <1>5, MirrorPop
    <3> QED
      BY <1>18, <1>24, <3>1 DEF HeldAlike, SameShapes, SameShape
  <2>2. HeldCount(a)' = HeldCount(a)
    BY <2>1, HeldSame
  <2>3. LocalCount(a)' = LocalCount(a) + OneIf(v = a)
    <3>1. LocalCount(a)' = LocalCount(a) - OneIf(local[y] = a) + OneIf(local'[y] = a)
      BY <1>2, <1>22, LocalSet DEF Own
    <3>2. LocalCount(a) \in Nat /\ Nil # a
      BY <1>1, CountsTyped, HeapAssumption
    <3> QED
      BY <1>2, <1>22, <3>1, <3>2 DEF OneIf
  <2>4. ShellCount(a)' = ShellCount(a) /\ MadeCount(a)' = MadeCount(a)
    BY <1>2 DEF ShellCount, MadeCount
  <2>5. CountsNow(a) /\ CountsNow(a)'
    BY <1>1, <1>23, CountsArePrime DEF AllCounted
  <2>6. /\ ClauseCount(a)' = ClauseCount(a) - OneIf(c = a) /\ FramedCount(a)' = FramedCount(a) - OneIf(f = a)
        /\ OneIf(c = a) \in Nat /\ OneIf(f = a) \in Nat /\ OneIf(v = a) \in Nat
    BY <1>3, <1>4 DEF OneIf
  <2>7. Total(a)' = Total(a) - OneIf(c = a) + OneIf(v = a) - OneIf(f = a)
    BY ONLY <2>2, <2>3, <2>4, <2>5, <2>6 DEF CountsNow
  <2>8. m[a] = m2[a] - OneIf(f = a) /\ m2[a] = m1[a] + OneIf(v = a) /\ m1[a] = Total(a) - OneIf(c = a)
    BY <1>10, <1>11, <1>13, <1>16
  <2>9. Total(a) \in Nat
    BY <2>5 DEF CountsNow
  <2> QED
    BY ONLY <2>6, <2>7, <2>8, <2>9
<1>26. ShapeInv' /\ CountInv'
  BY <1>21, <1>25, GoodIsCounted
<1>27. PoolInv'
  BY <1>1, <1>2, <1>18, PoolSame
<1>28. HandlerInv'
  <2>1. block[TopFrame.fr].tag = "handler"
    BY <1>2
  <2> QED
    BY <1>2, <1>18, <2>1, PopBoth
<1>29. PinInv'
  <2>1. ShapesBut(block', block, TopFrame.fr)
    BY <1>18 DEF ShapesBut, SameShapes
  <2>2. \A x \in Locals : local'[x] = local[x] \/ x \in Own
    BY <1>2, <1>22
  <2> QED
    BY <1>2, <2>1, <2>2, PopPins
<1>30. SortInv'
  <2>1. \A x \in Locals : IsValue(block, local'[x])
    BY <1>1, <1>6, <1>22 DEF SortInv
  <2>2. \A i \in 1 .. Len(hs') : IsValue(block, hs'[i].clause)
    <3> TAKE i \in 1 .. Len(hs')
    <3>1. i \in 1 .. Len(hs) /\ hs'[i] = hs[i]
      BY <1>4
    <3> QED
      BY <1>1, <3>1 DEF SortInv
  <2>3. \A i \in 1 .. Len(ks') : IsFrame(block, ks'[i].fr)
    <3> TAKE i \in 1 .. Len(ks')
    <3>1. i \in 1 .. Len(ks) /\ ks'[i] = ks[i]
      BY <1>3, SMTT(40)
    <3> QED
      BY <1>1, <3>1 DEF SortInv
  <2>4. \A i \in 1 .. Len(chain'.made) : IsFrame(block, chain'.made[i])
    BY <1>1, <1>2 DEF SortInv
  <2> QED
    BY <1>1, <1>18, <1>23, <1>24, <2>1, <2>2, <2>3, <2>4, SortCalm
<1>31. TokenInv' /\ ChainInv'
  BY <1>2 DEF TokenInv, ChainInv, NoChain
<1> QED
  BY <1>23, <1>26, <1>27, <1>28, <1>29, <1>30, <1>31 DEF IInv

----------------------------------------------------------------------------
(* Blocks that are allocated.                                              *)

\* A block with one new entry.
Grown(cs, bs, d, b) == cs = [bs EXCEPT ![d] = b]

\* A block comes, with one owner: the counts are right with it.
LEMMA GrownGood ==
  ASSUME NEW bs, NEW n, Good(bs, n), NEW d \in Addr, bs[d] = Dead, NEW b \in Block,
         Shaped(b, d), b.rc = 1, b.tag # "none", NEW cs, Grown(cs, bs, d, b)
  PROVE  \E m \in [Addr -> Nat] :
           /\ n[d] = 0 /\ m[d] = 1 /\ \A a \in Addr : a # d => m[a] = n[a]
           /\ Good(cs, m) /\ DyingIn(cs) = DyingIn(bs)
           /\ cs[d] = b /\ \A a \in Addr : a # d => cs[a] = bs[a]
<1> DEFINE m == [n EXCEPT ![d] = 1]
<1>0. cs = [bs EXCEPT ![d] = b]
  BY DEF Grown
<1>1. n[d] = 0 /\ Good(cs, m) /\ DyingIn(cs) = DyingIn(bs)
  BY <1>0, NewGood
<1>2. bs \in [Addr -> Block] /\ n \in [Addr -> Nat]
  BY GoodTyped
<1>3. m[d] = 1 /\ \A a \in Addr : a # d => m[a] = n[a]
  BY <1>2
<1>4. cs[d] = b /\ \A a \in Addr : a # d => cs[a] = bs[a]
  BY <1>0, <1>2
<1>5. m \in [Addr -> Nat]
  BY <1>2
<1> HIDE DEF m
<1> QED
  BY <1>1, <1>3, <1>4, <1>5

\* What jq_alloc_block makes.
LEMMA NewBlockIs ==
  ASSUME NEW tag \in Tags, NEW fields \in Seq(AN), NEW self \in Nat, NEW b, b = NewBlock(tag, fields, self)
  PROVE  /\ b \in Block /\ b.tag = tag /\ b.rc = 1 /\ b.fields = fields /\ b.self = self /\ b.tag # "none"
         /\ SizeOf(b) = Words(tag, Len(fields)) /\ b.pooled = Small(Words(tag, Len(fields)))
         /\ Words(tag, Len(fields)) \in Nat
<1>1. HeaderWords[tag] \in Nat /\ Len(fields) \in Nat /\ tag # "none"
  BY DEF HeaderWords, Tags
<1>2. Small(Words(tag, Len(fields))) \in BOOLEAN
  BY DEF Small
<1>3. b = [tag |-> tag, rc |-> 1, fields |-> fields, self |-> self, pooled |-> Small(Words(tag, Len(fields)))]
  BY DEF NewBlock
<1>4. b \in Block
  BY <1>2, <1>3 DEF Block
<1> QED
  BY <1>1, <1>3, <1>4 DEF SizeOf, Words

\* Nobody knows the address of a dead block.
LEMMA DeadUnowned ==
  ASSUME IInv, NEW d \in Addr, block[d] = Dead
  PROVE  /\ Unowned(d) /\ Total(d) = 0 /\ ~IsMirror(d) /\ HeldBy(d) = << >> /\ \A i : ~Released(d, i)
         /\ \A a \in Addr : CountIn(HeldBy(d), a) = 0
<1>1. TypeInv /\ CountInv /\ AllCounted
  BY CountsAre DEF IInv
<1>2. block[d].rc = 0 /\ Len(block[d].fields) = 0
  BY DeadIs
<1>3. Total(d) = 0
  BY <1>1, <1>2, RcStaticIs DEF CountInv, Exact
<1>4. Unowned(d)
  BY <1>1, <1>3, NobodyOwns
<1>5. ~IsMirror(d) /\ \A i : ~Released(d, i)
  BY <1>4 DEF Unowned, IsMirror, Released
<1>6. HeldBy(d) = << >>
  BY <1>2 DEF HeldBy
<1> QED
  BY <1>3, <1>4, <1>5, <1>6, CountInEmpty

\* Values and frames stay what they are.
LEMMA SortsKept ==
  ASSUME NEW d \in Addr, block[d] = Dead, ShapesBut(block', block, d), NEW v \in AN
  PROVE  (IsValue(block, v) => IsValue(block', v)) /\ (IsFrame(block, v) => IsFrame(block', v))
<1>1. block[d].tag \notin ValueTags /\ block[d].tag \notin FrameTags
  BY DeadIs DEF ValueTags, FrameTags
<1> QED
  BY <1>1 DEF IsValue, IsFrame, AN, ShapesBut, SameShape

\* Frames and values stay apart when a block comes.
LEMMA SortGrow ==
  ASSUME TypeInv, SortInv, NEW d \in Addr, block[d] = Dead, ShapesBut(block', block, d),
         \A b \in Addr : \A i \in 1 .. Len(block[b].fields) : b # d /\ Released(b, i) => Released(b, i)',
         \A x \in Locals : IsValue(block', local'[x]),
         \A i \in 1 .. Len(hs') : IsValue(block', hs'[i].clause),
         \A i \in 1 .. Len(ks') : IsFrame(block', ks'[i].fr),
         \A i \in 1 .. Len(chain'.made) : IsFrame(block', chain'.made[i]),
         \A i \in 1 .. Len(block'[d].fields) :
            IF block'[d].tag = "resume" THEN IsFrame(block', block'[d].fields[i]) ELSE IsValue(block', block'[d].fields[i])
  PROVE  SortInv'
<1>1. ASSUME NEW b \in Addr, NEW i \in 1 .. Len(block'[b].fields)
      PROVE  \/ Released(b, i)'
             \/ IF block'[b].tag = "resume" THEN IsFrame(block', block'[b].fields[i]) ELSE IsValue(block', block'[b].fields[i])
  <2>1. CASE b = d
    BY <2>1
  <2>2. CASE b # d
    <3>1. block'[b].fields = block[b].fields /\ block'[b].tag = block[b].tag
      BY <2>2 DEF ShapesBut, SameShape
    <3>2. \/ Released(b, i)
          \/ IF block[b].tag = "resume" THEN IsFrame(block, block[b].fields[i]) ELSE IsValue(block, block[b].fields[i])
      BY <3>1 DEF SortInv
    <3>3. block[b].fields[i] \in AN
      <4>1. block[b].fields \in Seq(AN)
        BY HeldTyped
      <4> QED
        BY <3>1, <4>1
    <3>4. Released(b, i) => Released(b, i)'
      BY <2>2, <3>1
    <3> QED
      BY <3>1, <3>2, <3>3, <3>4, SortsKept
  <2> QED
    BY <2>1, <2>2
<1> QED
  BY <1>1 DEF SortInv

\* The heap holds what it held, and what the new block holds.
LEMMA HeldGrown ==
  ASSUME IInv, TypeInv', NEW d \in Addr, block[d] = Dead, \A b \in Addr : b # d => HeldAlike(b), NEW a \in Addr
  PROVE  /\ HeldCount(a)' = HeldCount(a) + CountIn(HeldBy(d)', a)
         /\ HeldCount(a) \in Nat /\ CountIn(HeldBy(d)', a) \in Nat
<1>1. TypeInv
  BY DEF IInv
<1>2. HeldCount(a)' = HeldCount(a) - CountIn(HeldBy(d), a) + CountIn(HeldBy(d)', a)
  BY <1>1, HeldChanged
<1>3. CountIn(HeldBy(d), a) = 0
  BY DeadUnowned
<1>4. HeldCount(a) \in Nat
  BY <1>1, CountsTyped
<1>5. CountIn(HeldBy(d)', a) \in Nat
  <2>1. HeldBy(d)' \in Seq(AN)
    BY HeldTypedPrime
  <2> QED
    BY <2>1, CountInIs
<1> QED
  BY <1>2, <1>3, <1>4, <1>5

\* Operands move, and a new block takes their place.
MovesTo(s, y, d) == local' = [Emptied(Range(s)) EXCEPT ![y] = d]

\* Operands leave their variables and the result enters one.
LEMMA LocalMoved ==
  ASSUME TypeInv, NEW k \in Nat, NEW s \in Operands(k), NEW y \in Own, local[y] = Nil \/ y \in Range(s),
         NEW d \in Addr, MovesTo(s, y, d)
  PROVE  /\ local' \in [Locals -> AN] /\ local'[y] = d
         /\ \A x \in Locals : x # y => local'[x] = local[x] \/ (x \in Own /\ local'[x] = Nil)
         /\ \A a \in Addr : LocalCount(a)' = LocalCount(a) - CountIn(Values(s), a) + OneIf(d = a)
<1> DEFINE g == Emptied(Range(s))
<1>1. /\ s \in [1 .. k -> Own \cup {Nil}] /\ DOMAIN s = 1 .. k
      /\ \A i \in 1 .. k : s[i] = Nil \/ (s[i] \in Own /\ s[i] \in Locals)
  BY OperandsAre
<1>2. Nil \in AN /\ d \in AN /\ y \in Locals
  BY DEF AN, Own
<1>3. g \in [Locals -> AN] /\ g[y] = Nil
      /\ \A x \in Locals : g[x] = local[x] \/ (x \in Range(s) /\ g[x] = Nil)
  BY <1>2 DEF Emptied, TypeInv
<1>4. \A x \in Locals : x \in Range(s) => x \in Own
  <2> TAKE x \in Locals
  <2> HAVE x \in Range(s)
  <2>1. PICK i \in 1 .. k : s[i] = x
    BY <1>1 DEF Range
  <2> QED
    BY <1>1, <2>1, HeapAssumption
<1>5. \A a \in Addr : CountOf(g, Locals, a) = LocalCount(a) - CountIn(Values(s), a)
  BY LocalEmptied
<1> HIDE DEF g
<1>6. local' = [g EXCEPT ![y] = d]
  BY DEF g, MovesTo
<1>7. local' \in [Locals -> AN] /\ local'[y] = d /\ \A x \in Locals : x # y => local'[x] = g[x]
  BY <1>2, <1>3, <1>6
<1>8. ASSUME NEW a \in Addr PROVE LocalCount(a)' = LocalCount(a) - CountIn(Values(s), a) + OneIf(d = a)
  <2>1. IsFiniteSet(Locals) /\ Nil # a
    BY HeapAssumption
  <2> DEFINE h == local'
  <2>2. h[y] = d /\ \A x \in Locals \ {y} : h[x] = g[x]
    BY <1>7
  <2> HIDE DEF h
  <2>3. CountOf(h, Locals, a) = CountOf(g, Locals, a) - OneIf(g[y] = a) + OneIf(h[y] = a)
    BY <1>2, <2>1, <2>2, CountChanged
  <2>4. CountOf(g, Locals, a) \in Nat /\ CountOf(g, Locals, a) = LocalCount(a) - CountIn(Values(s), a)
    BY <1>5, <2>1, CountNat
  <2> QED
    BY <1>3, <2>1, <2>2, <2>3, <2>4 DEF h, OneIf, LocalCount
<1> QED
  BY <1>3, <1>4, <1>7, <1>8

\* The total moves with its parts.
LEMMA TotalMoves ==
  ASSUME NEW a, CountsNow(a), CountsNow(a)',
         NEW l \in Int, NEW c \in Int, NEW f \in Int, NEW e \in Int, NEW h \in Int, NEW r \in Int,
         LocalCount(a)' = LocalCount(a) + l, ClauseCount(a)' = ClauseCount(a) + c,
         FramedCount(a)' = FramedCount(a) + f, MadeCount(a)' = MadeCount(a) + e,
         HeldCount(a)' = HeldCount(a) + h, ShellCount(a)' = ShellCount(a) + r
  PROVE  Total(a)' = Total(a) + (l + c + f + e + h + r) /\ Total(a) \in Nat
<1>1. PICK x1, x2, x3, x4, x5, x6 :
        /\ x1 = LocalCount(a) /\ x2 = ClauseCount(a) /\ x3 = FramedCount(a)
        /\ x4 = MadeCount(a) /\ x5 = HeldCount(a) /\ x6 = ShellCount(a)
  OBVIOUS
<1>2. x1 \in Nat /\ x2 \in Nat /\ x3 \in Nat /\ x4 \in Nat /\ x5 \in Nat /\ x6 \in Nat /\ Total(a) \in Nat
  BY <1>1 DEF CountsNow
<1>3. Total(a) = x1 + x2 + x3 + x4 + x5 + x6
  BY <1>1 DEF CountsNow
<1>4. Total(a)' = (x1 + l) + (x2 + c) + (x3 + f) + (x4 + e) + (x5 + h) + (x6 + r)
  BY <1>1 DEF CountsNow
<1> QED
  BY ONLY <1>2, <1>3, <1>4, l \in Int, c \in Int, f \in Int, e \in Int, h \in Int, r \in Int
==============================================================================
