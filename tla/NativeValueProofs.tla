-------------------------- MODULE NativeValueProofs --------------------------
(***************************************************************************)
(* Proofs about two native value representations: tagged integers are the  *)
(* interpreter's, whatever the width of a word, and a task handle is       *)
(* accepted exactly where it was made, for every size of a component and   *)
(* of a block.                                                             *)
(***************************************************************************)
EXTENDS TaggedInts, TaskHandles, SequenceTheorems, TLAPS

----------------------------------------------------------------------------
(* Division with remainder.                                                *)

\* Products keep order.
LEMMA TimesMonotone ==
  ASSUME NEW m \in Nat \ {0}, NEW p \in Int, NEW q \in Int, p < q
  PROVE  m * p + m <= m * q
<1>1. q - p - 1 \in Nat
  OBVIOUS
<1>2. m * (q - p - 1) >= 0
  BY <1>1
<1>3. m * (q - p - 1) = m * q - m * p - m
  OBVIOUS
<1>4. m * q \in Int /\ m * p \in Int
  OBVIOUS
<1> QED
  BY <1>2, <1>3, <1>4

\* Quotient and remainder are the only ones.
LEMMA DivModUnique ==
  ASSUME NEW m \in Nat \ {0}, NEW q \in Int, NEW r \in 0 .. m - 1, NEW a, a = m * q + r
  PROVE  a % m = r /\ a \div m = q
<1> DEFINE d == a \div m
           e == a % m
<1>1. a \in Int /\ d \in Int /\ e \in 0 .. m - 1 /\ a = m * d + e
  OBVIOUS
<1> HIDE DEF d, e
<1>2. m * d \in Int /\ m * q \in Int
  BY <1>1
<1>3. ~(d < q)
  <2> SUFFICES ASSUME d < q PROVE FALSE
    OBVIOUS
  <2>1. m * d + m <= m * q
    BY <1>1, TimesMonotone
  <2> QED
    BY <1>1, <1>2, <2>1
<1>4. ~(q < d)
  <2> SUFFICES ASSUME q < d PROVE FALSE
    OBVIOUS
  <2>1. m * q + m <= m * d
    BY <1>1, TimesMonotone
  <2> QED
    BY <1>1, <1>2, <2>1
<1>5. d = q
  BY <1>1, <1>3, <1>4
<1>6. e = r
  BY <1>1, <1>2, <1>5
<1> QED
  BY <1>5, <1>6 DEF d, e

LEMMA DivModIs ==
  ASSUME NEW m \in Nat \ {0}, NEW a \in Int
  PROVE  a \div m \in Int /\ a % m \in 0 .. m - 1 /\ a = m * (a \div m) + (a % m)
OBVIOUS

----------------------------------------------------------------------------
(* Words.                                                                  *)

\* Unsigned and Signed change a number by a multiple of the word's range.
LEMMA UnsignedIs ==
  ASSUME NEW n \in Int
  PROVE  /\ Unsigned(n) \in 0 .. Word - 1
         /\ \E k \in Int : Unsigned(n) = n + Word * k
<1> DEFINE d == n \div Word
<1>w. Word \in Nat \ {0}
  BY HalfAssumption DEF Word
<1>1. d \in Int /\ Unsigned(n) \in 0 .. Word - 1 /\ n = Word * d + Unsigned(n)
  BY <1>w, DivModIs DEF Unsigned
<1> HIDE DEF d
<1>2. Unsigned(n) = n + Word * (-d)
  BY <1>1, <1>w
<1> QED
  BY <1>1, <1>2

LEMMA SignedIs ==
  ASSUME NEW n \in Int
  PROVE  /\ Signed(Unsigned(n)) \in Int
         /\ \E k \in Int : Signed(Unsigned(n)) = n + Word * k
<1>1. PICK k \in Int : Unsigned(n) = n + Word * k
  BY UnsignedIs
<1>2. Word \in Nat /\ Unsigned(n) \in Int
  BY UnsignedIs, HalfAssumption DEF Word
<1>3. CASE Unsigned(n) < 2 * Half
  BY <1>1, <1>2, <1>3 DEF Signed
<1>4. CASE ~(Unsigned(n) < 2 * Half)
  <2>1. Signed(Unsigned(n)) = n + Word * (k - 1)
    BY <1>1, <1>2, <1>4 DEF Signed
  <2> QED
    BY <1>2, <2>1
<1> QED
  BY <1>3, <1>4

\* A number that fits is what is left of it with any multiple added.
LEMMA SignedExact ==
  ASSUME NEW n \in -(2 * Half) .. 2 * Half - 1, NEW k \in Int
  PROVE  Signed(Unsigned(n + Word * k)) = n
<1>1. Half \in Nat \ {0} /\ Word \in Nat \ {0} /\ Word = 4 * Half /\ n \in Int
  BY HalfAssumption DEF Word
<1>2. CASE n >= 0
  <2>1. n \in 0 .. Word - 1 /\ n + Word * k = Word * k + n
    BY <1>1, <1>2
  <2>2. Unsigned(n + Word * k) = n
    BY <1>1, <2>1, DivModUnique DEF Unsigned
  <2> QED
    BY <1>1, <2>2 DEF Signed
<1>3. CASE n < 0
  <2> DEFINE j == k - 1
             r == n + Word
  <2>1. j \in Int /\ r \in 0 .. Word - 1 /\ n + Word * k = Word * j + r
    BY <1>1, <1>3
  <2> HIDE DEF j, r
  <2>2. (n + Word * k) % Word = r
    BY <1>1, <2>1, DivModUnique
  <2>3. Unsigned(n + Word * k) = n + Word
    BY <2>2 DEF Unsigned, r
  <2> QED
    BY <1>1, <1>3, <2>3 DEF Signed
<1> QED
  BY <1>1, <1>2, <1>3

----------------------------------------------------------------------------
(* Wrapping.                                                               *)

LEMMA WrappedIs ==
  ASSUME NEW n \in Int
  PROVE  /\ Wrapped(n) \in Int63
         /\ \E k \in Int : n = 2 * Half * k + Wrapped(n)
<1> DEFINE m == 2 * Half
           d == (n + Half) \div m
           e == (n + Half) % m
<1>1. Half \in Nat \ {0} /\ m \in Nat \ {0}
  BY HalfAssumption
<1>2. d \in Int /\ e \in 0 .. m - 1 /\ n + Half = m * d + e
  <2> HIDE DEF m
  <2> QED
    BY <1>1, DivModIs
<1>3. Wrapped(n) = e - Half
  BY DEF Wrapped
<1> HIDE DEF d, e
<1>4. Wrapped(n) \in Int63
  BY <1>1, <1>2, <1>3 DEF Int63
<1>5. n = m * d + Wrapped(n)
  BY <1>1, <1>2, <1>3
<1> QED
  BY <1>2, <1>4, <1>5

\* The only number of its range a multiple of the range away.
LEMMA WrappedUnique ==
  ASSUME NEW x \in Int63, NEW k \in Int
  PROVE  Wrapped(2 * Half * k + x) = x
<1> DEFINE m == 2 * Half
           r == x + Half
           a == (m * k + x) + Half
<1>1. Half \in Nat \ {0} /\ m \in Nat \ {0} /\ x \in Int
  BY HalfAssumption DEF Int63
<1>2. r \in 0 .. m - 1 /\ a = m * k + r
  BY <1>1 DEF Int63
<1>3. a % m = r
  <2> HIDE DEF m, r, a
  <2> QED
    BY <1>1, <1>2, DivModUnique
<1> QED
  BY <1>1, <1>3 DEF Wrapped

LEMMA WrappedModulo ==
  ASSUME NEW n \in Int, NEW k \in Int
  PROVE  Wrapped(n + Word * k) = Wrapped(n)
<1>1. PICK j \in Int : n = 2 * Half * j + Wrapped(n)
  BY WrappedIs
<1>2. Half \in Nat \ {0} /\ Wrapped(n) \in Int
  BY WrappedIs, HalfAssumption DEF Int63
<1>3. n + Word * k = 2 * Half * (j + 2 * k) + Wrapped(n)
  BY <1>1, <1>2 DEF Word
<1>4. j + 2 * k \in Int /\ Wrapped(n) \in Int63
  BY WrappedIs
<1> QED
  BY <1>3, <1>4, WrappedUnique

LEMMA WrappedExact ==
  ASSUME NEW x \in Int63
  PROVE  Wrapped(x) = x
<1>1. x = 2 * Half * 0 + x
  BY HalfAssumption DEF Int63
<1> QED
  BY <1>1, WrappedUnique

\* Tagging a number and reading it back wraps it.
LEMMA TaggedIs ==
  ASSUME NEW n \in Int
  PROVE  JqIntVal(JqInt(n)) = Wrapped(n)
<1> DEFINE x == Wrapped(n)
<1>1. PICK k \in Int : n = 2 * Half * k + x
  BY WrappedIs
<1>2. Half \in Nat \ {0} /\ Word \in Nat \ {0} /\ Word = 4 * Half
  BY HalfAssumption DEF Word
<1>3. x \in Int /\ -Half <= x /\ x < Half
  BY <1>2, WrappedIs DEF Int63
<1> HIDE DEF x
<1>4. 2 * n = Word * k + 2 * x
  BY <1>1, <1>2, <1>3
<1>5. (2 * x + 1) \div 2 = x
  BY <1>3
<1>6. CASE x >= 0
  <2>1. 2 * x \in 0 .. Word - 1
    BY <1>2, <1>3, <1>6
  <2> DEFINE r == 2 * x
             a == 2 * n
  <2>2. a % Word = r
    <3>1. r \in 0 .. Word - 1 /\ a = Word * k + r
      BY <1>4, <2>1
    <3> HIDE DEF r, a
    <3> QED
      BY <1>2, <3>1, DivModUnique
  <2>3. Signed(JqInt(n)) = 2 * x + 1
    BY <1>2, <1>3, <2>2 DEF Signed, JqInt
  <2> QED
    BY <1>5, <2>3 DEF JqIntVal, x
<1>7. CASE x < 0
  <2>1. 2 * x + Word \in 0 .. Word - 1 /\ 2 * n = Word * (k - 1) + (2 * x + Word)
    BY <1>2, <1>3, <1>4, <1>7
  <2> DEFINE r == 2 * x + Word
             a == 2 * n
             j == k - 1
  <2>2. a % Word = r
    <3>1. j \in Int /\ r \in 0 .. Word - 1 /\ a = Word * j + r
      BY <2>1
    <3> HIDE DEF r, a, j
    <3> QED
      BY <1>2, <3>1, DivModUnique
  <2>3. Signed(JqInt(n)) = 2 * x + 1
    BY <1>2, <1>3, <2>2 DEF Signed, JqInt
  <2> QED
    BY <1>5, <2>3 DEF JqIntVal, x
<1> QED
  BY <1>3, <1>6, <1>7

----------------------------------------------------------------------------
(* Operations.                                                             *)

\* A word that agrees with n up to the word's range is tagged as n wrapped.
LEMMA WordIs ==
  ASSUME NEW n \in Int, NEW s, NEW k \in Int, s = n + Word * k
  PROVE  JqIntVal(JqInt(Signed(Unsigned(s)))) = Wrapped(n)
<1>1. Word \in Nat
  BY HalfAssumption DEF Word
<1>2. s \in Int
  BY <1>1
<1>3. PICK j \in Int : Signed(Unsigned(s)) = s + Word * j
  BY <1>2, SignedIs
<1>4. Signed(Unsigned(s)) = n + Word * (k + j)
  BY <1>1, <1>3
<1>5. k + j \in Int /\ n + Word * (k + j) \in Int
  BY <1>1
<1> QED
  BY <1>4, <1>5, TaggedIs, WrappedModulo

\* Division truncates.
LEMMA QuotientIs ==
  ASSUME NEW x \in Int63, NEW y \in Int63, y # 0
  PROVE  LET q == Quotient(x, y)
             r == Remainder(x, y)
         IN /\ q \in Int /\ r \in Int
            /\ q * y + r = x
            /\ Magnitude(r) < Magnitude(y)
            /\ r = 0 \/ ((r < 0) = (x < 0))
            /\ q \in Int63 \/ (x = -Half /\ y = -1)
<1> DEFINE a == Magnitude(x)
           b == Magnitude(y)
           d == a \div b
           e == a % b
<1>1. Half \in Nat \ {0} /\ x \in -Half .. Half - 1 /\ y \in -Half .. Half - 1
  BY HalfAssumption DEF Int63
<1>2. a \in Nat /\ b \in Nat \ {0} /\ a <= Half
  BY <1>1 DEF Magnitude
<1>3. d \in Int /\ e \in 0 .. b - 1 /\ a = b * d + e
  <2> HIDE DEF a, b
  <2> QED
    BY <1>2, DivModIs
<1>4. Quotient(x, y) = IF (x < 0) = (y < 0) THEN d ELSE -d
  BY DEF Quotient
<1>5. /\ x = IF x < 0 THEN -a ELSE a
      /\ y = IF y < 0 THEN -b ELSE b
  BY <1>1 DEF Magnitude
<1> DEFINE q == Quotient(x, y)
           r == Remainder(x, y)
<1>6. r = x - y * q
  BY DEF Remainder
<1>x. b = Magnitude(y)
  OBVIOUS
<1> HIDE DEF a, b, d, e, q, r
<1>7. d >= 0
  <2> SUFFICES ASSUME d < 0 PROVE FALSE
    BY <1>3
  <2>1. b * d + b <= b * 0
    BY <1>2, <1>3, TimesMonotone
  <2>2. b * d \in Int
    BY <1>2, <1>3
  <2> QED
    BY <1>2, <1>3, <2>1, <2>2
<1>8. q \in Int /\ r = (IF x < 0 THEN -e ELSE e)
  <2>1. CASE x < 0 /\ y < 0
    BY <1>1, <1>2, <1>3, <1>4, <1>5, <1>6, <2>1 DEF q
  <2>2. CASE x < 0 /\ ~(y < 0)
    BY <1>1, <1>2, <1>3, <1>4, <1>5, <1>6, <2>2 DEF q
  <2>3. CASE ~(x < 0) /\ y < 0
    BY <1>1, <1>2, <1>3, <1>4, <1>5, <1>6, <2>3 DEF q
  <2>4. CASE ~(x < 0) /\ ~(y < 0)
    BY <1>1, <1>2, <1>3, <1>4, <1>5, <1>6, <2>4 DEF q
  <2> QED
    BY <2>1, <2>2, <2>3, <2>4
<1>9. r \in Int /\ Magnitude(r) < b /\ (r = 0 \/ ((r < 0) = (x < 0)))
  BY <1>1, <1>2, <1>3, <1>8 DEF Magnitude
<1>10. q * y + r = x
  BY <1>1, <1>6, <1>8, <1>9
<1>11. q \in Int63 \/ (x = -Half /\ y = -1)
  <2>1. CASE b = 1
    <3>1. d = a
      BY <1>2, <1>3, <2>1
    <3> QED
      BY <1>1, <1>2, <1>4, <1>5, <2>1, <3>1 DEF Int63, q
  <2>2. CASE b >= 2
    <3>1. d < Half
      <4> SUFFICES ASSUME d >= Half PROVE FALSE
        BY <1>1, <1>3
      <4>1. (b - 2) * d >= 0
        BY <1>2, <1>3, <1>7, <2>2
      <4>2. (b - 2) * d = b * d - 2 * d /\ b * d \in Int
        BY <1>2, <1>3
      <4> QED
        BY <1>1, <1>2, <1>3, <4>1, <4>2
    <3> QED
      BY <1>1, <1>3, <1>4, <1>7, <3>1 DEF Int63, q
  <2> QED
    BY <1>2, <2>1, <2>2
<1> QED
  BY <1>8, <1>9, <1>10, <1>11, <1>x DEF q, r

----------------------------------------------------------------------------
(* The interpreter's integers.                                             *)

\* Addition, subtraction and multiplication wrap as the interpreter's do.
LEMMA ArithmeticWraps ==
  ASSUME NEW x \in Int63, NEW y \in Int63
  PROVE  /\ JqIntVal(Add(JqInt(x), JqInt(y))) = Wrapped(x + y)
         /\ JqIntVal(Sub(JqInt(x), JqInt(y))) = Wrapped(x - y)
         /\ JqIntVal(Mul(JqInt(x), JqInt(y))) = Wrapped(x * y)
<1>1. x \in Int /\ y \in Int /\ Word \in Nat
  BY HalfAssumption DEF Int63, Word
<1>2. JqIntVal(JqInt(x)) = x /\ JqIntVal(JqInt(y)) = y
  BY <1>1, TaggedIs, WrappedExact
<1>3. PICK k \in Int : Unsigned(x) = x + Word * k
  BY <1>1, UnsignedIs
<1>4. PICK j \in Int : Unsigned(y) = y + Word * j
  BY <1>1, UnsignedIs
<1>5. JqIntVal(Add(JqInt(x), JqInt(y))) = Wrapped(x + y)
  <2>1. /\ k + j \in Int /\ x + y \in Int
        /\ Unsigned(x) + Unsigned(y) = (x + y) + Word * (k + j)
    BY <1>1, <1>3, <1>4
  <2> QED
    BY <1>2, <2>1, WordIs DEF Add
<1>6. JqIntVal(Sub(JqInt(x), JqInt(y))) = Wrapped(x - y)
  <2>1. /\ k - j \in Int /\ x - y \in Int
        /\ Unsigned(x) - Unsigned(y) = (x - y) + Word * (k - j)
    BY <1>1, <1>3, <1>4
  <2> QED
    BY <1>2, <2>1, WordIs DEF Sub
<1>7. JqIntVal(Mul(JqInt(x), JqInt(y))) = Wrapped(x * y)
  <2> DEFINE i == x * j + k * y + Word * k * j
  <2>1. /\ i \in Int /\ x * y \in Int
        /\ Unsigned(x) * Unsigned(y) = (x * y) + Word * i
    BY <1>1, <1>3, <1>4
  <2> HIDE DEF i
  <2> QED
    BY <1>2, <2>1, WordIs DEF Mul
<1> QED
  BY <1>5, <1>6, <1>7

\* Division truncates and wraps once, where the quotient does not fit.
LEMMA DivisionIs ==
  ASSUME NEW x \in Int63, NEW y \in Int63, y # 0
  PROVE  LET q == JqIntVal(Div(JqInt(x), JqInt(y)))
             r == JqIntVal(Mod(JqInt(x), JqInt(y)))
         IN /\ Wrapped(q * y + r) = x
            /\ Magnitude(r) < Magnitude(y) /\ (r = 0 \/ (r < 0) = (x < 0))
            /\ q * y + r = x \/ (x = -Half /\ y = -1)
<1> DEFINE Q == Quotient(x, y)
           R == Remainder(x, y)
           q == JqIntVal(Div(JqInt(x), JqInt(y)))
           r == JqIntVal(Mod(JqInt(x), JqInt(y)))
<1>1. Half \in Nat \ {0} /\ x \in -Half .. Half - 1 /\ y \in -Half .. Half - 1
  BY HalfAssumption DEF Int63
<1>2. JqIntVal(JqInt(x)) = x /\ JqIntVal(JqInt(y)) = y
  BY <1>1, TaggedIs, WrappedExact
<1>3. /\ Q \in Int /\ R \in Int /\ Q * y + R = x
      /\ Magnitude(R) < Magnitude(y)
      /\ R = 0 \/ ((R < 0) = (x < 0))
      /\ Q \in Int63 \/ (x = -Half /\ y = -1)
  BY QuotientIs
<1>4. q = Wrapped(Q)
  BY <1>2, <1>3, TaggedIs DEF Div
<1>5. r = R
  <2>1. r = Wrapped(R)
    BY <1>2, <1>3, TaggedIs DEF Mod
  <2>2. R \in Int63
    BY <1>1, <1>3 DEF Int63, Magnitude
  <2> QED
    BY <2>1, <2>2, WrappedExact
<1> HIDE DEF Q, R, q, r
<1>6. CASE Q \in Int63
  <2>1. q = Q
    BY <1>4, <1>6, WrappedExact
  <2> QED
    BY <1>3, <1>5, <2>1, WrappedExact DEF q, r
<1>7. CASE x = -Half /\ y = -1
  <2>1. R = 0 /\ Q = Half
    BY <1>1, <1>3, <1>7 DEF Magnitude
  <2>2. PICK k \in Int : Q = 2 * Half * k + q
    BY <1>3, <1>4, WrappedIs
  <2>3. q \in Int
    BY <1>3, <1>4, WrappedIs DEF Int63
  <2>4. q * y + r = 2 * Half * k + x
    <3>1. q * y = -q /\ r = 0
      BY <1>5, <1>7, <2>1, <2>3
    <3>2. Half = 2 * Half * k + q
      BY <2>1, <2>2
    <3>3. 2 * Half * k \in Int
      BY <1>1
    <3> QED
      BY <1>1, <1>7, <2>3, <3>1, <3>2, <3>3
  <2>5. Wrapped(q * y + r) = x
    BY <2>4, WrappedUnique
  <2> QED
    BY <1>3, <1>5, <1>7, <2>5 DEF q, r
<1> QED
  BY <1>3, <1>6, <1>7

\* A random word shifted up and down keeps the lower bits of a seed.
LEMMA SplitIs ==
  ASSUME NEW x \in Int63, NEW top \in {0, 2 * Half, -2 * Half}
  PROVE  RngSplit(Signed(Unsigned(x + top))) = x
<1>1. Half \in Nat \ {0} /\ Word = 4 * Half /\ x \in -Half .. Half - 1 /\ top \in Int
  BY HalfAssumption DEF Word, Int63
<1> DEFINE s == Signed(Unsigned(x + top))
<1>2. x + top \in Int
  BY <1>1
<1>3. PICK j \in Int : s = (x + top) + Word * j
  BY <1>2, SignedIs
<1>4. s \in Int
  BY <1>2, SignedIs
<1> HIDE DEF s
<1>5. PICK k \in Int : Unsigned(s) = s + Word * k
  BY <1>4, UnsignedIs
<1>6. PICK i \in Int : 2 * top = Word * i
  <2>1. 2 * 0 = Word * 0 /\ 2 * (2 * Half) = Word * 1 /\ 2 * (-2 * Half) = Word * (-1)
    BY <1>1
  <2> QED
    BY <2>1
<1> DEFINE n == i + 2 * j + 2 * k
<1>7. 2 * Unsigned(s) = 2 * x + Word * n /\ n \in Int
  BY <1>1, <1>3, <1>4, <1>5, <1>6
<1> HIDE DEF n
<1>8. 2 * x \in -(2 * Half) .. 2 * Half - 1
  BY <1>1
<1>9. Signed(Unsigned(2 * Unsigned(s))) = 2 * x
  BY <1>7, <1>8, SignedExact
<1> QED
  BY <1>1, <1>9 DEF RngSplit, s

\* Whatever the width of a word and whatever the two integers, tagging loses
\* nothing and every operation of the native runtime is the interpreter's.
THEOREM TaggedIntsAgree ==
  \A x, y \in Int63 : IntsAreInterpreted(x, y)
<1> SUFFICES ASSUME NEW x \in Int63, NEW y \in Int63
             PROVE  IntsAreInterpreted(x, y)
  OBVIOUS
<1>1. x \in Int /\ y \in Int
  BY HalfAssumption DEF Int63
<1>2. JqIntVal(JqInt(x)) = x /\ JqIntVal(JqInt(y)) = y
  BY <1>1, TaggedIs, WrappedExact
<1>3. Eq(JqInt(x), JqInt(y)) <=> x = y
  BY <1>2 DEF Eq
<1>4. Lt(JqInt(x), JqInt(y)) <=> x < y
  BY <1>2 DEF Lt
<1>5. ASSUME y = 0
      PROVE  Div(JqInt(x), JqInt(y)) = ZeroDivisor /\ Mod(JqInt(x), JqInt(y)) = ZeroDivisor
  BY <1>2, <1>5 DEF Div, Mod
<1>6. \A top \in {0, 2 * Half, -2 * Half} : RngSplit(Signed(Unsigned(x + top))) = x
  BY SplitIs
<1>7. CASE y = 0
  BY <1>2, <1>3, <1>4, <1>5, <1>6, <1>7, ArithmeticWraps DEF IntsAreInterpreted
<1>8. CASE y # 0
  BY <1>2, <1>3, <1>4, <1>6, <1>8, ArithmeticWraps, DivisionIs DEF IntsAreInterpreted
<1> QED
  BY <1>7, <1>8

----------------------------------------------------------------------------
(* Task handles.                                                           *)

\* What validation looks at: a block with a count and as many words.
Blocks == {b \in [tag : {"task", "other"}, n : 0 .. MaxWords, payload : Seq(Nat)] :
             Len(b.payload) = b.n}

\* A created block holds the owner, the length of the path, the path and the
\* spawn index, and its count has not wrapped.
LEMMA TaskBlockIs ==
  ASSUME NEW owner \in Nat, NEW path \in Seq(Component), NEW index \in Component,
         Len(path) <= MaxScopeLen, path # <<>>, NEW b, b = TaskBlock(owner, path, index)
  PROVE  /\ b.tag = "task" /\ b.n = Len(path) + 3
         /\ b.payload[1] = owner /\ b.payload[2] = Len(path)
         /\ \A i \in 1 .. Len(path) : b.payload[i + 2] = path[i]
         /\ b.payload[Len(path) + 3] = index
<1>1. Len(path) \in Nat /\ Len(path) > 0 /\ MaxWords \in Nat
  BY TaskHandlesAssumption, EmptySeq
<1>2. Len(path) + 3 \in 0 .. MaxWords
  BY <1>1 DEF MaxScopeLen
<1>3. (Len(path) + 3) % (MaxWords + 1) = Len(path) + 3
  BY <1>1, <1>2
<1>4. /\ b.tag = "task" /\ b.n = (Len(path) + 3) % (MaxWords + 1)
      /\ b.payload = [i \in 1 .. Len(path) + 3 |->
                        CASE i = 1 -> owner
                          [] i = 2 -> Len(path)
                          [] i = Len(path) + 3 -> index
                          [] OTHER -> path[i - 2]]
  BY DEF TaskBlock
<1>5. b.payload[1] = owner
  BY <1>1, <1>4
<1>6. b.payload[2] = Len(path)
  BY <1>1, <1>4
<1>7. b.payload[Len(path) + 3] = index
  BY <1>1, <1>4
<1>8. ASSUME NEW i \in 1 .. Len(path)
      PROVE  b.payload[i + 2] = path[i]
  <2>1. i + 2 \in 1 .. Len(path) + 3 /\ i + 2 # 1 /\ i + 2 # 2 /\ i + 2 # Len(path) + 3
        /\ (i + 2) - 2 = i
    BY <1>1
  <2> QED
    BY <1>4, <2>1
<1> QED
  BY <1>3, <1>4, <1>5, <1>6, <1>7, <1>8

\* A created block has the shape of a task.
LEMMA CreatedIsWellFormed ==
  ASSUME NEW owner \in Nat, NEW path \in Seq(Component), NEW index \in Component,
         CanCreate(owner, path)
  PROVE  WellFormed(TaskBlock(owner, path, index))
<1> DEFINE b == TaskBlock(owner, path, index)
<1>1. /\ path # <<>> /\ path[1] = 0 /\ Len(path) <= MaxScopeLen
      /\ \A i \in 2 .. Len(path) : path[i] # 0
  BY DEF CanCreate, TaskPathValid
<1>2. /\ b.tag = "task" /\ b.n = Len(path) + 3 /\ b.payload[2] = Len(path)
      /\ \A i \in 1 .. Len(path) : b.payload[i + 2] = path[i]
      /\ b.payload[Len(path) + 3] = index
  BY <1>1, TaskBlockIs
<1> HIDE DEF b
<1>3. Len(path) \in Nat /\ Len(path) > 0 /\ MaxScopeLen \in Int
  BY <1>1, TaskHandlesAssumption, EmptySeq DEF MaxScopeLen
<1>4. b.n >= 4 /\ b.payload[2] \in 1 .. MaxScopeLen /\ b.n = b.payload[2] + 3
  BY <1>1, <1>2, <1>3
<1>5. b.payload[3] = 0
  <2>1. 1 \in 1 .. Len(path)
    BY <1>3
  <2>2. b.payload[1 + 2] = path[1]
    BY <1>2, <2>1
  <2> QED
    BY <1>1, <2>2
<1>6. ASSUME NEW i \in 4 .. b.payload[2] + 2
      PROVE  b.payload[i] \in 1 .. MaxComponent
  <2> DEFINE j == i - 2
  <2>1. j \in 2 .. Len(path) /\ j \in 1 .. Len(path) /\ j + 2 = i
    BY <1>2, <1>3
  <2>2. b.payload[i] = path[j] /\ path[j] \in Component /\ path[j] # 0
    BY <1>1, <1>2, <2>1
  <2> QED
    BY <2>2, TaskHandlesAssumption DEF Component
<1>7. b.payload[b.payload[2] + 3] <= MaxComponent
  BY <1>2, TaskHandlesAssumption DEF Component
<1> QED
  BY <1>2, <1>4, <1>5, <1>6, <1>7 DEF WellFormed, b

\* A created block answers to its own path and to no other.
LEMMA CreatedHasItsPath ==
  ASSUME NEW owner \in Nat, NEW path \in Seq(Component), NEW index \in Component,
         CanCreate(owner, path), NEW path2 \in Seq(Component)
  PROVE  SamePath(TaskBlock(owner, path, index), path2) <=> path = path2
<1> DEFINE b == TaskBlock(owner, path, index)
<1>1. /\ b.payload[2] = Len(path)
      /\ \A i \in 1 .. Len(path) : b.payload[i + 2] = path[i]
  BY TaskBlockIs DEF CanCreate, TaskPathValid
<1> HIDE DEF b
<1>2. ASSUME SamePath(b, path2)
      PROVE  path = path2
  <2>1. Len(path) = Len(path2) /\ \A i \in 1 .. Len(path) : path[i] = path2[i]
    BY <1>1, <1>2 DEF SamePath
  <2> QED
    BY <2>1, SeqEqual
<1>3. ASSUME path = path2
      PROVE  SamePath(b, path2)
  BY <1>1, <1>3 DEF SamePath
<1> QED
  BY <1>2, <1>3 DEF b

\* A handle made by jq_task_create is accepted by the run and in the scope it
\* was made for; any other run or scope is told what is wrong with it.
THEOREM HandlesAreScoped ==
  ASSUME NEW owner \in Owner, NEW path \in Seq(Component), NEW index \in Component,
         NEW owner2 \in Owner, NEW path2 \in Seq(Component)
  PROVE  HandleIsScoped(owner, path, index, owner2, path2)
<1> SUFFICES ASSUME CanCreate(owner, path)
             PROVE  TaskValidate(TaskBlock(owner, path, index), owner2, path2) =
                      CASE owner # owner2 -> "foreign run"
                        [] owner = owner2 /\ path # path2 -> "foreign scope"
                        [] OTHER -> "valid"
  BY DEF HandleIsScoped
<1> DEFINE b == TaskBlock(owner, path, index)
<1>1. WellFormed(b)
  BY CreatedIsWellFormed DEF Owner
<1>2. b.payload[1] = owner
  BY TaskBlockIs DEF CanCreate, TaskPathValid, Owner
<1>3. SamePath(b, path2) <=> path = path2
  BY CreatedHasItsPath DEF Owner
<1>4. TaskPathValid(owner, path)
  BY DEF CanCreate
<1> HIDE DEF b
<1>5. CASE owner # owner2
  <2>1. TaskValidate(b, owner2, path2) = "foreign run"
    BY <1>1, <1>2, <1>5 DEF TaskValidate
  <2> QED
    BY <1>5, <2>1 DEF b
<1>6. CASE owner = owner2 /\ path # path2
  <2>1. TaskValidate(b, owner2, path2) = "foreign scope"
    BY <1>1, <1>2, <1>3, <1>6 DEF TaskValidate
  <2> QED
    BY <1>6, <2>1 DEF b
<1>7. CASE owner = owner2 /\ path = path2
  <2>1. TaskValidate(b, owner2, path2) = "valid"
    BY <1>1, <1>2, <1>3, <1>4, <1>7 DEF TaskValidate
  <2> QED
    BY <1>7, <2>1 DEF b
<1> QED
  BY <1>5, <1>6, <1>7

\* jq_task_validate accepts no block that jq_task_create could not have made.
THEOREM NothingElseIsAccepted ==
  ASSUME NEW b \in Blocks, NEW owner \in Nat, NEW path \in Seq(Component)
  PROVE  OnlyCreatedAreValid(b, owner, path)
<1> SUFFICES ASSUME TaskValidate(b, owner, path) = "valid"
             PROVE  /\ CanCreate(owner, path)
                    /\ b.payload[b.n] \in Component
                    /\ \A i \in 1 .. b.n :
                         b.payload[i] = TaskBlock(owner, path, b.payload[b.n]).payload[i]
  BY DEF OnlyCreatedAreValid
<1>1. /\ WellFormed(b) /\ b.payload[1] = owner
      /\ TaskPathValid(owner, path) /\ SamePath(b, path)
  BY DEF TaskValidate
<1>2. /\ b.n \in Nat /\ b.payload \in Seq(Nat) /\ Len(b.payload) = b.n
      /\ \A i \in 1 .. b.n : b.payload[i] \in Nat
  BY TaskHandlesAssumption DEF Blocks
<1>3. /\ b.payload[2] = Len(path) /\ b.n = Len(path) + 3 /\ Len(path) <= MaxScopeLen
      /\ b.payload[b.n] <= MaxComponent
      /\ \A i \in 1 .. Len(path) : b.payload[i + 2] = path[i]
  BY <1>1 DEF WellFormed, SamePath
<1>4. path # <<>> /\ Len(path) \in Nat /\ Len(path) > 0
  BY <1>1, EmptySeq DEF TaskPathValid
<1>5. CanCreate(owner, path)
  BY <1>1, <1>3 DEF CanCreate
<1>6. b.payload[b.n] \in Component
  <2>1. b.payload[b.n] \in Nat
    BY <1>2, <1>3, <1>4
  <2> QED
    BY <1>3, <2>1, TaskHandlesAssumption DEF Component
<1> DEFINE c == TaskBlock(owner, path, b.payload[b.n])
<1>7. /\ c.payload[1] = owner /\ c.payload[2] = Len(path)
      /\ \A i \in 1 .. Len(path) : c.payload[i + 2] = path[i]
      /\ c.payload[Len(path) + 3] = b.payload[b.n]
  BY <1>3, <1>4, <1>6, TaskBlockIs
<1> HIDE DEF c
<1>8. ASSUME NEW i \in 1 .. b.n
      PROVE  b.payload[i] = c.payload[i]
  <2>1. CASE i \in {1, 2, b.n}
    BY <1>1, <1>3, <1>7, <2>1
  <2>2. CASE i \notin {1, 2, b.n}
    <3> DEFINE j == i - 2
    <3>1. j \in 1 .. Len(path) /\ j + 2 = i
      BY <1>3, <1>4, <2>2
    <3> HIDE DEF j
    <3> QED
      BY <1>3, <1>7, <3>1
  <2> QED
    BY <2>1, <2>2
<1> QED
  BY <1>5, <1>6, <1>8 DEF c
==============================================================================
