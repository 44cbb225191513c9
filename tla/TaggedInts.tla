----------------------------- MODULE TaggedInts -----------------------------
(***************************************************************************)
(* Integers in the native runtime (src/runtime/jq_value.h): a 63-bit       *)
(* integer lives in the upper bits of a 64-bit word whose lowest bit is 1, *)
(* and arithmetic is done on 64-bit words and tagged again.  The width is  *)
(* a parameter: Half is 2^62, a word is a number below 4 * Half.           *)
(***************************************************************************)
EXTENDS Integers

CONSTANT Half
ASSUME HalfAssumption == Half \in Nat \ {0}

Word == 4 * Half
Int63 == -Half .. Half - 1

\* Conversions between int64_t and uint64_t.
Unsigned(n) == n % Word
Signed(u) == IF u < 2 * Half THEN u ELSE u - Word
\* jq_int drops the top bit to make room for the tag; jq_int_val is an
\* arithmetic shift.
JqInt(n) == ((2 * n) % Word) + 1
JqIntVal(v) == Signed(v) \div 2

----------------------------------------------------------------------------
\* Arithmetic on tagged words.
Add(a, b) == JqInt(Signed(Unsigned(Unsigned(JqIntVal(a)) + Unsigned(JqIntVal(b)))))
Sub(a, b) == JqInt(Signed(Unsigned(Unsigned(JqIntVal(a)) - Unsigned(JqIntVal(b)))))
Mul(a, b) == JqInt(Signed(Unsigned(Unsigned(JqIntVal(a)) * Unsigned(JqIntVal(b)))))
\* C's division truncates, and its remainder has the dividend's sign.
Magnitude(n) == IF n < 0 THEN -n ELSE n
Quotient(x, y) ==
    LET q == Magnitude(x) \div Magnitude(y) IN IF (x < 0) = (y < 0) THEN q ELSE -q
Remainder(x, y) == x - y * Quotient(x, y)
\* The checked variants, which is all that compiled code calls.
ZeroDivisor == [error |-> "arithmetic"]
Div(a, b) == IF JqIntVal(b) = 0 THEN ZeroDivisor ELSE JqInt(Quotient(JqIntVal(a), JqIntVal(b)))
Mod(a, b) == IF JqIntVal(b) = 0 THEN ZeroDivisor ELSE JqInt(Remainder(JqIntVal(a), JqIntVal(b)))
\* eq compares words; lt and int.compare compare integers.
Eq(a, b) == a = b
Lt(a, b) == JqIntVal(a) < JqIntVal(b)
\* jq_rng_split: the random word shifted up and down again.
RngSplit(s) == Signed(Unsigned(2 * Unsigned(s))) \div 2

----------------------------------------------------------------------------
\* What the interpreter's machine integers do: arithmetic modulo 2^63.
Wrapped(n) == ((n + Half) % (2 * Half)) - Half

\* Tagging loses nothing, and every operation is the interpreter's: it wraps
\* where that wraps (the least integer divided by -1 included), fails where
\* that fails, and compares as that compares.
IntsAreInterpreted(x, y) ==
    LET a == JqInt(x)
        b == JqInt(y)
    IN /\ JqIntVal(a) = x
       /\ JqIntVal(Add(a, b)) = Wrapped(x + y)
       /\ JqIntVal(Sub(a, b)) = Wrapped(x - y)
       /\ JqIntVal(Mul(a, b)) = Wrapped(x * y)
       /\ Eq(a, b) <=> x = y
       /\ Lt(a, b) <=> x < y
       /\ IF y = 0 THEN Div(a, b) = ZeroDivisor /\ Mod(a, b) = ZeroDivisor
          ELSE LET q == JqIntVal(Div(a, b))
                   r == JqIntVal(Mod(a, b))
               IN /\ Wrapped(q * y + r) = x
                  /\ Magnitude(r) < Magnitude(y) /\ (r = 0 \/ (r < 0) = (x < 0))
                  /\ q * y + r = x \/ (x = -Half /\ y = -1)
       /\ \A top \in {0, 2 * Half, -2 * Half} : RngSplit(Signed(Unsigned(x + top))) = x
=============================================================================
