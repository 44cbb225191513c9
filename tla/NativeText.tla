---------------------------- MODULE NativeText -----------------------------
(***************************************************************************)
(* Texts in the native runtime: the UTF-8 widths of src/runtime/jq_utf8.c, *)
(* and the text intrinsics of src/runtime/jq_intrinsics.c, each against a  *)
(* definition of what it should compute.  A text is a sequence of bytes,   *)
(* well-formed or not; offsets count from 1.                               *)
(***************************************************************************)
EXTENDS Integers, Sequences, FiniteSets, SequencesExt

CONSTANT MaxInt \* the largest integer: 2^62 - 1

Continuation == 128 .. 191
----------------------------------------------------------------------------
\* jq_utf8.c.
ByteAt(s, j) == IF j <= Len(s) THEN s[j] ELSE -1
Cont(s, j) == ByteAt(s, j) \in Continuation
\* Mutant: any continuation byte may follow any lead byte.
SecondAny(b0, b1) == b1 \in Continuation
SecondOk(b0, b1) ==
    b1 \in CASE b0 = 224 -> 160 .. 191
             [] b0 = 237 -> 128 .. 159
             [] b0 = 240 -> 144 .. 191
             [] b0 = 244 -> 128 .. 143
             [] OTHER -> Continuation
\* The bytes of the code point at i; a byte that starts none counts alone.
Width(s, i) ==
    CASE s[i] \in 194 .. 223 /\ Cont(s, i + 1) -> 2
      [] s[i] \in 224 .. 239 /\ SecondOk(s[i], ByteAt(s, i + 1)) /\ Cont(s, i + 2) -> 3
      [] s[i] \in 240 .. 244 /\ SecondOk(s[i], ByteAt(s, i + 1)) /\ Cont(s, i + 2) /\ Cont(s, i + 3) -> 4
      [] OTHER -> 1

\* The offset before each code point, by walking widths: n + 1 of them.
OffsetsOf(s) ==
    LET walk[i \in 0 .. Len(s)] == <<i>> \o (IF i = Len(s) THEN << >> ELSE walk[i + Width(s, i + 1)])
    IN walk[0]
Count(s) == Len(OffsetsOf(s)) - 1

----------------------------------------------------------------------------
\* The intrinsics.  None is what they answer instead of an option's some.
None == [none |-> TRUE]
Clamped(n, max) == IF n < 0 THEN 0 ELSE IF n > max THEN max ELSE n
\* text.slice: code points lo to hi, hi excluded.
Slice(s, lo, hi) ==
    LET from == Clamped(lo, Count(s))
        to == Clamped(hi, Count(s))
    IN IF from >= to THEN << >> ELSE SubSeq(s, OffsetsOf(s)[from + 1] + 1, OffsetsOf(s)[to + 1])

MatchesAt(s, sub, i) == i + Len(sub) - 1 <= Len(s) /\ SubSeq(s, i, i + Len(sub) - 1) = sub
TextContains(s, sub) == sub = << >> \/ \E i \in 1 .. Len(s) : MatchesAt(s, sub, i)
\* text.split at a separator: left to right, without overlap; empty pieces kept.
SplitAt(s, sep) ==
    LET scan[i, start \in 1 .. Len(s) + 1] ==
            IF i + Len(sep) - 1 > Len(s) THEN <<SubSeq(s, start, Len(s))>>
            ELSE IF MatchesAt(s, sep, i)
            THEN <<SubSeq(s, start, i - 1)>> \o scan[i + Len(sep), i + Len(sep)]
            ELSE scan[i + 1, start]
    IN scan[1, 1]
\* Without a separator every code point is a piece.
Split(s, sep) ==
    IF sep # << >> THEN SplitAt(s, sep)
    ELSE [k \in 1 .. Count(s) |-> SubSeq(s, OffsetsOf(s)[k] + 1, OffsetsOf(s)[k + 1])]
\* text.join, text.concat and the variadic join.
Join(pieces, sep) ==
    FoldLeftDomain(LAMBDA text, k : text \o (IF k > 1 THEN sep ELSE << >>) \o pieces[k], << >>, pieces)

Blank == {9, 10, 13, 32}
Trim(s) ==
    LET solid == {i \in DOMAIN s : s[i] \notin Blank}
    IN IF solid = {} THEN << >>
       ELSE SubSeq(s, CHOOSE i \in solid : \A j \in solid : i <= j,
                      CHOOSE i \in solid : \A j \in solid : j <= i)

Sign(a, b) == IF a < b THEN -1 ELSE IF a > b THEN 1 ELSE 0
\* text-compare: memcmp of the common length, then the lengths.
Compare(s, t) ==
    LET differ == {i \in DOMAIN s \cap DOMAIN t : s[i] # t[i]}
    IN IF differ = {} THEN Sign(Len(s), Len(t))
       ELSE LET i == CHOOSE i \in differ : \A j \in differ : i <= j IN Sign(s[i], t[i])

\* text.codepoint: the scalar a text of exactly one code point is.
Payload(b) == b % 64
Codepoint(s) ==
    IF Len(s) \in 1 .. 4 /\ Width(s, 1) = Len(s) /\ (Len(s) > 1 \/ s[1] < 128)
    THEN CASE Len(s) = 1 -> s[1]
           [] Len(s) = 2 -> (s[1] % 32) * 64 + Payload(s[2])
           [] Len(s) = 3 -> (s[1] % 16) * 4096 + Payload(s[2]) * 64 + Payload(s[3])
           [] OTHER -> (s[1] % 8) * 262144 + Payload(s[2]) * 4096 + Payload(s[3]) * 64 + Payload(s[4])
    ELSE None

\* Classification of one-character texts.
Digit == 48 .. 57
Letter == (97 .. 122) \cup (65 .. 90)
IsAscii(s, class) == Len(s) = 1 /\ s[1] \in class
DigitValue(s) == IF IsAscii(s, Digit) THEN s[1] - 48 ELSE None

\* classify_number: the unquoted numbers of the reader.
Dot == 46
Exponent == {69, 101}
PlusMinus == {43, 45}
\* The first position from i on that is not a digit.
PastDigits(s, i) == CHOOSE j \in i .. Len(s) + 1 :
                        (\A k \in i .. j - 1 : s[k] \in Digit) /\ ByteAt(s, j) \notin Digit
AfterSign(s) == IF s # << >> /\ s[1] \in PlusMinus THEN 2 ELSE 1
HasShape(s) ==
    LET i0 == AfterSign(s)
        i1 == PastDigits(s, i0)
        i2 == IF ByteAt(s, i1) = Dot THEN PastDigits(s, i1 + 1) ELSE i1
        e0 == IF ByteAt(s, i2 + 1) \in PlusMinus THEN i2 + 2 ELSE i2 + 1
    IN /\ i1 > i0
       /\ IF ByteAt(s, i2) \in Exponent THEN e0 <= Len(s) /\ PastDigits(s, e0) > e0 /\ PastDigits(s, e0) = Len(s) + 1
          ELSE i2 = Len(s) + 1
\* The magnitude, digit by digit, unless it would pass the limit.
TooBig == -1
Magnitude(s, limit) ==
    LET upTo[k \in AfterSign(s) - 1 .. Len(s)] ==
            IF k < AfterSign(s) THEN 0
            ELSE IF upTo[k - 1] = TooBig \/ upTo[k - 1] > (limit - (s[k] - 48)) \div 10 THEN TooBig
            ELSE upTo[k - 1] * 10 + (s[k] - 48)
    IN upTo[Len(s)]
\* "inf.0" and "nan.0": the reals without digits, after a sign.
Named == {<<105, 110, 102, 46, 48>>, <<110, 97, 110, 46, 48>>}
ClassifyNumber(s) ==
    IF AfterSign(s) = 2 /\ Tail(s) \in Named THEN [kind |-> "real"]
    ELSE IF ~HasShape(s) THEN [kind |-> "none"]
    ELSE IF \E k \in DOMAIN s : s[k] \in Exponent \cup {Dot} THEN [kind |-> "real"]
    ELSE LET negative == s[1] = 45
             m == Magnitude(s, IF negative THEN MaxInt + 1 ELSE MaxInt)
         IN IF m = TooBig THEN [kind |-> "overflow"]
            ELSE [kind |-> "int", value |-> IF negative THEN -m ELSE m]
ToInt(s) == LET c == ClassifyNumber(s) IN IF c.kind = "int" THEN c.value ELSE None
ReadsAsReal(s) == ClassifyNumber(s).kind \in {"int", "real"}
\* text.from-int.
FromInt(n) ==
    LET digits[m \in Nat] == IF m < 10 THEN <<48 + m>> ELSE Append(digits[m \div 10], 48 + (m % 10))
    IN IF n < 0 THEN <<45>> \o digits[-n] ELSE digits[n]

----------------------------------------------------------------------------
(* What they should compute.                                               *)

\* UTF-8 by the value it encodes: the shortest form of a scalar value.
Encoded(b) ==
    CASE Len(b) = 1 -> b[1]
      [] Len(b) = 2 -> (b[1] - 192) * 64 + b[2] - 128
      [] Len(b) = 3 -> (b[1] - 224) * 4096 + (b[2] - 128) * 64 + b[3] - 128
      [] OTHER -> (b[1] - 240) * 262144 + (b[2] - 128) * 4096 + (b[3] - 128) * 64 + b[4] - 128
LeadOf(n) == CASE n = 1 -> 0 .. 127 [] n = 2 -> 192 .. 223 [] n = 3 -> 224 .. 239 [] OTHER -> 240 .. 247
Smallest(n) == CASE n = 1 -> 0 [] n = 2 -> 128 [] n = 3 -> 2048 [] OTHER -> 65536
IsScalar(b) ==
    /\ Len(b) \in 1 .. 4 /\ b[1] \in LeadOf(Len(b)) /\ \A i \in 2 .. Len(b) : b[i] \in Continuation
    /\ Encoded(b) \in Smallest(Len(b)) .. 1114111 /\ Encoded(b) \notin 55296 .. 57343
\* The code points of a text, a byte that belongs to none by itself.
PointsOf(s) ==
    LET at(i) == {w \in 1 .. 4 : i + w - 1 <= Len(s) /\ IsScalar(SubSeq(s, i, i + w - 1))}
        from[i \in 1 .. Len(s) + 1] ==
            IF i > Len(s) THEN << >>
            ELSE LET w == IF at(i) = {} THEN 1 ELSE CHOOSE w \in at(i) : TRUE
                 IN <<SubSeq(s, i, i + w - 1)>> \o from[i + w]
    IN from[1]
WellFormed(s) == \A i \in DOMAIN PointsOf(s) : IsScalar(PointsOf(s)[i])

\* Texts are counted, cut and read by code point, whatever bytes they hold:
\* overlong forms, surrogates and truncated sequences included.
CodePointsAreRight(s) ==
    LET points == PointsOf(s)
    IN /\ Count(s) = Len(points) /\ Split(s, << >>) = points
       /\ \A lo, hi \in -1 .. Len(points) + 1 :
              Slice(s, lo, hi) = FlattenSeq(SubSeq(points, Clamped(lo, Len(points)) + 1, Clamped(hi, Len(points))))
       /\ Codepoint(s) = IF IsScalar(s) THEN Encoded(s) ELSE None

\* Splitting loses nothing and leaves no separator in a piece; a text is the
\* trimmed one between blanks.
PiecesAreRight(s, sep) ==
    /\ sep # << >> => /\ Join(Split(s, sep), sep) = s
                      /\ \A k \in DOMAIN Split(s, sep) : ~TextContains(Split(s, sep)[k], sep)
                      /\ TextContains(s, sep) <=> Len(Split(s, sep)) > 1
    /\ \E i \in 1 .. Len(s) + 1 : \E j \in i - 1 .. Len(s) :
           /\ Trim(s) = SubSeq(s, i, j) /\ \A k \in (1 .. i - 1) \cup (j + 1 .. Len(s)) : s[k] \in Blank
           /\ i <= j => s[i] \notin Blank /\ s[j] \notin Blank

\* Comparing bytes compares code points: well-formed texts sort by scalar.
OrderIsByCodePoint(s, t) ==
    /\ Compare(s, t) = -Compare(t, s) /\ (Compare(s, t) = 0 <=> s = t)
    /\ WellFormed(s) /\ WellFormed(t) =>
           Compare(s, t) = Compare([i \in DOMAIN PointsOf(s) |-> Encoded(PointsOf(s)[i])],
                                   [i \in DOMAIN PointsOf(t) |-> Encoded(PointsOf(t)[i])])

\* Exactly the decimal spellings of the integers in range are read as one,
\* and what is written is read back.
DigitsValue(s) == FoldLeft(LAMBDA n, b : n * 10 + b - 48, 0, s)
IsDigits(s) == s # << >> /\ \A i \in DOMAIN s : s[i] \in Digit
NumbersAreRight(s) ==
    LET body == SubSeq(s, AfterSign(s), Len(s))
        n == IF s # << >> /\ s[1] = 45 THEN -DigitsValue(body) ELSE DigitsValue(body)
        fraction(b) == \E i \in 1 .. Len(b) : /\ IsDigits(SubSeq(b, 1, i - 1)) /\ b[i] = Dot
                                              /\ \A k \in i + 1 .. Len(b) : b[k] \in Digit
        mantissa(b) == IsDigits(b) \/ fraction(b)
        power(b) == IsDigits(b) \/ (b # << >> /\ b[1] \in PlusMinus /\ IsDigits(Tail(b)))
        scientific == \E i \in DOMAIN body : /\ body[i] \in Exponent /\ mantissa(SubSeq(body, 1, i - 1))
                                             /\ power(SubSeq(body, i + 1, Len(body)))
    IN IF IsDigits(body)
       THEN IF n \in -MaxInt - 1 .. MaxInt THEN ToInt(s) = n /\ ToInt(FromInt(n)) = n
            ELSE ToInt(s) = None /\ ~ReadsAsReal(s)
       ELSE ToInt(s) = None /\ (ReadsAsReal(s) <=> fraction(body) \/ scientific \/ (body # s /\ body \in Named))
=============================================================================
