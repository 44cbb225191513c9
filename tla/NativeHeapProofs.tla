-------------------------- MODULE NativeHeapProofs ---------------------------
(***************************************************************************)
(* Every count of the native heap is exact, nothing freed is owned,        *)
(* nothing anybody sees is changed in place, for all values of the         *)
(* constants.  First the steps that allocate, the capture and the resumed  *)
(* chain keep the inductive invariant; then what follows from it.          *)
(***************************************************************************)
EXTENDS NativeHeapLemmas

----------------------------------------------------------------------------
(* Blocks are made of operands.                                            *)

\* A value is made: operands move into a new block, whose slot for itself, if
\* it has one, is an operand that is not counted.
MadeOf(k, s, y, tag, n, d, fields, self) ==
  /\ Running /\ k \in Nat /\ s \in Operands(k) /\ y \in Own /\ (local[y] = Nil \/ y \in Range(s))
  /\ tag \in {"tuple", "con", "closure", "leaf"} /\ (tag = "leaf" => k = 0) /\ n = Words(tag, k) /\ d = New(n)
  /\ fields \in Seq(AN) /\ Len(fields) = k /\ self \in 0 .. k
  /\ (self # 0 => tag = "closure" /\ fields[self] = d /\ s[self] = Nil)
  /\ \A i \in 1 .. k : i # self => fields[i] = Values(s)[i]
  /\ Alloc(n) /\ budget' \in [Tags -> Nat]
  /\ block' = [block EXCEPT ![d] = NewBlock(tag, fields, self)]
  /\ local' = [Emptied(Range(s)) EXCEPT ![y] = d]
  /\ token' = token \/ (token.shell = Nil /\ token' = NoToken)
  /\ UNCHANGED <<ks, hs, work, chain>>

\* A block is made of operands: their references become those of its fields.
LEMMA MakeStep ==
  ASSUME IInv, NEW k, NEW s, NEW y, NEW tag, NEW n, NEW d, NEW fields, NEW self,
         MadeOf(k, s, y, tag, n, d, fields, self)
  PROVE  IInv'
<1>0. /\ Running /\ k \in Nat /\ s \in Operands(k) /\ y \in Own /\ (local[y] = Nil \/ y \in Range(s))
      /\ tag \in {"tuple", "con", "closure", "leaf"} /\ (tag = "leaf" => k = 0) /\ n = Words(tag, k) /\ d = New(n)
      /\ fields \in Seq(AN) /\ Len(fields) = k /\ self \in 0 .. k
      /\ (self # 0 => tag = "closure" /\ fields[self] = d /\ s[self] = Nil)
      /\ \A i \in 1 .. k : i # self => fields[i] = Values(s)[i]
      /\ Alloc(n) /\ budget' \in [Tags -> Nat]
      /\ block' = [block EXCEPT ![d] = NewBlock(tag, fields, self)]
      /\ local' = [Emptied(Range(s)) EXCEPT ![y] = d]
      /\ token' = token \/ (token.shell = Nil /\ token' = NoToken)
      /\ UNCHANGED <<ks, hs, work, chain>>
  BY DEF MadeOf
<1> USE <1>0
<1>1. TypeInv /\ TokenInv /\ SortInv /\ CountInv /\ ShapeInv /\ ChainInv /\ PinInv /\ HandlerInv /\ PoolInv /\ AllCounted
  BY CountsAre DEF IInv
<1>2. work = {} /\ chain = NoChain
  BY DEF Running
<1>3. PICK b : b = NewBlock(tag, fields, self)
  OBVIOUS
<1>4. /\ b \in Block /\ b.tag = tag /\ b.rc = 1 /\ b.fields = fields /\ b.self = self /\ b.tag # "none"
      /\ SizeOf(b) = n /\ b.pooled = Small(n) /\ n \in Nat
  <2>1. tag \in Tags /\ self \in Nat
    BY DEF Tags
  <2>2. /\ b \in Block /\ b.tag = tag /\ b.rc = 1 /\ b.fields = fields /\ b.self = self /\ b.tag # "none"
        /\ SizeOf(b) = Words(tag, Len(fields)) /\ b.pooled = Small(Words(tag, Len(fields)))
        /\ Words(tag, Len(fields)) \in Nat
    BY <1>3, <2>1, NewBlockIs
  <2> QED
    BY <2>2
<1>5. /\ d \in Addr /\ block[d] = Dead /\ block[d].tag = "none"
      /\ class' \in [Addr -> 0 .. PoolWords] /\ freelist' \in [1 .. PoolWords -> Seq(Addr)]
  BY <1>1, <1>4, NewIs
<1>6. Shaped(b, d)
  <2>1. tag \notin FrameTags /\ tag # "handler" /\ tag # "resume" /\ tag # "none"
    BY DEF FrameTags
  <2>2. tag = "leaf" => fields = << >>
    BY EmptySeq
  <2> QED
    BY <1>4, <2>1, <2>2, RcStaticIs DEF Shaped
<1>7. Good(block, CountFn) /\ work = DyingIn(block) /\ \A a \in Addr : CountFn[a] = Total(a)
  BY IsGood
<1>8. PICK m \in [Addr -> Nat] :
           /\ CountFn[d] = 0 /\ m[d] = 1 /\ \A a \in Addr : a # d => m[a] = CountFn[a]
           /\ Good(block', m) /\ DyingIn(block') = DyingIn(block)
           /\ block'[d] = b /\ \A a \in Addr : a # d => block'[a] = block[a]
  <2>1. Grown(block', block, d, b)
    BY <1>3 DEF Grown
  <2> QED
    BY ONLY <1>4, <1>5, <1>6, <1>7, <2>1, GrownGood
<1>9. /\ local' \in [Locals -> AN] /\ local'[y] = d
      /\ \A x \in Locals : x # y => local'[x] = local[x] \/ (x \in Own /\ local'[x] = Nil)
      /\ \A a \in Addr : LocalCount(a)' = LocalCount(a) - CountIn(Values(s), a) + OneIf(d = a)
  <2>1. MovesTo(s, y, d)
    BY DEF MovesTo
  <2> QED
    BY ONLY <1>0, <1>1, <1>5, <2>1, LocalMoved
<1>10. /\ token' \in [on : BOOLEAN, shell : AN, next : Nat, arity : Nat] /\ token'.shell = token.shell
       /\ token.shell # Nil => token' = token
  <2>1. token \in [on : BOOLEAN, shell : AN, next : Nat, arity : Nat]
    BY <1>1 DEF TypeInv
  <2>2. CASE token' = token
    BY <2>1, <2>2
  <2>3. CASE token.shell = Nil /\ token' = NoToken
    BY <2>3 DEF NoToken, AN
  <2> QED
    BY <2>2, <2>3
<1>11. TypeInv'
  BY <1>1, <1>2, <1>5, <1>8, <1>9, <1>10, GoodTyped DEF TypeInv
<1>12. /\ Unowned(d) /\ Total(d) = 0 /\ ~IsMirror(d) /\ \A i : ~Released(d, i)
       /\ ShapesBut(block', block, d) /\ \A c \in Addr : c # d => SameShape(block'[c], block[c])
  <2>1. \A c \in Addr : c # d => SameShape(block'[c], block[c])
    BY <1>8 DEF SameShape
  <2> QED
    BY <1>5, <2>1, DeadUnowned DEF ShapesBut
<1>13. \A c \in Addr : \A i \in 1 .. Len(block[c].fields) : Released(c, i)' <=> Released(c, i)
  BY <1>10, HeapAssumption DEF Released
<1>14. PoolInv'
  BY <1>1, <1>4, <1>8, <1>12, PoolGrows
<1>15. HandlerInv' /\ PinInv'
  <2>1. \A i \in 1 .. Len(ks) : ks[i].fr # d
    BY <1>12 DEF Unowned
  <2>2. \A x \in Locals : local'[x] = local[x] \/ x \in Own
    BY <1>9
  <2> QED
    BY <1>1, <1>5, <1>12, <2>1, <2>2, StacksFree
<1>16. /\ Values(s) \in Seq(AN) /\ Len(Values(s)) = k
       /\ \A i \in 1 .. k : Values(s)[i] = IF s[i] = Nil THEN Nil ELSE local[s[i]]
       /\ \A i \in 1 .. k : s[i] = Nil \/ s[i] \in Locals
  BY <1>1, OperandsAre
<1>17. HeldBy(d)' = Values(s)
  <2>1. ~IsMirror(d)' /\ \A i : ~Released(d, i)'
    BY <1>10, <1>12 DEF IsMirror, Released, Unowned
  <2>2. HeldBy(d)' = [i \in 1 .. k |-> IF i = self THEN Nil ELSE fields[i]]
    BY <1>4, <1>8, <2>1 DEF HeldBy
  <2>3. \A i \in 1 .. k : HeldBy(d)'[i] = Values(s)[i]
    <3> TAKE i \in 1 .. k
    <3>1. i = self => self # 0
      OBVIOUS
    <3> QED
      BY <1>16, <2>2, <3>1
  <2>4. HeldBy(d)' \in Seq(AN)
    BY <1>5, <1>11, HeldTypedPrime
  <2>5. Len(HeldBy(d)') = k
    BY <2>2
  <2> QED
    BY <1>16, <2>3, <2>4, <2>5, SeqEqual, SMTT(40)
<1>18. \A a \in Addr : Total(a)' = m[a]
  <2> TAKE a \in Addr
  <2>1. \A c \in Addr : c # d => HeldAlike(c)
    BY <1>12, <1>13 DEF HeldAlike, IsMirror, SameShape
  <2>2. HeldCount(a)' = HeldCount(a) + CountIn(Values(s), a) /\ CountIn(Values(s), a) \in Nat
    BY <1>5, <1>11, <1>17, <2>1, HeldGrown
  <2>3. /\ ShellCount(a)' = ShellCount(a) /\ ClauseCount(a)' = ClauseCount(a) /\ FramedCount(a)' = FramedCount(a)
        /\ MadeCount(a)' = MadeCount(a)
    BY <1>10 DEF ShellCount, ClauseCount, FramedCount, MadeCount, Clauses, Framed
  <2>4. CountsNow(a) /\ CountsNow(a)' /\ OneIf(d = a) \in Nat
        /\ LocalCount(a)' = LocalCount(a) - CountIn(Values(s), a) + OneIf(d = a)
    BY <1>1, <1>9, <1>11, CountsArePrime DEF AllCounted, OneIf
  <2>6. PICK cv : cv = CountIn(Values(s), a)
    OBVIOUS
  <2>7. /\ HeldCount(a)' = HeldCount(a) + cv /\ cv \in Nat
        /\ LocalCount(a)' = LocalCount(a) - cv + OneIf(d = a)
    BY <2>2, <2>4, <2>6
  <2>8. CountsNow(a) /\ CountsNow(a)' /\ OneIf(d = a) \in Nat
    BY <2>4
  <2>5. Total(a)' = Total(a) + OneIf(d = a) /\ Total(a) \in Nat
    <3>1. PICK l : l = OneIf(d = a) - cv
      OBVIOUS
    <3>0. /\ LocalCount(a) \in Nat /\ ClauseCount(a) \in Nat /\ FramedCount(a) \in Nat
          /\ MadeCount(a) \in Nat /\ ShellCount(a) \in Nat
      BY <2>8 DEF CountsNow
    <3>2. l \in Int /\ cv \in Int /\ 0 \in Int /\ LocalCount(a)' = LocalCount(a) + l
      BY ONLY <2>7, <2>8, <3>0, <3>1
    <3>3. /\ ClauseCount(a)' = ClauseCount(a) + 0 /\ FramedCount(a)' = FramedCount(a) + 0
          /\ MadeCount(a)' = MadeCount(a) + 0 /\ ShellCount(a)' = ShellCount(a) + 0
      BY ONLY <2>3, <3>0
    <3>4. Total(a)' = Total(a) + (l + 0 + 0 + 0 + cv + 0) /\ Total(a) \in Nat
      BY ONLY <2>7, <2>8, <3>2, <3>3, TotalMoves
    <3> QED
      BY <2>7, <2>8, <3>1, <3>2, <3>4
  <2> QED
    BY <1>7, <1>8, <1>12, <2>5 DEF OneIf
<1>19. ShapeInv' /\ CountInv'
  <2>1. work' = DyingIn(block')
    BY <1>7, <1>8
  <2> QED
    BY <1>8, <1>18, <2>1, GoodIsCounted
<1>20. SortInv'
  <2>1. \A v \in AN : (IsValue(block, v) => IsValue(block', v)) /\ (IsFrame(block, v) => IsFrame(block', v))
    BY <1>5, <1>12, SortsKept
  <2>2. \A x \in Locals : IsValue(block', local'[x])
    <3> TAKE x \in Locals
    <3>1. CASE x = y
      BY <1>4, <1>8, <1>9, <3>1 DEF IsValue, ValueTags
    <3>2. CASE x # y
      <4>1. IsValue(block, local[x]) /\ local[x] \in AN
        BY <1>1 DEF SortInv, TypeInv
      <4> QED
        BY <1>9, <2>1, <3>2, <4>1 DEF IsValue
    <3> QED
      BY <3>1, <3>2
  <2>3. \A i \in 1 .. Len(hs') : IsValue(block', hs'[i].clause)
    <3> TAKE i \in 1 .. Len(hs')
    <3>1. hs'[i] = hs[i] /\ i \in 1 .. Len(hs)
      OBVIOUS
    <3>2. Clauses \in Seq(AN) /\ Len(Clauses) = Len(hs) /\ Clauses[i] = hs[i].clause
      BY <1>1, <3>1, SeqsTyped
    <3>3. hs[i].clause \in AN
      BY <3>1, <3>2
    <3> QED
      BY <1>1, <2>1, <3>1, <3>3 DEF SortInv
  <2>4. \A i \in 1 .. Len(ks') : IsFrame(block', ks'[i].fr)
    <3> TAKE i \in 1 .. Len(ks')
    <3>1. ks'[i] = ks[i] /\ i \in 1 .. Len(ks)
      OBVIOUS
    <3>2. ks[i].fr \in AN
      BY <3>1, TopAlone DEF AN
    <3> QED
      BY <1>1, <2>1, <3>1, <3>2 DEF SortInv
  <2>5. \A i \in 1 .. Len(chain'.made) : IsFrame(block', chain'.made[i])
    BY <1>2 DEF NoChain
  <2>6. ASSUME NEW i \in 1 .. Len(block'[d].fields)
        PROVE  IF block'[d].tag = "resume" THEN IsFrame(block', block'[d].fields[i]) ELSE IsValue(block', block'[d].fields[i])
    <3>1. block'[d].tag # "resume" /\ block'[d].fields = fields /\ i \in 1 .. k
      BY <1>4, <1>8
    <3>2. CASE i = self
      BY <1>4, <1>8, <3>1, <3>2 DEF IsValue, ValueTags
    <3>3. CASE i # self
      <4>1. fields[i] = Nil \/ (s[i] \in Locals /\ fields[i] = local[s[i]])
        BY <1>16, <3>1, <3>3
      <4>2. \A x \in Locals : IsValue(block, local[x]) /\ local[x] \in AN
        BY <1>1 DEF SortInv, TypeInv
      <4>3. CASE fields[i] = Nil
        BY <3>1, <4>3 DEF IsValue
      <4>4. CASE s[i] \in Locals /\ fields[i] = local[s[i]]
        BY <2>1, <3>1, <4>2, <4>4
      <4> QED
        BY <4>1, <4>3, <4>4
    <3> QED
      BY <3>2, <3>3
  <2> QED
    BY <1>1, <1>5, <1>12, <1>13, <2>2, <2>3, <2>4, <2>5, <2>6, SortGrow
<1>21. TokenInv'
  <2>1. CASE token.shell = Nil
    BY <1>10, <2>1 DEF TokenInv
  <2>2. CASE token.shell # Nil
    <3>1. token' = token /\ token.shell \in Addr /\ token.shell # d
      BY <1>10, <1>12, <2>2, ShellAlone DEF Unowned
    <3>2. block'[token.shell] = block[token.shell]
      BY <1>8, <3>1
    <3> QED
      BY <3>1, <3>2, TokenKept
  <2> QED
    BY <2>1, <2>2
<1>22. ChainInv'
  BY <1>2 DEF ChainInv, NoChain
<1> QED
  BY <1>11, <1>14, <1>15, <1>19, <1>20, <1>21, <1>22 DEF IInv

\* What the allocator is asked for.
LEMMA AskIs ==
  ASSUME TypeInv, NEW tag \in Tags, NEW n, Ask(tag, n)
  PROVE  Alloc(n) /\ budget' \in [Tags -> Nat]
<1>1. Alloc(n) /\ budget[tag] > 0 /\ budget' = [budget EXCEPT ![tag] = @ - 1] /\ budget \in [Tags -> Nat]
  BY DEF Ask, TypeInv
<1>2. budget[tag] - 1 \in Nat
  BY <1>1
<1> QED
  BY <1>1, <1>2

\* A leaf has none.
LEMMA NoOperands == << >> \in Operands(0) /\ 0 \in Nat
BY DEF Operands

\* The constructors keep the invariant.
LEMMA KeepsMake ==
  ASSUME IInv, NEW k \in Nat, NEW s \in Operands(k), NEW y \in Locals,
         NEW tag \in {"tuple", "con", "closure", "leaf"}, tag = "leaf" => k = 0, Make(tag, s, y)
  PROVE  IInv'
<1>1. TypeInv
  BY DEF IInv
<1>2. Values(s) \in Seq(AN) /\ Len(Values(s)) = k /\ Len(s) = k
  BY <1>1, OperandsAre
<1>3. PICK n, d : n = Words(tag, k) /\ d = New(n)
  OBVIOUS
<1>4. /\ Running /\ y \in Own /\ (local[y] = Nil \/ y \in Range(s)) /\ Ask(tag, n)
      /\ block' = [block EXCEPT ![d] = NewBlock(tag, Values(s), 0)]
      /\ local' = [Emptied(Range(s)) EXCEPT ![y] = d]
      /\ UNCHANGED <<ks, hs, work, token, chain>>
  BY <1>2, <1>3 DEF Make
<1>5. Alloc(n) /\ budget' \in [Tags -> Nat]
  <2>1. tag \in Tags
    BY DEF Tags
  <2> QED
    BY <1>1, <1>4, <2>1, AskIs
<1>6. 0 \in 0 .. k /\ \A i \in 1 .. k : i # 0 => Values(s)[i] = Values(s)[i]
  OBVIOUS
<1>7. MadeOf(k, s, y, tag, n, d, Values(s), 0)
  BY <1>2, <1>3, <1>4, <1>5, <1>6 DEF MadeOf
<1> QED
  BY <1>7, MakeStep

\* jq_closure patched to refer to itself keeps the invariant: the self slot is
\* not counted.
LEMMA KeepsMakeRec ==
  ASSUME IInv, NEW k \in Nat, NEW s \in Operands(k), NEW i \in 1 .. k, NEW y \in Locals, MakeRec(s, i, y)
  PROVE  IInv'
<1>1. TypeInv /\ ShapeInv /\ PoolInv
  BY DEF IInv
<1>2. Values(s) \in Seq(AN) /\ Len(Values(s)) = k /\ Len(s) = k
  BY <1>1, OperandsAre
<1>3. PICK n, d : n = Words("closure", k) /\ d = New(n)
  OBVIOUS
<1>4. /\ Running /\ y \in Own /\ local[y] = Nil /\ s[i] = Nil /\ Ask("closure", n)
      /\ block' = [block EXCEPT ![d] = NewBlock("closure", [Values(s) EXCEPT ![i] = d], i)]
      /\ local' = [Emptied(Range(s)) EXCEPT ![y] = d]
      /\ UNCHANGED <<ks, hs, work, token, chain>>
  BY <1>2, <1>3 DEF MakeRec, Vacant
<1>5. Alloc(n) /\ budget' \in [Tags -> Nat]
  <2>1. "closure" \in Tags
    BY DEF Tags
  <2> QED
    BY <1>1, <1>4, <2>1, AskIs
<1>6. d \in Addr
  <2>1. n \in Nat
    BY <1>3 DEF Words, HeaderWords
  <2> QED
    BY <1>1, <1>3, <1>5, <2>1, NewIs
<1>7. PICK fields : fields = [Values(s) EXCEPT ![i] = d]
  OBVIOUS
<1>8. /\ fields \in Seq(AN) /\ Len(fields) = k /\ fields[i] = d
      /\ \A j \in 1 .. k : j # i => fields[j] = Values(s)[j]
  <2>1. PICK v : v = Values(s)
    OBVIOUS
  <2>2. v \in Seq(AN) /\ Len(v) = k /\ d \in AN /\ fields = [v EXCEPT ![i] = d]
    BY <1>2, <1>6, <1>7, <2>1 DEF AN
  <2>3. /\ fields \in Seq(AN) /\ Len(fields) = k /\ fields[i] = d
        /\ \A j \in 1 .. k : j # i => fields[j] = v[j]
    BY ONLY <2>2, i \in 1 .. k, k \in Nat, ExceptSeq
  <2> QED
    BY <2>1, <2>3
<1>9. i \in 0 .. k /\ "closure" # "leaf"
  OBVIOUS
<1>10. block' = [block EXCEPT ![d] = NewBlock("closure", fields, i)]
  BY <1>4, <1>7
<1>11. PICK tag : tag = "closure"
  OBVIOUS
<1>12. /\ tag \in {"tuple", "con", "closure", "leaf"} /\ (tag = "leaf" => k = 0) /\ n = Words(tag, k) /\ d = New(n)
       /\ fields \in Seq(AN) /\ Len(fields) = k /\ (i # 0 => tag = "closure" /\ fields[i] = d /\ s[i] = Nil)
       /\ block' = [block EXCEPT ![d] = NewBlock(tag, fields, i)]
       /\ (local[y] = Nil \/ y \in Range(s)) /\ (token' = token \/ (token.shell = Nil /\ token' = NoToken))
       /\ local' = [Emptied(Range(s)) EXCEPT ![y] = d] /\ UNCHANGED <<ks, hs, work, chain>>
  BY <1>3, <1>4, <1>8, <1>10, <1>11
<1>13. MadeOf(k, s, y, tag, n, d, fields, i)
  BY <1>4, <1>5, <1>8, <1>9, <1>12 DEF MadeOf
<1> QED
  BY <1>13, MakeStep

\* A shell is used again.
LEMMA ReuseStep ==
  ASSUME IInv, Running, NEW k \in Nat, NEW s \in Operands(k), NEW y \in Own, local[y] = Nil \/ y \in Range(s),
         NEW d, d = token.shell, d # Nil, k = token.arity,
         NEW b, b = [NewBlock("con", Values(s), 0) EXCEPT !.pooled = block[d].pooled],
         block' = [block EXCEPT ![d] = b],
         local' = [Emptied(Range(s)) EXCEPT ![y] = d],
         token' = NoToken, UNCHANGED <<pool, ks, hs, work, chain, budget>>
  PROVE  IInv'
<1>1. TypeInv /\ TokenInv /\ SortInv /\ CountInv /\ ShapeInv /\ ChainInv /\ PinInv /\ HandlerInv /\ PoolInv /\ AllCounted
  BY CountsAre DEF IInv
<1>2. /\ work = {} /\ chain = NoChain /\ token.next > Len(block[d].fields)
      /\ d \in Addr /\ block[d].tag = "con" /\ block[d].rc = 1 /\ Len(block[d].fields) = k /\ token.next \in Nat
      /\ Total(d) = 1
  <2>1. d \in Addr /\ block[d].tag = "con" /\ block[d].rc = 1 /\ Len(block[d].fields) = k /\ Total(d) = 1
    BY <1>1, ShellAlone DEF TokenInv, Alone
  <2>2. token.on /\ token.next \in Nat
    BY <1>1 DEF TokenInv, TypeInv
  <2>3. ~(token.next <= Len(block[d].fields)) /\ work = {} /\ chain = NoChain
    BY <2>2 DEF Running, Taking
  <2> QED
    BY <2>1, <2>2, <2>3
<1>3. /\ Values(s) \in Seq(AN) /\ Len(Values(s)) = k
      /\ \A i \in 1 .. k : Values(s)[i] = IF s[i] = Nil THEN Nil ELSE local[s[i]]
      /\ \A i \in 1 .. k : s[i] = Nil \/ s[i] \in Locals
  BY <1>1, OperandsAre
<1>4. /\ b \in Block /\ b.tag = "con" /\ b.rc = 1 /\ b.fields = Values(s) /\ b.self = 0
      /\ b.pooled = block[d].pooled
  <2>1. block[d].pooled \in BOOLEAN
    BY <1>1, <1>2 DEF TypeInv, Block
  <2>2. b = [tag |-> "con", rc |-> 1, fields |-> Values(s), self |-> 0, pooled |-> block[d].pooled]
    BY DEF NewBlock
  <2> QED
    BY <1>3, <2>1, <2>2 DEF Block, Tags
<1>5. Good(block, CountFn) /\ work = DyingIn(block) /\ \A a \in Addr : CountFn[a] = Total(a)
  BY IsGood
<1>6. block' \in [Addr -> Block] /\ block'[d] = b /\ \A a \in Addr : a # d => block'[a] = block[a]
  BY <1>1, <1>2, <1>4 DEF TypeInv
<1>7. Good(block', CountFn)
  <2>1. Shaped(b, d)
    BY <1>2, <1>3, <1>4, RcStaticIs DEF Shaped, FrameTags
  <2>2. Exact(b.rc, CountFn[d])
    BY <1>2, <1>4, <1>5 DEF Exact
  <2> QED
    BY <1>5, <1>6, <2>1, <2>2 DEF Good
<1>8. DyingIn(block') = DyingIn(block)
  <2>1. \A a \in Addr : (block'[a].tag # "none" /\ block'[a].rc = 0) <=> (block[a].tag # "none" /\ block[a].rc = 0)
    BY <1>2, <1>4, <1>6
  <2> QED
    BY <2>1 DEF DyingIn
<1>9. /\ local' \in [Locals -> AN] /\ local'[y] = d
      /\ \A x \in Locals : x # y => local'[x] = local[x] \/ (x \in Own /\ local'[x] = Nil)
      /\ \A a \in Addr : LocalCount(a)' = LocalCount(a) - CountIn(Values(s), a) + OneIf(d = a)
  <2>1. MovesTo(s, y, d)
    BY DEF MovesTo
  <2> QED
    BY ONLY <1>1, <1>2, <2>1, k \in Nat, s \in Operands(k), y \in Own, local[y] = Nil \/ y \in Range(s), LocalMoved
<1>10. /\ token' \in [on : BOOLEAN, shell : AN, next : Nat, arity : Nat] /\ token'.shell = Nil
  BY DEF NoToken, AN
<1>11. TypeInv'
  BY <1>1, <1>6, <1>9, <1>10 DEF TypeInv, pool
<1>12. ShapesBut(block', block, d) /\ (\A c \in Addr : c # d => SameShape(block'[c], block[c])) /\ d # Nil
       /\ \A c \in Addr : c # Nil
  BY <1>2, <1>6, HeapAssumption DEF ShapesBut, SameShape
<1>13. \A c \in Addr : \A i : ~Released(c, i)' /\ (c # d => ~Released(c, i))
  BY <1>10, <1>12 DEF Released
<1>14. PoolInv'
  <2>1. /\ class' = class /\ freelist' = freelist
        /\ \A a \in Addr : /\ block'[a].tag = block[a].tag /\ block'[a].pooled = block[a].pooled
                           /\ Len(block'[a].fields) = Len(block[a].fields)
    BY <1>2, <1>3, <1>4, <1>6 DEF pool
  <2> QED
    BY <1>1, <2>1 DEF PoolInv
<1>15. \A i \in 1 .. Len(ks) : ks[i].fr # d
  BY <1>2, TopAlone DEF FrameTags
<1>16. HandlerInv' /\ PinInv'
  <2>1. \A x \in Locals : local'[x] = local[x] \/ x \in Own
    BY <1>9
  <2> QED
    BY <1>1, <1>2, <1>12, <1>15, <2>1, StacksFree
<1>17. HeldBy(d)' = Values(s)
  <2>1. ~IsMirror(d)'
    BY <1>15 DEF IsMirror
  <2>2. HeldBy(d)' = [i \in 1 .. k |-> Values(s)[i]]
    BY <1>2, <1>3, <1>4, <1>6, <1>13, <2>1 DEF HeldBy
  <2> QED
    BY <1>3, <2>2
<1>18. \A a \in Addr : Total(a)' = CountFn[a]
  <2> TAKE a \in Addr
  <2>1. \A c \in Addr : c # d => HeldAlike(c)
    BY <1>12, <1>13 DEF HeldAlike, IsMirror, SameShape
  <2>2. HeldCount(a)' = HeldCount(a) - CountIn(HeldBy(d), a) + CountIn(HeldBy(d)', a)
    BY <1>1, <1>2, <1>11, <2>1, HeldChanged
  <2>3. CountIn(HeldBy(d), a) = 0
    <3>1. \A i \in 1 .. Len(block[d].fields) : Released(d, i)
      BY <1>2 DEF Released
    <3> QED
      BY <1>1, <1>2, <3>1, HeldNone
  <2>4. PICK cv : cv = CountIn(Values(s), a)
    OBVIOUS
  <2>5. cv \in Nat
    BY <1>3, <2>4, CountInIs
  <2>6. CountsNow(a) /\ CountsNow(a)' /\ OneIf(d = a) \in Nat
    BY <1>1, <1>11, CountsArePrime DEF AllCounted, OneIf
  <2>7. /\ LocalCount(a) \in Nat /\ ClauseCount(a) \in Nat /\ FramedCount(a) \in Nat
        /\ MadeCount(a) \in Nat /\ HeldCount(a) \in Nat
    BY <2>6 DEF CountsNow
  <2>8. HeldCount(a)' = HeldCount(a) + cv
    BY <1>17, <2>2, <2>3, <2>4, <2>5, <2>7
  <2>9. PICK l, r : l = OneIf(d = a) - cv /\ r = 0 - OneIf(d = a)
    OBVIOUS
  <2>10. l \in Int /\ cv \in Int /\ 0 \in Int /\ r \in Int
    BY <2>5, <2>6, <2>9
  <2>11. LocalCount(a)' = LocalCount(a) + l
    BY <1>9, <2>4, <2>5, <2>6, <2>7, <2>9
  <2>12. ShellCount(a)' = ShellCount(a) + r
    <3>1. ShellCount(a) = OneIf(d = a) /\ ShellCount(a)' = 0
      BY <1>10, <1>12 DEF ShellCount, OneIf
    <3> QED
      BY <2>6, <2>9, <3>1
  <2>13. /\ ClauseCount(a)' = ClauseCount(a) + 0 /\ FramedCount(a)' = FramedCount(a) + 0
         /\ MadeCount(a)' = MadeCount(a) + 0
    BY <2>7 DEF ClauseCount, FramedCount, MadeCount, Clauses, Framed
  <2>14. Total(a)' = Total(a) + (l + 0 + 0 + 0 + cv + r) /\ Total(a) \in Nat
    BY ONLY <2>6, <2>8, <2>10, <2>11, <2>12, <2>13, TotalMoves
  <2> QED
    BY <1>5, <2>5, <2>6, <2>9, <2>14
<1>19. ShapeInv' /\ CountInv'
  <2>1. work' = DyingIn(block')
    BY <1>5, <1>8
  <2> QED
    BY <1>7, <1>18, <2>1, GoodIsCounted
<1>20. SortInv'
  <2>1. \A v \in AN : (IsValue(block, v) => IsValue(block', v)) /\ (IsFrame(block, v) => IsFrame(block', v))
    <3>1. \A a \in Addr : block'[a].tag = block[a].tag
      BY <1>2, <1>4, <1>6
    <3> QED
      BY <3>1 DEF IsValue, IsFrame, AN
  <2>2. \A x \in Locals : IsValue(block', local'[x])
    <3> TAKE x \in Locals
    <3>1. CASE x = y
      BY <1>4, <1>6, <1>9, <3>1 DEF IsValue, ValueTags
    <3>2. CASE x # y
      <4>1. IsValue(block, local[x]) /\ local[x] \in AN
        BY <1>1 DEF SortInv, TypeInv
      <4> QED
        BY <1>9, <2>1, <3>2, <4>1 DEF IsValue
    <3> QED
      BY <3>1, <3>2
  <2>3. \A i \in 1 .. Len(hs') : IsValue(block', hs'[i].clause)
    <3> TAKE i \in 1 .. Len(hs')
    <3>1. hs'[i] = hs[i] /\ i \in 1 .. Len(hs)
      OBVIOUS
    <3>2. Clauses \in Seq(AN) /\ Len(Clauses) = Len(hs) /\ Clauses[i] = hs[i].clause
      BY <1>1, <3>1, SeqsTyped
    <3>3. hs[i].clause \in AN
      BY <3>1, <3>2
    <3> QED
      BY <1>1, <2>1, <3>1, <3>3 DEF SortInv
  <2>4. \A i \in 1 .. Len(ks') : IsFrame(block', ks'[i].fr)
    <3> TAKE i \in 1 .. Len(ks')
    <3>1. ks'[i] = ks[i] /\ i \in 1 .. Len(ks)
      OBVIOUS
    <3>2. ks[i].fr \in AN
      BY <3>1, TopAlone DEF AN
    <3> QED
      BY <1>1, <2>1, <3>1, <3>2 DEF SortInv
  <2>5. \A i \in 1 .. Len(chain'.made) : IsFrame(block', chain'.made[i])
    BY <1>2 DEF NoChain
  <2>6. ASSUME NEW c \in Addr, NEW i \in 1 .. Len(block'[c].fields)
        PROVE  IF block'[c].tag = "resume" THEN IsFrame(block', block'[c].fields[i]) ELSE IsValue(block', block'[c].fields[i])
    <3>1. CASE c = d
      <4>1. block'[c].tag # "resume" /\ block'[c].fields = Values(s) /\ i \in 1 .. k
        BY <1>3, <1>4, <1>6, <3>1
      <4>2. Values(s)[i] = Nil \/ (s[i] \in Locals /\ Values(s)[i] = local[s[i]])
        BY <1>3, <4>1
      <4>3. \A x \in Locals : IsValue(block, local[x]) /\ local[x] \in AN
        BY <1>1 DEF SortInv, TypeInv
      <4>4. CASE Values(s)[i] = Nil
        BY <4>1, <4>4 DEF IsValue
      <4>5. CASE s[i] \in Locals /\ Values(s)[i] = local[s[i]]
        BY <2>1, <4>1, <4>3, <4>5
      <4> QED
        BY <4>2, <4>4, <4>5
    <3>2. CASE c # d
      <4>1. block'[c] = block[c]
        BY <1>6, <3>2
      <4>2. i \in 1 .. Len(block[c].fields) /\ ~Released(c, i)
        BY <1>13, <3>2, <4>1
      <4>3. IF block[c].tag = "resume" THEN IsFrame(block, block[c].fields[i]) ELSE IsValue(block, block[c].fields[i])
        BY <1>1, <4>2 DEF SortInv
      <4>4. block[c].fields[i] \in AN
        <5>1. block[c].fields \in Seq(AN)
          BY <1>1, HeldTyped
        <5> QED
          BY <4>2, <5>1
      <4> QED
        BY <2>1, <4>1, <4>3, <4>4
    <3> QED
      BY <3>1, <3>2
  <2> QED
    BY <2>2, <2>3, <2>4, <2>5, <2>6 DEF SortInv
<1>21. TokenInv' /\ ChainInv'
  BY <1>2, <1>10 DEF TokenInv, ChainInv, NoChain
<1> QED
  BY <1>11, <1>14, <1>16, <1>19, <1>20, <1>21 DEF IInv

\* jq_con_reuse keeps the invariant, whether it fills the shell or asks the
\* allocator.
LEMMA KeepsConReuse ==
  ASSUME IInv, NEW k \in Nat, NEW s \in Operands(k), NEW y \in Locals, ConReuse(s, y)
  PROVE  IInv'
<1>1. TypeInv
  BY DEF IInv
<1>2. Values(s) \in Seq(AN) /\ Len(Values(s)) = k /\ Len(s) = k
  BY <1>1, OperandsAre
<1>3. /\ Running /\ y \in Own /\ (local[y] = Nil \/ y \in Range(s)) /\ k = token.arity /\ token' = NoToken
      /\ UNCHANGED <<ks, hs, work, chain>>
  BY <1>2 DEF ConReuse
<1>4. CASE token.shell = Nil
  <2>1. PICK n, d : n = Words("con", k) /\ d = New(n)
    OBVIOUS
  <2>2. /\ Ask("con", n) /\ block' = [block EXCEPT ![d] = NewBlock("con", Values(s), 0)]
        /\ local' = [Emptied(Range(s)) EXCEPT ![y] = d]
    BY <1>2, <1>4, <2>1 DEF ConReuse
  <2>3. Alloc(n) /\ budget' \in [Tags -> Nat]
    <3>1. "con" \in Tags
      BY DEF Tags
    <3> QED
      BY <1>1, <2>2, <3>1, AskIs
  <2>4. 0 \in 0 .. k /\ "con" # "leaf"
    OBVIOUS
  <2>5. MadeOf(k, s, y, "con", n, d, Values(s), 0)
    BY <1>2, <1>3, <1>4, <2>1, <2>2, <2>3, <2>4 DEF MadeOf
  <2> QED
    BY <2>5, MakeStep
<1>5. CASE token.shell # Nil
  <2>1. PICK d : d = token.shell
    OBVIOUS
  <2>2. PICK b : b = [NewBlock("con", Values(s), 0) EXCEPT !.pooled = block[d].pooled]
    OBVIOUS
  <2>3. /\ block' = [block EXCEPT ![d] = b] /\ local' = [Emptied(Range(s)) EXCEPT ![y] = d]
        /\ UNCHANGED <<pool, budget>>
    BY <1>5, <2>1, <2>2 DEF ConReuse
  <2> QED
    BY <1>3, <1>5, <2>1, <2>2, <2>3, ReuseStep
<1> QED
  BY <1>4, <1>5

\* A new frame is pushed; the locals it pins are the running activation's.
LEMMA PushPins ==
  ASSUME IInv, NEW d \in Addr, block[d] = Dead, NEW s \in Seq(Locals),
         ks' = Append(ks, [fr |-> d, pins |-> s]), ShapesBut(block', block, d),
         \A x \in Locals : local'[x] = local[x] \/ x \in Own,
         \A j \in 1 .. Len(s) : s[j] \in Own,
         \A j, l \in 1 .. Len(s) : s[j] = s[l] => j = l,
         s # << >> => block'[d].tag = "frame" /\ Len(block'[d].fields) = Len(s)
                      /\ \A j \in 1 .. Len(s) : block'[d].fields[j] = local'[s[j]]
  PROVE  PinInv'
<1>1. TypeInv /\ PinInv
  BY DEF IInv
<1>2. PICK e : e = [fr |-> d, pins |-> s]
  OBVIOUS
<1>3. /\ e \in [fr : Addr, pins : Seq(Locals)] /\ e.fr = d /\ e.pins = s /\ ks' = Append(ks, e)
  BY <1>2
<1>4. /\ Len(ks') = Len(ks) + 1 /\ Len(ks) \in Nat /\ ks'[Len(ks) + 1] = e
      /\ \A i \in 1 .. Len(ks) : ks'[i] = ks[i]
  BY <1>1, <1>3, KsPush
<1>5. ASSUME NEW i \in 1 .. Len(ks)
      PROVE  /\ ks'[i] = ks[i] /\ block'[ks[i].fr].tag = block[ks[i].fr].tag
             /\ block'[ks[i].fr].fields = block[ks[i].fr].fields
             /\ \A j \in 1 .. Len(ks[i].pins) : local'[ks[i].pins[j]] = local[ks[i].pins[j]]
  <2>1. ks[i].fr \in Addr /\ ks[i].pins \in Seq(Locals) /\ ks[i].fr # d
    BY TopAlone, DeadIs DEF FrameTags
  <2>2. ASSUME NEW j \in 1 .. Len(ks[i].pins) PROVE local'[ks[i].pins[j]] = local[ks[i].pins[j]]
    <3>1. ks[i].pins[j] \in Locals
      BY <2>1
    <3> QED
      BY <1>1, <3>1, OwnIs
  <2> QED
    BY <1>4, <2>1, <2>2 DEF ShapesBut, SameShape
<1>6. \A i \in 1 .. Len(ks') : i \in 1 .. Len(ks) \/ i = Len(ks) + 1
  BY <1>4
<1>7. ASSUME NEW i \in 1 .. Len(ks'), ks'[i].pins # << >>
      PROVE  /\ block'[ks'[i].fr].tag = "frame" /\ Len(block'[ks'[i].fr].fields) = Len(ks'[i].pins)
             /\ \A j \in 1 .. Len(ks'[i].pins) : block'[ks'[i].fr].fields[j] = local'[ks'[i].pins[j]]
  <2>1. CASE i \in 1 .. Len(ks)
    <3>1. /\ ks'[i] = ks[i] /\ block'[ks[i].fr].tag = block[ks[i].fr].tag
          /\ block'[ks[i].fr].fields = block[ks[i].fr].fields
          /\ \A j \in 1 .. Len(ks[i].pins) : local'[ks[i].pins[j]] = local[ks[i].pins[j]]
      BY <1>5, <2>1
    <3>2. /\ block[ks[i].fr].tag = "frame" /\ Len(block[ks[i].fr].fields) = Len(ks[i].pins)
          /\ \A j \in 1 .. Len(ks[i].pins) : block[ks[i].fr].fields[j] = local[ks[i].pins[j]]
      BY <1>1, <1>7, <2>1, <3>1 DEF PinInv
    <3> QED
      BY <3>1, <3>2, SMTT(40)
  <2>2. CASE i = Len(ks) + 1
    <3>1. ks'[i].fr = d /\ ks'[i].pins = s
      BY <1>3, <1>4, <2>2
    <3> QED
      BY <1>7, <3>1
  <2> QED
    BY <1>6, <2>1, <2>2
<1>8. ASSUME NEW i \in 1 .. Len(ks'), NEW k \in 1 .. Len(ks'),
             NEW j \in 1 .. Len(ks'[i].pins), NEW l \in 1 .. Len(ks'[k].pins), ks'[i].pins[j] = ks'[k].pins[l]
      PROVE  i = k /\ j = l
  <2>1. \A f \in 1 .. Len(ks) : \A g \in 1 .. Len(ks[f].pins) : \A h \in 1 .. Len(s) : ks[f].pins[g] # s[h]
    BY <1>1, OwnIs
  <2>2. ks'[Len(ks) + 1].pins = s
    BY <1>3, <1>4
  <2>3. CASE i \in 1 .. Len(ks) /\ k \in 1 .. Len(ks)
    <3>1. ks'[i] = ks[i] /\ ks'[k] = ks[k]
      BY <1>5, <2>3
    <3>2. /\ j \in 1 .. Len(ks[i].pins) /\ l \in 1 .. Len(ks[k].pins) /\ ks[i].pins[j] = ks[k].pins[l]
      BY <1>8, <3>1
    <3>3. \A f, g \in 1 .. Len(ks) : \A h \in 1 .. Len(ks[f].pins) : \A m \in 1 .. Len(ks[g].pins) :
            ks[f].pins[h] = ks[g].pins[m] => f = g /\ h = m
      BY <1>1 DEF PinInv
    <3> QED
      BY ONLY <2>3, <3>2, <3>3
  <2>4. CASE i \in 1 .. Len(ks) /\ k = Len(ks) + 1
    <3>1. ks'[i] = ks[i] /\ ks'[k].pins = s
      BY <1>5, <2>2, <2>4
    <3> QED
      BY <1>8, <2>1, <2>4, <3>1
  <2>5. CASE i = Len(ks) + 1 /\ k \in 1 .. Len(ks)
    <3>1. ks'[k] = ks[k] /\ ks'[i].pins = s
      BY <1>5, <2>2, <2>5
    <3> QED
      BY <1>8, <2>1, <2>5, <3>1
  <2>6. CASE i = Len(ks) + 1 /\ k = Len(ks) + 1
    BY <1>8, <2>2, <2>6
  <2> QED
    BY <1>6, <2>3, <2>4, <2>5, <2>6
<1> QED
  BY <1>7, <1>8 DEF PinInv

\* A frame that is no handler leaves the handler stack in step.
LEMMA PushCall ==
  ASSUME IInv, NEW d \in Addr, block[d] = Dead, NEW s \in Seq(Locals),
         ks' = Append(ks, [fr |-> d, pins |-> s]), ShapesBut(block', block, d),
         block'[d].tag # "handler", UNCHANGED hs
  PROVE  HandlerInv'
<1>1. TypeInv /\ HandlerInv
  BY DEF IInv
<1>2. PICK e : e = [fr |-> d, pins |-> s]
  OBVIOUS
<1>3. /\ e \in [fr : Addr, pins : Seq(Locals)] /\ e.fr = d /\ ks' = Append(ks, e)
  BY <1>2
<1>4. /\ Len(ks') = Len(ks) + 1 /\ Len(ks) \in Nat /\ ks'[Len(ks) + 1] = e
      /\ \A i \in 1 .. Len(ks) : ks'[i] = ks[i]
  BY <1>1, <1>3, KsPush
<1>5. \A i \in 1 .. Len(ks) : /\ ks'[i] = ks[i] /\ block'[ks[i].fr].tag = block[ks[i].fr].tag /\ ks[i].fr # d
                              /\ i \in 1 .. Len(ks')
  <2> TAKE i \in 1 .. Len(ks)
  <2>1. ks[i].fr \in Addr /\ ks[i].fr # d
    BY TopAlone, DeadIs DEF FrameTags
  <2> QED
    BY <1>4, <2>1 DEF ShapesBut, SameShape
<1>6. \A i \in 1 .. Len(ks') : i \in 1 .. Len(ks) \/ (i = Len(ks) + 1 /\ ks'[i].fr = d)
  BY <1>3, <1>4
<1>7. /\ \A p \in 1 .. Len(ks) : block[ks[p].fr].tag = "handler" => \E i \in 1 .. Len(hs) : hs[i].hf = ks[p].fr
      /\ \A i \in 1 .. Len(hs) : \E p \in 1 .. Len(ks) : hs[i].hf = ks[p].fr /\ block[ks[p].fr].tag = "handler"
      /\ \A i, j \in 1 .. Len(hs) : \A p, q \in 1 .. Len(ks) :
            hs[i].hf = ks[p].fr /\ hs[j].hf = ks[q].fr => (i < j <=> p < q)
  BY <1>1 DEF HandlerInv
<1>8. \A i \in 1 .. Len(hs) : hs[i].hf # d
  BY <1>5, <1>7
<1>9. \A p \in 1 .. Len(ks') : block'[ks'[p].fr].tag = "handler" => \E i \in 1 .. Len(hs') : hs'[i].hf = ks'[p].fr
  <2> TAKE p \in 1 .. Len(ks')
  <2> HAVE block'[ks'[p].fr].tag = "handler"
  <2>1. p \in 1 .. Len(ks)
    BY <1>6
  <2> QED
    BY <1>5, <1>7, <2>1
<1>10. \A i \in 1 .. Len(hs') : \E p \in 1 .. Len(ks') : hs'[i].hf = ks'[p].fr /\ block'[ks'[p].fr].tag = "handler"
  <2> TAKE i \in 1 .. Len(hs')
  <2>1. PICK p \in 1 .. Len(ks) : hs[i].hf = ks[p].fr /\ block[ks[p].fr].tag = "handler"
    BY <1>7
  <2>2. p \in 1 .. Len(ks') /\ hs'[i].hf = ks'[p].fr /\ block'[ks'[p].fr].tag = "handler"
    BY <1>5, <2>1
  <2> QED
    BY <2>2
<1>11. \A i, j \in 1 .. Len(hs') : \A p, q \in 1 .. Len(ks') :
            hs'[i].hf = ks'[p].fr /\ hs'[j].hf = ks'[q].fr => (i < j <=> p < q)
  <2> TAKE i, j \in 1 .. Len(hs')
  <2> TAKE p, q \in 1 .. Len(ks')
  <2> HAVE hs'[i].hf = ks'[p].fr /\ hs'[j].hf = ks'[q].fr
  <2>1. p \in 1 .. Len(ks) /\ q \in 1 .. Len(ks) /\ i \in 1 .. Len(hs) /\ j \in 1 .. Len(hs)
    BY <1>6, <1>8
  <2> QED
    BY <1>5, <1>7, <2>1
<1> QED
  BY <1>9, <1>10, <1>11 DEF HandlerInv

\* What the new frame holds does not count while it mirrors locals.
LEMMA NilsCountNothing ==
  ASSUME NEW t \in Seq(AN), \A i \in 1 .. Len(t) : t[i] = Nil, NEW a \in Addr
  PROVE  CountIn(t, a) = 0
<1>1. a # Nil
  BY HeapAssumption
<1>2. \A i \in 1 .. Len(t) : t[i] # a
  BY <1>1
<1> QED
  BY <1>2, CountInIs

\* jq_frame_alloc and jq_ks_push keep the invariant: a frame mirrors its
\* locals and owns none.
LEMMA KeepsCall == ASSUME IInv, NEW k \in Nat, NEW s \in Operands(k), Call(s) PROVE IInv'
<1>1. TypeInv /\ TokenInv /\ SortInv /\ CountInv /\ ShapeInv /\ ChainInv /\ PinInv /\ HandlerInv /\ PoolInv /\ AllCounted
  BY CountsAre DEF IInv
<1>2. work = {} /\ chain = NoChain /\ ~token.on /\ token.shell = Nil
  BY <1>1 DEF Call, Suspendable, Running, TokenInv
<1>3. /\ s \in [1 .. k -> Own \cup {Nil}] /\ DOMAIN s = 1 .. k /\ Len(s) = k
      /\ \A i \in 1 .. k : s[i] = Nil \/ (s[i] \in Own /\ s[i] \in Locals /\ local[s[i]] # Nil)
      /\ \A i, j \in 1 .. k : s[i] = s[j] /\ i # j => s[i] = Nil
      /\ Values(s) \in Seq(AN) /\ Len(Values(s)) = k
      /\ \A i \in 1 .. k : Values(s)[i] = IF s[i] = Nil THEN Nil ELSE local[s[i]]
  BY <1>1, OperandsAre
<1>4. \A i \in 1 .. k : s[i] # Nil
  <2>1. Nil \notin Range(s)
    BY DEF Call
  <2> QED
    BY <1>3, <2>1 DEF Range
<1>5. /\ s \in Seq(Locals) /\ \A i \in 1 .. k : s[i] \in Own /\ s[i] \in Locals
      /\ \A i, j \in 1 .. k : s[i] = s[j] => i = j
      /\ \A i \in 1 .. k : Values(s)[i] = local[s[i]]
  <2>1. \A i \in 1 .. k : s[i] \in Own /\ s[i] \in Locals
    BY <1>3, <1>4
  <2>2. s = [i \in 1 .. k |-> s[i]]
    BY <1>3
  <2>3. s \in Seq(Locals)
    BY <2>1, <2>2
  <2> QED
    BY <1>3, <1>4, <2>1, <2>3
<1>6. PICK n, d : n = Words("frame", k) /\ d = New(n)
  OBVIOUS
<1>7. PICK b : b = NewBlock("frame", Values(s), 0)
  OBVIOUS
<1>8. /\ Ask("frame", n) /\ block' = [block EXCEPT ![d] = b] /\ ks' = Append(ks, [fr |-> d, pins |-> s])
      /\ UNCHANGED <<local, hs, work, token, chain>>
  BY <1>3, <1>6, <1>7 DEF Call
<1>9. Alloc(n) /\ budget' \in [Tags -> Nat]
  <2>1. "frame" \in Tags
    BY DEF Tags
  <2> QED
    BY <1>1, <1>8, <2>1, AskIs
<1>10. /\ b \in Block /\ b.tag = "frame" /\ b.rc = 1 /\ b.fields = Values(s) /\ b.self = 0 /\ b.tag # "none"
       /\ SizeOf(b) = n /\ b.pooled = Small(n) /\ n \in Nat
  <2>1. "frame" \in Tags /\ 0 \in Nat
    BY DEF Tags
  <2>2. /\ b \in Block /\ b.tag = "frame" /\ b.rc = 1 /\ b.fields = Values(s) /\ b.self = 0 /\ b.tag # "none"
        /\ SizeOf(b) = Words("frame", Len(Values(s))) /\ b.pooled = Small(Words("frame", Len(Values(s))))
        /\ Words("frame", Len(Values(s))) \in Nat
    BY <1>3, <1>7, <2>1, NewBlockIs
  <2> QED
    BY <1>3, <1>6, <2>2
<1>11. /\ d \in Addr /\ block[d] = Dead /\ block[d].tag = "none"
       /\ class' \in [Addr -> 0 .. PoolWords] /\ freelist' \in [1 .. PoolWords -> Seq(Addr)]
  BY <1>1, <1>6, <1>9, <1>10, NewIs
<1>12. Shaped(b, d)
  BY <1>3, <1>10, RcStaticIs DEF Shaped
<1>13. Good(block, CountFn) /\ work = DyingIn(block) /\ \A a \in Addr : CountFn[a] = Total(a)
  BY IsGood
<1>14. PICK m \in [Addr -> Nat] :
           /\ CountFn[d] = 0 /\ m[d] = 1 /\ \A a \in Addr : a # d => m[a] = CountFn[a]
           /\ Good(block', m) /\ DyingIn(block') = DyingIn(block)
           /\ block'[d] = b /\ \A a \in Addr : a # d => block'[a] = block[a]
  <2>1. Grown(block', block, d, b)
    BY <1>8 DEF Grown
  <2>2. Good(block, CountFn) /\ d \in Addr /\ block[d] = Dead /\ b \in Block /\ Shaped(b, d) /\ b.rc = 1 /\ b.tag # "none"
    BY <1>10, <1>11, <1>12, <1>13
  <2> QED
    BY ONLY <2>1, <2>2, GrownGood
<1>15. PICK e : e = [fr |-> d, pins |-> s]
  OBVIOUS
<1>16. /\ ks' \in Seq([fr : Addr, pins : Seq(Locals)]) /\ Len(ks') = Len(ks) + 1 /\ Len(ks) \in Nat
       /\ ks'[Len(ks) + 1] = e /\ e.fr = d /\ e.pins = s
       /\ \A i \in 1 .. Len(ks) : ks'[i] = ks[i]
       /\ \A a \in Addr : FramedCount(a)' = FramedCount(a) + OneIf(d = a)
  <2>1. e \in [fr : Addr, pins : Seq(Locals)] /\ ks' = Append(ks, e) /\ e.fr = d /\ e.pins = s
    BY <1>5, <1>8, <1>11, <1>15
  <2> QED
    BY <1>1, <2>1, KsPush
<1>17. TypeInv'
  BY <1>1, <1>8, <1>9, <1>11, <1>14, <1>16, GoodTyped DEF TypeInv
<1>18. /\ Unowned(d) /\ Total(d) = 0 /\ ~IsMirror(d) /\ \A i : ~Released(d, i)
       /\ ShapesBut(block', block, d) /\ \A c \in Addr : c # d => SameShape(block'[c], block[c])
  <2>1. \A c \in Addr : c # d => SameShape(block'[c], block[c])
    BY <1>14 DEF SameShape
  <2> QED
    BY <1>11, <2>1, DeadUnowned DEF ShapesBut
<1>19. PoolInv'
  BY <1>1, <1>6, <1>9, <1>10, <1>14, <1>18, PoolGrows
<1>20. PinInv' /\ HandlerInv'
  <2>1. block'[d].tag = "frame" /\ block'[d].fields = Values(s) /\ UNCHANGED hs
    BY <1>8, <1>10, <1>14
  <2>2. Len(block'[d].fields) = Len(s) /\ \A j \in 1 .. Len(s) : block'[d].fields[j] = local'[s[j]]
    BY <1>3, <1>5, <1>8, <2>1
  <2>3. /\ \A j \in 1 .. Len(s) : s[j] \in Own
        /\ \A j, l \in 1 .. Len(s) : s[j] = s[l] => j = l
        /\ \A x \in Locals : local'[x] = local[x] \/ x \in Own
    BY <1>3, <1>5, <1>8
  <2>4. PinInv'
    BY <1>5, <1>8, <1>11, <1>18, <2>1, <2>2, <2>3, PushPins
  <2>5. HandlerInv'
    BY <1>5, <1>8, <1>11, <1>18, <2>1, PushCall
  <2> QED
    BY <2>4, <2>5
<1>21. \A c \in Addr : c # d => HeldAlike(c)
  <2> TAKE c \in Addr
  <2> HAVE c # d
  <2>1. \A i \in 1 .. Len(ks') : i \in 1 .. Len(ks) \/ (i = Len(ks) + 1 /\ ks'[i].fr = d)
    BY <1>16
  <2>2. IsMirror(c)' <=> IsMirror(c)
    <3>1. ASSUME IsMirror(c) PROVE IsMirror(c)'
      <4>1. PICK i \in 1 .. Len(ks) : ks[i].fr = c /\ ks[i].pins # << >>
        BY <3>1 DEF IsMirror
      <4>2. i \in 1 .. Len(ks') /\ ks'[i] = ks[i]
        BY <1>16
      <4> QED
        BY <4>1, <4>2 DEF IsMirror
    <3>2. ASSUME IsMirror(c)' PROVE IsMirror(c)
      <4>1. PICK i \in 1 .. Len(ks') : ks'[i].fr = c /\ ks'[i].pins # << >>
        BY <3>2 DEF IsMirror
      <4>2. i \in 1 .. Len(ks) /\ ks'[i] = ks[i]
        BY <1>16, <2>1, <4>1
      <4> QED
        BY <4>1, <4>2 DEF IsMirror
    <3> QED
      BY <3>1, <3>2
  <2> QED
    BY <1>8, <1>18, <2>2 DEF HeldAlike, SameShape, Released
<1>22. \A a \in Addr : CountIn(HeldBy(d)', a) = 0
  <2>1. HeldBy(d)' \in Seq(AN)
    BY <1>11, <1>17, HeldTypedPrime
  <2>2. HeldBy(d)' = [i \in 1 .. k |-> IF IsMirror(d)' \/ i = 0 \/ Released(d, i)' THEN Nil ELSE Values(s)[i]]
    BY <1>3, <1>10, <1>14 DEF HeldBy
  <2>3. ASSUME NEW i \in 1 .. k PROVE IsMirror(d)'
    <3>1. s # << >> /\ Len(ks) + 1 \in 1 .. Len(ks')
      BY <1>3, <1>16
    <3> QED
      BY <1>16, <3>1 DEF IsMirror
  <2>4. Len(HeldBy(d)') = k /\ \A i \in 1 .. k : HeldBy(d)'[i] = Nil
    BY <2>2, <2>3
  <2> QED
    BY <2>1, <2>4, NilsCountNothing
<1>23. \A a \in Addr : Total(a)' = m[a]
  <2> TAKE a \in Addr
  <2>1. HeldCount(a)' = HeldCount(a) + 0
    BY <1>11, <1>17, <1>21, <1>22, HeldGrown
  <2>2. CountsNow(a) /\ CountsNow(a)' /\ OneIf(d = a) \in Nat
    BY <1>1, <1>17, CountsArePrime DEF AllCounted, OneIf
  <2>3. LocalCount(a) \in Nat /\ ClauseCount(a) \in Nat /\ MadeCount(a) \in Nat /\ ShellCount(a) \in Nat
    BY <2>2 DEF CountsNow
  <2>4. /\ LocalCount(a)' = LocalCount(a) + 0 /\ ClauseCount(a)' = ClauseCount(a) + 0
        /\ MadeCount(a)' = MadeCount(a) + 0 /\ ShellCount(a)' = ShellCount(a) + 0
    BY <1>8, <2>3 DEF LocalCount, ClauseCount, MadeCount, ShellCount, Clauses
  <2>5. PICK f : f = OneIf(d = a)
    OBVIOUS
  <2>6. FramedCount(a)' = FramedCount(a) + f /\ f \in Int /\ 0 \in Int
    BY <1>16, <2>2, <2>5
  <2>7. Total(a)' = Total(a) + (0 + 0 + f + 0 + 0 + 0) /\ Total(a) \in Nat
    BY ONLY <2>1, <2>2, <2>4, <2>6, TotalMoves
  <2> QED
    BY <1>13, <1>14, <2>2, <2>5, <2>7 DEF OneIf
<1>24. ShapeInv' /\ CountInv'
  <2>1. work' = DyingIn(block')
    BY <1>8, <1>13, <1>14
  <2> QED
    BY <1>14, <1>23, <2>1, GoodIsCounted
<1>25. SortInv'
  <2>1. \A v \in AN : (IsValue(block, v) => IsValue(block', v)) /\ (IsFrame(block, v) => IsFrame(block', v))
    BY <1>11, <1>18, SortsKept
  <2>2. \A x \in Locals : IsValue(block', local'[x])
    BY <1>1, <1>8, <2>1 DEF SortInv, TypeInv
  <2>3. \A i \in 1 .. Len(hs') : IsValue(block', hs'[i].clause)
    <3> TAKE i \in 1 .. Len(hs')
    <3>1. hs'[i] = hs[i] /\ i \in 1 .. Len(hs)
      BY <1>8
    <3>2. Clauses \in Seq(AN) /\ Len(Clauses) = Len(hs) /\ Clauses[i] = hs[i].clause
      BY <1>1, <3>1, SeqsTyped
    <3>3. hs[i].clause \in AN
      BY <3>1, <3>2
    <3> QED
      BY <1>1, <2>1, <3>1, <3>3 DEF SortInv
  <2>4. \A i \in 1 .. Len(ks') : IsFrame(block', ks'[i].fr)
    <3> TAKE i \in 1 .. Len(ks')
    <3>1. CASE i \in 1 .. Len(ks)
      <4>1. ks[i].fr \in AN
        BY <3>1, TopAlone DEF AN
      <4> QED
        BY <1>1, <1>16, <2>1, <3>1, <4>1 DEF SortInv
    <3>2. CASE i = Len(ks) + 1
      BY <1>10, <1>11, <1>14, <1>16, <3>2 DEF IsFrame, FrameTags
    <3> QED
      BY <1>16, <3>1, <3>2
  <2>5. \A i \in 1 .. Len(chain'.made) : IsFrame(block', chain'.made[i])
    BY <1>2, <1>8 DEF NoChain
  <2>6. ASSUME NEW i \in 1 .. Len(block'[d].fields)
        PROVE  IF block'[d].tag = "resume" THEN IsFrame(block', block'[d].fields[i]) ELSE IsValue(block', block'[d].fields[i])
    <3>1. block'[d].tag # "resume" /\ block'[d].fields = Values(s) /\ i \in 1 .. k
      BY <1>3, <1>10, <1>14
    <3>2. block'[d].fields[i] = local'[s[i]] /\ s[i] \in Locals
      BY <1>5, <1>8, <3>1
    <3> QED
      BY <2>2, <3>1, <3>2
  <2>7. \A c \in Addr : \A i \in 1 .. Len(block[c].fields) : c # d /\ Released(c, i) => Released(c, i)'
    BY <1>8 DEF Released
  <2> QED
    BY <1>1, <1>11, <1>18, <2>2, <2>3, <2>4, <2>5, <2>6, <2>7, SortGrow
<1>26. TokenInv' /\ ChainInv'
  BY <1>2, <1>8 DEF TokenInv, ChainInv, NoChain
<1> QED
  BY <1>17, <1>19, <1>20, <1>24, <1>25, <1>26 DEF IInv

\* A handler joins both stacks.
LEMMA PushHandler ==
  ASSUME IInv, NEW d \in Addr, block[d] = Dead, NEW v \in AN,
         ks' = Append(ks, [fr |-> d, pins |-> << >>]), hs' = Append(hs, [clause |-> v, hf |-> d]),
         ShapesBut(block', block, d), block'[d].tag = "handler"
  PROVE  HandlerInv'
<1>1. TypeInv /\ HandlerInv
  BY DEF IInv
<1>2. PICK e, c : e = [fr |-> d, pins |-> << >>] /\ c = [clause |-> v, hf |-> d]
  OBVIOUS
<1>3. /\ e \in [fr : Addr, pins : Seq(Locals)] /\ e.fr = d /\ ks' = Append(ks, e)
      /\ c \in [clause : AN, hf : Addr] /\ c.hf = d /\ hs' = Append(hs, c)
  BY <1>2
<1>4. /\ Len(ks') = Len(ks) + 1 /\ Len(ks) \in Nat /\ ks'[Len(ks) + 1] = e
      /\ \A i \in 1 .. Len(ks) : ks'[i] = ks[i]
  BY <1>1, <1>3, KsPush
<1>5. /\ Len(hs') = Len(hs) + 1 /\ Len(hs) \in Nat /\ hs'[Len(hs) + 1] = c
      /\ \A i \in 1 .. Len(hs) : hs'[i] = hs[i]
  BY <1>1, <1>3, HsPush
<1>6. \A i \in 1 .. Len(ks) : /\ ks'[i] = ks[i] /\ block'[ks[i].fr].tag = block[ks[i].fr].tag /\ ks[i].fr # d
                              /\ i \in 1 .. Len(ks')
  <2> TAKE i \in 1 .. Len(ks)
  <2>1. ks[i].fr \in Addr /\ ks[i].fr # d
    BY TopAlone, DeadIs DEF FrameTags
  <2> QED
    BY <1>4, <2>1 DEF ShapesBut, SameShape
<1>7. \A i \in 1 .. Len(ks') : i \in 1 .. Len(ks) \/ (i = Len(ks) + 1 /\ ks'[i].fr = d)
  BY <1>3, <1>4
<1>8. \A i \in 1 .. Len(hs') : (i \in 1 .. Len(hs) /\ hs'[i] = hs[i]) \/ (i = Len(hs) + 1 /\ hs'[i].hf = d)
  BY <1>3, <1>5
<1>9. /\ \A p \in 1 .. Len(ks) : block[ks[p].fr].tag = "handler" => \E i \in 1 .. Len(hs) : hs[i].hf = ks[p].fr
      /\ \A i \in 1 .. Len(hs) : \E p \in 1 .. Len(ks) : hs[i].hf = ks[p].fr /\ block[ks[p].fr].tag = "handler"
      /\ \A i, j \in 1 .. Len(hs) : \A p, q \in 1 .. Len(ks) :
            hs[i].hf = ks[p].fr /\ hs[j].hf = ks[q].fr => (i < j <=> p < q)
  BY <1>1 DEF HandlerInv
<1>10. \A i \in 1 .. Len(hs) : hs[i].hf # d
  BY <1>6, <1>9
<1>11. /\ Len(ks) + 1 \in 1 .. Len(ks') /\ ks'[Len(ks) + 1].fr = d
       /\ Len(hs) + 1 \in 1 .. Len(hs') /\ hs'[Len(hs) + 1].hf = d
  BY <1>3, <1>4, <1>5
<1>12. \A p \in 1 .. Len(ks') : block'[ks'[p].fr].tag = "handler" => \E i \in 1 .. Len(hs') : hs'[i].hf = ks'[p].fr
  <2> TAKE p \in 1 .. Len(ks')
  <2> HAVE block'[ks'[p].fr].tag = "handler"
  <2>1. CASE p \in 1 .. Len(ks)
    <3>1. PICK i \in 1 .. Len(hs) : hs[i].hf = ks[p].fr
      BY <1>6, <1>9, <2>1
    <3>2. i \in 1 .. Len(hs') /\ hs'[i].hf = ks'[p].fr
      BY <1>5, <1>6, <2>1, <3>1
    <3> QED
      BY <3>2
  <2>2. CASE p = Len(ks) + 1
    BY <1>11, <2>2
  <2> QED
    BY <1>7, <2>1, <2>2
<1>13. \A i \in 1 .. Len(hs') : \E p \in 1 .. Len(ks') : hs'[i].hf = ks'[p].fr /\ block'[ks'[p].fr].tag = "handler"
  <2> TAKE i \in 1 .. Len(hs')
  <2>1. CASE i \in 1 .. Len(hs)
    <3>1. PICK p \in 1 .. Len(ks) : hs[i].hf = ks[p].fr /\ block[ks[p].fr].tag = "handler"
      BY <1>9, <2>1
    <3>2. p \in 1 .. Len(ks') /\ hs'[i].hf = ks'[p].fr /\ block'[ks'[p].fr].tag = "handler"
      BY <1>5, <1>6, <2>1, <3>1
    <3> QED
      BY <3>2
  <2>2. CASE i = Len(hs) + 1
    BY <1>11, <2>2
  <2> QED
    BY <1>8, <2>1, <2>2
<1>14. \A i, j \in 1 .. Len(hs') : \A p, q \in 1 .. Len(ks') :
            hs'[i].hf = ks'[p].fr /\ hs'[j].hf = ks'[q].fr => (i < j <=> p < q)
  <2> TAKE i, j \in 1 .. Len(hs')
  <2> TAKE p, q \in 1 .. Len(ks')
  <2> HAVE hs'[i].hf = ks'[p].fr /\ hs'[j].hf = ks'[q].fr
  <2>1. \/ i \in 1 .. Len(hs) /\ p \in 1 .. Len(ks) /\ hs[i].hf = ks[p].fr
        \/ i = Len(hs) + 1 /\ p = Len(ks) + 1
    BY <1>5, <1>6, <1>7, <1>8, <1>10, <1>11
  <2>2. \/ j \in 1 .. Len(hs) /\ q \in 1 .. Len(ks) /\ hs[j].hf = ks[q].fr
        \/ j = Len(hs) + 1 /\ q = Len(ks) + 1
    BY <1>5, <1>6, <1>7, <1>8, <1>10, <1>11
  <2> QED
    BY <1>4, <1>5, <1>9, <2>1, <2>2
<1> QED
  BY <1>12, <1>13, <1>14 DEF HandlerInv

\* jq_handle2 keeps the invariant: both clauses move into the handler frame,
\* and the handler stack takes a reference of its own.
LEMMA KeepsHandle == ASSUME IInv, NEW s \in Operands(2), Handle(s) PROVE IInv'
<1>1. TypeInv /\ TokenInv /\ SortInv /\ CountInv /\ ShapeInv /\ ChainInv /\ PinInv /\ HandlerInv /\ PoolInv /\ AllCounted
  BY CountsAre DEF IInv
<1>2. work = {} /\ chain = NoChain /\ ~token.on /\ token.shell = Nil
  BY <1>1 DEF Handle, Suspendable, Running, TokenInv
<1>3. /\ DOMAIN s = 1 .. 2 /\ Len(s) = 2 /\ 2 \in Nat
      /\ \A i \in 1 .. 2 : s[i] = Nil \/ (s[i] \in Own /\ s[i] \in Locals /\ local[s[i]] # Nil)
      /\ Values(s) \in Seq(AN) /\ Len(Values(s)) = 2
      /\ \A i \in 1 .. 2 : Values(s)[i] = IF s[i] = Nil THEN Nil ELSE local[s[i]]
  BY <1>1, OperandsAre, ZenonT(60)
<1>4. PICK n, d, v : n = Words("handler", 2) /\ d = New(n) /\ v = Values(s)[2]
  OBVIOUS
<1>5. PICK b : b = NewBlock("handler", Values(s), 0)
  OBVIOUS
<1>6. PICK b1 : b1 = [block EXCEPT ![d] = b]
  OBVIOUS
<1>7. /\ Ask("handler", n) /\ block' = Duped(b1, <<v>>) /\ local' = Emptied(Range(s))
      /\ ks' = Append(ks, [fr |-> d, pins |-> << >>]) /\ hs' = Append(hs, [clause |-> v, hf |-> d])
      /\ UNCHANGED <<work, token, chain>>
  BY <1>4, <1>5, <1>6 DEF Handle
<1>8. Alloc(n) /\ budget' \in [Tags -> Nat]
  <2>1. "handler" \in Tags
    BY DEF Tags
  <2> QED
    BY <1>1, <1>7, <2>1, AskIs
<1>9. /\ b \in Block /\ b.tag = "handler" /\ b.rc = 1 /\ b.fields = Values(s) /\ b.self = 0 /\ b.tag # "none"
      /\ SizeOf(b) = n /\ b.pooled = Small(n) /\ n \in Nat
  <2>1. "handler" \in Tags /\ 0 \in Nat
    BY DEF Tags
  <2>2. PICK tag \in Tags, fs \in Seq(AN), self \in Nat : tag = "handler" /\ fs = Values(s) /\ self = 0
    BY <1>3, <2>1
  <2>3. tag \in Tags /\ fs \in Seq(AN) /\ self \in Nat /\ b = NewBlock(tag, fs, self)
    BY <1>5, <2>2
  <2>4. /\ b \in Block /\ b.tag = tag /\ b.rc = 1 /\ b.fields = fs /\ b.self = self /\ b.tag # "none"
        /\ SizeOf(b) = Words(tag, Len(fs)) /\ b.pooled = Small(Words(tag, Len(fs)))
        /\ Words(tag, Len(fs)) \in Nat
    BY ONLY <2>3, NewBlockIs
  <2> QED
    BY <1>3, <1>4, <2>2, <2>4
<1>10. /\ d \in Addr /\ block[d] = Dead /\ block[d].tag = "none"
       /\ class' \in [Addr -> 0 .. PoolWords] /\ freelist' \in [1 .. PoolWords -> Seq(Addr)]
  BY <1>1, <1>4, <1>8, <1>9, NewIs
<1>11. v \in AN /\ IsValue(block, v) /\ v # d
  <2>1. v = Nil \/ \E x \in Locals : v = local[x]
    BY <1>3, <1>4
  <2>2. v \in AN /\ IsValue(block, v)
    BY <1>1, <2>1 DEF TypeInv, SortInv, IsValue, AN
  <2>3. d # Nil
    BY <1>10, HeapAssumption
  <2> QED
    BY <1>10, <2>2, <2>3 DEF IsValue, ValueTags
<1>12. Shaped(b, d)
  BY <1>3, <1>9, RcStaticIs DEF Shaped
<1>13. Good(block, CountFn) /\ work = DyingIn(block) /\ \A a \in Addr : CountFn[a] = Total(a)
  BY IsGood
<1>14. PICK m1 \in [Addr -> Nat] :
           /\ CountFn[d] = 0 /\ m1[d] = 1 /\ \A a \in Addr : a # d => m1[a] = CountFn[a]
           /\ Good(b1, m1) /\ DyingIn(b1) = DyingIn(block)
           /\ b1[d] = b /\ \A a \in Addr : a # d => b1[a] = block[a]
  <2>1. Grown(b1, block, d, b)
    BY <1>6 DEF Grown
  <2>2. Good(block, CountFn) /\ d \in Addr /\ block[d] = Dead /\ b \in Block /\ Shaped(b, d) /\ b.rc = 1 /\ b.tag # "none"
    BY <1>9, <1>10, <1>12, <1>13
  <2> QED
    BY ONLY <2>1, <2>2, GrownGood
<1>15. PICK sc : sc = <<v>>
  OBVIOUS
<1>16. /\ sc \in Seq(AN) /\ \A a : CountIn(sc, a) = OneIf(v = a)
       /\ \A i \in 1 .. Len(sc) : sc[i] = Nil \/ b1[sc[i]].tag \in ValueTags
  <2>1. sc \in Seq(AN) /\ Len(sc) = 1 /\ sc[1] = v
    BY <1>11, <1>15
  <2>2. v = Nil \/ b1[v].tag \in ValueTags
    BY <1>11, <1>14 DEF IsValue, AN
  <2> QED
    BY <1>15, <2>1, <2>2, CountInSingle
<1>17. PICK m \in [Addr -> Nat] :
           /\ \A a \in Addr : m[a] = m1[a] + CountIn(sc, a)
           /\ Good(block', m) /\ SameShapes(block', b1) /\ DyingIn(block') = {}
  <2>1. block' = Duped(b1, sc) /\ DyingIn(b1) = {}
    BY <1>2, <1>7, <1>13, <1>14, <1>15
  <2>2. Good(b1, m1)
    BY <1>14
  <2>3. sc \in Seq(AN) /\ \A i \in 1 .. Len(sc) : sc[i] = Nil \/ b1[sc[i]].tag \in ValueTags
    BY <1>16
  <2>4. PICK m \in [Addr -> Nat] :
           /\ \A a \in Addr : m[a] = m1[a] + CountIn(sc, a)
           /\ Good(Duped(b1, sc), m) /\ SameShapes(Duped(b1, sc), b1)
           /\ DyingIn(b1) = {} => DyingIn(Duped(b1, sc)) = {}
    BY ONLY <2>2, <2>3, AddGood
  <2> QED
    BY <2>1, <2>4
<1>18. /\ block'[d].tag = "handler" /\ block'[d].fields = Values(s) /\ block'[d].self = 0
       /\ block'[d].pooled = Small(n) /\ SizeOf(block'[d]) = n
       /\ \A c \in Addr : c # d => SameShape(block'[c], block[c])
       /\ ShapesBut(block', block, d)
  <2>1. SameShape(block'[d], b) /\ \A c \in Addr : c # d => SameShape(block'[c], block[c])
    BY <1>10, <1>14, <1>17 DEF SameShapes
  <2> QED
    BY <1>9, <2>1 DEF SameShape, SizeOf, ShapesBut
<1>19. PICK e, h : e = [fr |-> d, pins |-> << >>] /\ h = [clause |-> v, hf |-> d]
  OBVIOUS
<1>20. /\ ks' \in Seq([fr : Addr, pins : Seq(Locals)]) /\ Len(ks') = Len(ks) + 1 /\ Len(ks) \in Nat
       /\ ks'[Len(ks) + 1] = e /\ e.fr = d /\ e.pins = << >>
       /\ \A i \in 1 .. Len(ks) : ks'[i] = ks[i]
       /\ \A a \in Addr : FramedCount(a)' = FramedCount(a) + OneIf(d = a)
  <2>1. e \in [fr : Addr, pins : Seq(Locals)] /\ ks' = Append(ks, e) /\ e.fr = d /\ e.pins = << >>
    BY <1>7, <1>10, <1>19
  <2>2. TypeInv
    BY <1>1
  <2>3. /\ ks' \in Seq([fr : Addr, pins : Seq(Locals)]) /\ Len(ks') = Len(ks) + 1 /\ Len(ks) \in Nat
        /\ ks'[Len(ks) + 1] = e
        /\ \A i \in 1 .. Len(ks) : ks'[i] = ks[i]
        /\ \A a \in Addr : FramedCount(a)' = FramedCount(a) + OneIf(e.fr = a)
    BY ONLY <2>1, <2>2, KsPush
  <2> QED
    BY ONLY <2>1, <2>3
<1>21. /\ hs' \in Seq([clause : AN, hf : Addr]) /\ Len(hs') = Len(hs) + 1 /\ Len(hs) \in Nat
       /\ hs'[Len(hs) + 1] = h /\ h.clause = v
       /\ \A i \in 1 .. Len(hs) : hs'[i] = hs[i]
       /\ \A a \in Addr : ClauseCount(a)' = ClauseCount(a) + OneIf(v = a)
  <2>1. h \in [clause : AN, hf : Addr] /\ hs' = Append(hs, h) /\ h.clause = v
    BY <1>7, <1>10, <1>11, <1>19
  <2> QED
    BY <1>1, <2>1, HsPush
<1>22. /\ local' \in [Locals -> AN]
       /\ \A x \in Locals : local'[x] = local[x] \/ (x \in Own /\ local'[x] = Nil)
       /\ \A a \in Addr : LocalCount(a)' = LocalCount(a) - CountIn(Values(s), a)
  <2>1. local' \in [Locals -> AN] /\ \A x \in Locals : local'[x] = local[x] \/ (x \in Range(s) /\ local'[x] = Nil)
    BY <1>1, <1>7 DEF Emptied, TypeInv, AN
  <2>2. \A x \in Locals : x \in Range(s) => x \in Own
    <3> TAKE x \in Locals
    <3> HAVE x \in Range(s)
    <3>1. PICK i \in 1 .. 2 : s[i] = x
      BY <1>3 DEF Range
    <3> QED
      BY <1>3, <3>1, HeapAssumption
  <2>3. ASSUME NEW a \in Addr PROVE LocalCount(a)' = LocalCount(a) - CountIn(Values(s), a)
    <3>1. CountOf(Emptied(Range(s)), Locals, a) = LocalCount(a) - CountIn(Values(s), a)
      BY <1>1, <1>3, LocalEmptied
    <3> QED
      BY <1>7, <3>1 DEF LocalCount
  <2> QED
    BY <2>1, <2>2, <2>3
<1>23. TypeInv'
  BY <1>1, <1>7, <1>8, <1>10, <1>17, <1>20, <1>21, <1>22, GoodTyped DEF TypeInv
<1>24. Unowned(d) /\ Total(d) = 0 /\ ~IsMirror(d) /\ \A i : ~Released(d, i)
  BY <1>10, DeadUnowned
<1>25. PoolInv'
  BY <1>1, <1>4, <1>8, <1>9, <1>18, PoolGrows
<1>26. PinInv' /\ HandlerInv'
  <2>1. PICK s0 : s0 = << >>
    OBVIOUS
  <2>2. /\ s0 \in Seq(Locals) /\ ks' = Append(ks, [fr |-> d, pins |-> s0]) /\ Len(s0) = 0
        /\ (s0 # << >> => block'[d].tag = "frame" /\ Len(block'[d].fields) = Len(s0)
                      /\ \A j \in 1 .. Len(s0) : block'[d].fields[j] = local'[s0[j]])
        /\ \A x \in Locals : local'[x] = local[x] \/ x \in Own
    BY <1>7, <1>22, <2>1
  <2>3. /\ \A j \in 1 .. Len(s0) : s0[j] \in Own
        /\ \A j, l \in 1 .. Len(s0) : s0[j] = s0[l] => j = l
    BY <2>2
  <2>4. PinInv'
    BY <1>10, <1>18, <2>2, <2>3, PushPins
  <2>5. HandlerInv'
    BY <1>7, <1>10, <1>11, <1>18, PushHandler
  <2> QED
    BY <2>4, <2>5
<1>27. \A c \in Addr : IsMirror(c)' <=> IsMirror(c)
  <2> TAKE c \in Addr
  <2>1. ASSUME IsMirror(c) PROVE IsMirror(c)'
    <3>1. PICK i \in 1 .. Len(ks) : ks[i].fr = c /\ ks[i].pins # << >>
      BY <2>1 DEF IsMirror
    <3>2. i \in 1 .. Len(ks') /\ ks'[i] = ks[i]
      BY <1>20
    <3> QED
      BY <3>1, <3>2 DEF IsMirror
  <2>2. ASSUME IsMirror(c)' PROVE IsMirror(c)
    <3>1. PICK i \in 1 .. Len(ks') : ks'[i].fr = c /\ ks'[i].pins # << >>
      BY <2>2 DEF IsMirror
    <3>2. i # Len(ks) + 1
      BY <1>20, <3>1
    <3>3. i \in 1 .. Len(ks) /\ ks'[i] = ks[i]
      <4>1. /\ Len(ks') = Len(ks) + 1 /\ Len(ks) \in Nat /\ i \in 1 .. Len(ks')
            /\ \A j \in 1 .. Len(ks) : ks'[j] = ks[j]
        BY <1>20, <3>1
      <4> QED
        BY ONLY <3>2, <4>1
    <3> QED
      BY <3>1, <3>3 DEF IsMirror
  <2> QED
    BY <2>1, <2>2
<1>28. HeldBy(d)' = Values(s)
  <2>1. ~IsMirror(d)' /\ \A i : ~Released(d, i)'
    BY <1>7, <1>10, <1>24, <1>27 DEF Released
  <2>2. HeldBy(d)' = [i \in 1 .. 2 |-> IF i = 0 THEN Nil ELSE Values(s)[i]]
    <3>1. Len(block'[d].fields) = 2 /\ block'[d].self = 0 /\ block'[d].fields = Values(s)
      BY <1>3, <1>18
    <3> QED
      BY <2>1, <3>1 DEF HeldBy
  <2> QED
    BY <1>3, <2>2
<1>29. \A a \in Addr : Total(a)' = m[a]
  <2> TAKE a \in Addr
  <2>1. \A c \in Addr : c # d => HeldAlike(c)
    BY <1>7, <1>18, <1>27 DEF HeldAlike, SameShape, Released
  <2>2. HeldCount(a)' = HeldCount(a) + CountIn(Values(s), a) /\ CountIn(Values(s), a) \in Nat
    BY <1>10, <1>23, <1>28, <2>1, HeldGrown
  <2>3. CountsNow(a) /\ CountsNow(a)' /\ OneIf(d = a) \in Nat /\ OneIf(v = a) \in Nat
    BY <1>1, <1>23, CountsArePrime DEF AllCounted, OneIf
  <2>4. PICK cv, f, c, l : cv = CountIn(Values(s), a) /\ f = OneIf(d = a) /\ c = OneIf(v = a) /\ l = 0 - cv
    OBVIOUS
  <2>5. LocalCount(a) \in Nat /\ MadeCount(a) \in Nat /\ ShellCount(a) \in Nat
    BY <2>3 DEF CountsNow
  <2>6. cv \in Int /\ f \in Int /\ c \in Int /\ l \in Int /\ 0 \in Int
    BY <2>2, <2>3, <2>4
  <2>7. /\ HeldCount(a)' = HeldCount(a) + cv /\ FramedCount(a)' = FramedCount(a) + f
        /\ ClauseCount(a)' = ClauseCount(a) + c
    BY <1>20, <1>21, <2>2, <2>4
  <2>8. LocalCount(a)' = LocalCount(a) + l
    BY <1>22, <2>4, <2>5, <2>6
  <2>9. MadeCount(a)' = MadeCount(a) + 0 /\ ShellCount(a)' = ShellCount(a) + 0
    BY <1>7, <2>5 DEF MadeCount, ShellCount
  <2>10. Total(a)' = Total(a) + (l + c + f + 0 + cv + 0) /\ Total(a) \in Nat
    <3>1. CountsNow(a) /\ CountsNow(a)'
      BY <2>3
    <3> QED
      BY ONLY <2>6, <2>7, <2>8, <2>9, <3>1, TotalMoves
  <2>11. Total(a)' = Total(a) + f + c
    BY ONLY <2>4, <2>6, <2>10
  <2>12. m[a] = m1[a] + c
    BY <1>16, <1>17, <2>4
  <2>13. m1[a] = Total(a) + f
    BY <1>13, <1>14, <1>24, <2>4, <2>10 DEF OneIf
  <2> QED
    BY ONLY <2>6, <2>10, <2>11, <2>12, <2>13
<1>30. ShapeInv' /\ CountInv'
  <2>1. work' = DyingIn(block')
    BY <1>2, <1>7, <1>17
  <2> QED
    BY <1>17, <1>29, <2>1, GoodIsCounted
<1>31. SortInv'
  <2>1. \A u \in AN : (IsValue(block, u) => IsValue(block', u)) /\ (IsFrame(block, u) => IsFrame(block', u))
    BY <1>10, <1>18, SortsKept
  <2>2. \A x \in Locals : IsValue(block', local[x])
    BY <1>1, <2>1 DEF SortInv, TypeInv
  <2>3. \A x \in Locals : IsValue(block', local'[x])
    BY <1>22, <2>2 DEF IsValue
  <2>4. \A i \in 1 .. Len(hs') : IsValue(block', hs'[i].clause)
    <3> TAKE i \in 1 .. Len(hs')
    <3>1. CASE i \in 1 .. Len(hs)
      <4>1. Clauses \in Seq(AN) /\ Len(Clauses) = Len(hs) /\ Clauses[i] = hs[i].clause
        BY <1>1, <3>1, SeqsTyped
      <4>2. hs[i].clause \in AN
        BY <3>1, <4>1
      <4> QED
        BY <1>1, <1>21, <2>1, <3>1, <4>2 DEF SortInv
    <3>2. CASE i = Len(hs) + 1
      BY <1>11, <1>21, <2>1, <3>2
    <3> QED
      BY <1>21, <3>1, <3>2
  <2>5. \A i \in 1 .. Len(ks') : IsFrame(block', ks'[i].fr)
    <3> TAKE i \in 1 .. Len(ks')
    <3>1. CASE i \in 1 .. Len(ks)
      <4>1. ks[i].fr \in AN
        BY <3>1, TopAlone DEF AN
      <4> QED
        BY <1>1, <1>20, <2>1, <3>1, <4>1 DEF SortInv
    <3>2. CASE i = Len(ks) + 1
      BY <1>10, <1>18, <1>20, <3>2 DEF IsFrame, FrameTags
    <3> QED
      BY <1>20, <3>1, <3>2
  <2>6. \A i \in 1 .. Len(chain'.made) : IsFrame(block', chain'.made[i])
    BY <1>2, <1>7 DEF NoChain
  <2>7. ASSUME NEW i \in 1 .. Len(block'[d].fields)
        PROVE  IF block'[d].tag = "resume" THEN IsFrame(block', block'[d].fields[i]) ELSE IsValue(block', block'[d].fields[i])
    <3>1. block'[d].tag # "resume" /\ block'[d].fields = Values(s) /\ i \in 1 .. 2
      BY <1>3, <1>18
    <3>2. Values(s)[i] = Nil \/ (s[i] \in Locals /\ Values(s)[i] = local[s[i]])
      BY <1>3, <3>1
    <3> QED
      BY <2>2, <3>1, <3>2 DEF IsValue
  <2>8. \A c \in Addr : \A i \in 1 .. Len(block[c].fields) : c # d /\ Released(c, i) => Released(c, i)'
    BY <1>7 DEF Released
  <2> QED
    BY <1>1, <1>10, <1>18, <2>3, <2>4, <2>5, <2>6, <2>7, <2>8, SortGrow
<1>32. TokenInv' /\ ChainInv'
  BY <1>2, <1>7 DEF TokenInv, ChainInv, NoChain
<1> QED
  BY <1>23, <1>25, <1>26, <1>30, <1>31, <1>32 DEF IInv

\* clone_frame keeps the invariant: a clone owns what the frame owns.
LEMMA KeepsCloneFrame == ASSUME IInv, CloneFrame PROVE IInv'
<1>1. TypeInv /\ TokenInv /\ SortInv /\ CountInv /\ ShapeInv /\ ChainInv /\ PinInv /\ HandlerInv /\ PoolInv /\ AllCounted
  BY CountsAre DEF IInv
<1>2. PICK r, p : r = chain.of /\ p = Len(chain.made) + 1
  OBVIOUS
<1>3. /\ r \in Addr /\ r # Nil /\ work = {} /\ ~token.on /\ block[r].tag = "resume" /\ token.shell = Nil
      /\ p \in 1 .. Len(block[r].fields) /\ chain.made \in Seq(Addr) /\ Len(chain.made) \in Nat
  <2>1. chain.of # Nil /\ Len(chain.made) < Len(block[chain.of].fields)
    BY DEF CloneFrame
  <2>2. chain \in [of : AN, made : Seq(Addr)]
    BY <1>1 DEF TypeInv
  <2>3. r \in Addr /\ r # Nil /\ chain.made \in Seq(Addr) /\ Len(chain.made) \in Nat
    BY <1>2, <2>1, <2>2 DEF AN
  <2>4. work = {} /\ ~token.on /\ block[r].tag = "resume"
    BY <1>1, <1>2, <2>1 DEF ChainInv
  <2>5. token.shell = Nil
    BY <1>1, <2>4 DEF TokenInv
  <2>6. Len(block[r].fields) \in Nat
    <3>1. block[r].fields \in Seq(AN)
      BY <1>1, <2>3, HeldTyped
    <3> QED
      BY <3>1
  <2>7. p \in 1 .. Len(block[r].fields)
    <3>1. Len(chain.made) < Len(block[r].fields)
      BY <1>2, <2>1
    <3> QED
      BY ONLY <1>2, <2>3, <2>6, <3>1
  <2> QED
    BY <2>3, <2>4, <2>5, <2>7
<1>4. PICK f0 : f0 = block[r].fields[p]
  OBVIOUS
<1>5. f0 \in Addr /\ block[f0].tag \in FrameTags
  <2>1. ~Released(r, p)
    BY <1>3 DEF Released
  <2>2. IsFrame(block, block[r].fields[p])
    BY <1>1, <1>3, <2>1 DEF SortInv
  <2> QED
    BY <1>4, <2>2 DEF IsFrame
<1>6. PICK tag, fs : tag = block[f0].tag /\ fs = block[f0].fields
  OBVIOUS
<1>7. PICK n, d : n = Words(tag, Len(fs)) /\ d = New(n)
  OBVIOUS
<1>8. PICK b : b = NewBlock(tag, fs, 0)
  OBVIOUS
<1>9. PICK b1 : b1 = [block EXCEPT ![d] = b]
  OBVIOUS
<1>10. /\ Alloc(n) /\ block' = Duped(b1, fs) /\ chain' = [chain EXCEPT !.made = Append(@, d)]
       /\ UNCHANGED <<local, ks, hs, work, token, budget>>
  BY <1>2, <1>4, <1>6, <1>7, <1>8, <1>9 DEF CloneFrame
<1>11. /\ tag \in Tags /\ tag \in FrameTags /\ fs \in Seq(AN) /\ 0 \in Nat
       /\ tag = "handler" => Len(fs) = 2
       /\ \A i \in 1 .. Len(fs) : fs[i] \in AN /\ IsValue(block, fs[i])
  <2>1. tag \in FrameTags /\ tag \in Tags /\ tag # "resume"
    BY <1>5, <1>6 DEF FrameTags, Tags
  <2>2. fs \in Seq(AN)
    BY <1>1, <1>5, <1>6, HeldTyped
  <2>3. tag = "handler" => Len(fs) = 2
    BY <1>1, <1>5, <1>6 DEF ShapeInv, Shaped
  <2>4. ASSUME NEW i \in 1 .. Len(fs) PROVE fs[i] \in AN /\ IsValue(block, fs[i])
    <3>1. ~Released(f0, i) /\ i \in 1 .. Len(block[f0].fields)
      BY <1>3, <1>5, <1>6, HeapAssumption DEF Released
    <3>2. IsValue(block, block[f0].fields[i])
      BY <1>1, <1>5, <1>6, <2>1, <3>1 DEF SortInv
    <3> QED
      BY <1>6, <2>2, <3>2
  <2> QED
    BY <2>1, <2>2, <2>3, <2>4
<1>12. /\ b \in Block /\ b.tag = tag /\ b.rc = 1 /\ b.fields = fs /\ b.self = 0 /\ b.tag # "none"
       /\ SizeOf(b) = n /\ b.pooled = Small(n) /\ n \in Nat
  <2>1. PICK self : self = 0
    OBVIOUS
  <2>2. tag \in Tags /\ fs \in Seq(AN) /\ self \in Nat /\ b = NewBlock(tag, fs, self)
    BY <1>8, <1>11, <2>1
  <2>3. /\ b \in Block /\ b.tag = tag /\ b.rc = 1 /\ b.fields = fs /\ b.self = self /\ b.tag # "none"
        /\ SizeOf(b) = Words(tag, Len(fs)) /\ b.pooled = Small(Words(tag, Len(fs)))
        /\ Words(tag, Len(fs)) \in Nat
    BY ONLY <2>2, NewBlockIs
  <2> QED
    BY <1>7, <2>1, <2>3
<1>13. /\ d \in Addr /\ block[d] = Dead /\ block[d].tag = "none"
       /\ class' \in [Addr -> 0 .. PoolWords] /\ freelist' \in [1 .. PoolWords -> Seq(Addr)]
  BY <1>1, <1>7, <1>10, <1>12, NewIs
<1>14. Shaped(b, d)
  <2>1. tag # "none" /\ tag # "resume" /\ tag # "leaf"
    BY <1>11 DEF FrameTags
  <2> QED
    BY <1>11, <1>12, <2>1, RcStaticIs DEF Shaped
<1>15. Good(block, CountFn) /\ work = DyingIn(block) /\ \A a \in Addr : CountFn[a] = Total(a)
  BY IsGood
<1>16. PICK m1 \in [Addr -> Nat] :
           /\ CountFn[d] = 0 /\ m1[d] = 1 /\ \A a \in Addr : a # d => m1[a] = CountFn[a]
           /\ Good(b1, m1) /\ DyingIn(b1) = DyingIn(block)
           /\ b1[d] = b /\ \A a \in Addr : a # d => b1[a] = block[a]
  <2>1. Grown(b1, block, d, b)
    BY <1>9 DEF Grown
  <2>2. Good(block, CountFn) /\ d \in Addr /\ block[d] = Dead /\ b \in Block /\ Shaped(b, d) /\ b.rc = 1 /\ b.tag # "none"
    BY <1>12, <1>13, <1>14, <1>15
  <2> QED
    BY ONLY <2>1, <2>2, GrownGood
<1>17. PICK m \in [Addr -> Nat] :
           /\ \A a \in Addr : m[a] = m1[a] + CountIn(fs, a)
           /\ Good(block', m) /\ SameShapes(block', b1) /\ DyingIn(block') = {}
  <2>1. block' = Duped(b1, fs) /\ DyingIn(b1) = {}
    BY <1>3, <1>10, <1>15, <1>16
  <2>2. Good(b1, m1)
    BY <1>16
  <2>3. fs \in Seq(AN) /\ \A i \in 1 .. Len(fs) : fs[i] = Nil \/ b1[fs[i]].tag \in ValueTags
    <3>1. ASSUME NEW i \in 1 .. Len(fs) PROVE fs[i] = Nil \/ b1[fs[i]].tag \in ValueTags
      <4>1. fs[i] \in AN /\ IsValue(block, fs[i])
        BY <1>11
      <4>2. fs[i] # d
        <5>1. d # Nil /\ "none" \notin ValueTags
          BY <1>13, HeapAssumption DEF ValueTags
        <5> QED
          BY <1>13, <4>1, <5>1 DEF IsValue
      <4> QED
        BY <1>16, <4>1, <4>2 DEF IsValue, AN
    <3> QED
      BY <1>11, <3>1
  <2>4. PICK m \in [Addr -> Nat] :
           /\ \A a \in Addr : m[a] = m1[a] + CountIn(fs, a)
           /\ Good(Duped(b1, fs), m) /\ SameShapes(Duped(b1, fs), b1)
           /\ DyingIn(b1) = {} => DyingIn(Duped(b1, fs)) = {}
    BY ONLY <2>2, <2>3, AddGood
  <2> QED
    BY <2>1, <2>4
<1>18. /\ block'[d].tag = tag /\ block'[d].fields = fs /\ block'[d].self = 0
       /\ block'[d].pooled = Small(n) /\ SizeOf(block'[d]) = n
       /\ \A c \in Addr : c # d => SameShape(block'[c], block[c])
       /\ ShapesBut(block', block, d)
  <2>1. SameShape(block'[d], b) /\ \A c \in Addr : c # d => SameShape(block'[c], block[c])
    BY <1>13, <1>16, <1>17 DEF SameShapes
  <2> QED
    BY <1>12, <2>1 DEF SameShape, SizeOf, ShapesBut
<1>19. /\ chain'.of = r /\ chain'.made = Append(chain.made, d) /\ chain' \in [of : AN, made : Seq(Addr)]
       /\ Len(chain'.made) = p /\ chain'.made[p] = d
       /\ \A i \in 1 .. Len(chain.made) : chain'.made[i] = chain.made[i]
       /\ \A a \in Addr : MadeCount(a)' = MadeCount(a) + OneIf(d = a)
  <2>1. chain \in [of : AN, made : Seq(Addr)]
    BY <1>1 DEF TypeInv
  <2>2. chain' = [of |-> chain.of, made |-> Append(chain.made, d)]
    BY <1>10, <2>1
  <2>3. chain'.of = r /\ chain'.made = Append(chain.made, d) /\ chain' \in [of : AN, made : Seq(Addr)]
    BY <1>2, <1>3, <1>13, <2>1, <2>2
  <2>4. ASSUME NEW a \in Addr PROVE MadeCount(a)' = MadeCount(a) + OneIf(d = a)
    <3>1. chain.made \in Seq(Addr) /\ d \in Addr
      BY <1>3, <1>13, <2>1
    <3>2. CountIn(Append(chain.made, d), a) = CountIn(chain.made, a) + OneIf(d = a)
      BY ONLY <3>1, CountInAppend
    <3> QED
      BY <2>3, <3>2 DEF MadeCount
  <2> QED
    BY <1>2, <1>3, <1>13, <2>3, <2>4
<1>20. TypeInv'
  BY <1>1, <1>10, <1>13, <1>17, <1>19, GoodTyped DEF TypeInv
<1>21. Unowned(d) /\ Total(d) = 0 /\ ~IsMirror(d) /\ \A i : ~Released(d, i)
  BY <1>13, DeadUnowned
<1>22. PoolInv'
  BY <1>1, <1>7, <1>10, <1>12, <1>18, PoolGrows
<1>23. PinInv' /\ HandlerInv'
  <2>1. \A i \in 1 .. Len(ks) : ks[i].fr # d
    BY <1>21 DEF Unowned
  <2> QED
    BY <1>1, <1>10, <1>13, <1>18, <2>1, StacksFree
<1>24. HeldBy(d)' = fs
  <2>1. ~IsMirror(d)' /\ \A i : ~Released(d, i)'
    BY <1>10, <1>21 DEF Released, IsMirror
  <2>2. HeldBy(d)' = [i \in 1 .. Len(fs) |-> IF i = 0 THEN Nil ELSE fs[i]]
    BY <1>18, <2>1 DEF HeldBy
  <2> QED
    BY <1>11, <2>2
<1>25. \A a \in Addr : Total(a)' = m[a]
  <2> TAKE a \in Addr
  <2>1. \A c \in Addr : c # d => HeldAlike(c)
    BY <1>10, <1>18 DEF HeldAlike, SameShape, Released, IsMirror
  <2>2. HeldCount(a)' = HeldCount(a) + CountIn(fs, a) /\ CountIn(fs, a) \in Nat
    BY <1>13, <1>20, <1>24, <2>1, HeldGrown
  <2>3. CountsNow(a) /\ CountsNow(a)' /\ OneIf(d = a) \in Nat
    BY <1>1, <1>20, CountsArePrime DEF AllCounted, OneIf
  <2>4. PICK cv, f : cv = CountIn(fs, a) /\ f = OneIf(d = a)
    OBVIOUS
  <2>5. /\ LocalCount(a) \in Nat /\ ClauseCount(a) \in Nat /\ FramedCount(a) \in Nat /\ ShellCount(a) \in Nat
    BY <2>3 DEF CountsNow
  <2>6. cv \in Int /\ f \in Int /\ 0 \in Int
    BY <2>2, <2>3, <2>4
  <2>7. HeldCount(a)' = HeldCount(a) + cv /\ MadeCount(a)' = MadeCount(a) + f
    BY <1>19, <2>2, <2>4
  <2>8. /\ LocalCount(a)' = LocalCount(a) + 0 /\ ClauseCount(a)' = ClauseCount(a) + 0
        /\ FramedCount(a)' = FramedCount(a) + 0 /\ ShellCount(a)' = ShellCount(a) + 0
    BY <1>10, <2>5 DEF LocalCount, ClauseCount, FramedCount, ShellCount, Clauses, Framed
  <2>9. Total(a)' = Total(a) + (0 + 0 + 0 + f + cv + 0) /\ Total(a) \in Nat
    <3>1. CountsNow(a) /\ CountsNow(a)'
      BY <2>3
    <3> QED
      BY ONLY <2>6, <2>7, <2>8, <3>1, TotalMoves
  <2>10. m[a] = m1[a] + cv
    BY <1>17, <2>4
  <2>11. m1[a] = Total(a) + f
    BY <1>15, <1>16, <1>21, <2>4, <2>9 DEF OneIf
  <2> QED
    BY ONLY <2>6, <2>9, <2>10, <2>11
<1>26. ShapeInv' /\ CountInv'
  <2>1. work' = DyingIn(block')
    BY <1>3, <1>10, <1>17
  <2> QED
    BY <1>17, <1>25, <2>1, GoodIsCounted
<1>27. SortInv'
  <2>1. \A u \in AN : (IsValue(block, u) => IsValue(block', u)) /\ (IsFrame(block, u) => IsFrame(block', u))
    BY <1>13, <1>18, SortsKept
  <2>2. \A x \in Locals : IsValue(block', local'[x])
    BY <1>1, <1>10, <2>1 DEF SortInv, TypeInv
  <2>3. \A i \in 1 .. Len(hs') : IsValue(block', hs'[i].clause)
    <3> TAKE i \in 1 .. Len(hs')
    <3>1. hs'[i] = hs[i] /\ i \in 1 .. Len(hs)
      BY <1>10
    <3>2. Clauses \in Seq(AN) /\ Len(Clauses) = Len(hs) /\ Clauses[i] = hs[i].clause
      BY <1>1, <3>1, SeqsTyped
    <3>3. hs[i].clause \in AN
      BY <3>1, <3>2
    <3> QED
      BY <1>1, <2>1, <3>1, <3>3 DEF SortInv
  <2>4. \A i \in 1 .. Len(ks') : IsFrame(block', ks'[i].fr)
    <3> TAKE i \in 1 .. Len(ks')
    <3>1. ks'[i] = ks[i] /\ i \in 1 .. Len(ks)
      BY <1>10
    <3>2. ks[i].fr \in AN
      BY <3>1, TopAlone DEF AN
    <3> QED
      BY <1>1, <2>1, <3>1, <3>2 DEF SortInv
  <2>5. \A i \in 1 .. Len(chain'.made) : IsFrame(block', chain'.made[i])
    <3> TAKE i \in 1 .. Len(chain'.made)
    <3>1. CASE i = p
      BY <1>11, <1>13, <1>18, <1>19, <3>1 DEF IsFrame
    <3>2. CASE i # p
      <4>1. i \in 1 .. Len(chain.made)
        BY <1>2, <1>3, <1>19, <3>2
      <4>2. IsFrame(block, chain.made[i]) /\ chain.made[i] \in AN
        BY <1>1, <4>1 DEF SortInv, IsFrame, AN
      <4> QED
        BY <1>19, <2>1, <4>1, <4>2
    <3> QED
      BY <3>1, <3>2
  <2>6. ASSUME NEW i \in 1 .. Len(block'[d].fields)
        PROVE  IF block'[d].tag = "resume" THEN IsFrame(block', block'[d].fields[i]) ELSE IsValue(block', block'[d].fields[i])
    <3>1. block'[d].tag # "resume" /\ block'[d].fields[i] = fs[i] /\ fs[i] \in AN /\ IsValue(block, fs[i])
      BY <1>11, <1>18 DEF FrameTags
    <3> QED
      BY <2>1, <3>1
  <2>7. \A c \in Addr : \A i \in 1 .. Len(block[c].fields) : c # d /\ Released(c, i) => Released(c, i)'
    BY <1>10 DEF Released
  <2> QED
    BY <1>1, <1>13, <1>18, <2>2, <2>3, <2>4, <2>5, <2>6, <2>7, SortGrow
<1>28. TokenInv'
  BY <1>3, <1>10 DEF TokenInv
<1>29. ChainInv'
  <2>1. chain'.of # Nil /\ work' = {} /\ ~token'.on
    BY <1>3, <1>10, <1>19
  <2>2. r # d
    BY <1>3, <1>13
  <2>3. block'[r].tag = "resume" /\ block'[r].fields = block[r].fields
    BY <1>3, <1>18, <2>2 DEF SameShape
  <2>4. \E x \in Locals : local'[x] = r
    BY <1>1, <1>2, <1>3, <1>10 DEF ChainInv
  <2>5. Len(chain'.made) <= Len(block'[r].fields)
    BY <1>3, <1>19, <2>3
  <2> QED
    BY <1>19, <2>1, <2>3, <2>4, <2>5 DEF ChainInv
<1> QED
  BY <1>20, <1>22, <1>23, <1>26, <1>27, <1>28, <1>29 DEF IInv

\* Some blocks that held nothing now hold what a set of variables held.
Mirrored(H, G, M) ==
  /\ Holding(H) /\ Holding(G) /\ M \subseteq Addr
  /\ \A c \in Addr : c \notin M => G[c] = H[c]
  /\ \A c \in M : \A i \in 1 .. Len(H[c]) : H[c][i] = Nil

\* The heap is counted in two parts.
LEMMA HeapSplit ==
  ASSUME NEW H, Holding(H), NEW F, NEW a
  PROVE  /\ HeapCount(H, a) = CountOf(At(H), SlotsIn(H, F), a) + CountOf(At(H), SlotsIn(H, Addr \ F), a)
         /\ IsFiniteSet(SlotsIn(H, F))
         /\ CountOf(At(H), SlotsIn(H, F), a) \in Nat /\ CountOf(At(H), SlotsIn(H, Addr \ F), a) \in Nat
<1>1. PICK V : V = AN
  OBVIOUS
<1>2. H \in [Addr -> Seq(V)]
  BY <1>1 DEF Holding
<1> QED
  BY ONLY <1>2, HeapCountSplit

\* Frames that stop mirroring own as many references as the variables they
\* mirrored.
LEMMA HeapMirror ==
  ASSUME NEW H, NEW G, NEW M, Mirrored(H, G, M), NEW S, IsFiniteSet(S), NEW f, NEW a \in Addr,
         NEW h \in [S -> SlotsIn(G, M)],
         \A x, y \in S : h[x] = h[y] => x = y,
         \A t \in SlotsIn(G, M) : \E x \in S : h[x] = t,
         \A x \in S : (f[x] = a) <=> (At(G)[h[x]] = a)
  PROVE  HeapCount(G, a) = HeapCount(H, a) + CountOf(f, S, a)
<1>0. Holding(H) /\ Holding(G)
  BY DEF Mirrored
<1>1. /\ H \in [Addr -> Seq(AN)] /\ G \in [Addr -> Seq(AN)] /\ M \subseteq Addr
      /\ \A c \in Addr : c \notin M => G[c] = H[c]
      /\ \A c \in M : \A i \in 1 .. Len(H[c]) : H[c][i] = Nil
  BY DEF Mirrored, Holding
<1>2. PICK E : E = Addr \ M
  OBVIOUS
<1>3. HeapCount(H, a) = CountOf(At(H), SlotsIn(H, M), a) + CountOf(At(H), SlotsIn(H, Addr \ M), a)
      /\ IsFiniteSet(SlotsIn(H, M))
      /\ CountOf(At(H), SlotsIn(H, M), a) \in Nat /\ CountOf(At(H), SlotsIn(H, Addr \ M), a) \in Nat
  BY <1>0, HeapSplit
<1>4. HeapCount(G, a) = CountOf(At(G), SlotsIn(G, M), a) + CountOf(At(G), SlotsIn(G, Addr \ M), a)
      /\ CountOf(At(G), SlotsIn(G, M), a) \in Nat /\ CountOf(At(G), SlotsIn(G, Addr \ M), a) \in Nat
  BY <1>0, HeapSplit
<1>5. CountOf(At(G), SlotsIn(G, E), a) = CountOf(At(H), SlotsIn(H, E), a)
  <2>1. AgreeOn(G, H, E)
    BY <1>1, <1>2 DEF AgreeOn
  <2> QED
    BY <1>0, <2>1, CountElsewhere
<1>6. CountOf(At(G), SlotsIn(G, Addr \ M), a) = CountOf(At(H), SlotsIn(H, Addr \ M), a)
  BY <1>2, <1>5, Zenon
<1>7. CountOf(At(H), SlotsIn(H, M), a) = 0
  <2>1. PICK T : T = SlotsIn(H, M)
    OBVIOUS
  <2>2. \A t \in T : At(H)[t] # a
    <3> TAKE t \in T
    <3>1. t \in Slots(H) /\ t[1] \in M /\ t[2] \in 1 .. Len(H[t[1]])
      BY <2>1 DEF SlotsIn, Slots
    <3>2. At(H)[t] = H[t[1]][t[2]]
      BY <3>1 DEF At
    <3> QED
      BY <1>1, <3>1, <3>2, HeapAssumption
  <2>3. IsFiniteSet(T)
    BY <1>3, <2>1
  <2>4. CountOf(At(H), T, a) = 0
    BY <2>2, <2>3, CountNat
  <2> QED
    BY <2>1, <2>4
<1>8. CountOf(At(G), SlotsIn(G, M), a) = CountOf(f, S, a)
  <2>1. PICK T, g : T = SlotsIn(G, M) /\ g = At(G)
    OBVIOUS
  <2>2. h \in [S -> T] /\ (\A t \in T : \E x \in S : h[x] = t) /\ \A x \in S : (f[x] = a) <=> (g[h[x]] = a)
    BY <2>1
  <2>3. CountOf(g, T, a) = CountOf(f, S, a)
    BY <2>2, CountMoved
  <2> QED
    BY <2>1, <2>3
<1> QED
  BY <1>3, <1>4, <1>6, <1>7, <1>8

\* The mirrors from a position of the frame stack on, and what they mirror.
MirrorsFrom(p) == {b \in Addr : \E i \in p .. Len(ks) : ks[i].fr = b /\ ks[i].pins # << >>}
LeftFrom(p) == UNION {Range(ks[i].pins) : i \in p .. Len(ks)}

\* The variables a slice of the stack mirrors.
LEMMA LeftIs ==
  ASSUME TypeInv, NEW p \in 1 .. Len(ks), NEW x
  PROVE  x \in LeftFrom(p) <=> \E i \in p .. Len(ks) : \E j \in 1 .. Len(ks[i].pins) : ks[i].pins[j] = x
<1>1. \A i \in p .. Len(ks) : DOMAIN ks[i].pins = 1 .. Len(ks[i].pins)
  <2> TAKE i \in p .. Len(ks)
  <2>1. ks \in Seq([fr : Addr, pins : Seq(Locals)])
    BY DEF TypeInv
  <2>2. i \in 1 .. Len(ks)
    BY <2>1
  <2>3. ks[i] \in [fr : Addr, pins : Seq(Locals)]
    BY <2>1, <2>2, ElementOfSeq
  <2>4. ks[i].pins \in Seq(Locals)
    BY <2>3
  <2> QED
    BY <2>4
<1> QED
  BY <1>1 DEF LeftFrom, Range

\* Frames that are abandoned to what they mirror own it from now on.
LEMMA MirrorsTake ==
  ASSUME IInv, NEW p \in 1 .. Len(ks), NEW G, Holding(G),
         \A c \in Addr : c \notin MirrorsFrom(p) => G[c] = Held[c],
         \A c \in MirrorsFrom(p) : G[c] = block[c].fields, NEW a \in Addr
  PROVE  HeapCount(G, a) = HeldCount(a) + CountOf(local, LeftFrom(p), a)
<1>1. TypeInv /\ PinInv
  BY DEF IInv
<1>2. PICK M, S : M = MirrorsFrom(p) /\ S = LeftFrom(p)
  OBVIOUS
<1>3. Len(ks) \in Nat /\ \A i \in p .. Len(ks) : i \in 1 .. Len(ks)
  BY <1>1 DEF TypeInv
<1>4. \A x : x \in S <=> \E i \in p .. Len(ks) : \E j \in 1 .. Len(ks[i].pins) : ks[i].pins[j] = x
  BY <1>1, <1>2, LeftIs
<1>5. \A b : b \in M <=> b \in Addr /\ \E i \in p .. Len(ks) : ks[i].fr = b /\ ks[i].pins # << >>
  BY <1>2 DEF MirrorsFrom
<1>6. ASSUME NEW i \in p .. Len(ks)
      PROVE  /\ ks[i].fr \in Addr /\ ks[i].pins \in Seq(Locals) /\ i \in 1 .. Len(ks)
             /\ \A k \in 1 .. Len(ks) : ks[k].fr = ks[i].fr => k = i
             /\ ks[i].pins # << >> =>
                  /\ ks[i].fr \in M /\ Len(block[ks[i].fr].fields) = Len(ks[i].pins)
                  /\ G[ks[i].fr] = block[ks[i].fr].fields
                  /\ \A j \in 1 .. Len(ks[i].pins) : block[ks[i].fr].fields[j] = local[ks[i].pins[j]]
  <2>1. i \in 1 .. Len(ks) /\ ks[i].fr \in Addr /\ ks[i].pins \in Seq(Locals)
        /\ \A k \in 1 .. Len(ks) : ks[k].fr = ks[i].fr => k = i
    BY <1>3, TopAlone
  <2>2. ASSUME ks[i].pins # << >>
        PROVE  /\ ks[i].fr \in M /\ Len(block[ks[i].fr].fields) = Len(ks[i].pins)
               /\ \A j \in 1 .. Len(ks[i].pins) : block[ks[i].fr].fields[j] = local[ks[i].pins[j]]
    BY <1>1, <1>5, <2>1, <2>2 DEF PinInv
  <2> QED
    BY <1>2, <2>1, <2>2
<1>7. S \subseteq Locals
  <2> SUFFICES ASSUME NEW x \in S PROVE x \in Locals
    OBVIOUS
  <2>1. PICK i \in p .. Len(ks) : \E j \in 1 .. Len(ks[i].pins) : ks[i].pins[j] = x
    BY <1>4
  <2>2. ks[i].pins \in Seq(Locals)
    BY <1>6
  <2> QED
    BY <2>1, <2>2
<1>8. IsFiniteSet(S)
  BY <1>7, HeapAssumption, FS_Subset
<1>9. Mirrored(Held, G, M)
  <2>1. Holding(Held)
    BY <1>1, HeldTyped DEF Holding
  <2>2. M \subseteq Addr /\ \A c \in Addr : c \notin M => G[c] = Held[c]
    BY <1>2, <1>5
  <2>3. ASSUME NEW c \in M, NEW i \in 1 .. Len(Held[c]) PROVE Held[c][i] = Nil
    <3>1. c \in Addr /\ IsMirror(c)
      BY <1>3, <1>5 DEF IsMirror
    <3>2. Held[c] = HeldBy(c) /\ Len(HeldBy(c)) = Len(block[c].fields)
      BY <1>1, <3>1, HeldTyped
    <3>3. i \in 1 .. Len(block[c].fields)
      BY <3>2
    <3> QED
      BY <3>1, <3>2, <3>3 DEF HeldBy
  <2> QED
    BY <2>1, <2>2, <2>3 DEF Mirrored
<1>10. PICK T : T = SlotsIn(G, M)
  OBVIOUS
<1>11. \A t : t \in T <=> t \in Addr \X Nat /\ t[1] \in M /\ t[2] \in 1 .. Len(G[t[1]])
  BY <1>10 DEF SlotsIn, Slots
\* The slot that mirrors a variable.
<1>12. \A x \in S : \E t \in T : \E i \in p .. Len(ks) : \E j \in 1 .. Len(ks[i].pins) :
                       ks[i].pins[j] = x /\ t = <<ks[i].fr, j>>
  <2> TAKE x \in S
  <2>1. PICK i \in p .. Len(ks) : \E j \in 1 .. Len(ks[i].pins) : ks[i].pins[j] = x
    BY <1>4
  <2>2. PICK j \in 1 .. Len(ks[i].pins) : ks[i].pins[j] = x
    BY <2>1
  <2>3. ks[i].pins # << >> /\ ks[i].pins \in Seq(Locals)
    BY <1>6, <2>2, EmptySeq
  <2>4. ks[i].fr \in M /\ ks[i].fr \in Addr /\ Len(G[ks[i].fr]) = Len(ks[i].pins) /\ j \in Nat
    BY <1>6, <2>2, <2>3
  <2>5. PICK t : t = <<ks[i].fr, j>>
    OBVIOUS
  <2>6. t \in Addr \X Nat /\ t[1] = ks[i].fr /\ t[2] = j
    BY <2>4, <2>5
  <2>7. t \in T
    BY <1>11, <2>2, <2>4, <2>6
  <2> QED
    BY <2>2, <2>5, <2>7
<1>13. PICK h : h = [x \in S |-> CHOOSE t \in T : \E i \in p .. Len(ks) : \E j \in 1 .. Len(ks[i].pins) :
                                    ks[i].pins[j] = x /\ t = <<ks[i].fr, j>>]
  OBVIOUS
<1>14. ASSUME NEW x \in S
       PROVE  h[x] \in T /\ \E i \in p .. Len(ks) : \E j \in 1 .. Len(ks[i].pins) :
                              ks[i].pins[j] = x /\ h[x] = <<ks[i].fr, j>>
  BY <1>12, <1>13
<1>15. h \in [S -> T]
  BY <1>13, <1>14
<1>16. ASSUME NEW x \in S, NEW y \in S, h[x] = h[y] PROVE x = y
  <2>1. PICK i \in p .. Len(ks) : \E j \in 1 .. Len(ks[i].pins) : ks[i].pins[j] = x /\ h[x] = <<ks[i].fr, j>>
    BY <1>14
  <2>2. PICK j \in 1 .. Len(ks[i].pins) : ks[i].pins[j] = x /\ h[x] = <<ks[i].fr, j>>
    BY <2>1
  <2>3. PICK k \in p .. Len(ks) : \E l \in 1 .. Len(ks[k].pins) : ks[k].pins[l] = y /\ h[y] = <<ks[k].fr, l>>
    BY <1>14
  <2>4. PICK l \in 1 .. Len(ks[k].pins) : ks[k].pins[l] = y /\ h[y] = <<ks[k].fr, l>>
    BY <2>3
  <2>5. ks[i].fr = ks[k].fr /\ j = l
    <3>1. <<ks[i].fr, j>> = <<ks[k].fr, l>>
      BY <1>16, <2>2, <2>4
    <3> QED
      BY <3>1
  <2>6. i = k
    BY <1>6, <2>5
  <2> QED
    BY <2>2, <2>4, <2>5, <2>6
<1>17. ASSUME NEW t \in T PROVE \E x \in S : h[x] = t
  <2>1. t \in Addr \X Nat /\ t[1] \in M /\ t[2] \in 1 .. Len(G[t[1]])
    BY <1>11
  <2>2. PICK i \in p .. Len(ks) : ks[i].fr = t[1] /\ ks[i].pins # << >>
    BY <1>5, <2>1
  <2>3. PICK j : j = t[2]
    OBVIOUS
  <2>4. j \in 1 .. Len(ks[i].pins)
    BY <1>6, <2>1, <2>2, <2>3
  <2>5. PICK x : x = ks[i].pins[j]
    OBVIOUS
  <2>6. x \in S
    BY <1>4, <2>4, <2>5
  <2>7. PICK k \in p .. Len(ks) : \E l \in 1 .. Len(ks[k].pins) : ks[k].pins[l] = x /\ h[x] = <<ks[k].fr, l>>
    BY <1>14, <2>6
  <2>8. PICK l \in 1 .. Len(ks[k].pins) : ks[k].pins[l] = x /\ h[x] = <<ks[k].fr, l>>
    BY <2>7
  <2>9. i = k /\ j = l
    <3>1. \A e, f \in 1 .. Len(ks) : \A g \in 1 .. Len(ks[e].pins) : \A m \in 1 .. Len(ks[f].pins) :
            ks[e].pins[g] = ks[f].pins[m] => e = f /\ g = m
      BY <1>1 DEF PinInv
    <3> QED
      BY <1>3, <2>4, <2>5, <2>8, <3>1
  <2>10. h[x] = <<t[1], t[2]>>
    BY <2>2, <2>3, <2>8, <2>9
  <2>11. t = <<t[1], t[2]>>
    BY <2>1
  <2> QED
    BY <2>6, <2>10, <2>11
<1>18. ASSUME NEW x \in S PROVE (local[x] = a) <=> (At(G)[h[x]] = a)
  <2>1. PICK i \in p .. Len(ks) : \E j \in 1 .. Len(ks[i].pins) : ks[i].pins[j] = x /\ h[x] = <<ks[i].fr, j>>
    BY <1>14
  <2>2. PICK j \in 1 .. Len(ks[i].pins) : ks[i].pins[j] = x /\ h[x] = <<ks[i].fr, j>>
    BY <2>1
  <2>3. ks[i].pins # << >>
    BY <1>6, <2>2, EmptySeq
  <2>4. G[ks[i].fr][j] = local[x]
    BY <1>6, <2>2, <2>3, SMTT(40)
  <2>5. h[x] \in Slots(G)
    BY <1>10, <1>14 DEF SlotsIn
  <2>6. At(G)[h[x]] = G[h[x][1]][h[x][2]]
    BY <2>5 DEF At
  <2> QED
    BY <2>2, <2>4, <2>6
<1>19. /\ h \in [S -> SlotsIn(G, M)] /\ (\A x, y \in S : h[x] = h[y] => x = y)
       /\ (\A t \in SlotsIn(G, M) : \E x \in S : h[x] = t)
       /\ (\A x \in S : (local[x] = a) <=> (At(G)[h[x]] = a))
  BY <1>10, <1>15, <1>16, <1>17, <1>18
<1>20. PICK f, H : f = local /\ H = Held
  OBVIOUS
<1>21. HeapCount(G, a) = HeapCount(H, a) + CountOf(f, S, a)
  <2>1. Mirrored(H, G, M) /\ \A x \in S : (f[x] = a) <=> (At(G)[h[x]] = a)
    BY <1>9, <1>19, <1>20
  <2> QED
    BY ONLY <1>8, <1>19, <2>1, a \in Addr, HeapMirror, Z3T(30)
<1> QED
  BY <1>2, <1>20, <1>21 DEF HeldCount

LastOf(t, s, p) == t = [i \in 1 .. Len(s) - p + 1 |-> s[p + i - 1]]

\* The end of a stack, seen as a list.
LEMMA SliceIs ==
  ASSUME NEW V, NEW s \in Seq(V), NEW p \in 1 .. Len(s), NEW t, LastOf(t, s, p)
  PROVE  /\ t \in Seq(V) /\ Len(t) = Len(s) - p + 1 /\ t # << >>
         /\ \A i \in 1 .. Len(t) : p + i - 1 \in p .. Len(s) /\ t[i] = s[p + i - 1]
         /\ t = SubSeq(s, p, Len(s))
<1>1. Len(s) \in Nat /\ p \in Nat /\ Len(s) - p + 1 \in Nat
  OBVIOUS
<1>2. \A i \in 1 .. Len(s) - p + 1 : p + i - 1 \in 1 .. Len(s) /\ p + i - 1 \in p .. Len(s)
  BY <1>1
<1>3. \A i \in 1 .. Len(s) - p + 1 : s[p + i - 1] \in V
  BY <1>2, ElementOfSeq
<1>4. t \in Seq(V) /\ Len(t) = Len(s) - p + 1 /\ \A i \in 1 .. Len(s) - p + 1 : t[i] = s[p + i - 1]
  BY <1>1, <1>3 DEF LastOf
<1>5. /\ SubSeq(s, p, Len(s)) \in Seq(V) /\ Len(SubSeq(s, p, Len(s))) = Len(s) - p + 1
      /\ \A i \in 1 .. Len(s) - p + 1 : SubSeq(s, p, Len(s))[i] = s[p + i - 1]
  BY <1>1, <1>2
<1>6. t = SubSeq(s, p, Len(s))
  BY <1>4, <1>5, SeqEqual
<1>7. t # << >>
  BY <1>1, <1>4
<1> QED
  BY <1>2, <1>4, <1>6, <1>7

\* Both stacks are cut at a handler.
LEMMA CutBoth ==
  ASSUME IInv, NEW p \in 1 .. Len(ks), NEW at \in 1 .. Len(hs), hs[at].hf = ks[p].fr,
         ks' = SubSeq(ks, 1, p - 1), hs' = SubSeq(hs, 1, at - 1),
         NEW d \in Addr, ShapesBut(block', block, d), \A i \in 1 .. Len(ks) : ks[i].fr # d
  PROVE  HandlerInv'
<1>1. TypeInv /\ HandlerInv
  BY DEF IInv
<1>2. Len(ks) \in Nat /\ Len(hs) \in Nat /\ p - 1 \in 0 .. Len(ks) /\ at - 1 \in 0 .. Len(hs)
  <2>1. ks \in Seq([fr : Addr, pins : Seq(Locals)]) /\ hs \in Seq([clause : AN, hf : Addr])
    BY <1>1 DEF TypeInv
  <2>2. Len(ks) \in Nat /\ Len(hs) \in Nat
    BY ONLY <2>1
  <2> QED
    BY <2>2
<1>3. Len(ks') = p - 1 /\ \A i \in 1 .. p - 1 : ks'[i] = ks[i]
  BY <1>1, <1>2, KsCut
<1>4. Len(hs') = at - 1 /\ \A i \in 1 .. at - 1 : hs'[i] = hs[i]
  BY <1>1, <1>2, HsCut
<1>5. \A i \in 1 .. Len(ks') : i \in 1 .. Len(ks) /\ i < p /\ ks'[i] = ks[i]
  BY <1>2, <1>3
<1>6. \A i \in 1 .. Len(hs') : i \in 1 .. Len(hs) /\ i < at /\ hs'[i] = hs[i]
  BY <1>2, <1>4
<1>7. \A i \in 1 .. Len(ks) : ks[i].fr \in Addr /\ block'[ks[i].fr].tag = block[ks[i].fr].tag
  BY TopAlone DEF ShapesBut, SameShape
<1>8. /\ \A q \in 1 .. Len(ks) : block[ks[q].fr].tag = "handler" => \E i \in 1 .. Len(hs) : hs[i].hf = ks[q].fr
      /\ \A i \in 1 .. Len(hs) : \E q \in 1 .. Len(ks) : hs[i].hf = ks[q].fr /\ block[ks[q].fr].tag = "handler"
      /\ \A i, j \in 1 .. Len(hs) : \A q, r \in 1 .. Len(ks) :
            hs[i].hf = ks[q].fr /\ hs[j].hf = ks[r].fr => (i < j <=> q < r)
  BY <1>1 DEF HandlerInv
<1>9. \A q \in 1 .. Len(ks') : block'[ks'[q].fr].tag = "handler" => \E i \in 1 .. Len(hs') : hs'[i].hf = ks'[q].fr
  <2> TAKE q \in 1 .. Len(ks')
  <2> HAVE block'[ks'[q].fr].tag = "handler"
  <2>1. q \in 1 .. Len(ks) /\ q < p /\ ks'[q] = ks[q] /\ block[ks[q].fr].tag = "handler"
    BY <1>5, <1>7
  <2>2. PICK i \in 1 .. Len(hs) : hs[i].hf = ks[q].fr
    BY <1>8, <2>1
  <2>3. i < at
    BY <1>8, <2>1, <2>2
  <2>4. i \in 1 .. Len(hs') /\ hs'[i].hf = ks'[q].fr
    BY <1>2, <1>4, <2>1, <2>2, <2>3
  <2> QED
    BY <2>4
<1>10. \A i \in 1 .. Len(hs') : \E q \in 1 .. Len(ks') : hs'[i].hf = ks'[q].fr /\ block'[ks'[q].fr].tag = "handler"
  <2> TAKE i \in 1 .. Len(hs')
  <2>1. i \in 1 .. Len(hs) /\ i < at /\ hs'[i] = hs[i]
    BY <1>6
  <2>2. PICK q \in 1 .. Len(ks) : hs[i].hf = ks[q].fr /\ block[ks[q].fr].tag = "handler"
    BY <1>8, <2>1
  <2>3. q < p
    BY <1>8, <2>1, <2>2
  <2>4. q \in 1 .. Len(ks')
    BY <1>2, <1>3, <2>2, <2>3
  <2>5. hs'[i].hf = ks'[q].fr /\ block'[ks'[q].fr].tag = "handler"
    BY <1>5, <1>7, <2>1, <2>2, <2>4
  <2> QED
    BY <2>4, <2>5
<1>11. \A i, j \in 1 .. Len(hs') : \A q, r \in 1 .. Len(ks') :
            hs'[i].hf = ks'[q].fr /\ hs'[j].hf = ks'[r].fr => (i < j <=> q < r)
  <2> TAKE i, j \in 1 .. Len(hs')
  <2> TAKE q, r \in 1 .. Len(ks')
  <2>1. /\ i \in 1 .. Len(hs) /\ j \in 1 .. Len(hs) /\ hs'[i] = hs[i] /\ hs'[j] = hs[j]
        /\ q \in 1 .. Len(ks) /\ r \in 1 .. Len(ks) /\ ks'[q] = ks[q] /\ ks'[r] = ks[r]
    BY <1>5, <1>6
  <2> QED
    BY <1>8, <2>1
<1> QED
  BY <1>9, <1>10, <1>11 DEF HandlerInv

\* What the frames below the cut pin is not touched.
LEMMA CutPins ==
  ASSUME IInv, NEW p \in 1 .. Len(ks), ks' = SubSeq(ks, 1, p - 1),
         NEW d \in Addr, ShapesBut(block', block, d), \A i \in 1 .. Len(ks) : ks[i].fr # d,
         \A x \in Locals : local'[x] = local[x] \/ x \in Own \/ x \in LeftFrom(p)
  PROVE  PinInv'
<1>1. TypeInv /\ PinInv
  BY DEF IInv
<1>2. Len(ks) \in Nat /\ p - 1 \in 0 .. Len(ks)
  BY <1>1 DEF TypeInv
<1>3. Len(ks') = p - 1 /\ \A i \in 1 .. p - 1 : ks'[i] = ks[i]
  BY <1>1, <1>2, KsCut
<1>4. \A i \in 1 .. Len(ks') : i \in 1 .. Len(ks) /\ i < p /\ ks'[i] = ks[i]
  BY <1>2, <1>3
<1>5. \A f, g \in 1 .. Len(ks) : \A h \in 1 .. Len(ks[f].pins) : \A m \in 1 .. Len(ks[g].pins) :
            ks[f].pins[h] = ks[g].pins[m] => f = g /\ h = m
  BY <1>1 DEF PinInv
<1>6. ASSUME NEW i \in 1 .. Len(ks'), NEW j \in 1 .. Len(ks[i].pins)
      PROVE  local'[ks[i].pins[j]] = local[ks[i].pins[j]]
  <2>1. i \in 1 .. Len(ks) /\ i < p
    BY <1>4
  <2>2. PICK x : x = ks[i].pins[j]
    OBVIOUS
  <2>3. x \in Locals
    <3>1. ks[i].pins \in Seq(Locals)
      BY <2>1, TopAlone
    <3> QED
      BY <2>2, <3>1
  <2>4. x \notin Own
    BY <1>1, <2>1, <2>2, OwnIs
  <2>5. x \notin LeftFrom(p)
    <3>1. SUFFICES ASSUME x \in LeftFrom(p) PROVE FALSE
      OBVIOUS
    <3>2. PICK k \in p .. Len(ks) : \E l \in 1 .. Len(ks[k].pins) : ks[k].pins[l] = x
      BY <1>1, <3>1, LeftIs
    <3>3. k \in 1 .. Len(ks) /\ k # i
      BY <1>2, <2>1
    <3> QED
      BY <1>5, <2>1, <2>2, <3>2, <3>3
  <2> QED
    BY <2>2, <2>3, <2>4, <2>5
<1>7. ASSUME NEW i \in 1 .. Len(ks'), ks'[i].pins # << >>
      PROVE  /\ block'[ks'[i].fr].tag = "frame" /\ Len(block'[ks'[i].fr].fields) = Len(ks'[i].pins)
             /\ \A j \in 1 .. Len(ks'[i].pins) : block'[ks'[i].fr].fields[j] = local'[ks'[i].pins[j]]
  <2>1. i \in 1 .. Len(ks) /\ ks'[i] = ks[i] /\ ks[i].fr \in Addr /\ ks[i].fr # d
    BY <1>4, TopAlone
  <2>2. block'[ks[i].fr].tag = block[ks[i].fr].tag /\ block'[ks[i].fr].fields = block[ks[i].fr].fields
    BY <2>1 DEF ShapesBut, SameShape
  <2>3. /\ block[ks[i].fr].tag = "frame" /\ Len(block[ks[i].fr].fields) = Len(ks[i].pins)
        /\ \A j \in 1 .. Len(ks[i].pins) : block[ks[i].fr].fields[j] = local[ks[i].pins[j]]
    BY <1>1, <1>7, <2>1 DEF PinInv
  <2> QED
    BY <1>6, <2>1, <2>2, <2>3
<1>8. ASSUME NEW i \in 1 .. Len(ks'), NEW k \in 1 .. Len(ks'),
             NEW j \in 1 .. Len(ks'[i].pins), NEW l \in 1 .. Len(ks'[k].pins), ks'[i].pins[j] = ks'[k].pins[l]
      PROVE  i = k /\ j = l
  <2>1. i \in 1 .. Len(ks) /\ ks'[i] = ks[i] /\ k \in 1 .. Len(ks) /\ ks'[k] = ks[k]
    BY <1>4
  <2>2. /\ j \in 1 .. Len(ks[i].pins) /\ l \in 1 .. Len(ks[k].pins) /\ ks[i].pins[j] = ks[k].pins[l]
    BY <1>8, <2>1
  <2> QED
    BY ONLY <1>5, <2>1, <2>2, SMTT(40)
<1> QED
  BY <1>7, <1>8 DEF PinInv

\* Locals are left, the clause's argument and the resumption come.
Leaving(S, y, z, c, d) ==
  /\ S \subseteq Locals /\ y \in Locals /\ z \in Locals /\ y # z
  /\ y \in S \/ local[y] = Nil
  /\ z \in S \/ local[z] = Nil
  /\ c \in AN /\ d \in AN /\ local' = [Emptied(S) EXCEPT ![y] = c, ![z] = d]

\* The variables of the slice are left, two others are assigned.
LEMMA LocalLeft ==
  ASSUME TypeInv, NEW S, NEW y, NEW z, NEW c, NEW d, Leaving(S, y, z, c, d)
  PROVE  /\ local' \in [Locals -> AN] /\ local'[y] = c /\ local'[z] = d
         /\ \A x \in Locals : x # y /\ x # z => local'[x] = IF x \in S THEN Nil ELSE local[x]
         /\ \A a \in Addr : LocalCount(a)' = LocalCount(a) - CountOf(local, S, a) + OneIf(c = a) + OneIf(d = a)
<1>0. /\ S \subseteq Locals /\ y \in Locals /\ z \in Locals /\ y # z
      /\ (y \in S \/ local[y] = Nil) /\ (z \in S \/ local[z] = Nil)
      /\ c \in AN /\ d \in AN /\ local' = [Emptied(S) EXCEPT ![y] = c, ![z] = d]
  BY DEF Leaving
<1> USE <1>0
<1>1. PICK g, h, k : g = Emptied(S) /\ h = [g EXCEPT ![y] = c] /\ k = local'
  OBVIOUS
<1>2. local \in [Locals -> AN] /\ Nil \in AN
  BY DEF TypeInv, AN
<1>3. g \in [Locals -> AN] /\ \A x \in Locals : g[x] = IF x \in S THEN Nil ELSE local[x]
  BY <1>1, <1>2 DEF Emptied
<1>4. h \in [Locals -> AN] /\ h[y] = c /\ \A x \in Locals : x # y => h[x] = g[x]
  BY <1>1, <1>3
<1>5. k = [h EXCEPT ![z] = d]
  BY <1>1
<1>6. k \in [Locals -> AN] /\ k[z] = d /\ \A x \in Locals : x # z => k[x] = h[x]
  BY <1>4, <1>5
<1>7. ASSUME NEW a \in Addr
      PROVE  CountOf(k, Locals, a) = CountOf(local, Locals, a) - CountOf(local, S, a) + OneIf(c = a) + OneIf(d = a)
  <2>1. IsFiniteSet(Locals) /\ IsFiniteSet(S) /\ a # Nil
    BY HeapAssumption, FS_Subset
  <2>2. PICK R : R = Locals \ S
    OBVIOUS
  <2>3. IsFiniteSet(R) /\ S \cap R = {} /\ S \cup R = Locals
    BY <2>1, <2>2, FS_Subset
  <2>4. CountOf(local, Locals, a) = CountOf(local, S, a) + CountOf(local, R, a)
    <3>1. CountOf(local, S \cup R, a) = CountOf(local, S, a) + CountOf(local, R, a)
      BY <2>1, <2>3, CountSplit
    <3> QED
      BY <2>3, <3>1, Zenon
  <2>5. CountOf(g, Locals, a) = CountOf(g, S, a) + CountOf(g, R, a)
    <3>1. CountOf(g, S \cup R, a) = CountOf(g, S, a) + CountOf(g, R, a)
      BY <2>1, <2>3, CountSplit
    <3> QED
      BY <2>3, <3>1, Zenon
  <2>6. CountOf(g, S, a) = 0
    <3>1. \A x \in S : g[x] # a
      BY <1>3, <2>1
    <3> QED
      BY <2>1, <3>1, CountNat
  <2>7. CountOf(g, R, a) = CountOf(local, R, a)
    <3>1. \A x \in R : (local[x] = a) <=> (g[x] = a)
      BY <1>3, <2>2
    <3> QED
      BY <3>1, CountSame
  <2>8. /\ CountOf(local, S, a) \in Nat /\ CountOf(local, R, a) \in Nat /\ CountOf(g, Locals, a) \in Nat
        /\ CountOf(h, Locals, a) \in Nat
    BY <2>1, <2>3, CountNat
  <2>9. CountOf(h, Locals, a) = CountOf(g, Locals, a) - OneIf(g[y] = a) + OneIf(h[y] = a)
    <3>1. \A x \in Locals \ {y} : h[x] = g[x]
      BY <1>4
    <3> QED
      BY <2>1, <3>1, CountChanged
  <2>10. CountOf(k, Locals, a) = CountOf(h, Locals, a) - OneIf(h[z] = a) + OneIf(k[z] = a)
    <3>1. \A x \in Locals \ {z} : k[x] = h[x]
      BY <1>6
    <3> QED
      BY <2>1, <3>1, CountChanged
  <2>11. g[y] = Nil /\ h[z] = Nil
    BY <1>3, <1>4
  <2>12. OneIf(g[y] = a) = 0 /\ OneIf(h[z] = a) = 0 /\ OneIf(c = a) \in Nat /\ OneIf(d = a) \in Nat
    BY <2>1, <2>11 DEF OneIf
  <2>13. OneIf(h[y] = a) = OneIf(c = a) /\ OneIf(k[z] = a) = OneIf(d = a)
    BY <1>4, <1>6
  <2> QED
    BY ONLY <2>4, <2>5, <2>6, <2>7, <2>8, <2>9, <2>10, <2>12, <2>13
<1>8. \A a \in Addr : LocalCount(a)' = LocalCount(a) - CountOf(local, S, a) + OneIf(c = a) + OneIf(d = a)
  BY <1>1, <1>7 DEF LocalCount
<1> QED
  BY <1>1, <1>3, <1>4, <1>6, <1>8

\* What the handler at p takes off the stacks, named.
Captured(p, y, z, at, slice, popped, left) ==
  /\ at = (CHOOSE i \in DOMAIN hs : hs[i].hf = ks[p].fr)
  /\ slice = [i \in 1 .. Len(ks) - p + 1 |-> ks[p + i - 1].fr]
  /\ popped = [i \in 1 .. Len(hs) - at + 1 |-> hs[at + i - 1].clause]
  /\ left = UNION {Range(ks[i].pins) : i \in p .. Len(ks)}
  /\ {y, z} \cap Pinned \subseteq left /\ y # z
  /\ \A l \in {y, z} \ left : local[l] = Nil
  /\ Ask("resume", Words("resume", Len(slice)))
  /\ block' = [Dropped(Duped(block, <<hs[at].clause>>), popped)
                 EXCEPT ![New(Words("resume", Len(slice)))] = NewBlock("resume", slice, 0)]
  /\ work' = Zeroed(Duped(block, <<hs[at].clause>>), popped)
  /\ local' = [Emptied(left) EXCEPT ![y] = hs[at].clause, ![z] = New(Words("resume", Len(slice)))]
  /\ ks' = SubSeq(ks, 1, p - 1) /\ hs' = SubSeq(hs, 1, at - 1) /\ UNCHANGED <<token, chain>>

\* A capture does what Captured says.
LEMMA CaptureIs ==
  ASSUME NEW p, NEW y, NEW z, Capture(p, y, z)
  PROVE  \E at, slice, popped, left : Captured(p, y, z, at, slice, popped, left)
<1> DEFINE at == CHOOSE i \in DOMAIN hs : hs[i].hf = ks[p].fr
           slice == [i \in 1 .. Len(ks) - p + 1 |-> ks[p + i - 1].fr]
           popped == [i \in 1 .. Len(hs) - at + 1 |-> hs[at + i - 1].clause]
           left == UNION {Range(ks[i].pins) : i \in p .. Len(ks)}
<1>1. Captured(p, y, z, at, slice, popped, left)
  BY DEF Capture, Captured
<1> HIDE DEF at, slice, popped, left
<1> QED
  BY <1>1

\* jq_dispatch on its own capture keeps the invariant: the slice of the stack
\* becomes the fields of a resumption, and its frames take over the references
\* of the locals they mirrored.
LEMMA KeepsCapture ==
  ASSUME IInv, NEW p \in 1 .. Len(ks), NEW y \in Locals, NEW z \in Locals, Capture(p, y, z)
  PROVE  IInv'
<1>1. TypeInv /\ TokenInv /\ SortInv /\ CountInv /\ ShapeInv /\ ChainInv /\ PinInv /\ HandlerInv /\ PoolInv /\ AllCounted
  BY CountsAre DEF IInv
<1>2. work = {} /\ chain = NoChain /\ ~token.on /\ token.shell = Nil
  BY <1>1 DEF Capture, Suspendable, Running, TokenInv
<1>3. /\ ks \in Seq([fr : Addr, pins : Seq(Locals)]) /\ hs \in Seq([clause : AN, hf : Addr])
      /\ Len(ks) \in Nat /\ Len(hs) \in Nat /\ DOMAIN hs = 1 .. Len(hs)
  BY <1>1 DEF TypeInv
<1>0. PICK at, slice, popped, left : Captured(p, y, z, at, slice, popped, left)
  BY CaptureIs
<1>4. at = CHOOSE i \in DOMAIN hs : hs[i].hf = ks[p].fr
  BY <1>0 DEF Captured
<1>5. at \in 1 .. Len(hs) /\ hs[at].hf = ks[p].fr
  <2>1. block[ks[p].fr].tag = "handler"
    BY DEF Capture
  <2>2. \E i \in 1 .. Len(hs) : hs[i].hf = ks[p].fr
    BY <1>1, <2>1 DEF HandlerInv
  <2> QED
    BY <1>3, <1>4, <2>2
<1>6. PICK c : /\ slice = [i \in 1 .. Len(ks) - p + 1 |-> ks[p + i - 1].fr]
               /\ popped = [i \in 1 .. Len(hs) - at + 1 |-> hs[at + i - 1].clause]
               /\ c = hs[at].clause
  BY <1>0 DEF Captured
<1>7. /\ slice \in Seq(Addr) /\ Len(slice) = Len(ks) - p + 1 /\ slice # << >>
      /\ \A i \in 1 .. Len(slice) : p + i - 1 \in p .. Len(ks) /\ slice[i] = ks[p + i - 1].fr
      /\ slice = SubSeq(Framed, p, Len(Framed))
  <2>1. Framed \in Seq(Addr) /\ Len(Framed) = Len(ks) /\ \A i \in 1 .. Len(ks) : Framed[i] = ks[i].fr
    BY <1>1, SeqsTyped
  <2>2. \A i \in 1 .. Len(ks) - p + 1 : p + i - 1 \in 1 .. Len(ks)
    BY <1>3
  <2>3. slice = [i \in 1 .. Len(Framed) - p + 1 |-> Framed[p + i - 1]]
    BY <1>6, <2>1, <2>2
  <2>4. p \in 1 .. Len(Framed)
    BY <2>1
  <2>5. /\ slice \in Seq(Addr) /\ Len(slice) = Len(Framed) - p + 1 /\ slice # << >>
        /\ \A i \in 1 .. Len(slice) : p + i - 1 \in p .. Len(Framed) /\ slice[i] = Framed[p + i - 1]
        /\ slice = SubSeq(Framed, p, Len(Framed))
    <3>1. PICK V, s : V = Addr /\ s = Framed
      OBVIOUS
    <3>2. s \in Seq(V) /\ p \in 1 .. Len(s) /\ LastOf(slice, s, p)
      BY <2>1, <2>3, <2>4, <3>1 DEF LastOf
    <3>3. /\ slice \in Seq(V) /\ Len(slice) = Len(s) - p + 1 /\ slice # << >>
          /\ \A i \in 1 .. Len(slice) : p + i - 1 \in p .. Len(s) /\ slice[i] = s[p + i - 1]
          /\ slice = SubSeq(s, p, Len(s))
      BY ONLY <3>2, SliceIs
    <3> QED
      BY <3>1, <3>3
  <2> QED
    BY <1>3, <2>1, <2>2, <2>5
<1>8. /\ popped \in Seq(AN) /\ popped = SubSeq(Clauses, at, Len(Clauses))
  <2>1. Clauses \in Seq(AN) /\ Len(Clauses) = Len(hs) /\ \A i \in 1 .. Len(hs) : Clauses[i] = hs[i].clause
    BY <1>1, SeqsTyped
  <2>2. \A i \in 1 .. Len(hs) - at + 1 : at + i - 1 \in 1 .. Len(hs)
    BY <1>3, <1>5
  <2>3. popped = [i \in 1 .. Len(Clauses) - at + 1 |-> Clauses[at + i - 1]]
    BY <1>6, <2>1, <2>2
  <2>4. at \in 1 .. Len(Clauses)
    BY <1>5, <2>1
  <2>5. LastOf(popped, Clauses, at)
    BY <2>3 DEF LastOf
  <2> QED
    BY ONLY <2>1, <2>4, <2>5, SliceIs
<1>9. c \in AN /\ IsValue(block, c)
  <2>1. Clauses \in Seq(AN) /\ Len(Clauses) = Len(hs) /\ Clauses[at] = hs[at].clause
    BY <1>1, <1>5, SeqsTyped
  <2>2. hs[at].clause \in AN
    BY <1>5, <2>1
  <2> QED
    BY <1>1, <1>5, <1>6, <2>2 DEF SortInv
<1>10. PICK n, d : n = Words("resume", Len(slice)) /\ d = New(n)
  OBVIOUS
<1>11. PICK b : b = NewBlock("resume", slice, 0)
  OBVIOUS
<1>12. PICK called : called = Duped(block, <<c>>)
  OBVIOUS
<1>13. PICK b2 : b2 = Dropped(called, popped)
  OBVIOUS
<1>14. left = LeftFrom(p)
  BY <1>0 DEF Captured, LeftFrom
<1>15. /\ {y, z} \cap Pinned \subseteq left /\ y # z /\ \A l \in {y, z} \ left : local[l] = Nil
       /\ Ask("resume", n) /\ block' = [b2 EXCEPT ![d] = b] /\ work' = Zeroed(called, popped)
       /\ local' = [Emptied(left) EXCEPT ![y] = c, ![z] = d]
       /\ ks' = SubSeq(ks, 1, p - 1) /\ hs' = SubSeq(hs, 1, at - 1)
       /\ UNCHANGED <<token, chain>>
  <2>1. Ask("resume", n) /\ local' = [Emptied(left) EXCEPT ![y] = c, ![z] = d]
    BY <1>0, <1>6, <1>10 DEF Captured
  <2>2. block' = [b2 EXCEPT ![d] = b]
    BY <1>0, <1>6, <1>10, <1>11, <1>12, <1>13 DEF Captured
  <2>3. work' = Zeroed(called, popped)
    BY <1>0, <1>6, <1>12 DEF Captured
  <2> QED
    BY <1>0, <2>1, <2>2, <2>3 DEF Captured
<1>16. Alloc(n) /\ budget' \in [Tags -> Nat]
  <2>1. "resume" \in Tags
    BY DEF Tags
  <2> QED
    BY <1>1, <1>15, <2>1, AskIs
<1>17. /\ b \in Block /\ b.tag = "resume" /\ b.rc = 1 /\ b.fields = slice /\ b.self = 0 /\ b.tag # "none"
       /\ SizeOf(b) = n /\ b.pooled = Small(n) /\ n \in Nat
  <2>1. PICK self, tag : self = 0 /\ tag = "resume"
    OBVIOUS
  <2>2. tag \in Tags /\ slice \in Seq(AN) /\ self \in Nat /\ b = NewBlock(tag, slice, self)
    BY <1>7, <1>11, <2>1 DEF Tags, AN
  <2>3. /\ b \in Block /\ b.tag = tag /\ b.rc = 1 /\ b.fields = slice /\ b.self = self /\ b.tag # "none"
        /\ SizeOf(b) = Words(tag, Len(slice)) /\ b.pooled = Small(Words(tag, Len(slice)))
        /\ Words(tag, Len(slice)) \in Nat
    BY ONLY <2>2, NewBlockIs
  <2> QED
    BY <1>10, <2>1, <2>3
<1>18. /\ d \in Addr /\ block[d] = Dead /\ block[d].tag = "none"
       /\ class' \in [Addr -> 0 .. PoolWords] /\ freelist' \in [1 .. PoolWords -> Seq(Addr)]
  BY <1>1, <1>10, <1>16, <1>17, NewIs
<1>19. Shaped(b, d)
  BY <1>7, <1>17, RcStaticIs DEF Shaped, FrameTags
<1>20. Unowned(d) /\ Total(d) = 0 /\ ~IsMirror(d) /\ (\A i : ~Released(d, i)) /\ d # Nil
  BY <1>18, DeadUnowned, HeapAssumption
<1>21. Good(block, CountFn) /\ work = DyingIn(block) /\ \A a \in Addr : CountFn[a] = Total(a)
  BY IsGood
\* The counts of the clauses that go.
<1>22. \A a \in Addr : /\ CountIn(popped, a) \in Nat /\ CountIn(popped, a) <= ClauseCount(a)
                       /\ ClauseCount(a)' = ClauseCount(a) - CountIn(popped, a)
                       /\ ClauseCount(a) <= Total(a) /\ Total(a) \in Nat
  <2> TAKE a \in Addr
  <2>1. Clauses \in Seq(AN) /\ Len(Clauses) = Len(hs)
    BY <1>1, SeqsTyped
  <2>2. at \in 1 .. Len(Clauses) /\ at - 1 \in 0 .. Len(hs)
    BY <1>3, <1>5, <2>1
  <2>3. Clauses' = SubSeq(Clauses, 1, at - 1)
    BY <1>1, <1>15, <2>2, HsCut
  <2>4. CountIn(Clauses, a) = CountIn(SubSeq(Clauses, 1, at - 1), a) + CountIn(SubSeq(Clauses, at, Len(Clauses)), a)
    BY <2>1, <2>2, CountInCut
  <2>5. SubSeq(Clauses, 1, at - 1) \in Seq(AN)
    BY <2>1, <2>2
  <2>6. CountIn(SubSeq(Clauses, 1, at - 1), a) \in Nat /\ CountIn(popped, a) \in Nat
    BY <1>8, <2>5, CountInIs
  <2>7. CountsNow(a)
    BY <1>1 DEF AllCounted
  <2>8. ClauseCount(a) <= Total(a) /\ Total(a) \in Nat
    BY <2>7, PartsOfTotal DEF CountsNow
  <2>9. CountIn(popped, a) <= CountIn(Clauses, a) /\ CountIn(SubSeq(Clauses, 1, at - 1), a) = CountIn(Clauses, a) - CountIn(popped, a)
    <3>1. CountIn(Clauses, a) = CountIn(SubSeq(Clauses, 1, at - 1), a) + CountIn(popped, a)
      BY <1>8, <2>4
    <3> QED
      BY ONLY <2>6, <3>1
  <2> QED
    BY <2>3, <2>6, <2>8, <2>9 DEF ClauseCount
<1>23. PICK sc : sc = <<c>>
  OBVIOUS
<1>24. /\ sc \in Seq(AN) /\ \A a : CountIn(sc, a) = OneIf(c = a)
       /\ \A i \in 1 .. Len(sc) : sc[i] = Nil \/ block[sc[i]].tag \in ValueTags
  <2>1. sc \in Seq(AN) /\ Len(sc) = 1 /\ sc[1] = c
    BY <1>9, <1>23
  <2>2. c = Nil \/ block[c].tag \in ValueTags
    BY <1>9 DEF IsValue
  <2> QED
    BY <1>23, <2>1, <2>2, CountInSingle
<1>25. c # d
  BY <1>9, <1>18, <1>20 DEF IsValue, ValueTags
<1>26. PICK m1 \in [Addr -> Nat] :
           /\ \A a \in Addr : m1[a] = CountFn[a] + CountIn(sc, a)
           /\ Good(called, m1) /\ SameShapes(called, block) /\ DyingIn(called) = {}
  <2>1. called = Duped(block, sc) /\ DyingIn(block) = {}
    BY <1>2, <1>12, <1>21, <1>23
  <2>2. sc \in Seq(AN) /\ (\A i \in 1 .. Len(sc) : sc[i] = Nil \/ block[sc[i]].tag \in ValueTags)
        /\ Good(block, CountFn)
    BY <1>21, <1>24
  <2>3. PICK m \in [Addr -> Nat] :
           /\ \A a \in Addr : m[a] = CountFn[a] + CountIn(sc, a)
           /\ Good(Duped(block, sc), m) /\ SameShapes(Duped(block, sc), block)
           /\ DyingIn(block) = {} => DyingIn(Duped(block, sc)) = {}
    BY ONLY <2>2, AddGood
  <2> QED
    BY <2>1, <2>3
<1>27. \A a \in Addr : CountIn(popped, a) <= m1[a]
  <2> TAKE a \in Addr
  <2>1. m1[a] = Total(a) + OneIf(c = a) /\ OneIf(c = a) \in Nat
    BY <1>21, <1>24, <1>26 DEF OneIf
  <2>2. CountIn(popped, a) \in Nat /\ CountIn(popped, a) <= ClauseCount(a) /\ ClauseCount(a) <= Total(a) /\ Total(a) \in Nat
    BY <1>22
  <2>3. ClauseCount(a) \in Nat
    BY <1>1 DEF AllCounted, CountsNow
  <2> QED
    BY ONLY <2>1, <2>2, <2>3
<1>28. PICK m2 \in [Addr -> Nat] :
           /\ \A a \in Addr : m2[a] = m1[a] - CountIn(popped, a)
           /\ Good(b2, m2) /\ SameShapes(b2, called)
           /\ DyingIn(b2) = work' /\ work' \in SUBSET Addr
  <2>1. PICK m \in [Addr -> Nat] :
           /\ \A a \in Addr : m[a] = m1[a] - CountIn(popped, a)
           /\ Good(Dropped(called, popped), m) /\ SameShapes(Dropped(called, popped), called)
           /\ DyingIn(Dropped(called, popped)) = DyingIn(called) \cup Zeroed(called, popped)
           /\ Zeroed(called, popped) \in SUBSET Addr
    <3>1. Good(called, m1) /\ popped \in Seq(AN)
      BY <1>8, <1>26
    <3> QED
      <4>1. AtMost(popped, m1)
        BY <1>27 DEF AtMost
      <4>2. \E m \in [Addr -> Nat] : CutTo(called, m1, popped, m)
        BY ONLY <3>1, <4>1, CutGood
      <4> QED
        BY <4>2 DEF CutTo
  <2> QED
    BY <1>13, <1>15, <1>26, <2>1
<1>29. b2[d] = Dead
  <2>1. CountIn(sc, d) = 0
    BY <1>24, <1>25 DEF OneIf
  <2>2. Good(block, CountFn) /\ sc \in Seq(AN)
    BY <1>21, <1>24
  <2>3. Duped(block, sc)[d] = block[d]
    BY ONLY <1>18, <2>1, <2>2, UntouchedByDup
  <2>4. called[d] = Dead
    BY <1>12, <1>18, <1>23, <2>3
  <2>5. CountIn(popped, d) = 0
    <3>1. CountIn(popped, d) \in Nat /\ CountIn(popped, d) <= ClauseCount(d) /\ ClauseCount(d) <= Total(d)
      BY <1>18, <1>22
    <3>2. ClauseCount(d) \in Nat
      BY <1>1, <1>18 DEF AllCounted, CountsNow
    <3> QED
      BY <1>20, <3>1, <3>2
  <2>6. Good(called, m1) /\ popped \in Seq(AN)
    BY <1>8, <1>26
  <2>7. Dropped(called, popped)[d] = called[d]
    BY ONLY <1>18, <1>27, <2>5, <2>6, Untouched
  <2> QED
    BY <1>13, <2>4, <2>7
<1>30. PICK m \in [Addr -> Nat] :
           /\ m2[d] = 0 /\ m[d] = 1 /\ \A a \in Addr : a # d => m[a] = m2[a]
           /\ Good(block', m) /\ DyingIn(block') = work'
           /\ block'[d] = b /\ \A a \in Addr : a # d => block'[a] = b2[a]
  <2>1. Grown(block', b2, d, b)
    BY <1>15 DEF Grown
  <2>2. Good(b2, m2) /\ d \in Addr /\ b2[d] = Dead /\ b \in Block /\ Shaped(b, d) /\ b.rc = 1 /\ b.tag # "none"
    BY <1>17, <1>18, <1>19, <1>28, <1>29
  <2>3. PICK m \in [Addr -> Nat] :
           /\ m2[d] = 0 /\ m[d] = 1 /\ \A a \in Addr : a # d => m[a] = m2[a]
           /\ Good(block', m) /\ DyingIn(block') = DyingIn(b2)
           /\ block'[d] = b /\ \A a \in Addr : a # d => block'[a] = b2[a]
    BY ONLY <2>1, <2>2, GrownGood, Z3T(40)
  <2> QED
    BY <1>28, <2>3
<1>31. /\ \A a \in Addr : a # d => SameShape(block'[a], block[a])
       /\ ShapesBut(block', block, d) /\ block'[d].tag = "resume" /\ block'[d].fields = slice /\ block'[d].self = 0
  <2>1. \A a \in Addr : a # d => SameShape(block'[a], block[a])
    BY <1>26, <1>28, <1>30 DEF SameShapes, SameShape
  <2> QED
    BY <1>17, <1>30, <2>1 DEF ShapesBut
<1>32. PoolInv'
  BY <1>1, <1>10, <1>16, <1>17, <1>30, <1>31, PoolGrows
<1>33. /\ ks' \in Seq([fr : Addr, pins : Seq(Locals)]) /\ Len(ks') = p - 1 /\ \A i \in 1 .. p - 1 : ks'[i] = ks[i]
       /\ Framed' = SubSeq(Framed, 1, p - 1)
  <2>1. p - 1 \in 0 .. Len(ks)
    BY <1>3
  <2> QED
    BY <1>1, <1>15, <2>1, KsCut
<1>34. /\ hs' \in Seq([clause : AN, hf : Addr]) /\ Len(hs') = at - 1 /\ \A i \in 1 .. at - 1 : hs'[i] = hs[i]
  <2>1. at - 1 \in 0 .. Len(hs)
    BY <1>3, <1>5
  <2> QED
    BY <1>1, <1>15, <2>1, HsCut
<1>35. left \subseteq Locals
  <2> SUFFICES ASSUME NEW x \in left PROVE x \in Locals
    OBVIOUS
  <2>1. PICK i \in p .. Len(ks) : \E j \in 1 .. Len(ks[i].pins) : ks[i].pins[j] = x
    BY <1>1, <1>14, LeftIs
  <2>2. i \in 1 .. Len(ks)
    BY <1>3
  <2>3. ks[i].pins \in Seq(Locals)
    BY <2>2, TopAlone
  <2> QED
    BY <2>1, <2>3
<1>36. /\ local' \in [Locals -> AN] /\ local'[y] = c /\ local'[z] = d
       /\ \A x \in Locals : x # y /\ x # z => local'[x] = IF x \in left THEN Nil ELSE local[x]
       /\ \A a \in Addr : LocalCount(a)' = LocalCount(a) - CountOf(local, left, a) + OneIf(c = a) + OneIf(d = a)
  <2>1. (y \in left \/ local[y] = Nil) /\ (z \in left \/ local[z] = Nil)
    BY <1>15
  <2>2. d \in AN
    BY <1>18 DEF AN
  <2>3. Leaving(left, y, z, c, d)
    BY <1>9, <1>15, <1>35, <2>1, <2>2 DEF Leaving
  <2> QED
    BY <1>1, <2>3, LocalLeft
<1>37. TypeInv'
  <2>1. block' \in [Addr -> Block]
    BY <1>30, GoodTyped
  <2> QED
    BY <1>1, <1>15, <1>16, <1>18, <1>28, <1>33, <1>34, <1>36, <2>1 DEF TypeInv
<1>38. \A i \in 1 .. Len(ks) : ks[i].fr # d
  BY <1>20 DEF Unowned
<1>39. PinInv' /\ HandlerInv'
  <2>1. \A x \in Locals : local'[x] = local[x] \/ x \in Own \/ x \in LeftFrom(p)
    <3> TAKE x \in Locals
    <3>1. CASE x \in {y, z}
      BY <1>14, <1>15, <3>1 DEF Own
    <3>2. CASE x \notin {y, z}
      BY <1>14, <1>36, <3>2
    <3> QED
      BY <3>1, <3>2
  <2>2. PinInv'
    BY <1>15, <1>18, <1>31, <1>38, <2>1, CutPins
  <2>3. HandlerInv'
    BY <1>5, <1>15, <1>18, <1>31, <1>38, CutBoth
  <2> QED
    BY <2>2, <2>3
\* Which blocks own what they hold afterwards.
<1>40. \A f \in Addr : IsMirror(f)' <=> IsMirror(f) /\ f \notin MirrorsFrom(p)
  <2> TAKE f \in Addr
  <2>1. ASSUME IsMirror(f)' PROVE IsMirror(f) /\ f \notin MirrorsFrom(p)
    <3>1. PICK i \in 1 .. Len(ks') : ks'[i].fr = f /\ ks'[i].pins # << >>
      BY <2>1 DEF IsMirror
    <3>2. i \in 1 .. p - 1
      BY <1>33
    <3>3. i \in 1 .. Len(ks) /\ i < p
      BY <1>3, <3>2
    <3>4. ks'[i] = ks[i]
      BY <1>33, <3>2
    <3>5. IsMirror(f)
      BY <3>1, <3>3, <3>4 DEF IsMirror
    <3>6. \A k \in 1 .. Len(ks) : ks[k].fr = f => k = i
      BY <3>1, <3>3, <3>4, TopAlone
    <3>7. \A k \in p .. Len(ks) : ks[k].fr # f
      <4> TAKE k \in p .. Len(ks)
      <4>1. k \in 1 .. Len(ks) /\ k # i
        BY <1>3, <3>3
      <4> QED
        BY <3>6, <4>1
    <3> QED
      BY <3>5, <3>7 DEF MirrorsFrom
  <2>2. ASSUME IsMirror(f), f \notin MirrorsFrom(p) PROVE IsMirror(f)'
    <3>1. PICK i \in 1 .. Len(ks) : ks[i].fr = f /\ ks[i].pins # << >>
      BY <2>2 DEF IsMirror
    <3>2. i \notin p .. Len(ks)
      BY <2>2, <3>1 DEF MirrorsFrom
    <3>3. i \in 1 .. p - 1 /\ i \in 1 .. Len(ks')
      BY <1>3, <1>33, <3>2
    <3>4. ks'[i] = ks[i]
      BY <1>33, <3>3
    <3> QED
      BY <3>1, <3>3, <3>4 DEF IsMirror
  <2> QED
    BY <2>1, <2>2
<1>41. \A f \in MirrorsFrom(p) : f \in Addr /\ IsMirror(f) /\ block[f].tag = "frame" /\ f # d
  <2> TAKE f \in MirrorsFrom(p)
  <2>1. f \in Addr /\ \E i \in p .. Len(ks) : ks[i].fr = f /\ ks[i].pins # << >>
    BY DEF MirrorsFrom
  <2>2. \A i \in p .. Len(ks) : i \in 1 .. Len(ks)
    BY <1>3
  <2>3. IsMirror(f)
    BY <2>1, <2>2 DEF IsMirror
  <2> QED
    BY <1>1, <1>20, <2>1, <2>3, MirrorIs
<1>42. \A f \in Addr : f # d =>
          HeldBy(f)' = IF f \in MirrorsFrom(p) THEN block[f].fields ELSE HeldBy(f)
  <2> TAKE f \in Addr
  <2> HAVE f # d
  <2>1. block'[f].fields = block[f].fields /\ block'[f].self = block[f].self
    BY <1>31 DEF SameShape
  <2>2. \A i : Released(f, i)' <=> Released(f, i)
    BY <1>15 DEF Released
  <2>3. CASE f \notin MirrorsFrom(p)
    <3>1. HeldAlike(f)
      BY <1>40, <2>1, <2>2, <2>3 DEF HeldAlike
    <3> QED
      BY <2>3, <3>1, HeldByAlike
  <2>4. CASE f \in MirrorsFrom(p)
    <3>1. ~IsMirror(f)' /\ block[f].tag = "frame"
      BY <1>40, <1>41, <2>4
    <3>2. block[f].self = 0
      BY <1>1, <3>1 DEF ShapeInv, Shaped
    <3>3. \A i : ~Released(f, i)'
      BY <1>2, <1>15, HeapAssumption DEF Released
    <3>4. block[f].fields \in Seq(AN)
      BY <1>1, HeldTyped
    <3>5. HeldBy(f)' = [i \in 1 .. Len(block[f].fields) |-> IF i = 0 THEN Nil ELSE block[f].fields[i]]
      BY <2>1, <3>1, <3>2, <3>3 DEF HeldBy
    <3>6. [i \in 1 .. Len(block[f].fields) |-> IF i = 0 THEN Nil ELSE block[f].fields[i]] = block[f].fields
      BY <3>4
    <3> QED
      BY <2>4, <3>5, <3>6
  <2> QED
    BY <2>3, <2>4
<1>43. HeldBy(d)' = slice
  <2>1. ~IsMirror(d)' /\ \A i : ~Released(d, i)'
    BY <1>15, <1>18, <1>20, <1>40 DEF Released
  <2>2. HeldBy(d)' = [i \in 1 .. Len(slice) |-> IF i = 0 THEN Nil ELSE slice[i]]
    BY <1>31, <2>1 DEF HeldBy
  <2> QED
    BY <1>7, <2>2
<1>44. \A a \in Addr : HeldCount(a)' = HeldCount(a) + CountOf(local, left, a) + CountIn(slice, a)
  <2> TAKE a \in Addr
  <2>1. PICK H : H = Held'
    OBVIOUS
  <2>2. Holding(H) /\ \A f \in Addr : H[f] = HeldBy(f)'
    BY <1>37, <2>1, HeldTypedPrime DEF Holding
  <2>3. PICK G : G = [H EXCEPT ![d] = HeldBy(d)]
    OBVIOUS
  <2>4. /\ Holding(Held) /\ \A f \in Addr : Held[f] = HeldBy(f)
        /\ HeldBy(d) = << >> /\ CountIn(HeldBy(d), a) = 0
    BY <1>1, <1>18, HeldTyped, DeadUnowned DEF Holding
  <2>5. /\ Holding(G) /\ G[d] = << >> /\ \A f \in Addr : f # d => G[f] = H[f]
    BY <1>18, <2>2, <2>3, <2>4 DEF Holding
  <2>6. HeapCount(G, a) = HeldCount(a) + CountOf(local, LeftFrom(p), a)
    <3>1. \A f \in Addr : f \notin MirrorsFrom(p) => G[f] = Held[f]
      BY <1>42, <2>2, <2>4, <2>5
    <3>2. \A f \in MirrorsFrom(p) : G[f] = block[f].fields
      BY <1>41, <1>42, <2>2, <2>5
    <3> QED
      BY <2>5, <3>1, <3>2, MirrorsTake
  <2>7. HeapCount(H, a) = HeapCount(G, a) - CountIn(G[d], a) + CountIn(H[d], a)
    <3>1. AgreeBut(H, G, d)
      BY <2>5 DEF AgreeBut
    <3> QED
      BY <1>18, <2>2, <2>5, <3>1, HeapCountMoved
  <2>8. CountIn(G[d], a) = 0 /\ H[d] = slice
    BY <1>18, <1>43, <2>2, <2>4, <2>5
  <2>9. HeldCount(a)' = HeapCount(H, a)
    BY <2>1 DEF HeldCount
  <2>10. HeapCount(G, a) \in Nat /\ CountIn(slice, a) \in Nat
    <3>1. G \in [Addr -> Seq(AN)]
      BY <2>5 DEF Holding
    <3> QED
      BY <1>7, <3>1, HeapCountNat, CountInIs
  <2>11. HeapCount(H, a) = HeapCount(G, a) + CountIn(slice, a)
    BY <2>7, <2>8, <2>10
  <2> QED
    BY <1>14, <2>6, <2>9, <2>11
<1>45. \A a \in Addr : FramedCount(a)' = FramedCount(a) - CountIn(slice, a) /\ CountIn(slice, a) \in Nat
  <2> TAKE a \in Addr
  <2>1. Framed \in Seq(Addr) /\ Len(Framed) = Len(ks)
    BY <1>1, SeqsTyped
  <2>2. p \in 1 .. Len(Framed)
    BY <2>1
  <2>3. CountIn(Framed, a) = CountIn(SubSeq(Framed, 1, p - 1), a) + CountIn(SubSeq(Framed, p, Len(Framed)), a)
    BY <2>1, <2>2, CountInCut
  <2>4. SubSeq(Framed, 1, p - 1) \in Seq(Addr)
    BY <2>1, <2>2
  <2>5. CountIn(SubSeq(Framed, 1, p - 1), a) \in Nat /\ CountIn(slice, a) \in Nat
    BY <1>7, <2>4, CountInIs
  <2>6. CountIn(Framed, a) = CountIn(SubSeq(Framed, 1, p - 1), a) + CountIn(slice, a)
    BY <1>7, <2>3
  <2>7. CountIn(SubSeq(Framed, 1, p - 1), a) = CountIn(Framed, a) - CountIn(slice, a)
    BY ONLY <2>5, <2>6
  <2> QED
    BY <1>33, <2>5, <2>7 DEF FramedCount
<1>46. \A a \in Addr : Total(a)' = m[a]
  <2> TAKE a \in Addr
  <2>1. CountsNow(a) /\ CountsNow(a)'
    BY <1>1, <1>37, CountsArePrime DEF AllCounted
  <2>2. OneIf(d = a) \in Nat /\ OneIf(c = a) \in Nat
    BY DEF OneIf
  <2>3. CountOf(local, left, a) \in Nat
    <3>1. IsFiniteSet(left)
      BY <1>35, HeapAssumption, FS_Subset
    <3> QED
      BY <3>1, CountNat
  <2>4. PICK lc, pc, fc, od, oc : /\ lc = CountOf(local, left, a) /\ pc = CountIn(popped, a) /\ fc = CountIn(slice, a)
                                  /\ od = OneIf(d = a) /\ oc = OneIf(c = a)
    OBVIOUS
  <2>5. lc \in Nat /\ pc \in Nat /\ fc \in Nat /\ od \in Nat /\ oc \in Nat
    BY <1>22, <1>45, <2>2, <2>3, <2>4
  <2>6. PICK l, cl, f, h : l = oc + od - lc /\ cl = 0 - pc /\ f = 0 - fc /\ h = lc + fc
    OBVIOUS
  <2>7. l \in Int /\ cl \in Int /\ f \in Int /\ h \in Int /\ 0 \in Int
    BY ONLY <2>5, <2>6
  <2>8. /\ LocalCount(a) \in Nat /\ ClauseCount(a) \in Nat /\ FramedCount(a) \in Nat
        /\ MadeCount(a) \in Nat /\ HeldCount(a) \in Nat /\ ShellCount(a) \in Nat
    BY <2>1 DEF CountsNow
  <2>9. LocalCount(a)' = LocalCount(a) + l
    <3>1. LocalCount(a)' = LocalCount(a) - lc + oc + od
      BY <1>36, <2>4
    <3>2. PICK k : k = LocalCount(a)
      OBVIOUS
    <3>3. k \in Nat
      BY ONLY <2>8, <3>2
    <3>4. l = oc + od - lc
      BY ONLY <2>6
    <3>5. k - lc + oc + od = k + l
      BY ONLY <2>5, <3>3, <3>4
    <3> QED
      BY ONLY <3>1, <3>2, <3>5
  <2>10. ClauseCount(a)' = ClauseCount(a) + cl
    <3>1. ClauseCount(a)' = ClauseCount(a) - pc
      BY <1>22, <2>4
    <3> QED
      BY ONLY <2>5, <2>6, <2>8, <3>1
  <2>11. FramedCount(a)' = FramedCount(a) + f
    <3>1. FramedCount(a)' = FramedCount(a) - fc
      BY <1>45, <2>4
    <3> QED
      BY ONLY <2>5, <2>6, <2>8, <3>1
  <2>12. HeldCount(a)' = HeldCount(a) + h
    <3>1. HeldCount(a)' = HeldCount(a) + lc + fc
      BY <1>44, <2>4
    <3> QED
      BY ONLY <2>5, <2>6, <2>8, <3>1
  <2>13. MadeCount(a)' = MadeCount(a) + 0 /\ ShellCount(a)' = ShellCount(a) + 0
    BY <1>15, <2>8 DEF MadeCount, ShellCount
  <2>14. Total(a)' = Total(a) + (l + cl + f + 0 + h + 0) /\ Total(a) \in Nat
    BY ONLY <2>1, <2>7, <2>9, <2>10, <2>11, <2>12, <2>13, TotalMoves, Z3T(40)
  <2>15. Total(a)' = Total(a) + oc + od - pc
    BY ONLY <2>5, <2>6, <2>14
  <2>16. m2[a] = Total(a) + oc - pc
    <3>1. m2[a] = m1[a] - pc /\ m1[a] = Total(a) + CountIn(sc, a)
      BY <1>21, <1>26, <1>28, <2>4
    <3>2. CountIn(sc, a) = oc
      BY <1>24, <2>4
    <3>3. m1[a] = Total(a) + oc
      BY ONLY <3>1, <3>2
    <3>4. Total(a) \in Nat
      BY <2>14
    <3>5. oc \in Int /\ pc \in Int
      BY ONLY <2>5
    <3>6. m2[a] = (Total(a) + oc) - pc
      BY ONLY <3>1, <3>3
    <3> QED
      BY ONLY <3>4, <3>5, <3>6
  <2>17. CASE a = d
    <3>1. m2[a] = 0 /\ m[a] = 1 /\ od = 1
      BY <1>30, <2>4, <2>17 DEF OneIf
    <3> QED
      BY ONLY <2>5, <2>14, <2>15, <2>16, <3>1
  <2>18. CASE a # d
    <3>1. m[a] = m2[a] /\ od = 0
      BY <1>30, <2>4, <2>18 DEF OneIf
    <3> QED
      BY ONLY <2>5, <2>14, <2>15, <2>16, <3>1
  <2> QED
    BY <2>17, <2>18
<1>47. ShapeInv' /\ CountInv'
  <2>1. work' = DyingIn(block')
    BY <1>30
  <2> QED
    BY <1>30, <1>46, <2>1, GoodIsCounted
<1>48. SortInv'
  <2>1. \A v \in AN : (IsValue(block, v) => IsValue(block', v)) /\ (IsFrame(block, v) => IsFrame(block', v))
    BY <1>18, <1>31, SortsKept
  <2>2. \A x \in Locals : IsValue(block', local'[x])
    <3> TAKE x \in Locals
    <3>1. CASE x = y
      BY <1>9, <1>36, <2>1, <3>1
    <3>2. CASE x = z
      BY <1>31, <1>36, <3>2 DEF IsValue, ValueTags
    <3>3. CASE x # y /\ x # z
      <4>1. IsValue(block, local[x]) /\ local[x] \in AN
        BY <1>1 DEF SortInv, TypeInv
      <4> QED
        BY <1>36, <2>1, <3>3, <4>1 DEF IsValue
    <3> QED
      BY <3>1, <3>2, <3>3
  <2>3. \A i \in 1 .. Len(hs') : IsValue(block', hs'[i].clause)
    <3> TAKE i \in 1 .. Len(hs')
    <3>0. i \in 1 .. at - 1 /\ i \in 1 .. Len(hs)
      BY <1>3, <1>5, <1>34
    <3>1. hs'[i] = hs[i] /\ i \in 1 .. Len(hs)
      BY <1>34, <3>0
    <3>2. Clauses \in Seq(AN) /\ Len(Clauses) = Len(hs) /\ Clauses[i] = hs[i].clause
      BY <1>1, <3>1, SeqsTyped
    <3>3. hs[i].clause \in AN
      BY <3>1, <3>2
    <3> QED
      BY <1>1, <2>1, <3>1, <3>3 DEF SortInv
  <2>4. \A i \in 1 .. Len(ks) : IsFrame(block', ks[i].fr)
    <3> TAKE i \in 1 .. Len(ks)
    <3>1. ks[i].fr \in AN
      BY TopAlone DEF AN
    <3> QED
      BY <1>1, <2>1, <3>1 DEF SortInv
  <2>5. \A i \in 1 .. Len(ks') : IsFrame(block', ks'[i].fr)
    <3> TAKE i \in 1 .. Len(ks')
    <3>0. i \in 1 .. p - 1 /\ i \in 1 .. Len(ks)
      BY <1>3, <1>33
    <3>1. ks'[i] = ks[i] /\ i \in 1 .. Len(ks)
      BY <1>33, <3>0
    <3> QED
      BY <2>4, <3>1
  <2>6. \A i \in 1 .. Len(chain'.made) : IsFrame(block', chain'.made[i])
    BY <1>2, <1>15 DEF NoChain
  <2>7. ASSUME NEW i \in 1 .. Len(block'[d].fields)
        PROVE  IF block'[d].tag = "resume" THEN IsFrame(block', block'[d].fields[i]) ELSE IsValue(block', block'[d].fields[i])
    <3>1. block'[d].fields = slice /\ block'[d].tag = "resume" /\ i \in 1 .. Len(slice)
      BY <1>31
    <3>2. slice[i] = ks[p + i - 1].fr /\ p + i - 1 \in p .. Len(ks)
      BY <1>7, <3>1
    <3>3. p + i - 1 \in 1 .. Len(ks)
      BY <1>3, <3>2
    <3> QED
      BY <2>4, <3>1, <3>2, <3>3
  <2>8. \A f \in Addr : \A i \in 1 .. Len(block[f].fields) : f # d /\ Released(f, i) => Released(f, i)'
    BY <1>15 DEF Released
  <2> QED
    BY <1>1, <1>18, <1>31, <2>2, <2>3, <2>5, <2>6, <2>7, <2>8, SortGrow
<1>49. TokenInv' /\ ChainInv'
  BY <1>2, <1>15 DEF TokenInv, ChainInv, NoChain
<1> QED
  BY <1>32, <1>37, <1>39, <1>47, <1>48, <1>49 DEF IInv

----------------------------------------------------------------------------
(* The clones of a chain join the stacks.                                  *)

\* Every member of a finite set of numbers has a rank, and every rank a member.
ByRank(S, n, idx) == idx = [k \in 1 .. n |-> CHOOSE i \in S : Cardinality({j \in S : j <= i}) = k]
Ranked(S, n, idx) ==
  /\ n \in Nat /\ idx \in [1 .. n -> S]
  /\ \A i, j \in 1 .. n : i < j <=> idx[i] < idx[j]
  /\ \A i \in S : \E k \in 1 .. n : idx[k] = i

\* The members of a finite set of numbers, in order.
LEMMA RanksAre ==
  ASSUME NEW S, S \subseteq Nat, IsFiniteSet(S), NEW n, n = Cardinality(S), NEW idx, ByRank(S, n, idx)
  PROVE  Ranked(S, n, idx)
<1>1. n \in Nat
  BY FS_CardinalityType
<1>2. PICK rank : rank = [i \in S |-> Cardinality({j \in S : j <= i})]
  OBVIOUS
<1>3. ASSUME NEW i \in S PROVE rank[i] \in 1 .. n
  <2>1. PICK T : T = {j \in S : j <= i}
    OBVIOUS
  <2>2. T \in SUBSET S /\ i \in T
    BY <2>1
  <2>3. IsFiniteSet(T) /\ Cardinality(T) <= Cardinality(S)
    BY <2>2, FS_Subset
  <2>4. Cardinality(T) \in Nat /\ Cardinality(T) # 0
    BY <2>2, <2>3, FS_CardinalityType, FS_EmptySet
  <2>5. rank[i] = Cardinality(T)
    BY <1>2, <2>1
  <2> QED
    BY <1>1, <2>3, <2>4, <2>5
<1>4. ASSUME NEW i \in S, NEW j \in S, i < j PROVE rank[i] < rank[j]
  <2>1. PICK T, U : T = {l \in S : l <= i} /\ U = {l \in S : l <= j}
    OBVIOUS
  <2>2. U \in SUBSET S /\ T \in SUBSET U /\ j \in U /\ j \notin T
    <3>1. i \in Nat /\ j \in Nat /\ ~(j <= i) /\ j <= j
      BY <1>4
    <3>2. \A l \in S : l <= i => l <= j
      BY <1>4
    <3> QED
      BY <2>1, <3>1, <3>2
  <2>3. IsFiniteSet(U)
    BY <2>2, FS_Subset
  <2>4. Cardinality(T) <= Cardinality(U) /\ Cardinality(U) # Cardinality(T)
    BY <2>2, <2>3, FS_Subset
  <2>5. Cardinality(T) \in Nat /\ Cardinality(U) \in Nat
    BY <2>2, <2>3, FS_Subset, FS_CardinalityType
  <2>6. rank[i] = Cardinality(T) /\ rank[j] = Cardinality(U)
    BY <1>2, <2>1
  <2> QED
    BY <2>4, <2>5, <2>6
<1>5. \A i, j \in S : rank[i] = rank[j] => i = j
  <2> SUFFICES ASSUME NEW i \in S, NEW j \in S, rank[i] = rank[j], i # j PROVE FALSE
    OBVIOUS
  <2>1. i < j \/ j < i
    OBVIOUS
  <2>2. rank[i] \in Nat /\ rank[j] \in Nat
    BY <1>3
  <2> QED
    BY <1>4, <2>1, <2>2
<1>6. rank \in [S -> 1 .. n]
  BY <1>2, <1>3
<1>7. rank \in Injection(S, 1 .. n)
  BY <1>5, <1>6 DEF Injection, IsInjective
<1>8. IsFiniteSet(1 .. n) /\ Cardinality(1 .. n) = n
  BY <1>1, FS_Interval
<1>9. rank \in Surjection(S, 1 .. n)
  <2>1. PICK T : T = 1 .. n
    OBVIOUS
  <2>2. rank \in Injection(S, T) /\ IsFiniteSet(T) /\ Cardinality(S) = Cardinality(T)
    BY <1>7, <1>8, <2>1
  <2>3. rank \in Surjection(S, T)
    BY ONLY <2>2, FS_Injection
  <2> QED
    BY <2>1, <2>3
<1>10. \A k \in 1 .. n : \E i \in S : rank[i] = k
  BY <1>9 DEF Surjection
<1>11. ASSUME NEW k \in 1 .. n PROVE idx[k] \in S /\ rank[idx[k]] = k
  <2>1. \E i \in S : Cardinality({j \in S : j <= i}) = k
    BY <1>2, <1>10
  <2>2. idx[k] = CHOOSE i \in S : Cardinality({j \in S : j <= i}) = k
    BY DEF ByRank
  <2>3. idx[k] \in S /\ Cardinality({j \in S : j <= idx[k]}) = k
    BY <2>1, <2>2
  <2> QED
    BY <1>2, <2>3
<1>12. idx \in [1 .. n -> S]
  BY <1>11 DEF ByRank
<1>13. ASSUME NEW i \in 1 .. n, NEW j \in 1 .. n PROVE i < j <=> idx[i] < idx[j]
  <2>1. idx[i] \in S /\ idx[j] \in S /\ idx[i] \in Nat /\ idx[j] \in Nat /\ rank[idx[i]] = i /\ rank[idx[j]] = j
    BY <1>11
  <2>2. idx[i] < idx[j] => i < j
    BY <1>4, <2>1
  <2>3. idx[j] < idx[i] => j < i
    BY <1>4, <2>1
  <2>4. idx[i] = idx[j] => i = j
    BY <2>1
  <2> QED
    BY <2>1, <2>2, <2>3, <2>4
<1>14. ASSUME NEW i \in S PROVE \E k \in 1 .. n : idx[k] = i
  <2>1. rank[i] \in 1 .. n
    BY <1>3
  <2>2. rank[idx[rank[i]]] = rank[i] /\ idx[rank[i]] \in S
    BY <1>11, <2>1
  <2> QED
    BY <1>5, <2>1, <2>2
<1> QED
  BY <1>1, <1>12, <1>13, <1>14 DEF Ranked

\* The handler frames of a chain are found where they stand, in order.
Finds(hfs, idx, fs) ==
  /\ hfs \in Seq(Addr) /\ idx \in [1 .. Len(hfs) -> 1 .. Len(fs)]
  /\ \A k \in 1 .. Len(hfs) : hfs[k] = fs[idx[k]] /\ block[hfs[k]].tag = "handler"
  /\ \A i, j \in 1 .. Len(hfs) : i < j <=> idx[i] < idx[j]
  /\ \A i \in 1 .. Len(fs) : block[fs[i]].tag = "handler" => \E k \in 1 .. Len(hfs) : idx[k] = i

\* push_entries_of finds the handlers of a chain, in its order.
LEMMA HandlersAre ==
  ASSUME NEW fs \in Seq(Addr)
  PROVE  \E idx : Finds(HandlersOf(fs), idx, fs)
<1>1. PICK S, n : S = {i \in DOMAIN fs : block[fs[i]].tag = "handler"} /\ n = Cardinality(S)
  OBVIOUS
<1>2. PICK idx : idx = [k \in 1 .. n |-> CHOOSE i \in S : Cardinality({j \in S : j <= i}) = k]
  OBVIOUS
<1>3. DOMAIN fs = 1 .. Len(fs) /\ Len(fs) \in Nat
  OBVIOUS
<1>4. S \in SUBSET (1 .. Len(fs)) /\ S \subseteq Nat
  BY <1>1, <1>3
<1>5. IsFiniteSet(S)
  <2>1. PICK T : T = 1 .. Len(fs)
    OBVIOUS
  <2>2. IsFiniteSet(T) /\ S \in SUBSET T
    BY <1>3, <1>4, <2>1, FS_Interval
  <2> QED
    BY ONLY <2>2, FS_Subset
<1>6. /\ n \in Nat /\ idx \in [1 .. n -> S]
      /\ \A i, j \in 1 .. n : i < j <=> idx[i] < idx[j]
      /\ \A i \in S : \E k \in 1 .. n : idx[k] = i
  <2>1. ByRank(S, n, idx)
    BY <1>2 DEF ByRank
  <2>2. n = Cardinality(S)
    BY <1>1
  <2>3. S \subseteq Nat /\ IsFiniteSet(S)
    BY <1>4, <1>5
  <2>4. Ranked(S, n, idx)
    BY ONLY <2>1, <2>2, <2>3, RanksAre
  <2> QED
    BY <2>4 DEF Ranked
<1>7. HandlersOf(fs) = [k \in 1 .. n |-> fs[idx[k]]]
  <2>1. HandlersOf(fs) = [k \in 1 .. n |-> fs[CHOOSE i \in S : Cardinality({j \in S : j <= i}) = k]]
    BY <1>1 DEF HandlersOf
  <2>2. \A k \in 1 .. n : idx[k] = CHOOSE i \in S : Cardinality({j \in S : j <= i}) = k
    BY <1>2
  <2> QED
    BY <2>1, <2>2
<1>8. PICK h : h = HandlersOf(fs)
  OBVIOUS
<1>9. \A k \in 1 .. n : idx[k] \in 1 .. Len(fs) /\ fs[idx[k]] \in Addr /\ block[fs[idx[k]]].tag = "handler"
  BY <1>1, <1>3, <1>4, <1>6
<1>10. h \in Seq(Addr) /\ Len(h) = n /\ \A k \in 1 .. n : h[k] = fs[idx[k]]
  BY <1>6, <1>7, <1>8, <1>9
<1>11. idx \in [1 .. Len(h) -> 1 .. Len(fs)]
  BY <1>6, <1>9, <1>10
<1>12. \A i \in 1 .. Len(fs) : block[fs[i]].tag = "handler" => \E k \in 1 .. Len(h) : idx[k] = i
  BY <1>1, <1>3, <1>6, <1>10
<1>13. Finds(h, idx, fs)
  <2>1. \A k \in 1 .. Len(h) : h[k] = fs[idx[k]] /\ block[h[k]].tag = "handler"
    BY <1>9, <1>10
  <2>2. \A i, j \in 1 .. Len(h) : i < j <=> idx[i] < idx[j]
    BY <1>6, <1>10
  <2> QED
    BY <1>10, <1>11, <1>12, <2>1, <2>2 DEF Finds
<1> QED
  BY <1>8, <1>13

\* The frame stack with more frames, that pin nothing.
Frames(fs) == [i \in DOMAIN fs |-> [fr |-> fs[i], pins |-> << >>]]
JoinsKs(fs) ==
  /\ ks' \in Seq([fr : Addr, pins : Seq(Locals)]) /\ Len(ks) \in Nat /\ Len(fs) \in Nat
  /\ Len(ks') = Len(ks) + Len(fs)
  /\ \A i \in 1 .. Len(ks) : i \in 1 .. Len(ks') /\ ks'[i] = ks[i]
  /\ \A i \in 1 .. Len(fs) : /\ Len(ks) + i \in 1 .. Len(ks')
                             /\ ks'[Len(ks) + i].fr = fs[i] /\ ks'[Len(ks) + i].pins = << >>
  /\ \A i \in 1 .. Len(ks') : i \in 1 .. Len(ks) \/ \E j \in 1 .. Len(fs) : i = Len(ks) + j

\* The clones join the frame stack,
LEMMA KsJoin ==
  ASSUME TypeInv, NEW fs \in Seq(Addr), ks' = ks \o Frames(fs)
  PROVE  /\ JoinsKs(fs)
         /\ \A a \in Addr : FramedCount(a)' = FramedCount(a) + CountIn(fs, a)
<1>1. PICK R : R = [fr : Addr, pins : Seq(Locals)]
  OBVIOUS
<1>2. PICK es : es = Frames(fs)
  OBVIOUS
<1>3. ks \in Seq(R) /\ Len(ks) \in Nat /\ Len(fs) \in Nat /\ DOMAIN fs = 1 .. Len(fs)
  BY <1>1 DEF TypeInv
<1>4. << >> \in Seq(Locals)
  OBVIOUS
<1>5. \A i \in 1 .. Len(fs) : [fr |-> fs[i], pins |-> << >>] \in R
  <2> TAKE i \in 1 .. Len(fs)
  <2>1. fs[i] \in Addr
    BY ElementOfSeq
  <2> QED
    BY <1>1, <1>4, <2>1
<1>6. /\ es \in Seq(R) /\ Len(es) = Len(fs)
      /\ \A i \in 1 .. Len(fs) : es[i].fr = fs[i] /\ es[i].pins = << >>
  BY <1>2, <1>3, <1>5 DEF Frames
<1>7. ks' \in Seq(R) /\ Len(ks') = Len(ks) + Len(fs)
  <2>1. ks' = ks \o es
    BY <1>2
  <2>2. ks \o es \in Seq(R) /\ Len(ks \o es) = Len(ks) + Len(es)
    BY ONLY <1>3, <1>6, ConcatProperties
  <2> QED
    BY <1>6, <2>1, <2>2
<1>8. ASSUME NEW i \in 1 .. Len(ks) PROVE i \in 1 .. Len(ks') /\ ks'[i] = ks[i]
  BY <1>2, <1>3, <1>6, <1>7
<1>9. ASSUME NEW i \in 1 .. Len(fs)
      PROVE  /\ Len(ks) + i \in 1 .. Len(ks') /\ ks'[Len(ks) + i].fr = fs[i] /\ ks'[Len(ks) + i].pins = << >>
  <2>1. Len(ks) + i \in 1 .. Len(ks')
    BY <1>3, <1>7
  <2>2. ks'[Len(ks) + i] = es[i]
    BY <1>2, <1>3, <1>6, <2>1
  <2> QED
    BY <1>6, <2>1, <2>2
<1>10. ASSUME NEW i \in 1 .. Len(ks')
       PROVE  i \in 1 .. Len(ks) \/ \E j \in 1 .. Len(fs) : i = Len(ks) + j
  <2>1. i \in 1 .. Len(ks) \/ i - Len(ks) \in 1 .. Len(fs)
    BY <1>3, <1>7
  <2>2. i = Len(ks) + (i - Len(ks))
    BY <1>3
  <2> QED
    BY <2>1, <2>2
<1>11. JoinsKs(fs)
  BY <1>1, <1>3, <1>7, <1>8, <1>9, <1>10 DEF JoinsKs
<1>12. Framed' = Framed \o fs
  <2>1. Framed \in Seq(Addr) /\ Len(Framed) = Len(ks) /\ \A i \in 1 .. Len(ks) : Framed[i] = ks[i].fr
    BY SeqsTyped
  <2>2. Framed' = [i \in 1 .. Len(ks) + Len(fs) |-> ks'[i].fr]
    BY <1>7 DEF Framed
  <2>3. \A i \in 1 .. Len(ks') : ks'[i].fr \in Addr
    <3> TAKE i \in 1 .. Len(ks')
    <3>1. ks'[i] \in R
      BY <1>7, ElementOfSeq
    <3> QED
      BY <1>1, <3>1
  <2>4. Framed' \in Seq(Addr) /\ Len(Framed') = Len(ks) + Len(fs)
    BY <1>3, <1>7, <2>2, <2>3
  <2>5. Framed \o fs \in Seq(Addr) /\ Len(Framed \o fs) = Len(ks) + Len(fs)
    <3>1. fs \in Seq(Addr)
      OBVIOUS
    <3>2. Framed \o fs \in Seq(Addr) /\ Len(Framed \o fs) = Len(Framed) + Len(fs)
      BY ONLY <2>1, <3>1, ConcatProperties
    <3> QED
      BY ONLY <2>1, <3>1, <3>2
  <2>6. ASSUME NEW i \in 1 .. Len(ks) + Len(fs) PROVE Framed'[i] = (Framed \o fs)[i]
    <3>1. CASE i \in 1 .. Len(ks)
      <4>1. Framed'[i] = ks[i].fr
        BY <1>8, <2>2, <2>6, <3>1
      <4>2. (Framed \o fs)[i] = Framed[i]
        BY <1>3, <2>1, <2>6, <3>1
      <4> QED
        BY <2>1, <3>1, <4>1, <4>2
    <3>2. CASE i \notin 1 .. Len(ks)
      <4>1. i \in 1 .. Len(ks')
        BY <1>7
      <4>2. PICK j \in 1 .. Len(fs) : i = Len(ks) + j
        BY <1>10, <3>2, <4>1
      <4>3. Framed'[i] = fs[j]
        BY <1>9, <2>2, <2>6, <4>2
      <4>4. (Framed \o fs)[i] = fs[j]
        BY <1>3, <2>1, <2>6, <4>2
      <4> QED
        BY <4>3, <4>4
    <3> QED
      BY <3>1, <3>2
  <2> QED
    BY <2>4, <2>5, <2>6, SeqEqual
<1>13. ASSUME NEW a \in Addr PROVE FramedCount(a)' = FramedCount(a) + CountIn(fs, a)
  <2>1. Framed \in Seq(Addr)
    BY SeqsTyped
  <2>2. CountIn(Framed \o fs, a) = CountIn(Framed, a) + CountIn(fs, a)
    BY <2>1, CountInConcat
  <2> QED
    BY <1>12, <2>2 DEF FramedCount
<1> QED
  BY <1>11, <1>13

\* The handler stack with more entries.
Entries(cs, fs) == [i \in DOMAIN fs |-> [clause |-> cs[i], hf |-> fs[i]]]
JoinsHs(cs, fs) ==
  /\ hs' \in Seq([clause : AN, hf : Addr]) /\ Len(hs) \in Nat /\ Len(fs) \in Nat
  /\ Len(hs') = Len(hs) + Len(fs)
  /\ \A i \in 1 .. Len(hs) : i \in 1 .. Len(hs') /\ hs'[i] = hs[i]
  /\ \A i \in 1 .. Len(fs) : /\ Len(hs) + i \in 1 .. Len(hs')
                             /\ hs'[Len(hs) + i].hf = fs[i] /\ hs'[Len(hs) + i].clause = cs[i]
  /\ \A i \in 1 .. Len(hs') : i \in 1 .. Len(hs) \/ \E j \in 1 .. Len(fs) : i = Len(hs) + j

\* and their handlers the handler stack.
LEMMA HsJoin ==
  ASSUME TypeInv, NEW fs \in Seq(Addr), NEW cs \in Seq(AN), Len(cs) = Len(fs), hs' = hs \o Entries(cs, fs)
  PROVE  /\ JoinsHs(cs, fs)
         /\ \A a \in Addr : ClauseCount(a)' = ClauseCount(a) + CountIn(cs, a)
<1>1. PICK R : R = [clause : AN, hf : Addr]
  OBVIOUS
<1>2. PICK es : es = Entries(cs, fs)
  OBVIOUS
<1>3. hs \in Seq(R) /\ Len(hs) \in Nat /\ Len(fs) \in Nat /\ DOMAIN fs = 1 .. Len(fs)
  BY <1>1 DEF TypeInv
<1>5. \A i \in 1 .. Len(fs) : [clause |-> cs[i], hf |-> fs[i]] \in R
  <2> TAKE i \in 1 .. Len(fs)
  <2>1. fs[i] \in Addr
    BY ElementOfSeq
  <2>2. i \in 1 .. Len(cs)
    OBVIOUS
  <2>3. cs[i] \in AN
    BY <2>2, ElementOfSeq
  <2> QED
    BY <1>1, <2>1, <2>3
<1>6. /\ es \in Seq(R) /\ Len(es) = Len(fs)
      /\ \A i \in 1 .. Len(fs) : es[i].hf = fs[i] /\ es[i].clause = cs[i]
  BY <1>2, <1>3, <1>5 DEF Entries
<1>7. hs' \in Seq(R) /\ Len(hs') = Len(hs) + Len(fs)
  <2>1. hs' = hs \o es
    BY <1>2
  <2>2. hs \o es \in Seq(R) /\ Len(hs \o es) = Len(hs) + Len(es)
    BY ONLY <1>3, <1>6, ConcatProperties
  <2> QED
    BY <1>6, <2>1, <2>2
<1>8. ASSUME NEW i \in 1 .. Len(hs) PROVE i \in 1 .. Len(hs') /\ hs'[i] = hs[i]
  BY <1>2, <1>3, <1>6, <1>7
<1>9. ASSUME NEW i \in 1 .. Len(fs)
      PROVE  /\ Len(hs) + i \in 1 .. Len(hs') /\ hs'[Len(hs) + i].hf = fs[i] /\ hs'[Len(hs) + i].clause = cs[i]
  <2>1. Len(hs) + i \in 1 .. Len(hs')
    BY <1>3, <1>7
  <2>2. hs'[Len(hs) + i] = es[i]
    BY <1>2, <1>3, <1>6, <2>1
  <2> QED
    BY <1>6, <2>1, <2>2
<1>10. ASSUME NEW i \in 1 .. Len(hs')
       PROVE  i \in 1 .. Len(hs) \/ \E j \in 1 .. Len(fs) : i = Len(hs) + j
  <2>1. i \in 1 .. Len(hs) \/ i - Len(hs) \in 1 .. Len(fs)
    BY <1>3, <1>7
  <2>2. i = Len(hs) + (i - Len(hs))
    BY <1>3
  <2> QED
    BY <2>1, <2>2
<1>11. JoinsHs(cs, fs)
  BY <1>1, <1>3, <1>7, <1>8, <1>9, <1>10 DEF JoinsHs
<1>12. Clauses' = Clauses \o cs
  <2>1. Clauses \in Seq(AN) /\ Len(Clauses) = Len(hs) /\ \A i \in 1 .. Len(hs) : Clauses[i] = hs[i].clause
    BY SeqsTyped
  <2>2. Clauses' = [i \in 1 .. Len(hs) + Len(fs) |-> hs'[i].clause]
    BY <1>7 DEF Clauses
  <2>3. \A i \in 1 .. Len(hs') : hs'[i].clause \in AN
    <3> TAKE i \in 1 .. Len(hs')
    <3>1. hs'[i] \in R
      BY <1>7, ElementOfSeq
    <3> QED
      BY <1>1, <3>1
  <2>4. Clauses' \in Seq(AN) /\ Len(Clauses') = Len(hs) + Len(fs)
    BY <1>3, <1>7, <2>2, <2>3
  <2>5. Clauses \o cs \in Seq(AN) /\ Len(Clauses \o cs) = Len(hs) + Len(fs)
    <3>1. cs \in Seq(AN) /\ Len(cs) = Len(fs)
      OBVIOUS
    <3>2. Clauses \o cs \in Seq(AN) /\ Len(Clauses \o cs) = Len(Clauses) + Len(cs)
      BY ONLY <2>1, <3>1, ConcatProperties
    <3> QED
      BY ONLY <2>1, <3>1, <3>2
  <2>6. ASSUME NEW i \in 1 .. Len(hs) + Len(fs) PROVE Clauses'[i] = (Clauses \o cs)[i]
    <3>1. CASE i \in 1 .. Len(hs)
      <4>1. Clauses'[i] = hs[i].clause
        BY <1>8, <2>2, <2>6, <3>1
      <4>2. (Clauses \o cs)[i] = Clauses[i]
        BY <1>3, <2>1, <2>6, <3>1
      <4> QED
        BY <2>1, <3>1, <4>1, <4>2
    <3>2. CASE i \notin 1 .. Len(hs)
      <4>1. i \in 1 .. Len(hs')
        BY <1>7
      <4>2. PICK j \in 1 .. Len(fs) : i = Len(hs) + j
        BY <1>10, <3>2, <4>1
      <4>3. Clauses'[i] = cs[j]
        BY <1>9, <2>2, <2>6, <4>2
      <4>4. (Clauses \o cs)[i] = cs[j]
        BY <1>3, <2>1, <2>6, <4>2
      <4> QED
        BY <4>3, <4>4
    <3> QED
      BY <3>1, <3>2
  <2> QED
    BY <2>4, <2>5, <2>6, SeqEqual
<1>13. ASSUME NEW a \in Addr PROVE ClauseCount(a)' = ClauseCount(a) + CountIn(cs, a)
  <2>1. Clauses \in Seq(AN)
    BY SeqsTyped
  <2>2. CountIn(Clauses \o cs, a) = CountIn(Clauses, a) + CountIn(cs, a)
    BY <2>1, CountInConcat
  <2> QED
    BY <1>12, <2>2 DEF ClauseCount
<1> QED
  BY <1>11, <1>13

\* What pins is as it was.
LEMMA JoinPins ==
  ASSUME IInv, NEW d, ShapesBut(block', block, d), \A i \in 1 .. Len(ks) : ks[i].fr # d,
         \A x \in Locals : local'[x] = local[x] \/ x \in Own, NEW fs, JoinsKs(fs)
  PROVE  PinInv' /\ \A c : IsMirror(c)' <=> IsMirror(c)
<1>1. TypeInv /\ PinInv
  BY DEF IInv
<1>2. /\ ks' \in Seq([fr : Addr, pins : Seq(Locals)]) /\ Len(ks) \in Nat
      /\ \A i \in 1 .. Len(ks) : i \in 1 .. Len(ks') /\ ks'[i] = ks[i]
  BY DEF JoinsKs
<1>3. \A i \in 1 .. Len(ks') : i \in 1 .. Len(ks) \/ ks'[i].pins = << >>
  BY DEF JoinsKs
<1>4. ASSUME NEW i \in 1 .. Len(ks), ks[i].pins # << >>
      PROVE  /\ block'[ks[i].fr].tag = block[ks[i].fr].tag
             /\ block'[ks[i].fr].fields = block[ks[i].fr].fields
             /\ \A j \in 1 .. Len(ks[i].pins) : local'[ks[i].pins[j]] = local[ks[i].pins[j]]
  <2>1. ks[i].fr \in Addr /\ ks[i].pins \in Seq(Locals) /\ ks[i].fr # d
    BY TopAlone
  <2>2. ASSUME NEW j \in 1 .. Len(ks[i].pins) PROVE local'[ks[i].pins[j]] = local[ks[i].pins[j]]
    <3>1. ks[i].pins[j] \in Locals
      BY <2>1
    <3> QED
      BY <1>1, <3>1, OwnIs
  <2> QED
    BY <2>1, <2>2 DEF ShapesBut, SameShape
<1>5. ASSUME NEW i \in 1 .. Len(ks'), ks'[i].pins # << >>
      PROVE  /\ block'[ks'[i].fr].tag = "frame" /\ Len(block'[ks'[i].fr].fields) = Len(ks'[i].pins)
             /\ \A j \in 1 .. Len(ks'[i].pins) : block'[ks'[i].fr].fields[j] = local'[ks'[i].pins[j]]
  <2>1. i \in 1 .. Len(ks)
    BY <1>3, <1>5
  <2>2. ks'[i] = ks[i]
    BY <1>2, <2>1
  <2>3. /\ block'[ks[i].fr].tag = block[ks[i].fr].tag
        /\ block'[ks[i].fr].fields = block[ks[i].fr].fields
        /\ \A j \in 1 .. Len(ks[i].pins) : local'[ks[i].pins[j]] = local[ks[i].pins[j]]
    BY <1>4, <1>5, <2>1, <2>2
  <2>4. /\ block[ks[i].fr].tag = "frame" /\ Len(block[ks[i].fr].fields) = Len(ks[i].pins)
        /\ \A j \in 1 .. Len(ks[i].pins) : block[ks[i].fr].fields[j] = local[ks[i].pins[j]]
    BY <1>1, <1>5, <2>1, <2>2 DEF PinInv
  <2> QED
    BY <2>2, <2>3, <2>4
<1>6. ASSUME NEW i \in 1 .. Len(ks'), NEW k \in 1 .. Len(ks'),
             NEW j \in 1 .. Len(ks'[i].pins), NEW l \in 1 .. Len(ks'[k].pins), ks'[i].pins[j] = ks'[k].pins[l]
      PROVE  i = k /\ j = l
  <2>1. i \in 1 .. Len(ks) /\ k \in 1 .. Len(ks)
    BY <1>3
  <2>2. ks'[i] = ks[i] /\ ks'[k] = ks[k]
    BY <1>2, <2>1
  <2>3. /\ j \in 1 .. Len(ks[i].pins) /\ l \in 1 .. Len(ks[k].pins) /\ ks[i].pins[j] = ks[k].pins[l]
    BY <1>6, <2>2
  <2>4. \A f, g \in 1 .. Len(ks) : \A h \in 1 .. Len(ks[f].pins) : \A m \in 1 .. Len(ks[g].pins) :
            ks[f].pins[h] = ks[g].pins[m] => f = g /\ h = m
    BY <1>1 DEF PinInv
  <2> QED
    BY ONLY <2>1, <2>3, <2>4
<1>7. ASSUME NEW c PROVE IsMirror(c)' <=> IsMirror(c)
  <2>1. ASSUME IsMirror(c) PROVE IsMirror(c)'
    <3>1. PICK k \in 1 .. Len(ks) : ks[k].fr = c /\ ks[k].pins # << >>
      BY <2>1 DEF IsMirror
    <3>2. k \in 1 .. Len(ks') /\ ks'[k] = ks[k]
      BY <1>2
    <3> QED
      BY <3>1, <3>2 DEF IsMirror
  <2>2. ASSUME IsMirror(c)' PROVE IsMirror(c)
    <3>1. PICK k \in 1 .. Len(ks') : ks'[k].fr = c /\ ks'[k].pins # << >>
      BY <2>2 DEF IsMirror
    <3>2. k \in 1 .. Len(ks) /\ ks'[k] = ks[k]
      BY <1>2, <1>3, <3>1
    <3> QED
      BY <3>1, <3>2 DEF IsMirror
  <2> QED
    BY <2>1, <2>2
<1> QED
  BY <1>5, <1>6, <1>7 DEF PinInv

\* Nobody else holds a clone that is still in the making.
LEMMA MadeAreNew ==
  ASSUME IInv, NEW i \in 1 .. Len(chain.made)
  PROVE  /\ \A k \in 1 .. Len(ks) : ks[k].fr # chain.made[i]
         /\ \A k \in 1 .. Len(chain.made) : chain.made[k] = chain.made[i] => k = i
<1>1. TypeInv
  BY DEF IInv
<1>2. PICK a : a = chain.made[i]
  OBVIOUS
<1>3. a \in Addr /\ Alone(a) /\ MadeCount(a) = 1
  BY <1>2, MadeAlone
<1>4. FramedCount(a) = 0
  BY <1>1, <1>3, OnlyOne
<1>5. \A k \in 1 .. Len(ks) : ks[k].fr # a
  BY <1>1, <1>3, <1>4, CountsTyped
<1> QED
  BY <1>2, <1>5, MadeAlone

\* Both stacks grow by a chain, and stay in step.
LEMMA JoinHandlers ==
  ASSUME IInv, NEW d, ShapesBut(block', block, d), \A i \in 1 .. Len(ks) : ks[i].fr # d,
         NEW fs, NEW cs, NEW hfs, NEW idx, JoinsKs(fs), JoinsHs(cs, hfs), Finds(hfs, idx, fs),
         \A i \in 1 .. Len(fs) : i \in 1 .. Len(chain.made) /\ fs[i] = chain.made[i] /\ fs[i] # d
  PROVE  HandlerInv'
<1>1. TypeInv /\ HandlerInv
  BY DEF IInv
<1>2. /\ Len(ks) \in Nat /\ Len(fs) \in Nat /\ Len(ks') = Len(ks) + Len(fs)
      /\ \A i \in 1 .. Len(ks) : i \in 1 .. Len(ks') /\ ks'[i] = ks[i]
      /\ \A i \in 1 .. Len(fs) : Len(ks) + i \in 1 .. Len(ks') /\ ks'[Len(ks) + i].fr = fs[i]
      /\ \A i \in 1 .. Len(ks') : i \in 1 .. Len(ks) \/ \E j \in 1 .. Len(fs) : i = Len(ks) + j
  BY DEF JoinsKs
<1>3. /\ Len(hs) \in Nat /\ Len(hfs) \in Nat /\ Len(hs') = Len(hs) + Len(hfs)
      /\ \A i \in 1 .. Len(hs) : i \in 1 .. Len(hs') /\ hs'[i] = hs[i]
      /\ \A i \in 1 .. Len(hfs) : Len(hs) + i \in 1 .. Len(hs') /\ hs'[Len(hs) + i].hf = hfs[i]
      /\ \A i \in 1 .. Len(hs') : i \in 1 .. Len(hs) \/ \E j \in 1 .. Len(hfs) : i = Len(hs) + j
  BY DEF JoinsHs
<1>4. /\ \A k \in 1 .. Len(hfs) : idx[k] \in 1 .. Len(fs) /\ hfs[k] = fs[idx[k]] /\ block[hfs[k]].tag = "handler"
      /\ \A i, j \in 1 .. Len(hfs) : i < j <=> idx[i] < idx[j]
      /\ \A i \in 1 .. Len(fs) : block[fs[i]].tag = "handler" => \E k \in 1 .. Len(hfs) : idx[k] = i
  BY DEF Finds
<1>5. ASSUME NEW i \in 1 .. Len(ks) PROVE block'[ks'[i].fr].tag = block[ks[i].fr].tag
  <2>1. ks[i].fr \in Addr /\ ks[i].fr # d
    BY TopAlone
  <2> QED
    BY <1>2, <2>1 DEF ShapesBut, SameShape
<1>6. ASSUME NEW i \in 1 .. Len(fs) PROVE block'[fs[i]].tag = block[fs[i]].tag
  <2>1. fs[i] \in Addr
    BY MadeAlone
  <2> QED
    BY <2>1 DEF ShapesBut, SameShape
<1>7. /\ \A i \in 1 .. Len(fs) : \A k \in 1 .. Len(ks) : ks[k].fr # fs[i]
      /\ \A i, k \in 1 .. Len(fs) : fs[i] = fs[k] => i = k
  BY MadeAreNew
<1>8. /\ \A p \in 1 .. Len(ks) : block[ks[p].fr].tag = "handler" => \E i \in 1 .. Len(hs) : hs[i].hf = ks[p].fr
      /\ \A i \in 1 .. Len(hs) : \E p \in 1 .. Len(ks) : hs[i].hf = ks[p].fr /\ block[ks[p].fr].tag = "handler"
      /\ \A i, j \in 1 .. Len(hs) : \A p, q \in 1 .. Len(ks) :
            hs[i].hf = ks[p].fr /\ hs[j].hf = ks[q].fr => (i < j <=> p < q)
  BY <1>1 DEF HandlerInv
<1>9. ASSUME NEW p \in 1 .. Len(ks'), block'[ks'[p].fr].tag = "handler"
      PROVE  \E i \in 1 .. Len(hs') : hs'[i].hf = ks'[p].fr
  <2>1. CASE p \in 1 .. Len(ks)
    <3>1. PICK i \in 1 .. Len(hs) : hs[i].hf = ks[p].fr
      BY <1>5, <1>8, <1>9, <2>1
    <3>2. i \in 1 .. Len(hs') /\ hs'[i].hf = ks'[p].fr
      BY <1>2, <1>3, <2>1, <3>1
    <3> QED
      BY <3>2
  <2>2. CASE p \notin 1 .. Len(ks)
    <3>1. PICK j \in 1 .. Len(fs) : p = Len(ks) + j
      BY <1>2, <2>2
    <3>2. ks'[p].fr = fs[j]
      BY <1>2, <3>1
    <3>3. PICK k \in 1 .. Len(hfs) : idx[k] = j
      BY <1>4, <1>6, <1>9, <3>2
    <3>4. Len(hs) + k \in 1 .. Len(hs') /\ hs'[Len(hs) + k].hf = hfs[k] /\ hfs[k] = fs[j]
      BY <1>3, <1>4, <3>3
    <3> QED
      BY <3>2, <3>4
  <2> QED
    BY <2>1, <2>2
<1>10. ASSUME NEW i \in 1 .. Len(hs')
       PROVE  \E p \in 1 .. Len(ks') : hs'[i].hf = ks'[p].fr /\ block'[ks'[p].fr].tag = "handler"
  <2>1. CASE i \in 1 .. Len(hs)
    <3>1. PICK p \in 1 .. Len(ks) : hs[i].hf = ks[p].fr /\ block[ks[p].fr].tag = "handler"
      BY <1>8, <2>1
    <3>2. p \in 1 .. Len(ks') /\ hs'[i].hf = ks'[p].fr /\ block'[ks'[p].fr].tag = "handler"
      BY <1>2, <1>3, <1>5, <2>1, <3>1
    <3> QED
      BY <3>2
  <2>2. CASE i \notin 1 .. Len(hs)
    <3>1. PICK k \in 1 .. Len(hfs) : i = Len(hs) + k
      BY <1>3, <2>2
    <3>2. /\ hs'[i].hf = hfs[k] /\ idx[k] \in 1 .. Len(fs) /\ hfs[k] = fs[idx[k]] /\ block[hfs[k]].tag = "handler"
      BY <1>3, <1>4, <3>1
    <3>3. Len(ks) + idx[k] \in 1 .. Len(ks') /\ ks'[Len(ks) + idx[k]].fr = fs[idx[k]]
      BY <1>2, <3>2
    <3>4. block'[fs[idx[k]]].tag = "handler"
      BY <1>6, <3>2
    <3> QED
      BY <3>2, <3>3, <3>4
  <2> QED
    BY <2>1, <2>2
\* An entry and a frame that match are both old, or both new.
<1>11. ASSUME NEW i \in 1 .. Len(hs'), NEW p \in 1 .. Len(ks'), hs'[i].hf = ks'[p].fr
       PROVE  \/ i \in 1 .. Len(hs) /\ p \in 1 .. Len(ks) /\ hs[i].hf = ks[p].fr
              \/ \E k \in 1 .. Len(hfs) : i = Len(hs) + k /\ p = Len(ks) + idx[k]
  <2>1. CASE i \in 1 .. Len(hs)
    <3>1. PICK q \in 1 .. Len(ks) : hs[i].hf = ks[q].fr
      BY <1>8, <2>1
    <3>2. hs'[i] = hs[i]
      BY <1>3, <2>1
    <3>3. p \in 1 .. Len(ks)
      <4>1. ASSUME p \notin 1 .. Len(ks) PROVE FALSE
        <5>1. PICK j \in 1 .. Len(fs) : p = Len(ks) + j
          BY <1>2, <4>1
        <5>2. ks'[p].fr = fs[j]
          BY <1>2, <5>1
        <5> QED
          BY <1>7, <1>11, <3>1, <3>2, <5>2
      <4> QED
        BY <4>1
    <3> QED
      BY <1>2, <1>11, <2>1, <3>2, <3>3
  <2>2. CASE i \notin 1 .. Len(hs)
    <3>1. PICK k \in 1 .. Len(hfs) : i = Len(hs) + k
      BY <1>3, <2>2
    <3>2. /\ hs'[i].hf = fs[idx[k]] /\ idx[k] \in 1 .. Len(fs)
      BY <1>3, <1>4, <3>1
    <3>3. p \notin 1 .. Len(ks)
      <4>1. ASSUME p \in 1 .. Len(ks) PROVE FALSE
        <5>1. ks'[p] = ks[p]
          BY <1>2, <4>1
        <5>2. ks[p].fr # fs[idx[k]]
          BY <1>7, <3>2, <4>1
        <5> QED
          BY <1>11, <3>2, <5>1, <5>2
      <4> QED
        BY <4>1
    <3>4. PICK j \in 1 .. Len(fs) : p = Len(ks) + j
      BY <1>2, <3>3
    <3>5. ks'[p].fr = fs[j]
      BY <1>2, <3>4
    <3>6. j = idx[k]
      BY <1>7, <1>11, <3>2, <3>5
    <3> QED
      BY <3>1, <3>4, <3>6
  <2> QED
    BY <2>1, <2>2
<1>12. ASSUME NEW i \in 1 .. Len(hs'), NEW j \in 1 .. Len(hs'), NEW p \in 1 .. Len(ks'), NEW q \in 1 .. Len(ks'),
              hs'[i].hf = ks'[p].fr, hs'[j].hf = ks'[q].fr
       PROVE  i < j <=> p < q
  <2>1. \/ i \in 1 .. Len(hs) /\ p \in 1 .. Len(ks) /\ hs[i].hf = ks[p].fr
        \/ \E k \in 1 .. Len(hfs) : i = Len(hs) + k /\ p = Len(ks) + idx[k]
    BY <1>11, <1>12
  <2>2. \/ j \in 1 .. Len(hs) /\ q \in 1 .. Len(ks) /\ hs[j].hf = ks[q].fr
        \/ \E k \in 1 .. Len(hfs) : j = Len(hs) + k /\ q = Len(ks) + idx[k]
    BY <1>11, <1>12
  <2>3. CASE /\ i \in 1 .. Len(hs) /\ p \in 1 .. Len(ks) /\ hs[i].hf = ks[p].fr
             /\ j \in 1 .. Len(hs) /\ q \in 1 .. Len(ks) /\ hs[j].hf = ks[q].fr
    BY ONLY <1>8, <2>3
  <2>4. CASE /\ i \in 1 .. Len(hs) /\ p \in 1 .. Len(ks)
             /\ \E k \in 1 .. Len(hfs) : j = Len(hs) + k /\ q = Len(ks) + idx[k]
    <3>1. PICK k \in 1 .. Len(hfs) : j = Len(hs) + k /\ q = Len(ks) + idx[k]
      BY <2>4
    <3>2. idx[k] \in 1 .. Len(fs)
      BY <1>4
    <3> QED
      BY ONLY <1>2, <1>3, <2>4, <3>1, <3>2, SMTT(40)
  <2>5. CASE /\ j \in 1 .. Len(hs) /\ q \in 1 .. Len(ks)
             /\ \E k \in 1 .. Len(hfs) : i = Len(hs) + k /\ p = Len(ks) + idx[k]
    <3>1. PICK k \in 1 .. Len(hfs) : i = Len(hs) + k /\ p = Len(ks) + idx[k]
      BY <2>5
    <3>2. idx[k] \in 1 .. Len(fs)
      BY <1>4
    <3> QED
      BY ONLY <1>2, <1>3, <2>5, <3>1, <3>2, SMTT(40)
  <2>6. CASE /\ \E k \in 1 .. Len(hfs) : i = Len(hs) + k /\ p = Len(ks) + idx[k]
             /\ \E k \in 1 .. Len(hfs) : j = Len(hs) + k /\ q = Len(ks) + idx[k]
    <3>1. PICK k \in 1 .. Len(hfs) : i = Len(hs) + k /\ p = Len(ks) + idx[k]
      BY <2>6
    <3>2. PICK l \in 1 .. Len(hfs) : j = Len(hs) + l /\ q = Len(ks) + idx[l]
      BY <2>6
    <3>3. idx[k] \in 1 .. Len(fs) /\ idx[l] \in 1 .. Len(fs) /\ (k < l <=> idx[k] < idx[l])
      BY <1>4
    <3>4. PICK f, g : f = idx[k] /\ g = idx[l]
      OBVIOUS
    <3>5. f \in 1 .. Len(fs) /\ g \in 1 .. Len(fs) /\ (k < l <=> f < g) /\ k \in Nat /\ l \in Nat /\ p = Len(ks) + f /\ q = Len(ks) + g
      BY <1>3, <3>1, <3>2, <3>3, <3>4
    <3>6. Len(ks) \in Nat /\ Len(fs) \in Nat /\ Len(hs) \in Nat /\ Len(hfs) \in Nat
      BY <1>2, <1>3
    <3>7. PICK h, e : h = Len(hs) /\ e = Len(ks)
      OBVIOUS
    <3>8. h \in Nat /\ e \in Nat /\ k \in Nat /\ l \in Nat /\ f \in Nat /\ g \in Nat /\ (k < l <=> f < g)
      BY <3>5, <3>6, <3>7
    <3>9. i = h + k /\ j = h + l /\ p = e + f /\ q = e + g
      BY <3>1, <3>2, <3>5, <3>7
    <3> QED
      BY ONLY <3>8, <3>9
  <2> QED
    BY <2>1, <2>2, <2>3, <2>4, <2>5, <2>6
<1> QED
  BY <1>9, <1>10, <1>12 DEF HandlerInv

\* push_entries_of keeps the invariant: the clones go from the chain to the
\* stack, and the handlers among them give their clauses to the handler stack.
LEMMA KeepsRunChain == ASSUME IInv, NEW s \in Seq(Locals), RunChain(s) PROVE IInv'
<1>1. TypeInv /\ TokenInv /\ SortInv /\ CountInv /\ ShapeInv /\ ChainInv /\ PinInv /\ HandlerInv /\ PoolInv /\ AllCounted
  BY CountsAre DEF IInv
<1>2. PICK r, made, n : r = chain.of /\ made = chain.made /\ n = Len(chain.made)
  OBVIOUS
<1>3. PICK d : d = made[n]
  OBVIOUS
<1>4. /\ r \in Addr /\ work = {} /\ ~token.on /\ token.shell = Nil
      /\ made \in Seq(Addr) /\ n = Len(made) /\ n \in Nat /\ n \in 1 .. n /\ made # << >>
  <2>1. chain.of # Nil /\ Len(chain.made) = Len(block[chain.of].fields)
    BY DEF RunChain
  <2>2. chain \in [of : AN, made : Seq(Addr)]
    BY <1>1 DEF TypeInv
  <2>3. r \in Addr /\ r # Nil /\ made \in Seq(Addr) /\ n = Len(made) /\ n \in Nat
    BY <1>2, <2>1, <2>2 DEF AN
  <2>4. work = {} /\ ~token.on /\ block[r].tag = "resume"
    BY <1>1, <1>2, <2>1 DEF ChainInv
  <2>5. token.shell = Nil
    BY <1>1, <2>4 DEF TokenInv
  <2>6. block[r].fields # << >> /\ block[r].fields \in Seq(AN)
    BY <1>1, <2>3, <2>4, HeldTyped DEF ShapeInv, Shaped
  <2>7. n # 0
    <3>1. Len(block[r].fields) # 0
      BY <2>6
    <3> QED
      BY <1>2, <2>1, <3>1
  <2> QED
    BY <2>3, <2>4, <2>5, <2>7
<1>5. /\ d \in Addr /\ d # Nil /\ block[d].tag \in FrameTags /\ Total(d) = 1
      /\ \A k \in 1 .. Len(ks) : ks[k].fr # d
      /\ \A k \in 1 .. n : made[k] = d => k = n
  BY <1>2, <1>3, <1>4, MadeAlone, MadeAreNew, HeapAssumption DEF Alone
<1>6. PICK hfs, fs : /\ hfs = HandlersOf(made)
                     /\ fs = IF block[d].tag = "frame" THEN SubSeq(made, 1, Len(made) - 1) ELSE made
  OBVIOUS
<1>7. PICK cs : cs = [i \in DOMAIN hfs |-> block[hfs[i]].fields[2]]
  OBVIOUS
<1>8. PICK held : held = Duped(block, cs)
  OBVIOUS
<1>9. /\ ks' = ks \o Frames(fs) /\ hs' = hs \o Entries(cs, hfs)
      /\ IF block[d].tag = "frame"
         THEN Entered(d, s) /\ BlockFree(d) /\ block' = [held EXCEPT ![d] = Dead]
         ELSE block' = held /\ UNCHANGED <<pool, local>>
      /\ chain' = NoChain /\ UNCHANGED <<work, token, budget>>
  BY <1>2, <1>3, <1>6, <1>7, <1>8 DEF RunChain, Frames, Entries
<1>10. PICK idx : Finds(hfs, idx, made)
  BY <1>4, <1>6, HandlersAre
<1>11. /\ fs \in Seq(Addr) /\ Len(fs) \in Nat
       /\ \A i \in 1 .. Len(fs) : i \in 1 .. n /\ fs[i] = made[i]
       /\ \A i \in 1 .. n : i \in 1 .. Len(fs) \/ (i = n /\ block[d].tag = "frame")
       /\ block[d].tag = "frame" => \A i \in 1 .. Len(fs) : fs[i] # d
       /\ \A a \in Addr : CountIn(made, a) = CountIn(fs, a) + OneIf(block[d].tag = "frame" /\ d = a)
  <2>1. CASE block[d].tag = "frame"
    <3>1. fs = SubSeq(made, 1, n - 1)
      BY <1>4, <1>6, <2>1
    <3>2. /\ fs \in Seq(Addr) /\ Len(fs) = n - 1 /\ \A i \in 1 .. n - 1 : fs[i] = made[i]
      BY <1>4, <3>1
    <3>3. \A i \in 1 .. Len(fs) : i \in 1 .. n /\ i # n /\ fs[i] = made[i]
      BY <1>4, <3>2
    <3>4. ASSUME NEW a \in Addr PROVE CountIn(made, a) = CountIn(fs, a) + OneIf(d = a)
      <4>1. CountIn(SubSeq(made, 1, Len(made) - 1), a) = CountIn(made, a) - OneIf(made[Len(made)] = a)
        BY <1>4, CountInPop
      <4>2. CountIn(made, a) \in Nat /\ OneIf(d = a) \in Nat
        BY <1>4, CountInIs DEF OneIf
      <4> QED
        BY <1>3, <1>4, <3>1, <4>1, <4>2
    <3>5. \A i \in 1 .. n : i \in 1 .. Len(fs) \/ i = n
      BY <1>4, <3>2
    <3>6. \A i \in 1 .. Len(fs) : fs[i] # d
      BY <1>5, <3>3
    <3>7. Len(fs) \in Nat
      BY <3>2
    <3> QED
      BY <2>1, <3>2, <3>3, <3>4, <3>5, <3>6, <3>7
  <2>2. CASE block[d].tag # "frame"
    <3>1. fs = made
      BY <1>6, <2>2
    <3>2. \A a \in Addr : OneIf(block[d].tag = "frame" /\ d = a) = 0 /\ CountIn(made, a) \in Nat
      BY <1>4, <2>2, CountInIs DEF OneIf
    <3> QED
      BY <1>4, <2>2, <3>1, <3>2
  <2> QED
    BY <2>1, <2>2
<1>12. Finds(hfs, idx, fs)
  <2>1. /\ hfs \in Seq(Addr) /\ idx \in [1 .. Len(hfs) -> 1 .. n]
        /\ \A k \in 1 .. Len(hfs) : hfs[k] = made[idx[k]] /\ block[hfs[k]].tag = "handler"
        /\ \A i, j \in 1 .. Len(hfs) : i < j <=> idx[i] < idx[j]
        /\ \A i \in 1 .. n : block[made[i]].tag = "handler" => \E k \in 1 .. Len(hfs) : idx[k] = i
    BY <1>4, <1>10 DEF Finds
  <2>2. ASSUME NEW k \in 1 .. Len(hfs) PROVE idx[k] \in 1 .. Len(fs) /\ hfs[k] = fs[idx[k]]
    <3>1. idx[k] \in 1 .. n /\ hfs[k] = made[idx[k]] /\ block[hfs[k]].tag = "handler"
      BY <2>1
    <3>2. ~(idx[k] = n /\ block[d].tag = "frame")
      BY <1>3, <3>1
    <3>3. idx[k] \in 1 .. Len(fs)
      BY <1>11, <3>1, <3>2
    <3> QED
      BY <1>11, <3>1, <3>3
  <2>3. idx \in [1 .. Len(hfs) -> 1 .. Len(fs)]
    BY <2>1, <2>2
  <2>4. \A i \in 1 .. Len(fs) : block[fs[i]].tag = "handler" => \E k \in 1 .. Len(hfs) : idx[k] = i
    BY <1>11, <2>1
  <2> QED
    BY <2>1, <2>2, <2>3, <2>4 DEF Finds
<1>13. /\ hfs \in Seq(Addr) /\ cs \in Seq(AN) /\ Len(cs) = Len(hfs)
       /\ \A i \in 1 .. Len(cs) : cs[i] \in AN /\ IsValue(block, cs[i])
  <2>1. hfs \in Seq(Addr) /\ \A i \in 1 .. Len(hfs) : block[hfs[i]].tag = "handler"
    BY <1>10 DEF Finds
  <2>2. 2 \in 1 .. 2
    OBVIOUS
  <2>3. ASSUME NEW i \in 1 .. Len(hfs) PROVE block[hfs[i]].fields[2] \in AN /\ IsValue(block, block[hfs[i]].fields[2])
    <3>1. hfs[i] \in Addr /\ block[hfs[i]].tag = "handler"
      BY <2>1, ElementOfSeq
    <3> QED
      BY <2>2, <3>1, HandlerOwns
  <2>4. DOMAIN hfs = 1 .. Len(hfs) /\ Len(hfs) \in Nat
    BY <2>1
  <2>5. cs \in Seq(AN) /\ Len(cs) = Len(hfs) /\ \A i \in 1 .. Len(hfs) : cs[i] = block[hfs[i]].fields[2]
    BY <1>7, <2>3, <2>4
  <2> QED
    BY <2>1, <2>3, <2>5
<1>14. CountIn(cs, d) = 0
  <2>1. \A i \in 1 .. Len(cs) : cs[i] # d
    <3> TAKE i \in 1 .. Len(cs)
    <3>1. IsValue(block, cs[i])
      BY <1>13
    <3>2. block[d].tag \notin ValueTags
      BY <1>5 DEF FrameTags, ValueTags
    <3> QED
      BY <1>5, <3>1, <3>2 DEF IsValue
  <2> QED
    BY <1>13, <2>1, CountInIs
<1>15. Good(block, CountFn) /\ work = DyingIn(block) /\ \A a \in Addr : CountFn[a] = Total(a)
  BY IsGood
<1>16. PICK m1 \in [Addr -> Nat] :
           /\ \A a \in Addr : m1[a] = CountFn[a] + CountIn(cs, a)
           /\ Good(held, m1) /\ SameShapes(held, block) /\ DyingIn(held) = {}
  <2>1. \A i \in 1 .. Len(cs) : cs[i] = Nil \/ block[cs[i]].tag \in ValueTags
    BY <1>13 DEF IsValue
  <2>2. cs \in Seq(AN) /\ Good(block, CountFn)
    BY <1>13, <1>15
  <2>3. PICK m1 \in [Addr -> Nat] :
           /\ \A a \in Addr : m1[a] = CountFn[a] + CountIn(cs, a)
           /\ Good(Duped(block, cs), m1) /\ SameShapes(Duped(block, cs), block)
           /\ DyingIn(block) = {} => DyingIn(Duped(block, cs)) = {}
    BY ONLY <2>1, <2>2, AddGood
  <2> QED
    BY <1>4, <1>8, <1>15, <2>3
<1>17. PICK e : e = IF block[d].tag = "frame" THEN d ELSE Nil
  OBVIOUS
<1>18. PICK m \in [Addr -> Nat] :
           /\ \A a \in Addr : m[a] = IF a = e THEN 0 ELSE m1[a]
           /\ Good(block', m) /\ DyingIn(block') = {}
           /\ \A a \in Addr : a # e => block'[a] = held[a]
           /\ block[d].tag = "frame" => block'[d] = Dead
  <2>1. CASE block[d].tag = "frame"
    <3>1. Gone(block', held, d)
      BY <1>9, <2>1 DEF Gone
    <3>2. Good(held, m1) /\ d \in Addr
      BY <1>5, <1>16
    <3>3. PICK m \in [Addr -> Nat] :
           /\ m[d] = 0 /\ \A a \in Addr : a # d => m[a] = m1[a]
           /\ Good(block', m) /\ DyingIn(block') = DyingIn(held) \ {d}
           /\ block'[d] = Dead /\ \A a \in Addr : a # d => block'[a] = held[a]
      BY ONLY <3>1, <3>2, GoneGood
    <3> QED
      BY <1>16, <1>17, <2>1, <3>3
  <2>2. CASE block[d].tag # "frame"
    <3>1. block' = held /\ e = Nil /\ \A a \in Addr : a # e
      BY <1>9, <1>17, <2>2, HeapAssumption
    <3>2. /\ \A a \in Addr : m1[a] = IF a = e THEN 0 ELSE m1[a]
          /\ Good(block', m1) /\ DyingIn(block') = {}
          /\ \A a \in Addr : a # e => block'[a] = held[a]
          /\ block[d].tag = "frame" => block'[d] = Dead
      BY <1>16, <2>2, <3>1
    <3> QED
      BY <3>2
  <2> QED
    BY <2>1, <2>2
<1>19. ShapesBut(block', block, e)
  BY <1>16, <1>18 DEF ShapesBut, SameShapes
<1>20. /\ JoinsKs(fs) /\ \A a \in Addr : FramedCount(a)' = FramedCount(a) + CountIn(fs, a)
  BY <1>1, <1>9, <1>11, KsJoin
<1>21. /\ JoinsHs(cs, hfs) /\ \A a \in Addr : ClauseCount(a)' = ClauseCount(a) + CountIn(cs, a)
  BY <1>1, <1>9, <1>13, HsJoin
<1>22. ~IsMirror(d) /\ block[d].self = 0 /\ token.shell # d /\ HeldBy(d) = block[d].fields
  <2>1. ~IsMirror(d)
    BY <1>5 DEF IsMirror
  <2>2. block[d].self = 0
    BY <1>1, <1>5 DEF ShapeInv, Shaped, FrameTags
  <2>3. token.shell # d
    BY <1>4, <1>5
  <2> QED
    BY <1>1, <1>5, <2>1, <2>2, <2>3, HeldAll
<1>23. \A i \in 1 .. Len(block[d].fields) : IsValue(block, block[d].fields[i])
  BY <1>1, <1>5, <1>22 DEF SortInv, Released, FrameTags
<1>24. /\ local' \in [Locals -> AN]
       /\ \A x \in Locals : local'[x] = local[x] \/ (x \in Own /\ IsValue(block, local'[x]))
       /\ \A a \in Addr : LocalCount(a)' = LocalCount(a) + (IF block[d].tag = "frame" THEN CountIn(HeldBy(d), a) ELSE 0)
  <2>1. CASE block[d].tag = "frame"
    <3>0. Entered(d, s)
      BY <1>9, <2>1
    <3>1. /\ local' \in [Locals -> AN]
          /\ \A x \in Locals : local'[x] = local[x]
               \/ (x \in Own /\ \E i \in 1 .. Len(block[d].fields) : local'[x] = block[d].fields[i])
          /\ \A a \in Addr : LocalCount(a)' = LocalCount(a) + CountIn(HeldBy(d), a)
      BY <1>1, <1>5, <1>22, <3>0, EnteredIs
    <3>2. ASSUME NEW x \in Locals PROVE local'[x] = local[x] \/ (x \in Own /\ IsValue(block, local'[x]))
      <4>1. CASE local'[x] = local[x]
        BY <4>1
      <4>2. CASE local'[x] # local[x]
        <5>1. x \in Own
          BY <3>1, <4>2
        <5>2. PICK i \in 1 .. Len(block[d].fields) : local'[x] = block[d].fields[i]
          BY <3>1, <4>2
        <5>3. IsValue(block, local'[x])
          BY <1>23, <5>2
        <5> QED
          BY <5>1, <5>3
      <4> QED
        BY <4>1, <4>2
    <3> QED
      BY <2>1, <3>1, <3>2
  <2>2. CASE block[d].tag # "frame"
    <3>1. local' = local /\ local \in [Locals -> AN]
      BY <1>1, <1>9, <2>2 DEF TypeInv
    <3>2. \A a \in Addr : LocalCount(a)' = LocalCount(a) + 0
      BY <1>1, <3>1 DEF LocalCount, AllCounted, CountsNow
    <3> QED
      BY <2>2, <3>1, <3>2
  <2> QED
    BY <2>1, <2>2
<1>25. PoolInv' /\ class' \in [Addr -> 0 .. PoolWords] /\ freelist' \in [1 .. PoolWords -> Seq(Addr)]
  <2>1. CASE block[d].tag = "frame"
    <3>1. BlockFree(d) /\ block'[d] = Dead /\ block[d].tag # "none" /\ e = d
      BY <1>9, <1>17, <1>18, <2>1
    <3>2. \A b \in Addr : b # d => SameShape(block'[b], block[b])
      BY <1>19, <3>1 DEF ShapesBut
    <3> QED
      BY <1>1, <1>5, <3>1, <3>2, PoolShrinks
  <2>2. CASE block[d].tag # "frame"
    <3>1. UNCHANGED pool /\ SameShapes(block', block)
      BY <1>9, <1>16, <2>2
    <3>2. PoolInv'
      BY <1>1, <3>1, PoolSame
    <3> QED
      BY <1>1, <3>1, <3>2 DEF TypeInv, pool
  <2> QED
    BY <2>1, <2>2
<1>26. TypeInv'
  <2>1. /\ ks' \in Seq([fr : Addr, pins : Seq(Locals)]) /\ hs' \in Seq([clause : AN, hf : Addr])
    BY <1>20, <1>21 DEF JoinsKs, JoinsHs
  <2>2. chain' \in [of : AN, made : Seq(Addr)]
    BY <1>9 DEF NoChain, AN
  <2>3. block' \in [Addr -> Block]
    BY <1>18, GoodTyped
  <2> QED
    BY <1>1, <1>9, <1>24, <1>25, <2>1, <2>2, <2>3 DEF TypeInv
<1>27. \A i \in 1 .. Len(ks) : ks[i].fr # e
  <2> TAKE i \in 1 .. Len(ks)
  <2>1. ks[i].fr \in Addr /\ ks[i].fr # Nil
    BY TopAlone, HeapAssumption
  <2> QED
    BY <1>5, <1>17, <2>1
<1>28. PinInv' /\ \A c : IsMirror(c)' <=> IsMirror(c)
  BY <1>19, <1>20, <1>24, <1>27, JoinPins
<1>29. HandlerInv'
  <2>1. \A i \in 1 .. Len(fs) : i \in 1 .. Len(chain.made) /\ fs[i] = chain.made[i] /\ fs[i] # e
    <3> TAKE i \in 1 .. Len(fs)
    <3>1. fs[i] \in Addr /\ fs[i] # Nil
      BY <1>11, ElementOfSeq, HeapAssumption
    <3> QED
      BY <1>2, <1>11, <1>17, <3>1
  <2> QED
    BY <1>12, <1>19, <1>20, <1>21, <1>27, <2>1, JoinHandlers
<1>30. \A c \in Addr : c # e => HeldAlike(c)
  <2> TAKE c \in Addr
  <2> HAVE c # e
  <2>1. block'[c].fields = block[c].fields /\ block'[c].self = block[c].self
    BY <1>19 DEF ShapesBut, SameShape
  <2>2. \A i : Released(c, i)' <=> Released(c, i)
    BY <1>9 DEF Released
  <2> QED
    BY <1>28, <2>1, <2>2 DEF HeldAlike
<1>31. \A a \in Addr : /\ CountIn(HeldBy(d), a) \in Nat
                       /\ HeldCount(a)' = HeldCount(a) - (IF block[d].tag = "frame" THEN CountIn(HeldBy(d), a) ELSE 0)
  <2> TAKE a \in Addr
  <2>1. CountIn(HeldBy(d), a) \in Nat /\ HeldCount(a) \in Nat
    BY <1>1, <1>5, CountsTyped
  <2>2. CASE block[d].tag = "frame"
    <3>1. \A c \in Addr : c # d => HeldAlike(c)
      BY <1>17, <1>30, <2>2
    <3>2. HeldCount(a)' = HeldCount(a) - CountIn(HeldBy(d), a) + CountIn(HeldBy(d)', a)
      BY <1>1, <1>5, <1>26, <3>1, HeldChanged
    <3>3. HeldBy(d)' = << >>
      BY <1>18, <2>2, DeadIs DEF HeldBy
    <3>4. CountIn(HeldBy(d)', a) = 0
      BY <3>3, CountInEmpty
    <3> QED
      BY <2>1, <2>2, <3>2, <3>4
  <2>3. CASE block[d].tag # "frame"
    <3>1. \A c \in Addr : HeldAlike(c)
      BY <1>17, <1>30, <2>3, HeapAssumption
    <3>2. HeldCount(a)' = HeldCount(a)
      BY <3>1, HeldSame
    <3> QED
      BY <2>1, <2>3, <3>2
  <2> QED
    BY <2>2, <2>3
<1>32. \A a \in Addr : Total(a)' = m[a]
  <2> TAKE a \in Addr
  <2>1. CountsNow(a) /\ CountsNow(a)'
    BY <1>1, <1>26, CountsArePrime DEF AllCounted
  <2>2. PICK o, c, f, g, l, h, x : /\ o = (IF block[d].tag = "frame" THEN CountIn(HeldBy(d), a) ELSE 0)
                                   /\ c = CountIn(cs, a) /\ f = CountIn(fs, a)
                                   /\ g = OneIf(block[d].tag = "frame" /\ d = a)
                                   /\ l = 0 - o /\ h = 0 - (f + g) /\ x = MadeCount(a)
    OBVIOUS
  <2>3. o \in Nat /\ c \in Nat /\ f \in Nat /\ g \in Nat
    <3>1. c \in Nat
      BY <1>13, <2>2, CountInIs
    <3>2. f \in Nat
      BY <1>11, <2>2, CountInIs
    <3>3. o \in Nat
      BY <1>31, <2>2
    <3>4. g \in Nat
      BY <2>2 DEF OneIf
    <3> QED
      BY <3>1, <3>2, <3>3, <3>4
  <2>4. o \in Int /\ c \in Int /\ f \in Int /\ l \in Int /\ h \in Int /\ 0 \in Int
    BY ONLY <2>2, <2>3
  <2>5. LocalCount(a)' = LocalCount(a) + o /\ ClauseCount(a)' = ClauseCount(a) + c
        /\ FramedCount(a)' = FramedCount(a) + f
    BY <1>20, <1>21, <1>24, <2>2
  <2>6. HeldCount(a)' = HeldCount(a) + l
    <3>1. HeldCount(a)' = HeldCount(a) - o
      BY <1>31, <2>2
    <3>2. HeldCount(a) \in Nat
      BY <2>1 DEF CountsNow
    <3> QED
      BY ONLY <2>2, <2>3, <3>1, <3>2
  <2>7. MadeCount(a)' = MadeCount(a) + h
    <3>1. MadeCount(a) = f + g
      BY <1>2, <1>11, <2>2 DEF MadeCount
    <3>2. MadeCount(a)' = 0
      BY <1>9, CountInEmpty DEF MadeCount, NoChain
    <3> QED
      BY ONLY <2>2, <2>3, <3>1, <3>2
  <2>8. ShellCount(a)' = ShellCount(a) + 0
    <3>1. ShellCount(a)' = ShellCount(a) /\ ShellCount(a) \in Nat
      BY <1>9, <2>1 DEF ShellCount, CountsNow
    <3> QED
      BY ONLY <3>1
  <2>9. Total(a)' = Total(a) + (o + c + f + h + l + 0) /\ Total(a) \in Nat
    BY ONLY <2>1, <2>4, <2>5, <2>6, <2>7, <2>8, TotalMoves, Z3T(40)
  <2>10. Total(a)' = Total(a) + c - g
    <3>1. l = 0 - o /\ h = 0 - (f + g)
      BY <2>2
    <3>2. o + c + f + h + l + 0 = c - g
      BY ONLY <2>3, <3>1
    <3> QED
      BY ONLY <2>3, <2>9, <3>2
  <2>11. m1[a] = Total(a) + c
    BY <1>15, <1>16, <2>2
  <2>12. CASE a = e
    <3>1. a = d /\ g = 1
      BY <1>5, <1>17, <2>2, <2>12, HeapAssumption DEF OneIf
    <3>2. Total(a) = 1 /\ c = 0 /\ m[a] = 0
      BY <1>5, <1>14, <1>18, <2>2, <2>12, <3>1
    <3> QED
      BY ONLY <2>10, <3>1, <3>2
  <2>13. CASE a # e
    <3>1. g = 0
      BY <1>17, <2>2, <2>13 DEF OneIf
    <3>2. m[a] = m1[a]
      BY <1>18, <2>13
    <3> QED
      BY ONLY <2>3, <2>9, <2>10, <2>11, <3>1, <3>2
  <2> QED
    BY <2>12, <2>13
<1>33. ShapeInv' /\ CountInv'
  <2>1. work' = DyingIn(block')
    BY <1>4, <1>9, <1>18
  <2> QED
    BY <1>18, <1>32, <2>1, GoodIsCounted
<1>34. SortInv'
  <2>1. \A x \in Locals : IsValue(block, local'[x])
    <3> TAKE x \in Locals
    <3>1. IsValue(block, local[x])
      BY <1>1 DEF SortInv
    <3> QED
      BY <1>24, <3>1
  <2>2. \A i \in 1 .. Len(hs') : IsValue(block, hs'[i].clause)
    <3> TAKE i \in 1 .. Len(hs')
    <3>1. CASE i \in 1 .. Len(hs)
      <4>1. hs'[i] = hs[i]
        BY <1>21, <3>1 DEF JoinsHs
      <4> QED
        BY <1>1, <3>1, <4>1 DEF SortInv
    <3>2. CASE i \notin 1 .. Len(hs)
      <4>1. PICK j \in 1 .. Len(hfs) : i = Len(hs) + j
        BY <1>21, <3>2 DEF JoinsHs
      <4>2. hs'[i].clause = cs[j]
        BY <1>21, <4>1 DEF JoinsHs
      <4> QED
        BY <1>13, <4>1, <4>2
    <3> QED
      BY <3>1, <3>2
  <2>3. \A i \in 1 .. Len(ks') : IsFrame(block, ks'[i].fr)
    <3> TAKE i \in 1 .. Len(ks')
    <3>1. CASE i \in 1 .. Len(ks)
      <4>1. ks'[i] = ks[i]
        BY <1>20, <3>1 DEF JoinsKs
      <4> QED
        BY <1>1, <3>1, <4>1 DEF SortInv
    <3>2. CASE i \notin 1 .. Len(ks)
      <4>1. PICK j \in 1 .. Len(fs) : i = Len(ks) + j
        BY <1>20, <3>2 DEF JoinsKs
      <4>2. ks'[i].fr = fs[j]
        BY <1>20, <4>1 DEF JoinsKs
      <4>3. fs[j] = chain.made[j] /\ j \in 1 .. Len(chain.made)
        BY <1>2, <1>11, <4>1
      <4>4. IsFrame(block, chain.made[j])
        BY <1>1, <4>3 DEF SortInv
      <4> QED
        BY <4>2, <4>3, <4>4
    <3> QED
      BY <3>1, <3>2
  <2>4. \A i \in 1 .. Len(chain'.made) : IsFrame(block, chain'.made[i])
    BY <1>9 DEF NoChain
  <2>5. \A b \in Addr : \A i \in 1 .. Len(block[b].fields) : Released(b, i) => Released(b, i)'
    BY <1>9 DEF Released
  <2>6. CASE block[d].tag = "frame"
    <3>1. e = d /\ block'[d] = Dead /\ ShapesBut(block', block, d)
      BY <1>17, <1>18, <1>19, <2>6
    <3>2. Total(d)' = 0
      BY <1>5, <1>18, <1>32, <3>1
    <3>3. Unowned(d)'
      BY <1>5, <1>26, <3>2, CountedPrime DEF Owned
    <3> QED
      BY <1>1, <1>5, <1>26, <1>28, <1>33, <2>1, <2>2, <2>3, <2>4, <2>5, <3>1, <3>3, SortFree
  <2>7. CASE block[d].tag # "frame"
    <3>1. SameShapes(block', block)
      BY <1>9, <1>16, <2>7
    <3> QED
      BY <1>1, <1>26, <2>1, <2>2, <2>3, <2>4, <2>5, <3>1, SortCalm
  <2> QED
    BY <2>6, <2>7
<1>35. TokenInv' /\ ChainInv'
  BY <1>4, <1>9 DEF TokenInv, ChainInv, NoChain
<1> QED
  BY <1>25, <1>26, <1>28, <1>29, <1>33, <1>34, <1>35 DEF IInv

\* The empty heap.
LEMMA InitHolds == Init => IInv
<1> SUFFICES ASSUME Init PROVE IInv
  OBVIOUS
<1>1. /\ block = [a \in Addr |-> Dead] /\ class = [a \in Addr |-> 0]
      /\ freelist = [n \in 1 .. PoolWords |-> << >>] /\ local = [x \in Locals |-> Nil]
      /\ ks = << >> /\ hs = << >> /\ work = {} /\ token = NoToken /\ chain = NoChain /\ budget \in Budgets
  BY DEF Init
<1>2. TypeInv
  <2>1. block \in [Addr -> Block]
    BY <1>1, DeadIs
  <2>2. class \in [Addr -> 0 .. PoolWords]
    BY <1>1, HeapAssumption
  <2>3. freelist \in [1 .. PoolWords -> Seq(Addr)]
    BY <1>1
  <2>4. local \in [Locals -> AN]
    BY <1>1 DEF AN
  <2>5. ks \in Seq([fr : Addr, pins : Seq(Locals)]) /\ hs \in Seq([clause : AN, hf : Addr]) /\ work \in SUBSET Addr
    BY <1>1
  <2>6. token \in [on : BOOLEAN, shell : AN, next : Nat, arity : Nat]
    BY <1>1 DEF NoToken, AN
  <2>7. chain \in [of : AN, made : Seq(Addr)]
    <3>1. << >> \in Seq(Addr)
      OBVIOUS
    <3> QED
      BY <1>1, <3>1 DEF NoChain, AN
  <2>8. budget \in [Tags -> Nat]
    BY <1>1, HeapAssumption
  <2> QED
    BY <2>1, <2>2, <2>3, <2>4, <2>5, <2>6, <2>7, <2>8 DEF TypeInv
<1>3. ShapeInv
  BY <1>1, DeadIs DEF ShapeInv
<1>4. Len(ks) = 0 /\ Len(hs) = 0 /\ chain.made = << >> /\ Len(chain.made) = 0 /\ token.shell = Nil /\ chain.of = Nil
  BY <1>1 DEF NoToken, NoChain
<1>5. \A a \in Addr : block[a].tag = "none" /\ block[a].rc = 0 /\ Len(block[a].fields) = 0
  BY <1>1, DeadIs
<1>6. ASSUME NEW a \in Addr PROVE Total(a) = 0
  <2>1. a # Nil
    BY HeapAssumption
  <2>2. LocalCount(a) = 0 /\ ClauseCount(a) = 0 /\ FramedCount(a) = 0 /\ MadeCount(a) = 0
    BY <1>1, <1>2, <1>4, <2>1, CountsTyped
  <2>3. ShellCount(a) = 0
    BY <1>4, <2>1 DEF ShellCount, OneIf
  <2>4. HeldCount(a) = 0
    <3>1. Held \in [Addr -> Seq(AN)] /\ \A b \in Addr : Held[b] = HeldBy(b) /\ Len(HeldBy(b)) = 0
      BY <1>2, <1>5, HeldTyped
    <3>2. Slots(Held) = {}
      BY <3>1 DEF Slots
    <3>3. HeldCount(a) = Cardinality({})
      BY <3>2 DEF HeldCount, HeapCount, CountOf
    <3> QED
      BY <3>3, FS_EmptySet
  <2>5. Total(a) = LocalCount(a) + ClauseCount(a) + FramedCount(a) + MadeCount(a) + HeldCount(a) + ShellCount(a)
    BY TotalIs
  <2> QED
    BY <2>2, <2>3, <2>4, <2>5
<1>7. CountInv
  BY <1>1, <1>5, <1>6 DEF CountInv, Exact
<1>8. SortInv
  <2>1. \A b \in Addr : \A i \in 1 .. Len(block[b].fields) : FALSE
    BY <1>5
  <2>2. \A x \in Locals : IsValue(block, local[x])
    BY <1>1 DEF IsValue
  <2> QED
    BY <1>4, <2>1, <2>2 DEF SortInv
<1>9. PinInv /\ HandlerInv
  BY <1>4 DEF PinInv, HandlerInv
<1>10. TokenInv /\ ChainInv
  BY <1>4 DEF TokenInv, ChainInv
<1>11. PoolInv
  <2>1. \A n \in 1 .. PoolWords : Len(freelist[n]) = 0
    BY <1>1
  <2>2. \A a \in Addr : class[a] = 0
    BY <1>1
  <2>3. \A n \in 1 .. PoolWords : n # 0
    BY HeapAssumption
  <2> QED
    BY <1>5, <2>1, <2>2, <2>3 DEF PoolInv
<1> QED
  BY <1>2, <1>3, <1>7, <1>8, <1>9, <1>10, <1>11 DEF IInv

\* A step that changes nothing.
LEMMA StutterKeeps == IInv /\ UNCHANGED vars => IInv'
<1> SUFFICES ASSUME IInv, UNCHANGED vars PROVE IInv'
  OBVIOUS
<1>1. UNCHANGED <<block, class, freelist, local, ks, hs, work, token, chain, budget>>
  BY DEF vars
<1>2. TypeInv' /\ ShapeInv' /\ TokenInv' /\ ChainInv' /\ PinInv' /\ HandlerInv'
  BY <1>1 DEF IInv, TypeInv, ShapeInv, TokenInv, ChainInv, PinInv, HandlerInv
<1>3. \A b : IsMirror(b)' <=> IsMirror(b)
  BY <1>1 DEF IsMirror
<1>4. \A b, i : Released(b, i)' <=> Released(b, i)
  BY <1>1 DEF Released
<1>5. SortInv'
  BY <1>1, <1>4 DEF IInv, SortInv
<1>6. PoolInv'
  BY <1>1 DEF IInv, PoolInv
<1>7. \A a : Total(a)' = Total(a)
  <2> TAKE a
  <2>1. LocalCount(a)' = LocalCount(a) /\ ClauseCount(a)' = ClauseCount(a) /\ FramedCount(a)' = FramedCount(a)
        /\ MadeCount(a)' = MadeCount(a) /\ ShellCount(a)' = ShellCount(a)
    BY <1>1 DEF LocalCount, ClauseCount, FramedCount, MadeCount, ShellCount, Clauses, Framed
  <2>2. Held' = Held
    BY <1>1 DEF Held, HeldBy, IsMirror, Released
  <2>3. HeldCount(a)' = HeldCount(a)
    BY <2>2 DEF HeldCount
  <2> QED
    BY <2>1, <2>3 DEF Total, LocalCount, ClauseCount, FramedCount, MadeCount, HeldCount, ShellCount
<1>8. CountInv'
  BY <1>1, <1>7 DEF IInv, CountInv
<1> QED
  BY <1>2, <1>5, <1>6, <1>8 DEF IInv

\* Every step keeps the invariant.
LEMMA NextKeeps == IInv /\ Next => IInv'
<1> SUFFICES ASSUME IInv, Next PROVE IInv'
  OBVIOUS
<1>0. MaxFields \in Nat /\ \A k \in 1 .. MaxFields : k \in Nat /\ 1 .. k \subseteq Nat
  BY HeapAssumption
<1>1. CASE \E x, y \in Locals : Dup(x, y) \/ \E i \in 1 .. MaxFields : Project(x, i, y)
  BY <1>0, <1>1, KeepsDup, KeepsProject
<1>2. CASE \E x \in Locals : Drop(x) \/ ReuseTake(x) \/ Resume(x) \/ DispatchValue(x)
  BY <1>2, KeepsDrop, KeepsReuseTake, KeepsResume, KeepsDispatchValue
<1>3. CASE \E y \in Locals : Make("leaf", << >>, y)
  <2>1. PICK y \in Locals : Make("leaf", << >>, y)
    BY <1>3
  <2>2. PICK k, s, tag : k = 0 /\ s = << >> /\ tag = "leaf"
    OBVIOUS
  <2>3. k \in Nat /\ tag \in {"tuple", "con", "closure", "leaf"} /\ (tag = "leaf" => k = 0) /\ Make(tag, s, y)
    BY <2>1, <2>2
  <2>4. s \in Operands(k)
    <3>1. 1 .. 0 = {}
      OBVIOUS
    <3>2. << >> \in [1 .. 0 -> {x \in Own : local[x] # Nil} \cup {Nil}]
      BY <3>1
    <3> QED
      BY <2>2, <3>1, <3>2 DEF Operands
  <2> QED
    BY <2>3, <2>4, KeepsMake
<1>4. CASE \E k \in 1 .. MaxFields : \E s \in Operands(k), y \in Locals :
             \/ \E tag \in {"tuple", "con", "closure"} : Make(tag, s, y)
             \/ \E i \in 1 .. k : MakeRec(s, i, y)
             \/ ConReuse(s, y)
  <2>1. PICK k \in 1 .. MaxFields : \E s \in Operands(k), y \in Locals :
             \/ \E tag \in {"tuple", "con", "closure"} : Make(tag, s, y)
             \/ \E i \in 1 .. k : MakeRec(s, i, y)
             \/ ConReuse(s, y)
    BY <1>4
  <2>2. PICK s \in Operands(k), y \in Locals :
             \/ \E tag \in {"tuple", "con", "closure"} : Make(tag, s, y)
             \/ \E i \in 1 .. k : MakeRec(s, i, y)
             \/ ConReuse(s, y)
    BY <2>1
  <2>3. k \in Nat
    BY <1>0
  <2>4. CASE \E tag \in {"tuple", "con", "closure"} : Make(tag, s, y)
    <3>1. PICK tag \in {"tuple", "con", "closure"} : Make(tag, s, y)
      BY <2>4
    <3>2. tag \in {"tuple", "con", "closure", "leaf"} /\ (tag = "leaf" => k = 0)
      OBVIOUS
    <3> QED
      BY <2>3, <3>1, <3>2, KeepsMake
  <2>5. CASE \E i \in 1 .. k : MakeRec(s, i, y)
    BY <2>3, <2>5, KeepsMakeRec
  <2>6. CASE ConReuse(s, y)
    BY <2>3, <2>6, KeepsConReuse
  <2> QED
    BY <2>2, <2>4, <2>5, <2>6
<1>5. CASE \E b \in Addr : FreeWalk(b)
  BY <1>5, KeepsFreeWalk
<1>6. CASE ReleaseField \/ FreeToken \/ Return \/ CloneFrame
  BY <1>6, KeepsReleaseField, KeepsFreeToken, KeepsReturn, KeepsCloneFrame
<1>7. CASE \E k \in 0 .. MaxFields : \E s \in Operands(k) : Call(s)
  <2>1. PICK k \in 0 .. MaxFields : \E s \in Operands(k) : Call(s)
    BY <1>7
  <2>2. k \in Nat
    BY <1>0
  <2> QED
    BY <2>1, <2>2, KeepsCall
<1>8. CASE \E s \in Operands(2) : Handle(s)
  BY <1>8, KeepsHandle
<1>9. CASE \E p \in DOMAIN ks, y, z \in Locals : Capture(p, y, z)
  <2>1. DOMAIN ks = 1 .. Len(ks)
    BY DEF IInv, TypeInv
  <2> QED
    BY <1>9, <2>1, KeepsCapture
<1>10. CASE \E s \in Tuples(MaxFields) : RunChain(s) \/ ReenterFrame(s)
  <2>1. PICK s \in Tuples(MaxFields) : RunChain(s) \/ ReenterFrame(s)
    BY <1>10
  <2>2. s \in Seq(Locals)
    BY <1>0, TuplesAre
  <2> QED
    BY <2>1, <2>2, KeepsRunChain, KeepsReenterFrame
<1> QED
  BY <1>1, <1>2, <1>3, <1>4, <1>5, <1>6, <1>7, <1>8, <1>9, <1>10 DEF Next

\* Between any two steps of the runtime and of emitted code blocks have the
\* shape their tag asks for, every count is the number of owners, and the
\* continuation stack, the handler stack, the reuse token, a resumed chain and
\* the pool's free lists are consistent with each other.
THEOREM HeapInvariant == Spec => []IInv
<1>1. IInv /\ [Next]_vars => IInv'
  BY StutterKeeps, NextKeeps
<1> QED
  BY <1>1, InitHolds, PTL DEF Spec

----------------------------------------------------------------------------
(* The properties.                                                         *)

\* A block is there when it has a tag.
LEMMA LiveIs ==
  ASSUME IInv, NEW a \in Addr
  PROVE  Live(a) <=> block[a].tag # "none"
  BY DeadIs DEF IInv, ShapeInv, Shaped, Live

\* The slots that own, and what a block holds.
LEMMA SlotsAre ==
  ASSUME IInv, NEW a \in Addr, NEW b \in Addr, NEW i
  PROVE  i \in OwningSlots(b) /\ block[b].fields[i] = a <=> i \in 1 .. Len(HeldBy(b)) /\ HeldBy(b)[i] = a
<1>1. TypeInv /\ ShapeInv /\ PinInv /\ TokenInv
  BY DEF IInv
<1>2. PICK fs : fs = block[b].fields
  OBVIOUS
<1>3. /\ HeldBy(b) \in Seq(AN) /\ Len(HeldBy(b)) = Len(fs) /\ fs \in Seq(AN)
      /\ Len(fs) \in Nat /\ DOMAIN fs = 1 .. Len(fs)
  <2>1. HeldBy(b) \in Seq(AN) /\ Len(HeldBy(b)) = Len(fs) /\ fs \in Seq(AN)
    BY <1>1, <1>2, HeldTyped
  <2> QED
    BY <2>1
<1>4. a # Nil /\ b # Nil
  BY HeapAssumption
<1>5. i \in 1 .. Len(HeldBy(b)) /\ HeldBy(b)[i] = a
        <=> i \in 1 .. Len(fs) /\ fs[i] = a /\ ~IsMirror(b) /\ i # block[b].self /\ ~Released(b, i)
  BY <1>2, <1>3, <1>4 DEF HeldBy
<1>6. (\E k \in DOMAIN ks : ks[k].fr = b /\ Mirrors(ks[k])) <=> IsMirror(b)
  <2>1. DOMAIN ks = 1 .. Len(ks)
    BY <1>1 DEF TypeInv
  <2> QED
    BY <1>1, <2>1 DEF Mirrors, IsMirror, PinInv
<1>7. CASE block[b].tag = "none"
  <2>1. Len(fs) = 0 /\ ~Live(b)
    BY <1>1, <1>2, <1>7, DeadIs DEF ShapeInv, Shaped, Live
  <2>2. OwningSlots(b) = {}
    BY <2>1 DEF OwningSlots
  <2>3. i \notin 1 .. Len(fs)
    BY <2>1
  <2> QED
    BY <1>5, <2>2, <2>3
<1>8. CASE block[b].tag # "none" /\ IsMirror(b)
  <2>1. OwningSlots(b) = {}
    BY <1>6, <1>8 DEF OwningSlots
  <2> QED
    BY <1>5, <1>8, <2>1
<1>9. CASE block[b].tag # "none" /\ ~IsMirror(b) /\ token.shell = b
  <2>1. Live(b)
    BY <1>9, LiveIs
  <2>2. OwningSlots(b) = token.next .. Len(fs)
    BY <1>2, <1>6, <1>9, <2>1 DEF OwningSlots
  <2>3. token.next \in Nat /\ token.next >= 1 /\ block[b].tag = "con"
    BY <1>1, <1>4, <1>9 DEF TypeInv, TokenInv
  <2>4. block[b].self = 0
    BY <1>1, <2>3 DEF ShapeInv, Shaped
  <2>5. i \in 1 .. Len(fs) => (Released(b, i) <=> i < token.next)
    BY <1>9 DEF Released
  <2>6. i \in token.next .. Len(fs) <=> i \in 1 .. Len(fs) /\ ~Released(b, i) /\ i # block[b].self
    BY <1>3, <2>3, <2>4, <2>5
  <2> QED
    BY <1>2, <1>5, <1>9, <2>2, <2>6
<1>10. CASE block[b].tag # "none" /\ ~IsMirror(b) /\ token.shell # b
  <2>1. Live(b)
    BY <1>10, LiveIs
  <2>2. OwningSlots(b) = OwnedByTag(b) /\ ~Released(b, i)
    BY <1>6, <1>10, <2>1 DEF OwningSlots, Released
  <2>3. CASE block[b].tag = "leaf"
    <3>1. Len(fs) = 0
      BY <1>1, <1>2, <2>3 DEF ShapeInv, Shaped
    <3>2. i \notin 1 .. Len(fs)
      BY <3>1
    <3> QED
      BY <1>5, <2>2, <2>3, <3>2 DEF OwnedByTag
  <2>4. CASE block[b].tag # "leaf"
    <3>1. OwnedByTag(b) = 1 .. Len(fs) \ {block[b].self}
      BY <1>2, <1>3, <2>4 DEF OwnedByTag
    <3> QED
      BY <1>2, <1>5, <1>10, <2>2, <3>1
  <2> QED
    BY <2>3, <2>4
<1> QED
  BY <1>7, <1>8, <1>9, <1>10

\* The owners that the property counts are those of the invariant.
LEMMA OwnersAre ==
  ASSUME IInv, NEW a \in Addr
  PROVE  /\ Roots(a) \in Nat /\ Roots(a) + RefsFrom(Addr, a) \in Nat
         /\ Roots(a) + RefsFrom(Addr, a) + ShellCount(a) = Total(a) /\ Owners(a) = Total(a)
<1>1. TypeInv /\ AllCounted
  BY CountsAre DEF IInv
<1>2. Cardinality({x \in Locals : local[x] = a}) = LocalCount(a)
  BY DEF LocalCount, CountOf
<1>3. Cardinality({i \in DOMAIN hs : hs[i].clause = a}) = ClauseCount(a)
  <2>1. Clauses \in Seq(AN) /\ Len(Clauses) = Len(hs) /\ \A i \in 1 .. Len(hs) : Clauses[i] = hs[i].clause
    BY <1>1, SeqsTyped
  <2>2. DOMAIN hs = 1 .. Len(hs) /\ DOMAIN Clauses = 1 .. Len(hs)
    BY <1>1, <2>1 DEF TypeInv
  <2>3. {i \in DOMAIN hs : hs[i].clause = a} = {i \in DOMAIN Clauses : Clauses[i] = a}
    BY <2>1, <2>2
  <2> QED
    BY <2>3, Zenon DEF ClauseCount, CountIn
<1>4. Cardinality({i \in DOMAIN ks : ks[i].fr = a}) = FramedCount(a)
  <2>1. Framed \in Seq(Addr) /\ Len(Framed) = Len(ks) /\ \A i \in 1 .. Len(ks) : Framed[i] = ks[i].fr
    BY <1>1, SeqsTyped
  <2>2. DOMAIN ks = 1 .. Len(ks) /\ DOMAIN Framed = 1 .. Len(ks)
    BY <1>1, <2>1 DEF TypeInv
  <2>3. {i \in DOMAIN ks : ks[i].fr = a} = {i \in DOMAIN Framed : Framed[i] = a}
    BY <2>1, <2>2
  <2> QED
    BY <2>3, Zenon DEF FramedCount, CountIn
<1>5. CountIn(chain.made, a) = MadeCount(a)
  BY DEF MadeCount
<1>6. RefsFrom(Addr, a) = HeldCount(a)
  <2>1. PICK P, Q : /\ P = UNION {{<<b, i>> : i \in {j \in OwningSlots(b) : block[b].fields[j] = a}} : b \in Addr}
                    /\ Q = {p \in Slots(Held) : At(Held)[p] = a}
    OBVIOUS
  <2>2. Held \in [Addr -> Seq(AN)] /\ \A b \in Addr : Held[b] = HeldBy(b) /\ Len(HeldBy(b)) \in Nat
    BY <1>1, HeldTyped
  <2>3. ASSUME NEW p \in P PROVE p \in Q
    <3>1. PICK b \in Addr : p \in {<<b, i>> : i \in {j \in OwningSlots(b) : block[b].fields[j] = a}}
      BY <2>1, <2>3
    <3>2. PICK i \in {j \in OwningSlots(b) : block[b].fields[j] = a} : p = <<b, i>>
      BY <3>1
    <3>3. i \in 1 .. Len(HeldBy(b)) /\ HeldBy(b)[i] = a
      BY <3>2, SlotsAre
    <3>4. p \in Slots(Held) /\ p[1] = b /\ p[2] = i
      BY <2>2, <3>2, <3>3 DEF Slots
    <3>5. At(Held)[p] = HeldBy(b)[i]
      BY <2>2, <3>4 DEF At
    <3> QED
      BY <2>1, <3>3, <3>4, <3>5
  <2>4. ASSUME NEW p \in Q PROVE p \in P
    <3>1. p \in Slots(Held) /\ At(Held)[p] = a
      BY <2>1, <2>4
    <3>2. PICK b, i : b = p[1] /\ i = p[2]
      OBVIOUS
    <3>3. b \in Addr /\ p = <<b, i>> /\ i \in 1 .. Len(Held[b])
      BY <3>1, <3>2 DEF Slots
    <3>4. At(Held)[p] = Held[b][i]
      BY <3>1, <3>2 DEF At
    <3>5. i \in 1 .. Len(HeldBy(b)) /\ HeldBy(b)[i] = a
      BY <2>2, <3>1, <3>3, <3>4
    <3>6. i \in OwningSlots(b) /\ block[b].fields[i] = a
      BY <3>3, <3>5, SlotsAre
    <3> QED
      BY <2>1, <3>3, <3>6
  <2>5. P = Q
    BY <2>3, <2>4
  <2>6. RefsFrom(Addr, a) = Cardinality(P)
    BY <2>1, Zenon DEF RefsFrom
  <2>7. HeldCount(a) = Cardinality(Q)
    BY <2>1, Zenon DEF HeldCount, HeapCount, CountOf
  <2> QED
    BY <2>5, <2>6, <2>7
<1>7. Shell(a) = ShellCount(a)
  BY DEF Shell, ShellCount, OneIf
<1>8. CountsNow(a)
  BY <1>1 DEF AllCounted
<1>9. Roots(a) = LocalCount(a) + ClauseCount(a) + FramedCount(a) + MadeCount(a)
  BY <1>2, <1>3, <1>4, <1>5 DEF Roots
<1> QED
  BY <1>6, <1>7, <1>8, <1>9 DEF Owners, CountsNow

\* The count of a live block is always the number of references that own it
\* (jq_value.h:685): locals, fields that are no mirrors, the two stacks, the
\* reuse token, a resumed chain; or it is immortal.  The free walk's list holds
\* exactly the blocks whose count has reached zero (jq_rc.c:45).
THEOREM CountsStayExact == Spec => []CountsAreExact
<1>1. IInv => CountsAreExact
  <2> SUFFICES ASSUME IInv PROVE CountsAreExact
    OBVIOUS
  <2>1. TypeInv /\ ShapeInv /\ CountInv /\ AllCounted
    BY CountsAre DEF IInv
  <2>2. TypeOK
    <3>1. ASSUME NEW a \in Addr
          PROVE  /\ block[a].tag \in DOMAIN HeaderWords /\ block[a].rc \in 0 .. RcStatic
                 /\ Range(block[a].fields) \subseteq Addr \cup {Nil}
                 /\ block[a].self \in 0 .. Len(block[a].fields) /\ class[a] \in 0 .. PoolWords
      <4>1. block[a] \in Block /\ Shaped(block[a], a)
        BY <2>1 DEF TypeInv, ShapeInv
      <4>2. block[a].tag \in DOMAIN HeaderWords
        BY <4>1 DEF Block, HeaderWords, Tags
      <4>3. block[a].rc \in 0 .. RcStatic
        BY <4>1, RcStaticIs DEF Block, Shaped
      <4>4. Range(block[a].fields) \subseteq Addr \cup {Nil}
        <5>1. block[a].fields \in Seq(AN)
          BY <4>1 DEF Block
        <5>2. \A i \in DOMAIN block[a].fields : block[a].fields[i] \in AN
          BY <5>1
        <5> QED
          BY <5>2 DEF Range, AN
      <4>5. block[a].self \in 0 .. Len(block[a].fields)
        BY <4>1 DEF Shaped
      <4>6. class[a] \in 0 .. PoolWords
        BY <2>1 DEF TypeInv
      <4> QED
        BY <4>2, <4>3, <4>4, <4>5, <4>6
    <3>2. /\ \A n \in 1 .. PoolWords : freelist[n] \in Seq(Addr)
          /\ local \in [Locals -> Addr \cup {Nil}] /\ work \subseteq Addr
      BY <2>1 DEF TypeInv, AN
    <3>3. \A i \in DOMAIN ks : ks[i].fr \in Addr /\ ks[i].pins \in Seq(Locals)
      <4>1. DOMAIN ks = 1 .. Len(ks)
        BY <2>1 DEF TypeInv
      <4> QED
        BY <4>1, TopAlone
    <3> QED
      BY <3>1, <3>2, <3>3 DEF TypeOK
  <2>3. ASSUME NEW a \in Addr, Live(a) PROVE block[a].rc \in {Owners(a), RcStatic}
    BY <2>1, OwnersAre DEF CountInv, Exact
  <2>4. work = {a \in Addr : Live(a) /\ block[a].rc = 0}
    BY <2>1, LiveIs DEF CountInv
  <2> QED
    BY <2>2, <2>3, <2>4 DEF CountsAreExact
<1> QED
  BY <1>1, HeapInvariant, PTL

\* No program, free walk, capture or re-entry of a frame ever reaches a block
\* that was given back (jq_rc.c:45, jq_frames.c:199), and a pooled address is on
\* the free list of the size it was carved for (jq_alloc.c:56, 101).
THEOREM MemoryStaysSound == Spec => []MemoryIsSound
<1>1. IInv => MemoryIsSound
  <2> SUFFICES ASSUME IInv PROVE MemoryIsSound
    OBVIOUS
  <2>1. TypeInv /\ ShapeInv /\ PinInv /\ PoolInv
    BY DEF IInv
  <2>2. ASSUME NEW a \in Addr, ~Live(a) PROVE Owners(a) = 0
    <3>1. block[a] = Dead
      BY <2>2 DEF Live
    <3> QED
      BY <3>1, DeadUnowned, OwnersAre
  <2>3. ASSUME NEW i \in DOMAIN ks, ks[i].pins # << >>
        PROVE  block[ks[i].fr].fields = [j \in DOMAIN ks[i].pins |-> local[ks[i].pins[j]]]
    <3>1. i \in 1 .. Len(ks)
      BY <2>1 DEF TypeInv
    <3>2. PICK f, p : f = block[ks[i].fr].fields /\ p = ks[i].pins
      OBVIOUS
    <3>3. p \in Seq(Locals) /\ ks[i].fr \in Addr
      BY <3>1, <3>2, TopAlone
    <3>4. f \in Seq(AN)
      BY <2>1, <3>2, <3>3, HeldTyped
    <3>5. Len(f) = Len(p) /\ \A j \in 1 .. Len(p) : f[j] = local[p[j]]
      BY <2>1, <2>3, <3>1, <3>2 DEF PinInv
    <3>6. DOMAIN p = 1 .. Len(p) /\ f = [j \in 1 .. Len(f) |-> f[j]]
      BY <3>3, <3>4
    <3>7. f = [j \in DOMAIN p |-> local[p[j]]]
      BY <3>5, <3>6
    <3> QED
      BY <3>2, <3>7
  <2>4. \A a \in Addr : block[a].self # 0 => block[a].fields[block[a].self] = a
    BY <2>1 DEF ShapeInv, Shaped
  <2>5. NothingDangles
    BY <2>2, <2>3, <2>4 DEF NothingDangles
  <2>6. \A a \in Addr : Live(a) =>
           class[a] = IF block[a].pooled THEN Words(block[a].tag, Len(block[a].fields)) ELSE 0
    BY <2>1, LiveIs DEF PoolInv
  <2>7. ASSUME NEW n \in 1 .. PoolWords
        PROVE  /\ IsInjective(freelist[n])
               /\ Range(freelist[n]) = {a \in Addr : class[a] = n /\ ~Live(a)}
    <3>1. freelist[n] \in Seq(Addr)
      BY <2>1 DEF TypeInv
    <3>2. DOMAIN freelist[n] = 1 .. Len(freelist[n]) /\ \A i \in 1 .. Len(freelist[n]) : freelist[n][i] \in Addr
      BY <3>1
    <3>3. /\ \A i, j \in 1 .. Len(freelist[n]) : freelist[n][i] = freelist[n][j] => i = j
          /\ \A a \in Addr : (\E i \in 1 .. Len(freelist[n]) : freelist[n][i] = a)
                                <=> class[a] = n /\ block[a].tag = "none"
      BY <2>1 DEF PoolInv
    <3>4. IsInjective(freelist[n])
      BY <3>2, <3>3 DEF IsInjective
    <3>5. Range(freelist[n]) = {freelist[n][i] : i \in 1 .. Len(freelist[n])}
      BY <3>2 DEF Range
    <3>6. Range(freelist[n]) = {a \in Addr : class[a] = n /\ ~Live(a)}
      BY <3>2, <3>3, <3>5, LiveIs
    <3> QED
      BY <3>4, <3>6
  <2>8. PoolIsSound
    BY <2>6, <2>7 DEF PoolIsSound
  <2> QED
    BY <2>5, <2>8 DEF MemoryIsSound
<1> QED
  BY <1>1, HeapInvariant, PTL

----------------------------------------------------------------------------
(* What a step does to a block: counts apart, nothing, unless it is freed, *)
(* or made, in place of a token's shell perhaps, of values in use.         *)

\* Counting changes neither tag nor fields.
BlockParts == {"tag", "rc", "fields", "self", "pooled"}
Formed(bs) == DOMAIN bs = Addr /\ \A a \in Addr : DOMAIN bs[a] = BlockParts
Alike(cs, bs, a) == cs[a].tag = bs[a].tag /\ cs[a].fields = bs[a].fields /\ cs[a].self = bs[a].self
Free(a) == block[a] = Dead \/ token.shell = a
Fresh(b) == \A i \in 1 .. Len(b.fields) : i = b.self \/ b.fields[i] = Nil \/ ~Free(b.fields[i])

\* Blocks are records of the same parts.
LEMMA BlocksFormed == TypeInv => Formed(block)
<1> SUFFICES ASSUME TypeInv PROVE Formed(block)
  OBVIOUS
<1>1. DOMAIN block = Addr
  BY DEF TypeInv
<1>2. \A a \in Addr : block[a] \in Block
  BY DEF TypeInv
<1>3. \A b \in Block : DOMAIN b = BlockParts
  BY DEF Block, BlockParts
<1> QED
  BY <1>1, <1>2, <1>3 DEF Formed

\* Counting up changes neither tag nor fields,
LEMMA DupAlike ==
  ASSUME NEW bs, Formed(bs), NEW s
  PROVE  Formed(Duped(bs, s)) /\ \A a \in Addr : Alike(Duped(bs, s), bs, a)
<1>1. DOMAIN Duped(bs, s) = Addr
  BY DEF Duped
<1>2. ASSUME NEW a \in Addr PROVE DOMAIN Duped(bs, s)[a] = BlockParts /\ Alike(Duped(bs, s), bs, a)
  <2>1. DOMAIN bs[a] = BlockParts
    BY DEF Formed
  <2>2. CASE bs[a].rc = RcStatic
    BY <2>1, <2>2 DEF Duped, Alike
  <2>3. CASE bs[a].rc # RcStatic
    <3>1. PICK r : Duped(bs, s)[a] = [bs[a] EXCEPT !.rc = r]
      BY <2>3 DEF Duped
    <3> QED
      BY <2>1, <3>1 DEF BlockParts, Alike
  <2> QED
    BY <2>2, <2>3
<1> QED
  BY <1>1, <1>2 DEF Formed

\* nor does counting down.
LEMMA DropAlike ==
  ASSUME NEW bs, Formed(bs), NEW s
  PROVE  Formed(Dropped(bs, s)) /\ \A a \in Addr : Alike(Dropped(bs, s), bs, a)
<1>1. DOMAIN Dropped(bs, s) = Addr
  BY DEF Dropped
<1>2. ASSUME NEW a \in Addr PROVE DOMAIN Dropped(bs, s)[a] = BlockParts /\ Alike(Dropped(bs, s), bs, a)
  <2>1. DOMAIN bs[a] = BlockParts
    BY DEF Formed
  <2>2. CASE bs[a].rc = RcStatic
    BY <2>1, <2>2 DEF Dropped, Alike
  <2>3. CASE bs[a].rc # RcStatic
    <3>1. PICK r : Dropped(bs, s)[a] = [bs[a] EXCEPT !.rc = r]
      BY <2>3 DEF Dropped
    <3> QED
      BY <2>1, <3>1 DEF BlockParts, Alike
  <2> QED
    BY <2>2, <2>3
<1> QED
  BY <1>1, <1>2 DEF Formed

\* A block that is put somewhere leaves the others alike.
LEMMA PutAlike ==
  ASSUME NEW bs, Formed(bs), NEW d, NEW b, DOMAIN b = BlockParts, NEW cs, Grown(cs, bs, d, b)
  PROVE  Formed(cs) /\ \A a \in Addr : a # d => Alike(cs, bs, a)
<1>1. cs = [bs EXCEPT ![d] = b]
  BY DEF Grown
<1>2. DOMAIN cs = Addr
  BY <1>1 DEF Formed
<1>3. \A a \in Addr : cs[a] = IF a = d THEN b ELSE bs[a]
  BY <1>1 DEF Formed
<1> QED
  BY <1>2, <1>3 DEF Formed, Alike

\* Fresh blocks are blocks.
LEMMA NewBlockFormed ==
  /\ DOMAIN Dead = BlockParts
  /\ \A tag, fields, self : DOMAIN NewBlock(tag, fields, self) = BlockParts
  BY DEF Dead, NewBlock, BlockParts

\* A block that changes is new, gone, or the shell of a token.
Unseen(a) == block'[a] = Dead \/ Free(a)
Steady == \A a \in Addr : Alike(block', block, a) \/ block'[a] = Dead \/ (Free(a) /\ Fresh(block'[a]))

\* The allocator gives an address where nothing is.
LEMMA DeadAtNew ==
  ASSUME IInv, NEW tag \in Tags, NEW k \in Nat, NEW n, n = Words(tag, k), Alloc(n)
  PROVE  New(n) \in Addr /\ block[New(n)] = Dead
<1>1. TypeInv /\ ShapeInv /\ PoolInv
  BY DEF IInv
<1>2. n \in Nat
  BY DEF Words, HeaderWords, Tags
<1> QED
  BY <1>1, <1>2, NewIs

\* Filling a fresh address or the shell of the token changes nothing anybody
\* sees,
LEMMA PutSteady ==
  ASSUME IInv, NEW d, Free(d), NEW b, DOMAIN b = BlockParts, Fresh(b), NEW bs, Grown(bs, block, d, b),
         Formed(block'), \A a \in Addr : Alike(block', bs, a)
  PROVE  Steady
<1>1. Formed(block)
  BY BlocksFormed DEF IInv
<1>2. \A a \in Addr : a # d => Alike(bs, block, a)
  BY <1>1, PutAlike
<1>3. d \in Addr => Fresh(block'[d])
  <2>1. d \in Addr => bs[d] = b
    BY <1>1 DEF Grown, Formed
  <2> QED
    BY <2>1 DEF Alike, Fresh
<1> QED
  BY <1>2, <1>3 DEF Alike, Steady

\* nor does freeing a block,
LEMMA GoneSteady ==
  ASSUME NEW bs, Formed(bs), \A a \in Addr : Alike(bs, block, a), NEW d, Gone(block', bs, d)
  PROVE  Steady
<1>1. Grown(block', bs, d, Dead)
  BY DEF Gone, Grown
<1>2. \A a \in Addr : a # d => Alike(block', bs, a)
  BY <1>1, NewBlockFormed, PutAlike
<1>3. d \in Addr => block'[d] = Dead
  BY DEF Gone, Formed
<1> QED
  BY <1>2, <1>3 DEF Alike, Steady

\* nor leaving the blocks alike,
LEMMA CalmSteady == (\A a \in Addr : Alike(block', block, a)) => Steady
  BY DEF Steady

\* or as they are.
LEMMA SameSteady == UNCHANGED block => Steady
  BY DEF Steady, Alike

\* A block is put where nothing is, after the counts changed.
LEMMA PutOverSteady ==
  ASSUME NEW bs, Formed(bs), \A a \in Addr : Alike(bs, block, a), NEW d, Free(d),
         NEW b, DOMAIN b = BlockParts, Fresh(b), Grown(block', bs, d, b)
  PROVE  Steady
<1>1. \A a \in Addr : a # d => Alike(block', bs, a)
  BY PutAlike
<1>2. d \in Addr => block'[d] = b
  BY DEF Grown, Formed
<1> QED
  BY <1>1, <1>2 DEF Alike, Steady

\* Blocks are alike to themselves.
LEMMA BlockAlike == IInv => Formed(block) /\ \A a \in Addr : Alike(block, block, a)
  BY BlocksFormed DEF IInv, Alike

\* Values in use are neither free nor the shell.
LEMMA LocalsInUse ==
  ASSUME IInv, NEW x \in Locals, local[x] # Nil
  PROVE  local[x] \in Addr /\ ~Free(local[x])
<1>1. TypeInv /\ SortInv
  BY DEF IInv
<1>2. local[x] \in Addr
  BY <1>1 DEF TypeInv, AN
<1>3. block[local[x]] # Dead
  BY <1>1, <1>2, DeadIs DEF SortInv, IsValue, ValueTags
<1>4. token.shell # local[x]
  BY <1>2, ShellAlone
<1> QED
  BY <1>2, <1>3, <1>4 DEF Free

\* and a block made of them is fresh.
LEMMA OperandsFresh ==
  ASSUME IInv, NEW k \in Nat, NEW s \in Operands(k)
  PROVE  /\ Len(s) = k /\ Len(Values(s)) = k
         /\ \A i \in 1 .. k : Values(s)[i] = Nil \/ ~Free(Values(s)[i])
         /\ \A tag : Fresh(NewBlock(tag, Values(s), 0))
<1>1. TypeInv
  BY DEF IInv
<1>2. /\ Len(s) = k /\ Values(s) \in Seq(AN) /\ Len(Values(s)) = k
      /\ \A i \in 1 .. k : s[i] = Nil \/ (s[i] \in Locals /\ local[s[i]] # Nil)
      /\ \A i \in 1 .. k : Values(s)[i] = IF s[i] = Nil THEN Nil ELSE local[s[i]]
  BY <1>1, OperandsAre
<1>3. ASSUME NEW i \in 1 .. k PROVE Values(s)[i] = Nil \/ ~Free(Values(s)[i])
  BY <1>2, LocalsInUse
<1>4. ASSUME NEW tag PROVE Fresh(NewBlock(tag, Values(s), 0))
  <2>1. NewBlock(tag, Values(s), 0).fields = Values(s)
    BY DEF NewBlock
  <2> QED
    BY <1>2, <1>3, <2>1 DEF Fresh
<1> QED
  BY <1>2, <1>3, <1>4

\* Allocations.
LEMMA MakesSteady ==
  ASSUME IInv, NEW tag \in Tags, NEW k \in Nat, NEW n, n = Words(tag, k), Alloc(n),
         NEW b, DOMAIN b = BlockParts, Fresh(b), Grown(block', block, New(n), b)
  PROVE  Steady
<1>1. New(n) \in Addr /\ Free(New(n))
  BY DeadAtNew DEF Free
<1> QED
  BY <1>1, BlockAlike, PutOverSteady

\* The constructors make a fresh block.
LEMMA MakeSteady ==
  ASSUME IInv, NEW k \in Nat, NEW s \in Operands(k), NEW y,
         NEW tag \in {"tuple", "con", "closure", "leaf"}, Make(tag, s, y)
  PROVE  Steady
<1>1. PICK n, b : n = Words(tag, Len(s)) /\ b = NewBlock(tag, Values(s), 0)
  OBVIOUS
<1>2. Alloc(n) /\ block' = [block EXCEPT ![New(n)] = b]
  BY <1>1 DEF Make, Ask
<1>3. tag \in Tags /\ n = Words(tag, k) /\ DOMAIN b = BlockParts /\ Fresh(b)
  BY <1>1, NewBlockFormed, OperandsFresh DEF Tags
<1>4. Grown(block', block, New(n), b)
  BY <1>2 DEF Grown
<1> QED
  BY <1>2, <1>3, <1>4, MakesSteady

\* So does the let-rec closure.
LEMMA MakeRecSteady ==
  ASSUME IInv, NEW k \in Nat, NEW s \in Operands(k), NEW y, NEW i \in 1 .. k, MakeRec(s, i, y)
  PROVE  Steady
<1>1. PICK n, d : n = Words("closure", Len(s)) /\ d = New(n)
  OBVIOUS
<1>2. PICK b : b = NewBlock("closure", [Values(s) EXCEPT ![i] = d], i)
  OBVIOUS
<1>3. Alloc(n) /\ block' = [block EXCEPT ![d] = b]
  BY <1>1, <1>2 DEF MakeRec, Ask
<1>a. Len(s) = k /\ Len(Values(s)) = k /\ \A j \in 1 .. k : Values(s)[j] = Nil \/ ~Free(Values(s)[j])
  BY OperandsFresh
<1>4. "closure" \in Tags /\ n = Words("closure", k) /\ DOMAIN b = BlockParts
  BY <1>1, <1>2, <1>a, NewBlockFormed DEF Tags
<1>6. Fresh(b)
  <2>1. Values(s) \in Seq(AN)
    BY OperandsAre DEF IInv
  <2>2. b.fields = [Values(s) EXCEPT ![i] = d] /\ b.self = i
    BY <1>2 DEF NewBlock
  <2>3. Len(b.fields) = k /\ \A j \in 1 .. k : j = i \/ b.fields[j] = Values(s)[j]
    BY <1>a, <2>1, <2>2
  <2> QED
    BY <1>a, <2>2, <2>3 DEF Fresh
<1>5. Grown(block', block, New(n), b)
  BY <1>1, <1>3 DEF Grown
<1> QED
  BY <1>3, <1>4, <1>5, <1>6, MakesSteady

\* Reuse fills the shell, which only the token has.
LEMMA ConReuseSteady ==
  ASSUME IInv, NEW k \in Nat, NEW s \in Operands(k), NEW y, ConReuse(s, y)
  PROVE  Steady
<1>1. PICK n, con : n = Words("con", Len(s)) /\ con = NewBlock("con", Values(s), 0)
  OBVIOUS
<1>2. DOMAIN con = BlockParts /\ Fresh(con) /\ Len(s) = k
  BY <1>1, NewBlockFormed, OperandsFresh
<1>3. CASE token.shell = Nil
  <2>1. Alloc(n) /\ block' = [block EXCEPT ![New(n)] = con]
    BY <1>1, <1>3 DEF ConReuse, Ask
  <2>2. "con" \in Tags /\ n = Words("con", k)
    BY <1>1, <1>2 DEF Tags
  <2>3. Grown(block', block, New(n), con)
    BY <2>1 DEF Grown
  <2> QED
    BY <1>2, <2>1, <2>2, <2>3, MakesSteady
<1>4. CASE token.shell # Nil
  <2>1. PICK a, b : a = token.shell /\ b = [con EXCEPT !.pooled = block[a].pooled]
    OBVIOUS
  <2>2. block' = [block EXCEPT ![a] = b]
    BY <1>1, <1>4, <2>1 DEF ConReuse
  <2>3. DOMAIN b = BlockParts /\ Fresh(b)
    BY <1>2, <2>1 DEF BlockParts, Fresh
  <2>4. Grown(block', block, a, b) /\ Free(a)
    BY <2>1, <2>2 DEF Grown, Free
  <2> QED
    BY <2>3, <2>4, BlockAlike, PutOverSteady
<1> QED
  BY <1>3, <1>4

\* A call makes a fresh frame.
LEMMA CallSteady ==
  ASSUME IInv, NEW k \in Nat, NEW s \in Operands(k), Call(s)
  PROVE  Steady
<1>1. PICK n, b : n = Words("frame", Len(s)) /\ b = NewBlock("frame", Values(s), 0)
  OBVIOUS
<1>2. Alloc(n) /\ block' = [block EXCEPT ![New(n)] = b]
  BY <1>1 DEF Call, Ask
<1>3. "frame" \in Tags /\ n = Words("frame", k) /\ DOMAIN b = BlockParts /\ Fresh(b)
  BY <1>1, NewBlockFormed, OperandsFresh DEF Tags
<1>4. Grown(block', block, New(n), b)
  BY <1>2 DEF Grown
<1> QED
  BY <1>2, <1>3, <1>4, MakesSteady

\* A block with its fields dup'd.
LEMMA DupOverSteady ==
  ASSUME IInv, NEW tag \in Tags, NEW k \in Nat, NEW n, n = Words(tag, k), Alloc(n),
         NEW b, DOMAIN b = BlockParts, Fresh(b), NEW bs, Grown(bs, block, New(n), b), NEW s, block' = Duped(bs, s)
  PROVE  Steady
<1>1. New(n) \in Addr /\ Free(New(n))
  BY DeadAtNew DEF Free
<1>2. Formed(block)
  BY BlockAlike
<1>3. Formed(bs)
  BY <1>2, PutAlike
<1>4. Formed(block') /\ \A a \in Addr : Alike(block', bs, a)
  BY <1>3, DupAlike
<1> QED
  BY <1>1, <1>4, PutSteady

\* So does a handler.
LEMMA HandleSteady == ASSUME IInv, NEW s \in Operands(2), Handle(s) PROVE Steady
<1>1. PICK n, b : n = Words("handler", 2) /\ b = NewBlock("handler", Values(s), 0)
  OBVIOUS
<1>2. PICK bs, t : bs = [block EXCEPT ![New(n)] = b] /\ t = <<Values(s)[2]>>
  OBVIOUS
<1>3. Alloc(n) /\ block' = Duped(bs, t)
  BY <1>1, <1>2 DEF Handle, Ask
<1>4. "handler" \in Tags /\ 2 \in Nat /\ DOMAIN b = BlockParts /\ Fresh(b)
  BY <1>1, NewBlockFormed, OperandsFresh DEF Tags
<1>5. Grown(bs, block, New(n), b)
  BY <1>2 DEF Grown
<1> QED
  BY <1>1, <1>3, <1>4, <1>5, DupOverSteady

\* A clone is fresh, the frame it is of is only counted.
LEMMA CloneFrameSteady == ASSUME IInv, CloneFrame PROVE Steady
<1>1. TypeInv /\ SortInv /\ ChainInv /\ TokenInv
  BY DEF IInv
<1>2. PICK r, p : r = chain.of /\ p = Len(chain.made) + 1
  OBVIOUS
<1>3. PICK f : f = block[block[r].fields[p]]
  OBVIOUS
<1>4. PICK n, b : n = Words(f.tag, Len(f.fields)) /\ b = NewBlock(f.tag, f.fields, 0)
  OBVIOUS
<1>5. PICK bs : bs = [block EXCEPT ![New(n)] = b]
  OBVIOUS
<1>6. /\ r # Nil /\ Len(chain.made) < Len(block[r].fields)
      /\ Alloc(n) /\ block' = Duped(bs, f.fields)
  BY <1>2, <1>3, <1>4, <1>5 DEF CloneFrame
<1>7. r \in Addr /\ block[r].tag = "resume" /\ ~token.on /\ chain.made \in Seq(Addr)
  BY <1>1, <1>2, <1>6 DEF TypeInv, ChainInv, AN
<1>8. token.shell = Nil /\ token.shell # r
  BY <1>1, <1>6, <1>7 DEF TokenInv
<1>9. p \in 1 .. Len(block[r].fields)
  <2>1. block[r].fields \in Seq(AN)
    BY <1>1, <1>7, HeldTyped
  <2>2. Len(block[r].fields) \in Nat /\ Len(chain.made) \in Nat
    BY <1>7, <2>1
  <2> QED
    BY <1>2, <1>6, <2>2
<1>10. IsFrame(block, block[r].fields[p])
  BY <1>1, <1>7, <1>8, <1>9 DEF SortInv, Released
<1>11. f.tag \in Tags /\ f \in Block
  BY <1>1, <1>3, <1>10 DEF IsFrame, FrameTags, Tags, TypeInv
<1>12. Len(f.fields) \in Nat
  BY <1>11, SizeIs
<1>13. DOMAIN b = BlockParts /\ Fresh(b)
  <2>1. PICK a \in Addr : f = block[a] /\ f.tag \in FrameTags
    BY <1>3, <1>10 DEF IsFrame
  <2>2. \A i \in 1 .. Len(f.fields) : f.fields[i] = Nil \/ (f.fields[i] \in Addr /\ block[f.fields[i]].tag \in ValueTags)
    <3>1. f.fields \in Seq(AN)
      BY <1>11 DEF Block
    <3>2. ASSUME NEW i \in 1 .. Len(f.fields) PROVE IsValue(block, f.fields[i]) /\ f.fields[i] \in AN
      BY <1>1, <1>8, <2>1, <3>1, HeapAssumption DEF SortInv, Released, FrameTags
    <3> QED
      BY <3>2 DEF IsValue, AN
  <2>3. b.fields = f.fields
    BY <1>4 DEF NewBlock
  <2>4. \A i \in 1 .. Len(f.fields) : f.fields[i] = Nil \/ ~Free(f.fields[i])
    BY <1>8, <2>2, DeadIs, HeapAssumption DEF Free, ValueTags
  <2> QED
    BY <1>4, <2>3, <2>4, NewBlockFormed DEF Fresh
<1>14. Grown(bs, block, New(n), b)
  BY <1>5 DEF Grown
<1>15. PICK tag, k, s : tag = f.tag /\ k = Len(f.fields) /\ s = f.fields
  OBVIOUS
<1>16. tag \in Tags /\ k \in Nat /\ n = Words(tag, k) /\ block' = Duped(bs, s)
  BY <1>4, <1>6, <1>11, <1>12, <1>15
<1> QED
  BY <1>6, <1>13, <1>14, <1>16, DupOverSteady

\* A resumption is fresh, the frames it holds are as they were.
LEMMA CaptureSteady == ASSUME IInv, NEW p \in 1 .. Len(ks), NEW y, NEW z, Capture(p, y, z) PROVE Steady
<1>1. PICK at, slice, popped, left : Captured(p, y, z, at, slice, popped, left)
  BY CaptureIs
<1>2. PICK n, b : n = Words("resume", Len(slice)) /\ b = NewBlock("resume", slice, 0)
  OBVIOUS
<1>3. PICK t : t = <<hs[at].clause>>
  OBVIOUS
<1>4. Alloc(n) /\ block' = [Dropped(Duped(block, t), popped) EXCEPT ![New(n)] = b]
  BY <1>1, <1>2, <1>3 DEF Captured, Ask
<1>5. Len(slice) \in Nat /\ "resume" \in Tags
  <2>1. Len(ks) \in Nat
    BY DEF IInv, TypeInv
  <2> QED
    BY <1>1, <2>1 DEF Tags
<1>6. Free(New(n))
  <2>1. PICK k : k = Len(slice)
    OBVIOUS
  <2> QED
    BY <1>2, <1>4, <1>5, <2>1, DeadAtNew DEF Free
<1>7. Formed(Duped(block, t)) /\ \A a \in Addr : Alike(Duped(block, t), block, a)
  BY BlockAlike, DupAlike
<1>8. PICK bs : bs = Dropped(Duped(block, t), popped)
  OBVIOUS
<1>9. Formed(bs) /\ \A a \in Addr : Alike(bs, Duped(block, t), a)
  BY <1>7, <1>8, DropAlike
<1>10. \A a \in Addr : Alike(bs, block, a)
  BY <1>7, <1>9 DEF Alike
<1>11. DOMAIN b = BlockParts /\ Fresh(b)
  <2>1. b.fields = slice
    BY <1>2 DEF NewBlock
  <2>2. ASSUME NEW i \in 1 .. Len(slice) PROVE ~Free(slice[i])
    <3>1. Len(ks) \in Nat
      BY DEF IInv, TypeInv
    <3>2. PICK j \in 1 .. Len(ks) : slice[i] = ks[j].fr
      <4>0. slice = [l \in 1 .. Len(ks) - p + 1 |-> ks[p + l - 1].fr]
        BY ONLY <1>1 DEF Captured
      <4>1. Len(slice) = Len(ks) - p + 1
        <5>1. PICK m : m = Len(ks) - p + 1
          OBVIOUS
        <5>2. m \in Nat
          BY ONLY <3>1, <5>1, p \in 1 .. Len(ks)
        <5> QED
          BY ONLY <4>0, <5>1, <5>2
      <4>2. p + i - 1 \in 1 .. Len(ks)
        BY <3>1, <4>1
      <4> QED
        BY <4>0, <4>1, <4>2
    <3>3. slice[i] \in Addr /\ block[slice[i]].tag \in FrameTags
      BY <3>2, TopAlone
    <3>4. token.shell = Nil
      BY DEF Capture, Suspendable, IInv, TokenInv
    <3> QED
      BY <3>3, <3>4, DeadIs, HeapAssumption DEF Free, FrameTags
  <2> QED
    BY <1>2, <2>1, <2>2, NewBlockFormed DEF Fresh
<1>12. Grown(block', bs, New(n), b)
  BY <1>4, <1>8 DEF Grown
<1> QED
  BY <1>6, <1>9, <1>10, <1>11, <1>12, PutOverSteady

\* A handler that is done is freed.
LEMMA DispatchSteady == ASSUME IInv, NEW y, DispatchValue(y) PROVE Steady
<1>1. PICK f, t, u : f = <<TopFrame.fr>> /\ t = <<block[TopFrame.fr].fields[1]>> /\ u = <<hs[Len(hs)].clause>>
  OBVIOUS
<1>2. PICK b1, b2 : b1 = Dropped(block, u) /\ b2 = Duped(b1, t)
  OBVIOUS
<1>3. block' = Dropped(b2, f)
  BY <1>1, <1>2 DEF DispatchValue
<1>4. Formed(b1) /\ \A a \in Addr : Alike(b1, block, a)
  BY <1>2, BlockAlike, DropAlike
<1>5. Formed(b2) /\ \A a \in Addr : Alike(b2, b1, a)
  BY <1>2, <1>4, DupAlike
<1>6. \A a \in Addr : Alike(block', b2, a)
  BY <1>3, <1>5, DropAlike
<1>7. \A a \in Addr : Alike(block', block, a)
  BY <1>4, <1>5, <1>6 DEF Alike
<1> QED
  BY <1>7, CalmSteady

\* Freeing is steady,
LEMMA FreeSteady == ASSUME IInv, NEW d, Gone(block', block, d) PROVE Steady
  BY BlockAlike, GoneSteady

\* counting is,
LEMMA CountsSteady == ASSUME IInv, NEW s, block' = Duped(block, s) \/ block' = Dropped(block, s) PROVE Steady
<1>1. \A a \in Addr : Alike(block', block, a)
  BY BlockAlike, DupAlike, DropAlike
<1> QED
  BY <1>1, CalmSteady

\* the free walk is, which does both,
LEMMA FreeWalkSteady == ASSUME IInv, NEW b, FreeWalk(b) PROVE Steady
<1>1. PICK bs : bs = Dropped(block, Children(b))
  OBVIOUS
<1>2. Gone(block', bs, b)
  BY <1>1 DEF FreeWalk, Gone
<1>3. Formed(bs) /\ \A a \in Addr : Alike(bs, block, a)
  BY <1>1, BlockAlike, DropAlike
<1> QED
  BY <1>2, <1>3, GoneSteady

\* and pushing the clones is.
LEMMA RunChainSteady == ASSUME IInv, NEW s, RunChain(s) PROVE Steady
<1>1. PICK d, t : /\ d = chain.made[Len(chain.made)]
                  /\ t = [i \in DOMAIN HandlersOf(chain.made) |-> block[HandlersOf(chain.made)[i]].fields[2]]
  OBVIOUS
<1>2. PICK bs : bs = Duped(block, t)
  OBVIOUS
<1>3. block' = [bs EXCEPT ![d] = Dead] \/ block' = bs
  BY <1>1, <1>2 DEF RunChain
<1>4. Formed(bs) /\ \A a \in Addr : Alike(bs, block, a)
  BY <1>2, BlockAlike, DupAlike
<1>5. CASE block' = [bs EXCEPT ![d] = Dead]
  <2>1. Gone(block', bs, d)
    BY <1>5 DEF Gone
  <2> QED
    BY <1>4, <2>1, GoneSteady
<1>6. CASE block' = bs
  BY <1>4, <1>6, CalmSteady
<1> QED
  BY <1>3, <1>5, <1>6

\* Every step is steady.
LEMMA NextSteady == ASSUME IInv, Next PROVE Steady
<1>0. MaxFields \in Nat /\ \A k \in 0 .. MaxFields : k \in Nat
  BY HeapAssumption
<1>1. CASE \E x, y \in Locals : Dup(x, y) \/ \E i \in 1 .. MaxFields : Project(x, i, y)
  BY <1>1, CountsSteady DEF Dup, Project
<1>2. CASE \E x \in Locals : Drop(x) \/ ReuseTake(x) \/ Resume(x) \/ DispatchValue(x)
  <2>1. PICK x \in Locals : Drop(x) \/ ReuseTake(x) \/ Resume(x) \/ DispatchValue(x)
    BY <1>2
  <2>2. CASE Drop(x)
    BY <2>2, CountsSteady DEF Drop
  <2>3. CASE ReuseTake(x)
    BY <2>3, CountsSteady, SameSteady DEF ReuseTake
  <2>4. CASE Resume(x)
    BY <2>4, SameSteady DEF Resume
  <2>5. CASE DispatchValue(x)
    BY <2>5, DispatchSteady
  <2> QED
    BY <2>1, <2>2, <2>3, <2>4, <2>5
<1>3. CASE \E y \in Locals : Make("leaf", << >>, y)
  <2>1. PICK y \in Locals : Make("leaf", << >>, y)
    BY <1>3
  <2>2. PICK k, s, tag : k = 0 /\ s = << >> /\ tag = "leaf"
    OBVIOUS
  <2>3. k \in Nat /\ s \in Operands(k) /\ tag \in {"tuple", "con", "closure", "leaf"} /\ Make(tag, s, y)
    BY <2>1, <2>2, NoOperands
  <2> QED
    BY <2>3, MakeSteady
<1>4. CASE \E k \in 1 .. MaxFields : \E s \in Operands(k), y \in Locals :
             \/ \E tag \in {"tuple", "con", "closure"} : Make(tag, s, y)
             \/ \E i \in 1 .. k : MakeRec(s, i, y)
             \/ ConReuse(s, y)
  <2>1. PICK k \in 1 .. MaxFields : \E s \in Operands(k), y \in Locals :
             \/ \E tag \in {"tuple", "con", "closure"} : Make(tag, s, y)
             \/ \E i \in 1 .. k : MakeRec(s, i, y)
             \/ ConReuse(s, y)
    BY <1>4
  <2>2. PICK s \in Operands(k), y \in Locals :
             \/ \E tag \in {"tuple", "con", "closure"} : Make(tag, s, y)
             \/ \E i \in 1 .. k : MakeRec(s, i, y)
             \/ ConReuse(s, y)
    BY <2>1
  <2>3. k \in Nat
    BY <1>0
  <2>4. CASE \E tag \in {"tuple", "con", "closure"} : Make(tag, s, y)
    BY <2>3, <2>4, MakeSteady
  <2>5. CASE \E i \in 1 .. k : MakeRec(s, i, y)
    BY <2>3, <2>5, MakeRecSteady
  <2>6. CASE ConReuse(s, y)
    BY <2>3, <2>6, ConReuseSteady
  <2> QED
    BY <2>2, <2>4, <2>5, <2>6
<1>5. CASE \E b \in Addr : FreeWalk(b)
  BY <1>5, FreeWalkSteady
<1>6. CASE ReleaseField
  BY <1>6, CountsSteady DEF ReleaseField
<1>7. CASE FreeToken
  <2>1. CASE token.shell = Nil
    BY <1>7, <2>1, SameSteady DEF FreeToken
  <2>2. CASE token.shell # Nil
    <3>1. Gone(block', block, token.shell)
      BY <1>7, <2>2 DEF FreeToken, Gone
    <3> QED
      BY <3>1, FreeSteady
  <2> QED
    BY <2>1, <2>2
<1>8. CASE Return
  <2>1. Gone(block', block, TopFrame.fr)
    BY <1>8 DEF Return, Gone
  <2> QED
    BY <2>1, FreeSteady
<1>9. CASE CloneFrame
  BY <1>9, CloneFrameSteady
<1>10. CASE \E k \in 0 .. MaxFields : \E s \in Operands(k) : Call(s)
  BY <1>0, <1>10, CallSteady
<1>11. CASE \E s \in Operands(2) : Handle(s)
  BY <1>11, HandleSteady
<1>12. CASE \E p \in DOMAIN ks, y, z \in Locals : Capture(p, y, z)
  <2>1. DOMAIN ks = 1 .. Len(ks)
    BY DEF IInv, TypeInv
  <2> QED
    BY <1>12, <2>1, CaptureSteady
<1>13. CASE \E s \in Tuples(MaxFields) : RunChain(s) \/ ReenterFrame(s)
  <2>1. PICK s \in Tuples(MaxFields) : RunChain(s) \/ ReenterFrame(s)
    BY <1>13
  <2>2. CASE ReenterFrame(s)
    <3>1. Gone(block', block, TopFrame.fr)
      BY <2>2 DEF ReenterFrame, Gone
    <3> QED
      BY <3>1, FreeSteady
  <2> QED
    BY <2>1, <2>2, RunChainSteady
<1> QED
  BY <1>1, <1>2, <1>3, <1>4, <1>5, <1>6, <1>7, <1>8, <1>9, <1>10, <1>11, <1>12, <1>13 DEF Next

\* Who is seen has an owner besides a token.
Hidden(a) == Free(a) => ~Visible(a)
AllHidden == \A a \in Addr : Hidden(a)

\* What is not there, and the shell, which only the token has, are out of
\* sight,
LEMMA HiddenNow == IInv => AllHidden
<1> SUFFICES ASSUME IInv, NEW a \in Addr, block[a] = Dead \/ token.shell = a PROVE ~Visible(a)
  BY DEF AllHidden, Hidden, Free
<1>1. TypeInv /\ CountsNow(a)
  BY CountsAre DEF IInv, AllCounted
<1>2. PICK n : n = Roots(a) + RefsFrom(Addr, a)
  OBVIOUS
<1>a. n \in Nat /\ n + ShellCount(a) = Total(a)
  BY ONLY <1>2, IInv, a \in Addr, OwnersAre
<1>3. n = 0
  <2>1. CASE block[a] = Dead
    <3>1. Total(a) = 0
      BY <2>1, DeadUnowned
    <3>2. Owners(a) = 0 /\ Shell(a) = ShellCount(a)
      BY <3>1, OwnersAre DEF Shell, ShellCount, OneIf
    <3>3. ShellCount(a) = 0
      BY <1>1, <3>1, PartsOfTotal DEF CountsNow
    <3> QED
      BY ONLY <1>a, <3>1, <3>3
  <2>2. CASE token.shell = a
    <3>1. ShellCount(a) = 1 /\ Total(a) = 1
      BY <2>2, ShellAlone, HeapAssumption DEF Alone
    <3> QED
      BY ONLY <1>a, <3>1
  <2> QED
    BY <2>1, <2>2
<1>4. ~(Roots(a) + RefsFrom(Addr, a) > 0)
  BY ONLY <1>2, <1>3
<1> QED
  BY <1>4 DEF Visible

\* and after a step.
LEMMA HiddenPrime == IInv' => AllHidden'
  BY HiddenNow, PTL

\* In-place reuse of a constructor's shell, patching a recursive closure and
\* moving mirrors into a captured frame write only to blocks that nobody can
\* see before or nobody after the step (jq_rc.c:96, jq_alloc.c:241).
THEOREM SharedStaysUnchanged == Spec => SharedIsUnchanged
<1>1. IInv /\ IInv' /\ [Next]_vars =>
        [\A a \in Addr : block'[a].fields # block[a].fields \/ block'[a].tag # block[a].tag
                            => ~(Visible(a) /\ Visible(a)')]_vars
  <2> SUFFICES ASSUME IInv, IInv', Next, NEW a \in Addr,
                      block'[a].fields # block[a].fields \/ block'[a].tag # block[a].tag
               PROVE  ~(Visible(a) /\ Visible(a)')
    OBVIOUS
  <2>1. Unseen(a)
    BY NextSteady DEF Steady, Alike, Unseen
  <2>2. Hidden(a) /\ Hidden(a)'
    BY HiddenNow, HiddenPrime DEF AllHidden
  <2> QED
    BY <2>1, <2>2 DEF Unseen, Free, Hidden
<1> QED
  BY <1>1, HeapInvariant, PTL DEF Spec, SharedIsUnchanged

----------------------------------------------------------------------------
(* Nothing leaks: no blocks own each other in a circle.                    *)

\* Who owns a reference to a, and: every set of blocks has a member that none of
\* the set owns.
Owns(b, a) ==
  /\ ~IsMirror(b)
  /\ \E i \in 1 .. Len(block[b].fields) : block[b].fields[i] = a /\ i # block[b].self /\ ~Released(b, i)
Acyclic == \A S \in SUBSET Addr : S # {} => \E a \in S : \A b \in S : ~Owns(b, a)

\* What a step may let a block own that it did not own: a new block or the
\* shell owns values in use; the blocks of F, which nobody owned, others.
MayHold(F, b, a) == Owns(b, a) \/ (Free(b) /\ ~Free(a)) \/ (b \in F /\ a \notin F /\ ~Free(a))
Grows(F) == \A a, b \in Addr : Owns(b, a)' => MayHold(F, b, a)
Unheld(a) == \A b \in Addr : ~Owns(b, a)

\* Who is counted in no block is owned by none:
LEMMA CountedOut ==
  ASSUME IInv, NEW a \in Addr, \A b \in Addr : CountIn(HeldBy(b), a) = 0
  PROVE  Unheld(a)
<1> SUFFICES ASSUME NEW b \in Addr, Owns(b, a) PROVE FALSE
  BY DEF Unheld
<1>1. TypeInv
  BY DEF IInv
<1>2. /\ HeldBy(b) \in Seq(AN) /\ Len(HeldBy(b)) = Len(block[b].fields)
  BY <1>1, HeldTyped
<1>3. PICK i \in 1 .. Len(block[b].fields) : block[b].fields[i] = a /\ i # block[b].self /\ ~Released(b, i)
  BY DEF Owns
<1>4. HeldBy(b)[i] = a
  BY <1>3 DEF Owns, HeldBy
<1>5. PICK s : s = HeldBy(b)
  OBVIOUS
<1>6. s \in Seq(AN) /\ i \in 1 .. Len(s) /\ s[i] = a /\ CountIn(s, a) = 0
  BY <1>2, <1>4, <1>5
<1> QED
  BY <1>6, CountInIs

\* a free address, the shell of a token,
LEMMA FreeUnheld == ASSUME IInv, NEW a \in Addr, Free(a) PROVE Unheld(a)
<1>1. CASE block[a] = Dead
  <2>1. Unowned(a)
    BY <1>1, DeadUnowned
  <2> QED
    BY <2>1 DEF Unowned, Unheld, Owns
<1>2. CASE token.shell = a
  <2>1. token.shell # Nil
    BY <1>2, HeapAssumption
  <2> QED
    BY <1>2, <2>1, ShellAlone, CountedOut
<1> QED
  BY <1>1, <1>2 DEF Free

\* and a frame on the frame stack.
LEMMA FramedUnheld == ASSUME IInv, NEW i \in 1 .. Len(ks) PROVE ks[i].fr \in Addr /\ Unheld(ks[i].fr)
<1>1. PICK a : a = ks[i].fr
  OBVIOUS
<1>2. a \in Addr /\ Alone(a) /\ FramedCount(a) = 1 /\ TypeInv
  BY <1>1, TopAlone DEF IInv
<1>3. HeldCount(a) = 0
  BY <1>2, OnlyOne
<1>4. \A b \in Addr : CountIn(HeldBy(b), a) \in Nat /\ CountIn(HeldBy(b), a) <= HeldCount(a)
  BY <1>2, CountsTyped
<1>5. \A b \in Addr : CountIn(HeldBy(b), a) = 0
  BY ONLY <1>3, <1>4
<1> QED
  BY <1>1, <1>2, <1>5, CountedOut

\* New owners close no circle.
LEMMA GrowAcyclic ==
  ASSUME IInv, Acyclic, NEW F, F \subseteq Addr, \A f \in F : Unheld(f), Grows(F)
  PROVE  Acyclic'
<1>1. \A S : \A a \in S, b \in S : S \subseteq Addr /\ Owns(b, a)' => MayHold(F, b, a)
  BY DEF Grows
<1>2. ASSUME NEW S \in SUBSET Addr, S # {} PROVE \E a \in S : \A b \in S : ~Owns(b, a)'
  <2>1. CASE \E x \in S : Free(x)
    <3>1. PICK x \in S : Free(x)
      BY <2>1
    <3>2. Unheld(x)
      BY <3>1, FreeUnheld
    <3> QED
      BY <1>1, <3>1, <3>2 DEF MayHold, Unheld
  <2>2. CASE (\A x \in S : ~Free(x)) /\ \E x \in S : x \in F
    <3>1. PICK x \in S : x \in F
      BY <2>2
    <3> QED
      BY <1>1, <2>2, <3>1 DEF MayHold, Unheld
  <2>3. CASE \A x \in S : ~Free(x) /\ x \notin F
    <3>1. PICK a \in S : \A b \in S : ~Owns(b, a)
      BY <1>2 DEF Acyclic
    <3> QED
      BY <1>1, <2>3, <3>1 DEF MayHold
  <2> QED
    BY <2>1, <2>2, <2>3
<1> QED
  BY <1>2 DEF Acyclic

\* A block goes on giving up what it gave up.
Kept(b) == (IsMirror(b) => IsMirror(b)') /\ \A i \in Nat : Released(b, i) => Released(b, i)'
KeptOn == \A b \in Addr : Kept(b) \/ block'[b] = Dead \/ (Free(b) /\ Fresh(block'[b]))

\* A new block owns values in use,
LEMMA FreshGrows ==
  ASSUME NEW F, NEW b \in Addr, Free(b), Fresh(block'[b]), NEW a \in Addr, Owns(b, a)'
  PROVE  MayHold(F, b, a)
<1>1. PICK i \in 1 .. Len(block'[b].fields) : block'[b].fields[i] = a /\ i # block'[b].self
  BY DEF Owns
<1> QED
  BY <1>1, HeapAssumption DEF Fresh, MayHold

\* one that is as it was owns no more than before,
LEMMA KeptGrows ==
  ASSUME IInv, NEW F, NEW b \in Addr, Alike(block', block, b), Kept(b), NEW a \in Addr, Owns(b, a)'
  PROVE  MayHold(F, b, a)
<1>1. PICK i \in 1 .. Len(block'[b].fields) : block'[b].fields[i] = a /\ i # block'[b].self /\ ~Released(b, i)'
  BY DEF Owns
<1>2. ~IsMirror(b)'
  BY DEF Owns
<1>3. block'[b].fields = block[b].fields /\ block'[b].self = block[b].self
  BY DEF Alike
<1>4. i \in Nat
  <2>1. Len(block[b].fields) \in Nat
    BY DEF IInv, TypeInv, Block
  <2> QED
    BY <1>1, <1>3, <2>1
<1>5. ~IsMirror(b) /\ ~Released(b, i)
  BY <1>1, <1>2, <1>4 DEF Kept
<1>6. Owns(b, a)
  BY <1>1, <1>3, <1>5 DEF Owns
<1> QED
  BY <1>6 DEF MayHold

\* a freed one nothing.
LEMMA DeadGrows ==
  ASSUME NEW b \in Addr, block'[b] = Dead, NEW a
  PROVE  ~Owns(b, a)'
<1>1. 1 .. Len(block'[b].fields) = {}
  BY DeadIs
<1> QED
  BY <1>1 DEF Owns

\* So a step that takes no mirror off the stack closes no circle.
LEMMA KeptAcyclic == ASSUME IInv, Acyclic, Steady, KeptOn PROVE Acyclic'
<1>1. ASSUME NEW a \in Addr, NEW b \in Addr, Owns(b, a)' PROVE MayHold({}, b, a)
  BY <1>1, DeadGrows, FreshGrows, KeptGrows DEF Steady, KeptOn
<1>2. Grows({})
  BY <1>1 DEF Grows
<1> QED
  BY <1>2, GrowAcyclic

\* A capture does, but only the resumption reaches the frames.
LEMMA CaptureAcyclic ==
  ASSUME IInv, Acyclic, NEW p \in 1 .. Len(ks), NEW y, NEW z, Capture(p, y, z)
  PROVE  Acyclic'
<1>1. PICK F : F = {f \in Addr : \E i \in p .. Len(ks) : ks[i].fr = f}
  OBVIOUS
<1>a. TypeInv /\ SortInv /\ TokenInv
  BY DEF IInv
<1>b. ~token.on
  BY DEF Capture, Suspendable
<1>2. TypeInv /\ SortInv /\ Len(ks) \in Nat /\ token.shell = Nil
  BY <1>a, <1>b DEF TypeInv, TokenInv
<1>3. \A f \in F : Unheld(f) /\ block[f].tag \in FrameTags
  <2>1. SUFFICES ASSUME NEW f \in F PROVE Unheld(f) /\ block[f].tag \in FrameTags
    OBVIOUS
  <2>2. PICK i \in p .. Len(ks) : ks[i].fr = f
    BY <1>1
  <2>3. i \in 1 .. Len(ks)
    BY <1>2, <2>2
  <2> QED
    BY <2>2, <2>3, FramedUnheld, TopAlone
<1>4. Steady
  BY CaptureSteady
<1>5. ASSUME NEW b \in Addr, b \notin F PROVE Kept(b)
  <2>1. token' = token /\ ks' = SubSeq(ks, 1, p - 1)
    BY DEF Capture
  <2>2. IsMirror(b) => IsMirror(b)'
    <3>1. SUFFICES ASSUME IsMirror(b) PROVE IsMirror(b)'
      OBVIOUS
    <3>2. PICK i \in 1 .. Len(ks) : ks[i].fr = b /\ ks[i].pins # << >>
      BY <3>1 DEF IsMirror
    <3>3. i < p
      BY <1>1, <1>2, <1>5, <3>2
    <3>4. Len(ks') = p - 1 /\ ks'[i] = ks[i] /\ i \in 1 .. p - 1
      BY <1>2, <2>1, <3>2, <3>3 DEF TypeInv
    <3> QED
      BY <3>2, <3>4 DEF IsMirror
  <2> QED
    BY <2>1, <2>2 DEF Kept, Released
<1>6. ASSUME NEW a \in Addr, NEW b \in Addr, Owns(b, a)' PROVE MayHold(F, b, a)
  <2>1. CASE b \in F /\ Alike(block', block, b)
    <3>1. PICK i \in 1 .. Len(block'[b].fields) : block'[b].fields[i] = a
      BY <1>6 DEF Owns
    <3>2. i \in 1 .. Len(block[b].fields) /\ block[b].fields[i] = a /\ block[b].tag # "resume"
      BY <1>3, <2>1, <3>1 DEF Alike, FrameTags
    <3>3. ~Released(b, i)
      BY <1>2, HeapAssumption DEF Released
    <3>4. block[a].tag \in ValueTags
      BY <1>2, <3>2, <3>3, HeapAssumption DEF SortInv, IsValue
    <3>5. a \notin F
      BY <1>3, <3>4 DEF FrameTags, ValueTags
    <3>6. ~Free(a)
      BY <1>2, <3>4, DeadIs, HeapAssumption DEF Free, ValueTags
    <3> QED
      BY <2>1, <3>5, <3>6 DEF MayHold
  <2>2. CASE b \notin F /\ Alike(block', block, b)
    BY <1>5, <1>6, <2>2, KeptGrows
  <2>3. CASE ~Alike(block', block, b)
    BY <1>4, <1>6, <2>3, DeadGrows, FreshGrows DEF Steady
  <2> QED
    BY <2>1, <2>2, <2>3
<1>7. Grows(F)
  BY <1>6 DEF Grows
<1> QED
  BY <1>1, <1>3, <1>7, GrowAcyclic

\* Mirrors and released fields stay: when neither the stack nor the token
\* changes,
LEMMA SameKept == ASSUME UNCHANGED <<ks, token>> PROVE KeptOn
  BY DEF KeptOn, Kept, IsMirror, Released

\* when frames join the stack,
LEMMA JoinKept ==
  ASSUME TypeInv, NEW t \in Seq([fr : Addr, pins : Seq(Locals)]), ks' = ks \o t, token' = token
  PROVE  KeptOn
<1> SUFFICES ASSUME NEW b \in Addr, IsMirror(b) PROVE IsMirror(b)'
  BY DEF KeptOn, Kept, Released
<1>1. PICK i \in 1 .. Len(ks) : ks[i].fr = b /\ ks[i].pins # << >>
  BY DEF IsMirror
<1>2. ks \in Seq([fr : Addr, pins : Seq(Locals)])
  BY DEF TypeInv
<1>3. Len(ks') = Len(ks) + Len(t) /\ ks'[i] = ks[i] /\ Len(ks) \in Nat /\ Len(t) \in Nat
  BY <1>1, <1>2, ConcatProperties
<1>4. i \in 1 .. Len(ks')
  BY <1>1, <1>3
<1> QED
  BY <1>1, <1>3, <1>4 DEF IsMirror

\* when one leaves that is freed or pins nothing,
LEMMA PopKept ==
  ASSUME IInv, ks # << >>, KsPop, token' = token, block'[TopFrame.fr] = Dead \/ TopFrame.pins = << >>
  PROVE  KeptOn
<1> SUFFICES ASSUME NEW b \in Addr, block'[b] # Dead, IsMirror(b) PROVE IsMirror(b)'
  BY DEF KeptOn, Kept, Released
<1>1. PICK i \in 1 .. Len(ks) : ks[i].fr = b /\ ks[i].pins # << >>
  BY DEF IsMirror
<1>2. ks \in Seq([fr : Addr, pins : Seq(Locals)])
  BY DEF IInv, TypeInv
<1>3. i # Len(ks)
  BY <1>1 DEF TopFrame
<1>4. ks' = SubSeq(ks, 1, Len(ks) - 1) /\ Len(ks) \in Nat
  BY <1>2 DEF KsPop
<1>5. i \in 1 .. Len(ks) - 1
  BY <1>1, <1>3, <1>4
<1>6. Len(ks') = Len(ks) - 1 /\ ks'[i] = ks[i]
  BY <1>2, <1>4, <1>5
<1> QED
  BY <1>1, <1>5, <1>6 DEF IsMirror

\* while there is no token,
LEMMA TokenNil == ASSUME IInv, ~token.on PROVE token.shell = Nil
  BY DEF IInv, TokenInv

\* whatever the token does then,
LEMMA NilKept == ASSUME token.shell = Nil, ks' = ks PROVE KeptOn
  BY HeapAssumption DEF KeptOn, Kept, IsMirror, Released

\* when the shell is refilled,
LEMMA ConReuseKept ==
  ASSUME IInv, NEW k \in Nat, NEW s \in Operands(k), NEW y, ConReuse(s, y)
  PROVE  KeptOn
<1>1. ks' = ks
  BY DEF ConReuse
<1>2. CASE token.shell = Nil
  BY <1>1, <1>2, NilKept
<1>3. CASE token.shell # Nil
  <2>1. PICK con, a : con = NewBlock("con", Values(s), 0) /\ a = token.shell
    OBVIOUS
  <2>2. Fresh(con) /\ DOMAIN con = BlockParts
    BY <2>1, OperandsFresh, NewBlockFormed
  <2>3. PICK b : b = [con EXCEPT !.pooled = block[a].pooled]
    OBVIOUS
  <2>4. block' = [block EXCEPT ![a] = b]
    BY <1>3, <2>1, <2>3 DEF ConReuse
  <2>5. Fresh(b)
    BY <2>2, <2>3 DEF BlockParts, Fresh
  <2>6. a \in Addr /\ Free(a)
    BY <1>3, <2>1, ShellAlone DEF Free
  <2>7. block'[a] = b
    BY <2>4, <2>6 DEF IInv, TypeInv
  <2>8. \A c \in Addr : c # a => Kept(c)
    BY <1>1, <2>1 DEF Kept, IsMirror, Released
  <2> QED
    BY <2>5, <2>6, <2>7, <2>8 DEF KeptOn
<1> QED
  BY <1>2, <1>3

\* when one more field is released,
LEMMA ReleaseKept == ASSUME IInv, ReleaseField PROVE KeptOn
<1>1. ks' = ks /\ token' = [token EXCEPT !.next = @ + 1]
  BY DEF ReleaseField
<1>2. token'.shell = token.shell /\ token'.next = token.next + 1 /\ token.next \in Nat
  BY <1>1 DEF IInv, TypeInv
<1>3. \A i \in Nat : i < token.next => i < token'.next
  BY <1>2
<1> QED
  BY <1>1, <1>2, <1>3 DEF KeptOn, Kept, IsMirror, Released

\* when the shell is freed,
LEMMA FreeTokenKept == ASSUME IInv, FreeToken PROVE KeptOn
<1>1. ks' = ks
  BY DEF FreeToken
<1>2. CASE token.shell = Nil
  BY <1>1, <1>2, NilKept
<1>3. CASE token.shell # Nil
  <2>1. block'[token.shell] = Dead
    BY <1>3, ShellAlone DEF FreeToken, IInv, TypeInv
  <2>2. \A c \in Addr : c # token.shell => Kept(c)
    BY <1>1 DEF Kept, IsMirror, Released
  <2> QED
    BY <2>1, <2>2 DEF KeptOn
<1> QED
  BY <1>2, <1>3

\* when a frame is pushed,
LEMMA PushKept ==
  ASSUME TypeInv, NEW a \in Addr, NEW s \in Seq(Locals), ks' = Append(ks, [fr |-> a, pins |-> s]), token' = token
  PROVE  KeptOn
<1>1. PICK t : t = <<[fr |-> a, pins |-> s]>>
  OBVIOUS
<1>2. t \in Seq([fr : Addr, pins : Seq(Locals)]) /\ ks \in Seq([fr : Addr, pins : Seq(Locals)])
  BY <1>1 DEF TypeInv
<1>3. ks' = ks \o t
  BY <1>1, <1>2
<1> QED
  BY <1>2, <1>3, JoinKept

\* by a call
LEMMA CallKept == ASSUME IInv, NEW k \in Nat, NEW s \in Operands(k), Call(s) PROVE KeptOn
<1>1. PICK n : n = Words("frame", Len(s))
  OBVIOUS
<1>2. /\ Nil \notin Range(s) /\ Alloc(n) /\ token' = token /\ ks' = Append(ks, [fr |-> New(n), pins |-> s])
  BY <1>1 DEF Call, Ask
<1>3. DOMAIN s = 1 .. k /\ Len(s) = k /\ \A i \in 1 .. k : s[i] = Nil \/ s[i] \in Locals
  BY OperandsAre DEF IInv
<1>4. s \in [1 .. k -> Locals]
  <2>1. \A i \in 1 .. k : s[i] # Nil
    BY <1>2, <1>3 DEF Range
  <2>2. s \in [1 .. k -> Own \cup {Nil}]
    BY OperandsAre DEF IInv
  <2> QED
    BY <1>3, <2>1, <2>2
<1>5. s \in Seq(Locals)
  BY <1>4
<1>6. New(n) \in Addr
  <2>1. "frame" \in Tags
    BY DEF Tags
  <2> QED
    BY <1>1, <1>2, <1>3, <2>1, DeadAtNew
<1>7. TypeInv
  BY DEF IInv
<1> QED
  BY <1>2, <1>5, <1>6, <1>7, PushKept

\* or a handler,
LEMMA HandleKept == ASSUME IInv, NEW s, Handle(s) PROVE KeptOn
<1>1. PICK n : n = Words("handler", 2)
  OBVIOUS
<1>2. Alloc(n) /\ token' = token /\ ks' = Append(ks, [fr |-> New(n), pins |-> << >>])
  BY <1>1 DEF Handle, Ask
<1>3. "handler" \in Tags /\ 2 \in Nat
  BY DEF Tags
<1>4. New(n) \in Addr
  BY <1>1, <1>2, <1>3, DeadAtNew
<1>5. TypeInv /\ << >> \in Seq(Locals)
  BY DEF IInv
<1> QED
  BY <1>2, <1>4, <1>5, PushKept

\* when a chain is pushed,
LEMMA RunChainKept == ASSUME IInv, NEW s, RunChain(s) PROVE KeptOn
<1>1. PICK m, joining : /\ m = chain.made
                        /\ joining = IF block[m[Len(m)]].tag = "frame" THEN SubSeq(m, 1, Len(m) - 1) ELSE m
  OBVIOUS
<1>2. PICK t : t = [i \in 1 .. Len(joining) |-> [fr |-> joining[i], pins |-> << >>]]
  OBVIOUS
<1>3. m \in Seq(Addr)
  BY <1>1 DEF IInv, TypeInv
<1>4. joining \in Seq(Addr)
  <2>1. SubSeq(m, 1, Len(m) - 1) \in Seq(Addr)
    BY <1>3
  <2> QED
    BY <1>1, <1>3, <2>1
<1>5. t \in Seq([fr : Addr, pins : Seq(Locals)]) /\ DOMAIN joining = 1 .. Len(joining)
  <2>1. Len(joining) \in Nat /\ \A i \in 1 .. Len(joining) : joining[i] \in Addr
    BY <1>4
  <2>2. << >> \in Seq(Locals)
    OBVIOUS
  <2> QED
    BY <1>2, <1>4, <2>1, <2>2
<1>6. ks' = ks \o t /\ token' = token
  BY <1>1, <1>2, <1>5 DEF RunChain
<1> QED
  BY <1>5, <1>6, JoinKept DEF IInv

\* when a handler leaves
LEMMA DispatchKept == ASSUME IInv, NEW y, DispatchValue(y) PROVE KeptOn
<1>1. /\ ks # << >> /\ block[TopFrame.fr].tag = "handler" /\ KsPop /\ token' = token
  BY DEF DispatchValue
<1>2. Len(ks) \in 1 .. Len(ks)
  BY <1>1 DEF IInv, TypeInv
<1>3. TopFrame.pins = << >>
  BY <1>1, <1>2 DEF TopFrame, IInv, PinInv
<1> QED
  BY <1>1, <1>3, PopKept

\* or an activation does.
LEMMA ReturnKept == ASSUME IInv, Return \/ \E s : ReenterFrame(s) PROVE KeptOn
<1>1. /\ ks # << >> /\ KsPop /\ token' = token /\ block' = [block EXCEPT ![TopFrame.fr] = Dead]
  BY DEF Return, ReenterFrame
<1>2. Len(ks) \in 1 .. Len(ks)
  BY <1>1 DEF IInv, TypeInv
<1>3. block'[TopFrame.fr] = Dead
  BY <1>1, <1>2, TopAlone DEF TopFrame, IInv, TypeInv
<1> QED
  BY <1>1, <1>3, PopKept

\* No step closes a circle.
LEMMA NextAcyclic == ASSUME IInv, Acyclic, Next PROVE Acyclic'
<1>0. MaxFields \in Nat /\ \A k \in 0 .. MaxFields : k \in Nat
  BY HeapAssumption
<1>a. KeptOn => Acyclic'
  BY NextSteady, KeptAcyclic
<1>1. CASE \E x, y \in Locals : Dup(x, y) \/ \E i \in 1 .. MaxFields : Project(x, i, y)
  BY <1>a, <1>1, SameKept DEF Dup, Project
<1>2. CASE \E x \in Locals : Drop(x) \/ ReuseTake(x) \/ Resume(x) \/ DispatchValue(x)
  <2>1. CASE \E x \in Locals : Drop(x) \/ Resume(x)
    BY <1>a, <2>1, SameKept DEF Drop, Resume
  <2>2. CASE \E x \in Locals : ReuseTake(x)
    BY <1>a, <2>2, TokenNil, NilKept DEF ReuseTake
  <2>3. CASE \E x \in Locals : DispatchValue(x)
    BY <1>a, <2>3, DispatchKept
  <2> QED
    BY <1>2, <2>1, <2>2, <2>3
<1>3. CASE \E y \in Locals : Make("leaf", << >>, y)
  BY <1>a, <1>3, SameKept DEF Make
<1>4. CASE \E k \in 1 .. MaxFields : \E s \in Operands(k), y \in Locals :
             \/ \E tag \in {"tuple", "con", "closure"} : Make(tag, s, y)
             \/ \E i \in 1 .. k : MakeRec(s, i, y)
             \/ ConReuse(s, y)
  <2>5. PICK k \in 1 .. MaxFields : \E s \in Operands(k), y \in Locals :
             \/ \E tag \in {"tuple", "con", "closure"} : Make(tag, s, y)
             \/ \E i \in 1 .. k : MakeRec(s, i, y)
             \/ ConReuse(s, y)
    BY <1>4
  <2>1. PICK s \in Operands(k), y \in Locals :
             \/ \E tag \in {"tuple", "con", "closure"} : Make(tag, s, y)
             \/ \E i \in 1 .. k : MakeRec(s, i, y)
             \/ ConReuse(s, y)
    BY <2>5
  <2>2. CASE \E tag \in {"tuple", "con", "closure"} : Make(tag, s, y)
    BY <1>a, <2>2, SameKept DEF Make
  <2>3. CASE \E i \in 1 .. k : MakeRec(s, i, y)
    BY <1>a, <2>3, SameKept DEF MakeRec
  <2>4. CASE ConReuse(s, y)
    BY <1>0, <1>a, <2>4, ConReuseKept
  <2> QED
    BY <2>1, <2>2, <2>3, <2>4
<1>5. CASE \E b \in Addr : FreeWalk(b)
  BY <1>a, <1>5, SameKept DEF FreeWalk
<1>6. CASE ReleaseField
  BY <1>a, <1>6, ReleaseKept
<1>7. CASE FreeToken
  BY <1>a, <1>7, FreeTokenKept
<1>8. CASE Return
  BY <1>a, <1>8, ReturnKept
<1>9. CASE CloneFrame
  BY <1>a, <1>9, SameKept DEF CloneFrame
<1>10. CASE \E k \in 0 .. MaxFields : \E s \in Operands(k) : Call(s)
  BY <1>0, <1>a, <1>10, CallKept
<1>11. CASE \E s \in Operands(2) : Handle(s)
  BY <1>a, <1>11, HandleKept
<1>12. CASE \E p \in DOMAIN ks, y, z \in Locals : Capture(p, y, z)
  <2>1. DOMAIN ks = 1 .. Len(ks)
    BY DEF IInv, TypeInv
  <2> QED
    BY <1>12, <2>1, CaptureAcyclic
<1>13. CASE \E s \in Tuples(MaxFields) : RunChain(s) \/ ReenterFrame(s)
  BY <1>a, <1>13, RunChainKept, ReturnKept
<1> QED
  BY <1>1, <1>2, <1>3, <1>4, <1>5, <1>6, <1>7, <1>8, <1>9, <1>10, <1>11, <1>12, <1>13 DEF Next

\* At first nothing owns anything.
LEMMA InitAcyclic == Init => Acyclic
<1> SUFFICES ASSUME Init PROVE Acyclic
  OBVIOUS
<1>1. \A b \in Addr : 1 .. Len(block[b].fields) = {}
  BY DeadIs DEF Init
<1> QED
  BY <1>1 DEF Acyclic, Owns

\* A step that changes nothing closes no circle.
LEMMA StutterAcyclic == ASSUME Acyclic, UNCHANGED vars PROVE Acyclic'
<1>1. block' = block /\ ks' = ks /\ token' = token
  BY DEF vars
<1>2. ASSUME NEW a, NEW b PROVE Owns(b, a)' <=> Owns(b, a)
  BY <1>1 DEF Owns, IsMirror, Released
<1> QED
  BY <1>2 DEF Acyclic

\* No blocks own each other in a circle, which counting would never free: a block
\* is made of what is there already, a closure does not own itself
\* (jq_rc.c:57), and what a capture moves into frames only the new
\* resumption can reach (jq_frames.c:129).
THEOREM NoCircle == Spec => []Acyclic
<1>1. IInv /\ Acyclic /\ Next => Acyclic'
  BY NextAcyclic
<1>2. Acyclic /\ UNCHANGED vars => Acyclic'
  BY StutterAcyclic
<1> QED
  BY <1>1, <1>2, InitAcyclic, HeapInvariant, PTL DEF Spec

\* Whatever is no longer reachable from a variable, a stack, the reuse token or an
\* immortal block is freed or on the free walk's list (jq_rc.c:45): drops,
\* abandoned tokens, captures and re-entered frames leave nothing behind.
THEOREM NothingEverLeaks == Spec => []NothingLeaks
<1>1. IInv /\ Acyclic => NothingLeaks
  <2> SUFFICES ASSUME IInv, Acyclic, NEW U \in SUBSET Unanchored, U # {}
               PROVE  \E a \in U, b \in Addr \ U : \E i \in OwningSlots(b) : block[b].fields[i] = a
    BY DEF NothingLeaks
  <2>1. U \subseteq Addr /\ TypeInv /\ CountInv
    BY DEF Unanchored, IInv
  <2>a. U \in SUBSET Addr /\ U # {}
    BY <2>1
  <2>2. PICK a \in U : \A b \in U : ~Owns(b, a)
    BY <2>a DEF Acyclic
  <2>3. a \in Addr /\ block[a].rc # 0 /\ block[a].rc # RcStatic /\ Roots(a) + Shell(a) = 0
    BY <2>1 DEF Unanchored
  <2>4. block[a].rc = Total(a) /\ Owners(a) = Total(a)
    BY <2>1, <2>3, OwnersAre DEF CountInv, Exact
  <2>5. ~(\A b \in Addr : \A i \in OwningSlots(b) : block[b].fields[i] # a)
    <3>1. SUFFICES ASSUME \A b \in Addr : \A i \in OwningSlots(b) : block[b].fields[i] # a PROVE FALSE
      OBVIOUS
    <3>2. \A b \in Addr : {<<b, i>> : i \in {j \in OwningSlots(b) : block[b].fields[j] = a}} = {}
      BY <3>1
    <3>3. UNION {{<<b, i>> : i \in {j \in OwningSlots(b) : block[b].fields[j] = a}} : b \in Addr} = {}
      BY <3>2
    <3>4. RefsFrom(Addr, a) = 0
      BY <3>3, FS_EmptySet DEF RefsFrom
    <3>5. PICK o, s : o = Roots(a) /\ s = Shell(a)
      OBVIOUS
    <3>6. Owners(a) = o + 0 + s /\ o + s = 0 /\ o \in Nat /\ s \in Nat
      <4>1. o \in Nat
        BY <2>3, <3>5, OwnersAre
      <4>2. s \in Nat
        BY <3>5 DEF Shell
      <4> QED
        BY <2>3, <3>4, <3>5, <4>1, <4>2 DEF Owners
    <3> QED
      BY <2>3, <2>4, <3>6
  <2>6. PICK b \in Addr : \E i \in OwningSlots(b) : block[b].fields[i] = a
    BY <2>5
  <2>c. PICK i \in OwningSlots(b) : block[b].fields[i] = a
    BY <2>6
  <2>7. Owns(b, a)
    <3>1. i \in 1 .. Len(HeldBy(b)) /\ HeldBy(b)[i] = a /\ Len(HeldBy(b)) = Len(block[b].fields) /\ a # Nil
      BY <2>1, <2>3, <2>c, SlotsAre, HeldTyped, HeapAssumption
    <3>2. ~IsMirror(b) /\ i # block[b].self /\ ~Released(b, i) /\ block[b].fields[i] = a
      BY <3>1 DEF HeldBy
    <3> QED
      BY <3>1, <3>2 DEF Owns
  <2> QED
    BY <2>2, <2>c, <2>7
<1> QED
  BY <1>1, NoCircle, HeapInvariant, PTL
==============================================================================
