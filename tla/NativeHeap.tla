----------------------------- MODULE NativeHeap -----------------------------
(***************************************************************************)
(* Reference counting in the native runtime: dup and drop of jq_value.h,   *)
(* the free walk and the reuse tokens of jq_rc.c, the small-block pool of  *)
(* jq_alloc.c, and who owns the slots of the frames of jq_frames.c while   *)
(* they are on the frame stack, captured, cloned and re-entered.           *)
(*                                                                         *)
(* A value that is not counted (an integer, a block compiled into the      *)
(* binary) and a variable that holds nothing are both Nil.  The compiled   *)
(* program is arbitrary code that owns its local variables.                *)
(***************************************************************************)
EXTENDS Integers, Sequences, FiniteSets, SequencesExt

CONSTANTS
    Addr, Locals, Nil,
    MaxFields,  \* bound on the fields of a block
    Budgets,    \* bounds on the blocks of each tag a program asks for
    MaxKs,      \* bound on the frame stack
    PoolWords,  \* JQ_POOL_MAX_WORDS
    RcStatic    \* JQ_RC_STATIC: the count of an immortal block

Tags == {"tuple", "con", "closure", "frame", "handler", "resume", "leaf"}
ASSUME HeapAssumption ==
    /\ Addr \subseteq Nat /\ IsFiniteSet(Addr) /\ IsFiniteSet(Locals) /\ Nil \notin Addr \cup Locals
    /\ {MaxFields, MaxKs, PoolWords} \subseteq Nat /\ Budgets \subseteq [Tags -> Nat] /\ RcStatic \in Nat \ {0, 1}

VARIABLES
    block,     \* address -> header and fields, or Dead
    class,     \* the pool size class a slab gave the address, 0 for none
    freelist,  \* jq_freelist: size class -> free blocks
    local,     \* the local variables of all activations
    ks,        \* rt->ks: [fr, pins]; an activation's frame mirrors the locals it pins
    hs,        \* rt->hs: [clause, hf]
    work,      \* the free walk's worklist
    token,     \* a reuse token: its shell, the next field to release, the arity
    chain,     \* the resumption being applied and the clones made of its frames
    budget     \* how many more blocks of each tag the program asks for
vars == <<block, class, freelist, local, ks, hs, work, token, chain, budget>>
pool == <<class, freelist>>

HeaderWords == [tuple |-> 0, con |-> 1, closure |-> 2, frame |-> 3, handler |-> 4,
                resume |-> 1, leaf |-> 1, none |-> 0]
Dead == [tag |-> "none", rc |-> 0, fields |-> << >>, self |-> 0, pooled |-> FALSE]
NoToken == [on |-> FALSE, shell |-> Nil, next |-> 0, arity |-> 0]
NoChain == [of |-> Nil, made |-> << >>]

----------------------------------------------------------------------------
\* The pool (jq_alloc.c).
Words(tag, k) == HeaderWords[tag] + k
Small(n) == n \in 1 .. PoolWords
Listed(n) == Small(n) /\ freelist[n] # << >>
\* jq_alloc_block returns the head of the freelist, or new memory.  No address
\* is like another, so the new one is the lowest.
Unused == {a \in Addr : block[a] = Dead /\ class[a] = 0}
New(n) == IF Listed(n) THEN freelist[n][1] ELSE CHOOSE a \in Unused : \A c \in Unused : a <= c
Alloc(n) ==
    /\ Listed(n) \/ Unused # {}
    /\ freelist' = IF Listed(n) THEN [freelist EXCEPT ![n] = Tail(@)] ELSE freelist
    /\ class' = IF Small(n) THEN [class EXCEPT ![New(n)] = n] ELSE class
\* A block the program asks for.
Ask(tag, n) == budget[tag] > 0 /\ budget' = [budget EXCEPT ![tag] = @ - 1] /\ Alloc(n)
NewBlock(tag, fields, self) ==
    [tag |-> tag, rc |-> 1, fields |-> fields, self |-> self,
     pooled |-> Small(Words(tag, Len(fields)))]
\* jq_block_free on the freelists; the block itself is gone.
BlockFree(a) ==
    /\ freelist' = IF block[a].pooled
                   THEN [freelist EXCEPT ![Words(block[a].tag, Len(block[a].fields))] = <<a>> \o @]
                   ELSE freelist
    /\ UNCHANGED class

----------------------------------------------------------------------------
\* Counts: jq_dup and jq_drop_child of every value that a step takes or gives up.
CountIn(s, a) == Cardinality({i \in DOMAIN s : s[i] = a})
Duped(bs, s) ==
    [a \in Addr |-> IF bs[a].rc = RcStatic THEN bs[a]
                    ELSE [bs[a] EXCEPT !.rc = IF @ + CountIn(s, a) >= RcStatic THEN RcStatic
                                              ELSE @ + CountIn(s, a)]]
Dropped(bs, s) ==
    [a \in Addr |-> IF bs[a].rc = RcStatic THEN bs[a] ELSE [bs[a] EXCEPT !.rc = @ - CountIn(s, a)]]
Zeroed(bs, s) == {a \in Range(s) \ {Nil} : bs[a].rc # RcStatic /\ bs[a].rc = CountIn(s, a)}

----------------------------------------------------------------------------
\* The program.
Taking == token.on /\ token.shell # Nil /\ token.next <= Len(block[token.shell].fields)
Running == work = {} /\ ~Taking /\ chain = NoChain
Pinned == UNION {Range(ks[i].pins) : i \in DOMAIN ks}
Own == Locals \ Pinned
Vacant(y) == y \in Own /\ local[y] = Nil
Holds(x) == x \in Own /\ local[x] # Nil

\* Operands: distinct locals of the running activation, or values not counted.
Operands(k) == {s \in [1 .. k -> {x \in Own : local[x] # Nil} \cup {Nil}] :
                   \A i, j \in 1 .. k : s[i] = s[j] /\ i # j => s[i] = Nil}
Values(s) == [i \in DOMAIN s |-> IF s[i] = Nil THEN Nil ELSE local[s[i]]]
Emptied(xs) == [x \in Locals |-> IF x \in xs THEN Nil ELSE local[x]]

Dup(x, y) ==
    /\ Running /\ Holds(x) /\ Vacant(y)
    /\ local' = [local EXCEPT ![y] = local[x]]
    /\ block' = Duped(block, <<local[x]>>)
    /\ UNCHANGED <<pool, ks, hs, work, token, chain, budget>>

Drop(x) ==
    /\ Running /\ Holds(x)
    /\ local' = [local EXCEPT ![x] = Nil]
    /\ block' = Dropped(block, <<local[x]>>)
    /\ work' = Zeroed(block, <<local[x]>>)
    /\ UNCHANGED <<pool, ks, hs, token, chain, budget>>

\* jq_tuple, jq_con, jq_closure, jq_text and the like: operands move in.
Make(tag, s, y) ==
    /\ Running /\ y \in Own /\ (local[y] = Nil \/ y \in Range(s))
    /\ Ask(tag, Words(tag, Len(s)))
    /\ block' = [block EXCEPT ![New(Words(tag, Len(s)))] = NewBlock(tag, Values(s), 0)]
    /\ local' = [Emptied(Range(s)) EXCEPT ![y] = New(Words(tag, Len(s)))]
    /\ UNCHANGED <<ks, hs, work, token, chain>>

\* A let-rec closure: its own address is patched in without a dup.
MakeRec(s, i, y) ==
    LET a == New(Words("closure", Len(s)))
    IN /\ Running /\ Vacant(y) /\ s[i] = Nil
       /\ Ask("closure", Words("closure", Len(s)))
       /\ block' = [block EXCEPT ![a] = NewBlock("closure", [Values(s) EXCEPT ![i] = a], i)]
       /\ local' = [Emptied(Range(s)) EXCEPT ![y] = a]
    /\ UNCHANGED <<ks, hs, work, token, chain>>

\* A pattern or environment variable: the field is loaded and dup'd.
Project(x, i, y) ==
    /\ Running /\ Holds(x) /\ Vacant(y)
    /\ block[local[x]].tag \in {"tuple", "con", "closure"}
    /\ i \in DOMAIN block[local[x]].fields /\ block[local[x]].fields[i] # Nil
    /\ local' = [local EXCEPT ![y] = block[local[x]].fields[i]]
    /\ block' = Duped(block, <<block[local[x]].fields[i]>>)
    /\ UNCHANGED <<pool, ks, hs, work, token, chain, budget>>

----------------------------------------------------------------------------
\* The free walk: release one block of the worklist.
OwnedByTag(b) == IF block[b].tag = "leaf" THEN {} ELSE DOMAIN block[b].fields \ {block[b].self}
Children(b) == [i \in DOMAIN block[b].fields |-> IF i \in OwnedByTag(b) THEN block[b].fields[i] ELSE Nil]
FreeWalk(b) ==
    /\ b \in work
    /\ block' = [Dropped(block, Children(b)) EXCEPT ![b] = Dead]
    /\ work' = (work \ {b}) \cup Zeroed(block, Children(b))
    /\ BlockFree(b)
    /\ UNCHANGED <<local, ks, hs, token, chain, budget>>

\* Mutant: a shell with one other owner is taken too.
ReuseTakeShared(x) ==
    /\ Running /\ ~token.on /\ Holds(x) /\ block[local[x]].tag = "con"
    /\ local' = [local EXCEPT ![x] = Nil]
    /\ token' = [on |-> TRUE, shell |-> local[x], next |-> 1, arity |-> Len(block[local[x]].fields)]
    /\ UNCHANGED <<block, pool, ks, hs, work, chain, budget>>

\* Reuse.  jq_reuse_take on a dying constructor: a unique shell is kept, its
\* fields are released one after the other, each with its own walk.
ReuseTake(x) ==
    /\ Running /\ ~token.on /\ Holds(x) /\ block[local[x]].tag = "con"
    /\ local' = [local EXCEPT ![x] = Nil]
    /\ LET b == local[x]
           arity == Len(block[b].fields)
       IN IF block[b].rc = 1
          THEN token' = [on |-> TRUE, shell |-> b, next |-> 1, arity |-> arity] /\ UNCHANGED block
          ELSE token' = [NoToken EXCEPT !.on = TRUE, !.arity = arity] /\ block' = Dropped(block, <<b>>)
    /\ UNCHANGED <<pool, ks, hs, work, chain, budget>>
ReleaseField ==
    /\ work = {} /\ Taking
    /\ LET v == block[token.shell].fields[token.next]
       IN block' = Dropped(block, <<v>>) /\ work' = Zeroed(block, <<v>>)
    /\ token' = [token EXCEPT !.next = @ + 1]
    /\ UNCHANGED <<pool, local, ks, hs, chain, budget>>

\* Mutant: the pool bit is lost.
ConReuseUnpooled(s, y) ==
    /\ Running /\ token.on /\ Len(s) = token.arity /\ token.shell # Nil /\ local[y] = Nil
    /\ block' = [block EXCEPT ![token.shell] = [NewBlock("con", Values(s), 0) EXCEPT !.pooled = FALSE]]
    /\ local' = [Emptied(Range(s)) EXCEPT ![y] = token.shell]
    /\ token' = NoToken
    /\ UNCHANGED <<pool, ks, hs, work, chain, budget>>

\* jq_con_reuse: the shell becomes the new constructor, pool bit kept; without
\* a shell a constructor is allocated.
ConReuse(s, y) ==
    LET a == IF token.shell = Nil THEN New(Words("con", Len(s))) ELSE token.shell
        con == NewBlock("con", Values(s), 0)
    IN /\ Running /\ token.on /\ Len(s) = token.arity
       /\ y \in Own /\ (local[y] = Nil \/ y \in Range(s))
       /\ IF token.shell = Nil
          THEN Ask("con", Words("con", Len(s))) /\ block' = [block EXCEPT ![a] = con]
          ELSE /\ block' = [block EXCEPT ![a] = [con EXCEPT !.pooled = block[a].pooled]]
               /\ UNCHANGED <<pool, budget>>
       /\ local' = [Emptied(Range(s)) EXCEPT ![y] = a]
    /\ token' = NoToken
    /\ UNCHANGED <<ks, hs, work, chain>>

\* Mutant: the shell is forgotten.
ForgetToken == Running /\ token.on /\ token' = NoToken
               /\ UNCHANGED <<block, pool, local, ks, hs, work, chain, budget>>

\* A token left over when the function returns.
FreeToken ==
    /\ Running /\ token.on
    /\ IF token.shell = Nil THEN UNCHANGED <<block, pool>>
       ELSE BlockFree(token.shell) /\ block' = [block EXCEPT ![token.shell] = Dead]
    /\ token' = NoToken
    /\ UNCHANGED <<local, ks, hs, work, chain, budget>>

----------------------------------------------------------------------------
\* Frames.  Code that holds a token does not suspend (perceus.ml).
Suspendable == Running /\ ~token.on
TopFrame == ks[Len(ks)]
KsPop == ks' = SubSeq(ks, 1, Len(ks) - 1)

\* A suspendable call: the frame mirrors the live locals without owning them.
Call(s) ==
    LET n == Words("frame", Len(s))
    IN /\ Suspendable /\ Len(ks) < MaxKs /\ Nil \notin Range(s)
       /\ Ask("frame", n)
       /\ block' = [block EXCEPT ![New(n)] = NewBlock("frame", Values(s), 0)]
       /\ ks' = Append(ks, [fr |-> New(n), pins |-> s])
    /\ UNCHANGED <<local, hs, work, token, chain>>

\* An empty frame mirrors nothing: leaving it and re-entering it are one step.
Mirrors(e) == block[e.fr].tag = "frame" /\ e.pins # << >>

\* The call returned: the mirror is unlinked and its shell freed, slots and all.
Return ==
    /\ Suspendable /\ ks # << >> /\ Mirrors(TopFrame)
    /\ KsPop /\ BlockFree(TopFrame.fr) /\ block' = [block EXCEPT ![TopFrame.fr] = Dead]
    /\ UNCHANGED <<local, hs, work, token, chain, budget>>

\* jq_handle2: the return clause and the operation clause move into the
\* handler frame; the handler stack takes a reference of its own.
Handle(s) ==
    LET a == New(Words("handler", 2))
    IN /\ Suspendable /\ Len(ks) < MaxKs
       /\ Ask("handler", Words("handler", 2))
       /\ block' = Duped([block EXCEPT ![a] = NewBlock("handler", Values(s), 0)], <<Values(s)[2]>>)
       /\ local' = Emptied(Range(s))
       /\ ks' = Append(ks, [fr |-> a, pins |-> << >>])
       /\ hs' = Append(hs, [clause |-> Values(s)[2], hf |-> a])
    /\ UNCHANGED <<work, token, chain>>

\* jq_dispatch on a value: the entry goes, the return clause is dup'd for its
\* call and the handler frame dropped.
DispatchValue(y) ==
    /\ Suspendable /\ ks # << >> /\ block[TopFrame.fr].tag = "handler" /\ Vacant(y)
    /\ LET f == TopFrame.fr
           ret == block[f].fields[1]
           popped == Dropped(block, <<hs[Len(hs)].clause>>)
       IN /\ block' = Dropped(Duped(popped, <<ret>>), <<f>>)
          /\ work' = Zeroed(block, <<hs[Len(hs)].clause>>) \cup Zeroed(block, <<f>>)
          /\ local' = [local EXCEPT ![y] = ret]
    /\ KsPop /\ hs' = SubSeq(hs, 1, Len(hs) - 1)
    /\ UNCHANGED <<pool, token, chain, budget>>

\* A capture by the handler at position p of ks: the activations above it
\* abandon their locals to their frames, the slice becomes a resumption, the
\* entries of the slice's handlers go and the clause is called.  What the
\* innermost code still holds are the operation's arguments.
Capture(p, y, z) ==
    /\ Suspendable /\ p \in DOMAIN ks /\ block[ks[p].fr].tag = "handler"
    /\ LET slice == [i \in 1 .. Len(ks) - p + 1 |-> ks[p + i - 1].fr]
           left == UNION {Range(ks[i].pins) : i \in p .. Len(ks)}
           at == CHOOSE i \in DOMAIN hs : hs[i].hf = ks[p].fr
           popped == [i \in 1 .. Len(hs) - at + 1 |-> hs[at + i - 1].clause]
           n == Words("resume", Len(slice))
           called == Duped(block, <<hs[at].clause>>)
       IN /\ {y, z} \cap Pinned \subseteq left /\ y # z
          /\ \A l \in {y, z} \ left : local[l] = Nil
          /\ Ask("resume", n)
          /\ block' = [Dropped(called, popped) EXCEPT ![New(n)] = NewBlock("resume", slice, 0)]
          /\ work' = Zeroed(called, popped)
          /\ local' = [Emptied(left) EXCEPT ![y] = hs[at].clause, ![z] = New(n)]
          /\ ks' = SubSeq(ks, 1, p - 1) /\ hs' = SubSeq(hs, 1, at - 1)
    /\ UNCHANGED <<token, chain>>

\* jq_resume: clone the frames, one after the other.
Resume(x) ==
    /\ Suspendable /\ Holds(x) /\ block[local[x]].tag = "resume"
    /\ Len(ks) + Len(block[local[x]].fields) <= MaxKs
    /\ chain' = [of |-> local[x], made |-> << >>]
    /\ UNCHANGED <<block, pool, local, ks, hs, work, token, budget>>
\* Mutant: the clone's slots are copied without a dup.
CloneFrameBare ==
    /\ chain.of # Nil /\ Len(chain.made) < Len(block[chain.of].fields)
    /\ LET f == block[block[chain.of].fields[Len(chain.made) + 1]]
           a == New(Words(f.tag, Len(f.fields)))
       IN /\ Alloc(Words(f.tag, Len(f.fields)))
          /\ block' = [block EXCEPT ![a] = NewBlock(f.tag, f.fields, 0)]
          /\ chain' = [chain EXCEPT !.made = Append(@, a)]
    /\ UNCHANGED <<local, ks, hs, work, token, budget>>

CloneFrame ==
    /\ chain.of # Nil /\ Len(chain.made) < Len(block[chain.of].fields)
    /\ LET f == block[block[chain.of].fields[Len(chain.made) + 1]]
           a == New(Words(f.tag, Len(f.fields)))
       IN /\ Alloc(Words(f.tag, Len(f.fields)))
          /\ block' = Duped([block EXCEPT ![a] = NewBlock(f.tag, f.fields, 0)], f.fields)
          /\ chain' = [chain EXCEPT !.made = Append(@, a)]
    /\ UNCHANGED <<local, ks, hs, work, token, budget>>

\* A frame is entered: its slots move into the activation's locals.
Entered(f, s) ==
    /\ \A i \in DOMAIN s : Vacant(s[i])
    /\ Len(s) = Len(block[f].fields) /\ \A i, j \in DOMAIN s : s[i] = s[j] => i = j
    /\ local' = [x \in Locals |-> IF x \in Range(s) THEN block[f].fields[CHOOSE i \in DOMAIN s : s[i] = x]
                                  ELSE local[x]]

\* The handler frames of a chain, in its order.
HandlersOf(fs) ==
    LET at == {i \in DOMAIN fs : block[fs[i]].tag = "handler"}
        Nth(k) == CHOOSE i \in at : Cardinality({j \in at : j <= i}) = k
    IN [k \in 1 .. Cardinality(at) |-> fs[Nth(k)]]

\* run_from: the clones join ks, handler frames with their entries; an
\* innermost activation is entered at once.
RunChain(s) ==
    /\ chain.of # Nil /\ Len(chain.made) = Len(block[chain.of].fields)
    /\ LET made == chain.made
           last == made[Len(made)]
           enters == block[last].tag = "frame"
           handlers == HandlersOf(made)
           clauses == [i \in DOMAIN handlers |-> block[handlers[i]].fields[2]]
           joining == IF enters THEN SubSeq(made, 1, Len(made) - 1) ELSE made
           held == Duped(block, clauses)
       IN /\ ks' = ks \o [i \in DOMAIN joining |-> [fr |-> joining[i], pins |-> << >>]]
          /\ hs' = hs \o [i \in DOMAIN handlers |-> [clause |-> clauses[i], hf |-> handlers[i]]]
          /\ IF enters
             THEN Entered(last, s) /\ BlockFree(last) /\ block' = [held EXCEPT ![last] = Dead]
             ELSE s = << >> /\ block' = held /\ UNCHANGED <<pool, local>>
    /\ chain' = NoChain
    /\ UNCHANGED <<work, token, budget>>

\* run_from: the inner extent returned, the next frame out is entered.
ReenterFrame(s) ==
    /\ Suspendable /\ ks # << >> /\ block[TopFrame.fr].tag = "frame" /\ ~Mirrors(TopFrame)
    /\ Entered(TopFrame.fr, s)
    /\ KsPop /\ BlockFree(TopFrame.fr) /\ block' = [block EXCEPT ![TopFrame.fr] = Dead]
    /\ UNCHANGED <<hs, work, token, chain, budget>>
----------------------------------------------------------------------------
Init ==
    /\ block = [a \in Addr |-> Dead] /\ class = [a \in Addr |-> 0]
    /\ freelist = [n \in 1 .. PoolWords |-> << >>] /\ local = [x \in Locals |-> Nil]
    /\ ks = << >> /\ hs = << >> /\ work = {} /\ token = NoToken /\ chain = NoChain /\ budget \in Budgets

Tuples(n) == UNION {[1 .. k -> Locals] : k \in 0 .. n}
Next ==
    \/ \E x, y \in Locals : Dup(x, y) \/ \E i \in 1 .. MaxFields : Project(x, i, y)
    \/ \E x \in Locals : Drop(x) \/ ReuseTake(x) \/ Resume(x) \/ DispatchValue(x)
    \/ \E y \in Locals : Make("leaf", << >>, y)
    \/ \E k \in 1 .. MaxFields : \E s \in Operands(k), y \in Locals :
           \/ \E tag \in {"tuple", "con", "closure"} : Make(tag, s, y)
           \/ \E i \in 1 .. k : MakeRec(s, i, y)
           \/ ConReuse(s, y)
    \/ \E b \in Addr : FreeWalk(b)
    \/ ReleaseField \/ FreeToken \/ Return \/ CloneFrame
    \/ \E k \in 0 .. MaxFields : \E s \in Operands(k) : Call(s)
    \/ \E s \in Operands(2) : Handle(s)
    \/ \E p \in DOMAIN ks, y, z \in Locals : Capture(p, y, z)
    \/ \E s \in Tuples(MaxFields) : RunChain(s) \/ ReenterFrame(s)

Spec == Init /\ [][Next]_vars

----------------------------------------------------------------------------
(* Properties.                                                             *)
Live(a) == block[a] # Dead
\* The slots of a block that own what they hold, given who holds the block.
OwningSlots(b) ==
    IF ~Live(b) THEN {}
    ELSE IF \E i \in DOMAIN ks : ks[i].fr = b /\ Mirrors(ks[i]) THEN {}
    ELSE IF token.shell = b THEN token.next .. Len(block[b].fields)
    ELSE OwnedByTag(b)
\* The references from outside the heap, and those from the blocks of a set.
Roots(a) ==
    Cardinality({x \in Locals : local[x] = a})
    + Cardinality({i \in DOMAIN hs : hs[i].clause = a})
    + Cardinality({i \in DOMAIN ks : ks[i].fr = a})
    + CountIn(chain.made, a)
RefsFrom(S, a) ==
    Cardinality(UNION {{<<b, i>> : i \in {j \in OwningSlots(b) : block[b].fields[j] = a}} : b \in S})
Shell(a) == IF token.shell = a THEN 1 ELSE 0
Owners(a) == Roots(a) + RefsFrom(Addr, a) + Shell(a)

\* Every variable stays in its declared range.
TypeOK ==
    /\ \A a \in Addr :
        /\ block[a].tag \in DOMAIN HeaderWords /\ block[a].rc \in 0 .. RcStatic
        /\ Range(block[a].fields) \subseteq Addr \cup {Nil}
        /\ block[a].self \in 0 .. Len(block[a].fields) /\ class[a] \in 0 .. PoolWords
    /\ \A n \in 1 .. PoolWords : freelist[n] \in Seq(Addr)
    /\ local \in [Locals -> Addr \cup {Nil}] /\ work \subseteq Addr
    /\ \A i \in DOMAIN ks : ks[i].fr \in Addr /\ ks[i].pins \in Seq(Locals)

\* Every count is the number of owners, or has reached the immortal one; the
\* blocks of the worklist are those whose count has reached zero; and all is
\* of its type.
CountsAreExact ==
    /\ TypeOK
    /\ \A a \in Addr : Live(a) => block[a].rc \in {Owners(a), RcStatic}
    /\ work = {a \in Addr : Live(a) /\ block[a].rc = 0}

\* Nothing freed is owned, and what the runtime reads without owning it is
\* there: the locals a frame mirrors, a let-rec closure's self slot.
NothingDangles ==
    /\ \A a \in Addr : ~Live(a) => Owners(a) = 0
    /\ \A i \in DOMAIN ks : ks[i].pins # << >> =>
           block[ks[i].fr].fields = [j \in DOMAIN ks[i].pins |-> local[ks[i].pins[j]]]
    /\ \A a \in Addr : block[a].self # 0 => block[a].fields[block[a].self] = a
\* A size class is an address's for good: it is live at that size and will
\* go back to the pool, or waits once on that freelist.
PoolIsSound ==
    /\ \A a \in Addr : Live(a) =>
           class[a] = IF block[a].pooled THEN Words(block[a].tag, Len(block[a].fields)) ELSE 0
    /\ \A n \in 1 .. PoolWords :
           /\ IsInjective(freelist[n])
           /\ Range(freelist[n]) = {a \in Addr : class[a] = n /\ ~Live(a)}
MemoryIsSound == NothingDangles /\ PoolIsSound

\* No garbage stays.  A block is anchored if it is immortal, about to be freed,
\* or held by a variable, a stack or the reuse token; of the others, every group
\* has a member that is owned from outside the group.  So every block can be
\* reached from an anchored one, and no group keeps itself alive.
Unanchored == {a \in Addr : Live(a) /\ block[a].rc \notin {0, RcStatic} /\ Roots(a) + Shell(a) = 0}
NothingLeaks ==
    \A U \in SUBSET Unanchored : U # {} =>
        \E a \in U, b \in Addr \ U : \E i \in OwningSlots(b) : block[b].fields[i] = a

\* What somebody can see never changes: reuse in place touches unique shells
\* only, and a captured frame is the same however often it is resumed.
Visible(a) == Roots(a) + RefsFrom(Addr, a) > 0
SharedIsUnchanged ==
    [][\A a \in Addr :
           block'[a].fields # block[a].fields \/ block'[a].tag # block[a].tag
               => ~(Visible(a) /\ Visible(a)')]_vars
============================================================================
