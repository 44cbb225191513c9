------------------------------ MODULE CodeForms -----------------------------
(***************************************************************************)
(* Code and its rendering in the native runtime: structural equality and   *)
(* the differ (src/runtime/jq_code.c), the printer of forms and values     *)
(* (src/runtime/jq_show.c) and the code intrinsics                         *)
(* (src/runtime/jq_intrinsics.c).                                          *)
(*                                                                         *)
(* A rendering is a sequence of tokens.  The spelling of a scalar is one   *)
(* token, since its quotes, its '#' or its decimal point tell its kind; a  *)
(* text or a name is a member of a small set.                              *)
(***************************************************************************)
EXTENDS Integers, Sequences, SequencesExt

CONSTANT Unspellable \* the heads and symbols the reader would not accept

\* A form is a head and arguments, an argument a kind and a datum.  A real is
\* a number or one of the two values that are not told apart as usual.
Form(head, args) == [head |-> head, args |-> args]
Arg(kind, datum) == [kind |-> kind, datum |-> datum]
IsForm(a) == a.kind = "form"
Sub(f) == [kind |-> "form", form |-> f]
\* What an argument holds: the form, or the scalar with its kind.
Held(a) == IF IsForm(a) THEN a.form ELSE a
NaN == "+nan.0"
NegativeZero == "-0.0"
Zero == "0.0"
Reals == {NaN, NegativeZero, Zero}
SameReal(x, y) == x = y \/ {x, y} = {NegativeZero, Zero}

RECURSIVE CodeEq(_, _), Inline(_), Divergences(_, _, _), Show(_, _)

\* jq_code_eq and the equal_arg of the differ: one definition, since both ask
\* for the same kind and compare a datum as its kind is compared.
SameDatum(a, b) ==
    /\ a.kind = b.kind
    /\ CASE a.kind = "form" -> CodeEq(a.form, b.form)
         [] a.kind = "real" -> SameReal(a.datum, b.datum)
         [] OTHER -> a.datum = b.datum
CodeEq(f, g) ==
    /\ f.head = g.head /\ Len(f.args) = Len(g.args)
    /\ \A i \in DOMAIN f.args : SameDatum(f.args[i], g.args[i])

----------------------------------------------------------------------------
\* The printer.  What it cannot print ends the program.
Crash == <<"crash">>
Crashes(tokens) == Contains(tokens, "crash")
\* head_ok and symbol_ok.
Spellable(name) == name \notin Unspellable
Scalar(a) == IF a.kind = "symbol" /\ ~Spellable(a.datum) THEN Crash ELSE <<a.kind, a.datum>>
Printed(a) == IF IsForm(a) THEN Inline(a.form) ELSE Scalar(a)
\* inline_form_into: a group has no head, and so no leading scalar.
Inline(f) ==
    LET group == f.head = "group"
    IN IF group /\ f.args # << >> /\ ~IsForm(f.args[1]) THEN Crash
       ELSE IF ~group /\ ~Spellable(f.head) THEN Crash
       ELSE <<"(">> \o (IF group THEN << >> ELSE <<"symbol", f.head>>)
            \o FlattenSeq([i \in DOMAIN f.args |-> Printed(f.args[i])]) \o <<")">>

\* Mutant: only the first differing argument is reported.
FirstOnly(path, f, g) ==
    IF CodeEq(f, g) THEN << >>
    ELSE IF f.head # g.head \/ Len(f.args) # Len(g.args) THEN <<[path |-> path, was |-> f, now |-> g]>>
    ELSE LET i == CHOOSE i \in DOMAIN f.args :
                      ~SameDatum(f.args[i], g.args[i]) /\ \A j \in 1 .. i - 1 : SameDatum(f.args[j], g.args[j])
         IN IF IsForm(f.args[i]) /\ IsForm(g.args[i])
            THEN Divergences(Append(path, i), f.args[i].form, g.args[i].form)
            ELSE <<[path |-> Append(path, i), was |-> Held(f.args[i]), now |-> Held(g.args[i])]>>
\* divergences: what differs, at the deepest places where head and arity agree.
Divergences(path, f, g) ==
    IF CodeEq(f, g) THEN << >>
    ELSE IF f.head # g.head \/ Len(f.args) # Len(g.args) THEN <<[path |-> path, was |-> f, now |-> g]>>
    ELSE FlattenSeq([i \in DOMAIN f.args |->
             IF IsForm(f.args[i]) /\ IsForm(g.args[i])
             THEN Divergences(Append(path, i), f.args[i].form, g.args[i].form)
             ELSE IF SameDatum(f.args[i], g.args[i]) THEN << >>
             ELSE <<[path |-> Append(path, i), was |-> Held(f.args[i]), now |-> Held(g.args[i])]>>])
\* code.diff: "identical" is the diff without divergences.
Diff(f, g) == Divergences(<< >>, f, g)

----------------------------------------------------------------------------
\* The code intrinsics.
None == << >>
Some(x) == <<x>>
CodeForm(head, forms) ==
    IF ~Spellable(head) THEN None
    ELSE Some(Form(head, [i \in DOMAIN forms |-> Sub(forms[i])]))
UnForm(f) ==
    IF \E i \in DOMAIN f.args : ~IsForm(f.args[i]) THEN None
    ELSE Some([head |-> f.head, forms |-> [i \in DOMAIN f.args |-> f.args[i].form]])
\* code.of-int, of-real and of-text; code.to-int and to-text.
Literal(kind, x) == Form("lit", <<Arg(kind, x)>>)
FromLiteral(kind, f) ==
    IF f.head = "lit" /\ Len(f.args) = 1 /\ f.args[1].kind = kind THEN Some(f.args[1].datum) ELSE None

----------------------------------------------------------------------------
\* Values and show_into; jq_show renders with redact off and jq_display on.
\* The token of a value without a spelling of its own names only its tag.
Commas(pieces) ==
    FoldLeftDomain(LAMBDA tokens, i : tokens \o (IF i > 1 THEN <<",">> ELSE << >>) \o pieces[i], << >>, pieces)
Mute == {"secret", "closure", "resume", "task", "capability"}
Show(v, redact) ==
    CASE v.tag \in {"int", "real", "text", "hash"} -> <<v.tag, v.datum>>
      [] v.tag \in Mute -> <<v.tag>>
      [] v.tag \in {"con", "constructor"} /\ redact /\ v.opaque -> <<"opaque", v.type>>
      [] v.tag = "tuple" ->
             <<"(">> \o Commas([i \in DOMAIN v.fields |-> Show(v.fields[i], redact)]) \o <<")">>
      [] v.tag = "con" /\ ~(redact /\ v.opaque) ->
             IF v.fields = << >> THEN <<v.name>>
             ELSE <<v.name, "(">> \o Commas([i \in DOMAIN v.fields |-> Show(v.fields[i], redact)]) \o <<")">>
      [] v.tag = "constructor" /\ ~(redact /\ v.opaque) -> <<"constructor", v.name>>
      [] v.tag = "code" -> <<"(", "quote">> \o Inline(v.datum) \o <<")">>

----------------------------------------------------------------------------
RECURSIVE At(_, _), Patched(_, _, _), SameZeroSigns(_, _), IsHidden(_), SameShown(_, _)
At(f, path) ==
    IF path = << >> THEN f
    ELSE LET x == Held(f.args[Head(path)]) IN IF Tail(path) = << >> THEN x ELSE At(x, Tail(path))
\* f with x put at a path.
Patched(f, path, x) ==
    IF path = << >> THEN x
    ELSE LET i == Head(path)
         IN [f EXCEPT !.args[i] =
                IF Tail(path) # << >> THEN Sub(Patched(@.form, Tail(path), x))
                ELSE IF "kind" \in DOMAIN x THEN x ELSE Sub(x)]
PatchedBy(f, diff) == FoldLeft(LAMBDA g, d : Patched(g, d.path, d.now), f, diff)
\* Equal forms that also agree in the signs of their zeros.
SameZeroSigns(f, g) ==
    \A i \in DOMAIN f.args :
        IF IsForm(f.args[i]) THEN SameZeroSigns(f.args[i].form, g.args[i].form)
        ELSE f.args[i].datum = g.args[i].datum

\* The diff of two forms is empty exactly when they are equal, names only
\* places where they differ, and turns one into the other; the rendering that
\* is hashed is equal exactly for forms equal up to the sign of a zero (which
\* docs/designs/project-structure.md gives as the difference of the two).
DiffIsExact(f, g) ==
    /\ Diff(f, g) = << >> <=> CodeEq(f, g)
    /\ CodeEq(PatchedBy(f, Diff(f, g)), g)
    /\ \A i \in DOMAIN Diff(f, g) :
           At(f, Diff(f, g)[i].path) = Diff(f, g)[i].was /\ At(g, Diff(f, g)[i].path) = Diff(f, g)[i].now
    /\ ~Crashes(Inline(f)) /\ ~Crashes(Inline(g)) =>
           (Inline(f) = Inline(g) <=> CodeEq(f, g) /\ SameZeroSigns(f, g))
\* What code.form builds, un-form takes apart; what un-form takes apart,
\* code.form builds; and a literal is read as what it was made of.
FormsComeApart(f) ==
    LET apart == UnForm(f)
    IN /\ apart # None =>
              CodeForm(apart[1].head, apart[1].forms) = IF f.head \in Unspellable THEN None ELSE Some(f)
       /\ (\A i \in DOMAIN f.args : IsForm(f.args[i])) => apart # None
       /\ \A kind \in {"int", "text"} :
              FromLiteral(kind, f) # None => f = Literal(kind, FromLiteral(kind, f)[1])

\* A value a display must not tell from others of its kind.
IsHidden(v) == v.tag \in Mute \/ (v.tag \in {"con", "constructor"} /\ v.opaque)
\* Two values a reader of displays may not tell apart.
SameShown(v, w) ==
    /\ v.tag = w.tag \/ (IsHidden(v) /\ IsHidden(w) /\ {v.tag, w.tag} = {"con", "constructor"})
    /\ IF IsHidden(v) THEN v.tag \in Mute \/ v.type = w.type
       ELSE CASE v.tag \in {"tuple", "con"} ->
                     /\ v.tag = "con" => v.name = w.name /\ ~w.opaque
                     /\ Len(v.fields) = Len(w.fields)
                     /\ \A i \in DOMAIN v.fields : SameShown(v.fields[i], w.fields[i])
              [] OTHER -> v = w
\* A display says which data a value holds and nothing of what is hidden in
\* it, at any depth.
DisplayHidesExactly(v, w) == Show(v, TRUE) = Show(w, TRUE) <=> SameShown(v, w)
=============================================================================
