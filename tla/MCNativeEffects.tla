-------------------------- MODULE MCNativeEffects --------------------------
(* Programs for NativeEffects: what their handlers are made of.            *)
EXTENDS NativeEffects
TailOf(op) == [op |-> op, kind |-> "tail", once |-> FALSE]
Multi(op) == [op |-> op, kind |-> "capturing", once |-> FALSE]
Once(op) == [op |-> op, kind |-> "capturing", once |-> TRUE]

\* A handler with one resumable clause, and one whose first clause is tail
\* and whose other clause may be resumed once.
MixedHandlers == "H" :> <<Multi("ask")>> @@ "T" :> <<TailOf("put"), Once("get")>>
\* Two tail clauses in one handler.
SiblingHandlers == "T" :> <<TailOf("get"), TailOf("put")>>
============================================================================
