---------------------------- MODULE MCApprovalQueue ----------------------------
(***************************************************************************)
(* Small instances of ApprovalQueue: two domains of one process and one of *)
(* another, or one alone.                                                  *)
(***************************************************************************)
EXTENDS ApprovalQueue

CONSTANTS p1, p2, a1, a2, b1, anyone, onlyFirst, d1, d2

MCTwoProcesses == [a \in {a1, a2, b1} |-> IF a = b1 THEN p2 ELSE p1]
MCOneProcess == [a \in {a1} |-> p1]

\* A proposal open to both deciders, or to the first alone.
MCOpenToBoth == {<<anyone, d1>>, <<anyone, d2>>}
MCOpenToFirst == {<<onlyFirst, d1>>}
==============================================================================
