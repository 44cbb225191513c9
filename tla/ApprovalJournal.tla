---------------------------- MODULE ApprovalJournal ----------------------------
(***************************************************************************)
(* The journal of the governance approval queue and what a scan makes of   *)
(* it: src/src/governance_approval_queue.ml.                               *)
(*                                                                         *)
(* A transaction is a record line and a commit line naming it.  Records    *)
(* are chained by hash, so the identity of a record determines every event *)
(* before it: here a record's identity is the history of events it ends.   *)
(***************************************************************************)
EXTENDS Naturals, SequencesExt

CONSTANTS Proposal,
          Approvers,   \* lists of principals a proposal may be submitted with
          Decision,    \* decisions together with the actor who makes them
          Allowed      \* which decisions an approver list admits

ASSUME AllowedAssumption == Allowed \subseteq Approvers \X Decision

Event == [kind : {"Submit"}, proposal : Proposal, value : Approvers]
         \cup [kind : {"Decide", "Consume"}, proposal : Proposal, value : Decision]

----------------------------------------------------------------------------
(* The items a history of events leaves.                                   *)

Happened(h, kind, p) == \E i \in DOMAIN h : h[i].kind = kind /\ h[i].proposal = p
ValueOf(h, kind, p) ==
  CHOOSE v \in {h[i].value : i \in {j \in DOMAIN h : h[j].kind = kind /\ h[j].proposal = p}} : TRUE

StatusOf(h, p) ==
  CASE Happened(h, "Consume", p) -> "Stale"
    [] Happened(h, "Decide", p) /\ ~Happened(h, "Consume", p) -> "Decided"
    [] Happened(h, "Submit", p) /\ ~Happened(h, "Decide", p) /\ ~Happened(h, "Consume", p) -> "Pending"
    [] OTHER -> "Absent"

ApproversOf(h, p) == ValueOf(h, "Submit", p)
DecisionOf(h, p) == ValueOf(h, "Decide", p)

\* transition: whether the event may follow the history.
Transition(h, e) ==
  \/ e.kind = "Submit" /\ StatusOf(h, e.proposal) = "Absent"
  \/ /\ e.kind = "Decide"
     /\ StatusOf(h, e.proposal) = "Pending"
     /\ <<ApproversOf(h, e.proposal), e.value>> \in Allowed
  \/ /\ e.kind = "Consume"
     /\ StatusOf(h, e.proposal) = "Decided"
     /\ e.value = DecisionOf(h, e.proposal)

----------------------------------------------------------------------------
(* Lines.  A line that was not written to its end has no line break.       *)

Record(h) == [kind |-> "record", history |-> h, whole |-> TRUE]
Commit(h) == [kind |-> "commit", history |-> h, whole |-> TRUE]
Torn(line) == [line EXCEPT !.whole = FALSE]

Line == [kind : {"record", "commit"}, history : Seq(Event), whole : BOOLEAN]

CompleteLines(c) == IF c # <<>> /\ ~Last(c).whole THEN Len(c) - 1 ELSE Len(c)
Transactions(c) == CompleteLines(c) \div 2

\* Where a recoverable tail begins; there is none when this is the end.
RecoverAt(c) == 2 * Transactions(c)

Committed(c) == IF Transactions(c) = 0 THEN <<>> ELSE c[RecoverAt(c)].history

FollowsFrom(previous, h) ==
  /\ h # <<>>
  /\ Front(h) = previous
  /\ Transition(previous, Last(h))

(***************************************************************************)
(* scan_string accepts transactions that follow from one another, and then *)
(* at most the beginning of one more: part of a record, or a record that   *)
(* may follow with at most part of its own commit.                         *)
(***************************************************************************)
Scans(c) ==
  \A i \in DOMAIN c :
    /\ c[i].whole \/ i = Len(c)
    /\ \/ /\ i % 2 = 1
          /\ c[i].kind = "record"
          /\ c[i].whole => FollowsFrom(IF i = 1 THEN <<>> ELSE c[i - 1].history, c[i].history)
       \/ /\ i % 2 = 0
          /\ c[i].kind = "commit"
          /\ c[i].history = c[i - 1].history
==============================================================================
