--------------------------- MODULE SingleUseApproval ---------------------------
(***************************************************************************)
(* What the approval queue promises: a proposal is submitted once, decided *)
(* once, and its decision is consumed once and delivered at most once.     *)
(***************************************************************************)
EXTENDS Naturals, Sequences

CONSTANTS Proposal, Decision, Nothing

VARIABLES status,      \* of each proposal
          decision,    \* of each proposal, or Nothing
          deliveries   \* the decisions handed to a caller, in order

approvalVars == <<status, decision, deliveries>>

ApprovalInit ==
  /\ status = [p \in Proposal |-> "Absent"]
  /\ decision = [p \in Proposal |-> Nothing]
  /\ deliveries = <<>>

SubmitOnce(p) ==
  /\ status[p] = "Absent"
  /\ status' = [status EXCEPT ![p] = "Pending"]
  /\ UNCHANGED <<decision, deliveries>>

DecideOnce(p, d) ==
  /\ status[p] = "Pending"
  /\ status' = [status EXCEPT ![p] = "Decided"]
  /\ decision' = [decision EXCEPT ![p] = d]
  /\ UNCHANGED deliveries

ConsumeOnce(p) ==
  /\ status[p] = "Decided"
  /\ status' = [status EXCEPT ![p] = "Stale"]
  /\ UNCHANGED <<decision, deliveries>>

\* Only what was consumed is delivered; it may also be lost on the way.
DeliverAtMostOnce(p) ==
  /\ status[p] = "Stale"
  /\ \A i \in DOMAIN deliveries : deliveries[i].proposal # p
  /\ deliveries' = Append(deliveries, [proposal |-> p, decision |-> decision[p]])
  /\ UNCHANGED <<status, decision>>

ApprovalNext ==
  \E p \in Proposal :
    \/ SubmitOnce(p)
    \/ \E d \in Decision : DecideOnce(p, d)
    \/ ConsumeOnce(p)
    \/ DeliverAtMostOnce(p)

ApprovalSpec == ApprovalInit /\ [][ApprovalNext]_approvalVars
==============================================================================
