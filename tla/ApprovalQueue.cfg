\* One proposal and two decisions that compete for it.
\* Nothing stops: a caller may always call again.
CONSTANTS
  p1 = p1
  p2 = p2
  a1 = a1
  a2 = a2
  b1 = b1
  anyone = anyone
  onlyFirst = onlyFirst
  d1 = d1
  d2 = d2
  Process = {p1, p2}
  Actor = {a1, a2, b1}
  ProcessOf <- MCTwoProcesses
  Proposal = {proposal}
  Approvers = {anyone}
  Decision = {d1, d2}
  Allowed <- MCOpenToBoth
  MaxLines = 6
  Nobody = Nobody
  Nothing = Nothing
SPECIFICATION Spec
INVARIANTS
  OneActorAtATime
  JournalAlwaysScans
  ToldIsDurable
PROPERTY ImplementsSingleUse
