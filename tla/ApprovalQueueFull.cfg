\* Two proposals and a journal with room for five of their six transactions
\* and for the record of the sixth, but not for its commit;
\* of two decisions the approver list admits one; one domain.
CONSTANTS
  p1 = p1
  p2 = p2
  a1 = a1
  a2 = a2
  b1 = b1
  anyone = anyone
  onlyFirst = onlyFirst
  d1 = d1
  d2 = d2
  Process = {p1}
  Actor = {a1}
  ProcessOf <- MCOneProcess
  Proposal = {first, second}
  Approvers = {onlyFirst}
  Decision = {d1, d2}
  Allowed <- MCOpenToFirst
  MaxLines = 11
  Nobody = Nobody
  Nothing = Nothing
SPECIFICATION Spec
INVARIANT JournalAlwaysScans
