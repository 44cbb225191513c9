\* Decisions from the head of the queue, as without a schedule controller.
CONSTANTS
  MaxTasks = 4
  MaxRuns = 2
  NoTask = NoTask
  Nothing = Nothing
  Channel = {0, 1}
  Registration = {}
  Capacities = {}
  RootPolicy = "Fail_fast"
  Operations = {"spawn", "await", "cancel", "scope", "yield", "fail"}
  Fifo = TRUE
SPECIFICATION FairSpec
PROPERTIES
  EveryTaskGetsItsTurn
  CancellationIsServed
CHECK_DEADLOCK FALSE
