\* Four tasks in two scopes, each with a channel, unbuffered or of one slot;
\* a collecting root keeps its children running past failures.
CONSTANTS
  MaxTasks = 4
  MaxRuns = 2
  NoTask = NoTask
  Nothing = Nothing
  Channel = {0, 1}
  Registration = {}
  Capacities = {0, 1}
  RootPolicy = "Collect"
  Operations = {"spawn", "cancel", "channel", "scope", "fail"}
  Fifo = FALSE
SPECIFICATION Spec
INVARIANT ChannelsAgree
CHECK_DEADLOCK FALSE
