\* Four tasks in up to three scopes, nested and side by side: an owner, a
\* scope it opened, a scope opened in that one.  Decisions in any order.
CONSTANTS
  MaxTasks = 4
  MaxRuns = 3
  NoTask = NoTask
  Nothing = Nothing
  Channel = {0, 1, 2}
  Registration = {}
  Capacities = {}
  RootPolicy = "Fail_fast"
  Operations = {"spawn", "await", "cancel", "scope", "fail"}
  Fifo = FALSE
SPECIFICATION Spec
INVARIANTS
  TasksAgree
  ScopesAgree
PROPERTIES
  FailFastReachesSiblings
CHECK_DEADLOCK FALSE
