\* Three tasks and three registrations, so that a task can register again after
\* a wake; replays of one decision or two, made up or recorded.
CONSTANTS
  MaxTasks = 3
  NoTask = NoTask
  Nothing = Nothing
  Channel = {}
  Registration = {0, 1, 2}
  MaxReplay = 2
SPECIFICATION HostSpec
INVARIANTS
  OwnershipIsExact
  ReplayIsThePoll
PROPERTY WakesReachTheCaller
CHECK_DEADLOCK FALSE
