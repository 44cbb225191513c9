\* The body and three children, so that a cycle of three can have a waiter
\* outside it.  Tasks await, yield and wait for one host registration; channels
\* suspend and wake in the same way.  A closed scope whose tasks the driver has
\* let go of has nothing left to do.
CONSTANTS
  MaxTasks = 4
  NoTask = NoTask
  Nothing = Nothing
  Channel = {}
  Registration = {0}
SPECIFICATION Spec
INVARIANTS
  TypeOK
  TokenHasOneOwner
  EntriesAgree
  WaitersAreExact
  NoWaitCycle
  ClosedIsDrained
PROPERTIES
  ResultIsFinal
  WakesAreReported
  CancellationIsNotLost
CHECK_DEADLOCK FALSE
