\* Sixteen integers, wait graphs of four tasks, models of three operations.
\* Reals are quarters; a random number is a twelfth, so that every total mass
\* up to four divides the draws.  Handles have at most three components.
\* An input that takes no step is the end of its behaviour.
CONSTANTS
  One = 4
  Masses = {0, 1, 4, 6}
  Keys = {1, 2}
  MaxSamples = 2
  MaxDepth = 2
  MaxOps = 3
  Half = 8
  MaxComponent = 2
  MaxWords = 6
  MaxTasks = 4
  NoTask = NoTask
  Grid = 12
  MaxOutcomes = 3
  MaxInt = 99
SPECIFICATION MCSpec
INVARIANT WalkIsExact
INVARIANT SamplingAgrees
INVARIANT TextAgrees
INVARIANT WordsAgree
INVARIANT FormsAgree
CHECK_DEADLOCK FALSE
