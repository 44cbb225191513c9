\* Four small programs, each with its own blocks: one that suspends with live
\* locals, one that reuses shells, one with pairs, one with nested handlers.
\* A program that has given everything up and may ask for no more is done.
CONSTANTS
  Addr = {1, 2, 3, 4, 5, 6, 7, 8}
  Locals = {x, y}
  Nil = Nil
  Budgets <- Programs
  MaxFields = 2
  MaxKs = 3
  PoolWords = 2
  RcStatic = 4
SYMMETRY Interchangeable
SPECIFICATION Spec
INVARIANTS
  CountsAreExact
  MemoryIsSound
  NothingLeaks
PROPERTY SharedIsUnchanged
CHECK_DEADLOCK FALSE
