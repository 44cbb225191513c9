\* Three tasks so that two can wait in line for the third; an unbuffered
\* channel and buffers that fill up.  Settled tasks call nothing more.
CONSTANTS
  Tasks = {t1, t2, t3}
  Capacities = {0, 1, 2}
  MaxSends = 4
SPECIFICATION Spec
INVARIANTS
  TypeOK
  NoNeedlessWait
  ChannelAgrees
PROPERTY ImplementsFifo
CHECK_DEADLOCK FALSE
