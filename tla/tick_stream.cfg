\* Two schedulers, one replacing the other; a window of two units, so that a
\* tick may be fired at its start or at its end.
CONSTANTS
  Schedulers = {s1, s2}
  Interval = 2
  SendDelay = 1
  MaxBacklog = 3
SPECIFICATION FairSpec
INVARIANTS
  TypeOK
  
PROPERTIES
  WindowRunsOnce
  CommittedWasHandled
  CyclesGoOn
CHECK_DEADLOCK FALSE
