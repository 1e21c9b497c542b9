\* Three goroutines and the code's threshold: reports of calls admitted before
\* a trip reach a half-open and a closed breaker.
CONSTANTS
  Callers = {c1, c2, c3}
  FailureThreshold = 3
  ResetTimeout = 2
SPECIFICATION FairSpec
INVARIANTS
  TypeOK
PROPERTIES
  ImplementsStreakBreaker
  Recovers
  OutageIsNoticed
CHECK_DEADLOCK FALSE
