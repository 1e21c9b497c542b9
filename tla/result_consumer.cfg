CONSTANTS
  MaxResults = 4
SPECIFICATION FairSpec
INVARIANTS
  TypeOK
PROPERTIES
  ImplementsAtMostOnce
  LosesOneAtMost
  EveryResultIsRead
CHECK_DEADLOCK FALSE
