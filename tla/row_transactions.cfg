\* Three writers, so that two wait while one holds the row.
CONSTANTS
  Writers = {w1, w2, w3}
  NoOne = NoOne
  Horizon = 7
  MaxHistory = 4
SPECIFICATION FairSpec
INVARIANTS
  TypeOK
  HistoryTellsThePath
PROPERTIES
  ImplementsSerialWrites
  WritesEnd
CHECK_DEADLOCK FALSE
