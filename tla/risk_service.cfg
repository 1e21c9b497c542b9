CONSTANTS
    ReviewAmount = 4
    VelocityMax = 0
    Events <- MCEvents
    Malformed = Malformed
    Uncaught = Uncaught
    NoCount = NoCount
    Consumer = Consumer
    Threads = {t1}
    Window = 1
    MaxRequests = 2
SPECIFICATION Spec
INVARIANTS
    TypeOK
    RepeatsAgree
    ScoresSeparateDecisions
PROPERTIES
    ImplementsAtLeastOnce
    ReachableIsAnswered
CHECK_DEADLOCK FALSE
