CONSTANTS
    ReviewAmount = 4
    VelocityMax = 0
    Events <- MCEvents
    Malformed = Malformed
    Uncaught = Uncaught
    NoCount = NoCount
    Consumer = Consumer
    Threads = {t1}
    Window = 1
    MaxRequests = 2
SPECIFICATION Spec
INVARIANT ReadyMeansConsuming
CHECK_DEADLOCK FALSE
