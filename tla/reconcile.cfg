\* A page_size that core-api cuts to two, which is every intent there may be.
CONSTANTS
    Slots = {s1, s2}
    PageSize = 3
    DefaultLimit = 2
    MaxLimit = 2
    MaxRetries = 1
    FailureThreshold = 3
SPECIFICATION FairSpec
INVARIANTS
    TypeOK
    ReportIsTrue
    NeverExpiresEarly
    CycleMissesNothing
PROPERTY DueIsClosed
CHECK_DEADLOCK FALSE
