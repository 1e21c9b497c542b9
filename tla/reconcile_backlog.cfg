\* A page_size that would hold every intent, cut by core-api to one.
CONSTANTS
    Slots = {s1, s2}
    PageSize = 2
    DefaultLimit = 1
    MaxLimit = 1
    MaxRetries = 1
    FailureThreshold = 3
SPECIFICATION FairSpec
PROPERTY DueIsClosed
CHECK_DEADLOCK FALSE
