SPECIFICATION FairSpec
CONSTANTS
    joined = joined
    assigned = assigned
    w1 = w1
    w2 = w2
    NoJob = NoJob
    Events <- MCOneEvent
    Type <- MCOneType
    Workers <- MCWorkers
    MAX_ATTEMPTS = 3
    BatchSize = 1
    StuckAfter = 1
    RetryBase = 1
    RetryCap = 2
    MaxOutages = 2
PROPERTIES
    EventuallySettled
