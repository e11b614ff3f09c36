\* Safety: two copies of the worker, two events, two attempts, one outage.
SPECIFICATION Spec
CONSTANTS
    joined = joined
    assigned = assigned
    w1 = w1
    w2 = w2
    NoJob = NoJob
    Events <- MCEvents
    Type <- MCType
    Workers <- MCWorkers
    MAX_ATTEMPTS = 2
    BatchSize = 2
    StuckAfter = 0
    RetryBase = 1
    RetryCap = 2
    MaxOutages = 1
INVARIANTS
    ClaimsAreExclusive
    OneHolderUntilSwept
    NotifiesOncePerClaim
PROPERTIES
    SettledStays
    AbandonedWaitsForSweep
    KeepsPromise
SYMMETRY WorkerSymmetry
