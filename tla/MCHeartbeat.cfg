SPECIFICATION HbSpec
CONSTANTS
    Worker = {w1}
    TTL = 2
    WorkerTimeout = 8
    SweepInterval = 7
    Gap = 2
    Delay = 1
    MaxFailures = 1
INVARIANTS HbTypeOK ReclaimedInTime
PROPERTY HealthyKeepsClaims
