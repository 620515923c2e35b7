SPECIFICATION EndlessSpec
CONSTANTS
    r1 = r1  r2 = r2
    s1 = s1  s2 = s2
    u1 = u1
    w1 = w1  w2 = w2
    Run = {r1}
    Submission = {s1}
    Suite = {u1}
    Worker = {w1, w2}
    Score = {10}
    NoScore = NoScore
    NoWorker = NoWorker
    MaxClock = 1
    SubmissionOf <- OneSubmissionOf
    SuiteOf <- OneSuiteOf
    NumSeeds <- OneNumSeeds
    Concurrency = 1
    Mortal = {w1}
    Faults = {"suspect", "delay", "leave_behind"}
    Interventions = {"cancel", "retry"}
    MaxBudget = 3
INVARIANT ClaimsAreHeld
PROPERTIES EveryRunSettles OrphansRecovered CancelStops
CHECK_DEADLOCK FALSE
