SPECIFICATION ESpec
CONSTANTS
    r1 = r1  r2 = r2
    s1 = s1  s2 = s2
    u1 = u1
    w1 = w1  w2 = w2
    Run = {r1, r2}
    Submission = {s1, s2}
    Suite = {u1}
    Worker = {w1, w2}
    Score = {10}
    NoScore = NoScore
    NoWorker = NoWorker
    MaxClock = 3
    SubmissionOf <- TwoSubmissionOf
    SuiteOf <- TwoSuiteOf
    NumSeeds <- TwoNumSeeds
    Concurrency = 1
    Mortal = {w1, w2}
    Faults = {"restart", "lose_claim", "lose_report", "delay"}
    Interventions = {"cancel", "prioritize"}
    MaxBudget = 2
INVARIANTS PoolTypeOK SingleExecution
CHECK_DEADLOCK FALSE
