SPECIFICATION HSpec
CONSTANTS
    r1 = r1  r2 = r2
    s1 = s1  s2 = s2
    u1 = u1  u2 = u2
    w1 = w1
    Run = {r1, r2}
    Submission = {s1}
    Suite = {u1, u2}
    Worker = {w1}
    Score = {10, 20}
    NoScore = NoScore
    NoWorker = NoWorker
    MaxClock = 3
    SubmissionOf <- MCSubmissionOf
    SuiteOf <- MCSuiteOf
    NumSeeds <- MCNumSeeds
INVARIANTS TypeOK CleanSlate OneOutcome SealedOnceUsed HandledOncePerRun
PROPERTIES SettledRowsStay LedgerSpec LatestPrioritizedFirst
