SPECIFICATION HSpec
CONSTANTS
    r1 = r1  r2 = r2  r3 = r3
    s1 = s1  s2 = s2
    u1 = u1
    w1 = w1
    c1 = c1  c2 = c2
    Run = {r1, r2, r3}
    Submission = {s1, s2}
    Suite = {u1}
    Worker = {w1}
    Call = {c1, c2}
    Score = {10}
    NoScore = NoScore
    NoWorker = NoWorker
    NULL = NULL
    MaxClock = 2
    SubmissionOf <- MCSubmissionOf
    SuiteOf <- MCSuiteOf
    NumSeeds <- MCNumSeeds
    Serves <- MCServes
    Posted <- MCPosted
INVARIANTS HandlersTypeOK WholeSubmissions EdgesAreLoaded
PROPERTY QueueSpec
SYMMETRY Exchange
CHECK_DEADLOCK FALSE
