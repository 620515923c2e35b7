SPECIFICATION Spec
CONSTANTS
    c1 = c1  c2 = c2
    Call = {c1, c2}
    NULL = NULL
    NoScore = NoScore
    Scale = 12
    MaxSuites = 2
    MaxCreated = 1
    MaxSubmissions = 2
    MaxRuns = 4
    RetryBelow = 3
    SeedLists <- MCSeedLists
    Serves <- MCServes
    Posted <- MCPosted
INVARIANTS
    ConsoleTypeOK OneChallengePerVersion SealedIffUsed ListingIsWhole QueueAddsUp
    BoardIsRanked LeaderIsCompared PValueTellsTies DistributionsLineUp
    PageKeepsRanking StatsAgree
CHECK_DEADLOCK FALSE
