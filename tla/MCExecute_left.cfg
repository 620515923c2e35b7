SPECIFICATION FairXSpec
CONSTANTS
    x1 = x1  x2 = x2  p1 = p1  p2 = p2
    Slot = {x1}
    Entry = {1, 2}
    Suffix = {1, 2, 3}
    NoDir = NoDir
    NoSuffix = NoSuffix
    NoReport = NoReport
    Process = {p1}
    ProcessOf <- SingleProcessOf
    Engine = {"tethered"}
    LeaveBehind = TRUE
    MaxLitter = 0
    Runner = {x1}
PROPERTY EitherFiringKills
