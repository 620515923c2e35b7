SPECIFICATION FairXSpec
CONSTANTS
    x1 = x1  x2 = x2  p1 = p1  p2 = p2
    Slot = {x1, x2}
    Entry = {1, 2}
    Suffix = {1, 2, 3}
    NoDir = NoDir
    NoSuffix = NoSuffix
    NoReport = NoReport
    Process = {p1, p2}
    ProcessOf <- SharedProcessOf
    Engine = {"tethered"}
    LeaveBehind = TRUE
    MaxLitter = 1
    Runner = {x1}
INVARIANTS XTypeOK WholeBundle KilledIsNamed
PROPERTIES SlotsComeBack LifeSpec
