SPECIFICATION FairHubSpec
CONSTANTS
    Tab = {t1}
    Buffer = 1
    Pipe = 1
    Slots = {1, 2}
    MaxVersion = 5
    MaxDrops = 1
INVARIANTS HubTypeOK NudgeUnderWay
PROPERTY ChangesAreRead
