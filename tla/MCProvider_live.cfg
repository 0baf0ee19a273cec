SPECIFICATION FairSpec
CONSTANTS
    Channels = {c1, c2}
    NoChannel = NoChannel
    Capacity = 2
    MaxSessions = 1
CHECK_DEADLOCK FALSE
PROPERTY ClosedRemoved
PROPERTY CloseEndsUnlessStuck
