SPECIFICATION Spec
CONSTANTS
    Channels = {c1, c2}
    NoChannel = NoChannel
    Capacity = 2
    MaxSessions = 2
CHECK_DEADLOCK FALSE
SYMMETRY Symmetry
INVARIANT ReplyRouted
