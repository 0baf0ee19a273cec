SPECIFICATION Spec
CONSTANTS
    Channels = {c1, c2, c3}
    NoChannel = NoChannel
    Capacity = 2
    MaxSessions = 2
CHECK_DEADLOCK FALSE
SYMMETRY Symmetry
INVARIANT TypeOK
INVARIANT ActivationFits
INVARIANT ActiveHasClient
INVARIANT AcceptedOnce
INVARIANT SelectWorks
INVARIANT PendingWatched
