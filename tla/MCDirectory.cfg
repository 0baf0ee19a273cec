CONSTANTS
    ServiceId = 1
    MaxRequests = 2
SPECIFICATION Spec
INVARIANTS
    SentWhole
    BufferEndsOnce
    ViewCurrent
CHECK_DEADLOCK FALSE
