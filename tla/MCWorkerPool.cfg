\* Two workers, pipes of one message: full pipes, blocked senders and
\* aborts that find a pipe full all happen.  Without symmetry, which is not
\* sound for the liveness properties.
CONSTANTS
    Workers = {w1, w2}
    HWM = 1
    OpenWindow = 1
    MaxRequests = 4
SPECIFICATION FairSpec
INVARIANTS
    TypeOK
    NoLostWakeup
    AbortReachesAll
    GridlockNeedsOverrun
PROPERTIES
    RequestsSettle
    ShutdownEnds
    Dispatches
CHECK_DEADLOCK FALSE
