\* A session with two stream ids and up to two item requests.
CONSTANTS
    Streams = {s1, s2}
    NoStream = NoStream
    MaxRequests = 2
SPECIFICATION Spec
SYMMETRY Symmetry
INVARIANTS
    TypeOK
    TokenOwnerInFlight
    WaitingAccounted
    TokensWanted
    ClosedNotAnswered
    LoginHeldByConsumer
CHECK_DEADLOCK FALSE
