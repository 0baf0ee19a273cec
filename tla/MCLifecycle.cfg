\* Two console handler threads and two workers.
CONSTANTS
    Handlers = {h1, h2}
    WorkerCount = 2
SPECIFICATION FairSpec
INVARIANTS
    TypeOK
    NothingOutlivesItsOwner
    FirstQuitIsSafe
    ReturnsReleased
PROPERTIES
    StopsWhenTold
CHECK_DEADLOCK FALSE
