\* One console handler thread.
CONSTANTS
    Handlers = {h1}
    WorkerCount = 1
SPECIFICATION FairSpec
PROPERTY RunReturns
CHECK_DEADLOCK FALSE
