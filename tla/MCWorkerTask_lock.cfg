\* The same requests; the lock of an item without permission data.
CONSTANTS
    Word = 16
    RealMax = 9
    Exponent7 = 4
    Spacing <- MCSpacing
    Never = 99
    TimeWord = 256
    ReaderLow <- MCReaderLow
    BarGenPreference = 0
    Symbols = {"A", "B", "C"}
    Inventory = {"A", "B"}
    Histories <- MCHistories
    Requests <- MCRequests
    NoFile = "none"
    NoQuery = NoQuery
    LockLength = 16
    RefreshLength = 80
    StatusLength = 60
SPECIFICATION Spec
INVARIANT LockOfItem
CHECK_DEADLOCK FALSE
