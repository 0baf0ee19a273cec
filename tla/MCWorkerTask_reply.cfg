\* The same requests, one of them with a name of 220 bytes.
CONSTANTS
    Word = 16
    RealMax = 9
    Exponent7 = 4
    Spacing <- MCSpacing
    Never = 99
    TimeWord = 256
    ReaderLow <- MCReaderLow
    BarGenPreference = 0
    Symbols = {"A", "B", "C"}
    Inventory = {"A", "B"}
    Histories <- MCHistories
    Requests <- MCRequests
    NoFile = "none"
    NoQuery = NoQuery
    LockLength = 16
    RefreshLength = 80
    StatusLength = 60
SPECIFICATION Spec
INVARIANT ReplyWhole
CHECK_DEADLOCK FALSE
