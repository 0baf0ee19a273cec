CONSTANTS
    Requests <- MCRequests
    CommandLines <- MCCommandLines
    Numbers <- MCNumbers
    Ports <- MCPorts
    Messages <- MCMessages
    Files <- MCFiles
    Patterns <- MCPatterns
    Lo <- MCLo
    Hi = 127
SPECIFICATION Spec
INVARIANTS
    NothingLost
    FileNameBeforeParameter
    NumbersExact
    MessagesArrive
    PatternMeans
    LineSplit
PROPERTIES
    QueryConsumed
CHECK_DEADLOCK FALSE
