SPECIFICATION FairSpec
CONSTANTS
    MaxBlocks = 3
    Signals <- MCSignals
    Threads <- MCThreads
    MainThread = "main"
INVARIANTS
    RowNearlyExact
    QuietRowExact
    RowBeforeExit
PROPERTIES
    QuietSignalWrites
CHECK_DEADLOCK FALSE
