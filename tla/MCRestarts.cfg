SPECIFICATION RestartSpec
CONSTANTS
    NumShards = 3
    Tx <- MCTx
    Nonce <- MCNonce
    MaxBatch = 1
    MaxRounds = 2
    DoneHwm = 1
    SubWaitSuffices = TRUE
    MaxDispatches = 2
    MaxRestarts = 2
INVARIANTS
    OneSummaryPerShard
    NothingTwice
    LockStep
    AnswersInv
CHECK_DEADLOCK FALSE
