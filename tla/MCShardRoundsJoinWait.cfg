SPECIFICATION Spec
CONSTANTS
    NumShards = 2
    Tx <- TwoTx
    Nonce <- TwoNonce
    MaxBatch = 1
    MaxRounds = 1
    DoneHwm = 1
    SubWaitSuffices = FALSE
INVARIANTS
    AllJoinedBeforePublish
CHECK_DEADLOCK FALSE
