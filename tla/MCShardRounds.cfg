SPECIFICATION FairSpec
CONSTANTS
    NumShards = 3
    Tx <- TwoTx
    Nonce <- TwoNonce
    MaxBatch = 2
    MaxRounds = 2
    DoneHwm = 1
    SubWaitSuffices = TRUE
INVARIANTS
    BlocksExact
    RoundAgreement
    HeaderAligned
    NeverStarved
    LockStep
    LogInv
PROPERTIES
    EveryRoundFinalized
    ImplementsBlockLog
