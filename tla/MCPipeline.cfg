SPECIFICATION PipelineSpec
CONSTANTS
    Threads = {t1, t2}
    total_count = 6
    batch_size = 2
    num_shards = 2
    block_sizes = {2, 4}
    capacity = 8
    MAX_NODES = 256
    MAX_SHARDS = 64
    verify = TRUE
    Unsigned = {0, 1}
    MaxTimeouts = 1
    None = None
    base_nonce = 1
    NumShards = 2
    Tx <- MCTx
    Nonce <- MCNonce
    MaxBatch = 8
    SubWaitSuffices = TRUE
    MaxRounds = 3
    DoneHwm = 1
INVARIANTS
    NothingDropped
    BlocksMatchPool
    InBlocksOnce
PROPERTIES
    EveryAcceptedInBlock
    GeneratorEnds
