SPECIFICATION SubmissionSpec
CONSTANTS
    Threads = {t1, t2, t3}
    total_count = 7
    batch_size = 2
    num_shards = 3
    block_sizes = {2, 3, 4, 5}
    capacity = 4
    MAX_NODES = 256
    MAX_SHARDS = 64
    verify = TRUE
    Unsigned = {1}
    MaxTimeouts = 2
    None = None
SYMMETRY Symmetry
INVARIANTS
    SubmissionTypes
    NeverOvercounted
    CountsAllWithoutTimeout
    OneRequestPerSocket
    DispatchedOnce
    BlockSizes
    NoneRefused
