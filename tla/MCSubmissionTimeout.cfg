SPECIFICATION SubmissionSpec
CONSTANTS
    Threads = {t1, t2}
    total_count = 6
    batch_size = 2
    num_shards = 2
    block_sizes = {4}
    capacity = 8
    MAX_NODES = 256
    MAX_SHARDS = 64
    verify = FALSE
    Unsigned = {}
    MaxTimeouts = 1
    None = None
SYMMETRY Symmetry
INVARIANTS
    EveryBatchSent
