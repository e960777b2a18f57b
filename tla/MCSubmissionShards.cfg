SPECIFICATION SubmissionSpec
CONSTANTS
    Threads = {t1}
    total_count = 4
    batch_size = 2
    num_shards = 3
    block_sizes = {4}
    capacity = 8
    MAX_NODES = 4
    MAX_SHARDS = 2
    verify = FALSE
    Unsigned = {}
    MaxTimeouts = 0
    None = None
INVARIANTS
    AcceptedShardsServed
