SPECIFICATION SubmissionSpec
CONSTANTS
    Threads = {t1, t2}
    total_count = 8
    batch_size = 2
    num_shards = 3
    block_sizes = {4}
    capacity = 8
    MAX_NODES = 256
    MAX_SHARDS = 64
    verify = FALSE
    Unsigned = {}
    MaxTimeouts = 0
    None = None
SYMMETRY Symmetry
INVARIANTS
    NothingDropped
