SPECIFICATION Spec
CONSTANTS
    BlockLen = 2
    ChunkLen = 4
    Keys <- MCKeys
    MaxLen = 34
    MaxPiece = 9
INVARIANTS
    StackBounded
    SplitIndependent
    DigestCommits
