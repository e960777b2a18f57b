SPECIFICATION FairSpec
CONSTANTS
    NumNodes = 4
    Stakes <- MCStakes
INVARIANTS
    DistinctWinners
    OneNodePerShard
    StakeWeighted
PROPERTIES
    ElectionEnds
