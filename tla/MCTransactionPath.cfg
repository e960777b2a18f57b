SPECIFICATION PathSpec
CONSTANTS
    name = name
    padded = padded
    long = long
    hex = hex
    k1 = k1
    k2 = k2
    k3 = k3
    k4 = k4
    Key <- MCKey
    NoKey = NoKey
    Nonces <- MCNonces
    Heights <- MCHeights
    Values <- MCValues
    Fees <- MCFees
    Names <- MCNames
    Cut <- MCCut
    Trimmed <- MCTrimmed
    KeyOf <- MCKeyOf
    HexAddress <- MCHexAddress
    MaxNonce = 1
    MaxSaves = 1
    MaxTxs = 3
    par_threads = 2
    None = None
VIEW MCView
INVARIANTS
    KeyMatchesAddress
    ArrivesUnchanged
    PaysNamedWallet
    SummarySequential
PROPERTIES
    LoadsAllOrNoKey
CHECK_DEADLOCK FALSE
