CONSTANTS
    g = g
    a1 = a1
    a2 = a2
    b1 = b1
    b2 = b2
    b3 = b3
    NoHash = NoHash
    Branches <- MCBranches
    Txs = {1}
    Consumers = {1, 2}
    Dense = 1
    QueryLimit = 3
    Lags = {0}
    DaemonHeights = {2}
    LoadedBranches <- MCLoadedBranches
    LoadedHeights = {1, 3}
    MaxDaemonSteps = 1
    MaxStarts = 1
    MaxTroubles = 1
SPECIFICATION FairSpec
INVARIANTS ConsumersFollowOneChain IdleMeansSynchronized
PROPERTIES StopEnds Synchronizes
CHECK_DEADLOCK FALSE
