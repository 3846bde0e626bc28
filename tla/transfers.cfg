CONSTANTS
    s1 = s1
    s2 = s2
    coinbase = coinbase
    p = p
    own = own
    other = other
    again = again
    k1 = k1
    k2 = k2
    k3 = k3
    k4 = k4
    k5 = k5
    a1 = a1
    a2 = a2
    b1 = b1
    b2 = b2
    b3 = b3
    c1 = c1
    Subs = {s1, s2}
    Tx <- MCTx
    BlockTxs <- MCBlockTxs
    Branches <- MCBranches
    Own = {own}
    BatchLimit = 2
    MaxDaemonSteps = 3
    MaxTroubles = 1
SPECIFICATION Spec
INVARIANTS ReplaysChain  ReservedForReason
CHECK_DEADLOCK FALSE
