CONSTANTS
    g = g
    a1 = a1
    a2 = a2
    a3 = a3
    b1 = b1
    b2 = b2
    b3 = b3
    c2 = c2
    d3 = d3
    e3 = e3
    p1 = p1
    p2 = p2
    q1 = q1
    q2 = q2
    t1 = t1
    t2 = t2
    t3 = t3
    k1 = k1
    k2 = k2
    Blocks <- MCBlocks
    Txs <- MCTxs
    KeyImages <- MCKeyImages
    Genesis = g
    Branch <- MCBranch
    CumulativeDifficulty <- MCDifficulty
    BlockTxs <- MCBlockTxs
    Images <- MCImages
    Ring <- MCRing
    BadReward = {}
    Oversize = {}
    Points <- NoPoints
    UnlockWindow = 2
    PoissonTrigger = 3
    AuthMayFail = TRUE
SPECIFICATION FairSpec
INVARIANTS AlternativesOutsideChain
PROPERTIES SwitchEnds
