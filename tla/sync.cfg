CONSTANTS
    g = g
    a1 = a1
    a2 = a2
    b1 = b1
    b3 = b3
    m1 = m1
    p1 = p1
    p2 = p2
    Peers = {p1, p2}
    Blocks = {g, a1, a2, b1, b3, m1}
    Genesis = g
    Branch <- MCBranch
    PeerTop <- MCPeerTop
    SwitchTop <- MCSwitchTop
    OwnBlocks = {m1}
    MaxIds = 4
    MaxObjects = 2
    MaxLost = 1
SPECIFICATION FairSpec
INVARIANTS OneExchange HonestPeersKept
PROPERTIES CatchesUp
