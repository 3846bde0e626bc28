SPECIFICATION Spec
CONSTANTS
    Nobody = Nobody
    a = a
    b = b
    x = x
    y = y
    Addrs = {a, b}
    Outgoing = {x}
    Incoming = {y}
    Parties <- MCParties
    Destinations <- MCDestinations
    SoftLock = 1
    MaxTransactions = 1
    MaxBlocks = 2
    MaxTurns = 2
    MaxQueued = 2
INVARIANTS RecordsFollow 
PROPERTIES Settles
CHECK_DEADLOCK FALSE
