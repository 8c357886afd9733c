CONSTANTS
    c1 = c1
    c2 = c2
    i1 = i1
    i2 = i2
    o1 = o1
    o2 = o2
    ch1 = ch1
    p1 = p1
    r1 = r1
    Callers <- MCCallers
    InIds <- MCInIds
    Incoming <- MCIncoming
    OwnIds <- MCOwnIds
    Channels <- MCChannels
    Peers <- MCPeers
    Routes <- MCRoutes
    max_messages = 2
    MaxReceipts = 2

SPECIFICATION Spec
SYMMETRY CallerSymmetry

INVARIANT HandledOnce
