CONSTANTS
    p1 = p1
    p2 = p2
    me = me
    l1 = l1
    l2 = l2
    Peers <- MCPeers1
    OwnId <- me
    Links <- MCLinks
SPECIFICATION Spec
INVARIANT TypeOK
PROPERTY EvictionProgress
