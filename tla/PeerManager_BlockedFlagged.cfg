\* Reproduces the race at peer_manager.rs:174: an announce inserts an unflagged entry for a peer
\* that block_peer has just blocked.
CONSTANTS
    p1 = p1
    p2 = p2
    me = me
    l1 = l1
    l2 = l2
    Peers <- MCPeers1
    OwnId <- me
    Links <- MCLinks
SPECIFICATION Spec
INVARIANT BlockedFlagged
