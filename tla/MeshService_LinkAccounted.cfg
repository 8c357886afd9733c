CONSTANTS
    d1 = d1
    d2 = d2
    c1 = c1
    c2 = c2
    Devices <- MCDevices
    Callers <- MCCallers1
    MaxCalls = 3
    MaxQueue = 1
    MAX_PEER_CONNECTIONS = 1
SPECIFICATION Spec
INVARIANT LinkAccounted
CHECK_DEADLOCK FALSE
