\* One device, two host callers sharing two start()/stop() calls: two
\* concurrent start() calls both pass the is_running check and each spawns
\* an event loop.
CONSTANTS
    d1 = d1
    d2 = d2
    c1 = c1
    c2 = c2
    Devices <- MCDevices1
    Callers <- MCCallers2
    MaxCalls = 2
    MaxQueue = 1
    MAX_PEER_CONNECTIONS = 8
SPECIFICATION Spec
INVARIANT TypeOK NoDuplicateConnect
PROPERTY ConnectionsEventuallyPruned
\* Behaviours end when the host-call bound is used up and the radio is off.
CHECK_DEADLOCK FALSE
