CONSTANTS
    a = a
    b = b
    Nodes <- MCNodes
    Initiators <- MCInitiators
    MaxStarts = 2
    MaxDups = 2
SPECIFICATION Spec
INVARIANT InitiatorSettles
\* The engines have no tasks of their own: once the host stops calling and every frame is processed, nothing happens.
CHECK_DEADLOCK FALSE
