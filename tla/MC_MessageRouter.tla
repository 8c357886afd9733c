--------------------------- MODULE MC_MessageRouter ---------------------------
EXTENDS MessageRouter, TLC

CONSTANTS c1, c2, i1, i2, o1, o2, ch1, p1, r1

MCCallers == {c1, c2}
MCInIds == {i1, i2}
MCOwnIds == {o1, o2}
MCChannels == {ch1}
MCPeers == {p1}
MCRoutes == {r1}

\* A broadcast relayed from the mesh, and a delivery receipt, which is
\* never relayed.
MCIncoming ==
    [i \in MCInIds |-> IF i = i1 THEN Msg(i1, "Broadcast", NoChannel, 6, "Sent")
                       ELSE Msg(i2, "DeliveryReceipt", NoChannel, 6, "Sent")]
\* The command tasks are interchangeable.
CallerSymmetry == Permutations(MCCallers)
=============================================================================
