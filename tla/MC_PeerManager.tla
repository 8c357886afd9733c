--------------------------- MODULE MC_PeerManager ---------------------------
(* Two remote peers, our own id and two notification tasks: enough for two *)
(* tasks to announce the same peer concurrently, for an announce of our own *)
(* id, and for host calls on one peer while the other is cleaned up.       *)
EXTENDS PeerManager, TLC

CONSTANTS p1, p2, me, l1, l2

MCPeers == {p1, p2}
MCPeers1 == {p1}
MCLinks == {l1, l2}

\* Peers and tasks are interchangeable; used only for safety runs.
Symmetry == Permutations(MCPeers) \cup Permutations(MCLinks)
=============================================================================
