--------------------------- MODULE MC_MeshService ---------------------------
EXTENDS MeshService, TLC

CONSTANTS d1, d2, c1, c2

MCDevices == {d1, d2}
MCDevices1 == {d1}
MCCallers1 == {c1}
MCCallers2 == {c1, c2}

DeviceSymmetry == Permutations(MCDevices)
=============================================================================
