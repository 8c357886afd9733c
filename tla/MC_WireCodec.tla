---------------------------- MODULE MC_WireCodec ----------------------------
EXTENDS WireCodec, TLC

\* Two distinct 8-byte peer ids and a signature.
MCOwnId == [i \in 1..8 |-> 1]
MCPeerId == [i \in 1..8 |-> 2]
MCSig == [i \in 1..64 |-> 7]

\* A short payload, and the lengths on either side of the 512-byte ceiling
\* for a frame with a recipient (encode length 30 + n) and for a signed
\* announce (encode length 86 + n, calculate_size 85 + n).
MCPayloadLens == {2, 426, 427, 482, 483}
MCTimestamps == {1720000000}
=============================================================================
