------------------------- MODULE MC_NoiseHandshake -------------------------
EXTENDS NoiseHandshake, TLC

CONSTANTS a, b

\* Two engines; only a's host starts handshakes.
MCNodes == {a, b}
MCInitiators == {a}
=============================================================================
