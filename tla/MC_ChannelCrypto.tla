-------------------------- MODULE MC_ChannelCrypto --------------------------
EXTENDS ChannelCrypto, TLC

CONSTANTS c1, c2, ch1, pw1, pw2, z

\* Every salt in the program is the zero salt of from_password.
MCSalts == {z}

\* Two-byte keys, distinct per password: the SHA-256 output cut to the
\* width that still makes a three-byte plaintext wrap around the key.
MCDerive == [x \in {pw1, pw2} \X MCSalts |-> IF x[1] = pw1 THEN <<5, 9>> ELSE <<6, 3>>]

\* A plaintext shorter than the key and one longer, with a byte near 255.
MCPlaintexts == {<<250>>, <<1, 250, 3>>}

CallerSymmetry == Permutations({c1, c2})
=============================================================================
