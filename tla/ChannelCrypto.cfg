CONSTANTS
    Callers = {c1, c2}
    Channels = {ch1}
    Passwords = {pw1, pw2}
    c1 = c1  c2 = c2  ch1 = ch1  pw1 = pw1  pw2 = pw2  z = z
    ZeroSalt = z
    Salts <- MCSalts
    Derive <- MCDerive
    Plaintexts <- MCPlaintexts
SPECIFICATION Spec
SYMMETRY CallerSymmetry
INVARIANT TypeOK
INVARIANT CipherRoundTrip
