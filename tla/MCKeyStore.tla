----------------------------- MODULE MCKeyStore -----------------------------
EXTENDS KeyStore, TLC

CONSTANTS k1, k2, c1, c2

TwoKeys == {k1, k2}
OneCall == {c1}
TwoCalls == {c1, c2}

\* keys.json, keys.json.tmp and an open file that has lost its name.
MCInodes == 1..3

\* Key ids and calls are interchangeable.
Symmetry == Permutations(Keys) \cup Permutations(Calls)
=============================================================================
