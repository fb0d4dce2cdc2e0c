------------------------------ MODULE MCKeyLoss ------------------------------
EXTENDS KeyLoss, TLC

CONSTANTS k1, k2, c1, c2

\* keys.json, keys.json.tmp and an open file that has lost its name.
MCInodes == 1..3

\* Key ids and calls are interchangeable.
Symmetry == Permutations(Keys) \cup Permutations(Calls)
=============================================================================
