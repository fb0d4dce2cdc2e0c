---------------------------- MODULE MCUndoStore ----------------------------
EXTENDS UndoStore

CONSTANTS k1, k2, read, scene, gm

MCKeys == {k1, k2}
MCScopes == {read, scene, gm}

\* k1 is an operator key, k2 holds only `gm`.
MCKeyScopes == [k \in MCKeys |-> IF k = k1 THEN {read, scene} ELSE {gm}]
=============================================================================
