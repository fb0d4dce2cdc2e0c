--------------------------- MODULE MCAdminConsole ---------------------------
EXTENDS AdminConsole, TLC

CONSTANTS t1, t2, g, c1, c2, k1, k2, k3

\* Two tabs of one GM.
MCUserOf == (t1 :> g) @@ (t2 :> g)

Symmetry == Permutations(Tabs) \cup Permutations(Commands)
=============================================================================
