--------------------------- MODULE MCCanvasTools ---------------------------
EXTENDS CanvasTools, TLC

CONSTANTS g1, g2, c1, u1, t1, t2, t3, s1, s2

\* Two tokens on one scene, and one to be placed.
MCStart == (t1 :> s1) @@ (t2 :> s1) @@ (t3 :> None)
=============================================================================
