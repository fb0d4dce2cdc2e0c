---------------------------- MODULE MCWorldUndo ----------------------------
EXTENDS WorldUndo, TLC

CONSTANTS r1, r2, u1, u2, a1, a2, i1, i2, t1, s1, s2, v1, v2

\* An actor with an item and a token on the active of two scenes; the image of
\* its prototype is not set.  Ids of another actor and another item are unused.
MCOwner == (i1 :> a1) @@ (i2 :> a1) @@ (t1 :> s1)
MCSubject == t1 :> a1
MCStart ==
  (a1 :> [img |-> v1, proto |-> Absent]) @@ (a2 :> Gone) @@ (i1 :> [system |-> v1]) @@ (i2 :> Gone)
  @@ (t1 :> [src |-> v1]) @@ (s1 :> <<>>) @@ (s2 :> <<>>) @@ (Stage :> [active |-> s1])

\* Something overwrites the image of the other actor with v2.
MCDerived == {<<a2, "img">>}
MCPrepared == [v \in Values \cup {Absent} |-> v2]

Symmetry == Permutations(Calls) \cup Permutations(Undos)
=============================================================================
