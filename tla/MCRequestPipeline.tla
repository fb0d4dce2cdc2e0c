-------------------------- MODULE MCRequestPipeline --------------------------
EXTENDS RequestPipeline, TLC

CONSTANTS r1, r2, k1, k2, a1, look, delete

TwoRequests == {r1, r2}
TwoKeys == {k1, k2}
OneAddress == {a1}

\* One call of each kind in a window.
MCLimit == [c \in Counters |-> 1]

\* A tool that reads and one that deletes; k2 may only read.
TwoTools == {look, delete}
MCKind == look :> "request" @@ delete :> "destructive"
MCMayCall == {<<k1, look>>, <<k1, delete>>, <<k2, look>>}

\* k1 is there from the start and expires; k2 may be issued later.
MCExpiresAt == k1 :> 1
MCInitialKeys == <<k1>>

\* Requests differ in nothing but their names.
Symmetry == Permutations(Requests)
=============================================================================
