---------------------------- MODULE MCRateLimiter ----------------------------
EXTENDS RateLimiter

CONSTANTS k1, a1, MaxFailures

OneKey == {k1}
OneAddress == {a1}

\* Every counter is the first to be exhausted in some window.
MCLimit == [request |-> 2, mutation |-> 1, destructive |-> 1]

\* A bound on the failures that one window counts.
MCSpec == LimiterInit /\ [][/\ LimiterNext
                            /\ \A a \in Addresses : failedAuth'[a].count <= MaxFailures
                           ]_<<now, limiterVars>>
=============================================================================
