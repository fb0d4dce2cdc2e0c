--------------------------- MODULE MCVoiceDispatch ---------------------------
EXTENDS VoiceDispatch

CONSTANTS u1, u2, t1, t2, s1, s2, s3, d1

\* Two GMs, one tab each; the first may change sockets once.
MCSockets == {s1, s2, s3}
MCSocketTab == [s \in MCSockets |-> IF s = s3 THEN t2 ELSE t1]
MCSocketUser == [s \in MCSockets |-> IF s = s3 THEN u2 ELSE u1]
=============================================================================
