------------------------------ MODULE MCJobQueue ------------------------------
\* A small repair queue for TLC: two segments in one queue, which holds both or only
\* one of them, and in queues of their own.
EXTENDS JobQueue, TLC

CONSTANTS s1, s2, p1, p2

Config(a, b, limit) == [placement |-> s1 :> a @@ s2 :> b, maxItems |-> limit]

MCConfigs == {Config(p1, p1, 1), Config(p1, p1, 2), Config(p1, p2, 1)}
=============================================================================
