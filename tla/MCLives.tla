------------------------------- MODULE MCLives -------------------------------
\* A request and a socket beside the idle sleeper; at most two sessions live,
\* of three.  No symmetry: the run checks liveness.
EXTENDS Lives

CONSTANTS s1, s2, s3, h1, c1, sleeper

MCIds == {s1, s2, s3}
MCOld == {s2}
MCHandlers == {h1}
MCClients == {c1}
=============================================================================
