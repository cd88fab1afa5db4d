---------------------------- MODULE MCCheckpoint ----------------------------
\* Two writers of one session.  No symmetry: the run checks liveness.
EXTENDS Checkpoint

CONSTANTS w1, w2

MCWriters == {w1, w2}
=============================================================================
