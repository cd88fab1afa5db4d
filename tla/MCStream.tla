------------------------------ MODULE MCStream ------------------------------
\* Two sockets on one session and its view.  Neither socket is special.
EXTENDS Stream, TLC

CONSTANTS c1, c2

MCClients == {c1, c2}
Symmetry == Permutations(MCClients)
=============================================================================
