------------------------------- MODULE MCLink -------------------------------
(* Instances of Link for TLC. *)
EXTENDS Link, TLC

CONSTANTS h1, h2

MCHomes == {h1, h2}

\* The first may dial again before its last connection is known to be gone.
MCConns == {<<h1, 1>>, <<h1, 2>>, <<h2, 1>>}

\* One of the two is written to.
MCMaxWrites == [h \in MCHomes |-> IF h = h1 THEN 1 ELSE 0]
=============================================================================
