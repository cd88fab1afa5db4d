------------------------------- MODULE MCUsers -------------------------------
(* Instances of Users for TLC.  Addresses, ids and processes are model values. *)
EXTENDS Users, TLC

\* Ids are drawn at random, and only compared.
MCSymmetry == Permutations(Ids)
=============================================================================
