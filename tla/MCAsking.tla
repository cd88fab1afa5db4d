------------------------------ MODULE MCAsking ------------------------------
(***************************************************************************)
(* Asking for TLC: one program a person may answer about, two turns.          *)
(***************************************************************************)
EXTENDS Asking
=============================================================================
