------------------------------ MODULE MCSession ------------------------------
(***************************************************************************)
(* Session for TLC.                                                        *)
(***************************************************************************)
EXTENDS Session, TLC

Symmetry == Permutations(Upgraders) \cup Permutations(Writers)
=============================================================================
