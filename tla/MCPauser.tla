------------------------------ MODULE MCPauser ------------------------------
(***************************************************************************)
(* Pauser for TLC: workers and pausers are interchangeable model values.   *)
(* Symmetry is used only where no temporal property is checked.            *)
(***************************************************************************)
EXTENDS Pauser, TLC

Symmetry == Permutations(Workers) \cup Permutations(Pausers)
=============================================================================
