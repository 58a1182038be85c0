--------------------------- MODULE MCEngineServer ---------------------------
(***************************************************************************)
(* EngineServer for TLC.  Sessions differ only in the transport they came  *)
(* over.                                                                   *)
(***************************************************************************)
EXTENDS EngineServer, TLC

Symmetry == Permutations(Polled) \cup Permutations(Sids \ Polled)
                \cup Permutations(Requests)
=============================================================================
