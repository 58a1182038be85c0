------------------------------ MODULE MCClient ------------------------------
(***************************************************************************)
(* Client for TLC.                                                         *)
(***************************************************************************)
EXTENDS Client, TLC

(* The application closes the client once getOpen has returned. *)
AppClosesOpened == quit' # quit /\ UNCHANGED pc => pc["open"] = "done"
=============================================================================
