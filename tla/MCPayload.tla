------------------------------ MODULE MCPayload ------------------------------
(***************************************************************************)
(* Payload for TLC.  The runs take the two halves of the payload apart     *)
(* (they share the pauser, the error, the deadline and the close channel)  *)
(* and together with the ponger, which couples them.                       *)
(***************************************************************************)
EXTENDS Payload, TLC

Symmetry == Permutations(Feeders) \cup Permutations(Flushers)
                \cup Permutations(Pausers) \cup Permutations(Writers \ Pongers)

(* Only one half is in use.  Where it is the writing half the bodies of the
   requests that never come make no difference, and a new deadline is set only
   with a GET and a writer left over. *)
Unused(x) == pc[x] = "idle" /\ ret[x] = "none"
OneHalf == \/ \A x \in Flushers \cup Writers : Unused(x)
           \/ /\ \A x \in Feeders \cup Readers : Unused(x)
              /\ \A f \in Feeders : body[f].left = 0 /\ body[f].tail = "eof"
              /\ arms > 0 => /\ \E f \in Flushers : Unused(f)
                             /\ \E x \in Writers : Unused(x)

(* While no POST comes and the reader waits for one there are a second GET and
   a second upgrade, which resumes under the first; otherwise one of each. *)
CONSTANT Spare
UpgradesOverlap ==
    \/ /\ \A f \in Feeders : Unused(f) /\ body[f].left = 0
       /\ \A r \in Readers : pc[r] = "await"
    \/ /\ gen <= 1
       /\ \A x \in Spare \cap Workers : Unused(x)
       /\ \A p \in Spare \cap Pausers : call[p] = "idle"
=============================================================================
