-------------------------------- MODULE Gate --------------------------------
(***************************************************************************)
(* What a pauser promises to the code around it, without locks, condition  *)
(* variables or channels: a gate.  Calls enter while the gate is not shut, *)
(* leave whenever they are done, and the gate is shut only at a moment when *)
(* nobody is inside.  Pauser implements it (Pauser!GateSpec).              *)
(***************************************************************************)
EXTENDS Naturals

CONSTANT Workers

VARIABLES shut,     \* BOOLEAN: nobody may enter
          inside    \* the workers that entered and have not left

gateVars == <<shut, inside>>

Init == /\ shut = FALSE
        /\ inside = {}

Enter(w) == /\ ~shut
            /\ w \notin inside
            /\ inside' = inside \cup {w}
            /\ UNCHANGED shut

Leave(w) == /\ w \in inside
            /\ inside' = inside \ {w}
            /\ UNCHANGED shut

Shut == /\ ~shut
        /\ inside = {}
        /\ shut' = TRUE
        /\ UNCHANGED inside

Reopen == /\ shut
          /\ shut' = FALSE
          /\ UNCHANGED inside

Next == \/ \E w \in Workers : Enter(w) \/ Leave(w)
        \/ Shut
        \/ Reopen

Spec == Init /\ [][Next]_gateVars
=============================================================================
