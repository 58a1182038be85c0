---------------------------- MODULE MCConnection ----------------------------
(***************************************************************************)
(* Connection for TLC.                                                     *)
(***************************************************************************)
EXTENDS Connection, TLC

Symmetry == Permutations(Conns) \cup Permutations(Senders)

(* The client stays in the root namespace, which broadcasts go to, and connects
   to and disconnects from the others. *)
RootStays ==
    /\ \A s \in Senders : to[s] = Root
    /\ \A c \in Conns : Root \in nss[c] \/ pc[c]["main"] = "start"
    /\ \A c \in Conns : pc[c]["read"] \in {"leave", "leaving", "delete", "deleting"}
                           => arg[c]["read"] # Root
=============================================================================
