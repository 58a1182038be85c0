------------------------------- MODULE Session -------------------------------
(***************************************************************************)
(* The session of engineio/session/session.go: one current connection that *)
(* the reading and writing goroutines use and that an upgrade swaps under  *)
(* them.  The session starts on a polling connection; each upgrade request *)
(* brings a websocket connection of its own and runs upgrading().          *)
(*                                                                         *)
(* The polling connection is taken as a gate: inside are the requests that *)
(* gave a frame and wait until it is closed, and it is shut only while     *)
(* there is none.  A request gives up waiting at its deadline, and then    *)
(* its frame is open on a connection that may be shut                      *)
(* (Pauser!ImplementsGate, Payload!PauseQuiesces).  The state of           *)
(* upgradeLocker needs no variable: each of its critical sections is one   *)
(* action.                                                                 *)
(***************************************************************************)
EXTENDS Integers, FiniteSets

CONSTANTS Upgraders,  \* the upgrade requests, each with a websocket connection
          Writers,    \* the goroutines that call NextWriter
          Reader,     \* the goroutine that calls NextReader
          Poll,       \* the polling connection
          MayClose    \* whether the server's own code calls Session.Close

ASSUME PartiesDistinct == /\ Poll \notin Upgraders
                          /\ Reader \notin Writers
ASSUME MayCloseBool == MayClose \in BOOLEAN

Conns == Upgraders \cup {Poll}
Users == Writers \cup {Reader}

VARIABLES current,  \* s.conn
          shut,     \* whether the polling connection is paused: "no" or "yes"
          closed,   \* the connections on which Close was called
          broken,   \* the connections whose client is gone or silent too long
          at,       \* where each user is
          on,       \* the connection each user took from s.conn
          held,     \* the users whose frame has a polling request waiting for it
          upc,      \* where each upgrade is
          old,      \* the connection each upgrade replaces
          ended     \* whether Session.Close was called: "no" or "yes"

vars == <<current, shut, closed, broken, at, on, held, upc, old, ended>>

(* idle: at the top of the loop; call: inside conn.NextReader or NextWriter;
   open: has a frame; failing: the call failed, about to call s.Close; closing: a
   CLOSE packet was read, about to call s.Close; stopped. *)
Places == {"idle", "call", "open", "failing", "closing", "stopped"}

(* probe: up to the pong; probed: about to look up the old connection;
   pausing: inside Pause; paused: waiting for the UPGRADE packet; swapping;
   swapped: about to close the old connection; done; failed. *)
UpgradePlaces == {"probe", "probed", "pausing", "paused", "swapping",
                  "swapped", "done", "failed"}

SessionTypeOK == /\ current \in Conns
                 /\ shut \in {"no", "yes"}
                 /\ closed \in SUBSET Conns
                 /\ broken \in SUBSET Conns
                 /\ at \in [Users -> Places]
                 /\ on \in [Users -> Conns]
                 /\ held \in SUBSET Users
                 /\ upc \in [Upgraders -> UpgradePlaces]
                 /\ old \in [Upgraders -> Conns]
                 /\ ended \in {"no", "yes"}

Init == /\ current = Poll
        /\ shut = "no"
        /\ closed = {}
        /\ broken = {}
        /\ at = [g \in Users |-> "idle"]
        /\ on = [g \in Users |-> Poll]
        /\ held = {}
        /\ upc = [u \in Upgraders |-> "probe"]
        /\ old = [u \in Upgraders |-> Poll]
        /\ ended = "no"

sessionVars == <<current, shut, closed, ended>>
upgradeVars == <<upc, old>>

-----------------------------------------------------------------------------
(* The loops of nextReader and nextWriter *)

(* The connection is taken once, when the goroutine starts. *)
TakeConnOnce(g) ==
    /\ at[g] = "idle"
    /\ at' = [at EXCEPT ![g] = "call"]
    /\ UNCHANGED <<on, held, sessionVars, broken, upgradeVars>>

(* conn := s.conn under the read lock, which is given up before the call. *)
TakeConn(g) ==
    /\ at[g] = "idle"
    /\ at' = [at EXCEPT ![g] = "call"]
    /\ on' = [on EXCEPT ![g] = current]
    /\ UNCHANGED <<held, sessionVars, broken, upgradeVars>>

(* The call gives a frame; on the polling connection it comes from a request,
   which waits for its Close. *)
GetFrame(g) ==
    /\ at[g] = "call"
    /\ on[g] \notin closed \cup broken
    /\ on[g] = Poll => shut = "no"
    /\ at' = [at EXCEPT ![g] = "open"]
    /\ held' = IF on[g] = Poll THEN held \cup {g} ELSE held
    /\ UNCHANGED <<on, sessionVars, broken, upgradeVars>>

(* The deadline of the request comes first: FeedIn or FlushOut returns and is
   counted no more, the frame stays open. *)
RequestTimesOut(g) ==
    /\ g \in held
    /\ held' = held \ {g}
    /\ UNCHANGED <<at, on, sessionVars, broken, upgradeVars>>

(* The call returns ErrPaused, a temporary error: go round the loop. *)
CallPaused(g) ==
    /\ at[g] = "call"
    /\ on[g] = Poll
    /\ shut = "yes"
    /\ at' = [at EXCEPT ![g] = "idle"]
    /\ UNCHANGED <<on, held, sessionVars, broken, upgradeVars>>

(* A reader that takes every error for a temporary one. *)
CallFailsRetries(g) ==
    /\ at[g] = "call"
    /\ on[g] \in closed \cup broken
    /\ at' = [at EXCEPT ![g] = "idle"]
    /\ UNCHANGED <<on, held, sessionVars, broken, upgradeVars>>

(* The call fails.  NextReader closes the session; a writer reports the error
   and goes on, its packet lost. *)
CallFails(g) ==
    /\ at[g] = "call"
    /\ on[g] \in closed \cup broken
    /\ at' = [at EXCEPT ![g] = IF g = Reader THEN "failing" ELSE "idle"]
    /\ UNCHANGED <<on, held, sessionVars, broken, upgradeVars>>

(* The frame is closed; after a CLOSE packet, or when the pong to a ping cannot
   be written, the reader closes the session. *)
CloseFrame(g) ==
    /\ at[g] = "open"
    /\ \/ at' = [at EXCEPT ![g] = "idle"]
       \/ g = Reader /\ at' = [at EXCEPT ![g] = "closing"]
    /\ held' = held \ {g}
    /\ UNCHANGED <<on, sessionVars, broken, upgradeVars>>

(* s.Close(): whatever connection is the current one now. *)
CloseSession == /\ closed' = closed \cup {current}
                /\ ended' = "yes"

ReaderCloses ==
    /\ at[Reader] \in {"failing", "closing"}
    /\ CloseSession
    /\ at' = [at EXCEPT ![Reader] = "stopped"]
    /\ UNCHANGED <<current, shut, broken, on, held, upgradeVars>>

(* The socket.io layer closes its connection, from any of its goroutines. *)
AppCloses ==
    /\ MayClose
    /\ ended = "no"
    /\ CloseSession
    /\ UNCHANGED <<current, shut, broken, at, on, held, upgradeVars>>

(* The client of a connection goes away; calls on it fail sooner or later. *)
Break(c) ==
    /\ c \notin broken
    /\ broken' = broken \cup {c}
    /\ UNCHANGED <<sessionVars, at, on, held, upgradeVars>>

-----------------------------------------------------------------------------
(* upgrading(t, conn) *)

(* The upgrade closes the old connection instead of its own. *)
GiveUpOld(u) == /\ closed' = closed \cup {old[u]}
                /\ upc' = [upc EXCEPT ![u] = "failed"]

(* The upgrade is given up: its own connection is closed. *)
GiveUp(u) == /\ closed' = closed \cup {u}
             /\ upc' = [upc EXCEPT ![u] = "failed"]

(* Read the client's ping, write the pong: any of the calls may fail. *)
Probe(u) ==
    /\ upc[u] = "probe"
    /\ \/ /\ u \notin broken
          /\ upc' = [upc EXCEPT ![u] = "probed"]
          /\ UNCHANGED closed
       \/ GiveUp(u)
    /\ UNCHANGED <<current, shut, ended, broken, at, on, held, old>>

(* Look up the old connection, which has to be one that can pause. *)
GetOld(u) ==
    /\ upc[u] = "probed"
    /\ old' = [old EXCEPT ![u] = current]
    /\ IF current = Poll
       THEN upc' = [upc EXCEPT ![u] = "pausing"] /\ UNCHANGED closed
       ELSE GiveUp(u)
    /\ UNCHANGED <<current, shut, ended, broken, at, on, held>>

(* Pause that returns at once. *)
PauseOldAtOnce(u) ==
    /\ upc[u] = "pausing"
    /\ shut' = "yes"
    /\ upc' = [upc EXCEPT ![u] = "paused"]
    /\ UNCHANGED <<current, closed, ended, broken, at, on, held, old>>

(* Pause returns: no request waits for a frame of the old connection. *)
PauseOld(u) ==
    /\ upc[u] = "pausing"
    /\ held = {}
    /\ shut' = "yes"
    /\ upc' = [upc EXCEPT ![u] = "paused"]
    /\ UNCHANGED <<current, closed, ended, broken, at, on, held, old>>

(* The next packet is the UPGRADE packet. *)
ReadUpgrade(u) ==
    /\ upc[u] = "paused"
    /\ u \notin broken
    /\ upc' = [upc EXCEPT ![u] = "swapping"]
    /\ UNCHANGED <<sessionVars, broken, at, on, held, old>>

(* UpgradeFails without the deferred Resume. *)
UpgradeFailsNoResume(u) ==
    /\ upc[u] = "paused"
    /\ GiveUp(u)
    /\ UNCHANGED <<current, shut, ended, broken, at, on, held, old>>

(* It is not, or it does not come: close the new connection; the deferred
   Resume opens the old one again. *)
UpgradeFails(u) ==
    /\ upc[u] = "paused"
    /\ GiveUp(u)
    /\ shut' = "no"
    /\ UNCHANGED <<current, ended, broken, at, on, held, old>>

(* A swap that installs no connection. *)
SwapNil(u) ==
    /\ upc[u] = "swapping"
    /\ current' = "nil"
    /\ upc' = [upc EXCEPT ![u] = "swapped"]
    /\ UNCHANGED <<shut, closed, ended, broken, at, on, held, old>>

(* The swap, under the write lock. *)
Swap(u) ==
    /\ upc[u] = "swapping"
    /\ current' = u
    /\ upc' = [upc EXCEPT ![u] = "swapped"]
    /\ UNCHANGED <<shut, closed, ended, broken, at, on, held, old>>

(* old.Close() *)
CloseOld(u) ==
    /\ upc[u] = "swapped"
    /\ closed' = closed \cup {old[u]}
    /\ upc' = [upc EXCEPT ![u] = "done"]
    /\ UNCHANGED <<current, shut, ended, broken, at, on, held, old>>

-----------------------------------------------------------------------------
UserStep(g) == \/ TakeConn(g)
               \/ GetFrame(g)
               \/ CallPaused(g)
               \/ CallFails(g)
               \/ RequestTimesOut(g)
               \/ CloseFrame(g)

UpgradeStep(u) == \/ Probe(u)
                  \/ GetOld(u)
                  \/ PauseOld(u)
                  \/ ReadUpgrade(u)
                  \/ UpgradeFails(u)
                  \/ Swap(u)
                  \/ CloseOld(u)

Next == \/ \E g \in Users : UserStep(g)
        \/ ReaderCloses
        \/ AppCloses
        \/ \E c \in Conns : Break(c)
        \/ \E u \in Upgraders : UpgradeStep(u)

Spec == Init /\ [][Next]_vars

(* A goroutine that can go on does: a call on a connection that is closed,
   broken or paused returns, a frame that is open is closed, and after the
   UPGRADE packet an upgrade runs to its end.  Whether a call on a living
   connection gets a frame is up to the client. *)
Fairness ==
    /\ \A g \in Users : WF_vars(TakeConn(g) \/ CallPaused(g) \/ CallFails(g)
                                    \/ CloseFrame(g))
    /\ WF_vars(ReaderCloses)
    /\ \A u \in Upgraders : WF_vars(Swap(u) \/ CloseOld(u))

FairSpec == Spec /\ Fairness

-----------------------------------------------------------------------------
(* The session is never left on a paused connection: while it is on the
   polling connection and that is shut, some upgrade is still to swap it or to
   resume it (session.go:420-424, 466). *)
NotLeftPaused ==
    current = Poll /\ shut = "yes" =>
        \E u \in Upgraders : upc[u] \in {"paused", "swapping"}

(* The old connection is closed under nobody's frame that a request still waits
   for: what Pause established holds after the UPGRADE packet was read and the
   connection swapped (session.go:417-468).  Another upgrade that is given up
   resumes the polling connection for all, so no other may have failed.  A
   frame whose request has timed out is no obstacle to Pause (payload.go:
   104-107, 168-172) and may be open. *)
OldClosedIdle ==
    [][\A u \in Upgraders, g \in Users :
          CloseOld(u) /\ at[g] = "open" /\ on[g] = old[u]
              /\ (\A v \in Upgraders : upc[v] # "failed")
            => g \notin held]_vars

(* What is taken of the polling connection is what Gate promises, with any
   number of upgrades that pause and resume it. *)
PollGate == INSTANCE Gate WITH Workers <- Users, shut <- (shut = "yes"),
                               inside <- held
UsesGate == PollGate!Spec

(* Until the session ends, its connection is not one that somebody closed:
   an upgrade swaps before it closes, and gives up only its own. *)
CurrentIsOpen == ended = "no" => current \notin closed

(* An upgrade has paused the polling connection and was not given up. *)
Past(u) == upc[u] \in {"paused", "swapping", "swapped", "done"}

(* The inductive invariant.  What CurrentIsOpen rests on: an upgrade that is
   under way replaces the polling connection and no other, has its own still
   open, and is not the current one before it swapped.  What OldClosedIdle
   rests on: the connection it paused stays shut as long as no other upgrade
   failed, and no request is inside while it is shut. *)
SessionInv ==
    /\ SessionTypeOK
    /\ NotLeftPaused
    /\ CurrentIsOpen
    /\ \A u \in Upgraders :
          /\ upc[u] # "failed" => old[u] = Poll
          /\ upc[u] # "failed" /\ ended = "no" => u \notin closed
          /\ current = u => upc[u] \in {"swapped", "done"}
          /\ upc[u] \in {"swapped", "done"} => current # Poll
    /\ (\E u \in Upgraders : Past(u)) /\ (\A v \in Upgraders : upc[v] # "failed")
          => shut = "yes"
    /\ shut = "yes" => held = {}
    /\ \A g \in held : at[g] = "open" /\ on[g] = Poll

(* At most one upgrade has swapped the connection. *)
OneSwap == \A u, v \in Upgraders :
              {upc[u], upc[v]} \subseteq {"swapped", "done"} => u = v

(* After an upgrade the reader moves to the new connection, or ends: the loop
   of nextReader takes s.conn anew after every temporary error and every
   frame (session.go:242-245).  When two upgrades both swap, it may stay on
   the first one's connection, which nobody closes. *)
ReaderFollows ==
    []OneSwap => \A u \in Upgraders :
        current = u /\ upc[u] = "done"
            ~> on[Reader] = current \/ at[Reader] = "stopped"

(* A session whose client is gone loses its reader, and with it ends, if no
   upgrade is left that could replace the connection (session.go:83-91). *)
BrokenSessionEnds ==
    []OneSwap =>
        ((current \in broken
              /\ \A u \in Upgraders : upc[u] \in {"done", "failed"})
            ~> at[Reader] = "stopped" /\ ended = "yes")
=============================================================================
