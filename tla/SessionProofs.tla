---------------------------- MODULE SessionProofs ----------------------------
(***************************************************************************)
(* Proofs about Session, for any number of upgrade requests and writers.   *)
(***************************************************************************)
EXTENDS Session, TLAPS

(* A session starts on an open polling connection with nobody on it. *)
LEMMA InitInv == Init => SessionInv
  BY PartiesDistinct
  DEF Init, SessionInv, SessionTypeOK, NotLeftPaused, CurrentIsOpen, Past,
      Conns, Users, Places, UpgradePlaces

(* Readers and writers move along their loops; the connections stay. *)
LEMMA UserInv ==
    ASSUME SessionInv, NEW g \in Users, UserStep(g)
    PROVE  SessionInv'
  <1> USE PartiesDistinct DEF SessionInv, SessionTypeOK, NotLeftPaused,
      CurrentIsOpen, Past, Conns, Users, Places, UpgradePlaces, sessionVars, upgradeVars
  <1>1. CASE TakeConn(g)
    BY <1>1 DEF TakeConn
  <1>2. CASE GetFrame(g)
    BY <1>2 DEF GetFrame
  <1>3. CASE CallPaused(g)
    BY <1>3 DEF CallPaused
  <1>4. CASE CallFails(g)
    BY <1>4 DEF CallFails
  <1>5. CASE CloseFrame(g)
    BY <1>5 DEF CloseFrame
  <1>6. CASE RequestTimesOut(g)
    BY <1>6 DEF RequestTimesOut
  <1> QED
    BY <1>1, <1>2, <1>3, <1>4, <1>5, <1>6 DEF UserStep

(* Closing the session ends what CurrentIsOpen speaks of; a client that goes
   away changes nothing else. *)
LEMMA EndInv ==
    ASSUME SessionInv, ReaderCloses \/ AppCloses \/ \E c \in Conns : Break(c)
    PROVE  SessionInv'
  <1> USE PartiesDistinct DEF SessionInv, SessionTypeOK, NotLeftPaused,
      CurrentIsOpen, Past, Conns, Users, Places, UpgradePlaces, sessionVars,
      upgradeVars, CloseSession
  <1>1. CASE ReaderCloses
    BY <1>1 DEF ReaderCloses
  <1>2. CASE AppCloses
    BY <1>2 DEF AppCloses
  <1>3. ASSUME NEW c \in Conns, Break(c)
        PROVE  SessionInv'
    BY <1>3 DEF Break
  <1> QED
    BY <1>1, <1>2, <1>3

(* An upgrade on its way: it closes its own connection or the polling one, and
   the polling one only when it is not the current one any more. *)
LEMMA UpgradeInv ==
    ASSUME SessionInv, NEW u \in Upgraders, UpgradeStep(u)
    PROVE  SessionInv'
  <1> USE PartiesDistinct DEF SessionInv, SessionTypeOK, NotLeftPaused,
      CurrentIsOpen, Past, Conns, Users, Places, UpgradePlaces, sessionVars,
      GiveUp
  <1>1. CASE Probe(u)
    BY <1>1 DEF Probe
  <1>2. CASE GetOld(u)
    BY <1>2 DEF GetOld
  <1>3. CASE PauseOld(u)
    BY <1>3 DEF PauseOld
  <1>4. CASE ReadUpgrade(u)
    BY <1>4 DEF ReadUpgrade
  <1>5. CASE UpgradeFails(u)
    BY <1>5 DEF UpgradeFails
  <1>6. CASE Swap(u)
    BY <1>6 DEF Swap
  <1>7. CASE CloseOld(u)
    BY <1>7 DEF CloseOld
  <1> QED
    BY <1>1, <1>2, <1>3, <1>4, <1>5, <1>6, <1>7 DEF UpgradeStep

LEMMA StepInv == SessionInv /\ [Next]_vars => SessionInv'
  <1> SUFFICES ASSUME SessionInv, [Next]_vars
               PROVE  SessionInv'
    OBVIOUS
  <1>1. CASE UNCHANGED vars
    BY <1>1 DEF vars, SessionInv, SessionTypeOK, NotLeftPaused, CurrentIsOpen,
                Past
  <1> QED
    BY <1>1, UserInv, EndInv, UpgradeInv DEF Next

-----------------------------------------------------------------------------
(* The inductive invariant of the session holds always. *)
THEOREM SessionInvariant == Spec => []SessionInv
  BY InitInv, StepInv, PTL DEF Spec

(* The session is type correct; s.conn is one of the connections. *)
THEOREM SessionTypeCorrect == Spec => []SessionTypeOK
  <1>1. SessionInv => SessionTypeOK
    BY DEF SessionInv
  <1> QED
    BY <1>1, SessionInvariant, PTL

(* While the session is on a paused polling connection some upgrade will swap
   or resume it (session.go:420-424, 466), however many upgrades there are. *)
THEOREM NeverLeftPaused == Spec => []NotLeftPaused
  <1>1. SessionInv => NotLeftPaused
    BY DEF SessionInv
  <1> QED
    BY <1>1, SessionInvariant, PTL

(* Until the session ends nobody has closed its current connection
   (session.go:402, 462-468). *)
THEOREM CurrentStaysOpen == Spec => []CurrentIsOpen
  <1>1. SessionInv => CurrentIsOpen
    BY DEF SessionInv
  <1> QED
    BY <1>1, SessionInvariant, PTL

(* The old connection is closed under nobody's frame that a request still waits
   for, if no upgrade was given up (session.go:417-468). *)
THEOREM OldIsClosedIdle == Spec => OldClosedIdle
  <1> DEFINE Idle == \A u \in Upgraders, g \in Users :
                        CloseOld(u) /\ at[g] = "open" /\ on[g] = old[u]
                            /\ (\A v \in Upgraders : upc[v] # "failed")
                          => g \notin held
  <1>1. SessionInv => Idle
    BY DEF SessionInv, Past, CloseOld
  <1>2. SessionInv /\ [Next]_vars => [Idle]_vars
    BY <1>1
  <1> QED
    BY <1>2, SessionInvariant, PTL DEF Spec, OldClosedIdle

-----------------------------------------------------------------------------
(* The polling connection, seen from the requests that gave its frames, is a
   gate *)

LEMMA GateInit == Init => PollGate!Init
  BY DEF Init, PollGate!Init

(* A step that leaves held and shut alone leaves the gate alone. *)
LEMMA GateStutter ==
    ASSUME UNCHANGED <<shut, held>>
    PROVE  [PollGate!Next]_(PollGate!gateVars)
  BY DEF PollGate!gateVars

(* A request enters with a frame, and leaves when the frame is closed or the
   deadline has come. *)
LEMMA GateUser ==
    ASSUME SessionInv, NEW g \in Users, UserStep(g)
    PROVE  [PollGate!Next]_(PollGate!gateVars)
  <1> USE DEF SessionInv, SessionTypeOK, sessionVars
  <1>1. CASE TakeConn(g) \/ CallPaused(g) \/ CallFails(g)
    BY <1>1, GateStutter DEF TakeConn, CallPaused, CallFails
  <1>2. CASE GetFrame(g)
    <2>1. CASE on[g] = Poll
      BY <1>2, <2>1 DEF GetFrame, PollGate!Next, PollGate!Enter
    <2>2. CASE on[g] # Poll
      BY <1>2, <2>2, GateStutter DEF GetFrame
    <2> QED
      BY <2>1, <2>2
  <1>3. CASE CloseFrame(g) \/ RequestTimesOut(g)
    <2>1. held' = held \ {g} /\ UNCHANGED shut
      BY <1>3 DEF CloseFrame, RequestTimesOut
    <2>2. CASE g \in held
      BY <2>1, <2>2 DEF PollGate!Next, PollGate!Leave
    <2>3. CASE g \notin held
      BY <2>1, <2>3, GateStutter
    <2> QED
      BY <2>2, <2>3
  <1> QED
    BY <1>1, <1>2, <1>3 DEF UserStep

(* An upgrade shuts the gate when it is empty and reopens it when it is given
   up; of several that pause, the first shuts and the first to fail reopens. *)
LEMMA GateUpgrade ==
    ASSUME SessionInv, NEW u \in Upgraders, UpgradeStep(u)
    PROVE  [PollGate!Next]_(PollGate!gateVars)
  <1> USE DEF SessionInv, SessionTypeOK, sessionVars
  <1>1. UNCHANGED held
    BY DEF UpgradeStep, Probe, GetOld, PauseOld, ReadUpgrade, UpgradeFails,
           Swap, CloseOld
  <1>2. CASE PauseOld(u)
    <2>1. CASE shut = "yes"
      BY <1>1, <1>2, <2>1, GateStutter DEF PauseOld
    <2>2. CASE shut # "yes"
      BY <1>1, <1>2, <2>2 DEF PauseOld, PollGate!Next, PollGate!Shut
    <2> QED
      BY <2>1, <2>2
  <1>3. CASE UpgradeFails(u)
    <2>1. CASE shut = "no"
      BY <1>1, <1>3, <2>1, GateStutter DEF UpgradeFails
    <2>2. CASE shut # "no"
      BY <1>1, <1>3, <2>2 DEF UpgradeFails, PollGate!Next, PollGate!Reopen
    <2> QED
      BY <2>1, <2>2
  <1>4. CASE ~PauseOld(u) /\ ~UpgradeFails(u)
    BY <1>1, <1>4, GateStutter
    DEF UpgradeStep, Probe, GetOld, ReadUpgrade, Swap, CloseOld
  <1> QED
    BY <1>2, <1>3, <1>4

LEMMA GateStep ==
    SessionInv /\ [Next]_vars => [PollGate!Next]_(PollGate!gateVars)
  <1> SUFFICES ASSUME SessionInv, [Next]_vars
               PROVE  [PollGate!Next]_(PollGate!gateVars)
    OBVIOUS
  <1>1. CASE UNCHANGED vars
    BY <1>1, GateStutter DEF vars
  <1>2. CASE ReaderCloses \/ AppCloses \/ \E c \in Conns : Break(c)
    BY <1>2, GateStutter DEF ReaderCloses, AppCloses, Break, sessionVars
  <1> QED
    BY <1>1, <1>2, GateUser, GateUpgrade DEF Next

(* What the session takes for granted of its polling connection is what the
   pauser behind it promises (PauserImplementsGate): a gate that is shut only
   while no request is inside, for any number of upgrades that pause and resume
   it without regard to each other. *)
THEOREM SessionUsesGate == Spec => UsesGate
  BY GateInit, GateStep, SessionInvariant, PTL
  DEF Spec, UsesGate, PollGate!Spec
=============================================================================
