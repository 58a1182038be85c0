---------------------------- MODULE PauserProofs ----------------------------
(***************************************************************************)
(* Proofs about Pauser, for every finite set of workers, every set of      *)
(* pausers and every number of Resume calls.  PauserInv is inductive; its  *)
(* conjuncts are the safety properties the runs check, and from it follows *)
(* that the pauser implements the gate.                                    *)
(***************************************************************************)
EXTENDS Pauser, FiniteSetTheorems, TLAPS

(* Broadcast only moves calls from waiting to woken (pauser.go:53, 83). *)
LEMMA BroadcastType ==
    ASSUME NEW c \in [Pausers -> Calls]
    PROVE  Broadcast(c) \in [Pausers -> Calls]
  BY DEF Broadcast, Calls

(* Counting a worker in: the cardinality grows by one (pauser.go:72). *)
LEMMA CountIn ==
    ASSUME busy \in SUBSET Workers, NEW w \in Workers, w \notin busy,
           worker = Cardinality(busy)
    PROVE  worker + 1 = Cardinality(busy \cup {w})
  <1>1. IsFiniteSet(busy)
    BY WorkersFinite, FS_Subset
  <1> QED
    BY <1>1, FS_AddElement

(* Counting a worker out: the count was not 0 and falls by one
   (pauser.go:79-82). *)
LEMMA CountOut ==
    ASSUME busy \in SUBSET Workers, NEW w \in busy,
           worker = Cardinality(busy)
    PROVE  /\ worker \in Nat
           /\ worker # 0
           /\ worker - 1 = Cardinality(busy \ {w})
  <1>1. IsFiniteSet(busy)
    BY WorkersFinite, FS_Subset
  <1>2. worker \in Nat /\ (worker = 0 <=> busy = {})
    BY <1>1, FS_CardinalityType, FS_EmptySet
  <1>3. Cardinality(busy \ {w}) = Cardinality(busy) - 1
    BY <1>1, FS_RemoveElement
  <1> QED
    BY <1>2, <1>3

(* Nobody is counted exactly when nobody is at work. *)
LEMMA CountZero ==
    ASSUME busy \in SUBSET Workers, worker = Cardinality(busy)
    PROVE  worker = 0 <=> busy = {}
  <1>1. IsFiniteSet(busy)
    BY WorkersFinite, FS_Subset
  <1> QED
    BY <1>1, FS_EmptySet

(* The initial state of a pauser (newPauser, pauser.go:22-30). *)
LEMMA InitInv == PauserInit => PauserInv
  <1> SUFFICES ASSUME PauserInit
               PROVE  PauserInv
    OBVIOUS
  <1>1. WorkerCount
    BY FS_EmptySet DEF PauserInit, WorkerCount
  <1>2. TypeOK
    BY DEF PauserInit, TypeOK, Statuses, Calls
  <1> QED
    BY <1>1, <1>2
    DEF PauserInit, PauserInv, PausedIsIdle, NoDoubleClose, ChannelsAgree,
        ClosedPast

(* Pause, Resume and the end of an upgrade keep the invariant. *)
LEMMA PauserStepInv ==
    ASSUME PauserInv, NEW p \in Pausers, PauserStep(p)
    PROVE  PauserInv'
  <1> USE DEF PauserInv, PausedIsIdle, NoDoubleClose, ChannelsAgree,
              ClosedPast, TypeOK, Statuses, Calls, WorkerCount
  <1>0. worker = 0 <=> busy = {}
    BY CountZero
  <1>b. Broadcast(call) \in [Pausers -> Calls]
    BY BroadcastType
  <1>1. CASE PauseAgain(p)
    BY <1>1 DEF PauseAgain
  <1>2. CASE PauseWait(p)
    <2>1. TypeOK'
      BY <1>2 DEF PauseWait
    <2>2. gen \in 0..gen /\ pausingClosed' \subseteq pausingClosed \cup {gen}
      BY <1>2 DEF PauseWait
    <2>3. twice' = {}
      BY <1>2 DEF PauseWait
    <2>4. ChannelsAgree' /\ ClosedPast'
      BY <1>2, <2>2 DEF PauseWait
    <2> QED
      BY <1>2, <2>1, <2>3, <2>4 DEF PauseWait
  <1>3. CASE PauseNow(p)
    <2>1. TypeOK'
      BY <1>b, <1>3 DEF PauseNow
    <2>2. gen \in 0..gen
      OBVIOUS
    <2>3. twice' = {}
      BY <1>3 DEF PauseNow
    <2>4. ChannelsAgree' /\ ClosedPast'
      BY <1>3, <2>2 DEF PauseNow
    <2> QED
      BY <1>0, <1>3, <2>1, <2>3, <2>4 DEF PauseNow
  <1>4. CASE PauseWake(p)
    <2>1. CASE worker # 0 \/ status = "paused"
      BY <1>4, <2>1 DEF PauseWake, FinishPause
    <2>2. CASE worker = 0 /\ status # "paused"
      <3>1. TypeOK'
        BY <1>b, <1>4, <2>2 DEF PauseWake, FinishPause
      <3>2. gen \in 0..gen
        OBVIOUS
      <3>3. twice' = {}
        BY <1>4, <2>2 DEF PauseWake, FinishPause
      <3>4. ChannelsAgree' /\ ClosedPast'
        BY <1>4, <2>2, <3>2 DEF PauseWake, FinishPause
      <3> QED
        BY <1>0, <1>4, <2>2, <3>1, <3>3, <3>4 DEF PauseWake, FinishPause
    <2> QED
      BY <2>1, <2>2
  <1>5. CASE Resume(p)
    BY <1>5, MaxGenNat DEF Resume
  <1>6. CASE KeepPaused(p)
    BY <1>6 DEF KeepPaused
  <1> QED
    BY <1>1, <1>2, <1>3, <1>4, <1>5, <1>6 DEF PauserStep

(* Working keeps the invariant. *)
LEMMA WorkingInv ==
    ASSUME PauserInv, NEW w \in Workers, Working(w)
    PROVE  PauserInv'
  <1>1. worker + 1 = Cardinality(busy \cup {w})
    BY CountIn DEF PauserInv, TypeOK, WorkerCount, Working
  <1> QED
    BY <1>1
    DEF PauserInv, PausedIsIdle, NoDoubleClose, ChannelsAgree, ClosedPast,
        TypeOK, Statuses, Calls, WorkerCount, Working

(* Done keeps the invariant, and it never takes its early return. *)
LEMMA DoneInv ==
    ASSUME PauserInv, NEW w \in Workers, Done(w)
    PROVE  PauserInv' /\ status # "paused" /\ worker' = worker - 1
  <1>1. /\ worker \in Nat
        /\ worker # 0
        /\ worker - 1 = Cardinality(busy \ {w})
    BY CountOut DEF PauserInv, TypeOK, WorkerCount, Done
  <1>2. status # "paused"
    BY DEF PauserInv, PausedIsIdle, Done
  <1>3. Broadcast(call) \in [Pausers -> Calls]
    BY BroadcastType DEF PauserInv, TypeOK
  <1> QED
    BY <1>1, <1>2, <1>3
    DEF PauserInv, PausedIsIdle, NoDoubleClose, ChannelsAgree, ClosedPast,
        TypeOK, Statuses, Calls, WorkerCount, Done

(* Every step, and every stuttering step, keeps the invariant. *)
LEMMA NextInv == PauserInv /\ [PauserNext]_pauserVars => PauserInv'
  <1> SUFFICES ASSUME PauserInv, [PauserNext]_pauserVars
               PROVE  PauserInv'
    OBVIOUS
  <1>1. CASE \E p \in Pausers : PauserStep(p)
    BY <1>1, PauserStepInv
  <1>2. CASE \E w \in Workers : Working(w)
    BY <1>2, WorkingInv
  <1>3. CASE \E w \in Workers : Done(w)
    BY <1>3, DoneInv
  <1>4. CASE UNCHANGED pauserVars
    BY <1>4
    DEF pauserVars, PauserInv, PausedIsIdle, NoDoubleClose, ChannelsAgree,
        ClosedPast, TypeOK, WorkerCount
  <1> QED
    BY <1>1, <1>2, <1>3, <1>4 DEF PauserNext

(* The inductive invariant of the pauser holds in every reachable state. *)
THEOREM PauserInvariant == PauserSpec => []PauserInv
  BY InitInv, NextInv, PTL DEF PauserSpec

(* The variables of the pauser always have their types; in particular the
   worker count never goes below 0. *)
THEOREM TypeCorrect == PauserSpec => []TypeOK
  <1>1. PauserInv => TypeOK
    BY DEF PauserInv
  <1> QED
    BY <1>1, PauserInvariant, PTL

(* A paused pauser has no worker, whatever the number of workers and pausers
   (Pause, Working and Done of pauser.go). *)
THEOREM PausedNobodyWorks == PauserSpec => []PausedIsIdle
  <1>1. PauserInv => PausedIsIdle
    BY DEF PauserInv
  <1> QED
    BY <1>1, PauserInvariant, PTL

(* The worker count is exact: no Done is swallowed by its early return
   (pauser.go:79). *)
THEOREM CountIsExact == PauserSpec => []WorkerCount
  <1>1. PauserInv => WorkerCount
    BY DEF PauserInv
  <1> QED
    BY <1>1, PauserInvariant, PTL

(* No interleaving of Pause and Resume closes a channel twice
   (pauser.go:40, 51). *)
THEOREM NeverPanics == PauserSpec => []NoDoubleClose
  <1>1. PauserInv => NoDoubleClose
    BY DEF PauserInv
  <1> QED
    BY <1>1, PauserInvariant, PTL

(* The initial state of the pauser is one of the gate. *)
LEMMA GateInit == PauserInit => GateSpec!Init
  BY DEF PauserInit, GateSpec!Init

(* Every step of the pauser is a step of the gate or leaves it alone. *)
LEMMA GateStep ==
    PauserInv /\ [PauserNext]_pauserVars
        => [GateSpec!Next]_(GateSpec!gateVars)
  <1> SUFFICES ASSUME PauserInv, [PauserNext]_pauserVars
               PROVE  [GateSpec!Next]_(GateSpec!gateVars)
    OBVIOUS
  <1> USE DEF GateSpec!Next, GateSpec!gateVars, GateSpec!Shut,
              GateSpec!Reopen, GateSpec!Enter, GateSpec!Leave
  <1>0. worker = 0 <=> busy = {}
    BY CountZero DEF PauserInv, TypeOK, WorkerCount
  <1>1. ASSUME NEW p \in Pausers, PauserStep(p)
        PROVE  [GateSpec!Next]_(GateSpec!gateVars)
    <2>1. CASE PauseAgain(p) \/ KeepPaused(p)
      BY <2>1 DEF PauseAgain, KeepPaused
    <2>2. CASE PauseWait(p)
      BY <2>2 DEF PauseWait
    <2>3. CASE PauseNow(p)
      BY <1>0, <2>3 DEF PauseNow
    <2>4. CASE PauseWake(p)
      BY <1>0, <2>4 DEF PauseWake, FinishPause
    <2>5. CASE Resume(p)
      BY <2>5 DEF Resume
    <2> QED
      BY <1>1, <2>1, <2>2, <2>3, <2>4, <2>5 DEF PauserStep
  <1>2. CASE \E w \in Workers : Working(w)
    BY <1>2 DEF Working
  <1>3. CASE \E w \in Workers : Done(w)
    BY <1>3 DEF Done
  <1>4. CASE UNCHANGED pauserVars
    BY <1>4 DEF pauserVars
  <1> QED
    BY <1>1, <1>2, <1>3, <1>4 DEF PauserNext

(* The pauser implements the gate: the mutex, the condition variable and the
   channels of pauser.go show their callers nothing but a gate that is shut
   only while nobody is inside. *)
THEOREM PauserImplementsGate == PauserSpec => ImplementsGate
  BY GateInit, GateStep, PauserInvariant, PTL
  DEF PauserSpec, ImplementsGate, GateSpec!Spec
=============================================================================
