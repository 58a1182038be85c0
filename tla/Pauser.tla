------------------------------- MODULE Pauser -------------------------------
(***************************************************************************)
(* The pauser of engineio/payload/pauser.go: a mutex, a condition variable, *)
(* a count of the calls at work and two channels that are closed to tell   *)
(* the listeners that a pause has begun (pausing) or is complete (paused). *)
(* Every method runs under p.l, so one action is one critical section;     *)
(* Pause gives the mutex up in c.Wait and is therefore split there.        *)
(*                                                                         *)
(* Resume makes both channels anew.  A channel is identified by its        *)
(* generation, the number of Resume calls before it was made, so that a    *)
(* listener that still holds an old channel can be told from one that      *)
(* holds the present one (see Payload).                                    *)
(*                                                                         *)
(* Who calls: a worker brackets its work by Working and Done (FeedIn,      *)
(* FlushOut, getReader, getWriter); a pauser calls Pause and afterwards    *)
(* Resume, or nothing more (the deferred Resume of session.upgrading runs  *)
(* only when the upgrade was given up).                                    *)
(***************************************************************************)
EXTENDS Integers, FiniteSets

CONSTANTS Workers,   \* the calls that may be at work
          Pausers,   \* the goroutines that pause and resume
          MaxGen     \* bound on the number of Resume calls

ASSUME WorkersFinite == IsFiniteSet(Workers)
ASSUME MaxGenNat == MaxGen \in Nat

VARIABLES status,         \* p.status
          worker,         \* p.worker
          gen,            \* the generation of p.pausing and p.paused
          pausingClosed,  \* generations whose pausing channel is closed
          pausedClosed,   \* generations whose paused channel is closed
          twice,          \* generations with a channel closed twice: a panic
          busy,           \* workers between a true Working() and their Done()
          call            \* where each pauser is

pauserVars == <<status, worker, gen, pausingClosed, pausedClosed, twice,
                busy, call>>

Statuses == {"normal", "pausing", "paused"}

(* waiting: inside c.Wait.  woken: Broadcast was called, the mutex is not yet
   taken again.  returned: Pause is over and this pauser owes a Resume. *)
Calls == {"idle", "waiting", "woken", "returned"}

TypeOK == /\ status \in Statuses
          /\ worker \in Nat
          /\ gen \in Nat
          /\ pausingClosed \in SUBSET Nat
          /\ pausedClosed \in SUBSET Nat
          /\ twice \in SUBSET Nat
          /\ busy \in SUBSET Workers
          /\ call \in [Pausers -> Calls]

PauserInit == /\ status = "normal"
              /\ worker = 0
              /\ gen = 0
              /\ pausingClosed = {}
              /\ pausedClosed = {}
              /\ twice = {}
              /\ busy = {}
              /\ call = [p \in Pausers |-> "idle"]

-----------------------------------------------------------------------------
(* p.c.Broadcast(): every call inside c.Wait wakes up. *)
Broadcast(c) == [p \in Pausers |-> IF c[p] = "waiting" THEN "woken" ELSE c[p]]

(* Lines 48-55, reached with worker = 0: complete the pause, or find that
   another Pause did. *)
FinishPause(p) ==
    IF status = "paused"
    THEN /\ call' = [call EXCEPT ![p] = "returned"]
         /\ UNCHANGED <<status, pausedClosed, twice>>
    ELSE /\ pausedClosed' = pausedClosed \cup {gen}
         /\ twice' = twice \cup ({gen} \cap pausedClosed)
         /\ status' = "paused"
         /\ call' = [Broadcast(call) EXCEPT ![p] = "returned"]

(* Pause on a pauser that is paused already returns false at once. *)
PauseAgain(p) ==
    /\ call[p] = "idle"
    /\ status = "paused"
    /\ call' = [call EXCEPT ![p] = "returned"]
    /\ UNCHANGED <<status, worker, gen, pausingClosed, pausedClosed, twice,
                   busy>>

(* Lines 39-46: close pausing unless another Pause did, then wait for the
   workers. *)
PauseWait(p) ==
    /\ call[p] = "idle"
    /\ status # "paused"
    /\ worker # 0
    /\ status' = "pausing"
    /\ IF status = "normal"
       THEN /\ pausingClosed' = pausingClosed \cup {gen}
            /\ twice' = twice \cup ({gen} \cap pausingClosed)
       ELSE UNCHANGED <<pausingClosed, twice>>
    /\ call' = [call EXCEPT ![p] = "waiting"]
    /\ UNCHANGED <<worker, gen, pausedClosed, busy>>

(* Pause when nobody works: pausing and paused are closed in one critical
   section. *)
PauseNow(p) ==
    /\ call[p] = "idle"
    /\ status # "paused"
    /\ worker = 0
    /\ status' = "paused"
    /\ pausingClosed' = IF status = "normal" THEN pausingClosed \cup {gen}
                                             ELSE pausingClosed
    /\ pausedClosed' = pausedClosed \cup {gen}
    /\ twice' = twice \cup ({gen} \cap pausedClosed)
                      \cup IF status = "normal" THEN {gen} \cap pausingClosed
                                               ELSE {}
    /\ call' = [Broadcast(call) EXCEPT ![p] = "returned"]
    /\ UNCHANGED <<worker, gen, busy>>

(* A Pause that waits once, with an if where the code has a for. *)
PauseWakeOnce(p) ==
    /\ call[p] = "woken"
    /\ FinishPause(p)
    /\ UNCHANGED <<worker, gen, pausingClosed, busy>>

(* A woken Pause has the mutex again and evaluates its loop condition. *)
PauseWake(p) ==
    /\ call[p] = "woken"
    /\ IF worker # 0
       THEN /\ call' = [call EXCEPT ![p] = "waiting"]
            /\ UNCHANGED <<status, pausedClosed, twice>>
       ELSE FinishPause(p)
    /\ UNCHANGED <<worker, gen, pausingClosed, busy>>

Resume(p) ==
    /\ call[p] = "returned"
    /\ gen < MaxGen
    /\ status' = "normal"
    /\ gen' = gen + 1
    /\ call' = [call EXCEPT ![p] = "idle"]
    /\ UNCHANGED <<worker, pausingClosed, pausedClosed, twice, busy>>

(* The caller of Pause keeps the pause for good (a completed upgrade). *)
KeepPaused(p) ==
    /\ call[p] = "returned"
    /\ call' = [call EXCEPT ![p] = "idle"]
    /\ UNCHANGED <<status, worker, gen, pausingClosed, pausedClosed, twice,
                   busy>>

-----------------------------------------------------------------------------
(* A Working that forgets to look at status. *)
WorkingUnchecked(w) ==
    /\ w \notin busy
    /\ worker' = worker + 1
    /\ busy' = busy \cup {w}
    /\ UNCHANGED <<status, gen, pausingClosed, pausedClosed, twice, call>>

(* Working() = true.  Working() = false changes nothing: a caller tests
   status = "paused". *)
Working(w) ==
    /\ w \notin busy
    /\ status # "paused"
    /\ worker' = worker + 1
    /\ busy' = busy \cup {w}
    /\ UNCHANGED <<status, gen, pausingClosed, pausedClosed, twice, call>>

(* A Done that does not wake the calls inside c.Wait. *)
DoneSilent(w) ==
    /\ w \in busy
    /\ busy' = busy \ {w}
    /\ worker' = worker - 1
    /\ UNCHANGED <<status, gen, pausingClosed, pausedClosed, twice, call>>

Done(w) ==
    /\ w \in busy
    /\ busy' = busy \ {w}
    /\ IF status = "paused" \/ worker = 0
       THEN UNCHANGED <<worker, call>>
       ELSE /\ worker' = worker - 1
            /\ call' = Broadcast(call)
    /\ UNCHANGED <<status, gen, pausingClosed, pausedClosed, twice>>

-----------------------------------------------------------------------------
PauserStep(p) == \/ PauseAgain(p)
                 \/ PauseWait(p)
                 \/ PauseNow(p)
                 \/ PauseWake(p)
                 \/ Resume(p)
                 \/ KeepPaused(p)

PauserNext == \/ \E p \in Pausers : PauserStep(p)
              \/ \E w \in Workers : Working(w) \/ Done(w)

PauserSpec == PauserInit /\ [][PauserNext]_pauserVars

(* A woken goroutine runs on, and a worker finishes its work. *)
PauserFairness == /\ \A p \in Pausers : WF_pauserVars(PauseWake(p))
                  /\ \A w \in Workers : WF_pauserVars(Done(w))

PauserLiveSpec == PauserSpec /\ PauserFairness

-----------------------------------------------------------------------------
(* While the pauser is paused nobody is at work: what Pause waits for still
   holds whenever the status says so, whoever called Pause, Resume or Working
   in between (pauser.go:44-52, 69). *)
PausedIsIdle == status = "paused" => worker = 0 /\ busy = {}

(* The count is the number of calls at work: the early return of Done
   (pauser.go:79) never swallows the Done of a worker that was counted, or a
   later Pause would wait for a worker that left long ago. *)
WorkerCount == worker = Cardinality(busy)

(* No channel is closed twice (pauser.go:40, 51), which would panic and take
   the process down, however Pause and Resume of several goroutines
   interleave. *)
NoDoubleClose == twice = {}

(* The generation's channels agree with the status: a paused pauser has its
   paused channel closed, so whoever listens to it is told; a pausing or
   normal one has not, so nobody is told of a pause that is not complete. *)
ChannelsAgree ==
    /\ (gen \in pausedClosed) <=> (status = "paused")
    /\ status = "normal" => gen \notin pausingClosed
    /\ status = "pausing" => gen \in pausingClosed

(* Every channel that was closed was made before: what makes the channels of
   the next Resume open ones. *)
ClosedPast == pausingClosed \cup pausedClosed \subseteq 0..gen

(* The inductive invariant of the pauser: the properties above hold each other
   up.  A Done may rely on PausedIsIdle not to be swallowed, PausedIsIdle on
   WorkerCount, and NoDoubleClose on ChannelsAgree and ClosedPast. *)
PauserInv == /\ TypeOK
             /\ PausedIsIdle
             /\ WorkerCount
             /\ NoDoubleClose
             /\ ChannelsAgree
             /\ ClosedPast

(* The pauser is a gate. *)
GateSpec == INSTANCE Gate WITH shut <- (status = "paused"), inside <- busy

(* Every step of the pauser is a step of the gate, or changes nothing that
   the gate shows. *)
ImplementsGate == GateSpec!Spec

(* A Pause that waits returns once the workers stop coming (pauser.go:44-46
   with the Broadcasts at 53 and 83: no wakeup is lost).  Without the premise
   nothing bounds the wait: Working admits new workers while status is
   pausing. *)
PauseReturns ==
    (<>[][\A w \in Workers : ~Working(w)]_pauserVars)
        => \A p \in Pausers :
              call[p] \in {"waiting", "woken"} ~> call[p] = "returned"
=============================================================================
