------------------------------- MODULE Payload -------------------------------
(***************************************************************************)
(* The payload of engineio/payload: the meeting place of a polling session. *)
(* HTTP handlers bring request bodies (FeedIn, one call per POST) and       *)
(* response writers (FlushOut, one call per GET); the session's goroutines  *)
(* take them, decode frames from a body and encode frames into a response.  *)
(* Everything is exchanged over unbuffered channels, so a send and its      *)
(* receive are one action of two parties.                                   *)
(*                                                                         *)
(* Parties.  Feeders and Flushers are requests: each makes one call.  The   *)
(* reader is the goroutine in Session.NextReader; writers are goroutines in *)
(* Session.nextWriter.  A ponger is a writer run by the reader's goroutine: *)
(* it answers the ping whose frame the reader holds open, and the reader    *)
(* goes on when it is done (session.go:95-115).  Pausers run                *)
(* Session.upgrading.                                                       *)
(*                                                                         *)
(* A call's steps are cut where another goroutine can interfere: at the     *)
(* critical sections of the pauser and at the selects.  A select whose      *)
(* cases are several ready ones may take any of them.                       *)
(***************************************************************************)
EXTENDS Pauser

CONSTANTS Feeders,    \* the POST requests of the session
          Flushers,   \* the GET requests of the session
          Readers,    \* the reading goroutine, or none
          Writers,    \* the writing goroutines
          Pongers,    \* the writer that is the reading goroutine, or none
          NoOne,      \* Go's nil, for a body or a response
          MaxFrames,  \* bound on the frames of a body
          MaxArms,    \* bound on the SetReadDeadline/SetWriteDeadline calls
          Tails       \* how a body may end: "eof" or "bad"

ASSUME PayloadWorkers == Workers = Feeders \cup Flushers \cup Readers \cup Writers
ASSUME OneReader == \A r, s \in Readers : r = s
ASSUME PongersWrite == Pongers \subseteq Writers
ASSUME NoOneIsNone == NoOne \notin Workers
ASSUME DisjointParties == /\ Feeders \cap Flushers = {}
                          /\ (Feeders \cup Flushers) \cap (Readers \cup Writers) = {}
                          /\ Readers \cap Writers = {}
ASSUME BoundsNat == MaxFrames \in Nat /\ MaxArms \in Nat
ASSUME TailsKnown == Tails \subseteq {"eof", "bad"}

VARIABLES closeCh,    \* p.close: "open" or "closed"
          err,        \* p.err: "nil", or "set" (which error is not told apart)
          deadline,   \* readDeadline and writeDeadline, which session.go sets
                      \* together: "armed" or "expired"
          arms,       \* how often the deadline was set again
          feeding,    \* p.feeding
          flushing,   \* p.flushing
          pc,         \* where each party is
          ret,        \* what its last call returned
          trigger,    \* the generation of the channel its select listens to
          after,      \* the setting of the deadline its select's timer is for
          body,       \* the body of each POST request
          raw,        \* decoder.rawReader: whose body is being decoded
          report,     \* the error that putReader or putWriter sends
          rawWriter,  \* encoder.rawWriter: whose response is being written
          holding,    \* the response each writer was given
          wrote       \* what each response contains

envVars == <<closeCh, deadline, arms>>
listenVars == <<trigger, after>>
readVars == <<feeding, body, raw>>
writeVars == <<flushing, rawWriter, holding, wrote>>
vars == <<pauserVars, envVars, err, pc, ret, report, listenVars, readVars,
          writeVars>>

(* Requests: idle, offer (first select), handed (second select), leaving (the
   deferred calls are left), returned.  Reader and writers: idle, again (the
   call returned ErrPaused and session.go repeats it), probe (between Working
   and Done), probed, await (the select of getReader or getWriter), parse,
   open (a frame is open), put, sending (the select of putReader or
   putWriter), stopped. *)
PCs == {"idle", "offer", "handed", "leaving", "returned", "again", "probe",
        "probed", "await", "parse", "open", "put", "sending", "stopped"}

Results == {"none", "nil", "eof", "overlap", "paused", "err", "fail"}

Bodies == [left : 0..MaxFrames, fresh : {0, 1}, tail : {"eof", "bad"}]

PayloadTypeOK ==
    /\ TypeOK
    /\ closeCh \in {"open", "closed"}
    /\ err \in {"nil", "set"}
    /\ deadline \in {"armed", "expired"}
    /\ arms \in 0..MaxArms
    /\ feeding \in {0, 1}
    /\ flushing \in {0, 1}
    /\ pc \in [Workers -> PCs]
    /\ ret \in [Workers -> Results]
    /\ trigger \in [Workers -> Nat]
    /\ after \in [Workers -> 0..MaxArms]
    /\ body \in [Feeders -> Bodies]
    /\ raw \in Feeders \cup {NoOne}
    /\ report \in [Workers -> {"nil", "eof", "bad"}]
    /\ rawWriter \in Flushers \cup {NoOne}
    /\ holding \in [Writers -> Flushers \cup {NoOne}]
    /\ wrote \in [Flushers -> {"nothing", "noop", "frame"}]

Init ==
    /\ PauserInit
    /\ closeCh = "open"
    /\ err = "nil"
    /\ deadline = "armed"
    /\ arms = 0
    /\ feeding = 0
    /\ flushing = 0
    /\ pc = [x \in Workers |-> "idle"]
    /\ ret = [x \in Workers |-> "none"]
    /\ trigger = [x \in Workers |-> 0]
    /\ after = [x \in Workers |-> 0]
    /\ body \in [Feeders -> [left : 0..MaxFrames, fresh : {0}, tail : Tails]]
    /\ raw = NoOne
    /\ report = [x \in Workers |-> "nil"]
    /\ rawWriter = NoOne
    /\ holding = [x \in Writers |-> NoOne]
    /\ wrote = [f \in Flushers |-> "nothing"]

-----------------------------------------------------------------------------
(* Errors, deadline, close. *)

(* load(): the stored error, or io.EOF. *)
Load == IF err = "nil" THEN "eof" ELSE "err"

(* Store(op, e): what it leaves in p.err ... *)
Store(e) == err' = IF e \in {"nil", "eof"} THEN err ELSE "set"

(* ... and what it returns: the old error if there is one. *)
StoreResult(e) == IF err = "set" THEN "err"
                  ELSE IF e \in {"nil", "eof"} THEN e ELSE "err"

Goto(x, l) == pc' = [pc EXCEPT ![x] = l]
Return(x, v) == ret' = [ret EXCEPT ![x] = v]

(* Close(): once only, from any goroutine. *)
Close ==
    /\ closeCh = "open"
    /\ closeCh' = "closed"
    /\ UNCHANGED <<pauserVars, deadline, arms, err, pc, ret, report, listenVars,
                   readVars, writeVars>>

(* The time of the present deadline comes. *)
Expire ==
    /\ deadline = "armed"
    /\ deadline' = "expired"
    /\ UNCHANGED <<pauserVars, closeCh, arms, err, pc, ret, report, listenVars,
                   readVars, writeVars>>

(* Session.setDeadline, called by the reading goroutine between two frames. *)
SetDeadline ==
    /\ \A r \in Readers : pc[r] = "idle"
    /\ arms < MaxArms
    /\ arms' = arms + 1
    /\ deadline' = "armed"
    /\ UNCHANGED <<pauserVars, closeCh, err, pc, ret, report, listenVars,
                   readVars, writeVars>>

(* Enter a select: evaluate the pauser's trigger channel and the timer. *)
Listen(x) == /\ trigger' = [trigger EXCEPT ![x] = gen]
             /\ after' = [after EXCEPT ![x] = arms]

(* The timer of a select was for an earlier deadline: the loop goes round and
   listens anew. *)
Recheck(x) ==
    /\ pc[x] = IF x \in Flushers THEN "offer" ELSE "await"
    /\ after[x] < arms
    /\ deadline = "armed"
    /\ Listen(x)
    /\ UNCHANGED <<pauserVars, envVars, err, pc, ret, report, readVars,
                   writeVars>>

-----------------------------------------------------------------------------
(* FeedIn *)

(* FeedIn returns before it is counted as a worker. *)
FeedInRefused(f) ==
    /\ pc[f] = "idle"
    /\ \/ closeCh = "closed" /\ Return(f, Load)
       \/ closeCh = "open" /\ feeding = 1 /\ Return(f, "overlap")
       \/ closeCh = "open" /\ feeding = 0 /\ status = "paused"
          /\ Return(f, "paused")
    /\ Goto(f, "returned")
    /\ UNCHANGED <<pauserVars, envVars, err, report, listenVars, readVars,
                   writeVars>>

(* FeedIn up to its first select. *)
FeedIn(f) ==
    /\ pc[f] = "idle"
    /\ closeCh = "open"
    /\ feeding = 0
    /\ Working(f)
    /\ feeding' = 1
    /\ IF deadline = "armed"
       THEN Goto(f, "offer") /\ UNCHANGED <<err, ret>>
       ELSE Goto(f, "leaving") /\ Return(f, StoreResult("bad")) /\ Store("bad")
    /\ UNCHANGED <<envVars, report, listenVars, body, raw, writeVars>>

(* FeedIn that watches p.close in both selects. *)
FeedInClosedLate(f) ==
    /\ pc[f] \in {"offer", "handed"}
    /\ closeCh = "closed"
    /\ Goto(f, "leaving")
    /\ Return(f, Load)
    /\ UNCHANGED <<pauserVars, envVars, err, report, listenVars, readVars,
                   writeVars>>

(* case <-p.close, in the first select only. *)
FeedInClosed(f) ==
    /\ pc[f] = "offer"
    /\ closeCh = "closed"
    /\ Goto(f, "leaving")
    /\ Return(f, Load)
    /\ UNCHANGED <<pauserVars, envVars, err, report, listenVars, readVars,
                   writeVars>>

(* FeedIn whose second select has no timer. *)
FeedInTimeoutOnce(f) ==
    /\ pc[f] = "offer"
    /\ deadline = "expired"
    /\ Goto(f, "leaving")
    /\ Return(f, StoreResult("bad"))
    /\ Store("bad")
    /\ UNCHANGED <<pauserVars, envVars, report, listenVars, readVars, writeVars>>

(* A timer fires and the deadline has passed, in either select. *)
FeedInTimeout(f) ==
    /\ pc[f] \in {"offer", "handed"}
    /\ deadline = "expired"
    /\ Goto(f, "leaving")
    /\ Return(f, StoreResult("bad"))
    /\ Store("bad")
    /\ UNCHANGED <<pauserVars, envVars, report, listenVars, readVars, writeVars>>

(* The deferred Done and then the release of the feeding flag, in one step: what
   comes between them and sees the flag is a FeedIn that is refused, changes
   nothing and may as well come before the Done. *)
FeedInReturn(f) ==
    /\ pc[f] = "leaving"
    /\ Done(f)
    /\ feeding' = 0
    /\ Goto(f, "returned")
    /\ UNCHANGED <<envVars, err, ret, report, listenVars, body, raw,
                   writeVars>>

-----------------------------------------------------------------------------
(* NextReader, and Close of a frame: the decoder over getReader, putReader. *)

(* A call of NextReader or NextWriter fails for good: the session is closed
   and its loop ends.  Whatever error, the reader does not come back. *)
Stop(x, v) == Goto(x, "stopped") /\ Return(x, v)

(* decoder.NextReader when the body is not used up: no check of anything.
   Without a header read since the last NextReader the frame is one that the
   caller has had before. *)
NextReaderSameBody(r) ==
    /\ pc[r] = "idle"
    /\ raw # NoOne
    /\ Goto(r, "open")
    /\ Return(r, "nil")
    /\ body' = [body EXCEPT ![raw].fresh = 0]
    /\ UNCHANGED <<pauserVars, envVars, err, report, listenVars, feeding, raw,
                   writeVars>>

(* getReader up to Working. *)
NextReader(r) ==
    /\ pc[r] = "idle"
    /\ raw = NoOne
    /\ \/ closeCh = "closed" /\ Stop(r, Load) /\ UNCHANGED pauserVars
       \/ closeCh = "open" /\ status = "paused"
          /\ Return(r, "paused") /\ UNCHANGED <<pauserVars, pc>>
       \/ closeCh = "open" /\ Working(r) /\ Goto(r, "probe") /\ UNCHANGED ret
    /\ UNCHANGED <<envVars, err, report, listenVars, readVars, writeVars>>

(* Done() right after Working(): the wait itself is not counted. *)
ProbeDone(x) ==
    /\ pc[x] = "probe"
    /\ Done(x)
    /\ Goto(x, "probed")
    /\ UNCHANGED <<envVars, err, ret, report, listenVars, readVars, writeVars>>

(* Enter the select of getReader. *)
GetReaderWait(r) ==
    /\ pc[r] = "probed"
    /\ IF deadline = "armed"
       THEN Goto(r, "await") /\ Listen(r) /\ UNCHANGED <<err, ret>>
       ELSE /\ Stop(r, StoreResult("bad"))
            /\ Store("bad")
            /\ UNCHANGED listenVars
    /\ UNCHANGED <<pauserVars, envVars, report, readVars, writeVars>>

(* The select of getReader without a body. *)
GetReaderFail(r) ==
    /\ pc[r] = "await"
    /\ \/ closeCh = "closed" /\ Stop(r, Load) /\ UNCHANGED err
       \/ trigger[r] \in pausedClosed
          /\ Goto(r, "idle") /\ Return(r, "paused") /\ UNCHANGED err
       \/ deadline = "expired" /\ Stop(r, StoreResult("bad")) /\ Store("bad")
    /\ UNCHANGED <<pauserVars, envVars, report, listenVars, readVars, writeVars>>

(* readerChan: FeedIn's first select meets getReader. *)
HandBody(f, r) ==
    /\ pc[f] = "offer"
    /\ pc[r] = "await"
    /\ pc' = [pc EXCEPT ![f] = "handed", ![r] = "parse"]
    /\ raw' = f
    /\ UNCHANGED <<pauserVars, envVars, err, ret, report, listenVars, feeding,
                   body, writeVars>>

(* HeaderOutcomes that reads one header past the end. *)
HeaderOutcomesPast(f) ==
    (IF body[f].left >= 0 THEN {"frame"} ELSE {body[f].tail})
        \cup (IF pc[f] = "returned" THEN {"bad"} ELSE {})

(* What reading the next header of a body may meet.  The body of a request
   whose handler has returned is closed by the HTTP server: only what was
   buffered can still be read. *)
HeaderOutcomes(f) ==
    (IF body[f].left > 0 THEN {"frame"} ELSE {body[f].tail})
        \cup (IF pc[f] = "returned" THEN {"bad"} ELSE {})

TakeHeader(f) == body' = [body EXCEPT ![f].left = @ - 1, ![f].fresh = 1]

(* The first header of a new body.  On failure rawReader stays nil. *)
FirstHeader(r) ==
    /\ pc[r] = "parse"
    /\ \E o \in HeaderOutcomes(raw) :
          IF o = "frame"
          THEN /\ body' = [body EXCEPT ![raw].left = @ - 1]
               /\ Goto(r, "open") /\ Return(r, "nil")
               /\ UNCHANGED <<raw, report>>
          ELSE /\ report' = [report EXCEPT ![r] = o]
               /\ raw' = NoOne
               /\ Goto(r, "put") /\ Return(r, "err")
               /\ UNCHANGED body
    /\ UNCHANGED <<pauserVars, envVars, err, listenVars, feeding,
                   writeVars>>

(* decoder.Close that drops the body at every error. *)
CloseReaderDrops(r) ==
    /\ pc[r] = "open"
    /\ \A x \in Pongers : pc[x] = "idle"
    /\ \E o \in HeaderOutcomes(raw) :
          IF o = "frame"
          THEN /\ TakeHeader(raw)
               /\ Goto(r, "idle") /\ Return(r, "nil")
               /\ UNCHANGED <<raw, report>>
          ELSE /\ report' = [report EXCEPT ![r] = "nil"]
               /\ raw' = NoOne
               /\ Goto(r, "put") /\ Return(r, "nil")
               /\ UNCHANGED body
    /\ UNCHANGED <<pauserVars, envVars, err, listenVars, feeding,
                   writeVars>>

(* decoder.Close: read the next header.  The end of the body is reported as
   nil and the body dropped; another error is reported and the body kept. *)
CloseReader(r) ==
    /\ pc[r] = "open"
    /\ \A x \in Pongers : pc[x] = "idle"
    /\ \E o \in HeaderOutcomes(raw) :
          IF o = "frame"
          THEN /\ TakeHeader(raw)
               /\ Goto(r, "idle") /\ Return(r, "nil")
               /\ UNCHANGED <<raw, report>>
          ELSE /\ report' = [report EXCEPT ![r] = IF o = "eof" THEN "nil" ELSE o]
               /\ raw' = IF o = "eof" THEN NoOne ELSE raw
               /\ Goto(r, "put") /\ Return(r, "nil")
               /\ UNCHANGED body
    /\ UNCHANGED <<pauserVars, envVars, err, listenVars, feeding,
                   writeVars>>

(* putReader is over.  Called from NextReader the caller has its error and
   stops; called from Close the session logs the error and reads on. *)
PutReaderEnd(r) == Goto(r, IF ret[r] = "err" THEN "stopped" ELSE "idle")

(* putReader up to its select. *)
PutReader(r) ==
    /\ pc[r] = "put"
    /\ \/ closeCh = "closed" /\ PutReaderEnd(r) /\ UNCHANGED err
       \/ closeCh = "open" /\ deadline = "expired" /\ PutReaderEnd(r)
          /\ Store("bad")
       \/ closeCh = "open" /\ deadline = "armed" /\ Goto(r, "sending")
          /\ UNCHANGED err
    /\ UNCHANGED <<pauserVars, envVars, ret, report, listenVars, readVars,
                   writeVars>>

(* The select of putReader without a receiver. *)
PutReaderFail(r) ==
    /\ pc[r] = "sending"
    /\ \/ closeCh = "closed" /\ UNCHANGED err
       \/ deadline = "expired" /\ Store("bad")
    /\ PutReaderEnd(r)
    /\ UNCHANGED <<pauserVars, envVars, ret, report, listenVars, readVars,
                   writeVars>>

(* readError: putReader meets FeedIn's second select. *)
ReadError(f, r) ==
    /\ pc[f] = "handed"
    /\ pc[r] = "sending"
    /\ pc' = [pc EXCEPT ![f] = "leaving",
                        ![r] = IF ret[r] = "err" THEN "stopped" ELSE "idle"]
    /\ Return(f, StoreResult(report[r]))
    /\ Store(report[r])
    /\ UNCHANGED <<pauserVars, envVars, report, listenVars, readVars, writeVars>>

(* The session was closed by a CLOSE packet: the loop ends between frames. *)
Quit(r) ==
    /\ pc[r] = "idle"
    /\ closeCh = "closed"
    /\ Stop(r, "eof")
    /\ UNCHANGED <<pauserVars, envVars, err, report, listenVars, readVars,
                   writeVars>>

-----------------------------------------------------------------------------
(* FlushOut *)

(* w.Write(p.encoder.NOOP()), which may fail with the client gone. *)
WriteNOOP(f) == \/ wrote' = [wrote EXCEPT ![f] = "noop"] /\ Return(f, "nil")
                \/ UNCHANGED wrote /\ Return(f, "fail")

(* FlushOut returns before it is counted as a worker. *)
FlushOutRefused(f) ==
    /\ pc[f] = "idle"
    /\ \/ closeCh = "closed" /\ Return(f, Load) /\ UNCHANGED wrote
       \/ closeCh = "open" /\ flushing = 1 /\ Return(f, "overlap")
          /\ UNCHANGED wrote
       \/ closeCh = "open" /\ flushing = 0 /\ status = "paused" /\ WriteNOOP(f)
    /\ Goto(f, "returned")
    /\ UNCHANGED <<pauserVars, envVars, err, report, listenVars, readVars,
                   flushing, rawWriter, holding>>

(* FlushOut without the flushing flag. *)
FlushOutUnguarded(f) ==
    /\ pc[f] = "idle"
    /\ closeCh = "open"
    /\ Working(f)
    /\ flushing' = 1
    /\ Goto(f, "offer") /\ Listen(f)
    /\ UNCHANGED <<envVars, err, ret, report, readVars, rawWriter, holding,
                   wrote>>

(* FlushOut up to its first select. *)
FlushOut(f) ==
    /\ pc[f] = "idle"
    /\ closeCh = "open"
    /\ flushing = 0
    /\ Working(f)
    /\ flushing' = 1
    /\ IF deadline = "armed"
       THEN Goto(f, "offer") /\ Listen(f) /\ UNCHANGED <<err, ret>>
       ELSE /\ Goto(f, "leaving") /\ Return(f, StoreResult("bad"))
            /\ Store("bad")
            /\ UNCHANGED listenVars
    /\ UNCHANGED <<envVars, report, readVars, rawWriter, holding, wrote>>

(* case <-p.close, in the first select only. *)
FlushOutClosed(f) ==
    /\ pc[f] = "offer"
    /\ closeCh = "closed"
    /\ Goto(f, "leaving")
    /\ Return(f, Load)
    /\ UNCHANGED <<pauserVars, envVars, err, report, listenVars, readVars,
                   writeVars>>

(* FlushOut that listens to the paused channel instead of the pausing one. *)
FlushOutPausingLate(f) ==
    /\ pc[f] = "offer"
    /\ trigger[f] \in pausedClosed
    /\ WriteNOOP(f)
    /\ Goto(f, "leaving")
    /\ UNCHANGED <<pauserVars, envVars, err, report, listenVars, readVars,
                   flushing, rawWriter, holding>>

(* case <-p.pauser.PausingTrigger(), in the first select only. *)
FlushOutPausing(f) ==
    /\ pc[f] = "offer"
    /\ trigger[f] \in pausingClosed
    /\ WriteNOOP(f)
    /\ Goto(f, "leaving")
    /\ UNCHANGED <<pauserVars, envVars, err, report, listenVars, readVars,
                   flushing, rawWriter, holding>>

(* A timer fires and the deadline has passed, in either select. *)
FlushOutTimeout(f) ==
    /\ pc[f] \in {"offer", "handed"}
    /\ deadline = "expired"
    /\ Goto(f, "leaving")
    /\ Return(f, StoreResult("bad"))
    /\ Store("bad")
    /\ UNCHANGED <<pauserVars, envVars, report, listenVars, readVars, writeVars>>

(* The deferred Done and then the release of the flushing flag, in one step as in
   FeedInReturn. *)
FlushOutReturn(f) ==
    /\ pc[f] = "leaving"
    /\ Done(f)
    /\ flushing' = 0
    /\ Goto(f, "returned")
    /\ UNCHANGED <<envVars, err, ret, report, listenVars, readVars, rawWriter,
                   holding, wrote>>

-----------------------------------------------------------------------------
(* NextWriter, and Close of a frame: the encoder over getWriter, putWriter. *)

(* nextWriter fails for good.  A writer's goroutine goes on to its next
   packet; a ponger's goroutine is the reader's, which returns from NextReader
   and leaves the ping's frame open. *)
WriterFail(x, v) ==
    /\ Return(x, v)
    /\ pc' = [y \in Workers |->
                 IF y = x THEN "idle"
                 ELSE IF x \in Pongers /\ y \in Readers THEN "stopped"
                 ELSE pc[y]]

(* getWriter up to Working.  A ponger answers the open ping. *)
NextWriter(x) ==
    /\ pc[x] \in {"idle", "again"}
    /\ x \in Pongers => \A r \in Readers : pc[r] = "open"
    /\ \/ closeCh = "closed" /\ WriterFail(x, Load) /\ UNCHANGED pauserVars
       \/ closeCh = "open" /\ status = "paused"
          /\ Goto(x, "again") /\ Return(x, "paused") /\ UNCHANGED pauserVars
       \/ closeCh = "open" /\ Working(x) /\ Goto(x, "probe") /\ UNCHANGED ret
    /\ UNCHANGED <<envVars, err, report, listenVars, readVars, writeVars>>

(* Enter the select of getWriter. *)
GetWriterWait(x) ==
    /\ pc[x] = "probed"
    /\ IF deadline = "armed"
       THEN Goto(x, "await") /\ Listen(x) /\ UNCHANGED <<err, ret>>
       ELSE /\ WriterFail(x, StoreResult("bad"))
            /\ Store("bad")
            /\ UNCHANGED listenVars
    /\ UNCHANGED <<pauserVars, envVars, report, readVars, writeVars>>

(* The select of getWriter without a response. *)
GetWriterFail(x) ==
    /\ pc[x] = "await"
    /\ \/ closeCh = "closed" /\ WriterFail(x, Load) /\ UNCHANGED err
       \/ trigger[x] \in pausedClosed
          /\ Goto(x, "again") /\ Return(x, "paused") /\ UNCHANGED err
       \/ deadline = "expired" /\ WriterFail(x, StoreResult("bad"))
          /\ Store("bad")
    /\ UNCHANGED <<pauserVars, envVars, report, listenVars, readVars, writeVars>>

(* writerChan: FlushOut's first select meets getWriter. *)
HandWriter(f, x) ==
    /\ pc[f] = "offer"
    /\ pc[x] = "await"
    /\ pc' = [pc EXCEPT ![f] = "handed", ![x] = "open"]
    /\ Return(x, "nil")
    /\ rawWriter' = f
    /\ holding' = [holding EXCEPT ![x] = f]
    /\ UNCHANGED <<pauserVars, envVars, err, report, listenVars, readVars,
                   flushing, wrote>>

(* encoder.Close that drops the error of the write. *)
CloseWriterSilent(x) ==
    /\ pc[x] = "open"
    /\ Goto(x, "put")
    /\ report' = [report EXCEPT ![x] = "nil"]
    /\ \/ wrote' = [wrote EXCEPT ![rawWriter] = "frame"]
       \/ UNCHANGED wrote
    /\ UNCHANGED <<pauserVars, envVars, err, ret, listenVars, readVars, flushing,
                   rawWriter, holding>>

(* encoder.Close writes header and frame to rawWriter, whoever set it; the
   write may fail. *)
CloseWriter(x) ==
    /\ pc[x] = "open"
    /\ Goto(x, "put")
    /\ \/ /\ report' = [report EXCEPT ![x] = "nil"]
          /\ wrote' = [wrote EXCEPT ![rawWriter] = "frame"]
       \/ report' = [report EXCEPT ![x] = "bad"] /\ UNCHANGED wrote
    /\ UNCHANGED <<pauserVars, envVars, err, ret, listenVars, readVars, flushing,
                   rawWriter, holding>>

(* putWriter is over with the result v; its frame is closed. *)
PutWriterEnd(x, v) == /\ Goto(x, "idle")
                      /\ Return(x, v)
                      /\ holding' = [holding EXCEPT ![x] = NoOne]

(* putWriter up to its select.  A write error is stored before it is sent. *)
PutWriter(x) ==
    /\ pc[x] = "put"
    /\ \/ closeCh = "closed" /\ PutWriterEnd(x, Load) /\ UNCHANGED err
       \/ closeCh = "open" /\ deadline = "expired"
          /\ PutWriterEnd(x, StoreResult("bad")) /\ Store("bad")
       \/ closeCh = "open" /\ deadline = "armed"
          /\ Goto(x, "sending") /\ Return(x, StoreResult(report[x]))
          /\ Store(report[x]) /\ UNCHANGED holding
    /\ UNCHANGED <<pauserVars, envVars, report, listenVars, readVars, flushing,
                   rawWriter, wrote>>

(* The select of putWriter without a receiver. *)
PutWriterFail(x) ==
    /\ pc[x] = "sending"
    /\ \/ closeCh = "closed" /\ PutWriterEnd(x, Load) /\ UNCHANGED err
       \/ deadline = "expired" /\ PutWriterEnd(x, StoreResult("bad"))
          /\ Store("bad")
    /\ UNCHANGED <<pauserVars, envVars, report, listenVars, readVars, flushing,
                   rawWriter, wrote>>

(* writeError: putWriter meets FlushOut's second select. *)
WriteError(f, x) ==
    /\ pc[f] = "handed"
    /\ pc[x] = "sending"
    /\ pc' = [pc EXCEPT ![f] = "leaving", ![x] = "idle"]
    /\ Return(f, StoreResult(report[x]))
    /\ Store(report[x])
    /\ holding' = [holding EXCEPT ![x] = NoOne]
    /\ UNCHANGED <<pauserVars, envVars, report, listenVars, readVars, flushing,
                   rawWriter, wrote>>

-----------------------------------------------------------------------------
FeederStep(f) == \/ FeedInClosed(f)
                 \/ FeedInTimeout(f)
                 \/ FeedInReturn(f)
                 \/ \E r \in Readers : HandBody(f, r) \/ ReadError(f, r)

FlusherStep(f) == \/ FlushOutClosed(f)
                  \/ FlushOutPausing(f)
                  \/ FlushOutTimeout(f)
                  \/ FlushOutReturn(f)
                  \/ Recheck(f)
                  \/ \E x \in Writers : HandWriter(f, x) \/ WriteError(f, x)

ReaderStep(r) == \/ NextReaderSameBody(r)
                 \/ NextReader(r)
                 \/ ProbeDone(r)
                 \/ GetReaderWait(r)
                 \/ GetReaderFail(r)
                 \/ FirstHeader(r)
                 \/ CloseReader(r)
                 \/ PutReader(r)
                 \/ PutReaderFail(r)

WriterStep(x) == \/ ProbeDone(x)
                 \/ GetWriterWait(x)
                 \/ GetWriterFail(x)
                 \/ CloseWriter(x)
                 \/ PutWriter(x)
                 \/ PutWriterFail(x)
                 \/ Recheck(x)
                 \/ pc[x] = "again" /\ NextWriter(x)

(* Pause and Resume touch nothing but the pauser. *)
UpgradeStep(p) == PauserStep(p) /\ UNCHANGED <<envVars, err, pc, ret, report,
                                              listenVars, readVars, writeVars>>

Next == \/ \E f \in Feeders : FeedInRefused(f) \/ FeedIn(f) \/ FeederStep(f)
        \/ \E f \in Flushers : FlushOutRefused(f) \/ FlushOut(f) \/ FlusherStep(f)
        \/ \E r \in Readers : ReaderStep(r) \/ Quit(r)
        \/ \E x \in Writers : (pc[x] = "idle" /\ NextWriter(x)) \/ WriterStep(x)
        \/ \E p \in Pausers : UpgradeStep(p)
        \/ Close
        \/ Expire
        \/ SetDeadline

Spec == Init /\ [][Next]_vars

(* Scheduling: a goroutine that can go on does.  Requests and packets to write
   come or do not come; nobody has to close, pause or resume. *)
Fairness == /\ \A f \in Feeders : WF_vars(FeederStep(f))
            /\ \A f \in Flushers : WF_vars(FlusherStep(f))
            /\ \A r \in Readers : WF_vars(ReaderStep(r))
            /\ \A x \in Writers : WF_vars(WriterStep(x))
            /\ \A p \in Pausers : WF_vars(PauseWake(p) /\ UpgradeStep(p))

FairSpec == Spec /\ Fairness

(* Session.New and setDeadline always set a deadline, so its time comes.  A
   premise of the properties that need it. *)
TimePasses == WF_vars(Expire)

-----------------------------------------------------------------------------
(* A frame is open for reading, or for writing. *)
Reading(r) == pc[r] \in {"parse", "open"}
WritingTo(x) == holding[x]

(* An HTTP handler does not return while its body is being decoded or its
   response written: FeedIn and FlushOut stay in their second select until the
   frame is closed (payload.go:104-118, 168-179).  The one exception is a
   payload that has failed: the deadline passed and the error is stored. *)
HandlerStays ==
    err = "nil" =>
      /\ \A r \in Readers : Reading(r) => pc[raw] = "handed"
      /\ \A x \in Writers : WritingTo(x) # NoOne => pc[WritingTo(x)] = "handed"

(* The encoder has one set of fields for all writers and no lock: only the
   rendezvous with the one FlushOut keeps two goroutines from writing into one
   frame (encoder.go:42-46, payload.go:136).  While nothing has failed at most
   one writer has a frame open and the frame goes to its own response. *)
EncoderExclusive ==
    err = "nil" =>
      \A x \in Writers : WritingTo(x) # NoOne =>
          /\ rawWriter = WritingTo(x)
          /\ \A y \in Writers : WritingTo(y) # NoOne => y = x

(* A complete pause means that no frame is open in either direction, although
   getReader and getWriter call Done before they wait (payload.go:300, 352):
   the request that gave the frame is still counted. *)
PauseQuiesces ==
    status = "paused" /\ err = "nil" =>
      /\ \A r \in Readers : ~Reading(r)
      /\ \A x \in Writers : WritingTo(x) = NoOne

(* Every frame of the body was handed to the reader and the body ended well. *)
Complete(f) == body[f].left = 0 /\ body[f].fresh = 0 /\ body[f].tail = "eof"

(* FeedIn returns nil, and the POST is answered "ok", only when its own body
   is complete. *)
FeedInComplete == \A f \in Feeders : ret[f] = "nil" => Complete(f)

(* FlushOut returns nil, and the GET is answered 200, only when its own
   response contains a frame or a NOOP. *)
FlushOutNonEmpty ==
    \A f \in Flushers : ret[f] = "nil" => wrote[f] # "nothing"

(* A request between its Working and its Done. *)
Active(f) == pc[f] \in {"offer", "handed", "leaving"}

(* Who is counted by the pauser: a request as long as its call lasts, a reader
   or a writer only between the Working and the Done of its probe. *)
BusyIsActive ==
    /\ \A f \in Feeders \cup Flushers : f \in busy <=> Active(f)
    /\ \A x \in Readers \cup Writers : x \in busy <=> pc[x] = "probe"

(* The feeding and flushing flags admit one request each. *)
OneRequest ==
    /\ \A f \in Feeders : Active(f) => feeding = 1
    /\ \A f, g \in Feeders : Active(f) /\ Active(g) => f = g
    /\ \A f \in Flushers : Active(f) => flushing = 1
    /\ \A f, g \in Flushers : Active(f) /\ Active(g) => f = g

(* The body that is being decoded: its request waits for it, unless the
   payload has failed.  A header read ahead (fresh) is one of the body the
   reader comes back to, and a ping's frame stays open while it is answered. *)
BodyInHand ==
    /\ raw # NoOne /\ err = "nil" => pc[raw] = "handed"
    /\ \A r \in Readers : Reading(r) => raw # NoOne
    /\ \A f \in Feeders : body[f].fresh = 1 =>
           raw = f /\ \A r \in Readers : pc[r] \in {"idle", "stopped"}
    /\ \A x \in Pongers : pc[x] # "idle" =>
           \A r \in Readers : pc[r] \in {"open", "stopped"}

(* What putReader is about to report is true of the request that waits for
   it, and no request that had its report is decoded any more. *)
ReportIsTrue ==
    /\ \A r \in Readers : pc[r] \in {"put", "sending"} /\ report[r] # "bad" =>
          /\ raw = NoOne
          /\ report[r] = "nil" /\ err = "nil" =>
                \A f \in Feeders : pc[f] = "handed" => Complete(f)
    /\ \A f \in Feeders : ret[f] = "nil" =>
          pc[f] \in {"leaving", "returned"} /\ raw # f
    /\ FeedInComplete

(* The response in a writer's hand: a writer has one exactly while its frame
   is open or being put back, its request waits for it, it is the encoder's,
   and nobody else has one -- unless the payload has failed.  A nil that
   putWriter is about to report is about a response with a frame in it. *)
ResponseInHand ==
    /\ \A x \in Writers :
          holding[x] # NoOne <=> pc[x] \in {"open", "put", "sending"}
    /\ \A x \in Writers : holding[x] # NoOne /\ err = "nil" =>
          /\ pc[holding[x]] = "handed"
          /\ rawWriter = holding[x]
          /\ pc[x] \in {"put", "sending"} /\ report[x] = "nil" =>
                wrote[holding[x]] # "nothing"
    /\ err = "nil" => \A x, y \in Writers :
          holding[x] # NoOne /\ holding[y] # NoOne => x = y
    /\ FlushOutNonEmpty

(* The inductive invariant of the payload.  The pauser's count says which
   requests are inside, the flags that there is one of each kind, and the
   rendezvous that the one inside is the one whose body or response is used. *)
PayloadInv == /\ PayloadTypeOK
              /\ PauserInv
              /\ BusyIsActive
              /\ OneRequest
              /\ BodyInHand
              /\ ReportIsTrue
              /\ ResponseInHand

(* No request hangs in a closed payload (payload.go:243-248).  A call in its
   second select does not see the close and is ended by the deadline. *)
CloseDrains ==
    TimePasses => \A f \in Feeders \cup Flushers :
        closeCh = "closed" /\ pc[f] \in {"offer", "handed", "leaving"}
            ~> pc[f] = "returned"

(* An upgrade's Pause returns, once the writers stop asking for frames: no
   cycle of FeedIn waiting for the reader, the reader waiting for a FlushOut
   to write its pong, and Pause waiting for FeedIn outlives the deadline. *)
UpgradePauseReturns ==
    TimePasses /\ (<>[][\A x \in Writers : ~NextWriter(x)]_vars) =>
        \A p \in Pausers :
            call[p] \in {"waiting", "woken"} ~> call[p] = "returned"

(* "If Pause called when Flushout, it flushs out a NOOP message and return
   nil" (payload.go:125-126): a FlushOut that waits for a writer while a Pause
   waits for it does not go on waiting, and needs no deadline for it.  With
   several upgrades there are two exceptions, both made by a Resume that
   replaces the channels (pauser.go:59-65): one that came after the FlushOut
   began to listen, which leaves it with a channel nobody closes, and one under
   a Pause that waits, which goes on waiting without closing the new channel
   (pauser.go:44-46). *)
PauseTellsFlushOut ==
    \A f \in Flushers, p \in Pausers :
        call[p] = "waiting" /\ pc[f] = "offer"
            ~> pc[f] # "offer" \/ trigger[f] # gen \/ status = "normal"
=============================================================================
