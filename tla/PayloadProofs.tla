---------------------------- MODULE PayloadProofs ----------------------------
(***************************************************************************)
(* Proofs about Payload, for any number of requests, writers and upgrades,  *)
(* any bodies and any number of deadlines.  The pauser inside the payload   *)
(* is the pauser of PauserProofs, whose invariant is used as it stands; the *)
(* other parts of PayloadInv are kept by each party's steps.                *)
(***************************************************************************)
EXTENDS Payload, PauserProofs

(* Every party is a worker of the pauser. *)
LEMMA Parties ==
    /\ Feeders \subseteq Workers
    /\ Flushers \subseteq Workers
    /\ Readers \subseteq Workers
    /\ Writers \subseteq Workers
  BY PayloadWorkers

(* A new payload: nobody has called. *)
LEMMA PayloadInit == Init => PayloadInv
  <1> SUFFICES ASSUME Init
               PROVE  PayloadInv
    OBVIOUS
  <1>1. PauserInv
    BY InitInv DEF Init
  <1>b. body \in [Feeders -> Bodies]
    BY TailsKnown DEF Init, Bodies
  <1>2. PayloadTypeOK
    BY <1>1, <1>b, BoundsNat
    DEF Init, PayloadTypeOK, PauserInv, PCs, Results
  <1>3. BusyIsActive
    BY Parties DEF Init, PauserInit, BusyIsActive, Active
  <1>4. OneRequest
    BY Parties DEF Init, OneRequest, Active
  <1>5. BodyInHand
    BY Parties, PongersWrite, NoOneIsNone
    DEF Init, BodyInHand, Reading
  <1>6. ReportIsTrue
    BY Parties DEF Init, ReportIsTrue, FeedInComplete
  <1>7. ResponseInHand
    BY Parties DEF Init, ResponseInHand, FlushOutNonEmpty
  <1> QED
    BY <1>1, <1>2, <1>3, <1>4, <1>5, <1>6, <1>7 DEF PayloadInv

(* What a step of the payload does to the pauser is a step of the pauser. *)
LEMMA PauserInside ==
    ASSUME Next
    PROVE  [PauserNext]_pauserVars
  <1> USE Parties DEF PauserNext
  <1>1. ASSUME NEW f \in Feeders,
               FeedInRefused(f) \/ FeedIn(f) \/ FeederStep(f)
        PROVE  [PauserNext]_pauserVars
    BY <1>1
    DEF FeederStep, FeedInRefused, FeedIn, FeedInClosed, FeedInTimeout,
        FeedInReturn, HandBody, ReadError
  <1>2. ASSUME NEW f \in Flushers,
               FlushOutRefused(f) \/ FlushOut(f) \/ FlusherStep(f)
        PROVE  [PauserNext]_pauserVars
    BY <1>2
    DEF FlusherStep, FlushOutRefused, FlushOut, FlushOutClosed,
        FlushOutPausing, FlushOutTimeout, FlushOutReturn, Recheck, HandWriter,
        WriteError
  <1>3. ASSUME NEW r \in Readers,
               ReaderStep(r) \/ Quit(r)
        PROVE  [PauserNext]_pauserVars
    BY <1>3
    DEF ReaderStep, NextReaderSameBody, NextReader, ProbeDone, GetReaderWait,
        GetReaderFail, FirstHeader, CloseReader, PutReader, PutReaderFail,
        Quit
  <1>4. ASSUME NEW x \in Writers,
               (pc[x] = "idle" /\ NextWriter(x)) \/ WriterStep(x)
        PROVE  [PauserNext]_pauserVars
    BY <1>4
    DEF WriterStep, NextWriter, ProbeDone, GetWriterWait, GetWriterFail,
        CloseWriter, PutWriter, PutWriterFail, Recheck
  <1>5. ASSUME NEW p \in Pausers, UpgradeStep(p)
        PROVE  [PauserNext]_pauserVars
    BY <1>5 DEF UpgradeStep
  <1>6. CASE Close \/ Expire \/ SetDeadline
    BY <1>6 DEF Close, Expire, SetDeadline
  <1> QED
    BY <1>1, <1>2, <1>3, <1>4, <1>5, <1>6 DEF Next

(* A POST request.  It leaves the select it waits in either with an error that
   is stored, or because of the close before its body was taken, or with what
   putReader reports; and it is counted as long as the flag is set. *)
LEMMA FeederKeeps ==
    ASSUME PayloadInv, PauserInv', NEW f \in Feeders,
           FeedInRefused(f) \/ FeedIn(f) \/ FeederStep(f)
    PROVE  PayloadInv'
  <1> USE Parties, OneReader, PongersWrite, NoOneIsNone, DisjointParties
      DEF Goto, Return, Stop, Store, StoreResult, Load, Listen, envVars,
          listenVars, readVars, writeVars, pauserVars
  <1>0. /\ PayloadTypeOK /\ BusyIsActive /\ OneRequest
        /\ BodyInHand /\ ReportIsTrue /\ ResponseInHand
    BY DEF PayloadInv
  <1>1. PayloadTypeOK'
    BY <1>0, BoundsNat
    DEF FeederStep, FeedInRefused, FeedIn, Working, FeedInClosed,
        FeedInTimeout, FeedInReturn, Done, HandBody, ReadError, PayloadTypeOK,
        TypeOK, PauserInv, BodyInHand, Reading, PCs, Results, Bodies
  <1>2. BusyIsActive'
    BY <1>0
    DEF FeederStep, FeedInRefused, FeedIn, Working, FeedInClosed,
        FeedInTimeout, FeedInReturn, Done, HandBody, ReadError, PayloadTypeOK,
        BodyInHand, BusyIsActive, Active
  <1>3. OneRequest'
    BY <1>0
    DEF FeederStep, FeedInRefused, FeedIn, Working, FeedInClosed,
        FeedInTimeout, FeedInReturn, Done, HandBody, ReadError, PayloadTypeOK,
        OneRequest, Active
  <1>4. BodyInHand'
    <2> USE <1>0
        DEF PayloadTypeOK, BodyInHand, OneRequest, Active, ReportIsTrue,
            Complete, Reading, PCs, Bodies
    <2>1. CASE FeedInRefused(f)
      BY <2>1 DEF FeedInRefused
    <2>2. CASE FeedIn(f)
      BY <2>2 DEF FeedIn, Working
    <2>3. CASE FeedInClosed(f)
      BY <2>3 DEF FeedInClosed
    <2>4. CASE FeedInTimeout(f)
      BY <2>4 DEF FeedInTimeout
    <2>5. CASE FeedInReturn(f)
      BY <2>5 DEF FeedInReturn, Done
    <2>6. ASSUME NEW r \in Readers, HandBody(f, r)
          PROVE  BodyInHand'
      BY <2>6 DEF HandBody
    <2>7. ASSUME NEW r \in Readers, ReadError(f, r)
          PROVE  BodyInHand'
      BY <2>7 DEF ReadError
    <2> QED
      BY <2>1, <2>2, <2>3, <2>4, <2>5, <2>6, <2>7 DEF FeederStep
  <1>5. ReportIsTrue'
    <2> USE <1>0
        DEF PayloadTypeOK, BodyInHand, OneRequest, Active, ReportIsTrue,
            FeedInComplete, Complete, Reading, PCs, Bodies, Results
    <2>1. CASE FeedInRefused(f)
      BY <2>1 DEF FeedInRefused
    <2>2. CASE FeedIn(f)
      BY <2>2 DEF FeedIn, Working
    <2>3. CASE FeedInClosed(f)
      BY <2>3 DEF FeedInClosed
    <2>4. CASE FeedInTimeout(f)
      BY <2>4 DEF FeedInTimeout
    <2>5. CASE FeedInReturn(f)
      BY <2>5 DEF FeedInReturn, Done
    <2>6. ASSUME NEW r \in Readers, HandBody(f, r)
          PROVE  ReportIsTrue'
      BY <2>6 DEF HandBody
    <2>7. ASSUME NEW r \in Readers, ReadError(f, r)
          PROVE  ReportIsTrue'
      BY <2>7 DEF ReadError
    <2> QED
      BY <2>1, <2>2, <2>3, <2>4, <2>5, <2>6, <2>7 DEF FeederStep
  <1>6. ResponseInHand'
    BY <1>0
    DEF FeederStep, FeedInRefused, FeedIn, Working, FeedInClosed,
        FeedInTimeout, FeedInReturn, Done, HandBody, ReadError, PayloadTypeOK,
        OneRequest, Active, ResponseInHand, FlushOutNonEmpty, PCs, Results
  <1> QED
    BY <1>1, <1>2, <1>3, <1>4, <1>5, <1>6 DEF PayloadInv

(* A GET request.  Its response is given to one writer, and it does not
   return nil before that writer or a NOOP has written into it. *)
LEMMA FlusherKeeps ==
    ASSUME PayloadInv, PauserInv', NEW f \in Flushers,
           FlushOutRefused(f) \/ FlushOut(f) \/ FlusherStep(f)
    PROVE  PayloadInv'
  <1> USE Parties, OneReader, PongersWrite, NoOneIsNone, DisjointParties
      DEF Goto, Return, Stop, Store, StoreResult, Load, Listen, envVars,
          listenVars, readVars, writeVars, pauserVars
  <1>0. /\ PayloadTypeOK /\ BusyIsActive /\ OneRequest
        /\ BodyInHand /\ ReportIsTrue /\ ResponseInHand
    BY DEF PayloadInv
  <1>1. PayloadTypeOK'
    <2> USE <1>0, BoundsNat
        DEF PayloadTypeOK, TypeOK, PauserInv, BodyInHand, Reading, PCs,
            Results, Bodies
    <2>1. CASE FlushOutRefused(f)
      BY <2>1 DEF FlushOutRefused, WriteNOOP
    <2>2. CASE FlushOut(f)
      BY <2>2 DEF FlushOut, Working
    <2>3. CASE FlushOutClosed(f)
      BY <2>3 DEF FlushOutClosed
    <2>4. CASE FlushOutPausing(f)
      BY <2>4 DEF FlushOutPausing, WriteNOOP
    <2>5. CASE FlushOutTimeout(f)
      BY <2>5 DEF FlushOutTimeout
    <2>6. CASE FlushOutReturn(f)
      BY <2>6 DEF FlushOutReturn, Done
    <2>7. CASE Recheck(f)
      BY <2>7 DEF Recheck
    <2>8. ASSUME NEW x \in Writers, HandWriter(f, x)
          PROVE  PayloadTypeOK'
      BY <2>8 DEF HandWriter
    <2>9. ASSUME NEW x \in Writers, WriteError(f, x)
          PROVE  PayloadTypeOK'
      BY <2>9 DEF WriteError
    <2> QED
      BY <2>1, <2>2, <2>3, <2>4, <2>5, <2>6, <2>7, <2>8, <2>9 DEF FlusherStep
  <1>2. BusyIsActive'
    BY <1>0
    DEF FlusherStep, FlushOutRefused, WriteNOOP, FlushOut, Working,
        FlushOutClosed, FlushOutPausing, FlushOutTimeout, FlushOutReturn,
        Done, Recheck, HandWriter, WriteError, PayloadTypeOK, BodyInHand,
        BusyIsActive, Active
  <1>3. OneRequest'
    BY <1>0
    DEF FlusherStep, FlushOutRefused, WriteNOOP, FlushOut, Working,
        FlushOutClosed, FlushOutPausing, FlushOutTimeout, FlushOutReturn,
        Done, Recheck, HandWriter, WriteError, PayloadTypeOK, OneRequest,
        Active
  <1>4. BodyInHand'
    BY <1>0
    DEF FlusherStep, FlushOutRefused, WriteNOOP, FlushOut, Working,
        FlushOutClosed, FlushOutPausing, FlushOutTimeout, FlushOutReturn,
        Done, Recheck, HandWriter, WriteError, PayloadTypeOK, BodyInHand,
        OneRequest, Active, ReportIsTrue, Complete, Reading, PCs, Bodies
  <1>5. ReportIsTrue'
    BY <1>0
    DEF FlusherStep, FlushOutRefused, WriteNOOP, FlushOut, Working,
        FlushOutClosed, FlushOutPausing, FlushOutTimeout, FlushOutReturn,
        Done, Recheck, HandWriter, WriteError, PayloadTypeOK, BodyInHand,
        OneRequest, Active, ReportIsTrue, FeedInComplete, Complete, Reading,
        PCs, Bodies, Results
  <1>6. ResponseInHand'
    <2> USE <1>0
        DEF PayloadTypeOK, OneRequest, Active, ResponseInHand,
            FlushOutNonEmpty, PCs, Results
    <2>1. CASE FlushOutRefused(f)
      BY <2>1 DEF FlushOutRefused, WriteNOOP
    <2>2. CASE FlushOut(f)
      BY <2>2 DEF FlushOut, Working
    <2>3. CASE FlushOutClosed(f)
      BY <2>3 DEF FlushOutClosed
    <2>4. CASE FlushOutPausing(f)
      BY <2>4 DEF FlushOutPausing, WriteNOOP
    <2>5. CASE FlushOutTimeout(f)
      BY <2>5 DEF FlushOutTimeout
    <2>6. CASE FlushOutReturn(f)
      BY <2>6 DEF FlushOutReturn, Done
    <2>7. CASE Recheck(f)
      BY <2>7 DEF Recheck
    <2>8. ASSUME NEW x \in Writers, HandWriter(f, x)
          PROVE  ResponseInHand'
      BY <2>8 DEF HandWriter
    <2>9. ASSUME NEW x \in Writers, WriteError(f, x)
          PROVE  ResponseInHand'
      BY <2>9 DEF WriteError
    <2> QED
      BY <2>1, <2>2, <2>3, <2>4, <2>5, <2>6, <2>7, <2>8, <2>9 DEF FlusherStep
  <1> QED
    BY <1>1, <1>2, <1>3, <1>4, <1>5, <1>6 DEF PayloadInv

(* The reader.  It drops the body it decodes only when the body is used up or
   broken, and reports just that. *)
LEMMA ReaderKeeps ==
    ASSUME PayloadInv, PauserInv', NEW r \in Readers,
           ReaderStep(r) \/ Quit(r)
    PROVE  PayloadInv'
  <1> USE Parties, OneReader, PongersWrite, NoOneIsNone, DisjointParties
      DEF Goto, Return, Stop, Store, StoreResult, Load, Listen, envVars,
          listenVars, readVars, writeVars, pauserVars
  <1>0. /\ PayloadTypeOK /\ BusyIsActive /\ OneRequest
        /\ BodyInHand /\ ReportIsTrue /\ ResponseInHand
    BY DEF PayloadInv
  <1>1. PayloadTypeOK'
    <2> USE <1>0, BoundsNat
        DEF PayloadTypeOK, TypeOK, PauserInv, BodyInHand, Reading, PCs,
            Results, Bodies
    <2>1. CASE NextReaderSameBody(r)
      <3>1. body' \in [Feeders -> Bodies]
        BY <2>1 DEF NextReaderSameBody
      <3> HIDE DEF Bodies
      <3> QED
        BY <2>1, <3>1 DEF NextReaderSameBody
    <2>2. CASE NextReader(r)
      BY <2>2 DEF NextReader, Working
    <2>3. CASE ProbeDone(r)
      BY <2>3 DEF ProbeDone, Done
    <2>4. CASE GetReaderWait(r)
      BY <2>4 DEF GetReaderWait
    <2>5. CASE GetReaderFail(r)
      BY <2>5 DEF GetReaderFail
    <2>6. CASE FirstHeader(r)
      <3>1. body' \in [Feeders -> Bodies]
        BY <2>6 DEF FirstHeader, HeaderOutcomes
      <3>2. /\ raw' \in Feeders \cup {NoOne}
            /\ report' \in [Workers -> {"nil", "eof", "bad"}]
            /\ pc' \in [Workers -> PCs]
            /\ ret' \in [Workers -> Results]
        BY <2>6 DEF FirstHeader, HeaderOutcomes
      <3> HIDE DEF Bodies, PCs, Results
      <3> QED
        BY <2>6, <3>1, <3>2 DEF FirstHeader
    <2>7. CASE CloseReader(r)
      <3>1. body' \in [Feeders -> Bodies]
        BY <2>7 DEF CloseReader, HeaderOutcomes, TakeHeader
      <3>2. /\ raw' \in Feeders \cup {NoOne}
            /\ report' \in [Workers -> {"nil", "eof", "bad"}]
            /\ pc' \in [Workers -> PCs]
            /\ ret' \in [Workers -> Results]
        BY <2>7 DEF CloseReader, HeaderOutcomes
      <3> HIDE DEF Bodies, PCs, Results
      <3> QED
        BY <2>7, <3>1, <3>2 DEF CloseReader
    <2>8. CASE PutReader(r)
      BY <2>8 DEF PutReader, PutReaderEnd
    <2>9. CASE PutReaderFail(r)
      BY <2>9 DEF PutReaderFail, PutReaderEnd
    <2>10. CASE Quit(r)
      BY <2>10 DEF Quit
    <2> QED
      BY <2>1, <2>2, <2>3, <2>4, <2>5, <2>6, <2>7, <2>8, <2>9, <2>10 DEF ReaderStep
  <1>2. BusyIsActive'
    BY <1>0
    DEF ReaderStep, NextReaderSameBody, NextReader, Working, ProbeDone, Done,
        GetReaderWait, GetReaderFail, FirstHeader, HeaderOutcomes,
        CloseReader, TakeHeader, PutReader, PutReaderEnd, PutReaderFail, Quit,
        PayloadTypeOK, BodyInHand, BusyIsActive, Active
  <1>3. OneRequest'
    BY <1>0
    DEF ReaderStep, NextReaderSameBody, NextReader, Working, ProbeDone, Done,
        GetReaderWait, GetReaderFail, FirstHeader, HeaderOutcomes,
        CloseReader, TakeHeader, PutReader, PutReaderEnd, PutReaderFail, Quit,
        PayloadTypeOK, OneRequest, Active
  <1>4. BodyInHand'
    <2> USE <1>0
        DEF PayloadTypeOK, BodyInHand, OneRequest, Active, ReportIsTrue,
            Complete, Reading, PCs, Bodies
    <2>1. CASE NextReaderSameBody(r)
      BY <2>1 DEF NextReaderSameBody
    <2>2. CASE NextReader(r)
      BY <2>2 DEF NextReader, Working
    <2>3. CASE ProbeDone(r)
      BY <2>3 DEF ProbeDone, Done
    <2>4. CASE GetReaderWait(r)
      BY <2>4 DEF GetReaderWait
    <2>5. CASE GetReaderFail(r)
      BY <2>5 DEF GetReaderFail
    <2>6. CASE FirstHeader(r)
      BY <2>6 DEF FirstHeader, HeaderOutcomes
    <2>7. CASE CloseReader(r)
      BY <2>7 DEF CloseReader, HeaderOutcomes, TakeHeader
    <2>8. CASE PutReader(r)
      BY <2>8 DEF PutReader, PutReaderEnd
    <2>9. CASE PutReaderFail(r)
      BY <2>9 DEF PutReaderFail, PutReaderEnd
    <2>10. CASE Quit(r)
      BY <2>10 DEF Quit
    <2> QED
      BY <2>1, <2>2, <2>3, <2>4, <2>5, <2>6, <2>7, <2>8, <2>9, <2>10 DEF ReaderStep
  <1>5. ReportIsTrue'
    <2> USE <1>0
        DEF PayloadTypeOK, BodyInHand, OneRequest, Active, ReportIsTrue,
            FeedInComplete, Complete, Reading, PCs, Bodies, Results
    <2>1. CASE NextReaderSameBody(r)
      BY <2>1 DEF NextReaderSameBody
    <2>2. CASE NextReader(r)
      BY <2>2 DEF NextReader, Working
    <2>3. CASE ProbeDone(r)
      BY <2>3 DEF ProbeDone, Done
    <2>4. CASE GetReaderWait(r)
      BY <2>4 DEF GetReaderWait
    <2>5. CASE GetReaderFail(r)
      BY <2>5 DEF GetReaderFail
    <2>6. CASE FirstHeader(r)
      BY <2>6 DEF FirstHeader, HeaderOutcomes
    <2>7. CASE CloseReader(r)
      BY <2>7 DEF CloseReader, HeaderOutcomes, TakeHeader
    <2>8. CASE PutReader(r)
      BY <2>8 DEF PutReader, PutReaderEnd
    <2>9. CASE PutReaderFail(r)
      BY <2>9 DEF PutReaderFail, PutReaderEnd
    <2>10. CASE Quit(r)
      BY <2>10 DEF Quit
    <2> QED
      BY <2>1, <2>2, <2>3, <2>4, <2>5, <2>6, <2>7, <2>8, <2>9, <2>10 DEF ReaderStep
  <1>6. ResponseInHand'
    BY <1>0
    DEF ReaderStep, NextReaderSameBody, NextReader, Working, ProbeDone, Done,
        GetReaderWait, GetReaderFail, FirstHeader, HeaderOutcomes,
        CloseReader, TakeHeader, PutReader, PutReaderEnd, PutReaderFail, Quit,
        PayloadTypeOK, OneRequest, Active, ResponseInHand, FlushOutNonEmpty,
        PCs, Results
  <1> QED
    BY <1>1, <1>2, <1>3, <1>4, <1>5, <1>6 DEF PayloadInv

(* A writer.  A ponger that fails takes the reader with it, which has the
   ping's frame open at that time and is not counted. *)
LEMMA WriterKeeps ==
    ASSUME PayloadInv, PauserInv', NEW x \in Writers,
           (pc[x] = "idle" /\ NextWriter(x)) \/ WriterStep(x)
    PROVE  PayloadInv'
  <1> USE Parties, OneReader, PongersWrite, NoOneIsNone, DisjointParties
      DEF Goto, Return, Stop, Store, StoreResult, Load, Listen, envVars,
          listenVars, readVars, writeVars, pauserVars
  <1>0. /\ PayloadTypeOK /\ BusyIsActive /\ OneRequest
        /\ BodyInHand /\ ReportIsTrue /\ ResponseInHand
    BY DEF PayloadInv
  <1>1. PayloadTypeOK'
    BY <1>0, BoundsNat
    DEF WriterStep, NextWriter, Working, WriterFail, ProbeDone, Done,
        GetWriterWait, GetWriterFail, CloseWriter, PutWriter, PutWriterEnd,
        PutWriterFail, Recheck, PayloadTypeOK, TypeOK, PauserInv, BodyInHand,
        Reading, PCs, Results, Bodies
  <1>2. BusyIsActive'
    BY <1>0
    DEF WriterStep, NextWriter, Working, WriterFail, ProbeDone, Done,
        GetWriterWait, GetWriterFail, CloseWriter, PutWriter, PutWriterEnd,
        PutWriterFail, Recheck, PayloadTypeOK, BodyInHand, BusyIsActive,
        Active
  <1>3. OneRequest'
    BY <1>0
    DEF WriterStep, NextWriter, Working, WriterFail, ProbeDone, Done,
        GetWriterWait, GetWriterFail, CloseWriter, PutWriter, PutWriterEnd,
        PutWriterFail, Recheck, PayloadTypeOK, OneRequest, Active
  <1>4. BodyInHand'
    BY <1>0
    DEF WriterStep, NextWriter, Working, WriterFail, ProbeDone, Done,
        GetWriterWait, GetWriterFail, CloseWriter, PutWriter, PutWriterEnd,
        PutWriterFail, Recheck, PayloadTypeOK, BodyInHand, OneRequest, Active,
        ReportIsTrue, Complete, Reading, PCs, Bodies
  <1>5. ReportIsTrue'
    BY <1>0
    DEF WriterStep, NextWriter, Working, WriterFail, ProbeDone, Done,
        GetWriterWait, GetWriterFail, CloseWriter, PutWriter, PutWriterEnd,
        PutWriterFail, Recheck, PayloadTypeOK, BodyInHand, OneRequest, Active,
        ReportIsTrue, FeedInComplete, Complete, Reading, PCs, Bodies, Results
  <1>6. ResponseInHand'
    <2> USE <1>0
        DEF PayloadTypeOK, OneRequest, Active, ResponseInHand,
            FlushOutNonEmpty, PCs, Results
    <2>1. CASE NextWriter(x)
      BY <2>1 DEF NextWriter, Working, WriterFail
    <2>2. CASE ProbeDone(x)
      BY <2>2 DEF ProbeDone, Done
    <2>3. CASE GetWriterWait(x)
      BY <2>3 DEF GetWriterWait, WriterFail
    <2>4. CASE GetWriterFail(x)
      BY <2>4 DEF GetWriterFail, WriterFail
    <2>5. CASE CloseWriter(x)
      BY <2>5 DEF CloseWriter
    <2>6. CASE PutWriter(x)
      BY <2>6 DEF PutWriter, PutWriterEnd
    <2>7. CASE PutWriterFail(x)
      BY <2>7 DEF PutWriterFail, PutWriterEnd
    <2>8. CASE Recheck(x)
      BY <2>8 DEF Recheck
    <2> QED
      BY <2>1, <2>2, <2>3, <2>4, <2>5, <2>6, <2>7, <2>8 DEF WriterStep
  <1> QED
    BY <1>1, <1>2, <1>3, <1>4, <1>5, <1>6 DEF PayloadInv

(* Pause, Resume, Close, the deadline: nothing but the pauser's state and the
   environment's changes. *)
LEMMA OthersKeep ==
    ASSUME PayloadInv, PauserInv',
           \/ \E p \in Pausers : UpgradeStep(p)
           \/ Close \/ Expire \/ SetDeadline
           \/ UNCHANGED vars
    PROVE  PayloadInv'
  <1>1. /\ UNCHANGED <<err, pc, ret, report, readVars, writeVars, listenVars>>
        /\ closeCh' \in {"open", "closed"}
        /\ deadline' \in {"armed", "expired"}
        /\ arms' \in 0..MaxArms
        /\ busy' = busy
    BY BoundsNat
    DEF UpgradeStep, PauserStep, PauseAgain, PauseWait, PauseNow, PauseWake,
        Resume, KeepPaused, Close, Expire, SetDeadline, vars, envVars,
        pauserVars, PayloadInv, PayloadTypeOK
  <1>2. PayloadTypeOK'
    BY <1>1
    DEF PayloadInv, PayloadTypeOK, PauserInv, readVars, writeVars, listenVars
  <1>3. BusyIsActive' /\ OneRequest'
    BY <1>1
    DEF PayloadInv, BusyIsActive, OneRequest, Active, readVars, writeVars
  <1>4. BodyInHand' /\ ReportIsTrue'
    BY <1>1
    DEF PayloadInv, BodyInHand, ReportIsTrue, FeedInComplete, Complete,
        Reading, readVars
  <1>5. ResponseInHand'
    BY <1>1
    DEF PayloadInv, ResponseInHand, FlushOutNonEmpty, writeVars
  <1> QED
    BY <1>2, <1>3, <1>4, <1>5 DEF PayloadInv

(* Every step keeps the invariant. *)
LEMMA PayloadStep == PayloadInv /\ [Next]_vars => PayloadInv'
  <1> SUFFICES ASSUME PayloadInv, [Next]_vars
               PROVE  PayloadInv'
    OBVIOUS
  <1>1. [PauserNext]_pauserVars
    BY PauserInside DEF vars
  <1>2. PauserInv'
    BY <1>1, NextInv DEF PayloadInv
  <1> QED
    BY <1>2, FeederKeeps, FlusherKeeps, ReaderKeeps, WriterKeeps, OthersKeep
    DEF Next

(* The inductive invariant of the payload. *)
THEOREM PayloadInvariant == Spec => []PayloadInv
  BY PayloadInit, PayloadStep, PTL DEF Spec

(* An HTTP handler does not return while its body is decoded or its response
   written, unless the payload has failed (FeedIn and FlushOut,
   payload.go:104-118, 168-179). *)
THEOREM HandlersStay == Spec => []HandlerStays
  <1>1. PayloadInv => HandlerStays
    BY DEF PayloadInv, BodyInHand, ResponseInHand, HandlerStays, WritingTo
  <1> QED
    BY <1>1, PayloadInvariant, PTL

(* The encoder is used by one writer at a time, without a lock of its own
   (encoder.go:42-46). *)
THEOREM EncoderIsExclusive == Spec => []EncoderExclusive
  <1>1. PayloadInv => EncoderExclusive
    BY DEF PayloadInv, ResponseInHand, EncoderExclusive, WritingTo
  <1> QED
    BY <1>1, PayloadInvariant, PTL

(* FeedIn answers a POST with success only for a body that was read to its
   end (payload.go:77-118). *)
THEOREM NoPostIsLost == Spec => []FeedInComplete
  <1>1. PayloadInv => FeedInComplete
    BY DEF PayloadInv, ReportIsTrue
  <1> QED
    BY <1>1, PayloadInvariant, PTL

(* FlushOut answers a GET with success only for a response with something in
   it (payload.go:127-179). *)
THEOREM NoEmptyAnswer == Spec => []FlushOutNonEmpty
  <1>1. PayloadInv => FlushOutNonEmpty
    BY DEF PayloadInv, ResponseInHand
  <1> QED
    BY <1>1, PayloadInvariant, PTL

(* A complete pause finds no frame open, although the reader and the writers
   that use the frames are not counted: the request that gave the body or the
   response is (BusyIsActive), it is still waiting (BodyInHand,
   ResponseInHand), and a paused pauser counts nobody (PausedIsIdle). *)
THEOREM PauseIsQuiet == Spec => []PauseQuiesces
  <1>1. PayloadInv => PauseQuiesces
    BY NoOneIsNone
    DEF PayloadInv, PauserInv, PausedIsIdle, PayloadTypeOK, BusyIsActive,
        Active, BodyInHand, ResponseInHand, PauseQuiesces, Reading, WritingTo
  <1> QED
    BY <1>1, PayloadInvariant, PTL

(* The payload uses its pauser as a pauser is meant to be used: what the
   methods of the payload do to it is a behaviour of Pauser ... *)
THEOREM PayloadUsesPauser == Spec => PauserSpec
  <1>1. Init => PauserInit
    BY DEF Init
  <1>2. [Next]_vars => [PauserNext]_pauserVars
    BY PauserInside DEF vars
  <1> QED
    BY <1>1, <1>2, PTL DEF Spec, PauserSpec

(* ... and hence of the gate. *)
THEOREM PayloadImplementsGate == Spec => ImplementsGate
  BY PayloadUsesPauser, PauserImplementsGate
=============================================================================
