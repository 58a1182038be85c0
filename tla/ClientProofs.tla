---------------------------- MODULE ClientProofs ----------------------------
(***************************************************************************)
(* Proofs about Client, whatever the bodies of the responses are and how   *)
(* often requests are answered.                                            *)
(***************************************************************************)
EXTENDS Client, TLAPS

LEMMA InitInv == Init => ClientInv
  BY DEF Init, ClientInv, ClientTypeOK, Places, Waits, PostIsComplete, Dialling,
         OneWriter, OneFeeder, FrameHasBody, CloseOrder, Goroutines, Feeders,
         Readers, Writers

(* Every step of a goroutine sets the timers, which is all there is to say of
   patient. *)
LEMMA TimersType ==
    ASSUME SetTimers
    PROVE  patient' \subseteq {g \in Goroutines : pc'[g] \in Waits}
  BY DEF SetTimers

(* The invariant without patient. *)
TypesOK ==
    /\ pc \in [Goroutines -> Places]
    /\ then \in {"opened", "next", "emit", "raise", "done"}
    /\ closeCh \in {"open", "closed"}
    /\ stop \in {"open", "closed"}
    /\ quit \in {"open", "closed"}
    /\ err \in {"nil", "set"}
    /\ readDl \in {"none", "armed", "expired"}
    /\ writeDl \in {"none", "armed", "expired"}
    /\ raw \in Feeders \cup {Nil}
    /\ report \in {"nil", "eof", "bad"}

Order == /\ PostIsComplete
         /\ Dialling
         /\ OneWriter
         /\ OneFeeder
         /\ FrameHasBody
         /\ CloseOrder

LEMMA InvParts == ClientInv => TypesOK /\ Order
  BY DEF ClientInv, ClientTypeOK, TypesOK, Order

LEMMA InvPartsAfter ==
    ASSUME TypesOK', Order', SetTimers
    PROVE  ClientInv'
  BY TimersType DEF ClientInv, ClientTypeOK, TypesOK, Order

LEMMA TailKinds == \A k \in Tails : k \in {"nil", "eof", "bad"}
  BY TailsKnown

LEMMA FeedInv ==
    ASSUME TypesOK, Order, NEW f \in Feeders, NEW x \in Readers,
           \/ Get(f) \/ FeedInFails(f) \/ (f = "open" /\ OpenEnds)
           \/ HandBody(f, x) \/ ReadError(f, x)
    PROVE  TypesOK' /\ Order'
  <1> USE NilIsNoBody
      DEF TypesOK, Order, Places, PostIsComplete, Dialling, OneWriter, OneFeeder,
          FrameHasBody, CloseOrder, Goroutines, Feeders, Readers, Writers, Goto,
          payload, decoder
  <1>1. CASE Get(f)
    BY <1>1 DEF Get, RequestFailed, FeedIn, Feeding, FeedInOver, Enter, Entered
  <1>2. CASE FeedInFails(f)
    BY <1>2 DEF FeedInFails, Leave, FeedInOver
  <1>3. CASE f = "open" /\ OpenEnds
    BY <1>3 DEF OpenEnds
  <1>4. CASE HandBody(f, x)
    <2>1. /\ \A g \in Goroutines :
                pc'[g] = IF g = f THEN "handed" ELSE IF g = x THEN pc'[x] ELSE pc[g]
          /\ pc' \in [Goroutines -> Places]
          /\ pc'[x] \in {"frame", "sending"}
          /\ pc'[x] = "frame" => raw' = f
          /\ pc'[x] = "sending" => raw' = raw
      BY <1>4 DEF HandBody
    <2>r. /\ report' \in {"nil", "eof", "bad"}
          /\ then' \in {"opened", "next", "emit", "raise", "done"}
      <3>1. \/ then' = then /\ report' = report
            \/ then' = Lost(x) /\ report' \in Tails
        BY <1>4 DEF HandBody
      <3>2. report' \in Tails => report' \in {"nil", "eof", "bad"}
        BY TailKinds
      <3>3. Lost(x) \in {"done", "raise"}
        BY DEF Lost
      <3> QED
        BY <3>1, <3>2, <3>3
    <2>2. TypesOK'
      <3>1. raw' \in Feeders \cup {Nil}
        BY <1>4 DEF HandBody
      <3>2. UNCHANGED <<closeCh, err, readDl, writeDl, stop, quit>>
        BY <1>4 DEF HandBody
      <3> QED
        BY <2>1, <2>r, <3>1, <3>2
    <2>3. PostIsComplete' /\ OneWriter' /\ CloseOrder'
      BY <1>4, <2>1 DEF HandBody
    <2>4. Dialling' /\ OneFeeder' /\ FrameHasBody'
      BY <1>4, <2>1 DEF HandBody
    <2> QED
      BY <2>2, <2>3, <2>4
  <1>5. CASE ReadError(f, x)
    BY <1>5 DEF ReadError, FeedInOver, Resume, CloseFailed
  <1> QED
    BY <1>1, <1>2, <1>3, <1>4, <1>5

LEMMA ReaderInv ==
    ASSUME TypesOK, Order, NEW x \in Readers, ReaderStep(x)
    PROVE  TypesOK' /\ Order'
  <1> USE NilIsNoBody
      DEF TypesOK, Order, Places, PostIsComplete, Dialling, OneWriter, OneFeeder,
          FrameHasBody, CloseOrder, Goroutines, Feeders, Readers, Writers, Goto,
          payload, decoder, Lost, Resume, CloseFailed
  <1>1. CASE NextReader(x)
    BY <1>1 DEF NextReader, Enter, Entered
  <1>2. CASE GetReaderFails(x)
    BY <1>2 DEF GetReaderFails, Leave
  <1>3. CASE CloseFrame(x)
    BY <1>3 DEF CloseFrame
  <1>4. CASE CloseBody(x)
    BY <1>4 DEF CloseBody, Enter, Entered
  <1>5. CASE PutReaderFails(x)
    BY <1>5 DEF PutReaderFails, Leave
  <1> QED
    BY <1>1, <1>2, <1>3, <1>4, <1>5 DEF ReaderStep

LEMMA PostInv ==
    ASSUME TypesOK, Order, NEW x \in Writers,
           Post \/ FlushOutFails \/ HandWriter(x) \/ WriteError(x) \/ WriterFails(x)
    PROVE  TypesOK' /\ Order'
  <1> USE NilIsNoBody
      DEF TypesOK, Order, Places, PostIsComplete, Dialling, OneWriter, OneFeeder,
          FrameHasBody, CloseOrder, Goroutines, Feeders, Readers, Writers, Goto,
          payload, decoder, Unwritten, ServeEnds
  <1>1. CASE Post
    BY <1>1 DEF Post, RequestFailed, Enter, Entered
  <1>2. CASE FlushOutFails
    BY <1>2 DEF FlushOutFails, Leave
  <1>3. CASE HandWriter(x)
    BY <1>3 DEF HandWriter
  <1>4. CASE WriteError(x)
    <2>1. CASE x = "dial"
      BY <1>4, <2>1 DEF WriteError, Written, Resume
    <2>2. CASE x = "serve"
      BY <1>4, <2>2 DEF WriteError, Written
    <2>3. CASE x = "write"
      BY <1>4, <2>3 DEF WriteError, Written
    <2> QED
      BY <2>1, <2>2, <2>3
  <1>5. CASE WriterFails(x)
    BY <1>5 DEF WriterFails, Leave
  <1> QED
    BY <1>1, <1>2, <1>3, <1>4, <1>5

LEMMA OwnInv ==
    ASSUME TypesOK, Order,
           \/ Dial \/ OpenFrame \/ Opened \/ Ping \/ Pong \/ ClosePacket \/ Message
           \/ Close("dial") \/ Close("read") \/ AppEmit \/ AppClose
    PROVE  TypesOK' /\ Order'
  <1> USE NilIsNoBody
      DEF TypesOK, Order, Places, PostIsComplete, Dialling, OneWriter, OneFeeder,
          FrameHasBody, CloseOrder, Goroutines, Feeders, Readers, Writers, Goto,
          payload, decoder, Enter, Entered
  <1>1. CASE Dial \/ OpenFrame \/ Opened
    BY <1>1 DEF Dial, OpenFrame, Opened
  <1>2. CASE Ping
    BY <1>2 DEF Ping, ServeEnds
  <1>3. CASE Pong \/ ClosePacket
    BY <1>3 DEF Pong, ClosePacket, Lost
  <1>4. CASE Message
    BY <1>4 DEF Message, HandlerEnds, Lost
  <1>5. CASE Close("dial") \/ Close("read") \/ AppClose
    BY <1>5 DEF Close, AppClose, Quit
  <1>6. CASE AppEmit
    BY <1>6 DEF AppEmit, Unwritten
  <1> QED
    BY <1>1, <1>2, <1>3, <1>4, <1>5, <1>6

(* What read, write and error do together. *)
LEMMA MeetInv ==
    ASSUME TypesOK, Order,
           \/ Emit("read") \/ Emit("error")
           \/ OnError("read") \/ OnError("write")
           \/ Quits("write") \/ Quits("error")
    PROVE  TypesOK' /\ Order'
  <1> USE NilIsNoBody
      DEF TypesOK, Order, Places, PostIsComplete, Dialling, OneWriter, OneFeeder,
          FrameHasBody, CloseOrder, Goroutines, Feeders, Readers, Writers, Goto,
          payload, decoder
  <1>1. CASE Emit("read")
    BY <1>1 DEF Emit, HandPacket, EmitOver, Resume, Entered, Unwritten
  <1>2. CASE Emit("error")
    BY <1>2 DEF Emit, HandPacket, EmitOver, Entered, Unwritten
  <1>3. CASE OnError("read")
    BY <1>3 DEF OnError, Resume
  <1>4. CASE OnError("write")
    BY <1>4 DEF OnError
  <1>5. CASE Quits("write") \/ Quits("error")
    BY <1>5 DEF Quits
  <1> QED
    BY <1>1, <1>2, <1>3, <1>4, <1>5

LEMMA StepInv == ClientInv /\ [Next]_vars => ClientInv'
  <1> SUFFICES ASSUME ClientInv, [Next]_vars
               PROVE  ClientInv'
    OBVIOUS
  <1>1. TypesOK /\ Order
    BY InvParts
  <1>2. CASE UNCHANGED vars
    BY <1>2 DEF vars, payload, decoder, ClientInv, ClientTypeOK, PostIsComplete,
                Dialling, OneWriter, OneFeeder, FrameHasBody, CloseOrder
  <1>3. CASE ReadExpires \/ WriteExpires
    BY <1>3 DEF ReadExpires, WriteExpires, decoder, ClientInv, ClientTypeOK,
                PostIsComplete, Dialling, OneWriter, OneFeeder, FrameHasBody, CloseOrder
  <1>4. CASE SetTimers /\ TypesOK' /\ Order'
    BY <1>4, InvPartsAfter
  <1>d. "dial" \in Readers \cap Writers /\ "read" \in Readers /\ {"serve", "write"} \subseteq Writers
    BY DEF Readers, Writers
  <1>5. ASSUME NEW f \in Feeders, FeedStep(f)
        PROVE  ClientInv'
    BY <1>1, <1>4, <1>5, <1>d, FeedInv DEF FeedStep
  <1>6. CASE PostStep
    BY <1>1, <1>4, <1>6, <1>d, PostInv DEF PostStep
  <1>7. CASE DialStep
    BY <1>1, <1>4, <1>7, <1>d, ReaderInv, PostInv, OwnInv DEF DialStep
  <1>8. CASE ServeStep
    BY <1>1, <1>4, <1>8, <1>d, PostInv, OwnInv DEF ServeStep
  <1>9. CASE ReadStep
    BY <1>1, <1>4, <1>9, <1>d, ReaderInv, OwnInv, MeetInv DEF ReadStep
  <1>10. CASE WriteStep \/ ErrorStep
    BY <1>1, <1>4, <1>10, <1>d, PostInv, MeetInv DEF WriteStep, ErrorStep
  <1>11. CASE (AppEmit \/ AppClose) /\ SetTimers
    BY <1>1, <1>4, <1>11, OwnInv
  <1> QED
    BY <1>2, <1>3, <1>5, <1>6, <1>7, <1>8, <1>9, <1>10, <1>11 DEF Next

(* The goroutines of a client keep the invariant. *)
THEOREM ClientInvariant == Spec => []ClientInv
  BY InitInv, StepInv, PTL DEF Spec

(* Nobody writes to servePost's buffer while a request with it is under way
   (connect.go:102-107). *)
THEOREM PostsAreComplete == Spec => []PostIsComplete
  <1>1. ClientInv => PostIsComplete
    BY DEF ClientInv
  <1> QED
    BY <1>1, ClientInvariant, PTL
=============================================================================
