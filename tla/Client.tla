------------------------------- MODULE Client -------------------------------
(***************************************************************************)
(* A client over polling: client.go, the client half of                    *)
(* connection_handlers.go, engineio/client.go, engineio/dialer.go and      *)
(* engineio/transport/polling/connect.go.                                  *)
(*                                                                         *)
(* Goroutines.  dial is the application in Client.Connect; it starts open  *)
(* (getOpen), then get (serveGet), post (servePost) and serve (the pings), *)
(* then read, write and error (clientRead, clientWrite, clientError).  The *)
(* types of the frames are chosen where they are handled.                  *)
(*                                                                         *)
(* open and get feed response bodies to whoever reads (dial, then read);   *)
(* post collects what dial, serve and write write, one frame a request.    *)
(* They meet in the client's payload, which nobody pauses.  Unlike a       *)
(* server's it starts without deadlines: the first pong sets the one for   *)
(* reading, the first ping the one for writing, and a wait that began      *)
(* before has a timer that never fires.                                    *)
(*                                                                         *)
(* A step ends where a goroutine waits or where another one can make a     *)
(* difference: a call's first look at the payload belongs to the step      *)
(* before it, and the first conn.Close runs to its end.                    *)
(***************************************************************************)
EXTENDS Naturals

CONSTANTS Nil,        \* no body
          Tails       \* how a response may end: "eof" or "bad"

Feeders == {"open", "get"}
Readers == {"dial", "read"}
Writers == {"dial", "serve", "write"}
Goroutines == {"dial", "open", "get", "post", "serve", "read", "write", "error"}

ASSUME TailsKnown == Tails \subseteq {"eof", "bad"}
ASSUME NilIsNoBody == Nil \notin Feeders

VARIABLES pc,        \* where each goroutine is
          patient,   \* the goroutines that wait with a timer that never fires
          then,      \* where the reader goes on when its frame is closed
          closeCh,   \* payload.close: "open" or "closed"
          err,       \* payload.err: "nil" or "set"
          readDl,    \* payload.readDeadline: "none", "armed" or "expired"
          writeDl,   \* payload.writeDeadline
          raw,       \* decoder.rawReader: whose body is being decoded
          report,    \* what the reader gives to putReader
          stop,      \* client.close: "open" or "closed"
          quit       \* conn.quitChan: "open" or "closed"

payload == <<closeCh, err, readDl, writeDl>>
decoder == <<raw, report>>
vars == <<pc, patient, then, payload, decoder, stop, quit>>

(* Feeders: do (the request is under way), offer and handed (the selects of
   FeedIn), leaving (it returns).  post:
   offer, handed, do.  Writers: waitw (getWriter), writing.  Readers: next,
   await (getReader), frame, closing, sending (putReader).  raise and report:
   in onError, before leaving or going on.  emit: in conn.write. *)
Places == {"off", "done", "do", "offer", "handed", "leaving",
           "sleep", "waitw", "writing", "next", "await", "frame",
           "closing", "sending", "opened", "loop", "emit", "raise", "report",
           "close"}

Waits == {"offer", "handed", "await", "sending", "waitw", "writing"}

ClientTypeOK ==
    /\ pc \in [Goroutines -> Places]
    /\ patient \subseteq {g \in Goroutines : pc[g] \in Waits}
    /\ then \in {"opened", "next", "emit", "raise", "done"}
    /\ {closeCh, stop, quit} \subseteq {"open", "closed"}
    /\ err \in {"nil", "set"}
    /\ {readDl, writeDl} \subseteq {"none", "armed", "expired"}
    /\ raw \in Feeders \cup {Nil}
    /\ report \in {"nil", "eof", "bad"}

Init ==
    /\ pc = [g \in Goroutines |-> IF g = "dial" THEN "loop" ELSE "off"]
    /\ patient = {}
    /\ then = "done"
    /\ closeCh = "open"
    /\ err = "nil"
    /\ readDl = "none"
    /\ writeDl = "none"
    /\ raw = Nil
    /\ report = "nil"
    /\ stop = "open"
    /\ quit = "open"

Goto(g, l) == pc' = [pc EXCEPT ![g] = l]

(* readTimeout and writeTimeout: the timer of a wait is set when it begins,
   and never fires if there is no deadline then. *)
DeadlineOf(g) == IF g = "post" \/ pc'[g] \in {"waitw", "writing"}
                 THEN writeDl ELSE readDl

(* Timers that are kept when the wait is over. *)
TimersKept == patient' = patient \cup {g \in Goroutines : /\ pc'[g] \in Waits
                                                         /\ DeadlineOf(g) = "none"}

SetTimers == patient' = {g \in Goroutines : /\ pc'[g] \in Waits
                                           /\ IF pc'[g] = pc[g] THEN g \in patient
                                              ELSE DeadlineOf(g) = "none"}

(* The time of a deadline comes. *)
ReadExpires ==
    /\ readDl = "armed"
    /\ readDl' = "expired"
    /\ UNCHANGED <<pc, patient, then, closeCh, err, writeDl, decoder, stop, quit>>

WriteExpires ==
    /\ writeDl = "armed"
    /\ writeDl' = "expired"
    /\ UNCHANGED <<pc, patient, then, closeCh, err, readDl, decoder, stop, quit>>

(* The first thing a call on the payload does: it fails if the payload is
   closed or, with a stored error, past its deadline, ... *)
Entered(dl, ok) ==
    /\ ok = (closeCh = "open" /\ dl # "expired")
    /\ err' = IF closeCh = "open" /\ dl = "expired" THEN "set" ELSE err

(* ... and else goes to l. *)
Enter(dl, g, l, k) == \E ok \in BOOLEAN : /\ Entered(dl, ok)
                                         /\ Goto(g, IF ok THEN l ELSE k)

(* A select with the close channel and a timer, without the other party. *)
Leave(dl, g, k) ==
    /\ \/ closeCh = "closed" /\ UNCHANGED err
       \/ dl = "expired" /\ g \notin patient /\ err' = "set"
    /\ Goto(g, k)

-----------------------------------------------------------------------------
(* polling/connect.go: getOpen and serveGet *)

(* A request fails, is answered with another status than 200 or times out:
   store the error, close the payload, and be done. *)
RequestFailed(g) ==
    /\ err' = "set"
    /\ closeCh' = "closed"
    /\ Goto(g, "done")

(* payload.feeding: a FeedIn has not returned. *)
Feeding == \E f \in Feeders : pc[f] \in {"offer", "handed", "leaving"}

(* The end of FeedIn.  getOpen returns with it, and until then it is feeding;
   serveGet ends at an error and else asks again. *)
FeedInOver(f, ok) == IF f = "open" THEN "leaving" ELSE IF ok THEN "do" ELSE "done"

(* The answer to a GET is fed in. *)
FeedIn(f) ==
    /\ UNCHANGED closeCh
    /\ IF closeCh = "closed" \/ Feeding THEN Goto(f, "done") /\ UNCHANGED err
       ELSE Enter(readDl, f, "offer", FeedInOver(f, FALSE))

Get(f) ==
    /\ pc[f] = "do"
    /\ RequestFailed(f) \/ FeedIn(f)
    /\ UNCHANGED <<then, readDl, writeDl, decoder, stop, quit>>

(* The selects of FeedIn; only the first of them watches the close. *)
FeedInFails(f) ==
    /\ \/ pc[f] = "offer" /\ Leave(readDl, f, FeedInOver(f, FALSE))
       \/ /\ pc[f] = "handed"
          /\ readDl = "expired" /\ f \notin patient
          /\ err' = "set"
          /\ Goto(f, FeedInOver(f, FALSE))
    /\ UNCHANGED <<then, closeCh, readDl, writeDl, decoder, stop, quit>>

OpenEnds ==
    /\ pc["open"] = "leaving"
    /\ Goto("open", "done")
    /\ UNCHANGED <<then, payload, decoder, stop, quit>>

-----------------------------------------------------------------------------
(* NextReader and Close of a frame, by dial in Open and then by read *)

(* A read failed: Open returns the error, clientRead calls onError with it and
   leaves. *)
Lost(x) == IF x = "dial" THEN "done" ELSE "raise"

(* decoder.NextReader: at a frame of the body already, ... *)
Resume(l, body) == IF l = "next" /\ body # Nil THEN "frame" ELSE l

(* ... or in getReader. *)
NextReader(x) ==
    /\ pc[x] = "next"
    /\ Enter(readDl, x, "await", Lost(x))
    /\ UNCHANGED <<then, closeCh, readDl, writeDl, decoder, stop, quit>>

GetReaderFails(x) ==
    /\ pc[x] = "await"
    /\ Leave(readDl, x, Lost(x))
    /\ UNCHANGED <<then, closeCh, readDl, writeDl, decoder, stop, quit>>

(* readerChan, and the first header of the body.  NextReader fails if there is
   none. *)
HandBody(f, x) ==
    /\ pc[f] = "offer"
    /\ pc[x] = "await"
    /\ \/ /\ raw' = f
          /\ pc' = [pc EXCEPT ![f] = "handed", ![x] = "frame"]
          /\ UNCHANGED <<then, report>>
       \/ /\ report' \in Tails
          /\ pc' = [pc EXCEPT ![f] = "handed", ![x] = "sending"]
          /\ then' = Lost(x)
          /\ UNCHANGED raw
    /\ UNCHANGED <<payload, stop, quit>>

(* Where a Close that failed leads: Open takes its error, the handler of a
   Connect packet calls onError and goes on, and the others drop it. *)
CloseFailed(x) == IF x = "dial" THEN {"done"}
                  ELSE {then} \cup (IF then = "next" THEN {"report"} ELSE {})

(* decoder.Close: at the next frame of the body, ... *)
CloseFrame(x) ==
    /\ pc[x] = "closing"
    /\ pc[raw] = "handed"
    /\ Goto(x, Resume(then, raw))
    /\ then' = "done"
    /\ UNCHANGED <<payload, raw, report, stop, quit>>

(* ... or at the end of the body, which is reported as nil and the body dropped;
   another error, the one for a body whose feeder has returned and closed it
   included, is reported and the body kept. *)
CloseBody(x) ==
    /\ pc[x] = "closing"
    /\ \E k \in Tails \cup (IF pc[raw] = "handed" THEN {} ELSE {"bad"}) :
         /\ raw' = IF k = "eof" THEN Nil ELSE raw
         /\ \E l \in CloseFailed(x) : Enter(readDl, x, "sending", Resume(l, raw'))
         /\ report' = IF pc'[x] = "sending" /\ k = "bad" THEN "bad" ELSE "nil"
    /\ then' = IF pc'[x] = "sending" THEN then ELSE "done"
    /\ UNCHANGED <<closeCh, readDl, writeDl, stop, quit>>

PutReaderFails(x) ==
    /\ pc[x] = "sending"
    /\ \E l \in CloseFailed(x) : Leave(readDl, x, Resume(l, raw))
    /\ report' = "nil"
    /\ then' = "done"
    /\ UNCHANGED <<closeCh, readDl, writeDl, raw, stop, quit>>

(* readError: FeedIn returns what Store makes of it. *)
ReadError(f, x) ==
    /\ pc[f] = "handed"
    /\ pc[x] = "sending"
    /\ \E l \in (IF report = "nil" THEN {then} ELSE CloseFailed(x)) :
         pc' = [pc EXCEPT ![f] = FeedInOver(f, err = "nil" /\ report = "nil"),
                          ![x] = Resume(l, raw)]
    /\ err' = IF report = "bad" THEN "set" ELSE err
    /\ report' = "nil"
    /\ then' = "done"
    /\ UNCHANGED <<closeCh, readDl, writeDl, raw, stop, quit>>

-----------------------------------------------------------------------------
(* polling/connect.go: servePost, and the writers it serves *)

(* servePost that does not wait for the frame to be closed. *)
HandWriterOnly(x) ==
    /\ pc["post"] = "offer"
    /\ pc[x] = "waitw"
    /\ pc' = [pc EXCEPT !["post"] = "do", ![x] = "writing"]
    /\ UNCHANGED <<then, payload, decoder, stop, quit>>

(* writerChan: FlushOut meets getWriter. *)
HandWriter(x) ==
    /\ pc["post"] = "offer"
    /\ pc[x] = "waitw"
    /\ pc' = [pc EXCEPT !["post"] = "handed", ![x] = "writing"]
    /\ UNCHANGED <<then, payload, decoder, stop, quit>>

(* The answer to a POST; servePost calls FlushOut again. *)
Post ==
    /\ pc["post"] = "do"
    /\ \/ RequestFailed("post")
       \/ Enter(writeDl, "post", "offer", "done") /\ UNCHANGED closeCh
    /\ UNCHANGED <<then, readDl, writeDl, decoder, stop, quit>>

(* The selects of FlushOut; only the first of them watches the close. *)
FlushOutFails ==
    /\ \/ pc["post"] = "offer" /\ Leave(writeDl, "post", "done")
       \/ /\ pc["post"] = "handed"
          /\ writeDl = "expired" /\ "post" \notin patient
          /\ err' = "set"
          /\ Goto("post", "done")
    /\ UNCHANGED <<then, closeCh, readDl, writeDl, decoder, stop, quit>>

(* Where a packet that could not be written leads: connectClient closes the
   client, clientWrite calls onError, and the ping loop ends, with its deferred
   Close. *)
Unwritten(x) == CASE x = "dial" -> "close"
                  [] x = "write" -> "raise"
                  [] x = "serve" -> "done"

ServeEnds == closeCh' = IF pc'["serve"] = "done" THEN "closed" ELSE closeCh

(* The selects of getWriter and putWriter without FlushOut. *)
WriterFails(x) ==
    /\ pc[x] \in {"waitw", "writing"}
    /\ Leave(writeDl, x, Unwritten(x))
    /\ ServeEnds
    /\ UNCHANGED <<then, readDl, writeDl, decoder, stop, quit>>

(* The frame is in servePost's buffer.  Connect starts the other goroutines,
   the ping loop sets its deadline. *)
Written(x) ==
    CASE x = "dial"  -> [pc EXCEPT ![x] = "done", !["write"] = "loop",
                                   !["error"] = "loop",
                                   !["read"] = Resume("next", raw)]
      [] x = "write" -> [pc EXCEPT ![x] = "loop"]
      [] x = "serve" -> [pc EXCEPT ![x] = "sleep"]

(* encoder.Close and writeError: the writer's putWriter meets FlushOut, which
   returns the error of the payload if there is one.  putWriter looked for one
   before. *)
WriteError(x) ==
    /\ pc["post"] = "handed"
    /\ pc[x] = "writing"
    /\ \E bad \in (IF err = "set" THEN BOOLEAN ELSE {FALSE}) :
         /\ pc' = [(IF bad THEN [pc EXCEPT ![x] = Unwritten(x)] ELSE Written(x))
                     EXCEPT !["post"] = IF err = "set" THEN "done" ELSE "do"]
         /\ writeDl' = IF x = "serve" /\ ~bad THEN "armed" ELSE writeDl
    /\ ServeEnds
    /\ UNCHANGED <<then, err, readDl, decoder, stop, quit>>

-----------------------------------------------------------------------------
(* engineio/dialer.go, client.go: Dial and Connect *)

(* Open starts getOpen and waits for the first frame. *)
Dial ==
    /\ pc["dial"] = "loop"
    /\ pc' = [pc EXCEPT !["dial"] = "next", !["open"] = "do"]
    /\ UNCHANGED <<then, payload, decoder, stop, quit>>

(* The first frame has to be OPEN with the parameters in it, and is closed. *)
OpenFrame ==
    /\ pc["dial"] = "frame"
    /\ Goto("dial", "closing")
    /\ then' \in {"opened", "done"}
    /\ UNCHANGED <<payload, decoder, stop, quit>>

(* Start the polling goroutines and the pings; connectClient, which fails
   without a root handler, writes the Connect packet. *)
Opened ==
    /\ pc["dial"] = "opened"
    /\ \E l \in {"waitw", "close"} :
         pc' = [pc EXCEPT !["dial"] = l, !["get"] = "do", !["post"] = "offer",
                          !["serve"] = "sleep"]
    /\ UNCHANGED <<then, payload, decoder, stop, quit>>

-----------------------------------------------------------------------------
(* engineio/client.go: serve and NextReader *)

(* The time of a ping comes, or case <-c.close. *)
Ping ==
    /\ pc["serve"] = "sleep"
    /\ \/ Enter(writeDl, "serve", "waitw", "done")
       \/ stop = "closed" /\ Goto("serve", "done") /\ UNCHANGED err
    /\ ServeEnds
    /\ UNCHANGED <<then, readDl, writeDl, decoder, stop, quit>>

(* A pong sets the deadline, an unknown packet is passed over. *)
Pong ==
    /\ pc["read"] = "frame"
    /\ readDl' \in {"armed", readDl}
    /\ Goto("read", "closing")
    /\ then' = "next"
    /\ UNCHANGED <<closeCh, err, writeDl, decoder, stop, quit>>

(* CLOSE closes the client and ends the reader; its own frame stays open. *)
ClosePacket ==
    /\ pc["read"] = "frame"
    /\ stop' = "closed"
    /\ closeCh' = "closed"
    /\ Goto("read", Lost("read"))
    /\ UNCHANGED <<then, err, readDl, writeDl, decoder, quit>>

(* Where a packet handler leads when the packet's frame is closed: it returns
   nil, has an answer for the write goroutine, or calls onError and fails.
   Namespaces and rooms of a client are changed as Connection says. *)
HandlerEnds == {"next", "emit", "raise"}

(* A message goes to the decoder of socket.io.  One it does not understand
   ends clientRead, the others are handled. *)
Message ==
    /\ pc["read"] = "frame"
    /\ \/ Goto("read", Lost("read")) /\ UNCHANGED then
       \/ Goto("read", "closing") /\ then' \in HandlerEnds
    /\ UNCHANGED <<payload, decoder, stop, quit>>

-----------------------------------------------------------------------------
(* client.go and connection.go *)

(* Where a goroutine goes on after a conn.write. *)
EmitOver(g) == IF g = "read" THEN Resume("next", raw) ELSE "loop"

(* clientWrite takes the packet of g and tries to write it. *)
HandPacket(g) ==
    /\ pc["write"] = "loop"
    /\ \E ok \in BOOLEAN :
         /\ Entered(writeDl, ok)
         /\ pc' = [pc EXCEPT ![g] = EmitOver(g),
                             !["write"] = IF ok THEN "waitw" ELSE Unwritten("write")]

(* A conn.write that does not watch quitChan. *)
EmitBlocks(g) ==
    /\ pc[g] = "emit"
    /\ HandPacket(g)
    /\ UNCHANGED <<then, closeCh, readDl, writeDl, decoder, stop, quit>>

(* conn.write, by read for the answer to an event or by error in an OnError
   handler that emits. *)
Emit(g) ==
    /\ pc[g] = "emit"
    /\ \/ HandPacket(g)
       \/ quit = "closed" /\ Goto(g, EmitOver(g)) /\ UNCHANGED err
    /\ UNCHANGED <<then, closeCh, readDl, writeDl, decoder, stop, quit>>

(* onError, by read or write: wait for clientError, or for quitChan.  Then read
   leaves, or goes on if only a Close failed, and write takes the next packet.
   clientError calls the OnError handler of the namespace if there is one, and
   that may emit. *)
OnError(g) ==
    LET l == IF g = "write" THEN "loop"
             ELSE IF pc[g] = "report" THEN Resume("next", raw) ELSE "close"
    IN /\ pc[g] \in {"raise", "report"}
       /\ \/ /\ pc["error"] = "loop"
             /\ \E k \in {"loop", "emit"} : pc' = [pc EXCEPT ![g] = l, !["error"] = k]
          \/ quit = "closed" /\ Goto(g, l)
       /\ UNCHANGED <<then, payload, decoder, stop, quit>>

(* Client.Emit, by the application. *)
AppEmit ==
    /\ pc["write"] = "loop"
    /\ quit = "open"
    /\ Enter(writeDl, "write", "waitw", Unwritten("write"))
    /\ UNCHANGED <<then, closeCh, readDl, writeDl, decoder, stop, quit>>

(* conn.Close: the first call closes the engine.io client and then quitChan. *)
Quit == /\ stop' = "closed"
        /\ closeCh' = "closed"
        /\ quit' = "closed"
        /\ UNCHANGED <<then, err, readDl, writeDl, decoder>>

(* A goroutine that leaves calls it, *)
Close(g) == pc[g] = "close" /\ Goto(g, "done") /\ Quit

(* and the application may at any time, once it has the client. *)
AppClose == pc["read"] # "off" /\ quit = "open" /\ UNCHANGED pc /\ Quit

(* case <-quitChan of clientWrite and clientError, and their Close. *)
Quits(g) ==
    /\ pc[g] = "loop"
    /\ quit = "closed"
    /\ Goto(g, "done")
    /\ UNCHANGED <<then, payload, decoder, stop, quit>>

-----------------------------------------------------------------------------
FeedStep(f) == /\ \/ Get(f)
                  \/ FeedInFails(f)
                  \/ f = "open" /\ OpenEnds
                  \/ \E x \in Readers : HandBody(f, x) \/ ReadError(f, x)
               /\ SetTimers

PostStep == /\ \/ Post
               \/ FlushOutFails
               \/ \E x \in Writers : HandWriter(x) \/ WriteError(x)
            /\ SetTimers

ReaderStep(x) == \/ NextReader(x)
                 \/ GetReaderFails(x)
                 \/ CloseFrame(x)
                 \/ CloseBody(x)
                 \/ PutReaderFails(x)

DialStep == /\ \/ ReaderStep("dial")
               \/ Dial
               \/ OpenFrame
               \/ Opened
               \/ WriterFails("dial")
               \/ Close("dial")
            /\ SetTimers

ServeStep == /\ Ping \/ WriterFails("serve")
             /\ SetTimers

ReadStep == /\ \/ ReaderStep("read")
               \/ Pong
               \/ ClosePacket
               \/ Message
               \/ Emit("read")
               \/ OnError("read")
               \/ Close("read")
            /\ SetTimers

WriteStep == /\ WriterFails("write") \/ OnError("write") \/ Quits("write")
             /\ SetTimers

ErrorStep == /\ Emit("error") \/ Quits("error")
             /\ SetTimers

Next == \/ \E f \in Feeders : FeedStep(f)
        \/ PostStep
        \/ DialStep
        \/ ServeStep
        \/ ReadStep
        \/ WriteStep
        \/ ErrorStep
        \/ AppEmit /\ SetTimers
        \/ AppClose /\ SetTimers
        \/ ReadExpires
        \/ WriteExpires

Spec == Init /\ [][Next]_vars

(* A goroutine that can go on does, every request is answered or times out,
   every body ends, and time passes.  Who waits for a channel is served before
   those who come later, and a select picks at random among what is ready. *)
Fairness == /\ \A f \in Feeders : WF_vars(FeedStep(f))
            /\ WF_vars(PostStep)
            /\ WF_vars(DialStep)
            /\ WF_vars(ServeStep)
            /\ WF_vars(ReadStep)
            /\ SF_vars(CloseBody("read") /\ SetTimers)
            /\ SF_vars((Emit("read") \/ OnError("read")) /\ SetTimers)
            /\ WF_vars(WriteStep)
            /\ WF_vars(ErrorStep)
            /\ SF_vars(Quits("write") /\ SetTimers)
            /\ WF_vars(ReadExpires)
            /\ WF_vars(WriteExpires)

FairSpec == Spec /\ Fairness

-----------------------------------------------------------------------------
(* A feeder whose body was left in the middle, or a servePost whose frame was,
   with a timer that never fires. *)
Stranded(g) == pc[g] = "handed" /\ g \in patient

(* The reader is at a body that its feeder has given up and closed. *)
StaleBody == /\ raw # Nil /\ pc[raw] # "handed"
             /\ pc["read"] \notin {"off", "raise", "close", "done"}

(* A circle that only quitChan can open: the OnError handler emits (client.go:
   175) and waits for the write goroutine, which is in onError (196) and waits
   for the goroutine of the handler. *)
Jammed == pc["error"] = "emit" /\ pc["write"] = "raise" /\ quit = "open"

(* Once the payload of a client is closed, by a failed request (connect.go:
   117-125, 223-231), the end of the ping loop, a CLOSE packet or Client.Close,
   all its goroutines end.  Three cases are left out: a feeder or servePost
   whose frame nobody closes and that began to wait before the first deadline,
   a reader that goes on for ever with a body that its feeder has closed, and
   the circle of an OnError handler that emits with the write goroutine, as
   long as the application does not close the client. *)
ClosedClientEnds ==
    []<>~(StaleBody \/ Jammed) =>
        closeCh = "closed" ~> \A g \in Goroutines :
                                 pc[g] \in {"off", "done"} \/ Stranded(g)

(* servePost has one buffer for all its requests (connect.go:102-107): nobody
   writes to it while a request is under way. *)
PostIsComplete ==
    pc["post"] = "do" => \A x \in Writers : pc[x] # "writing"

(* Until Open has returned there is nobody but dial and open. *)
Dialling ==
    pc["dial"] \in {"loop", "next", "await", "frame", "closing", "sending", "opened"}
        => \A g \in Goroutines \ {"dial", "open"} : pc[g] = "off"

(* FlushOut gives the buffer to one writer, and before it nobody has it. *)
OneWriter ==
    /\ pc["post"] \in {"off", "offer"} => \A x \in Writers : pc[x] # "writing"
    /\ pc["post"] = "handed" =>
          \A x, y \in Writers : pc[x] = "writing" /\ pc[y] = "writing" => x = y

(* payload.feeding: getOpen and serveGet are not both in FeedIn. *)
OneFeeder == ~\A f \in Feeders : pc[f] \in {"offer", "handed", "leaving"}

(* Who reads a frame has a body. *)
FrameHasBody == \A x \in Readers : pc[x] \in {"frame", "closing"} => raw # Nil

(* The socket.io connection closes the engine.io client, which closes the
   payload. *)
CloseOrder == /\ quit = "closed" => stop = "closed"
              /\ stop = "closed" => closeCh = "closed"

(* The inductive invariant. *)
ClientInv == /\ ClientTypeOK
             /\ PostIsComplete
             /\ Dialling
             /\ OneWriter
             /\ OneFeeder
             /\ FrameHasBody
             /\ CloseOrder
=============================================================================
