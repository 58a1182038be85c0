------------------------------- MODULE Parser -------------------------------
(***************************************************************************)
(* One direction of a connection, from Emit to the handlers of the peer:   *)
(* parser/encoder.go, parser/decoder.go and parser/buffer.go over the      *)
(* frames of a websocket (transport/websocket, engineio/packet) or of a    *)
(* polling payload (module Framing).                                       *)
(*                                                                         *)
(* serve is the write goroutine, which encodes a packet: a TEXT frame with *)
(* a header and JSON, then a BINARY frame for each Buffer in the           *)
(* arguments.  pong is the goroutine that answers a ping (or sends one).   *)
(* Each of them takes the write lock with a frame and gives it back with   *)
(* the frame's Close; over polling the one encoder of the payload is in    *)
(* the place of the lock.  A Buffer is numbered in place, and a broadcast  *)
(* gives the same Buffers to the write goroutine of another connection.    *)
(*                                                                         *)
(* A header is a sequence of tokens: digits, the marks - and , and [ ],    *)
(* a namespace, a query, the name of an event or the parts of one, and its *)
(* arguments.                                                              *)
(***************************************************************************)
EXTENDS Framing

CONSTANTS Nil,
          Scripts,       \* bound: what is written, over which transport
          Data,          \* the bytes of each Buffer
          Known,         \* the namespaces the peer has, handler and connection
          MaxPongs       \* bound: pings answered

Buffers == DOMAIN Data

(* query: the header has a query, as an answer to Connect may.  name: whether
   a comma or a ']' stands in the event's name.  bufs are the Buffers in the
   order of the JSON; in a map they are visited in any order.  good says that
   the arguments can be encoded. *)
PacketType ==
    [type : {"Connect", "Disconnect", "Event", "Ack"}, ns : {<<>>, <<"/n">>, <<"/u">>},
     query : BOOLEAN, needAck : BOOLEAN, id : Nat, args : BOOLEAN,
     name : {"plain", "comma", "bracket"}, text : Seq(Bytes), bufs : Seq(Buffers),
     map : BOOLEAN, cast : BOOLEAN, good : BOOLEAN]

ASSUME ScriptsTyped ==
    Scripts \subseteq [mode : {"websocket", "binary", "base64"}, packets : Seq(PacketType)]
ASSUME FiniteBuffers == IsFiniteSet(Buffers)
ASSUME DataTyped == \A b \in Buffers : Data[b] \in Seq(Bytes)

Writers == {"serve", "pong"}

ASSUME NilIsNobody == Nil \notin Writers

VARIABLES script,    \* what the application writes
          broken,    \* the connection is lost
          lock,      \* wrapper.writeLocker: who holds it
          pc,        \* where each writer is
          enc,       \* the packet serve encodes
          num,       \* Buffer.num of each Buffer
          twin,      \* what the other connection's encoder has yet to number
          pongs,     \* pings answered
          net,       \* frames on their way
          dec,       \* the peer's decoder
          sent,      \* packets given to the encoder
          got        \* packets given to the peer's handlers

wire == <<broken, lock, net>>
encoder == <<enc, num, twin, sent>>
decoder == <<dec, got>>
mode == script.mode
vars == <<script, wire, pc, encoder, pongs, decoder>>

NoPacket == [pkt |-> Nil, todo |-> <<>>, bufs |-> <<>>, places |-> <<>>, frame |-> Nil]
NoHeader == [at |-> "header", header |-> Nil, frame |-> Nil, bufs |-> <<>>, stale |-> FALSE]

Init ==
    /\ script \in Scripts
    /\ broken = FALSE
    /\ lock = Nil
    /\ pc = [w \in Writers |-> "idle"]
    /\ enc = NoPacket
    /\ num = [b \in Buffers |-> 0]
    /\ twin = <<>>
    /\ pongs = 0
    /\ net = <<>>
    /\ dec = NoHeader
    /\ sent = <<>>
    /\ got = <<>>

-----------------------------------------------------------------------------
(* The text of a packet *)

TypeNumbers == [Connect |-> 0, Disconnect |-> 1, Event |-> 2, Ack |-> 3]

\* attachBuffer makes an event or an acknowledgement with Buffers a binary one.
TypeNumber(p) ==
    TypeNumbers[p.type] + (IF p.bufs # <<>> /\ p.type \in {"Event", "Ack"} THEN 3 ELSE 0)

When(condition, tokens) == IF condition THEN tokens ELSE <<>>

Names == [plain |-> <<"name">>, comma |-> <<"na", ",", "me">>, bracket |-> <<"na", "]", "me">>]

Json(p) ==
    <<"[">> \o When(p.type = "Event", Names[p.name])
            \o When(p.text # <<>> \/ p.bufs # <<>>, When(p.type = "Event", <<",">>) \o <<"args">>)
            \o <<"]">>

\* A query that the header has is not written.
Namespace(p) == p.ns \o When(p.id # 0 \/ p.args, <<",">>)

\* Mutant of Attached: the index is counted on first.
AttachedTwice(p) == Len(p.bufs) + 1

\* The number of Buffers that attachBuffer found.
Attached(p) == Len(p.bufs)

WritePacket(p) ==
    <<ToString(TypeNumber(p))>>
        \o When(TypeNumber(p) > 4, Digits[Attached(p)] \o <<"-">>)
        \o When(p.ns # <<>>, Namespace(p))
        \o When(p.needAck, Digits[p.id])
        \o When(p.args, Json(p))

\* readString: the first place in s with one of the tokens, or else past the end.
First(s, tokens) == Min({i \in DOMAIN s : s[i] \in tokens} \cup {Len(s) + 1})

\* readUint64FromText: the first place in s without a digit.
DigitsEnd(s) == Min({i \in DOMAIN s : ~IsDigit(s[i])} \cup {Len(s) + 1})

From(s, i) == SubSeq(s, i, Len(s))
Starts(s, token) == s # <<>> /\ Head(s) = token
IsNamespace(token) == token \in {"/n", "/u"}

(* readHeader: the number after the type is the number of Buffers when a '-'
   follows and the id otherwise; a namespace goes on to the next ','.
   Everything that can be missing at the end of the text is. *)
ReadHeader(s) ==
    LET type == Value(<<Head(s)>>)
        afterType == Tail(s)
        i == DigitsEnd(afterType)
        number == SubSeq(afterType, 1, i - 1)
        dashed == Starts(From(afterType, i), "-")
        body == From(afterType, IF dashed THEN i + 1 ELSE i)
        named == body # <<>> /\ IsNamespace(Head(body))
        j == IF named THEN First(body, {","}) ELSE 0
        path == SubSeq(body, 1, j - 1)
        q == First(path, {"?"})
        tail == From(body, j + 1)
        k == DigitsEnd(tail)
        id == CASE k > 1 -> SubSeq(tail, 1, k - 1)
                [] k = 1 /\ (dashed \/ (named /\ tail = <<>>)) -> <<>>
                [] OTHER -> number
    IN  [type |-> IF type > 4 THEN type - 3 ELSE type,
         count |-> IF dashed THEN Value(number) ELSE 0,
         ns |-> SubSeq(path, 1, q - 1), query |-> q < Len(path),
         needAck |-> id # <<>>, id |-> Value(id), rest |-> From(tail, k)]

(* readEvent: the name is what stands between '[' and the next ',' or ']',
   and has to be a JSON string.  What is left goes to DecodeArgs. *)
ReadEvent(s) ==
    LET i == First(s, {",", "]"})
        name == SubSeq(s, 2, i - 1)
    IN  [ok |-> Starts(s, "[") /\ i <= Len(s) /\ name = <<"name">>,
         rest |-> <<"[">> \o From(s, IF i <= Len(s) /\ s[i] = "," THEN i + 1 ELSE i)]

\* DecodeHeader on a TEXT frame.
DecodeText(tokens) ==
    LET header == ReadHeader(tokens)
        event == ReadEvent(header.rest)
    IN  CASE tokens = <<>> -> Nil
          [] tokens # <<>> /\ header.type # 2 -> header
          [] OTHER -> IF event.ok THEN [header EXCEPT !.rest = event.rest] ELSE Nil

\* Every text that may be on its way, decoded, and how far its data are read.
Written == UNION {ToSet(s.packets) : s \in Scripts}
FrameTexts == {WritePacket(p) : p \in Written} \cup {<<>>}
Decoded == [tokens \in FrameTexts |-> DecodeText(tokens)]
FrameRead ==
    [base64 \in BOOLEAN |->
        [data \in {p.text : p \in Written} \cup {Data[b] : b \in Buffers} \cup {<<>>} |->
            BytesRead(base64, data)]]

-----------------------------------------------------------------------------
(* Writers *)

Go(w, place) == pc' = [pc EXCEPT ![w] = place]

\* The visiting orders of attachBuffer: a map has none of its own.
Visits(p) ==
    IF p.map
    THEN {[i \in DOMAIN p.bufs |-> p.bufs[f[i]]] : f \in Bijection(DOMAIN p.bufs, DOMAIN p.bufs)}
    ELSE {p.bufs}

Numbered(order) == [i \in DOMAIN order |-> <<order[i], i - 1>>]

\* serveWrite takes a packet; a broadcast gives it to another connection as well.
Encode ==
    LET p == script.packets[Len(sent) + 1] IN
    /\ pc["serve"] = "idle"
    /\ Len(sent) < Len(script.packets)
    /\ \E mine, other \in Visits(p) :
          /\ enc' = [NoPacket EXCEPT !.pkt = p, !.todo = mine]
          /\ twin' = twin \o When(p.cast, Numbered(other))
    /\ sent' = Append(sent, p)
    /\ Go("serve", "lock")
    /\ UNCHANGED <<script, wire, num, pongs, decoder>>

\* The reader met a PING.
Pong ==
    /\ pc["pong"] = "idle"
    /\ pongs < MaxPongs
    /\ pongs' = pongs + 1
    /\ Go("pong", "lock")
    /\ UNCHANGED <<script, wire, encoder, decoder>>

\* Mutant of NextWriter: it keeps the lock when the connection is lost.
NextWriterKeeps(w) ==
    /\ pc[w] = "lock"
    /\ lock = Nil
    /\ lock' = w
    /\ Go(w, IF broken THEN "idle" ELSE "first")
    /\ UNCHANGED <<script, broken, net, encoder, pongs, decoder>>

\* wrapper.NextWriter: with a lost connection the lock is given back at once.
NextWriter(w) ==
    /\ pc[w] = "lock"
    /\ lock = Nil
    /\ \/ broken /\ Go(w, "idle") /\ UNCHANGED lock
       \/ lock' = w /\ Go(w, "first")
    /\ UNCHANGED <<script, broken, net, encoder, pongs, decoder>>

\* Mutant of FirstByte: the frame is left open when the type cannot be written.
FirstByteOpen(w) ==
    /\ pc[w] = "first"
    /\ Go(w, CASE broken -> "idle"
               [] ~broken /\ w = "serve" /\ enc.frame = Nil -> "attach"
               [] OTHER -> "close")
    /\ UNCHANGED <<script, wire, encoder, pongs, decoder>>

\* packet.Encoder.NextWriter writes the type, or closes the frame and fails.
FirstByte(w) ==
    /\ pc[w] = "first"
    /\ \/ /\ broken
          /\ lock' = Nil
          /\ Go(w, "idle")
       \/ /\ Go(w, IF w = "serve" /\ enc.frame = Nil THEN "attach" ELSE "close")
          /\ UNCHANGED lock
    /\ UNCHANGED <<script, broken, net, encoder, pongs, decoder>>

\* attachBuffer: a Buffer that is visited gets its number.
AttachBuffer ==
    /\ pc["serve"] = "attach"
    /\ enc.pkt.good
    /\ enc.todo # <<>>
    /\ num' = [num EXCEPT ![Head(enc.todo)] = Len(enc.bufs)]
    /\ enc' = [enc EXCEPT !.todo = Tail(@), !.bufs = Append(@, Head(enc.todo))]
    /\ UNCHANGED <<script, wire, pc, twin, sent, pongs, decoder>>

\* The other connection's attachBuffer does the same to the same Buffer.
TwinAttaches ==
    /\ twin # <<>>
    /\ num' = [num EXCEPT ![Head(twin)[1]] = Head(twin)[2]]
    /\ twin' = Tail(twin)
    /\ UNCHANGED <<script, wire, pc, enc, sent, pongs, decoder>>

\* Buffer.MarshalJSON writes the number the Buffer has by now.
MarshalBuffer ==
    /\ pc["serve"] = "attach"
    /\ enc.pkt.good
    /\ enc.todo = <<>>
    /\ Len(enc.places) < Len(enc.pkt.bufs)
    /\ enc' = [enc EXCEPT !.places = Append(@, num[enc.pkt.bufs[Len(@) + 1]])]
    /\ UNCHANGED <<script, wire, pc, num, twin, sent, pongs, decoder>>

(* Where a frame stands in the stream: the packet, the frame's place in it (the
   text is 0) and the order the packet's Buffers are sent in.  It is auxiliary:
   a frame on the wire has no mark and no step reads it. *)
Mark(n, i, order) == [packet |-> n, index |-> i, order |-> order]

(* The rest of writePacket.  Arguments that cannot be encoded end it with the
   frame empty: the buffered header is lost, and the frame closed all the same. *)
WriteText ==
    /\ pc["serve"] = "attach"
    /\ enc.pkt.good => Len(enc.places) = Len(enc.pkt.bufs)
    /\ LET p == enc.pkt
           text == [kind |-> "TEXT", tokens |-> WritePacket(p), text |-> p.text,
                    places |-> enc.places, mark |-> Mark(Len(sent), 0, enc.bufs)]
           empty == [kind |-> "TEXT", tokens |-> <<>>, text |-> <<>>,
                     places |-> <<>>, mark |-> Mark(Len(sent), 0, <<>>)]
       IN  enc' = [enc EXCEPT !.frame = IF p.good THEN text ELSE empty,
                              !.bufs = IF p.good THEN @ ELSE <<>>]
    /\ Go("serve", "close")
    /\ UNCHANGED <<script, wire, num, twin, sent, pongs, decoder>>

Sends(frame) == net' = IF broken THEN net ELSE Append(net, frame)

(* wcWrapper.Close sends the frame and unlocks.  Encode goes on with the next
   Buffer, for that Close failed is only logged; a pong is followed by
   SetWriteDeadline. *)
CloseFrame(w) ==
    /\ pc[w] = "close"
    /\ lock' = Nil
    /\ \/ /\ w = "pong"
          /\ Sends([kind |-> "PONG"])
          /\ Go(w, "deadline")
          /\ UNCHANGED enc
       \/ /\ w = "serve"
          /\ Sends(enc.frame)
          /\ IF enc.bufs = <<>>
             THEN Go(w, "idle") /\ enc' = NoPacket
             ELSE /\ Go(w, "lock")
                  /\ enc' = [enc EXCEPT !.frame = [kind |-> "BINARY", data |-> Data[Head(enc.bufs)],
                                                   mark |-> [enc.frame.mark EXCEPT !.index = @ + 1]],
                                        !.bufs = Tail(@)]
    /\ UNCHANGED <<script, broken, num, twin, sent, pongs, decoder>>

\* conn.SetWriteDeadline takes the lock for a moment.
SetWriteDeadline ==
    /\ pc["pong"] = "deadline"
    /\ lock = Nil
    /\ Go("pong", "idle")
    /\ UNCHANGED <<script, wire, encoder, pongs, decoder>>

Break ==
    /\ ~broken
    /\ broken' = TRUE
    /\ net' = <<>>
    /\ UNCHANGED <<script, lock, pc, encoder, pongs, decoder>>

-----------------------------------------------------------------------------
(* The reader *)

\* How much of the data of a frame NextReader's reader gives.
Readable(kind, data) ==
    IF mode = "websocket" THEN Len(data)
    ELSE FrameRead[mode = "base64" /\ kind = "BINARY"][data]

(* A decoder whose Close failed still has the frame and gives it again, with
   nothing left in it, until the reader takes it for a header and ends. *)
StaleFrame == [kind |-> "BINARY", data |-> <<>>]
Arrives == dec.stale \/ net # <<>>
Frame == IF dec.stale THEN StaleFrame ELSE Head(net)
Take == net' = IF dec.stale THEN net ELSE Tail(net)

\* NextReader of session and client gives MESSAGE packets only.
SkipPong ==
    /\ dec.at \in {"header", "buffers"}
    /\ Arrives
    /\ Frame.kind = "PONG"
    /\ Take
    /\ UNCHANGED <<script, broken, lock, pc, encoder, pongs, decoder>>

End(why) == dec' = [dec EXCEPT !.at = why]

Handled(packet) == dec' = [NoHeader EXCEPT !.stale = dec.stale] /\ got' = Append(got, packet)
Dropped == dec' = [NoHeader EXCEPT !.stale = dec.stale] /\ UNCHANGED got

\* A Disconnect for a namespace the peer does not have goes no further.
Dispatched(packet) == IF packet.ns \in Known THEN Handled(packet) ELSE Dropped

Received(header, text, buffers) ==
    [type |-> header.type, ns |-> header.ns, query |-> header.query,
     needAck |-> header.needAck, id |-> header.id, text |-> text, buffers |-> buffers]

JsonEnds == {<<"[", "]">>, <<"[", "args", "]">>}

DecodeArgs(header) ==
    /\ IF header.rest \in JsonEnds /\ Readable("TEXT", Frame.text) = Len(Frame.text)
       THEN dec' = [dec EXCEPT !.at = "buffers", !.header = header, !.frame = Frame]
       ELSE End("failed")
    /\ UNCHANGED got

(* serveRead: DecodeHeader, then the handler for the type.  Connect reads
   nothing else; without the namespace an event or an acknowledgement is
   dropped, its Buffers left where they are; the others decode arguments, a
   Disconnect before it looks for the namespace. *)
DecodeHeader ==
    /\ dec.at = "header"
    /\ Arrives
    /\ Frame.kind # "PONG"
    /\ Take
    /\ \E header \in {IF Frame.kind = "TEXT" THEN Decoded[Frame.tokens] ELSE Nil} :
          \/ header = Nil /\ End("failed") /\ UNCHANGED got
          \/ /\ header # Nil
             /\ \/ /\ header.type = 0
                   /\ IF header.ns \in Known THEN Handled(Received(header, <<>>, <<>>))
                                             ELSE End("refused") /\ UNCHANGED got
                \/ header.type \in {2, 3} /\ header.ns \notin Known /\ Dropped
                \/ /\ header.type = 1 \/ (header.type \in {2, 3} /\ header.ns \in Known)
                   /\ IF header.rest = <<>> THEN Dispatched(Received(header, <<>>, <<>>))
                      ELSE DecodeArgs(header)
    /\ UNCHANGED <<script, broken, lock, pc, encoder, pongs>>

\* DecodeArgs reads a frame for each Buffer of the header.
ReadBuffer ==
    /\ dec.at = "buffers"
    /\ Len(dec.bufs) < dec.header.count
    /\ Arrives
    /\ Frame.kind # "PONG"
    /\ Take
    /\ \/ Frame.kind = "TEXT" /\ End("failed")
       \/ /\ Frame.kind = "BINARY"
          /\ LET n == Readable("BINARY", Frame.data)
             IN  \E clean \in CloseIsClean(Frame.data, n) :
                    dec' = [dec EXCEPT !.bufs = Append(@, SubSeq(Frame.data, 1, n)),
                                       !.stale = @ \/ ~clean]
    /\ UNCHANGED <<script, broken, lock, pc, encoder, pongs, got>>

\* Mutant of DetachBuffers: in the order they came.
DetachInOrder ==
    /\ dec.at = "buffers"
    /\ Len(dec.bufs) = dec.header.count
    /\ Dispatched(Received(dec.header, dec.frame.text, dec.bufs))
    /\ UNCHANGED <<script, wire, pc, encoder, pongs>>

\* detachBuffer puts them where their numbers say, and panics on a number too high.
DetachBuffers ==
    /\ dec.at = "buffers"
    /\ Len(dec.bufs) = dec.header.count
    /\ LET places == dec.frame.places
       IN  IF \A i \in DOMAIN places : places[i] < dec.header.count
           THEN Dispatched(Received(dec.header, dec.frame.text,
                                    [i \in DOMAIN places |-> dec.bufs[places[i] + 1]]))
           ELSE End("panic") /\ UNCHANGED got
    /\ UNCHANGED <<script, wire, pc, encoder, pongs>>

ReadFails ==
    /\ dec.at \in {"header", "buffers"}
    /\ broken
    /\ ~dec.stale
    /\ End("lost")
    /\ UNCHANGED <<script, wire, pc, encoder, pongs, got>>

-----------------------------------------------------------------------------

WriterStep(w) == FirstByte(w) \/ CloseFrame(w)
ServeStep == AttachBuffer \/ MarshalBuffer \/ WriteText
ReadStep == SkipPong \/ DecodeHeader \/ ReadBuffer \/ DetachBuffers \/ ReadFails

Next ==
    \/ Encode
    \/ Pong
    \/ \E w \in Writers : NextWriter(w) \/ WriterStep(w)
    \/ ServeStep
    \/ TwinAttaches
    \/ SetWriteDeadline
    \/ Break
    \/ ReadStep

Spec == Init /\ [][Next]_vars

(* Every goroutine runs, and a sync.Mutex is not kept from one that waits for
   it.  Nobody has to write, to ping or to lose the connection. *)
Fairness ==
    /\ \A w \in Writers : WF_vars(WriterStep(w)) /\ SF_vars(NextWriter(w))
    /\ WF_vars(ServeStep)
    /\ SF_vars(SetWriteDeadline)
    /\ WF_vars(ReadStep)

FairSpec == Spec /\ Fairness

-----------------------------------------------------------------------------
(* Properties *)

MarkType == [packet : Nat, index : Nat, order : Seq(Buffers)]

Messages ==
    [kind : {"BINARY"}, data : {Data[b] : b \in Buffers}, mark : MarkType]
        \cup [kind : {"TEXT"}, tokens : FrameTexts, text : Seq(Bytes), places : Seq(Nat),
              mark : MarkType]

Frames == {[kind |-> "PONG"]} \cup Messages

ASSUME NilIsNoMessage == Nil \notin Messages

(* Type correctness of the encoder, the decoder and the frames, with the
   meaning of the write lock (wrapper.go:107): it is held by the writer that
   has a frame open, and by nobody else. *)
ParserTypeOK ==
    /\ script \in Scripts
    /\ broken \in BOOLEAN
    /\ pc \in [Writers -> {"idle", "lock", "first", "attach", "close", "deadline"}]
    /\ \A w \in Writers : lock = w <=> pc[w] \in {"first", "attach", "close"}
    /\ lock \in Writers \cup {Nil}
    /\ num \in [Buffers -> Nat]
    /\ twin \in Seq(Buffers \X Nat)
    /\ net \in Seq(Frames)
    /\ dec.at \in {"header", "buffers", "failed", "refused", "panic", "lost"}
    /\ Len(sent) <= Len(script.packets) /\ sent = SubSeq(script.packets, 1, Len(sent))

(* The packet that is encoded: what attachBuffer has left of it and has found,
   and the frame that is next.  The first frame is the text, which is there once
   it is written; the others are binary. *)
EncoderOK ==
    /\ enc.pkt \in Written \cup {Nil}
    /\ pc["serve"] # "idle" => enc.pkt \in Written
    /\ enc.todo \in Seq(Buffers) /\ enc.bufs \in Seq(Buffers)
    /\ enc.places \in Seq(Nat)
    /\ enc.frame \in Messages \cup {Nil}
    /\ pc["serve"] = "close" => enc.frame \in Messages
    /\ pc["pong"] # "attach" /\ pc["serve"] # "deadline"

(* The inductive invariant of the writers. *)
ParserInv ==
    /\ ParserTypeOK
    /\ EncoderOK
    /\ DOMAIN enc = DOMAIN NoPacket
    /\ DOMAIN dec = DOMAIN NoHeader

\* The numbers that attachBuffer may give to a Buffer of a packet.
Numbers(p, b) == {i - 1 : i \in {k \in DOMAIN p.bufs : \E s \in Visits(p) : s[k] = b}}

(* Another connection's encoder may number a Buffer of the packet differently
   while it is encoded. *)
Shaken(p) ==
    \E q \in ToSet(sent) :
       /\ q.cast
       /\ \E b \in ToSet(p.bufs) \cap ToSet(q.bufs) :
             \E m, n \in Numbers(p, b) \cup Numbers(q, b) : m # n

\* In a binary payload only text has the length that its header gives.
Cut(p) == mode = "binary" /\ \E b \in ToSet(p.bufs) : Data[b] \notin Texts

\* The packets that a handler is called for.
Addressed(p) == p.ns \in Known

\* An event or an acknowledgement whose Buffers are left where they are.
Skipped(p) == ~Addressed(p) /\ p.type # "Disconnect" /\ p.bufs # <<>>

Reading == dec.at \in {"header", "buffers"}

\* The packets among the first n that a handler is called for, and their number.
ToHandle(n) == {i \in 1 .. n : Addressed(sent[i])}
Place(n) == Cardinality(ToHandle(n))

\* What a handler got is what was written.
Arrived(receipt, p) ==
    /\ receipt.type = TypeNumbers[p.type]
    /\ receipt.ns = p.ns /\ receipt.query = FALSE
    /\ receipt.needAck = p.needAck /\ receipt.id = p.id
    /\ p.type # "Connect" => receipt.text = p.text
    /\ p.type # "Connect" /\ ~Shaken(p) /\ ~Cut(p)
          => receipt.buffers = [k \in DOMAIN p.bufs |-> Data[p.bufs[k]]]

(* What the handlers of the peer get is what was written, in the same order
   and with no packet left out: type, namespace, the id that an answer has to
   carry, and each Buffer in its place, whatever order attachBuffer met them in
   and whatever frames came in between (encoder.go:72-204, decoder.go:209-384).
   A query is lost: the header of an answer to Connect has the one that came
   with it (connection_handlers.go:118), and writePacket does not write it.
   Buffers of a packet are exempt that another connection's encoder numbers as
   well, and the ones that are no text in a binary payload. *)
PacketsArrive ==
    /\ Len(got) <= Place(Len(sent))
    /\ \A i \in ToHandle(Len(sent)) : Place(i) <= Len(got) => Arrived(got[Place(i)], sent[i])

(* A packet that the decoder cannot make sense of ends serveRead, and with it
   the connection (server.go:305-309).  Given arguments of the types that the
   handler has, only these do: arguments that cannot be encoded, an event with
   a comma or a ']' in its name (decoder.go:316-323), an event or an
   acknowledgement with Buffers for a namespace the peer does not have, and
   Buffers that are no text in a binary payload; and a number without a Buffer
   is met only where Buffers are shared. *)
ReaderStaysInSync ==
    /\ dec.at = "failed" =>
          \E p \in ToSet(sent) : ~p.good \/ p.name # "plain" \/ Cut(p) \/ Skipped(p)
    /\ dec.at = "panic" => \E p \in ToSet(sent) : Shaken(p)

(* A writer that asks for the write lock gets it, gives it back and is done
   with its packet, also when the connection is lost with a frame open
   (wrapper.go:105-114, packet/encoder.go:38-44). *)
WritersReturn == \A w \in Writers : pc[w] # "idle" ~> pc[w] = "idle"

(* The reader catches up with the writer again and again: every packet is
   handled, unless the connection is lost or the reader has ended.  DecodeArgs
   never waits for a frame that does not come (decoder.go:140-151). *)
PacketsHandled ==
    []<>(broken \/ ~Reading \/ Len(got) = Place(Len(sent)))

(* "All buffers will be sent as binary in the transport layer" (buffer.go:9):
   the bytes of a Buffer arrive as they are. *)
BuffersAsBinary ==
    \A i \in ToHandle(Len(sent)) :
       Place(i) <= Len(got) /\ ~Shaken(sent[i]) =>
          got[Place(i)].buffers = [k \in DOMAIN sent[i].bufs |-> Data[sent[i].bufs[k]]]

-----------------------------------------------------------------------------
(* The inductive invariant of the stream *)

(* What the header functions and the framing compute for a packet, without
   regard to what else is on its way: the header comes back as it was written,
   but for the query and for an event with a comma or a ']' in its name, and text is read to its end, as
   are Buffers unless they are no text and not in base64. *)
HeaderReads(p) ==
    LET header == Decoded[WritePacket(p)]
    IN  \/ header = Nil /\ p.name # "plain"
        \/ /\ header # Nil
           /\ header.type = TypeNumbers[p.type] /\ header.count = Len(p.bufs)
           /\ header.ns = p.ns /\ header.query = FALSE
           /\ header.needAck = p.needAck /\ header.id = p.id
           /\ p.type = "Connect" => p.bufs = <<>>
           /\ \/ header.rest = <<>> /\ p.text = <<>> /\ p.bufs = <<>>
              \/ header.rest # <<>> /\ header.rest \in JsonEnds
DataReads(p) ==
    /\ FrameRead[FALSE][p.text] = Len(p.text)
    /\ \A b \in ToSet(p.bufs) :
          /\ FrameRead[TRUE][Data[b]] = Len(Data[b])
          /\ Data[b] \in Texts => FrameRead[FALSE][Data[b]] = Len(Data[b])
CodecOK ==
    /\ \A p \in Written : HeaderReads(p) /\ DataReads(p)
    /\ \A base64 \in BOOLEAN : \A data \in {Data[b] : b \in Buffers} \cup {<<>>} :
          FrameRead[base64][data] \in 0 .. Len(data)

\* The last frame of its packet.
Whole(m) == m.index = Len(m.order)

\* The frame with mark n is the one to follow the frame with mark m.
Succeeds(m, n) ==
    IF Whole(m) THEN n.packet = m.packet + 1 /\ n.index = 0
                ELSE n = [m EXCEPT !.index = @ + 1]

(* s has the frames that follow the one with mark m, up to the one with mark n,
   each after its predecessor with only pongs between them. *)
Linked(m, s, n) ==
    LET messages == {i \in DOMAIN s : s[i].kind # "PONG"}
    IN  /\ messages = {} => m = n
        /\ \A i \in messages :
              /\ (\A j \in messages : i <= j) => Succeeds(m, s[i].mark)
              /\ (\A j \in messages : j <= i) => s[i].mark = n
              /\ \A j \in messages :
                    i < j /\ (\A k \in messages : k <= i \/ j <= k)
                       => Succeeds(s[i].mark, s[j].mark)

\* A Buffer that is sent in this order is found with the number n.
Leads(order, n, b) == n < Len(order) /\ order[n + 1] = b

Placed(p, order, places) ==
    ~Shaken(p) => \A i \in DOMAIN places : Leads(order, places[i], p.bufs[i])

\* A frame is what its mark says.
TextOK(f) ==
    LET p == sent[f.mark.packet]
    IN  /\ f.tokens = IF p.good THEN WritePacket(p) ELSE <<>>
        /\ p.good => /\ f.text = p.text /\ Len(f.places) = Len(p.bufs)
                     /\ Placed(p, f.mark.order, f.places)
FrameOK(f) ==
    LET m == f.mark
        p == sent[m.packet]
    IN  /\ m.packet \in 1 .. Len(sent)
        /\ IF p.good THEN m.order \in Visits(p) ELSE m.order = <<>>
        /\ m.index \in 0 .. Len(m.order)
        /\ \/ m.index = 0 /\ f.kind = "TEXT" /\ TextOK(f)
           \/ m.index > 0 /\ f.kind = "BINARY" /\ f.data = Data[m.order[m.index]]

(* The packet under way: before its text is written, which Buffers have been
   visited, with the numbers they have unless they are shared; afterwards, the
   Buffers that are still to be sent. *)
PacketOK ==
    LET p == sent[Len(sent)]
        m == enc.frame.mark
    IN  pc["serve"] # "idle" =>
        /\ sent # <<>> /\ enc.pkt = p
        /\ pc["serve"] = "attach" => enc.frame = Nil
        /\ \/ /\ enc.frame = Nil
              /\ enc.bufs \o enc.todo \in Visits(p)
              /\ enc.places # <<>> => enc.todo = <<>>
              /\ Len(enc.places) <= Len(p.bufs)
              /\ ~Shaken(p) => \A i \in DOMAIN enc.bufs :
                                  Leads(enc.bufs, num[enc.bufs[i]], enc.bufs[i])
              /\ Placed(p, enc.bufs, enc.places)
           \/ /\ enc.frame # Nil
              /\ FrameOK(enc.frame)
              /\ m.packet = Len(sent)
              /\ Len(enc.bufs) = Len(m.order) - m.index
              /\ \A i \in DOMAIN enc.bufs : enc.bufs[i] = m.order[m.index + i]

\* What the other connection's encoder has yet to number is of a packet that was cast.
TwinOK ==
    \A i \in DOMAIN twin : \E q \in ToSet(sent) :
       q.cast /\ twin[i][1] \in ToSet(q.bufs) /\ twin[i][2] \in Numbers(q, twin[i][1])

NetOK ==
    /\ broken => net = <<>>
    /\ \A i \in DOMAIN net : net[i].kind # "PONG" => FrameOK(net[i])

\* The writer has closed the frame with mark n and none after it.
WriterAt(n) ==
    CASE pc["serve"] = "idle" -> Whole(n) /\ n.packet = Len(sent)
      [] pc["serve"] # "idle" /\ enc.frame = Nil -> Whole(n) /\ n.packet + 1 = Len(sent)
      [] OTHER -> Succeeds(n, enc.frame.mark)

\* The first k packets are dealt with, and no other.
HandledUpTo(k) ==
    /\ Len(got) = Place(k)
    /\ \A i \in ToHandle(k) : Arrived(got[Place(i)], sent[i])

(* Between two packets the reader has read the last frame of a packet, or it
   has dropped the packet and not its Buffers. *)
AtHeader(m) ==
    /\ HandledUpTo(m.packet)
    /\ dec.bufs = <<>>
    /\ dec.stale => \E p \in ToSet(sent) : Cut(p)
    /\ ~dec.stale => \/ Whole(m)
                     \/ m.packet > 0 /\ Skipped(sent[m.packet])

(* Within a packet it has the text and the Buffers before the frame with mark m,
   unless one of them was cut. *)
AtBuffers(m) ==
    LET p == sent[m.packet]
    IN  /\ m.packet > 0 /\ HandledUpTo(m.packet - 1)
        /\ p.good /\ p.type # "Connect" /\ (p.type = "Disconnect" \/ Addressed(p))
        /\ dec.header = Decoded[WritePacket(p)] /\ dec.header # Nil
        /\ dec.frame \in Messages /\ dec.frame.kind = "TEXT" /\ FrameOK(dec.frame)
        /\ dec.frame.mark = [m EXCEPT !.index = 0]
        /\ dec.bufs \in Seq(Seq(Bytes))
        /\ dec.stale \/ Len(dec.bufs) = m.index
        /\ ~Cut(p) => ~dec.stale /\ \A i \in DOMAIN dec.bufs : dec.bufs[i] = Data[m.order[i]]

\* The reader has read the frame with mark m and none after it.
ReaderAt(m) ==
    CASE dec.at = "header" -> AtHeader(m)
      [] dec.at = "buffers" -> AtBuffers(m)
      [] OTHER -> HandledUpTo(m.packet)

Marks ==
    {Mark(0, 0, <<>>)}
       \cup UNION {[packet : {n}, index : 0 .. Len(sent[n].bufs), order : Visits(sent[n]) \cup {<<>>}]
                     : n \in DOMAIN sent}

(* What is on its way is what the writer has sent after the frame that the
   reader read last, and pongs. *)
StreamOK ==
    \E m \in Marks :
       /\ ReaderAt(m)
       /\ ~broken => \E n \in Marks : WriterAt(n) /\ (Reading /\ ~dec.stale => Linked(m, net, n))

Receipts ==
    [type : 0 .. 3, ns : {p.ns : p \in Written}, query : BOOLEAN, needAck : BOOLEAN, id : Nat,
     text : Seq(Bytes), buffers : Seq(Seq(Bytes))]

(* The inductive invariant: where the writer and the reader are in the stream,
   and that the frames between them are the packets' own. *)
StreamInv ==
    /\ CodecOK
    /\ ParserInv
    /\ PacketOK
    /\ TwinOK
    /\ NetOK
    /\ got \in Seq(Receipts)
    /\ ReaderStaysInSync
    /\ StreamOK
=============================================================================
