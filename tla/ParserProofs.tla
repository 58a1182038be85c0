---------------------------- MODULE ParserProofs ----------------------------
(***************************************************************************)
(* Proofs about Parser, for any packets, Buffers and number of pongs: no   *)
(* two writers have a frame open, what is on its way are the frames of the *)
(* packets in a row, and the handlers of the peer get the packets as they  *)
(* were written.  What the header functions and the framing compute for a  *)
(* single packet is a hypothesis of the last of these (CodecOK).           *)
(***************************************************************************)
EXTENDS Parser, FiniteSetTheorems, TLAPS

(* The Buffers and the text of a packet have their types. *)
LEMMA WrittenTyped ==
    ASSUME NEW p \in Written
    PROVE  p.bufs \in Seq(Buffers) /\ p.text \in Seq(Bytes)
  <1>1. PICK s \in Scripts : p \in ToSet(s.packets)
    BY DEF Written
  <1>2. s.packets \in Seq(PacketType)
    BY ScriptsTyped
  <1>3. p \in PacketType
    BY <1>1, <1>2 DEF ToSet
  <1> QED
    BY <1>3 DEF PacketType

(* The packets of a script are written. *)
LEMMA ScriptWritten ==
    ASSUME NEW s \in Scripts
    PROVE  /\ s.packets \in Seq(PacketType)
           /\ \A i \in 1..Len(s.packets) : s.packets[i] \in Written
  <1>1. s.packets \in Seq(PacketType)
    BY ScriptsTyped
  <1> QED
    BY <1>1 DEF Written, ToSet

(* Whatever order attachBuffer visits the Buffers of a packet in, it visits all
   of them and no others. *)
LEMMA VisitsTyped ==
    ASSUME NEW p \in Written, NEW order \in Visits(p)
    PROVE  /\ order \in Seq(Buffers) /\ Numbered(order) \in Seq(Buffers \X Nat)
           /\ Len(order) = Len(p.bufs)
           /\ \A i \in 1..Len(order) : order[i] \in ToSet(p.bufs)
           /\ \A i \in 1..Len(p.bufs) : \E j \in 1..Len(order) : order[j] = p.bufs[i]
  <1>1. p.bufs \in Seq(Buffers)
    BY WrittenTyped
  <1>2. /\ order \in Seq(Buffers) /\ Len(order) = Len(p.bufs)
        /\ \A i \in 1..Len(order) : order[i] \in ToSet(p.bufs)
        /\ \A i \in 1..Len(p.bufs) : \E j \in 1..Len(order) : order[j] = p.bufs[i]
    <2>1. CASE ~p.map
      BY <1>1, <2>1 DEF Visits, ToSet
    <2>2. CASE p.map
      <3> DEFINE S == 1..Len(p.bufs)
      <3>1. DOMAIN p.bufs = S /\ Len(p.bufs) \in Nat /\ \A i \in S : p.bufs[i] \in Buffers
        BY <1>1
      <3>2. PICK f \in Bijection(S, S) : order = [i \in S |-> p.bufs[f[i]]]
        BY <2>2, <3>1 DEF Visits
      <3>3. f \in [S -> S] /\ \A t \in S : \E s \in S : f[s] = t
        BY <3>2 DEF Bijection, Surjection
      <3>4. \A i \in S : order[i] \in Buffers /\ order[i] \in ToSet(p.bufs)
        BY <3>1, <3>2, <3>3 DEF ToSet
      <3>5. order \in [S -> Buffers]
        BY <3>2, <3>4
      <3>6. order \in Seq(Buffers) /\ Len(order) = Len(p.bufs)
        BY <3>1, <3>5
      <3>7. \A i \in S : \E j \in S : order[j] = p.bufs[i]
        BY <3>2, <3>3
      <3> QED
        BY <3>4, <3>6, <3>7
    <2> QED
      BY <2>1, <2>2
  <1>3. Numbered(order) \in Seq(Buffers \X Nat)
    <2>1. DOMAIN order = 1..Len(order) /\ Len(order) \in Nat
          /\ \A i \in 1..Len(order) : order[i] \in Buffers
      BY <1>2
    <2>2. \A i \in 1..Len(order) : <<order[i], i - 1>> \in Buffers \X Nat
      BY <2>1
    <2> QED
      BY <2>1, <2>2 DEF Numbered
  <1> QED
    BY <1>2, <1>3

(* At first nobody has the lock and nothing is encoded. *)
LEMMA InitInv == Init => ParserInv
  <1> SUFFICES ASSUME Init PROVE ParserInv
    OBVIOUS
  <1>1. ParserTypeOK
    <2>1. Len(sent) <= Len(script.packets) /\ sent = SubSeq(script.packets, 1, Len(sent))
      BY ScriptWritten DEF Init
    <2>2. \A w \in Writers : lock = w <=> pc[w] \in {"first", "attach", "close"}
      BY NilIsNobody DEF Init
    <2>3. num \in [Buffers -> Nat]
      BY DEF Init
    <2>4. dec.at = "header"
      BY DEF Init, NoHeader
    <2>5. pc \in [Writers -> {"idle", "lock", "first", "attach", "close", "deadline"}]
      BY DEF Init
    <2>6. twin \in Seq(Buffers \X Nat) /\ net \in Seq(Frames)
      BY DEF Init
    <2>7. script \in Scripts /\ broken \in BOOLEAN /\ lock = Nil
      BY DEF Init
    <2> QED
      BY <2>1, <2>2, <2>3, <2>4, <2>5, <2>6, <2>7 DEF ParserTypeOK
  <1>2. EncoderOK
    BY DEF Init, EncoderOK, NoPacket, Writers
  <1> QED
    BY <1>1, <1>2 DEF Init, ParserInv

(* A packet is taken. *)
LEMMA EncodeInv ==
    ASSUME ParserInv, Encode
    PROVE  ParserInv'
  <1> DEFINE p == script.packets[Len(sent) + 1]
  <1>1. p \in Written /\ script.packets \in Seq(PacketType) /\ Len(sent) \in Nat
        /\ Len(sent) < Len(script.packets)
    <2>1. script.packets \in Seq(PacketType)
      BY ScriptWritten DEF ParserInv, ParserTypeOK
    <2>2. Len(sent) \in Nat
      BY <2>1 DEF ParserInv, ParserTypeOK
    <2>3. Len(sent) < Len(script.packets) /\ script \in Scripts
      BY DEF Encode, ParserInv, ParserTypeOK
    <2>4. Len(sent) + 1 \in 1..Len(script.packets)
      BY <2>1, <2>2, <2>3
    <2> QED
      BY <2>1, <2>2, <2>3, <2>4, ScriptWritten
  <1>2. PICK mine \in Visits(p), other \in Visits(p) :
           /\ enc' = [NoPacket EXCEPT !.pkt = p, !.todo = mine]
           /\ twin' = twin \o When(p.cast, Numbered(other))
    BY DEF Encode
  <1>3. mine \in Seq(Buffers) /\ Numbered(other) \in Seq(Buffers \X Nat)
    BY <1>1, VisitsTyped
  <1>4. sent' = Append(sent, p) /\ pc' = [pc EXCEPT !["serve"] = "lock"]
        /\ pc["serve"] = "idle"
        /\ UNCHANGED <<script, broken, lock, net, num, pongs, dec, got>>
    BY DEF Encode, Go, wire, decoder
  <1> HIDE DEF p
  <1>5. /\ enc'.pkt = p /\ enc'.todo = mine /\ enc'.bufs = <<>> /\ enc'.places = <<>>
        /\ enc'.frame = Nil /\ DOMAIN enc' = DOMAIN NoPacket
    BY <1>2 DEF NoPacket
  <1>6. twin' \in Seq(Buffers \X Nat)
    BY <1>2, <1>3 DEF When, ParserInv, ParserTypeOK
  <1>7. Len(sent') <= Len(script'.packets) /\ sent' = SubSeq(script'.packets, 1, Len(sent'))
    <2>1. sent = SubSeq(script.packets, 1, Len(sent))
      BY DEF ParserInv, ParserTypeOK
    <2>2. sent \in Seq(PacketType) /\ p = script.packets[Len(sent) + 1] /\ p \in PacketType
      BY <1>1, <2>1 DEF p
    <2>3. sent' = Append(sent, p) /\ script' = script
      BY <1>4
    <2>4. Len(sent') = Len(sent) + 1
      BY <2>2, <2>3
    <2>5. sent' = SubSeq(script.packets, 1, Len(sent) + 1)
      BY <1>1, <2>1, <2>2, <2>3
    <2> QED
      BY <1>1, <2>3, <2>4, <2>5
  <1>8. ParserTypeOK'
    BY <1>4, <1>6, <1>7 DEF ParserInv, ParserTypeOK, Writers
  <1>9. EncoderOK'
    BY <1>1, <1>3, <1>4, <1>5 DEF ParserInv, ParserTypeOK, EncoderOK, Writers
  <1> QED
    BY <1>4, <1>5, <1>8, <1>9 DEF ParserInv

(* The lock and the frame of a writer. *)
LEMMA WriterInv ==
    ASSUME ParserInv, NEW w \in Writers, NextWriter(w) \/ FirstByte(w)
    PROVE  ParserInv'
  <1> USE NilIsNobody DEF ParserInv, ParserTypeOK, EncoderOK, Writers, Go, encoder,
          decoder
  <1>1. CASE NextWriter(w)
    BY <1>1 DEF NextWriter
  <1>2. CASE FirstByte(w)
    BY <1>2 DEF FirstByte
  <1> QED
    BY <1>1, <1>2

(* A pong is asked for, or its deadline set. *)
LEMMA PongInv ==
    ASSUME ParserInv, Pong \/ SetWriteDeadline
    PROVE  ParserInv'
  BY DEF ParserInv, ParserTypeOK, EncoderOK, Writers, Go, encoder, decoder, wire,
         Pong, SetWriteDeadline

(* attachBuffer and the text. *)
LEMMA ServeInv ==
    ASSUME ParserInv, ServeStep
    PROVE  ParserInv'
  <1> DEFINE p == enc.pkt
  <1>p. p \in Written /\ pc["serve"] = "attach"
    BY DEF ServeStep, AttachBuffer, MarshalBuffer, WriteText, ParserInv, EncoderOK
  <1>b. p.bufs \in Seq(Buffers) /\ p.text \in Seq(Bytes)
    BY <1>p, WrittenTyped
  <1>u. UNCHANGED <<script, broken, lock, net, twin, sent, pongs, dec, got>>
    BY DEF ServeStep, AttachBuffer, MarshalBuffer, WriteText, wire, decoder
  <1>d. DOMAIN enc = DOMAIN NoPacket
        /\ {"pkt", "todo", "bufs", "places", "frame"} \subseteq DOMAIN enc
    BY DEF ParserInv, NoPacket
  <1>1. CASE AttachBuffer
    <2>1. Head(enc.todo) \in Buffers /\ Tail(enc.todo) \in Seq(Buffers)
      BY <1>1 DEF AttachBuffer, ParserInv, EncoderOK
    <2>2. /\ enc'.pkt = enc.pkt /\ enc'.todo = Tail(enc.todo)
          /\ enc'.bufs = Append(enc.bufs, Head(enc.todo))
          /\ enc'.places = enc.places /\ enc'.frame = enc.frame
          /\ DOMAIN enc' = DOMAIN NoPacket
      BY <1>1, <1>d DEF AttachBuffer
    <2>3. num' \in [Buffers -> Nat]
      <3>1. Len(enc.bufs) \in Nat
        BY DEF ParserInv, EncoderOK
      <3>2. num' = [num EXCEPT ![Head(enc.todo)] = Len(enc.bufs)]
        BY <1>1 DEF AttachBuffer
      <3> QED
        BY <2>1, <3>1, <3>2 DEF ParserInv, ParserTypeOK
    <2>4. pc' = pc
      BY <1>1 DEF AttachBuffer
    <2>5. ParserTypeOK'
      BY <1>u, <2>3, <2>4 DEF ParserInv, ParserTypeOK
    <2>6. EncoderOK'
      BY <2>1, <2>2, <2>4 DEF ParserInv, EncoderOK
    <2> QED
      BY <1>u, <2>2, <2>5, <2>6 DEF ParserInv
  <1>2. CASE MarshalBuffer
    <2> DEFINE b == p.bufs[Len(enc.places) + 1]
    <2>1. b \in Buffers
      BY <1>2, <1>b DEF MarshalBuffer, ParserInv, EncoderOK
    <2>2. /\ enc'.pkt = enc.pkt /\ enc'.todo = enc.todo /\ enc'.bufs = enc.bufs
          /\ enc'.places = Append(enc.places, num[b]) /\ enc'.frame = enc.frame
          /\ DOMAIN enc' = DOMAIN NoPacket
      BY <1>2, <1>d DEF MarshalBuffer
    <2> HIDE DEF b
    <2>3. num[b] \in Nat
      BY <2>1 DEF ParserInv, ParserTypeOK
    <2>4. pc' = pc /\ num' = num
      BY <1>2 DEF MarshalBuffer
    <2>5. ParserTypeOK'
      BY <1>u, <2>4 DEF ParserInv, ParserTypeOK
    <2>6. EncoderOK'
      BY <2>2, <2>3, <2>4 DEF ParserInv, EncoderOK
    <2> QED
      BY <1>u, <2>2, <2>5, <2>6 DEF ParserInv
  <1>3. CASE WriteText
    <2> DEFINE text == [kind |-> "TEXT", tokens |-> WritePacket(p), text |-> p.text,
                        places |-> enc.places, mark |-> Mark(Len(sent), 0, enc.bufs)]
               empty == [kind |-> "TEXT", tokens |-> <<>>, text |-> <<>>,
                         places |-> <<>>, mark |-> Mark(Len(sent), 0, <<>>)]
               frame == IF p.good THEN text ELSE empty
    <2>m. /\ Mark(Len(sent), 0, enc.bufs) \in MarkType
          /\ Mark(Len(sent), 0, <<>>) \in MarkType
      <3>1. script.packets \in Seq(PacketType)
        BY ScriptWritten DEF ParserInv, ParserTypeOK
      <3>2. Len(sent) \in Nat
        BY <3>1 DEF ParserInv, ParserTypeOK
      <3>3. enc.bufs \in Seq(Buffers)
        BY DEF ParserInv, EncoderOK
      <3> QED
        BY <3>2, <3>3 DEF Mark, MarkType
    <2>1. text \in Messages
      <3>1. WritePacket(p) \in FrameTexts
        BY <1>p DEF FrameTexts
      <3>2. enc.places \in Seq(Nat)
        BY DEF ParserInv, EncoderOK
      <3> QED
        BY <1>b, <2>m, <3>1, <3>2 DEF Messages
    <2>2. empty \in Messages
      <3>1. <<>> \in FrameTexts
        BY DEF FrameTexts
      <3> QED
        BY <2>m, <3>1 DEF Messages
    <2>3. frame \in Messages
      BY <2>1, <2>2
    <2>4. /\ enc'.pkt = enc.pkt /\ enc'.todo = enc.todo
          /\ enc'.bufs = enc.bufs \/ enc'.bufs = <<>>
          /\ enc'.places = enc.places /\ enc'.frame = frame
          /\ DOMAIN enc' = DOMAIN NoPacket
      BY <1>3, <1>d DEF WriteText
    <2> HIDE DEF frame
    <2>5. pc' = [pc EXCEPT !["serve"] = "close"] /\ num' = num
      BY <1>3 DEF WriteText, Go
    <2>6. ParserTypeOK'
      BY <1>p, <1>u, <2>5 DEF ParserInv, ParserTypeOK, Writers
    <2>7. EncoderOK'
      <3>1. pc'["serve"] = "close" /\ pc'["pong"] = pc["pong"]
        BY <2>5 DEF ParserInv, ParserTypeOK, Writers
      <3>2. enc'.bufs \in Seq(Buffers)
        <4>1. enc.bufs \in Seq(Buffers) /\ <<>> \in Seq(Buffers)
          BY DEF ParserInv, EncoderOK
        <4>2. enc'.bufs = enc.bufs \/ enc'.bufs = <<>>
          BY <2>4
        <4> QED
          BY <4>1, <4>2
      <3> QED
        BY <1>p, <2>3, <2>4, <3>1, <3>2 DEF ParserInv, EncoderOK
    <2> QED
      BY <1>u, <2>4, <2>6, <2>7 DEF ParserInv
  <1> QED
    BY <1>1, <1>2, <1>3 DEF ServeStep

(* Another connection's attachBuffer numbers a Buffer. *)
LEMMA TwinInv ==
    ASSUME ParserInv, TwinAttaches
    PROVE  ParserInv'
  <1>1. Head(twin) \in Buffers \X Nat /\ Tail(twin) \in Seq(Buffers \X Nat)
    BY DEF TwinAttaches, ParserInv, ParserTypeOK
  <1>2. num' \in [Buffers -> Nat]
    BY <1>1 DEF TwinAttaches, ParserInv, ParserTypeOK
  <1>3. ParserTypeOK'
    BY <1>1, <1>2 DEF TwinAttaches, wire, decoder, ParserInv, ParserTypeOK
  <1> QED
    BY <1>3 DEF TwinAttaches, decoder, ParserInv, EncoderOK

(* A frame is sent: it is one of a packet that was written, or a pong. *)
LEMMA CloseInv ==
    ASSUME ParserInv, NEW w \in Writers, CloseFrame(w)
    PROVE  ParserInv'
  <1>n. net \in Seq(Frames)
    BY DEF ParserInv, ParserTypeOK
  <1>u. UNCHANGED <<script, broken, num, twin, sent, pongs, dec, got>>
    BY DEF CloseFrame, decoder
  <1>s. ASSUME NEW f \in Frames, Sends(f)
        PROVE  net' \in Seq(Frames)
    BY <1>n, <1>s DEF Sends
  <1>1. CASE w = "pong"
    <2>1. [kind |-> "PONG"] \in Frames
      BY DEF Frames
    <2>2. net' \in Seq(Frames)
      BY <1>1, <1>s, <2>1 DEF CloseFrame
    <2>3. /\ pc["pong"] = "close" /\ lock' = Nil /\ enc' = enc
          /\ pc' = [pc EXCEPT !["pong"] = "deadline"]
      BY <1>1 DEF CloseFrame, Go
    <2>4. ParserTypeOK'
      BY <1>u, <2>2, <2>3, NilIsNobody DEF ParserInv, ParserTypeOK, Writers
    <2>5. EncoderOK'
      BY <2>3 DEF ParserInv, ParserTypeOK, EncoderOK, Writers
    <2> QED
      BY <1>u, <2>3, <2>4, <2>5 DEF ParserInv
  <1>2. CASE w = "serve"
    <2>1. enc.frame \in Messages /\ enc.frame \in Frames /\ pc["serve"] = "close" /\ lock' = Nil
      BY <1>2 DEF CloseFrame, ParserInv, EncoderOK, Frames
    <2>2. net' \in Seq(Frames)
      BY <1>2, <1>s, <2>1 DEF CloseFrame
    <2>3. CASE enc.bufs = <<>>
      <3>1. pc' = [pc EXCEPT !["serve"] = "idle"] /\ enc' = NoPacket
        BY <1>2, <2>3 DEF CloseFrame, Go
      <3>2. ParserTypeOK'
        BY <1>u, <2>1, <2>2, <3>1, NilIsNobody DEF ParserInv, ParserTypeOK, Writers
      <3>3. EncoderOK'
        BY <3>1 DEF ParserInv, ParserTypeOK, EncoderOK, Writers, NoPacket
      <3> QED
        BY <1>u, <3>1, <3>2, <3>3 DEF ParserInv
    <2>4. CASE enc.bufs # <<>>
      <3> DEFINE frame == [kind |-> "BINARY", data |-> Data[Head(enc.bufs)],
                          mark |-> [enc.frame.mark EXCEPT !.index = @ + 1]]
      <3>1. Head(enc.bufs) \in Buffers /\ Tail(enc.bufs) \in Seq(Buffers)
        BY <2>4 DEF ParserInv, EncoderOK
      <3>2. frame \in Messages
        <4>1. enc.frame.mark \in MarkType
          BY <2>1 DEF Messages
        <4>2. [enc.frame.mark EXCEPT !.index = @ + 1] \in MarkType
          BY <4>1 DEF MarkType
        <4> QED
          BY <3>1, <4>2 DEF Messages
      <3>3. /\ pc' = [pc EXCEPT !["serve"] = "lock"]
            /\ enc' = [enc EXCEPT !.frame = frame, !.bufs = Tail(@)]
        BY <1>2, <2>4 DEF CloseFrame, Go
      <3> HIDE DEF frame
      <3>4. /\ enc'.pkt = enc.pkt /\ enc'.todo = enc.todo
            /\ enc'.bufs = Tail(enc.bufs) /\ enc'.places = enc.places
            /\ enc'.frame = frame /\ DOMAIN enc' = DOMAIN NoPacket
        BY <3>3 DEF ParserInv, NoPacket
      <3>5. ParserTypeOK'
        BY <1>u, <2>1, <2>2, <3>3, NilIsNobody DEF ParserInv, ParserTypeOK, Writers
      <3>6. EncoderOK'
        BY <2>1, <3>1, <3>2, <3>3, <3>4 DEF ParserInv, ParserTypeOK, EncoderOK, Writers
      <3> QED
        BY <1>u, <3>4, <3>5, <3>6 DEF ParserInv
    <2> QED
      BY <2>3, <2>4
  <1> QED
    BY <1>1, <1>2 DEF Writers

(* The connection is lost, or the reader takes a frame and goes on. *)
LEMMA ReadInv ==
    ASSUME ParserInv, Break \/ ReadStep
    PROVE  ParserInv'
  <1> DEFINE At == {"header", "buffers", "failed", "refused", "panic", "lost"}
  <1>u. UNCHANGED <<script, lock, pc, enc, num, twin, sent, pongs>> /\ broken' \in BOOLEAN
    BY DEF Break, ReadStep, SkipPong, DecodeHeader, ReadBuffer, DetachBuffers,
           ReadFails, encoder, wire, ParserInv, ParserTypeOK
  <1>n. net' \in Seq(Frames)
    <2>1. net \in Seq(Frames)
      BY DEF ParserInv, ParserTypeOK
    <2>2. Take /\ Arrives => net' \in Seq(Frames)
      BY <2>1 DEF Take, Arrives
    <2>3. net' = <<>> \/ net' = net \/ (Take /\ Arrives)
      BY DEF Break, ReadStep, SkipPong, DecodeHeader, ReadBuffer, DetachBuffers,
             ReadFails, wire
    <2>4. <<>> \in Seq(Frames)
      OBVIOUS
    <2> QED
      BY <2>1, <2>2, <2>3, <2>4
  <1>d. dec'.at \in At /\ DOMAIN dec' = DOMAIN NoHeader
    <2>1. dec.at \in At /\ DOMAIN dec = DOMAIN NoHeader
      BY DEF ParserInv, ParserTypeOK
    <2>2. "at" \in DOMAIN NoHeader /\ "bufs" \in DOMAIN NoHeader
          /\ "stale" \in DOMAIN NoHeader
      BY DEF NoHeader
    <2>e. ASSUME NEW why \in At, End(why)
          PROVE  dec'.at \in At /\ DOMAIN dec' = DOMAIN NoHeader
      BY <2>1, <2>2, <2>e DEF End
    <2>h. ASSUME NEW packet, Handled(packet) \/ Dispatched(packet)
          PROVE  dec'.at \in At /\ DOMAIN dec' = DOMAIN NoHeader
      BY <2>h DEF Dispatched, Handled, Dropped, NoHeader
    <2>3. CASE dec' = dec
      BY <2>1, <2>3
    <2>4. CASE DecodeHeader
      <3>1. CASE Dropped
        BY <3>1 DEF Dropped, NoHeader
      <3>2. ASSUME NEW header, DecodeArgs(header)
            PROVE  dec'.at \in At /\ DOMAIN dec' = DOMAIN NoHeader
        <4>1. CASE End("failed")
          BY <4>1, <2>e
        <4>2. CASE dec' = [dec EXCEPT !.at = "buffers", !.header = header, !.frame = Frame]
          BY <2>1, <2>2, <4>2
        <4> QED
          BY <3>2, <4>1, <4>2 DEF DecodeArgs
      <3> QED
        BY <2>4, <2>e, <2>h, <3>1, <3>2 DEF DecodeHeader
    <2>5. CASE ReadBuffer
      <3>1. CASE End("failed")
        BY <3>1, <2>e
      <3>2. ASSUME NEW b, NEW clean,
                   dec' = [dec EXCEPT !.bufs = b, !.stale = @ \/ ~clean]
            PROVE  dec'.at \in At /\ DOMAIN dec' = DOMAIN NoHeader
        BY <2>1, <2>2, <3>2
      <3> QED
        BY <2>5, <3>1, <3>2 DEF ReadBuffer
    <2>6. CASE DetachBuffers
      BY <2>6, <2>e, <2>h DEF DetachBuffers
    <2>7. CASE ReadFails
      BY <2>7, <2>e DEF ReadFails
    <2>8. CASE Break \/ SkipPong
      BY <2>3, <2>8 DEF Break, SkipPong, decoder
    <2> QED
      BY <2>4, <2>5, <2>6, <2>7, <2>8 DEF ReadStep
  <1>1. ParserTypeOK'
    BY <1>u, <1>n, <1>d DEF ParserInv, ParserTypeOK
  <1>2. EncoderOK'
    BY <1>u DEF ParserInv, EncoderOK
  <1> QED
    BY <1>u, <1>d, <1>1, <1>2 DEF ParserInv

(* Every step keeps the invariant of the writers. *)
LEMMA StepInv == ParserInv /\ [Next]_vars => ParserInv'
  <1> SUFFICES ASSUME ParserInv, [Next]_vars
               PROVE  ParserInv'
    OBVIOUS
  <1>1. CASE UNCHANGED vars
    BY <1>1 DEF vars, wire, encoder, decoder, ParserInv, ParserTypeOK, EncoderOK
  <1> QED
    BY <1>1, EncodeInv, WriterInv, PongInv, ServeInv, TwinInv, CloseInv, ReadInv
    DEF Next, WriterStep

(* The encoder, the frames and the write lock keep the invariant. *)
THEOREM ParserInvariant == Spec => []ParserInv
  BY InitInv, StepInv, PTL DEF Spec

(* A frame on its way is a pong or belongs to a packet that was written, and the
   write lock is held by exactly the writer that has a frame open
   (wrapper.go:107). *)
THEOREM ParserTypeCorrect == Spec => []ParserTypeOK
  <1>1. ParserInv => ParserTypeOK
    BY DEF ParserInv
  <1> QED
    BY <1>1, ParserInvariant, PTL

(* No two writers have a frame open: a pong never gets between the type and the
   text of a packet's frame (wrapper.go:105-114). *)
OneFrameOpen ==
    \A v, w \in Writers : /\ pc[v] \in {"first", "attach", "close"}
                          /\ pc[w] \in {"first", "attach", "close"}
                          => v = w

(* The write lock keeps the frames of the two writers apart. *)
THEOREM FramesDoNotMix == Spec => []OneFrameOpen
  <1>1. ParserInv => OneFrameOpen
    BY DEF ParserInv, ParserTypeOK, OneFrameOpen
  <1> QED
    BY <1>1, ParserInvariant, PTL

-----------------------------------------------------------------------------
(* Frames in a row *)

(* A frame that follows the last one is put behind it. *)
LEMMA LinkedAppend ==
    ASSUME NEW s \in Seq(Frames), NEW m, NEW n, NEW f \in Frames,
           Linked(m, s, n), f.kind # "PONG", Succeeds(n, f.mark)
    PROVE  Linked(m, Append(s, f), f.mark)
  <1> DEFINE t == Append(s, f)
             S == {i \in DOMAIN s : s[i].kind # "PONG"}
             T == {i \in DOMAIN t : t[i].kind # "PONG"}
             l == Len(s) + 1
  <1>1. /\ Len(s) \in Nat /\ DOMAIN s = 1..Len(s) /\ DOMAIN t = 1..l
        /\ \A i \in 1..Len(s) : t[i] = s[i]
        /\ t[l] = f
    OBVIOUS
  <1>2. T = S \cup {l} /\ S \subseteq 1..Len(s) /\ l \notin S
    BY <1>1
  <1>3. \A i \in S : t[i] = s[i] /\ i < l /\ i \in Nat
    BY <1>1, <1>2
  <1>4. /\ S = {} => m = n
        /\ \A i \in S :
              /\ (\A j \in S : i <= j) => Succeeds(m, s[i].mark)
              /\ (\A j \in S : j <= i) => s[i].mark = n
              /\ \A j \in S : i < j /\ (\A k \in S : k <= i \/ j <= k)
                                 => Succeeds(s[i].mark, s[j].mark)
    BY DEF Linked
  <1> HIDE DEF S, T, t, l
  <1>n. l \in Nat
    BY <1>1 DEF l
  <1>5. ASSUME NEW i \in T, \A j \in T : i <= j
        PROVE  Succeeds(m, t[i].mark)
    <2>1. CASE S = {}
      BY <1>1, <1>2, <1>4, <2>1
    <2>2. CASE S # {}
      <3>1. PICK x \in S : TRUE
        BY <2>2
      <3>2. i \in S
        BY <1>2, <1>3, <1>5, <1>n, <3>1
      <3> QED
        BY <1>2, <1>3, <1>4, <1>5, <3>2
    <2> QED
      BY <2>1, <2>2
  <1>6. ASSUME NEW i \in T, \A j \in T : j <= i
        PROVE  t[i].mark = f.mark
    <2>1. i = l
      BY <1>2, <1>3, <1>6, <1>n
    <2> QED
      BY <1>1, <2>1
  <1>7. ASSUME NEW i \in T, NEW j \in T, i < j, \A k \in T : k <= i \/ j <= k
        PROVE  Succeeds(t[i].mark, t[j].mark)
    <2>1. i \in S
      BY <1>2, <1>3, <1>7, <1>n
    <2>2. CASE j \in S
      BY <1>2, <1>3, <1>4, <1>7, <2>1, <2>2
    <2>3. CASE j = l
      <3>1. \A k \in S : k <= i
        BY <1>2, <1>3, <1>7, <1>n, <2>3
      <3>2. s[i].mark = n
        BY <1>4, <2>1, <3>1
      <3> QED
        BY <1>1, <1>3, <2>1, <2>3, <3>2
    <2> QED
      BY <1>2, <2>2, <2>3
  <1>8. T # {}
    BY <1>2
  <1> QED
    BY <1>5, <1>6, <1>7, <1>8 DEF Linked, T, t

(* A pong changes nothing, behind or in front. *)
LEMMA LinkedPong ==
    ASSUME NEW s \in Seq(Frames), NEW m, NEW n, Linked(m, s, n)
    PROVE  /\ \A f \in Frames : f.kind = "PONG" => Linked(m, Append(s, f), n)
           /\ s # <<>> /\ Head(s).kind = "PONG" => Linked(m, Tail(s), n)
  <1> DEFINE S == {i \in DOMAIN s : s[i].kind # "PONG"}
  <1>1. /\ Len(s) \in Nat /\ DOMAIN s = 1..Len(s) /\ S \subseteq 1..Len(s)
    OBVIOUS
  <1>2. /\ S = {} => m = n
        /\ \A i \in S :
              /\ (\A j \in S : i <= j) => Succeeds(m, s[i].mark)
              /\ (\A j \in S : j <= i) => s[i].mark = n
              /\ \A j \in S : i < j /\ (\A k \in S : k <= i \/ j <= k)
                                 => Succeeds(s[i].mark, s[j].mark)
    BY DEF Linked
  <1>3. ASSUME NEW f \in Frames, f.kind = "PONG"
        PROVE  Linked(m, Append(s, f), n)
    <2> DEFINE t == Append(s, f)
               T == {i \in DOMAIN t : t[i].kind # "PONG"}
    <2>1. T = S /\ \A i \in S : t[i] = s[i]
      <3>1. /\ DOMAIN t = 1..(Len(s) + 1) /\ \A i \in 1..Len(s) : t[i] = s[i]
            /\ t[Len(s) + 1] = f
        BY <1>1
      <3> QED
        BY <1>1, <1>3, <3>1
    <2> HIDE DEF S, T, t
    <2>2. /\ T = {} => m = n
          /\ \A i \in T :
              /\ (\A j \in T : i <= j) => Succeeds(m, t[i].mark)
              /\ (\A j \in T : j <= i) => t[i].mark = n
              /\ \A j \in T : i < j /\ (\A k \in T : k <= i \/ j <= k)
                                 => Succeeds(t[i].mark, t[j].mark)
      BY <1>2, <2>1
    <2> QED
      BY <2>2 DEF Linked, T, t
  <1>4. ASSUME s # <<>>, Head(s).kind = "PONG"
        PROVE  Linked(m, Tail(s), n)
    <2> DEFINE t == Tail(s)
               T == {i \in DOMAIN t : t[i].kind # "PONG"}
    <2>1. /\ DOMAIN t = 1..(Len(s) - 1) /\ Len(s) >= 1
          /\ \A i \in 1..(Len(s) - 1) : t[i] = s[i + 1]
      BY <1>4
    <2>2. s[1].kind = "PONG"
      BY <1>4
    <2>3. \A i \in T : i \in Nat /\ i + 1 \in S /\ t[i] = s[i + 1]
      BY <1>1, <2>1
    <2>4. \A i \in S : i \in Nat /\ i - 1 \in T /\ i - 1 \in Nat
      BY <1>1, <2>1, <2>2
    <2> HIDE DEF S, T, t
    <2>5. T = {} => m = n
      BY <1>2, <2>4
    <2>6. ASSUME NEW i \in T, \A j \in T : i <= j
          PROVE  Succeeds(m, t[i].mark)
      <3>1. \A j \in S : i + 1 <= j
        BY <2>3, <2>4, <2>6
      <3> QED
        BY <1>2, <2>3, <3>1
    <2>7. ASSUME NEW i \in T, \A j \in T : j <= i
          PROVE  t[i].mark = n
      <3>1. \A j \in S : j <= i + 1
        BY <2>3, <2>4, <2>7
      <3> QED
        BY <1>2, <2>3, <3>1
    <2>8. ASSUME NEW i \in T, NEW j \in T, i < j, \A k \in T : k <= i \/ j <= k
          PROVE  Succeeds(t[i].mark, t[j].mark)
      <3>n. i \in Nat /\ j \in Nat /\ i + 1 < j + 1
        BY <2>3, <2>8
      <3>1. ASSUME NEW k \in S
            PROVE  k <= i + 1 \/ j + 1 <= k
        <4>1. k \in Nat /\ k - 1 \in Nat /\ (k - 1 <= i \/ j <= k - 1)
          BY <2>4, <2>8
        <4> QED
          BY <3>n, <4>1
      <3> QED
        BY <1>2, <2>3, <3>n, <3>1
    <2> QED
      BY <2>5, <2>6, <2>7, <2>8 DEF Linked, T, t
  <1> QED
    BY <1>3, <1>4

(* The first frame follows the one before, and the others follow it. *)
LEMMA LinkedTail ==
    ASSUME NEW s \in Seq(Frames), NEW m, NEW n, Linked(m, s, n),
           s # <<>>, Head(s).kind # "PONG"
    PROVE  Succeeds(m, Head(s).mark) /\ Linked(Head(s).mark, Tail(s), n)
  <1> DEFINE S == {i \in DOMAIN s : s[i].kind # "PONG"}
             t == Tail(s)
             T == {i \in DOMAIN t : t[i].kind # "PONG"}
  <1>1. /\ Len(s) \in Nat /\ DOMAIN s = 1..Len(s) /\ S \subseteq 1..Len(s)
        /\ Len(s) >= 1 /\ Head(s) = s[1]
    OBVIOUS
  <1>2. /\ \A i \in S :
              /\ (\A j \in S : i <= j) => Succeeds(m, s[i].mark)
              /\ (\A j \in S : j <= i) => s[i].mark = n
              /\ \A j \in S : i < j /\ (\A k \in S : k <= i \/ j <= k)
                                 => Succeeds(s[i].mark, s[j].mark)
    BY DEF Linked
  <1>3. /\ DOMAIN t = 1..(Len(s) - 1) /\ \A i \in 1..(Len(s) - 1) : t[i] = s[i + 1]
    BY <1>1
  <1>4. 1 \in S /\ \A j \in S : j \in Nat /\ 1 <= j
    BY <1>1
  <1>5. \A i \in T : i \in Nat /\ 1 <= i /\ i + 1 \in S /\ t[i] = s[i + 1]
    BY <1>1, <1>3
  <1>6. \A i \in S : i = 1 \/ (i - 1 \in T /\ i - 1 \in Nat)
    BY <1>1, <1>3
  <1> HIDE DEF S, T, t
  <1>7. Succeeds(m, s[1].mark)
    BY <1>2, <1>4
  <1>8. T = {} => s[1].mark = n
    BY <1>2, <1>4, <1>6
  <1>9. ASSUME NEW i \in T, \A j \in T : i <= j
        PROVE  Succeeds(s[1].mark, t[i].mark)
    <2>1. 1 < i + 1 /\ \A k \in S : k <= 1 \/ i + 1 <= k
      BY <1>4, <1>5, <1>6, <1>9
    <2> QED
      BY <1>2, <1>4, <1>5, <2>1
  <1>10. ASSUME NEW i \in T, \A j \in T : j <= i
         PROVE  t[i].mark = n
    <2>1. \A j \in S : j <= i + 1
      BY <1>4, <1>5, <1>6, <1>10
    <2> QED
      BY <1>2, <1>5, <2>1
  <1>11. ASSUME NEW i \in T, NEW j \in T, i < j, \A k \in T : k <= i \/ j <= k
         PROVE  Succeeds(t[i].mark, t[j].mark)
    <2>n. i \in Nat /\ j \in Nat /\ 1 <= i /\ i + 1 < j + 1
      BY <1>5, <1>11
    <2>1. ASSUME NEW k \in S
          PROVE  k <= i + 1 \/ j + 1 <= k
      <3>1. CASE k = 1
        BY <2>n, <3>1
      <3>2. CASE k # 1
        <4>1. k \in Nat /\ k - 1 \in Nat /\ (k - 1 <= i \/ j <= k - 1)
          BY <1>4, <1>6, <1>11, <3>2
        <4> QED
          BY <2>n, <4>1
      <3> QED
        BY <3>1, <3>2
    <2> QED
      BY <1>2, <1>5, <2>n, <2>1
  <1>12. Linked(s[1].mark, t, n)
    BY <1>8, <1>9, <1>10, <1>11 DEF Linked, T
  <1> QED
    BY <1>1, <1>7, <1>12 DEF t

-----------------------------------------------------------------------------
(* Packets sent, and the places of those that have a handler *)

(* What was sent are packets that the script has. *)
LEMMA SentTyped ==
    ASSUME ParserInv
    PROVE  /\ sent \in Seq(Written) /\ Len(sent) \in Nat /\ DOMAIN sent = 1..Len(sent)
           /\ \A i \in 1..Len(sent) : sent[i] \in Written /\ sent[i] \in ToSet(sent)
           /\ ToSet(sent) \subseteq Written
           /\ \A p \in ToSet(sent) : \E i \in 1..Len(sent) : sent[i] = p
  <1>1. /\ script.packets \in Seq(PacketType)
        /\ \A i \in 1..Len(script.packets) : script.packets[i] \in Written
    BY ScriptWritten DEF ParserInv, ParserTypeOK
  <1>2. script.packets \in Seq(Written)
    BY <1>1
  <1>3. Len(sent) <= Len(script.packets) /\ sent = SubSeq(script.packets, 1, Len(sent))
    BY DEF ParserInv, ParserTypeOK
  <1>4. sent \in Seq(Written)
    BY <1>2, <1>3
  <1> QED
    BY <1>4 DEF ToSet

(* A packet that is written has its type. *)
LEMMA WrittenPacket ==
    ASSUME NEW p \in Written
    PROVE  /\ p \in PacketType
           /\ p.bufs \in Seq(Buffers) /\ Len(p.bufs) \in Nat /\ DOMAIN p.bufs = 1..Len(p.bufs)
  <1>1. PICK s \in Scripts : p \in ToSet(s.packets)
    BY DEF Written
  <1>2. s.packets \in Seq(PacketType)
    BY ScriptsTyped
  <1>3. p \in PacketType
    BY <1>1, <1>2 DEF ToSet
  <1> QED
    BY <1>3, WrittenTyped

(* A packet with a handler takes one place more. *)
LEMMA PlaceFacts ==
    ASSUME NEW k \in Nat
    PROVE  /\ Place(k) \in Nat
           /\ IsFiniteSet(ToHandle(k))
           /\ Place(k + 1) = IF Addressed(sent[k + 1]) THEN Place(k) + 1 ELSE Place(k)
  <1>1. ToHandle(k) \subseteq 1..k /\ IsFiniteSet(1..k)
    BY FS_Interval DEF ToHandle
  <1>2. IsFiniteSet(ToHandle(k))
    BY <1>1, FS_Subset
  <1>3. ToHandle(k + 1) = IF Addressed(sent[k + 1]) THEN ToHandle(k) \cup {k + 1}
                                                    ELSE ToHandle(k)
    BY DEF ToHandle
  <1>4. k + 1 \notin ToHandle(k)
    BY <1>1
  <1> QED
    BY <1>2, <1>3, <1>4, FS_AddElement, FS_CardinalityType DEF Place

(* Later packets have later places, and no two with a handler the same. *)
LEMMA PlaceGrows ==
    ASSUME NEW k \in Nat, NEW i \in 0..k
    PROVE  /\ Place(i) <= Place(k)
           /\ i \in ToHandle(k) => Place(i) > 0
           /\ i < k /\ Addressed(sent[k]) => Place(i) < Place(k)
  <1>1. ToHandle(i) \subseteq ToHandle(k) /\ i \in Nat
    BY DEF ToHandle
  <1>2. Place(i) <= Place(k) /\ Place(i) \in Nat /\ Place(k) \in Nat
    BY <1>1, PlaceFacts, FS_Subset DEF Place
  <1>3. ASSUME i \in ToHandle(k) PROVE Place(i) > 0
    <2>1. i \in ToHandle(i) /\ IsFiniteSet(ToHandle(i))
      BY <1>1, <1>3, PlaceFacts DEF ToHandle
    <2> QED
      BY <1>2, <2>1, FS_EmptySet DEF Place
  <1>4. ASSUME i < k, Addressed(sent[k]) PROVE Place(i) < Place(k)
    <2> DEFINE j == k - 1
    <2>1. j \in Nat /\ i \in 0..j /\ j + 1 = k
      BY <1>4
    <2>2. ToHandle(i) \subseteq ToHandle(j)
      BY <2>1 DEF ToHandle
    <2>3. Place(i) <= Place(j) /\ Place(j) \in Nat
      BY <2>1, <2>2, PlaceFacts, FS_Subset DEF Place
    <2>4. Place(j + 1) = Place(j) + 1
      BY <1>4, <2>1, PlaceFacts
    <2> QED
      BY <1>2, <2>1, <2>3, <2>4
  <1> QED
    BY <1>2, <1>3, <1>4

(* What is in hand is of the packets that were sent. *)
LEMMA MarksTyped ==
    ASSUME ParserInv, NEW m \in Marks
    PROVE  m \in MarkType /\ m.packet \in 0..Len(sent)
  <1>1. CASE m = Mark(0, 0, <<>>)
    <2>1. <<>> \in Seq(Buffers)
      OBVIOUS
    <2> QED
      BY <1>1, <2>1, SentTyped DEF Mark, MarkType
  <1>2. CASE m # Mark(0, 0, <<>>)
    <2>1. PICK n \in DOMAIN sent :
             m \in [packet : {n}, index : 0..Len(sent[n].bufs), order : Visits(sent[n]) \cup {<<>>}]
      BY <1>2 DEF Marks
    <2>2. n \in 1..Len(sent) /\ sent[n] \in Written /\ Len(sent[n].bufs) \in Nat /\ n \in Nat
      BY <2>1, SentTyped, WrittenPacket
    <2>3. Visits(sent[n]) \subseteq Seq(Buffers) /\ <<>> \in Seq(Buffers)
      BY <2>2, VisitsTyped
    <2>4. m \in MarkType
      <3>1. /\ m = [packet |-> m.packet, index |-> m.index, order |-> m.order]
            /\ m.packet = n /\ m.index \in 0..Len(sent[n].bufs)
            /\ m.order \in Visits(sent[n]) \cup {<<>>}
        BY <2>1
      <3>2. m.packet \in Nat /\ m.index \in Nat /\ m.order \in Seq(Buffers)
        <4>1. m.packet \in Nat
          BY <2>2, <3>1
        <4>2. m.index \in Nat
          BY <2>2, <3>1
        <4>3. m.order \in Seq(Buffers)
          BY <2>3, <3>1
        <4> QED
          BY <4>1, <4>2, <4>3
      <3> QED
        BY <3>1, <3>2 DEF MarkType
    <2>5. m.packet = n
      BY <2>1
    <2> QED
      BY <2>2, <2>4, <2>5
  <1> QED
    BY <1>1, <1>2

(* Every mark of a packet that was sent is among the marks. *)
LEMMA MarksHas ==
    ASSUME ParserInv, NEW m \in MarkType, m.packet \in 1..Len(sent),
           m.order \in Visits(sent[m.packet]) \cup {<<>>}, m.index \in 0..Len(m.order)
    PROVE  m \in Marks
  <1> DEFINE n == m.packet
             p == sent[n]
  <1>1. n \in DOMAIN sent /\ p \in Written
    BY SentTyped
  <1>2. Len(p.bufs) \in Nat
    BY <1>1, WrittenPacket
  <1>3. Len(m.order) <= Len(p.bufs) /\ Len(m.order) \in Nat
    <2>1. CASE m.order = <<>>
      BY <1>2, <2>1
    <2>2. CASE m.order \in Visits(p)
      BY <1>1, <1>2, <2>2, VisitsTyped
    <2> QED
      BY <2>1, <2>2
  <1>4. m.index \in 0..Len(p.bufs)
    BY <1>2, <1>3
  <1>5. m = [packet |-> n, index |-> m.index, order |-> m.order]
    BY DEF MarkType
  <1> HIDE DEF n, p
  <1>6. m \in [packet : {n}, index : 0..Len(p.bufs), order : Visits(p) \cup {<<>>}]
    BY <1>4, <1>5 DEF p, n
  <1> QED
    BY <1>1, <1>6 DEF Marks, p

(* The start of a packet that was sent has a mark. *)
LEMMA StartOf ==
    ASSUME ParserInv, NEW k \in 0..Len(sent)
    PROVE  Mark(k, 0, <<>>) \in Marks /\ Mark(k, 0, <<>>).packet = k
  <1>1. Mark(k, 0, <<>>) \in MarkType /\ Mark(k, 0, <<>>).packet = k
        /\ Mark(k, 0, <<>>).index = 0 /\ Mark(k, 0, <<>>).order = <<>>
    <2>1. <<>> \in Seq(Buffers) /\ k \in Nat
      BY SentTyped
    <2> QED
      BY <2>1 DEF Mark, MarkType
  <1>2. CASE k = 0
    BY <1>1, <1>2 DEF Marks
  <1>3. CASE k # 0
    <2>1. k \in 1..Len(sent) /\ 0 \in 0..Len(<<>>)
      BY <1>3, SentTyped
    <2> QED
      BY <1>1, <2>1, MarksHas
  <1> QED
    BY <1>1, <1>2, <1>3

(* The mark of a frame. *)
LEMMA FrameMark ==
    ASSUME ParserInv, NEW f \in Messages, FrameOK(f)
    PROVE  f.mark \in Marks /\ f.mark \in MarkType
  <1>1. f.mark \in MarkType
    BY DEF Messages
  <1>2. /\ f.mark.packet \in 1..Len(sent) /\ f.mark.index \in 0..Len(f.mark.order)
        /\ f.mark.order \in Visits(sent[f.mark.packet]) \cup {<<>>}
    BY DEF FrameOK
  <1> QED
    BY <1>1, <1>2, MarksHas

(* Nothing but sent counts for what a frame is. *)
LEMMA FrameStays ==
    ASSUME UNCHANGED sent
    PROVE  /\ Marks' = Marks /\ \A m : Shaken(m)' <=> Shaken(m)
           /\ \A f : FrameOK(f)' <=> FrameOK(f)
           /\ \A p, s, t : Placed(p, s, t)' <=> Placed(p, s, t)
  BY DEF Marks, FrameOK, TextOK, Placed, Shaken

(* Nothing but sent, the script and got counts for what was handled. *)
LEMMA HandledStays ==
    ASSUME UNCHANGED <<sent, script>>, NEW k
    PROVE  /\ Place(k)' = Place(k)
           /\ \A p : Cut(p)' <=> Cut(p)
           /\ \A r, p : Arrived(r, p)' <=> Arrived(r, p)
           /\ UNCHANGED got => (HandledUpTo(k)' <=> HandledUpTo(k))
  <1>1. /\ Place(k)' = Place(k)
        /\ \A p : Cut(p)' <=> Cut(p)
        /\ \A r, p : Arrived(r, p)' <=> Arrived(r, p)
    BY DEF Place, ToHandle, Arrived, Cut, Shaken, mode
  <1>2. UNCHANGED got => (HandledUpTo(k)' <=> HandledUpTo(k))
    BY DEF HandledUpTo, Place, ToHandle, Arrived, Cut, Shaken, mode
  <1> QED
    BY <1>1, <1>2

-----------------------------------------------------------------------------
(* Steps of the writers *)

(* A step that leaves the reader and what was sent alone leaves its place. *)
LEMMA ReaderStays ==
    ASSUME UNCHANGED <<script, dec, sent, got>>
    PROVE  /\ \A m : ReaderAt(m)' <=> ReaderAt(m)
           /\ ReaderStaysInSync' <=> ReaderStaysInSync
           /\ Marks' = Marks
  <1>1. \A m : HandledUpTo(m.packet)' <=> HandledUpTo(m.packet)
    BY DEF HandledUpTo, Place, ToHandle, Arrived, Cut, Shaken, mode
  <1>2. \A m : AtHeader(m)' <=> AtHeader(m)
    BY DEF AtHeader, HandledUpTo, Place, ToHandle, Arrived, Cut, Shaken, mode
  <1>3. \A m : AtBuffers(m)' <=> AtBuffers(m)
    BY DEF AtBuffers, HandledUpTo, Place, ToHandle, Arrived, Cut, Shaken, mode, FrameOK, TextOK, Placed
  <1> QED
    BY <1>1, <1>2, <1>3 DEF ReaderAt, ReaderStaysInSync, Marks, Shaken, Cut, mode

(* A step of the writers that sends nothing. *)
LEMMA WriterMoves ==
    ASSUME StreamInv, ParserInv',
           UNCHANGED <<script, broken, net, dec, sent, got>>,
           PacketOK', TwinOK',
           \A n \in Marks : ~broken /\ WriterAt(n) => WriterAt(n)'
    PROVE  StreamInv'
  <1>1. NetOK'
    BY DEF StreamInv, NetOK, FrameOK, TextOK, Placed, Shaken
  <1>2. got' \in Seq(Receipts) /\ ReaderStaysInSync'
    BY ReaderStays DEF StreamInv
  <1>3. StreamOK'
    <2>1. PICK m \in Marks :
             /\ ReaderAt(m)
             /\ ~broken => \E n \in Marks : WriterAt(n) /\ (Reading /\ ~dec.stale => Linked(m, net, n))
      BY DEF StreamInv, StreamOK
    <2>2. m \in Marks' /\ ReaderAt(m)'
      BY <2>1, ReaderStays
    <2>3. ASSUME ~broken'
          PROVE  \E n \in Marks' : WriterAt(n)' /\ (Reading' /\ ~dec'.stale => Linked(m, net', n))
      <3>1. PICK n \in Marks : WriterAt(n) /\ (Reading /\ ~dec.stale => Linked(m, net, n))
        BY <2>1, <2>3
      <3>2. n \in Marks' /\ WriterAt(n)'
        BY <2>3, <3>1, ReaderStays
      <3> QED
        BY <3>1, <3>2 DEF Reading
    <2> QED
      BY <2>2, <2>3 DEF StreamOK
  <1> QED
    BY <1>1, <1>2, <1>3 DEF StreamInv

(* The packet under way is left alone. *)
LEMMA PacketStays ==
    ASSUME StreamInv, UNCHANGED <<enc, num, sent>>,
           pc'["serve"] # "idle" => pc["serve"] # "idle",
           pc'["serve"] = "attach" => pc["serve"] = "attach" \/ enc.frame = Nil
    PROVE  PacketOK'
  <1> DEFINE p == sent[Len(sent)]
  <1>1. CASE pc'["serve"] = "idle"
    BY <1>1 DEF PacketOK
  <1>2. CASE pc'["serve"] # "idle" /\ enc.frame = Nil
    <2>1. /\ sent # <<>> /\ enc.pkt = p
          /\ enc.bufs \o enc.todo \in Visits(p)
          /\ enc.places # <<>> => enc.todo = <<>>
          /\ Len(enc.places) <= Len(p.bufs)
          /\ ~Shaken(p) => \A i \in DOMAIN enc.bufs :
                              Leads(enc.bufs, num[enc.bufs[i]], enc.bufs[i])
          /\ Placed(p, enc.bufs, enc.places)
      BY <1>2 DEF StreamInv, PacketOK
    <2> QED
      BY <1>2, <2>1 DEF PacketOK, Placed, Shaken
  <1>3. CASE pc'["serve"] # "idle" /\ enc.frame # Nil
    <2>1. /\ sent # <<>> /\ enc.pkt = p /\ FrameOK(enc.frame)
          /\ pc'["serve"] # "attach"
          /\ enc.frame.mark.packet = Len(sent)
          /\ Len(enc.bufs) = Len(enc.frame.mark.order) - enc.frame.mark.index
          /\ \A i \in DOMAIN enc.bufs :
                enc.bufs[i] = enc.frame.mark.order[enc.frame.mark.index + i]
      BY <1>3 DEF StreamInv, PacketOK
    <2>2. FrameOK(enc.frame)'
      BY <2>1 DEF FrameOK, TextOK, Placed, Shaken
    <2> QED
      BY <1>3, <2>1, <2>2 DEF PacketOK
  <1> QED
    BY <1>1, <1>2, <1>3

(* The lock, the type byte and the pongs: serve is done only with a connection
   that is lost. *)
LEMMA LockStream ==
    ASSUME StreamInv, ParserInv',
           Pong \/ SetWriteDeadline \/ \E w \in Writers : NextWriter(w) \/ FirstByte(w)
    PROVE  StreamInv'
  <1>1. UNCHANGED <<script, broken, net, enc, num, twin, sent, dec, got>>
    BY DEF Pong, SetWriteDeadline, NextWriter, FirstByte, encoder, decoder, wire
  <1>2. /\ pc'["serve"] # "idle" => pc["serve"] # "idle"
        /\ pc["serve"] # "idle" /\ ~broken => pc'["serve"] # "idle"
        /\ pc'["serve"] = "attach" => pc["serve"] = "attach" \/ enc.frame = Nil
    BY DEF Pong, SetWriteDeadline, NextWriter, FirstByte, Go, StreamInv, ParserInv,
           ParserTypeOK, Writers
  <1>3. PacketOK'
    BY <1>1, <1>2, PacketStays
  <1>4. TwinOK'
    BY <1>1 DEF StreamInv, TwinOK
  <1>5. \A n \in Marks : ~broken /\ WriterAt(n) => WriterAt(n)'
    BY <1>1, <1>2 DEF WriterAt
  <1> QED
    BY <1>1, <1>3, <1>4, <1>5, WriterMoves

(* The packet that is under way. *)
LEMMA UnderWay ==
    ASSUME StreamInv, pc["serve"] # "idle"
    PROVE  /\ Len(sent) \in Nat /\ Len(sent) \in 1..Len(sent)
           /\ enc.pkt = sent[Len(sent)] /\ enc.pkt \in Written /\ enc.pkt \in ToSet(sent)
           /\ enc.todo \in Seq(Buffers) /\ enc.bufs \in Seq(Buffers) /\ enc.places \in Seq(Nat)
           /\ enc.pkt.bufs \in Seq(Buffers)
           /\ DOMAIN enc = {"pkt", "todo", "bufs", "places", "frame"}
  <1>1. sent # <<>> /\ enc.pkt = sent[Len(sent)]
    BY DEF StreamInv, PacketOK
  <1>2. Len(sent) \in Nat /\ Len(sent) \in 1..Len(sent)
    BY <1>1, SentTyped DEF StreamInv
  <1>3. enc.pkt \in Written /\ enc.pkt \in ToSet(sent)
    BY <1>1, <1>2, SentTyped DEF StreamInv
  <1> QED
    BY <1>1, <1>2, <1>3, WrittenPacket DEF StreamInv, ParserInv, EncoderOK, NoPacket

(* attachBuffer gives a Buffer the number of its place. *)
LEMMA AttachStream ==
    ASSUME StreamInv, ParserInv', AttachBuffer
    PROVE  StreamInv'
  <1> DEFINE p == sent[Len(sent)]
             b == Head(enc.todo)
  <1>u. /\ UNCHANGED <<script, broken, lock, net, pc, twin, sent, dec, got>>
        /\ pc["serve"] = "attach" /\ enc.todo # <<>>
    BY DEF AttachBuffer, wire, decoder
  <1>t. /\ Len(sent) \in Nat /\ enc.pkt = p /\ p \in Written
        /\ enc.todo \in Seq(Buffers) /\ enc.bufs \in Seq(Buffers) /\ enc.places \in Seq(Nat)
        /\ DOMAIN enc = {"pkt", "todo", "bufs", "places", "frame"}
    BY <1>u, UnderWay
  <1>1. /\ enc'.pkt = enc.pkt /\ enc'.todo = Tail(enc.todo)
        /\ enc'.bufs = Append(enc.bufs, b)
        /\ enc'.places = enc.places /\ enc'.frame = enc.frame
        /\ num' = [num EXCEPT ![b] = Len(enc.bufs)]
    BY <1>t DEF AttachBuffer
  <1>2. /\ sent # <<>> /\ enc.frame = Nil
        /\ enc.bufs \o enc.todo \in Visits(p)
        /\ enc.places # <<>> => enc.todo = <<>>
        /\ Len(enc.places) <= Len(p.bufs)
        /\ ~Shaken(p) => \A i \in DOMAIN enc.bufs : Leads(enc.bufs, num[enc.bufs[i]], enc.bufs[i])
    BY <1>u DEF StreamInv, PacketOK
  <1>3. enc'.bufs \o enc'.todo = enc.bufs \o enc.todo
    <2>1. Append(enc.bufs, b) \o Tail(enc.todo) = enc.bufs \o enc.todo
      BY <1>t, <1>u
    <2> QED
      BY <1>1, <2>1
  <1>4. enc.places = <<>>
    BY <1>2, <1>u
  <1>n. num \in [Buffers -> Nat] /\ b \in Buffers
    BY <1>t, <1>u DEF StreamInv, ParserInv, ParserTypeOK
  <1> HIDE DEF b, p
  <1>5. ASSUME ~Shaken(p), NEW i \in DOMAIN enc'.bufs
        PROVE  Leads(enc'.bufs, num'[enc'.bufs[i]], enc'.bufs[i])
    <2> DEFINE s == Append(enc.bufs, b)
               l == Len(enc.bufs)
    <2>1. /\ l \in Nat /\ Len(s) = l + 1 /\ s[l + 1] = b
          /\ \A j \in 1..l : s[j] = enc.bufs[j] /\ enc.bufs[j] \in Buffers
          /\ DOMAIN enc.bufs = 1..l /\ DOMAIN s = 1..(l + 1)
      BY <1>t, <1>n
    <2>2. i \in 1..(l + 1) /\ enc'.bufs = s
      BY <1>1, <1>5, <2>1
    <2>3. CASE s[i] = b
      <3>1. num'[s[i]] = l
        BY <1>1, <1>n, <2>3
      <3> QED
        BY <2>1, <2>2, <2>3, <3>1 DEF Leads
    <2>4. CASE s[i] # b
      <3>1. i \in 1..l /\ s[i] = enc.bufs[i] /\ enc.bufs[i] \in Buffers
        BY <2>1, <2>2, <2>4
      <3>2. num'[s[i]] = num[enc.bufs[i]]
        BY <1>1, <1>n, <2>4, <3>1
      <3>3. num[enc.bufs[i]] < l /\ enc.bufs[num[enc.bufs[i]] + 1] = enc.bufs[i]
            /\ num[enc.bufs[i]] \in Nat
        BY <1>2, <1>5, <1>n, <2>1, <3>1 DEF Leads
      <3> QED
        BY <2>1, <2>2, <3>1, <3>2, <3>3 DEF Leads
    <2> QED
      BY <2>3, <2>4
  <1>6. PacketOK'
    <2>1. \A i \in DOMAIN enc'.places : FALSE
      BY <1>1, <1>4
    <2>2. sent'[Len(sent')] = p
      BY <1>u DEF p
    <2>4. /\ sent' # <<>> /\ enc'.pkt = p /\ enc'.frame = Nil
          /\ enc'.bufs \o enc'.todo \in Visits(p)
          /\ enc'.places = <<>> /\ Len(enc'.places) <= Len(p.bufs)
      BY <1>1, <1>2, <1>3, <1>4, <1>t, <1>u
    <2>5. ~Shaken(p) => \A i \in DOMAIN enc'.bufs :
                          Leads(enc'.bufs, num'[enc'.bufs[i]], enc'.bufs[i])
      BY <1>5
    <2> HIDE DEF Leads
    <2> QED
      BY <1>u, <2>1, <2>2, <2>4, <2>5 DEF PacketOK, Placed, Shaken
  <1>7. TwinOK'
    BY <1>u DEF StreamInv, TwinOK
  <1>8. \A n \in Marks : ~broken /\ WriterAt(n) => WriterAt(n)'
    BY <1>1, <1>u DEF WriterAt
  <1> QED
    BY <1>6, <1>7, <1>8, <1>u, WriterMoves

(* Every Buffer of the packet has been visited when the first one is written. *)
LEMMA MarshalStream ==
    ASSUME StreamInv, ParserInv', MarshalBuffer
    PROVE  StreamInv'
  <1> DEFINE p == sent[Len(sent)]
             k == Len(enc.places) + 1
             b == p.bufs[k]
  <1>u. /\ UNCHANGED <<script, broken, lock, net, pc, num, twin, sent, dec, got>>
        /\ pc["serve"] = "attach" /\ enc.todo = <<>> /\ Len(enc.places) < Len(enc.pkt.bufs)
    BY DEF MarshalBuffer, wire, decoder
  <1>t. /\ Len(sent) \in Nat /\ enc.pkt = p /\ p \in Written
        /\ enc.todo \in Seq(Buffers) /\ enc.bufs \in Seq(Buffers) /\ enc.places \in Seq(Nat)
        /\ p.bufs \in Seq(Buffers)
        /\ DOMAIN enc = {"pkt", "todo", "bufs", "places", "frame"}
    BY <1>u, UnderWay
  <1>1. /\ enc'.pkt = enc.pkt /\ enc'.todo = enc.todo /\ enc'.bufs = enc.bufs
        /\ enc'.places = Append(enc.places, num[b]) /\ enc'.frame = enc.frame
    BY <1>t DEF MarshalBuffer
  <1>2. /\ sent # <<>> /\ enc.frame = Nil
        /\ enc.bufs \o enc.todo \in Visits(p)
        /\ ~Shaken(p) => \A i \in DOMAIN enc.bufs : Leads(enc.bufs, num[enc.bufs[i]], enc.bufs[i])
        /\ Placed(p, enc.bufs, enc.places)
    BY <1>u DEF StreamInv, PacketOK
  <1>3. enc.bufs \in Visits(p)
    <2>1. enc.bufs \o <<>> = enc.bufs
      BY <1>t
    <2> QED
      BY <1>2, <1>u, <2>1
  <1>4. k \in 1..Len(p.bufs) /\ k \in Nat /\ Len(enc.places) \in Nat
    BY <1>t, <1>u
  <1>5. PICK j \in 1..Len(enc.bufs) : enc.bufs[j] = b
    BY <1>3, <1>4, <1>t, VisitsTyped
  <1>n. num \in [Buffers -> Nat] /\ b \in Buffers
    <2>1. b \in Buffers
      BY <1>4, <1>t
    <2>2. num \in [Buffers -> Nat]
      BY DEF StreamInv, ParserInv, ParserTypeOK
    <2> QED
      BY <2>1, <2>2
  <1> HIDE DEF b, k, p
  <1>6. ~Shaken(p) => Leads(enc.bufs, num[b], b)
    <2>1. j \in DOMAIN enc.bufs
      BY <1>5, <1>t
    <2> QED
      BY <1>2, <1>5, <2>1
  <1>7. Placed(p, enc.bufs, enc'.places)
    <2> SUFFICES ASSUME ~Shaken(p), NEW i \in DOMAIN enc'.places
                 PROVE  Leads(enc.bufs, enc'.places[i], p.bufs[i])
      BY DEF Placed
    <2>1. /\ DOMAIN enc'.places = 1..k /\ DOMAIN enc.places = 1..(k - 1)
          /\ enc'.places[k] = num[b]
          /\ \A x \in 1..(k - 1) : enc'.places[x] = enc.places[x]
      BY <1>1, <1>4, <1>n, <1>t DEF k
    <2>2. CASE i = k
      BY <1>6, <2>1, <2>2 DEF b
    <2>3. CASE i # k
      <3>1. i \in 1..(k - 1)
        BY <1>4, <2>1, <2>3
      <3> QED
        BY <1>2, <2>1, <3>1 DEF Placed
    <2> QED
      BY <2>2, <2>3
  <1>8. PacketOK'
    <2>1. enc'.places \in Seq(Nat) /\ Len(enc'.places) = k
      BY <1>1, <1>n, <1>t DEF k
    <2>2. sent'[Len(sent')] = p
      BY <1>u DEF p
    <2>3. /\ sent' # <<>> /\ enc'.pkt = p /\ enc'.frame = Nil
          /\ enc'.bufs \o enc'.todo \in Visits(p)
          /\ enc'.todo = <<>> /\ Len(enc'.places) <= Len(p.bufs)
      BY <1>1, <1>2, <1>4, <1>t, <1>u, <2>1
    <2>4. ~Shaken(p) => \A i \in DOMAIN enc'.bufs :
                          Leads(enc'.bufs, num'[enc'.bufs[i]], enc'.bufs[i])
      BY <1>1, <1>2, <1>u
    <2>5. Placed(p, enc'.bufs, enc'.places)
      BY <1>1, <1>7
    <2> HIDE DEF Leads
    <2> QED
      BY <1>u, <2>2, <2>3, <2>4, <2>5 DEF PacketOK, Placed, Shaken
  <1>9. TwinOK'
    BY <1>u DEF StreamInv, TwinOK
  <1>10. \A n \in Marks : ~broken /\ WriterAt(n) => WriterAt(n)'
    BY <1>1, <1>u DEF WriterAt
  <1> QED
    BY <1>8, <1>9, <1>10, <1>u, WriterMoves

(* A frame is put in the place of another. *)
LEMMA EncFrameOK ==
    ASSUME NEW g, FrameOK(g), g = enc'.frame, UNCHANGED sent
    PROVE  FrameOK(enc.frame)'
  <1>1. TextOK(g) => TextOK(enc.frame)'
    BY DEF TextOK, Placed, Shaken
  <1> QED
    BY <1>1 DEF FrameOK

(* The first part of two sequences put together. *)
LEMMA Concat ==
    ASSUME NEW S, NEW s \in Seq(S), NEW t \in Seq(S)
    PROVE  /\ Len(s \o t) = Len(s) + Len(t) /\ Len(s) \in Nat /\ Len(t) \in Nat
           /\ \A i \in 1..Len(s) : (s \o t)[i] = s[i] /\ i \in 1..Len(s \o t)
  OBVIOUS

(* A Buffer that another connection numbers while the packet is under way has
   one number only, or the packet is shaken. *)
LEMMA TwinStream ==
    ASSUME StreamInv, ParserInv', TwinAttaches
    PROVE  StreamInv'
  <1> DEFINE p == sent[Len(sent)]
             b == Head(twin)[1]
             n == Head(twin)[2]
  <1>u. /\ UNCHANGED <<script, broken, lock, net, pc, enc, sent, dec, got>>
        /\ twin # <<>> /\ num' = [num EXCEPT ![b] = n] /\ twin' = Tail(twin)
    BY DEF TwinAttaches, wire, decoder
  <1>n. /\ twin \in Seq(Buffers \X Nat) /\ num \in [Buffers -> Nat]
        /\ b \in Buffers /\ n \in Nat
    <2>1. twin \in Seq(Buffers \X Nat) /\ num \in [Buffers -> Nat]
      BY DEF StreamInv, ParserInv, ParserTypeOK
    <2>2. Head(twin) \in Buffers \X Nat
      BY <1>u, <2>1
    <2> QED
      BY <2>1, <2>2
  <1>1. PICK q \in ToSet(sent) : q.cast /\ b \in ToSet(q.bufs) /\ n \in Numbers(q, b)
    <2>1. 1 \in DOMAIN twin /\ Head(twin) = twin[1]
      BY <1>n, <1>u
    <2> QED
      BY <2>1 DEF StreamInv, TwinOK
  <1> HIDE DEF b, n
  <1>2. ASSUME pc["serve"] # "idle", enc.frame = Nil, ~Shaken(p), NEW i \in DOMAIN enc.bufs
        PROVE  Leads(enc.bufs, num'[enc.bufs[i]], enc.bufs[i])
    <2>t. /\ p \in Written /\ enc.todo \in Seq(Buffers) /\ enc.bufs \in Seq(Buffers)
          /\ p.bufs \in Seq(Buffers)
      BY <1>2, UnderWay
    <2>1. /\ enc.bufs \o enc.todo \in Visits(p)
          /\ \A x \in DOMAIN enc.bufs : Leads(enc.bufs, num[enc.bufs[x]], enc.bufs[x])
      <3>1. CASE enc.frame # Nil
        BY <1>2, <3>1
      <3> QED
        BY <1>2 DEF StreamInv, PacketOK
    <2>2. i \in 1..Len(enc.bufs) /\ enc.bufs[i] \in Buffers /\ Len(enc.bufs) \in Nat
      BY <1>2, <2>t
    <2>3. CASE enc.bufs[i] # b
      <3>1. num'[enc.bufs[i]] = num[enc.bufs[i]]
        BY <1>n, <1>u, <2>2, <2>3
      <3> QED
        BY <1>2, <2>1, <3>1
    <2>4. CASE enc.bufs[i] = b
      <3> DEFINE order == enc.bufs \o enc.todo
      <3>1. order[i] = b /\ i \in 1..Len(order) /\ Len(order) = Len(p.bufs)
        <4>1. Len(order) = Len(p.bufs)
          BY <2>1, <2>t, VisitsTyped
        <4>2. Len(order) = Len(enc.bufs) + Len(enc.todo) /\ Len(enc.todo) \in Nat
              /\ order[i] = enc.bufs[i] /\ i \in 1..Len(order)
          BY <2>2, <2>t, Concat
        <4> HIDE DEF order
        <4>3. i \in 1..Len(order)
          BY <4>2
        <4>4. order[i] = b
          BY <2>4, <4>2
        <4> QED
          BY <4>1, <4>3, <4>4
      <3>2. order[i] \in ToSet(p.bufs)
        BY <2>1, <2>t, <3>1, VisitsTyped
      <3> HIDE DEF order
      <3>3. i - 1 \in Numbers(p, b)
        <4>1. i \in DOMAIN p.bufs
          BY <2>t, <3>1
        <4>2. \E s \in Visits(p) : s[i] = b
          BY <2>1, <3>1 DEF order
        <4> QED
          BY <4>1, <4>2 DEF Numbers
      <3>4. i - 1 = n
        BY <1>1, <1>2, <3>1, <3>2, <3>3 DEF Shaken
      <3>5. num'[enc.bufs[i]] = n
        BY <1>n, <1>u, <2>4
      <3> QED
        BY <2>2, <2>4, <3>4, <3>5 DEF Leads
    <2> QED
      BY <2>3, <2>4
  <1>3. PacketOK'
    <2>1. CASE pc["serve"] = "idle"
      BY <1>u, <2>1 DEF PacketOK
    <2>2. CASE pc["serve"] # "idle" /\ enc.frame = Nil
      <3>1. /\ sent # <<>> /\ enc.pkt = p
            /\ enc.bufs \o enc.todo \in Visits(p)
            /\ enc.places # <<>> => enc.todo = <<>>
            /\ Len(enc.places) <= Len(p.bufs)
            /\ Placed(p, enc.bufs, enc.places)
        BY <2>2 DEF StreamInv, PacketOK
      <3>2. ~Shaken(p) => \A i \in DOMAIN enc.bufs :
                            Leads(enc.bufs, num'[enc.bufs[i]], enc.bufs[i])
        BY <1>2, <2>2
      <3> HIDE DEF Leads
      <3> QED
        BY <1>u, <2>2, <3>1, <3>2 DEF PacketOK, Placed, Shaken
    <2>3. CASE pc["serve"] # "idle" /\ enc.frame # Nil
      <3>1. /\ sent # <<>> /\ enc.pkt = p /\ FrameOK(enc.frame)
            /\ pc["serve"] # "attach"
            /\ enc.frame.mark.packet = Len(sent)
            /\ Len(enc.bufs) = Len(enc.frame.mark.order) - enc.frame.mark.index
            /\ \A i \in DOMAIN enc.bufs :
                  enc.bufs[i] = enc.frame.mark.order[enc.frame.mark.index + i]
        BY <2>3 DEF StreamInv, PacketOK
      <3>2. FrameOK(enc.frame)'
        BY <1>u, <3>1 DEF FrameOK, TextOK, Placed, Shaken
      <3> QED
        BY <1>u, <2>3, <3>1, <3>2 DEF PacketOK
    <2> QED
      BY <2>1, <2>2, <2>3
  <1>4. TwinOK'
    <2> SUFFICES ASSUME NEW i \in DOMAIN twin'
                 PROVE  (\E r \in ToSet(sent) :
                           /\ r.cast /\ twin'[i][1] \in ToSet(r.bufs)
                           /\ twin'[i][2] \in Numbers(r, twin'[i][1]))
      BY <1>u DEF TwinOK
    <2>1. i + 1 \in DOMAIN twin /\ twin'[i] = twin[i + 1]
      BY <1>n, <1>u
    <2> QED
      BY <2>1 DEF StreamInv, TwinOK
  <1>5. \A m \in Marks : ~broken /\ WriterAt(m) => WriterAt(m)'
    BY <1>u DEF WriterAt
  <1> QED
    BY <1>3, <1>4, <1>5, <1>u, WriterMoves

(* The text has the numbers of all Buffers; without arguments that can be
   encoded there are no Buffers either. *)
LEMMA TextStream ==
    ASSUME StreamInv, ParserInv', WriteText
    PROVE  StreamInv'
  <1> DEFINE p == sent[Len(sent)]
             f == enc'.frame
             m == f.mark
  <1>u. /\ UNCHANGED <<script, broken, lock, net, num, twin, sent, dec, got>>
        /\ pc["serve"] = "attach" /\ pc' = [pc EXCEPT !["serve"] = "close"]
        /\ enc.pkt.good => Len(enc.places) = Len(enc.pkt.bufs)
    BY DEF WriteText, wire, decoder, Go
  <1>t. /\ Len(sent) \in Nat /\ Len(sent) \in 1..Len(sent) /\ enc.pkt = p /\ p \in Written
        /\ enc.todo \in Seq(Buffers) /\ enc.bufs \in Seq(Buffers) /\ enc.places \in Seq(Nat)
        /\ p.bufs \in Seq(Buffers)
        /\ DOMAIN enc = {"pkt", "todo", "bufs", "places", "frame"}
    BY <1>u, UnderWay
  <1>c. pc'["serve"] = "close"
    BY <1>u DEF StreamInv, ParserInv, ParserTypeOK, Writers
  <1>1. /\ enc'.pkt = enc.pkt /\ enc'.bufs = IF p.good THEN enc.bufs ELSE <<>>
        /\ f = IF p.good
               THEN [kind |-> "TEXT", tokens |-> WritePacket(p), text |-> p.text,
                     places |-> enc.places, mark |-> Mark(Len(sent), 0, enc.bufs)]
               ELSE [kind |-> "TEXT", tokens |-> <<>>, text |-> <<>>,
                     places |-> <<>>, mark |-> Mark(Len(sent), 0, <<>>)]
    BY <1>t DEF WriteText
  <1>2. /\ sent # <<>> /\ enc.frame = Nil
        /\ enc.bufs \o enc.todo \in Visits(p)
        /\ enc.places # <<>> => enc.todo = <<>>
        /\ Placed(p, enc.bufs, enc.places)
    BY <1>u DEF StreamInv, PacketOK
  <1>3. f # Nil
    BY <1>c, NilIsNoMessage DEF ParserInv, EncoderOK
  <1>4. /\ f.kind = "TEXT" /\ m.packet = Len(sent) /\ m.index = 0
        /\ m.order = enc'.bufs
    BY <1>1 DEF Mark
  <1>5. p.good => enc.bufs \in Visits(p)
    <2> SUFFICES ASSUME p.good PROVE enc.bufs \in Visits(p)
      OBVIOUS
    <2>1. enc.todo = <<>>
      <3>1. CASE enc.places = <<>>
        <4>1. Len(p.bufs) = 0
          BY <1>t, <1>u, <3>1
        <4>2. Len(enc.bufs \o enc.todo) = 0
          BY <1>2, <1>t, <4>1, VisitsTyped
        <4> QED
          BY <1>t, <4>2
      <3> QED
        BY <1>2, <3>1
    <2>2. enc.bufs \o <<>> = enc.bufs
      BY <1>t
    <2> QED
      BY <1>2, <2>1, <2>2
  <1>6. FrameOK(f)
    <2>1. m.packet \in 1..Len(sent) /\ sent[m.packet] = p
      BY <1>4, <1>t
    <2>2. m.index \in 0..Len(m.order)
      <3>1. enc'.bufs \in Seq(Buffers)
        BY <1>1, <1>t
      <3> QED
        BY <1>4, <3>1
    <2>3. IF p.good THEN m.order \in Visits(p) ELSE m.order = <<>>
      BY <1>1, <1>4, <1>5
    <2>4. f.tokens = IF p.good THEN WritePacket(p) ELSE <<>>
      BY <1>1
    <2>5. p.good => /\ f.text = p.text /\ Len(f.places) = Len(p.bufs)
                    /\ Placed(p, m.order, f.places)
      <3>1. p.good => f.text = p.text /\ f.places = enc.places /\ m.order = enc.bufs
        BY <1>1, <1>4
      <3> QED
        BY <1>2, <1>t, <1>u, <3>1
    <2> HIDE DEF p, f
    <2> QED
      BY <1>4, <2>1, <2>2, <2>3, <2>4, <2>5 DEF FrameOK, TextOK
  <1>7. PacketOK'
    <2>1. /\ sent' # <<>> /\ enc'.pkt = sent'[Len(sent')] /\ enc'.frame # Nil
      BY <1>1, <1>2, <1>3, <1>t, <1>u
    <2>2. /\ m.packet = Len(sent') /\ Len(enc'.bufs) = Len(m.order) - m.index
          /\ \A i \in DOMAIN enc'.bufs : enc'.bufs[i] = m.order[m.index + i]
      <3>1. enc'.bufs \in Seq(Buffers)
        BY <1>1, <1>t
      <3> QED
        BY <1>4, <1>u, <3>1
    <2>3. FrameOK(enc.frame)'
      <3>1. PICK g : g = enc'.frame
        OBVIOUS
      <3>2. FrameOK(g)
        BY <1>6, <3>1
      <3> QED
        BY <1>u, <3>1, <3>2, EncFrameOK
    <2> QED
      BY <1>c, <2>1, <2>2, <2>3 DEF PacketOK
  <1>8. TwinOK'
    BY <1>u DEF StreamInv, TwinOK
  <1>9. ASSUME NEW n \in Marks, WriterAt(n)
        PROVE  WriterAt(n)'
    <2>1. Whole(n) /\ n.packet + 1 = Len(sent)
      BY <1>2, <1>9, <1>u DEF WriterAt
    <2>2. Succeeds(n, m)
      BY <1>4, <2>1 DEF Succeeds
    <2> QED
      BY <1>3, <1>c, <2>2 DEF WriterAt
  <1> QED
    BY <1>7, <1>8, <1>9, <1>u, WriterMoves

(* What is on its way is made of frames that are right. *)
LEMMA NetFrameOK ==
    ASSUME NEW i, NEW g, FrameOK(g), g = net'[i], UNCHANGED sent
    PROVE  FrameOK(net[i])'
  <1>1. TextOK(g) => TextOK(net[i])'
    BY DEF TextOK, Placed, Shaken
  <1> QED
    BY <1>1 DEF FrameOK

(* A frame is taken from the front, or put at the end. *)
LEMMA NetMoves ==
    ASSUME StreamInv, ParserInv', UNCHANGED sent, broken' = broken,
           \/ net' = net
           \/ net # <<>> /\ net' = Tail(net)
           \/ ~broken /\ net' = Append(net, [kind |-> "PONG"])
           \/ ~broken /\ enc.frame \in Messages /\ FrameOK(enc.frame) /\ net' = Append(net, enc.frame)
    PROVE  NetOK'
  <1>n. net \in Seq(Frames) /\ (broken => net = <<>>)
        /\ \A i \in DOMAIN net : net[i].kind # "PONG" => FrameOK(net[i])
    BY DEF StreamInv, ParserInv, ParserTypeOK, NetOK
  <1>1. broken' => net' = <<>>
    BY <1>n
  <1>2. ASSUME NEW i \in DOMAIN net', net'[i].kind # "PONG"
        PROVE  FrameOK(net[i])'
    <2> SUFFICES FrameOK(net'[i])
      <3>1. PICK g : g = net'[i]
        OBVIOUS
      <3>2. FrameOK(g)
        BY <3>1
      <3> QED
        BY <3>1, <3>2, NetFrameOK
    <2>1. CASE net' = net
      BY <1>2, <1>n, <2>1
    <2>2. CASE net # <<>> /\ net' = Tail(net)
      <3>1. i + 1 \in DOMAIN net /\ net'[i] = net[i + 1]
        BY <1>2, <1>n, <2>2
      <3> QED
        BY <1>2, <1>n, <3>1
    <2>3. ASSUME NEW f \in Frames, net' = Append(net, f)
          PROVE  (i \in DOMAIN net /\ net'[i] = net[i]) \/ net'[i] = f
      BY <1>2, <1>n, <2>3
    <2>4. CASE net' = Append(net, [kind |-> "PONG"])
      <3>1. [kind |-> "PONG"] \in Frames
        BY DEF Frames
      <3> QED
        BY <1>2, <1>n, <2>3, <2>4, <3>1
    <2>5. CASE enc.frame \in Messages /\ FrameOK(enc.frame) /\ net' = Append(net, enc.frame)
      <3>1. enc.frame \in Frames
        BY <2>5 DEF Frames
      <3> QED
        BY <1>2, <1>n, <2>3, <2>5, <3>1
    <2> QED
      BY <2>1, <2>2, <2>4, <2>5
  <1> QED
    BY <1>1, <1>2 DEF NetOK

(* A frame is sent, or lost with the connection. *)
LEMMA CloseMoves ==
    ASSUME StreamInv, ParserInv', UNCHANGED <<script, broken, twin, sent, dec, got>>,
           PacketOK', NetOK',
           \A m \in Marks : \A n \in Marks : ~broken /\ WriterAt(n) =>
              \E k \in Marks : WriterAt(k)' /\ (Linked(m, net, n) => Linked(m, net', k))
    PROVE  StreamInv'
  <1>1. TwinOK'
    BY DEF StreamInv, TwinOK
  <1>2. got' \in Seq(Receipts) /\ ReaderStaysInSync'
    BY ReaderStays DEF StreamInv
  <1>3. StreamOK'
    <2>1. PICK m \in Marks :
             /\ ReaderAt(m)
             /\ ~broken => \E n \in Marks : WriterAt(n) /\ (Reading /\ ~dec.stale => Linked(m, net, n))
      BY DEF StreamInv, StreamOK
    <2>2. m \in Marks' /\ ReaderAt(m)'
      BY <2>1, ReaderStays
    <2>3. ASSUME ~broken'
          PROVE  \E n \in Marks' : WriterAt(n)' /\ (Reading' /\ ~dec'.stale => Linked(m, net', n))
      <3>1. PICK n \in Marks : WriterAt(n) /\ (Reading /\ ~dec.stale => Linked(m, net, n))
        BY <2>1, <2>3
      <3>2. PICK k \in Marks : WriterAt(k)' /\ (Linked(m, net, n) => Linked(m, net', k))
        BY <2>3, <3>1
      <3>3. k \in Marks'
        BY ReaderStays
      <3> QED
        BY <3>1, <3>2, <3>3 DEF Reading
    <2> QED
      BY <2>2, <2>3 DEF StreamOK
  <1> QED
    BY <1>1, <1>2, <1>3 DEF StreamInv

(* A pong goes in between the frames of a packet and changes nothing. *)
LEMMA PongStream ==
    ASSUME StreamInv, ParserInv', CloseFrame("pong")
    PROVE  StreamInv'
  <1>1. /\ UNCHANGED <<script, broken, num, twin, sent, dec, got, enc>>
        /\ Sends([kind |-> "PONG"]) /\ pc' = [pc EXCEPT !["pong"] = "deadline"]
    BY DEF CloseFrame, decoder, Go
  <1>2. pc'["serve"] = pc["serve"]
    BY <1>1 DEF StreamInv, ParserInv, ParserTypeOK, Writers
  <1>3. PacketOK'
    BY <1>1, <1>2, PacketStays
  <1>4. NetOK'
    BY <1>1, NetMoves DEF Sends
  <1>5. ASSUME NEW m \in Marks, NEW n \in Marks, ~broken, WriterAt(n)
        PROVE  WriterAt(n)' /\ (Linked(m, net, n) => Linked(m, net', n))
    <2>1. WriterAt(n)'
      BY <1>1, <1>2, <1>5 DEF WriterAt
    <2>2. [kind |-> "PONG"] \in Frames /\ net \in Seq(Frames)
          /\ net' = Append(net, [kind |-> "PONG"])
      BY <1>1, <1>5 DEF Frames, Sends, StreamInv, ParserInv, ParserTypeOK
    <2> QED
      BY <2>1, <2>2, LinkedPong
  <1> QED
    BY <1>1, <1>3, <1>4, <1>5, CloseMoves

(* serve sends the frame that follows the one it sent last. *)
LEMMA ServeCloseStream ==
    ASSUME StreamInv, ParserInv', CloseFrame("serve")
    PROVE  StreamInv'
  <1>p. PICK f, m : f = enc.frame /\ m = enc.frame.mark
    OBVIOUS
  <1>u. /\ UNCHANGED <<script, broken, num, twin, sent, dec, got>>
        /\ Sends(f) /\ pc["serve"] = "close"
        /\ IF enc.bufs = <<>>
           THEN pc' = [pc EXCEPT !["serve"] = "idle"] /\ enc' = NoPacket
           ELSE /\ pc' = [pc EXCEPT !["serve"] = "lock"]
                /\ enc' = [enc EXCEPT !.frame = [kind |-> "BINARY", data |-> Data[Head(enc.bufs)],
                                                 mark |-> [m EXCEPT !.index = @ + 1]],
                                      !.bufs = Tail(@)]
    BY <1>p DEF CloseFrame, decoder, Go
  <1>t. /\ Len(sent) \in Nat /\ enc.pkt = sent[Len(sent)] /\ enc.pkt \in Written
        /\ enc.bufs \in Seq(Buffers) /\ Len(enc.bufs) \in Nat
        /\ DOMAIN enc = {"pkt", "todo", "bufs", "places", "frame"}
    BY <1>u, UnderWay
  <1>f. f \in Messages /\ f \in Frames /\ f # Nil
    BY <1>p, <1>u, NilIsNoMessage DEF StreamInv, ParserInv, EncoderOK, Frames
  <1>1. /\ sent # <<>> /\ FrameOK(f) /\ m.packet = Len(sent)
        /\ Len(enc.bufs) = Len(m.order) - m.index
        /\ \A i \in DOMAIN enc.bufs : enc.bufs[i] = m.order[m.index + i]
    BY <1>f, <1>p, <1>u DEF StreamInv, PacketOK
  <1>m. m \in Marks /\ m \in MarkType /\ f.kind # "PONG"
    BY <1>1, <1>f, <1>p, FrameMark DEF StreamInv, FrameOK
  <1>2. NetOK'
    BY <1>1, <1>f, <1>p, <1>u, NetMoves DEF Sends
  <1>o. Len(m.order) \in Nat /\ m.index \in Nat /\ m.order \in Seq(Buffers) /\ m.packet \in Nat
    BY <1>m DEF MarkType
  <1>3. PacketOK' /\ (~broken => WriterAt(m)')
    <2>1. CASE enc.bufs = <<>>
      <3>1. pc'["serve"] = "idle"
        BY <1>u, <2>1 DEF StreamInv, ParserInv, ParserTypeOK, Writers
      <3>2. Whole(m)
        BY <1>1, <1>o, <2>1 DEF Whole
      <3> QED
        BY <1>1, <1>u, <3>1, <3>2 DEF PacketOK, WriterAt
    <2>2. CASE enc.bufs # <<>>
      <3> DEFINE g == [kind |-> "BINARY", data |-> Data[Head(enc.bufs)],
                       mark |-> [m EXCEPT !.index = @ + 1]]
      <3>1. pc'["serve"] = "lock"
        BY <1>u, <2>2 DEF StreamInv, ParserInv, ParserTypeOK, Writers
      <3>2. enc'.pkt = enc.pkt /\ enc'.frame = g /\ enc'.bufs = Tail(enc.bufs)
        BY <1>t, <1>u, <2>2
      <3>3. /\ g.kind = "BINARY" /\ g.data = Data[Head(enc.bufs)] /\ g.mark.index = m.index + 1
            /\ g.mark.packet = m.packet /\ g.mark.order = m.order
            /\ g.mark = [m EXCEPT !.index = @ + 1]
        BY <1>m DEF MarkType
      <3>4. g \in Messages
        <4>1. [m EXCEPT !.index = @ + 1] \in MarkType
          BY <1>m DEF MarkType
        <4>2. Head(enc.bufs) \in Buffers
          BY <1>t, <2>2
        <4> QED
          BY <4>1, <4>2 DEF Messages
      <3>5. Head(enc.bufs) = m.order[m.index + 1] /\ Len(enc.bufs) >= 1
        BY <1>1, <1>t, <2>2
      <3> HIDE DEF g
      <3>6. FrameOK(g)
        <4>1. m.index + 1 \in 0..Len(m.order) /\ m.index + 1 > 0
          BY <1>1, <1>o, <1>t, <3>5
        <4>2. /\ m.packet \in 1..Len(sent)
              /\ IF sent[m.packet].good THEN m.order \in Visits(sent[m.packet]) ELSE m.order = <<>>
          BY <1>1, <1>p DEF FrameOK
        <4> QED
          BY <3>3, <3>5, <4>1, <4>2 DEF FrameOK
      <3>7. FrameOK(enc.frame)'
        BY <1>u, <3>2, <3>6, EncFrameOK
      <3>8. /\ Len(enc'.bufs) = Len(g.mark.order) - g.mark.index
            /\ \A i \in DOMAIN enc'.bufs : enc'.bufs[i] = g.mark.order[g.mark.index + i]
        <4>1. Len(enc'.bufs) = Len(enc.bufs) - 1 /\ DOMAIN enc'.bufs = 1..(Len(enc.bufs) - 1)
              /\ DOMAIN enc.bufs = 1..Len(enc.bufs) /\ Len(enc.bufs) \in Nat
              /\ \A i \in 1..(Len(enc.bufs) - 1) : enc'.bufs[i] = enc.bufs[i + 1]
          BY <1>t, <2>2, <3>2
        <4>2. Len(enc'.bufs) = Len(g.mark.order) - g.mark.index
          BY <1>1, <1>o, <3>3, <4>1
        <4>3. ASSUME NEW i \in 1..(Len(enc.bufs) - 1)
              PROVE  enc'.bufs[i] = g.mark.order[g.mark.index + i]
          <5>a. i + 1 \in DOMAIN enc.bufs
            BY <4>1, <4>3
          <5>b. i \in Nat /\ m.index \in Nat
            BY <1>o, <4>1, <4>3
          <5>c. m.index + (i + 1) = (m.index + 1) + i
            BY <5>b
          <5>1. i + 1 \in DOMAIN enc.bufs /\ m.index + (i + 1) = (m.index + 1) + i
            BY <5>a, <5>c
          <5>2. enc.bufs[i + 1] = m.order[m.index + (i + 1)]
            BY <1>1, <5>1
          <5> QED
            BY <3>3, <4>1, <5>1, <5>2
        <4> QED
          BY <4>1, <4>2, <4>3
      <3>n. g # Nil
        BY <3>4, NilIsNoMessage
      <3>9. PacketOK'
        BY <1>1, <1>t, <1>u, <3>1, <3>2, <3>3, <3>7, <3>8, <3>n DEF PacketOK
      <3>10. Succeeds(m, g.mark)
        <4>1. ~Whole(m)
          BY <1>1, <1>o, <1>t, <3>5 DEF Whole
        <4> QED
          BY <3>3, <4>1 DEF Succeeds
      <3>11. WriterAt(m)'
        BY <3>1, <3>2, <3>10, <3>n DEF WriterAt
      <3> QED
        BY <3>9, <3>11
    <2> QED
      BY <2>1, <2>2
  <1>4. ASSUME NEW x \in Marks, NEW n \in Marks, ~broken, WriterAt(n)
        PROVE  WriterAt(m)' /\ (Linked(x, net, n) => Linked(x, net', m))
    <2>1. Succeeds(n, m)
      BY <1>4, <1>f, <1>p, <1>u DEF WriterAt
    <2>2. net \in Seq(Frames) /\ net' = Append(net, f)
      BY <1>4, <1>u DEF Sends, StreamInv, ParserInv, ParserTypeOK
    <2> QED
      BY <1>3, <1>4, <1>f, <1>m, <1>p, <2>1, <2>2, LinkedAppend
  <1> QED
    BY <1>2, <1>3, <1>4, <1>m, <1>u, CloseMoves

(* With the connection everything is lost that was on its way. *)
LEMMA BreakStream ==
    ASSUME StreamInv, ParserInv', Break
    PROVE  StreamInv'
  <1>1. /\ UNCHANGED <<script, lock, pc, enc, num, twin, sent, dec, got>>
        /\ broken' = TRUE /\ net' = <<>>
    BY DEF Break, encoder, decoder
  <1>2. PacketOK'
    BY <1>1, PacketStays
  <1>3. TwinOK'
    BY <1>1 DEF StreamInv, TwinOK
  <1>4. NetOK'
    BY <1>1 DEF NetOK
  <1>5. got' \in Seq(Receipts) /\ ReaderStaysInSync'
    BY <1>1, ReaderStays DEF StreamInv
  <1>6. StreamOK'
    <2>1. PICK m \in Marks : ReaderAt(m)
      BY DEF StreamInv, StreamOK
    <2>2. m \in Marks' /\ ReaderAt(m)'
      BY <1>1, <2>1, ReaderStays
    <2> QED
      BY <1>1, <2>2 DEF StreamOK
  <1> QED
    BY <1>2, <1>3, <1>4, <1>5, <1>6 DEF StreamInv

(* What holds of a value holds of the variable that has it. *)
LEMMA ShakenAt ==
    ASSUME NEW i, NEW q, q = sent'[i]
    PROVE  Shaken(sent[i])' <=> Shaken(q)'
  BY DEF Shaken

LEMMA ArrivedAt ==
    ASSUME NEW i, NEW q, NEW r, q = sent'[i], r = (got[Place(i)])'
    PROVE  Arrived(got[Place(i)], sent[i])' <=> Arrived(r, q)'
  <1>1. Shaken(sent[i])' <=> Shaken(q)'
    BY ShakenAt
  <1>2. Cut(sent[i])' <=> Cut(q)'
    BY DEF Cut
  <1> QED
    BY <1>1, <1>2 DEF Arrived

LEMMA DecFrameOK ==
    ASSUME NEW g, FrameOK(g)', g = dec'.frame
    PROVE  FrameOK(dec.frame)'
  <1>1. TextOK(g)' => TextOK(dec.frame)'
    <2>1. Shaken(sent[g.mark.packet])' <=> Shaken(sent[dec.frame.mark.packet])'
      BY DEF Shaken
    <2> QED
      BY <2>1 DEF TextOK, Placed
  <1> QED
    BY <1>1 DEF FrameOK

(* Another packet is written: what holds of the packets before it still does. *)
LEMMA SentGrows ==
    ASSUME ParserInv, NEW p \in Written, sent' = Append(sent, p), UNCHANGED script
    PROVE  /\ Len(sent') = Len(sent) + 1 /\ sent'[Len(sent) + 1] = p
           /\ \A i \in 1..Len(sent) : sent'[i] = sent[i]
           /\ ToSet(sent) \subseteq ToSet(sent') /\ p \in ToSet(sent')
           /\ \A q : Shaken(q) => Shaken(q)'
           /\ \A q : Cut(q)' <=> Cut(q)
           /\ Marks \subseteq Marks'
           /\ \A f : FrameOK(f) => FrameOK(f)'
  <1>1. /\ Len(sent) \in Nat /\ sent \in Seq(Written)
    BY SentTyped
  <1>2. /\ Len(sent') = Len(sent) + 1 /\ sent'[Len(sent) + 1] = p
        /\ \A i \in 1..Len(sent) : sent'[i] = sent[i]
        /\ DOMAIN sent = 1..Len(sent) /\ DOMAIN sent' = 1..(Len(sent) + 1)
    BY <1>1
  <1>3. ToSet(sent) \subseteq ToSet(sent') /\ p \in ToSet(sent')
    BY <1>1, <1>2 DEF ToSet
  <1>4. \A q : Shaken(q) => Shaken(q)'
    BY <1>3 DEF Shaken
  <1>5. Marks \subseteq Marks'
    <2>1. DOMAIN sent \subseteq DOMAIN sent' /\ \A i \in DOMAIN sent : sent'[i] = sent[i]
      BY <1>1, <1>2
    <2> QED
      BY <2>1 DEF Marks
  <1>6. ASSUME NEW f, FrameOK(f)
        PROVE  FrameOK(f)'
    <2>1. f.mark.packet \in 1..Len(sent) /\ f.mark.packet \in 1..Len(sent')
          /\ sent'[f.mark.packet] = sent[f.mark.packet]
      BY <1>1, <1>2, <1>6 DEF FrameOK
    <2>2. PICK q : q = sent[f.mark.packet]
      OBVIOUS
    <2>3. TextOK(f) => TextOK(f)'
      <3>1. Shaken(q) => Shaken(sent[f.mark.packet])'
        <4>1. Shaken(q) => Shaken(q)'
          BY <1>4
        <4>2. q = sent'[f.mark.packet]
          BY <2>1, <2>2
        <4> QED
          BY <4>1, <4>2, ShakenAt
      <3>2. Placed(q, f.mark.order, f.places) => Placed(sent[f.mark.packet], f.mark.order, f.places)'
        BY <2>1, <2>2, <3>1 DEF Placed
      <3> QED
        BY <2>1, <2>2, <3>2 DEF TextOK
    <2> QED
      BY <1>6, <2>1, <2>3 DEF FrameOK
  <1>7. \A q : Cut(q)' <=> Cut(q)
    BY DEF Cut, mode
  <1> QED
    BY <1>2, <1>3, <1>4, <1>5, <1>6, <1>7

(* A packet that is written later leaves what was handled. *)
LEMMA HandledGrows ==
    ASSUME ParserInv, NEW p \in Written, sent' = Append(sent, p), UNCHANGED <<script, got>>,
           NEW k \in 0..Len(sent), HandledUpTo(k)
    PROVE  HandledUpTo(k)'
  <1>1. /\ \A i \in 1..Len(sent) : sent'[i] = sent[i]
        /\ \A q : Shaken(q) => Shaken(q)'
        /\ \A q : Cut(q)' <=> Cut(q)
    BY SentGrows
  <1>n. Len(sent) \in Nat /\ k \in Nat
    BY SentTyped
  <1>2. ASSUME NEW i \in 0..k
        PROVE  ToHandle(i)' = ToHandle(i) /\ Place(i)' = Place(i)
    <2>1. \A j \in 1..i : sent'[j] = sent[j]
      BY <1>1, <1>2, <1>n
    <2>2. ToHandle(i)' = ToHandle(i)
      BY <2>1 DEF ToHandle, Addressed
    <2> QED
      BY <2>2 DEF Place
  <1>3. Len(got') = Place(k)'
    BY <1>2, <1>n DEF HandledUpTo
  <1>4. ASSUME NEW i \in ToHandle(k)'
        PROVE  Arrived(got[Place(i)], sent[i])'
    <2>1. i \in ToHandle(k) /\ i \in 1..k /\ i \in 0..k /\ i \in 1..Len(sent) /\ k \in 0..k
      BY <1>2, <1>4, <1>n DEF ToHandle
    <2>2. Arrived(got[Place(i)], sent[i])
      BY <2>1 DEF HandledUpTo
    <2>3. PICK r, q : r = got[Place(i)] /\ q = sent[i]
      OBVIOUS
    <2>4. r = (got[Place(i)])' /\ q = sent'[i]
      BY <1>1, <1>2, <2>1, <2>3
    <2>5. Arrived(r, q)'
      BY <1>1, <2>2, <2>3 DEF Arrived
    <2> QED
      BY <2>4, <2>5, ArrivedAt
  <1> QED
    BY <1>3, <1>4 DEF HandledUpTo

(* A packet that is written later leaves the reader where it is. *)
LEMMA ReaderGrows ==
    ASSUME ParserInv, NEW p \in Written, sent' = Append(sent, p),
           UNCHANGED <<script, dec, got>>, NEW m \in Marks, ReaderAt(m)
    PROVE  ReaderAt(m)'
  <1>1. m \in MarkType /\ m.packet \in 0..Len(sent) /\ Len(sent) \in Nat
    BY MarksTyped, SentTyped
  <1>2. /\ \A i \in 1..Len(sent) : sent'[i] = sent[i]
        /\ ToSet(sent) \subseteq ToSet(sent')
        /\ \A q : Cut(q)' <=> Cut(q)
        /\ \A f : FrameOK(f) => FrameOK(f)'
    BY SentGrows
  <1>3. HandledUpTo(m.packet) => HandledUpTo(m.packet)'
    BY <1>1, HandledGrows
  <1>4. ASSUME AtHeader(m) PROVE AtHeader(m)'
    <2>1. m.packet > 0 => sent'[m.packet] = sent[m.packet]
      BY <1>1, <1>2
    <2>2. (\E q \in ToSet(sent) : Cut(q)) => (\E q \in ToSet(sent') : Cut(q)')
      BY <1>2
    <2> QED
      BY <1>3, <1>4, <2>1, <2>2 DEF AtHeader
  <1>5. ASSUME AtBuffers(m) PROVE AtBuffers(m)'
    <2>1. m.packet \in 1..Len(sent) /\ m.packet - 1 \in 0..Len(sent)
      BY <1>1, <1>5 DEF AtBuffers
    <2>2. HandledUpTo(m.packet - 1)'
      <3>1. HandledUpTo(m.packet - 1)
        BY <1>5 DEF AtBuffers
      <3> QED
        BY <2>1, <3>1, HandledGrows
    <2>3. sent'[m.packet] = sent[m.packet]
      BY <1>2, <2>1
    <2>4. FrameOK(dec.frame)'
      <3>1. PICK f : f = dec.frame
        OBVIOUS
      <3>2. FrameOK(f)'
        BY <1>2, <1>5, <3>1 DEF AtBuffers
      <3> QED
        BY <3>1, <3>2, DecFrameOK
    <2>5. Cut(sent[m.packet])' <=> Cut(sent[m.packet])
      BY <2>3 DEF Cut, mode
    <2> QED
      BY <1>5, <2>1, <2>2, <2>3, <2>4, <2>5 DEF AtBuffers
  <1> QED
    BY <1>3, <1>4, <1>5 DEF ReaderAt

(* serve starts with a packet once all frames of the last one are closed. *)
LEMMA EncodeStream ==
    ASSUME StreamInv, ParserInv', Encode
    PROVE  StreamInv'
  <1> DEFINE next == script.packets[Len(sent) + 1]
  <1>1. PICK p, mine, other :
          /\ p = next /\ mine \in Visits(p) /\ other \in Visits(p)
          /\ enc' = [NoPacket EXCEPT !.pkt = p, !.todo = mine]
          /\ twin' = twin \o When(p.cast, Numbered(other))
          /\ sent' = Append(sent, p)
    BY DEF Encode
  <1>u. /\ UNCHANGED <<script, broken, lock, net, num, dec, got>>
        /\ pc["serve"] = "idle" /\ pc' = [pc EXCEPT !["serve"] = "lock"]
        /\ Len(sent) < Len(script.packets)
    BY DEF Encode, wire, decoder, Go
  <1>i. ParserInv /\ pc'["serve"] = "lock"
    BY <1>u DEF StreamInv, ParserInv, ParserTypeOK, Writers
  <1>2. p \in Written /\ Len(sent) \in Nat
    <2>1. Len(sent) \in Nat
      BY <1>i, SentTyped
    <2>2. script.packets \in Seq(PacketType) /\ script \in Scripts
      BY <1>i, ScriptWritten DEF ParserInv, ParserTypeOK
    <2>3. Len(sent) + 1 \in 1..Len(script.packets)
      BY <1>u, <2>1, <2>2
    <2> QED
      BY <1>1, <2>1, <2>2, <2>3, ScriptWritten
  <1> HIDE DEF next
  <1>g. /\ Len(sent') = Len(sent) + 1 /\ sent'[Len(sent) + 1] = p
        /\ \A i \in 1..Len(sent) : sent'[i] = sent[i]
        /\ ToSet(sent) \subseteq ToSet(sent') /\ p \in ToSet(sent')
        /\ \A q : Shaken(q) => Shaken(q)'
        /\ \A q : Cut(q)' <=> Cut(q)
        /\ Marks \subseteq Marks'
        /\ \A f : FrameOK(f) => FrameOK(f)'
    BY <1>1, <1>2, <1>i, <1>u, SentGrows
  <1>e. /\ enc'.pkt = p /\ enc'.todo = mine /\ enc'.bufs = <<>> /\ enc'.places = <<>>
        /\ enc'.frame = Nil
    BY <1>1 DEF NoPacket
  <1>3. PacketOK'
    <2>1. <<>> \o mine = mine /\ Len(p.bufs) \in Nat
      BY <1>1, <1>2, VisitsTyped, WrittenPacket
    <2>2. sent' # <<>> /\ sent'[Len(sent')] = p
      BY <1>2, <1>g
    <2>3. enc'.bufs \o enc'.todo \in Visits(p) /\ Len(enc'.places) <= Len(p.bufs)
      <3>1. enc'.bufs \o enc'.todo = mine
        BY <1>e, <2>1
      <3>2. Len(enc'.places) = 0
        BY <1>e
      <3>3. enc'.bufs \o enc'.todo \in Visits(p)
        BY <1>1, <3>1
      <3>4. Len(enc'.places) <= Len(p.bufs)
        BY <2>1, <3>2
      <3> QED
        BY <3>3, <3>4
    <2>4. DOMAIN enc'.bufs = {} /\ DOMAIN enc'.places = {}
      BY <1>e
    <2> QED
      BY <1>e, <1>i, <2>2, <2>3, <2>4 DEF PacketOK, Placed
  <1>4. TwinOK'
    <2>t. twin \in Seq(Buffers \X Nat)
      BY <1>i DEF ParserInv, ParserTypeOK
    <2>1. ASSUME NEW i \in DOMAIN twin
          PROVE  \E q \in ToSet(sent') : /\ q.cast /\ twin[i][1] \in ToSet(q.bufs)
                                         /\ twin[i][2] \in Numbers(q, twin[i][1])
      BY <1>g, <2>1 DEF StreamInv, TwinOK
    <2>2. CASE ~p.cast
      <3>1. twin' = twin
        BY <1>1, <2>2, <2>t DEF When
      <3> QED
        BY <2>1, <3>1 DEF TwinOK
    <2>3. CASE p.cast
      <3> DEFINE new == Numbered(other)
      <3>1. new \in Seq(Buffers \X Nat) /\ DOMAIN new = DOMAIN other
            /\ other \in Seq(Buffers) /\ Len(other) = Len(p.bufs)
        BY <1>1, <1>2, VisitsTyped DEF Numbered
      <3>2. ASSUME NEW i \in DOMAIN new
            PROVE  new[i][1] \in ToSet(p.bufs) /\ new[i][2] \in Numbers(p, new[i][1])
        <4>1. new[i] = <<other[i], i - 1>> /\ i \in 1..Len(other)
          BY <3>1, <3>2 DEF Numbered
        <4>2. other[i] \in ToSet(p.bufs)
          BY <1>1, <1>2, <4>1, VisitsTyped
        <4>3. i \in DOMAIN p.bufs
          BY <1>2, <3>1, <4>1, WrittenPacket
        <4>4. i - 1 \in Numbers(p, other[i])
          BY <1>1, <4>3 DEF Numbers
        <4> QED
          BY <4>1, <4>2, <4>4
      <3> HIDE DEF new
      <3>3. twin' = twin \o new
        BY <1>1, <2>3 DEF When, new
      <3> SUFFICES ASSUME NEW i \in DOMAIN twin'
                   PROVE  \E q \in ToSet(sent') : /\ q.cast /\ twin'[i][1] \in ToSet(q.bufs)
                                                  /\ twin'[i][2] \in Numbers(q, twin'[i][1])
        BY DEF TwinOK
      <3>4. \/ i \in DOMAIN twin /\ twin'[i] = twin[i]
            \/ \E j \in DOMAIN new : twin'[i] = new[j]
        <4>1. i \in 1..(Len(twin) + Len(new)) /\ Len(twin) \in Nat /\ Len(new) \in Nat
          BY <2>t, <3>1, <3>3
        <4>2. CASE i <= Len(twin)
          BY <2>t, <3>1, <3>3, <4>1, <4>2
        <4>3. CASE i > Len(twin)
          <5>1. i - Len(twin) \in DOMAIN new /\ twin'[i] = new[i - Len(twin)]
            BY <2>t, <3>1, <3>3, <4>1, <4>3
          <5> QED
            BY <5>1
        <4> QED
          BY <4>1, <4>2, <4>3
      <3>5. CASE i \in DOMAIN twin /\ twin'[i] = twin[i]
        BY <2>1, <3>5
      <3>6. ASSUME NEW j \in DOMAIN new, twin'[i] = new[j]
            PROVE  \E q \in ToSet(sent') : /\ q.cast /\ twin'[i][1] \in ToSet(q.bufs)
                                           /\ twin'[i][2] \in Numbers(q, twin'[i][1])
        BY <1>g, <2>3, <3>2, <3>6
      <3> QED
        BY <3>4, <3>5, <3>6
    <2> QED
      BY <2>2, <2>3
  <1>5. NetOK'
    <2>1. ASSUME NEW i \in DOMAIN net', net'[i].kind # "PONG"
          PROVE  FrameOK(net[i])'
      <3>1. PICK f : f = net[i]
        OBVIOUS
      <3>2. FrameOK(f)'
        BY <1>g, <1>u, <2>1, <3>1 DEF StreamInv, NetOK
      <3>3. TextOK(f)' => TextOK(net[i])'
        BY <1>u, <3>1 DEF TextOK, Placed, Shaken
      <3> QED
        BY <1>u, <3>1, <3>2, <3>3 DEF FrameOK
    <2>2. broken' => net' = <<>>
      BY <1>u DEF StreamInv, NetOK
    <2> QED
      BY <2>1, <2>2 DEF NetOK
  <1>6. got' \in Seq(Receipts)
    BY <1>u DEF StreamInv
  <1>7. ReaderStaysInSync'
    <2>1. ReaderStaysInSync
      BY DEF StreamInv
    <2> QED
      BY <1>g, <1>u, <2>1 DEF ReaderStaysInSync
  <1>8. StreamOK'
    <2>1. PICK m \in Marks :
             /\ ReaderAt(m)
             /\ ~broken => \E n \in Marks : WriterAt(n) /\ (Reading /\ ~dec.stale => Linked(m, net, n))
      BY DEF StreamInv, StreamOK
    <2>2. m \in Marks' /\ ReaderAt(m)'
      BY <1>1, <1>2, <1>g, <1>i, <1>u, <2>1, ReaderGrows
    <2>3. ASSUME ~broken'
          PROVE  \E n \in Marks' : WriterAt(n)' /\ (Reading' /\ ~dec'.stale => Linked(m, net', n))
      <3>1. PICK n \in Marks : WriterAt(n) /\ (Reading /\ ~dec.stale => Linked(m, net, n))
        BY <1>u, <2>1, <2>3
      <3>2. Whole(n) /\ n.packet = Len(sent)
        BY <1>u, <3>1 DEF WriterAt
      <3>3. n \in Marks' /\ WriterAt(n)'
        BY <1>e, <1>g, <1>i, <3>1, <3>2 DEF WriterAt
      <3> QED
        BY <1>u, <3>1, <3>3 DEF Reading
    <2> QED
      BY <2>2, <2>3 DEF StreamOK
  <1> QED
    BY <1>3, <1>4, <1>5, <1>6, <1>7, <1>8 DEF StreamInv

(* At first nothing is sent and the reader is before the first packet. *)
LEMMA InitStream == CodecOK /\ Init => StreamInv
  <1> SUFFICES ASSUME CodecOK, Init PROVE StreamInv
    OBVIOUS
  <1>1. ParserInv
    BY InitInv
  <1>2. PacketOK /\ TwinOK /\ NetOK /\ got \in Seq(Receipts) /\ ReaderStaysInSync
    <2>1. pc["serve"] = "idle" /\ DOMAIN twin = {} /\ DOMAIN net = {} /\ net = <<>> /\ got = <<>>
          /\ dec.at = "header" /\ broken = FALSE
      BY DEF Init, Writers, NoHeader
    <2> QED
      BY <2>1 DEF PacketOK, TwinOK, NetOK, ReaderStaysInSync
  <1>3. StreamOK
    <2> DEFINE m == Mark(0, 0, <<>>)
    <2>1. m \in Marks /\ m.packet = 0 /\ Whole(m)
      BY DEF Marks, Mark, Whole
    <2>2. ToHandle(0) = {} /\ Place(0) = 0
      BY FS_EmptySet DEF ToHandle, Place
    <2>3. HandledUpTo(0)
      BY <2>2 DEF HandledUpTo, Init
    <2>4. ReaderAt(m)
      BY <2>1, <2>3 DEF ReaderAt, AtHeader, Init, NoHeader
    <2>5. WriterAt(m)
      BY <2>1 DEF WriterAt, Init, Writers
    <2>6. Linked(m, net, m)
      BY DEF Linked, Init
    <2> QED
      BY <2>1, <2>4, <2>5, <2>6 DEF StreamOK
  <1> QED
    BY <1>1, <1>2, <1>3 DEF StreamInv

-----------------------------------------------------------------------------
(* Steps of the reader *)

(* The reader moves on by a packet: the one that follows is handled, or has no
   handler. *)
LEMMA HandledNext ==
    ASSUME ParserInv, UNCHANGED <<script, sent>>, got \in Seq(Receipts),
           NEW k \in Nat, HandledUpTo(k),
           IF Addressed(sent[k + 1])
           THEN \E r \in Receipts : got' = Append(got, r) /\ Arrived(r, sent[k + 1])
           ELSE got' = got
    PROVE  HandledUpTo(k + 1)' /\ got' \in Seq(Receipts)
  <1>1. \A i : Place(i)' = Place(i) /\ ToHandle(i)' = ToHandle(i)
    BY DEF Place, ToHandle
  <1>2. /\ Place(k) \in Nat
        /\ Place(k + 1) = IF Addressed(sent[k + 1]) THEN Place(k) + 1 ELSE Place(k)
    BY PlaceFacts
  <1>3. Len(got) = Place(k) /\ \A i \in ToHandle(k) : Arrived(got[Place(i)], sent[i])
    BY DEF HandledUpTo
  <1>4. Len(got') = Place(k + 1)' /\ got' \in Seq(Receipts)
    <2>1. CASE Addressed(sent[k + 1])
      <3>1. PICK r \in Receipts : got' = Append(got, r)
        BY <2>1
      <3>2. Len(got') = Len(got) + 1 /\ got' \in Seq(Receipts)
        BY <3>1
      <3> QED
        BY <1>1, <1>2, <1>3, <2>1, <3>2
    <2>2. CASE ~Addressed(sent[k + 1])
      BY <1>1, <1>2, <1>3, <2>2
    <2> QED
      BY <2>1, <2>2
  <1>5. ASSUME NEW i \in ToHandle(k + 1)
        PROVE  Arrived(got[Place(i)], sent[i])'
    <2>1. i \in 1..(k + 1) /\ Addressed(sent[i])
      BY <1>5 DEF ToHandle
    <2>2. PICK q, x : q = sent[i] /\ x = got'[Place(i)]
      OBVIOUS
    <2>3. Arrived(x, q)
      <3>1. CASE i = k + 1
        <4>1. PICK r \in Receipts : got' = Append(got, r) /\ Arrived(r, sent[k + 1])
          BY <2>1, <3>1
        <4>2. got'[Len(got) + 1] = r
          BY <4>1
        <4> QED
          BY <1>2, <1>3, <2>1, <2>2, <3>1, <4>1, <4>2
      <3>2. CASE i # k + 1
        <4>1. i \in ToHandle(k) /\ i \in 0..k /\ i \in Nat
          BY <2>1, <3>2 DEF ToHandle
        <4>2. Place(i) <= Place(k) /\ Place(i) > 0 /\ Place(i) \in Nat
          BY <4>1, PlaceGrows, PlaceFacts
        <4>3. got'[Place(i)] = got[Place(i)]
          <5>1. Place(i) \in 1..Len(got)
            BY <1>2, <1>3, <4>2
          <5>2. CASE Addressed(sent[k + 1])
            BY <5>1, <5>2
          <5> QED
            BY <5>2
        <4> QED
          BY <1>3, <2>2, <4>1, <4>3
      <3> QED
        BY <3>1, <3>2
    <2>4. Arrived(x, q)'
      BY <2>3, HandledStays
    <2>5. q = sent'[i] /\ x = (got[Place(i)])'
      BY <1>1, <2>2
    <2> QED
      BY <2>4, <2>5, ArrivedAt
  <1> QED
    BY <1>1, <1>4, <1>5 DEF HandledUpTo

(* A step of the reader leaves the writers alone. *)
LEMMA ReaderMoves ==
    ASSUME StreamInv, ParserInv', UNCHANGED <<script, broken, pc, enc, num, twin, sent>>,
           net' = net \/ (net # <<>> /\ net' = Tail(net)),
           got' \in Seq(Receipts), ReaderStaysInSync',
           NEW m \in Marks, ReaderAt(m)',
           ~broken => \E n \in Marks :
              WriterAt(n) /\ (Reading' /\ ~dec'.stale => Linked(m, net', n))
    PROVE  StreamInv'
  <1>1. PacketOK'
    BY PacketStays
  <1>2. TwinOK'
    BY DEF StreamInv, TwinOK
  <1>3. NetOK'
    BY NetMoves
  <1>4. Marks' = Marks
    BY FrameStays
  <1>5. ASSUME NEW n, WriterAt(n) PROVE WriterAt(n)'
    BY <1>5 DEF WriterAt
  <1>6. StreamOK'
    <2>1. ASSUME ~broken'
          PROVE  \E n \in Marks' : WriterAt(n)' /\ (Reading' /\ ~dec'.stale => Linked(m, net', n))
      <3>1. PICK n \in Marks : WriterAt(n) /\ (Reading' /\ ~dec'.stale => Linked(m, net', n))
        BY <2>1
      <3> QED
        BY <1>4, <1>5, <3>1
    <2> QED
      BY <1>4, <2>1 DEF StreamOK
  <1> QED
    BY <1>1, <1>2, <1>3, <1>6 DEF StreamInv

(* The reader has ended: what it was reading is not handled. *)
LEMMA EndStream ==
    ASSUME StreamInv, ParserInv', UNCHANGED <<script, broken, pc, enc, num, twin, sent, got>>,
           net' = net \/ (net # <<>> /\ net' = Tail(net)),
           Reading, NEW why \in {"failed", "refused", "panic", "lost"}, End(why),
           ReaderStaysInSync'
    PROVE  StreamInv'
  <1>1. dec'.at = why
    <2>1. DOMAIN dec = DOMAIN NoHeader
      BY DEF StreamInv, ParserInv
    <2> QED
      BY <2>1 DEF End, NoHeader
  <1>2. PICK m \in Marks :
           /\ ReaderAt(m)
           /\ ~broken => \E n \in Marks : WriterAt(n)
    BY DEF StreamInv, StreamOK
  <1>3. m \in MarkType /\ m.packet \in 0..Len(sent) /\ Len(sent) \in Nat
    BY MarksTyped, SentTyped DEF StreamInv
  <1>4. PICK k \in 0..Len(sent) : HandledUpTo(k)
    <2>1. CASE dec.at = "header"
      BY <1>2, <1>3, <2>1 DEF ReaderAt, AtHeader
    <2>2. CASE dec.at = "buffers"
      <3>1. m.packet > 0 /\ HandledUpTo(m.packet - 1)
        BY <1>2, <2>2 DEF ReaderAt, AtBuffers
      <3>2. m.packet - 1 \in 0..Len(sent)
        BY <1>3, <3>1
      <3> QED
        BY <3>1, <3>2
    <2> QED
      BY <2>1, <2>2 DEF Reading
  <1>5. PICK x : x = Mark(k, 0, <<>>)
    OBVIOUS
  <1>6. x \in Marks /\ x.packet = k
    BY <1>4, <1>5, StartOf DEF StreamInv
  <1>7. HandledUpTo(x.packet)'
    <2>1. HandledUpTo(k)'
      BY <1>4, HandledStays
    <2> QED
      BY <1>6, <2>1
  <1>8. ReaderAt(x)'
    BY <1>1, <1>7 DEF ReaderAt
  <1>9. ~Reading'
    BY <1>1 DEF Reading
  <1>10. got' \in Seq(Receipts)
    BY DEF StreamInv
  <1> QED
    BY <1>2, <1>6, <1>8, <1>9, <1>10, ReaderMoves

(* The reader ends with the connection. *)
LEMMA LostStream ==
    ASSUME StreamInv, ParserInv', ReadFails
    PROVE  StreamInv'
  <1>1. /\ UNCHANGED <<script, broken, lock, net, pc, enc, num, twin, sent, got>>
        /\ Reading /\ End("lost")
    BY DEF ReadFails, wire, encoder, Reading
  <1>2. dec'.at = "lost"
    <2>1. DOMAIN dec = DOMAIN NoHeader
      BY DEF StreamInv, ParserInv
    <2> QED
      BY <1>1, <2>1 DEF End, NoHeader
  <1>3. ReaderStaysInSync'
    BY <1>2 DEF ReaderStaysInSync
  <1> QED
    BY <1>1, <1>3, EndStream

(* The reader passes over a pong. *)
LEMMA SkipStream ==
    ASSUME StreamInv, ParserInv', SkipPong
    PROVE  StreamInv'
  <1>1. /\ UNCHANGED <<script, broken, lock, pc, enc, num, twin, sent, dec, got>>
        /\ ~dec.stale /\ net # <<>> /\ Head(net).kind = "PONG" /\ net' = Tail(net)
    BY DEF SkipPong, encoder, decoder, Frame, StaleFrame, Arrives, Take
  <1>2. PICK m \in Marks :
           /\ ReaderAt(m)
           /\ ~broken => \E n \in Marks : WriterAt(n) /\ (Reading /\ ~dec.stale => Linked(m, net, n))
    BY DEF StreamInv, StreamOK
  <1>3. net \in Seq(Frames)
    BY DEF StreamInv, ParserInv, ParserTypeOK
  <1>4. \A n : Linked(m, net, n) => Linked(m, net', n)
    BY <1>1, <1>3, LinkedPong
  <1>5. ReaderAt(m)' /\ ReaderStaysInSync' /\ got' \in Seq(Receipts)
    BY <1>1, <1>2, ReaderStays DEF StreamInv
  <1>6. Reading' <=> Reading
    BY <1>1 DEF Reading
  <1> QED
    BY <1>1, <1>2, <1>4, <1>5, <1>6, ReaderMoves

(* The frame that the reader takes follows the one that it read last. *)
LEMMA NextFrame ==
    ASSUME StreamInv, Reading, ~dec.stale, net # <<>>, NEW f, f = Head(net), f.kind # "PONG"
    PROVE  /\ f \in Messages /\ FrameOK(f) /\ f.mark \in Marks /\ f.mark \in MarkType
           /\ \E m \in Marks : \E n \in Marks :
                 /\ ReaderAt(m) /\ WriterAt(n)
                 /\ Succeeds(m, f.mark) /\ Linked(f.mark, Tail(net), n)
  <1>1. net \in Seq(Frames) /\ (broken => net = <<>>)
        /\ \A i \in DOMAIN net : net[i].kind # "PONG" => FrameOK(net[i])
    BY DEF StreamInv, ParserInv, ParserTypeOK, NetOK
  <1>2. 1 \in DOMAIN net /\ net[1] = f /\ f \in Frames
    BY <1>1
  <1>3. f \in Messages /\ FrameOK(f)
    BY <1>1, <1>2 DEF Frames
  <1>4. PICK m \in Marks : \E n \in Marks : ReaderAt(m) /\ WriterAt(n) /\ Linked(m, net, n)
    BY <1>1 DEF StreamInv, StreamOK
  <1>5. PICK n \in Marks : ReaderAt(m) /\ WriterAt(n) /\ Linked(m, net, n)
    BY <1>4
  <1>6. Succeeds(m, f.mark) /\ Linked(f.mark, Tail(net), n)
    BY <1>1, <1>5, LinkedTail
  <1> QED
    BY <1>3, <1>5, <1>6, FrameMark DEF StreamInv

(* The packet with the mark m is dealt with. *)
LEMMA DealtStream ==
    ASSUME StreamInv, ParserInv', UNCHANGED <<script, broken, pc, enc, num, twin, sent>>,
           net' = net \/ (net # <<>> /\ net' = Tail(net)),
           dec' = [NoHeader EXCEPT !.stale = dec.stale],
           NEW m \in Marks, m.packet > 0, HandledUpTo(m.packet - 1),
           IF Addressed(sent[m.packet])
           THEN \E r \in Receipts : got' = Append(got, r) /\ Arrived(r, sent[m.packet])
           ELSE got' = got,
           dec.stale => Cut(sent[m.packet]),
           ~dec.stale => \/ Whole(m)
                         \/ Skipped(sent[m.packet]),
           ~broken => \E n \in Marks : WriterAt(n) /\ (~dec.stale => Linked(m, net', n))
    PROVE  StreamInv'
  <1>1. m \in MarkType /\ m.packet \in 1..Len(sent) /\ Len(sent) \in Nat
    BY MarksTyped, SentTyped DEF StreamInv
  <1>2. PICK k \in Nat : k = m.packet - 1 /\ k + 1 = m.packet
    BY <1>1
  <1>3. HandledUpTo(m.packet)' /\ got' \in Seq(Receipts)
    <2>1. HandledUpTo(k) /\ got \in Seq(Receipts) /\ ParserInv
      BY <1>2 DEF StreamInv
    <2>2. HandledUpTo(k + 1)' /\ got' \in Seq(Receipts)
      BY <1>2, <2>1, HandledNext
    <2> QED
      BY <1>2, <2>2
  <1>4. dec'.at = "header" /\ dec'.bufs = <<>> /\ dec'.stale = dec.stale
    BY DEF NoHeader
  <1>5. dec'.stale => \E p \in ToSet(sent') : Cut(p)'
    <2>1. \A p : Cut(p)' <=> Cut(p)
      BY HandledStays
    <2>2. sent[m.packet] \in ToSet(sent)
      BY <1>1, SentTyped DEF StreamInv
    <2> QED
      BY <1>4, <2>1, <2>2
  <1>6. AtHeader(m)'
    BY <1>1, <1>3, <1>4, <1>5 DEF AtHeader
  <1>7. ReaderAt(m)' /\ ReaderStaysInSync'
    BY <1>4, <1>6 DEF ReaderAt, ReaderStaysInSync
  <1>8. ~broken => \E n \in Marks : WriterAt(n) /\ (Reading' /\ ~dec'.stale => Linked(m, net', n))
    BY <1>4
  <1> QED
    BY <1>3, <1>7, <1>8, ReaderMoves

(* detachBuffer: every Buffer has arrived, and each is put where it was. *)
LEMMA DetachStream ==
    ASSUME StreamInv, ParserInv', DetachBuffers
    PROVE  StreamInv'
  <1>u. /\ UNCHANGED <<script, broken, lock, net, pc, enc, num, twin, sent>>
        /\ dec.at = "buffers" /\ Len(dec.bufs) = dec.header.count
        /\ IF \A i \in DOMAIN dec.frame.places : dec.frame.places[i] < dec.header.count
           THEN Dispatched(Received(dec.header, dec.frame.text,
                                    [i \in DOMAIN dec.frame.places |-> dec.bufs[dec.frame.places[i] + 1]]))
           ELSE End("panic") /\ UNCHANGED got
    BY DEF DetachBuffers, wire, encoder
  <1>1. PICK m \in Marks :
           /\ AtBuffers(m)
           /\ ~broken => \E n \in Marks : WriterAt(n) /\ (~dec.stale => Linked(m, net, n))
    BY <1>u DEF StreamInv, StreamOK, Reading, ReaderAt
  <1>2. PICK p : p = sent[m.packet]
    OBVIOUS
  <1>3. /\ m \in MarkType /\ m.packet \in 1..Len(sent) /\ p \in Written /\ p \in ToSet(sent)
        /\ m.index \in Nat /\ m.order \in Seq(Buffers)
    <2>1. m \in MarkType /\ m.packet \in 0..Len(sent) /\ Len(sent) \in Nat /\ m.packet > 0
      BY <1>1, MarksTyped, SentTyped DEF StreamInv, AtBuffers
    <2>2. m.packet \in 1..Len(sent)
      BY <2>1
    <2> QED
      BY <1>2, <2>1, <2>2, SentTyped DEF StreamInv, MarkType
  <1>4. PICK f : f = dec.frame
    OBVIOUS
  <1>5. /\ p.good /\ p.type # "Connect" /\ (p.type = "Disconnect" \/ Addressed(p)) /\ HandledUpTo(m.packet - 1)
        /\ dec.header = Decoded[WritePacket(p)] /\ dec.header # Nil
        /\ f \in Messages /\ f.kind = "TEXT" /\ FrameOK(f) /\ f.mark = [m EXCEPT !.index = 0]
        /\ dec.bufs \in Seq(Seq(Bytes))
        /\ dec.stale \/ Len(dec.bufs) = m.index
        /\ ~Cut(p) => ~dec.stale /\ \A i \in DOMAIN dec.bufs : dec.bufs[i] = Data[m.order[i]]
    BY <1>1, <1>2, <1>4 DEF AtBuffers
  <1>6. f.mark.packet = m.packet /\ f.mark.order = m.order
    BY <1>3, <1>5 DEF MarkType
  <1>7. /\ m.order \in Visits(p) /\ f.text = p.text /\ Len(f.places) = Len(p.bufs)
        /\ Placed(p, m.order, f.places)
    <2>1. m.order \in Visits(p) /\ (f.kind = "TEXT" => TextOK(f))
      BY <1>2, <1>5, <1>6 DEF FrameOK
    <2> QED
      BY <1>2, <1>5, <1>6, <2>1 DEF TextOK
  <1>8. /\ f.text \in Seq(Bytes) /\ f.places \in Seq(Nat)
    BY <1>5 DEF Messages
  <1>9. /\ dec.header.type = TypeNumbers[p.type] /\ dec.header.count = Len(p.bufs)
        /\ dec.header.ns = p.ns /\ dec.header.query = FALSE
        /\ dec.header.needAck = p.needAck /\ dec.header.id = p.id
    BY <1>3, <1>5 DEF StreamInv, CodecOK, HeaderReads
  <1>10. Len(m.order) = Len(p.bufs) /\ Len(p.bufs) \in Nat /\ p.bufs \in Seq(Buffers)
         /\ p \in PacketType
    BY <1>3, <1>7, VisitsTyped, WrittenPacket
  <1>11. CASE \A i \in DOMAIN f.places : f.places[i] < dec.header.count
    <2> DEFINE b == [i \in DOMAIN f.places |-> dec.bufs[f.places[i] + 1]]
               r == Received(dec.header, f.text, b)
    <2>1. Dispatched(r)
      BY <1>4, <1>u, <1>11
    <2>2. \A i \in 1..Len(p.bufs) : f.places[i] \in Nat /\ f.places[i] + 1 \in 1..Len(dec.bufs)
      BY <1>7, <1>8, <1>9, <1>10, <1>11, <1>u
    <2>3. DOMAIN f.places = 1..Len(p.bufs) /\ DOMAIN p.bufs = 1..Len(p.bufs)
          /\ DOMAIN dec.bufs = 1..Len(dec.bufs)
      BY <1>5, <1>7, <1>8, <1>10
    <2>4. b \in Seq(Seq(Bytes))
      <3>1. \A i \in 1..Len(p.bufs) : dec.bufs[f.places[i] + 1] \in Seq(Bytes)
        BY <1>5, <2>2
      <3> QED
        BY <1>10, <2>3, <3>1
    <2>5. ASSUME ~Shaken(p), ~Cut(p)
          PROVE  b = [i \in DOMAIN p.bufs |-> Data[p.bufs[i]]]
      <3>1. ASSUME NEW i \in 1..Len(p.bufs)
            PROVE  dec.bufs[f.places[i] + 1] = Data[p.bufs[i]]
        <4>1. m.order[f.places[i] + 1] = p.bufs[i]
          BY <1>7, <2>3, <2>5, <3>1 DEF Placed, Leads
        <4>2. dec.bufs[f.places[i] + 1] = Data[m.order[f.places[i] + 1]]
          BY <1>5, <2>2, <2>3, <2>5, <3>1
        <4> QED
          BY <4>1, <4>2
      <3> QED
        BY <2>3, <3>1
    <2> HIDE DEF b
    <2>6. r \in Receipts /\ Arrived(r, p)
      <3>1. /\ r.type = TypeNumbers[p.type] /\ r.ns = p.ns /\ r.query = FALSE
            /\ r.needAck = p.needAck /\ r.id = p.id /\ r.text = p.text /\ r.buffers = b
            /\ r = [type |-> TypeNumbers[p.type], ns |-> p.ns, query |-> FALSE,
                    needAck |-> p.needAck, id |-> p.id, text |-> p.text, buffers |-> b]
        BY <1>7, <1>9 DEF Received
      <3>2. TypeNumbers[p.type] \in 0..3 /\ p.needAck \in BOOLEAN /\ p.id \in Nat
        BY <1>10 DEF PacketType, TypeNumbers
      <3>3. p.ns \in {q.ns : q \in Written} /\ p.text \in Seq(Bytes)
        BY <1>3, <1>7, <1>8
      <3> HIDE DEF r
      <3> QED
        BY <2>4, <2>5, <3>1, <3>2, <3>3 DEF Receipts, Arrived
    <2>7. ~dec.stale => Whole(m)
      BY <1>5, <1>9, <1>10, <1>u DEF Whole
    <2>8. /\ dec' = [NoHeader EXCEPT !.stale = dec.stale]
          /\ got' = IF Addressed(p) THEN Append(got, r) ELSE got
      <3>1. r.ns = p.ns
        BY <1>9 DEF Received
      <3> HIDE DEF r
      <3> QED
        BY <2>1, <3>1 DEF Dispatched, Handled, Dropped, Addressed
    <2> HIDE DEF r
    <2>9. IF Addressed(sent[m.packet])
          THEN \E x \in Receipts : got' = Append(got, x) /\ Arrived(x, sent[m.packet])
          ELSE got' = got
      BY <1>2, <2>6, <2>8
    <2>10. dec.stale => Cut(sent[m.packet])
      BY <1>2, <1>5
    <2>12. ~broken => \E n \in Marks : WriterAt(n) /\ (~dec.stale => Linked(m, net', n))
      BY <1>1, <1>u
    <2>13. m.packet > 0
      BY <1>3
    <2> QED
      BY <1>5, <1>u, <2>7, <2>8, <2>9, <2>10, <2>12, <2>13, DealtStream
  <1>12. CASE ~ \A i \in DOMAIN f.places : f.places[i] < dec.header.count
    <2>1. End("panic") /\ UNCHANGED got
      BY <1>4, <1>u, <1>12
    <2>2. Shaken(p)
      BY <1>7, <1>9, <1>10, <1>12 DEF Placed, Leads
    <2>3. dec'.at = "panic"
      <3>1. DOMAIN dec = DOMAIN NoHeader
        BY DEF StreamInv, ParserInv
      <3> QED
        BY <2>1, <3>1 DEF End, NoHeader
    <2>4. ReaderStaysInSync'
      <3>1. Shaken(p)' /\ p \in ToSet(sent')
        BY <1>3, <1>u, <2>2, FrameStays
      <3> QED
        BY <2>3, <3>1 DEF ReaderStaysInSync
    <2> QED
      BY <1>u, <2>1, <2>4, EndStream DEF Reading
  <1> QED
    BY <1>11, <1>12

(* The header fails for a reason. *)
LEMMA FailStream ==
    ASSUME StreamInv, ParserInv', UNCHANGED <<script, broken, pc, enc, num, twin, sent, got>>,
           net' = net \/ (net # <<>> /\ net' = Tail(net)),
           Reading, End("failed"), NEW p \in ToSet(sent),
           ~p.good \/ p.name # "plain" \/ Cut(p) \/ Skipped(p)
    PROVE  StreamInv'
  <1>1. dec'.at = "failed"
    <2>1. DOMAIN dec = DOMAIN NoHeader
      BY DEF StreamInv, ParserInv
    <2> QED
      BY <2>1 DEF End, NoHeader
  <1>2. Cut(p)' <=> Cut(p)
    BY HandledStays
  <1>3. ReaderStaysInSync'
    BY <1>1, <1>2 DEF ReaderStaysInSync, Skipped, Addressed
  <1> QED
    BY <1>3, EndStream

(* The header of a packet whose text the reader took. *)
LEMMA HeaderStream ==
    ASSUME StreamInv, ParserInv', UNCHANGED <<script, broken, pc, enc, num, twin, sent>>,
           dec.at = "header", ~dec.stale, net # <<>>, net' = Tail(net),
           NEW f \in Messages, f = Head(net), FrameOK(f), f.kind = "TEXT",
           NEW m \in Marks, AtHeader(m), Whole(m), f.mark \in Marks,
           f.mark.packet = m.packet + 1, f.mark.index = 0,
           NEW n \in Marks, WriterAt(n), Linked(f.mark, net', n),
           NEW p \in Written, p = sent[m.packet + 1], p.good,
           NEW header, header = Decoded[WritePacket(p)], header # Nil,
           \/ /\ header.type = 0
              /\ IF header.ns \in Known THEN Handled(Received(header, <<>>, <<>>))
                                        ELSE End("refused") /\ UNCHANGED got
           \/ header.type \in {2, 3} /\ header.ns \notin Known /\ Dropped
           \/ /\ header.type = 1 \/ (header.type \in {2, 3} /\ header.ns \in Known)
              /\ IF header.rest = <<>> THEN Dispatched(Received(header, <<>>, <<>>))
                 ELSE DecodeArgs(header)
    PROVE  StreamInv'
  <1>m. /\ m.packet \in Nat /\ m.packet + 1 \in 1..Len(sent) /\ p \in ToSet(sent)
        /\ f.mark \in MarkType /\ f.mark.packet > 0 /\ f.mark.packet - 1 = m.packet
    <2>1. m \in MarkType /\ m.packet \in 0..Len(sent) /\ Len(sent) \in Nat
      BY MarksTyped, SentTyped DEF StreamInv
    <2>2. f.mark \in MarkType /\ f.mark.packet \in 0..Len(sent)
      BY MarksTyped DEF StreamInv
    <2>3. m.packet \in Nat /\ m.packet + 1 \in 1..Len(sent)
      BY <2>1, <2>2
    <2>4. p \in ToSet(sent)
      BY <2>3, SentTyped DEF StreamInv
    <2>5. f.mark.packet > 0 /\ f.mark.packet - 1 = m.packet
      BY <2>3
    <2> QED
      BY <2>2, <2>3, <2>4, <2>5
  <1>h. /\ header.type = TypeNumbers[p.type] /\ header.count = Len(p.bufs)
        /\ header.ns = p.ns /\ header.query = FALSE
        /\ header.needAck = p.needAck /\ header.id = p.id
        /\ p.type = "Connect" => p.bufs = <<>>
        /\ \/ header.rest = <<>> /\ p.text = <<>> /\ p.bufs = <<>>
           \/ header.rest # <<>> /\ header.rest \in JsonEnds
    BY DEF StreamInv, CodecOK, HeaderReads
  <1>t. f.text = p.text /\ f.mark.order \in Visits(p)
    BY DEF FrameOK, TextOK
  <1>p. /\ p \in PacketType /\ p.bufs \in Seq(Buffers) /\ Len(p.bufs) \in Nat
        /\ Len(f.mark.order) = Len(p.bufs) /\ p.text \in Seq(Bytes)
    <2>1. p \in PacketType /\ p.bufs \in Seq(Buffers) /\ Len(p.bufs) \in Nat
      BY WrittenPacket
    <2> QED
      BY <1>t, <2>1, VisitsTyped DEF PacketType
  <1>k. /\ p.type \in {"Connect", "Disconnect", "Event", "Ack"}
        /\ header.type = 0 <=> p.type = "Connect"
        /\ header.type = 1 <=> p.type = "Disconnect"
        /\ header.type \in {2, 3} <=> p.type \in {"Event", "Ack"}
        /\ TypeNumbers[p.type] \in 0..3
    BY <1>h, <1>p DEF PacketType, TypeNumbers
  <1>u. HandledUpTo(m.packet) /\ dec.bufs = <<>> /\ DOMAIN dec = {"at", "header", "frame", "bufs", "stale"}
    BY DEF AtHeader, StreamInv, ParserInv, NoHeader
  <1>w. p.bufs = <<>> => Whole(f.mark)
    BY <1>p DEF Whole
  <1>1. ASSUME Handled(Received(header, <<>>, <<>>)), p.bufs = <<>>,
               p.type # "Connect" => p.text = <<>>, Addressed(p)
        PROVE  StreamInv'
    <2>1. PICK r : r = Received(header, <<>>, <<>>)
      OBVIOUS
    <2>2. r \in Receipts
      <3>1. /\ p.needAck \in BOOLEAN /\ p.id \in Nat
            /\ <<>> \in Seq(Bytes) /\ <<>> \in Seq(Seq(Bytes))
            /\ p.ns \in {q.ns : q \in Written}
        BY <1>p DEF PacketType
      <3> QED
        BY <1>h, <1>k, <2>1, <3>1 DEF Received, Receipts
    <2>3. Arrived(r, p)
      <3>1. [i \in DOMAIN p.bufs |-> Data[p.bufs[i]]] = <<>>
        BY <1>1
      <3> QED
        BY <1>1, <1>h, <2>1, <3>1 DEF Received, Arrived
    <2>4. dec' = [NoHeader EXCEPT !.stale = dec.stale] /\ got' = Append(got, r)
      BY <1>1, <2>1 DEF Handled
    <2>5. sent[f.mark.packet] = p
      OBVIOUS
    <2> QED
      BY <1>1, <1>m, <1>u, <1>w, <2>2, <2>3, <2>4, <2>5, DealtStream
  <1>2. CASE header.type = 0
    <2>1. CASE header.ns \in Known
      BY <1>1, <1>2, <1>h, <1>k, <2>1 DEF Addressed
    <2>2. CASE header.ns \notin Known
      <3>1. End("refused") /\ UNCHANGED got /\ Reading
        BY <1>2, <2>2 DEF Reading
      <3>2. dec'.at = "refused"
        BY <1>u, <3>1 DEF End
      <3>3. ReaderStaysInSync'
        BY <3>2 DEF ReaderStaysInSync
      <3> QED
        BY <3>1, <3>3, EndStream
    <2> QED
      BY <2>1, <2>2
  <1>d. ASSUME Dropped, ~Addressed(p), p.bufs = <<>> \/ Skipped(p)
        PROVE  StreamInv'
    <2>1. dec' = [NoHeader EXCEPT !.stale = dec.stale] /\ got' = got
      BY <1>d DEF Dropped
    <2>2. sent[f.mark.packet] = p
      OBVIOUS
    <2> QED
      BY <1>d, <1>m, <1>u, <1>w, <2>1, <2>2, DealtStream
  <1>3. CASE header.type \in {2, 3} /\ header.ns \notin Known
    <2>1. ~Addressed(p) /\ (p.bufs = <<>> \/ Skipped(p))
      BY <1>3, <1>h, <1>k DEF Addressed, Skipped
    <2>2. Dropped
      BY <1>3
    <2> QED
      BY <1>d, <2>1, <2>2
  <1>4. CASE header.type = 1 \/ (header.type \in {2, 3} /\ header.ns \in Known)
    <2>1. (p.type = "Disconnect" \/ Addressed(p)) /\ p.type # "Connect"
      BY <1>4, <1>h, <1>k DEF Addressed
    <2>2. CASE header.rest = <<>>
      <3>1. Dispatched(Received(header, <<>>, <<>>)) /\ p.bufs = <<>> /\ p.text = <<>>
        BY <1>4, <1>h, <2>2
      <3>2. Received(header, <<>>, <<>>).ns = p.ns
        BY <1>h DEF Received
      <3>3. CASE Addressed(p)
        <4>1. Handled(Received(header, <<>>, <<>>))
          BY <3>1, <3>2, <3>3 DEF Dispatched, Addressed
        <4> QED
          BY <1>1, <3>1, <3>3, <4>1
      <3>4. CASE ~Addressed(p)
        <4>1. Dropped
          BY <3>1, <3>2, <3>4 DEF Dispatched, Addressed
        <4> QED
          BY <1>d, <3>1, <3>4, <4>1
      <3> QED
        BY <3>3, <3>4
    <2>3. CASE header.rest # <<>>
      <3>1. header.rest \in JsonEnds /\ DecodeArgs(header)
        BY <1>4, <1>h, <2>3
      <3>2. Readable("TEXT", f.text) = Len(f.text)
        <4>1. FrameRead[FALSE][p.text] = Len(p.text)
          BY DEF StreamInv, CodecOK, DataReads
        <4>2. (mode = "base64" /\ "TEXT" = "BINARY") = FALSE
          OBVIOUS
        <4> QED
          BY <1>t, <4>1, <4>2 DEF Readable
      <3>3. Frame = f
        BY DEF Frame
      <3>4. dec' = [dec EXCEPT !.at = "buffers", !.header = header, !.frame = f] /\ got' = got
        BY <3>1, <3>2, <3>3 DEF DecodeArgs
      <3>5. /\ dec'.at = "buffers" /\ dec'.header = header /\ dec'.frame = f
            /\ dec'.bufs = <<>> /\ dec'.stale = dec.stale
        BY <1>u, <3>4
      <3>6. FrameOK(dec.frame)'
        <4>1. FrameOK(f)'
          BY FrameStays
        <4> QED
          BY <3>5, <4>1, DecFrameOK
      <3>7. HandledUpTo(f.mark.packet - 1)'
        <4>1. HandledUpTo(m.packet)'
          BY <1>u, <3>4, HandledStays
        <4> QED
          BY <1>m, <4>1
      <3>8. AtBuffers(f.mark)'
        <4>1. sent'[f.mark.packet] = p
          OBVIOUS
        <4>2. f.mark = [f.mark EXCEPT !.index = 0]
          BY <1>m DEF MarkType
        <4>3. <<>> \in Seq(Seq(Bytes)) /\ Len(<<>>) = f.mark.index
              /\ \A i \in DOMAIN <<>> : FALSE
          OBVIOUS
        <4>4. /\ dec'.bufs \in Seq(Seq(Bytes)) /\ Len(dec'.bufs) = f.mark.index
              /\ ~dec'.stale /\ \A i \in DOMAIN dec'.bufs : dec'.bufs[i] = Data[f.mark.order[i]]
          BY <3>5, <4>3
        <4>5. /\ p.good /\ p.type # "Connect" /\ (p.type = "Disconnect" \/ Addressed(p))
              /\ dec'.header = Decoded[WritePacket(p)] /\ dec'.header # Nil
              /\ dec'.frame \in Messages /\ dec'.frame.kind = "TEXT"
              /\ dec'.frame.mark = [f.mark EXCEPT !.index = 0]
          BY <2>1, <3>5, <4>2
        <4> QED
          BY <1>m, <3>6, <3>7, <4>1, <4>4, <4>5 DEF AtBuffers
      <3>9. ReaderAt(f.mark)' /\ ReaderStaysInSync' /\ got' \in Seq(Receipts)
        BY <3>4, <3>5, <3>8 DEF ReaderAt, ReaderStaysInSync, StreamInv
      <3> QED
        BY <3>9, ReaderMoves
    <2> QED
      BY <2>2, <2>3
  <1> QED
    BY <1>2, <1>3, <1>4

(* The frame that DecodeHeader takes is the text of the next packet, or there
   is a reason for it not to be. *)
LEMMA DecodeStream ==
    ASSUME StreamInv, ParserInv', DecodeHeader
    PROVE  StreamInv'
  <1>1. PICK header, f :
           /\ f = Frame /\ f.kind # "PONG"
           /\ header = IF f.kind = "TEXT" THEN Decoded[f.tokens] ELSE Nil
           /\ \/ header = Nil /\ End("failed") /\ UNCHANGED got
              \/ /\ header # Nil
                 /\ \/ /\ header.type = 0
                       /\ IF header.ns \in Known THEN Handled(Received(header, <<>>, <<>>))
                                                 ELSE End("refused") /\ UNCHANGED got
                    \/ header.type \in {2, 3} /\ header.ns \notin Known /\ Dropped
                    \/ /\ header.type = 1 \/ (header.type \in {2, 3} /\ header.ns \in Known)
                       /\ IF header.rest = <<>> THEN Dispatched(Received(header, <<>>, <<>>))
                          ELSE DecodeArgs(header)
    BY DEF DecodeHeader
  <1>u. /\ UNCHANGED <<script, broken, lock, pc, enc, num, twin, sent>>
        /\ dec.at = "header" /\ Reading /\ Arrives /\ Take
    BY DEF DecodeHeader, encoder, Reading
  <1>2. CASE dec.stale
    <2>1. header = Nil /\ net' = net
      BY <1>1, <1>2, <1>u DEF Frame, StaleFrame, Take
    <2>2. PICK p \in ToSet(sent) : Cut(p)
      BY <1>2, <1>u DEF StreamInv, StreamOK, ReaderAt, AtHeader
    <2> QED
      BY <1>1, <1>u, <2>1, <2>2, FailStream
  <1>3. CASE ~dec.stale
    <2>1. net # <<>> /\ f = Head(net) /\ net' = Tail(net)
      BY <1>1, <1>3, <1>u DEF Arrives, Frame, Take
    <2>2. /\ f \in Messages /\ FrameOK(f) /\ f.mark \in Marks /\ f.mark \in MarkType
          /\ \E m \in Marks : \E n \in Marks :
                /\ ReaderAt(m) /\ WriterAt(n)
                /\ Succeeds(m, f.mark) /\ Linked(f.mark, Tail(net), n)
      BY <1>1, <1>3, <1>u, <2>1, NextFrame
    <2>3. PICK m \in Marks, n \in Marks :
                /\ ReaderAt(m) /\ WriterAt(n)
                /\ Succeeds(m, f.mark) /\ Linked(f.mark, Tail(net), n)
      BY <2>2
    <2>4. AtHeader(m)
      BY <1>u, <2>3 DEF ReaderAt
    <2>5. m \in MarkType /\ m.packet \in 0..Len(sent) /\ Len(sent) \in Nat /\ m.index \in Nat
      BY MarksTyped, SentTyped DEF StreamInv, MarkType
    <2>6. CASE f.kind = "BINARY"
      <3>1. f.mark.index > 0 /\ header = Nil
        BY <1>1, <2>2, <2>6 DEF FrameOK
      <3>2. ~Whole(m)
        BY <2>3, <3>1 DEF Succeeds
      <3>3. m.packet > 0 /\ Skipped(sent[m.packet])
        BY <1>3, <2>4, <3>2 DEF AtHeader
      <3>4. sent[m.packet] \in ToSet(sent)
        <4>1. m.packet \in 1..Len(sent)
          BY <2>5, <3>3
        <4> QED
          BY <4>1, SentTyped DEF StreamInv
      <3> QED
        BY <1>1, <1>u, <2>1, <3>1, <3>3, <3>4, FailStream
    <2>7. CASE f.kind = "TEXT"
      <3>1. f.mark.index = 0 /\ f.mark.packet \in 1..Len(sent) /\ TextOK(f)
        BY <2>2, <2>7 DEF FrameOK
      <3>2. Whole(m) /\ f.mark.packet = m.packet + 1
        <4>1. ASSUME ~Whole(m) PROVE FALSE
          <5>1. f.mark = [m EXCEPT !.index = @ + 1]
            BY <2>3, <4>1 DEF Succeeds
          <5>2. f.mark.index = m.index + 1
            BY <2>5, <5>1 DEF MarkType
          <5> QED
            BY <2>5, <3>1, <5>2
        <4> QED
          BY <2>3, <4>1 DEF Succeeds
      <3>3. PICK p : p = sent[m.packet + 1]
        OBVIOUS
      <3>4. p \in Written /\ p \in ToSet(sent) /\ p = sent[f.mark.packet]
        BY <3>1, <3>2, <3>3, SentTyped DEF StreamInv
      <3>5. header = Decoded[f.tokens] /\ f.tokens = IF p.good THEN WritePacket(p) ELSE <<>>
        BY <1>1, <2>7, <3>1, <3>4 DEF TextOK
      <3>6. CASE header = Nil
        <4>1. ~p.good \/ p.name # "plain"
          BY <3>4, <3>5, <3>6 DEF StreamInv, CodecOK, HeaderReads
        <4> QED
          BY <1>1, <1>u, <2>1, <3>4, <3>6, <4>1, FailStream
      <3>7. CASE header # Nil
        <4>1. p.good
          <5>1. <<>> \in FrameTexts /\ DecodeText(<<>>) = Nil
            BY DEF FrameTexts, DecodeText
          <5> QED
            BY <3>5, <3>7, <5>1 DEF Decoded
        <4>2. header = Decoded[WritePacket(p)]
          BY <3>5, <4>1
        <4> QED
          BY <1>1, <1>3, <1>u, <2>1, <2>2, <2>3, <2>4, <2>7, <3>1, <3>2, <3>3, <3>4, <3>7,
             <4>1, <4>2, HeaderStream
      <3> QED
        BY <3>6, <3>7
    <2> QED
      BY <2>2, <2>6, <2>7 DEF Messages
  <1> QED
    BY <1>2, <1>3

(* What the reader has of a Buffer: all of it, unless it is cut. *)
LEMMA BufferReads ==
    ASSUME StreamInv, NEW data, NEW k, k = Readable("BINARY", data),
           data = <<>> \/ \E b \in Buffers : data = Data[b]
    PROVE  /\ k \in 0..Len(data) /\ SubSeq(data, 1, k) \in Seq(Bytes)
           /\ \A p \in Written : \A b \in ToSet(p.bufs) :
                 data = Data[b] /\ ~Cut(p)
                    => SubSeq(data, 1, k) = data /\ CloseIsClean(data, k) = {TRUE}
  <1>1. data \in Seq(Bytes) /\ Len(data) \in Nat /\ data \in {Data[b] : b \in Buffers} \cup {<<>>}
    <2>1. data \in Seq(Bytes)
      <3>1. CASE data = <<>>
        BY <3>1
      <3>2. CASE \E b \in Buffers : data = Data[b]
        BY <3>2, DataTyped
      <3> QED
        BY <3>1, <3>2
    <2> QED
      BY <2>1
  <1>m. mode \in {"websocket", "binary", "base64"}
    BY ScriptsTyped DEF StreamInv, ParserInv, ParserTypeOK, mode
  <1>r. k = IF mode = "websocket" THEN Len(data) ELSE FrameRead[mode = "base64"][data]
    <2>1. (mode = "base64" /\ "BINARY" = "BINARY") = (mode = "base64")
      OBVIOUS
    <2> QED
      BY <2>1 DEF Readable
  <1>b. /\ mode = "base64" => k = FrameRead[TRUE][data]
        /\ mode = "binary" => k = FrameRead[FALSE][data]
        /\ mode = "websocket" => k = Len(data)
    <2>1. mode = "base64" => (mode = "base64") = TRUE
      OBVIOUS
    <2>2. mode = "binary" => (mode = "base64") = FALSE
      OBVIOUS
    <2> QED
      BY <1>r, <2>1, <2>2
  <1>2. k \in 0..Len(data)
    <2>1. FrameRead[TRUE][data] \in 0..Len(data) /\ FrameRead[FALSE][data] \in 0..Len(data)
      BY <1>1 DEF StreamInv, CodecOK
    <2>2. Len(data) \in 0..Len(data)
      BY <1>1
    <2> QED
      BY <1>b, <1>m, <2>1, <2>2
  <1>3. SubSeq(data, 1, k) \in Seq(Bytes)
    BY <1>1, <1>2
  <1>4. ASSUME NEW p \in Written, NEW b \in ToSet(p.bufs), data = Data[b], ~Cut(p)
        PROVE  SubSeq(data, 1, k) = data /\ CloseIsClean(data, k) = {TRUE}
    <2>1. k = Len(data)
      BY <1>4, <1>b, <1>m DEF StreamInv, CodecOK, DataReads, Cut
    <2>2. SubSeq(data, 1, Len(data)) = data
      BY <1>1
    <2>3. CloseIsClean(data, k) = {TRUE}
      <3>1. ~(k < Len(data))
        BY <1>1, <2>1
      <3> QED
        BY <2>1, <3>1 DEF CloseIsClean
    <2> QED
      BY <2>1, <2>2, <2>3
  <1> QED
    BY <1>2, <1>3, <1>4

(* A frame for each Buffer: the one that the packet goes on with. *)
LEMMA BufferStream ==
    ASSUME StreamInv, ParserInv', ReadBuffer
    PROVE  StreamInv'
  <1>u. /\ UNCHANGED <<script, broken, lock, pc, enc, num, twin, sent, got>>
        /\ dec.at = "buffers" /\ Reading /\ Len(dec.bufs) < dec.header.count
        /\ Arrives /\ Take /\ Frame.kind # "PONG"
    BY DEF ReadBuffer, encoder, Reading
  <1>d. DOMAIN dec = {"at", "header", "frame", "bufs", "stale"}
    BY DEF StreamInv, ParserInv, NoHeader
  <1>1. ASSUME NEW m \in Marks, AtBuffers(m), NEW p, p = sent[m.packet]
        PROVE  /\ m \in MarkType /\ m.packet \in 1..Len(sent) /\ p \in Written
               /\ m.index \in Nat /\ m.order \in Visits(p) /\ m.order \in Seq(Buffers)
               /\ Len(m.order) = Len(p.bufs) /\ dec.header.count = Len(p.bufs)
               /\ Len(p.bufs) \in Nat /\ dec.bufs \in Seq(Seq(Bytes))
    <2>1. m \in MarkType /\ m.packet \in 0..Len(sent) /\ Len(sent) \in Nat /\ m.packet > 0
      BY <1>1, MarksTyped, SentTyped DEF StreamInv, AtBuffers
    <2>2. m.packet \in 1..Len(sent)
      BY <2>1
    <2>3. p \in Written /\ m.index \in Nat
      BY <1>1, <2>1, <2>2, SentTyped DEF StreamInv, MarkType
    <2>4. PICK f : f = dec.frame
      OBVIOUS
    <2>5. FrameOK(f) /\ f.mark = [m EXCEPT !.index = 0] /\ p.good
          /\ dec.header = Decoded[WritePacket(p)] /\ dec.header # Nil
          /\ dec.bufs \in Seq(Seq(Bytes))
      BY <1>1, <2>4 DEF AtBuffers
    <2>6. f.mark.packet = m.packet /\ f.mark.order = m.order
      BY <2>1, <2>5 DEF MarkType
    <2>7. m.order \in Visits(p)
      BY <1>1, <2>5, <2>6 DEF FrameOK
    <2>8. dec.header.count = Len(p.bufs)
      BY <2>3, <2>5 DEF StreamInv, CodecOK, HeaderReads
    <2> QED
      BY <2>1, <2>2, <2>3, <2>5, <2>7, <2>8, VisitsTyped, WrittenPacket
  <1>2. ASSUME NEW m \in Marks, AtBuffers(m), NEW x \in Marks,
               x = m \/ x = [m EXCEPT !.index = @ + 1],
               NEW s \in Seq(Bytes), NEW stale \in BOOLEAN,
               dec'.at = "buffers", dec'.header = dec.header, dec'.frame = dec.frame,
               dec'.bufs = Append(dec.bufs, s), dec'.stale = stale,
               ~stale => x.index = m.index + 1 /\ ~dec.stale,
               ~Cut(sent[m.packet]) => ~stale /\ s = Data[m.order[m.index + 1]]
        PROVE  ReaderAt(x)'
    <2>1. PICK p : p = sent[m.packet]
      OBVIOUS
    <2>2. /\ m \in MarkType /\ p \in Written /\ m.index \in Nat
          /\ dec.bufs \in Seq(Seq(Bytes))
      BY <1>1, <1>2, <2>1
    <2>3. x.packet = m.packet /\ x.order = m.order /\ [x EXCEPT !.index = 0] = [m EXCEPT !.index = 0]
      BY <1>2, <2>2 DEF MarkType
    <2>4. /\ m.packet > 0 /\ HandledUpTo(m.packet - 1)
          /\ p.good /\ p.type # "Connect" /\ (p.type = "Disconnect" \/ Addressed(p))
          /\ dec.header = Decoded[WritePacket(p)] /\ dec.header # Nil
          /\ dec.frame \in Messages /\ dec.frame.kind = "TEXT" /\ FrameOK(dec.frame)
          /\ dec.frame.mark = [m EXCEPT !.index = 0]
          /\ dec.stale \/ Len(dec.bufs) = m.index
          /\ ~Cut(p) => ~dec.stale /\ \A i \in DOMAIN dec.bufs : dec.bufs[i] = Data[m.order[i]]
      BY <1>2, <2>1 DEF AtBuffers
    <2>5. HandledUpTo(x.packet - 1)'
      <3>1. HandledUpTo(m.packet - 1)'
        BY <1>u, <2>4, HandledStays
      <3> QED
        BY <2>3, <3>1
    <2>6. FrameOK(dec.frame)'
      <3>1. PICK f : f = dec.frame
        OBVIOUS
      <3>2. FrameOK(f)'
        BY <1>u, <2>4, <3>1, FrameStays
      <3> QED
        BY <1>2, <3>1, <3>2, DecFrameOK
    <2>7. dec'.bufs \in Seq(Seq(Bytes)) /\ Len(dec'.bufs) = Len(dec.bufs) + 1
      BY <1>2, <2>2
    <2>8. dec'.stale \/ Len(dec'.bufs) = x.index
      BY <1>2, <2>4, <2>7
    <2>9. Cut(sent[x.packet])' <=> Cut(p)
      BY <1>u, <2>1, <2>3 DEF Cut, mode
    <2>10. ASSUME ~Cut(p), NEW i \in DOMAIN dec'.bufs
           PROVE  dec'.bufs[i] = Data[m.order[i]]
      <3>1. /\ i \in 1..(Len(dec.bufs) + 1) /\ Len(dec.bufs) = m.index
            /\ DOMAIN dec.bufs = 1..Len(dec.bufs)
        BY <1>2, <2>10, <2>2, <2>4, <2>7
      <3>2. CASE i = Len(dec.bufs) + 1
        <4>1. dec'.bufs[Len(dec.bufs) + 1] = s
          BY <1>2, <2>2
        <4> QED
          BY <1>2, <2>1, <2>10, <3>1, <3>2, <4>1
      <3>3. CASE i # Len(dec.bufs) + 1
        <4>1. i \in DOMAIN dec.bufs
          BY <2>2, <3>1, <3>3
        <4>2. dec'.bufs[i] = dec.bufs[i]
          BY <1>2, <2>2, <4>1
        <4> QED
          BY <2>10, <2>4, <4>1, <4>2
      <3> QED
        BY <3>2, <3>3
    <2>11. sent'[x.packet] = p
      BY <1>u, <2>1, <2>3
    <2>12. ~Cut(p) => ~dec'.stale /\ \A i \in DOMAIN dec'.bufs : dec'.bufs[i] = Data[x.order[i]]
      BY <1>2, <2>1, <2>3, <2>10
    <2>13. /\ dec'.header = Decoded[WritePacket(p)] /\ dec'.header # Nil
           /\ dec'.frame \in Messages /\ dec'.frame.kind = "TEXT"
           /\ dec'.frame.mark = [x EXCEPT !.index = 0]
      BY <1>2, <2>3, <2>4
    <2>14. AtBuffers(x)'
      BY <2>3, <2>4, <2>5, <2>6, <2>7, <2>8, <2>9, <2>11, <2>12, <2>13 DEF AtBuffers
    <2> QED
      BY <1>2, <2>14 DEF ReaderAt
  <1>3. got' \in Seq(Receipts) /\ (dec'.at = "buffers" => ReaderStaysInSync')
    BY <1>u DEF StreamInv, ReaderStaysInSync
  <1>4. ASSUME NEW data, data = Frame.data, NEW k, k = Readable("BINARY", data),
               NEW clean \in BOOLEAN,
               dec' = [dec EXCEPT !.bufs = Append(@, SubSeq(data, 1, k)), !.stale = @ \/ ~clean]
        PROVE  /\ dec'.at = "buffers" /\ dec'.header = dec.header /\ dec'.frame = dec.frame
               /\ dec'.bufs = Append(dec.bufs, SubSeq(data, 1, k))
               /\ dec'.stale = (dec.stale \/ ~clean)
    BY <1>4, <1>d, <1>u
  <1>5. CASE dec.stale
    <2>1. PICK m \in Marks : AtBuffers(m) /\ (~broken => \E n \in Marks : WriterAt(n))
      BY <1>u DEF StreamInv, StreamOK, ReaderAt
    <2>2. Frame.kind = "BINARY" /\ Frame.data = <<>> /\ net' = net
      BY <1>5, <1>u DEF Frame, StaleFrame, Take
    <2>k. PICK data, k : data = Frame.data /\ k = Readable("BINARY", data)
      OBVIOUS
    <2>c. PICK clean \in CloseIsClean(data, k) :
             dec' = [dec EXCEPT !.bufs = Append(@, SubSeq(data, 1, k)), !.stale = @ \/ ~clean]
      BY <2>2, <2>k DEF ReadBuffer
    <2>3. clean \in BOOLEAN
      BY <2>c DEF CloseIsClean
    <2>4. SubSeq(data, 1, k) \in Seq(Bytes)
      BY <2>2, <2>k, BufferReads
    <2>5. /\ dec'.at = "buffers" /\ dec'.header = dec.header /\ dec'.frame = dec.frame
          /\ dec'.bufs = Append(dec.bufs, SubSeq(data, 1, k)) /\ dec'.stale = TRUE
      <3>1. (dec.stale \/ ~clean) = TRUE
        BY <1>5
      <3> QED
        BY <1>4, <2>k, <2>c, <2>3, <3>1
    <2>6. Cut(sent[m.packet])
      BY <1>5, <2>1 DEF AtBuffers
    <2>7. ReaderAt(m)'
      BY <1>2, <2>1, <2>4, <2>5, <2>6
    <2> QED
      BY <1>3, <1>u, <2>1, <2>2, <2>5, <2>7, ReaderMoves
  <1>6. CASE ~dec.stale
    <2>1. PICK f : f = Frame
      OBVIOUS
    <2>2. net # <<>> /\ f = Head(net) /\ net' = Tail(net) /\ f.kind # "PONG"
      BY <1>6, <1>u, <2>1 DEF Arrives, Frame, Take
    <2>3. /\ f \in Messages /\ FrameOK(f) /\ f.mark \in Marks
          /\ \E m \in Marks : \E n \in Marks :
                /\ ReaderAt(m) /\ WriterAt(n)
                /\ Succeeds(m, f.mark) /\ Linked(f.mark, Tail(net), n)
      BY <1>6, <1>u, <2>2, NextFrame
    <2>4. PICK m \in Marks, n \in Marks :
                /\ ReaderAt(m) /\ WriterAt(n)
                /\ Succeeds(m, f.mark) /\ Linked(f.mark, Tail(net), n)
      BY <2>3
    <2>5. AtBuffers(m)
      BY <1>u, <2>4 DEF ReaderAt
    <2>6. PICK p : p = sent[m.packet]
      OBVIOUS
    <2>7. /\ m \in MarkType /\ m.packet \in 1..Len(sent) /\ p \in Written
          /\ m.index \in Nat /\ m.order \in Visits(p) /\ m.order \in Seq(Buffers)
          /\ Len(m.order) = Len(p.bufs) /\ dec.header.count = Len(p.bufs)
          /\ Len(p.bufs) \in Nat /\ dec.bufs \in Seq(Seq(Bytes))
      BY <1>1, <2>5, <2>6
    <2>8. Len(dec.bufs) = m.index /\ m.index + 1 \in 1..Len(m.order) /\ ~Whole(m)
      <3>1. Len(dec.bufs) = m.index
        BY <1>6, <2>5 DEF AtBuffers
      <3> QED
        BY <1>u, <2>7, <3>1 DEF Whole
    <2>9. /\ f.mark = [m EXCEPT !.index = @ + 1] /\ f.mark.index = m.index + 1
          /\ f.mark.order = m.order /\ f.mark.packet = m.packet
      <3>1. f.mark = [m EXCEPT !.index = @ + 1]
        BY <2>4, <2>8 DEF Succeeds
      <3> QED
        BY <2>7, <3>1 DEF MarkType
    <2>10. f.kind = "BINARY" /\ f.data = Data[m.order[m.index + 1]]
      BY <2>3, <2>7, <2>9 DEF FrameOK
    <2>11. PICK b : b = m.order[m.index + 1]
      OBVIOUS
    <2>12. b \in Buffers /\ b \in ToSet(p.bufs) /\ f.data = Data[b]
      BY <2>7, <2>8, <2>10, <2>11, VisitsTyped
    <2>13. PICK data, k : data = Frame.data /\ k = Readable("BINARY", data)
      OBVIOUS
    <2>d. data = Data[b] /\ Frame.kind = "BINARY"
      BY <2>1, <2>10, <2>12, <2>13
    <2>14. PICK clean \in CloseIsClean(data, k) :
              dec' = [dec EXCEPT !.bufs = Append(@, SubSeq(data, 1, k)), !.stale = @ \/ ~clean]
      <3>1. Frame.kind = "BINARY"
        BY <2>d
      <3> QED
        BY <2>13, <3>1 DEF ReadBuffer
    <2>15. clean \in BOOLEAN
      BY <2>14 DEF CloseIsClean
    <2>16. /\ SubSeq(data, 1, k) \in Seq(Bytes)
           /\ ~Cut(p) => SubSeq(data, 1, k) = data /\ clean = TRUE
      <3>1. /\ SubSeq(data, 1, k) \in Seq(Bytes)
            /\ ~Cut(p) => SubSeq(data, 1, k) = data /\ CloseIsClean(data, k) = {TRUE}
        BY <2>7, <2>12, <2>13, <2>d, BufferReads
      <3> QED
        BY <2>14, <3>1
    <2>17. /\ dec'.at = "buffers" /\ dec'.header = dec.header /\ dec'.frame = dec.frame
           /\ dec'.bufs = Append(dec.bufs, SubSeq(data, 1, k))
           /\ dec'.stale = (~clean)
      <3>1. (dec.stale \/ ~clean) = (~clean)
        BY <1>6
      <3>2. /\ dec'.at = "buffers" /\ dec'.header = dec.header /\ dec'.frame = dec.frame
            /\ dec'.bufs = Append(dec.bufs, SubSeq(data, 1, k))
            /\ dec'.stale = (dec.stale \/ ~clean)
        BY <1>d, <1>u, <2>14
      <3> QED
        BY <3>1, <3>2
    <2>18. PICK stale \in BOOLEAN : stale = (~clean)
      OBVIOUS
    <2>19. /\ ~stale => f.mark.index = m.index + 1 /\ ~dec.stale
           /\ ~Cut(sent[m.packet]) => ~stale /\ SubSeq(data, 1, k) = Data[m.order[m.index + 1]]
           /\ dec'.stale = stale
      BY <1>6, <2>6, <2>9, <2>11, <2>d, <2>16, <2>17, <2>18
    <2>20. ReaderAt(f.mark)'
      BY <1>2, <2>3, <2>5, <2>9, <2>16, <2>17, <2>19
    <2> QED
      BY <1>3, <1>u, <2>2, <2>3, <2>4, <2>17, <2>20, ReaderMoves
  <1> QED
    BY <1>5, <1>6

-----------------------------------------------------------------------------

(* Every step keeps the invariant. *)
LEMMA StepStream == StreamInv /\ [Next]_vars => StreamInv'
  <1> SUFFICES ASSUME StreamInv, [Next]_vars
               PROVE  StreamInv'
    OBVIOUS
  <1>1. ParserInv'
    BY StepInv DEF StreamInv
  <1>2. CASE UNCHANGED vars
    <2>1. UNCHANGED <<script, broken, lock, pc, enc, num, twin, net, dec, sent, got>>
      BY <1>2 DEF vars, wire, encoder, decoder
    <2>2. PacketOK'
      BY <2>1, PacketStays
    <2>3. TwinOK'
      BY <2>1 DEF StreamInv, TwinOK
    <2>4. \A n \in Marks : ~broken /\ WriterAt(n) => WriterAt(n)'
      BY <2>1 DEF WriterAt
    <2> QED
      BY <1>1, <2>1, <2>2, <2>3, <2>4, WriterMoves
  <1>3. CASE \E w \in Writers : CloseFrame(w)
    BY <1>1, <1>3, PongStream, ServeCloseStream DEF Writers
  <1>4. CASE Pong \/ SetWriteDeadline \/ \E w \in Writers : NextWriter(w) \/ FirstByte(w)
    BY <1>1, <1>4, LockStream
  <1>5. CASE ServeStep
    BY <1>1, <1>5, AttachStream, MarshalStream, TextStream DEF ServeStep
  <1>6. CASE ReadStep
    BY <1>1, <1>6, SkipStream, DecodeStream, BufferStream, DetachStream, LostStream DEF ReadStep
  <1> QED
    BY <1>1, <1>2, <1>3, <1>4, <1>5, <1>6, EncodeStream, TwinStream, BreakStream
    DEF Next, WriterStep

(* Where the header functions and the framing read each packet by itself as it was
   written (CodecOK), the frames on the wire are those of the packets, in a row
   from where the reader is to where the writer is, and the reader has handled
   what is before them. *)
THEOREM StreamInvariant == CodecOK /\ Spec => []StreamInv
  BY InitStream, StepStream, PTL DEF Spec

(* Where the reader is in the stream says what the handlers got. *)
LEMMA StreamArrives == StreamInv => PacketsArrive
  <1> SUFFICES ASSUME StreamInv PROVE PacketsArrive
    OBVIOUS
  <1>1. PICK m \in Marks : ReaderAt(m)
    BY DEF StreamInv, StreamOK
  <1>2. m \in MarkType /\ m.packet \in 0..Len(sent) /\ Len(sent) \in Nat
    BY MarksTyped, SentTyped DEF StreamInv
  <1>3. PICK k \in 0..Len(sent) : HandledUpTo(k)
    <2>1. CASE dec.at = "buffers"
      <3>1. m.packet > 0 /\ HandledUpTo(m.packet - 1)
        BY <1>1, <2>1 DEF ReaderAt, AtBuffers
      <3>2. m.packet - 1 \in 0..Len(sent)
        BY <1>2, <3>1
      <3> QED
        BY <3>1, <3>2
    <2>2. CASE dec.at # "buffers"
      BY <1>1, <1>2, <2>2 DEF ReaderAt, AtHeader
    <2> QED
      BY <2>1, <2>2
  <1>4. /\ Len(got) = Place(k) /\ k \in Nat
        /\ \A i \in ToHandle(k) : Arrived(got[Place(i)], sent[i])
    BY <1>2, <1>3 DEF HandledUpTo
  <1>5. Len(got) <= Place(Len(sent))
    BY <1>2, <1>4, PlaceGrows
  <1>6. ASSUME NEW i \in ToHandle(Len(sent)), Place(i) <= Len(got)
        PROVE  i \in ToHandle(k)
    <2>1. i \in 1..Len(sent) /\ Addressed(sent[i]) /\ i \in Nat
      BY <1>2, <1>6 DEF ToHandle
    <2>2. CASE i <= k
      BY <1>4, <2>1, <2>2 DEF ToHandle
    <2>3. CASE k < i
      <3>1. k \in 0..i
        BY <1>4, <2>1, <2>3
      <3>2. Place(k) < Place(i)
        BY <2>1, <2>3, <3>1, PlaceGrows
      <3>3. Place(k) \in Nat /\ Place(i) \in Nat
        BY <1>4, <2>1, PlaceFacts
      <3> QED
        BY <1>4, <1>6, <3>2, <3>3
    <2> QED
      BY <1>4, <2>1, <2>2, <2>3
  <1> QED
    BY <1>4, <1>5, <1>6 DEF PacketsArrive

(* The handlers of the peer are called for the packets that were written, in
   order, with none left out or changed, whatever the transport, the pongs in
   between and the order attachBuffer visits a map in (encoder.go:72-204,
   decoder.go:209-384); with the exemptions that PacketsArrive names. *)
THEOREM AllPacketsArrive == CodecOK /\ Spec => []PacketsArrive
  BY StreamInvariant, StreamArrives, PTL

(* The reader fails on a packet, and detachBuffer panics, only for the reasons
   that ReaderStaysInSync names: it never takes a frame of one packet for one of
   another (decoder.go:91-151, server.go:305-309). *)
THEOREM ReaderInSync == CodecOK /\ Spec => []ReaderStaysInSync
  <1>1. StreamInv => ReaderStaysInSync
    BY DEF StreamInv
  <1> QED
    BY <1>1, StreamInvariant, PTL
=============================================================================
