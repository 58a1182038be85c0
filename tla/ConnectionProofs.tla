-------------------------- MODULE ConnectionProofs --------------------------
(***************************************************************************)
(* Proofs about Connection, for any number of connections, senders and      *)
(* namespaces.  The invariant speaks of one connection at a time (ConnOK),  *)
(* and a step is one of one connection: it keeps that connection's ConnOK   *)
(* and does not touch what the others' is about.                            *)
(***************************************************************************)
EXTENDS Connection, TLAPS

(* Nobody is served, nobody has joined. *)
LEMMA ConnInit == Init => ConnInv
  <1> SUFFICES ASSUME Init
               PROVE  ConnInv
    OBVIOUS
  <1> USE RootIsNamespace DEF Roles, Served
  <1>1. pc \in [Conns -> [Roles -> Places]]
    BY DEF Init, Places
  <1>2. ConnTypeOK
    BY <1>1 DEF Init, ConnTypeOK, Places
  <1>3. ASSUME NEW c \in Conns
        PROVE  ConnOK(c)
    BY DEF Init, ConnOK, WhoIsWhere, RoomsFollow, OneCloser, OwnClose, Closing,
        Connecting, Serving
  <1> QED
    BY <1>2, <1>3 DEF ConnInv

(* The types, in the calls the goroutines of a connection share. *)
LEMMA CallType ==
    ASSUME ConnTypeOK, NEW c \in Conns, NEW r \in Roles,
           CallStep(c, r) \/ (r \in {"write", "error"} /\ LoopQuits(c, r))
    PROVE  ConnTypeOK'
  <1> USE RootIsNamespace
      DEF ConnTypeOK, Places, Roles, Served, Goto, Call, lockVars, closeVars,
          sendVars
  <1>1. CASE LockRooms(c, r)
    BY <1>1 DEF LockRooms
  <1>2. CASE Join(c, r)
    BY <1>2 DEF Join
  <1>3. CASE LeaveAll(c, r)
    BY <1>3 DEF LeaveAll
  <1>4. CASE Write(c, r)
    <2>1. CASE Goto(c, r, then[c][r])
      BY <1>4, <2>1 DEF Write
    <2>2. CASE pc' = [pc EXCEPT ![c][r] = then[c][r], ![c]["write"] = "encode"]
      <3> DEFINE given == [pc EXCEPT ![c][r] = then[c][r]]
      <3>1. given \in [Conns -> [Roles -> Places]]
        OBVIOUS
      <3>2. pc' = [given EXCEPT ![c]["write"] = "encode"]
        BY <2>2
      <3> HIDE DEF given
      <3>3. pc' \in [Conns -> [Roles -> Places]]
        BY <3>1, <3>2
      <3> HIDE DEF Places, Roles
      <3> QED
        BY <1>4, <3>3 DEF Write
    <2> QED
      BY <1>4, <2>1, <2>2 DEF Write
  <1>5. CASE OnError(c, r)
    <2>1. CASE Goto(c, r, then[c][r])
      BY <1>5, <2>1 DEF OnError
    <2>2. ASSUME NEW l \in {"loop", "get"},
                 pc' = [pc EXCEPT ![c][r] = then[c][r], ![c]["error"] = l]
          PROVE  ConnTypeOK'
      <3> DEFINE given == [pc EXCEPT ![c][r] = then[c][r]]
      <3>1. given \in [Conns -> [Roles -> Places]]
        OBVIOUS
      <3>2. pc' = [given EXCEPT ![c]["error"] = l]
        BY <2>2
      <3> HIDE DEF given
      <3>3. pc' \in [Conns -> [Roles -> Places]]
        BY <3>1, <3>2
      <3> HIDE DEF Places, Roles
      <3> QED
        BY <1>5, <3>3 DEF OnError
    <2> QED
      BY <1>5, <2>1, <2>2 DEF OnError
  <1>6. CASE CloseBegin(c, r)
    BY <1>6 DEF CloseBegin
  <1>7. CASE CloseOver(c, r)
    BY <1>7 DEF CloseOver, AfterClose
  <1>8. ASSUME NEW n \in Namespaces, CloseNamespace(c, r, n)
        PROVE  ConnTypeOK'
    BY <1>8 DEF CloseNamespace, Tell
  <1>9. CASE CloseEngine(c, r)
    BY <1>9 DEF CloseEngine
  <1>10. CASE CloseQuit(c, r)
    BY <1>10 DEF CloseQuit, AfterClose
  <1>11. CASE Remove(c, r)
    BY <1>11 DEF Remove
  <1>12. CASE LoopQuits(c, r)
    BY <1>12 DEF LoopQuits
  <1> QED
    BY <1>1, <1>2, <1>3, <1>4, <1>5, <1>6, <1>7, <1>8, <1>9, <1>10, <1>11,
       <1>12
    DEF CallStep

(* The types, in what a connection does of its own accord or for its client. *)
LEMMA ConnType ==
    ASSUME ConnTypeOK, NEW c \in Conns,
           \/ MainStep(c) \/ ReadStep(c) \/ Encode(c) \/ HandleError(c)
           \/ ClientStep(c) \/ AppCloses(c)
    PROVE  ConnTypeOK'
  <1> USE RootIsNamespace
      DEF ConnTypeOK, Places, Roles, Served, Goto, Call, lockVars, closeVars,
          sendVars
  <1>1. CASE Connect(c)
    BY <1>1 DEF Connect
  <1>2. CASE ConnectResult(c)
    <2>1. CASE Goto(c, "main", "close") /\ UNCHANGED then
      BY <1>2, <2>1 DEF ConnectResult
    <2>2. CASE Goto(c, "main", "connected") /\ UNCHANGED then
      BY <1>2, <2>2 DEF ConnectResult
    <2>3. CASE /\ UNCHANGED then
               /\ pc' = [pc EXCEPT ![c] = [r \in Roles |->
                           CASE r = "main" -> "done"
                             [] r \in Served -> "loop"
                             [] r = "app" -> pc[c][r]]]
      BY <1>2, <2>3 DEF ConnectResult
    <2> QED
      BY <1>2, <2>1, <2>2, <2>3 DEF ConnectResult
  <1>3. CASE ReadFails(c)
    BY <1>3 DEF ReadFails
  <1>4. CASE SetNamespace(c)
    BY <1>4 DEF SetNamespace
  <1>5. CASE DispatchConnect(c)
    <2>1. CASE Call(c, "read", "emit", "loop")
      BY <1>5, <2>1 DEF DispatchConnect
    <2>2. CASE Call(c, "read", "raise", "close")
      BY <1>5, <2>2 DEF DispatchConnect
    <2> QED
      BY <1>5, <2>1, <2>2 DEF DispatchConnect
  <1>6. CASE DeleteNamespace(c)
    BY <1>6 DEF DeleteNamespace
  <1>7. CASE DispatchDisconnect(c)
    BY <1>7 DEF DispatchDisconnect, Tell
  <1>8. CASE Encode(c)
    <2>1. CASE Call(c, "write", "raise", "loop")
      BY <1>8, <2>1 DEF Encode
    <2>2. CASE Goto(c, "write", "loop") /\ UNCHANGED then
      BY <1>8, <2>2 DEF Encode
    <2> QED
      BY <1>8, <2>1, <2>2 DEF Encode
  <1>9. CASE Break(c)
    BY <1>9 DEF Break
  <1>10. ASSUME NEW n \in Namespaces, ReadEvent(c, n)
        PROVE  ConnTypeOK'
    <2>1. CASE Call(c, "read", "emit", "loop")
      BY <1>10, <2>1 DEF ReadEvent
    <2>2. CASE Call(c, "read", "raise", "close")
      BY <1>10, <2>2 DEF ReadEvent
    <2> QED
      BY <1>10, <2>1, <2>2 DEF ReadEvent
  <1>11. ASSUME NEW n \in Namespaces, ReadConnect(c, n)
        PROVE  ConnTypeOK'
    <2>1. CASE Goto(c, "read", "dispatch") /\ UNCHANGED then
      BY <1>11, <2>1 DEF ReadConnect
    <2>2. CASE Goto(c, "read", "set") /\ UNCHANGED then
      BY <1>11, <2>2 DEF ReadConnect
    <2>3. CASE Call(c, "read", "raise", "loop")
      BY <1>11, <2>3 DEF ReadConnect
    <2>4. CASE Call(c, "read", "raise", "close")
      BY <1>11, <2>4 DEF ReadConnect
    <2> QED
      BY <1>11, <2>1, <2>2, <2>3, <2>4 DEF ReadConnect
  <1>12. ASSUME NEW n \in Namespaces, ReadDisconnect(c, n)
        PROVE  ConnTypeOK'
    <2>1. CASE Call(c, "read", "leave", "delete")
      BY <1>12, <2>1 DEF ReadDisconnect
    <2>2. CASE Call(c, "read", "raise", "close")
      BY <1>12, <2>2 DEF ReadDisconnect
    <2> QED
      BY <1>12, <2>1, <2>2 DEF ReadDisconnect
  <1>13. CASE AppCloses(c)
    BY <1>13 DEF AppCloses
  <1>14. CASE LockNamespaces(c)
    BY <1>14 DEF LockNamespaces
  <1>15. CASE HandleError(c)
    <2>1. CASE Goto(c, "error", "loop") /\ UNCHANGED then
      BY <1>15, <2>1 DEF HandleError
    <2>2. CASE Call(c, "error", "emit", "loop")
      BY <1>15, <2>2 DEF HandleError
    <2> QED
      BY <1>15, <2>1, <2>2 DEF HandleError
  <1> QED
    BY <1>1, <1>2, <1>3, <1>4, <1>5, <1>6, <1>7, <1>8, <1>9, <1>10, <1>11,
       <1>12, <1>13, <1>14, <1>15
    DEF MainStep, ReadStep, ClientStep

(* The types, in a broadcast. *)
LEMMA SendType ==
    ASSUME ConnTypeOK, NEW s \in Senders,
           SendStep(s) \/ \E n \in Namespaces : SendBegin(s, n)
    PROVE  ConnTypeOK'
  <1> USE RootIsNamespace
      DEF ConnTypeOK, Places, Roles, Served, Goto, Call, lockVars, closeVars,
          sendVars
  <1>1. CASE SendEnd(s)
    BY <1>1 DEF SendEnd
  <1>2. ASSUME NEW n \in Namespaces, SendBegin(s, n)
        PROVE  ConnTypeOK'
    BY <1>2 DEF SendBegin
  <1>3. ASSUME NEW c \in Conns, SendEmit(s, c)
        PROVE  ConnTypeOK'
    <2>1. CASE Goto(c, "write", "encode")
      BY <1>3, <2>1 DEF SendEmit
    <2>2. CASE UNCHANGED pc
      BY <1>3, <2>2 DEF SendEmit
    <2> QED
      BY <1>3, <2>1, <2>2 DEF SendEmit
  <1> QED
    BY <1>1, <1>2, <1>3
    DEF SendStep

(* Locking the rooms, joining and leaving them (broadcast.go).  The goroutine
   that joins has set the namespace before, so the rooms stay within the
   namespaces; Close leaves the rooms of the namespace it is at. *)
LEMMA RoomsOK ==
    ASSUME NEW c \in Conns, NEW r \in Roles, ConnTypeOK, ConnTypeOK', ConnOK(c),
           LockRooms(c, r) \/ Join(c, r) \/ LeaveAll(c, r)
    PROVE  ConnOK(c)'
  <1> USE RootIsNamespace DEF Goto, Call, Roles, Served, lockVars, closeVars,
          sendVars
  <1>1. WhoIsWhere(c)'
    BY DEF LockRooms, Join, LeaveAll, ConnTypeOK, WhoIsWhere, OneCloser,
        ConnOK, Closing, Connecting, Serving
  <1>2. RoomsFollow(c)'
    <2>1. CASE LockRooms(c, r)
      BY <2>1 DEF LockRooms, ConnTypeOK, WhoIsWhere, RoomsFollow, ConnOK,
          Closing, Connecting, Serving
    <2>2. CASE Join(c, r)
      BY <2>2 DEF Join, ConnTypeOK, WhoIsWhere, RoomsFollow, ConnOK, Closing,
          Connecting, Serving
    <2>3. CASE LeaveAll(c, r)
      BY <2>3 DEF LeaveAll, ConnTypeOK, WhoIsWhere, RoomsFollow, ConnOK,
          Closing, Connecting, Serving
    <2> QED
      BY <2>1, <2>2, <2>3
  <1>3. OneCloser(c)'
    BY DEF LockRooms, Join, LeaveAll, ConnTypeOK, WhoIsWhere, OneCloser,
        ConnOK, Closing, Connecting, Serving
  <1>4. (pc[c]["app"] = "loop" => OwnClose(c))'
    <2>1. CASE LockRooms(c, r)
      BY <2>1 DEF LockRooms, ConnTypeOK, WhoIsWhere, RoomsFollow, OneCloser,
          OwnClose, ConnOK, Closing, Connecting, Serving
    <2>2. CASE Join(c, r)
      BY <2>2 DEF Join, ConnTypeOK, WhoIsWhere, RoomsFollow, OneCloser,
          OwnClose, ConnOK, Closing, Connecting, Serving
    <2>3. CASE LeaveAll(c, r)
      BY <2>3 DEF LeaveAll, ConnTypeOK, WhoIsWhere, RoomsFollow, OneCloser,
          OwnClose, ConnOK, Closing, Connecting, Serving
    <2> QED
      BY <2>1, <2>2, <2>3
  <1> QED
    BY <1>1, <1>2, <1>3, <1>4 DEF ConnOK

(* Handing a packet or an error over, or finding that the connection quits. *)
LEMMA CallsOK ==
    ASSUME NEW c \in Conns, NEW r \in Roles, ConnTypeOK, ConnTypeOK', ConnOK(c),
           Write(c, r) \/ OnError(c, r)
    PROVE  ConnOK(c)'
  <1> USE RootIsNamespace DEF Goto, Call, Roles, Served, lockVars, closeVars,
          sendVars
  <1>1. WhoIsWhere(c)'
    BY DEF Write, OnError, ConnTypeOK, WhoIsWhere, OneCloser, ConnOK, Closing,
        Connecting, Serving
  <1>2. RoomsFollow(c)'
    BY DEF Write, OnError, ConnTypeOK, WhoIsWhere, RoomsFollow, ConnOK,
        Closing, Connecting, Serving
  <1>3. OneCloser(c)'
    BY DEF Write, OnError, ConnTypeOK, WhoIsWhere, OneCloser, ConnOK, Closing,
        Connecting, Serving
  <1>4. (pc[c]["app"] = "loop" => OwnClose(c))'
    BY DEF Write, OnError, ConnTypeOK, WhoIsWhere, RoomsFollow, OneCloser,
        OwnClose, ConnOK, Closing, Connecting, Serving
  <1> QED
    BY <1>1, <1>2, <1>3, <1>4 DEF ConnOK

(* Close (connection.go:58-75) and what is deferred after it. *)
LEMMA CloseOK ==
    ASSUME NEW c \in Conns, NEW r \in Roles, ConnTypeOK, ConnTypeOK', ConnOK(c),
           \/ CloseBegin(c, r) \/ CloseOver(c, r)
           \/ \E n \in Namespaces : CloseNamespace(c, r, n)
           \/ CloseEngine(c, r) \/ CloseQuit(c, r) \/ Remove(c, r)
    PROVE  ConnOK(c)'
  <1> USE RootIsNamespace DEF Goto, Call, Roles, Served, lockVars, closeVars,
          sendVars
  <1>1. WhoIsWhere(c)'
    BY DEF CloseBegin, CloseOver, CloseNamespace, CloseEngine, CloseQuit,
        Remove, AfterClose, Tell, ConnTypeOK, WhoIsWhere, OneCloser, ConnOK,
        Closing, Connecting, Serving
  <1>2. RoomsFollow(c)'
    BY DEF CloseBegin, CloseOver, CloseNamespace, CloseEngine, CloseQuit,
        Remove, AfterClose, Tell, ConnTypeOK, WhoIsWhere, RoomsFollow, ConnOK,
        Closing, Connecting, Serving
  <1>3. OneCloser(c)'
    BY DEF CloseBegin, CloseOver, CloseNamespace, CloseEngine, CloseQuit,
        Remove, AfterClose, Tell, ConnTypeOK, WhoIsWhere, OneCloser, ConnOK,
        Closing, Connecting, Serving
  <1>4. (pc[c]["app"] = "loop" => OwnClose(c))'
    BY DEF CloseBegin, CloseOver, CloseNamespace, CloseEngine, CloseQuit,
        Remove, AfterClose, Tell, ConnTypeOK, WhoIsWhere, RoomsFollow,
        OneCloser, OwnClose, ConnOK, Closing, Connecting, Serving
  <1> QED
    BY <1>1, <1>2, <1>3, <1>4 DEF ConnOK

(* serveConn and connect() (server.go). *)
LEMMA MainOK ==
    ASSUME NEW c \in Conns, ConnTypeOK, ConnTypeOK', ConnOK(c),
           MainStep(c)
    PROVE  ConnOK(c)'
  <1> USE RootIsNamespace DEF Goto, Call, Roles, Served, lockVars, closeVars,
          sendVars
  <1>1. WhoIsWhere(c)'
    BY DEF MainStep, Connect, ConnectResult, ConnTypeOK, WhoIsWhere,
        OneCloser, ConnOK, Closing, Connecting, Serving
  <1>2. RoomsFollow(c)'
    BY DEF MainStep, Connect, ConnectResult, ConnTypeOK, WhoIsWhere,
        RoomsFollow, ConnOK, Closing, Connecting, Serving
  <1>3. OneCloser(c)'
    BY DEF MainStep, Connect, ConnectResult, ConnTypeOK, WhoIsWhere,
        OneCloser, ConnOK, Closing, Connecting, Serving
  <1>4. (pc[c]["app"] = "loop" => OwnClose(c))'
    BY DEF MainStep, Connect, ConnectResult, ConnTypeOK, WhoIsWhere,
        RoomsFollow, OneCloser, OwnClose, ConnOK, Closing, Connecting, Serving
  <1> QED
    BY <1>1, <1>2, <1>3, <1>4 DEF ConnOK

(* The rest of a packet's handling (connection_handlers.go). *)
LEMMA ReadOK ==
    ASSUME NEW c \in Conns, ConnTypeOK, ConnTypeOK', ConnOK(c),
           ReadStep(c)
    PROVE  ConnOK(c)'
  <1> USE RootIsNamespace DEF Goto, Call, Roles, Served, lockVars, closeVars,
          sendVars
  <1>1. WhoIsWhere(c)'
    BY DEF ReadStep, ReadFails, LockNamespaces, SetNamespace, DispatchConnect,
        DeleteNamespace, DispatchDisconnect, Tell, ConnTypeOK, WhoIsWhere,
        OneCloser, ConnOK, Closing, Connecting, Serving
  <1>2. RoomsFollow(c)'
    BY DEF ReadStep, ReadFails, LockNamespaces, SetNamespace, DispatchConnect,
        DeleteNamespace, DispatchDisconnect, Tell, ConnTypeOK, WhoIsWhere,
        RoomsFollow, ConnOK, Closing, Connecting, Serving
  <1>3. OneCloser(c)'
    BY DEF ReadStep, ReadFails, LockNamespaces, SetNamespace, DispatchConnect,
        DeleteNamespace, DispatchDisconnect, Tell, ConnTypeOK, WhoIsWhere,
        OneCloser, ConnOK, Closing, Connecting, Serving
  <1>4. (pc[c]["app"] = "loop" => OwnClose(c))'
    BY DEF ReadStep, ReadFails, LockNamespaces, SetNamespace, DispatchConnect,
        DeleteNamespace, DispatchDisconnect, Tell, ConnTypeOK, WhoIsWhere,
        RoomsFollow, OneCloser, OwnClose, ConnOK, Closing, Connecting, Serving
  <1> QED
    BY <1>1, <1>2, <1>3, <1>4 DEF ConnOK

(* A packet arrives, or the client goes away. *)
LEMMA ClientOK ==
    ASSUME NEW c \in Conns, ConnTypeOK, ConnTypeOK', ConnOK(c),
           ClientStep(c)
    PROVE  ConnOK(c)'
  <1> USE RootIsNamespace DEF Goto, Call, Roles, Served, lockVars, closeVars,
          sendVars
  <1>1. WhoIsWhere(c)'
    BY DEF ClientStep, Break, ReadEvent, ReadConnect, ReadDisconnect,
        ConnTypeOK, WhoIsWhere, OneCloser, ConnOK, Closing, Connecting,
        Serving
  <1>2. RoomsFollow(c)'
    BY DEF ClientStep, Break, ReadEvent, ReadConnect, ReadDisconnect,
        ConnTypeOK, WhoIsWhere, RoomsFollow, ConnOK, Closing, Connecting,
        Serving
  <1>3. OneCloser(c)'
    BY DEF ClientStep, Break, ReadEvent, ReadConnect, ReadDisconnect,
        ConnTypeOK, WhoIsWhere, OneCloser, ConnOK, Closing, Connecting,
        Serving
  <1>4. (pc[c]["app"] = "loop" => OwnClose(c))'
    BY DEF ClientStep, Break, ReadEvent, ReadConnect, ReadDisconnect,
        ConnTypeOK, WhoIsWhere, RoomsFollow, OneCloser, OwnClose, ConnOK,
        Closing, Connecting, Serving
  <1> QED
    BY <1>1, <1>2, <1>3, <1>4 DEF ConnOK

(* The loops of serveWrite and serveError, with the OnError handler, and a
   Close by the application. *)
LEMMA LoopsOK ==
    ASSUME NEW c \in Conns, ConnTypeOK, ConnTypeOK', ConnOK(c),
           \/ Encode(c) \/ HandleError(c) \/ AppCloses(c)
           \/ LoopQuits(c, "write") \/ LoopQuits(c, "error")
    PROVE  ConnOK(c)'
  <1> USE RootIsNamespace DEF Goto, Call, Roles, Served, lockVars, closeVars,
          sendVars
  <1>1. WhoIsWhere(c)'
    BY DEF Encode, HandleError, AppCloses, LoopQuits, ConnTypeOK, WhoIsWhere, OneCloser,
        ConnOK, Closing, Connecting, Serving
  <1>2. RoomsFollow(c)'
    BY DEF Encode, HandleError, AppCloses, LoopQuits, ConnTypeOK, WhoIsWhere, RoomsFollow,
        ConnOK, Closing, Connecting, Serving
  <1>3. OneCloser(c)'
    BY DEF Encode, HandleError, AppCloses, LoopQuits, ConnTypeOK, WhoIsWhere, OneCloser,
        ConnOK, Closing, Connecting, Serving
  <1>4. (pc[c]["app"] = "loop" => OwnClose(c))'
    BY DEF Encode, HandleError, AppCloses, LoopQuits, ConnTypeOK, WhoIsWhere, RoomsFollow,
        OneCloser, OwnClose, ConnOK, Closing, Connecting, Serving
  <1> QED
    BY <1>1, <1>2, <1>3, <1>4 DEF ConnOK

(* A broadcast hands the connection a packet. *)
LEMMA EmitOK ==
    ASSUME NEW c \in Conns, NEW s \in Senders, ConnTypeOK, ConnTypeOK', ConnOK(c),
           SendEmit(s, c)
    PROVE  ConnOK(c)'
  <1> USE RootIsNamespace DEF Goto, Call, Roles, Served, lockVars, closeVars,
          sendVars
  <1>1. WhoIsWhere(c)'
    BY DEF SendEmit, ConnTypeOK, WhoIsWhere, OneCloser, ConnOK, Closing,
        Connecting, Serving
  <1>2. RoomsFollow(c)'
    BY DEF SendEmit, ConnTypeOK, WhoIsWhere, RoomsFollow, ConnOK, Closing,
        Connecting, Serving
  <1>3. OneCloser(c)'
    BY DEF SendEmit, ConnTypeOK, WhoIsWhere, OneCloser, ConnOK, Closing,
        Connecting, Serving
  <1>4. (pc[c]["app"] = "loop" => OwnClose(c))'
    BY DEF SendEmit, ConnTypeOK, WhoIsWhere, RoomsFollow, OneCloser, OwnClose,
        ConnOK, Closing, Connecting, Serving
  <1> QED
    BY <1>1, <1>2, <1>3, <1>4 DEF ConnOK

(* What the invariant says of connection d. *)
Same(d) == /\ pc'[d] = pc[d] /\ then'[d] = then[d] /\ arg'[d] = arg[d]
           /\ nss'[d] = nss[d] /\ told'[d] = told[d] /\ left'[d] = left[d]
           /\ once'[d] = once[d]
           /\ (d \in quit)' <=> d \in quit
           /\ (d \in again)' <=> d \in again
           /\ \A n \in Namespaces : (d \in joined[n])' <=> d \in joined[n]

(* A step that leaves all of it alone keeps it. *)
LEMMA SameOK ==
    ASSUME NEW d \in Conns, ConnTypeOK, ConnTypeOK', ConnOK(d), Same(d)
    PROVE  ConnOK(d)'
  <1> USE DEF Same, Closing, Connecting, Serving, Roles, Served
  <1>1. WhoIsWhere(d)' /\ OneCloser(d)'
    BY DEF ConnOK, WhoIsWhere, OneCloser
  <1>2. RoomsFollow(d)'
    BY DEF ConnOK, WhoIsWhere, RoomsFollow, ConnTypeOK
  <1>3. (pc[d]["app"] = "loop" => OwnClose(d))'
    BY DEF ConnOK, OwnClose, ConnTypeOK
  <1> QED
    BY <1>1, <1>2, <1>3 DEF ConnOK

(* The steps of a connection leave every other one alone. *)
LEMMA OthersSame ==
    ASSUME ConnTypeOK, NEW c \in Conns, NEW d \in Conns, d # c,
           \/ \E r \in Roles : CallStep(c, r) \/ LoopQuits(c, r)
           \/ MainStep(c) \/ ReadStep(c) \/ Encode(c) \/ HandleError(c)
           \/ ClientStep(c) \/ AppCloses(c)
           \/ \E s \in Senders : SendEmit(s, c)
    PROVE  Same(d)
  <1> USE DEF ConnTypeOK, Same, Goto, Call, lockVars, closeVars, Roles, Served
  <1>1. ASSUME NEW r \in Roles, CallStep(c, r) \/ LoopQuits(c, r)
        PROVE  Same(d)
    <2>1. CASE LockRooms(c, r)
      BY <2>1 DEF LockRooms
    <2>2. CASE Join(c, r)
      BY <2>2 DEF Join
    <2>3. CASE LeaveAll(c, r)
      BY <2>3 DEF LeaveAll
    <2>4. CASE Write(c, r) \/ OnError(c, r) \/ LoopQuits(c, r)
      BY <2>4 DEF Write, OnError, LoopQuits
    <2>5. CASE \/ CloseBegin(c, r) \/ CloseOver(c, r)
               \/ \E n \in Namespaces : CloseNamespace(c, r, n)
               \/ CloseEngine(c, r) \/ CloseQuit(c, r) \/ Remove(c, r)
      BY <2>5 DEF CloseBegin, CloseOver, CloseNamespace, CloseEngine,
          CloseQuit, Remove, Tell
    <2> QED
      BY <1>1, <2>1, <2>2, <2>3, <2>4, <2>5 DEF CallStep
  <1>2. CASE MainStep(c)
    BY <1>2 DEF MainStep, Connect, ConnectResult
  <1>3. CASE ReadStep(c)
    BY <1>3 DEF ReadStep, ReadFails, LockNamespaces, SetNamespace, DispatchConnect,
        DeleteNamespace, DispatchDisconnect, Tell
  <1>4. CASE ClientStep(c)
    BY <1>4 DEF ClientStep, Break, ReadEvent, ReadConnect, ReadDisconnect
  <1>5. CASE \/ Encode(c) \/ HandleError(c) \/ AppCloses(c)
             \/ \E s \in Senders : SendEmit(s, c)
    BY <1>5 DEF Encode, HandleError, AppCloses, SendEmit
  <1> QED
    BY <1>1, <1>2, <1>3, <1>4, <1>5

(* Every step keeps the invariant. *)
LEMMA ConnStep == ConnInv /\ [Next]_vars => ConnInv'
  <1> SUFFICES ASSUME ConnInv, [Next]_vars
               PROVE  ConnInv'
    OBVIOUS
  <1> USE DEF ConnInv
  <1>1. ASSUME NEW c \in Conns,
               \/ \E r \in Roles : CallStep(c, r)
               \/ \E r \in {"write", "error"} : LoopQuits(c, r)
               \/ MainStep(c) \/ ReadStep(c) \/ Encode(c) \/ HandleError(c)
               \/ ClientStep(c) \/ AppCloses(c)
        PROVE  ConnInv'
    <2>1. ConnTypeOK'
      BY <1>1, CallType, ConnType DEF Roles, Served
    <2>2. ConnOK(c)'
      BY <1>1, <2>1, RoomsOK, CallsOK, CloseOK, MainOK, ReadOK, ClientOK, LoopsOK
      DEF CallStep
    <2>3. ASSUME NEW d \in Conns, d # c
          PROVE  ConnOK(d)'
      <3>1. Same(d)
        BY <1>1, <2>3, OthersSame DEF Roles, Served
      <3> QED
        BY <2>1, <3>1, SameOK
    <2> QED
      BY <2>1, <2>2, <2>3
  <1>2. ASSUME NEW s \in Senders,
               SendStep(s) \/ \E n \in Namespaces : SendBegin(s, n)
        PROVE  ConnInv'
    <2>1. ConnTypeOK'
      BY <1>2, SendType
    <2>2. ASSUME NEW c \in Conns, SendEmit(s, c), NEW d \in Conns
          PROVE  ConnOK(d)'
      BY <2>1, <2>2, EmitOK, OthersSame, SameOK
    <2>3. ASSUME SendEnd(s) \/ \E n \in Namespaces : SendBegin(s, n),
                 NEW d \in Conns
          PROVE  ConnOK(d)'
      <3>1. Same(d)
        BY <2>3 DEF SendEnd, SendBegin, Same, closeVars
      <3> QED
        BY <2>1, <3>1, SameOK
    <2> QED
      BY <1>2, <2>1, <2>2, <2>3 DEF SendStep
  <1>3. CASE UNCHANGED vars
    <2>1. ConnTypeOK'
      BY <1>3 DEF vars, lockVars, sendVars, closeVars, ConnTypeOK
    <2>2. ASSUME NEW d \in Conns
          PROVE  ConnOK(d)'
      <3>1. Same(d)
        BY <1>3 DEF vars, lockVars, closeVars, Same
      <3> QED
        BY <2>1, <3>1, SameOK
    <2> QED
      BY <2>1, <2>2
  <1> QED
    BY <1>1, <1>2, <1>3 DEF Next

(* The inductive invariant. *)
THEOREM ConnInvariant == Spec => []ConnInv
  BY ConnInit, ConnStep, PTL DEF Spec

(* A connection is in the rooms of a namespace only while it has that
   namespace, whoever closes it and whatever packets arrive
   (connection_handlers.go:105-107, 136-138). *)
THEOREM RoomsAlwaysAgree == Spec => []RoomsAgree
  <1>1. ConnInv => RoomsAgree
    BY DEF ConnInv, ConnTypeOK, ConnOK, RoomsFollow, RoomsAgree
  <1> QED
    BY <1>1, ConnInvariant, PTL

(* closeOnce: at most one goroutine of a connection is inside Close
   (connection.go:59). *)
THEOREM ClosedByOne == Spec => [](\A c \in Conns : OneCloser(c))
  <1>1. ConnInv => \A c \in Conns : OneCloser(c)
    BY DEF ConnInv, ConnOK
  <1> QED
    BY <1>1, ConnInvariant, PTL

(* The disconnect handler of a namespace is called once, as long as the
   application does not close the connection from a goroutine of its own.  (If
   it does, its Close may overtake a Disconnect packet that is being handled,
   and both call the handler.) *)
THEOREM DisconnectToldOnce == Spec => []ToldOnce
  <1>1. ConnInv => ToldOnce
    BY DEF ConnInv, ConnTypeOK, ConnOK, OwnClose, ToldOnce
  <1> QED
    BY <1>1, ConnInvariant, PTL

(* A closed connection is in no room, under the same condition.  (Otherwise
   Close may overtake a Connect packet that has set its namespace and has
   still to join the room.) *)
THEOREM ClosedIsInNoRoom == Spec => []ClosedLeavesRooms
  <1>1. ConnInv => ClosedLeavesRooms
    BY DEF ConnInv, ConnOK, OwnClose, ClosedLeavesRooms
  <1> QED
    BY <1>1, ConnInvariant, PTL
=============================================================================
