------------------------ MODULE RedisBroadcastProofs ------------------------
(***************************************************************************)
(* Proofs about RedisBroadcast, for any number of servers, callers, rooms, *)
(* connections and calls: the types, that no server emits one broadcast    *)
(* twice, and that Len and AllRooms give the right answer.                 *)
(***************************************************************************)
EXTENDS RedisBroadcast, FiniteSetTheorems, TLAPS

LEMMA ServerOf ==
    ASSUME NEW t \in Threads
    PROVE  t[1] \in Servers
  BY CallersOfServers DEF Threads, Dispatch

LEMMA DispatchIsThread ==
    ASSUME NEW s \in Servers
    PROVE  Dispatch(s) \in Threads /\ Dispatch(s) \notin Callers
  BY DispatchIsNoCaller DEF Threads

(* What a message of each kind says. *)
LEMMA MessageFields ==
    ASSUME NEW m \in Messages
    PROVE  /\ m.kind = "event" => m.id \in Ids
           /\ m.kind \in {"len", "all"} => m.id \in Ids /\ m.room \in Rooms
           /\ m.kind = "clear" => m.room \in Rooms
           /\ m.kind = "reply" => m.id \in Ids /\ m.from \in Servers
           /\ m.kind = "reply" => m.n \in Nat /\ m.rooms \in SUBSET Rooms
  BY DEF Messages

(* Publishing and receiving keep the type of the inboxes. *)
LEMMA PublishType ==
    ASSUME NEW box \in [Servers -> Seq(Messages)], NEW s, NEW m \in Messages
    PROVE  Publish(s, m, box) \in [Servers -> Seq(Messages)]
  BY DEF Publish

LEMMA RestType ==
    ASSUME RedisTypeOK, NEW s \in Servers, inbox[s] # <<>>
    PROVE  Rest(s) \in [Servers -> Seq(Messages)] /\ Head(inbox[s]) \in Messages
  BY DEF RedisTypeOK, Rest

(* A server counts finitely many. *)
LEMMA CountsAreNat ==
    ASSUME NEW s \in Servers
    PROVE  /\ NumSub(s) \in Nat
           /\ \A C \in SUBSET Conns : Cardinality(C) \in Nat
  BY FiniteSystem, FS_Subset, FS_CardinalityType DEF NumSub, Subscribers

(* The types of what a call keeps, when it begins, goes on and ends. *)
CallTypeOK ==
    /\ pc \in [Threads -> {"idle", "lock", "locked", "emit", "publish", "ask",
                           "wait"}]
    /\ op \in [Threads -> {"none", "Join", "Leave", "LeaveAll", "Clear", "clear",
                           "Send", "len", "all", "Rooms"}]
    /\ room \in [Threads -> Rooms]
    /\ conn \in [Threads -> Conns]
    /\ id \in [Threads -> 0..MaxCalls]
    /\ calls \in 0..MaxCalls

LEMMA BeginType ==
    ASSUME CallTypeOK, NEW t \in Threads, NEW r \in Rooms, NEW c \in Conns,
           NEW o \in {"Join", "Leave", "LeaveAll", "Clear", "Send", "len", "all",
                      "Rooms"},
           NEW l \in {"locked", "emit", "ask"}, Begin(t, o, r, c, l)
    PROVE  CallTypeOK'
  <1>1. calls' \in 0..MaxCalls
    BY MaxCallsNat DEF CallTypeOK, Begin
  <1> QED
    BY <1>1 DEF CallTypeOK, Begin

LEMMA GotoType ==
    ASSUME CallTypeOK, NEW t \in Threads,
           NEW l \in {"idle", "locked", "emit", "publish", "wait"}, Goto(t, l)
    PROVE  CallTypeOK'
  BY DEF CallTypeOK, Goto

LEMMA EndType ==
    ASSUME CallTypeOK, NEW t \in Threads, End(t)
    PROVE  CallTypeOK'
  <1>1. (CHOOSE r \in Rooms : TRUE) \in Rooms /\ (CHOOSE c \in Conns : TRUE) \in Conns
    BY SomeRoomsAndConns
  <1>2. 0 \in 0..MaxCalls
    BY MaxCallsNat
  <1> QED
    BY <1>1, <1>2 DEF CallTypeOK, End

(* The rest of the type, without what a call keeps. *)
SharedTypeOK ==
    /\ sub \in [Servers -> {"new", "up", "lost"}]
    /\ pub \in [Servers -> {"ok", "failed"}]
    /\ rooms \in [Servers -> [Rooms -> SUBSET Conns]]
    /\ readers \in [Servers -> SUBSET Threads]
    /\ pend \in [Servers -> Threads \cup {Nobody}]
    /\ clears \subseteq Servers \X Ids \X Rooms
    /\ emitted \in [Ids -> [Servers -> Nat]]
    /\ quiet \subseteq Callers

Requests == [numSub : Nat, msgCount : Nat, connections : Nat, rooms : SUBSET Rooms]

LEMMA TypeParts ==
    RedisTypeOK <=> /\ CallTypeOK
                    /\ SharedTypeOK
                    /\ req \in [Callers -> Requests]
                    /\ inbox \in [Servers -> Seq(Messages)]
  BY DEF RedisTypeOK, CallTypeOK, SharedTypeOK, Requests

LEMMA TypePartsAfter ==
    ASSUME CallTypeOK', SharedTypeOK', req' \in [Callers -> Requests],
           inbox' \in [Servers -> Seq(Messages)]
    PROVE  RedisTypeOK'
  BY DEF RedisTypeOK, CallTypeOK, SharedTypeOK, Requests

LEMMA EmittedType ==
    ASSUME SharedTypeOK, NEW i \in Ids, NEW s \in Servers, Emitted(s, i)
    PROVE  emitted' \in [Ids -> [Servers -> Nat]]
  <1> DEFINE raised == [emitted[i] EXCEPT ![s] = @ + 1]
  <1>1. raised \in [Servers -> Nat]
    BY DEF SharedTypeOK
  <1>2. emitted' = [emitted EXCEPT ![i] = raised]
    BY DEF Emitted
  <1> HIDE DEF raised
  <1> QED
    BY <1>1, <1>2 DEF SharedTypeOK

(* A call that begins. *)
LEMMA CallType ==
    ASSUME RedisTypeOK, NEW t \in Callers, NEW r \in Rooms, NEW c \in Conns,
           CallStep(t, r, c)
    PROVE  RedisTypeOK'
  <1> USE TypeParts, TypePartsAfter
  <1>t. t \in Threads /\ t[1] \in Servers
    BY ServerOf DEF Threads
  <1>r. ASSUME NEW n \in Nat
        PROVE  [NoRequest EXCEPT !.numSub = n] \in Requests
    BY DEF NoRequest, Requests
  <1>1. ASSUME NEW o \in {"Join", "Leave", "LeaveAll", "Clear"},
               CallChange(t, o, r, c)
        PROVE  RedisTypeOK'
    <2>1. CallTypeOK'
      BY <1>1, <1>t, BeginType DEF CallChange
    <2>2. SharedTypeOK'
      BY <1>1, <1>t DEF CallChange, Announce, SharedTypeOK
    <2> QED
      BY <1>1, <2>1, <2>2 DEF CallChange
  <1>2. ASSUME NEW o \in {"len", "all"}, Ask(t, o, r, c)
        PROVE  RedisTypeOK'
    <2>1. CallTypeOK'
      BY <1>2, <1>t, BeginType DEF Ask
    <2>2. SharedTypeOK'
      BY <1>2, <1>t DEF Ask, SharedTypeOK, lockVars
    <2>3. req' \in [Callers -> Requests]
      BY <1>2, <1>t, <1>r, CountsAreNat DEF Ask
    <2> QED
      BY <1>2, <2>1, <2>2, <2>3 DEF Ask
  <1>3. CASE Send(t, r, c)
    <2>1. CallTypeOK'
      BY <1>3, <1>t, BeginType DEF Send
    <2>2. calls' \in Ids
      BY <1>3, MaxCallsNat DEF Send, Begin, CallTypeOK, Ids
    <2>3. emitted' \in [Ids -> [Servers -> Nat]]
      BY <1>3, <1>t, <2>2, EmittedType DEF Send
    <2>4. SharedTypeOK'
      BY <1>3, <1>t, <2>3 DEF Send, SharedTypeOK
    <2> QED
      BY <1>3, <2>1, <2>4 DEF Send
  <1>4. CASE RoomsOfAll(t, r, c)
    <2>1. CallTypeOK'
      BY <1>4, <1>t, BeginType DEF RoomsOfAll
    <2>2. SharedTypeOK'
      BY <1>4, <1>t DEF RoomsOfAll, SharedTypeOK
    <2>3. req' \in [Callers -> Requests]
      BY <1>4, <1>t, <1>r, CountsAreNat DEF RoomsOfAll
    <2> QED
      BY <1>4, <2>1, <2>2, <2>3 DEF RoomsOfAll
  <1> QED
    BY <1>1, <1>2, <1>3, <1>4 DEF CallStep

(* A change of the rooms under the write lock. *)
LEMMA ChangeType ==
    ASSUME RedisTypeOK, NEW t \in Threads, NEW o,
           NEW R \in [Rooms -> SUBSET Conns], Change(t, o, R),
           clears' \subseteq Servers \X Ids \X Rooms
    PROVE  RedisTypeOK'
  <1>1. CallTypeOK'
    BY EndType, TypeParts DEF Change
  <1>2. SharedTypeOK'
    BY ServerOf, TypeParts DEF Change, SharedTypeOK
  <1> QED
    BY <1>1, <1>2, TypeParts, TypePartsAfter DEF Change

(* The number of a call under way. *)
LEMMA NumberType ==
    ASSUME SendInv, NEW t \in Callers, pc[t] # "idle"
    PROVE  id[t] \in Ids
  <1>1. id[t] \in 1..calls
    BY DEF SendInv, CallsNumbered
  <1>2. calls \in 0..MaxCalls
    BY DEF SendInv, RedisTypeOK
  <1> QED
    BY <1>1, <1>2, MaxCallsNat DEF Ids

LEMMA WriteType ==
    ASSUME SendInv, NEW t \in Threads, WriteStep(t)
    PROVE  RedisTypeOK'
  <1> USE TypeParts, ServerOf DEF SendInv
  <1>c. clears \subseteq Servers \X Ids \X Rooms
    BY DEF SharedTypeOK
  <1>l. /\ rooms[t[1]] \in [Rooms -> SUBSET Conns]
        /\ room[t] \in Rooms
        /\ conn[t] \in Conns
    BY DEF SharedTypeOK, CallTypeOK
  <1>1. CASE Lock(t)
    <2>1. CallTypeOK'
      BY <1>1, GotoType DEF Lock
    <2>2. SharedTypeOK'
      BY <1>1 DEF Lock, Announce, SharedTypeOK
    <2> QED
      BY <1>1, <2>1, <2>2, TypePartsAfter DEF Lock
  <1>2. CASE Join(t)
    <2>1. [rooms[t[1]] EXCEPT ![room[t]] = @ \cup {conn[t]}]
             \in [Rooms -> SUBSET Conns]
      BY <1>l
    <2> QED
      BY <1>2, <1>c, <2>1, ChangeType DEF Join
  <1>3. CASE Leave(t)
    <2>1. [rooms[t[1]] EXCEPT ![room[t]] = @ \ {conn[t]}]
             \in [Rooms -> SUBSET Conns]
      BY <1>l
    <2> QED
      BY <1>3, <1>c, <2>1, ChangeType DEF Leave
  <1>4. CASE LeaveAll(t)
    <2>1. [r \in Rooms |-> rooms[t[1]][r] \ {conn[t]}] \in [Rooms -> SUBSET Conns]
      BY <1>l
    <2> QED
      BY <1>4, <1>c, <2>1, ChangeType DEF LeaveAll
  <1>5. CASE Clear(t)
    <2>1. [rooms[t[1]] EXCEPT ![room[t]] = {}] \in [Rooms -> SUBSET Conns]
      BY <1>l
    <2>2. t \in Callers
      BY <1>5 DEF Clear, Change, CallsNumbered, Threads
    <2>3. id[t] \in Ids
      BY <1>5, <2>2, NumberType DEF Clear, Change
    <2>4. <<t[1], id[t], room[t]>> \in Servers \X Ids \X Rooms
      BY <1>l, <2>3
    <2>5. clears' \subseteq Servers \X Ids \X Rooms
      BY <1>5, <1>c, <2>4 DEF Clear
    <2> QED
      BY <1>5, <2>1, <2>5, ChangeType DEF Clear
  <1>6. CASE ClearLocal(t)
    <2>1. [rooms[t[1]] EXCEPT ![room[t]] = {}] \in [Rooms -> SUBSET Conns]
      BY <1>l
    <2> QED
      BY <1>6, <1>c, <2>1, ChangeType DEF ClearLocal
  <1> QED
    BY <1>1, <1>2, <1>3, <1>4, <1>5, <1>6 DEF WriteStep

(* Publishing and waiting for the replies. *)
LEMMA RequestType ==
    ASSUME SendInv, NEW t \in Callers, RequestStep(t)
    PROVE  RedisTypeOK'
  <1> USE TypeParts DEF SendInv
  <1>t. t \in Threads /\ t[1] \in Servers
    BY ServerOf DEF Threads
  <1>r. room[t] \in Rooms
    BY <1>t DEF CallTypeOK
  <1>1. CASE PublishMessage(t)
    <2>1. [kind |-> "event", from |-> t[1], id |-> id[t]] \in Messages
      BY <1>1, <1>t, NumberType DEF PublishMessage, Messages
    <2>2. inbox' \in [Servers -> Seq(Messages)]
      BY <1>1, <2>1, PublishType DEF PublishMessage
    <2>3. CallTypeOK'
      BY <1>1, <1>t, EndType DEF PublishMessage
    <2>4. SharedTypeOK'
      BY <1>1, <1>t DEF PublishMessage, SharedTypeOK
    <2> QED
      BY <1>1, <2>2, <2>3, <2>4, TypePartsAfter DEF PublishMessage
  <1>2. CASE PublishRequest(t)
    <2> DEFINE k == IF op[t] = "len" THEN "len" ELSE "all"
               m == [kind |-> k, from |-> t[1], id |-> id[t], room |-> room[t]]
    <2>1. m \in Messages
      BY <1>2, <1>t, <1>r, NumberType DEF PublishRequest, Messages
    <2>2. inbox' = Publish(t[1], m, inbox)
      BY <1>2 DEF PublishRequest
    <2>3. inbox' \in [Servers -> Seq(Messages)]
      BY <2>1, <2>2, PublishType
    <2>4. CallTypeOK'
      BY <1>2, <1>t, EndType, GotoType DEF PublishRequest
    <2>r. readers' \in [Servers -> SUBSET Threads]
      <3>1. readers \in [Servers -> SUBSET Threads]
        BY DEF SharedTypeOK
      <3>2. readers' = readers \/ Unlock(t)
        BY <1>2 DEF PublishRequest
      <3> QED
        BY <1>t, <3>1, <3>2 DEF Unlock
    <2>5. SharedTypeOK'
      BY <1>2, <2>r DEF PublishRequest, SharedTypeOK
    <2> QED
      BY <1>2, <2>3, <2>4, <2>5, TypePartsAfter DEF PublishRequest
  <1>3. CASE Return(t)
    <2>1. CallTypeOK'
      BY <1>3, <1>t, EndType DEF Return
    <2>2. SharedTypeOK'
      BY <1>3, <1>t DEF Return, SharedTypeOK, Unlock
    <2>3. NoRequest \in Requests
      BY DEF NoRequest, Requests
    <2>4. req' \in [Callers -> Requests]
      BY <1>3, <2>3 DEF Return
    <2> QED
      BY <1>3, <2>1, <2>2, <2>4, TypePartsAfter DEF Return
  <1> QED
    BY <1>1, <1>2, <1>3 DEF RequestStep

(* A reply that is counted. *)
LEMMA CountedType ==
    ASSUME NEW q \in Requests, NEW n \in Nat, NEW R \in SUBSET Rooms
    PROVE  [q EXCEPT !.msgCount = @ + 1, !.connections = @ + n, !.rooms = @ \cup R]
              \in Requests
  <1> DEFINE counted == [q EXCEPT !.msgCount = @ + 1]
             added   == [counted EXCEPT !.connections = @ + n]
  <1>1. counted \in Requests
    BY DEF Requests
  <1> HIDE DEF counted
  <1>2. added \in Requests
    BY <1>1 DEF Requests
  <1> HIDE DEF added
  <1>3. [added EXCEPT !.rooms = @ \cup R] \in Requests
    BY <1>2 DEF Requests
  <1>4. [q EXCEPT !.msgCount = @ + 1, !.connections = @ + n, !.rooms = @ \cup R]
           = [added EXCEPT !.rooms = @ \cup R]
    BY DEF counted, added, Requests
  <1> QED
    BY <1>3, <1>4

(* A reply is a message. *)
LEMMA ReplyType ==
    ASSUME RedisTypeOK, NEW s \in Servers, NEW m \in Messages, m.kind \in {"len", "all"}
    PROVE  Reply(s, m) \in Messages
  <1>1. m.id \in Ids /\ m.room \in Rooms
    BY MessageFields
  <1>2. Cardinality(rooms[s][m.room]) \in Nat
    <2>1. rooms[s][m.room] \in SUBSET Conns
      BY <1>1 DEF RedisTypeOK
    <2> QED
      BY <2>1, CountsAreNat
  <1> QED
    BY <1>1, <1>2 DEF Messages, RoomNames, Reply

(* What dispatch does with a message. *)
LEMMA DispatchType ==
    ASSUME RedisTypeOK, NEW s \in Servers, DispatchStep(s)
    PROVE  RedisTypeOK'
  <1> USE TypeParts, TypePartsAfter
  <1> DEFINE m == Head(inbox[s])
  <1>m. m \in Messages /\ Rest(s) \in [Servers -> Seq(Messages)]
    BY RestType DEF DispatchStep
  <1>d. Dispatch(s) \in Threads
    BY DispatchIsThread
  <1>s. DispatchStep(s) => OnRequest(s, m) \/ OnClear(s, m) \/ OnResponse(s, m)
                             \/ OnMessage(s, m)
    BY DEF DispatchStep
  <1> HIDE DEF m
  <1>1. CASE OnRequest(s, m)
    <2>3. Reply(s, m) \in Messages
      BY <1>1, <1>m, ReplyType DEF OnRequest
    <2>4. inbox' \in [Servers -> Seq(Messages)]
      BY <1>1, <1>m, <2>3, PublishType DEF OnRequest
    <2>5. CallTypeOK' /\ SharedTypeOK'
      BY <1>1 DEF OnRequest, callVars, lockVars, CallTypeOK, SharedTypeOK
    <2> QED
      BY <1>1, <2>4, <2>5 DEF OnRequest
  <1>2. CASE OnClear(s, m)
    <2>1. m.room \in Rooms
      BY <1>2, <1>m, MessageFields DEF OnClear
    <2>2. CallTypeOK'
      BY <1>2, <1>d, <2>1 DEF OnClear, callVars, CallTypeOK
    <2>3. SharedTypeOK'
      BY <1>2 DEF OnClear, lockVars, SharedTypeOK
    <2> QED
      BY <1>2, <1>m, <2>2, <2>3 DEF OnClear
  <1>3. CASE OnResponse(s, m)
    <2>1. m.n \in Nat /\ m.rooms \in SUBSET Rooms
      BY <1>3, <1>m, MessageFields DEF OnResponse
    <2>2. req' \in [Callers -> Requests]
      BY <1>3, <2>1, CountedType DEF OnResponse
    <2>4. CallTypeOK' /\ SharedTypeOK'
      BY <1>3 DEF OnResponse, callVars, lockVars, CallTypeOK, SharedTypeOK
    <2> QED
      BY <1>3, <1>m, <2>2, <2>4 DEF OnResponse
  <1>4. CASE OnMessage(s, m)
    <2>1. m.id \in Ids
      BY <1>4, <1>m, MessageFields DEF OnMessage
    <2>2. emitted' \in [Ids -> [Servers -> Nat]]
      BY <1>4, <2>1, EmittedType DEF OnMessage, EmitReceived, SharedTypeOK
    <2>3. readers' \in [Servers -> SUBSET Threads]
      <3>1. readers \in [Servers -> SUBSET Threads]
        BY DEF SharedTypeOK
      <3>2. \/ readers' = readers
            \/ readers' = [readers EXCEPT ![s] = @ \cup {Dispatch(s)}]
        BY <1>4 DEF OnMessage, EmitReceived
      <3> QED
        BY <1>d, <3>1, <3>2
    <2>4. SharedTypeOK'
      BY <1>4, <2>2, <2>3 DEF OnMessage, SharedTypeOK
    <2>5. CallTypeOK'
      <3>1. CASE UNCHANGED callVars
        BY <3>1 DEF callVars, CallTypeOK
      <3>2. CASE Goto(Dispatch(s), "emit")
        BY <1>d, <3>2, GotoType
      <3> QED
        BY <1>4, <3>1, <3>2 DEF OnMessage, EmitReceived
    <2> QED
      BY <1>4, <1>m, <2>4, <2>5 DEF OnMessage
  <1> QED
    BY <1>1, <1>2, <1>3, <1>4, <1>s

(* An Emit that returns: the caller publishes, or dispatch receives again. *)
EmitReturns(t) ==
    /\ pc[t] = "emit"
    /\ \/ t \in Callers /\ SendEmits(t)
       \/ \E s \in Servers : t = Dispatch(s) /\ OnMessageEmits(s)

LEMMA EmitParts ==
    ASSUME NEW t \in Threads, EmitReturns(t)
    PROVE  /\ \/ t \in Callers /\ Goto(t, "publish")
              \/ t \notin Callers /\ Goto(t, "idle")
           /\ readers' = readers \/ readers' = [readers EXCEPT ![t[1]] = @ \ {t}]
           /\ UNCHANGED <<sub, pub, rooms, pend, req, clears, inbox, emitted, quiet>>
  <1>1. CASE t \in Callers /\ SendEmits(t)
    BY <1>1 DEF SendEmits, lockVars
  <1>2. ASSUME NEW s \in Servers, t = Dispatch(s), OnMessageEmits(s)
        PROVE  /\ t \notin Callers /\ Goto(t, "idle")
               /\ readers' = [readers EXCEPT ![t[1]] = @ \ {t}]
               /\ UNCHANGED <<sub, pub, rooms, pend, req, clears, inbox, emitted, quiet>>
    BY <1>2, DispatchIsNoCaller DEF OnMessageEmits, Unlock
  <1> QED
    BY <1>1, <1>2 DEF EmitReturns

LEMMA EmitType ==
    ASSUME RedisTypeOK, NEW t \in Threads, EmitReturns(t)
    PROVE  RedisTypeOK'
  <1> USE TypeParts, TypePartsAfter
  <1>1. CallTypeOK'
    BY EmitParts, GotoType
  <1>2. SharedTypeOK'
    <2>1. readers \in [Servers -> SUBSET Threads] /\ t[1] \in Servers
      BY ServerOf DEF SharedTypeOK
    <2>2. readers' \in [Servers -> SUBSET Threads]
      BY <2>1, EmitParts
    <2> QED
      BY <2>2, EmitParts DEF SharedTypeOK
  <1> QED
    BY <1>1, <1>2, EmitParts

(* Redis, the network and the goroutines of publishClear. *)
LEMMA OtherType ==
    ASSUME RedisTypeOK, NEW s \in Servers,
           \/ Start(s) \/ SubLost(s) \/ PubFails(s)
           \/ \E i \in Ids, r \in Rooms : PublishClear(s, i, r)
    PROVE  RedisTypeOK'
  <1> USE TypeParts, TypePartsAfter
  <1>1. CASE Start(s) \/ PubFails(s)
    <2>1. CallTypeOK' /\ SharedTypeOK'
      BY <1>1 DEF Start, PubFails, callVars, lockVars, CallTypeOK, SharedTypeOK
    <2> QED
      BY <1>1, <2>1 DEF Start, PubFails
  <1>2. CASE SubLost(s)
    <2>1. CallTypeOK' /\ SharedTypeOK'
      BY <1>2 DEF SubLost, callVars, lockVars, CallTypeOK, SharedTypeOK
    <2>2. inbox' \in [Servers -> Seq(Messages)]
      BY <1>2 DEF SubLost
    <2> QED
      BY <1>2, <2>1, <2>2 DEF SubLost
  <1>3. ASSUME NEW i \in Ids, NEW r \in Rooms, PublishClear(s, i, r)
        PROVE  RedisTypeOK'
    <2>1. CallTypeOK' /\ SharedTypeOK'
      BY <1>3 DEF PublishClear, callVars, lockVars, CallTypeOK, SharedTypeOK
    <2>2. [kind |-> "clear", from |-> s, room |-> r] \in Messages
      BY DEF Messages
    <2>3. inbox' \in [Servers -> Seq(Messages)]
      BY <1>3, <2>2, PublishType DEF PublishClear
    <2> QED
      BY <1>3, <2>1, <2>3 DEF PublishClear
  <1> QED
    BY <1>1, <1>2, <1>3

-----------------------------------------------------------------------------
(* The numbers of the calls *)

(* Callers go on or return: nobody takes a number or has something to publish
   who did not before. *)
GoOn == /\ calls' = calls
        /\ \A t \in Callers : pc'[t] # "idle" =>
              /\ pc[t] # "idle" /\ id'[t] = id[t]
              /\ pc'[t] \in Sending => pc[t] \in Sending
        /\ \A s \in Servers : op'[Dispatch(s)] \in {"none", "clear"}

LEMMA GoOnNumbered ==
    ASSUME CallsNumbered, GoOn
    PROVE  CallsNumbered'
  BY DEF CallsNumbered, GoOn, Dispatch

(* A call that begins takes the next number. *)
LEMMA BeginNumbered ==
    ASSUME SendInv, NEW t \in Callers, NEW o, NEW r, NEW c,
           NEW l \in {"locked", "emit", "ask"}, Begin(t, o, r, c, l)
    PROVE  CallsNumbered'
  <1>t. t \in Threads /\ Callers \subseteq Threads
    BY DEF Threads
  <1>1. /\ calls \in Nat /\ calls' = calls + 1
        /\ id'[t] = calls + 1 /\ pc'[t] # "idle"
        /\ \A u \in Callers \ {t} : id'[u] = id[u] /\ pc'[u] = pc[u]
    BY <1>t, MaxCallsNat DEF Begin, SendInv, RedisTypeOK
  <1>2. \A s \in Servers : op'[Dispatch(s)] = op[Dispatch(s)]
    BY <1>t, DispatchIsThread DEF Begin, SendInv, RedisTypeOK
  <1>3. ASSUME NEW u \in Callers, pc'[u] # "idle"
        PROVE  id'[u] \in 1..calls'
    BY <1>1, <1>3 DEF SendInv, CallsNumbered
  <1>4. ASSUME NEW u \in Callers, NEW v \in Callers, pc'[u] # "idle",
               pc'[v] # "idle", id'[u] = id'[v]
        PROVE  u = v
    BY <1>1, <1>4 DEF SendInv, CallsNumbered
  <1> QED
    BY <1>2, <1>3, <1>4 DEF SendInv, CallsNumbered, Dispatch

LEMMA EndGoesOn ==
    ASSUME SendInv, NEW t \in Threads, End(t)
    PROVE  GoOn
  <1>t. Callers \subseteq Threads /\ \A s \in Servers : Dispatch(s) \in Threads
    BY DEF Threads
  <1> QED
    BY <1>t DEF End, GoOn, SendInv, RedisTypeOK, CallsNumbered

LEMMA GotoGoesOn ==
    ASSUME SendInv, NEW t \in Threads, NEW l \in {"locked", "wait"},
           pc[t] # "idle", Goto(t, l)
    PROVE  GoOn
  <1>t. Callers \subseteq Threads /\ \A s \in Servers : Dispatch(s) \in Threads
    BY DEF Threads
  <1> QED
    BY <1>t DEF Goto, GoOn, SendInv, RedisTypeOK, CallsNumbered, Sending

LEMMA EmitGoesOn ==
    ASSUME SendInv, NEW t \in Threads, EmitReturns(t)
    PROVE  GoOn
  <1>t. Callers \subseteq Threads /\ \A s \in Servers : Dispatch(s) \in Threads
    BY DEF Threads
  <1>1. /\ pc[t] = "emit" /\ UNCHANGED <<op, id, calls>>
        /\ \/ t \in Callers /\ pc' = [pc EXCEPT ![t] = "publish"]
           \/ t \notin Callers /\ pc' = [pc EXCEPT ![t] = "idle"]
    BY EmitParts DEF Goto, EmitReturns
  <1> QED
    BY <1>t, <1>1 DEF GoOn, SendInv, RedisTypeOK, CallsNumbered, Sending

LEMMA SameGoesOn ==
    ASSUME SendInv, UNCHANGED callVars
    PROVE  GoOn
  BY DEF callVars, GoOn, SendInv, CallsNumbered

LEMMA WriteGoesOn ==
    ASSUME SendInv, NEW t \in Threads, WriteStep(t)
    PROVE  GoOn
  BY EndGoesOn, GotoGoesOn
  DEF WriteStep, Lock, Join, Leave, LeaveAll, Clear, ClearLocal, Change

LEMMA RequestGoesOn ==
    ASSUME SendInv, NEW t \in Callers, RequestStep(t)
    PROVE  GoOn
  <1>t. t \in Threads
    BY DEF Threads
  <1> QED
    BY <1>t, EndGoesOn, GotoGoesOn
    DEF RequestStep, PublishMessage, PublishRequest, Return

LEMMA DispatchGoesOn ==
    ASSUME SendInv, NEW s \in Servers, DispatchStep(s)
    PROVE  GoOn
  <1> DEFINE m == Head(inbox[s])
  <1>1. CASE UNCHANGED callVars
    BY <1>1, SameGoesOn
  <1>2. CASE OnClear(s, m) /\ m.from # s
    <2>t. /\ \A t \in Callers : t \in Threads /\ t # Dispatch(s)
          /\ \A q \in Servers : Dispatch(q) \in Threads
      BY DispatchIsThread DEF Threads
    <2>1. /\ pc' = [pc EXCEPT ![Dispatch(s)] = "lock"]
          /\ op' = [op EXCEPT ![Dispatch(s)] = "clear"]
          /\ UNCHANGED <<id, calls>>
      BY <1>2 DEF OnClear
    <2> QED
      BY <2>t, <2>1 DEF GoOn, SendInv, RedisTypeOK, CallsNumbered
  <1>3. CASE Goto(Dispatch(s), "emit")
    <2>t. /\ \A t \in Callers : t \in Threads /\ t # Dispatch(s)
          /\ \A q \in Servers : Dispatch(q) \in Threads
      BY DispatchIsThread DEF Threads
    <2> QED
      BY <1>3, <2>t DEF Goto, GoOn, SendInv, RedisTypeOK, CallsNumbered
  <1> QED
    BY <1>1, <1>2, <1>3
    DEF DispatchStep, OnRequest, OnClear, OnResponse, OnMessage, EmitReceived

-----------------------------------------------------------------------------
(* The broadcasts under way *)

(* The broadcasts of inbox new are those of old, the first perhaps gone. *)
Keeps(new, old) ==
    \E d \in {0, 1} : \A j \in 1..Len(new) : new[j].kind = "event" =>
        j + d \in 1..Len(old) /\ new[j] = old[j + d]

LEMMA TailKeeps ==
    ASSUME NEW old \in Seq(Messages)
    PROVE  /\ Keeps(old, old)
           /\ Keeps(<<>>, old)
           /\ old # <<>> => Keeps(Tail(old), old)
  <1>1. Keeps(old, old)
    <2>1. \A j \in 1..Len(old) : j + 0 \in 1..Len(old) /\ old[j] = old[j + 0]
      OBVIOUS
    <2> QED
      BY <2>1 DEF Keeps
  <1>2. Keeps(<<>>, old)
    BY DEF Keeps
  <1>3. ASSUME old # <<>>
        PROVE  Keeps(Tail(old), old)
    <2>1. \A j \in 1..Len(Tail(old)) : j + 1 \in 1..Len(old) /\ Tail(old)[j] = old[j + 1]
      BY <1>3
    <2> QED
      BY <2>1 DEF Keeps
  <1> QED
    BY <1>1, <1>2, <1>3

LEMMA AppendKeeps ==
    ASSUME NEW old, NEW new \in Seq(Messages), Keeps(new, old),
           NEW m \in Messages, m.kind # "event"
    PROVE  Keeps(Append(new, m), old)
  <1>1. PICK d \in {0, 1} : \A j \in 1..Len(new) : new[j].kind = "event" =>
            j + d \in 1..Len(old) /\ new[j] = old[j + d]
    BY DEF Keeps
  <1>2. ASSUME NEW j \in 1..Len(Append(new, m)), Append(new, m)[j].kind = "event"
        PROVE  j + d \in 1..Len(old) /\ Append(new, m)[j] = old[j + d]
    BY <1>1, <1>2
  <1> QED
    BY <1>2 DEF Keeps

(* Publishing what is not a broadcast. *)
LEMMA PublishKeeps ==
    ASSUME NEW s, NEW box \in [Servers -> Seq(Messages)],
           \A q \in Servers : Keeps(box[q], inbox[q]),
           NEW m \in Messages, m.kind # "event"
    PROVE  \A q \in Servers : Keeps(Publish(s, m, box)[q], inbox[q])
  BY AppendKeeps DEF Publish

LEMMA RestKeeps ==
    ASSUME RedisTypeOK, NEW s \in Servers, inbox[s] # <<>>
    PROVE  \A q \in Servers : Keeps(Rest(s)[q], inbox[q])
  BY TailKeeps DEF RedisTypeOK, Rest

LEMMA SameInbox ==
    ASSUME RedisTypeOK, inbox' = inbox
    PROVE  \A q \in Servers : Keeps(inbox'[q], inbox[q])
  BY TailKeeps DEF RedisTypeOK

(* What is not about broadcasts leaves them as they were. *)
LEMMA BroadcastsStay ==
    ASSUME SendInv, RedisTypeOK', emitted' = emitted, calls' >= calls,
           \A q \in Servers : Keeps(inbox'[q], inbox[q]),
           \A t \in Callers :
               pc'[t] \in Sending => pc[t] \in Sending /\ id'[t] = id[t]
    PROVE  BroadcastInv'
  <1> USE DEF SendInv
  <1>c. calls \in Nat /\ calls' \in Nat /\ \A i \in Ids : i \in Nat
    BY MaxCallsNat DEF RedisTypeOK, Ids
  <1>i. ASSUME NEW s \in Servers, NEW j \in 1..Len(inbox[s]),
               inbox[s][j].kind = "event"
        PROVE  inbox[s][j].id \in Ids
    <2>1. inbox[s][j] \in Messages
      BY DEF RedisTypeOK
    <2> QED
      BY <1>i, <2>1, MessageFields
  <1>1. SendOnce'
    BY DEF BroadcastInv, SendOnce
  <1>2. ASSUME NEW s \in Servers, NEW j \in 1..Len(inbox'[s]), IsEvent(s, j)'
        PROVE  /\ inbox'[s][j].id <= calls'
               /\ inbox'[s][j].from # s => emitted'[inbox'[s][j].id][s] = 0
               /\ \A k \in 1..Len(inbox'[s]) :
                     IsEvent(s, k)' /\ inbox'[s][j].id = inbox'[s][k].id => j = k
               /\ \A t \in Callers : pc'[t] \in Sending => id'[t] # inbox'[s][j].id
    <2>1. PICK d \in {0, 1} : \A k \in 1..Len(inbox'[s]) :
              inbox'[s][k].kind = "event" =>
                 k + d \in 1..Len(inbox[s]) /\ inbox'[s][k] = inbox[s][k + d]
      BY DEF Keeps
    <2>2. /\ j + d \in 1..Len(inbox[s])
          /\ inbox'[s][j] = inbox[s][j + d]
          /\ IsEvent(s, j + d)
      BY <1>2, <2>1 DEF IsEvent
    <2>3. /\ inbox[s][j + d].id <= calls
          /\ inbox[s][j + d].from # s => emitted[inbox[s][j + d].id][s] = 0
          /\ \A t \in Callers : pc[t] \in Sending => id[t] # inbox[s][j + d].id
      BY <2>2 DEF BroadcastInv
    <2>4. inbox[s][j + d].id \in Ids
      BY <1>i, <2>2 DEF IsEvent
    <2>5. ASSUME NEW k \in 1..Len(inbox'[s]), IsEvent(s, k)',
                 inbox'[s][j].id = inbox'[s][k].id
          PROVE  j = k
      <3>1. /\ k + d \in 1..Len(inbox[s])
            /\ inbox'[s][k] = inbox[s][k + d]
            /\ IsEvent(s, k + d)
        BY <2>1, <2>5 DEF IsEvent
      <3>2. j + d = k + d
        BY <2>2, <2>5, <3>1 DEF BroadcastInv
      <3> QED
        BY <3>2
    <2> QED
      BY <1>c, <2>2, <2>3, <2>4, <2>5
  <1>3. ASSUME NEW t \in Callers, NEW s \in Servers, pc'[t] \in Sending, s # t[1]
        PROVE  emitted'[id'[t]][s] = 0
    BY <1>3 DEF BroadcastInv
  <1>4. ASSUME NEW i \in Ids, NEW s \in Servers, i > calls'
        PROVE  emitted'[i][s] = 0
    BY <1>c, <1>4 DEF BroadcastInv
  <1> QED
    BY <1>1, <1>2, <1>3, <1>4 DEF BroadcastInv

(* The number of a broadcast in an inbox. *)
LEMMA EventNumber ==
    ASSUME SendInv, NEW s \in Servers, NEW j \in 1..Len(inbox[s]), IsEvent(s, j)
    PROVE  inbox[s][j].id \in Ids /\ inbox[s][j].id \in 1..calls
  <1>1. inbox[s][j] \in Messages /\ inbox[s][j].kind = "event"
    BY DEF SendInv, RedisTypeOK, IsEvent
  <1>2. inbox[s][j].id <= calls
    BY DEF SendInv, BroadcastInv
  <1> QED
    BY <1>1, <1>2, MessageFields, MaxCallsNat DEF Ids, SendInv, RedisTypeOK

(* A new broadcast has a number that is in no inbox, and only its sender has
   emitted it. *)
LEMMA SendBroadcasts ==
    ASSUME SendInv, NEW t \in Callers, NEW r, NEW c, Send(t, r, c)
    PROVE  BroadcastInv'
  <1> USE DEF SendInv
  <1>t. t \in Threads /\ Callers \subseteq Threads /\ t[1] \in Servers
    BY ServerOf DEF Threads
  <1>1. /\ calls \in Nat /\ calls' = calls + 1 /\ calls' \in Ids
        /\ id'[t] = calls + 1
        /\ \A u \in Callers \ {t} : id'[u] = id[u] /\ pc'[u] = pc[u]
    BY <1>t, MaxCallsNat DEF Send, Begin, RedisTypeOK, Ids
  <1>2. inbox' = inbox
    BY DEF Send
  <1>3. \A i \in Ids, s \in Servers :
           emitted'[i][s] = IF i = calls' /\ s = t[1] THEN emitted[i][s] + 1
                                                    ELSE emitted[i][s]
    BY <1>t, <1>1 DEF Send, Emitted, RedisTypeOK
  <1>n. \A s \in Servers : emitted[calls'][s] = 0
    BY <1>1 DEF BroadcastInv
  <1>4. SendOnce'
    BY <1>3, <1>n DEF BroadcastInv, SendOnce
  <1>5. ASSUME NEW s \in Servers, NEW j \in 1..Len(inbox[s]), IsEvent(s, j)
        PROVE  /\ inbox[s][j].id <= calls'
               /\ inbox[s][j].from # s => emitted'[inbox[s][j].id][s] = 0
               /\ \A u \in Callers : pc'[u] \in Sending => id'[u] # inbox[s][j].id
    <2>1. inbox[s][j].id \in Ids /\ inbox[s][j].id \in 1..calls
      BY <1>5, EventNumber
    <2>2. inbox[s][j].from # s => emitted'[inbox[s][j].id][s] = 0
      BY <1>1, <1>3, <1>5, <2>1 DEF BroadcastInv
    <2>3. ASSUME NEW u \in Callers, pc'[u] \in Sending
          PROVE  id'[u] # inbox[s][j].id
      <3>1. CASE u = t
        BY <1>1, <2>1, <3>1
      <3>2. CASE u # t
        BY <1>1, <1>5, <2>3, <3>2 DEF BroadcastInv
      <3> QED
        BY <3>1, <3>2
    <2> QED
      BY <1>1, <2>1, <2>2, <2>3
  <1>6. ASSUME NEW u \in Callers, NEW s \in Servers, pc'[u] \in Sending, s # u[1]
        PROVE  emitted'[id'[u]][s] = 0
    <2>1. CASE u = t
      BY <1>1, <1>3, <1>6, <1>n, <2>1
    <2>2. CASE u # t
      <3>1. pc[u] \in Sending /\ id'[u] = id[u]
        BY <1>1, <1>6, <2>2
      <3>2. id[u] \in Ids /\ id[u] \in 1..calls
        BY <3>1, NumberType DEF CallsNumbered, Sending
      <3> QED
        BY <1>1, <1>3, <1>6, <3>1, <3>2 DEF BroadcastInv
    <2> QED
      BY <2>1, <2>2
  <1>7. ASSUME NEW i \in Ids, NEW s \in Servers, i > calls'
        PROVE  emitted'[i][s] = 0
    BY <1>1, <1>3, <1>7 DEF BroadcastInv, Ids
  <1>8. \A s \in Servers : \A j, k \in 1..Len(inbox[s]) :
           IsEvent(s, j) /\ IsEvent(s, k) /\ inbox[s][j].id = inbox[s][k].id => j = k
    BY DEF BroadcastInv
  <1> QED
    BY <1>2, <1>4, <1>5, <1>6, <1>7, <1>8 DEF BroadcastInv, IsEvent

(* The sender publishes it: it is new to every inbox, and of the servers that
   will not skip it none has emitted it. *)
LEMMA PublishBroadcasts ==
    ASSUME SendInv, NEW t \in Callers, PublishMessage(t)
    PROVE  BroadcastInv'
  <1> USE DEF SendInv
  <1> DEFINE m == [kind |-> "event", from |-> t[1], id |-> id[t]]
  <1>t. t \in Threads /\ Callers \subseteq Threads /\ t[1] \in Servers
    BY ServerOf DEF Threads
  <1>m. m.kind = "event" /\ m.from = t[1] /\ m.id = id[t]
    OBVIOUS
  <1>1. /\ pc[t] = "publish" /\ pc[t] \in Sending /\ pc'[t] \notin Sending
        /\ calls' = calls /\ emitted' = emitted
        /\ \A u \in Callers \ {t} : id'[u] = id[u] /\ pc'[u] = pc[u]
    BY <1>t DEF PublishMessage, End, RedisTypeOK, Sending
  <1>2. \A s \in Servers : inbox'[s] = inbox[s] \/ inbox'[s] = Append(inbox[s], m)
    BY DEF PublishMessage, Publish
  <1>3. \A s \in Servers : inbox[s] \in Seq(Messages)
    BY DEF RedisTypeOK
  <1>4. id[t] \in 1..calls /\ calls \in Nat
    BY <1>1, MaxCallsNat DEF CallsNumbered, RedisTypeOK
  <1> HIDE DEF m
  <1>5. ASSUME NEW s \in Servers, NEW j \in 1..Len(inbox'[s]), IsEvent(s, j)'
        PROVE  \/ j \in 1..Len(inbox[s]) /\ inbox'[s][j] = inbox[s][j] /\ IsEvent(s, j)
               \/ j = Len(inbox[s]) + 1 /\ inbox'[s][j] = m
    <2>1. CASE inbox'[s] = inbox[s]
      BY <1>5, <2>1 DEF IsEvent
    <2>2. CASE inbox'[s] = Append(inbox[s], m)
      BY <1>3, <1>5, <2>2 DEF IsEvent
    <2> QED
      BY <1>2, <2>1, <2>2
  <1>6. ASSUME NEW s \in Servers, NEW j \in 1..Len(inbox'[s]), IsEvent(s, j)'
        PROVE  /\ inbox'[s][j].id <= calls'
               /\ inbox'[s][j].from # s => emitted'[inbox'[s][j].id][s] = 0
               /\ \A k \in 1..Len(inbox'[s]) :
                     IsEvent(s, k)' /\ inbox'[s][j].id = inbox'[s][k].id => j = k
               /\ \A u \in Callers : pc'[u] \in Sending => id'[u] # inbox'[s][j].id
    <2>1. inbox'[s][j].id <= calls'
      BY <1>1, <1>4, <1>5, <1>6, <1>m DEF BroadcastInv
    <2>2. ASSUME inbox'[s][j].from # s
          PROVE  emitted'[inbox'[s][j].id][s] = 0
      BY <1>1, <1>5, <1>6, <1>m, <2>2 DEF BroadcastInv
    <2>3. ASSUME NEW k \in 1..Len(inbox'[s]), IsEvent(s, k)',
                 inbox'[s][j].id = inbox'[s][k].id
          PROVE  j = k
      <3>1. \A i \in 1..Len(inbox[s]) : IsEvent(s, i) => inbox[s][i].id # id[t]
        BY <1>1 DEF BroadcastInv
      <3>2. \A h, i \in 1..Len(inbox[s]) :
               IsEvent(s, h) /\ IsEvent(s, i) /\ inbox[s][h].id = inbox[s][i].id => h = i
        BY DEF BroadcastInv
      <3>3. \/ k \in 1..Len(inbox[s]) /\ inbox'[s][k] = inbox[s][k] /\ IsEvent(s, k)
            \/ k = Len(inbox[s]) + 1 /\ inbox'[s][k] = m
        BY <1>5, <2>3
      <3>4. \/ j \in 1..Len(inbox[s]) /\ inbox'[s][j] = inbox[s][j] /\ IsEvent(s, j)
            \/ j = Len(inbox[s]) + 1 /\ inbox'[s][j] = m
        BY <1>5, <1>6
      <3> QED
        BY <1>m, <2>3, <3>1, <3>2, <3>3, <3>4
    <2>4. ASSUME NEW u \in Callers, pc'[u] \in Sending
          PROVE  id'[u] # inbox'[s][j].id
      <3>1. u # t /\ pc[u] \in Sending /\ id'[u] = id[u]
        BY <1>1, <2>4
      <3>2. id[u] # id[t]
        BY <1>1, <3>1 DEF CallsNumbered, Sending
      <3> QED
        BY <1>5, <1>6, <1>m, <3>1, <3>2 DEF BroadcastInv
    <2> QED
      BY <2>1, <2>2, <2>3, <2>4
  <1>7. ASSUME NEW u \in Callers, NEW s \in Servers, pc'[u] \in Sending, s # u[1]
        PROVE  emitted'[id'[u]][s] = 0
    <2>1. u # t /\ pc[u] \in Sending /\ id'[u] = id[u]
      BY <1>1, <1>7
    <2> QED
      BY <1>1, <1>7, <2>1 DEF BroadcastInv
  <1>8. SendOnce' /\ \A i \in Ids, s \in Servers : i > calls' => emitted'[i][s] = 0
    BY <1>1 DEF BroadcastInv, SendOnce
  <1> QED
    BY <1>6, <1>7, <1>8 DEF BroadcastInv

(* A server emits a broadcast of another one: it has not yet, and
   no copy of it is left in its inbox. *)
LEMMA ReceiveBroadcasts ==
    ASSUME SendInv, RedisTypeOK', NEW s \in Servers, inbox[s] # <<>>,
           OnMessage(s, Head(inbox[s]))
    PROVE  BroadcastInv'
  <1> USE DEF SendInv
  <1> DEFINE m == Head(inbox[s])
  <1>k. \A q \in Servers : Keeps(inbox'[q], inbox[q])
    BY RestKeeps DEF OnMessage
  <1>u. UNCHANGED <<id, calls>> /\ \A t \in Callers : pc'[t] = pc[t]
    <2>1. \A t \in Callers : t \in Threads /\ t # Dispatch(s)
      BY DispatchIsThread DEF Threads
    <2> QED
      BY <2>1 DEF OnMessage, EmitReceived, Goto, callVars, RedisTypeOK
  <1>c. calls \in Nat
    BY MaxCallsNat DEF RedisTypeOK
  <1>1. CASE m.from = s
    BY <1>1, <1>c, <1>k, <1>u, BroadcastsStay DEF OnMessage
  <1>2. CASE m.from # s
    <2>s. inbox[s] \in Seq(Messages)
      BY DEF RedisTypeOK
    <2>1. 1 \in 1..Len(inbox[s]) /\ m = inbox[s][1] /\ IsEvent(s, 1)
      BY <2>s DEF OnMessage, IsEvent
    <2>2. m.id \in Ids /\ m.id \in 1..calls /\ emitted[m.id][s] = 0
      BY <1>2, <2>1, EventNumber DEF BroadcastInv
    <2> HIDE DEF m
    <2>3. \A i \in Ids, q \in Servers :
             emitted'[i][q] = IF i = m.id /\ q = s THEN emitted[i][q] + 1
                                                 ELSE emitted[i][q]
      <3>1. Emitted(s, m.id)
        BY <1>2 DEF OnMessage, EmitReceived, m
      <3> QED
        BY <2>2, <3>1 DEF Emitted, RedisTypeOK
    <2>4. SendOnce'
      BY <2>2, <2>3 DEF BroadcastInv, SendOnce
    <2>5. ASSUME NEW q \in Servers, NEW j \in 1..Len(inbox'[q]), IsEvent(q, j)'
          PROVE  \E d \in {0, 1} :
                   /\ j + d \in 1..Len(inbox[q]) /\ inbox'[q][j] = inbox[q][j + d]
                   /\ IsEvent(q, j + d)
                   /\ q = s => d = 1
      <3>1. CASE q = s
        <4>1. inbox'[s] = Tail(inbox[s])
          BY DEF OnMessage, Rest, RedisTypeOK
        <4>2. j + 1 \in 1..Len(inbox[s]) /\ inbox'[s][j] = inbox[s][j + 1]
          BY <2>5, <2>s, <3>1, <4>1
        <4> QED
          BY <2>5, <3>1, <4>2 DEF IsEvent
      <3>2. CASE q # s
        <4>1. inbox'[q] = inbox[q]
          BY <3>2 DEF OnMessage, Rest, RedisTypeOK
        <4>2. j + 0 \in 1..Len(inbox[q]) /\ inbox'[q][j] = inbox[q][j + 0]
          BY <2>5, <4>1
        <4> QED
          BY <2>5, <3>2, <4>2 DEF IsEvent
      <3> QED
        BY <3>1, <3>2
    <2>6. ASSUME NEW q \in Servers, NEW j \in 1..Len(inbox'[q]), IsEvent(q, j)'
          PROVE  /\ inbox'[q][j].id <= calls'
                 /\ inbox'[q][j].from # q => emitted'[inbox'[q][j].id][q] = 0
                 /\ \A t \in Callers : pc'[t] \in Sending => id'[t] # inbox'[q][j].id
      <3>1. PICK d \in {0, 1} :
                   /\ j + d \in 1..Len(inbox[q]) /\ inbox'[q][j] = inbox[q][j + d]
                   /\ IsEvent(q, j + d)
                   /\ q = s => d = 1
        BY <2>5, <2>6
      <3>2. inbox[q][j + d].id \in Ids
        BY <3>1, EventNumber
      <3>3. q = s => inbox[q][j + d].id # m.id
        BY <2>1, <3>1 DEF BroadcastInv
      <3>4. inbox[q][j + d].from # q => emitted'[inbox[q][j + d].id][q] = 0
        BY <2>3, <3>1, <3>2, <3>3 DEF BroadcastInv
      <3> QED
        BY <1>u, <3>1, <3>4 DEF BroadcastInv
    <2>7. ASSUME NEW q \in Servers, NEW j \in 1..Len(inbox'[q]),
                 NEW k \in 1..Len(inbox'[q]), IsEvent(q, j)', IsEvent(q, k)',
                 inbox'[q][j].id = inbox'[q][k].id
          PROVE  j = k
      <3>1. PICK d \in {0, 1} : \A i \in 1..Len(inbox'[q]) :
                inbox'[q][i].kind = "event" =>
                   i + d \in 1..Len(inbox[q]) /\ inbox'[q][i] = inbox[q][i + d]
        BY <1>k DEF Keeps
      <3>2. /\ j + d \in 1..Len(inbox[q]) /\ inbox'[q][j] = inbox[q][j + d]
            /\ k + d \in 1..Len(inbox[q]) /\ inbox'[q][k] = inbox[q][k + d]
            /\ IsEvent(q, j + d) /\ IsEvent(q, k + d)
        BY <2>7, <3>1 DEF IsEvent
      <3>3. j + d = k + d
        BY <2>7, <3>2 DEF BroadcastInv
      <3> QED
        BY <3>3
    <2>8. ASSUME NEW t \in Callers, NEW q \in Servers, pc'[t] \in Sending, q # t[1]
          PROVE  emitted'[id'[t]][q] = 0
      <3>1. pc[t] \in Sending /\ id'[t] = id[t]
        BY <1>u, <2>8
      <3>2. id[t] \in Ids
        BY <3>1, NumberType DEF Sending
      <3>3. id[t] # m.id
        BY <2>1, <3>1 DEF BroadcastInv
      <3> QED
        BY <2>3, <2>8, <3>1, <3>2, <3>3 DEF BroadcastInv
    <2>9. ASSUME NEW i \in Ids, NEW q \in Servers, i > calls'
          PROVE  emitted'[i][q] = 0
      BY <1>c, <1>u, <2>2, <2>3, <2>9 DEF BroadcastInv, Ids
    <2> QED
      BY <2>4, <2>6, <2>7, <2>8, <2>9 DEF BroadcastInv
  <1> QED
    BY <1>1, <1>2

-----------------------------------------------------------------------------
(* The broadcasts, the calls and the types at every step *)

LEMMA InitSends == Init => SendInv
  <1> SUFFICES ASSUME Init PROVE SendInv
    OBVIOUS
  <1>1. CallTypeOK
    <2>1. (CHOOSE r \in Rooms : TRUE) \in Rooms /\ (CHOOSE c \in Conns : TRUE) \in Conns
      BY SomeRoomsAndConns
    <2> QED
      BY <2>1, MaxCallsNat DEF Init, CallTypeOK
  <1>2. SharedTypeOK
    BY DEF Init, SharedTypeOK
  <1>3. req \in [Callers -> Requests] /\ inbox \in [Servers -> Seq(Messages)]
    BY DEF Init, NoRequest, Requests
  <1>4. CallsNumbered
    BY DispatchIsThread DEF Init, CallsNumbered, Threads
  <1>5. BroadcastInv
    <2>1. \A t \in Callers : pc[t] = "idle"
      BY DEF Init, Threads
    <2>2. \A s \in Servers : inbox[s] = <<>>
      BY DEF Init
    <2>3. \A i \in Ids, s \in Servers : emitted[i][s] = 0
      BY DEF Init
    <2> QED
      BY <2>1, <2>2, <2>3 DEF BroadcastInv, SendOnce, Sending
  <1> QED
    BY <1>1, <1>2, <1>3, <1>4, <1>5, TypeParts DEF SendInv

LEMMA CallSends ==
    ASSUME SendInv, NEW t \in Callers, NEW r \in Rooms, NEW c \in Conns,
           CallStep(t, r, c)
    PROVE  SendInv'
  <1>1. RedisTypeOK'
    BY CallType DEF SendInv
  <1>2. CallsNumbered'
    BY BeginNumbered DEF CallStep, CallChange, Ask, Send, RoomsOfAll
  <1>3. BroadcastInv'
    <2>1. CASE Send(t, r, c)
      BY <2>1, SendBroadcasts
    <2>2. ASSUME NEW o, NEW l \in {"locked", "ask"}, Begin(t, o, r, c, l),
                 UNCHANGED <<inbox, emitted>>
          PROVE  BroadcastInv'
      <3>1. /\ calls' >= calls
            /\ \A u \in Callers :
                  pc'[u] \in Sending => pc[u] \in Sending /\ id'[u] = id[u]
        BY <2>2, MaxCallsNat DEF Begin, SendInv, RedisTypeOK, Threads, Sending
      <3>2. \A q \in Servers : Keeps(inbox'[q], inbox[q])
        BY <2>2, SameInbox DEF SendInv
      <3> QED
        BY <1>1, <2>2, <3>1, <3>2, BroadcastsStay
    <2> QED
      BY <2>1, <2>2 DEF CallStep, CallChange, Ask, RoomsOfAll
  <1> QED
    BY <1>1, <1>2, <1>3 DEF SendInv

(* A step in which callers go on and no broadcast is sent or emitted. *)
LEMMA GoOnSends ==
    ASSUME SendInv, RedisTypeOK', GoOn, emitted' = emitted,
           \A q \in Servers : Keeps(inbox'[q], inbox[q])
    PROVE  SendInv'
  <1>1. CallsNumbered'
    BY GoOnNumbered DEF SendInv
  <1>2. /\ calls' >= calls
        /\ \A t \in Callers :
              pc'[t] \in Sending => pc[t] \in Sending /\ id'[t] = id[t]
    BY MaxCallsNat DEF GoOn, SendInv, RedisTypeOK, Sending
  <1> QED
    BY <1>1, <1>2, BroadcastsStay DEF SendInv

LEMMA WriteSends ==
    ASSUME SendInv, NEW t \in Threads, WriteStep(t)
    PROVE  SendInv'
  <1>1. inbox' = inbox /\ emitted' = emitted
    BY DEF WriteStep, Lock, Join, Leave, LeaveAll, Clear, ClearLocal, Change
  <1>2. \A q \in Servers : Keeps(inbox'[q], inbox[q])
    BY <1>1, SameInbox DEF SendInv
  <1> QED
    BY <1>1, <1>2, WriteType, WriteGoesOn, GoOnSends

LEMMA RequestSends ==
    ASSUME SendInv, NEW t \in Callers, RequestStep(t)
    PROVE  SendInv'
  <1>1. RedisTypeOK' /\ GoOn
    BY RequestType, RequestGoesOn
  <1>2. CASE PublishMessage(t)
    BY <1>1, <1>2, PublishBroadcasts, GoOnNumbered DEF SendInv
  <1>3. CASE PublishRequest(t)
    <2> DEFINE k == IF op[t] = "len" THEN "len" ELSE "all"
               m == [kind |-> k, from |-> t[1], id |-> id[t], room |-> room[t]]
    <2>1. m \in Messages /\ m.kind # "event"
      <3>1. t[1] \in Servers /\ room[t] \in Rooms
        BY ServerOf DEF Threads, SendInv, RedisTypeOK
      <3> QED
        BY <1>3, <3>1, NumberType DEF PublishRequest, Messages
    <2>2. inbox' = Publish(t[1], m, inbox) /\ emitted' = emitted
      BY <1>3 DEF PublishRequest
    <2>3. /\ inbox \in [Servers -> Seq(Messages)]
          /\ \A q \in Servers : Keeps(inbox[q], inbox[q])
      BY TailKeeps DEF SendInv, RedisTypeOK
    <2> HIDE DEF m
    <2>4. \A q \in Servers : Keeps(inbox'[q], inbox[q])
      BY <2>1, <2>2, <2>3, PublishKeeps
    <2> QED
      BY <1>1, <2>2, <2>4, GoOnSends
  <1>4. CASE Return(t)
    <2>1. inbox' = inbox /\ emitted' = emitted
      BY <1>4 DEF Return
    <2>2. \A q \in Servers : Keeps(inbox'[q], inbox[q])
      BY <2>1, SameInbox DEF SendInv
    <2> QED
      BY <1>1, <2>1, <2>2, GoOnSends
  <1> QED
    BY <1>2, <1>3, <1>4 DEF RequestStep

LEMMA DispatchSends ==
    ASSUME SendInv, NEW s \in Servers, DispatchStep(s)
    PROVE  SendInv'
  <1> DEFINE m == Head(inbox[s])
  <1>1. RedisTypeOK' /\ GoOn
    BY DispatchType, DispatchGoesOn DEF SendInv
  <1>2. /\ inbox[s] # <<>>
        /\ m \in Messages
        /\ Rest(s) \in [Servers -> Seq(Messages)]
        /\ \A q \in Servers : Keeps(Rest(s)[q], inbox[q])
    BY RestType, RestKeeps DEF DispatchStep, SendInv
  <1>3. CASE OnMessage(s, m)
    BY <1>1, <1>2, <1>3, ReceiveBroadcasts, GoOnNumbered DEF SendInv
  <1>4. CASE OnClear(s, m) \/ OnResponse(s, m)
    <2>1. inbox' = Rest(s) /\ emitted' = emitted
      BY <1>4 DEF OnClear, OnResponse
    <2> QED
      BY <1>1, <1>2, <2>1, GoOnSends
  <1>5. CASE OnRequest(s, m)
    <2> DEFINE a == Reply(s, m)
    <2>3. inbox' = Publish(s, a, Rest(s)) /\ emitted' = emitted
      BY <1>5 DEF OnRequest
    <2> HIDE DEF m
    <2>4. a \in Messages /\ a.kind # "event"
      <3>1. a \in Messages
        BY <1>2, <1>5, ReplyType DEF SendInv, OnRequest
      <3> QED
        BY <3>1 DEF Reply
    <2> HIDE DEF a
    <2>5. \A q \in Servers : Keeps(inbox'[q], inbox[q])
      BY <1>2, <2>3, <2>4, PublishKeeps
    <2> QED
      BY <1>1, <2>3, <2>5, GoOnSends
  <1> QED
    BY <1>3, <1>4, <1>5 DEF DispatchStep

LEMMA EmitSends ==
    ASSUME SendInv, NEW t \in Threads, EmitReturns(t)
    PROVE  SendInv'
  <1>1. inbox' = inbox /\ emitted' = emitted
    BY EmitParts
  <1>2. \A q \in Servers : Keeps(inbox'[q], inbox[q])
    BY <1>1, SameInbox DEF SendInv
  <1>3. RedisTypeOK'
    BY EmitType DEF SendInv
  <1> QED
    BY <1>1, <1>2, <1>3, EmitGoesOn, GoOnSends

(* The steps of Next in which an Emit returns. *)
LEMMA EmitSteps ==
    /\ \A t \in Callers : SendEmits(t) => t \in Threads /\ EmitReturns(t)
    /\ \A s \in Servers : OnMessageEmits(s) =>
           Dispatch(s) \in Threads /\ EmitReturns(Dispatch(s))
  BY DispatchIsThread DEF Threads, EmitReturns, SendEmits, OnMessageEmits

LEMMA OtherSends ==
    ASSUME SendInv, NEW s \in Servers,
           \/ Start(s) \/ SubLost(s) \/ PubFails(s)
           \/ \E i \in Ids, r \in Rooms : PublishClear(s, i, r)
    PROVE  SendInv'
  <1>1. RedisTypeOK' /\ GoOn /\ emitted' = emitted
    <2>1. UNCHANGED callVars /\ emitted' = emitted
      BY DEF Start, SubLost, PubFails, PublishClear
    <2> QED
      BY <2>1, OtherType, SameGoesOn DEF SendInv
  <1>i. /\ inbox \in [Servers -> Seq(Messages)]
        /\ \A q \in Servers : Keeps(inbox[q], inbox[q]) /\ Keeps(<<>>, inbox[q])
    BY TailKeeps DEF SendInv, RedisTypeOK
  <1>2. CASE Start(s) \/ PubFails(s)
    <2>1. inbox' = inbox
      BY <1>2 DEF Start, PubFails
    <2> QED
      BY <1>1, <1>i, <2>1, GoOnSends
  <1>3. CASE SubLost(s)
    <2>1. \A q \in Servers : inbox'[q] = inbox[q] \/ inbox'[q] = <<>>
      BY <1>3, <1>i DEF SubLost
    <2>2. \A q \in Servers : Keeps(inbox'[q], inbox[q])
      BY <1>i, <2>1
    <2> QED
      BY <1>1, <2>2, GoOnSends
  <1>4. ASSUME NEW i \in Ids, NEW r \in Rooms, PublishClear(s, i, r)
        PROVE  SendInv'
    <2> DEFINE m == [kind |-> "clear", from |-> s, room |-> r]
    <2>1. m \in Messages /\ m.kind # "event"
      BY DEF Messages
    <2>2. inbox' = Publish(s, m, inbox)
      BY <1>4 DEF PublishClear
    <2> HIDE DEF m
    <2>3. \A q \in Servers : Keeps(inbox'[q], inbox[q])
      BY <1>i, <2>1, <2>2, PublishKeeps
    <2> QED
      BY <1>1, <2>3, GoOnSends
  <1> QED
    BY <1>2, <1>3, <1>4

LEMMA StepSends == SendInv /\ [Next]_vars => SendInv'
  <1> SUFFICES ASSUME SendInv, [Next]_vars
               PROVE  SendInv'
    OBVIOUS
  <1>1. CASE UNCHANGED vars
    BY <1>1 DEF vars, lockVars, callVars, SendInv, RedisTypeOK, CallsNumbered,
                BroadcastInv, SendOnce, IsEvent
  <1> QED
    BY <1>1, CallSends, WriteSends, RequestSends, DispatchSends, EmitSends, EmitSteps,
       OtherSends DEF Next

-----------------------------------------------------------------------------
(* The requests and replies under way *)

(* The messages of kinds K with number i are the same in inboxes new and old,
   which has perhaps one more before them. *)
Same(K, new, old, i) ==
    \E d \in {0, 1} :
        /\ \A j \in 1..Len(new) : About(K, new[j], i) =>
              j + d \in 1..Len(old) /\ old[j + d] = new[j]
        /\ \A j \in 1..Len(old) : About(K, old[j], i) =>
              j - d \in 1..Len(new) /\ new[j - d] = old[j]

LEMMA SameBox ==
    ASSUME NEW K, NEW i, NEW old \in Seq(Messages)
    PROVE  Same(K, old, old, i)
  <1>1. /\ \A j \in 1..Len(old) : j + 0 \in 1..Len(old) /\ old[j + 0] = old[j]
        /\ \A j \in 1..Len(old) : j - 0 \in 1..Len(old) /\ old[j - 0] = old[j]
    OBVIOUS
  <1> QED
    BY <1>1 DEF Same

LEMMA SameTail ==
    ASSUME NEW K, NEW i, NEW old \in Seq(Messages), old # <<>>,
           ~About(K, Head(old), i)
    PROVE  Same(K, Tail(old), old, i)
  <1>1. \A j \in 1..Len(Tail(old)) : j + 1 \in 1..Len(old) /\ old[j + 1] = Tail(old)[j]
    OBVIOUS
  <1>2. ASSUME NEW j \in 1..Len(old), About(K, old[j], i)
        PROVE  j - 1 \in 1..Len(Tail(old)) /\ Tail(old)[j - 1] = old[j]
    <2>1. j # 1
      BY <1>2
    <2> QED
      BY <2>1
  <1> QED
    BY <1>1, <1>2 DEF Same

LEMMA SameAppend ==
    ASSUME NEW K, NEW i, NEW old, NEW new \in Seq(Messages), Same(K, new, old, i),
           NEW m \in Messages, ~About(K, m, i)
    PROVE  Same(K, Append(new, m), old, i)
  <1> DEFINE app == Append(new, m)
  <1>1. PICK d \in {0, 1} :
        /\ \A j \in 1..Len(new) : About(K, new[j], i) =>
              j + d \in 1..Len(old) /\ old[j + d] = new[j]
        /\ \A j \in 1..Len(old) : About(K, old[j], i) =>
              j - d \in 1..Len(new) /\ new[j - d] = old[j]
    BY DEF Same
  <1>2. /\ Len(app) = Len(new) + 1 /\ Len(new) \in Nat
        /\ app[Len(new) + 1] = m
        /\ \A j \in 1..Len(new) : app[j] = new[j] /\ j \in 1..Len(app)
    OBVIOUS
  <1> HIDE DEF app
  <1>3. ASSUME NEW j \in 1..Len(app), About(K, app[j], i)
        PROVE  j + d \in 1..Len(old) /\ old[j + d] = app[j]
    <2>1. j \in 1..Len(new)
      BY <1>2, <1>3
    <2> QED
      BY <1>1, <1>2, <1>3, <2>1
  <1>4. ASSUME NEW j \in 1..Len(old), About(K, old[j], i)
        PROVE  j - d \in 1..Len(app) /\ app[j - d] = old[j]
    BY <1>1, <1>2, <1>4
  <1> QED
    BY <1>3, <1>4 DEF Same, app

(* Publishing a message that is not about i. *)
LEMMA PublishSame ==
    ASSUME NEW K, NEW i, NEW s, NEW q \in Servers, NEW box \in [Servers -> Seq(Messages)],
           Same(K, box[q], inbox[q], i), NEW m \in Messages, ~About(K, m, i)
    PROVE  Same(K, Publish(s, m, box)[q], inbox[q], i)
  BY SameAppend DEF Publish

(* Receiving a message that is not about i. *)
LEMMA RestSame ==
    ASSUME NEW K, NEW i, RedisTypeOK, NEW s \in Servers, NEW q \in Servers,
           inbox[s] # <<>>, q = s => ~About(K, Head(inbox[s]), i)
    PROVE  Same(K, Rest(s)[q], inbox[q], i)
  BY SameBox, SameTail DEF RedisTypeOK, Rest

(* Who is asked and who has replied does not depend on where the messages are. *)
LEMMA SameAsked ==
    ASSUME NEW i, \A q \in Servers : Same({"len", "all"}, inbox'[q], inbox[q], i)
    PROVE  Asked(i)' = Asked(i)
  <1>1. ASSUME NEW s \in Servers
        PROVE  (\E j \in 1..Len(inbox'[s]) : IsRequest(inbox'[s][j], i))
                 <=> (\E j \in 1..Len(inbox[s]) : IsRequest(inbox[s][j], i))
    <2>1. Same({"len", "all"}, inbox'[s], inbox[s], i)
      OBVIOUS
    <2> QED
      BY <2>1 DEF Same, IsRequest
  <1> QED
    BY <1>1 DEF Asked

LEMMA SameReplied ==
    ASSUME NEW i, NEW q, Same({"reply"}, inbox'[q], inbox[q], i)
    PROVE  Replied(q, i)' = Replied(q, i)
  <1>1. ASSUME NEW s \in Servers
        PROVE  (\E j \in 1..Len(inbox'[q]) :
                   IsReply(inbox'[q][j], i) /\ inbox'[q][j].from = s)
                 <=> (\E j \in 1..Len(inbox[q]) :
                         IsReply(inbox[q][j], i) /\ inbox[q][j].from = s)
    BY DEF Same, IsReply
  <1> QED
    BY <1>1 DEF Replied

LEMMA SameAskedOnce ==
    ASSUME NEW i, NEW r, AskedOnce(i, r),
           \A q \in Servers : Same({"len", "all"}, inbox'[q], inbox[q], i)
    PROVE  AskedOnce(i, r)'
  <1> SUFFICES ASSUME NEW s \in Servers, NEW j \in 1..Len(inbox'[s]),
                      IsRequest(inbox'[s][j], i)
               PROVE  /\ inbox'[s][j].room = r
                      /\ \A k \in 1..Len(inbox'[s]) : IsRequest(inbox'[s][k], i) => k = j
    BY DEF AskedOnce
  <1>1. PICK d \in {0, 1} : \A k \in 1..Len(inbox'[s]) : IsRequest(inbox'[s][k], i) =>
            k + d \in 1..Len(inbox[s]) /\ inbox[s][k + d] = inbox'[s][k]
    BY DEF Same, IsRequest
  <1>2. /\ j + d \in 1..Len(inbox[s]) /\ inbox[s][j + d] = inbox'[s][j]
        /\ IsRequest(inbox[s][j + d], i)
    BY <1>1
  <1>3. ASSUME NEW k \in 1..Len(inbox'[s]), IsRequest(inbox'[s][k], i)
        PROVE  k = j
    <2>1. /\ k + d \in 1..Len(inbox[s]) /\ IsRequest(inbox[s][k + d], i)
      BY <1>1, <1>3
    <2>2. k + d = j + d
      BY <1>2, <2>1 DEF AskedOnce
    <2> QED
      BY <2>2
  <1>4. inbox[s][j + d].room = r
    BY <1>2 DEF AskedOnce
  <1> QED
    BY <1>2, <1>3, <1>4

LEMMA SameRepliedOnce ==
    ASSUME NEW i, NEW r, NEW q, RepliedOnce(q, i, r), UNCHANGED <<sub, pub, rooms>>,
           Asked(i)' = Asked(i), Same({"reply"}, inbox'[q], inbox[q], i)
    PROVE  RepliedOnce(q, i, r)'
  <1>u. /\ Subscribers' = Subscribers /\ pub' = pub /\ rooms' = rooms
        /\ \A s : RoomNames(s)' = RoomNames(s)
    BY DEF Subscribers, RoomNames
  <1> SUFFICES ASSUME NEW j \in 1..Len(inbox'[q]), IsReply(inbox'[q][j], i)
               PROVE  LET s == inbox'[q][j].from
                      IN /\ s \in Subscribers /\ pub[s] = "ok" /\ s \notin Asked(i)
                         /\ inbox'[q][j].n = Cardinality(rooms[s][r])
                         /\ inbox'[q][j].rooms = RoomNames(s)
                         /\ \A k \in 1..Len(inbox'[q]) :
                              IsReply(inbox'[q][k], i) /\ inbox'[q][k].from = s => k = j
    BY <1>u DEF RepliedOnce
  <1>1. PICK d \in {0, 1} : \A k \in 1..Len(inbox'[q]) : IsReply(inbox'[q][k], i) =>
            k + d \in 1..Len(inbox[q]) /\ inbox[q][k + d] = inbox'[q][k]
    BY DEF Same, IsReply
  <1>2. /\ j + d \in 1..Len(inbox[q]) /\ inbox[q][j + d] = inbox'[q][j]
        /\ IsReply(inbox[q][j + d], i)
    BY <1>1
  <1> DEFINE s == inbox[q][j + d].from
  <1>3. /\ s \in Subscribers /\ pub[s] = "ok" /\ s \notin Asked(i)
        /\ inbox[q][j + d].n = Cardinality(rooms[s][r])
        /\ inbox[q][j + d].rooms = RoomNames(s)
        /\ \A k \in 1..Len(inbox[q]) :
              IsReply(inbox[q][k], i) /\ inbox[q][k].from = s => k = j + d
    BY <1>2 DEF RepliedOnce
  <1>4. ASSUME NEW k \in 1..Len(inbox'[q]), IsReply(inbox'[q][k], i),
               inbox'[q][k].from = s
        PROVE  k = j
    <2>1. k + d \in 1..Len(inbox[q]) /\ inbox[q][k + d] = inbox'[q][k]
      BY <1>1, <1>4
    <2>2. k + d = j + d
      BY <1>3, <1>4, <2>1
    <2> QED
      BY <2>2
  <1> QED
    BY <1>2, <1>3, <1>4

(* The request of caller u has number i before and after the step. *)
Waits(u, i) == /\ id[u] = i /\ id'[u] = i
               /\ room'[u] = room[u]
               /\ UNCHANGED <<sub, pub, rooms>>

LEMMA SameServers ==
    ASSUME UNCHANGED <<sub, pub, rooms>>
    PROVE  /\ Subscribers' = Subscribers
           /\ \A s : NumSub(s)' = NumSub(s) /\ RoomNames(s)' = RoomNames(s)
           /\ \A S : NamesOf(S)' = NamesOf(S) /\ \A r : Members(S, r)' = Members(S, r)
  BY DEF Subscribers, NumSub, NamesOf, Members, RoomNames

(* Whom the request of u has counted, after the step. *)
LEMMA CountedAfter ==
    ASSUME NEW u \in Callers, NEW i, Waits(u, i)
    PROVE  /\ Counted(u) = {s \in Subscribers : /\ pub[s] = "ok"
                                                /\ s \notin Asked(i)
                                                /\ s \notin Replied(u[1], i)}
           /\ Counted(u)' = {s \in Subscribers : /\ pub[s] = "ok"
                                                 /\ s \notin Asked(i)'
                                                 /\ s \notin Replied(u[1], i)'}
  <1>1. Asked(id[u])' = Asked(i)' /\ Replied(u[1], id[u])' = Replied(u[1], i)'
    BY DEF Asked, Replied, Waits
  <1>2. Subscribers' = Subscribers /\ pub' = pub
    BY SameServers DEF Waits
  <1> QED
    BY <1>1, <1>2 DEF Counted, Waits

(* What is to be shown of it then. *)
LEMMA RequestAfter ==
    ASSUME NEW u \in Callers, NEW i, Waits(u, i), NEW r, r = room[u],
           NEW C, C = Counted(u)',
           pc'[u] = "wait", req'[u].numSub = NumSub(u[1]),
           AskedOnce(i, r)', RepliedOnce(u[1], i, r)',
           IF sub[u[1]] = "up"
           THEN /\ req'[u].msgCount = Cardinality(C)
                /\ req'[u].connections = Cardinality(Members(C, r))
                /\ req'[u].rooms = NamesOf(C)
           ELSE req'[u].msgCount = 0
    PROVE  RequestOK(u)'
  <1>1. AskedOnce(id[u], room[u])' /\ RepliedOnce(u[1], id[u], room[u])'
    BY DEF AskedOnce, RepliedOnce, Asked, Waits
  <1>2. NumSub(u[1])' = NumSub(u[1]) /\ sub' = sub
    BY SameServers DEF Waits
  <1>3. /\ Members(Counted(u), room[u])' = Members(C, r)
        /\ NamesOf(Counted(u))' = NamesOf(C)
        /\ Cardinality(Counted(u))' = Cardinality(C)
    <2>1. Members(Counted(u), room[u])' = Members(C, r)
      BY DEF Members, Waits
    <2>2. NamesOf(Counted(u))' = NamesOf(C)
      BY DEF NamesOf, RoomNames, Waits
    <2> QED
      BY <2>1, <2>2
  <1>4. CountOK(u)'
    BY <1>2, <1>3 DEF CountOK
  <1> QED
    BY <1>1, <1>2, <1>4 DEF RequestOK

(* A step that is not about the request of caller u. *)
LEMMA Undisturbed ==
    ASSUME NEW u \in Callers, NEW i, RequestOK(u), Waits(u, i),
           pc'[u] = pc[u], req'[u] = req[u],
           \A q \in Servers : Same({"len", "all"}, inbox'[q], inbox[q], i),
           Same({"reply"}, inbox'[u[1]], inbox[u[1]], i)
    PROVE  RequestOK(u)'
  <1>1. CASE pc[u] = "wait"
    <2>1. Asked(i)' = Asked(i) /\ Replied(u[1], i)' = Replied(u[1], i)
      BY SameAsked, SameReplied
    <2>2. Counted(u)' = Counted(u)
      BY <2>1, CountedAfter
    <2>3. AskedOnce(i, room[u]) /\ RepliedOnce(u[1], i, room[u])
      BY <1>1 DEF RequestOK, Waits
    <2> DEFINE r == room[u]
    <2>4. ASSUME NEW x, x = r
          PROVE  AskedOnce(i, x)' /\ RepliedOnce(u[1], i, x)'
      BY <2>1, <2>3, <2>4, SameAskedOnce, SameRepliedOnce DEF Waits
    <2>5. PICK x : x = r
      OBVIOUS
    <2>6. PICK C : C = Counted(u)
      OBVIOUS
    <2>7. /\ req'[u].numSub = NumSub(u[1])
          /\ IF sub[u[1]] = "up"
             THEN /\ req'[u].msgCount = Cardinality(C)
                  /\ req'[u].connections = Cardinality(Members(C, x))
                  /\ req'[u].rooms = NamesOf(C)
             ELSE req'[u].msgCount = 0
      BY <1>1, <2>5, <2>6 DEF RequestOK, CountOK
    <2>8. AskedOnce(i, x)' /\ RepliedOnce(u[1], i, x)'
      BY <2>4, <2>5
    <2>9. C = Counted(u)' /\ x = room[u] /\ pc'[u] = "wait"
      BY <1>1, <2>2, <2>5, <2>6
    <2> QED
      BY <2>7, <2>8, <2>9, RequestAfter
  <1>2. CASE pc[u] # "wait"
    BY <1>2, SameServers DEF RequestOK, Waits
  <1> QED
    BY <1>1, <1>2

(* Inbox new is old with m after it. *)
Longer(new, old, m) ==
    /\ Len(old) \in Nat /\ Len(new) = Len(old) + 1
    /\ new[Len(old) + 1] = m
    /\ \A j \in 1..Len(old) : new[j] = old[j]

LEMMA PublishElements ==
    ASSUME NEW s, NEW q \in Servers, NEW box \in [Servers -> Seq(Messages)],
           NEW m \in Messages
    PROVE  IF q \in Subscribers /\ pub[s] = "ok"
           THEN Longer(Publish(s, m, box)[q], box[q], m)
           ELSE Publish(s, m, box)[q] = box[q]
  <1>1. Longer(Append(box[q], m), box[q], m)
    BY DEF Longer
  <1> QED
    BY <1>1 DEF Publish

(* The number of a request or reply in an inbox is a number. *)
LEMMA MessageNumber ==
    ASSUME RedisTypeOK, NEW q \in Servers, NEW j \in 1..Len(inbox[q]), NEW i,
           IsRequest(inbox[q][j], i) \/ IsReply(inbox[q][j], i)
    PROVE  i \in Ids
  <1>1. inbox[q][j] \in Messages
    BY DEF RedisTypeOK
  <1> QED
    BY <1>1, MessageFields DEF IsRequest, IsReply, About

(* A caller that has not published its request: no message is about it. *)
LEMMA NotYetAsked ==
    ASSUME RedisInv, NEW t \in Callers, pc[t] = "ask", NEW i, i = id[t],
           NEW q \in Servers, NEW j \in 1..Len(inbox[q])
    PROVE  ~IsRequest(inbox[q][j], i) /\ ~IsReply(inbox[q][j], i)
  BY MessageNumber DEF RedisInv, SendInv, RequestInv, NumbersUsed

LEMMA NobodyCounted ==
    ASSUME NEW r
    PROVE  Cardinality({}) = 0 /\ Cardinality(Members({}, r)) = 0 /\ NamesOf({}) = {}
  <1>1. Members({}, r) = {} /\ NamesOf({}) = {}
    BY DEF Members, NamesOf
  <1> QED
    BY <1>1, FS_EmptySet

(* The request is published: everybody is asked, nobody has replied. *)
LEMMA RequestPublished ==
    ASSUME RedisInv, NEW t \in Callers, t \in quiet, PublishRequest(t), pub[t[1]] = "ok"
    PROVE  RequestOK(t)'
  <1> DEFINE k == IF op[t] = "len" THEN "len" ELSE "all"
             m == [kind |-> k, from |-> t[1], id |-> id[t], room |-> room[t]]
  <1>i. PICK i : i = id[t]
    OBVIOUS
  <1>r. PICK r : r = room[t]
    OBVIOUS
  <1>t. t \in Threads /\ t[1] \in Servers
    BY ServerOf DEF Threads
  <1>b. inbox \in [Servers -> Seq(Messages)]
    BY DEF RedisInv, SendInv, RedisTypeOK
  <1>1. pc[t] = "ask" /\ pc'[t] = "wait" /\ req' = req /\ Waits(t, i)
    BY <1>i, <1>t DEF PublishRequest, Goto, Waits, RedisInv, SendInv, RedisTypeOK
  <1>2. req[t] = [NoRequest EXCEPT !.numSub = NumSub(t[1])]
    BY <1>1 DEF RedisInv, RequestInv, RequestOK
  <1>m. m.id = i /\ m.room = r /\ m.kind \in {"len", "all"} /\ m.kind # "reply"
    BY <1>i, <1>r
  <1>M. m \in Messages
    <2>1. room[t] \in Rooms /\ id[t] \in Ids
      BY <1>1, <1>t, NumberType DEF RedisInv, SendInv, RedisTypeOK
    <2> QED
      BY <1>t, <2>1 DEF Messages
  <1>3. \A q \in Servers : IF q \in Subscribers THEN Longer(inbox'[q], inbox[q], m)
                                                 ELSE inbox'[q] = inbox[q]
    <2>1. inbox' = Publish(t[1], m, inbox)
      BY DEF PublishRequest
    <2> HIDE DEF m
    <2> QED
      BY <1>b, <1>M, <2>1, PublishElements
  <1> HIDE DEF m
  <1>4. ASSUME NEW q \in Servers, NEW j \in 1..Len(inbox'[q])
        PROVE  /\ ~IsReply(inbox'[q][j], i)
               /\ IsRequest(inbox'[q][j], i) =>
                     q \in Subscribers /\ j = Len(inbox[q]) + 1 /\ inbox'[q][j] = m
    <2>1. inbox[q] \in Seq(Messages)
      BY <1>b
    <2>2. CASE j \in 1..Len(inbox[q])
      <3>1. inbox'[q][j] = inbox[q][j]
        BY <1>3, <2>1, <2>2 DEF Longer
      <3> QED
        BY <1>1, <1>i, <2>2, <3>1, NotYetAsked
    <2>3. CASE j \notin 1..Len(inbox[q])
      <3>1. q \in Subscribers /\ j = Len(inbox[q]) + 1 /\ inbox'[q][j] = m
        BY <1>3, <2>1, <2>3 DEF Longer
      <3> QED
        BY <1>m, <3>1 DEF IsReply, About
    <2> QED
      BY <2>2, <2>3
  <1>5. ASSUME NEW q \in Subscribers
        PROVE  q \in Asked(i)'
    <2>1. q \in Servers /\ inbox[q] \in Seq(Messages)
      BY <1>b DEF Subscribers
    <2>2. /\ Len(inbox[q]) + 1 \in 1..Len(inbox'[q])
          /\ inbox'[q][Len(inbox[q]) + 1] = m
      BY <1>3, <2>1 DEF Longer
    <2>3. IsRequest(m, i)
      BY <1>m DEF IsRequest, About
    <2> QED
      BY <2>1, <2>2, <2>3 DEF Asked
  <1>6. AskedOnce(i, r)'
    BY <1>4, <1>m DEF AskedOnce
  <1>7. RepliedOnce(t[1], i, r)'
    BY <1>4, <1>t DEF RepliedOnce
  <1>8. Counted(t)' = {}
    BY <1>1, <1>5, CountedAfter
  <1>9. /\ req'[t].numSub = NumSub(t[1]) /\ req'[t].msgCount = 0
        /\ req'[t].connections = 0 /\ req'[t].rooms = {}
    BY <1>1, <1>2 DEF NoRequest
  <1> QED
    BY <1>1, <1>r, <1>6, <1>7, <1>8, <1>9, NobodyCounted, RequestAfter

(* Server s replies to the request of u, which has seen no change: it is not
   asked again, and its reply is the only one from it. *)
LEMMA RequestAnswered ==
    ASSUME RedisInv, NEW s \in Servers, inbox[s] # <<>>, NEW m, m = Head(inbox[s]),
           OnRequest(s, m), NEW u \in quiet, m.id = id[u], pc[u] = "wait"
    PROVE  RequestOK(u)'
  <1>i. PICK i : i = id[u]
    OBVIOUS
  <1>r. PICK r : r = room[u]
    OBVIOUS
  <1>q. PICK q : q = u[1]
    OBVIOUS
  <1>b. inbox \in [Servers -> Seq(Messages)]
    BY DEF RedisInv, SendInv, RedisTypeOK
  <1>t. u \in Callers /\ u[1] \in Servers /\ q \in Servers
    BY <1>q, ServerOf DEF Threads, RedisInv, SendInv, RedisTypeOK
  <1>1. /\ Waits(u, i) /\ pc'[u] = "wait" /\ req' = req /\ UNCHANGED <<sub, pub, rooms>>
        /\ s \in Subscribers
    BY <1>i DEF OnRequest, Waits, callVars, Receive, Subscribers
  <1>o. /\ AskedOnce(i, r) /\ RepliedOnce(q, i, r)
        /\ CountOK(u) /\ req[u].numSub = NumSub(u[1])
    BY <1>i, <1>r, <1>q DEF RedisInv, RequestInv, RequestOK
  <1>m. m \in Messages /\ IsRequest(m, i)
    BY <1>i, RestType DEF RedisInv, SendInv, OnRequest, IsRequest, About
  <1>h. 1 \in 1..Len(inbox[s]) /\ inbox[s][1] = m /\ m.room = r /\ s \in Asked(i)
    <2>1. 1 \in 1..Len(inbox[s]) /\ inbox[s][1] = m
      BY <1>b
    <2> QED
      BY <1>m, <1>o, <2>1 DEF AskedOnce, Asked
  <1>a. PICK a : a = Reply(s, m)
    OBVIOUS
  <1>A. /\ a.kind = "reply" /\ a.from = s /\ a.id = i /\ a.rooms = RoomNames(s)
        /\ a.n = Cardinality(rooms[s][r])
        /\ IsReply(a, i) /\ ~IsRequest(a, i)
    BY <1>a, <1>i, <1>h DEF Reply, IsReply, IsRequest, About
  <1>T. a \in Messages
    BY <1>a, <1>m, ReplyType DEF RedisInv, SendInv, OnRequest
  <1>2. \A p \in Servers :
           IF p \in Subscribers /\ pub[s] = "ok" THEN Longer(inbox'[p], Rest(s)[p], a)
                                               ELSE inbox'[p] = Rest(s)[p]
    <2>1. Rest(s) \in [Servers -> Seq(Messages)]
      BY RestType DEF RedisInv, SendInv
    <2> QED
      BY <1>a, <1>T, <2>1, PublishElements DEF OnRequest
  <1>3. /\ Rest(s)[s] = Tail(inbox[s])
        /\ \A p \in Servers \ {s} : Rest(s)[p] = inbox[p]
        /\ \A p \in Servers : Rest(s)[p] \in Seq(Messages)
    BY <1>b DEF Rest
  (* the requests *)
  <1>4. ASSUME NEW p \in Servers, NEW j \in 1..Len(inbox'[p]), IsRequest(inbox'[p][j], i)
        PROVE  p # s /\ j \in 1..Len(inbox[p]) /\ inbox'[p][j] = inbox[p][j]
    <2>1. j \in 1..Len(Rest(s)[p]) /\ inbox'[p][j] = Rest(s)[p][j]
      BY <1>2, <1>3, <1>4, <1>A DEF Longer
    <2>2. p # s
      <3> SUFFICES ASSUME p = s PROVE FALSE
        OBVIOUS
      <3>1. j + 1 \in 1..Len(inbox[s]) /\ inbox'[p][j] = inbox[s][j + 1] /\ j + 1 # 1
        BY <1>3, <1>b, <2>1
      <3> QED
        BY <1>4, <1>h, <1>m, <1>o, <3>1 DEF AskedOnce
    <2> QED
      BY <1>3, <2>1, <2>2
  <1>5. ASSUME NEW p \in Servers, NEW j \in 1..Len(inbox[p]), p # s
        PROVE  j \in 1..Len(inbox'[p]) /\ inbox'[p][j] = inbox[p][j]
    BY <1>2, <1>3, <1>5 DEF Longer
  <1>6. Asked(i)' = Asked(i) \ {s}
    BY <1>4, <1>5 DEF Asked
  <1>7. AskedOnce(i, r)'
    BY <1>4, <1>o DEF AskedOnce
  (* the replies *)
  <1>8. Same({"reply"}, Rest(s)[q], inbox[q], i)
    <2>1. ~About({"reply"}, m, i)
      BY <1>m DEF IsRequest, About
    <2> QED
      BY <1>t, <2>1, RestSame DEF RedisInv, SendInv
  <1>9. PICK d \in {0, 1} :
        /\ \A j \in 1..Len(Rest(s)[q]) : IsReply(Rest(s)[q][j], i) =>
              j + d \in 1..Len(inbox[q]) /\ inbox[q][j + d] = Rest(s)[q][j]
        /\ \A j \in 1..Len(inbox[q]) : IsReply(inbox[q][j], i) =>
              j - d \in 1..Len(Rest(s)[q]) /\ Rest(s)[q][j - d] = inbox[q][j]
    BY <1>8 DEF Same, IsReply
  <1>10. ASSUME NEW j \in 1..Len(inbox'[q]), IsReply(inbox'[q][j], i)
         PROVE  \/ j + d \in 1..Len(inbox[q]) /\ inbox[q][j + d] = inbox'[q][j]
                \/ /\ j = Len(inbox'[q]) /\ inbox'[q][j] = a
                   /\ q \in Subscribers /\ pub[s] = "ok"
    <2>1. Rest(s)[q] \in Seq(Messages)
      BY <1>3, <1>t
    <2>2. CASE j \in 1..Len(Rest(s)[q])
      <3>1. inbox'[q][j] = Rest(s)[q][j]
        BY <1>2, <1>t, <2>1, <2>2 DEF Longer
      <3> QED
        BY <1>9, <1>10, <2>2, <3>1
    <2>3. CASE j \notin 1..Len(Rest(s)[q])
      BY <1>2, <1>t, <2>1, <2>3 DEF Longer
    <2> QED
      BY <2>2, <2>3
  <1>11. ASSUME NEW j \in 1..Len(inbox[q]), IsReply(inbox[q][j], i)
         PROVE  j - d \in 1..Len(inbox'[q]) /\ inbox'[q][j - d] = inbox[q][j]
    <2>1. Rest(s)[q] \in Seq(Messages)
      BY <1>3, <1>t
    <2>2. j - d \in 1..Len(Rest(s)[q]) /\ Rest(s)[q][j - d] = inbox[q][j]
      BY <1>9, <1>11
    <2> QED
      BY <1>2, <1>t, <2>1, <2>2 DEF Longer
  <1>12. q \in Subscribers /\ pub[s] = "ok" => Len(inbox'[q]) \in 1..Len(inbox'[q])
                                               /\ inbox'[q][Len(inbox'[q])] = a
    BY <1>2, <1>3, <1>t DEF Longer
  <1>13. Replied(q, i)' = Replied(q, i) \cup
                          (IF q \in Subscribers /\ pub[s] = "ok" THEN {s} ELSE {})
    <2>1. ASSUME NEW p \in Servers, p \in Replied(q, i)
          PROVE  p \in Replied(q, i)'
      <3>1. PICK j \in 1..Len(inbox[q]) : IsReply(inbox[q][j], i) /\ inbox[q][j].from = p
        BY <2>1 DEF Replied
      <3> QED
        BY <1>11, <3>1 DEF Replied
    <2>2. q \in Subscribers /\ pub[s] = "ok" => s \in Replied(q, i)'
      BY <1>12, <1>A DEF Replied
    <2>3. ASSUME NEW p \in Servers, p \in Replied(q, i)'
          PROVE  p \in Replied(q, i) \/ (p = s /\ q \in Subscribers /\ pub[s] = "ok")
      <3>1. PICK j \in 1..Len(inbox'[q]) :
                IsReply(inbox'[q][j], i) /\ inbox'[q][j].from = p
        BY <2>3 DEF Replied
      <3> QED
        BY <1>10, <1>A, <3>1 DEF Replied
    <2>4. Replied(q, i)' \subseteq Servers /\ Replied(q, i) \subseteq Servers
      BY DEF Replied
    <2> QED
      BY <2>1, <2>2, <2>3, <2>4
  <1>14. RepliedOnce(q, i, r)'
    <2> SUFFICES ASSUME NEW j \in 1..Len(inbox'[q]), IsReply(inbox'[q][j], i)
                 PROVE  LET p == inbox'[q][j].from
                        IN /\ p \in Subscribers /\ pub[p] = "ok" /\ p \notin Asked(i)'
                           /\ inbox'[q][j].n = Cardinality(rooms[p][r])
                           /\ inbox'[q][j].rooms = RoomNames(p)
                           /\ \A n \in 1..Len(inbox'[q]) :
                                IsReply(inbox'[q][n], i) /\ inbox'[q][n].from = p => n = j
      BY <1>1, SameServers DEF RepliedOnce
    <2>o. \A n \in 1..Len(inbox[q]) : IsReply(inbox[q][n], i) => inbox[q][n].from # s
      BY <1>h, <1>o DEF RepliedOnce
    <2>1. CASE j + d \in 1..Len(inbox[q]) /\ inbox[q][j + d] = inbox'[q][j]
      <3> DEFINE p == inbox[q][j + d].from
      <3>1. /\ p \in Subscribers /\ pub[p] = "ok" /\ p \notin Asked(i) /\ p # s
            /\ inbox[q][j + d].n = Cardinality(rooms[p][r])
            /\ inbox[q][j + d].rooms = RoomNames(p)
            /\ \A n \in 1..Len(inbox[q]) :
                  IsReply(inbox[q][n], i) /\ inbox[q][n].from = p => n = j + d
        BY <1>o, <2>1, <2>o DEF RepliedOnce
      <3>2. ASSUME NEW n \in 1..Len(inbox'[q]), IsReply(inbox'[q][n], i),
                   inbox'[q][n].from = p
            PROVE  n = j
        <4>1. n + d \in 1..Len(inbox[q]) /\ inbox[q][n + d] = inbox'[q][n]
          BY <1>10, <1>A, <3>1, <3>2
        <4>2. n + d = j + d
          BY <3>1, <3>2, <4>1
        <4> QED
          BY <4>2
      <3> QED
        BY <1>6, <2>1, <3>1, <3>2
    <2>2. CASE /\ j = Len(inbox'[q]) /\ inbox'[q][j] = a
               /\ q \in Subscribers /\ pub[s] = "ok"
      <3>1. ASSUME NEW n \in 1..Len(inbox'[q]), IsReply(inbox'[q][n], i),
                   inbox'[q][n].from = s
            PROVE  n = j
        BY <1>10, <2>2, <2>o, <3>1
      <3> QED
        BY <1>1, <1>6, <1>A, <2>2, <3>1
    <2> QED
      BY <1>10, <2>1, <2>2
  <1>15. sub[u[1]] = "up" => Counted(u)' = Counted(u)
    <2> SUFFICES ASSUME sub[u[1]] = "up" PROVE Counted(u)' = Counted(u)
      OBVIOUS
    <2>1. q \in Subscribers
      BY <1>q, <1>t DEF Subscribers
    <2>2. /\ Counted(u) = {p \in Subscribers : /\ pub[p] = "ok"
                                               /\ p \notin Asked(i)
                                               /\ p \notin Replied(q, i)}
          /\ Counted(u)' = {p \in Subscribers : /\ pub[p] = "ok"
                                                /\ p \notin Asked(i)'
                                                /\ p \notin Replied(q, i)'}
      BY <1>1, <1>q, <1>t, CountedAfter
    <2> QED
      BY <1>6, <1>13, <1>h, <2>1, <2>2
  <1>c. PICK C : C = Counted(u)'
    OBVIOUS
  <1>16. IF sub[u[1]] = "up"
         THEN /\ req'[u].msgCount = Cardinality(C)
              /\ req'[u].connections = Cardinality(Members(C, r))
              /\ req'[u].rooms = NamesOf(C)
         ELSE req'[u].msgCount = 0
    BY <1>1, <1>o, <1>r, <1>15, <1>c DEF CountOK
  <1>17. RepliedOnce(u[1], i, r)'
    BY <1>14, <1>q
  <1> QED
    BY <1>1, <1>c, <1>o, <1>r, <1>t, <1>7, <1>16, <1>17, RequestAfter

(* One more server is counted. *)
LEMMA CountOneMore ==
    ASSUME RedisTypeOK, NEW C \in SUBSET Servers, NEW s \in Servers \ C, NEW r \in Rooms
    PROVE  /\ Cardinality(C \cup {s}) = Cardinality(C) + 1
           /\ Cardinality(Members(C \cup {s}, r))
                = Cardinality(Members(C, r)) + Cardinality(rooms[s][r])
           /\ NamesOf(C \cup {s}) = NamesOf(C) \cup RoomNames(s)
  <1> DEFINE M == Members(C, r)
             N == {s} \X rooms[s][r]
  <1>f. /\ IsFiniteSet(C) /\ IsFiniteSet(rooms[s][r]) /\ rooms[s][r] \subseteq Conns
        /\ IsFiniteSet(Servers \X Conns)
    <2>1. rooms[s][r] \subseteq Conns
      BY DEF RedisTypeOK
    <2> QED
      BY <2>1, FiniteSystem, FS_Subset, FS_Product
  <1>1. Cardinality(C \cup {s}) = Cardinality(C) + 1
    BY <1>f, FS_AddElement
  <1>2. Members(C \cup {s}, r) = M \cup N
    BY <1>f DEF Members
  <1>3. M \cap N = {} /\ M \subseteq Servers \X Conns
    BY DEF Members
  <1>4. IsFiniteSet(M)
    BY <1>3, <1>f, FS_Subset
  <1>5. IsFiniteSet(N) /\ Cardinality(N) = Cardinality(rooms[s][r])
    <2>1. IsFiniteSet({s}) /\ Cardinality({s}) = 1
      BY FS_Singleton
    <2>2. Cardinality(rooms[s][r]) \in Nat
      BY <1>f, FS_CardinalityType
    <2>3. IsFiniteSet(N) /\ Cardinality(N) = Cardinality({s}) * Cardinality(rooms[s][r])
      BY <1>f, <2>1, FS_Product
    <2> QED
      BY <2>1, <2>2, <2>3
  <1>6. Cardinality(M \cup N) = Cardinality(M) + Cardinality(N)
    <2> HIDE DEF M, N
    <2>1. Cardinality(M \cup N) = Cardinality(M) + Cardinality(N) - Cardinality(M \cap N)
      BY <1>4, <1>5, FS_Union
    <2>2. Cardinality(M \cap N) = 0
      BY <1>3, FS_EmptySet
    <2>3. Cardinality(M) \in Nat /\ Cardinality(N) \in Nat
      BY <1>4, <1>5, FS_CardinalityType
    <2> QED
      BY <2>1, <2>2, <2>3
  <1>7. NamesOf(C \cup {s}) = NamesOf(C) \cup RoomNames(s)
    BY DEF NamesOf
  <1> QED
    BY <1>1, <1>2, <1>5, <1>6, <1>7

(* The server of u receives a reply to its request, which has seen no change:
   it counts a server that it has not counted, and that one's rooms. *)
LEMMA ReplyCounted ==
    ASSUME RedisInv, NEW q \in Servers, inbox[q] # <<>>, NEW m, m = Head(inbox[q]),
           OnResponse(q, m), NEW u \in quiet, m.id = id[u], pc[u] = "wait", q = u[1]
    PROVE  RequestOK(u)'
  <1>i. PICK i : i = id[u]
    OBVIOUS
  <1>r. PICK r : r = room[u]
    OBVIOUS
  <1>b. inbox \in [Servers -> Seq(Messages)]
    BY DEF RedisInv, SendInv, RedisTypeOK
  <1>t. u \in Callers /\ u \in Threads /\ r \in Rooms
    BY <1>r DEF Threads, RedisInv, SendInv, RedisTypeOK
  <1>1. /\ Waits(u, i) /\ pc'[u] = "wait" /\ UNCHANGED <<sub, pub, rooms>>
        /\ sub[q] = "up"
    BY <1>i DEF OnResponse, Waits, callVars, Receive
  <1>2. /\ req[u] \in Requests
        /\ req'[u] = [req[u] EXCEPT !.msgCount = @ + 1, !.connections = @ + m.n,
                                    !.rooms = @ \cup m.rooms]
    BY <1>t, TypeParts DEF OnResponse, RedisInv, SendInv
  <1>3. /\ req'[u].numSub = req[u].numSub
        /\ req'[u].msgCount = req[u].msgCount + 1
        /\ req'[u].connections = req[u].connections + m.n
        /\ req'[u].rooms = req[u].rooms \cup m.rooms
    BY <1>2 DEF Requests
  <1>o. /\ AskedOnce(i, r) /\ RepliedOnce(q, i, r)
        /\ CountOK(u) /\ req[u].numSub = NumSub(u[1])
    BY <1>i, <1>r DEF RedisInv, RequestInv, RequestOK
  <1>m. m \in Messages /\ IsReply(m, i) /\ ~IsRequest(m, i)
    BY <1>i, RestType DEF RedisInv, SendInv, OnResponse, IsReply, IsRequest, About
  <1>s. PICK s : s = m.from
    OBVIOUS
  <1>h. /\ 1 \in 1..Len(inbox[q]) /\ inbox[q][1] = m
        /\ s \in Subscribers /\ s \in Servers /\ pub[s] = "ok" /\ s \notin Asked(i)
        /\ s \in Replied(q, i)
        /\ m.n = Cardinality(rooms[s][r]) /\ m.rooms = RoomNames(s)
        /\ \A k \in 1..Len(inbox[q]) :
              IsReply(inbox[q][k], i) /\ inbox[q][k].from = s => k = 1
    <2>1. 1 \in 1..Len(inbox[q]) /\ inbox[q][1] = m
      BY <1>b
    <2>2. /\ s \in Subscribers /\ pub[s] = "ok" /\ s \notin Asked(i)
          /\ m.n = Cardinality(rooms[s][r]) /\ m.rooms = RoomNames(s)
          /\ \A k \in 1..Len(inbox[q]) :
                IsReply(inbox[q][k], i) /\ inbox[q][k].from = s => k = 1
      BY <1>m, <1>o, <1>s, <2>1 DEF RepliedOnce
    <2>3. s \in Servers
      BY <2>2 DEF Subscribers
    <2> QED
      BY <1>m, <1>s, <2>1, <2>2, <2>3 DEF Replied
  <1>4. inbox' = Rest(q) /\ inbox'[q] = Tail(inbox[q])
    BY <1>b DEF OnResponse, Rest
  <1>5. \A p \in Servers : Same({"len", "all"}, inbox'[p], inbox[p], i)
    BY <1>4, <1>m, RestSame DEF RedisInv, SendInv, IsRequest
  <1>6. Asked(i)' = Asked(i) /\ AskedOnce(i, r)'
    BY <1>5, <1>o, SameAsked, SameAskedOnce
  <1>7. /\ \A j \in 1..Len(inbox'[q]) : /\ j + 1 \in 1..Len(inbox[q]) /\ j + 1 # 1
                                        /\ inbox[q][j + 1] = inbox'[q][j]
        /\ \A j \in 1..Len(inbox[q]) : j # 1 =>
              j - 1 \in 1..Len(inbox'[q]) /\ inbox'[q][j - 1] = inbox[q][j]
    BY <1>4, <1>b
  <1>8. Replied(q, i)' = Replied(q, i) \ {s}
    <2>1. s \notin Replied(q, i)'
      <3> SUFFICES ASSUME NEW j \in 1..Len(inbox'[q]), IsReply(inbox'[q][j], i),
                          inbox'[q][j].from = s
                   PROVE  FALSE
        BY DEF Replied
      <3>1. j + 1 \in 1..Len(inbox[q]) /\ j + 1 # 1 /\ inbox[q][j + 1] = inbox'[q][j]
        BY <1>7
      <3> QED
        BY <1>h, <3>1
    <2>2. ASSUME NEW p \in Servers, p # s, p \in Replied(q, i)
          PROVE  p \in Replied(q, i)'
      <3>1. PICK j \in 1..Len(inbox[q]) : IsReply(inbox[q][j], i) /\ inbox[q][j].from = p
        BY <2>2 DEF Replied
      <3>2. j # 1
        BY <1>h, <1>s, <2>2, <3>1
      <3> QED
        BY <1>7, <3>1, <3>2 DEF Replied
    <2>3. ASSUME NEW p \in Servers, p \in Replied(q, i)'
          PROVE  p \in Replied(q, i)
      <3>1. PICK j \in 1..Len(inbox'[q]) :
                IsReply(inbox'[q][j], i) /\ inbox'[q][j].from = p
        BY <2>3 DEF Replied
      <3>2. j + 1 \in 1..Len(inbox[q]) /\ inbox[q][j + 1] = inbox'[q][j]
        BY <1>7
      <3> QED
        BY <3>1, <3>2 DEF Replied
    <2>4. Replied(q, i)' \subseteq Servers /\ Replied(q, i) \subseteq Servers
      BY DEF Replied
    <2> QED
      BY <2>1, <2>2, <2>3, <2>4
  <1>9. RepliedOnce(q, i, r)'
    <2> SUFFICES ASSUME NEW j \in 1..Len(inbox'[q]), IsReply(inbox'[q][j], i)
                 PROVE  LET p == inbox'[q][j].from
                        IN /\ p \in Subscribers /\ pub[p] = "ok" /\ p \notin Asked(i)
                           /\ inbox'[q][j].n = Cardinality(rooms[p][r])
                           /\ inbox'[q][j].rooms = RoomNames(p)
                           /\ \A n \in 1..Len(inbox'[q]) :
                                IsReply(inbox'[q][n], i) /\ inbox'[q][n].from = p => n = j
      BY <1>1, <1>6, SameServers DEF RepliedOnce
    <2> DEFINE p == inbox[q][j + 1].from
    <2>1. /\ p \in Subscribers /\ pub[p] = "ok" /\ p \notin Asked(i)
          /\ inbox[q][j + 1].n = Cardinality(rooms[p][r])
          /\ inbox[q][j + 1].rooms = RoomNames(p)
          /\ \A n \in 1..Len(inbox[q]) :
                IsReply(inbox[q][n], i) /\ inbox[q][n].from = p => n = j + 1
      BY <1>o, <1>7 DEF RepliedOnce
    <2>2. ASSUME NEW n \in 1..Len(inbox'[q]), IsReply(inbox'[q][n], i),
                 inbox'[q][n].from = p
          PROVE  n = j
      <3>1. n + 1 \in 1..Len(inbox[q]) /\ inbox[q][n + 1] = inbox'[q][n]
        BY <1>7
      <3>2. n + 1 = j + 1
        BY <2>1, <2>2, <3>1
      <3> QED
        BY <3>2
    <2>3. inbox'[q][j] = inbox[q][j + 1]
      BY <1>7
    <2> QED
      BY <2>1, <2>2, <2>3
  <1>c. PICK C : C = Counted(u)
    OBVIOUS
  <1>10. /\ C \in SUBSET Servers /\ s \in Servers \ C
         /\ Counted(u)' = C \cup {s}
    <2>1. /\ C = {p \in Subscribers : /\ pub[p] = "ok"
                                      /\ p \notin Asked(i)
                                      /\ p \notin Replied(q, i)}
          /\ Counted(u)' = {p \in Subscribers : /\ pub[p] = "ok"
                                                /\ p \notin Asked(i)'
                                                /\ p \notin Replied(q, i)'}
      BY <1>1, <1>c, <1>t, CountedAfter
    <2>2. Subscribers \subseteq Servers
      BY DEF Subscribers
    <2> QED
      BY <1>6, <1>8, <1>h, <2>1, <2>2
  <1>11. /\ req'[u].msgCount = Cardinality(C \cup {s})
         /\ req'[u].connections = Cardinality(Members(C \cup {s}, r))
         /\ req'[u].rooms = NamesOf(C \cup {s})
    <2>1. /\ req[u].msgCount = Cardinality(C)
          /\ req[u].connections = Cardinality(Members(C, r))
          /\ req[u].rooms = NamesOf(C)
      BY <1>1, <1>c, <1>o, <1>r DEF CountOK
    <2>2. /\ Cardinality(C \cup {s}) = Cardinality(C) + 1
          /\ Cardinality(Members(C \cup {s}, r))
                = Cardinality(Members(C, r)) + Cardinality(rooms[s][r])
          /\ NamesOf(C \cup {s}) = NamesOf(C) \cup RoomNames(s)
      BY <1>10, <1>t, CountOneMore DEF RedisInv, SendInv
    <2> QED
      BY <1>3, <1>h, <2>1, <2>2
  <1>12. req'[u].numSub = NumSub(u[1]) /\ RepliedOnce(u[1], i, r)' /\ sub[u[1]] = "up"
    BY <1>1, <1>3, <1>9, <1>o
  <1>d. PICK D : D = C \cup {s}
    OBVIOUS
  <1> QED
    BY <1>1, <1>d, <1>r, <1>t, <1>6, <1>10, <1>11, <1>12, RequestAfter

-----------------------------------------------------------------------------
(* Every step *)

(* Requests and replies have no new number: what is there has one that was, or
   is the request of t. *)
LEMMA NumbersStay ==
    ASSUME RedisInv, SendInv', calls' >= calls,
           \A q \in Servers : \A j \in 1..Len(inbox'[q]) : \A i \in Ids :
               IsRequest(inbox'[q][j], i) \/ IsReply(inbox'[q][j], i) =>
                   \E p \in Servers : \E k \in 1..Len(inbox[p]) :
                       IsRequest(inbox[p][k], i) \/ IsReply(inbox[p][k], i),
           \A t \in Callers : pc'[t] = "ask" =>
               id'[t] > calls \/ (pc[t] = "ask" /\ id'[t] = id[t])
    PROVE  NumbersUsed'
  <1> SUFFICES ASSUME NEW q \in Servers, NEW j \in 1..Len(inbox'[q]), NEW i \in Ids,
                      IsRequest(inbox'[q][j], i) \/ IsReply(inbox'[q][j], i)
               PROVE  i <= calls' /\ \A t \in Callers : pc'[t] = "ask" => id'[t] # i
    BY DEF NumbersUsed
  <1>p. PICK p \in Servers : \E k \in 1..Len(inbox[p]) :
            IsRequest(inbox[p][k], i) \/ IsReply(inbox[p][k], i)
    OBVIOUS
  <1>1. PICK k \in 1..Len(inbox[p]) :
            IsRequest(inbox[p][k], i) \/ IsReply(inbox[p][k], i)
    BY <1>p
  <1>2. i <= calls /\ \A t \in Callers : pc[t] = "ask" => id[t] # i
    BY <1>1 DEF RedisInv, RequestInv, NumbersUsed
  <1>3. i \in Nat /\ calls \in Nat /\ calls' \in Nat
    BY MaxCallsNat DEF RedisInv, SendInv, RedisTypeOK, Ids
  <1>4. ASSUME NEW t \in Callers, pc'[t] = "ask"
        PROVE  id'[t] # i
    BY <1>2, <1>3, <1>4
  <1> QED
    BY <1>2, <1>3, <1>4

(* What is in an inbox after receiving was there before. *)
LEMMA RestOld ==
    ASSUME RedisTypeOK, NEW s \in Servers, inbox[s] # <<>>, NEW q \in Servers,
           NEW j \in 1..Len(Rest(s)[q])
    PROVE  \E k \in 1..Len(inbox[q]) : Rest(s)[q][j] = inbox[q][k]
  <1>1. CASE q = s
    <2>1. j + 1 \in 1..Len(inbox[q]) /\ Rest(s)[q][j] = inbox[q][j + 1]
      BY <1>1 DEF RedisTypeOK, Rest
    <2> QED
      BY <2>1
  <1>2. CASE q # s
    BY <1>2 DEF RedisTypeOK, Rest
  <1> QED
    BY <1>1, <1>2

(* A call that begins. *)
LEMMA CallRequests ==
    ASSUME RedisInv, SendInv', NEW t \in Callers, NEW r \in Rooms, NEW c \in Conns,
           CallStep(t, r, c)
    PROVE  RequestInv'
  <1>t. t \in Threads /\ Callers \subseteq Threads /\ quiet \subseteq Callers
    BY DEF Threads, RedisInv, SendInv, RedisTypeOK
  <1>1. /\ calls \in Nat /\ calls' = calls + 1 /\ id'[t] = calls + 1
        /\ \A u \in Callers \ {t} : /\ pc'[u] = pc[u] /\ id'[u] = id[u]
                                    /\ room'[u] = room[u] /\ req'[u] = req[u]
        /\ UNCHANGED <<sub, pub, rooms, inbox>>
    <2>1. /\ calls' = calls + 1 /\ id'[t] = calls + 1
          /\ \A u \in Callers \ {t} : /\ pc'[u] = pc[u] /\ id'[u] = id[u]
                                      /\ room'[u] = room[u]
      <3>1. PICK o, l : Begin(t, o, r, c, l)
        BY DEF CallStep, CallChange, Ask, Send, RoomsOfAll
      <3> QED
        BY <1>t, <3>1 DEF Begin, RedisInv, SendInv, RedisTypeOK
    <2>2. \A u \in Callers \ {t} : req'[u] = req[u]
      <3>1. req' = req \/ \E x : req' = [req EXCEPT ![t] = x]
        BY DEF CallStep, CallChange, Ask, Send, RoomsOfAll
      <3> QED
        BY <3>1 DEF RedisInv, SendInv, RedisTypeOK
    <2>3. UNCHANGED <<sub, pub, rooms, inbox>>
      BY DEF CallStep, CallChange, Ask, Send, RoomsOfAll
    <2> QED
      BY <2>1, <2>2, <2>3, MaxCallsNat DEF RedisInv, SendInv, RedisTypeOK
  <1>2. NumbersUsed'
    BY <1>1, NumbersStay
  <1>3. ASSUME NEW u \in quiet', u # t
        PROVE  RequestOK(u)'
    <2>1. u \in quiet /\ u \in Callers /\ u[1] \in Servers
      BY <1>3, <1>t, ServerOf DEF CallStep, CallChange, Ask, Send, RoomsOfAll
    <2>2. PICK i : i = id[u]
      OBVIOUS
    <2>3. Waits(u, i)
      BY <1>1, <1>3, <2>1, <2>2 DEF Waits
    <2>4. /\ \A q \in Servers : Same({"len", "all"}, inbox'[q], inbox[q], i)
          /\ Same({"reply"}, inbox'[u[1]], inbox[u[1]], i)
      BY <1>1, <2>1, SameBox DEF RedisInv, SendInv, RedisTypeOK
    <2> QED
      BY <1>1, <1>3, <2>1, <2>3, <2>4, Undisturbed DEF RedisInv, RequestInv
  <1>4. t \in quiet' => RequestOK(t)'
    <2>1. ASSUME NEW o, Ask(t, o, r, c) \/ RoomsOfAll(t, r, c)
          PROVE  RequestOK(t)'
      <3>1. /\ pc'[t] = "ask"
            /\ req'[t] = [NoRequest EXCEPT !.numSub = NumSub(t[1])]
        BY <1>t, <2>1 DEF Ask, RoomsOfAll, Begin, RedisInv, SendInv, RedisTypeOK
      <3>2. NumSub(t[1])' = NumSub(t[1])
        BY <1>1, SameServers
      <3> QED
        BY <3>1, <3>2 DEF RequestOK
    <2>2. ASSUME NEW o, CallChange(t, o, r, c) \/ Send(t, r, c)
          PROVE  RequestOK(t)'
      <3>1. pc'[t] \in {"locked", "emit"}
        BY <1>t, <2>2 DEF CallChange, Send, Begin, RedisInv, SendInv, RedisTypeOK
      <3> QED
        BY <3>1 DEF RequestOK
    <2> QED
      BY <2>1, <2>2 DEF CallStep
  <1> QED
    BY <1>2, <1>3, <1>4 DEF RequestInv

(* A step after which nobody is quiet, and which publishes nothing. *)
LEMMA NoisyRequests ==
    ASSUME RedisInv, SendInv', GoOn, quiet' = {},
           \A q \in Servers : inbox'[q] = inbox[q] \/ inbox'[q] = <<>>,
           \A t \in Callers : pc'[t] = "ask" => pc[t] = "ask"
    PROVE  RequestInv'
  <1>1. calls' >= calls /\ \A t \in Callers : pc'[t] = "ask" => id'[t] = id[t]
    BY MaxCallsNat DEF GoOn, RedisInv, SendInv, RedisTypeOK
  <1>2. ASSUME NEW q \in Servers, NEW j \in 1..Len(inbox'[q])
        PROVE  j \in 1..Len(inbox[q]) /\ inbox'[q][j] = inbox[q][j]
    BY <1>2
  <1>3. NumbersUsed'
    BY <1>1, <1>2, NumbersStay
  <1> QED
    BY <1>3 DEF RequestInv

(* A step of which quiet callers but t notice nothing: they are where they were,
   and it publishes and receives no request or reply. *)
LEMMA QuietRequests ==
    ASSUME RedisInv, SendInv', GoOn, UNCHANGED <<sub, pub, rooms>>,
           quiet' \subseteq quiet, NEW t,
           \A u \in Callers \ {t} : /\ pc'[u] = pc[u] /\ id'[u] = id[u]
                                    /\ room'[u] = room[u] /\ req'[u] = req[u],
           \A u \in Callers : u = t => pc'[u] \notin {"ask", "wait"},
           \A q \in Servers : \A i : /\ Same({"len", "all"}, inbox'[q], inbox[q], i)
                                     /\ Same({"reply"}, inbox'[q], inbox[q], i)
    PROVE  RequestInv'
  <1>t. quiet \subseteq Callers /\ \A u \in Callers : u[1] \in Servers
    BY ServerOf DEF Threads, RedisInv, SendInv, RedisTypeOK
  <1>1. calls' >= calls
    BY MaxCallsNat DEF GoOn, RedisInv, SendInv, RedisTypeOK
  <1>2. ASSUME NEW q \in Servers, NEW j \in 1..Len(inbox'[q]), NEW i \in Ids,
               IsRequest(inbox'[q][j], i) \/ IsReply(inbox'[q][j], i)
        PROVE  \E p \in Servers : \E k \in 1..Len(inbox[p]) :
                   IsRequest(inbox[p][k], i) \/ IsReply(inbox[p][k], i)
    <2>1. /\ Same({"len", "all"}, inbox'[q], inbox[q], i)
          /\ Same({"reply"}, inbox'[q], inbox[q], i)
      OBVIOUS
    <2>2. \E d \in {0, 1} : j + d \in 1..Len(inbox[q]) /\ inbox[q][j + d] = inbox'[q][j]
      BY <1>2, <2>1 DEF Same, IsRequest, IsReply
    <2> QED
      BY <1>2, <2>2
  <1>3. NumbersUsed'
    BY <1>1, <1>2, NumbersStay
  <1>4. ASSUME NEW u \in quiet'
        PROVE  RequestOK(u)'
    <2>1. CASE u = t
      BY <1>t, <2>1 DEF RequestOK
    <2>2. CASE u # t
      <3>1. u \in quiet /\ u \in Callers /\ u[1] \in Servers /\ RequestOK(u)
        BY <1>t DEF RedisInv, RequestInv
      <3>2. PICK i : i = id[u]
        OBVIOUS
      <3>3. Waits(u, i) /\ pc'[u] = pc[u] /\ req'[u] = req[u]
        BY <2>2, <3>1, <3>2 DEF Waits
      <3> QED
        BY <3>1, <3>3, Undisturbed
    <2> QED
      BY <2>1, <2>2
  <1> QED
    BY <1>3, <1>4 DEF RequestInv

LEMMA SameBoxes ==
    ASSUME RedisTypeOK, inbox' = inbox
    PROVE  \A q \in Servers : \A K, i : Same(K, inbox'[q], inbox[q], i)
  BY SameBox DEF RedisTypeOK

LEMMA WriteRequests ==
    ASSUME RedisInv, SendInv', NEW t \in Threads, WriteStep(t)
    PROVE  RequestInv'
  <1>t. Callers \subseteq Threads
    BY DEF Threads
  <1>g. GoOn
    BY WriteGoesOn DEF RedisInv
  <1>1. CASE Lock(t)
    <2>1. /\ UNCHANGED <<sub, pub, rooms, quiet, inbox, req, id, room>>
          /\ pc' = [pc EXCEPT ![t] = "locked"]
      BY <1>1 DEF Lock, Goto
    <2>2. \A q \in Servers : \A i : /\ Same({"len", "all"}, inbox'[q], inbox[q], i)
                                    /\ Same({"reply"}, inbox'[q], inbox[q], i)
      BY <2>1, SameBoxes DEF RedisInv, SendInv
    <2>3. /\ \A u \in Callers \ {t} : /\ pc'[u] = pc[u] /\ id'[u] = id[u]
                                      /\ room'[u] = room[u] /\ req'[u] = req[u]
          /\ \A u \in Callers : u = t => pc'[u] \notin {"ask", "wait"}
      BY <1>t, <2>1 DEF RedisInv, SendInv, RedisTypeOK
    <2> QED
      BY <1>g, <2>1, <2>2, <2>3, QuietRequests
  <1>2. ASSUME NEW o, NEW R, Change(t, o, R)
        PROVE  RequestInv'
    <2>1. quiet' = {} /\ inbox' = inbox /\ pc' = [pc EXCEPT ![t] = "idle"]
      BY <1>2 DEF Change, End
    <2>2. \A u \in Callers : pc'[u] = "ask" => pc[u] = "ask"
      BY <1>t, <2>1 DEF RedisInv, SendInv, RedisTypeOK
    <2> QED
      BY <1>g, <2>1, <2>2, NoisyRequests
  <1> QED
    BY <1>1, <1>2 DEF WriteStep, Join, Leave, LeaveAll, Clear, ClearLocal

LEMMA EmitRequests ==
    ASSUME RedisInv, SendInv', NEW t \in Threads, EmitReturns(t)
    PROVE  RequestInv'
  <1>t. Callers \subseteq Threads
    BY DEF Threads
  <1>1. /\ UNCHANGED <<sub, pub, rooms, quiet, inbox, req, id, room>>
        /\ \/ t \in Callers /\ pc' = [pc EXCEPT ![t] = "publish"]
           \/ t \notin Callers /\ pc' = [pc EXCEPT ![t] = "idle"]
    BY EmitParts DEF Goto
  <1>2. GoOn
    BY EmitGoesOn DEF RedisInv
  <1>3. \A q \in Servers : \A i : /\ Same({"len", "all"}, inbox'[q], inbox[q], i)
                                  /\ Same({"reply"}, inbox'[q], inbox[q], i)
    BY <1>1, SameBoxes DEF RedisInv, SendInv
  <1>4. /\ \A u \in Callers \ {t} : /\ pc'[u] = pc[u] /\ id'[u] = id[u]
                                    /\ room'[u] = room[u] /\ req'[u] = req[u]
        /\ \A u \in Callers : u = t => pc'[u] \notin {"ask", "wait"}
    BY <1>t, <1>1 DEF RedisInv, SendInv, RedisTypeOK
  <1> QED
    BY <1>1, <1>2, <1>3, <1>4, QuietRequests

(* Redis and the goroutines of publishClear. *)
LEMMA OtherRequests ==
    ASSUME RedisInv, SendInv', NEW s \in Servers,
           \/ Start(s) \/ SubLost(s) \/ PubFails(s)
           \/ \E i \in Ids, r \in Rooms : PublishClear(s, i, r)
    PROVE  RequestInv'
  <1>c. UNCHANGED callVars /\ GoOn
    BY SameGoesOn DEF RedisInv, Start, SubLost, PubFails, PublishClear
  <1>b. inbox \in [Servers -> Seq(Messages)]
    BY DEF RedisInv, SendInv, RedisTypeOK
  <1>1. CASE Start(s) \/ SubLost(s) \/ PubFails(s)
    <2>1. \A q \in Servers : inbox'[q] = inbox[q] \/ inbox'[q] = <<>>
      BY <1>1, <1>b DEF Start, SubLost, PubFails
    <2>2. quiet' = {}
      BY <1>1 DEF Start, SubLost, PubFails
    <2> QED
      BY <1>c, <2>1, <2>2, NoisyRequests DEF callVars
  <1>2. ASSUME NEW i \in Ids, NEW r \in Rooms, PublishClear(s, i, r)
        PROVE  RequestInv'
    <2> DEFINE m == [kind |-> "clear", from |-> s, room |-> r]
    <2>1. /\ m \in Messages
          /\ \A n : ~About({"len", "all"}, m, n) /\ ~About({"reply"}, m, n)
      BY DEF Messages, About
    <2>2. inbox' = Publish(s, m, inbox) /\ UNCHANGED <<sub, pub, rooms, req, quiet>>
      BY <1>2 DEF PublishClear
    <2> HIDE DEF m
    <2>3. \A q \in Servers : \A n : /\ Same({"len", "all"}, inbox'[q], inbox[q], n)
                                    /\ Same({"reply"}, inbox'[q], inbox[q], n)
      BY <1>b, <2>1, <2>2, PublishSame, SameBox
    <2>4. PICK t : t \notin Callers
      BY DispatchIsThread
    <2> QED
      BY <1>c, <2>2, <2>3, <2>4, QuietRequests DEF callVars
  <1> QED
    BY <1>1, <1>2

(* t publishes its request. *)
LEMMA PublishRequests ==
    ASSUME RedisInv, SendInv', NEW t \in Callers, PublishRequest(t)
    PROVE  RequestInv'
  <1> DEFINE k == IF op[t] = "len" THEN "len" ELSE "all"
             m == [kind |-> k, from |-> t[1], id |-> id[t], room |-> room[t]]
  <1>t. /\ t \in Threads /\ Callers \subseteq Threads /\ quiet \subseteq Callers
        /\ \A u \in Callers : u[1] \in Servers
    BY ServerOf DEF Threads, RedisInv, SendInv, RedisTypeOK
  <1>b. inbox \in [Servers -> Seq(Messages)]
    BY DEF RedisInv, SendInv, RedisTypeOK
  <1>1. /\ pc[t] = "ask" /\ pc'[t] \in {"wait", "idle"} /\ calls' = calls
        /\ \A u \in Callers \ {t} : /\ pc'[u] = pc[u] /\ id'[u] = id[u]
                                    /\ room'[u] = room[u] /\ req'[u] = req[u]
        /\ UNCHANGED <<sub, pub, rooms, quiet>>
    BY <1>t DEF PublishRequest, Goto, End, RedisInv, SendInv, RedisTypeOK
  <1>n. /\ id[t] \in Ids /\ id[t] <= calls
        /\ \A u \in Callers \ {t} : pc[u] # "idle" => id[u] # id[t]
    BY <1>1, NumberType DEF RedisInv, SendInv, CallsNumbered
  <1>2. inbox' = Publish(t[1], m, inbox)
    BY DEF PublishRequest
  <1>m. m.id = id[t] /\ m \in Messages
    <2>1. room[t] \in Rooms
      BY <1>t DEF RedisInv, SendInv, RedisTypeOK
    <2> QED
      BY <1>n, <1>t, <2>1 DEF Messages
  <1> HIDE DEF m
  <1>3. NumbersUsed'
    <2> SUFFICES ASSUME NEW q \in Servers, NEW j \in 1..Len(inbox'[q]), NEW i \in Ids,
                        IsRequest(inbox'[q][j], i) \/ IsReply(inbox'[q][j], i)
                 PROVE  i <= calls' /\ \A u \in Callers : pc'[u] = "ask" => id'[u] # i
      BY DEF NumbersUsed
    <2>1. \/ j \in 1..Len(inbox[q]) /\ inbox'[q][j] = inbox[q][j]
          \/ inbox'[q][j] = m
      <3>1. Longer(inbox'[q], inbox[q], m) \/ inbox'[q] = inbox[q]
        BY <1>2, <1>b, <1>m, PublishElements
      <3> QED
        BY <3>1 DEF Longer
    <2>2. CASE j \in 1..Len(inbox[q]) /\ inbox'[q][j] = inbox[q][j]
      BY <1>1, <2>2 DEF RedisInv, RequestInv, NumbersUsed
    <2>3. CASE inbox'[q][j] = m
      <3>1. i = id[t]
        BY <1>m, <2>3 DEF IsRequest, IsReply, About
      <3> QED
        BY <1>1, <1>n, <3>1
    <2> QED
      BY <2>1, <2>2, <2>3
  <1>4. ASSUME NEW u \in quiet, u # t, pc[u] \in {"ask", "wait"}
        PROVE  RequestOK(u)'
    <2>1. PICK i : i = id[u]
      OBVIOUS
    <2>2. Waits(u, i) /\ pc'[u] = pc[u] /\ req'[u] = req[u]
      BY <1>1, <1>4, <1>t, <2>1 DEF Waits
    <2>3. ~About({"len", "all"}, m, i) /\ ~About({"reply"}, m, i)
      BY <1>4, <1>m, <1>n, <1>t, <2>1 DEF About
    <2>4. \A q \in Servers : /\ Same({"len", "all"}, inbox'[q], inbox[q], i)
                             /\ Same({"reply"}, inbox'[q], inbox[q], i)
      BY <1>2, <1>b, <1>m, <2>3, PublishSame, SameBox
    <2> QED
      BY <1>t, <2>2, <2>4, Undisturbed DEF RedisInv, RequestInv
  <1>5. ASSUME t \in quiet
        PROVE  RequestOK(t)'
    <2>1. CASE pub[t[1]] = "ok"
      BY <1>5, <2>1, RequestPublished
    <2>2. CASE pub[t[1]] # "ok"
      <3>1. pc'[t] = "idle"
        BY <1>t, <2>2 DEF PublishRequest, End, RedisInv, SendInv, RedisTypeOK
      <3> QED
        BY <3>1 DEF RequestOK
    <2> QED
      BY <2>1, <2>2
  <1>6. ASSUME NEW u \in quiet, u # t, pc[u] \notin {"ask", "wait"}
        PROVE  RequestOK(u)'
    BY <1>1, <1>6, <1>t DEF RequestOK
  <1> QED
    BY <1>1, <1>3, <1>4, <1>5, <1>6 DEF RequestInv

LEMMA RequestRequests ==
    ASSUME RedisInv, SendInv', NEW t \in Callers, RequestStep(t)
    PROVE  RequestInv'
  <1>t. t \in Threads /\ Callers \subseteq Threads /\ t[1] \in Servers
    BY ServerOf DEF Threads
  <1>g. GoOn
    BY RequestGoesOn DEF RedisInv
  <1>b. inbox \in [Servers -> Seq(Messages)]
    BY DEF RedisInv, SendInv, RedisTypeOK
  <1>1. CASE PublishRequest(t)
    BY <1>1, PublishRequests
  <1>2. CASE PublishMessage(t) \/ Return(t)
    <2>1. /\ UNCHANGED <<sub, pub, rooms>> /\ quiet' \subseteq quiet /\ End(t)
          /\ \A u \in Callers \ {t} : req'[u] = req[u]
      BY <1>2 DEF PublishMessage, Return, RedisInv, SendInv, RedisTypeOK
    <2>2. /\ \A u \in Callers \ {t} : /\ pc'[u] = pc[u] /\ id'[u] = id[u]
                                      /\ room'[u] = room[u] /\ req'[u] = req[u]
          /\ \A u \in Callers : u = t => pc'[u] \notin {"ask", "wait"}
      BY <1>t, <2>1 DEF End, RedisInv, SendInv, RedisTypeOK
    <2>3. \A q \in Servers : \A n : /\ Same({"len", "all"}, inbox'[q], inbox[q], n)
                                    /\ Same({"reply"}, inbox'[q], inbox[q], n)
      <3>1. CASE Return(t)
        BY <3>1, SameBoxes DEF Return, RedisInv, SendInv
      <3>2. CASE PublishMessage(t)
        <4> DEFINE m == [kind |-> "event", from |-> t[1], id |-> id[t]]
        <4>1. /\ m \in Messages
              /\ \A n : ~About({"len", "all"}, m, n) /\ ~About({"reply"}, m, n)
          BY <1>t, <3>2, NumberType DEF Messages, About, PublishMessage, RedisInv
        <4>2. inbox' = Publish(t[1], m, inbox)
          BY <3>2 DEF PublishMessage
        <4> HIDE DEF m
        <4> QED
          BY <1>b, <4>1, <4>2, PublishSame, SameBox
      <3> QED
        BY <1>2, <3>1, <3>2
    <2> QED
      BY <1>g, <2>1, <2>2, <2>3, QuietRequests
  <1> QED
    BY <1>1, <1>2 DEF RequestStep

(* Server s receives a request. *)
LEMMA OnRequestRequests ==
    ASSUME RedisInv, SendInv', NEW s \in Servers, inbox[s] # <<>>, NEW m,
           m = Head(inbox[s]), OnRequest(s, m)
    PROVE  RequestInv'
  <1>t. quiet \subseteq Callers /\ \A u \in Callers : u[1] \in Servers
    BY ServerOf DEF Threads, RedisInv, SendInv, RedisTypeOK
  <1>b. /\ inbox \in [Servers -> Seq(Messages)] /\ Rest(s) \in [Servers -> Seq(Messages)]
        /\ m \in Messages
    BY RestType DEF RedisInv, SendInv, RedisTypeOK
  <1>a. PICK a : a = Reply(s, m)
    OBVIOUS
  <1>A. a \in Messages /\ a.id = m.id
    BY <1>a, <1>b, ReplyType DEF RedisInv, SendInv, OnRequest, Reply
  <1>1. /\ UNCHANGED <<sub, pub, rooms, quiet, pc, id, room, calls, req>>
        /\ inbox' = Publish(s, a, Rest(s))
    BY <1>a DEF OnRequest, callVars
  <1>2. NumbersUsed'
    <2>1. ASSUME NEW q \in Servers, NEW j \in 1..Len(inbox'[q]), NEW i \in Ids,
                 IsRequest(inbox'[q][j], i) \/ IsReply(inbox'[q][j], i)
          PROVE  \E p \in Servers : \E k \in 1..Len(inbox[p]) :
                     IsRequest(inbox[p][k], i) \/ IsReply(inbox[p][k], i)
      <3>1. \/ j \in 1..Len(Rest(s)[q]) /\ inbox'[q][j] = Rest(s)[q][j]
            \/ inbox'[q][j] = a
        <4>1. Longer(inbox'[q], Rest(s)[q], a) \/ inbox'[q] = Rest(s)[q]
          BY <1>1, <1>b, <1>A, PublishElements
        <4> QED
          BY <4>1 DEF Longer
      <3>2. CASE j \in 1..Len(Rest(s)[q]) /\ inbox'[q][j] = Rest(s)[q][j]
        BY <2>1, <3>2, RestOld DEF RedisInv, SendInv
      <3>3. CASE inbox'[q][j] = a
        <4>1. 1 \in 1..Len(inbox[s]) /\ inbox[s][1] = m
          BY <1>b
        <4>2. IsRequest(m, i)
          BY <1>A, <2>1, <3>3 DEF OnRequest, IsRequest, IsReply, About
        <4> QED
          BY <4>1, <4>2
      <3> QED
        BY <3>1, <3>2, <3>3
    <2>2. calls' >= calls
      BY <1>1, MaxCallsNat DEF RedisInv, SendInv, RedisTypeOK
    <2> QED
      BY <1>1, <2>1, <2>2, NumbersStay
  <1>3. ASSUME NEW u \in quiet
        PROVE  RequestOK(u)'
    <2>1. CASE pc[u] \notin {"ask", "wait"}
      BY <1>1, <2>1 DEF RequestOK
    <2>2. CASE pc[u] \in {"ask", "wait"} /\ m.id = id[u]
      <3>1. 1 \in 1..Len(inbox[s]) /\ inbox[s][1] = m
        BY <1>b
      <3>2. PICK i : i = id[u]
        OBVIOUS
      <3>3. IsRequest(m, i)
        BY <2>2, <3>2 DEF OnRequest, IsRequest, About
      <3>4. pc[u] # "ask"
        BY <1>t, <3>1, <3>2, <3>3, NotYetAsked
      <3> QED
        BY <2>2, <3>4, RequestAnswered
    <2>3. CASE pc[u] \in {"ask", "wait"} /\ m.id # id[u]
      <3>1. PICK i : i = id[u]
        OBVIOUS
      <3>2. \A K : ~About(K, m, i) /\ ~About(K, a, i)
        BY <1>A, <2>3, <3>1 DEF About
      <3>3. \A q \in Servers : /\ Same({"len", "all"}, inbox'[q], inbox[q], i)
                               /\ Same({"reply"}, inbox'[q], inbox[q], i)
        BY <1>1, <1>A, <1>b, <3>2, PublishSame, RestSame DEF RedisInv, SendInv
      <3>4. Waits(u, i) /\ RequestOK(u)
        BY <1>1, <3>1 DEF Waits, RedisInv, RequestInv
      <3> QED
        BY <1>1, <1>t, <3>3, <3>4, Undisturbed
    <2> QED
      BY <2>1, <2>2, <2>3
  <1> QED
    BY <1>1, <1>2, <1>3 DEF RequestInv

(* Server s receives a reply. *)
LEMMA OnResponseRequests ==
    ASSUME RedisInv, SendInv', NEW s \in Servers, inbox[s] # <<>>, NEW m,
           m = Head(inbox[s]), OnResponse(s, m)
    PROVE  RequestInv'
  <1>t. quiet \subseteq Callers /\ \A u \in Callers : u[1] \in Servers
    BY ServerOf DEF Threads, RedisInv, SendInv, RedisTypeOK
  <1>b. inbox \in [Servers -> Seq(Messages)]
    BY DEF RedisInv, SendInv, RedisTypeOK
  <1>1. /\ UNCHANGED <<sub, pub, rooms, quiet, pc, id, room, calls>>
        /\ inbox' = Rest(s)
    BY DEF OnResponse, callVars
  <1>m. m.kind = "reply"
    BY DEF OnResponse
  <1>2. NumbersUsed'
    <2>1. ASSUME NEW q \in Servers, NEW j \in 1..Len(inbox'[q])
          PROVE  \E k \in 1..Len(inbox[q]) : inbox'[q][j] = inbox[q][k]
      BY <1>1, RestOld DEF RedisInv, SendInv
    <2>2. calls' >= calls
      BY <1>1, MaxCallsNat DEF RedisInv, SendInv, RedisTypeOK
    <2>3. ASSUME NEW q \in Servers, NEW j \in 1..Len(inbox'[q]), NEW i \in Ids,
                 IsRequest(inbox'[q][j], i) \/ IsReply(inbox'[q][j], i)
          PROVE  \E p \in Servers : \E k \in 1..Len(inbox[p]) :
                     IsRequest(inbox[p][k], i) \/ IsReply(inbox[p][k], i)
      BY <2>1, <2>3
    <2> QED
      BY <1>1, <2>2, <2>3, NumbersStay
  <1>3. ASSUME NEW u \in quiet
        PROVE  RequestOK(u)'
    <2>1. CASE pc[u] \notin {"ask", "wait"}
      BY <1>1, <2>1 DEF RequestOK
    <2>2. CASE pc[u] \in {"ask", "wait"} /\ m.id = id[u] /\ s = u[1]
      <3>1. 1 \in 1..Len(inbox[s]) /\ inbox[s][1] = m
        BY <1>b
      <3>2. PICK i : i = id[u]
        OBVIOUS
      <3>3. IsReply(m, i)
        BY <1>m, <2>2, <3>2 DEF IsReply, About
      <3>4. pc[u] # "ask"
        BY <1>t, <3>1, <3>2, <3>3, NotYetAsked
      <3> QED
        BY <2>2, <3>4, ReplyCounted
    <2>3. CASE pc[u] \in {"ask", "wait"} /\ (m.id # id[u] \/ s # u[1])
      <3>1. PICK i : i = id[u]
        OBVIOUS
      <3>2. /\ ~About({"len", "all"}, m, i)
            /\ u[1] = s => ~About({"reply"}, m, i)
        BY <1>m, <2>3, <3>1 DEF About
      <3>3. /\ \A q \in Servers : Same({"len", "all"}, inbox'[q], inbox[q], i)
            /\ Same({"reply"}, inbox'[u[1]], inbox[u[1]], i)
        BY <1>1, <1>t, <3>2, RestSame DEF RedisInv, SendInv
      <3>4. Waits(u, i) /\ RequestOK(u) /\ pc'[u] = pc[u]
        BY <1>1, <3>1 DEF Waits, RedisInv, RequestInv
      <3>5. req'[u] = req[u]
        BY <1>t, <2>3 DEF OnResponse
      <3> QED
        BY <1>t, <3>3, <3>4, <3>5, Undisturbed
    <2> QED
      BY <2>1, <2>2, <2>3
  <1> QED
    BY <1>1, <1>2, <1>3 DEF RequestInv

LEMMA DispatchRequests ==
    ASSUME RedisInv, SendInv', NEW s \in Servers, DispatchStep(s)
    PROVE  RequestInv'
  <1>m. PICK m : m = Head(inbox[s])
    OBVIOUS
  <1>g. GoOn /\ inbox[s] # <<>>
    BY DispatchGoesOn DEF RedisInv, DispatchStep
  <1>1. CASE OnClear(s, m) \/ OnMessage(s, m)
    <2>1. /\ UNCHANGED <<sub, pub, rooms, quiet, req>> /\ inbox' = Rest(s)
          /\ m.kind \in {"clear", "event"}
      BY <1>1 DEF OnClear, OnMessage
    <2>2. \A u \in Callers : pc'[u] = pc[u] /\ id'[u] = id[u] /\ room'[u] = room[u]
      <3>1. \A u \in Callers : u \in Threads /\ u # Dispatch(s)
        BY DispatchIsThread DEF Threads
      <3>2. CASE UNCHANGED callVars
        BY <3>2 DEF callVars
      <3>3. CASE /\ pc' = [pc EXCEPT ![Dispatch(s)] = "lock"]
                 /\ room' = [room EXCEPT ![Dispatch(s)] = m.room]
                 /\ id' = id
        BY <3>1, <3>3 DEF RedisInv, SendInv, RedisTypeOK
      <3>4. CASE Goto(Dispatch(s), "emit")
        BY <3>1, <3>4 DEF Goto, RedisInv, SendInv, RedisTypeOK
      <3> QED
        BY <1>1, <3>2, <3>3, <3>4 DEF OnClear, OnMessage, EmitReceived
    <2>3. \A n : ~About({"len", "all"}, m, n) /\ ~About({"reply"}, m, n)
      BY <2>1 DEF About
    <2>4. \A q \in Servers : \A n : /\ Same({"len", "all"}, inbox'[q], inbox[q], n)
                                    /\ Same({"reply"}, inbox'[q], inbox[q], n)
      BY <1>g, <1>m, <2>1, <2>3, RestSame DEF RedisInv, SendInv
    <2>5. PICK t : t \notin Callers
      BY DispatchIsThread
    <2> QED
      BY <1>g, <2>1, <2>2, <2>4, <2>5, QuietRequests
  <1> QED
    BY <1>1, <1>g, <1>m, OnRequestRequests, OnResponseRequests DEF DispatchStep

-----------------------------------------------------------------------------
(* The invariant *)

LEMMA InitInv == Init => RedisInv
  <1> SUFFICES ASSUME Init PROVE RequestInv
    BY InitSends DEF RedisInv
  <1> QED
    BY DEF Init, RequestInv, NumbersUsed

LEMMA StepInv == RedisInv /\ [Next]_vars => RedisInv'
  <1> SUFFICES ASSUME RedisInv, [Next]_vars
               PROVE  RequestInv'
    BY StepSends DEF RedisInv
  <1>s. SendInv'
    BY StepSends DEF RedisInv
  <1>1. CASE UNCHANGED vars
    <2>1. /\ UNCHANGED <<sub, pub, rooms, quiet, pc, id, room, req, inbox>>
          /\ UNCHANGED callVars
      BY <1>1 DEF vars, callVars
    <2>2. \A q \in Servers : \A n : /\ Same({"len", "all"}, inbox'[q], inbox[q], n)
                                    /\ Same({"reply"}, inbox'[q], inbox[q], n)
      BY <2>1, SameBoxes DEF RedisInv, SendInv
    <2>3. ASSUME NEW u \in quiet'
          PROVE  RequestOK(u)'
      <3>1. PICK i : i = id[u]
        OBVIOUS
      <3>2. Waits(u, i) /\ u \in Callers /\ u[1] \in Servers /\ RequestOK(u)
        BY <2>1, <3>1, ServerOf
        DEF Waits, Threads, RedisInv, SendInv, RedisTypeOK, RequestInv
      <3> QED
        BY <2>1, <2>2, <3>2, Undisturbed
    <2>4. NumbersUsed'
      <3>1. calls' >= calls
        BY <2>1, MaxCallsNat DEF callVars, RedisInv, SendInv, RedisTypeOK
      <3> QED
        BY <1>s, <2>1, <3>1, NumbersStay
    <2> QED
      BY <2>3, <2>4 DEF RequestInv
  <1> QED
    BY <1>1, <1>s, CallRequests, WriteRequests, RequestRequests, DispatchRequests,
       EmitRequests, EmitSteps, OtherRequests DEF Next

(* Redis and the servers keep the invariant: what is under way has the types of
   the code, calls have numbers of their own, a broadcast is in an inbox at
   most once and only before the server has begun to emit it, and each
   subscriber is still to receive a request, has replied, or is counted. *)
THEOREM RedisInvariant == Spec => []RedisInv
  BY InitInv, StepInv, PTL DEF Spec

(* No server emits one broadcast twice (redis_broadcast.go:307-310
   skips the server's own), with any number of servers and callers, whatever is
   lost and whoever comes late. *)
THEOREM SendsOnce == Spec => []SendOnce
  <1>1. RedisInv => SendOnce
    BY DEF RedisInv, SendInv, BroadcastInv
  <1> QED
    BY <1>1, RedisInvariant, PTL

(* A request that has as many replies as it waits for has counted all
   subscribers. *)
LEMMA AllCounted ==
    ASSUME RedisInv, NEW t \in quiet, Return(t)
    PROVE  Counted(t) = Subscribers /\ CountOK(t) /\ sub[t[1]] = "up"
  <1>1. /\ req[t].numSub = NumSub(t[1]) /\ CountOK(t)
        /\ req[t].numSub \in 1..req[t].msgCount
        /\ req[t] \in Requests
    BY TypeParts DEF RedisInv, SendInv, RequestInv, RequestOK, Return, RedisTypeOK
  <1>2. sub[t[1]] = "up" /\ req[t].msgCount = Cardinality(Counted(t))
    BY <1>1 DEF CountOK, Requests
  <1>3. IsFiniteSet(Subscribers) /\ Counted(t) \subseteq Subscribers
    BY FiniteSystem, FS_Subset DEF Subscribers, Counted
  <1>4. NumSub(t[1]) = Cardinality(Subscribers)
    BY <1>1 DEF NumSub, Requests
  <1>5. IsFiniteSet(Counted(t)) /\ Cardinality(Counted(t)) \in Nat
        /\ Cardinality(Subscribers) \in Nat
    BY <1>3, FS_Subset, FS_CardinalityType
  <1>6. Cardinality(Counted(t)) = Cardinality(Subscribers)
    <2>1. Cardinality(Counted(t)) <= Cardinality(Subscribers)
      BY <1>3, FS_Subset
    <2> QED
      BY <1>1, <1>2, <1>4, <1>5, <2>1
  <1> QED
    BY <1>1, <1>2, <1>3, <1>6, FS_Subset

(* Len and AllRooms are right (redis_broadcast.go:131-158, 253-284) for any
   number of servers and callers: a call that sees no change of rooms and
   subscribers returns the connections, or the rooms, of all of them. *)
THEOREM AnswersAreRight == Spec => AnswerIsRight
  <1>1. RedisInv /\ [Next]_vars =>
           [\A t \in Callers : Return(t) /\ t \in quiet =>
               IF op[t] = "len"
               THEN req[t].connections = Cardinality(Members(Subscribers, room[t]))
               ELSE req[t].rooms = NamesOf(Subscribers)]_vars
    BY AllCounted DEF CountOK
  <1> QED
    BY <1>1, RedisInvariant, PTL DEF Spec, AnswerIsRight
=============================================================================
