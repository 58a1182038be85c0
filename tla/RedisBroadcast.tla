--------------------------- MODULE RedisBroadcast ---------------------------
(***************************************************************************)
(* The redis adapter of redis_broadcast.go: the rooms of one namespace,    *)
(* kept by every server for its own connections.  A server publishes       *)
(* broadcasts and clears to the others; Len and AllRooms publish a request *)
(* and wait for as many replies as redis said there are subscribers.       *)
(*                                                                         *)
(* Each server has one goroutine that receives (dispatch) and any number   *)
(* of callers.  Redis delivers what is published to every subscriber, in   *)
(* one order.  A redigo connection that failed once fails for ever.        *)
(*                                                                         *)
(* Emit waits for the write goroutine of the connection, with the read     *)
(* lock held, and need not return (Connection).  The lock is Go's          *)
(* read-write lock: a waiting writer keeps new readers out.  The requests  *)
(* map has none; its accesses are taken as atomic.                         *)
(***************************************************************************)
EXTENDS Integers, Sequences, FiniteSets

CONSTANTS Servers,   \* the servers, each with an adapter for the namespace
          Late,      \* the servers that may come later than the others
          Callers,   \* pairs <<server, name>>: goroutines that call it
          Conns,     \* the connections of a server
          Rooms,     \* the rooms
          Nobody,    \* no goroutine
          MaxCalls,  \* bound on the number of calls
          Fragile    \* the redis connections that may fail

Dispatch(s) == <<s, "dispatch">>
Threads == Callers \cup {Dispatch(s) : s \in Servers}

ASSUME SomeRoomsAndConns == Rooms # {} /\ Conns # {}
ASSUME FiniteSystem == IsFiniteSet(Servers) /\ IsFiniteSet(Conns)
ASSUME LateServers == Late \subseteq Servers
ASSUME CallersOfServers == \A t \in Callers : t[1] \in Servers
ASSUME DispatchIsNoCaller == \A s \in Servers : Dispatch(s) \notin Callers
ASSUME MaxCallsNat == MaxCalls \in Nat
ASSUME FragileConns == Fragile \subseteq Servers \X {"sub", "pub"}

VARIABLES sub,      \* the receiving connection: "new", "up" or "lost"
          pub,      \* the publishing connection: "ok" or "failed"
          rooms,    \* bc.rooms of each server; an empty room does not exist
          readers,  \* the goroutines that hold the read lock
          pend,     \* the one that waits for the write lock or has it
          pc,       \* where each goroutine is
          op,       \* the call it is in
          room,     \* the room it is about
          conn,     \* the connection it is about
          id,       \* its number, the RequestID of a request
          calls,    \* how many calls were begun
          req,      \* the request of each caller
          clears,   \* the goroutines of publishClear that have not run yet
          inbox,    \* what redis has for each subscriber
          emitted,  \* how often each server has emitted a broadcast
          quiet     \* callers whose request has seen no change of any room

lockVars == <<readers, pend>>
callVars == <<pc, op, room, conn, id, calls>>
vars == <<sub, pub, rooms, lockVars, callVars, req, clears, inbox, emitted,
          quiet>>

Ids == 1..MaxCalls
Messages ==
    [kind : {"len", "all"}, from : Servers, id : Ids, room : Rooms]
        \cup [kind : {"clear"}, from : Servers, room : Rooms]
        \cup [kind : {"event"}, from : Servers, id : Ids]
        \cup [kind : {"reply"}, from : Servers, id : Ids, n : Nat,
              rooms : SUBSET Rooms]

RedisTypeOK ==
    /\ sub \in [Servers -> {"new", "up", "lost"}]
    /\ pub \in [Servers -> {"ok", "failed"}]
    /\ rooms \in [Servers -> [Rooms -> SUBSET Conns]]
    /\ readers \in [Servers -> SUBSET Threads]
    /\ pend \in [Servers -> Threads \cup {Nobody}]
    /\ pc \in [Threads -> {"idle", "lock", "locked", "emit", "publish", "ask",
                           "wait"}]
    /\ op \in [Threads -> {"none", "Join", "Leave", "LeaveAll", "Clear", "clear",
                           "Send", "len", "all", "Rooms"}]
    /\ room \in [Threads -> Rooms]
    /\ conn \in [Threads -> Conns]
    /\ id \in [Threads -> 0..MaxCalls]
    /\ calls \in 0..MaxCalls
    /\ req \in [Callers -> [numSub : Nat, msgCount : Nat, connections : Nat,
                            rooms : SUBSET Rooms]]
    /\ clears \subseteq Servers \X Ids \X Rooms
    /\ inbox \in [Servers -> Seq(Messages)]
    /\ emitted \in [Ids -> [Servers -> Nat]]
    /\ quiet \subseteq Callers

NoRequest == [numSub |-> 0, msgCount |-> 0, connections |-> 0, rooms |-> {}]

Init ==
    /\ sub \in [Servers -> {"new", "up"}]
    /\ \A s \in Servers \ Late : sub[s] = "up"
    /\ pub = [s \in Servers |-> "ok"]
    /\ rooms \in [Servers -> [Rooms -> SUBSET Conns]]
    /\ \A s \in Servers, r \in Rooms : sub[s] = "new" => rooms[s][r] = {}
    /\ readers = [s \in Servers |-> {}]
    /\ pend = [s \in Servers |-> Nobody]
    /\ pc = [t \in Threads |-> "idle"]
    /\ op = [t \in Threads |-> "none"]
    /\ room = [t \in Threads |-> CHOOSE r \in Rooms : TRUE]
    /\ conn = [t \in Threads |-> CHOOSE c \in Conns : TRUE]
    /\ id = [t \in Threads |-> 0]
    /\ calls = 0
    /\ req = [t \in Callers |-> NoRequest]
    /\ clears = {}
    /\ inbox = [s \in Servers |-> <<>>]
    /\ emitted = [i \in Ids |-> [s \in Servers |-> 0]]
    /\ quiet = {}

-----------------------------------------------------------------------------
(* Redis *)

Subscribers == {s \in Servers : sub[s] = "up"}

(* PUBLISH on the connection of server s; it does nothing if that failed. *)
Publish(s, m, box) ==
    [q \in Servers |-> IF q \in Subscribers /\ pub[s] = "ok"
                       THEN Append(box[q], m) ELSE box[q]]

(* PUBSUB NUMSUB that counts the other servers only. *)
NumSubOthers(s) == IF pub[s] = "ok" THEN Cardinality(Subscribers \ {s}) ELSE 0

(* PUBSUB NUMSUB, and 0 where the caller drops its error. *)
NumSub(s) == IF pub[s] = "ok" THEN Cardinality(Subscribers) ELSE 0

(* newRedisBroadcast on a server that comes later. *)
Start(s) ==
    /\ sub[s] = "new"
    /\ sub' = [sub EXCEPT ![s] = "up"]
    /\ quiet' = {}
    /\ UNCHANGED <<pub, rooms, lockVars, callVars, req, clears, inbox, emitted>>

(* Receive returns an error: dispatch ends and nothing is received again. *)
SubLost(s) ==
    /\ sub[s] = "up"
    /\ pc[Dispatch(s)] = "idle"
    /\ <<s, "sub">> \in Fragile
    /\ sub' = [sub EXCEPT ![s] = "lost"]
    /\ inbox' = [inbox EXCEPT ![s] = <<>>]
    /\ quiet' = {}
    /\ UNCHANGED <<pub, rooms, lockVars, callVars, req, clears, emitted>>

PubFails(s) ==
    /\ pub[s] = "ok"
    /\ <<s, "pub">> \in Fragile
    /\ pub' = [pub EXCEPT ![s] = "failed"]
    /\ quiet' = {}
    /\ UNCHANGED <<sub, rooms, lockVars, callVars, req, clears, inbox, emitted>>

-----------------------------------------------------------------------------
(* Calls *)

(* Caller t begins call o for room r and connection c, and goes to l. *)
Begin(t, o, r, c, l) ==
    /\ pc[t] = "idle"
    /\ calls < MaxCalls
    /\ sub[t[1]] # "new"
    /\ calls' = calls + 1
    /\ id' = [id EXCEPT ![t] = calls']
    /\ op' = [op EXCEPT ![t] = o]
    /\ room' = [room EXCEPT ![t] = r]
    /\ conn' = [conn EXCEPT ![t] = c]
    /\ pc' = [pc EXCEPT ![t] = l]

Goto(t, l) == pc' = [pc EXCEPT ![t] = l] /\ UNCHANGED <<op, room, conn, id, calls>>

(* The call of t is over. *)
End(t) == /\ pc' = [pc EXCEPT ![t] = "idle"]
          /\ op' = [op EXCEPT ![t] = "none"]
          /\ room' = [room EXCEPT ![t] = CHOOSE r \in Rooms : TRUE]
          /\ conn' = [conn EXCEPT ![t] = CHOOSE c \in Conns : TRUE]
          /\ id' = [id EXCEPT ![t] = 0]
          /\ UNCHANGED calls

(* bc.lock.RLock() is possible. *)
CanRead(s) == pend[s] = Nobody

(* allRooms() of server s. *)
RoomNames(s) == {r \in Rooms : rooms[s][r] # {}}

(* Server s begins to walk over its connections and to emit broadcast i. *)
Emitted(s, i) == emitted' = [emitted EXCEPT ![i][s] = @ + 1]

(* bc.lock.Lock(): announce, then wait for the readers that are inside. *)
Announce(t) == /\ pend[t[1]] = Nobody
               /\ pend' = [pend EXCEPT ![t[1]] = t]

(* A call that changes the rooms asks for the lock. *)
CallChange(t, o, r, c) ==
    /\ o \in {"Join", "Leave", "LeaveAll", "Clear"}
    /\ Begin(t, o, r, c, "locked")
    /\ Announce(t)
    /\ UNCHANGED <<sub, pub, rooms, readers, req, clears, inbox, emitted, quiet>>

(* A clear that dispatch received does, and nothing else is received then. *)
Lock(t) ==
    /\ pc[t] = "lock"
    /\ Announce(t)
    /\ Goto(t, "locked")
    /\ UNCHANGED <<sub, pub, rooms, readers, req, clears, inbox, emitted, quiet>>

(* With the lock, call o leaves the rooms R behind and unlocks. *)
Change(t, o, R) ==
    /\ pc[t] = "locked"
    /\ op[t] = o
    /\ readers[t[1]] = {}
    /\ rooms' = [rooms EXCEPT ![t[1]] = R]
    /\ pend' = [pend EXCEPT ![t[1]] = Nobody]
    /\ End(t)
    /\ quiet' = {}
    /\ UNCHANGED <<sub, pub, readers, req, inbox, emitted>>

(* Join that files the connection under the adapter's own name. *)
JoinServer(t) ==
    /\ Change(t, "Join", [rooms[t[1]] EXCEPT ![room[t]] = @ \cup {t[1]}])
    /\ UNCHANGED clears

Join(t) ==
    /\ Change(t, "Join", [rooms[t[1]] EXCEPT ![room[t]] = @ \cup {conn[t]}])
    /\ UNCHANGED clears

Leave(t) ==
    /\ Change(t, "Leave", [rooms[t[1]] EXCEPT ![room[t]] = @ \ {conn[t]}])
    /\ UNCHANGED clears

LeaveAll(t) ==
    /\ Change(t, "LeaveAll", [r \in Rooms |-> rooms[t[1]][r] \ {conn[t]}])
    /\ UNCHANGED clears

(* Clear deletes the room and starts a goroutine to publish it. *)
Clear(t) ==
    /\ Change(t, "Clear", [rooms[t[1]] EXCEPT ![room[t]] = {}])
    /\ clears' = clears \cup {<<t[1], id[t], room[t]>>}

(* publishClear(room) *)
PublishClear(s, i, r) ==
    /\ <<s, i, r>> \in clears
    /\ clears' = clears \ {<<s, i, r>>}
    /\ inbox' = Publish(s, [kind |-> "clear", from |-> s, room |-> r], inbox)
    /\ UNCHANGED <<sub, pub, rooms, lockVars, callVars, req, emitted, quiet>>

(* Send and SendAll: take the read lock and emit to the server's own
   connections. *)
Send(t, r, c) ==
    LET s == t[1]
    IN /\ Begin(t, "Send", r, c, "emit")
       /\ CanRead(s)
       /\ readers' = [readers EXCEPT ![s] = @ \cup {t}]
       /\ Emitted(s, calls')
       /\ UNCHANGED <<sub, pub, rooms, pend, req, clears, inbox, quiet>>

(* The last Emit has returned. *)
SendEmits(t) ==
    /\ pc[t] = "emit"
    /\ Goto(t, "publish")
    /\ UNCHANGED <<sub, pub, rooms, lockVars, req, clears, inbox, emitted, quiet>>

(* The lock is kept for the publishing. *)
PublishMessage(t) ==
    LET s == t[1]
    IN /\ pc[t] = "publish"
       /\ inbox' = Publish(s, [kind |-> "event", from |-> s, id |-> id[t]], inbox)
       /\ readers' = [readers EXCEPT ![s] = @ \ {t}]
       /\ End(t)
       /\ UNCHANGED <<sub, pub, rooms, pend, req, clears, emitted, quiet>>

(* Len and AllRooms: ask redis for the number of subscribers.  Len gives up at
   an error, AllRooms goes on with 0. *)
Ask(t, o, r, c) ==
    /\ o \in (IF pub[t[1]] = "ok" THEN {"len", "all"} ELSE {"all"})
    /\ Begin(t, o, r, c, "ask")
    /\ req' = [req EXCEPT ![t] = [NoRequest EXCEPT !.numSub = NumSub(t[1])]]
    /\ quiet' = quiet \cup {t}
    /\ UNCHANGED <<sub, pub, rooms, lockVars, clears, inbox, emitted>>

(* Rooms(nil) is AllRooms under the read lock. *)
RoomsOfAll(t, r, c) ==
    /\ Begin(t, "Rooms", r, c, "ask")
    /\ CanRead(t[1])
    /\ readers' = [readers EXCEPT ![t[1]] = @ \cup {t}]
    /\ req' = [req EXCEPT ![t] = [NoRequest EXCEPT !.numSub = NumSub(t[1])]]
    /\ quiet' = quiet \cup {t}
    /\ UNCHANGED <<sub, pub, rooms, pend, clears, inbox, emitted>>

(* The deferred RUnlock of Rooms. *)
Unlock(t) == readers' = [readers EXCEPT ![t[1]] = @ \ {t}]

(* Enter the request in the map and publish it; at an error return, and leave
   it there. *)
PublishRequest(t) ==
    LET k == IF op[t] = "len" THEN "len" ELSE "all"
    IN /\ pc[t] = "ask"
       /\ inbox' = Publish(t[1], [kind |-> k, from |-> t[1], id |-> id[t],
                                  room |-> room[t]], inbox)
       /\ IF pub[t[1]] = "ok" THEN Goto(t, "wait") /\ UNCHANGED readers
                              ELSE End(t) /\ Unlock(t)
       /\ UNCHANGED <<sub, pub, rooms, pend, req, clears, emitted, quiet>>

(* <-req.done: a value was sent when msgCount reached numSub. *)
Return(t) ==
    /\ pc[t] = "wait"
    /\ req[t].numSub \in 1..req[t].msgCount
    /\ End(t)
    /\ Unlock(t)
    /\ req' = [req EXCEPT ![t] = NoRequest]
    /\ quiet' = quiet \ {t}
    /\ UNCHANGED <<sub, pub, rooms, pend, clears, inbox, emitted>>

-----------------------------------------------------------------------------
(* dispatch *)

(* Server s receives message m; the rest of its inbox is Rest(s). *)
Receive(s, m) == /\ sub[s] = "up"
                 /\ pc[Dispatch(s)] = "idle"
                 /\ inbox[s] # <<>>
                 /\ m = Head(inbox[s])

Rest(s) == [inbox EXCEPT ![s] = Tail(@)]

(* The reply of server s to request m.  It says how many are in the room and
   which rooms there are, each kind of request asking for one of the two; its
   sender is not in the code's message and no step reads it. *)
Reply(s, m) == [kind |-> "reply", from |-> s, id |-> m.id,
                n |-> Cardinality(rooms[s][m.room]), rooms |-> RoomNames(s)]

(* onRequest that leaves its own server out, as a clear does. *)
OnRequestOthers(s, m) ==
    /\ Receive(s, m)
    /\ m.kind \in {"len", "all"}
    /\ m.kind = "all" => CanRead(s)
    /\ inbox' = IF m.from = s THEN Rest(s)
                ELSE Publish(s, Reply(s, m), Rest(s))
    /\ UNCHANGED <<sub, pub, rooms, lockVars, callVars, req, clears, emitted,
                   quiet>>

(* onRequest: the length is read without the lock, the rooms with it. *)
OnRequest(s, m) ==
    /\ Receive(s, m)
    /\ m.kind \in {"len", "all"}
    /\ m.kind = "all" => CanRead(s)
    /\ inbox' = Publish(s, Reply(s, m), Rest(s))
    /\ UNCHANGED <<sub, pub, rooms, lockVars, callVars, req, clears, emitted,
                   quiet>>

(* A clear of another server needs the write lock; its own is skipped. *)
OnClear(s, m) ==
    /\ Receive(s, m)
    /\ m.kind = "clear"
    /\ inbox' = Rest(s)
    /\ IF m.from = s THEN UNCHANGED callVars
       ELSE /\ pc' = [pc EXCEPT ![Dispatch(s)] = "lock"]
            /\ op' = [op EXCEPT ![Dispatch(s)] = "clear"]
            /\ room' = [room EXCEPT ![Dispatch(s)] = m.room]
            /\ UNCHANGED <<conn, id, calls>>
    /\ UNCHANGED <<sub, pub, rooms, lockVars, req, clears, emitted, quiet>>

(* clear(room) *)
ClearLocal(t) ==
    /\ Change(t, "clear", [rooms[t[1]] EXCEPT ![room[t]] = {}])
    /\ UNCHANGED clears

(* onResponse: a request that is not in the map is none of this server's, or
   over. *)
OnResponse(s, m) ==
    /\ Receive(s, m)
    /\ m.kind = "reply"
    /\ inbox' = Rest(s)
    /\ req' = [t \in Callers |->
                 IF t[1] = s /\ id[t] = m.id /\ pc[t] = "wait"
                 THEN [req[t] EXCEPT !.msgCount = @ + 1,
                                     !.connections = @ + m.n,
                                     !.rooms = @ \cup m.rooms]
                 ELSE req[t]]
    /\ UNCHANGED <<sub, pub, rooms, lockVars, callVars, clears, emitted, quiet>>

(* Dispatch begins to emit broadcast i under the read lock. *)
EmitReceived(s, i) ==
    /\ CanRead(s)
    /\ readers' = [readers EXCEPT ![s] = @ \cup {Dispatch(s)}]
    /\ Emitted(s, i)
    /\ Goto(Dispatch(s), "emit")

(* onMessage that takes its own broadcasts too. *)
OnMessageOwn(s, m) ==
    /\ Receive(s, m)
    /\ m.kind = "event"
    /\ inbox' = Rest(s)
    /\ EmitReceived(s, m.id)
    /\ UNCHANGED <<sub, pub, rooms, pend, req, clears, quiet>>

(* onMessage: emit another server's broadcast. *)
OnMessage(s, m) ==
    /\ Receive(s, m)
    /\ m.kind = "event"
    /\ inbox' = Rest(s)
    /\ IF m.from = s THEN UNCHANGED <<readers, emitted, callVars>>
       ELSE EmitReceived(s, m.id)
    /\ UNCHANGED <<sub, pub, rooms, pend, req, clears, quiet>>

(* The last Emit has returned: send unlocks, and dispatch receives again. *)
OnMessageEmits(s) ==
    /\ pc[Dispatch(s)] = "emit"
    /\ Goto(Dispatch(s), "idle")
    /\ Unlock(Dispatch(s))
    /\ UNCHANGED <<sub, pub, rooms, pend, req, clears, inbox, emitted, quiet>>

-----------------------------------------------------------------------------
(* Begin a call. *)
CallStep(t, r, c) ==
    \/ \E o \in {"Join", "Leave", "LeaveAll", "Clear"} : CallChange(t, o, r, c)
    \/ \E o \in {"len", "all"} : Ask(t, o, r, c)
    \/ Send(t, r, c)
    \/ RoomsOfAll(t, r, c)

(* Go on with it. *)
WriteStep(t) == \/ Lock(t)
                \/ Join(t)
                \/ Leave(t)
                \/ LeaveAll(t)
                \/ Clear(t)
                \/ ClearLocal(t)

RequestStep(t) == PublishMessage(t) \/ PublishRequest(t) \/ Return(t)

DispatchStep(s) ==
    inbox[s] # <<>> /\ LET m == Head(inbox[s]) IN \/ OnRequest(s, m)
                                                 \/ OnClear(s, m)
                                                 \/ OnResponse(s, m)
                                                 \/ OnMessage(s, m)

Next == \/ \E t \in Callers, r \in Rooms, c \in Conns : CallStep(t, r, c)
        \/ \E t \in Threads : WriteStep(t)
        \/ \E t \in Callers : RequestStep(t) \/ SendEmits(t)
        \/ \E s \in Servers, i \in Ids, r \in Rooms : PublishClear(s, i, r)
        \/ \E s \in Servers : DispatchStep(s) \/ OnMessageEmits(s)
        \/ \E s \in Servers : Start(s) \/ SubLost(s) \/ PubFails(s)

Spec == Init /\ [][Next]_vars

(* Goroutines run, and the lock does not pass dispatch over for ever.  An Emit
   need not return. *)
Fairness ==
    /\ \A t \in Callers : WF_vars(WriteStep(t) \/ RequestStep(t))
    /\ \A s \in Servers : SF_vars(DispatchStep(s) \/ WriteStep(Dispatch(s)))

FairSpec == Spec /\ Fairness

-----------------------------------------------------------------------------
(* The connections in room r of the servers S, each with its server. *)
Members(S, r) == {p \in S \X Conns : p[2] \in rooms[p[1]][r]}

(* The rooms that exist on the servers S. *)
NamesOf(S) == UNION {RoomNames(s) : s \in S}

(* Len gives the number of connections in the room, and AllRooms and Rooms all
   rooms that exist, of all servers together, if no room and no subscriber
   changed since the call asked for their number (redis_broadcast.go:253-284,
   131-158): every server is counted, and once, whatever other requests and
   late replies are under way. *)
AnswerIsRight ==
    [][\A t \in Callers : Return(t) /\ t \in quiet =>
          IF op[t] = "len"
          THEN req[t].connections = Cardinality(Members(Subscribers, room[t]))
          ELSE req[t].rooms = NamesOf(Subscribers)]_vars

(* No server emits one broadcast twice: the sender skips what it
   published itself (redis_broadcast.go:307-310). *)
SendOnce == \A i \in Ids, s \in Servers : emitted[i][s] <= 1

(* A broadcast that is under way: message j of the inbox of server s. *)
IsEvent(s, j) == j \in 1..Len(inbox[s]) /\ inbox[s][j].kind = "event"

(* The calls under way have numbers of their own, and dispatch makes none. *)
CallsNumbered ==
    /\ \A t \in Callers : pc[t] # "idle" =>
          /\ id[t] \in 1..calls
          /\ \A u \in Callers : pc[u] # "idle" /\ id[u] = id[t] => u = t
    /\ \A s \in Servers : op[Dispatch(s)] \in {"none", "clear"}

(* Where a caller has a broadcast to publish. *)
Sending == {"emit", "publish"}

(* A broadcast is in an inbox at most once, and there only when its sender has
   published it and the server has not yet emitted it. *)
BroadcastInv ==
    /\ SendOnce
    /\ \A s \in Servers : \A j \in 1..Len(inbox[s]) : IsEvent(s, j) =>
          /\ inbox[s][j].id <= calls
          /\ inbox[s][j].from # s => emitted[inbox[s][j].id][s] = 0
          /\ \A k \in 1..Len(inbox[s]) :
                IsEvent(s, k) /\ inbox[s][j].id = inbox[s][k].id => j = k
          /\ \A t \in Callers : pc[t] \in Sending => id[t] # inbox[s][j].id
    /\ \A t \in Callers, s \in Servers :
          pc[t] \in Sending /\ s # t[1] => emitted[id[t]][s] = 0
    /\ \A i \in Ids, s \in Servers : i > calls => emitted[i][s] = 0

(* Message m is one of the kinds K with number i: a request, or a reply. *)
About(K, m, i) == m.kind \in K /\ m.id = i
IsRequest(m, i) == About({"len", "all"}, m, i)
IsReply(m, i) == About({"reply"}, m, i)

(* No request or reply has a number that is still to be given, or that of a
   call that has not published its request. *)
NumbersUsed ==
    \A s \in Servers : \A j \in 1..Len(inbox[s]) : \A i \in Ids :
        IsRequest(inbox[s][j], i) \/ IsReply(inbox[s][j], i) =>
            /\ i <= calls
            /\ \A t \in Callers : pc[t] = "ask" => id[t] # i

(* Who has still to receive request i, and whose reply server q has still to
   receive. *)
Asked(i) == {s \in Servers : \E j \in 1..Len(inbox[s]) : IsRequest(inbox[s][j], i)}
Replied(q, i) == {s \in Servers : \E j \in 1..Len(inbox[q]) :
                                     IsReply(inbox[q][j], i) /\ inbox[q][j].from = s}

(* The servers that the request of t has counted. *)
Counted(t) == {s \in Subscribers : /\ pub[s] = "ok"
                                   /\ s \notin Asked(id[t])
                                   /\ s \notin Replied(t[1], id[t])}

(* Every server has request i at most once before it, and it is about room r. *)
AskedOnce(i, r) ==
    \A s \in Servers : \A j \in 1..Len(inbox[s]) : IsRequest(inbox[s][j], i) =>
        /\ inbox[s][j].room = r
        /\ \A k \in 1..Len(inbox[s]) : IsRequest(inbox[s][k], i) => k = j

(* Server q has at most one reply to request i before it from every server, and
   it says what that server's rooms are. *)
RepliedOnce(q, i, r) ==
    \A j \in 1..Len(inbox[q]) : IsReply(inbox[q][j], i) =>
        LET s == inbox[q][j].from
        IN /\ s \in Subscribers /\ pub[s] = "ok" /\ s \notin Asked(i)
           /\ inbox[q][j].n = Cardinality(rooms[s][r])
           /\ inbox[q][j].rooms = RoomNames(s)
           /\ \A k \in 1..Len(inbox[q]) :
                 IsReply(inbox[q][k], i) /\ inbox[q][k].from = s => k = j

(* A request that has seen no change has the rooms of those it counted. *)
CountOK(t) ==
    IF sub[t[1]] = "up"
    THEN /\ req[t].msgCount = Cardinality(Counted(t))
         /\ req[t].connections = Cardinality(Members(Counted(t), room[t]))
         /\ req[t].rooms = NamesOf(Counted(t))
    ELSE req[t].msgCount = 0

(* A request that has seen no change: it expects all subscribers, and each of
   them is still to be asked, has replied, or is counted. *)
RequestOK(t) ==
    /\ pc[t] = "ask" => req[t] = [NoRequest EXCEPT !.numSub = NumSub(t[1])]
    /\ pc[t] = "wait" => /\ req[t].numSub = NumSub(t[1])
                         /\ AskedOnce(id[t], room[t])
                         /\ RepliedOnce(t[1], id[t], room[t])
                         /\ CountOK(t)

RequestInv == NumbersUsed /\ \A t \in quiet : RequestOK(t)

(* The inductive invariant. *)
SendInv == RedisTypeOK /\ CallsNumbered /\ BroadcastInv
RedisInv == SendInv /\ RequestInv

Healthy == \A s \in Servers : sub[s] # "lost" /\ pub[s] = "ok"

(* Len and AllRooms return if no connection to redis is lost (265-280), also
   when servers come while they ask, or others clear rooms and join them: as
   long as nobody waits for replies with the lock held, which is what
   Rooms(nil) does, and every Emit returns.  One that does not keeps dispatch
   from replying, be it dispatch's own (504-513) or that of a Send whose read
   lock (208-222) a Clear waits for. *)
CallReturns ==
    [](Healthy /\ \A t \in Callers : op[t] # "Rooms")
      /\ (\A t \in Threads : []<>(pc[t] # "emit"))
        => \A t \in Callers : pc[t] = "wait" ~> pc[t] # "wait"
=============================================================================
