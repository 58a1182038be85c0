----------------------------- MODULE Connection -----------------------------
(***************************************************************************)
(* The socket.io connection of connection.go and connection_handlers.go    *)
(* with the goroutines of server.go that serve it and the rooms of         *)
(* broadcast.go it is in.                                                  *)
(*                                                                         *)
(* A connection has four goroutines: main (serveConn, which connects and   *)
(* starts the others), read, write and error.  They talk over two          *)
(* unbuffered channels, writeChan and errorChan, and end when quitChan is  *)
(* closed.  The application has goroutines of its own: senders broadcast,  *)
(* app closes a connection.                                                *)
(*                                                                         *)
(* Each namespace has a Broadcast with a read-write lock.  Send holds the  *)
(* read lock while it emits; Join and LeaveAll need the write lock.  As in *)
(* Go, a writer that waits keeps new readers out.  One room per namespace  *)
(* stands for all of them: every connection joins the room of its own id,  *)
(* so SendAll reaches exactly the connections that joined.                 *)
(*                                                                         *)
(* c.namespaces has such a lock too: Close holds it for reading while it   *)
(* leaves the rooms, Set and Delete need it for writing, and serveError    *)
(* reads under it.                                                         *)
(***************************************************************************)
EXTENDS Integers, FiniteSets

CONSTANTS Conns,       \* the connections
          Senders,     \* application goroutines that broadcast
          Namespaces,  \* the namespaces with a handler
          Root,        \* the root namespace
          Options      \* what the environment may do, a subset of AllOptions

(* connectFails: the Connect packet cannot be written, or OnConnect returns an
   error, in connect().  onError: there is an OnError handler, which may emit
   to the connection.  appCloses: the application closes a connection. *)
AllOptions == {"connectFails", "onError", "appCloses"}

ASSUME RootIsNamespace == Root \in Namespaces
ASSUME OptionsKnown == Options \subseteq AllOptions

Served == {"read", "write", "error"}
Roles == Served \cup {"main", "app"}

VARIABLES pc,       \* where each goroutine of a connection is
          then,     \* where it goes on after the call it is in
          arg,      \* the namespace its call is about
          nss,      \* c.namespaces of each connection
          joined,   \* the connections in each namespace's rooms
          readers,  \* the senders that hold each namespace's read lock
          pend,     \* the namespaces whose write lock is taken or waited for
          at,       \* where each sender is
          to,       \* the namespace it sends to
          todo,     \* the connections it has still to emit to
          once,     \* c.closeOnce
          left,     \* the namespaces Close has still to visit
          told,     \* namespaces whose disconnect handler was called
          again,    \* connections with a disconnect handler called twice
          closed,   \* connections whose engine.io connection is closed
          quit,     \* connections whose quitChan is closed
          broken,   \* connections whose client is gone
          removed   \* sessions removed from the engine's pool

lockVars == <<joined, readers, pend>>
sendVars == <<at, to, todo>>
closeVars == <<once, left, told, again, closed, quit, removed>>
vars == <<pc, then, arg, nss, lockVars, sendVars, closeVars, broken>>

Places == {"off", "start", "encode", "connected", "loop", "set", "setting",
           "dispatch", "delete", "deleting", "tell", "join", "joining", "leave",
           "leaving", "emit", "raise", "get", "close", "range", "rleave",
           "rleaving", "quit", "end", "done"}

ConnTypeOK ==
    /\ pc \in [Conns -> [Roles -> Places]]
    /\ then \in [Conns -> [Roles -> Places]]
    /\ arg \in [Conns -> [Roles -> Namespaces]]
    /\ nss \in [Conns -> SUBSET Namespaces]
    /\ joined \in [Namespaces -> SUBSET Conns]
    /\ readers \in [Namespaces -> SUBSET Senders]
    /\ pend \in SUBSET Namespaces
    /\ at \in [Senders -> {"idle", "sending"}]
    /\ to \in [Senders -> Namespaces]
    /\ todo \in [Senders -> SUBSET Conns]
    /\ once \in [Conns -> {"not", "running", "done"}]
    /\ left \in [Conns -> SUBSET Namespaces]
    /\ told \in [Conns -> SUBSET Namespaces]
    /\ {again, closed, quit, broken, removed} \subseteq SUBSET Conns

Init ==
    /\ pc = [c \in Conns |-> [r \in Roles |-> CASE r = "main" -> "start"
                                             [] r = "app" -> "loop"
                                             [] r \in Served -> "off"]]
    /\ then = [c \in Conns |-> [r \in Roles |-> "loop"]]
    /\ arg = [c \in Conns |-> [r \in Roles |-> Root]]
    /\ nss = [c \in Conns |-> {}]
    /\ joined = [n \in Namespaces |-> {}]
    /\ readers = [n \in Namespaces |-> {}]
    /\ pend = {}
    /\ at = [s \in Senders |-> "idle"]
    /\ to = [s \in Senders |-> Root]
    /\ todo = [s \in Senders |-> {}]
    /\ once = [c \in Conns |-> "not"]
    /\ left = [c \in Conns |-> {}]
    /\ told = [c \in Conns |-> {}]
    /\ again = {}
    /\ closed = {}
    /\ quit = {}
    /\ broken = {}
    /\ removed = {}

Goto(c, r, l) == pc' = [pc EXCEPT ![c][r] = l]
Call(c, r, l, k) == Goto(c, r, l) /\ then' = [then EXCEPT ![c][r] = k]

(* Where a goroutine goes on after Close: the three that serve the connection
   call Close in a deferred function that also removes the session. *)
AfterClose(r) == IF r \in Served THEN "end" ELSE "done"

(* Calls on the engine.io connection fail. *)
Dead(c) == c \in broken \cup closed

-----------------------------------------------------------------------------
(* broadcast.go: the write lock *)

(* bc.lock.Lock(): announce, then wait for the readers that are inside. *)
LockRooms(c, r) ==
    /\ pc[c][r] \in {"join", "leave", "rleave"}
    /\ arg[c][r] \notin pend
    /\ pend' = pend \cup {arg[c][r]}
    /\ Goto(c, r, CASE pc[c][r] = "join" -> "joining"
                 [] pc[c][r] = "leave" -> "leaving"
                 [] pc[c][r] = "rleave" -> "rleaving")
    /\ UNCHANGED <<then, arg, nss, joined, readers, sendVars, closeVars, broken>>

(* Join(room, connection) with the lock. *)
Join(c, r) ==
    /\ pc[c][r] = "joining"
    /\ readers[arg[c][r]] = {}
    /\ joined' = [joined EXCEPT ![arg[c][r]] = @ \cup {c}]
    /\ pend' = pend \ {arg[c][r]}
    /\ Goto(c, r, then[c][r])
    /\ UNCHANGED <<then, arg, nss, readers, sendVars, closeVars, broken>>

(* LeaveAll(connection) with the lock, for a Disconnect packet or in Close. *)
LeaveAll(c, r) ==
    /\ pc[c][r] \in {"leaving", "rleaving"}
    /\ readers[arg[c][r]] = {}
    /\ joined' = [joined EXCEPT ![arg[c][r]] = @ \ {c}]
    /\ pend' = pend \ {arg[c][r]}
    /\ Goto(c, r, IF pc[c][r] = "leaving" THEN then[c][r] ELSE "range")
    /\ UNCHANGED <<then, arg, nss, readers, sendVars, closeVars, broken>>

-----------------------------------------------------------------------------
(* broadcast.go: Send, SendAll, ForEach under the read lock *)

SendBegin(s, n) ==
    /\ at[s] = "idle"
    /\ n \notin pend
    /\ readers' = [readers EXCEPT ![n] = @ \cup {s}]
    /\ todo' = [todo EXCEPT ![s] = joined[n]]
    /\ to' = [to EXCEPT ![s] = n]
    /\ at' = [at EXCEPT ![s] = "sending"]
    /\ UNCHANGED <<pc, then, arg, nss, joined, pend, closeVars, broken>>

(* connection.Emit: the packet goes to the connection's write goroutine, or
   the connection has quit. *)
SendEmit(s, c) ==
    /\ at[s] = "sending"
    /\ c \in todo[s]
    /\ \/ pc[c]["write"] = "loop" /\ Goto(c, "write", "encode")
       \/ c \in quit /\ UNCHANGED pc
    /\ todo' = [todo EXCEPT ![s] = @ \ {c}]
    /\ UNCHANGED <<then, arg, nss, lockVars, at, to, closeVars, broken>>

SendEnd(s) ==
    /\ at[s] = "sending"
    /\ todo[s] = {}
    /\ readers' = [readers EXCEPT ![to[s]] = @ \ {s}]
    /\ at' = [at EXCEPT ![s] = "idle"]
    /\ UNCHANGED <<pc, then, arg, nss, joined, pend, to, todo, closeVars,
                   broken>>

-----------------------------------------------------------------------------
(* connection.go: write and onError, each a select with quitChan *)

Write(c, r) ==
    /\ pc[c][r] = "emit"
    /\ \/ /\ pc[c]["write"] = "loop"
          /\ pc' = [pc EXCEPT ![c][r] = then[c][r], ![c]["write"] = "encode"]
       \/ c \in quit /\ Goto(c, r, then[c][r])
    /\ UNCHANGED <<then, arg, nss, lockVars, sendVars, closeVars, broken>>

(* The error goroutine takes the error; without a handler it goes on. *)
OnError(c, r) ==
    /\ pc[c][r] = "raise"
    /\ \/ /\ pc[c]["error"] = "loop"
          /\ \E l \in IF "onError" \in Options THEN {"loop", "get"} ELSE {"loop"} :
                pc' = [pc EXCEPT ![c][r] = then[c][r], ![c]["error"] = l]
       \/ c \in quit /\ Goto(c, r, then[c][r])
    /\ UNCHANGED <<then, arg, nss, lockVars, sendVars, closeVars, broken>>

(* c.namespaces.mu.Lock() by Set or Delete was called: as in Go, it keeps new
   readers out while it waits for the ones inside. *)
NamespacesAwaited(c) == pc[c]["read"] \in {"setting", "deleting"}

(* c.namespaces.Get of serveError, then the OnError handler, which may emit;
   an error of a namespace that is gone is dropped. *)
HandleError(c) ==
    /\ pc[c]["error"] = "get"
    /\ ~NamespacesAwaited(c)
    /\ \/ Goto(c, "error", "loop") /\ UNCHANGED then
       \/ nss[c] # {} /\ Call(c, "error", "emit", "loop")
    /\ UNCHANGED <<arg, nss, lockVars, sendVars, closeVars, broken>>

-----------------------------------------------------------------------------
(* connection.go: Close, by whichever goroutine is first; the others wait in
   closeOnce.Do until it is over. *)

(* namespaces.Range holds the read lock of c.namespaces: Set and Delete wait. *)
Ranging(c) == once[c] = "running" /\ c \notin closed

(* A Close without closeOnce, by whoever comes. *)
CloseBeginAgain(c, r) ==
    /\ pc[c][r] = "close"
    /\ ~NamespacesAwaited(c)
    /\ once' = [once EXCEPT ![c] = "running"]
    /\ left' = [left EXCEPT ![c] = nss[c]]
    /\ Goto(c, r, "range")
    /\ UNCHANGED <<then, arg, nss, lockVars, sendVars, told, again, closed, quit,
                   removed, broken>>

CloseBegin(c, r) ==
    /\ pc[c][r] = "close"
    /\ once[c] = "not"
    /\ ~NamespacesAwaited(c)
    /\ once' = [once EXCEPT ![c] = "running"]
    /\ left' = [left EXCEPT ![c] = nss[c]]
    /\ Goto(c, r, "range")
    /\ UNCHANGED <<then, arg, nss, lockVars, sendVars, told, again, closed, quit,
                   removed, broken>>

(* A Close that is over, or was over before. *)
CloseOver(c, r) ==
    /\ pc[c][r] = "close"
    /\ once[c] = "done"
    /\ Goto(c, r, AfterClose(r))
    /\ UNCHANGED <<then, arg, nss, lockVars, sendVars, closeVars, broken>>

(* onDisconnect(nc) is called for namespace n. *)
Tell(c, n) == /\ told' = [told EXCEPT ![c] = @ \cup {n}]
              /\ again' = IF n \in told[c] THEN again \cup {c} ELSE again

(* CloseNamespace that forgets to leave the rooms. *)
CloseNamespaceStays(c, r, n) ==
    /\ pc[c][r] = "range"
    /\ n \in left[c]
    /\ left' = [left EXCEPT ![c] = @ \ {n}]
    /\ Tell(c, n)
    /\ UNCHANGED <<pc, then, arg, nss, lockVars, sendVars, once, closed, quit,
                   removed, broken>>

(* The body of the Range: the disconnect handler, then LeaveAll. *)
CloseNamespace(c, r, n) ==
    /\ pc[c][r] = "range"
    /\ n \in left[c]
    /\ left' = [left EXCEPT ![c] = @ \ {n}]
    /\ Tell(c, n)
    /\ arg' = [arg EXCEPT ![c][r] = n]
    /\ Goto(c, r, "rleave")
    /\ UNCHANGED <<then, nss, lockVars, sendVars, once, closed, quit, removed,
                   broken>>

(* c.Conn.Close() *)
CloseEngine(c, r) ==
    /\ pc[c][r] = "range"
    /\ left[c] = {}
    /\ closed' = closed \cup {c}
    /\ Goto(c, r, "quit")
    /\ UNCHANGED <<then, arg, nss, lockVars, sendVars, once, left, told, again,
                   quit, removed, broken>>

(* close(c.quitChan), the end of Close. *)
CloseQuit(c, r) ==
    /\ pc[c][r] = "quit"
    /\ quit' = quit \cup {c}
    /\ once' = [once EXCEPT ![c] = "done"]
    /\ Goto(c, r, AfterClose(r))
    /\ UNCHANGED <<then, arg, nss, lockVars, sendVars, left, told, again, closed,
                   removed, broken>>

(* The deferred s.engine.Remove of the three serving goroutines. *)
Remove(c, r) ==
    /\ pc[c][r] = "end"
    /\ removed' = removed \cup {c}
    /\ Goto(c, r, "done")
    /\ UNCHANGED <<then, arg, nss, lockVars, sendVars, once, left, told, again,
                   closed, quit, broken>>

-----------------------------------------------------------------------------
(* server.go: serveConn, and connect() *)

(* The root namespace is set and its room joined. *)
Connect(c) ==
    /\ pc[c]["main"] = "start"
    /\ nss' = [nss EXCEPT ![c] = {Root}]
    /\ Call(c, "main", "join", "encode")
    /\ UNCHANGED <<arg, lockVars, sendVars, closeVars, broken>>

(* Write the Connect packet, call OnConnect; on an error close the connection
   and be done. *)
ConnectResult(c) ==
    /\ pc[c]["main"] \in {"encode", "connected"}
    /\ \/ "connectFails" \in Options /\ Goto(c, "main", "close") /\ UNCHANGED then
       \/ pc[c]["main"] = "encode" /\ Goto(c, "main", "connected") /\ UNCHANGED then
       \/ /\ pc[c]["main"] = "connected"
          /\ pc' = [pc EXCEPT ![c] = [r \in Roles |->
                       CASE r = "main" -> "done"
                         [] r \in Served -> "loop"
                         [] r = "app" -> pc[c][r]]]
          /\ UNCHANGED then
    /\ UNCHANGED <<arg, nss, lockVars, sendVars, closeVars, broken>>

-----------------------------------------------------------------------------
(* server.go: serveRead, with the handlers of connection_handlers.go *)

(* serveRead without the deferred Close. *)
ReadFailsLeaks(c) ==
    /\ pc[c]["read"] = "loop"
    /\ Dead(c)
    /\ Call(c, "read", "raise", "end")
    /\ UNCHANGED <<arg, nss, lockVars, sendVars, closeVars, broken>>

(* DecodeHeader fails: report it, then leave by the deferred Close. *)
ReadFails(c) ==
    /\ pc[c]["read"] = "loop"
    /\ Dead(c)
    /\ Call(c, "read", "raise", "close")
    /\ UNCHANGED <<arg, nss, lockVars, sendVars, closeVars, broken>>

(* An Event or Ack packet of namespace n: unknown namespaces are skipped, the
   handler's answer is written, its error reported. *)
ReadEvent(c, n) ==
    /\ pc[c]["read"] = "loop"
    /\ ~Dead(c)
    /\ n \in nss[c]
    /\ Call(c, "read", "emit", "loop") \/ Call(c, "read", "raise", "close")
    /\ UNCHANGED <<arg, nss, lockVars, sendVars, closeVars, broken>>

(* A Connect packet of namespace n.  Discarding its frame may fail; a namespace
   without a handler ends the connection. *)
ReadConnect(c, n) ==
    /\ pc[c]["read"] = "loop"
    /\ ~Dead(c)
    /\ arg' = [arg EXCEPT ![c]["read"] = n]
    /\ \/ Goto(c, "read", IF n \in nss[c] THEN "dispatch" ELSE "set")
          /\ UNCHANGED then
       \/ \E k \in {"loop", "close"} : Call(c, "read", "raise", k)
    /\ UNCHANGED <<nss, lockVars, sendVars, closeVars, broken>>

(* Set and Delete ask for the lock of c.namespaces. *)
LockNamespaces(c) ==
    /\ pc[c]["read"] \in {"set", "delete"}
    /\ Goto(c, "read", IF pc[c]["read"] = "set" THEN "setting" ELSE "deleting")
    /\ UNCHANGED <<then, arg, nss, lockVars, sendVars, closeVars, broken>>

(* c.namespaces.Set with the lock, then Join. *)
SetNamespace(c) ==
    /\ pc[c]["read"] = "setting"
    /\ ~Ranging(c)
    /\ nss' = [nss EXCEPT ![c] = @ \cup {arg[c]["read"]}]
    /\ told' = [told EXCEPT ![c] = @ \ {arg[c]["read"]}]
    /\ Call(c, "read", "join", "dispatch")
    /\ UNCHANGED <<arg, lockVars, sendVars, once, left, again, closed, quit,
                   removed, broken>>

(* OnConnect of the namespace; the Connect packet is written back. *)
DispatchConnect(c) ==
    /\ pc[c]["read"] = "dispatch"
    /\ Call(c, "read", "emit", "loop") \/ Call(c, "read", "raise", "close")
    /\ UNCHANGED <<arg, nss, lockVars, sendVars, closeVars, broken>>

(* A Disconnect packet whose connection stays in the rooms. *)
ReadDisconnectStays(c, n) ==
    /\ pc[c]["read"] = "loop"
    /\ ~Dead(c)
    /\ arg' = [arg EXCEPT ![c]["read"] = n]
    /\ \/ n \in nss[c] /\ Goto(c, "read", "delete") /\ UNCHANGED then
       \/ Call(c, "read", "raise", "close")
    /\ UNCHANGED <<nss, lockVars, sendVars, closeVars, broken>>

(* A Disconnect packet of namespace n, whose arguments may not decode. *)
ReadDisconnect(c, n) ==
    /\ pc[c]["read"] = "loop"
    /\ ~Dead(c)
    /\ arg' = [arg EXCEPT ![c]["read"] = n]
    /\ \/ n \in nss[c] /\ Call(c, "read", "leave", "delete")
       \/ Call(c, "read", "raise", "close")
    /\ UNCHANGED <<nss, lockVars, sendVars, closeVars, broken>>

(* A Disconnect packet whose namespace is kept. *)
DeleteNamespaceKept(c) ==
    /\ pc[c]["read"] = "deleting"
    /\ ~Ranging(c)
    /\ Goto(c, "read", "tell")
    /\ UNCHANGED <<then, arg, nss, lockVars, sendVars, closeVars, broken>>

(* c.namespaces.Delete with the lock. *)
DeleteNamespace(c) ==
    /\ pc[c]["read"] = "deleting"
    /\ ~Ranging(c)
    /\ nss' = [nss EXCEPT ![c] = @ \ {arg[c]["read"]}]
    /\ Goto(c, "read", "tell")
    /\ UNCHANGED <<then, arg, lockVars, sendVars, closeVars, broken>>

(* The disconnect handler of the namespace. *)
DispatchDisconnect(c) ==
    /\ pc[c]["read"] = "tell"
    /\ Tell(c, arg[c]["read"])
    /\ Goto(c, "read", "loop")
    /\ UNCHANGED <<then, arg, nss, lockVars, sendVars, once, left, closed, quit,
                   removed, broken>>

-----------------------------------------------------------------------------
(* server.go: serveWrite and serveError *)

(* A serveWrite that leaves when Encode fails, as serveRead does: its deferred
   Close waits for a broadcast that waits for it. *)
EncodeStops(c) ==
    /\ pc[c]["write"] = "encode"
    /\ IF Dead(c) THEN Call(c, "write", "raise", "close")
                  ELSE Goto(c, "write", "loop") /\ UNCHANGED then
    /\ UNCHANGED <<arg, nss, lockVars, sendVars, closeVars, broken>>

(* encoder.Encode of the packet taken from writeChan. *)
Encode(c) ==
    /\ pc[c]["write"] = "encode"
    /\ IF Dead(c) THEN Call(c, "write", "raise", "loop")
                  ELSE Goto(c, "write", "loop") /\ UNCHANGED then
    /\ UNCHANGED <<arg, nss, lockVars, sendVars, closeVars, broken>>

(* case <-c.quitChan, in the loops of write and error. *)
LoopQuits(c, r) ==
    /\ pc[c][r] = "loop"
    /\ c \in quit
    /\ Goto(c, r, "close")
    /\ UNCHANGED <<then, arg, nss, lockVars, sendVars, closeVars, broken>>

(* The application calls Close on a connection it knows from OnConnect. *)
AppCloses(c) ==
    /\ "appCloses" \in Options
    /\ pc[c]["app"] = "loop"
    /\ pc[c]["main"] = "connected" \/ pc[c]["read"] # "off"
    /\ Goto(c, "app", "close")
    /\ UNCHANGED <<then, arg, nss, lockVars, sendVars, closeVars, broken>>

(* The client goes away. *)
Break(c) ==
    /\ c \notin broken
    /\ broken' = broken \cup {c}
    /\ UNCHANGED <<pc, then, arg, nss, lockVars, sendVars, closeVars>>

-----------------------------------------------------------------------------
(* The calls any goroutine of a connection may be in. *)
CallStep(c, r) ==
    \/ LockRooms(c, r)
    \/ Join(c, r)
    \/ LeaveAll(c, r)
    \/ Write(c, r)
    \/ OnError(c, r)
    \/ CloseBegin(c, r)
    \/ CloseOver(c, r)
    \/ \E n \in Namespaces : CloseNamespace(c, r, n)
    \/ CloseEngine(c, r)
    \/ CloseQuit(c, r)
    \/ Remove(c, r)

(* What the goroutines of connection c do of their own accord. *)
MainStep(c) == Connect(c) \/ ConnectResult(c)

ReadStep(c) == \/ ReadFails(c)
               \/ LockNamespaces(c)
               \/ SetNamespace(c)
               \/ DispatchConnect(c)
               \/ DeleteNamespace(c)
               \/ DispatchDisconnect(c)

(* What the client makes the connection do. *)
ClientStep(c) == \/ Break(c)
                 \/ \E n \in Namespaces : \/ ReadEvent(c, n)
                                          \/ ReadConnect(c, n)
                                          \/ ReadDisconnect(c, n)

SendStep(s) == SendEnd(s) \/ \E c \in Conns : SendEmit(s, c)

Next == \/ \E c \in Conns, r \in Roles : CallStep(c, r)
        \/ \E c \in Conns, r \in {"write", "error"} : LoopQuits(c, r)
        \/ \E c \in Conns : \/ MainStep(c) \/ ReadStep(c) \/ Encode(c)
                           \/ HandleError(c) \/ ClientStep(c) \/ AppCloses(c)
        \/ \E s \in Senders : SendStep(s) \/ \E n \in Namespaces : SendBegin(s, n)

Spec == Init /\ [][Next]_vars

(* A goroutine that can go on does.  Channels and locks serve their waiters in
   order, so the reader, the error goroutine and the senders, which wait for the
   write goroutine among others, get it if it is ready again and again; and
   select chooses at random among what is ready, so a loop does not pass
   quitChan by for ever.  These are strong fairness, the rest is weak. *)
Fairness ==
    /\ \A c \in Conns : /\ WF_vars(CallStep(c, "main") \/ MainStep(c))
                        /\ SF_vars(CallStep(c, "read") \/ ReadStep(c))
                        /\ WF_vars(CallStep(c, "write") \/ Encode(c))
                        /\ SF_vars(CallStep(c, "error") \/ HandleError(c))
                        /\ WF_vars(CallStep(c, "app"))
                        /\ \A r \in {"write", "error"} : SF_vars(LoopQuits(c, r))
    /\ \A s \in Senders : SF_vars(SendStep(s))

FairSpec == Spec /\ Fairness

-----------------------------------------------------------------------------
(* The rooms and the namespaces of a connection agree: it is in the rooms of a
   namespace only while it has that namespace (connection_handlers.go:105-107,
   136-138).  A connection in rooms of a namespace it does not know would get
   broadcasts nobody can end. *)
RoomsAgree == \A n \in Namespaces : \A c \in joined[n] : n \in nss[c]

(* "for each namespace, leave all rooms, and call the disconnect handler"
   (connection.go:62): a connection whose Close is over is in no room.  When
   the application calls Close, a Connect packet that is being handled may join
   after Close has left. *)
ClosedLeavesRooms ==
    \A c \in Conns, n \in Namespaces :
        once[c] = "done" /\ pc[c]["app"] = "loop"
            /\ (\A r \in Roles \ {"app"} : pc[c][r] \in {"done", "off"})
          => c \notin joined[n]

(* A namespace's disconnect handler is called once for each time the namespace
   was connected, by the Disconnect packet or by Close (connection.go:64-66,
   connection_handlers.go:136-145), unless the application calls Close, which
   may then come between the steps of a Disconnect packet. *)
ToldOnce == \A c \in again : pc[c]["app"] # "loop"

(* Two circles that nothing but quitChan can open.  The error goroutine waits
   in Get behind the reader's Set or Delete, which waits for the Range of a
   Close (server.go:259): if that waits for the lock of a room whose Send waits
   for the write goroutine, and that for the error goroutine, they stay.  And
   the OnError handler emits (server.go:263) while the write goroutine is in
   onError (285). *)
Jammed(c) == \/ pc[c]["error"] = "get" /\ NamespacesAwaited(c) /\ Ranging(c)
             \/ pc[c]["error"] = "emit" /\ pc[c]["write"] = "raise"

NoJam == \A c \in Conns : []<>~Jammed(c)

(* A connection that is being served and whose client is gone is closed, its
   goroutines end and its session is removed, unless the connection is in one
   of the two circles. *)
BrokenConnEnds ==
    NoJam => \A c \in Conns :
                c \in broken /\ pc[c]["read"] # "off"
                    ~> \A r \in Served : pc[c][r] = "done" /\ c \in removed

(* A broadcast returns: "Send sends given event & args to all the connections
   in the specified room" (broadcast.go:85), with the same exception. *)
SendReturns ==
    NoJam => \A s \in Senders : at[s] = "sending" ~> at[s] = "idle"

-----------------------------------------------------------------------------
(* Inside closeOnce.Do. *)
Closing(c, r) == pc[c][r] \in {"range", "rleave", "rleaving", "quit"}

(* In connect(), and in the loop of serveRead. *)
Connecting(c) ==
    pc[c]["main"] \in {"start", "join", "joining", "encode", "connected"}
Serving(c) ==
    pc[c]["read"] \in {"loop", "set", "setting", "join", "joining", "dispatch",
                          "leave", "leaving", "delete", "deleting", "tell", "emit",
                          "raise"}

(* Which goroutine can be where, and what it goes on with: the goroutines are
   started when connect() is over, the write and error goroutines only end with
   quitChan and find the connection closed. *)
WhoIsWhere(c) ==
    /\ \/ Connecting(c) \/ Closing(c, "main")
       \/ pc[c]["main"] \in {"close", "done"}
    /\ pc[c]["main"] # "done" =>
          pc[c]["read"] = "off" /\ pc[c]["write"] = "off" /\ pc[c]["error"] = "off"
    /\ pc[c]["main"] \in {"join", "joining"} => then[c]["main"] = "encode"
    /\ \/ Serving(c) \/ Closing(c, "read")
       \/ pc[c]["read"] \in {"off", "close", "end", "done"}
    /\ pc[c]["read"] \in {"join", "joining"} => then[c]["read"] = "dispatch"
    /\ pc[c]["read"] \in {"leave", "leaving"} => then[c]["read"] = "delete"
    /\ pc[c]["read"] = "emit" => then[c]["read"] = "loop"
    /\ pc[c]["read"] = "raise" => then[c]["read"] \in {"loop", "close"}
    /\ pc[c]["write"] \in {"off", "loop", "encode", "raise", "close", "end", "done"}
    /\ pc[c]["write"] = "raise" => then[c]["write"] = "loop"
    /\ pc[c]["error"] \in {"off", "loop", "get", "emit", "close", "end",
                             "done"}
    /\ pc[c]["error"] = "emit" => then[c]["error"] = "loop"
    /\ "close" \in {pc[c]["write"], pc[c]["error"]} => c \in quit
    /\ pc[c]["app"] \in {"loop", "close", "done"} \/ Closing(c, "app")
    /\ pc[c]["app"] # "loop" => pc[c]["main"] # "start"

(* A goroutine that joins has set the namespace, one that deletes it has left
   its rooms; only main and read touch the namespaces. *)
RoomsFollow(c) ==
    /\ \A n \in Namespaces : c \in joined[n] => n \in nss[c]
    /\ pc[c]["main"] = "start" => nss[c] = {} /\ told[c] = {}
    /\ Connecting(c) => arg[c]["main"] = Root
    /\ pc[c]["main"] \in {"join", "joining"} => Root \in nss[c]
    /\ pc[c]["read"] \in {"join", "joining", "leave", "leaving", "delete",
                           "deleting"} => arg[c]["read"] \in nss[c]
    /\ pc[c]["read"] \in {"delete", "deleting"} =>
          c \notin joined[arg[c]["read"]]

(* closeOnce: one goroutine of a connection runs Close, and quitChan is closed
   only when it is over. *)
OneCloser(c) ==
    /\ c \in quit => once[c] = "done"
    /\ \A r \in Roles : Closing(c, r) => once[c] = "running"
    /\ \A q, r \in Roles : Closing(c, q) /\ Closing(c, r) => q = r

(* As long as no application goroutine closes the connection, its own goroutine
   does, between two packets: nothing it serves is half done then, so that every
   namespace is left and told of once. *)
OwnClose(c) ==
    /\ Connecting(c) \/ Serving(c) => once[c] = "not"
    /\ once[c] = "not" => told[c] \cap nss[c] = {}
    /\ pc[c]["read"] = "tell" => arg[c]["read"] \notin told[c] \cup nss[c]
    /\ \A r \in Roles : Closing(c, r) =>
          /\ left[c] \cap told[c] = {}
          /\ \A n \in Namespaces : c \in joined[n] =>
                \/ n \in left[c]
                \/ pc[c][r] \in {"rleave", "rleaving"} /\ n = arg[c][r]
          /\ pc[c][r] = "quit" => left[c] = {}
    /\ once[c] = "done" => \A n \in Namespaces : c \notin joined[n]
    /\ c \notin again

ConnOK(c) == /\ WhoIsWhere(c)
             /\ RoomsFollow(c)
             /\ OneCloser(c)
             /\ pc[c]["app"] = "loop" => OwnClose(c)

(* The inductive invariant: connections do not disturb each other. *)
ConnInv == ConnTypeOK /\ \A c \in Conns : ConnOK(c)
=============================================================================
