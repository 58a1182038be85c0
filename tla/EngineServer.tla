---------------------------- MODULE EngineServer ----------------------------
(***************************************************************************)
(* The engine.io server of engineio/server.go with its session pool        *)
(* (session_manager.go) and the accept loop of the socket.io server        *)
(* (Server.Serve).                                                         *)
(*                                                                         *)
(* A request without a sid makes a session: the HTTP handler goes on to    *)
(* connInitor and then serves the request, while a goroutine of the        *)
(* session writes the OPEN packet, which tells the client its sid, adds    *)
(* the session to the pool and sends it to connChan.  Over polling the     *)
(* OPEN packet leaves in the response of that very request.                *)
(***************************************************************************)
EXTENDS Integers, Sequences, FiniteSets

CONSTANTS Sids,       \* the session ids that NewID gives out
          Polled,     \* those whose first request came over polling
          Requests,   \* later requests, each with a sid its client was told
          Cap,        \* the capacity of connChan, 1 in NewServer
          Options     \* what may happen, a subset of AllOptions

(* close: Server.Close is called.  initFails: writing the OPEN packet fails.
   connectFails: the socket.io layer gives up in connect(). *)
AllOptions == {"close", "initFails", "connectFails"}

ASSUME SidsPolled == Polled \subseteq Sids
ASSUME CapPositive == Cap \in Nat \ {0}
ASSUME OptionsKnown == Options \subseteq AllOptions

VARIABLES hpc,       \* the handler of each session's first request
          ipc,       \* the goroutine of each session in newSession
          pool,      \* the sessions of the session manager
          connChan,  \* what connChan buffers
          chan,      \* whether connChan is "open" or "closed"
          serve,     \* Server.Serve: "running" or "ended"
          accepted,  \* the sessions Serve accepted
          closed,    \* those whose conn.Close is over, while they were served
          gone,      \* those of which a serving goroutine has ended
          refused,   \* those whose connect() failed
          told,      \* the sids the clients were told
          answer,    \* how each later request was answered
          crashed    \* whether the process panicked: "no" or "yes"

vars == <<hpc, ipc, pool, connChan, chan, serve, accepted, closed, gone, refused,
          told, answer, crashed>>

sessionVars == <<hpc, ipc, told>>
connVars == <<accepted, closed, gone, refused>>

(* Handler: none, made (newSession returned), serving (connInitor is done).
   Goroutine: none, init (inside InitSession), opened, added, sent, failed. *)
EngineTypeOK ==
    /\ hpc \in [Sids -> {"none", "made", "serving"}]
    /\ ipc \in [Sids -> {"none", "init", "opened", "added", "sent", "failed"}]
    /\ pool \in SUBSET Sids
    /\ accepted \in SUBSET Sids
    /\ closed \in SUBSET Sids
    /\ gone \in SUBSET Sids
    /\ refused \in SUBSET Sids
    /\ told \in SUBSET Sids
    /\ connChan \in Seq(Sids)
    /\ Len(connChan) <= Cap
    /\ chan \in {"open", "closed"}
    /\ serve \in {"running", "ended"}
    /\ answer \in [Requests -> {"none", "session", "invalid"}]
    /\ crashed \in {"no", "yes"}

Init == /\ hpc = [s \in Sids |-> "none"]
        /\ ipc = [s \in Sids |-> "none"]
        /\ pool = {}
        /\ connChan = <<>>
        /\ chan = "open"
        /\ serve = "running"
        /\ accepted = {}
        /\ closed = {}
        /\ gone = {}
        /\ refused = {}
        /\ told = {}
        /\ answer = [r \in Requests |-> "none"]
        /\ crashed = "no"

Goto(s, l) == ipc' = [ipc EXCEPT ![s] = l]

-----------------------------------------------------------------------------
(* A request without a sid: newSession up to the start of its goroutine. *)
NewSession(s) ==
    /\ hpc[s] = "none"
    /\ hpc' = [hpc EXCEPT ![s] = "made"]
    /\ Goto(s, "init")
    /\ UNCHANGED <<pool, connChan, chan, serve, connVars, told, answer, crashed>>

(* s.connInitor(r, reqSession), then reqSession.ServeHTTP. *)
ConnInitor(s) ==
    /\ hpc[s] = "made"
    /\ hpc' = [hpc EXCEPT ![s] = "serving"]
    /\ UNCHANGED <<ipc, pool, connChan, chan, serve, connVars, told, answer,
                   crashed>>

(* InitSession: the OPEN packet is written.  Over polling nextWriter waits for
   the response that the first request's handler offers. *)
InitSession(s) ==
    /\ ipc[s] = "init"
    /\ s \in Polled => hpc[s] = "serving"
    /\ told' = told \cup {s}
    /\ Goto(s, "opened")
    /\ UNCHANGED <<hpc, pool, connChan, chan, serve, connVars, answer, crashed>>

(* It fails, before the OPEN packet is out or after: the session is closed and
   not added, though its client may know the sid. *)
InitFails(s) ==
    /\ "initFails" \in Options
    /\ ipc[s] = "init"
    /\ \/ UNCHANGED told
       \/ (s \in Polled => hpc[s] = "serving") /\ told' = told \cup {s}
    /\ Goto(s, "failed")
    /\ UNCHANGED <<hpc, pool, connChan, chan, serve, connVars, answer, crashed>>

(* s.sessions.Add(newSession) *)
Add(s) ==
    /\ ipc[s] = "opened"
    /\ pool' = pool \cup {s}
    /\ Goto(s, "added")
    /\ UNCHANGED <<hpc, connChan, chan, serve, connVars, told, answer, crashed>>

(* The session is sent to connChan before it is added. *)
SendConnEarly(s) ==
    /\ ipc[s] = "opened"
    /\ s \notin accepted
    /\ Len(connChan) < Cap
    /\ connChan' = Append(connChan, s)
    /\ UNCHANGED <<sessionVars, pool, chan, serve, connVars, answer, crashed>>

(* A session that finds connChan full is forgotten. *)
SendConnDrops(s) ==
    /\ ipc[s] = "added"
    /\ chan = "open"
    /\ connChan' = IF Len(connChan) < Cap THEN Append(connChan, s) ELSE connChan
    /\ Goto(s, "sent")
    /\ UNCHANGED <<hpc, pool, chan, serve, connVars, told, answer, crashed>>

(* s.connChan <- newSession *)
SendConn(s) ==
    /\ ipc[s] = "added"
    /\ chan = "open"
    /\ Len(connChan) < Cap
    /\ connChan' = Append(connChan, s)
    /\ Goto(s, "sent")
    /\ UNCHANGED <<hpc, pool, chan, serve, connVars, told, answer, crashed>>

(* The same on a closed channel, also for a goroutine that was waiting: a panic
   that nobody recovers, so the process ends. *)
SendPanics(s) ==
    /\ ipc[s] = "added"
    /\ chan = "closed"
    /\ crashed' = "yes"
    /\ UNCHANGED <<sessionVars, pool, connChan, chan, serve, connVars, answer>>

-----------------------------------------------------------------------------
(* Serve gets a connection from Accept and starts serveConn. *)
Accept ==
    /\ serve = "running"
    /\ connChan # <<>>
    /\ accepted' = accepted \cup {Head(connChan)}
    /\ connChan' = Tail(connChan)
    /\ UNCHANGED <<sessionVars, pool, chan, serve, closed, gone, refused, answer,
                   crashed>>

(* Accept that looks at the close before the buffer. *)
AcceptEOFEarly ==
    /\ serve = "running"
    /\ chan = "closed"
    /\ serve' = "ended"
    /\ UNCHANGED <<sessionVars, pool, connChan, chan, connVars, answer, crashed>>

(* A closed channel that is drained gives nil: Accept returns io.EOF and Serve
   returns. *)
AcceptEOF ==
    /\ serve = "running"
    /\ connChan = <<>>
    /\ chan = "closed"
    /\ serve' = "ended"
    /\ UNCHANGED <<sessionVars, pool, connChan, chan, connVars, answer, crashed>>

(* Server.Close, once. *)
CloseServer ==
    /\ "close" \in Options
    /\ chan = "open"
    /\ chan' = "closed"
    /\ UNCHANGED <<sessionVars, pool, connChan, serve, connVars, answer, crashed>>

(* conn.Close of a connection that is served, by one of its goroutines or by
   the application, is over. *)
ConnCloses(s) ==
    /\ s \in accepted \ (closed \cup refused)
    /\ closed' = closed \cup {s}
    /\ UNCHANGED <<sessionVars, pool, connChan, chan, serve, accepted, gone,
                   refused, answer, crashed>>

(* A deferred function that removes the session before it closes the
   connection. *)
ConnEndsEarly(s) ==
    /\ s \in accepted \ refused
    /\ gone' = gone \cup {s}
    /\ pool' = pool \ {s}
    /\ UNCHANGED <<sessionVars, connChan, chan, serve, accepted, closed, refused,
                   answer, crashed>>

(* A goroutine that serves the connection ends: its Close is over, and it calls
   engine.Remove.  Each of the three does. *)
ConnEnds(s) ==
    /\ s \in closed
    /\ gone' = gone \cup {s}
    /\ pool' = pool \ {s}
    /\ UNCHANGED <<sessionVars, connChan, chan, serve, accepted, closed, refused,
                   answer, crashed>>

(* serveConn returns early: the connection is closed and not removed. *)
ConnectFails(s) ==
    /\ "connectFails" \in Options
    /\ s \in accepted \ (closed \cup refused)
    /\ refused' = refused \cup {s}
    /\ UNCHANGED <<sessionVars, pool, connChan, chan, serve, accepted, closed,
                   gone, answer, crashed>>

(* ServeHTTP of a request with sid s: the session, or "invalid sid value". *)
Request(r, s) ==
    /\ answer[r] = "none"
    /\ s \in told
    /\ answer' = [answer EXCEPT ![r] = IF s \in pool THEN "session"
                                       ELSE "invalid"]
    /\ UNCHANGED <<sessionVars, pool, connChan, chan, serve, connVars, crashed>>

-----------------------------------------------------------------------------
(* What the goroutine of a new session does. *)
SessionStep(s) == \/ InitSession(s)
                  \/ InitFails(s)
                  \/ Add(s)
                  \/ SendConn(s)
                  \/ SendPanics(s)

Step == \/ \E s \in Sids : \/ NewSession(s)
                           \/ ConnInitor(s)
                           \/ SessionStep(s)
                           \/ ConnCloses(s)
                           \/ ConnEnds(s)
                           \/ ConnectFails(s)
                           \/ \E r \in Requests : Request(r, s)
        \/ Accept
        \/ AcceptEOF
        \/ CloseServer

Next == crashed = "no" /\ Step

Spec == Init /\ [][Next]_vars

(* Goroutines run.  A channel serves the goroutines that wait to send in the
   order they came, so none waits for ever while others send. *)
Fairness == /\ \A s \in Sids : /\ WF_vars(crashed = "no" /\ ConnInitor(s))
                               /\ SF_vars(crashed = "no" /\ SessionStep(s))
            /\ WF_vars(crashed = "no" /\ (Accept \/ AcceptEOF))

FairSpec == Spec /\ Fairness

-----------------------------------------------------------------------------
(* The session of a connection that ended is not in the pool, nor does it come
   back: Add happens before the session is sent to connChan and so before the
   Remove of whichever goroutine ends first (engineio/server.go:165-167,
   server.go:244, 276, 297). *)
GoneLeavesPool == \A s \in gone : s \notin pool

(* Over polling connInitor has run before the application sees the connection
   (engineio/server.go:109): the OPEN packet can only leave in the response
   that the same handler serves afterwards.  Over websocket it need not have. *)
InitorFirst == \A s \in accepted \cap Polled : hpc[s] = "serving"

(* Serve does not return with a connection left: what was sent to connChan
   before Close is accepted before the EOF (engineio/server.go:57-60). *)
EOFIsLast == serve = "ended" => \A s \in Sids : ipc[s] = "sent" => s \in accepted

(* A session in the pool is on its way to the application, or there: nobody
   else would ever remove it. *)
PoolIsServed ==
    \A s \in pool : \/ ipc[s] = "added"
                    \/ \E i \in 1..Len(connChan) : connChan[i] = s
                    \/ s \in accepted \ gone

(* A request with a sid that the server gave out is refused only before the
   session was added or after its connection was closed (engineio/server.go:
   88-95, 165; server.go:239-244): in between no step of any goroutine takes it
   out of the pool.  Before, because the OPEN packet leaves earlier than Add,
   and for ever if InitSession fails after it. *)
SidIsKnown ==
    [][\A r \in Requests, s \in Sids :
          Request(r, s) /\ answer'[r] = "invalid"
              => ipc[s] \in {"opened", "failed"} \/ s \in closed]_vars

(* A session that was added is accepted, if the server is not closed, although
   connChan holds only one. *)
AddedIsAccepted ==
    \A s \in Sids : s \in pool ~> s \in accepted \/ chan = "closed"

-----------------------------------------------------------------------------
(* The inductive invariant behind these: where a session can be at each place
   of its goroutine. *)
Buffered == {connChan[i] : i \in 1..Len(connChan)}

EngineInv ==
    /\ EngineTypeOK
    /\ Buffered \cup accepted = {s \in Sids : ipc[s] = "sent"}
    /\ \A s \in Sids : hpc[s] = "none" => ipc[s] = "none"
    /\ gone \subseteq closed /\ closed \subseteq accepted
    /\ pool = {s \in Sids : ipc[s] \in {"added", "sent"}} \ gone
    /\ \A s \in told : ipc[s] \in {"opened", "added", "sent", "failed"}
    /\ \A s \in Polled :
          ipc[s] \in {"opened", "added", "sent"} => hpc[s] = "serving"
    /\ serve = "ended" => chan = "closed" /\ connChan = <<>>
=============================================================================
