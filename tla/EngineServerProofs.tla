------------------------- MODULE EngineServerProofs -------------------------
(***************************************************************************)
(* Proofs about EngineServer, for any number of sessions and any capacity  *)
(* of connChan.                                                            *)
(***************************************************************************)
EXTENDS EngineServer, TLAPS

(* What a send to connChan does to its contents. *)
LEMMA BufferedAppend ==
    ASSUME NEW q \in Seq(Sids), NEW s \in Sids
    PROVE  /\ Append(q, s) \in Seq(Sids)
           /\ Len(Append(q, s)) = Len(q) + 1
           /\ {Append(q, s)[i] : i \in 1..Len(Append(q, s))}
                = {q[i] : i \in 1..Len(q)} \cup {s}
<1>1. /\ Append(q, s) \in Seq(Sids)
      /\ Len(Append(q, s)) = Len(q) + 1
  OBVIOUS
<1>2. \A i \in 1..Len(q) : Append(q, s)[i] = q[i]
  OBVIOUS
<1>3. Append(q, s)[Len(q) + 1] = s
  OBVIOUS
<1>4. Len(q) \in Nat
  OBVIOUS
<1>5. 1..(Len(q) + 1) = (1..Len(q)) \cup {Len(q) + 1}
  BY <1>4
<1>6. {Append(q, s)[i] : i \in 1..(Len(q) + 1)}
        = {q[i] : i \in 1..Len(q)} \cup {s}
  BY <1>2, <1>3, <1>5, Zenon
<1> QED
  BY <1>1, <1>6

(* What a receive from connChan does to its contents. *)
LEMMA BufferedTail ==
    ASSUME NEW q \in Seq(Sids), q # <<>>
    PROVE  /\ Head(q) \in Sids
           /\ Tail(q) \in Seq(Sids)
           /\ Len(Tail(q)) = Len(q) - 1
           /\ {q[i] : i \in 1..Len(q)}
                = {Tail(q)[i] : i \in 1..Len(Tail(q))} \cup {Head(q)}
<1>1. /\ Head(q) \in Sids
      /\ Tail(q) \in Seq(Sids)
      /\ Len(Tail(q)) = Len(q) - 1
      /\ Len(q) \in Nat \ {0}
  OBVIOUS
<1>2. \A i \in 1..Len(Tail(q)) : Tail(q)[i] = q[i + 1] /\ i + 1 \in 1..Len(q)
  BY <1>1
<1>3. Head(q) = q[1] /\ 1 \in 1..Len(q)
  BY <1>1
<1>4. \A i \in 1..Len(q) :
         i = 1 \/ (i - 1 \in 1..Len(Tail(q)) /\ Tail(q)[i - 1] = q[i])
  BY <1>1
<1>5. {q[i] : i \in 1..Len(q)}
        \subseteq {Tail(q)[i] : i \in 1..Len(Tail(q))} \cup {Head(q)}
  BY <1>3, <1>4
<1>6. {Tail(q)[i] : i \in 1..Len(Tail(q))} \cup {Head(q)}
        \subseteq {q[i] : i \in 1..Len(q)}
  BY <1>2, <1>3
<1> QED
  BY <1>1, <1>5, <1>6

-----------------------------------------------------------------------------
(* The inductive invariant holds at the start: nothing was sent yet. *)
LEMMA InitInv == Init => EngineInv
<1> SUFFICES ASSUME Init
             PROVE  EngineInv
  OBVIOUS
<1>1. EngineTypeOK
  BY CapPositive DEF Init, EngineTypeOK
<1>2. Len(connChan) = 0
  BY DEF Init
<1>3. Buffered = {}
  BY <1>2 DEF Buffered
<1>4. {s \in Sids : ipc[s] = "sent"} = {}
  BY DEF Init
<1>5. /\ gone \subseteq closed /\ closed \subseteq accepted
      /\ pool = {s \in Sids : ipc[s] \in {"added", "sent"}} \ gone
      /\ \A s \in told : ipc[s] \in {"opened", "added", "sent", "failed"}
      /\ serve = "ended" => chan = "closed" /\ connChan = <<>>
  BY DEF Init
<1>6. \A s \in Polled :
         ipc[s] \in {"opened", "added", "sent"} => hpc[s] = "serving"
  BY SidsPolled DEF Init
<1>7. accepted = {} /\ \A s \in Sids : ipc[s] = "none"
  BY DEF Init
<1> QED
  BY <1>1, <1>3, <1>4, <1>5, <1>6, <1>7 DEF EngineInv

(* Steps that leave connChan and accepted alone: an action moves one session
   along its goroutine, or ends a connection. *)
LEMMA SessionInv ==
    ASSUME EngineInv, NEW s \in Sids,
           \/ NewSession(s) \/ ConnInitor(s) \/ InitSession(s) \/ InitFails(s)
           \/ Add(s) \/ SendPanics(s) \/ ConnCloses(s) \/ ConnEnds(s)
           \/ ConnectFails(s)
    PROVE  EngineInv'
<1> USE DEF EngineInv, EngineTypeOK, Buffered, sessionVars, connVars
<1>1. CASE NewSession(s)
  BY <1>1, SidsPolled DEF NewSession, Goto
<1>2. CASE ConnInitor(s)
  BY <1>2, SidsPolled DEF ConnInitor
<1>3. CASE InitSession(s)
  BY <1>3, SidsPolled DEF InitSession, Goto
<1>4. CASE InitFails(s)
  BY <1>4 DEF InitFails, Goto
<1>5. CASE Add(s)
  BY <1>5 DEF Add, Goto
<1>6. CASE SendPanics(s)
  BY <1>6 DEF SendPanics
<1>7. CASE ConnEnds(s)
  BY <1>7 DEF ConnEnds
<1>8. CASE ConnectFails(s)
  BY <1>8 DEF ConnectFails
<1>9. CASE ConnCloses(s)
  BY <1>9 DEF ConnCloses
<1> QED
  BY <1>1, <1>2, <1>3, <1>4, <1>5, <1>6, <1>7, <1>8, <1>9

(* A send moves one session from added to connChan. *)
LEMMA SendConnInv ==
    ASSUME EngineInv, NEW s \in Sids, SendConn(s)
    PROVE  EngineInv'
<1> USE DEF SendConn, Goto, EngineInv, EngineTypeOK, connVars
<1>1. /\ connChan' \in Seq(Sids)
      /\ Len(connChan') = Len(connChan) + 1
      /\ Buffered' = Buffered \cup {s}
  BY BufferedAppend DEF Buffered
<1>2. EngineTypeOK'
  BY <1>1, CapPositive
<1>3. (Buffered \cup accepted = {x \in Sids : ipc[x] = "sent"})'
  BY <1>1
<1>4. (serve = "ended" => chan = "closed" /\ connChan = <<>>)'
  OBVIOUS
<1>5. (gone \subseteq closed /\ closed \subseteq accepted)'
  OBVIOUS
<1>6. /\ (pool = {x \in Sids : ipc[x] \in {"added", "sent"}} \ gone)'
      /\ (\A x \in told : ipc[x] \in {"opened", "added", "sent", "failed"})'
      /\ (\A x \in Polled :
             ipc[x] \in {"opened", "added", "sent"} => hpc[x] = "serving")'
  BY SidsPolled
<1> QED
  BY <1>2, <1>3, <1>4, <1>5, <1>6

(* Accept moves one session from connChan to the accepted ones. *)
LEMMA AcceptInv ==
    ASSUME EngineInv, Accept
    PROVE  EngineInv'
<1> USE DEF Accept, EngineInv, EngineTypeOK, sessionVars
<1>1. /\ Head(connChan) \in Sids
      /\ connChan' \in Seq(Sids)
      /\ Len(connChan') = Len(connChan) - 1
      /\ Buffered = Buffered' \cup {Head(connChan)}
  <2>1. connChan \in Seq(Sids) /\ connChan # <<>> /\ connChan' = Tail(connChan)
    OBVIOUS
  <2> HIDE DEF Accept, EngineInv, EngineTypeOK
  <2> QED
    BY <2>1, BufferedTail, Zenon DEF Buffered
<1>2. EngineTypeOK'
  BY <1>1, CapPositive
<1>3. (Buffered \cup accepted = {x \in Sids : ipc[x] = "sent"})'
  BY <1>1
<1>4. (serve = "ended" => chan = "closed" /\ connChan = <<>>)'
  OBVIOUS
<1>5. (gone \subseteq closed /\ closed \subseteq accepted)'
  OBVIOUS
<1> QED
  BY <1>2, <1>3, <1>4, <1>5

(* The steps that concern no single session. *)
LEMMA ServerInv ==
    ASSUME EngineInv,
           \/ AcceptEOF \/ CloseServer
           \/ \E r \in Requests, s \in Sids : Request(r, s)
           \/ UNCHANGED vars
    PROVE  EngineInv'
<1> USE DEF EngineInv, EngineTypeOK, Buffered, sessionVars, connVars
<1>1. CASE AcceptEOF
  BY <1>1 DEF AcceptEOF
<1>2. CASE CloseServer
  BY <1>2 DEF CloseServer
<1>3. CASE \E r \in Requests, s \in Sids : Request(r, s)
  BY <1>3 DEF Request
<1>4. CASE UNCHANGED vars
  BY <1>4 DEF vars
<1> QED
  BY <1>1, <1>2, <1>3, <1>4

(* Every step keeps the invariant. *)
LEMMA NextInv == EngineInv /\ [Next]_vars => EngineInv'
<1> SUFFICES ASSUME EngineInv, [Next]_vars
             PROVE  EngineInv'
  OBVIOUS
<1>1. CASE \E s \in Sids : NewSession(s) \/ ConnInitor(s) \/ InitSession(s)
                \/ InitFails(s) \/ Add(s) \/ SendPanics(s) \/ ConnCloses(s)
                \/ ConnEnds(s) \/ ConnectFails(s)
  BY <1>1, SessionInv
<1>2. CASE \E s \in Sids : SendConn(s)
  BY <1>2, SendConnInv
<1>3. CASE Accept
  BY <1>3, AcceptInv
<1>4. CASE \/ AcceptEOF \/ CloseServer
           \/ \E r \in Requests, s \in Sids : Request(r, s)
           \/ UNCHANGED vars
  BY <1>4, ServerInv
<1> QED
  BY <1>1, <1>2, <1>3, <1>4 DEF Next, Step, SessionStep

-----------------------------------------------------------------------------
(* The inductive invariant: at each place of its goroutine a session is where
   it should be, in connChan, in the pool, or accepted. *)
THEOREM EngineInvariant == Spec => []EngineInv
  BY InitInv, NextInv, PTL DEF Spec

(* Type correctness, with connChan within its capacity. *)
THEOREM EngineTypeCorrect == Spec => []EngineTypeOK
<1>1. EngineInv => EngineTypeOK
  BY DEF EngineInv
<1> QED
  BY <1>1, EngineInvariant, PTL

(* No Add of a session comes after the Remove of its connection, so the pool
   does not leak the sessions of connections that were served. *)
THEOREM PoolDoesNotLeak == Spec => []GoneLeavesPool
<1>1. EngineInv => GoneLeavesPool
  BY DEF EngineInv, GoneLeavesPool
<1> QED
  BY <1>1, EngineInvariant, PTL

(* Over polling the application never sees a connection that connInitor has
   not seen. *)
THEOREM InitorRunsFirst == Spec => []InitorFirst
<1>1. EngineInv => InitorFirst
  BY SidsPolled DEF EngineInv, EngineTypeOK, InitorFirst
<1> QED
  BY <1>1, EngineInvariant, PTL

(* Serve returns only when everything that was sent is accepted. *)
THEOREM ServeDrains == Spec => []EOFIsLast
<1>1. EngineInv => EOFIsLast
  <2> SUFFICES ASSUME EngineInv, serve = "ended", NEW s \in Sids,
                      ipc[s] = "sent"
               PROVE  s \in accepted
    BY DEF EOFIsLast
  <2>1. Len(connChan) = 0
    BY DEF EngineInv
  <2>2. Buffered = {}
    BY <2>1 DEF Buffered
  <2> QED
    BY <2>2 DEF EngineInv
<1> QED
  BY <1>1, EngineInvariant, PTL

(* A session in the pool is on its way to the application or served by it. *)
THEOREM PoolServed == Spec => []PoolIsServed
<1>1. EngineInv => PoolIsServed
  <2> SUFFICES ASSUME EngineInv, NEW s \in pool, ipc[s] # "added"
               PROVE  \/ \E i \in 1..Len(connChan) : connChan[i] = s
                      \/ s \in accepted \ gone
    BY DEF PoolIsServed
  <2>1. s \in Sids /\ ipc[s] = "sent" /\ s \notin gone
    BY DEF EngineInv
  <2>2. s \in Buffered \cup accepted
    BY <2>1 DEF EngineInv
  <2> QED
    BY <2>1, <2>2 DEF Buffered
<1> QED
  BY <1>1, EngineInvariant, PTL

(* Between Add and the Close of its connection a sid that a client was told is
   always found. *)
THEOREM KnownSidIsFound == Spec => SidIsKnown
<1> DEFINE Refused(r, s) == Request(r, s) /\ answer'[r] = "invalid"
                                => ipc[s] \in {"opened", "failed"} \/ s \in closed
           A == \A r \in Requests, s \in Sids : Refused(r, s)
<1>1. EngineInv /\ [Next]_vars => [A]_vars
  <2> SUFFICES ASSUME EngineInv, NEW r \in Requests, NEW s \in Sids,
                      Request(r, s), answer'[r] = "invalid"
               PROVE  ipc[s] \in {"opened", "failed"} \/ s \in closed
    OBVIOUS
  <2>1. s \notin pool /\ s \in told
    BY DEF Request, EngineInv, EngineTypeOK
  <2> QED
    BY <2>1 DEF EngineInv
<1>2. [][A]_vars => SidIsKnown
  BY DEF SidIsKnown
<1> QED
  BY <1>1, <1>2, EngineInvariant, PTL DEF Spec
=============================================================================
