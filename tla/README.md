# A TLA+ model of go-socket.io

This directory holds a formal model of go-socket.io, server and client: TLA+
modules, the TLC configurations that check them on small instances, and TLAPS
proofs, for every value of the constants, of the safety properties that those
runs check.  `PROJECT.json` relates every
definition to the lines of source it stands for and every run to what it checks.

## 1. The system and its parts

A client opens an **engine.io** session over HTTP polling or websocket; a polling
session may be *upgraded* to websocket while it is in use.  On top of a session
runs a **socket.io** connection with namespaces, rooms and broadcasts.

| part | source | state | operations | what makes it correct |
|---|---|---|---|---|
| pauser | `engineio/payload/pauser.go` | status, worker count, two channels made anew by every Resume | Working, Done, Pause, Resume | paused means idle; the count is exact; no channel closed twice; no lost wakeup |
| payload | `engineio/payload/payload.go` | close, error, deadlines, feeding and flushing flags, four unbuffered channels | FeedIn, FlushOut, NextReader, NextWriter, deadlines, Pause, Resume, Close | handlers outlive the frames they lend; one frame per response; requests end |
| decoder, encoder | `engineio/payload/{de,en}coder.go` | the body being decoded, the response being written | NextReader, NextWriter, Close of a frame | no frame skipped, repeated or mixed |
| polling transport | `engineio/transport/polling/server.go` | a payload | ServeHTTP | |
| session | `engineio/session/session.go` | the current connection, a read-write lock | NextReader, NextWriter, upgrading, Close | an upgrade loses nothing and leaves nothing behind |
| session manager | `engineio/session/session_manager.go` | map of sessions | Add, Get, Remove | no leak |
| engine.io server | `engineio/server.go` | connChan (one place), closeOnce | ServeHTTP, newSession, Accept, Close, Remove | every session is accepted; shutdown is orderly |
| socket.io server | `server.go` | handlers | Serve, serveConn, serveRead, serveWrite, serveError | connections end and are removed |
| connection | `connection.go`, `connection_handlers.go` | namespaces, writeChan, errorChan, quitChan, closeOnce | connect, Close, write, onError, packet handlers | a closed connection is in no room; handlers are told once |
| broadcast | `broadcast.go` | rooms under a read-write lock | Join, Leave, LeaveAll, Clear, Send, SendAll, ForEach, Len, Rooms | a broadcast sees the members and returns |
| redis broadcast | `redis_broadcast.go` | the same, and requests to other servers | the same over publish/subscribe | replies are counted; callers return |
| engine.io client | `engineio/client.go`, `engineio/dialer.go`, `engineio/transport/polling/connect.go` | a payload of its own, the ping loop, two polling goroutines | Dial, Open, serveGet, servePost, NextReader, NextWriter, Close | everything ends once something closed the client |
| socket.io client | `client.go` | the connection, quitChan | Connect, Emit, Close, clientRead, clientWrite | the same |
| websocket | `engineio/transport/websocket/` | a write lock handed out with each frame | NextReader, NextWriter, SetWriteDeadline | the lock comes back on every path |
| framing | `engineio/payload/{en,de}coder.go`, `util.go` | the rest of the length of a frame | header and data, written and read | the reader ends a frame where the writer did |
| parser | `parser/`, `engineio/packet` | the frame read, the numbers of the Buffers | Encode, DecodeHeader, DecodeArgs | handlers get what was emitted, in order; the reader stays in step |

How they interact.  HTTP handlers and the session's goroutines meet in the payload
over unbuffered channels.  The engine.io server hands a new session to the socket.io
server over connChan, after it was put in the pool; the socket.io server starts three
goroutines for it which end through quitChan and remove it from the pool.  An upgrade
request runs in its own HTTP handler and swaps the session's connection under the
session's reader and writers; to do so it pauses the polling connection, which waits
for the requests inside FeedIn and FlushOut.  A broadcast runs in a goroutine of the
application and waits, with the room's lock held, for the write goroutine of every
member.  It gives the same arguments, and so the same Buffers, to all of them.  A
client over polling is the same payload turned round: its GETs feed, its POSTs flush.

What is hard: the pause protocol (a condition variable, two generations of channels,
several upgrades at once); values taken under a lock and used after it; deadlines that
end a handler under the reader's hands; locks held while waiting for a channel; the
order of joining, leaving and closing; the order of announcing, adding and accepting a
session; a packet that is several frames with others in between; a length in one unit
that is read in another.  The hazards in `PROJECT.json` list each with its line.

## 2. Modules

    Gate  <--implements--  Pauser  <--extends--  Payload
      ^
      |  (its polling connection)
    Session    EngineServer    Connection    RedisBroadcast

    Client         Framing  <--extends--  Parser

* **Gate** - what a pauser promises, and no more: nobody enters a shut gate, and it is
  shut only when nobody is inside.
* **Pauser** - `pauser.go`, one action per critical section; Pause is cut at `c.Wait`
  (`PauseWait`, `PauseWake`, `PauseNow`, `PauseAgain`).  A channel is known by its
  *generation*, the number of Resume calls before it was made.  `KeepPaused` is the
  caller that never resumes, a completed upgrade.
* **Payload** - extends Pauser.  Requests (`Feeders`, `Flushers`) make one call each;
  the reader and the writers are the session's goroutines; `Pongers` is the reader
  acting as writer, because it answers a ping while the ping's frame is open.  `pc` is
  cut at the critical sections and selects; a send and its receive over an unbuffered
  channel are one action (`HandBody`, `HandWriter`, `ReadError`, `WriteError`).  The
  one deadline is `armed` or `expired`; `arms` counts how often it was set, so that the
  timer of an earlier setting is told from the present one (`Recheck`).  A body is a
  number of frames and how it ends.  The deferred Done and the reset of the flag of a call
  are one step, `FeedInReturn` and `FlushOutReturn`: a call that came between the two
  would be refused for overlapping instead of being admitted or refused as paused, and
  changes nothing either way.
* **Session** - `session.go`: `current` is `s.conn`.  Users take it (`TakeConn`), call
  it, and have a frame; upgrades probe, look up the old connection, pause it, read
  UPGRADE, swap, and close.  `held` are the users whose frame a polling request still
  waits for: at its deadline the request goes (`RequestTimesOut`), the frame stays open,
  and a Pause does not wait for it any more.  The polling connection is a gate here
  (`PollGate` instantiates Gate with `held`), which Pauser and Payload show it to be.
* **EngineServer** - `engineio/server.go`, the pool, and `Server.Serve`: `hpc` is the
  HTTP handler of a session's first request, `ipc` the goroutine of `newSession`.  Each
  goroutine of a connection closes it and removes its session when it ends; `closed` are
  the connections whose Close is over and `gone` the sessions that the first of them has
  removed.
* **Connection** - `connection.go`, `connection_handlers.go`, the loops of `server.go`
  and the rooms of `broadcast.go`.  Every connection has a goroutine in each role (main,
  read, write, error, app); `pc[c][r]` is its place and, inside a call (join, leave,
  emit, raise, close), `then[c][r]` the place to go on at and `arg[c][r]` what the call is
  about.  A broadcaster has places of its own (`at`, the namespace `to`, the members
  `todo`).  `pend` (the namespaces whose write lock somebody waits for or has) and
  `readers` are a namespace's read-write lock as Go has it: a waiting writer keeps new
  readers out.  The lock of the namespaces is told from the places of those who have it or
  wait for it (`LockNamespaces`, `NamespacesAwaited`, `Ranging`): the reader writes in Set
  and Delete, Close reads in Range for as long as it walks, and serveError reads in Get,
  before it calls the OnError handler, which may emit (`HandleError`).
* **RedisBroadcast** - `redis_broadcast.go` on several servers: callers and `dispatch`
  of each, its rooms and lock (`pend`, `readers` as above), and `inbox`, what redis has
  for a subscriber.  Len and AllRooms ask for the number of subscribers (`Ask`), publish
  (`PublishRequest`) and wait for as many replies (`Return`); Rooms without a connection
  does so with the read lock held (`RoomsOfAll`).  A call that wants the write lock
  begins when it announces itself, since waiting before that keeps nobody else; only
  for dispatch, which receives nothing meanwhile, that wait is a place of its own
  (`lock`).  Redis delivers to all subscribers in one order; a connection to it that
  failed fails for ever, as redigo's do.  A broadcast is emitted under the read lock, by
  its sender (`SendEmits`) and by dispatch (`OnMessageEmits`), and when the Emits return is
  left open.  `req` is the map entry of a caller's request.
  `quiet` and `emitted` are history, for the properties, and so is the sender `from` of a
  reply: the code's message has none, and no step reads it.
* **Client** - a client over polling, from `Client.Connect` to the end.  A goroutine is a
  place `pc`: `dial` (the application in Connect), `open` (getOpen), `get` (serveGet),
  `post` (servePost), `serve` (the pings), `read`, `write` and `error` (clientRead,
  clientWrite, clientError).  The last three meet over `writeChan` (`Emit`) and `errorChan`
  (`OnError`), where who waits is let go by `quitChan`.  All but `error` meet in the
  client's payload.  That payload starts *without* deadlines, so a wait that began before
  the first one has a timer that never fires: `patient` are the goroutines in such a wait.
* **Framing** - the length of a frame, its header and how far the decoder reads, as
  functions over sequences of byte *classes*: continuation, first byte of a character
  of two, three or four bytes, other.  Both sides of the length look at nothing else.
* **Parser** - extends Framing: one direction of a connection, from the write goroutine to
  the peer's handlers, over a websocket, a binary or a base64 payload.  The text of a
  packet is a sequence of tokens, written by `WritePacket` and read by `ReadHeader` and
  `ReadEvent`.  The name of an event is plain or has a comma or a `]`, where the reader
  stops.  Which namespaces the peer has, `Known`, does not change: Connect and Disconnect
  change it in Connection.  `serve` encodes packets and `pong` answers pings; each takes
  `lock` with its frame (over polling, the one encoder of the payload, which Payload shows
  to be exclusive, is in its place).  `num` is the number a Buffer carries, and `twin`
  another connection that encodes the same broadcast.  What is written is a constant,
  `Scripts`.  A frame has a `mark`, auxiliary like `from` above: which packet it is of,
  which frame of it, and in which order that packet's Buffers are sent.
* **PauserProofs**, **PayloadProofs** (extends it), **SessionProofs**,
  **EngineServerProofs**, **ConnectionProofs**, **RedisBroadcastProofs**,
  **ClientProofs**, **ParserProofs** - the theorems.  **MC...** - for TLC.

The inductive invariant of a proof (`PauserInv`, `PayloadInv`, `SessionInv`, `EngineInv`,
`ConnInv`, `RedisInv`, `ClientInv`, `StreamInv`) is stated in the component's module and
checked by its run.

An operator whose comment describes a variant (`WorkingUnchecked`, `GiveUpOld`, ...)
is a plausible mistake in the operation that follows it.  No specification uses it; it
takes the place of that operation to show that a property notices.

## 3. Runs

Passing runs:

| run | what it shows | bounds |
|---|---|---|
| pauser_gate | PauserInv: type, PausedIsIdle, WorkerCount, NoDoubleClose and what makes them inductive; ImplementsGate; PauseReturns: no wakeup is lost | 2 workers, 2 pausers, 2 Resume calls |
| payload_halves | HandlerStays, FeedInComplete, EncoderExclusive, FlushOutNonEmpty | one half at a time (constraint OneHalf): two POSTs with bodies of up to 2 frames that end well or badly and one new deadline, or two GETs and two writers, or a GET and a writer with a new deadline; one upgrade |
| payload_drain | PayloadInv, PauseQuiesces, CloseDrains, UpgradePauseReturns, PauseTellsFlushOut with both halves coupled by the pong | one POST, one GET, one upgrade; and, while the reader waits for a POST, two GETs and two upgrades, the first of which may resume under the second (constraint UpgradesOverlap) |
| session_upgrade | SessionInv, NotLeftPaused, CurrentIsOpen, OldClosedIdle, ReaderFollows, BrokenSessionEnds | two upgrades, a reader, a writer; any request may time out |
| conn_rooms | ConnInv, RoomsAgree, ClosedLeavesRooms, ToldOnce | one connection, two namespaces, one broadcaster; connect may fail, the OnError handler may emit, the application may close |
| conn_live | BrokenConnEnds, SendReturns | the same without a connect that fails; the client stays in the root namespace, which the broadcast goes to, and enters and leaves the other (constraint RootStays) |
| engine_pool | EngineInv: type, GoneLeavesPool, InitorFirst, PoolIsServed and the two equations of section 4; EOFIsLast, SidIsKnown, AddedIsAccepted | two polling and a websocket session, one later request, one place in connChan |
| redis_len | RedisInv, AnswerIsRight, SendOnce, CallReturns | two servers with a caller each, one of which may come later; two calls, or one call and a lost connection (constraint CallsOrLosses) |
| client_live | ClientInv, PostIsComplete, ClosedClientEnds | one client; any number of frames, emits and pings; the read and the write deadline; an OnError handler that emits; the application closes at any time after getOpen (constraint AppClosesOpened) |
| parser_stream | StreamInv (with ParserInv and CodecOK in it), PacketsArrive, ReaderStaysInSync, WritersReturn, PacketsHandled | 13 scripts of up to two packets of every kind over the three transports, one pong, a lost connection |

The bounds are chosen so that every phase of every party can meet every phase of every
other one: two callers of the same kind where they compete (two writers for one
encoder, two POSTs for the feeding flag, two upgrades for one connection, three
sessions for one place, two requests that overlap with a server that comes between the
count and the request).  `MaxGen`, `MaxFrames` and `MaxArms` cap Resume calls, frames
and settings of the deadline; it takes two generations to confuse them.  `MaxCalls` caps
the calls of RedisBroadcast, `Late` and `Fragile` say which server may come later and
which connections to redis may be lost.  Client needs no bound; `Tails` leaves the
responses that end badly, which close the client like a failed request, to Payload.
In Parser, `Scripts` are pairs in which the first packet can spoil the second, a text has
up to three characters and a Buffer up to three bytes, one of each class that is
counted differently.  Deadlock is
not checked: requests are one call each and the system may come to rest; what must not
come to rest is said by the liveness properties.

Two runs end in a violation.  Each checks one sentence of a comment against the code;
the findings in `PROJECT.json` quote it.

* `conn_send_hangs`: a broadcast to a connection that is still connecting waits with the
  room's lock held, and if the connect fails, for ever.
* `parser_binary`: the length of a BINARY frame is computed as if it were text, so that a
  Buffer that is no UTF-8 arrives cut short over a binary payload.

Many properties hold under a condition, which each states, and the condition is as
telling as the property:

* HandlerStays, EncoderExclusive and PauseQuiesces while no error is stored (a deadline
  that passes ends the handler with the frame open); UpgradePauseReturns once the writers
  stop asking.  PauseTellsFlushOut has two exceptions, both made by the Resume of one
  upgrade, which replaces the channels: a FlushOut that began to listen before it, and
  the Pause of another upgrade that waits under it and does not close the new channel.
  Such a FlushOut waits for a writer or for its deadline.
* OldClosedIdle when no other upgrade failed (its Resume opens the connection for all),
  and for frames that a request still waits for;
  ReaderFollows and BrokenSessionEnds when at most one upgrade swaps; CurrentIsOpen until
  the session ends (an upgrade does not notice the end).
* BrokenConnEnds and SendReturns but for a connection that stays in one of two circles
  (`Jammed`).  One is an OnError handler that emits while the write goroutine waits in
  onError for the goroutine of the handler.  The other is longer: the application's Close
  walks over the namespaces and waits for a room's lock, which a broadcast has that waits
  for the write goroutine, which waits in onError for the error goroutine, which waits in
  Get behind the reader's Set or Delete, which waits for that walk.  Both are in the run,
  and only quitChan would end them, which Close closes last.
* ClosedLeavesRooms and ToldOnce as long as the application does not close the connection.
  Close by the application overtakes a packet that is being handled: a Connect then joins a
  room after Close left all, and a Disconnect and Close both call the disconnect handler.
* SidIsKnown from Add on (the OPEN packet leaves before, and for nothing if InitSession
  fails after it) until the connection's Close is over.
* CallReturns while no connection to redis is lost, every Emit returns (one that does not,
  and `conn_send_hangs` shows one, keeps dispatch from replying to anybody) and nobody
  calls Rooms without a connection: Rooms waits for dispatch with the lock held that
  dispatch needs, and with a Join, or a Clear by another server, at that moment all three
  wait for ever. AnswerIsRight when no room and no subscriber changed meanwhile.
* ClosedClientEnds but for a request whose frame nobody closes and that began to wait
  before the first deadline, for a reader left with a body its feeder has closed, which it
  reads again and again, and for an OnError handler that emits while clientWrite waits in
  onError, unless the application closes the client.
* PacketsArrive and ReaderStaysInSync but for Buffers that a broadcast numbers
  differently at the same time (they arrive in each other's place, or the peer's
  detachBuffer panics) and Buffers that are no text in a binary payload.
  ReaderStaysInSync names what else ends the peer's reader: arguments that cannot be
  encoded, after which an empty frame is sent all the same; a comma or a `]` in the name
  of an event; Buffers for a namespace the peer does not have.

The models also have what no property excludes: a call on the connection before a swap that
fails after it (`CallFails` of Session); the send on a connChan that Close closed
(`SendPanics`) and a session that stays in the pool when its connect fails (`ConnectFails`
of EngineServer); the websocket of the first of two upgrades that both complete, which
stays open with nobody on it (`Swap`, `CloseOld`); the query of a namespace, which the
decoder reads and the encoder never writes, so that the echo of a Connect loses it
(`Namespace` of Parser); the frame that a decoder gives again after its Close met a
malformed header (`NextReaderSameBody` of Payload, `StaleFrame` of Parser); and a client
whose serveGet begins while getOpen is still in FeedIn: it is refused, ends, and the client
hears nothing more (`Opened` of Client).

### Fairness

A goroutine that can take a step takes it (weak fairness, per goroutine), because the Go
scheduler is preemptive.  Strong fairness is assumed only where a goroutine competes:

* in Connection for the reader, the error goroutine and the broadcasters, which wait for
  the write goroutine among others (a channel serves its waiters in order), and for
  `LoopQuits`, one case of a select, which chooses at random among the cases that are
  ready;
* in EngineServer for the goroutine of a new session, which waits to send on connChan;
* in RedisBroadcast for dispatch, which waits for the read-write lock among callers (none
  is assumed of an Emit);
* in Parser for `NextWriter` and `SetWriteDeadline`, which wait for a `sync.Mutex`, and a
  mutex hands itself to a waiter after a millisecond.  Over polling this stands for a
  client that keeps asking;
* in Client for the reader closing a body (`CloseBody`): responses have an end, so a body
  does not yield frames for ever; there too for the reader's Emit and OnError, which wait
  for a channel among others, and for clientWrite, whose select finds quitChan closed.

That time passes is fairness of `ReadExpires` and `WriteExpires` in Client, and in Payload
a premise of the properties that need it (`TimePasses`); there it is sound because
`Session.New` and `setDeadline` always set a deadline.  In Client every request is answered
or fails, because the polling transport's `http.Client` has a timeout.  Nothing is assumed
of remote clients, applications or upgrades before their UPGRADE packet: requests come or
do not come, and frames arrive or do not.  A frame that is open is closed by the code that
holds it.

## 4. Proofs

`PauserProofs` proves for any finite set of workers, any set of pausers and any bound
on Resume: type correctness, PausedIsIdle, WorkerCount, NoDoubleClose, and that the
pauser implements the gate.  None of these is inductive alone.  A Done may return early
when the status is paused (`pauser.go:79`), so WorkerCount needs PausedIsIdle;
PausedIsIdle needs WorkerCount, because Pause tests the count and not who is at work;
NoDoubleClose needs ChannelsAgree (which generation is closed in which status) and
ClosedPast (no generation is closed before it is made).  `PauserInv` is their
conjunction, proved once, action by action.

`PayloadProofs` proves HandlerStays, FeedInComplete, EncoderExclusive, FlushOutNonEmpty and
PauseQuiesces for any requests, writers and upgrades, any bodies and any number of
deadlines, with one reader, the session's.  A payload uses its pauser in every call, so the
proof begins with the fact that every step of Payload is a step of Pauser or leaves it
alone (`PayloadUsesPauser`); PauserInv and the refinement of the gate then come for
nothing. `PayloadInv` adds what ties the two layers together: *BusyIsActive* (the pauser
counts exactly the requests inside FeedIn and FlushOut and the calls at their probe),
*OneRequest* (the feeding and flushing flags say who is inside), *BodyInHand* and
*ResponseInHand* (who reads or writes a frame does it in a request that waits for it, while
nothing has failed), and *ReportIsTrue* (what putReader will report is what became of the
body).  PauseQuiesces is then three facts: a frame that is open has a request that waits, a
request that waits is counted, a paused pauser counts nobody.

`SessionProofs` proves NotLeftPaused, CurrentIsOpen and OldClosedIdle for any number of
upgrades and writers.  The invariant follows an upgrade through its places: one
past its Pause and not given up has the polling connection shut and no request in it (as
long as no other was given up), and once one has swapped, the polling connection is never the
current one again.  `SessionUsesGate` closes the loop with Pauser: what a session with many
upgrades takes for granted of its polling connection is no more than Gate, the
specification that the pauser implements.

`EngineServerProofs` proves `EngineInv` for any sessions, requests, options and any
positive capacity of connChan, and from it type correctness (the buffer never
overflows), GoneLeavesPool, InitorFirst, EOFIsLast, PoolIsServed and the action property
SidIsKnown.  Its core are two equations: *buffered or accepted = sent*, and *the pool =
added or sent, without those gone*; they hold because a session enters the pool before
anybody can remove it.  For SidIsKnown, *gone* are among *closed*: every goroutine
removes the session after its call of Close, which returns to nobody before it is over.

`ConnectionProofs` proves RoomsAgree, ToldOnce, ClosedLeavesRooms and that Close is done by
one goroutine, for any connections, namespaces and broadcasters.  `ConnInv` is a
conjunction over the connections, `ConnOK(c)`, and a step of one connection does not touch
the conjunct of another (lemma `OthersSame`): WhoIsWhere (which role can be where),
RoomsFollow (who is in a room or about to join has the namespace), OneCloser (closeOnce),
and OwnClose, which speaks of the order in which a packet being handled and Close happen.
It is false once an application closes the connection from a goroutine of its own, and so
`ConnOK`, ToldOnce and ClosedLeavesRooms have it of connections whose application has not.

`RedisBroadcastProofs` proves SendOnce and AnswerIsRight for any servers, callers, rooms
and connections to redis that fail.  `CallsNumbered` says that no two calls under way have
the same number; `BroadcastInv` says where the broadcast with a number can be: before it is
published only its sender has begun to emit it, afterwards it is at most once in every
inbox, and then either it is the server's own, which is skipped, or the server has not
emitted it.  All steps but Send, PublishMessage and OnMessage leave the broadcasts in the
inboxes as they are, but that the first may go (`Keeps`).

AnswerIsRight is an action property of Return: the caller's count is compared with the
number of subscribers, and has to be what all of them have.  `RequestInv` says of a request
that has seen no change (`quiet`) that every subscriber is in one of three states: it is
still to receive the request, and once (`AskedOnce`); its reply is still to be received,
and once, and says what its rooms are (`RepliedOnce`); or it is `Counted`, and the number
of replies, the sum of connections and the union of rooms are those of the servers counted
(`CountOK`, with the sum as a cardinality of pairs of server and connection).  When as many
replies came as there are subscribers, the servers counted are the subscribers.
`NumbersUsed` keeps late replies of earlier requests apart: a number in an inbox is one
that was given out before, so that a new call has a fresh one.

`ClientProofs` proves PostIsComplete however responses end (TLC runs with those that end
well).  The buffer of servePost is safe because FlushOut gives it to one writer and does
not go on to the request before that writer is done; for this to begin with, nobody may
write before servePost runs (`Dialling`, `OneWriter`).  `ClientInv` also has that getOpen and
serveGet are not both in FeedIn, that who reads a frame has a body, and the order in which
the client, its engine and its payload are closed.

`ParserProofs` proves `ParserInv` for any scripts, Buffers and pongs: what is on its way
are pongs and frames of packets that were written (so that the decoder is only ever asked
about texts that `WritePacket` made), and the write lock is held by exactly the writer that
has a frame open, from which it follows that no two frames mix.

It also proves PacketsArrive and ReaderStaysInSync for any scripts, as theorems with the
hypothesis `CodecOK`.  That is what the header functions and the framing compute for *one*
packet, whatever else is under way: the header comes back as it was written, and text and
Buffers are read to their ends.  It is a constant formula, and TLC evaluates it for all
packets of the scripts as the first conjunct of `StreamInv`.  It cannot be proved here: it
is about folds and about recursion over digits.  What is left is everything that depends
on the interleaving, and that is what the theorems are about.  `StreamInv` says where the
two ends are in the stream:

* *the writer*: `PacketOK` follows the packet under way.  While attachBuffer visits its
  Buffers each has the number of its place, unless somebody else numbers them too; the
  text has these numbers, and after it the Buffers that are left are those of the order it
  was written with;
* *the wire*: the frames of `net` are right (`NetOK`) and `Linked`: leaving out pongs,
  the first follows the frame the reader read last, each follows the one before it, and
  the last is the one the writer closed last (`WriterAt`).  A writer only appends, the
  reader only takes the first, and pongs change nothing (lemmas `LinkedAppend`,
  `LinkedTail`, `LinkedPong`);
* *the reader*: `ReaderAt` says what was handled (`HandledUpTo`), and inside a packet that
  the decoder has its header, its numbers and the Buffers so far.  Between two packets
  the last frame of a packet has been read, or a packet was dropped and its Buffers were
  not: this is where the reader falls out of step, and the only place.

PacketsArrive then is HandledUpTo, and that packets with a handler have different places.

Assumptions: those named in the modules.  `WorkersFinite`, `FiniteSystem` and
`FiniteBuffers` say that what is counted is finite; `MaxGenNat`, `MaxCallsNat` and the like
that bounds are numbers; `CapPositive` that connChan has a place; `PartiesDistinct`,
`DispatchIsNoCaller`, `NilIsNobody`, `NilIsNoMessage` and the like that different parties
have different names; `SomeRoomsAndConns` that there is something to ask about; the others
give the constants their types.

Only model-checked: the liveness properties, which are beyond the prover, as is ENABLED:
PauseReturns, CloseDrains, UpgradePauseReturns, PauseTellsFlushOut, ReaderFollows,
BrokenSessionEnds, BrokenConnEnds, SendReturns, AddedIsAccepted, CallReturns,
ClosedClientEnds, WritersReturn and PacketsHandled.  Also `CodecOK`, the hypothesis of the
theorems about Parser's stream: what Framing and the header functions compute is defined
by folds and by recursion over digits, and facts about it for every input need induction
over data.

## 5. Not modelled

The transport manager (a fixed map by name) and the query parameters; dispatch of events by
reflection and arguments that do not fit a handler's types; JSON, of which Parser knows
only whether it can be encoded; JSONP, HTTP headers, logging and options, which keep no
state.  Of `broadcast.go`, the application's Leave and Clear, and Len and Rooms, which only
read.  An OnConnect handler that emits waits inside connect(), where nobody reads writeChan
yet; handlers of Connection emit from packets and errors only.  Acknowledgement functions,
and `nextID`, which several goroutines use without a lock, are not told apart from other
answers.  Rooms other than the one every connection is in are told apart in RedisBroadcast
only.  The redis adapter's requests map and its publishing connection are used by several
goroutines without a lock; the model takes each use as atomic.  Parser takes packets that
this code writes, and no others: what a foreign peer may send is not asked.  A client over
websocket has no goroutine that is not in Parser.

## 6. Left open

1. *Rooms*: Leave, Clear, Len and Rooms of `broadcast.go` over several rooms, as the
   specification that the redis broadcast has to implement for one server; with it the
   acknowledgement functions and their ids.
