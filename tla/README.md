# A verification of the `ssh` package

TLA+ models of this repository (a Go library for SSH servers on top of
`golang.org/x/crypto/ssh`, called *gossh* below), their TLC configurations, and
theorems proved with TLAPS. Source lines are those of the commit in `src/`.

## The system

| Component | State | Operations | What is hard | Module |
|---|---|---|---|---|
| Server life cycle (`server.go`, `conn.go`) | `listeners`, `conns`, `listenerWg`, `connWg`, `doneChan`, all under `srv.mu` | `Serve`, `HandleConn`, `Close`, `Shutdown` | any number of `Serve`, `HandleConn`, `Close` and `Shutdown` calls run at once; a server can be stopped and used again; the maps and the WaitGroups tell different stories | `Server` |
| Connection keep-alive (`server.go`, `keepalive.go`) | `lastReceived`, ticker, `inFlight`, `openChannelSet`, one forwarder goroutine per channel | `connectionKeepAlive`, probe goroutine, `trackingNewChannel.Accept`, `Reset`, `notePeerActivity`, `Close` | ticks, probes, replies, channel closes and back-pressure interleave; a blocked handler blocks the mux | `ConnKeepAlive` |
| Session (`session.go`) | the fields of `session`, `sess.Mutex`, `sigMu`, the window channel | `handleRequests`, `Signals`, `Break`, `Exit`, `Write` | two goroutines and the application share two mutexes and send on channels while they hold them; the handler reads without a lock what the loop filled in | `Session`, `SessionRequests` |
| Parsing (`shlex.go`, `util.go`) | none | pure functions | boundaries, quoting, payloads cut off | `Shlex`, `Payload` |
| Remote TCP forwarding (`tcpip.go`) | one map of listeners for all connections | `tcpip-forward`, `cancel-tcpip-forward`, two goroutines per forward | check, close and delete of one entry are steps of different goroutines | `ForwardedTCP` |
| Remote Unix forwarding (`streamlocal.go`) | the same, and a Context per forward | `streamlocal-forward`, its cancel, two goroutines per forward | the same | `ForwardedUnix` |
| Copying (`bicopy` and its users in `tcpip.go`, `streamlocal.go`; the proxies of `agent.go`, `x11.go`) | two copies and a Context | direct handlers, `bicopy`, `copyAndHalfClose`, `ForwardAgentConnections`, `ForwardX11Connections` | half-close, failure, cancellation and a full window in two directions at once | `Bicopy` |
| Context (`context.go`) | the embedded context | `SetValue`, `Value`, `applyConnMetadata` | lost updates | `ContextValues` |
| Deadlines (`conn.go`) | `maxDeadline`, `idleTimeout` | `updateDeadline` | the choice at the boundary | only their effect, in `Server` |
| Agent and X11 set-up (`agent.go`, `x11.go`) | sockets and files of the host | `NewAgentListener`, `NewX11Forwarder` | partial failure | none |
| Configuration, options, wrappers (`server.go`, `options.go`, `ssh.go`, `wrap.go`) | none of their own | assemble callbacks for gossh | a callback under a lock | only what they set in the Context |

They meet in `HandleConn`. A `Serve` goroutine hands it a connection; it enters
the connection in the server's map and counter, starts the keep-alive loop and
the global request loop (which calls the forwarding handlers), and starts a
goroutine for every channel (session, direct forwarding). All of them share the
connection's Context, which ends with the transport, and the forwarding handlers
are shared by all connections. Whatever is forwarded ends in `bicopy` or a proxy.

What makes them correct:

* life cycle: a Shutdown that reports success has waited for what was there; no
  wakeup is lost; what Close can reach is what is alive; every connection ends
  and cleans up, with its callbacks in order;
* keep-alive: a silent peer is dropped in bounded time, a prompt one never; what
  a connection started ends with it;
* session: the handler gets what the client asked for and it stays that; signals
  are delivered once and in order to the channel registered last; the handler's
  Exit gets through;
* forwarding: the map holds exactly the live forwards, a cancel is effective, a
  forward ends with its connection;
* copying: an end is told the end of the data only after all of it, one
  direction's end does not stop the other, and nothing stays open;
* context: what the accessors assert is there.

## Modules

| Module | Models |
|---|---|
| `GracefulStop` | what Shutdown promises, without maps, WaitGroups and goroutines |
| `Server` | the life cycle; implements `GracefulStop` |
| `ConnKeepAlive` | the keep-alive of one connection with gossh's mux, the forwarders, the handlers and the peer |
| `Session` | the control of a session: its request loop, its handler and the signal flusher |
| `SessionRequests` | the data of a session: what each request leaves in its fields, and `Write`; uses `Shlex` and `Payload` |
| `Shlex`, `Payload` | the splitting of commands and the parsers of payloads, each with the client's encoding |
| `ForwardedTCP`, `ForwardedUnix` | remote forwarding |
| `Forwarding` | both of them in one server, on the same connections |
| `Relay` | what copying between two ends promises |
| `Bicopy` | `bicopy` with its users, and the proxies; implements `Relay` |
| `ContextValues` | the values of a connection's Context |
| `...Proofs` | theorems, see Proofs |
| `MC...` | small instances for TLC |

Conventions. A goroutine is a function from its identity to a program counter
(`serve`, `handle`, `waiter`, `probe`, `fwd`, `watcher`, `copy`, ...); an action
is one critical section, channel operation or blocking call with what surrounds
it, so that whatever can interleave in the program can interleave in the model.
Variables that only record what happened are listed under "History". Operators
named `Faulty...` are plausible bugs; they are in no specification and are there
to see that each property notices one. Values that steer nothing (payloads,
names, error texts, log lines) are left out.

### Server

One `Serve` per element of `Listener`, one `HandleConn` per element of `Conn`,
one `Shutdown` per element of `Stopper`; `Close` can happen at any time. `serve`
is where a Serve is between its early returns, the two `trackListener` calls and
its deferred `l.Close`; `handle` likewise for a HandleConn between accept,
handshake, the two `trackConn` calls, the closing and the complete callback.
`transport` is the net.Conn and the mux: "up", "dead" (the net.Conn is gone, the
mux has not noticed), "draining" (channels and `chans` are closed), "down" (the
mux has ended and `Wait` returns). `muxWaits` is whom the mux waits for when it
hands on a request and finds a buffer full: the forwarder of a channel whose
handler takes no requests, until the Context is done, or `handleRequests`, which is
in an application's RequestHandler. While it is `Blocked` it does not read the end
of a dead transport (`MuxCloses`). `WithComplete` says whether a
ConnectionCompleteCallback is set: only then does HandleConn wait for the mux
(`Complete`); otherwise it returns at once (`ReturnAtOnce`), and the mux may still
be draining. `waiter` is the goroutine of a Shutdown; a
`Wait` either passes at once or parks, and a parked one is woken by the `Done`
that reaches zero and panics if the counter is in use again when it runs
(`Resume`, after `sync.WaitGroup`). `StopListening` is `closeListenersLocked` and
`closeDoneChanLocked`, whose order does not matter under `srv.mu`.

`ImplementsGracefulStop` maps an item of `GracefulStop` to a tracked listener or
connection and its `pending` to what a Shutdown saw and is still tracked.

### ConnKeepAlive

`LoopTakesTick` to `LoopStops` are `connectionKeepAlive`; `Probe...` is its probe
goroutine; `AcceptChannel`, `AddChannel` and `Forwarder...` are
`trackingNewChannel.Accept`; `HandleRequest` and `RequestHandled` are
`handleRequests` around a RequestHandler, whose requests are buffered like a
channel's (`Global`); `NoteActivity` is `notePeerActivity` and `Reset`;
`MuxReads...` is what gossh does with a packet. A write to a closed net.Conn
fails: a probe then takes its channel out of the set, its global request fails at
once (`ChannelProbeFails`, `SendsGlobal`), and the Context may end (`NetError`).
Time passes in units (`TimeStep`) and only when no goroutine of the server can
run. `MayBeUp` and `MayNotBeUp` both hold at the deadline itself, where the
comparison of instants may go either way.

### Session and SessionRequests

In `Session`, `loop` is `handleRequests`, `app` the handler with the goroutine
that calls `Exit` after it, `sigMu = "flusher"` the goroutine that `Signals`
starts. The application's channels are unbuffered, the worst case. `Drained`
names the kinds of channel the application, once it was started, receives on from a
goroutine of its own that never stops; on the others it receives only while its
handler runs and is in no call. Before it was started it has none of them
(`Receives`). A shell request is assumed to carry no value.

`SessionRequests` has the same loop one request at a time with its data: an exec
request carries a command line that the client quoted by POSIX rules, in one of
three ways (`Quoted`; an empty word needs quotes, and double quotes escape `$` and
a backquote too, both called "dollar"), a pty, X11 or
window request an encoded payload that may be cut off at any byte (`Cut`), and
the handler may write in between. The request that starts the handler remembers
what the client `meant`. `Split` is `shlexSplit` as a fold of one `Step` per
character, and `WordsRead` says what is to come of the client's words;
`parsePtyRequest`, `parseX11Request` and `parseWindow` are the
functions of that name on sequences of bytes.

### ForwardedTCP, ForwardedUnix, Forwarding

`req` is the request a connection's global request loop handles (one at a time
per connection), `watcher` and `acceptor` are the two goroutines of a forward.
Each element of `Listener` is the result of one `net.Listen`. An address is bound
while a listener on it is open. What an accepted connection does is `Bicopy`.
`disturbed` (TCP only, history) holds the addresses that were bound a second time or
whose Accept failed on an open listener: those are the ones whose entry may be lost.

`Forwarding` has the variables of both handlers, the TCP ones with the prefix `tcp`.
They keep separate maps, but a connection has one Context (`ctxDone`), which stops
the forwards of both, and one goroutine for global requests (`handleRequests`),
which handles one at a time whichever handler it is for.

### Bicopy

`user` is who copies: a direct handler, which dials first; an accepted
connection of a remote forward; or a proxied agent or X11 connection.
`copy[e]` is the goroutine that writes to the end `e`: it reads, writes,
half-closes and reports; `counted` is what the handler has received. A channel
is gossh's: one that is gone or closed by both sides reads as finished, a write
blocks while its window (`Window`, `unread`) is used up, and a channel the
handler has closed is still there until the client has answered. A connection
that is closed or broken fails at the next read or write. The proxies
(`~Bicopies`) ignore every error and go on to the half-close. In the refinement
`Relay`'s `failed` is `gone`, its `cancelled` the Context, and `over` the moment
both ends are closed.

### ContextValues

`own` and `app` are the keys `Value` finds, the package's and the application's.
`setting` holds the calls of SetValue that have read the embedded context and
have not replaced it yet. Until `HandleConn` dispatches channels there is one
goroutine, and its sets are single steps; from then on any session and any task
of the application may set a value. Assumed: the application uses the Context
only in callbacks before that, and sets no key of the package.

## Runs

All runs set CHECK_DEADLOCK FALSE: servers, sessions and forwards may really come
to rest, and what must not stop is stated as liveness.

| Run | States | Shows |
|---|---|---|
| `server_conns` | 2.0 million | with a listener, two connections, a Shutdown and Closes: the WaitGroup counters count the tracked calls; callbacks come in order; the connections that a successful Shutdown found have their channels closed and their closing callback called |
| `server_reuse` | 2.6 million | with two listeners, a connection without complete callback, a Shutdown and Closes: what is alive is in the maps, a Shutdown that returns nil has waited, and `Server` implements `GracefulStop` |
| `server_liveness` | 87,000 | with two Serve calls, one of which may reset the `doneChan` closed to stop the other, or with one and a connection: a failed connection ends, unless requests that nobody takes keep its mux waiting again and again; a Shutdown returns unless something keeps being served; a stopped Serve returns; no goroutine waits for anything but an open listener, a live transport, such a mux or a WaitGroup in use |
| `server_waitgroup` | - | a violation, see Findings |
| `keepalive` | 413,000 | a prompt peer is not dropped unless a handler or a RequestHandler has blocked the mux; a drop comes while a probe is out, and at most one interval after the deadline; a closed ticker stays silent; the set of open channels is exact; a stalled peer is dropped; a closed connection takes mux, loop, probe, forwarders and ticker with it, also when a channel blocks the mux, but not if a RequestHandler stays for ever; closed channels leave the set |
| `forwarding` | 130,000 | Unix: an accepting forward can be found by a cancel, a cancel is effective, no entry is left behind, a forward leaves neither listener nor goroutine. TCP: no entry is left behind, and none is lost whose address was bound once and did not fail; such a listener ends with its connection. Both: no goroutine waits for what may not come |
| `tcp_cancel` | - | a violation, see Findings |
| `session` | 187,000 | with an application that drains its channels: signals are delivered once, in order, to the channel registered last; a break is answered before the Exit it leads to; the session exits; the loop ends and closes the window channel, unless a window change came before the handler was started; Signals returns; who holds a mutex can go on |
| `session_exit` | - | a violation, see Findings |
| `session_requests` | 446,000 | Command() are the words the client quoted, but that empty ones are lost and a backslash before `$` stays in double quotes; Pty() and X11() what it asked for in the request that was granted, wherever a payload is cut off; a terminal gets every line feed after a carriage return and Write counts the handler's bytes; nothing but the window changes once the handler runs |
| `bicopy` | 209,000 | for every user: whatever way the handler returns, nothing is left open; it returns when its Context ends or a connection breaks; an abort gets the handler and both copies out of whatever they wait for; `Bicopy` implements `Relay` |
| `context_agent` | - | a violation, see Findings |

### Bounds

* `Server`: two listeners or two connections and one of the other, and one
  Shutdown, with any number of Closes. The hazards are between one or two
  goroutines of each kind and a waiter; two Shutdowns share nothing but the two
  counters, and the safety theorems hold for any number of all of them.
  `MaxHandlers` (1 or 0) bounds the handlers that run at once on a connection;
  none of them touches the server's state, and one is enough for "a handler still
  runs". A complete callback is set in `server_conns` and `server_liveness`, where
  callbacks and waiting matter, and not in `server_reuse`; the theorems hold for
  both. `server_liveness` bounds its behaviours by `OneOfTwo`: a second Serve or
  a connection, not both.
* `ConnKeepAlive`: one channel, a deadline of two intervals, so that a probe lies
  between the last activity and the deadline, an interval of 3 units, a reply lag
  of 1, buffers of 1 where the code has 16: a buffer is only ever full or not.
  Ages above `AgeMax` are one value. One channel is enough for a probe on a
  channel that dies and for the fallback to a global request; channels meet only
  in the set and in the mux they block. `PromptPeerSurvives` needs
  `Interval + 2 * ReplyLag < Deadline`: a probe whose channel closes is sent a
  second time and may take twice the lag. With interval 2 and lag 1 TLC finds the
  drop; it is no disagreement with a document, only a limit of the setting. The
  theorem has this inequality as its assumption.
* `ForwardedTCP`, `ForwardedUnix`: two connections, one address and two listeners,
  enough for an old and a new forward whose goroutines overlap. Addresses share
  nothing but the mutex; the properties are proved for all of them. In every
  behaviour of `forwarding` one of the two handlers stays idle (`mover`), so that
  TLC explores the sum of their states and not the product. What they share, a
  Context and the turn of a connection's requests, only takes steps away from
  each: that with both at work each keeps its own specification is proved
  (`UnixImplemented`, `TCPImplemented`).
* `Session`: three signals against a buffer of two, so that one is dropped, one
  flushed and one sent directly; two signal channels, so that one replaces the
  other.
* `SessionRequests`: three requests that are not ignored and one write, enough for
  a refused request, a granted one and the one that starts the handler, or one
  after it. Words of up to two characters, none included, of every kind that the
  scanner or the quoting tells apart, under three ways of quoting: what the
  scanner does next depends on where it is, and two characters with the quotes
  around them reach every such place. Numbers of a payload are below 2^31 (TLC's
  integers); one of them has four different bytes.
* `Bicopy`: two units of data per direction and a window of one, so that a copy is
  caught with data written, data in hand and data still to come. Everything is
  proved for any amount and any window.
* `ContextValues`: a session and a task, the two that a lost update takes.

### Fairness

Weak fairness for every step a goroutine of the package takes by itself: the Go
scheduler runs what can run. Strong fairness where a goroutine waits for a
`sync.Mutex` that others take again and again (`Session`): the mutex hands itself
to a waiter that has waited long. No fairness for clients, peers and applications:
nobody need connect, send, answer, call, return or take a request. The exceptions
are stated with the property: `Drained` in `Session`, from the start of the
handler on; a handshake on a dead transport fails (`Server`); time passes
(`ConnKeepAlive`); a channel the handler has closed goes away, because the client
answers or its connection ends (`Bicopy`, where `StalledPeerDropped` of
`ConnKeepAlive` is the reason). Four properties say what such an application can
hold up for ever, and that nothing else does: requests that nobody takes and the
end of a connection (`ConnEnds`, where `Blocked` comes again and again), a
RequestHandler that stays (`RequestHandlerStays` in `StalledPeerDropped` and
`ClosedConnTearsDown`), a window change before there is a handler
(`SizeBeforeHandler` in `WinchCloses`). `HandlerReturns` of `Bicopy` has the
premise that the Context is done or a copy meets a broken connection; for the
proxies, which have no Context, that both ends are gone.

## Findings

Each is a run that checks one sentence of the documentation, of a comment or of a
test, and that TLC refutes.

| Run | The sentence | What happens |
|---|---|---|
| `server_waitgroup` | Shutdown is graceful, "without interrupting any active connections" (server.go:340) | a connection tracked while the waiter wakes makes the WaitGroup panic |
| `tcp_cancel` | after a cancel "the port is no longer in use" (tcpip_test.go:229) | the clean-up of the previous forward deleted the entry |
| `session_exit` | "Exit sends an exit status and then closes the session" (session.go:42) | a break nobody receives keeps `sess.Mutex`, which Exit needs |
| `context_agent` | SetAgentRequested makes sure "that AgentRequested returns true" (agent.go:25) | an overlapping SetValue of the application removes the value again |

The third happens only when the application does not receive breaks from a
goroutine of its own. The comment on Break warns that this blocks the request
loop; that it also blocks Exit it does not say. In the same way a signal that is
being sent holds `sigMu`, for which `Signals(nil)` waits.

What the models also show, without a run of its own, because the sentence leaves
room or the consequence is small:

* a connection in its handshake (`handle = "accepted"`) is in neither map nor
  counter: Shutdown does not wait for it and Close does not close it
  (server.go:322, 341);
* a Serve that was stopped before it tracks its listener resets `doneChan` and
  accepts (`TrackListener`); one that was stopped while another resets `doneChan`
  returns the accept error instead of ErrServerClosed (`ServeOnError`; server.go:15);
* the complete callback does not wait for channel handlers (`Complete` against
  `handlers`; ssh.go:108);
* without a ConnectionCompleteCallback, the default, HandleConn returns while the
  mux and `handleRequests` may still run (`ReturnAtOnce`; server.go:443);
* without a keep-alive that closes the connection, a channel whose requests nobody
  takes keeps the mux from reading the end of a dead transport, and HandleConn from
  returning (`ConnEnds` excepts `Blocked`; server.go:101, 505); the keep-alive ends
  the Context and with it that wait, but not one for a RequestHandler that does not
  return (`RequestHandlerStays`; server.go:617);
* with ClientAliveCountMax 1 the deadline is the time of the first tick, and
  `LoopTimesOut` may close a connection that was never probed
  (`NoKillWithoutProbe` with `CountMax` = 1; server.go:516);
* while a probe is out no other is sent (`inFlight`), so a peer that makes a request
  and then stalls may be dropped with no probe sent since the request
  (`NoKillWithoutProbe` says "out", not "sent since"; server.go:556);
* a probe that fails on the closed net.Conn takes a channel that is still open out of
  the set (`ChannelProbeFails`; server.go:581), so that `OpenChansExact` promises open
  channels only while the net.Conn is up;
* a window change between pty-req and shell or exec blocks the request loop for ever:
  the window channel is full and only Pty() of a running handler hands it out
  (`SizeBeforeHandler`; session.go:426);
* channel data does not count as activity, only requests and replies to probes do
  (keepalive.go:77);
* without a callback x11-req is granted (server.go:176 says it is denied), and a
  subsystem that was refused stays in the session (`SubsystemRequest`);
* Command() is empty for a blank exec command and for a subsystem too, not only
  for a shell (session.go:22);
* session.go:45 speaks of POSIX shell rules, but an empty quoted word is dropped from
  Command() (`EndToken`; shlex.go:22) and the backslash that escapes a `$` or a
  backquote in double quotes stays (`AfterBackslash`; shlex.go:81); `CommandAsMeant`
  says exactly that (`WordsRead`);
* `Write` normalises each call by itself: "\r" and "\n" in two writes come out as
  "\r\r\n" (`WrittenAsMeant` says so by joining the writes after normalising each);
* `parseTerminalModes` reads an argument for opcode 160, at which RFC 4254
  (section 8) stops (util.go:80);
* the agent's request is a value of the connection: one session's auth-agent-req
  makes AgentRequested true for all its sessions (`AgentRequest`);
* cancelling a Unix forward aborts the connections it has accepted, because their
  `bicopy` gets the forward's Context; a TCP forward's connections go on
  (streamlocal.go:170, tcpip.go:172);
* a proxied agent or X11 connection waits for both of its ends (`HandlerReturns`);
  a channel that is gone with a silent connection, or a connection that breaks
  after its half-close, ends a `bicopy` only through its Context;
* once its Context is done, `bicopy`'s loop finds ctx.Done() ready until both
  results have come, and runs without blocking (tcpip.go:220);
* every write resets the idle deadline, the keep-alive's probes included
  (conn.go:17, 44): with a ClientAliveInterval below IdleTimeout a silent peer is
  dropped by the keep-alive, which `StalledPeerDropped` covers, never by IdleTimeout;
* NewX11Forwarder returns no listener, no file and no error when all fifty ports
  are in use: the `err` of the loop is not the one it returns (x11.go:126).

## Proofs

`ServerProofs`, for any finite `Listener` and `Conn`, any `Stopper`:

* `TypeCorrect`: `TypeOK` by itself is inductive, action by action.
* `CountersCorrect`: no action but the tracking ones moves a call into or out of
  the tracked region (`ServeStepMoves`, `HandleStepMoves`), and those change the
  counter by one (`ListenerTracking`, `ConnTracking`, by the cardinality theorems).
* `IInvCorrect`, `ShutdownDrains`: "a Shutdown that returned nil has waited" is not
  inductive. `IInv` adds that what was tracked at the call is never tracked again
  (`NoRetrack`) and that a waiter past the listeners' WaitGroup, or past or woken
  by the connections' one, has nothing pending of that kind. The step is
  `ProgressStep`: a `Wait` that passes sees the counter at zero, and by
  `CountersMatch` zero means that nothing of the kind is tracked.
* `Refinement`: `Server` implements `GracefulStop`. A step that tracks something is
  a Join, one that untracks it a Leave (`JoinRefines`, `LeaveRefines`), a
  Shutdown's steps are Begin, Drained and Expired, the last but one by `IInv`; all
  others leave the mapped variables alone. `Recognised` is the only new invariant:
  something that left can be told from something that never joined.
* `ConnsEnd`, `StoppedServesReturn`, `ShutdownsReturn`: see Liveness.
* `MapsCorrect` is inductive by itself; `CallbacksInOrder` follows from what a
  HandleConn has called at each stage (`CallbacksFollow`).
* `DrainedAreClosed`: a connection that a Shutdown found is serving, or its closing
  callback has been called (`FoundServing`); with `ShutdownDrains` it is no longer
  tracked, so the second.

`KeepAliveProofs`, for any interval, count, reply lag, channels and buffer size:

* `ClockInvHolds`. While the connection is up, ticks come at multiples of the
  interval after the last activity and none is passed over (`TicksInTime`);
  without a probe out at most one interval has passed since (`ProbedByThen`); and
  a prompt, unblocked peer was heard of so long ago as the stage of the probe
  allows (`HeardByThen`). `NextIsClockStep` first reduces the actions to the
  twenty kinds of step that these facts tell apart; the channels and forwarders
  count only as callers of `NoteActivity`.
* `SilentPeersDropped` and `ClosedForGood` are parts of it. `ProbedFirst` assumes
  `Interval < Deadline` (a count above 1), `PromptPeersSurvive` assumes
  `Interval + 2 * ReplyLag < Deadline`, and both are about the step that closes.
* `TypeCorrect` adds the channels.
* `OpenChannelsTracked`: `OpenChansExact`, whose last clause is about a net.Conn that
  is up, needs that a channel and its forwarder
  begin together and that no channel outlives the mux (`ChannelsInOrder`). What
  `RemoveFirst` leaves of a sequence without repetitions is the others, once each
  (`RemovedOnce`).

`SessionProofs`, for any signal channels and bounds:

* `LocksHeld` says who holds `sigMu` and `sess.Mutex` at each step. A signal is
  then sent on the channel that is registered (`SignalsGoToRegistered`) and Exit
  waits for the reply to a break (`BreaksAnsweredFirst`).
* `TypesHold`: `TypeOK` is not inductive without the stages (`Stages`): a size is
  being sent only while the window channel is open, a signal only with a channel
  in hand.
* `SignalsArriveInOrder`: a signal sent directly overtakes none, because without a
  flusher nothing is buffered while a channel is registered, and the buffer loses
  its front only to the flusher (`Flow`). What was delivered, what of the buffer
  is left and what the loop has in hand (`Line`) then stay the signals sent and
  not refused, in order (`OrderKept`).
* `ExitGetsThrough`: see Liveness.

`SessionRequestsProofs`, for any characters, words, texts, payloads and number of
requests:

* `HandlerFieldsFrozen` follows from the guards, with one pty at most (`OnePty`).
* `CommandGivenAsMeant`: what the scanner has after a quoted word is what it had
  before with what is read of the word appended, and nothing if the word is empty,
  in each of the three ways of quoting (`CharScanned`, `BodyScanned`,
  `WordInQuotes`, `WordEnds`, `WordScanned`); what is read of several words is what
  is read of each (`ReadAppend`, `WordsReadAppend`). Hence `SplitQuoted`: Split of a
  quoted command line is `WordsRead`. The invariant (`CommandKept`) adds that no
  command is left while nothing is handled.
* `TextWrittenAsMeant`: the two replacements of `Write` are `CRLF`
  (`NormalizedIsCRLF`), by the parts they make of each character
  (`PassesOfNormalized`); `Written` adds that there are as many counts as
  texts, and that nothing is written before a handler runs.
* `FieldsGrantedAsAsked`: a field read from a cut of what was put is not there or
  is what was put, and a cut of the rest remains (`Uint32Read`, `BoolRead`,
  `StringRead`, `FieldRead`). Terminal modes lie five bytes apart (`FlattenFives`,
  `BytesLeft`); from the end backwards the parser has the last value of each
  opcode (`LastStep`, `ModesRead`). `GrantKept` adds that the pty and what was
  asked for are records, so that a window change replaces the same field in both.

`ForwardedUnixProofs`, for any `Conn`, `Path` and `Listener`:

* `IInvCorrect`: the three properties of the map support each other and rest on
  four more facts, each preserved by a lemma of its own. No path has two open
  listeners (`OnePerPath`, by net.Listen); a listener not yet registered belongs
  to one request and is open (`FreshListeners`); an unopened one is nowhere
  (`UnusedListeners`); a cancel between lookup and close has in hand the only
  forward of its client (`CancelTargets`). An entry is then overwritten only when
  its listener is closed and deleted only by its own goroutine.
* `CancelFindsForward`, `CancelIsEffective`, `EntriesAreLive` are its parts.
* `ForwardsEnd`: see Liveness.

`ForwardingProofs`, for any `Conn`, `Path`, `Addr` and `Listener`:

* `UnixImplemented`, `TCPImplemented`: every step of `Forwarding` is a step of each
  handler or leaves its variables alone, so that everything proved of
  `ForwardedUnix` holds there too.
* `EntriesAreExact`: no TCP entry is left behind (`NoStaleEntry`: who deletes an
  entry may delete another's, but nobody leaves one), and an accepting forward whose
  address is not `disturbed` is the one in the map and was not told cancelled. The
  second needs that such an address was bound once, so that all requests and
  goroutines that work on it work on one listener.
* `TCPForwardsEnd`, `UnixForwardsEnd`: see Liveness.

`BicopyProofs`, for any users, amount of data and window:

* `InvariantHolds`, `NothingLeftBehind`: `IInv`, whose core is `EofAfterAll` (a
  goroutine past its last read has written all its source will ever send) and
  `EndingHasCause` (a result comes after a half-close, a failed end or a close).
* `Refinement`: `Bicopy` implements `Relay`.
* `HandlersReturn`: see Liveness.

`ContextProofs`: `AccessorsFindValues`. What a SetValue writes back contains what
was there when channels were first dispatched, so that lost updates lose only
later values.

The assumptions used are the named ones in the modules (finiteness, disjointness,
`None` is none of the other values, bounds are numbers) and those in the theorems
themselves.

Induction over sequences. The induction theorems of the library take an operator
as a parameter and cannot be used. `SessionRequestsProofs` has first-order forms
instead, from the least element of a set of numbers (`LeastExists`): `Induction`
and `SeqInduction` are about a set closed under successor or Append, `FoldExists`
shows that the function a fold is chosen from exists, and `RunsAgree` that there
is only one. `ModesExist` does the same for the recursive function of
`parseTerminalModes`, from the end of the payload down. The folds of the models then
have the equations of a recursive definition (`ScanAppend`, `FlattenAppend`). What a
theorem assumes of `Commands`, `Texts`, `Ptys`, `X11s` and `Windows` is only their
type: sequences, numbers, and opcodes with an argument (1 to 160).

Every safety property of the passing runs is thus proved, but for those about ENABLED:
the two `NobodyBlocks`, `NoForwardBlocks` and `AbortInterrupts`.

### Liveness

The prover cannot expand ENABLED: it takes `ENABLED <<A>>_vars` as a state
predicate it knows nothing of. A liveness theorem has therefore the form
`[]NobodyBlocks /\ FairSpec => P`. `NobodyBlocks` (`NoForwardBlocks` in
`Forwarding`) says when the fair actions can be taken: a goroutine waits for
nothing but what its comment lists. In `Bicopy` it is `AbortInterrupts`: an abort
closes both ends and leaves neither the handler nor a copy waiting for a peer. TLC
checks it as an invariant of the same run that checks `P`, where ENABLED is
evaluated, and a fault in the code that makes a goroutine wait for another breaks
it. What the theorems add is that for any number of connections, listeners,
Shutdowns, data and window this is all that is needed.

| Theorem | Argument |
|---|---|
| `ConnsEnd` | how far a HandleConn is (`ConnRank`) never goes back once its transport has failed, and every fair step raises it; if its mux is not `Blocked` again and again, from some time on there is always one |
| `StoppedServesReturn` | an interrupted Serve has its listener closed for good (`InterruptedIsClosed`); it may accept once more, which fails, and not a second time |
| `ShutdownsReturn` | a parked waiter's WaitGroup is in use (`ParkedInUse`): whoever brings it to zero wakes it; if nothing is served from some time on it gets through both waits |
| `HandlersReturn` | a reason to stop that bicopy sees (`Pressed`), at once or when a copy has failed (`Meets`), makes it close both ends unless it returns first; the closed channel goes; then no read or write can wait (`Cut`), both goroutines end and both results are taken (`Settled`) |
| `ExitGetsThrough` | a loop that holds `sess.Mutex` for a break gives it up, if the application receives breaks (an assumption of the theorem; run `session_exit` shows what happens without); strong fairness of the mutex does the rest |
| `ForwardsEnd`, `UnixForwardsEnd` | the watcher of a forward whose Context has ended closes its listener, whose accept goroutine then removes the entry and ends the Context, and conversely |
| `TCPForwardsEnd` | the request that opened the listener ends, its watcher finds the listener in the map, by `EntriesAreExact`, and closes it |

Model-checked only are the liveness properties that rest on counting something the
constants do not bound: `SignalsReturns` and `WinchCloses` (a flush of a buffer of any
length), `StalledPeerDropped` (time until the deadline), `ClosedConnTearsDown` and
`ClosedChannelPruned` (buffers and channels of any number). They need an induction
over the length of a buffer or over time, whose theorem takes an operator as a
parameter.

## Not modelled

* `updateDeadline`: that a deadline passes is an action of `Server`
  (`TransportFails`); which of the two timeouts it was, nothing else depends on.
* The lengths of Serve's retry delays (a retry is one step; that the delay is never
  reset is visible in server.go:391-411), ListenAndServe, AddHostKey.
* `NewAgentListener`, the display search of `NewX11Forwarder` and
  `prepareXAuthority`: sequential calls to the host's file system and ports.
* The metrics of the keep-alive: counters for the application that steer nothing;
  channel data, which does not count as activity: a reply that waits behind data is
  one that is late.
* Authentication, which gossh runs with the callbacks `config` gives it; options,
  type and key wrappers and `ensureHandlers`, which keep no state; the examples.

## What could follow

`updateDeadline` with the clock of `ConnKeepAlive` (two goroutines set the one
deadline of a connection); a composition of `Session` with the forwarder and mux
of `ConnKeepAlive`, in which a blocked request loop blocks the mux.
