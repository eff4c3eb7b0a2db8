--------------------------- MODULE ConnKeepAlive ---------------------------
(***************************************************************************)
(* The keep-alive of one connection (connectionKeepAlive, SessionKeepAlive,*)
(* openChannelSet, the request forwarder of trackingNewChannel and         *)
(* handleRequests), with the gossh mux, the handlers and the peer around   *)
(* them.                                                                   *)
(*                                                                         *)
(* Time is discrete.  A step of the server's goroutines takes none of it:  *)
(* time passes (TimeStep) only when they are all blocked, so scheduling    *)
(* delays are taken to be small against ClientAliveInterval.  They         *)
(* interleave freely otherwise.                                            *)
(***************************************************************************)
EXTENDS Integers, Sequences, FiniteSets, SequencesExt

CONSTANTS
  Channel,    \* The channels a client opens on the connection, each once.
  Interval,   \* ClientAliveInterval, in units of time.
  CountMax,   \* ClientAliveCountMax.
  ReplyLag,   \* A prompt peer answers within this many units.
  Cap,        \* Capacity of a request buffer (16 in gossh and here).
  Global,     \* The global requests of the connection, as if a channel's.
  NoChannel   \* Not a channel.

ASSUME IntervalAssumption == Interval \in Nat \ {0} /\ CountMax \in Nat \ {0}
ASSUME LagAssumption      == ReplyLag \in Nat
ASSUME CapAssumption      == Cap \in Nat \ {0}
ASSUME NoChannelAssumption == {Global, NoChannel} \cap Channel = {} /\ Global # NoChannel

VARIABLES
  \* SessionKeepAlive.
  age,        \* Time since lastReceived, up to AgeMax.
  timer,      \* Time until the ticker fires next.
  tick,       \* BOOLEAN: a tick waits in ticker.C.
  ticking,    \* BOOLEAN: the ticker runs.
  kaClosed,   \* SessionKeepAlive.closed.
  \* connectionKeepAlive.
  loop,       \* "select", "ticked" or "returned".
  inFlight,   \* BOOLEAN: the semaphore is taken.
  probe,      \* ProbePC of the probe goroutine.
  probeChan,  \* The channel the probe was sent on.
  \* openChannelSet and the forwarder goroutines.
  openChans,  \* openChannelSet.chans.
  fwd,        \* [Channel -> FwdPC].
  wrapped,    \* [Channel -> requests in the wrapped stream].
  handling,   \* BOOLEAN: handleRequests is in a RequestHandler.
  \* The gossh connection.
  net,        \* "up", or "closed" once the net.Conn is.
  muxUp,      \* BOOLEAN: the mux loop runs.
  chan,       \* [Channel -> ChanState].
  upstream,   \* [Channel or Global -> requests in gossh's own buffer].
  muxStuckOn, \* Whose full buffer blocks the mux, or NoChannel.
  ctxDone,    \* BOOLEAN: the connection's Context is cancelled.
  done,       \* BOOLEAN: HandleConn has closed keepAliveDone.
  \* The peer.
  peer,       \* "prompt", or "stalled": it neither answers requests nor
              \*  makes any.
  lag,        \* Time since the pending probe was sent, up to ReplyLag.
  \* History.
  wedged      \* BOOLEAN: time has passed while the mux was blocked.

kaVars    == <<age, timer, tick, ticking, kaClosed>>
loopVars  == <<loop, inFlight, probe, probeChan>>
fwdVars   == <<openChans, fwd, wrapped, handling>>
sshVars   == <<net, muxUp, chan, upstream, muxStuckOn, ctxDone, done>>
peerVars  == <<peer, lag>>
vars == <<kaVars, loopVars, fwdVars, sshVars, peerVars, wedged>>

LoopPC    == {"select", "ticked", "returned"}
ProbePC   == {"none", "started", "picked", "onChannel", "onGlobal", "replied", "releasing"}
FwdPC     == {"none", "adding", "receiving", "holding", "draining", "done"}
(* "closing": the server has sent its close message, the peer has not.     *)
ChanState == {"none", "open", "closing", "closed"}

Deadline == CountMax * Interval
AgeMax   == Deadline + Interval + 1

(* The mux reads the next packet. *)
MuxReads == net = "up" /\ muxUp /\ muxStuckOn = NoChannel

-----------------------------------------------------------------------------
Init ==
  /\ age = 0 /\ timer = Interval /\ tick = FALSE /\ ticking = TRUE /\ kaClosed = FALSE
  /\ loop = "select" /\ inFlight = FALSE
  /\ probe = "none" /\ probeChan = NoChannel
  /\ openChans = <<>>
  /\ fwd = [c \in Channel |-> "none"]
  /\ wrapped = [c \in Channel |-> 0] /\ handling = FALSE
  /\ net = "up" /\ muxUp = TRUE
  /\ chan = [c \in Channel |-> "none"]
  /\ upstream = [c \in Channel \cup {Global} |-> 0]
  /\ muxStuckOn = NoChannel
  /\ ctxDone = FALSE /\ done = FALSE
  /\ peer = "prompt" /\ lag = 0
  /\ wedged = FALSE

-----------------------------------------------------------------------------
(***************************************************************************)
(* Faults: definitions below as a plausible bug would have them.  None is  *)
(* part of Next; they show that the properties depend on the code.         *)
(***************************************************************************)

(* Reset and notePeerActivity do not look at closed. *)
FaultyNoteActivity ==
  /\ age' = 0 /\ timer' = Interval /\ tick' = FALSE /\ ticking' = TRUE
  /\ UNCHANGED kaClosed

(* TimeIsUp is off by one interval, either way. *)
FaultyMayBeUp    == age >= Deadline - Interval
FaultyMayNotBeUp == age <= Deadline + Interval

(* The timed-out net.Conn is closed without cancelling the Context. *)
FaultyLoopTimesOut ==
  /\ loop = "ticked" /\ age >= Deadline
  /\ loop' = "returned"
  /\ net' = "closed"
  /\ UNCHANGED <<kaVars, inFlight, probe, probeChan, fwdVars, muxUp, chan,
                 upstream, muxStuckOn, ctxDone, done, peerVars, wedged>>

(* A negative reply is taken for a failure. *)
FaultyProbeResets ==
  /\ probe = "replied"
  /\ probe' = "releasing"
  /\ UNCHANGED <<kaVars, loop, inFlight, probeChan, fwdVars, sshVars, peerVars,
                 wedged>>

(* The forwarder returns without draining its upstream. *)
FaultyForwarderGivesUp(c) ==
  /\ fwd[c] = "holding" /\ ctxDone
  /\ fwd' = [fwd EXCEPT ![c] = "done"]
  /\ openChans' = RemoveFirst(openChans, c)
  /\ UNCHANGED <<kaVars, loopVars, wrapped, handling, sshVars, peerVars,
                 wedged>>

(* onClose is not called. *)
FaultyForwarderEnds(c) ==
  /\ fwd[c] \in {"receiving", "draining"}
  /\ upstream[c] = 0 /\ chan[c] = "closed"
  /\ fwd' = [fwd EXCEPT ![c] = "done"]
  /\ UNCHANGED <<kaVars, loopVars, openChans, wrapped, handling, sshVars,
                 peerVars, wedged>>

-----------------------------------------------------------------------------
(***************************************************************************)
(* SessionKeepAlive.                                                       *)
(***************************************************************************)

(* notePeerActivity and the part of Reset that is not metrics.  Resetting  *)
(* a ticker also discards a tick that waits in its channel (Go 1.23).      *)
NoteActivity ==
  /\ IF kaClosed
       THEN UNCHANGED <<age, timer, tick, ticking>>
       ELSE age' = 0 /\ timer' = Interval /\ tick' = FALSE /\ ticking' = TRUE
  /\ UNCHANGED kaClosed

(* TimeIsUp compares instants finer than a unit: at the deadline itself    *)
(* either answer is possible.                                              *)
MayBeUp    == age >= Deadline
MayNotBeUp == age <= Deadline

(***************************************************************************)
(* connectionKeepAlive.                                                    *)
(***************************************************************************)

LoopTakesTick ==
  /\ loop = "select" /\ tick
  /\ loop' = "ticked"
  /\ tick' = FALSE
  /\ UNCHANGED <<age, timer, ticking, kaClosed, inFlight, probe, probeChan, fwdVars,
                 sshVars, peerVars, wedged>>

(* The deadline has passed: sshConn.Close closes the net.Conn and cancels  *)
(* the Context.                                                            *)
LoopTimesOut ==
  /\ loop = "ticked" /\ MayBeUp
  /\ loop' = "returned"
  /\ net' = "closed"
  /\ ctxDone' = TRUE
  /\ UNCHANGED <<kaVars, inFlight, probe, probeChan, fwdVars, muxUp, chan,
                 upstream, muxStuckOn, done, peerVars, wedged>>

(* It has not: probe the peer unless a probe is still in flight. *)
LoopProbes ==
  /\ loop = "ticked" /\ MayNotBeUp
  /\ loop' = "select"
  /\ inFlight' = TRUE
  /\ probe' = IF inFlight THEN probe ELSE "started"
  /\ UNCHANGED <<kaVars, probeChan, fwdVars, sshVars, peerVars, wedged>>

LoopStops ==
  /\ loop = "select" /\ done
  /\ loop' = "returned"
  /\ UNCHANGED <<kaVars, inFlight, probe, probeChan, fwdVars, sshVars,
                 peerVars, wedged>>

(***************************************************************************)
(* The probe goroutine.                                                    *)
(***************************************************************************)

(* A global request, which fails at once if its write meets the closed     *)
(* net.Conn.                                                               *)
SendsGlobal ==
  /\ \/ probe' = "onGlobal"
     \/ net = "closed" /\ probe' = "releasing"
  /\ probeChan' = NoChannel

(* openChans.any picks the channel that has been open longest; without one *)
(* the probe is a global request.                                          *)
ProbePicks ==
  /\ probe = "started"
  /\ \/ openChans = <<>> /\ SendsGlobal
     \/ openChans # <<>> /\ probe' = "picked" /\ probeChan' = Head(openChans)
  /\ lag' = 0
  /\ UNCHANGED <<kaVars, loop, inFlight, fwdVars, sshVars, peer, wedged>>

ProbeSends ==
  /\ probe = "picked" /\ muxUp /\ chan[probeChan] = "open"
  /\ probe' = "onChannel"
  /\ lag' = 0
  /\ UNCHANGED <<kaVars, loop, inFlight, probeChan, fwdVars, sshVars, peer, wedged>>

(* SendRequest fails on a channel that either side has closed, when its    *)
(* write meets the closed net.Conn, and while it waits when the peer       *)
(* closes the channel or the mux ends.                                     *)
ChannelProbeFails ==
  \/ probe = "picked"    /\ (net = "closed" \/ chan[probeChan] # "open")
  \/ probe = "onChannel" /\ (~muxUp \/ chan[probeChan] = "closed")

(* The channel is dropped and the probe goes out as a global request. *)
ProbeFallsBack ==
  /\ ChannelProbeFails
  /\ openChans' = RemoveFirst(openChans, probeChan)
  /\ SendsGlobal
  /\ lag' = 0
  /\ UNCHANGED <<kaVars, loop, inFlight, fwd, wrapped, handling, sshVars, peer, wedged>>

(* Without a mux no reply comes, and nothing is reset. *)
ProbeFails ==
  /\ probe = "onGlobal" /\ ~muxUp
  /\ probe' = "releasing"
  /\ UNCHANGED <<kaVars, loop, inFlight, probeChan, fwdVars, sshVars, peerVars, wedged>>

(* Any reply, positive or negative, resets the deadline. *)
ProbeResets ==
  /\ probe = "replied"
  /\ probe' = "releasing"
  /\ NoteActivity
  /\ UNCHANGED <<loop, inFlight, probeChan, fwdVars, sshVars, peerVars, wedged>>

ProbeReleases ==
  /\ probe = "releasing"
  /\ probe' = "none"
  /\ probeChan' = NoChannel
  /\ inFlight' = FALSE
  /\ UNCHANGED <<kaVars, loop, fwdVars, sshVars, peerVars, wedged>>

(***************************************************************************)
(* trackingNewChannel: Accept and the forwarder goroutine it starts.       *)
(***************************************************************************)

(* NewChannel.Accept succeeds. *)
AcceptChannel(c) ==
  /\ chan[c] = "none" /\ muxUp /\ net = "up"
  /\ chan' = [chan EXCEPT ![c] = "open"]
  /\ fwd' = [fwd EXCEPT ![c] = "adding"]
  /\ UNCHANGED <<kaVars, loopVars, openChans, wrapped, handling, net, muxUp,
                 upstream, muxStuckOn, ctxDone, done, peerVars, wedged>>

(* onAccept, then the forwarder starts *)
AddChannel(c) ==
  /\ fwd[c] = "adding"
  /\ openChans' = Append(openChans, c)
  /\ fwd' = [fwd EXCEPT ![c] = "receiving"]
  /\ UNCHANGED <<kaVars, loopVars, wrapped, handling, sshVars, peerVars,
                 wedged>>

ForwarderReceives(c) ==
  /\ fwd[c] = "receiving" /\ upstream[c] > 0
  /\ upstream' = [upstream EXCEPT ![c] = @ - 1]
  /\ fwd' = [fwd EXCEPT ![c] = "holding"]
  /\ NoteActivity
  /\ UNCHANGED <<loopVars, openChans, wrapped, handling, net, muxUp, chan,
                 muxStuckOn, ctxDone, done, peerVars, wedged>>

ForwarderSends(c) ==
  /\ fwd[c] = "holding" /\ wrapped[c] < Cap
  /\ wrapped' = [wrapped EXCEPT ![c] = @ + 1]
  /\ fwd' = [fwd EXCEPT ![c] = "receiving"]
  /\ UNCHANGED <<kaVars, loopVars, openChans, handling, sshVars, peerVars,
                 wedged>>

(* The Context is done while the handler does not take the request: it and *)
(* all that follow are refused.                                            *)
ForwarderGivesUp(c) ==
  /\ fwd[c] = "holding" /\ ctxDone
  /\ fwd' = [fwd EXCEPT ![c] = "draining"]
  /\ UNCHANGED <<kaVars, loopVars, openChans, wrapped, handling, sshVars,
                 peerVars, wedged>>

ForwarderDrains(c) ==
  /\ fwd[c] = "draining" /\ upstream[c] > 0
  /\ upstream' = [upstream EXCEPT ![c] = @ - 1]
  /\ UNCHANGED <<kaVars, loopVars, fwdVars, net, muxUp, chan, muxStuckOn,
                 ctxDone, done, peerVars, wedged>>

(* The upstream is closed and empty: onClose runs. *)
ForwarderEnds(c) ==
  /\ fwd[c] \in {"receiving", "draining"}
  /\ upstream[c] = 0 /\ chan[c] = "closed"
  /\ openChans' = RemoveFirst(openChans, c)
  /\ fwd' = [fwd EXCEPT ![c] = "done"]
  /\ UNCHANGED <<kaVars, loopVars, wrapped, handling, sshVars, peerVars,
                 wedged>>

(* handleRequests counts a global request as activity (so does            *)
(* KeepAliveRequestHandler, once more) and calls the RequestHandler.       *)
HandleRequest ==
  /\ ~handling /\ upstream[Global] > 0
  /\ upstream' = [upstream EXCEPT ![Global] = @ - 1]
  /\ handling' = TRUE
  /\ NoteActivity
  /\ UNCHANGED <<loopVars, openChans, fwd, wrapped, net, muxUp, chan, muxStuckOn,
                 ctxDone, done, peerVars, wedged>>

(* The RequestHandler returns.  Nothing makes an application's do so. *)
RequestHandled ==
  /\ handling
  /\ handling' = FALSE
  /\ UNCHANGED <<kaVars, loopVars, openChans, fwd, wrapped, sshVars, peerVars, wedged>>

(* The channel's handler takes a request, or closes the channel.  Nothing  *)
(* makes it do either.                                                     *)
HandlerTakes(c) ==
  /\ wrapped[c] > 0
  /\ wrapped' = [wrapped EXCEPT ![c] = @ - 1]
  /\ UNCHANGED <<kaVars, loopVars, openChans, fwd, handling, sshVars,
                 peerVars, wedged>>

HandlerCloses(c) ==
  /\ chan[c] = "open" /\ fwd[c] # "adding"
  /\ chan' = [chan EXCEPT ![c] = "closing"]
  /\ UNCHANGED <<kaVars, loopVars, fwdVars, net, muxUp, upstream, muxStuckOn,
                 ctxDone, done, peerVars, wedged>>

-----------------------------------------------------------------------------
(***************************************************************************)
(* What the mux reads from the peer.  Channel data and window adjustments  *)
(* are left out: no code of the package sees them.                         *)
(***************************************************************************)

(* A request on channel c, or a global one; a full buffer blocks the mux. *)
MuxReadsRequest(c) ==
  /\ MuxReads /\ peer = "prompt"
  /\ c # Global => chan[c] \in {"open", "closing"}
  /\ IF upstream[c] < Cap
       THEN /\ upstream' = [upstream EXCEPT ![c] = @ + 1]
            /\ UNCHANGED muxStuckOn
       ELSE /\ muxStuckOn' = c
            /\ UNCHANGED upstream
  /\ UNCHANGED <<kaVars, loopVars, fwdVars, net, muxUp, chan, ctxDone, done,
                 peerVars, wedged>>

MuxUnblocks ==
  /\ muxStuckOn # NoChannel
  /\ upstream[muxStuckOn] < Cap
  /\ upstream' = [upstream EXCEPT ![muxStuckOn] = @ + 1]
  /\ muxStuckOn' = NoChannel
  /\ UNCHANGED <<kaVars, loopVars, fwdVars, net, muxUp, chan, ctxDone, done,
                 peerVars, wedged>>

MuxReadsClose(c) ==
  /\ MuxReads /\ peer = "prompt"
  /\ chan[c] \in {"open", "closing"}
  /\ chan' = [chan EXCEPT ![c] = "closed"]
  /\ UNCHANGED <<kaVars, loopVars, fwdVars, net, muxUp, upstream, muxStuckOn,
                 ctxDone, done, peerVars, wedged>>

(* The reply to the probe in flight. *)
MuxReadsReply ==
  /\ MuxReads /\ peer = "prompt"
  /\ probe \in {"onChannel", "onGlobal"} /\ ~ChannelProbeFails
  /\ probe' = "replied"
  /\ UNCHANGED <<kaVars, loop, inFlight, probeChan, fwdVars, sshVars, peerVars,
                 wedged>>

(* A mux that is not blocked meets the closed net.Conn: it closes every    *)
(* channel and chans, closes the serverConn and ends.                      *)
MuxExits ==
  /\ net = "closed" /\ muxUp /\ muxStuckOn = NoChannel
  /\ muxUp' = FALSE
  /\ chan' = [c \in Channel |-> IF chan[c] = "none" THEN "none" ELSE "closed"]
  /\ ctxDone' = TRUE
  /\ UNCHANGED <<kaVars, loopVars, fwdVars, net, upstream, muxStuckOn, done,
                 peerVars, wedged>>

(* HandleConn's range over chans ends: deferred close(keepAliveDone), then *)
(* KeepAlive().Close.                                                      *)
HandleConnSignals ==
  /\ ~muxUp /\ ~done
  /\ done' = TRUE
  /\ UNCHANGED <<kaVars, loopVars, fwdVars, net, muxUp, chan, upstream,
                 muxStuckOn, ctxDone, peerVars, wedged>>

KeepAliveClose ==
  /\ done /\ ~kaClosed
  /\ kaClosed' = TRUE
  /\ ticking' = FALSE
  /\ tick' = FALSE
  /\ UNCHANGED <<age, timer, loopVars, fwdVars, sshVars, peerVars, wedged>>

-----------------------------------------------------------------------------
(***************************************************************************)
(* The peer, the network and time.                                         *)
(***************************************************************************)

PeerStalls ==
  /\ peer = "prompt"
  /\ peer' = "stalled"
  /\ UNCHANGED <<kaVars, loopVars, fwdVars, sshVars, lag, wedged>>

(* The net.Conn fails or is closed by someone else: the peer, a deadline,  *)
(* Server.Close, a handler.                                                *)
NetCloses ==
  /\ net = "up"
  /\ net' = "closed"
  /\ \E cancelled \in BOOLEAN : ctxDone' = (ctxDone \/ cancelled)
  /\ UNCHANGED <<kaVars, loopVars, fwdVars, muxUp, chan, upstream, muxStuckOn,
                 done, peerVars, wedged>>

(* A Read or Write of a handler, a probe or the mux meets it. *)
NetError ==
  /\ net = "closed" /\ ~ctxDone
  /\ ctxDone' = TRUE
  /\ UNCHANGED <<kaVars, loopVars, fwdVars, net, muxUp, chan, upstream, muxStuckOn,
                 done, peerVars, wedged>>

(* No goroutine of the server can run (handlers, which may sit on their    *)
(* requests, apart).                                                       *)
Blocked ==
  /\ loop = "returned" \/ (loop = "select" /\ ~tick /\ ~done)
  /\ probe = "none" \/ (probe \in {"onChannel", "onGlobal"} /\ muxUp /\ ~ChannelProbeFails)
  /\ \A c \in Channel :
       /\ fwd[c] # "adding"
       /\ fwd[c] \in {"receiving", "draining"} => upstream[c] = 0 /\ chan[c] # "closed"
       /\ fwd[c] = "holding" => wrapped[c] = Cap /\ ~ctxDone
  /\ handling \/ upstream[Global] = 0
  /\ muxStuckOn # NoChannel => upstream[muxStuckOn] = Cap
  /\ net = "up" \/ ~muxUp \/ muxStuckOn # NoChannel
  /\ muxUp \/ (done /\ kaClosed)

(* A prompt peer has answered the probe in time, if the mux could read it. *)
PeerInTime ==
  (peer = "prompt" /\ MuxReads /\ probe \in {"onChannel", "onGlobal"}) => lag < ReplyLag

TimeStep ==
  /\ Blocked /\ PeerInTime
  /\ age' = IF age < AgeMax THEN age + 1 ELSE age
  /\ IF ticking
       THEN /\ timer' = IF timer = 1 THEN Interval ELSE timer - 1
            /\ tick' = (tick \/ timer = 1)
       ELSE UNCHANGED <<timer, tick>>
  /\ lag' = IF lag < ReplyLag THEN lag + 1 ELSE lag
  /\ wedged' = (wedged \/ muxStuckOn # NoChannel)
  /\ UNCHANGED <<ticking, kaClosed, loopVars, fwdVars, sshVars, peer>>

-----------------------------------------------------------------------------
LoopStep ==
  \/ LoopTakesTick
  \/ LoopTimesOut
  \/ LoopProbes
  \/ LoopStops

ProbeStep ==
  \/ ProbePicks
  \/ ProbeSends
  \/ ProbeFallsBack
  \/ ProbeFails
  \/ ProbeResets
  \/ ProbeReleases

ForwarderStep(c) ==
  \/ AddChannel(c)
  \/ ForwarderReceives(c)
  \/ ForwarderSends(c)
  \/ ForwarderGivesUp(c)
  \/ ForwarderDrains(c)
  \/ ForwarderEnds(c)

ConnStep ==
  \/ HandleRequest
  \/ MuxUnblocks
  \/ MuxExits
  \/ HandleConnSignals
  \/ KeepAliveClose

PeerStep ==
  \/ \E c \in Channel \cup {Global} : MuxReadsRequest(c)
  \/ \E c \in Channel : MuxReadsClose(c)
  \/ MuxReadsReply
  \/ PeerStalls
  \/ NetCloses
  \/ NetError

HandlerStep(c) == AcceptChannel(c) \/ HandlerTakes(c) \/ HandlerCloses(c)

Next ==
  \/ LoopStep
  \/ ProbeStep
  \/ \E c \in Channel : ForwarderStep(c) \/ HandlerStep(c)
  \/ RequestHandled
  \/ ConnStep
  \/ PeerStep
  \/ TimeStep

Spec == Init /\ [][Next]_vars

(* The server's goroutines run and time passes; peers, channel handlers    *)
(* and RequestHandlers may do nothing.                                     *)
Fairness ==
  /\ WF_vars(LoopStep) /\ WF_vars(ProbeStep) /\ WF_vars(ConnStep)
  /\ \A c \in Channel : WF_vars(ForwarderStep(c))
  /\ WF_vars(TimeStep)

FairSpec == Spec /\ Fairness

-----------------------------------------------------------------------------
(***************************************************************************)
(* Properties.                                                             *)
(***************************************************************************)

(* The type invariant: what steers the keep-alive, and the channels.       *)
ClockTypes ==
  /\ age \in 0..AgeMax /\ timer \in 1..Interval
  /\ tick \in BOOLEAN /\ ticking \in BOOLEAN /\ kaClosed \in BOOLEAN
  /\ loop \in LoopPC /\ inFlight \in BOOLEAN /\ probe \in ProbePC
  /\ net \in {"up", "closed"} /\ muxUp \in BOOLEAN /\ done \in BOOLEAN
  /\ peer \in {"prompt", "stalled"} /\ lag \in 0..ReplyLag
  /\ wedged \in BOOLEAN

ChannelTypes ==
  /\ fwd \in [Channel -> FwdPC] /\ chan \in [Channel -> ChanState]
  /\ wrapped \in [Channel -> 0..Cap] /\ upstream \in [Channel \cup {Global} -> 0..Cap]
  /\ muxStuckOn \in Channel \cup {Global, NoChannel}
  /\ handling \in BOOLEAN /\ ctxDone \in BOOLEAN

TypeOK == ClockTypes /\ ChannelTypes

(* The keep-alive never closes the connection of a peer that answers each  *)
(* probe in time, unless a handler that does not take its requests, or a   *)
(* RequestHandler, has blocked the mux, so that the answer could not be    *)
(* read.                                                                   *)
PromptPeerSurvives ==
  [][LoopTimesOut => net = "closed" \/ peer = "stalled" \/ wedged]_vars

(* A connection is closed for want of a reply only while a probe is out    *)
(* whose reply has not been counted.  That probe may be older than what    *)
(* was last heard of the peer: while it is out no other is sent.           *)
NoKillWithoutProbe ==
  [][LoopTimesOut => net = "closed" \/ probe \in {"onChannel", "onGlobal", "replied"}]_vars

(* However ticks, probes, replies and requests interleave, a connection    *)
(* whose peer is silent is closed at most one interval after the deadline. *)
DetectionBound == (net = "up" /\ ~done) => age <= Deadline + Interval

(* A closed channel whose forwarder is gone is never probed again, a       *)
(* channel is in the set at most once, and while the net.Conn is up a      *)
(* channel that is open on both sides is in the set, so probes prefer it   *)
(* to a global request.                                                    *)
OpenChansExact ==
  /\ openChans \in Seq(Channel) /\ probeChan \in Channel \cup {NoChannel}
  /\ \A i, j \in 1..Len(openChans) : openChans[i] = openChans[j] => i = j
  /\ \A c \in Channel : Contains(openChans, c) => fwd[c] \notin {"none", "adding", "done"}
  /\ \A c \in Channel :
       (net = "up" /\ chan[c] = "open" /\ fwd[c] \notin {"none", "adding"})
         => Contains(openChans, c)

(* After KeepAlive.Close no straggling probe or forwarder makes the ticker *)
(* fire again.                                                             *)
ClosedTickerIsSilent == kaClosed => ~tick /\ ~ticking

(* A RequestHandler that does not return: nothing takes the global         *)
(* requests any more, and once they fill their buffer the mux never reads  *)
(* that the net.Conn is closed.                                            *)
RequestHandlerStays == <>[]handling

(* A peer that stalls is noticed and its net.Conn closed, whatever the     *)
(* handlers do, and its mux ends unless a RequestHandler stays for ever.   *)
StalledPeerDropped ==
  /\ (peer = "stalled") ~> (net = "closed")
  /\ RequestHandlerStays \/ ((peer = "stalled") ~> ~muxUp)

(* Once the net.Conn is closed everything the connection started ends,     *)
(* although a channel's handler may never take another request: the mux,   *)
(* the loop, the probe, handleRequests and the forwarders; no channel      *)
(* stays in the set.                                                       *)
TornDown ==
  /\ ~muxUp /\ loop = "returned" /\ probe = "none" /\ kaClosed
  /\ ~handling /\ upstream[Global] = 0
  /\ openChans = <<>>
  /\ \A c \in Channel : fwd[c] \in {"none", "done"}

(* That holds even if the mux is blocked and the net.Conn broke without an *)
(* error of package net, which would have cancelled the Context, but not   *)
(* if a RequestHandler stays for ever.                                     *)
ClosedConnTearsDown == RequestHandlerStays \/ ((net = "closed") ~> TornDown)

(* A channel the peer has closed leaves the set, if its handler takes its  *)
(* requests or the Context ends.                                           *)
ClosedChannelPruned ==
  \A c \in Channel : [](chan[c] = "closed" =>
     <>(~Contains(openChans, c) \/ fwd[c] = "holding"))
=============================================================================
