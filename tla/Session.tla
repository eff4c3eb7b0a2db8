------------------------------- MODULE Session ------------------------------
(***************************************************************************)
(* A session channel (session.go): the request loop of handleRequests, the *)
(* application's handler and the goroutine that flushes buffered signals.  *)
(* They share sess.Mutex (mu), sess.sigMu, a window channel of capacity 1  *)
(* and the application's signal and break channels, taken as unbuffered.   *)
(* What the application does with the session is left open: once started   *)
(* it may call Signals, Break and Exit at any time, and receives on the    *)
(* kinds of channel in Drained from a goroutine that never stops, on the   *)
(* others only from its handler, when it likes.  How the session is        *)
(* started is SessionRequests.                                             *)
(***************************************************************************)
EXTENDS Naturals, SequencesExt

CONSTANTS
  SigChan,   \* The channels the application registers for signals.
  None,      \* No channel.
  Drained,   \* Subset of {"signals", "breaks", "winch"}.
  BufSize,   \* maxSigBufSize.
  MaxSignals \* Bound on the signals the client sends.

ASSUME NoneAssumption == None \notin SigChan
ASSUME DrainedAssumption == Drained \subseteq {"signals", "breaks", "winch"}
ASSUME SizesAssumption == BufSize \in Nat /\ MaxSignals \in Nat

VARIABLES
  \* Fields of session.
  handled,    \* BOOLEAN: the handler has been started.
  pty,        \* BOOLEAN: the field is set.
  winch,      \* Sizes in the window channel.
  winchState, \* The channel itself: "nil", "open" or "closed".
  sigCh,      \* Registered signal channel or None.
  sigBuf,     \* Signals buffered while no channel was registered.
  breakCh,    \* BOOLEAN: a break channel is registered.
  exited,     \* sess.exited.
  sigMu, mu,  \* Who holds the mutex, or "free".
  \* Control.
  loop,       \* LoopPC of handleRequests.
  inHand,     \* The signal the loop handles, or 0.
  sendTo,     \* The channel it sends it on, or None.
  flushed,    \* How many of sigBuf the flushing goroutine has sent.
  app,        \* AppPC of the handler and of the goroutine it runs in.
  arg,        \* The channel passed to the Signals call in progress, or None.
  returned,   \* BOOLEAN: the handler has returned.
  \* The channel.
  alive,      \* BOOLEAN: the transport works.
  reqsOpen,   \* BOOLEAN: the stream of requests is open.
  chanOpen,   \* BOOLEAN: the server has not closed the channel.
  \* History.
  sent,       \* Signals sent by the client, numbered from 1.
  dropped,    \* Those refused by a full buffer.
  received,   \* Those the application has received.
  heard       \* The channel it received the last one on, or None.

startVars == <<handled, pty>>
winVars   == <<winch, winchState>>
sigVars   == <<sigCh, sigBuf, sigMu, flushed>>
loopVars  == <<loop, inHand, sendTo>>
appVars   == <<app, arg, returned>>
exitVars  == <<exited, mu, breakCh>>
chanVars  == <<alive, reqsOpen, chanOpen>>
histVars  == <<sent, dropped, received, heard>>
vars == <<startVars, winVars, sigVars, loopVars, appVars, exitVars, chanVars, histVars>>

LoopPC == {"idle", "sigLock", "sendingSig", "sendingWin", "breakLock", "sendingBreak",
           "breakReply", "done"}
AppPC  == {"none", "running", "inSignals", "inBreak", "inExit", "closing", "gone"}

Init ==
  /\ handled = FALSE /\ pty = FALSE
  /\ winch = 0 /\ winchState = "nil"
  /\ sigCh = None /\ sigBuf = <<>> /\ sigMu = "free" /\ flushed = 0
  /\ loop = "idle" /\ inHand = 0 /\ sendTo = None
  /\ app = "none" /\ arg = None /\ returned = FALSE
  /\ exited = FALSE /\ mu = "free" /\ breakCh = FALSE
  /\ alive = TRUE /\ reqsOpen = TRUE /\ chanOpen = TRUE
  /\ sent = 0 /\ dropped = {} /\ received = <<>> /\ heard = None

(* The loop is ready for the client's next request. *)
Reads == loop = "idle" /\ reqsOpen

(* The application can receive on its channels of this kind: not before it *)
(* was started, since Pty hands out the window channel and Signals and     *)
(* Break take the others only then.                                        *)
Receives(kind) == app # "none" /\ (kind \in Drained \/ app = "running")

-----------------------------------------------------------------------------
(* Faults: actions below as a plausible bug would have them; not in Next.  *)

(* The channel is read under sigMu, and sent on without it. *)
FaultySignalLocks ==
  /\ loop = "sigLock" /\ sigMu = "free"
  /\ IF sigCh # None
       THEN /\ loop' = "sendingSig" /\ sendTo' = sigCh
            /\ UNCHANGED <<sigBuf, inHand, dropped>>
       ELSE /\ loop' = "idle" /\ inHand' = 0
            /\ sigBuf' = IF Len(sigBuf) < BufSize THEN Append(sigBuf, inHand) ELSE sigBuf
            /\ dropped' = IF Len(sigBuf) < BufSize THEN dropped ELSE dropped \cup {inHand}
            /\ UNCHANGED sendTo
  /\ UNCHANGED <<sigMu, startVars, winVars, sigCh, flushed, appVars, exitVars, chanVars, sent,
                 received, heard>>

(* The buffer is not emptied after it was flushed. *)
FaultyFlushEnds ==
  /\ sigMu = "flusher" /\ flushed = Len(sigBuf)
  /\ flushed' = 0 /\ sigMu' = "free"
  /\ UNCHANGED <<sigBuf, startVars, winVars, sigCh, loopVars, appVars, exitVars, chanVars, histVars>>

(* The mutex is released before the reply. *)
FaultyBreakReceived ==
  /\ loop = "sendingBreak" /\ Receives("breaks")
  /\ loop' = "breakReply" /\ mu' = "free"
  /\ UNCHANGED <<startVars, winVars, sigVars, inHand, sendTo, appVars, exited, breakCh, chanVars,
                 histVars>>

(* Without a break channel the mutex stays locked. *)
FaultyBreakLocks ==
  /\ loop = "breakLock" /\ mu = "free"
  /\ mu' = "loop" /\ loop' = IF breakCh THEN "sendingBreak" ELSE "idle"
  /\ UNCHANGED <<startVars, winVars, sigVars, inHand, sendTo, appVars, exited, breakCh, chanVars,
                 histVars>>

(* Without signals to send, Signals returns with sigMu locked. *)
FaultySignalsLocks ==
  /\ app = "inSignals" /\ sigMu = "free"
  /\ sigCh' = arg
  /\ sigMu' = IF sigBuf = <<>> \/ arg = None THEN "loop" ELSE "flusher"
  /\ app' = "running" /\ arg' = None
  /\ UNCHANGED <<startVars, winVars, sigBuf, flushed, loopVars, returned, exitVars, chanVars, histVars>>

(* The loop ends without closing the window channel. *)
FaultyLoopEnds ==
  /\ loop = "idle" /\ ~reqsOpen
  /\ loop' = "done"
  /\ UNCHANGED <<startVars, winVars, sigVars, inHand, sendTo, appVars, exitVars, chanVars, histVars>>

-----------------------------------------------------------------------------
(***************************************************************************)
(* The request loop.  Replies are left out, but for break's; so are env,   *)
(* agent and keep-alive requests and unknown ones, which only reply.       *)
(***************************************************************************)

(* A shell, exec or subsystem request is granted. *)
Start ==
  /\ Reads /\ ~handled
  /\ handled' = TRUE /\ app' = "running"
  /\ UNCHANGED <<pty, arg, returned, winVars, sigVars, loopVars, exitVars, chanVars, histVars>>

(* The window channel starts with the size requested. *)
PtyRequest ==
  /\ Reads /\ ~handled /\ ~pty
  /\ pty' = TRUE
  /\ winch' = 1 /\ winchState' = "open"
  /\ UNCHANGED <<handled, sigVars, loopVars, appVars, exitVars, chanVars, histVars>>

WindowChange ==
  /\ Reads /\ pty
  /\ loop' = "sendingWin"
  /\ UNCHANGED <<startVars, winVars, sigVars, inHand, sendTo, appVars, exitVars, chanVars, histVars>>

(* The send blocks while the channel is full. *)
WindowSent ==
  /\ loop = "sendingWin" /\ winch = 0
  /\ winch' = 1
  /\ loop' = "idle"
  /\ UNCHANGED <<startVars, winchState, sigVars, inHand, sendTo, appVars, exitVars, chanVars,
                 histVars>>

SignalRequest ==
  /\ Reads /\ sent < MaxSignals
  /\ sent' = sent + 1
  /\ inHand' = sent + 1
  /\ loop' = "sigLock"
  /\ UNCHANGED <<startVars, winVars, sigVars, sendTo, appVars, exitVars, chanVars, dropped,
                 received, heard>>

(* With a channel registered the loop sends on it under sigMu; without one *)
(* it buffers the signal while there is room.                              *)
SignalLocks ==
  /\ loop = "sigLock" /\ sigMu = "free"
  /\ IF sigCh # None
       THEN /\ loop' = "sendingSig" /\ sendTo' = sigCh /\ sigMu' = "loop"
            /\ UNCHANGED <<sigBuf, inHand, dropped>>
       ELSE /\ loop' = "idle" /\ inHand' = 0
            /\ sigBuf' = IF Len(sigBuf) < BufSize THEN Append(sigBuf, inHand) ELSE sigBuf
            /\ dropped' = IF Len(sigBuf) < BufSize THEN dropped ELSE dropped \cup {inHand}
            /\ UNCHANGED <<sendTo, sigMu>>
  /\ UNCHANGED <<startVars, winVars, sigCh, flushed, appVars, exitVars, chanVars, sent, received,
                 heard>>

BreakRequest ==
  /\ Reads
  /\ loop' = "breakLock"
  /\ UNCHANGED <<startVars, winVars, sigVars, inHand, sendTo, appVars, exitVars, chanVars, histVars>>

(* sess.Mutex is held over the send and the reply. *)
BreakLocks ==
  /\ loop = "breakLock" /\ mu = "free"
  /\ mu' = "loop"
  /\ loop' = IF breakCh THEN "sendingBreak" ELSE "breakReply"
  /\ UNCHANGED <<startVars, winVars, sigVars, inHand, sendTo, appVars, exited, breakCh, chanVars,
                 histVars>>

BreakReplies ==
  /\ loop = "breakReply"
  /\ mu' = "free"
  /\ loop' = "idle"
  /\ UNCHANGED <<startVars, winVars, sigVars, inHand, sendTo, appVars, exited, breakCh, chanVars,
                 histVars>>

(* The requests are closed: the deferred function closes the window channel. *)
LoopEnds ==
  /\ loop = "idle" /\ ~reqsOpen
  /\ loop' = "done"
  /\ winchState' = IF winchState = "open" THEN "closed" ELSE winchState
  /\ UNCHANGED <<startVars, winch, sigVars, inHand, sendTo, appVars, exitVars, chanVars, histVars>>

(***************************************************************************)
(* The application receives.                                               *)
(***************************************************************************)
SignalReceived ==
  /\ loop = "sendingSig" /\ Receives("signals")
  /\ received' = Append(received, inHand) /\ heard' = sendTo
  /\ loop' = "idle" /\ inHand' = 0 /\ sendTo' = None
  /\ sigMu' = "free"
  /\ UNCHANGED <<startVars, winVars, sigCh, sigBuf, flushed, appVars, exitVars, chanVars, sent, dropped>>

FlushReceived ==
  /\ sigMu = "flusher" /\ flushed < Len(sigBuf) /\ Receives("signals")
  /\ received' = Append(received, sigBuf[flushed + 1]) /\ heard' = sigCh
  /\ flushed' = flushed + 1
  /\ UNCHANGED <<startVars, winVars, sigCh, sigBuf, sigMu, loopVars, appVars, exitVars, chanVars,
                 sent, dropped>>

(* The flushing goroutine empties the buffer and releases sigMu. *)
FlushEnds ==
  /\ sigMu = "flusher" /\ flushed = Len(sigBuf)
  /\ sigBuf' = <<>> /\ flushed' = 0 /\ sigMu' = "free"
  /\ UNCHANGED <<startVars, winVars, sigCh, loopVars, appVars, exitVars, chanVars, histVars>>

BreakReceived ==
  /\ loop = "sendingBreak" /\ Receives("breaks")
  /\ loop' = "breakReply"
  /\ UNCHANGED <<startVars, winVars, sigVars, inHand, sendTo, appVars, exitVars, chanVars, histVars>>

WindowReceived ==
  /\ winch = 1 /\ Receives("winch")
  /\ winch' = 0
  /\ UNCHANGED <<startVars, winchState, sigVars, loopVars, appVars, exitVars, chanVars, histVars>>

(***************************************************************************)
(* The application calls the session.                                      *)
(***************************************************************************)
SignalsCall(c) ==
  /\ app = "running"
  /\ app' = "inSignals" /\ arg' = c
  /\ UNCHANGED <<startVars, winVars, sigVars, loopVars, returned, exitVars, chanVars, histVars>>

(* Buffered signals are sent by a goroutine that inherits the lock. *)
SignalsLocks ==
  /\ app = "inSignals" /\ sigMu = "free"
  /\ sigCh' = arg
  /\ sigMu' = IF sigBuf = <<>> \/ arg = None THEN "free" ELSE "flusher"
  /\ app' = "running" /\ arg' = None
  /\ UNCHANGED <<startVars, winVars, sigBuf, flushed, loopVars, returned, exitVars, chanVars, histVars>>

BreakCall ==
  /\ app = "running"
  /\ app' = "inBreak"
  /\ UNCHANGED <<startVars, winVars, sigVars, loopVars, arg, returned, exitVars, chanVars, histVars>>

(* Break(c) or Break(nil). *)
BreakRegisters ==
  /\ app = "inBreak" /\ mu = "free"
  /\ breakCh' \in BOOLEAN
  /\ app' = "running"
  /\ UNCHANGED <<startVars, winVars, sigVars, loopVars, arg, returned, exited, mu, chanVars, histVars>>

(* Exit, called by the handler or after it has returned. *)
ExitCall ==
  /\ app = "running"
  /\ app' = "inExit"
  /\ returned' \in BOOLEAN
  /\ UNCHANGED <<startVars, winVars, sigVars, loopVars, arg, exitVars, chanVars, histVars>>

AfterExit == app' = IF returned THEN "gone" ELSE "running"

(* The first call sets exited, a later one returns an error. *)
ExitLocks ==
  /\ app = "inExit" /\ mu = "free"
  /\ IF exited
       THEN AfterExit /\ UNCHANGED <<exited, mu>>
       ELSE exited' = TRUE /\ mu' = "app" /\ app' = "closing"
  /\ UNCHANGED <<startVars, winVars, sigVars, loopVars, arg, returned, breakCh, chanVars, histVars>>

(* exit-status is sent and the channel closed; if the status cannot be     *)
(* sent the channel is left.                                               *)
ExitCloses ==
  /\ app = "closing"
  /\ chanOpen' = FALSE \/ (~alive /\ UNCHANGED chanOpen)
  /\ mu' = "free"
  /\ AfterExit
  /\ UNCHANGED <<startVars, winVars, sigVars, loopVars, arg, returned, exited, breakCh, alive,
                 reqsOpen, histVars>>

(***************************************************************************)
(* The connection.                                                         *)
(***************************************************************************)
TransportFails ==
  /\ alive
  /\ alive' = FALSE
  /\ UNCHANGED <<startVars, winVars, sigVars, loopVars, appVars, exitVars, reqsOpen, chanOpen,
                 histVars>>

(* The client closes the channel, by itself or in answer to the server's   *)
(* close, or the mux ends.                                                 *)
RequestsClose ==
  /\ reqsOpen
  /\ reqsOpen' = FALSE
  /\ UNCHANGED <<startVars, winVars, sigVars, loopVars, appVars, exitVars, alive, chanOpen, histVars>>

-----------------------------------------------------------------------------
Request ==
  \/ Start
  \/ PtyRequest
  \/ WindowChange
  \/ SignalRequest
  \/ BreakRequest

LoopStep ==
  \/ WindowSent
  \/ SignalLocks
  \/ BreakLocks
  \/ BreakReplies
  \/ LoopEnds

Receive == SignalReceived \/ FlushReceived \/ BreakReceived \/ WindowReceived

AppCall ==
  \/ \E c \in SigChan \cup {None} : SignalsCall(c)
  \/ BreakCall
  \/ ExitCall

AppStep == SignalsLocks \/ BreakRegisters \/ ExitLocks \/ ExitCloses

Next == Request \/ LoopStep \/ FlushEnds \/ Receive \/ AppCall \/ AppStep
        \/ TransportFails \/ RequestsClose

Spec == Init /\ [][Next]_vars

(* Goroutines run; a sync.Mutex starves nobody; the application, once it   *)
(* was started, receives what its goroutines drain.  It need not call      *)
(* anything or return, and the client need not do anything.                *)
CallFair  == SF_vars(AppStep)
BreakFair == WF_vars(BreakReplies) /\ ("breaks" \in Drained => WF_vars(BreakReceived))

LoopFair  == /\ WF_vars(WindowSent) /\ WF_vars(LoopEnds) /\ WF_vars(FlushEnds)
             /\ SF_vars(SignalLocks) /\ SF_vars(BreakLocks)
             /\ "signals" \in Drained => WF_vars(SignalReceived) /\ WF_vars(FlushReceived)
             /\ "winch" \in Drained => WF_vars(WindowReceived)

Fairness == CallFair /\ BreakFair /\ LoopFair

FairSpec == Spec /\ Fairness

-----------------------------------------------------------------------------
(* The type invariant, with what the loop's stages imply: it sends sizes   *)
(* only on an open window channel and has a signal and a channel in hand   *)
(* when it sends one.                                                      *)
TypeOK ==
  /\ handled \in BOOLEAN /\ pty \in BOOLEAN /\ breakCh \in BOOLEAN /\ exited \in BOOLEAN
  /\ returned \in BOOLEAN /\ alive \in BOOLEAN /\ reqsOpen \in BOOLEAN /\ chanOpen \in BOOLEAN
  /\ winch \in 0..1 /\ winchState \in {"nil", "open", "closed"}
  /\ sigCh \in SigChan \cup {None} /\ arg \in SigChan \cup {None}
  /\ sigBuf \in Seq(Nat) /\ Len(sigBuf) <= BufSize
  /\ flushed \in 0..Len(sigBuf)
  /\ sigMu \in {"free", "loop", "flusher"} /\ mu \in {"free", "loop", "app"}
  /\ loop \in LoopPC /\ app \in AppPC
  /\ inHand \in 0..MaxSignals /\ sendTo \in SigChan \cup {None}
  /\ sent \in 0..MaxSignals /\ dropped \subseteq 1..sent
  /\ received \in Seq(Nat) /\ heard \in SigChan \cup {None}
  /\ loop = "sendingWin" => winchState = "open"
  /\ loop = "sendingSig" => inHand # 0 /\ sendTo # None

(* The signals on their way and at their end, in the order the application *)
(* gets them: received, still buffered, in the loop's hand.                *)
Delivery ==
  received
    \o SubSeq(sigBuf, flushed + 1, Len(sigBuf))
    \o (IF inHand = 0 THEN <<>> ELSE <<inHand>>)

(* Every signal the full buffer did not refuse is delivered once and in    *)
(* order, across registrations, nil and the flush: the deliveries go up,   *)
(* and are the signals sent but for those refused.                         *)
SignalsInOrder ==
  /\ \A i, j \in DOMAIN Delivery : i < j => Delivery[i] < Delivery[j]
  /\ {Delivery[i] : i \in DOMAIN Delivery} = (1..sent) \ dropped

(* Signals go only to the channel registered last: once Signals has        *)
(* returned the application may close the old one.                         *)
UnregisteredIsQuiet ==
  [][received' # received => heard' = sigCh /\ sigCh # None]_vars

(* The answer to a break comes before an Exit that the break leads to, so  *)
(* the client gets it before the channel closes.                           *)
BreakAnsweredFirst ==
  [][loop = "breakReply" /\ loop' = "breakReply" => UNCHANGED <<exited, chanOpen>>]_vars

(* When the handler has returned, Exit gets through: breaks, window        *)
(* changes and signals that arrive meanwhile do not hold it up for ever,   *)
(* if the application receives them.                                       *)
SessionExits == returned ~> app = "gone"

(* When the requests are closed the loop ends and a window channel is      *)
(* closed, so whoever ranges over it stops.  Only a change of size that    *)
(* came before the handler was started keeps the loop for ever: the        *)
(* channel is full of the pty's own size and nobody has it to receive on.  *)
SizeBeforeHandler == loop = "sendingWin" /\ winch = 1 /\ ~handled
WinchCloses ==
  ~reqsOpen ~> \/ loop = "done" /\ winchState # "open"
               \/ SizeBeforeHandler

(* A Signals call returns.                                                 *)
SignalsReturns == app = "inSignals" ~> app # "inSignals"

(* A call of the application waits only for the mutex it needs, and who    *)
(* holds that one can go on, unless it sends to an application that does   *)
(* not receive.                                                            *)
NobodyBlocks ==
  /\ app \in {"inSignals", "inBreak", "inExit", "closing"} =>
       \/ ENABLED <<AppStep>>_vars
       \/ app = "inSignals" /\ sigMu # "free"
       \/ app \in {"inBreak", "inExit"} /\ mu # "free"
  /\ mu = "app" => app = "closing"
  /\ mu = "loop" =>
       \/ loop = "breakReply" /\ ENABLED <<BreakReplies>>_vars
       \/ loop = "sendingBreak" /\ (Receives("breaks") => ENABLED <<BreakReceived>>_vars)
  /\ sigMu = "loop" =>
       loop = "sendingSig" /\ (Receives("signals") => ENABLED <<SignalReceived>>_vars)
  /\ sigMu = "flusher" =>
       ENABLED <<FlushEnds>>_vars \/ (Receives("signals") => ENABLED <<FlushReceived>>_vars)

-----------------------------------------------------------------------------
(* What a comment says and the code does not keep.                         *)

(* Doc (session.go, Session): "Exit sends an exit status and then closes   *)
(* the session."                                                           *)
ExitSendsAndCloses == app = "inExit" ~> exited /\ (~chanOpen \/ ~alive)
=============================================================================
