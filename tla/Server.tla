------------------------------- MODULE Server -------------------------------
(***************************************************************************)
(* The lifecycle of a Server (server.go): Serve accept loops, HandleConn   *)
(* goroutines, Close and Shutdown, and the state they share under srv.mu:  *)
(* the listener and connection maps, the two WaitGroups and doneChan.      *)
(*                                                                         *)
(* A step is one critical section of srv.mu, one WaitGroup or channel      *)
(* operation, or one call into net / x/crypto/ssh.  A Listener value is    *)
(* one call of Serve, a Conn value one accepted connection, a Stopper      *)
(* value one call of Shutdown.  Close may be called at any time.           *)
(***************************************************************************)
EXTENDS Integers, FiniteSets

CONSTANTS
  Listener,     \* The listeners handed to Serve, each once.
  Conn,         \* The connections that clients open.
  Stopper,      \* The calls of Shutdown.
  WithComplete, \* Whether srv.ConnectionCompleteCallback is set.
  MaxHandlers   \* Bound: channel handlers running at once on a connection.

ASSUME FiniteAssumption   == IsFiniteSet(Listener) /\ IsFiniteSet(Conn)
ASSUME DisjointAssumption == Listener \cap Conn = {}
ASSUME CallbackAssumption == WithComplete \in BOOLEAN
ASSUME BoundAssumption    == MaxHandlers \in Nat

VARIABLES
  \* Server fields, all guarded by srv.mu.
  listeners,    \* srv.listeners: open listeners Close must close.
  conns,        \* srv.conns: live connections Close must close.
  listenerWg,   \* Counter of srv.listenerWg.
  connWg,       \* Counter of srv.connWg.
  doneChan,     \* srv.doneChan: "nil", "open" or "closed".
  \* Serve goroutines.
  serve,        \* [Listener -> ServePC].
  acceptErr,    \* [Listener -> kind of the error Accept returned last].
  serveErr,     \* [Listener -> error Serve returns].
  lnOpen,       \* [Listener -> BOOLEAN]: the socket still accepts.
  \* HandleConn goroutines.
  handle,       \* [Conn -> HandlePC].
  transport,    \* [Conn -> Transport]: the net.Conn and the gossh mux.
  muxWaits,     \* [Conn -> MuxWaits]: whom the mux waits for to take a request.
  ctxDone,      \* [Conn -> BOOLEAN]: the connection's Context is cancelled.
  handlers,     \* [Conn -> Nat]: running channel handler goroutines.
  callbacks,    \* [Conn -> SUBSET Callback]: callbacks fired so far.
  \* Shutdown calls.
  shutdown,     \* [Stopper -> ShutdownPC]: the call and its result.
  waiter,       \* [Stopper -> WaiterPC]: the goroutine the call starts.
  panicked,     \* A WaitGroup misuse panic ended the process.
  \* History.
  atShutdown,   \* [Stopper -> what was tracked when Shutdown was called].
  interrupted   \* [Listener -> Interrupted]: where the first Close or
                \*  Shutdown called during the Serve found it.

serverVars   == <<listeners, conns, listenerWg, connWg, doneChan>>
serveVars    == <<serve, acceptErr, serveErr, lnOpen>>
handleVars   == <<handle, transport, muxWaits, ctxDone, handlers, callbacks>>
shutdownVars == <<shutdown, waiter, panicked>>
historyVars  == <<atShutdown, interrupted>>
vars == <<serverVars, serveVars, handleVars, shutdownVars, historyVars>>

ServePC    == {"idle", "starting", "accepting", "failed", "unwinding",
               "closing", "returned"}
AcceptErr  == {"none", "closed", "temporary", "fatal"}
ServeErr   == {"none", "Mismatch", "NoHostKey", "AcceptError", "ErrServerClosed"}
HandlePC   == {"none", "accepted", "handshook", "serving", "closing",
               "untracked", "done"}
(* "dead": the net.Conn is closed or broken, unseen by the mux yet;        *)
(* "draining": the mux loop closed the channels; "down": it has returned.  *)
Transport  == {"up", "dead", "draining", "down"}
MuxWaits   == {"nobody", "channel", "global"}
Callback   == {"failed", "closing", "complete"}
ShutdownPC == {"idle", "waiting", "drained", "expired"}
Interrupted == {"no", "starting", "accepting"}
WaiterPC   == {"none", "listenerWg", "listenerParked", "listenerWoken",
               "connWg", "connParked", "connWoken", "finished"}

(* A Serve between its two calls of trackListener, a HandleConn between    *)
(* its two calls of trackConn.                                             *)
TrackedListeners == {l \in Listener : serve[l] \in {"accepting", "failed", "unwinding"}}
TrackedConns     == {c \in Conn : handle[c] \in {"serving", "closing"}}
Tracked          == TrackedListeners \cup TrackedConns

-----------------------------------------------------------------------------
Init ==
  /\ listeners = {} /\ conns = {}
  /\ listenerWg = 0 /\ connWg = 0
  /\ doneChan = "nil"
  /\ serve     = [l \in Listener |-> "idle"]
  /\ acceptErr = [l \in Listener |-> "none"]
  /\ serveErr  = [l \in Listener |-> "none"]
  /\ lnOpen    = [l \in Listener |-> TRUE]
  /\ handle    = [c \in Conn |-> "none"]
  /\ transport = [c \in Conn |-> "up"]
  /\ muxWaits  = [c \in Conn |-> "nobody"]
  /\ ctxDone   = [c \in Conn |-> FALSE]
  /\ handlers  = [c \in Conn |-> 0]
  /\ callbacks = [c \in Conn |-> {}]
  /\ shutdown  = [s \in Stopper |-> "idle"]
  /\ waiter    = [s \in Stopper |-> "none"]
  /\ panicked  = FALSE
  /\ atShutdown = [s \in Stopper |-> {}]
  /\ interrupted = [l \in Listener |-> "no"]

-----------------------------------------------------------------------------
(* Fault: Done does not release the waiters. *)
FaultyRelease(counter, parked, woken) == waiter' = waiter

(* WaitGroup.Done that brings a counter to zero releases every parked      *)
(* waiter, which runs again only at a later step (Resume).                 *)

Release(counter, parked, woken) ==
  waiter' = [s \in Stopper |->
               IF counter = 1 /\ waiter[s] = parked THEN woken ELSE waiter[s]]

(***************************************************************************)
(* Faults: actions below as a plausible bug would have them.  No action of *)
(* Next; they show that the properties depend on the code being right.     *)
(***************************************************************************)

(* trackConn(c, false) calls Done only for a connection still in the map. *)
FaultyUntrackConnIfMapped(c) ==
  /\ handle[c] = "closing"
  /\ handle' = [handle EXCEPT ![c] = "untracked"]
  /\ conns' = conns \ {c}
  /\ connWg' = IF c \in conns THEN connWg - 1 ELSE connWg
  /\ Release(connWg, "connParked", "connWoken")
  /\ UNCHANGED <<listeners, listenerWg, doneChan, serveVars, transport,
                 ctxDone, muxWaits, handlers, callbacks, shutdown, panicked,
                 historyVars>>

(* HandleConn waits for its channel handlers before it cleans up. *)
FaultyUntrackConnAfterHandlers(c) ==
  /\ handle[c] = "closing"
  /\ handlers[c] = 0
  /\ handle' = [handle EXCEPT ![c] = "untracked"]
  /\ conns' = conns \ {c}
  /\ connWg' = connWg - 1
  /\ Release(connWg, "connParked", "connWoken")
  /\ UNCHANGED <<listeners, listenerWg, doneChan, serveVars, transport,
                 ctxDone, muxWaits, handlers, callbacks, shutdown, panicked,
                 historyVars>>

(* ConnectionCompleteCallback runs without sshConn.Wait. *)
FaultyCompleteWithoutWait(c) ==
  /\ handle[c] = "untracked"
  /\ handle' = [handle EXCEPT ![c] = "done"]
  /\ callbacks' = [callbacks EXCEPT ![c] = @ \cup {"complete"}]
  /\ ctxDone' = [ctxDone EXCEPT ![c] = TRUE]
  /\ UNCHANGED <<serverVars, serveVars, transport, muxWaits, handlers,
                 shutdownVars, historyVars>>

(* The loop over chans ends with the Context. *)
FaultyChansClosedByContext(c) ==
  /\ handle[c] = "serving"
  /\ transport[c] \in {"draining", "down"} \/ ctxDone[c]
  /\ handle' = [handle EXCEPT ![c] = "closing"]
  /\ callbacks' = [callbacks EXCEPT ![c] = @ \cup {"closing"}]
  /\ UNCHANGED <<serverVars, serveVars, transport, ctxDone, muxWaits, handlers,
                 shutdownVars, historyVars>>

(* Every Accept error is retried. *)
FaultyServeOnErrorRetries(l) ==
  /\ serve[l] = "failed"
  /\ serve' = [serve EXCEPT ![l] = "accepting"]
  /\ acceptErr' = [acceptErr EXCEPT ![l] = "none"]
  /\ UNCHANGED <<serverVars, serveErr, lnOpen, handleVars, shutdownVars,
                 historyVars>>

(* The listeners are dropped from the map and not closed. *)
FaultyStopListeningNoClose ==
  /\ doneChan' = "closed"
  /\ listeners' = {}
  /\ UNCHANGED <<lnOpen, interrupted>>

(* connWg.Wait does not wait. *)
FaultyWaitConns(s) ==
  /\ waiter[s] = "connWg"
  /\ waiter' = [waiter EXCEPT ![s] = "finished"]
  /\ UNCHANGED <<serverVars, serveVars, handleVars, shutdown, panicked,
                 historyVars>>

(* finished is sent as soon as the listeners are gone. *)
FaultyResumeListeners(s) ==
  /\ waiter[s] = "listenerWoken"
  /\ waiter' = [waiter EXCEPT ![s] = "finished"]
  /\ UNCHANGED <<serverVars, serveVars, handleVars, shutdown, panicked,
                 historyVars>>

(***************************************************************************)
(* Serve.                                                                  *)
(***************************************************************************)

ServeCall(l) ==
  /\ serve[l] = "idle"
  /\ serve' = [serve EXCEPT ![l] = "starting"]
  /\ UNCHANGED <<serverVars, acceptErr, serveErr, lnOpen, handleVars,
                 shutdownVars, historyVars>>

(* ClientAliveInterval and ClientAliveCountMax are not set together: Serve *)
(* returns before it defers l.Close.                                       *)
ServeRefused(l) ==
  /\ serve[l] = "idle"
  /\ serve' = [serve EXCEPT ![l] = "returned"]
  /\ serveErr' = [serveErr EXCEPT ![l] = "Mismatch"]
  /\ UNCHANGED <<serverVars, acceptErr, lnOpen, handleVars, shutdownVars,
                 historyVars>>

(* ensureHostSigner fails. *)
ServeNoHostKey(l) ==
  /\ serve[l] = "starting"
  /\ serve' = [serve EXCEPT ![l] = "closing"]
  /\ serveErr' = [serveErr EXCEPT ![l] = "NoHostKey"]
  /\ UNCHANGED <<serverVars, acceptErr, lnOpen, handleVars, shutdownVars,
                 historyVars>>

(* trackListener(l, true) *)
TrackListener(l) ==
  /\ serve[l] = "starting"
  /\ serve' = [serve EXCEPT ![l] = "accepting"]
  /\ doneChan' = IF listeners = {} /\ conns = {} THEN "nil" ELSE doneChan
  /\ listeners' = listeners \cup {l}
  /\ listenerWg' = listenerWg + 1
  /\ UNCHANGED <<conns, connWg, acceptErr, serveErr, lnOpen, handleVars,
                 shutdownVars, historyVars>>

(* l.Accept succeeds and the goroutine of HandleConn starts. *)
Accept(l, c) ==
  /\ serve[l] = "accepting" /\ lnOpen[l]
  /\ handle[c] = "none"
  /\ handle' = [handle EXCEPT ![c] = "accepted"]
  /\ UNCHANGED <<serverVars, serveVars, transport, ctxDone, muxWaits,
                 handlers, callbacks, shutdownVars, historyVars>>

(* l.Accept fails: always once l is closed, by chance before. *)
AcceptFails(l, kind) ==
  /\ serve[l] = "accepting"
  /\ (kind = "closed") <=> ~lnOpen[l]
  /\ serve' = [serve EXCEPT ![l] = "failed"]
  /\ acceptErr' = [acceptErr EXCEPT ![l] = kind]
  /\ UNCHANGED <<serverVars, serveErr, lnOpen, handleVars, shutdownVars,
                 historyVars>>

(* The select on getDoneChan, which creates the channel when it is nil,    *)
(* then the error's classification; a temporary error is retried.          *)
ServeOnError(l) ==
  /\ serve[l] = "failed"
  /\ doneChan' = IF doneChan = "nil" THEN "open" ELSE doneChan
  /\ acceptErr' = [acceptErr EXCEPT ![l] = "none"]
  /\ IF doneChan # "closed" /\ acceptErr[l] = "temporary"
       THEN /\ serve' = [serve EXCEPT ![l] = "accepting"]
            /\ UNCHANGED serveErr
       ELSE /\ serve' = [serve EXCEPT ![l] = "unwinding"]
            /\ serveErr' = [serveErr EXCEPT ![l] =
                 IF doneChan = "closed" THEN "ErrServerClosed" ELSE "AcceptError"]
  /\ UNCHANGED <<listeners, conns, listenerWg, connWg, lnOpen, handleVars,
                 shutdownVars, historyVars>>

(* deferred trackListener(l, false) *)
UntrackListener(l) ==
  /\ serve[l] = "unwinding"
  /\ serve' = [serve EXCEPT ![l] = "closing"]
  /\ listeners' = listeners \ {l}
  /\ listenerWg' = listenerWg - 1
  /\ Release(listenerWg, "listenerParked", "listenerWoken")
  /\ UNCHANGED <<conns, connWg, doneChan, acceptErr, serveErr, lnOpen,
                 handleVars, shutdown, panicked, historyVars>>

(* deferred l.Close, and Serve returns *)
ServeReturn(l) ==
  /\ serve[l] = "closing"
  /\ serve' = [serve EXCEPT ![l] = "returned"]
  /\ lnOpen' = [lnOpen EXCEPT ![l] = FALSE]
  /\ UNCHANGED <<serverVars, acceptErr, serveErr, handleVars, shutdownVars,
                 historyVars>>

(***************************************************************************)
(* HandleConn.                                                             *)
(***************************************************************************)

(* ConnCallback returns nil: newConn is closed and the Context, which no   *)
(* one holds, is never cancelled.                                          *)
ConnVeto(c) ==
  /\ handle[c] = "accepted"
  /\ handle' = [handle EXCEPT ![c] = "done"]
  /\ transport' = [transport EXCEPT ![c] = "down"]
  /\ UNCHANGED <<serverVars, serveVars, ctxDone, muxWaits, handlers,
                 callbacks, shutdownVars, historyVars>>

(* NewServerConn fails, in the key exchange or in authentication. *)
HandshakeFail(c) ==
  /\ handle[c] = "accepted"
  /\ handle' = [handle EXCEPT ![c] = "done"]
  /\ transport' = [transport EXCEPT ![c] = "down"]
  /\ ctxDone' = [ctxDone EXCEPT ![c] = TRUE]
  /\ callbacks' = [callbacks EXCEPT ![c] = @ \cup {"failed"}]
  /\ UNCHANGED <<serverVars, serveVars, muxWaits, handlers, shutdownVars,
                 historyVars>>

(* NewServerConn returns a connection, whose mux now runs. *)
Handshake(c) ==
  /\ handle[c] = "accepted"
  /\ handle' = [handle EXCEPT ![c] = "handshook"]
  /\ UNCHANGED <<serverVars, serveVars, transport, ctxDone, muxWaits,
                 handlers, callbacks, shutdownVars, historyVars>>

(* trackConn(sshConn, true), then the dispatch loop starts *)
TrackConn(c) ==
  /\ handle[c] = "handshook"
  /\ handle' = [handle EXCEPT ![c] = "serving"]
  /\ conns' = conns \cup {c}
  /\ connWg' = connWg + 1
  /\ UNCHANGED <<listeners, listenerWg, doneChan, serveVars, transport,
                 ctxDone, muxWaits, handlers, callbacks, shutdownVars,
                 historyVars>>

(* A channel taken from chans gets a handler goroutine.  A dead transport  *)
(* may still hold packets that the mux has not read, and chans, once       *)
(* closed, still holds the channels that the loop has not taken.           *)
Dispatch(c) ==
  /\ handle[c] = "serving"
  /\ handlers[c] < MaxHandlers
  /\ handlers' = [handlers EXCEPT ![c] = @ + 1]
  /\ UNCHANGED <<serverVars, serveVars, handle, transport, ctxDone,
                 muxWaits, callbacks, shutdownVars, historyVars>>

HandlerReturn(c) ==
  /\ handlers[c] > 0
  /\ handlers' = [handlers EXCEPT ![c] = @ - 1]
  /\ UNCHANGED <<serverVars, serveVars, handle, transport, ctxDone,
                 muxWaits, callbacks, shutdownVars, historyVars>>

(* chans is closed: the loop ends and ConnectionClosingCallback runs. *)
ChansClosed(c) ==
  /\ handle[c] = "serving"
  /\ transport[c] \in {"draining", "down"}
  /\ handle' = [handle EXCEPT ![c] = "closing"]
  /\ callbacks' = [callbacks EXCEPT ![c] = @ \cup {"closing"}]
  /\ UNCHANGED <<serverVars, serveVars, transport, ctxDone, muxWaits,
                 handlers, shutdownVars, historyVars>>

(* deferred close(keepAliveDone), KeepAlive().Close and                    *)
(* trackConn(sshConn, false)                                               *)
UntrackConn(c) ==
  /\ handle[c] = "closing"
  /\ handle' = [handle EXCEPT ![c] = "untracked"]
  /\ conns' = conns \ {c}
  /\ connWg' = connWg - 1
  /\ Release(connWg, "connParked", "connWoken")
  /\ UNCHANGED <<listeners, listenerWg, doneChan, serveVars, transport,
                 ctxDone, muxWaits, handlers, callbacks, shutdown, panicked,
                 historyVars>>

(* deferred ConnectionCompleteCallback(sshConn, sshConn.Wait()), then      *)
(* conn.Close                                                              *)
Complete(c) ==
  /\ WithComplete
  /\ handle[c] = "untracked"
  /\ transport[c] = "down"
  /\ handle' = [handle EXCEPT ![c] = "done"]
  /\ callbacks' = [callbacks EXCEPT ![c] = @ \cup {"complete"}]
  /\ ctxDone' = [ctxDone EXCEPT ![c] = TRUE]
  /\ UNCHANGED <<serverVars, serveVars, transport, muxWaits, handlers,
                 shutdownVars, historyVars>>

(* Without that callback nothing waits for the mux: HandleConn closes the  *)
(* connection and returns while the mux may still be draining.             *)
ReturnAtOnce(c) ==
  /\ ~WithComplete
  /\ handle[c] = "untracked"
  /\ handle' = [handle EXCEPT ![c] = "done"]
  /\ ctxDone' = [ctxDone EXCEPT ![c] = TRUE]
  /\ UNCHANGED <<serverVars, serveVars, transport, muxWaits, handlers, callbacks,
                 shutdownVars, historyVars>>

-----------------------------------------------------------------------------
(***************************************************************************)
(* The transport: net.Conn wrapped by serverConn, and the gossh mux.       *)
(***************************************************************************)

(* The peer goes away or a deadline passes.  serverConn cancels the        *)
(* Context for a net.Error, not for EOF.                                   *)
TransportFails(c) ==
  /\ handle[c] \notin {"none", "done"}
  /\ transport[c] = "up"
  /\ transport' = [transport EXCEPT ![c] = "dead"]
  /\ \E cancelled \in BOOLEAN :
       ctxDone' = [ctxDone EXCEPT ![c] = @ \/ cancelled]
  /\ UNCHANGED <<serverVars, serveVars, handle, muxWaits, handlers,
                 callbacks, shutdownVars, historyVars>>

(* A Read or Write finds a broken transport so, for instance that of a     *)
(* handler while the mux has not come to the EOF.                          *)
NetError(c) ==
  /\ transport[c] = "dead"
  /\ ~ctxDone[c]
  /\ ctxDone' = [ctxDone EXCEPT ![c] = TRUE]
  /\ UNCHANGED <<serverVars, serveVars, handle, transport, muxWaits, handlers,
                 callbacks, shutdownVars, historyVars>>

(* connectionKeepAlive finds that TimeIsUp and closes sshConn (see         *)
(* ConnKeepAlive for when).                                                *)
KeepAliveClose(c) ==
  /\ handle[c] \in {"serving", "closing"}
  /\ transport' = [transport EXCEPT ![c] = IF @ = "up" THEN "dead" ELSE @]
  /\ ctxDone' = [ctxDone EXCEPT ![c] = TRUE]
  /\ UNCHANGED <<serverVars, serveVars, handle, muxWaits, handlers, callbacks,
                 shutdownVars, historyVars>>

(* The mux hands on a request and finds the buffers of its channel full,   *)
(* whose requests no handler takes, or that of handleRequests, which is in *)
(* an application's RequestHandler.                                        *)
MuxBlocks(c, on) ==
  /\ handle[c] = "serving"
  /\ transport[c] \in {"up", "dead"}
  /\ muxWaits[c] = "nobody"
  /\ on = "channel" => ~ctxDone[c]
  /\ muxWaits' = [muxWaits EXCEPT ![c] = on]
  /\ UNCHANGED <<serverVars, serveVars, handle, transport, ctxDone, handlers,
                 callbacks, shutdownVars, historyVars>>

(* The handler takes a request, the RequestHandler returns. *)
RequestTaken(c) ==
  /\ muxWaits[c] # "nobody"
  /\ muxWaits' = [muxWaits EXCEPT ![c] = "nobody"]
  /\ UNCHANGED <<serverVars, serveVars, handle, transport, ctxDone, handlers,
                 callbacks, shutdownVars, historyVars>>

(* The forwarder of a channel drains its requests once the Context is      *)
(* done; nothing drains the global ones.                                   *)
Blocked(c) == muxWaits[c] = "global" \/ (muxWaits[c] = "channel" /\ ~ctxDone[c])

(* The mux loop reads an error and closes every channel and chans; then it *)
(* closes the serverConn, cancelling the Context, and unblocks Wait.       *)
MuxCloses(c) ==
  /\ handle[c] \in {"handshook", "serving", "closing", "untracked"}
  /\ transport[c] = "dead"
  /\ ~Blocked(c)
  /\ transport' = [transport EXCEPT ![c] = "draining"]
  /\ muxWaits' = [muxWaits EXCEPT ![c] = "nobody"]
  /\ UNCHANGED <<serverVars, serveVars, handle, ctxDone, handlers, callbacks,
                 shutdownVars, historyVars>>

MuxExits(c) ==
  /\ transport[c] = "draining"
  /\ transport' = [transport EXCEPT ![c] = "down"]
  /\ ctxDone' = [ctxDone EXCEPT ![c] = TRUE]
  /\ UNCHANGED <<serverVars, serveVars, handle, muxWaits, handlers,
                 callbacks, shutdownVars, historyVars>>

-----------------------------------------------------------------------------
(***************************************************************************)
(* Close and Shutdown.                                                     *)
(***************************************************************************)

(* closeListenersLocked and closeDoneChanLocked, in either order under the *)
(* same lock; ErrServerClosed is due to the Serve calls they interrupt.    *)
StopListening ==
  /\ doneChan' = "closed"
  /\ listeners' = {}
  /\ lnOpen' = [l \in Listener |-> lnOpen[l] /\ l \notin listeners]
  /\ interrupted' = [l \in Listener |->
       CASE interrupted[l] = "no" /\ serve[l] = "starting" -> "starting"
         [] interrupted[l] = "no" /\ serve[l] \in {"accepting", "failed"} -> "accepting"
         [] OTHER -> interrupted[l]]

Close ==
  /\ StopListening
  /\ transport' = [c \in Conn |->
       IF c \in conns /\ transport[c] = "up" THEN "dead" ELSE transport[c]]
  /\ ctxDone' = [c \in Conn |-> ctxDone[c] \/ c \in conns]
  /\ conns' = {}
  /\ UNCHANGED <<listenerWg, connWg, serve, acceptErr, serveErr, handle,
                 muxWaits, handlers, callbacks, shutdownVars, atShutdown>>

(* Shutdown up to its select: the listeners are closed and the goroutine   *)
(* that waits on the two WaitGroups is started.                            *)
ShutdownCall(s) ==
  /\ shutdown[s] = "idle"
  /\ StopListening
  /\ shutdown' = [shutdown EXCEPT ![s] = "waiting"]
  /\ waiter' = [waiter EXCEPT ![s] = "listenerWg"]
  /\ atShutdown' = [atShutdown EXCEPT ![s] = Tracked]
  /\ UNCHANGED <<conns, listenerWg, connWg, serve, acceptErr, serveErr,
                 handleVars, panicked>>

(* WaitGroup.Wait returns at once when the counter is zero, parks if not. *)
WaitListeners(s) ==
  /\ waiter[s] = "listenerWg"
  /\ waiter' = [waiter EXCEPT ![s] =
       IF listenerWg = 0 THEN "connWg" ELSE "listenerParked"]
  /\ UNCHANGED <<serverVars, serveVars, handleVars, shutdown, panicked,
                 historyVars>>

WaitConns(s) ==
  /\ waiter[s] = "connWg"
  /\ waiter' = [waiter EXCEPT ![s] =
       IF connWg = 0 THEN "finished" ELSE "connParked"]
  /\ UNCHANGED <<serverVars, serveVars, handleVars, shutdown, panicked,
                 historyVars>>

(* A woken waiter panics when the counter is in use again: "WaitGroup is   *)
(* reused before previous Wait has returned".  The panic is on a goroutine *)
(* of Shutdown's own and ends the process.                                 *)
Resume(s, woken, counter, next) ==
  /\ waiter[s] = woken
  /\ panicked' = (counter # 0)
  /\ waiter' = [waiter EXCEPT ![s] = next]
  /\ UNCHANGED <<serverVars, serveVars, handleVars, shutdown, historyVars>>

ResumeListeners(s) == Resume(s, "listenerWoken", listenerWg, "connWg")
ResumeConns(s)     == Resume(s, "connWoken", connWg, "finished")

(* Shutdown returns lnerr, or the error of the ctx that expired. *)
ShutdownDrained(s) ==
  /\ shutdown[s] = "waiting"
  /\ waiter[s] = "finished"
  /\ shutdown' = [shutdown EXCEPT ![s] = "drained"]
  /\ UNCHANGED <<serverVars, serveVars, handleVars, waiter, panicked,
                 historyVars>>

ShutdownExpired(s) ==
  /\ shutdown[s] = "waiting"
  /\ shutdown' = [shutdown EXCEPT ![s] = "expired"]
  /\ UNCHANGED <<serverVars, serveVars, handleVars, waiter, panicked,
                 historyVars>>

-----------------------------------------------------------------------------
(* What the server's own goroutines do, and what its callers, handlers and *)
(* peers do.                                                               *)

ServeStep(l) ==
  \/ TrackListener(l)
  \/ AcceptFails(l, "closed")
  \/ ServeOnError(l)
  \/ UntrackListener(l)
  \/ ServeReturn(l)

HandleStep(c) ==
  \/ TrackConn(c)
  \/ ChansClosed(c)
  \/ UntrackConn(c)
  \/ Complete(c)
  \/ ReturnAtOnce(c)
  \/ MuxCloses(c)
  \/ MuxExits(c)

ShutdownStep(s) ==
  \/ WaitListeners(s)
  \/ WaitConns(s)
  \/ ResumeListeners(s)
  \/ ResumeConns(s)
  \/ ShutdownDrained(s)

ListenerEnv(l) ==
  \/ ServeCall(l)
  \/ ServeRefused(l)
  \/ ServeNoHostKey(l)
  \/ \E c \in Conn : Accept(l, c)
  \/ \E kind \in {"temporary", "fatal"} : AcceptFails(l, kind)

ConnEnv(c) ==
  \/ ConnVeto(c)
  \/ HandshakeFail(c)
  \/ Handshake(c)
  \/ Dispatch(c)
  \/ HandlerReturn(c)
  \/ TransportFails(c)
  \/ NetError(c)
  \/ KeepAliveClose(c)
  \/ \E on \in {"channel", "global"} : MuxBlocks(c, on)
  \/ RequestTaken(c)

Next ==
  /\ ~panicked
  /\ \/ \E l \in Listener : ServeStep(l) \/ ListenerEnv(l)
     \/ \E c \in Conn : HandleStep(c) \/ ConnEnv(c)
     \/ \E s \in Stopper : ShutdownStep(s) \/ ShutdownCall(s) \/ ShutdownExpired(s)
     \/ Close

Spec == Init /\ [][Next]_vars

(* The Go scheduler runs every goroutine that can run: Serve, HandleConn,  *)
(* the mux and Shutdown's waiter.  Nothing makes a client connect, a peer  *)
(* go away, a handler return or take a request, a handshake on a live      *)
(* transport finish or a caller stop the server; a handshake on a dead     *)
(* transport does fail.                                                    *)
ServeRuns(l)    == ~panicked /\ ServeStep(l)
HandleRuns(c)   == ~panicked /\ HandleStep(c)
HandshakeEnds(c) == ~panicked /\ transport[c] = "dead" /\ HandshakeFail(c)
ShutdownRuns(s) == ~panicked /\ ShutdownStep(s)

ServeFair(l)    == WF_vars(ServeRuns(l))
HandleFair(c)   == WF_vars(HandleRuns(c)) /\ WF_vars(HandshakeEnds(c))
ShutdownFair(s) == WF_vars(ShutdownRuns(s))

Fairness ==
  /\ \A l \in Listener : ServeFair(l)
  /\ \A c \in Conn : HandleFair(c)
  /\ \A s \in Stopper : ShutdownFair(s)

FairSpec == Spec /\ Fairness

-----------------------------------------------------------------------------
(***************************************************************************)
(* Properties.                                                             *)
(***************************************************************************)

(* The type invariant: every server field, goroutine and history variable  *)
(* keeps its type.                                                         *)
TypeOK ==
  /\ listeners \subseteq Listener /\ conns \subseteq Conn
  /\ listenerWg \in Int /\ connWg \in Int
  /\ doneChan \in {"nil", "open", "closed"}
  /\ serve     \in [Listener -> ServePC]
  /\ acceptErr \in [Listener -> AcceptErr]
  /\ serveErr  \in [Listener -> ServeErr]
  /\ lnOpen    \in [Listener -> BOOLEAN]
  /\ handle    \in [Conn -> HandlePC]
  /\ transport \in [Conn -> Transport]
  /\ muxWaits  \in [Conn -> MuxWaits]
  /\ ctxDone   \in [Conn -> BOOLEAN]
  /\ handlers  \in [Conn -> 0..MaxHandlers]
  /\ callbacks \in [Conn -> SUBSET Callback]
  /\ shutdown  \in [Stopper -> ShutdownPC]
  /\ waiter    \in [Stopper -> WaiterPC]
  /\ panicked  \in BOOLEAN
  /\ atShutdown \in [Stopper -> SUBSET (Listener \cup Conn)]
  /\ interrupted \in [Listener -> Interrupted]

(* The WaitGroup counters count exactly the Serve and HandleConn calls     *)
(* between their two calls of trackListener / trackConn, whatever Close    *)
(* and Shutdown delete from the maps meanwhile, so no Done ever takes a    *)
(* counter below zero.                                                     *)
CountersMatch ==
  /\ listenerWg = Cardinality(TrackedListeners)
  /\ connWg = Cardinality(TrackedConns)

(* Close and Shutdown find in the maps every listener that still accepts   *)
(* and every connection whose transport is up, among those tracked; the    *)
(* maps hold no entry whose goroutine has gone.                            *)
MapsReachLive ==
  /\ listeners \subseteq TrackedListeners
  /\ conns \subseteq TrackedConns
  /\ \A l \in TrackedListeners : lnOpen[l] => l \in listeners
  /\ \A c \in TrackedConns : transport[c] = "up" => c \in conns

(* When Shutdown returns without the context's error, every Serve and      *)
(* every connection tracked at the time of the call has been untracked,    *)
(* although its goroutine waits on one WaitGroup after the other.          *)
ShutdownMeansDrained ==
  \A s \in Stopper : shutdown[s] = "drained" => atShutdown[s] \cap Tracked = {}

(* ConnectionFailedCallback excludes the other two; the complete callback  *)
(* comes after the closing one, once the mux is down, when the connection  *)
(* is neither tracked nor in the map that Close walks.                     *)
CallbackOrder ==
  \A c \in Conn :
    /\ "failed" \in callbacks[c] => callbacks[c] = {"failed"} /\ c \notin conns
    /\ "complete" \in callbacks[c] =>
         /\ "closing" \in callbacks[c]
         /\ transport[c] = "down"
         /\ c \notin conns \cup TrackedConns

(* When Shutdown returns without the context's error, every connection     *)
(* that it found has ended by itself, its closing callback called and its  *)
(* channels closed, although its handlers may still be running.            *)
DrainedIsClosed ==
  \A s \in Stopper : shutdown[s] = "drained" =>
    \A c \in Conn \cap atShutdown[s] :
      /\ "closing" \in callbacks[c]
      /\ transport[c] \in {"draining", "down"}
      /\ c \notin conns

(* Once a connection's transport fails, HandleConn returns, whatever the   *)
(* handler goroutines do: it never waits for them.  Only a mux that        *)
(* somebody keeps from reading the end holds it up, and once the Context   *)
(* is done, only a RequestHandler can.                                     *)
ConnEnds ==
  \A c \in Conn : []((handle[c] # "none" /\ transport[c] # "up") =>
                       \/ <>(handle[c] = "done" \/ panicked)
                       \/ []<>Blocked(c))

(* A Serve that was accepting when Close or Shutdown was called returns.   *)
StoppedServeReturns ==
  \A l \in Listener : (interrupted[l] = "accepting") ~> (serve[l] = "returned" \/ panicked)

(* No wakeup is lost: a Shutdown returns unless, from some time on,        *)
(* something tracked stays tracked or new things keep coming.              *)
Serving == listenerWg > 0 \/ connWg > 0
ShutdownReturns ==
  \A s \in Stopper : [](shutdown[s] = "waiting" =>
                          \/ <>(shutdown[s] # "waiting" \/ panicked)
                          \/ []<>Serving)

(* No goroutine of the server blocks for good: but for an open listener, a *)
(* live transport, requests that nobody takes and a WaitGroup in use, each *)
(* can take its next step, whatever handlers, callers and the other        *)
(* goroutines are doing; a draining mux comes down even when HandleConn    *)
(* has returned.                                                           *)
NobodyBlocks ==
  ~panicked =>
    /\ \A l \in Listener :
         serve[l] \in {"starting", "failed", "unwinding", "closing"}
           \/ (serve[l] = "accepting" /\ ~lnOpen[l])
         => ENABLED <<ServeRuns(l)>>_vars
    /\ \A c \in Conn : transport[c] # "up" =>
         /\ handle[c] = "accepted" => ENABLED <<HandshakeEnds(c)>>_vars
         /\ handle[c] \in {"handshook", "serving", "closing", "untracked"} /\ ~Blocked(c)
              => ENABLED <<HandleRuns(c)>>_vars
         /\ transport[c] = "draining" => ENABLED <<HandleRuns(c)>>_vars
    /\ \A s \in Stopper :
         waiter[s] \in {"listenerWg", "listenerWoken", "connWg", "connWoken"}
           \/ (waiter[s] = "finished" /\ shutdown[s] = "waiting")
         => ENABLED <<ShutdownRuns(s)>>_vars

-----------------------------------------------------------------------------
(***************************************************************************)
(* Server implements GracefulStop.                                         *)
(***************************************************************************)

(* Tracked once and untracked since. *)
Gone ==
  {l \in Listener : /\ serve[l] \in {"closing", "returned"}
                    /\ serveErr[l] \in {"AcceptError", "ErrServerClosed"}}
  \cup {c \in Conn : handle[c] \in {"untracked", "done"} /\ "closing" \in callbacks[c]}

GS == INSTANCE GracefulStop WITH
        Item    <- Listener \cup Conn,
        active  <- Tracked,
        gone    <- Gone,
        pending <- [s \in Stopper |-> atShutdown[s] \cap Tracked],
        result  <- shutdown

(* Shutdown does what GracefulStop promises: nothing it waits for rejoins, *)
(* and neither of its two WaitGroup waits is passed too early.             *)
ImplementsGracefulStop == GS!Spec

-----------------------------------------------------------------------------
(* The inductive invariant behind ShutdownMeansDrained: what Shutdown saw  *)
(* has been tracked and never is again, and a waiter that has passed a     *)
(* WaitGroup, or was woken by it, has no pending item of that group.       *)

WasTracked ==
  {l \in Listener : serve[l] \in {"accepting", "failed", "unwinding", "closing", "returned"}}
  \cup {c \in Conn : handle[c] \in {"serving", "closing", "untracked", "done"}}

Pending(s) == atShutdown[s] \cap Tracked

WaiterProgress(s) ==
  /\ waiter[s] \notin {"none", "listenerWg", "listenerParked"} => Pending(s) \cap Listener = {}
  /\ waiter[s] \in {"connWoken", "finished"} => Pending(s) \cap Conn = {}
  /\ shutdown[s] = "drained" => waiter[s] = "finished"

IInv ==
  /\ TypeOK
  /\ CountersMatch
  /\ \A s \in Stopper : atShutdown[s] \subseteq WasTracked /\ WaiterProgress(s)

-----------------------------------------------------------------------------
(* What a comment says and the code does not keep.                         *)

(* server.go, Shutdown: "gracefully shuts down the server without          *)
(* interrupting any active connections".                                   *)
ShutdownIsGraceful == ~panicked
=============================================================================
