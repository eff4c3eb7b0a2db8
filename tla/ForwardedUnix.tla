---------------------------- MODULE ForwardedUnix ---------------------------
(***************************************************************************)
(* Remote Unix socket forwarding (ForwardedUnixHandler in streamlocal.go). *)
(* As in ForwardedTCP one handler value serves all connections and keeps a *)
(* map of listeners under its mutex, but a forward looks for an entry      *)
(* before it listens, has a Context of its own that its accept goroutine   *)
(* cancels, deletes only its own entry, and always closes its listener.    *)
(***************************************************************************)
EXTENDS FiniteSets

CONSTANTS
  Conn,      \* The connections.
  Path,      \* The socket paths clients ask for.
  Listener,  \* What net.Listen returns, each once.
  None       \* No listener, no path, no connection.

ASSUME NoneAssumption == None \notin Conn \cup Path \cup Listener

VARIABLES
  forwards,  \* h.forwards: [Path -> Listener or None].
  lnPath,    \* [Listener -> the Path it was bound to, or None].
  lnOwner,   \* [Listener -> the Conn that asked for it, or None].
  lnOpen,    \* [Listener -> BOOLEAN].
  ctxDone,   \* [Conn -> BOOLEAN]: the connection's Context is cancelled.
  fwdDone,   \* [Listener -> BOOLEAN]: the forward's own Context is cancelled.
  req,       \* [Conn -> ReqPC]: the request being handled.
  reqPath,   \* [Conn -> the path the request is for, or None].
  reqLn,     \* [Conn -> the listener the request works on, or None].
  watcher,   \* [Listener -> WatcherPC] of the goroutine that waits.
  acceptor,  \* [Listener -> AcceptorPC] of the goroutine that accepts.
  cancelled  \* History: <<c, p>> when c was told that p is cancelled and has
             \*  not been granted it since.

lnVars  == <<lnPath, lnOwner, lnOpen>>
reqVars == <<req, reqPath, reqLn>>
goVars  == <<fwdDone, watcher, acceptor>>
vars == <<forwards, lnVars, ctxDone, reqVars, goVars, cancelled>>

ReqPC      == {"none", "checked", "listened", "closing"}
WatcherPC  == {"none", "waiting", "done"}
AcceptorPC == {"none", "accepting", "removing", "closing", "done"}

Bound(p) == \E l \in Listener : lnOpen[l] /\ lnPath[l] = p

Init ==
  /\ forwards = [p \in Path |-> None]
  /\ lnPath   = [l \in Listener |-> None]
  /\ lnOwner  = [l \in Listener |-> None]
  /\ lnOpen   = [l \in Listener |-> FALSE]
  /\ ctxDone  = [c \in Conn |-> FALSE]
  /\ fwdDone  = [l \in Listener |-> FALSE]
  /\ req      = [c \in Conn |-> "none"]
  /\ reqPath  = [c \in Conn |-> None]
  /\ reqLn    = [c \in Conn |-> None]
  /\ watcher  = [l \in Listener |-> "none"]
  /\ acceptor = [l \in Listener |-> "none"]
  /\ cancelled = {}

(* The handler of c returns. *)
Answer(c) ==
  /\ req'     = [req EXCEPT ![c] = "none"]
  /\ reqPath' = [reqPath EXCEPT ![c] = None]
  /\ reqLn'   = [reqLn EXCEPT ![c] = None]

-----------------------------------------------------------------------------
(* Faults: actions below as a plausible bug would have them; not in Next.  *)

(* The entry of the path is deleted whoever's it is, as in ForwardedTCP.   *)
FaultyAcceptorRemoves(l) ==
  /\ acceptor[l] = "removing"
  /\ forwards' = [forwards EXCEPT ![lnPath[l]] = None]
  /\ acceptor' = [acceptor EXCEPT ![l] = "closing"]
  /\ UNCHANGED <<lnVars, ctxDone, fwdDone, reqVars, watcher, cancelled>>

(* The entry is left in the map. *)
FaultyAcceptorForgets(l) ==
  /\ acceptor[l] = "removing"
  /\ acceptor' = [acceptor EXCEPT ![l] = "closing"]
  /\ UNCHANGED <<forwards, lnVars, ctxDone, fwdDone, reqVars, watcher, cancelled>>

(* The accept goroutine cancels its Context without closing the listener,  *)
(* while the other goroutine waits for the connection's Context only.      *)
FaultyAcceptorCloses(l) ==
  /\ acceptor[l] = "closing"
  /\ acceptor' = [acceptor EXCEPT ![l] = "done"]
  /\ UNCHANGED <<forwards, lnVars, ctxDone, fwdDone, reqVars, watcher, cancelled>>

(* The other goroutine waits for the connection's Context only.            *)
FaultyWatcherCloses(l) ==
  /\ watcher[l] = "waiting" /\ ctxDone[lnOwner[l]]
  /\ lnOpen' = [lnOpen EXCEPT ![l] = FALSE]
  /\ watcher' = [watcher EXCEPT ![l] = "done"]
  /\ UNCHANGED <<forwards, lnPath, lnOwner, ctxDone, fwdDone, reqVars, acceptor, cancelled>>

-----------------------------------------------------------------------------
(* streamlocal-forward: refused while the map has an entry for the path.   *)
ForwardChecks(c, p) ==
  /\ req[c] = "none" /\ forwards[p] = None
  /\ req'     = [req EXCEPT ![c] = "checked"]
  /\ reqPath' = [reqPath EXCEPT ![c] = p]
  /\ UNCHANGED <<forwards, lnVars, ctxDone, reqLn, goVars, cancelled>>

(* net.Listen succeeds, which needs a path nobody listens on ...           *)
ForwardListens(c, l) ==
  /\ req[c] = "checked" /\ ~Bound(reqPath[c])
  /\ lnPath[l] = None
  /\ lnPath'  = [lnPath EXCEPT ![l] = reqPath[c]]
  /\ lnOwner' = [lnOwner EXCEPT ![l] = c]
  /\ lnOpen'  = [lnOpen EXCEPT ![l] = TRUE]
  /\ req'     = [req EXCEPT ![c] = "listened"]
  /\ reqLn'   = [reqLn EXCEPT ![c] = l]
  /\ cancelled' = cancelled \ {<<c, reqPath[c]>>}
  /\ UNCHANGED <<forwards, ctxDone, reqPath, goVars>>

(* ... or fails: another request has bound the path since, or the socket   *)
(* or its directory cannot be made.                                        *)
ForwardFails(c) ==
  /\ req[c] = "checked"
  /\ Answer(c)
  /\ UNCHANGED <<forwards, lnVars, ctxDone, goVars, cancelled>>

(* The listener enters the map, over any entry left, and its goroutines    *)
(* start with a Context derived from the connection's.                     *)
ForwardRegisters(c) ==
  /\ req[c] = "listened"
  /\ forwards' = [forwards EXCEPT ![reqPath[c]] = reqLn[c]]
  /\ watcher'  = [watcher EXCEPT ![reqLn[c]] = "waiting"]
  /\ acceptor' = [acceptor EXCEPT ![reqLn[c]] = "accepting"]
  /\ Answer(c)
  /\ UNCHANGED <<lnVars, ctxDone, fwdDone, cancelled>>

(* cancel-streamlocal-forward: the entry is looked up ...                  *)
CancelLookup(c, p) ==
  /\ req[c] = "none"
  /\ IF forwards[p] # None
       THEN /\ req'     = [req EXCEPT ![c] = "closing"]
            /\ reqPath' = [reqPath EXCEPT ![c] = p]
            /\ reqLn'   = [reqLn EXCEPT ![c] = forwards[p]]
            /\ UNCHANGED cancelled
       ELSE /\ cancelled' = cancelled \cup {<<c, p>>}
            /\ UNCHANGED reqVars
  /\ UNCHANGED <<forwards, lnVars, ctxDone, goVars>>

(* ... and its listener closed. *)
CancelCloses(c) ==
  /\ req[c] = "closing"
  /\ lnOpen' = [lnOpen EXCEPT ![reqLn[c]] = FALSE]
  /\ cancelled' = cancelled \cup {<<c, reqPath[c]>>}
  /\ Answer(c)
  /\ UNCHANGED <<forwards, lnPath, lnOwner, ctxDone, goVars>>

(* The connection ends. *)
Disconnect(c) ==
  /\ ~ctxDone[c]
  /\ ctxDone' = [ctxDone EXCEPT ![c] = TRUE]
  /\ UNCHANGED <<forwards, lnVars, reqVars, goVars, cancelled>>

(* The forward's Context ends with the connection's or by cancel().        *)
WatcherCloses(l) ==
  /\ watcher[l] = "waiting"
  /\ ctxDone[lnOwner[l]] \/ fwdDone[l]
  /\ lnOpen' = [lnOpen EXCEPT ![l] = FALSE]
  /\ watcher' = [watcher EXCEPT ![l] = "done"]
  /\ UNCHANGED <<forwards, lnPath, lnOwner, ctxDone, fwdDone, reqVars, acceptor, cancelled>>

(* Accept fails because the listener is closed, or for want of a resource. *)
AcceptFails(l) ==
  /\ acceptor[l] = "accepting"
  /\ acceptor' = [acceptor EXCEPT ![l] = "removing"]
  /\ UNCHANGED <<forwards, lnVars, ctxDone, fwdDone, reqVars, watcher, cancelled>>

(* Under the mutex the entry is deleted if it is still this listener's.    *)
AcceptorRemoves(l) ==
  /\ acceptor[l] = "removing"
  /\ forwards' = [forwards EXCEPT ![lnPath[l]] = IF @ = l THEN None ELSE @]
  /\ acceptor' = [acceptor EXCEPT ![l] = "closing"]
  /\ UNCHANGED <<lnVars, ctxDone, fwdDone, reqVars, watcher, cancelled>>

(* The listener is closed and the deferred cancel() runs. *)
AcceptorCloses(l) ==
  /\ acceptor[l] = "closing"
  /\ lnOpen'   = [lnOpen EXCEPT ![l] = FALSE]
  /\ fwdDone'  = [fwdDone EXCEPT ![l] = TRUE]
  /\ acceptor' = [acceptor EXCEPT ![l] = "done"]
  /\ UNCHANGED <<forwards, lnPath, lnOwner, ctxDone, reqVars, watcher, cancelled>>

-----------------------------------------------------------------------------
RequestStep(c) ==
  \/ \E p \in Path : ForwardChecks(c, p) \/ CancelLookup(c, p)
  \/ \E l \in Listener : ForwardListens(c, l)
  \/ ForwardFails(c)
  \/ ForwardRegisters(c)
  \/ CancelCloses(c)

ListenerStep(l) ==
  \/ WatcherCloses(l)
  \/ AcceptFails(l)
  \/ AcceptorRemoves(l)
  \/ AcceptorCloses(l)

Next ==
  \/ \E c \in Conn : RequestStep(c) \/ Disconnect(c)
  \/ \E l \in Listener : ListenerStep(l)

Spec == Init /\ [][Next]_vars

(* Accept returns an error because the listener is closed. *)
ClosedAcceptFails(l) == ~lnOpen[l] /\ AcceptFails(l)

(* Handlers and goroutines run; Accept returns once its listener is closed.*)
(* No client need send a request or go away, and no open listener fail.    *)
RequestFair(c) == WF_vars(ForwardRegisters(c)) /\ WF_vars(CancelCloses(c))

ListenerFair(l) ==
  /\ WF_vars(WatcherCloses(l)) /\ WF_vars(ClosedAcceptFails(l))
  /\ WF_vars(AcceptorRemoves(l)) /\ WF_vars(AcceptorCloses(l))

Fairness == /\ \A c \in Conn : RequestFair(c)
            /\ \A l \in Listener : ListenerFair(l)

FairSpec == Spec /\ Fairness

-----------------------------------------------------------------------------
(* The type invariant: every field in its range, a request with the path   *)
(* and the listener its stage needs, and a path and an owner for every     *)
(* listener that was opened or whose goroutines run.                       *)
TypeOK ==
  /\ forwards \in [Path -> Listener \cup {None}]
  /\ lnPath   \in [Listener -> Path \cup {None}]
  /\ lnOwner  \in [Listener -> Conn \cup {None}]
  /\ lnOpen   \in [Listener -> BOOLEAN]
  /\ ctxDone  \in [Conn -> BOOLEAN]
  /\ fwdDone  \in [Listener -> BOOLEAN]
  /\ req      \in [Conn -> ReqPC]
  /\ reqPath  \in [Conn -> Path \cup {None}]
  /\ reqLn    \in [Conn -> Listener \cup {None}]
  /\ watcher  \in [Listener -> WatcherPC]
  /\ acceptor \in [Listener -> AcceptorPC]
  /\ cancelled \subseteq Conn \X Path
  /\ \A c \in Conn : req[c] # "none" => reqPath[c] \in Path
  /\ \A c \in Conn : req[c] \in {"listened", "closing"} => reqLn[c] \in Listener
  /\ \A l \in Listener : lnOpen[l] \/ watcher[l] # "none" \/ acceptor[l] # "none"
                           => lnPath[l] \in Path /\ lnOwner[l] \in Conn

(* No two listeners are open on one path. *)
OnePerPath ==
  \A k, l \in Listener : lnOpen[k] /\ lnOpen[l] /\ lnPath[k] = lnPath[l] => k = l

(* A listener between net.Listen and the map is open, its goroutines have  *)
(* not started, it belongs to one request, and its path is granted anew.   *)
FreshListeners ==
  \A c \in Conn : req[c] = "listened" =>
    /\ lnOpen[reqLn[c]] /\ lnPath[reqLn[c]] = reqPath[c] /\ lnOwner[reqLn[c]] = c
    /\ acceptor[reqLn[c]] = "none" /\ watcher[reqLn[c]] = "none"
    /\ <<c, reqPath[c]>> \notin cancelled
    /\ \A d \in Conn : req[d] \in {"listened", "closing"} /\ reqLn[d] = reqLn[c] => c = d

(* A listener nobody opened is nowhere else. *)
UnusedListeners ==
  \A l \in Listener : lnPath[l] = None =>
    acceptor[l] = "none" /\ \A c \in Conn : req[c] \in {"listened", "closing"} => reqLn[c] # l

(* While a forward accepts, a cancel can find it: an overlapping forward,  *)
(* cancel or clean-up of the same path never removes or hides its entry.   *)
OpenIsRegistered ==
  \A l \in Listener : lnOpen[l] /\ acceptor[l] = "accepting" => forwards[lnPath[l]] = l

(* The map holds a listener only under its own path and only while its     *)
(* accept goroutine will still remove it: no path stays refused for ever.  *)
NoStaleEntry ==
  \A p \in Path : forwards[p] # None =>
    lnPath[forwards[p]] = p /\ acceptor[forwards[p]] \in {"accepting", "removing"}

(* A client that was told its path is cancelled has no forward accepting   *)
(* there, though lookup and close are two steps.                           *)
CancelFreesPath ==
  \A l \in Listener : lnOpen[l] /\ acceptor[l] = "accepting" =>
    <<lnOwner[l], lnPath[l]>> \notin cancelled

(* What a cancel is about to close is the only forward its client can have *)
(* on that path: its requests are handled one at a time.                   *)
CancelTargets ==
  \A c \in Conn, l \in Listener :
    req[c] = "closing" /\ lnOpen[l] /\ acceptor[l] = "accepting"
      /\ lnOwner[l] = c /\ lnPath[l] = reqPath[c] => reqLn[c] = l

(* Everything OpenIsRegistered, NoStaleEntry and CancelFreesPath rest on.  *)
IInv ==
  /\ TypeOK /\ OnePerPath /\ FreshListeners /\ UnusedListeners
  /\ OpenIsRegistered /\ NoStaleEntry /\ CancelTargets /\ CancelFreesPath

(* A forward whose connection is gone, or whose accept goroutine gave up   *)
(* on a failing listener, leaves nothing: its listener gets closed, its    *)
(* entry removed and both goroutines end.                                  *)
ForwardEnds ==
  \A l \in Listener :
    (acceptor[l] = "accepting" /\ ctxDone[lnOwner[l]]) \/ acceptor[l] = "removing"
      ~> /\ ~lnOpen[l] /\ watcher[l] = "done" /\ acceptor[l] = "done"
         /\ \A p \in Path : forwards[p] # l

(* No handler and no goroutine waits for another, but for what is sure to  *)
(* come: the accept goroutine for a listener that is still open and whose  *)
(* other goroutine will close it, and that one for a connection that lives *)
(* and an accept goroutine that has not returned.                          *)
NobodyBlocks ==
  /\ \A c \in Conn :
       /\ req[c] = "listened" => ENABLED <<ForwardRegisters(c)>>_vars
       /\ req[c] = "closing" => ENABLED <<CancelCloses(c)>>_vars
  /\ \A l \in Listener :
       /\ watcher[l] = "waiting" =>
            \/ ENABLED <<WatcherCloses(l)>>_vars
            \/ ~ctxDone[lnOwner[l]] /\ ~fwdDone[l] /\ acceptor[l] # "done"
       /\ acceptor[l] = "accepting" =>
            \/ ENABLED <<ClosedAcceptFails(l)>>_vars
            \/ lnOpen[l] /\ watcher[l] = "waiting"
       /\ acceptor[l] = "removing" => ENABLED <<AcceptorRemoves(l)>>_vars
       /\ acceptor[l] = "closing" => ENABLED <<AcceptorCloses(l)>>_vars
=============================================================================
