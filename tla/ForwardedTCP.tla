---------------------------- MODULE ForwardedTCP ----------------------------
(***************************************************************************)
(* Remote TCP forwarding (ForwardedTCPHandler in tcpip.go): one handler    *)
(* value, shared by all connections of a server, keeps a map from address  *)
(* to listener under its mutex.  Every forward starts two goroutines, one  *)
(* that waits for the connection's Context and one that accepts.  Requests *)
(* of one connection are handled one at a time, those of several           *)
(* connections concurrently.  What an accepted connection does afterwards  *)
(* (OpenChannel, bicopy) does not touch this state.                        *)
(***************************************************************************)
EXTENDS FiniteSets

CONSTANTS
  Conn,      \* The connections.
  Addr,      \* The addresses clients ask for, after resolving port 0.
  Listener,  \* What net.Listen returns, each once.
  None       \* No listener, no address, no connection.

VARIABLES
  forwards,  \* h.forwards: [Addr -> Listener or None].
  lnAddr,    \* [Listener -> the Addr it was bound to, or None].
  lnOwner,   \* [Listener -> the Conn that asked for it, or None].
  lnOpen,    \* [Listener -> BOOLEAN].
  ctxDone,   \* [Conn -> BOOLEAN]: the Context is cancelled.
  req,       \* [Conn -> ReqPC]: the request being handled.
  reqLn,     \* [Conn -> the listener the request works on, or None].
  watcher,   \* [Listener -> WatcherPC] of the Context goroutine.
  target,    \* [Listener -> what its watcher found in the map, or None].
  acceptor,  \* [Listener -> AcceptorPC] of the accept goroutine.
  cancelled, \* History: <<c, a>> when c was told that a is cancelled and has
             \*  not asked for it since.
  disturbed  \* History: addresses bound twice or whose Accept failed on an
             \*  open listener.

lnVars  == <<lnAddr, lnOwner, lnOpen>>
reqVars == <<req, reqLn>>
goVars  == <<watcher, target, acceptor>>
vars == <<forwards, lnVars, ctxDone, reqVars, goVars, cancelled, disturbed>>

ReqPC      == {"none", "listened", "closing"}
WatcherPC  == {"none", "waiting", "closing", "done"}
AcceptorPC == {"none", "accepting", "removing", "done"}

Bound(a) == \E l \in Listener : lnOpen[l] /\ lnAddr[l] = a

Init ==
  /\ forwards = [a \in Addr |-> None]
  /\ lnAddr   = [l \in Listener |-> None]
  /\ lnOwner  = [l \in Listener |-> None]
  /\ lnOpen   = [l \in Listener |-> FALSE]
  /\ ctxDone  = [c \in Conn |-> FALSE]
  /\ req      = [c \in Conn |-> "none"]
  /\ reqLn    = [c \in Conn |-> None]
  /\ watcher  = [l \in Listener |-> "none"]
  /\ target   = [l \in Listener |-> None]
  /\ acceptor = [l \in Listener |-> "none"]
  /\ cancelled = {} /\ disturbed = {}

-----------------------------------------------------------------------------
(* Faults: actions below as a plausible bug would have them; not in Next.  *)

(* The Context goroutine looks for its listener in the map and leaves it   *)
(* at that.                                                                *)
FaultyWatcherCloses(l) ==
  /\ watcher[l] = "closing"
  /\ watcher' = [watcher EXCEPT ![l] = "done"]
  /\ UNCHANGED <<forwards, lnVars, ctxDone, reqVars, target, acceptor, cancelled, disturbed>>

(* The accept goroutine leaves its entry behind. *)
FaultyAcceptorRemoves(l) ==
  /\ acceptor[l] = "removing"
  /\ acceptor' = [acceptor EXCEPT ![l] = "done"]
  /\ UNCHANGED <<forwards, lnVars, ctxDone, reqVars, watcher, target, cancelled, disturbed>>

-----------------------------------------------------------------------------
(* tcpip-forward: net.Listen succeeds, which needs a free address ...      *)
ForwardListen(c, a, l) ==
  /\ req[c] = "none"
  /\ lnAddr[l] = None /\ ~Bound(a)
  /\ lnAddr'  = [lnAddr EXCEPT ![l] = a]
  /\ lnOwner' = [lnOwner EXCEPT ![l] = c]
  /\ lnOpen'  = [lnOpen EXCEPT ![l] = TRUE]
  /\ req'     = [req EXCEPT ![c] = "listened"]
  /\ reqLn'   = [reqLn EXCEPT ![c] = l]
  /\ cancelled' = cancelled \ {<<c, a>>}
  /\ disturbed' = IF \E k \in Listener : lnAddr[k] = a THEN disturbed \cup {a} ELSE disturbed
  /\ UNCHANGED <<forwards, ctxDone, goVars>>

(* ... then the listener enters the map, over any entry that is left, and  *)
(* its two goroutines start.                                               *)
ForwardRegister(c) ==
  /\ req[c] = "listened"
  /\ forwards' = [forwards EXCEPT ![lnAddr[reqLn[c]]] = reqLn[c]]
  /\ watcher'  = [watcher EXCEPT ![reqLn[c]] = "waiting"]
  /\ acceptor' = [acceptor EXCEPT ![reqLn[c]] = "accepting"]
  /\ req'   = [req EXCEPT ![c] = "none"]
  /\ reqLn' = [reqLn EXCEPT ![c] = None]
  /\ UNCHANGED <<lnVars, ctxDone, target, cancelled, disturbed>>

(* cancel-tcpip-forward: the entry is looked up and its listener closed;   *)
(* without an entry the request succeeds at once.                          *)
CancelLookup(c, a) ==
  /\ req[c] = "none"
  /\ IF forwards[a] # None
       THEN /\ req' = [req EXCEPT ![c] = "closing"]
            /\ reqLn' = [reqLn EXCEPT ![c] = forwards[a]]
            /\ UNCHANGED cancelled
       ELSE /\ cancelled' = cancelled \cup {<<c, a>>}
            /\ UNCHANGED reqVars
  /\ UNCHANGED <<forwards, lnVars, ctxDone, goVars, disturbed>>

CancelClose(c) ==
  /\ req[c] = "closing"
  /\ lnOpen' = [lnOpen EXCEPT ![reqLn[c]] = FALSE]
  /\ cancelled' = cancelled \cup {<<c, lnAddr[reqLn[c]]>>}
  /\ req'   = [req EXCEPT ![c] = "none"]
  /\ reqLn' = [reqLn EXCEPT ![c] = None]
  /\ UNCHANGED <<forwards, lnAddr, lnOwner, ctxDone, goVars, disturbed>>

(* The connection ends. *)
Disconnect(c) ==
  /\ ~ctxDone[c]
  /\ ctxDone' = [ctxDone EXCEPT ![c] = TRUE]
  /\ UNCHANGED <<forwards, lnVars, reqVars, goVars, cancelled, disturbed>>

(* The goroutine that waits for the Context closes whatever listener the   *)
(* map then holds for its address.                                         *)
WatcherLooksUp(l) ==
  /\ watcher[l] = "waiting" /\ ctxDone[lnOwner[l]]
  /\ target' = [target EXCEPT ![l] = forwards[lnAddr[l]]]
  /\ watcher' = [watcher EXCEPT ![l] =
       IF forwards[lnAddr[l]] = None THEN "done" ELSE "closing"]
  /\ UNCHANGED <<forwards, lnVars, ctxDone, reqVars, acceptor, cancelled, disturbed>>

WatcherCloses(l) ==
  /\ watcher[l] = "closing"
  /\ lnOpen' = [lnOpen EXCEPT ![target[l]] = FALSE]
  /\ watcher' = [watcher EXCEPT ![l] = "done"]
  /\ UNCHANGED <<forwards, lnAddr, lnOwner, ctxDone, reqVars, target, acceptor,
                 cancelled, disturbed>>

(* Accept fails because the listener is closed, or for want of a resource. *)
AcceptFails(l) ==
  /\ acceptor[l] = "accepting"
  /\ acceptor' = [acceptor EXCEPT ![l] = "removing"]
  /\ disturbed' = IF lnOpen[l] THEN disturbed \cup {lnAddr[l]} ELSE disturbed
  /\ UNCHANGED <<forwards, lnVars, ctxDone, reqVars, watcher, target, cancelled>>

(* The accept goroutine deletes the entry of its address, whoever's it is, *)
(* and does not close its listener.                                        *)
AcceptorRemoves(l) ==
  /\ acceptor[l] = "removing"
  /\ forwards' = [forwards EXCEPT ![lnAddr[l]] = None]
  /\ acceptor' = [acceptor EXCEPT ![l] = "done"]
  /\ UNCHANGED <<lnVars, ctxDone, reqVars, watcher, target, cancelled, disturbed>>

-----------------------------------------------------------------------------
RequestStep(c) == ForwardRegister(c) \/ CancelClose(c)

ListenerStep(l) ==
  \/ WatcherLooksUp(l)
  \/ WatcherCloses(l)
  \/ AcceptorRemoves(l)

Next ==
  \/ \E c \in Conn, a \in Addr : CancelLookup(c, a) \/ \E l \in Listener : ForwardListen(c, a, l)
  \/ \E c \in Conn : RequestStep(c) \/ Disconnect(c)
  \/ \E l \in Listener : ListenerStep(l) \/ AcceptFails(l)

Spec == Init /\ [][Next]_vars

(* Accept returns an error because the listener is closed. *)
ClosedAcceptFails(l) == ~lnOpen[l] /\ AcceptFails(l)

(* Handlers and goroutines run; Accept returns once its listener is closed.*)
(* No client need send a request or go away.                               *)
RequestFair(c) == WF_vars(RequestStep(c))

ListenerFair(l) ==
  /\ WF_vars(WatcherLooksUp(l)) /\ WF_vars(WatcherCloses(l))
  /\ WF_vars(ClosedAcceptFails(l)) /\ WF_vars(AcceptorRemoves(l))

Fairness == /\ \A c \in Conn : RequestFair(c)
            /\ \A l \in Listener : ListenerFair(l)

FairSpec == Spec /\ Fairness

-----------------------------------------------------------------------------
(* The type invariant. *)
TypeOK ==
  /\ forwards \in [Addr -> Listener \cup {None}]
  /\ lnAddr   \in [Listener -> Addr \cup {None}]
  /\ lnOwner  \in [Listener -> Conn \cup {None}]
  /\ lnOpen   \in [Listener -> BOOLEAN]
  /\ ctxDone  \in [Conn -> BOOLEAN]
  /\ req      \in [Conn -> ReqPC]
  /\ reqLn    \in [Conn -> Listener \cup {None}]
  /\ watcher  \in [Listener -> WatcherPC]
  /\ target   \in [Listener -> Listener \cup {None}]
  /\ acceptor \in [Listener -> AcceptorPC]
  /\ \A c \in Conn : req[c] = "none" <=> reqLn[c] = None
  /\ \A l \in Listener : watcher[l] = "closing" => target[l] # None
  /\ cancelled \subseteq Conn \X Addr /\ disturbed \subseteq Addr

(* The map holds a listener only under its own address and only while its  *)
(* accept goroutine will still remove it: no entry is left behind, even    *)
(* when a new forward overwrites an old one or is deleted in its place.    *)
NoStaleEntry ==
  \A a \in Addr : forwards[a] # None =>
    lnAddr[forwards[a]] = a /\ acceptor[forwards[a]] \in {"accepting", "removing"}

(* What the map loses is lost to a second forward of the address or to an  *)
(* Accept that failed on an open listener: an undisturbed forward that     *)
(* accepts is the one its address is registered for, so a cancel finds it, *)
(* and nobody was told that it is cancelled.                               *)
UndisturbedIsRegistered ==
  \A l \in Listener :
    lnOpen[l] /\ acceptor[l] = "accepting" /\ lnAddr[l] \notin disturbed =>
      forwards[lnAddr[l]] = l /\ <<lnOwner[l], lnAddr[l]>> \notin cancelled

EntriesExact == NoStaleEntry /\ UndisturbedIsRegistered

(* A listener whose address is bound only once, and that never fails,      *)
(* is closed after its connection's Context ends, whenever the request     *)
(* that opened it finishes.                                                *)
EndsWithConn ==
  \A l \in Listener, c \in Conn :
    lnOpen[l] /\ lnOwner[l] = c /\ ctxDone[c] ~> ~lnOpen[l] \/ lnAddr[l] \in disturbed

(* No handler and no goroutine waits for another: one that has a step to   *)
(* take can take it, but for a Context that lives and an open listener.    *)
NobodyBlocks ==
  /\ \A c \in Conn : req[c] # "none" => ENABLED <<RequestStep(c)>>_vars
  /\ \A l \in Listener :
       /\ watcher[l] = "waiting" /\ ctxDone[lnOwner[l]] => ENABLED <<WatcherLooksUp(l)>>_vars
       /\ watcher[l] = "closing" => ENABLED <<WatcherCloses(l)>>_vars
       /\ acceptor[l] = "accepting" /\ ~lnOpen[l] => ENABLED <<ClosedAcceptFails(l)>>_vars
       /\ acceptor[l] = "removing" => ENABLED <<AcceptorRemoves(l)>>_vars

(* Doc (tcpip_test.go, TestReverseTCPForwardingWorks): "Close the listener *)
(* and make sure that the port is no longer in use": no forward of the     *)
(* connection that cancelled an address still accepts on it.               *)
CancelFreesPort ==
  \A l \in Listener : lnOpen[l] /\ acceptor[l] = "accepting" =>
    <<lnOwner[l], lnAddr[l]>> \notin cancelled
=============================================================================
