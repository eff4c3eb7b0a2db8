----------------------------- MODULE Forwarding -----------------------------
(***************************************************************************)
(* Both remote forwarding handlers in one server.  They keep separate maps *)
(* and listeners, but a connection has one Context, whose end stops the    *)
(* forwards of both, and its global requests are handled one at a time by  *)
(* one goroutine (handleRequests in server.go), whichever handler they are *)
(* for.  The variables of ForwardedUnix keep their names here, those of    *)
(* ForwardedTCP take the prefix tcp; ctxDone belongs to both.              *)
(***************************************************************************)
EXTENDS ForwardedUnix

CONSTANT Addr  \* The addresses clients ask for.

ASSUME AddrAssumption == None \notin Addr

VARIABLES tcpForwards, tcpAddr, tcpOwner, tcpOpen, tcpReq, tcpReqLn,
          tcpWatcher, tcpTarget, tcpAcceptor, tcpCancelled, tcpDisturbed

TCP == INSTANCE ForwardedTCP WITH
         forwards <- tcpForwards, lnAddr <- tcpAddr, lnOwner <- tcpOwner,
         lnOpen <- tcpOpen, req <- tcpReq, reqLn <- tcpReqLn,
         watcher <- tcpWatcher, target <- tcpTarget, acceptor <- tcpAcceptor,
         cancelled <- tcpCancelled, disturbed <- tcpDisturbed

unixOwn == <<forwards, lnVars, reqVars, goVars, cancelled>>
tcpOwn  == <<tcpForwards, tcpAddr, tcpOwner, tcpOpen, tcpReq, tcpReqLn,
             tcpWatcher, tcpTarget, tcpAcceptor, tcpCancelled, tcpDisturbed>>
fwdVars == <<unixOwn, ctxDone, tcpOwn>>

FwdInit == Init /\ TCP!Init

(* A request is handled while no other of its connection is. *)
UnixRequest(c) ==
  /\ tcpReq[c] = "none"
  /\ RequestStep(c)
  /\ UNCHANGED tcpOwn

TCPRequest(c) ==
  /\ req[c] = "none"
  /\ \/ TCP!RequestStep(c)
     \/ \E a \in Addr : TCP!CancelLookup(c, a) \/ \E l \in Listener : TCP!ForwardListen(c, a, l)
  /\ UNCHANGED unixOwn

UnixGoroutine(l) == ListenerStep(l) /\ UNCHANGED tcpOwn

TCPGoroutine(l) == (TCP!ListenerStep(l) \/ TCP!AcceptFails(l)) /\ UNCHANGED unixOwn

(* One Context, which both handlers' goroutines wait for. *)
ConnEnds(c) == Disconnect(c) /\ UNCHANGED tcpOwn

FwdNext ==
  \/ \E c \in Conn : UnixRequest(c) \/ TCPRequest(c) \/ ConnEnds(c)
  \/ \E l \in Listener : UnixGoroutine(l) \/ TCPGoroutine(l)

FwdSpec == FwdInit /\ [][FwdNext]_fwdVars

FwdFairSpec == FwdSpec /\ Fairness /\ TCP!Fairness

-----------------------------------------------------------------------------
(* See ForwardedTCP. *)
TCPEntriesExact == TCP!EntriesExact
TCPEndsWithConn == TCP!EndsWithConn

(* No handler and no goroutine of either kind waits for another, but for   *)
(* an open listener, a Context that lives and an accept goroutine.         *)
NoForwardBlocks == NobodyBlocks /\ TCP!NobodyBlocks
=============================================================================
