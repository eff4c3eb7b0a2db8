-------------------------- MODULE ForwardingProofs --------------------------
(***************************************************************************)
(* Remote forwarding with both handlers on the same connections, for any   *)
(* connections, paths, addresses and listeners: each handler keeps its own *)
(* specification, the entries of the TCP map are exact but for disturbed   *)
(* addresses, and no forward of either kind outlives its connection.       *)
(***************************************************************************)
EXTENDS Forwarding, ForwardedUnixProofs

(* Whatever a request or a goroutine works on has an address. *)
InUseHasAddr ==
  /\ \A c \in Conn : tcpReq[c] # "none" => tcpAddr[tcpReqLn[c]] \in Addr
  /\ \A l \in Listener : tcpWatcher[l] # "none" \/ tcpAcceptor[l] # "none" => tcpAddr[l] \in Addr

(* A listener nobody opened runs no goroutine and is closed. *)
UnusedAreIdle ==
  \A l \in Listener : tcpAddr[l] = None =>
    ~tcpOpen[l] /\ tcpWatcher[l] = "none" /\ tcpAcceptor[l] = "none"

(* An undisturbed address was bound once. *)
BoundOnce ==
  \A k, l \in Listener :
    tcpAddr[k] = tcpAddr[l] /\ tcpAddr[l] \notin tcpDisturbed => k = l \/ tcpAddr[l] = None

(* A listener between net.Listen and the map belongs to the request, has   *)
(* no goroutines yet, and its address is granted anew.                     *)
FreshListens ==
  \A c \in Conn : tcpReq[c] = "listened" =>
    /\ tcpOwner[tcpReqLn[c]] = c
    /\ tcpWatcher[tcpReqLn[c]] = "none" /\ tcpAcceptor[tcpReqLn[c]] = "none"
    /\ <<c, tcpAddr[tcpReqLn[c]]>> \notin tcpCancelled

(* An open listener of an undisturbed address is about to be registered,   *)
(* or accepts, with a goroutine that will close it and no other.           *)
OpenIsServed ==
  \A l \in Listener : tcpOpen[l] /\ tcpAddr[l] \notin tcpDisturbed =>
    \/ \E c \in Conn : tcpReq[c] = "listened" /\ tcpReqLn[c] = l
    \/ /\ tcpAcceptor[l] = "accepting"
       /\ tcpWatcher[l] = "waiting" \/ (tcpWatcher[l] = "closing" /\ tcpTarget[l] = l)

TCPInv ==
  /\ TCP!TypeOK /\ InUseHasAddr /\ UnusedAreIdle /\ BoundOnce /\ FreshListens
  /\ TCP!NoStaleEntry /\ TCP!UndisturbedIsRegistered /\ OpenIsServed

Nones == None \notin Conn \cup Addr \cup Listener

LEMMA NonesHold == Nones
BY NoneAssumption, AddrAssumption DEF Nones

LEMMA TCPInitHolds == TCP!Init => TCPInv
BY NonesHold DEF Nones, TCP!Init, TCPInv, TCP!TypeOK, InUseHasAddr, UnusedAreIdle, BoundOnce,
  FreshListens, TCP!NoStaleEntry, TCP!UndisturbedIsRegistered, OpenIsServed, TCP!ReqPC,
  TCP!WatcherPC, TCP!AcceptorPC

-----------------------------------------------------------------------------
(* Every step of the TCP handler keeps TCPInv. *)

LEMMA ListenKeeps ==
  ASSUME TCPInv, NEW c \in Conn, NEW a \in Addr, NEW l \in Listener, TCP!ForwardListen(c, a, l)
  PROVE  TCPInv'
<1> USE NonesHold DEF Nones, TCPInv, TCP!TypeOK, TCP!ForwardListen, TCP!goVars
<1>1. TCP!TypeOK'  BY DEF TCP!ReqPC
<1>2. InUseHasAddr' /\ UnusedAreIdle'  BY DEF InUseHasAddr, UnusedAreIdle
<1>3. BoundOnce'  BY DEF BoundOnce
<1>4. FreshListens'  BY DEF FreshListens, InUseHasAddr, UnusedAreIdle
<1>5. TCP!NoStaleEntry'  BY DEF TCP!NoStaleEntry, UnusedAreIdle
<1>6. TCP!UndisturbedIsRegistered'  BY DEF TCP!UndisturbedIsRegistered, UnusedAreIdle
<1>7. OpenIsServed'  BY DEF OpenIsServed
<1>8. QED  BY <1>1, <1>2, <1>3, <1>4, <1>5, <1>6, <1>7

LEMMA RegisterKeeps ==
  ASSUME TCPInv, NEW c \in Conn, TCP!ForwardRegister(c)
  PROVE  TCPInv'
<1> USE NonesHold DEF Nones, TCPInv, TCP!TypeOK, TCP!ForwardRegister, TCP!lnVars
<1>1. tcpReqLn[c] \in Listener /\ tcpAddr[tcpReqLn[c]] \in Addr  BY DEF InUseHasAddr
<1>2. TCP!TypeOK'  BY <1>1 DEF TCP!ReqPC, TCP!WatcherPC, TCP!AcceptorPC
<1>3. InUseHasAddr' /\ UnusedAreIdle'  BY <1>1 DEF InUseHasAddr, UnusedAreIdle
<1>4. BoundOnce'  BY DEF BoundOnce
<1>5. FreshListens'
  <2> SUFFICES ASSUME NEW d \in Conn, tcpReq'[d] = "listened"
               PROVE  /\ tcpOwner'[tcpReqLn'[d]] = d
                      /\ tcpWatcher'[tcpReqLn'[d]] = "none" /\ tcpAcceptor'[tcpReqLn'[d]] = "none"
                      /\ <<d, tcpAddr'[tcpReqLn'[d]]>> \notin tcpCancelled'
    BY DEF FreshListens
  <2>1. d # c /\ tcpReq[d] = "listened" /\ tcpReqLn'[d] = tcpReqLn[d]  OBVIOUS
  <2>2. tcpOwner[tcpReqLn[d]] = d /\ tcpOwner[tcpReqLn[c]] = c  BY <2>1 DEF FreshListens
  <2>3. QED  BY <1>1, <2>1, <2>2 DEF FreshListens
<1>6. TCP!NoStaleEntry'  BY <1>1 DEF TCP!NoStaleEntry
<1>7. TCP!UndisturbedIsRegistered'
  <2> SUFFICES ASSUME NEW l \in Listener, tcpOpen[l], tcpAcceptor'[l] = "accepting",
                      tcpAddr[l] \notin tcpDisturbed
               PROVE  /\ tcpForwards'[tcpAddr[l]] = l
                      /\ <<tcpOwner[l], tcpAddr[l]>> \notin tcpCancelled
    BY DEF TCP!UndisturbedIsRegistered
  <2>1. CASE l = tcpReqLn[c]  BY <1>1, <2>1 DEF FreshListens
  <2>2. CASE l # tcpReqLn[c]
    <3>1. tcpAcceptor[l] = "accepting" /\ tcpAddr[l] \in Addr  BY <1>1, <2>2 DEF InUseHasAddr
    <3>2. tcpAddr[l] # tcpAddr[tcpReqLn[c]]  BY <1>1, <2>2, <3>1 DEF BoundOnce
    <3>3. QED  BY <1>1, <3>1, <3>2 DEF TCP!UndisturbedIsRegistered
  <2>3. QED  BY <2>1, <2>2
<1>8. OpenIsServed'  BY <1>1 DEF OpenIsServed
<1>9. QED  BY <1>2, <1>3, <1>4, <1>5, <1>6, <1>7, <1>8

LEMMA LookupKeeps ==
  ASSUME TCPInv, NEW c \in Conn, NEW a \in Addr, TCP!CancelLookup(c, a)
  PROVE  TCPInv'
<1> USE NonesHold DEF Nones, TCPInv, TCP!TypeOK, TCP!CancelLookup, TCP!lnVars, TCP!reqVars, TCP!goVars
<1>1. TCP!TypeOK'  BY DEF TCP!ReqPC
<1>2. InUseHasAddr' /\ UnusedAreIdle'  BY DEF InUseHasAddr, UnusedAreIdle, TCP!NoStaleEntry
<1>3. BoundOnce'  BY DEF BoundOnce
<1>4. FreshListens'  BY DEF FreshListens
<1>5. TCP!NoStaleEntry'  BY DEF TCP!NoStaleEntry
<1>6. TCP!UndisturbedIsRegistered'  BY DEF TCP!UndisturbedIsRegistered
<1>7. OpenIsServed'  BY DEF OpenIsServed
<1>8. QED  BY <1>1, <1>2, <1>3, <1>4, <1>5, <1>6, <1>7

LEMMA CloseKeeps ==
  ASSUME TCPInv, NEW c \in Conn, TCP!CancelClose(c)
  PROVE  TCPInv'
<1> USE NonesHold DEF Nones, TCPInv, TCP!TypeOK, TCP!CancelClose, TCP!goVars
<1>1. tcpReqLn[c] \in Listener /\ tcpAddr[tcpReqLn[c]] \in Addr  BY DEF InUseHasAddr
<1>2. TCP!TypeOK'  BY <1>1 DEF TCP!ReqPC
<1>3. InUseHasAddr' /\ UnusedAreIdle'  BY DEF InUseHasAddr, UnusedAreIdle
<1>4. BoundOnce'  BY DEF BoundOnce
<1>5. FreshListens'  BY <1>1 DEF FreshListens
<1>6. TCP!NoStaleEntry'  BY DEF TCP!NoStaleEntry
<1>7. TCP!UndisturbedIsRegistered'
  BY <1>1 DEF TCP!UndisturbedIsRegistered, BoundOnce
<1>8. OpenIsServed'  BY <1>1 DEF OpenIsServed
<1>9. QED  BY <1>2, <1>3, <1>4, <1>5, <1>6, <1>7, <1>8

LEMMA GoroutineKeeps ==
  ASSUME TCPInv, NEW l \in Listener, TCP!ListenerStep(l) \/ TCP!AcceptFails(l)
  PROVE  TCPInv'
<1> USE NonesHold DEF Nones, TCPInv, TCP!TypeOK, TCP!lnVars, TCP!reqVars
<1>1. CASE TCP!WatcherLooksUp(l)
  <2> USE <1>1 DEF TCP!WatcherLooksUp
  <2>1. tcpAddr[l] \in Addr /\ tcpForwards[tcpAddr[l]] \in Listener \cup {None}
    BY DEF InUseHasAddr
  <2>2. TCP!TypeOK'  BY <2>1 DEF TCP!WatcherPC
  <2>3. InUseHasAddr' /\ UnusedAreIdle' /\ BoundOnce'
    BY <2>1 DEF InUseHasAddr, UnusedAreIdle, BoundOnce
  <2>4. FreshListens'  BY DEF FreshListens
  <2>5. TCP!NoStaleEntry' /\ TCP!UndisturbedIsRegistered'
    BY DEF TCP!NoStaleEntry, TCP!UndisturbedIsRegistered
  <2>6. OpenIsServed'
    <3> SUFFICES ASSUME NEW k \in Listener, tcpOpen[k], tcpAddr[k] \notin tcpDisturbed
                 PROVE  \/ \E c \in Conn : tcpReq[c] = "listened" /\ tcpReqLn[c] = k
                        \/ /\ tcpAcceptor[k] = "accepting"
                           /\ \/ tcpWatcher'[k] = "waiting"
                              \/ tcpWatcher'[k] = "closing" /\ tcpTarget'[k] = k
      BY DEF OpenIsServed
    <3>1. CASE k # l  BY <3>1 DEF OpenIsServed
    <3>2. CASE k = l
      <4>1. tcpAcceptor[l] = "accepting" => tcpForwards[tcpAddr[l]] = l
        BY <3>2 DEF TCP!UndisturbedIsRegistered
      <4>2. QED  BY <2>1, <3>2, <4>1 DEF OpenIsServed
    <3>3. QED  BY <3>1, <3>2
  <2>7. QED  BY <2>2, <2>3, <2>4, <2>5, <2>6
<1>2. CASE TCP!WatcherCloses(l)
  <2> USE <1>2 DEF TCP!WatcherCloses
  <2>1. TCP!TypeOK'  BY DEF TCP!WatcherPC
  <2>2. InUseHasAddr' /\ UnusedAreIdle' /\ BoundOnce'
    BY DEF InUseHasAddr, UnusedAreIdle, BoundOnce
  <2>3. FreshListens'  BY DEF FreshListens
  <2>4. TCP!NoStaleEntry' /\ TCP!UndisturbedIsRegistered'
    BY DEF TCP!NoStaleEntry, TCP!UndisturbedIsRegistered
  <2>5. OpenIsServed'  BY DEF OpenIsServed
  <2>6. QED  BY <2>1, <2>2, <2>3, <2>4, <2>5
<1>3. CASE TCP!AcceptFails(l)
  <2> USE <1>3 DEF TCP!AcceptFails
  <2>1. tcpAddr[l] \in Addr  BY DEF InUseHasAddr
  <2>2. TCP!TypeOK'  BY <2>1 DEF TCP!AcceptorPC
  <2>3. InUseHasAddr' /\ UnusedAreIdle' /\ BoundOnce'
    BY DEF InUseHasAddr, UnusedAreIdle, BoundOnce
  <2>4. FreshListens'  BY DEF FreshListens
  <2>5. TCP!NoStaleEntry' /\ TCP!UndisturbedIsRegistered'
    BY DEF TCP!NoStaleEntry, TCP!UndisturbedIsRegistered
  <2>6. OpenIsServed'  BY DEF OpenIsServed
  <2>7. QED  BY <2>2, <2>3, <2>4, <2>5, <2>6
<1>4. CASE TCP!AcceptorRemoves(l)
  <2> USE <1>4 DEF TCP!AcceptorRemoves
  <2>1. tcpAddr[l] \in Addr  BY DEF InUseHasAddr
  <2>2. TCP!TypeOK'  BY <2>1 DEF TCP!AcceptorPC
  <2>3. InUseHasAddr' /\ UnusedAreIdle' /\ BoundOnce'
    BY DEF InUseHasAddr, UnusedAreIdle, BoundOnce
  <2>4. FreshListens'  BY DEF FreshListens
  <2>5. TCP!NoStaleEntry'  BY <2>1 DEF TCP!NoStaleEntry
  <2>6. TCP!UndisturbedIsRegistered'  BY <2>1 DEF TCP!UndisturbedIsRegistered, BoundOnce
  <2>7. OpenIsServed'  BY DEF OpenIsServed
  <2>8. QED  BY <2>2, <2>3, <2>4, <2>5, <2>6, <2>7
<1>5. QED  BY <1>1, <1>2, <1>3, <1>4 DEF TCP!ListenerStep

LEMMA TCPStepKeeps == TCPInv /\ [TCP!Next]_TCP!vars => TCPInv'
<1> SUFFICES ASSUME TCPInv, [TCP!Next]_TCP!vars PROVE TCPInv'
  OBVIOUS
<1>1. ASSUME NEW c \in Conn, TCP!Disconnect(c) PROVE TCPInv'
  BY <1>1 DEF TCP!Disconnect, TCPInv, TCP!TypeOK, InUseHasAddr, UnusedAreIdle, BoundOnce,
    FreshListens, TCP!NoStaleEntry, TCP!UndisturbedIsRegistered, OpenIsServed, TCP!lnVars,
    TCP!reqVars, TCP!goVars
<1>2. CASE UNCHANGED TCP!vars
  BY <1>2 DEF TCP!vars, TCPInv, TCP!TypeOK, InUseHasAddr, UnusedAreIdle, BoundOnce,
    FreshListens, TCP!NoStaleEntry, TCP!UndisturbedIsRegistered, OpenIsServed, TCP!lnVars,
    TCP!reqVars, TCP!goVars
<1>3. QED
  BY <1>1, <1>2, ListenKeeps, RegisterKeeps, LookupKeeps, CloseKeeps, GoroutineKeeps
  DEF TCP!Next, TCP!RequestStep

LEMMA TCPInvHolds == TCP!Spec => []TCPInv
BY TCPInitHolds, TCPStepKeeps, PTL DEF TCP!Spec

-----------------------------------------------------------------------------
(* Each handler keeps its own specification, although the two share the    *)
(* Context and take turns: what one does is a stutter of the other, and    *)
(* the end of a connection is a step of both (server.go 602-621).          *)
THEOREM UnixImplemented == FwdSpec => Spec
<1>1. FwdInit => Init  BY DEF FwdInit
<1>2. [FwdNext]_fwdVars => [Next]_vars
  BY DEF FwdNext, UnixRequest, TCPRequest, UnixGoroutine, TCPGoroutine, ConnEnds, unixOwn, fwdVars,
    Next, vars, TCP!RequestStep, TCP!ForwardRegister, TCP!CancelClose, TCP!CancelLookup,
    TCP!ForwardListen, TCP!ListenerStep, TCP!WatcherLooksUp, TCP!WatcherCloses,
    TCP!AcceptorRemoves, TCP!AcceptFails
<1> QED
  BY <1>1, <1>2, PTL DEF FwdSpec, Spec

THEOREM TCPImplemented == FwdSpec => TCP!Spec
<1>1. FwdInit => TCP!Init  BY DEF FwdInit
<1>2. [FwdNext]_fwdVars => [TCP!Next]_TCP!vars
  <2> SUFFICES ASSUME [FwdNext]_fwdVars PROVE [TCP!Next]_TCP!vars
    OBVIOUS
  <2> USE DEF tcpOwn, TCP!vars, TCP!lnVars, TCP!reqVars, TCP!goVars
  <2>1. ASSUME NEW c \in Conn, UnixRequest(c) PROVE UNCHANGED TCP!vars
    BY <2>1 DEF UnixRequest, RequestStep, ForwardChecks, CancelLookup, ForwardListens,
      ForwardFails, ForwardRegisters, CancelCloses
  <2>2. ASSUME NEW c \in Conn, TCPRequest(c) PROVE TCP!Next
    BY <2>2 DEF TCPRequest, TCP!Next
  <2>3. ASSUME NEW l \in Listener, UnixGoroutine(l) PROVE UNCHANGED TCP!vars
    BY <2>3 DEF UnixGoroutine, ListenerStep, WatcherCloses, AcceptFails, AcceptorRemoves,
      AcceptorCloses
  <2>4. ASSUME NEW l \in Listener, TCPGoroutine(l) PROVE TCP!Next
    BY <2>4 DEF TCPGoroutine, TCP!Next
  <2>5. ASSUME NEW c \in Conn, ConnEnds(c) PROVE TCP!Next
    BY <2>5 DEF ConnEnds, Disconnect, TCP!Next, TCP!Disconnect
  <2>6. CASE UNCHANGED fwdVars  BY <2>6 DEF fwdVars
  <2> QED
    BY <2>1, <2>2, <2>3, <2>4, <2>5, <2>6 DEF FwdNext
<1> QED
  BY <1>1, <1>2, PTL DEF FwdSpec, TCP!Spec

(* No entry of the TCP map is left behind, and a forward whose address is  *)
(* bound once and whose listener never failed is the one a cancel finds    *)
(* and is cancelled for nobody while it accepts (tcpip.go 122-196).        *)
THEOREM EntriesAreExact == FwdSpec => []TCPEntriesExact
<1>1. TCPInv => TCPEntriesExact  BY DEF TCPInv, TCPEntriesExact, TCP!EntriesExact
<1> QED
  BY TCPInvHolds, TCPImplemented, <1>1, PTL

-----------------------------------------------------------------------------
(* Liveness, as in ForwardedUnixProofs from what the fair steps wait for.  *)

(* The stages in which an undisturbed listener l of connection c, whose    *)
(* Context is cancelled, gets closed.                                      *)
Lasting(l, c) ==
  /\ tcpOpen[l] /\ tcpAddr[l] \notin tcpDisturbed
  /\ tcpOwner[l] = c /\ ctxDone[c]
Unlisted(l, c)  == Lasting(l, c) /\ tcpReq[c] = "listened" /\ tcpReqLn[c] = l
Watched(l, c)   == Lasting(l, c) /\ tcpWatcher[l] = "waiting"
Condemned(l, c) == Lasting(l, c) /\ tcpWatcher[l] = "closing"
Ended(l)        == ~tcpOpen[l] \/ tcpAddr[l] \in tcpDisturbed

LEMMA LastingIsServed ==
  ASSUME NEW l \in Listener, NEW c \in Conn, TCPInv, Lasting(l, c)
  PROVE  /\ \/ tcpReq[c] = "listened" /\ tcpReqLn[c] = l
            \/ tcpWatcher[l] \in {"waiting", "closing"}
         /\ tcpWatcher[l] = "waiting" => tcpForwards[tcpAddr[l]] = l
         /\ tcpWatcher[l] = "closing" => tcpTarget[l] = l
<1> USE DEF TCPInv, Lasting
<1>1. CASE \E d \in Conn : tcpReq[d] = "listened" /\ tcpReqLn[d] = l
  BY <1>1 DEF FreshListens
<1>2. CASE /\ tcpAcceptor[l] = "accepting"
           /\ tcpWatcher[l] = "waiting" \/ (tcpWatcher[l] = "closing" /\ tcpTarget[l] = l)
  BY <1>2 DEF TCP!UndisturbedIsRegistered
<1> QED
  BY <1>1, <1>2 DEF OpenIsServed

LEMMA CloseStages ==
  ASSUME NEW l \in Listener, NEW c \in Conn, TCPInv, [TCP!Next]_TCP!vars
  PROVE  /\ Unlisted(l, c) => Unlisted(l, c)' \/ Watched(l, c)' \/ Ended(l)'
         /\ Watched(l, c) => Watched(l, c)' \/ Condemned(l, c)' \/ Ended(l)'
         /\ Condemned(l, c) => Condemned(l, c)' \/ Ended(l)'
<1> USE NonesHold DEF Nones, TCPInv, TCP!TypeOK, TCP!lnVars, TCP!reqVars, TCP!goVars, Lasting,
          Unlisted, Watched, Condemned, Ended
<1> DEFINE Goal == /\ Unlisted(l, c) => Unlisted(l, c)' \/ Watched(l, c)' \/ Ended(l)'
                   /\ Watched(l, c) => Watched(l, c)' \/ Condemned(l, c)' \/ Ended(l)'
                   /\ Condemned(l, c) => Condemned(l, c)' \/ Ended(l)'
<1>1. ASSUME NEW d \in Conn, NEW a \in Addr, NEW k \in Listener, TCP!ForwardListen(d, a, k)
      PROVE  Goal
  BY <1>1 DEF TCP!ForwardListen, UnusedAreIdle
<1>2. ASSUME NEW d \in Conn, TCP!ForwardRegister(d) PROVE Goal
  BY <1>2 DEF TCP!ForwardRegister, FreshListens, InUseHasAddr
<1>3. ASSUME NEW d \in Conn, NEW a \in Addr, TCP!CancelLookup(d, a) PROVE Goal
  BY <1>3 DEF TCP!CancelLookup
<1>4. ASSUME NEW d \in Conn, TCP!CancelClose(d) PROVE Goal
  BY <1>4 DEF TCP!CancelClose
<1>5. ASSUME NEW d \in Conn, TCP!Disconnect(d) PROVE Goal
  BY <1>5 DEF TCP!Disconnect
<1>6. ASSUME NEW k \in Listener, TCP!WatcherLooksUp(k) PROVE Goal
  <2>1. Watched(l, c) => tcpForwards[tcpAddr[l]] = l  BY LastingIsServed
  <2>2. QED  BY <1>6, <2>1 DEF TCP!WatcherLooksUp
<1>7. ASSUME NEW k \in Listener, TCP!WatcherCloses(k) PROVE Goal
  <2>1. Condemned(l, c) => tcpTarget[l] = l  BY LastingIsServed
  <2>2. QED  BY <1>7, <2>1 DEF TCP!WatcherCloses
<1>8. ASSUME NEW k \in Listener, TCP!AcceptFails(k) \/ TCP!AcceptorRemoves(k) PROVE Goal
  BY <1>8 DEF TCP!AcceptFails, TCP!AcceptorRemoves
<1>9. CASE UNCHANGED TCP!vars
  BY <1>9 DEF TCP!vars
<1> QED
  BY <1>1, <1>2, <1>3, <1>4, <1>5, <1>6, <1>7, <1>8, <1>9
  DEF TCP!Next, TCP!RequestStep, TCP!ListenerStep

LEMMA CloseEnds ==
  ASSUME NEW l \in Listener, NEW c \in Conn, TCPInv, [TCP!Next]_TCP!vars
  PROVE  /\ Unlisted(l, c) /\ TCP!RequestStep(c) => ~Unlisted(l, c)'
         /\ Watched(l, c) /\ TCP!WatcherLooksUp(l) => ~Watched(l, c)'
         /\ Condemned(l, c) /\ TCP!WatcherCloses(l) => Ended(l)'
<1> USE NonesHold DEF Nones, TCPInv, TCP!TypeOK
<1>1. Unlisted(l, c) /\ TCP!RequestStep(c) => ~Unlisted(l, c)'
  BY DEF Unlisted, TCP!RequestStep, TCP!ForwardRegister, TCP!CancelClose
<1>2. Watched(l, c) /\ TCP!WatcherLooksUp(l) => ~Watched(l, c)'
  BY DEF Watched, TCP!WatcherLooksUp
<1>3. Condemned(l, c) /\ TCP!WatcherCloses(l) => Ended(l)'
  <2>1. Condemned(l, c) => tcpTarget[l] = l  BY LastingIsServed DEF Condemned
  <2>2. QED  BY <2>1 DEF Condemned, Lasting, Ended, TCP!WatcherCloses
<1> QED
  BY <1>1, <1>2, <1>3

(* A TCP forward whose connection ends is closed, at whatever point its    *)
(* request and its goroutines are, unless its address was bound again or   *)
(* its listener failed (tcpip.go 139-149).                                 *)
THEOREM TCPForwardsEnd == []NoForwardBlocks /\ FwdFairSpec => TCPEndsWithConn
<1> SUFFICES ASSUME NEW l \in Listener, NEW c \in Conn
             PROVE  []NoForwardBlocks /\ FwdFairSpec =>
                      (tcpOpen[l] /\ tcpOwner[l] = c /\ ctxDone[c]
                         ~> ~tcpOpen[l] \/ tcpAddr[l] \in tcpDisturbed)
  BY DEF TCPEndsWithConn, TCP!EndsWithConn
<1>1. TCPInv /\ tcpOpen[l] /\ tcpOwner[l] = c /\ ctxDone[c] =>
        Unlisted(l, c) \/ Watched(l, c) \/ Condemned(l, c) \/ Ended(l)
  BY LastingIsServed DEF Unlisted, Watched, Condemned, Lasting, Ended
<1>2. Ended(l) => ~tcpOpen[l] \/ tcpAddr[l] \in tcpDisturbed
  BY DEF Ended
<1>3. NoForwardBlocks =>
        /\ Unlisted(l, c) => ENABLED <<TCP!RequestStep(c)>>_TCP!vars
        /\ Watched(l, c) => ENABLED <<TCP!WatcherLooksUp(l)>>_TCP!vars
        /\ Condemned(l, c) => ENABLED <<TCP!WatcherCloses(l)>>_TCP!vars
  BY DEF NoForwardBlocks, TCP!NobodyBlocks, Unlisted, Watched, Condemned, Lasting
<1>4. TCPInv /\ [TCP!Next]_TCP!vars =>
        /\ Unlisted(l, c) => Unlisted(l, c)' \/ Watched(l, c)' \/ Ended(l)'
        /\ Watched(l, c) => Watched(l, c)' \/ Condemned(l, c)' \/ Ended(l)'
        /\ Condemned(l, c) => Condemned(l, c)' \/ Ended(l)'
  BY CloseStages
<1>5. TCPInv /\ [TCP!Next]_TCP!vars =>
        /\ Unlisted(l, c) /\ <<TCP!RequestStep(c)>>_TCP!vars => ~Unlisted(l, c)'
        /\ Watched(l, c) /\ <<TCP!WatcherLooksUp(l)>>_TCP!vars => ~Watched(l, c)'
        /\ Condemned(l, c) /\ <<TCP!WatcherCloses(l)>>_TCP!vars => Ended(l)'
  BY CloseEnds
<1>6. TCP!Fairness => TCP!RequestFair(c) /\ TCP!ListenerFair(l)
  BY DEF TCP!Fairness
<1> QED
  BY TCPInvHolds, TCPImplemented, <1>1, <1>2, <1>3, <1>4, <1>5, <1>6, PTL
  DEF FwdFairSpec, TCP!Spec, TCP!RequestFair, TCP!ListenerFair

(* The same of Unix forwards beside TCP ones.                              *)
THEOREM UnixForwardsEnd == []NoForwardBlocks /\ FwdFairSpec => ForwardEnds
<1>1. NoForwardBlocks => NobodyBlocks  BY DEF NoForwardBlocks
<1> QED
  BY <1>1, UnixImplemented, ForwardsEnd, PTL DEF FwdFairSpec, FairSpec
=============================================================================
