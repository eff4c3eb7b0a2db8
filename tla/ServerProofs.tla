---------------------------- MODULE ServerProofs ----------------------------
(***************************************************************************)
(* Theorems about Server, for every set of listeners, connections and      *)
(* Shutdown calls: type correctness, the WaitGroup counters, the maps and  *)
(* callbacks, what a Shutdown that returns without its context's error     *)
(* guarantees, and that connections, Serves and Shutdowns come to an end.  *)
(***************************************************************************)
EXTENDS Server, FiniteSetTheorems, TLAPS

(* Every state of the lifecycle is well typed. *)
LEMMA TypeStep == TypeOK /\ [Next]_vars => TypeOK'
<1> SUFFICES ASSUME TypeOK, [Next]_vars PROVE TypeOK'
  OBVIOUS
<1> USE DEF TypeOK, ServePC, AcceptErr, ServeErr, HandlePC, Transport, MuxWaits, Callback,
            Interrupted, ShutdownPC, WaiterPC
<1>1. CASE UNCHANGED vars
  BY <1>1 DEF vars, serverVars, serveVars, handleVars, shutdownVars, historyVars
<1>2. ASSUME NEW l \in Listener, ServeStep(l) \/ ListenerEnv(l) PROVE TypeOK'
  <2>1. CASE ServeCall(l) BY <2>1 DEF ServeCall, serverVars, handleVars, shutdownVars, historyVars
  <2>2. CASE ServeRefused(l) BY <2>2 DEF ServeRefused, serverVars, handleVars, shutdownVars, historyVars
  <2>3. CASE ServeNoHostKey(l) BY <2>3 DEF ServeNoHostKey, serverVars, handleVars, shutdownVars, historyVars
  <2>4. CASE TrackListener(l) BY <2>4 DEF TrackListener, handleVars, shutdownVars, historyVars
  <2>5. CASE \E c \in Conn : Accept(l, c) BY <2>5 DEF Accept, serverVars, serveVars, shutdownVars, historyVars
  <2>6. CASE \E kind \in {"closed", "temporary", "fatal"} : AcceptFails(l, kind)
    BY <2>6 DEF AcceptFails, serverVars, handleVars, shutdownVars, historyVars
  <2>7. CASE ServeOnError(l) BY <2>7 DEF ServeOnError, handleVars, shutdownVars, historyVars
  <2>8. CASE UntrackListener(l) BY <2>8 DEF UntrackListener, Release, handleVars, historyVars
  <2>9. CASE ServeReturn(l) BY <2>9 DEF ServeReturn, serverVars, handleVars, shutdownVars, historyVars
  <2> QED BY <1>2, <2>1, <2>2, <2>3, <2>4, <2>5, <2>6, <2>7, <2>8, <2>9 DEF ServeStep, ListenerEnv
<1>3. ASSUME NEW c \in Conn, HandleStep(c) \/ ConnEnv(c) PROVE TypeOK'
  <2>1. CASE ConnVeto(c) BY <2>1 DEF ConnVeto, serverVars, serveVars, shutdownVars, historyVars
  <2>2. CASE HandshakeFail(c) BY <2>2 DEF HandshakeFail, serverVars, serveVars, shutdownVars, historyVars
  <2>3. CASE Handshake(c) BY <2>3 DEF Handshake, serverVars, serveVars, shutdownVars, historyVars
  <2>4. CASE TrackConn(c) BY <2>4 DEF TrackConn, serveVars, shutdownVars, historyVars
  <2>5. CASE Dispatch(c) BY <2>5, BoundAssumption DEF Dispatch, serverVars, serveVars, shutdownVars, historyVars
  <2>6. CASE HandlerReturn(c) BY <2>6, BoundAssumption DEF HandlerReturn, serverVars, serveVars, shutdownVars, historyVars
  <2>7. CASE ChansClosed(c) BY <2>7 DEF ChansClosed, serverVars, serveVars, shutdownVars, historyVars
  <2>8. CASE UntrackConn(c) BY <2>8 DEF UntrackConn, Release, serveVars, historyVars
  <2>9. CASE Complete(c) BY <2>9 DEF Complete, serverVars, serveVars, shutdownVars, historyVars
  <2>15. CASE ReturnAtOnce(c)
    BY <2>15 DEF ReturnAtOnce, serverVars, serveVars, shutdownVars, historyVars
  <2>10. CASE TransportFails(c) BY <2>10 DEF TransportFails, serverVars, serveVars, shutdownVars, historyVars
  <2>11. CASE KeepAliveClose(c) BY <2>11 DEF KeepAliveClose, serverVars, serveVars, shutdownVars, historyVars
  <2>16. CASE NetError(c) BY <2>16 DEF NetError, serverVars, serveVars, shutdownVars, historyVars
  <2>12. CASE MuxCloses(c) BY <2>12 DEF MuxCloses, serverVars, serveVars, shutdownVars, historyVars
  <2>13. CASE MuxExits(c) BY <2>13 DEF MuxExits, serverVars, serveVars, shutdownVars, historyVars
  <2>14. CASE RequestTaken(c) \/ \E on \in {"channel", "global"} : MuxBlocks(c, on)
    BY <2>14 DEF RequestTaken, MuxBlocks, serverVars, serveVars, shutdownVars, historyVars
  <2> QED BY <1>3, <2>1, <2>2, <2>3, <2>4, <2>5, <2>6, <2>7, <2>8, <2>9, <2>10,
             <2>11, <2>12, <2>13, <2>14, <2>15, <2>16 DEF HandleStep, ConnEnv
<1>4. ASSUME NEW s \in Stopper, ShutdownStep(s) \/ ShutdownCall(s) \/ ShutdownExpired(s)
      PROVE TypeOK'
  <2>1. CASE ShutdownCall(s)
    <3>1. interrupted' \in [Listener -> Interrupted]
      BY <2>1 DEF ShutdownCall, StopListening
    <3>2. atShutdown' \in [Stopper -> SUBSET (Listener \cup Conn)]
      BY <2>1 DEF ShutdownCall, Tracked, TrackedListeners, TrackedConns
    <3> QED BY <2>1, <3>1, <3>2 DEF ShutdownCall, StopListening, handleVars
  <2>2. CASE WaitListeners(s) BY <2>2 DEF WaitListeners, serverVars, serveVars, handleVars, historyVars
  <2>3. CASE WaitConns(s) BY <2>3 DEF WaitConns, serverVars, serveVars, handleVars, historyVars
  <2>4. CASE ResumeListeners(s) \/ ResumeConns(s)
    <3>1. panicked' \in BOOLEAN
      BY <2>4, Zenon DEF ResumeListeners, ResumeConns, Resume
    <3>2. waiter' \in [Stopper -> WaiterPC]
      BY <2>4 DEF ResumeListeners, ResumeConns, Resume
    <3>3. UNCHANGED <<serverVars, serveVars, handleVars, shutdown, historyVars>>
      BY <2>4, Zenon DEF ResumeListeners, ResumeConns, Resume
    <3> QED BY <3>1, <3>2, <3>3 DEF serverVars, serveVars, handleVars, historyVars
  <2>5. CASE ShutdownDrained(s) BY <2>5 DEF ShutdownDrained, serverVars, serveVars, handleVars, historyVars
  <2>6. CASE ShutdownExpired(s) BY <2>6 DEF ShutdownExpired, serverVars, serveVars, handleVars, historyVars
  <2> QED BY <1>4, <2>1, <2>2, <2>3, <2>4, <2>5, <2>6 DEF ShutdownStep
<1>5. CASE Close
  <2>1. interrupted' \in [Listener -> Interrupted]
    BY <1>5 DEF Close, StopListening
  <2> QED BY <1>5, <2>1 DEF Close, StopListening, shutdownVars
<1> QED BY <1>1, <1>2, <1>3, <1>4, <1>5 DEF Next

LEMMA InitTyped == Init => TypeOK
<1> SUFFICES ASSUME Init PROVE TypeOK
  OBVIOUS
<1>1. panicked \in BOOLEAN /\ lnOpen \in [Listener -> BOOLEAN] /\ ctxDone \in [Conn -> BOOLEAN]
  BY DEF Init
<1>2. handlers \in [Conn -> 0..MaxHandlers]
  BY BoundAssumption DEF Init
<1> QED BY <1>1, <1>2 DEF Init, TypeOK, ServePC, AcceptErr, ServeErr, HandlePC,
           Transport, MuxWaits, Callback, Interrupted, ShutdownPC, WaiterPC

(* Every server field, goroutine and call keeps its type. *)
THEOREM TypeCorrect == Spec => []TypeOK
BY InitTyped, TypeStep, PTL DEF Spec

-----------------------------------------------------------------------------
(***************************************************************************)
(* How a Serve and a HandleConn move, and what that makes of the tracked   *)
(* sets: nothing tracked once is tracked again.                            *)
(***************************************************************************)

ServeMoves ==
  {<<"idle", "starting">>, <<"idle", "returned">>, <<"starting", "closing">>,
   <<"starting", "accepting">>, <<"accepting", "failed">>, <<"failed", "accepting">>,
   <<"failed", "unwinding">>, <<"unwinding", "closing">>, <<"closing", "returned">>}

HandleMoves ==
  {<<"none", "accepted">>, <<"accepted", "done">>, <<"accepted", "handshook">>,
   <<"handshook", "serving">>, <<"serving", "closing">>, <<"closing", "untracked">>,
   <<"untracked", "done">>}

(* A step moves a Serve along ServeMoves, and only trackListener takes it  *)
(* in or out of the tracked ones.                                          *)
LEMMA ServeStepMoves ==
  ASSUME TypeOK, [Next]_vars, NEW l \in Listener
  PROVE  serve'[l] = serve[l] \/ <<serve[l], serve'[l]>> \in ServeMoves
<1> USE DEF TypeOK, ServeMoves
<1>1. CASE UNCHANGED serve
  BY <1>1
<1>2. CASE \E k \in Listener : ServeStep(k) \/ ListenerEnv(k)
  BY <1>2 DEF ServeStep, ListenerEnv, ServeCall, ServeRefused, ServeNoHostKey,
     TrackListener, Accept, AcceptFails, ServeOnError, UntrackListener, ServeReturn, serveVars
<1>3. CASE \E c \in Conn : HandleStep(c) \/ ConnEnv(c)
  BY <1>1, <1>3 DEF HandleStep, ConnEnv, ConnVeto, HandshakeFail, Handshake, TrackConn,
     Dispatch, HandlerReturn, ChansClosed, UntrackConn, Complete, ReturnAtOnce, TransportFails, NetError,
     KeepAliveClose, MuxBlocks, RequestTaken, MuxCloses, MuxExits, serveVars
<1>4. CASE Close \/ \E s \in Stopper : ShutdownStep(s) \/ ShutdownCall(s) \/ ShutdownExpired(s)
  BY <1>1, <1>4 DEF Close, ShutdownStep, ShutdownCall, ShutdownExpired, WaitListeners,
     WaitConns, ResumeListeners, ResumeConns, Resume, ShutdownDrained, serveVars
<1> QED BY <1>1, <1>2, <1>3, <1>4 DEF Next, vars, serveVars

(* The same for a HandleConn and trackConn. *)
LEMMA HandleStepMoves ==
  ASSUME TypeOK, [Next]_vars, NEW c \in Conn
  PROVE  handle'[c] = handle[c] \/ <<handle[c], handle'[c]>> \in HandleMoves
<1> USE DEF TypeOK, HandleMoves
<1>1. CASE UNCHANGED handle
  BY <1>1
<1>2. CASE \E l \in Listener : ServeStep(l) \/ ListenerEnv(l)
  BY <1>1, <1>2 DEF ServeStep, ListenerEnv, ServeCall, ServeRefused, ServeNoHostKey,
     TrackListener, Accept, AcceptFails, ServeOnError, UntrackListener, ServeReturn, handleVars
<1>3. CASE \E k \in Conn : HandleStep(k) \/ ConnEnv(k)
  BY <1>3 DEF HandleStep, ConnEnv, ConnVeto, HandshakeFail, Handshake, TrackConn,
     Dispatch, HandlerReturn, ChansClosed, UntrackConn, Complete, ReturnAtOnce, TransportFails, NetError,
     KeepAliveClose, MuxBlocks, RequestTaken, MuxCloses, MuxExits
<1>4. CASE Close \/ \E s \in Stopper : ShutdownStep(s) \/ ShutdownCall(s) \/ ShutdownExpired(s)
  BY <1>1, <1>4 DEF Close, ShutdownStep, ShutdownCall, ShutdownExpired, WaitListeners,
     WaitConns, ResumeListeners, ResumeConns, Resume, ShutdownDrained, handleVars
<1> QED BY <1>1, <1>2, <1>3, <1>4 DEF Next, vars, handleVars

(* What was tracked stays so recorded, and is not tracked again. *)
LEMMA NoRetrack ==
  ASSUME TypeOK, [Next]_vars
  PROVE  /\ WasTracked \subseteq WasTracked'
         /\ WasTracked \cap TrackedListeners' \subseteq TrackedListeners
         /\ WasTracked \cap TrackedConns' \subseteq TrackedConns
<1>1. ASSUME NEW l \in Listener, l \in WasTracked
      PROVE  l \in WasTracked' /\ (l \in TrackedListeners' => l \in TrackedListeners)
  BY <1>1, ServeStepMoves, DisjointAssumption DEF WasTracked, TrackedListeners, ServeMoves
<1>2. ASSUME NEW c \in Conn, c \in WasTracked
      PROVE  c \in WasTracked' /\ (c \in TrackedConns' => c \in TrackedConns)
  BY <1>2, HandleStepMoves, DisjointAssumption DEF WasTracked, TrackedConns, HandleMoves
<1> QED BY <1>1, <1>2, DisjointAssumption DEF WasTracked, TrackedListeners, TrackedConns

-----------------------------------------------------------------------------
(***************************************************************************)
(* The WaitGroup counters.                                                 *)
(***************************************************************************)

LEMMA TrackedFinite ==
  IsFiniteSet(TrackedListeners) /\ IsFiniteSet(TrackedConns)
BY FS_Subset, FiniteAssumption DEF TrackedListeners, TrackedConns

LEMMA TrackedFinitePrime ==
  IsFiniteSet(TrackedListeners') /\ IsFiniteSet(TrackedConns')
BY FS_Subset, FiniteAssumption DEF TrackedListeners, TrackedConns

(* trackListener moves the counter and the tracked set together; nothing   *)
(* else touches either.                                                    *)
LEMMA ListenerTracking ==
  ASSUME TypeOK, [Next]_vars
  PROVE  \/ TrackedListeners' = TrackedListeners /\ listenerWg' = listenerWg
         \/ \E l \in Listener \ TrackedListeners :
              TrackedListeners' = TrackedListeners \cup {l} /\ listenerWg' = listenerWg + 1
         \/ \E l \in TrackedListeners :
              TrackedListeners' = TrackedListeners \ {l} /\ listenerWg' = listenerWg - 1
<1> USE DEF TypeOK, TrackedListeners
<1>1. CASE UNCHANGED <<serve, listenerWg>>
  BY <1>1
<1>2. ASSUME NEW l \in Listener, TrackListener(l)
      PROVE  \E k \in Listener \ TrackedListeners :
               TrackedListeners' = TrackedListeners \cup {k} /\ listenerWg' = listenerWg + 1
  <2>1. l \in Listener \ TrackedListeners /\ listenerWg' = listenerWg + 1
    BY <1>2 DEF TrackListener
  <2>2. TrackedListeners' = TrackedListeners \cup {l}
    BY <1>2 DEF TrackListener
  <2> QED BY <2>1, <2>2
<1>3. ASSUME NEW l \in Listener, UntrackListener(l)
      PROVE  \E k \in TrackedListeners :
               TrackedListeners' = TrackedListeners \ {k} /\ listenerWg' = listenerWg - 1
  <2>1. l \in TrackedListeners /\ listenerWg' = listenerWg - 1
    BY <1>3 DEF UntrackListener
  <2>2. TrackedListeners' = TrackedListeners \ {l}
    BY <1>3 DEF UntrackListener
  <2> QED BY <2>1, <2>2
<1>4. ASSUME NEW l \in Listener,
             \/ ServeCall(l) \/ ServeRefused(l) \/ ServeNoHostKey(l)
             \/ (\E kind \in {"closed", "temporary", "fatal"} : AcceptFails(l, kind))
             \/ ServeOnError(l) \/ ServeReturn(l)
      PROVE  TrackedListeners' = TrackedListeners /\ listenerWg' = listenerWg
  BY <1>4 DEF ServeCall, ServeRefused, ServeNoHostKey, AcceptFails, ServeOnError,
     ServeReturn, serverVars
<1>5. ASSUME NEW l \in Listener, NEW c \in Conn, Accept(l, c) PROVE UNCHANGED <<serve, listenerWg>>
  BY <1>5 DEF Accept, serverVars, serveVars
<1>6. CASE \E c \in Conn : HandleStep(c) \/ ConnEnv(c)
  BY <1>1, <1>6 DEF HandleStep, ConnEnv, ConnVeto, HandshakeFail, Handshake, TrackConn,
     Dispatch, HandlerReturn, ChansClosed, UntrackConn, Complete, ReturnAtOnce, TransportFails, NetError,
     KeepAliveClose, MuxBlocks, RequestTaken, MuxCloses, MuxExits, serveVars, serverVars
<1>7. CASE Close \/ \E s \in Stopper : ShutdownStep(s) \/ ShutdownCall(s) \/ ShutdownExpired(s)
  BY <1>1, <1>7 DEF Close, ShutdownStep, ShutdownCall, ShutdownExpired, WaitListeners,
     WaitConns, ResumeListeners, ResumeConns, Resume, ShutdownDrained, serveVars, serverVars
<1>8. CASE \E l \in Listener : ServeStep(l) \/ ListenerEnv(l)
  BY <1>1, <1>2, <1>3, <1>4, <1>5, <1>8, Zenon DEF ServeStep, ListenerEnv
<1> QED BY <1>1, <1>6, <1>7, <1>8 DEF Next, vars, serveVars, serverVars

(* The same for trackConn. *)
LEMMA ConnTracking ==
  ASSUME TypeOK, [Next]_vars
  PROVE  \/ TrackedConns' = TrackedConns /\ connWg' = connWg
         \/ \E c \in Conn \ TrackedConns :
              TrackedConns' = TrackedConns \cup {c} /\ connWg' = connWg + 1
         \/ \E c \in TrackedConns :
              TrackedConns' = TrackedConns \ {c} /\ connWg' = connWg - 1
<1> USE DEF TypeOK, TrackedConns
<1>1. CASE UNCHANGED <<handle, connWg>>
  BY <1>1
<1>2. ASSUME NEW c \in Conn, TrackConn(c)
      PROVE  \E k \in Conn \ TrackedConns :
               TrackedConns' = TrackedConns \cup {k} /\ connWg' = connWg + 1
  <2>1. c \in Conn \ TrackedConns /\ connWg' = connWg + 1
    BY <1>2 DEF TrackConn
  <2>2. TrackedConns' = TrackedConns \cup {c}
    BY <1>2 DEF TrackConn
  <2> QED BY <2>1, <2>2
<1>3. ASSUME NEW c \in Conn, UntrackConn(c)
      PROVE  \E k \in TrackedConns :
               TrackedConns' = TrackedConns \ {k} /\ connWg' = connWg - 1
  <2>1. c \in TrackedConns /\ connWg' = connWg - 1
    BY <1>3 DEF UntrackConn
  <2>2. TrackedConns' = TrackedConns \ {c}
    BY <1>3 DEF UntrackConn
  <2> QED BY <2>1, <2>2
<1>4. ASSUME NEW c \in Conn,
             \/ ConnVeto(c) \/ HandshakeFail(c) \/ Handshake(c) \/ Dispatch(c)
             \/ HandlerReturn(c) \/ ChansClosed(c) \/ Complete(c) \/ ReturnAtOnce(c)
             \/ TransportFails(c) \/ NetError(c) \/ KeepAliveClose(c) \/ RequestTaken(c)
             \/ (\E on \in {"channel", "global"} : MuxBlocks(c, on))
             \/ MuxCloses(c) \/ MuxExits(c)
      PROVE  TrackedConns' = TrackedConns /\ connWg' = connWg
  BY <1>4 DEF ConnVeto, HandshakeFail, Handshake, Dispatch, HandlerReturn, ChansClosed,
     Complete, ReturnAtOnce, TransportFails, NetError, KeepAliveClose, MuxBlocks, RequestTaken, MuxCloses, MuxExits, serverVars
<1>5. ASSUME NEW l \in Listener, NEW c \in Conn, Accept(l, c)
      PROVE  TrackedConns' = TrackedConns /\ connWg' = connWg
  BY <1>5 DEF Accept, serverVars
<1>6. ASSUME NEW l \in Listener, ServeStep(l) \/ ListenerEnv(l), ~ \E c \in Conn : Accept(l, c)
      PROVE  UNCHANGED <<handle, connWg>>
  BY <1>6 DEF ServeStep, ListenerEnv, ServeCall, ServeRefused, ServeNoHostKey, TrackListener,
     AcceptFails, ServeOnError, UntrackListener, ServeReturn, handleVars, serverVars
<1>7. CASE Close \/ \E s \in Stopper : ShutdownStep(s) \/ ShutdownCall(s) \/ ShutdownExpired(s)
  BY <1>1, <1>7 DEF Close, ShutdownStep, ShutdownCall, ShutdownExpired, WaitListeners,
     WaitConns, ResumeListeners, ResumeConns, Resume, ShutdownDrained, handleVars, serverVars
<1>8. CASE \E c \in Conn : HandleStep(c) \/ ConnEnv(c)
  BY <1>2, <1>3, <1>4, <1>8, Zenon DEF HandleStep, ConnEnv
<1>9. CASE \E l \in Listener : ServeStep(l) \/ ListenerEnv(l)
  BY <1>1, <1>5, <1>6, <1>9
<1> QED BY <1>1, <1>7, <1>8, <1>9 DEF Next, vars, handleVars, serverVars

LEMMA CountersStep ==
  ASSUME TypeOK, CountersMatch, [Next]_vars
  PROVE  CountersMatch'
<1>1. listenerWg' = Cardinality(TrackedListeners')
  BY ListenerTracking, TrackedFinite, FS_AddElement, FS_RemoveElement DEF CountersMatch
<1>2. connWg' = Cardinality(TrackedConns')
  BY ConnTracking, TrackedFinite, FS_AddElement, FS_RemoveElement DEF CountersMatch
<1> QED BY <1>1, <1>2 DEF CountersMatch

(* The counters count the tracked Serve and HandleConn calls; no Done      *)
(* takes one below zero.                                                   *)
THEOREM CountersCorrect == Spec => []CountersMatch
<1>1. Init => CountersMatch
  <2> SUFFICES ASSUME Init PROVE CountersMatch
    OBVIOUS
  <2>1. TrackedListeners = {} /\ TrackedConns = {}
    BY DEF Init, TrackedListeners, TrackedConns
  <2> QED BY <2>1, FS_EmptySet DEF Init, CountersMatch
<1>2. TypeOK /\ CountersMatch /\ [Next]_vars => CountersMatch'
  BY CountersStep
<1> QED BY <1>1, <1>2, TypeCorrect, PTL DEF Spec

-----------------------------------------------------------------------------
(***************************************************************************)
(* What a drained Shutdown guarantees.                                     *)
(***************************************************************************)

(* A counter at zero means that nothing is tracked. *)
LEMMA ZeroMeansNone ==
  ASSUME CountersMatch
  PROVE  /\ listenerWg = 0 => TrackedListeners = {}
         /\ connWg = 0 => TrackedConns = {}
BY TrackedFinite, FS_EmptySet DEF CountersMatch

LEMMA ZeroMeansNonePrime ==
  ASSUME CountersMatch'
  PROVE  /\ listenerWg' = 0 => TrackedListeners' = {}
         /\ connWg' = 0 => TrackedConns' = {}
BY TrackedFinitePrime, FS_EmptySet DEF CountersMatch

(* A call already made waits for no more than it did before. *)
LEMMA PendingShrinks ==
  ASSUME TypeOK, [Next]_vars, NEW s \in Stopper,
         atShutdown[s] \subseteq WasTracked, atShutdown'[s] = atShutdown[s]
  PROVE  /\ atShutdown'[s] \subseteq WasTracked'
         /\ Pending(s)' \cap Listener \subseteq Pending(s) \cap Listener
         /\ Pending(s)' \cap Conn \subseteq Pending(s) \cap Conn
BY NoRetrack, DisjointAssumption DEF Pending, Tracked, TrackedListeners, TrackedConns

(* A step that leaves the call, its goroutine and its snapshot alone keeps *)
(* the goroutine's progress.                                               *)
LEMMA ProgressStutter ==
  ASSUME IInv, [Next]_vars, NEW s \in Stopper,
         atShutdown'[s] = atShutdown[s], waiter'[s] = waiter[s], shutdown'[s] = shutdown[s]
  PROVE  atShutdown'[s] \subseteq WasTracked' /\ WaiterProgress(s)'
BY PendingShrinks DEF IInv, WaiterProgress

LEMMA ProgressStep ==
  ASSUME IInv, [Next]_vars, NEW s \in Stopper
  PROVE  atShutdown'[s] \subseteq WasTracked' /\ WaiterProgress(s)'
<1> USE DEF WaiterPC
<1>0. TypeOK /\ CountersMatch /\ TypeOK' /\ CountersMatch'
  BY TypeStep, CountersStep DEF IInv
<1>1. atShutdown[s] \subseteq WasTracked /\ WaiterProgress(s)
  BY DEF IInv
<1>2. CASE UNCHANGED <<shutdown, waiter, atShutdown>>
  BY <1>2, ProgressStutter
<1>3. ASSUME NEW l \in Listener, UntrackListener(l)
      PROVE  atShutdown'[s] \subseteq WasTracked' /\ WaiterProgress(s)'
  <2>1. UNCHANGED <<shutdown, atShutdown>> /\ listenerWg' = listenerWg - 1
    BY <1>3 DEF UntrackListener, historyVars
  <2>2. CASE listenerWg = 1 /\ waiter[s] = "listenerParked"
    <3>1. waiter'[s] = "listenerWoken"
      BY <1>3, <2>2 DEF UntrackListener, Release
    <3>2. Pending(s)' \cap Listener = {}
      <4>1. TrackedListeners' = {}
        BY <2>1, <2>2, <1>0, ZeroMeansNonePrime
      <4> QED BY <4>1, DisjointAssumption DEF Pending, Tracked, TrackedConns
    <3> QED BY <3>1, <3>2, <2>1, <2>2, <1>0, <1>1, PendingShrinks DEF WaiterProgress
  <2>3. CASE ~(listenerWg = 1 /\ waiter[s] = "listenerParked")
    <3>1. waiter'[s] = waiter[s]
      BY <1>3, <2>3 DEF UntrackListener, Release
    <3> QED BY <3>1, <2>1, ProgressStutter
  <2> QED BY <2>2, <2>3
<1>4. ASSUME NEW c \in Conn, UntrackConn(c)
      PROVE  atShutdown'[s] \subseteq WasTracked' /\ WaiterProgress(s)'
  <2>1. UNCHANGED <<shutdown, atShutdown>> /\ connWg' = connWg - 1
    BY <1>4 DEF UntrackConn, historyVars
  <2>2. CASE connWg = 1 /\ waiter[s] = "connParked"
    <3>1. waiter'[s] = "connWoken"
      BY <1>4, <2>2 DEF UntrackConn, Release
    <3>2. Pending(s)' \cap Conn = {}
      <4>1. TrackedConns' = {}
        BY <2>1, <2>2, <1>0, ZeroMeansNonePrime
      <4> QED BY <4>1, DisjointAssumption DEF Pending, Tracked, TrackedListeners
    <3> QED BY <3>1, <3>2, <2>1, <2>2, <1>0, <1>1, PendingShrinks DEF WaiterProgress
  <2>3. CASE ~(connWg = 1 /\ waiter[s] = "connParked")
    <3>1. waiter'[s] = waiter[s]
      BY <1>4, <2>3 DEF UntrackConn, Release
    <3> QED BY <3>1, <2>1, ProgressStutter
  <2> QED BY <2>2, <2>3
<1>5. ASSUME NEW t \in Stopper, ShutdownStep(t) \/ ShutdownCall(t) \/ ShutdownExpired(t)
      PROVE  atShutdown'[s] \subseteq WasTracked' /\ WaiterProgress(s)'
  <2>1. CASE s # t
    <3>1. /\ atShutdown'[s] = atShutdown[s]
          /\ waiter'[s] = waiter[s]
          /\ shutdown'[s] = shutdown[s]
      BY <1>5, <2>1, <1>0 DEF TypeOK, ShutdownStep, ShutdownCall, ShutdownExpired, WaitListeners,
         WaitConns, ResumeListeners, ResumeConns, Resume, ShutdownDrained, historyVars
    <3> QED BY <3>1, ProgressStutter
  <2>2. CASE s = t /\ ShutdownCall(s)
    <3>1. waiter'[s] = "listenerWg" /\ shutdown'[s] = "waiting" /\ atShutdown'[s] = Tracked
      BY <2>2, <1>0 DEF ShutdownCall, TypeOK
    <3>2. Tracked \subseteq WasTracked
      BY DEF Tracked, WasTracked, TrackedListeners, TrackedConns
    <3> QED BY <3>1, <3>2, <1>0, NoRetrack DEF WaiterProgress
  <2>3. CASE s = t /\ ~ShutdownCall(s)
    <3>1. atShutdown'[s] = atShutdown[s]
      BY <1>5, <2>3 DEF ShutdownStep, ShutdownExpired, WaitListeners, WaitConns,
         ResumeListeners, ResumeConns, Resume, ShutdownDrained, historyVars
    <3>2. /\ atShutdown'[s] \subseteq WasTracked'
          /\ Pending(s)' \cap Listener \subseteq Pending(s) \cap Listener
          /\ Pending(s)' \cap Conn \subseteq Pending(s) \cap Conn
      BY <3>1, <1>0, <1>1, PendingShrinks
    <3>3. /\ listenerWg = 0 => Pending(s) \cap Listener = {}
          /\ connWg = 0 => Pending(s) \cap Conn = {}
      BY <1>0, ZeroMeansNone, DisjointAssumption
         DEF Pending, Tracked, TrackedListeners, TrackedConns
    <3>4. CASE WaitListeners(s)
      BY <3>2, <3>3, <3>4, <1>0, <1>1 DEF WaitListeners, WaiterProgress, TypeOK
    <3>5. CASE WaitConns(s)
      BY <3>2, <3>3, <3>5, <1>0, <1>1 DEF WaitConns, WaiterProgress, TypeOK
    <3>6. CASE ResumeListeners(s) \/ ResumeConns(s)
      BY <3>2, <3>6, <1>0, <1>1 DEF ResumeListeners, ResumeConns, Resume, WaiterProgress, TypeOK
    <3>7. CASE ShutdownDrained(s) \/ ShutdownExpired(s)
      BY <3>2, <3>7, <1>0, <1>1 DEF ShutdownDrained, ShutdownExpired, WaiterProgress, TypeOK
    <3> QED BY <1>5, <2>3, <3>4, <3>5, <3>6, <3>7 DEF ShutdownStep
  <2> QED BY <1>5, <2>1, <2>2, <2>3
<1>6. ASSUME NEW l \in Listener, ServeStep(l) \/ ListenerEnv(l), ~UntrackListener(l)
      PROVE  UNCHANGED <<shutdown, waiter, atShutdown>>
  BY <1>6 DEF ServeStep, ListenerEnv, ServeCall, ServeRefused, ServeNoHostKey, TrackListener,
     Accept, AcceptFails, ServeOnError, ServeReturn, shutdownVars, historyVars
<1>7. ASSUME NEW c \in Conn, HandleStep(c) \/ ConnEnv(c), ~UntrackConn(c)
      PROVE  UNCHANGED <<shutdown, waiter, atShutdown>>
  BY <1>7 DEF HandleStep, ConnEnv, ConnVeto, HandshakeFail, Handshake, TrackConn, Dispatch,
     HandlerReturn, ChansClosed, Complete, ReturnAtOnce, TransportFails, NetError, KeepAliveClose, MuxBlocks, RequestTaken, MuxCloses,
     MuxExits, shutdownVars, historyVars
<1>8. CASE Close
  BY <1>8, <1>2 DEF Close, shutdownVars
<1>9. CASE \E l \in Listener : ServeStep(l) \/ ListenerEnv(l)
  BY <1>2, <1>3, <1>6, <1>9
<1>10. CASE \E c \in Conn : HandleStep(c) \/ ConnEnv(c)
  BY <1>2, <1>4, <1>7, <1>10
<1> QED BY <1>2, <1>5, <1>8, <1>9, <1>10 DEF Next, vars, shutdownVars, historyVars

(* IInv is inductive. *)
THEOREM IInvCorrect == Spec => []IInv
<1>1. Init => IInv
  <2> SUFFICES ASSUME Init PROVE IInv
    OBVIOUS
  <2>1. TrackedListeners = {} /\ TrackedConns = {}
    BY DEF Init, TrackedListeners, TrackedConns
  <2>2. CountersMatch
    BY <2>1, FS_EmptySet DEF Init, CountersMatch
  <2>3. TypeOK
    BY InitTyped
  <2> QED BY <2>2, <2>3 DEF Init, IInv, WaiterProgress
<1>2. IInv /\ [Next]_vars => IInv'
  BY ProgressStep, TypeStep, CountersStep DEF IInv
<1> QED BY <1>1, <1>2, PTL DEF Spec

(* When Shutdown returns without its context's error, everything tracked   *)
(* when it was called has been untracked.                                  *)
THEOREM ShutdownDrains == Spec => []ShutdownMeansDrained
<1>1. IInv => ShutdownMeansDrained
  <2> SUFFICES ASSUME IInv, NEW s \in Stopper, shutdown[s] = "drained"
               PROVE  atShutdown[s] \cap Tracked = {}
    BY DEF ShutdownMeansDrained
  <2>1. waiter[s] = "finished"
    BY DEF IInv, WaiterProgress
  <2>2. Pending(s) \cap Listener = {} /\ Pending(s) \cap Conn = {}
    BY <2>1 DEF IInv, WaiterProgress
  <2> QED BY <2>2 DEF Pending, Tracked, TrackedListeners, TrackedConns
<1> QED BY <1>1, IInvCorrect, PTL

-----------------------------------------------------------------------------
(* The callbacks that a HandleConn has called, by how far it is, and what  *)
(* of the transport is left when it calls them.                            *)
CallbacksFollow ==
  \A c \in Conn :
    /\ handle[c] \in {"none", "accepted", "handshook", "serving"} => callbacks[c] = {}
    /\ handle[c] \in {"closing", "untracked"} => callbacks[c] = {"closing"}
    /\ handle[c] = "done" => callbacks[c] \in {{}, {"failed"}, {"closing"}, {"closing", "complete"}}
    /\ "closing" \in callbacks[c] => transport[c] \in {"draining", "down"}
    /\ "complete" \in callbacks[c] => transport[c] = "down"

LEMMA CallbacksKept ==
  ASSUME TypeOK, CallbacksFollow, [Next]_vars
  PROVE  CallbacksFollow'
<1> USE DEF TypeOK, CallbacksFollow, HandlePC, Transport, MuxWaits, Callback
<1>1. ASSUME NEW c \in Conn, HandleStep(c) \/ ConnEnv(c) PROVE CallbacksFollow'
  BY <1>1 DEF HandleStep, ConnEnv, ConnVeto, HandshakeFail, Handshake, TrackConn, Dispatch,
     HandlerReturn, ChansClosed, UntrackConn, Complete, ReturnAtOnce, TransportFails, NetError, KeepAliveClose, MuxBlocks, RequestTaken,
     MuxCloses, MuxExits
<1>2. ASSUME NEW l \in Listener, ServeStep(l) \/ ListenerEnv(l) PROVE CallbacksFollow'
  BY <1>2 DEF ServeStep, ListenerEnv, ServeCall, ServeRefused, ServeNoHostKey, TrackListener,
     Accept, AcceptFails, ServeOnError, UntrackListener, ServeReturn, handleVars
<1>3. CASE UNCHANGED handleVars  BY <1>3 DEF handleVars
<1>4. CASE Close  BY <1>4 DEF Close
<1>5. CASE \E s \in Stopper : ShutdownStep(s) \/ ShutdownCall(s) \/ ShutdownExpired(s)
  BY <1>3, <1>5 DEF ShutdownStep, ShutdownCall, ShutdownExpired, WaitListeners, WaitConns,
     ResumeListeners, ResumeConns, Resume, ShutdownDrained
<1>6. QED  BY <1>1, <1>2, <1>3, <1>4, <1>5 DEF Next, vars

LEMMA CallbacksHold == Spec => []CallbacksFollow
<1>1. Init => CallbacksFollow  BY DEF Init, CallbacksFollow
<1>2. TypeOK /\ CallbacksFollow /\ [Next]_vars => CallbacksFollow'  BY CallbacksKept
<1>3. QED  BY <1>1, <1>2, TypeCorrect, PTL DEF Spec

-----------------------------------------------------------------------------
(***************************************************************************)
(* Server implements GracefulStop.                                         *)
(***************************************************************************)

(* A Serve that was tracked once is recognised by the error it returns.    *)
Recognised ==
  \A l \in Listener : serve[l] = "unwinding" => serveErr[l] \in {"AcceptError", "ErrServerClosed"}

LEMMA RecognisedKept ==
  ASSUME TypeOK, Recognised, [Next]_vars
  PROVE  Recognised'
<1> USE DEF TypeOK, Recognised
<1>1. CASE UNCHANGED serveVars  BY <1>1 DEF serveVars
<1>2. CASE \E l \in Listener : ServeStep(l) \/ ListenerEnv(l)
  BY <1>2 DEF ServeStep, ListenerEnv, ServeCall, ServeRefused, ServeNoHostKey, TrackListener,
     Accept, AcceptFails, ServeOnError, UntrackListener, ServeReturn, serveVars
<1>3. CASE \E c \in Conn : HandleStep(c) \/ ConnEnv(c)
  BY <1>1, <1>3 DEF HandleStep, ConnEnv, ConnVeto, HandshakeFail, Handshake, TrackConn, Dispatch,
     HandlerReturn, ChansClosed, UntrackConn, Complete, ReturnAtOnce, TransportFails, NetError,
     KeepAliveClose, MuxBlocks, RequestTaken, MuxCloses, MuxExits
<1>4. CASE Close \/ \E s \in Stopper : ShutdownStep(s) \/ ShutdownCall(s) \/ ShutdownExpired(s)
  BY <1>4 DEF Close, ShutdownStep, ShutdownCall, ShutdownExpired, WaitListeners,
     WaitConns, ResumeListeners, ResumeConns, Resume, ShutdownDrained, serveVars
<1>5. QED  BY <1>1, <1>2, <1>3, <1>4 DEF Next, vars

LEMMA GoneWasTracked == Tracked \cup Gone \subseteq WasTracked
BY DEF Tracked, TrackedListeners, TrackedConns, Gone, WasTracked

(* A step that tracks something joins, one that untracks it leaves, one    *)
(* that does neither and is not of a Shutdown call cannot be seen.         *)
LEMMA JoinRefines ==
  ASSUME IInv, NEW i \in Listener \cup Conn, i \notin WasTracked,
         Tracked' = Tracked \cup {i}, Gone' = Gone, UNCHANGED <<atShutdown, shutdown>>
  PROVE  GS!Join(i)
<1>1. i \notin Tracked \cup Gone  BY GoneWasTracked
<1>2. [s \in Stopper |-> atShutdown'[s] \cap Tracked']
        = [s \in Stopper |-> atShutdown[s] \cap Tracked]
  BY DEF IInv
<1>3. QED  BY <1>1, <1>2 DEF GS!Join

LEMMA LeaveRefines ==
  ASSUME NEW i \in Tracked,
         Tracked' = Tracked \ {i}, Gone' = Gone \cup {i}, UNCHANGED <<atShutdown, shutdown>>
  PROVE  GS!Leave(i)
<1> DEFINE pending == [s \in Stopper |-> atShutdown[s] \cap Tracked]
<1>1. [s \in Stopper |-> atShutdown'[s] \cap Tracked']
        = [s \in Stopper |-> pending[s] \ {i}]
  OBVIOUS
<1>2. QED  BY <1>1 DEF GS!Leave

LEMMA Invisible ==
  ASSUME Tracked' = Tracked, Gone' = Gone, UNCHANGED <<atShutdown, shutdown>>
  PROVE  UNCHANGED GS!vars
BY DEF GS!vars

LEMMA ServeRefines ==
  ASSUME IInv, Recognised, NEW l \in Listener, ServeStep(l) \/ ListenerEnv(l)
  PROVE  GS!Next \/ UNCHANGED GS!vars
<1> USE DEF IInv, TypeOK
<1>1. CASE TrackListener(l)
  <2>1. l \notin WasTracked  BY <1>1, DisjointAssumption DEF TrackListener, WasTracked
  <2>2. Tracked' = Tracked \cup {l}
    BY <1>1 DEF TrackListener, Tracked, TrackedListeners, TrackedConns, handleVars
  <2>3. Gone' = Gone  BY <1>1 DEF TrackListener, Gone, handleVars
  <2>4. GS!Join(l)  BY <1>1, <2>1, <2>2, <2>3, JoinRefines
                    DEF TrackListener, shutdownVars, historyVars
  <2>5. QED  BY <2>4 DEF GS!Next
<1>2. CASE UntrackListener(l)
  <2>1. l \in Tracked  BY <1>2 DEF UntrackListener, Tracked, TrackedListeners
  <2>2. Tracked' = Tracked \ {l}
    BY <1>2, DisjointAssumption
    DEF UntrackListener, Tracked, TrackedListeners, TrackedConns, handleVars
  <2>3. Gone' = Gone \cup {l}  BY <1>2 DEF UntrackListener, Gone, Recognised, handleVars
  <2>4. GS!Leave(l)  BY <1>2, <2>1, <2>2, <2>3, LeaveRefines DEF UntrackListener, historyVars
  <2>5. QED  BY <2>1, <2>4 DEF GS!Next, Tracked, TrackedListeners, TrackedConns
<1>3. ASSUME \/ ServeCall(l) \/ ServeRefused(l) \/ ServeNoHostKey(l)
             \/ (\E kind \in {"closed", "temporary", "fatal"} : AcceptFails(l, kind))
             \/ ServeOnError(l) \/ ServeReturn(l) \/ \E c \in Conn : Accept(l, c)
      PROVE  UNCHANGED GS!vars
  <2> USE DEF ServeCall, ServeRefused, ServeNoHostKey, AcceptFails, ServeOnError, ServeReturn,
             Accept, serverVars, serveVars, handleVars, shutdownVars, historyVars
  <2>1. TrackedListeners' = TrackedListeners  BY <1>3 DEF TrackedListeners
  <2>2. TrackedConns' = TrackedConns  BY <1>3 DEF TrackedConns
  <2>3. Gone' = Gone  BY <1>3 DEF Gone
  <2>4. UNCHANGED <<atShutdown, shutdown>>  BY <1>3
  <2>5. QED  BY <2>1, <2>2, <2>3, <2>4, Invisible DEF Tracked
<1>4. QED  BY <1>1, <1>2, <1>3 DEF ServeStep, ListenerEnv

LEMMA HandleRefines ==
  ASSUME IInv, CallbacksFollow, NEW c \in Conn, HandleStep(c) \/ ConnEnv(c)
  PROVE  GS!Next \/ UNCHANGED GS!vars
<1> USE DEF IInv, TypeOK
<1>1. CASE TrackConn(c)
  <2>1. c \notin WasTracked  BY <1>1, DisjointAssumption DEF TrackConn, WasTracked
  <2>2. Tracked' = Tracked \cup {c}
    BY <1>1 DEF TrackConn, Tracked, TrackedListeners, TrackedConns, serveVars
  <2>3. Gone' = Gone  BY <1>1 DEF TrackConn, Gone, serveVars
  <2>4. GS!Join(c)  BY <1>1, <2>1, <2>2, <2>3, JoinRefines
                    DEF TrackConn, shutdownVars, historyVars
  <2>5. QED  BY <2>4 DEF GS!Next
<1>2. CASE UntrackConn(c)
  <2>1. c \in Tracked  BY <1>2 DEF UntrackConn, Tracked, TrackedConns
  <2>2. Tracked' = Tracked \ {c}
    BY <1>2, DisjointAssumption
    DEF UntrackConn, Tracked, TrackedListeners, TrackedConns, serveVars
  <2>3. Gone' = Gone \cup {c}  BY <1>2 DEF UntrackConn, Gone, CallbacksFollow, serveVars
  <2>4. GS!Leave(c)  BY <1>2, <2>1, <2>2, <2>3, LeaveRefines DEF UntrackConn, historyVars
  <2>5. QED  BY <2>1, <2>4 DEF GS!Next, Tracked, TrackedListeners, TrackedConns
<1>3. ASSUME \/ ConnVeto(c) \/ HandshakeFail(c) \/ Handshake(c) \/ Dispatch(c)
             \/ HandlerReturn(c) \/ ChansClosed(c) \/ Complete(c) \/ ReturnAtOnce(c)
             \/ TransportFails(c) \/ NetError(c) \/ KeepAliveClose(c) \/ RequestTaken(c)
             \/ (\E on \in {"channel", "global"} : MuxBlocks(c, on))
             \/ MuxCloses(c) \/ MuxExits(c)
      PROVE  UNCHANGED GS!vars
  <2> USE DEF ConnVeto, HandshakeFail, Handshake, Dispatch, HandlerReturn, ChansClosed, Complete, ReturnAtOnce,
             TransportFails, NetError, KeepAliveClose, MuxBlocks, RequestTaken, MuxCloses, MuxExits, serverVars, serveVars,
             shutdownVars, historyVars
  <2>1. TrackedListeners' = TrackedListeners  BY <1>3 DEF TrackedListeners
  <2>2. TrackedConns' = TrackedConns  BY <1>3 DEF TrackedConns
  <2>3. Gone' = Gone  BY <1>3 DEF Gone, CallbacksFollow
  <2>4. UNCHANGED <<atShutdown, shutdown>>  BY <1>3
  <2>5. QED  BY <2>1, <2>2, <2>3, <2>4, Invisible DEF Tracked
<1>4. QED  BY <1>1, <1>2, <1>3 DEF HandleStep, ConnEnv

(* A Shutdown begins, drains or gives up; its goroutine's waits cannot be  *)
(* seen.                                                                   *)
LEMMA ShutdownRefines ==
  ASSUME IInv, NEW s \in Stopper, ShutdownStep(s) \/ ShutdownCall(s) \/ ShutdownExpired(s)
  PROVE  GS!Next \/ UNCHANGED GS!vars
<1> USE DEF IInv, TypeOK
<1>1. UNCHANGED <<serve, serveErr, handle, callbacks>>
  BY DEF ShutdownStep, ShutdownCall, ShutdownExpired, WaitListeners, WaitConns,
     ResumeListeners, ResumeConns, Resume, ShutdownDrained, StopListening, serveVars, handleVars
<1>2. Tracked' = Tracked /\ Gone' = Gone
  BY <1>1 DEF Tracked, TrackedListeners, TrackedConns, Gone
<1>3. CASE ShutdownCall(s)
  <2>1. [t \in Stopper |-> atShutdown'[t] \cap Tracked']
          = [[t \in Stopper |-> atShutdown[t] \cap Tracked] EXCEPT ![s] = Tracked]
    BY <1>2, <1>3 DEF ShutdownCall
  <2>2. GS!Begin(s)  BY <1>2, <1>3, <2>1 DEF ShutdownCall, GS!Begin
  <2>3. QED  BY <2>2 DEF GS!Next
<1>4. CASE ShutdownDrained(s)
  <2>1. atShutdown[s] \cap Tracked = {}
    BY <1>4 DEF ShutdownDrained, WaiterProgress, Pending, Tracked, TrackedListeners, TrackedConns
  <2>2. atShutdown' = atShutdown  BY <1>4 DEF ShutdownDrained, historyVars
  <2>3. GS!Drained(s)  BY <1>2, <1>4, <2>1, <2>2 DEF ShutdownDrained, GS!Drained
  <2>4. QED  BY <2>3 DEF GS!Next
<1>5. CASE ShutdownExpired(s)
  <2>1. atShutdown' = atShutdown  BY <1>5 DEF ShutdownExpired, historyVars
  <2>2. GS!Expired(s)  BY <1>2, <1>5, <2>1 DEF ShutdownExpired, GS!Expired
  <2>3. QED  BY <2>2 DEF GS!Next
<1>6. CASE WaitListeners(s) \/ WaitConns(s) \/ ResumeListeners(s) \/ ResumeConns(s)
  <2>1. UNCHANGED <<atShutdown, shutdown>>
    BY <1>6 DEF WaitListeners, WaitConns, ResumeListeners, ResumeConns, Resume, historyVars
  <2>2. QED  BY <1>2, <2>1, Invisible
<1>7. QED  BY <1>3, <1>4, <1>5, <1>6 DEF ShutdownStep

LEMMA CloseInvisible == ASSUME Close PROVE UNCHANGED GS!vars
<1>1. UNCHANGED <<serve, serveErr, handle, callbacks, atShutdown, shutdown>>
  BY DEF Close, shutdownVars
<1>2. Tracked' = Tracked /\ Gone' = Gone
  BY <1>1 DEF Tracked, TrackedListeners, TrackedConns, Gone
<1>3. QED  BY <1>1, <1>2, Invisible

(* Whatever Close and other Shutdowns do, a Shutdown waits for what was    *)
(* tracked when it was called, and only for that (server.go 340-364).      *)
THEOREM Refinement == Spec => ImplementsGracefulStop
<1>1. Init => Recognised /\ GS!Init
  <2> SUFFICES ASSUME Init PROVE Recognised /\ GS!Init  OBVIOUS
  <2>1. Tracked = {} /\ Gone = {}
    BY DEF Init, Tracked, TrackedListeners, TrackedConns, Gone
  <2>2. QED  BY <2>1 DEF Init, Recognised, GS!Init
<1>2. Spec => []Recognised
  BY <1>1, TypeCorrect, RecognisedKept, PTL DEF Spec
<1>3. ASSUME IInv, Recognised, CallbacksFollow, [Next]_vars PROVE [GS!Next]_(GS!vars)
  <2>1. CASE UNCHANGED vars
    <3>1. UNCHANGED <<serve, serveErr, handle, callbacks, atShutdown, shutdown>>
      BY <2>1 DEF vars, serveVars, handleVars, shutdownVars, historyVars
    <3>2. Tracked' = Tracked /\ Gone' = Gone
      BY <3>1 DEF Tracked, TrackedListeners, TrackedConns, Gone
    <3>3. QED  BY <3>1, <3>2, Invisible
  <2>2. CASE Next
    BY <1>3, <2>2, ServeRefines, HandleRefines, ShutdownRefines, CloseInvisible DEF Next
  <2>3. QED  BY <1>3, <2>1, <2>2
<1>4. QED  BY <1>1, <1>2, <1>3, IInvCorrect, CallbacksHold, PTL DEF Spec, GS!Spec, ImplementsGracefulStop

-----------------------------------------------------------------------------
(***************************************************************************)
(* The maps, the callbacks and the clean-up.                               *)
(***************************************************************************)

LEMMA MapsKept ==
  ASSUME TypeOK, MapsReachLive, [Next]_vars
  PROVE  MapsReachLive'
<1> USE DEF TypeOK, MapsReachLive, TrackedListeners, TrackedConns, ServePC, HandlePC, Transport
<1>1. ASSUME NEW l \in Listener, ServeStep(l) \/ ListenerEnv(l) PROVE MapsReachLive'
  BY <1>1 DEF ServeStep, ListenerEnv, ServeCall, ServeRefused, ServeNoHostKey, TrackListener,
     Accept, AcceptFails, ServeOnError, UntrackListener, ServeReturn, serverVars, serveVars, handleVars
<1>2. ASSUME NEW c \in Conn, HandleStep(c) \/ ConnEnv(c) PROVE MapsReachLive'
  BY <1>2 DEF HandleStep, ConnEnv, ConnVeto, HandshakeFail, Handshake, TrackConn, Dispatch,
     HandlerReturn, ChansClosed, UntrackConn, Complete, ReturnAtOnce, TransportFails, NetError, KeepAliveClose, MuxBlocks, RequestTaken,
     MuxCloses, MuxExits, serverVars, serveVars
<1>3. ASSUME NEW s \in Stopper, ShutdownStep(s) \/ ShutdownCall(s) \/ ShutdownExpired(s)
      PROVE  MapsReachLive'
  BY <1>3 DEF ShutdownStep, ShutdownCall, StopListening, ShutdownExpired, WaitListeners, WaitConns,
     ResumeListeners, ResumeConns, Resume, ShutdownDrained, serverVars, serveVars, handleVars
<1>4. CASE Close  BY <1>4 DEF Close, StopListening
<1>5. CASE UNCHANGED vars  BY <1>5 DEF vars, serverVars, serveVars, handleVars
<1>6. QED  BY <1>1, <1>2, <1>3, <1>4, <1>5 DEF Next

LEMMA MapsStart == Init => MapsReachLive
BY DEF Init, MapsReachLive, TrackedListeners, TrackedConns

(* What Close and Shutdown find in the maps is what is alive and tracked,  *)
(* for any number of Serves, connections and stops.                        *)
THEOREM MapsCorrect == Spec => []MapsReachLive
<1>1. TypeOK /\ MapsReachLive /\ [Next]_vars => MapsReachLive'  BY MapsKept
<1>2. QED  BY <1>1, TypeCorrect, MapsStart, PTL DEF Spec

(* The callbacks of a connection come in order, and the complete one when  *)
(* the server has let go of the connection.                                *)
THEOREM CallbacksInOrder == Spec => []CallbackOrder
<1>1. MapsReachLive /\ TypeOK /\ CallbacksFollow => CallbackOrder
  BY DEF MapsReachLive, TypeOK, CallbacksFollow, CallbackOrder, TrackedConns, HandlePC
<1>2. QED  BY <1>1, TypeCorrect, MapsCorrect, CallbacksHold, PTL

(* A connection that a Shutdown found serves on, or its closing callback   *)
(* has been called.                                                        *)
FoundServing ==
  \A s \in Stopper, c \in Conn :
    c \in atShutdown[s] => handle[c] = "serving" \/ "closing" \in callbacks[c]

LEMMA FoundServingKept ==
  ASSUME TypeOK, CallbacksFollow, FoundServing, [Next]_vars
  PROVE  FoundServing'
<1> USE DEF TypeOK, FoundServing
<1>1. ASSUME NEW c \in Conn, HandleStep(c) \/ ConnEnv(c) PROVE FoundServing'
  BY <1>1 DEF HandleStep, ConnEnv, ConnVeto, HandshakeFail, Handshake, TrackConn, Dispatch,
     HandlerReturn, ChansClosed, UntrackConn, Complete, ReturnAtOnce, TransportFails, NetError,
     KeepAliveClose, MuxBlocks, RequestTaken, MuxCloses, MuxExits, historyVars
<1>2. ASSUME NEW l \in Listener, ServeStep(l) \/ ListenerEnv(l) PROVE FoundServing'
  BY <1>2 DEF ServeStep, ListenerEnv, ServeCall, ServeRefused, ServeNoHostKey, TrackListener,
     Accept, AcceptFails, ServeOnError, UntrackListener, ServeReturn, handleVars, historyVars
<1>3. CASE UNCHANGED <<handleVars, atShutdown>>  BY <1>3 DEF handleVars
<1>4. CASE Close  BY <1>4 DEF Close
<1>5. ASSUME NEW s \in Stopper, ShutdownCall(s) PROVE FoundServing'
  <2>1. UNCHANGED handleVars /\ atShutdown' = [atShutdown EXCEPT ![s] = Tracked]
    BY <1>5 DEF ShutdownCall
  <2>2. \A c \in Conn : c \in Tracked => handle[c] = "serving" \/ "closing" \in callbacks[c]
    BY DisjointAssumption DEF CallbacksFollow, Tracked, TrackedListeners, TrackedConns
  <2>3. QED  BY <2>1, <2>2 DEF handleVars
<1>6. CASE \E s \in Stopper : ShutdownStep(s) \/ ShutdownExpired(s)
  BY <1>3, <1>6 DEF ShutdownStep, ShutdownExpired, WaitListeners, WaitConns, ResumeListeners,
     ResumeConns, Resume, ShutdownDrained, historyVars
<1>7. QED  BY <1>1, <1>2, <1>3, <1>4, <1>5, <1>6 DEF Next, vars, historyVars

(* What a Shutdown that returns nil found is closed, and the application   *)
(* has been told so, for any number of Serves, connections and stops.      *)
THEOREM DrainedAreClosed == Spec => []DrainedIsClosed
<1>1. Init => FoundServing  BY DEF Init, FoundServing
<1>2. Spec => []FoundServing
  BY <1>1, TypeCorrect, CallbacksHold, FoundServingKept, PTL DEF Spec
<1>3. TypeOK /\ CallbacksFollow /\ FoundServing /\ MapsReachLive /\ ShutdownMeansDrained
        => DrainedIsClosed
  BY DEF TypeOK, CallbacksFollow, FoundServing, MapsReachLive, ShutdownMeansDrained,
     DrainedIsClosed, Tracked, TrackedConns
<1>4. QED  BY <1>2, <1>3, TypeCorrect, CallbacksHold, MapsCorrect, ShutdownDrains, PTL

-----------------------------------------------------------------------------
(***************************************************************************)
(* Liveness.  The prover takes ENABLED as it stands, so that the theorems  *)
(* start from NobodyBlocks, which says when the fair steps can be taken.   *)
(***************************************************************************)

(* How far a connection whose transport has failed is from its end: every  *)
(* step of HandleConn and of the mux takes it further, none takes it back. *)
HandleRank ==
  [pc \in HandlePC |-> CASE pc = "handshook" -> 1 [] pc = "serving"   -> 2
                         [] pc = "closing"   -> 3 [] pc = "untracked" -> 4
                         [] pc = "done"      -> 5 [] OTHER            -> 0]
TransportRank ==
  [t \in Transport |-> CASE t = "draining" -> 1 [] t = "down" -> 2 [] OTHER -> 0]

ConnRank(c) == HandleRank[handle[c]] + TransportRank[transport[c]]

ConnPast(c, k) ==
  panicked \/ (handle[c] # "none" /\ transport[c] # "up" /\ ConnRank(c) >= k)

(* No transport fails before its connection is accepted, the mux starts    *)
(* with the handshake, and HandleConn leaves its loop once it drains.      *)
TransportFollows ==
  \A c \in Conn :
    /\ handle[c] = "none" => transport[c] = "up"
    /\ handle[c] = "accepted" => transport[c] \in {"up", "dead"}
    /\ handle[c] \in {"closing", "untracked", "done"} => transport[c] \in {"draining", "down"}

LEMMA TransportFollowsKept ==
  ASSUME TypeOK, MapsReachLive, TransportFollows, [Next]_vars
  PROVE  TransportFollows'
<1> USE DEF TypeOK, TransportFollows, HandlePC, Transport
<1>1. ASSUME NEW c \in Conn, HandleStep(c) \/ ConnEnv(c) PROVE TransportFollows'
  BY <1>1 DEF HandleStep, ConnEnv, ConnVeto, HandshakeFail, Handshake, TrackConn, Dispatch,
     HandlerReturn, ChansClosed, UntrackConn, Complete, ReturnAtOnce, TransportFails, NetError, KeepAliveClose, MuxBlocks, RequestTaken,
     MuxCloses, MuxExits
<1>2. ASSUME NEW l \in Listener, ServeStep(l) \/ ListenerEnv(l) PROVE TransportFollows'
  BY <1>2 DEF ServeStep, ListenerEnv, ServeCall, ServeRefused, ServeNoHostKey, TrackListener,
     Accept, AcceptFails, ServeOnError, UntrackListener, ServeReturn, handleVars
<1>3. CASE UNCHANGED handleVars  BY <1>3 DEF handleVars
<1>4. CASE Close  BY <1>4 DEF Close, MapsReachLive, TrackedConns
<1>5. CASE \E s \in Stopper : ShutdownStep(s) \/ ShutdownCall(s) \/ ShutdownExpired(s)
  BY <1>3, <1>5 DEF ShutdownStep, ShutdownCall, ShutdownExpired, WaitListeners, WaitConns,
     ResumeListeners, ResumeConns, Resume, ShutdownDrained
<1>6. QED  BY <1>1, <1>2, <1>3, <1>4, <1>5 DEF Next, vars

LEMMA TransportFollowsHolds == Spec => []TransportFollows
<1>1. Init => TransportFollows  BY DEF Init, TransportFollows
<1>2. TypeOK /\ MapsReachLive /\ TransportFollows /\ [Next]_vars => TransportFollows'
  BY TransportFollowsKept
<1>3. QED  BY <1>1, <1>2, TypeCorrect, MapsCorrect, PTL DEF Spec

(* What a step makes of a connection's goroutines, whoever takes it.       *)
ConnMoves(c) ==
  \/ UNCHANGED <<handle[c], transport[c]>>
  \/ UNCHANGED transport[c] /\ <<handle[c], handle'[c]>> \in HandleMoves
  \/ handle[c] = "accepted" /\ handle'[c] = "done" /\ transport'[c] = "down"
  \/ UNCHANGED handle[c] /\ transport[c] = "up" /\ transport'[c] = "dead"
  \/ UNCHANGED handle[c] /\ transport[c] = "dead" /\ transport'[c] = "draining"
  \/ UNCHANGED handle[c] /\ transport[c] = "draining" /\ transport'[c] = "down"

LEMMA ConnStepMoves ==
  ASSUME TypeOK, [Next]_vars, NEW c \in Conn
  PROVE  ConnMoves(c)
<1> USE DEF TypeOK, ConnMoves, HandleMoves
<1>1. CASE UNCHANGED handleVars
  BY <1>1 DEF handleVars
<1>2. CASE \E l \in Listener : ServeStep(l) \/ ListenerEnv(l)
  BY <1>1, <1>2 DEF ServeStep, ListenerEnv, ServeCall, ServeRefused, ServeNoHostKey,
     TrackListener, Accept, AcceptFails, ServeOnError, UntrackListener, ServeReturn
<1>3. CASE \E k \in Conn : HandleStep(k) \/ ConnEnv(k)
  BY <1>3 DEF HandleStep, ConnEnv, ConnVeto, HandshakeFail, Handshake, TrackConn,
     Dispatch, HandlerReturn, ChansClosed, UntrackConn, Complete, ReturnAtOnce, TransportFails, NetError,
     KeepAliveClose, MuxBlocks, RequestTaken, MuxCloses, MuxExits
<1>4. CASE Close  BY <1>4 DEF Close
<1>5. CASE \E s \in Stopper : ShutdownStep(s) \/ ShutdownCall(s) \/ ShutdownExpired(s)
  BY <1>1, <1>5 DEF ShutdownStep, ShutdownCall, ShutdownExpired, WaitListeners,
     WaitConns, ResumeListeners, ResumeConns, Resume, ShutdownDrained
<1> QED BY <1>1, <1>2, <1>3, <1>4, <1>5 DEF Next, vars

LEMMA Ranks ==
  /\ HandleRank["none"] = 0 /\ HandleRank["accepted"] = 0 /\ HandleRank["handshook"] = 1
  /\ HandleRank["serving"] = 2 /\ HandleRank["closing"] = 3 /\ HandleRank["untracked"] = 4
  /\ HandleRank["done"] = 5
  /\ TransportRank["up"] = 0 /\ TransportRank["dead"] = 0 /\ TransportRank["draining"] = 1
  /\ TransportRank["down"] = 2
BY DEF HandleRank, TransportRank, HandlePC, Transport

LEMMA RankTypes ==
  ASSUME NEW pc \in HandlePC, NEW t \in Transport
  PROVE  HandleRank[pc] \in 0..5 /\ TransportRank[t] \in 0..2
BY Ranks DEF HandlePC, Transport

LEMMA ConnRankIsInt ==
  ASSUME TypeOK, [Next]_vars, NEW c \in Conn
  PROVE  ConnRank(c) \in Int /\ ConnRank(c)' \in Int
<1>1. handle[c] \in HandlePC /\ transport[c] \in Transport  BY DEF TypeOK
<1>2. handle'[c] \in HandlePC /\ transport'[c] \in Transport
  BY TypeStep DEF TypeOK
<1>3. QED  BY <1>1, <1>2, RankTypes DEF ConnRank

(* A connection that is past a rank stays past it. *)
LEMMA ConnNeverBack ==
  ASSUME TypeOK, TransportFollows, [Next]_vars, NEW c \in Conn, NEW k \in 0..7, ConnPast(c, k)
  PROVE  ConnPast(c, k)'
<1>1. CASE panicked
  <2>1. panicked' = panicked  BY <1>1 DEF Next, vars, shutdownVars
  <2>2. QED  BY <1>1, <2>1 DEF ConnPast
<1>2. CASE ~panicked
  <2>1. handle[c] # "none" /\ transport[c] # "up" /\ ConnRank(c) >= k
    BY <1>2 DEF ConnPast
  <2>2. handle'[c] # "none" /\ transport'[c] # "up" /\ ConnRank(c)' >= ConnRank(c)
    BY <2>1, ConnStepMoves, Ranks DEF TypeOK, TransportFollows, HandlePC, Transport, ConnMoves,
       HandleMoves, ConnRank
  <2>3. ConnRank(c) \in Int /\ ConnRank(c)' \in Int  BY ConnRankIsInt
  <2>4. QED  BY <2>1, <2>2, <2>3 DEF ConnPast
<1>3. QED  BY <1>1, <1>2

(* A step of its own goroutines takes it further. *)
LEMMA ConnGetsFurther ==
  ASSUME TypeOK, TransportFollows, NEW c \in Conn, NEW k \in 0..6, ConnPast(c, k),
         HandleRuns(c) \/ HandshakeEnds(c)
  PROVE  ConnPast(c, k + 1)'
<1>1. handle[c] # "none" /\ transport[c] # "up" /\ ConnRank(c) >= k
  BY DEF ConnPast, HandleRuns, HandshakeEnds
<1>2. [Next]_vars
  BY DEF HandleRuns, HandshakeEnds, Next, ConnEnv
<1>3. /\ handle'[c] # "none" /\ transport'[c] # "up"
      /\ ConnRank(c)' >= ConnRank(c) + 1
  BY <1>1, Ranks DEF HandleRuns, HandshakeEnds, HandshakeFail, HandleStep, TrackConn, ChansClosed,
     UntrackConn, Complete, ReturnAtOnce, MuxCloses, MuxExits, TypeOK, TransportFollows, HandlePC, Transport,
     ConnRank
<1>4. ConnRank(c) \in Int /\ ConnRank(c)' \in Int  BY <1>2, ConnRankIsInt
<1>5. QED  BY <1>1, <1>3, <1>4 DEF ConnPast

ConnInv == TypeOK /\ TransportFollows

ConnAdvances(c, k, n) == ConnPast(c, k) ~> ConnPast(c, n)

ConnLive(c) ==
  [](ConnInv /\ NobodyBlocks) /\ [][Next]_vars /\ HandleFair(c) /\ <>[]~Blocked(c)

LEMMA ConnAdvance ==
  ASSUME NEW c \in Conn, NEW k \in 0..6, NEW n, n = k + 1
  PROVE  ConnLive(c) => ConnAdvances(c, k, n)
<1> DEFINE Accepted == handle[c] = "accepted"
<1>1. ConnInv /\ ConnPast(c, k) /\ [Next]_vars => ConnPast(c, k)'
  BY ConnNeverBack DEF ConnInv
<1>2. ConnInv /\ ConnPast(c, k) /\ <<HandleRuns(c)>>_vars => ConnPast(c, n)'
  BY ConnGetsFurther DEF ConnInv
<1>3. ConnInv /\ ConnPast(c, k) /\ <<HandshakeEnds(c)>>_vars => ConnPast(c, n)'
  BY ConnGetsFurther DEF ConnInv
<1>4. ConnInv /\ NobodyBlocks /\ ~Blocked(c) /\ ConnPast(c, k) =>
        \/ ConnPast(c, n)
        \/ ENABLED <<HandleRuns(c)>>_vars /\ ~Accepted
        \/ ENABLED <<HandshakeEnds(c)>>_vars /\ Accepted
  BY Ranks DEF ConnInv, TypeOK, TransportFollows, HandlePC, Transport, NobodyBlocks, ConnPast,
     ConnRank
<1>5. ConnInv /\ ConnPast(c, k) /\ ~ConnPast(c, n) /\ ~Accepted /\ [Next]_vars => ~Accepted'
  <2> SUFFICES ASSUME ConnInv, ConnPast(c, k), ~ConnPast(c, n), ~Accepted, [Next]_vars
               PROVE  ~Accepted'
    OBVIOUS
  <2>1. handle[c] # "none" /\ handle[c] # "accepted"  BY DEF ConnPast
  <2>2. QED
    BY <2>1, ConnStepMoves DEF ConnInv, ConnMoves, HandleMoves, TypeOK, HandlePC
<1>6. QED  BY <1>1, <1>2, <1>3, <1>4, <1>5, PTL DEF ConnLive, HandleFair, ConnAdvances

(* A connection whose transport has failed ends, at whatever point its     *)
(* goroutines are and whatever its channel handlers do, but for requests   *)
(* that keep its mux waiting again and again (server.go 455-514).          *)
THEOREM ConnsEnd == []NobodyBlocks /\ FairSpec => ConnEnds
<1> SUFFICES ASSUME NEW c \in Conn
             PROVE  []NobodyBlocks /\ FairSpec =>
                      []((handle[c] # "none" /\ transport[c] # "up") =>
                           \/ <>(handle[c] = "done" \/ panicked)
                           \/ []<>Blocked(c))
  BY DEF ConnEnds
<1>1. /\ ConnLive(c) => ConnAdvances(c, 0, 1)
      /\ ConnLive(c) => ConnAdvances(c, 1, 2)
      /\ ConnLive(c) => ConnAdvances(c, 2, 3)
      /\ ConnLive(c) => ConnAdvances(c, 3, 4)
      /\ ConnLive(c) => ConnAdvances(c, 4, 5)
      /\ ConnLive(c) => ConnAdvances(c, 5, 6)
      /\ ConnLive(c) => ConnAdvances(c, 6, 7)
  BY ConnAdvance
<1>2. ConnInv /\ handle[c] # "none" /\ transport[c] # "up" => ConnPast(c, 0)
  BY Ranks DEF ConnInv, TypeOK, HandlePC, Transport, ConnPast, ConnRank
<1>3. ConnInv /\ ConnPast(c, 7) => handle[c] = "done" \/ panicked
  BY Ranks DEF ConnInv, TypeOK, HandlePC, Transport, ConnPast, ConnRank
<1>4. Fairness => HandleFair(c)  BY DEF Fairness
<1>5. QED
  BY <1>1, <1>2, <1>3, <1>4, TypeCorrect, TransportFollowsHolds, PTL
  DEF FairSpec, Spec, ConnLive, ConnInv, ConnAdvances

-----------------------------------------------------------------------------
(* How far a Serve that was interrupted is from its return.  A temporary   *)
(* error may make it accept once more, on a listener that is closed.       *)
ServeRank(l) ==
  CASE serve[l] = "accepting"                                  -> 1
    [] serve[l] = "failed" /\ acceptErr[l] # "temporary"       -> 2
    [] serve[l] = "unwinding"                                  -> 3
    [] serve[l] = "closing"                                    -> 4
    [] serve[l] = "returned"                                   -> 5
    [] OTHER                                                   -> 0

ServePast(l, k) == panicked \/ (interrupted[l] = "accepting" /\ ServeRank(l) >= k)

(* What Close and Shutdown interrupt while it accepts has its listener     *)
(* closed for good.                                                        *)
InterruptedIsClosed ==
  \A l \in Listener : interrupted[l] = "accepting" =>
    ~lnOpen[l] /\ serve[l] \notin {"idle", "starting"}

StopInv == TypeOK /\ InterruptedIsClosed

(* What a step makes of an interrupted Serve, whoever takes it.            *)
ServeGoes(l) ==
  \/ UNCHANGED <<serve[l], acceptErr[l]>>
  \/ serve[l] = "accepting" /\ serve'[l] = "failed" /\ acceptErr'[l] = "closed"
  \/ serve[l] = "failed" /\ acceptErr[l] = "temporary" /\ serve'[l] = "accepting"
  \/ serve[l] = "failed" /\ serve'[l] = "unwinding"
  \/ serve[l] = "unwinding" /\ serve'[l] = "closing"
  \/ serve[l] = "closing" /\ serve'[l] = "returned"

LEMMA InterruptedServe ==
  ASSUME StopInv, [Next]_vars, NEW l \in Listener, interrupted[l] = "accepting"
  PROVE  ServeGoes(l) /\ interrupted'[l] = "accepting"
<1> USE DEF StopInv, TypeOK, InterruptedIsClosed, ServeGoes
<1>1. CASE UNCHANGED <<serveVars, interrupted>>
  BY <1>1 DEF serveVars
<1>2. CASE \E k \in Listener : ServeStep(k) \/ ListenerEnv(k)
  BY <1>2 DEF ServeStep, ListenerEnv, ServeCall, ServeRefused, ServeNoHostKey, TrackListener,
     Accept, AcceptFails, ServeOnError, UntrackListener, ServeReturn, serveVars, historyVars
<1>3. CASE \E c \in Conn : HandleStep(c) \/ ConnEnv(c)
  BY <1>1, <1>3 DEF HandleStep, ConnEnv, ConnVeto, HandshakeFail, Handshake, TrackConn,
     Dispatch, HandlerReturn, ChansClosed, UntrackConn, Complete, ReturnAtOnce, TransportFails, NetError,
     KeepAliveClose, MuxBlocks, RequestTaken, MuxCloses, MuxExits, historyVars
<1>4. CASE Close \/ \E s \in Stopper : ShutdownStep(s) \/ ShutdownCall(s) \/ ShutdownExpired(s)
  BY <1>1, <1>4 DEF Close, ShutdownStep, ShutdownCall, StopListening, ShutdownExpired,
     WaitListeners, WaitConns, ResumeListeners, ResumeConns, Resume, ShutdownDrained, historyVars
<1> QED BY <1>1, <1>2, <1>3, <1>4 DEF Next, vars, historyVars

LEMMA InterruptedIsClosedKept ==
  ASSUME TypeOK, MapsReachLive, InterruptedIsClosed, [Next]_vars
  PROVE  InterruptedIsClosed'
<1> USE DEF TypeOK, InterruptedIsClosed
<1>1. CASE UNCHANGED <<serveVars, interrupted>>
  BY <1>1 DEF serveVars
<1>2. CASE \E k \in Listener : ServeStep(k) \/ ListenerEnv(k)
  BY <1>2 DEF ServeStep, ListenerEnv, ServeCall, ServeRefused, ServeNoHostKey, TrackListener,
     Accept, AcceptFails, ServeOnError, UntrackListener, ServeReturn, serveVars, historyVars
<1>3. CASE \E c \in Conn : HandleStep(c) \/ ConnEnv(c)
  BY <1>1, <1>3 DEF HandleStep, ConnEnv, ConnVeto, HandshakeFail, Handshake, TrackConn,
     Dispatch, HandlerReturn, ChansClosed, UntrackConn, Complete, ReturnAtOnce, TransportFails, NetError,
     KeepAliveClose, MuxBlocks, RequestTaken, MuxCloses, MuxExits, historyVars
<1>4. CASE Close \/ \E s \in Stopper : ShutdownCall(s)
  <2> SUFFICES ASSUME NEW l \in Listener, interrupted'[l] = "accepting"
               PROVE  ~lnOpen'[l] /\ serve'[l] \notin {"idle", "starting"}
    OBVIOUS
  <2>1. UNCHANGED serve /\ StopListening  BY <1>4 DEF Close, ShutdownCall
  <2>2. \/ interrupted[l] = "accepting"
        \/ serve[l] \in {"accepting", "failed"}
    BY <2>1 DEF StopListening
  <2>3. ~lnOpen[l] \/ l \in listeners
    BY <2>2 DEF MapsReachLive, TrackedListeners
  <2>4. ~lnOpen'[l]  BY <2>1, <2>3 DEF StopListening
  <2>5. QED  BY <2>1, <2>2, <2>4
<1>5. CASE \E s \in Stopper : ShutdownStep(s) \/ ShutdownExpired(s)
  BY <1>1, <1>5 DEF ShutdownStep, ShutdownExpired, WaitListeners, WaitConns, ResumeListeners,
     ResumeConns, Resume, ShutdownDrained, historyVars
<1> QED BY <1>1, <1>2, <1>3, <1>4, <1>5 DEF Next, vars, historyVars

LEMMA StopInvHolds == Spec => []StopInv
<1>1. Init => InterruptedIsClosed  BY DEF Init, InterruptedIsClosed
<1>2. TypeOK /\ MapsReachLive /\ InterruptedIsClosed /\ [Next]_vars => InterruptedIsClosed'
  BY InterruptedIsClosedKept
<1>3. QED  BY <1>1, <1>2, TypeCorrect, MapsCorrect, PTL DEF Spec, StopInv

LEMMA ServeNeverBack ==
  ASSUME StopInv, [Next]_vars, NEW l \in Listener, NEW k \in 0..5, ServePast(l, k)
  PROVE  ServePast(l, k)'
<1>1. CASE panicked
  <2>1. panicked' = panicked  BY <1>1 DEF Next, vars, shutdownVars
  <2>2. QED  BY <1>1, <2>1 DEF ServePast
<1>2. CASE ~panicked
  BY <1>2, InterruptedServe DEF ServePast, ServeRank, ServeGoes, StopInv, TypeOK, ServePC
<1>3. QED  BY <1>1, <1>2

LEMMA ServeGetsFurther ==
  ASSUME StopInv, NEW l \in Listener, NEW k \in 0..4, ServePast(l, k), ServeRuns(l)
  PROVE  ServePast(l, k + 1)'
<1>1. [Next]_vars  BY DEF ServeRuns, Next
<1>2. interrupted[l] = "accepting" /\ ServeRank(l) >= k  BY DEF ServePast, ServeRuns
<1>3. interrupted'[l] = "accepting"  BY <1>1, <1>2, InterruptedServe
<1>4. ServeRank(l)' >= k + 1
  BY <1>2 DEF StopInv, TypeOK, InterruptedIsClosed, ServePC, ServeRank, ServeRuns, ServeStep,
     TrackListener, AcceptFails, ServeOnError, UntrackListener, ServeReturn
<1>5. QED  BY <1>3, <1>4 DEF ServePast

ServeAdvances(l, k, n) == ServePast(l, k) ~> ServePast(l, n)

ServeLive(l) == [](StopInv /\ NobodyBlocks) /\ [][Next]_vars /\ ServeFair(l)

LEMMA ServeAdvance ==
  ASSUME NEW l \in Listener, NEW k \in 0..4, NEW n, n = k + 1
  PROVE  ServeLive(l) => ServeAdvances(l, k, n)
<1>1. StopInv /\ ServePast(l, k) /\ [Next]_vars => ServePast(l, k)'
  BY ServeNeverBack
<1>2. StopInv /\ ServePast(l, k) /\ <<ServeRuns(l)>>_vars => ServePast(l, n)'
  BY ServeGetsFurther
<1>3. StopInv /\ NobodyBlocks /\ ServePast(l, k) =>
        ServePast(l, n) \/ ENABLED <<ServeRuns(l)>>_vars
  BY DEF StopInv, TypeOK, ServePC, InterruptedIsClosed, NobodyBlocks, ServePast, ServeRank
<1>4. QED  BY <1>1, <1>2, <1>3, PTL DEF ServeLive, ServeFair, ServeAdvances

(* A Serve that was accepting when Close or Shutdown came returns, even if *)
(* a temporary error makes it accept again and another Serve has reset     *)
(* doneChan meanwhile (server.go 377-423).                                 *)
THEOREM StoppedServesReturn == []NobodyBlocks /\ FairSpec => StoppedServeReturns
<1> SUFFICES ASSUME NEW l \in Listener
             PROVE  []NobodyBlocks /\ FairSpec =>
                      ((interrupted[l] = "accepting") ~> (serve[l] = "returned" \/ panicked))
  BY DEF StoppedServeReturns
<1>1. /\ ServeLive(l) => ServeAdvances(l, 0, 1)
      /\ ServeLive(l) => ServeAdvances(l, 1, 2)
      /\ ServeLive(l) => ServeAdvances(l, 2, 3)
      /\ ServeLive(l) => ServeAdvances(l, 3, 4)
      /\ ServeLive(l) => ServeAdvances(l, 4, 5)
  BY ServeAdvance
<1>2. interrupted[l] = "accepting" => ServePast(l, 0)
  BY DEF ServePast, ServeRank
<1>3. ServePast(l, 5) => serve[l] = "returned" \/ panicked
  BY DEF ServePast, ServeRank
<1>4. Fairness => ServeFair(l)  BY DEF Fairness
<1>5. QED
  BY <1>1, <1>2, <1>3, <1>4, StopInvHolds, PTL DEF FairSpec, Spec, ServeLive, ServeAdvances

-----------------------------------------------------------------------------
(* No wakeup is lost: a goroutine of Shutdown is parked on a WaitGroup only *)
(* while that is in use.                                                   *)
ParkedInUse ==
  \A s \in Stopper :
    /\ waiter[s] = "listenerParked" => listenerWg > 0
    /\ waiter[s] = "connParked" => connWg > 0
    /\ shutdown[s] = "waiting" => waiter[s] # "none"

WaitInv == TypeOK /\ listenerWg \in Nat /\ connWg \in Nat /\ ParkedInUse

LEMMA ParkedInUseKept ==
  ASSUME WaitInv, [Next]_vars
  PROVE  ParkedInUse'
<1> USE DEF WaitInv, TypeOK, ParkedInUse, WaiterPC
<1>1. CASE UNCHANGED <<listenerWg, connWg, shutdown, waiter>>
  BY <1>1
<1>2. ASSUME NEW l \in Listener, UntrackListener(l) PROVE ParkedInUse'
  BY <1>2 DEF UntrackListener, Release
<1>3. ASSUME NEW c \in Conn, UntrackConn(c) PROVE ParkedInUse'
  BY <1>3 DEF UntrackConn, Release
<1>4. CASE \E l \in Listener : ServeStep(l) \/ ListenerEnv(l)
  BY <1>1, <1>2, <1>4 DEF ServeStep, ListenerEnv, ServeCall, ServeRefused, ServeNoHostKey,
     TrackListener, Accept, AcceptFails, ServeOnError, ServeReturn, serverVars, shutdownVars
<1>5. CASE \E c \in Conn : HandleStep(c) \/ ConnEnv(c)
  BY <1>1, <1>3, <1>5 DEF HandleStep, ConnEnv, ConnVeto, HandshakeFail, Handshake, TrackConn,
     Dispatch, HandlerReturn, ChansClosed, Complete, ReturnAtOnce, TransportFails, NetError, KeepAliveClose, MuxBlocks, RequestTaken, MuxCloses,
     MuxExits, serverVars, shutdownVars
<1>6. CASE Close \/ \E s \in Stopper : ShutdownCall(s)
  BY <1>6 DEF Close, ShutdownCall, shutdownVars
<1>7. CASE \E s \in Stopper : ShutdownStep(s) \/ ShutdownExpired(s)
  BY <1>7 DEF ShutdownStep, ShutdownExpired, WaitListeners, WaitConns, ResumeListeners,
     ResumeConns, Resume, ShutdownDrained, serverVars
<1> QED BY <1>1, <1>4, <1>5, <1>6, <1>7 DEF Next, vars, serverVars, shutdownVars

LEMMA WaitInvHolds == Spec => []WaitInv
<1>1. Init => ParkedInUse  BY DEF Init, ParkedInUse
<1>2. CountersMatch => listenerWg \in Nat /\ connWg \in Nat
  BY TrackedFinite, FS_CardinalityType DEF CountersMatch
<1>3. WaitInv /\ [Next]_vars => ParkedInUse'  BY ParkedInUseKept
<1>4. QED  BY <1>1, <1>2, <1>3, TypeCorrect, CountersCorrect, PTL DEF Spec, WaitInv

(* The stages of a Shutdown once neither WaitGroup is in use.              *)
Pends(s)   == shutdown[s] = "waiting" /\ ~panicked
OnServes(s) == Pends(s) /\ waiter[s] \in {"listenerWg", "listenerWoken"}
OnConns(s)  == Pends(s) /\ waiter[s] \in {"connWg", "connWoken"}
Through(s)  == Pends(s) /\ waiter[s] = "finished"

LEMMA ShutdownStages ==
  ASSUME WaitInv, [Next]_vars, NEW s \in Stopper, ~Serving, ~Serving'
  PROVE  /\ OnServes(s) => OnServes(s)' \/ OnConns(s)' \/ ~Pends(s)'
         /\ OnConns(s) => OnConns(s)' \/ Through(s)' \/ ~Pends(s)'
         /\ Through(s) => Through(s)' \/ ~Pends(s)'
<1> USE DEF WaitInv, TypeOK, WaiterPC, Serving, Pends, OnServes, OnConns, Through
<1>1. CASE UNCHANGED <<shutdown, waiter>>
  BY <1>1
<1>2. CASE \E l \in Listener : ServeStep(l) \/ ListenerEnv(l)
  BY <1>1, <1>2 DEF ServeStep, ListenerEnv, ServeCall, ServeRefused, ServeNoHostKey,
     TrackListener, Accept, AcceptFails, ServeOnError, UntrackListener, Release, ServeReturn,
     shutdownVars
<1>3. CASE \E c \in Conn : HandleStep(c) \/ ConnEnv(c)
  BY <1>1, <1>3 DEF HandleStep, ConnEnv, ConnVeto, HandshakeFail, Handshake, TrackConn,
     Dispatch, HandlerReturn, ChansClosed, UntrackConn, Release, Complete, ReturnAtOnce, TransportFails, NetError,
     KeepAliveClose, MuxBlocks, RequestTaken, MuxCloses, MuxExits, shutdownVars
<1>4. CASE Close \/ \E t \in Stopper : ShutdownCall(t)
  BY <1>4 DEF Close, ShutdownCall, shutdownVars
<1>5. CASE \E t \in Stopper : ShutdownStep(t) \/ ShutdownExpired(t)
  BY <1>5 DEF ShutdownStep, ShutdownExpired, WaitListeners, WaitConns, ResumeListeners,
     ResumeConns, Resume, ShutdownDrained, serverVars
<1> QED BY <1>1, <1>2, <1>3, <1>4, <1>5 DEF Next, vars, shutdownVars

LEMMA ShutdownMoves ==
  ASSUME WaitInv, NEW s \in Stopper, ~Serving, ShutdownRuns(s)
  PROVE  /\ OnServes(s) => OnConns(s)'
         /\ OnConns(s) => Through(s)'
         /\ Through(s) => ~Pends(s)'
BY DEF WaitInv, TypeOK, WaiterPC, Serving, Pends, OnServes, OnConns, Through, ShutdownRuns,
   ShutdownStep, WaitListeners, WaitConns, ResumeListeners, ResumeConns, Resume, ShutdownDrained,
   serverVars

(* No wakeup is lost, for any number of Shutdowns: one returns, unless the *)
(* WaitGroups are in use again and again (server.go 340-364).              *)
THEOREM ShutdownsReturn == []NobodyBlocks /\ FairSpec => ShutdownReturns
<1> SUFFICES ASSUME NEW s \in Stopper
             PROVE  []NobodyBlocks /\ FairSpec =>
                      [](shutdown[s] = "waiting" =>
                           \/ <>(shutdown[s] # "waiting" \/ panicked)
                           \/ []<>Serving)
  BY DEF ShutdownReturns
<1>1. WaitInv /\ ~Serving /\ shutdown[s] = "waiting" =>
        OnServes(s) \/ OnConns(s) \/ Through(s) \/ ~Pends(s)
  BY DEF WaitInv, TypeOK, WaiterPC, ParkedInUse, Serving, Pends, OnServes, OnConns, Through
<1>2. ~(shutdown[s] = "waiting") \/ ~Pends(s) => shutdown[s] # "waiting" \/ panicked  BY DEF Pends
<1>3. NobodyBlocks /\ (OnServes(s) \/ OnConns(s) \/ Through(s)) => ENABLED <<ShutdownRuns(s)>>_vars
  BY DEF NobodyBlocks, Pends, OnServes, OnConns, Through
<1>4. WaitInv /\ ~Serving /\ ~Serving' /\ [Next]_vars =>
        /\ OnServes(s) => OnServes(s)' \/ OnConns(s)' \/ ~Pends(s)'
        /\ OnConns(s) => OnConns(s)' \/ Through(s)' \/ ~Pends(s)'
        /\ Through(s) => Through(s)' \/ ~Pends(s)'
  BY ShutdownStages
<1>5. WaitInv /\ ~Serving /\ <<ShutdownRuns(s)>>_vars =>
        /\ OnServes(s) => OnConns(s)'
        /\ OnConns(s) => Through(s)'
        /\ Through(s) => ~Pends(s)'
  BY ShutdownMoves
<1>6. Fairness => ShutdownFair(s)  BY DEF Fairness
<1>7. QED
  BY <1>1, <1>2, <1>3, <1>4, <1>5, <1>6, WaitInvHolds, PTL DEF FairSpec, Spec, ShutdownFair
=============================================================================
