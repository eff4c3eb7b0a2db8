------------------------- MODULE ForwardedUnixProofs ------------------------
(***************************************************************************)
(* Proofs about ForwardedUnix for any set of connections, paths and        *)
(* listeners: IInv is inductive, so a forward that accepts can always be   *)
(* cancelled, a cancelled one accepts no more, no entry stays behind, and  *)
(* a forward ends with its connection.                                     *)
(* Every part of IInv is preserved by a lemma of its own; each needs only  *)
(* the parts it assumes.                                                   *)
(***************************************************************************)
EXTENDS ForwardedUnix, TLAPS

(* Initially every part of IInv holds: there is no listener. *)
LEMMA InitIInv == Init => IInv
  BY NoneAssumption DEF Init, IInv, TypeOK, OnePerPath, FreshListeners, UnusedListeners,
     OpenIsRegistered, NoStaleEntry, CancelTargets, CancelFreesPath, ReqPC, WatcherPC, AcceptorPC

(* Every step keeps the type invariant. *)
LEMMA TypeStep == TypeOK /\ UnusedListeners /\ FreshListeners /\ [Next]_vars => TypeOK'
<1> SUFFICES ASSUME TypeOK, UnusedListeners, FreshListeners, [Next]_vars PROVE TypeOK'
  OBVIOUS
<1> USE NoneAssumption DEF TypeOK, ReqPC, WatcherPC, AcceptorPC
<1>1. ASSUME NEW c \in Conn, NEW p \in Path, ForwardChecks(c, p) PROVE TypeOK'
  BY <1>1 DEF ForwardChecks, lnVars, goVars
<1>2. ASSUME NEW c \in Conn, NEW l \in Listener, ForwardListens(c, l) PROVE TypeOK'
  <2> DEFINE p == reqPath[c]
  <2>1. /\ p \in Path /\ lnPath' = [lnPath EXCEPT ![l] = p] /\ lnOwner' = [lnOwner EXCEPT ![l] = c]
        /\ lnOpen' = [lnOpen EXCEPT ![l] = TRUE] /\ cancelled' = cancelled \ {<<c, p>>}
    BY <1>2 DEF ForwardListens
  <2>2. /\ req' = [req EXCEPT ![c] = "listened"] /\ reqLn' = [reqLn EXCEPT ![c] = l]
        /\ UNCHANGED <<forwards, ctxDone, reqPath, goVars>> /\ req[c] = "checked"
    BY <1>2 DEF ForwardListens
  <2>3. cancelled' \subseteq Conn \X Path
    BY <2>1
  <2> HIDE DEF p
  <2>4. /\ lnPath' \in [Listener -> Path \cup {None}] /\ lnOwner' \in [Listener -> Conn \cup {None}]
        /\ lnOpen' \in [Listener -> BOOLEAN]
        /\ \A k \in Listener : lnOpen'[k] \/ watcher'[k] # "none" \/ acceptor'[k] # "none"
                           => lnPath'[k] \in Path /\ lnOwner'[k] \in Conn
    BY <2>1, <2>2 DEF goVars
  <2>5. /\ req' \in [Conn -> ReqPC] /\ reqLn' \in [Conn -> Listener \cup {None}]
        /\ \A d \in Conn : req'[d] # "none" => reqPath'[d] \in Path
        /\ \A d \in Conn : req'[d] \in {"listened", "closing"} => reqLn'[d] \in Listener
    BY <2>2
  <2> QED
    BY <2>2, <2>3, <2>4, <2>5 DEF goVars
<1>3. ASSUME NEW c \in Conn, ForwardFails(c) PROVE TypeOK'
  BY <1>3 DEF ForwardFails, Answer, lnVars, goVars
<1>4. ASSUME NEW c \in Conn, ForwardRegisters(c) PROVE TypeOK'
  <2> DEFINE l == reqLn[c]
             p == reqPath[c]
  <2>1. l \in Listener /\ p \in Path /\ lnOpen[l]
    BY <1>4 DEF ForwardRegisters, FreshListeners
  <2>2. /\ forwards' = [forwards EXCEPT ![p] = l] /\ watcher' = [watcher EXCEPT ![l] = "waiting"]
        /\ acceptor' = [acceptor EXCEPT ![l] = "accepting"] /\ Answer(c)
        /\ UNCHANGED <<lnVars, ctxDone, fwdDone, cancelled>>
    BY <1>4 DEF ForwardRegisters
  <2> HIDE DEF l, p
  <2>3. /\ forwards' \in [Path -> Listener \cup {None}] /\ watcher' \in [Listener -> WatcherPC]
        /\ acceptor' \in [Listener -> AcceptorPC]
        /\ \A k \in Listener : lnOpen'[k] \/ watcher'[k] # "none" \/ acceptor'[k] # "none"
                           => lnPath'[k] \in Path /\ lnOwner'[k] \in Conn
    BY <2>1, <2>2 DEF lnVars
  <2>4. /\ req' \in [Conn -> ReqPC] /\ reqPath' \in [Conn -> Path \cup {None}]
        /\ reqLn' \in [Conn -> Listener \cup {None}]
        /\ \A d \in Conn : req'[d] # "none" => reqPath'[d] \in Path
        /\ \A d \in Conn : req'[d] \in {"listened", "closing"} => reqLn'[d] \in Listener
    BY <2>2 DEF Answer
  <2> QED
    BY <2>2, <2>3, <2>4 DEF lnVars
<1>5. ASSUME NEW c \in Conn, NEW p \in Path, CancelLookup(c, p) PROVE TypeOK'
  BY <1>5 DEF CancelLookup, lnVars, reqVars, goVars
<1>6. ASSUME NEW c \in Conn, CancelCloses(c) PROVE TypeOK'
  BY <1>6 DEF CancelCloses, Answer, goVars
<1>7. ASSUME NEW c \in Conn, Disconnect(c) PROVE TypeOK'
  BY <1>7 DEF Disconnect, lnVars, reqVars, goVars
<1>8. ASSUME NEW l \in Listener, ListenerStep(l) PROVE TypeOK'
  <2>1. CASE WatcherCloses(l)
    BY <2>1 DEF WatcherCloses, reqVars
  <2>2. CASE AcceptFails(l)
    BY <2>2 DEF AcceptFails, lnVars, reqVars
  <2>3. CASE AcceptorRemoves(l)
    BY <2>3 DEF AcceptorRemoves, lnVars, reqVars
  <2>4. CASE AcceptorCloses(l)
    BY <2>4 DEF AcceptorCloses, reqVars
  <2> QED
    BY <1>8, <2>1, <2>2, <2>3, <2>4 DEF ListenerStep
<1>9. CASE UNCHANGED vars
  BY <1>9 DEF vars, lnVars, reqVars, goVars
<1> QED
  BY <1>1, <1>2, <1>3, <1>4, <1>5, <1>6, <1>7, <1>8, <1>9 DEF Next, RequestStep

(* Only net.Listen opens a listener or gives it a path and an owner. *)
LEMMA OnlyListenOpens ==
  ASSUME TypeOK, [Next]_vars
  PROVE  \/ \E c \in Conn, l \in Listener : ForwardListens(c, l)
         \/ /\ lnPath' = lnPath /\ lnOwner' = lnOwner
            /\ \A l \in Listener : lnOpen'[l] => lnOpen[l]
<1> USE DEF TypeOK
<1>1. ASSUME NEW c \in Conn, RequestStep(c), \A l \in Listener : ~ForwardListens(c, l)
      PROVE  lnPath' = lnPath /\ lnOwner' = lnOwner /\ \A l \in Listener : lnOpen'[l] => lnOpen[l]
  BY <1>1 DEF RequestStep, ForwardChecks, ForwardFails, ForwardRegisters, CancelLookup,
     CancelCloses, lnVars
<1>2. ASSUME NEW k \in Listener, ListenerStep(k)
      PROVE  lnPath' = lnPath /\ lnOwner' = lnOwner /\ \A l \in Listener : lnOpen'[l] => lnOpen[l]
  BY <1>2 DEF ListenerStep, WatcherCloses, AcceptFails, AcceptorRemoves, AcceptorCloses, lnVars
<1> QED
  BY <1>1, <1>2 DEF Next, Disconnect, vars, lnVars

(* Two listeners are never open on one path, since net.Listen refuses a    *)
(* bound path.                                                             *)
LEMMA OnePerPathStep ==
  ASSUME TypeOK, UnusedListeners, OnePerPath, [Next]_vars
  PROVE  OnePerPath'
<1>1. ASSUME NEW c \in Conn, NEW l \in Listener, ForwardListens(c, l) PROVE OnePerPath'
  BY <1>1 DEF ForwardListens, Bound, OnePerPath, TypeOK
<1>2. ASSUME lnPath' = lnPath, \A l \in Listener : lnOpen'[l] => lnOpen[l] PROVE OnePerPath'
  BY <1>2 DEF OnePerPath
<1> QED
  BY <1>1, <1>2, OnlyListenOpens

(* A listener that was never opened stays out of every request and        *)
(* goroutine.                                                             *)
LEMMA UnusedStep ==
  ASSUME TypeOK, UnusedListeners, FreshListeners, NoStaleEntry, [Next]_vars
  PROVE  UnusedListeners'
<1> USE NoneAssumption DEF TypeOK, UnusedListeners
<1>1. ASSUME NEW c \in Conn, NEW p \in Path, ForwardChecks(c, p) PROVE UnusedListeners'
  BY <1>1 DEF ForwardChecks, lnVars, goVars
<1>2. ASSUME NEW c \in Conn, NEW l \in Listener, ForwardListens(c, l) PROVE UnusedListeners'
  BY <1>2 DEF ForwardListens, goVars
<1>3. ASSUME NEW c \in Conn, ForwardFails(c) PROVE UnusedListeners'
  BY <1>3 DEF ForwardFails, Answer, lnVars, goVars
<1>4. ASSUME NEW c \in Conn, ForwardRegisters(c) PROVE UnusedListeners'
  BY <1>4 DEF ForwardRegisters, Answer, lnVars
<1>5. ASSUME NEW c \in Conn, NEW p \in Path, CancelLookup(c, p) PROVE UnusedListeners'
  BY <1>5 DEF CancelLookup, NoStaleEntry, lnVars, reqVars, goVars
<1>6. ASSUME NEW c \in Conn, CancelCloses(c) PROVE UnusedListeners'
  BY <1>6 DEF CancelCloses, Answer, goVars
<1>7. ASSUME NEW c \in Conn, Disconnect(c) PROVE UnusedListeners'
  BY <1>7 DEF Disconnect, lnVars, reqVars, goVars
<1>8. ASSUME NEW l \in Listener, ListenerStep(l) PROVE UnusedListeners'
  BY <1>8 DEF ListenerStep, WatcherCloses, AcceptFails, AcceptorRemoves, AcceptorCloses,
     lnVars, reqVars
<1>9. CASE UNCHANGED vars
  BY <1>9 DEF vars, lnVars, reqVars, goVars
<1> QED
  BY <1>1, <1>2, <1>3, <1>4, <1>5, <1>6, <1>7, <1>8, <1>9 DEF Next, RequestStep

(* A request that has listened keeps its listener to itself until it       *)
(* registers it: nobody can find it in the map to close it.                *)
LEMMA FreshStep ==
  ASSUME TypeOK, UnusedListeners, FreshListeners, NoStaleEntry, [Next]_vars
  PROVE  FreshListeners'
<1> USE NoneAssumption DEF TypeOK, FreshListeners
<1>1. ASSUME NEW c \in Conn, NEW p \in Path, ForwardChecks(c, p) PROVE FreshListeners'
  BY <1>1 DEF ForwardChecks, lnVars, goVars
<1>2. ASSUME NEW c \in Conn, NEW l \in Listener, ForwardListens(c, l) PROVE FreshListeners'
  BY <1>2 DEF ForwardListens, UnusedListeners, goVars
<1>3. ASSUME NEW c \in Conn, ForwardFails(c) PROVE FreshListeners'
  BY <1>3 DEF ForwardFails, Answer, lnVars, goVars
<1>4. ASSUME NEW c \in Conn, ForwardRegisters(c) PROVE FreshListeners'
  BY <1>4 DEF ForwardRegisters, Answer, lnVars
<1>5. ASSUME NEW c \in Conn, NEW p \in Path, CancelLookup(c, p) PROVE FreshListeners'
  BY <1>5 DEF CancelLookup, NoStaleEntry, lnVars, reqVars, goVars
<1>6. ASSUME NEW c \in Conn, CancelCloses(c) PROVE FreshListeners'
  BY <1>6 DEF CancelCloses, Answer, goVars
<1>7. ASSUME NEW c \in Conn, Disconnect(c) PROVE FreshListeners'
  BY <1>7 DEF Disconnect, lnVars, reqVars, goVars
<1>8. ASSUME NEW l \in Listener, ListenerStep(l) PROVE FreshListeners'
  BY <1>8 DEF ListenerStep, WatcherCloses, AcceptFails, AcceptorRemoves, AcceptorCloses,
     lnVars, reqVars
<1>9. CASE UNCHANGED vars
  BY <1>9 DEF vars, lnVars, reqVars, goVars
<1> QED
  BY <1>1, <1>2, <1>3, <1>4, <1>5, <1>6, <1>7, <1>8, <1>9 DEF Next, RequestStep
(* What registering does, with the request's listener and path named.      *)
RegisteredAs(c, l, p) ==
  /\ req[c] = "listened" /\ reqLn[c] = l /\ reqPath[c] = p
  /\ lnOpen[l] /\ lnPath[l] = p /\ lnOwner[l] = c /\ acceptor[l] = "none"
  /\ <<c, p>> \notin cancelled
  /\ forwards' = [forwards EXCEPT ![p] = l]
  /\ acceptor' = [acceptor EXCEPT ![l] = "accepting"]
  /\ req' = [req EXCEPT ![c] = "none"]
  /\ reqPath' = [reqPath EXCEPT ![c] = None] /\ reqLn' = [reqLn EXCEPT ![c] = None]
  /\ UNCHANGED <<lnVars, cancelled>>

(* A request that registers has such a listener and path. *)
LEMMA RegisterEffect ==
  ASSUME TypeOK, FreshListeners, NEW c \in Conn, ForwardRegisters(c)
  PROVE  \E l \in Listener, p \in Path : RegisteredAs(c, l, p)
<1> reqLn[c] \in Listener /\ reqPath[c] \in Path
  BY DEF TypeOK, ForwardRegisters
<1> WITNESS reqLn[c] \in Listener, reqPath[c] \in Path
<1> QED
  BY DEF ForwardRegisters, FreshListeners, Answer, RegisteredAs

(* An entry is overwritten only when its listener is closed, and deleted   *)
(* only by the accept goroutine of the listener it holds.                  *)
LEMMA RegisteredStep ==
  ASSUME TypeOK, OnePerPath, UnusedListeners, FreshListeners, OpenIsRegistered, [Next]_vars
  PROVE  OpenIsRegistered'
<1> USE NoneAssumption DEF TypeOK, OpenIsRegistered
<1>1. ASSUME NEW c \in Conn, NEW p \in Path, ForwardChecks(c, p) PROVE OpenIsRegistered'
  BY <1>1 DEF ForwardChecks, lnVars, goVars
<1>2. ASSUME NEW c \in Conn, NEW l \in Listener, ForwardListens(c, l) PROVE OpenIsRegistered'
  BY <1>2 DEF UnusedListeners, ForwardListens, goVars
<1>3. ASSUME NEW c \in Conn, ForwardFails(c) PROVE OpenIsRegistered'
  BY <1>3 DEF ForwardFails, Answer, lnVars, goVars
<1>4. ASSUME NEW c \in Conn, ForwardRegisters(c) PROVE OpenIsRegistered'
  <2>1. PICK l \in Listener, p \in Path : RegisteredAs(c, l, p)
    BY <1>4, RegisterEffect
  <2> QED
    BY <2>1 DEF RegisteredAs, OnePerPath, lnVars
<1>5. ASSUME NEW c \in Conn, NEW p \in Path, CancelLookup(c, p) PROVE OpenIsRegistered'
  BY <1>5 DEF CancelLookup, lnVars, reqVars, goVars
<1>6. ASSUME NEW c \in Conn, CancelCloses(c) PROVE OpenIsRegistered'
  BY <1>6 DEF CancelCloses, Answer, goVars
<1>7. ASSUME NEW c \in Conn, Disconnect(c) PROVE OpenIsRegistered'
  BY <1>7 DEF Disconnect, lnVars, reqVars, goVars
<1>8. ASSUME NEW l \in Listener, ListenerStep(l) PROVE OpenIsRegistered'
  BY <1>8 DEF ListenerStep, WatcherCloses, AcceptFails, AcceptorRemoves, AcceptorCloses,
     lnVars, reqVars
<1>9. CASE UNCHANGED vars
  BY <1>9 DEF vars, lnVars, reqVars, goVars
<1> QED
  BY <1>1, <1>2, <1>3, <1>4, <1>5, <1>6, <1>7, <1>8, <1>9 DEF Next, RequestStep

(* An entry is its listener's own and has an accept goroutine to remove it.*)
LEMMA NoStaleStep ==
  ASSUME TypeOK, UnusedListeners, FreshListeners, NoStaleEntry, [Next]_vars
  PROVE  NoStaleEntry'
<1> USE NoneAssumption DEF TypeOK, NoStaleEntry
<1>1. ASSUME NEW c \in Conn, NEW p \in Path, ForwardChecks(c, p) PROVE NoStaleEntry'
  BY <1>1 DEF ForwardChecks, lnVars, goVars
<1>2. ASSUME NEW c \in Conn, NEW l \in Listener, ForwardListens(c, l) PROVE NoStaleEntry'
  BY <1>2 DEF ForwardListens, goVars
<1>3. ASSUME NEW c \in Conn, ForwardFails(c) PROVE NoStaleEntry'
  BY <1>3 DEF ForwardFails, Answer, lnVars, goVars
<1>4. ASSUME NEW c \in Conn, ForwardRegisters(c) PROVE NoStaleEntry'
  <2>1. PICK l \in Listener, p \in Path : RegisteredAs(c, l, p)
    BY <1>4, RegisterEffect
  <2> QED
    BY <2>1 DEF RegisteredAs, lnVars
<1>5. ASSUME NEW c \in Conn, NEW p \in Path, CancelLookup(c, p) PROVE NoStaleEntry'
  BY <1>5 DEF CancelLookup, lnVars, reqVars, goVars
<1>6. ASSUME NEW c \in Conn, CancelCloses(c) PROVE NoStaleEntry'
  BY <1>6 DEF CancelCloses, Answer, goVars
<1>7. ASSUME NEW c \in Conn, Disconnect(c) PROVE NoStaleEntry'
  BY <1>7 DEF Disconnect, lnVars, reqVars, goVars
<1>8. ASSUME NEW l \in Listener, ListenerStep(l) PROVE NoStaleEntry'
  BY <1>8 DEF ListenerStep, WatcherCloses, AcceptFails, AcceptorRemoves, AcceptorCloses,
     lnVars, reqVars
<1>9. CASE UNCHANGED vars
  BY <1>9 DEF vars, lnVars, reqVars, goVars
<1> QED
  BY <1>1, <1>2, <1>3, <1>4, <1>5, <1>6, <1>7, <1>8, <1>9 DEF Next, RequestStep

(* Between the lookup and the close of a cancel its client gets no other   *)
(* forward on that path.                                                   *)
LEMMA TargetsStep ==
  ASSUME TypeOK, UnusedListeners, FreshListeners, OpenIsRegistered, CancelTargets, [Next]_vars
  PROVE  CancelTargets'
<1> USE NoneAssumption DEF TypeOK, CancelTargets
<1>1. ASSUME NEW c \in Conn, NEW p \in Path, ForwardChecks(c, p) PROVE CancelTargets'
  BY <1>1 DEF ForwardChecks, lnVars, goVars
<1>2. ASSUME NEW c \in Conn, NEW l \in Listener, ForwardListens(c, l) PROVE CancelTargets'
  BY <1>2 DEF UnusedListeners, ForwardListens, goVars
<1>3. ASSUME NEW c \in Conn, ForwardFails(c) PROVE CancelTargets'
  BY <1>3 DEF ForwardFails, Answer, lnVars, goVars
<1>4. ASSUME NEW c \in Conn, ForwardRegisters(c) PROVE CancelTargets'
  <2>1. PICK l \in Listener, p \in Path : RegisteredAs(c, l, p)
    BY <1>4, RegisterEffect
  <2> QED
    BY <2>1 DEF RegisteredAs, lnVars
<1>5. ASSUME NEW c \in Conn, NEW p \in Path, CancelLookup(c, p) PROVE CancelTargets'
  BY <1>5 DEF OpenIsRegistered, CancelLookup, lnVars, reqVars, goVars
<1>6. ASSUME NEW c \in Conn, CancelCloses(c) PROVE CancelTargets'
  BY <1>6 DEF CancelCloses, Answer, goVars
<1>7. ASSUME NEW c \in Conn, Disconnect(c) PROVE CancelTargets'
  BY <1>7 DEF Disconnect, lnVars, reqVars, goVars
<1>8. ASSUME NEW l \in Listener, ListenerStep(l) PROVE CancelTargets'
  BY <1>8 DEF ListenerStep, WatcherCloses, AcceptFails, AcceptorRemoves, AcceptorCloses,
     lnVars, reqVars
<1>9. CASE UNCHANGED vars
  BY <1>9 DEF vars, lnVars, reqVars, goVars
<1> QED
  BY <1>1, <1>2, <1>3, <1>4, <1>5, <1>6, <1>7, <1>8, <1>9 DEF Next, RequestStep

(* A cancelled path stays free until it is granted again. *)
LEMMA CancelFreesStep ==
  ASSUME TypeOK, UnusedListeners, FreshListeners, OpenIsRegistered, CancelTargets,
         CancelFreesPath, [Next]_vars
  PROVE  CancelFreesPath'
<1> USE NoneAssumption DEF TypeOK, CancelFreesPath
<1>1. ASSUME NEW c \in Conn, NEW p \in Path, ForwardChecks(c, p) PROVE CancelFreesPath'
  BY <1>1 DEF ForwardChecks, lnVars, goVars
<1>2. ASSUME NEW c \in Conn, NEW l \in Listener, ForwardListens(c, l) PROVE CancelFreesPath'
  BY <1>2 DEF UnusedListeners, ForwardListens, goVars
<1>3. ASSUME NEW c \in Conn, ForwardFails(c) PROVE CancelFreesPath'
  BY <1>3 DEF ForwardFails, Answer, lnVars, goVars
<1>4. ASSUME NEW c \in Conn, ForwardRegisters(c) PROVE CancelFreesPath'
  <2>1. PICK l \in Listener, p \in Path : RegisteredAs(c, l, p)
    BY <1>4, RegisterEffect
  <2> QED
    BY <2>1 DEF RegisteredAs, lnVars
<1>5. ASSUME NEW c \in Conn, NEW p \in Path, CancelLookup(c, p) PROVE CancelFreesPath'
  BY <1>5 DEF OpenIsRegistered, CancelLookup, lnVars, reqVars, goVars
<1>6. ASSUME NEW c \in Conn, CancelCloses(c) PROVE CancelFreesPath'
  BY <1>6 DEF CancelTargets, CancelCloses, Answer, goVars
<1>7. ASSUME NEW c \in Conn, Disconnect(c) PROVE CancelFreesPath'
  BY <1>7 DEF Disconnect, lnVars, reqVars, goVars
<1>8. ASSUME NEW l \in Listener, ListenerStep(l) PROVE CancelFreesPath'
  BY <1>8 DEF ListenerStep, WatcherCloses, AcceptFails, AcceptorRemoves, AcceptorCloses,
     lnVars, reqVars
<1>9. CASE UNCHANGED vars
  BY <1>9 DEF vars, lnVars, reqVars, goVars
<1> QED
  BY <1>1, <1>2, <1>3, <1>4, <1>5, <1>6, <1>7, <1>8, <1>9 DEF Next, RequestStep

-----------------------------------------------------------------------------
(* IInv holds in every reachable state (streamlocal.go 112-217). *)
THEOREM IInvCorrect == Spec => []IInv
<1>1. IInv /\ [Next]_vars => IInv'
  BY TypeStep, OnePerPathStep, UnusedStep, FreshStep, RegisteredStep, NoStaleStep, TargetsStep,
     CancelFreesStep DEF IInv
<1> QED
  BY InitIInv, <1>1, PTL DEF Spec

(* A forward that accepts connections is the one a cancel of its path      *)
(* finds, whatever forwards, cancels and clean-ups overlap.                *)
THEOREM CancelFindsForward == Spec => []OpenIsRegistered
  BY IInvCorrect, PTL DEF IInv

(* Once a client has been told that its path is cancelled, no forward of   *)
(* its own accepts there until it asks again.                              *)
THEOREM CancelIsEffective == Spec => []CancelFreesPath
  BY IInvCorrect, PTL DEF IInv

(* Every entry of the map is under its own path and will be removed.       *)
THEOREM EntriesAreLive == Spec => []NoStaleEntry
  BY IInvCorrect, PTL DEF IInv

-----------------------------------------------------------------------------
(* Liveness.  The prover takes ENABLED as it stands, so that the theorem   *)
(* starts from NobodyBlocks, which says when the fair steps can be taken.  *)

(* The two goroutines of a forward start together, each closes the         *)
(* listener, and the one that accepts ends the forward's Context.          *)
Paired ==
  \A l \in Listener :
    /\ watcher[l] = "none" <=> acceptor[l] = "none"
    /\ watcher[l] = "done" => ~lnOpen[l]
    /\ acceptor[l] = "done" => fwdDone[l] /\ ~lnOpen[l]

LiveInv == IInv /\ Paired

LEMMA PairedStep == IInv /\ Paired /\ [Next]_vars => Paired'
<1> SUFFICES ASSUME IInv, Paired, [Next]_vars PROVE Paired'
  OBVIOUS
<1> USE NoneAssumption DEF IInv, TypeOK, Paired
<1>1. ASSUME NEW c \in Conn, NEW p \in Path, ForwardChecks(c, p) PROVE Paired'
  BY <1>1 DEF ForwardChecks, lnVars, goVars
<1>2. ASSUME NEW c \in Conn, NEW l \in Listener, ForwardListens(c, l) PROVE Paired'
  BY <1>2 DEF UnusedListeners, ForwardListens, goVars
<1>3. ASSUME NEW c \in Conn, ForwardFails(c) PROVE Paired'
  BY <1>3 DEF ForwardFails, Answer, lnVars, goVars
<1>4. ASSUME NEW c \in Conn, ForwardRegisters(c) PROVE Paired'
  BY <1>4 DEF FreshListeners, ForwardRegisters, Answer, lnVars
<1>5. ASSUME NEW c \in Conn, NEW p \in Path, CancelLookup(c, p) PROVE Paired'
  BY <1>5 DEF CancelLookup, lnVars, reqVars, goVars
<1>6. ASSUME NEW c \in Conn, CancelCloses(c) PROVE Paired'
  BY <1>6 DEF CancelCloses, Answer, goVars
<1>7. ASSUME NEW c \in Conn, Disconnect(c) PROVE Paired'
  BY <1>7 DEF Disconnect, lnVars, reqVars, goVars
<1>8. ASSUME NEW l \in Listener, ListenerStep(l) PROVE Paired'
  BY <1>8 DEF ListenerStep, WatcherCloses, AcceptFails, AcceptorRemoves, AcceptorCloses,
     lnVars, reqVars
<1>9. CASE UNCHANGED vars
  BY <1>9 DEF vars, lnVars, reqVars, goVars
<1> QED
  BY <1>1, <1>2, <1>3, <1>4, <1>5, <1>6, <1>7, <1>8, <1>9 DEF Next, RequestStep

LEMMA LiveInvHolds == Spec => []LiveInv
<1>1. Init => Paired  BY DEF Init, Paired
<1> QED
  BY IInvCorrect, <1>1, PairedStep, PTL DEF Spec, LiveInv

(* The stages in which the forward of l ends. *)
Doomed(l)   == acceptor[l] = "accepting" /\ lnOpen[l] /\ ctxDone[lnOwner[l]]
Deaf(l)     == acceptor[l] = "accepting" /\ ~lnOpen[l]
Leaving(l)  == acceptor[l] = "removing"
Closing(l)  == acceptor[l] = "closing"
Returned(l) == acceptor[l] = "done"
Over(l)     == acceptor[l] = "done" /\ watcher[l] = "done"

(* What one step makes of a stage. *)
LEMMA StageSteps ==
  ASSUME NEW l \in Listener, LiveInv, [Next]_vars
  PROVE  /\ Doomed(l) => Doomed(l)' \/ Deaf(l)' \/ Leaving(l)'
         /\ Deaf(l) => Deaf(l)' \/ Leaving(l)'
         /\ Leaving(l) => Leaving(l)' \/ Closing(l)'
         /\ Closing(l) => Closing(l)' \/ Returned(l)'
         /\ Returned(l) => Returned(l)'
         /\ Over(l) => Over(l)'
<1> USE NoneAssumption DEF LiveInv, IInv, TypeOK, Doomed, Deaf, Leaving, Closing, Returned, Over
<1> DEFINE Goal == /\ Doomed(l) => Doomed(l)' \/ Deaf(l)' \/ Leaving(l)'
                   /\ Deaf(l) => Deaf(l)' \/ Leaving(l)'
                   /\ Leaving(l) => Leaving(l)' \/ Closing(l)'
                   /\ Closing(l) => Closing(l)' \/ Returned(l)'
                   /\ Returned(l) => Returned(l)'
                   /\ Over(l) => Over(l)'
<1>1. ASSUME NEW c \in Conn, NEW p \in Path, ForwardChecks(c, p) PROVE Goal
  BY <1>1 DEF ForwardChecks, lnVars, goVars
<1>2. ASSUME NEW c \in Conn, NEW k \in Listener, ForwardListens(c, k) PROVE Goal
  BY <1>2 DEF UnusedListeners, ForwardListens, goVars
<1>3. ASSUME NEW c \in Conn, ForwardFails(c) PROVE Goal
  BY <1>3 DEF ForwardFails, Answer, lnVars, goVars
<1>4. ASSUME NEW c \in Conn, ForwardRegisters(c) PROVE Goal
  BY <1>4 DEF FreshListeners, ForwardRegisters, Answer, lnVars
<1>5. ASSUME NEW c \in Conn, NEW p \in Path, CancelLookup(c, p) PROVE Goal
  BY <1>5 DEF CancelLookup, lnVars, reqVars, goVars
<1>6. ASSUME NEW c \in Conn, CancelCloses(c) PROVE Goal
  BY <1>6 DEF CancelCloses, Answer, goVars
<1>7. ASSUME NEW c \in Conn, Disconnect(c) PROVE Goal
  BY <1>7 DEF Disconnect, lnVars, reqVars, goVars
<1>8. ASSUME NEW k \in Listener, ListenerStep(k) PROVE Goal
  BY <1>8 DEF ListenerStep, WatcherCloses, AcceptFails, AcceptorRemoves, AcceptorCloses,
     lnVars, reqVars
<1>9. CASE UNCHANGED vars
  BY <1>9 DEF vars, lnVars, reqVars, goVars
<1> QED
  BY <1>1, <1>2, <1>3, <1>4, <1>5, <1>6, <1>7, <1>8, <1>9 DEF Next, RequestStep

(* What the goroutine that a stage waits for makes of it. *)
LEMMA StageEnds ==
  ASSUME NEW l \in Listener, LiveInv
  PROVE  /\ Doomed(l) /\ WatcherCloses(l) => Deaf(l)'
         /\ Deaf(l) /\ ClosedAcceptFails(l) => Leaving(l)'
         /\ Leaving(l) /\ AcceptorRemoves(l) => Closing(l)'
         /\ Closing(l) /\ AcceptorCloses(l) => Returned(l)'
         /\ Returned(l) /\ WatcherCloses(l) => Over(l)'
BY DEF LiveInv, IInv, TypeOK, Doomed, Deaf, Leaving, Closing, Returned, Over, WatcherCloses,
  ClosedAcceptFails, AcceptFails, AcceptorRemoves, AcceptorCloses

(* A forward whose connection is gone, or whose accept goroutine gave up,  *)
(* gets rid of its listener, its entry and its goroutines, whatever other  *)
(* forwards, cancels and clean-ups do (streamlocal.go 135-196).            *)
THEOREM ForwardsEnd == []NobodyBlocks /\ FairSpec => ForwardEnds
<1> DEFINE Start(l) == (acceptor[l] = "accepting" /\ ctxDone[lnOwner[l]]) \/ acceptor[l] = "removing"
           Gone(l)  == /\ ~lnOpen[l] /\ watcher[l] = "done" /\ acceptor[l] = "done"
                       /\ \A p \in Path : forwards[p] # l
<1> SUFFICES ASSUME NEW l \in Listener
             PROVE  []NobodyBlocks /\ FairSpec => (Start(l) ~> Gone(l))
  BY DEF ForwardEnds
<1>1. LiveInv /\ Start(l) => Doomed(l) \/ Deaf(l) \/ Leaving(l)
  BY DEF LiveInv, IInv, TypeOK, Doomed, Deaf, Leaving
<1>2. LiveInv /\ Over(l) => Gone(l)
  BY NoneAssumption DEF LiveInv, IInv, TypeOK, NoStaleEntry, Paired, Over
<1>3. LiveInv /\ NobodyBlocks =>
        /\ Doomed(l) => ENABLED <<WatcherCloses(l)>>_vars
        /\ Deaf(l) => ENABLED <<ClosedAcceptFails(l)>>_vars
        /\ Leaving(l) => ENABLED <<AcceptorRemoves(l)>>_vars
        /\ Closing(l) => ENABLED <<AcceptorCloses(l)>>_vars
        /\ Returned(l) => Over(l) \/ ENABLED <<WatcherCloses(l)>>_vars
  BY DEF LiveInv, IInv, TypeOK, Paired, WatcherPC, NobodyBlocks, Doomed, Deaf, Leaving, Closing,
    Returned, Over
<1>4. LiveInv /\ [Next]_vars =>
        /\ Doomed(l) => Doomed(l)' \/ Deaf(l)' \/ Leaving(l)'
        /\ Deaf(l) => Deaf(l)' \/ Leaving(l)'
        /\ Leaving(l) => Leaving(l)' \/ Closing(l)'
        /\ Closing(l) => Closing(l)' \/ Returned(l)'
        /\ Returned(l) => Returned(l)'
        /\ Over(l) => Over(l)'
  BY StageSteps
<1>5. LiveInv =>
        /\ Doomed(l) /\ <<WatcherCloses(l)>>_vars => Deaf(l)'
        /\ Deaf(l) /\ <<ClosedAcceptFails(l)>>_vars => Leaving(l)'
        /\ Leaving(l) /\ <<AcceptorRemoves(l)>>_vars => Closing(l)'
        /\ Closing(l) /\ <<AcceptorCloses(l)>>_vars => Returned(l)'
        /\ Returned(l) /\ <<WatcherCloses(l)>>_vars => Over(l)'
  BY StageEnds
<1>6. Fairness => ListenerFair(l)
  BY DEF Fairness
<1> QED
  BY LiveInvHolds, <1>1, <1>2, <1>3, <1>4, <1>5, <1>6, PTL DEF FairSpec, Spec, ListenerFair
=============================================================================
