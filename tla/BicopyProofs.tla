---------------------------- MODULE BicopyProofs ----------------------------
(***************************************************************************)
(* For every set of users, amount of data and window: the invariant of     *)
(* Bicopy, that the copying it does is the one Relay promises, and that    *)
(* the handler returns.                                                    *)
(***************************************************************************)
EXTENDS Bicopy, TLAPS

(* The relations between the goroutines, the handler and the two ends that *)
(* IInv lists hold in every initial state ...                              *)
LEMMA InitHolds == Init => IInv
<1> SUFFICES ASSUME Init PROVE IInv  OBVIOUS
<1> USE UserAssumption DEF Init, End
<1>1. TypeOK  BY DEF TypeOK, Stage, CopyPC
<1>2. NoHandlerYet /\ Running /\ DoneIsClean  BY DEF NoHandlerYet, Running, DoneIsClean
<1>3. CountedIsOver /\ SomethingLeft /\ EofAfterAll /\ EndingHasCause
  BY DEF CountedIsOver, SomethingLeft, EofAfterAll, EndingHasCause
<1>4. QED  BY <1>1, <1>2, <1>3 DEF IInv

(* ... and are kept by the handler, *)
LEMMA HandlerKeeps ==
  ASSUME IInv, DialSucceeds \/ Rejects \/ ChannelOpens \/ NoChannel \/ HandlerStep
  PROVE  IInv'
<1> USE DEF IInv, TypeOK, NoHandlerYet, Running, CountedIsOver, SomethingLeft, EofAfterAll,
           EndingHasCause, DoneIsClean, Stage, CopyPC, End, Other, peerVars
<1>1. CASE DialSucceeds \/ Rejects  BY <1>1 DEF DialSucceeds, Rejects
<1>2. CASE ChannelOpens  BY <1>2 DEF ChannelOpens
<1>3. CASE NoChannel  BY <1>3 DEF NoChannel
<1>4. CASE CtxAborts  BY <1>4 DEF CtxAborts
<1>5. CASE Returns  BY <1>5 DEF Returns
<1>6. ASSUME NEW e \in End, TakeResult(e) PROVE IInv'
  BY <1>6 DEF TakeResult, Aborts
<1>7. QED  BY <1>1, <1>2, <1>3, <1>4, <1>5, <1>6 DEF HandlerStep

(* by the goroutines *)
LEMMA CopyKeeps ==
  ASSUME IInv, NEW e \in End, CopyStep(e)
  PROVE  IInv'
<1> USE DEF IInv, TypeOK, NoHandlerYet, Running, CountedIsOver, SomethingLeft, EofAfterAll,
           EndingHasCause, DoneIsClean, Stage, CopyPC, End, Other, peerVars
<1>1. CASE Read(e)  BY <1>1 DEF Read
<1>2. CASE ReadEOF(e)  BY <1>2 DEF ReadEOF
<1>3. CASE Write(e)  BY <1>3 DEF Write
<1>4. CASE CopyFails(e)  BY <1>4 DEF CopyFails, MayRead, Bicopies
<1>5. CASE CloseWrite(e)  BY <1>5 DEF CloseWrite
<1>6. QED  BY <1>1, <1>2, <1>3, <1>4, <1>5 DEF CopyStep

(* and by what the peers and the connection do. *)
LEMMA PeersKeep ==
  ASSUME IInv,
         CtxEnds \/ \E e \in End : Arrives(e) \/ Finishes(e) \/ Goes(e) \/ PeerReads(e)
  PROVE  IInv'
<1> USE DEF IInv, TypeOK, NoHandlerYet, Running, CountedIsOver, SomethingLeft, EofAfterAll,
           EndingHasCause, DoneIsClean, Stage, CopyPC, End, Other, peerVars
<1>1. CASE CtxEnds  BY <1>1 DEF CtxEnds
<1>2. ASSUME NEW e \in End, Arrives(e) PROVE IInv'  BY <1>2 DEF Arrives
<1>3. ASSUME NEW e \in End, Finishes(e) PROVE IInv'  BY <1>3 DEF Finishes
<1>4. ASSUME NEW e \in End, Goes(e) PROVE IInv'  BY <1>4 DEF Goes
<1>5. ASSUME NEW e \in End, PeerReads(e) PROVE IInv'  BY <1>5 DEF PeerReads
<1>6. QED  BY <1>1, <1>2, <1>3, <1>4, <1>5

LEMMA StutterKeeps == ASSUME IInv, UNCHANGED vars PROVE IInv'
BY DEF IInv, TypeOK, NoHandlerYet, Running, CountedIsOver, SomethingLeft, EofAfterAll,
       EndingHasCause, DoneIsClean, vars, peerVars

(* bicopy and the proxies keep IInv: a half-close comes after all data, a  *)
(* failed copy has a cause, and a handler leaves nothing open (tcpip.go    *)
(* 208-268, agent.go 64-85, x11.go 161-190).                               *)
THEOREM InvariantHolds == Spec => []IInv
<1>1. ASSUME IInv, [Next]_vars PROVE IInv'
  <2>1. CASE Next  BY <1>1, <2>1, HandlerKeeps, CopyKeeps, PeersKeep DEF Next
  <2>2. CASE UNCHANGED vars  BY <1>1, <2>2, StutterKeeps
  <2>3. QED  BY <1>1, <2>1, <2>2
<1>2. QED  BY InitHolds, <1>1, PTL DEF Spec

(* However the handler returns, no connection, channel or goroutine is     *)
(* left behind (the deferred closes of bicopy and of the proxies).         *)
THEOREM NothingLeftBehind == Spec => []DoneIsClean
<1>1. IInv => DoneIsClean  BY DEF IInv
<1>2. QED  BY <1>1, InvariantHolds, PTL

-----------------------------------------------------------------------------
(* Every step of the goroutines is one of Relay's or none: data is carried *)
(* only while both ends are held and only before the end of it was told,   *)
(* and the end is told only when everything is carried.                    *)
LEMMA CopyRefines ==
  ASSUME IInv, NEW e \in End, CopyStep(e)
  PROVE  R!Next \/ UNCHANGED R!vars
<1> USE DEF IInv, TypeOK, NoHandlerYet, Running, SomethingLeft, EofAfterAll, DoneIsClean,
           Stage, CopyPC, End, Other, peerVars, R!vars
<1>1. CASE Read(e)  BY <1>1 DEF Read
<1>2. CASE ReadEOF(e)  BY <1>2 DEF ReadEOF
<1>3. CASE CopyFails(e)  BY <1>3 DEF CopyFails
<1>4. CASE Write(e)
  <2>1. R!Carry(Other(e), e)  BY <1>4 DEF Write, R!Carry
  <2>2. QED  BY <2>1 DEF R!Next
<1>5. CASE CloseWrite(e)
  <2>1. CASE e \in gone \cup closed  BY <1>5, <2>1 DEF CloseWrite
  <2>2. CASE e \notin gone \cup closed
    <3>1. R!TellEnd(Other(e), e)  BY <1>5, <2>2 DEF CloseWrite, R!TellEnd
    <3>2. QED  BY <3>1 DEF R!Next
  <2>3. QED  BY <2>1, <2>2
<1>6. QED  BY <1>1, <1>2, <1>3, <1>4, <1>5 DEF CopyStep

(* The handler lets go of both ends only when both directions are over or  *)
(* there is a cause.                                                       *)
LEMMA HandlerRefines ==
  ASSUME IInv, DialSucceeds \/ Rejects \/ ChannelOpens \/ NoChannel \/ HandlerStep
  PROVE  R!Next \/ UNCHANGED R!vars
<1> USE DEF IInv, TypeOK, NoHandlerYet, Running, CountedIsOver, EndingHasCause,
           Stage, CopyPC, End, peerVars, R!vars
<1>1. CASE DialSucceeds \/ Rejects  BY <1>1 DEF DialSucceeds, Rejects
<1>2. CASE ChannelOpens  BY <1>2 DEF ChannelOpens
<1>3. CASE NoChannel  BY <1>3 DEF NoChannel
<1>4. CASE CtxAborts
  <2>1. R!LetGo \/ UNCHANGED R!vars  BY <1>4 DEF CtxAborts, R!LetGo
  <2>2. QED  BY <2>1 DEF R!Next
<1>5. CASE Returns
  <2>1. R!LetGo \/ UNCHANGED R!vars  BY <1>5 DEF Returns, R!LetGo
  <2>2. QED  BY <2>1 DEF R!Next
<1>6. ASSUME NEW e \in End, TakeResult(e) PROVE R!Next \/ UNCHANGED R!vars
  <2>1. R!LetGo \/ UNCHANGED R!vars  BY <1>6 DEF TakeResult, Aborts, R!LetGo
  <2>2. QED  BY <2>1 DEF R!Next
<1>7. QED  BY <1>1, <1>2, <1>3, <1>4, <1>5, <1>6 DEF HandlerStep

LEMMA PeersRefine ==
  ASSUME CtxEnds \/ \E e \in End : Arrives(e) \/ Finishes(e) \/ Goes(e) \/ PeerReads(e)
  PROVE  R!Next \/ UNCHANGED R!vars
<1> USE DEF R!vars, peerVars
<1>1. CASE CtxEnds
  <2>1. R!Cancel  BY <1>1 DEF CtxEnds, R!Cancel
  <2>2. QED  BY <2>1 DEF R!Next
<1>2. ASSUME NEW e \in End, Arrives(e) PROVE R!Next
  <2>1. R!Arrive(e)  BY <1>2 DEF Arrives, R!Arrive
  <2>2. QED  BY <2>1 DEF R!Next
<1>3. ASSUME NEW e \in End, Finishes(e) PROVE R!Next
  <2>1. R!Finish(e)  BY <1>3 DEF Finishes, R!Finish
  <2>2. QED  BY <2>1 DEF R!Next
<1>4. ASSUME NEW e \in End, Goes(e) PROVE R!Next
  <2>1. R!Fail(e)  BY <1>4 DEF Goes, R!Fail
  <2>2. QED  BY <2>1 DEF R!Next
<1>5. ASSUME NEW e \in End, PeerReads(e) PROVE UNCHANGED R!vars
  BY <1>5 DEF PeerReads
<1>6. QED  BY <1>1, <1>2, <1>3, <1>4, <1>5

(* bicopy implements Relay (the promise of its comment, tcpip.go 204-207): *)
(* the goroutines' buffers, results and the order in which the handler     *)
(* takes them cannot be seen at the two ends.                              *)
THEOREM Refinement == Spec => ImplementsRelay
<1>1. Init => R!Init  BY DEF Init, R!Init, End
<1>2. ASSUME IInv, [Next]_vars PROVE [R!Next]_(R!vars)
  <2>1. CASE Next  BY <1>2, <2>1, CopyRefines, HandlerRefines, PeersRefine DEF Next
  <2>2. CASE UNCHANGED vars  BY <2>2 DEF vars, peerVars, R!vars
  <2>3. QED  BY <1>2, <2>1, <2>2
<1>3. QED  BY <1>1, <1>2, InvariantHolds, PTL DEF Spec, R!Spec, ImplementsRelay

-----------------------------------------------------------------------------
(***************************************************************************)
(* Liveness.  The prover takes ENABLED as it stands, so that the theorem   *)
(* starts from AbortInterrupts, which says when fair steps can be taken.   *)
(***************************************************************************)

(* bicopy aborts by closing both ends, and a failed copy whose result it   *)
(* has taken made it abort.                                                *)
AbortCloses ==
  /\ aborted => closed = End
  /\ \A e \in counted : copy[e] = "err" /\ Bicopies => closed = End

LiveInv == IInv /\ AbortCloses

LEMMA AbortClosesKept == LiveInv /\ [Next]_vars => AbortCloses'
<1> SUFFICES ASSUME LiveInv, [Next]_vars PROVE AbortCloses'  OBVIOUS
<1> USE DEF LiveInv, IInv, TypeOK, NoHandlerYet, Running, CountedIsOver, AbortCloses, Bicopies,
           Stage, CopyPC, End, Other, peerVars
<1>1. CASE DialSucceeds \/ Rejects \/ ChannelOpens \/ NoChannel
  BY <1>1 DEF DialSucceeds, Rejects, ChannelOpens, NoChannel
<1>2. CASE HandlerStep  BY <1>2 DEF HandlerStep, CtxAborts, Returns, TakeResult, Aborts
<1>3. ASSUME NEW e \in End, CopyStep(e) PROVE AbortCloses'
  BY <1>3 DEF CopyStep, Read, ReadEOF, Write, CopyFails, CloseWrite
<1>4. CASE CtxEnds \/ \E e \in End : Arrives(e) \/ Finishes(e) \/ Goes(e) \/ PeerReads(e)
  BY <1>4 DEF CtxEnds, Arrives, Finishes, Goes, PeerReads
<1>5. CASE UNCHANGED vars  BY <1>5 DEF vars
<1>6. QED  BY <1>1, <1>2, <1>3, <1>4, <1>5 DEF Next

LEMMA LiveInvHolds == Spec => []LiveInv
<1>1. Init => AbortCloses  BY DEF Init, AbortCloses
<1>2. QED  BY <1>1, AbortClosesKept, InvariantHolds, PTL DEF Spec, LiveInv

(* How far the handler is with its results, and a goroutine with its copy. *)
Count(b) == IF b THEN 1 ELSE 0
HandlerRank == Count("chan" \in counted) + Count("conn" \in counted) + Count(aborted)
CopyRank(e) == CASE copy[e] = "write" -> 1 [] copy[e] = "half" -> 2
                 [] copy[e] \in {"ok", "err"} -> 3 [] OTHER -> 0

(* A reason to stop that bicopy sees ...                                   *)
Pressed(k) ==
  /\ stage = "copying" /\ Bicopies /\ HandlerRank >= k
  /\ ctxDone \/ \E e \in End : copy[e] = "err"

(* ... or one that a goroutine will meet; ...                              *)
Meets(e) ==
  /\ stage = "copying" /\ Bicopies /\ "conn" \in gone
  /\ copy[e] = IF e = "chan" THEN "read" ELSE "write"

(* ... both ends closed; no read or write can wait any more; and both      *)
(* goroutines over.                                                        *)
Cutting       == stage = "copying" /\ closed = End
Cut           == stage = "copying" /\ "chan" \in gone /\ "conn" \in gone \cup closed
CutPast(e, k) == Cut /\ CopyRank(e) >= k
Settled(k)    == CutPast("chan", 3) /\ CutPast("conn", 3) /\ HandlerRank >= k
Done          == stage = "done"

(* What one step makes of each.                                            *)
LEMMA ReturnStages ==
  ASSUME LiveInv, [Next]_vars
  PROVE  /\ \A k \in 0..4 : Pressed(k) => Pressed(k)' \/ Done'
         /\ \A e \in End : Meets(e) => Meets(e)' \/ Pressed(0)' \/ Done'
         /\ Cutting => Cutting' \/ Done'
         /\ \A e \in End, k \in 0..3 : CutPast(e, k) => CutPast(e, k)' \/ Done'
         /\ \A k \in 0..4 : Settled(k) => Settled(k)' \/ Done'
         /\ Done => Done'
<1> DEFINE Goal == /\ \A k \in 0..4 : Pressed(k) => Pressed(k)' \/ Done'
                   /\ \A e \in End : Meets(e) => Meets(e)' \/ Pressed(0)' \/ Done'
                   /\ Cutting => Cutting' \/ Done'
                   /\ \A e \in End, k \in 0..3 : CutPast(e, k) => CutPast(e, k)' \/ Done'
                   /\ \A k \in 0..4 : Settled(k) => Settled(k)' \/ Done'
                   /\ Done => Done'
<1> USE DEF LiveInv, IInv, TypeOK, CountedIsOver, Running, Stage, CopyPC, End, Other, peerVars,
           Count, HandlerRank, CopyRank, Pressed, Meets, Cutting, Cut, CutPast, Settled, Done,
           Bicopies
<1>1. CASE DialSucceeds \/ Rejects \/ ChannelOpens \/ NoChannel
  BY <1>1 DEF DialSucceeds, Rejects, ChannelOpens, NoChannel
<1>2. CASE CtxAborts  BY <1>2 DEF CtxAborts
<1>3. CASE Returns  BY <1>3 DEF Returns
<1>4. ASSUME NEW e \in End, TakeResult(e) PROVE Goal  BY <1>4 DEF TakeResult, Aborts
<1>5. ASSUME NEW e \in End, CopyStep(e) PROVE Goal
  <2>1. CASE Read(e)  BY <1>5, <2>1 DEF Read, MayRead
  <2>2. CASE ReadEOF(e)  BY <1>5, <2>2 DEF ReadEOF, MayRead
  <2>3. CASE Write(e)  BY <1>5, <2>3 DEF Write
  <2>4. CASE CopyFails(e)  BY <1>5, <2>4 DEF CopyFails, MayRead
  <2>5. CASE CloseWrite(e)  BY <1>5, <2>5 DEF CloseWrite
  <2>6. QED  BY <1>5, <2>1, <2>2, <2>3, <2>4, <2>5 DEF CopyStep
<1>6. CASE CtxEnds  BY <1>6 DEF CtxEnds
<1>7. CASE \E e \in End : Arrives(e) \/ Finishes(e) \/ Goes(e) \/ PeerReads(e)
  BY <1>7 DEF Arrives, Finishes, Goes, PeerReads
<1>8. CASE UNCHANGED vars  BY <1>8 DEF vars
<1>9. QED
  BY <1>1, <1>2, <1>3, <1>4, <1>5, <1>6, <1>7, <1>8 DEF Next, HandlerStep

(* What the fair steps get done: the handler takes one more result or      *)
(* returns, ...                                                            *)
LEMMA HandlerGetsFurther ==
  ASSUME LiveInv, HandlerStep, NEW k \in 0..3
  PROVE  /\ Pressed(k) => Pressed(k + 1)' \/ Done'
         /\ Settled(k) => Settled(k + 1)' \/ Done'
<1> USE DEF LiveInv, IInv, TypeOK, Stage, CopyPC, End, peerVars, Count, HandlerRank, CopyRank,
           Pressed, Cut, CutPast, Settled, Done, Bicopies
<1>1. CASE CtxAborts  BY <1>1 DEF CtxAborts
<1>2. CASE Returns  BY <1>2 DEF Returns
<1>3. ASSUME NEW e \in End, TakeResult(e)
      PROVE  /\ Pressed(k) => Pressed(k + 1)' \/ Done'
             /\ Settled(k) => Settled(k + 1)' \/ Done'
  BY <1>3 DEF TakeResult, Aborts
<1>4. QED  BY <1>1, <1>2, <1>3 DEF HandlerStep

(* ... a goroutine fails at the connection it meets, or gets on, ...       *)
LEMMA CopyGetsFurther ==
  ASSUME LiveInv, NEW e \in End, CopyStep(e), NEW k \in 0..2
  PROVE  /\ Meets(e) => Pressed(0)'
         /\ CutPast(e, k) => CutPast(e, k + 1)'
<1> USE DEF LiveInv, IInv, TypeOK, Running, Stage, CopyPC, End, Other, peerVars, Count, HandlerRank,
           CopyRank, Pressed, Meets, Cut, CutPast, Bicopies
<1>1. CASE Read(e)  BY <1>1 DEF Read, MayRead
<1>2. CASE ReadEOF(e)  BY <1>2 DEF ReadEOF, MayRead
<1>3. CASE Write(e)  BY <1>3 DEF Write
<1>4. CASE CopyFails(e)  BY <1>4 DEF CopyFails, MayRead
<1>5. CASE CloseWrite(e)  BY <1>5 DEF CloseWrite
<1>6. QED  BY <1>1, <1>2, <1>3, <1>4, <1>5 DEF CopyStep

(* ... and a closed channel goes.                                          *)
LEMMA ChanGetsCut ==
  ASSUME LiveInv, Cutting, ClosedChanGoes
  PROVE  Cut'
BY DEF Cutting, Cut, ClosedChanGoes, Goes, End

(* When they can be taken.                                                 *)
LEMMA NothingWaits ==
  ASSUME LiveInv, AbortInterrupts
  PROVE  /\ \A k \in 0..3 : Pressed(k) => ENABLED <<HandlerStep>>_vars \/ Cutting
         /\ \A k \in 0..3 : Settled(k) => ENABLED <<HandlerStep>>_vars
         /\ \A e \in End : Meets(e) => ENABLED <<CopyStep(e)>>_vars
         /\ \A e \in End, k \in 0..2 :
              CutPast(e, k) => ENABLED <<CopyStep(e)>>_vars \/ CutPast(e, k + 1)
         /\ Cutting => ENABLED <<ClosedChanGoes>>_vars \/ Cut
<1> USE DEF LiveInv, IInv, TypeOK, AbortCloses, Running, Stage, CopyPC, End, Other, Bicopies, Count,
           HandlerRank, CopyRank, Pressed, Meets, Cutting, Cut, CutPast, Settled,
           Down, At, Aborting, Over, AbortInterrupts
<1>1. \A k \in 0..3 : Pressed(k) => ENABLED <<HandlerStep>>_vars \/ Cutting  OBVIOUS
<1>2. \A k \in 0..3 : Settled(k) => ENABLED <<HandlerStep>>_vars  OBVIOUS
<1>3. ASSUME NEW e \in End, Meets(e) PROVE ENABLED <<CopyStep(e)>>_vars
  BY <1>3
<1>4. ASSUME NEW e \in End, NEW k \in 0..2, CutPast(e, k)
      PROVE  ENABLED <<CopyStep(e)>>_vars \/ CutPast(e, k + 1)
  BY <1>4
<1>5. Cutting => ENABLED <<ClosedChanGoes>>_vars \/ Cut  OBVIOUS
<1>6. QED  BY <1>1, <1>2, <1>3, <1>4, <1>5

(* Under fairness each stage is left for the next.                         *)
Live == [](LiveInv /\ AbortInterrupts) /\ [][Next]_vars

HandlerLive   == Live /\ HandlerFair
CopyLive(e)   == Live /\ CopyFair(e)
PressedAdvances(k, n) == Pressed(k) ~> (Pressed(n) \/ Cutting \/ Done)
SettledAdvances(k, n) == Settled(k) ~> (Settled(n) \/ Done)
CopyAdvances(e, k, n) == CutPast(e, k) ~> (CutPast(e, n) \/ Done)
MeetsEnds(e)          == Meets(e) ~> (Pressed(0) \/ Done)
CutStays(e)           == [](CutPast(e, 3) => [](CutPast(e, 3) \/ Done))

LEMMA PressedAdvance ==
  ASSUME NEW k \in 0..3, NEW n, n = k + 1
  PROVE  HandlerLive => PressedAdvances(k, n)
<1>1. LiveInv /\ Pressed(k) /\ [Next]_vars => Pressed(k)' \/ Done'
  BY ReturnStages
<1>2. LiveInv /\ Pressed(k) /\ <<HandlerStep>>_vars => Pressed(n)' \/ Done'
  BY HandlerGetsFurther
<1>3. LiveInv /\ AbortInterrupts /\ Pressed(k) => ENABLED <<HandlerStep>>_vars \/ Cutting
  BY NothingWaits
<1>4. QED  BY <1>1, <1>2, <1>3, PTL DEF HandlerLive, HandlerFair, Live, PressedAdvances

LEMMA SettledAdvance ==
  ASSUME NEW k \in 0..3, NEW n, n = k + 1
  PROVE  HandlerLive => SettledAdvances(k, n)
<1>1. LiveInv /\ Settled(k) /\ [Next]_vars => Settled(k)' \/ Done'
  BY ReturnStages
<1>2. LiveInv /\ Settled(k) /\ <<HandlerStep>>_vars => Settled(n)' \/ Done'
  BY HandlerGetsFurther
<1>3. LiveInv /\ AbortInterrupts /\ Settled(k) => ENABLED <<HandlerStep>>_vars
  BY NothingWaits
<1>4. QED  BY <1>1, <1>2, <1>3, PTL DEF HandlerLive, HandlerFair, Live, SettledAdvances

LEMMA CopyAdvance ==
  ASSUME NEW e \in End, NEW k \in 0..2, NEW n, n = k + 1
  PROVE  CopyLive(e) => CopyAdvances(e, k, n)
<1>1. LiveInv /\ CutPast(e, k) /\ [Next]_vars => CutPast(e, k)' \/ Done'
  BY ReturnStages
<1>2. LiveInv /\ CutPast(e, k) /\ <<CopyStep(e)>>_vars => CutPast(e, n)'
  BY CopyGetsFurther
<1>3. LiveInv /\ AbortInterrupts /\ CutPast(e, k) => ENABLED <<CopyStep(e)>>_vars \/ CutPast(e, n)
  BY NothingWaits
<1>4. QED  BY <1>1, <1>2, <1>3, PTL DEF CopyLive, Live, CopyFair, CopyAdvances

LEMMA CutStay ==
  ASSUME NEW e \in End
  PROVE  Live => CutStays(e)
<1>1. LiveInv /\ CutPast(e, 3) /\ [Next]_vars => CutPast(e, 3)' \/ Done'
  BY ReturnStages
<1>2. LiveInv /\ Done /\ [Next]_vars => Done'
  BY ReturnStages
<1>3. QED  BY <1>1, <1>2, PTL DEF Live, CutStays

LEMMA MeetsEnd ==
  ASSUME NEW e \in End
  PROVE  CopyLive(e) => MeetsEnds(e)
<1>1. LiveInv /\ Meets(e) /\ [Next]_vars => Meets(e)' \/ Pressed(0)' \/ Done'
  BY ReturnStages
<1>2. LiveInv /\ Meets(e) /\ <<CopyStep(e)>>_vars => Pressed(0)'
  BY CopyGetsFurther
<1>3. LiveInv /\ AbortInterrupts /\ Meets(e) => ENABLED <<CopyStep(e)>>_vars
  BY NothingWaits
<1>4. QED  BY <1>1, <1>2, <1>3, PTL DEF CopyLive, Live, CopyFair, MeetsEnds

(* A handler whose Context is done, or one of whose goroutines meets a     *)
(* broken connection, returns whatever the client does; so does a proxy    *)
(* both of whose ends are gone (tcpip.go 236-266, agent.go 64-85).         *)
THEOREM HandlersReturn == []AbortInterrupts /\ FairSpec => HandlerReturns
<1> DEFINE Begins == stage = "copying" /\ (IF Bicopies THEN ctxDone \/ MeetsBrokenConn
                                                       ELSE gone = End)
           Pressing == Pressed(0) \/ Meets("chan") \/ Meets("conn")
<1>1. /\ HandlerLive => PressedAdvances(0, 1)
      /\ HandlerLive => PressedAdvances(1, 2)
      /\ HandlerLive => PressedAdvances(2, 3)
      /\ HandlerLive => PressedAdvances(3, 4)
  BY PressedAdvance
<1>2. /\ HandlerLive => SettledAdvances(0, 1)
      /\ HandlerLive => SettledAdvances(1, 2)
      /\ HandlerLive => SettledAdvances(2, 3)
      /\ HandlerLive => SettledAdvances(3, 4)
  BY SettledAdvance
<1>3. /\ "chan" \in End /\ "conn" \in End
      /\ CopyLive("chan") => CopyAdvances("chan", 0, 1)
      /\ CopyLive("chan") => CopyAdvances("chan", 1, 2)
      /\ CopyLive("chan") => CopyAdvances("chan", 2, 3)
      /\ CopyLive("conn") => CopyAdvances("conn", 0, 1)
      /\ CopyLive("conn") => CopyAdvances("conn", 1, 2)
      /\ CopyLive("conn") => CopyAdvances("conn", 2, 3)
  BY CopyAdvance DEF End
<1>4. /\ Live => CutStays("chan") /\ CutStays("conn")
      /\ CopyLive("chan") => MeetsEnds("chan")
      /\ CopyLive("conn") => MeetsEnds("conn")
  BY CutStay, MeetsEnd DEF End
<1>5. LiveInv => /\ Begins => Pressing \/ Cut
                 /\ Cut => CutPast("chan", 0) /\ CutPast("conn", 0)
                 /\ CutPast("chan", 3) /\ CutPast("conn", 3) => Settled(0)
                 /\ ~Pressed(4) /\ ~Settled(4)
  BY DEF LiveInv, IInv, TypeOK, Stage, CopyPC, End, Bicopies, MeetsBrokenConn, Count, HandlerRank,
         CopyRank, Pressed, Meets, Cut, CutPast, Settled
<1>6. LiveInv /\ AbortInterrupts /\ Cutting => ENABLED <<ClosedChanGoes>>_vars \/ Cut
  BY NothingWaits
<1>7. LiveInv /\ Cutting /\ <<ClosedChanGoes>>_vars => Cut'
  BY ChanGetsCut
<1>8. LiveInv /\ Cutting /\ [Next]_vars => Cutting' \/ Done'
  BY ReturnStages
<1>9. Fairness => CopyFair("chan") /\ CopyFair("conn")  BY DEF Fairness, End
<1>10. Fairness => HandlerFair  BY DEF Fairness
<1>11. Done => stage = "done"  BY DEF Done
<1>12. Live /\ Fairness => (Cutting ~> (Cut \/ Done))
  BY <1>6, <1>7, <1>8, <1>10, PTL DEF Live, HandlerFair
<1>13. Live /\ Fairness => (Pressing ~> (Cutting \/ Done))
  BY <1>1, <1>4, <1>5, <1>9, <1>10, PTL
  DEF Live, HandlerLive, CopyLive, PressedAdvances, MeetsEnds
<1>14. Live /\ Fairness => (Cut ~> (Settled(0) \/ Done))
  BY <1>3, <1>4, <1>5, <1>9, PTL DEF Live, CopyLive, CopyAdvances, CutStays
<1>15. Live /\ Fairness => (Settled(0) ~> Done)
  BY <1>2, <1>5, <1>10, PTL DEF Live, HandlerLive, SettledAdvances
<1>16. QED
  BY <1>5, <1>11, <1>12, <1>13, <1>14, <1>15, LiveInvHolds, PTL
  DEF FairSpec, Spec, Live, HandlerReturns
=============================================================================
