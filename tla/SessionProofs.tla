---------------------------- MODULE SessionProofs ---------------------------
(***************************************************************************)
(* For any signal channels, buffer size and application: who holds the two *)
(* mutexes of a session, what follows for signals and breaks, that no      *)
(* signal is lost, repeated or overtaken, and that Exit gets through.      *)
(***************************************************************************)
EXTENDS Session, SequenceTheorems, TLAPS

(* The loop holds sigMu exactly while it sends a signal, on the channel    *)
(* that is registered, and sess.Mutex from the send of a break to its      *)
(* reply; the flusher holds sigMu only while a channel is registered.  No  *)
(* handler runs before the session is started.                             *)
LocksHeld ==
  /\ loop = "sendingSig" <=> sigMu = "loop"
  /\ loop = "sendingSig" => sendTo = sigCh
  /\ sigMu \in {"loop", "flusher"} => sigCh # None
  /\ loop \in {"sendingBreak", "breakReply"} <=> mu = "loop"
  /\ app = "closing" <=> mu = "app"
  /\ ~handled => app = "none"

LEMMA LoopKeeps ==
  ASSUME LocksHeld, Request \/ LoopStep
  PROVE  LocksHeld'
<1> USE DEF LocksHeld, Reads, startVars, winVars, sigVars, loopVars, appVars, exitVars
<1>1. CASE Start  BY <1>1 DEF Start
<1>2. CASE PtyRequest  BY <1>2 DEF PtyRequest
<1>3. CASE WindowChange  BY <1>3 DEF WindowChange
<1>4. CASE SignalRequest  BY <1>4 DEF SignalRequest
<1>5. CASE BreakRequest  BY <1>5 DEF BreakRequest
<1>6. CASE WindowSent  BY <1>6 DEF WindowSent
<1>7. CASE SignalLocks  BY <1>7 DEF SignalLocks
<1>8. CASE BreakLocks  BY <1>8 DEF BreakLocks
<1>9. CASE BreakReplies  BY <1>9 DEF BreakReplies
<1>10. CASE LoopEnds  BY <1>10 DEF LoopEnds
<1>11. QED
  BY <1>1, <1>2, <1>3, <1>4, <1>5, <1>6, <1>7, <1>8, <1>9, <1>10 DEF Request, LoopStep

LEMMA ReceiveKeeps ==
  ASSUME LocksHeld, Receive \/ FlushEnds
  PROVE  LocksHeld'
<1> USE DEF LocksHeld, startVars, winVars, sigVars, loopVars, appVars, exitVars
<1>1. CASE SignalReceived  BY <1>1 DEF SignalReceived
<1>2. CASE FlushReceived  BY <1>2 DEF FlushReceived
<1>3. CASE BreakReceived  BY <1>3 DEF BreakReceived
<1>4. CASE WindowReceived  BY <1>4 DEF WindowReceived
<1>5. CASE FlushEnds  BY <1>5 DEF FlushEnds
<1>6. QED  BY <1>1, <1>2, <1>3, <1>4, <1>5 DEF Receive

LEMMA AppKeeps ==
  ASSUME LocksHeld, AppCall \/ AppStep
  PROVE  LocksHeld'
<1> USE DEF LocksHeld, AfterExit, startVars, winVars, sigVars, loopVars, appVars, exitVars
<1>1. ASSUME NEW c \in SigChan \cup {None}, SignalsCall(c) PROVE LocksHeld'
  BY <1>1 DEF SignalsCall
<1>2. CASE BreakCall  BY <1>2 DEF BreakCall
<1>3. CASE ExitCall  BY <1>3 DEF ExitCall
<1>4. CASE SignalsLocks  BY <1>4 DEF SignalsLocks
<1>5. CASE BreakRegisters  BY <1>5 DEF BreakRegisters
<1>6. CASE ExitLocks  BY <1>6 DEF ExitLocks
<1>7. CASE ExitCloses  BY <1>7 DEF ExitCloses
<1>8. QED  BY <1>1, <1>2, <1>3, <1>4, <1>5, <1>6, <1>7 DEF AppCall, AppStep

(* Who holds the two mutexes (session.go 198-212, 257-281, 368-377,        *)
(* 437-445).                                                               *)
THEOREM LocksHeldHolds == Spec => []LocksHeld
<1>1. Init => LocksHeld  BY DEF Init, LocksHeld
<1>2. ASSUME LocksHeld, [Next]_vars PROVE LocksHeld'
  <2>1. CASE TransportFails \/ RequestsClose \/ UNCHANGED vars
    BY <1>2, <2>1 DEF TransportFails, RequestsClose, vars, LocksHeld, startVars, sigVars, loopVars,
                      appVars, exitVars
  <2>2. QED  BY <1>2, <2>1, LoopKeeps, ReceiveKeeps, AppKeeps DEF Next
<1>3. QED  BY <1>1, <1>2, PTL DEF Spec

(* A signal is only ever sent on the channel registered last: once Signals *)
(* has returned, the application may close the channel it replaced.        *)
THEOREM SignalsGoToRegistered == Spec => UnregisteredIsQuiet
<1>1. LocksHeld /\ [Next]_vars => [received' # received => heard' = sigCh /\ sigCh # None]_vars
  <2> SUFFICES ASSUME LocksHeld, Next, received' # received
               PROVE  heard' = sigCh /\ sigCh # None
    OBVIOUS
  <2> USE DEF LocksHeld, startVars, winVars, sigVars, loopVars, appVars, exitVars, chanVars,
             histVars
  <2>1. SignalReceived \/ FlushReceived
    BY DEF Next, Request, LoopStep, Receive, AppCall, AppStep, Start, PtyRequest, WindowChange,
           SignalRequest, BreakRequest, WindowSent, SignalLocks, BreakLocks, BreakReplies,
           LoopEnds, FlushEnds, BreakReceived, WindowReceived, SignalsCall, BreakCall, ExitCall,
           SignalsLocks, BreakRegisters, ExitLocks, ExitCloses, TransportFails, RequestsClose
  <2>2. QED  BY <2>1 DEF SignalReceived, FlushReceived
<1>2. QED  BY <1>1, LocksHeldHolds, PTL DEF Spec, UnregisteredIsQuiet

(* Between the application's receipt of a break and the reply to it Exit   *)
(* waits for sess.Mutex, so the client gets the reply before the close.    *)
THEOREM BreaksAnsweredFirst == Spec => BreakAnsweredFirst
<1>1. LocksHeld /\ [Next]_vars =>
        [loop = "breakReply" /\ loop' = "breakReply" => UNCHANGED <<exited, chanOpen>>]_vars
  <2> SUFFICES ASSUME LocksHeld, Next, loop = "breakReply", loop' = "breakReply"
               PROVE  UNCHANGED <<exited, chanOpen>>
    OBVIOUS
  <2>1. mu = "loop" /\ app # "closing"  BY DEF LocksHeld
  <2>2. QED
    BY <2>1 DEF Next, Request, LoopStep, Receive, AppCall, AppStep, Start, PtyRequest,
       WindowChange, SignalRequest, BreakRequest, WindowSent, SignalLocks, BreakLocks,
       BreakReplies, LoopEnds, FlushEnds, SignalReceived, FlushReceived, BreakReceived,
       WindowReceived, SignalsCall, BreakCall, ExitCall, SignalsLocks, BreakRegisters,
       ExitLocks, ExitCloses, TransportFails, RequestsClose, exitVars, chanVars
<1>2. QED  BY <1>1, LocksHeldHolds, PTL DEF Spec, BreakAnsweredFirst

-----------------------------------------------------------------------------
(* What TypeOK needs to be inductive: a pty has an open window channel as  *)
(* long as the loop runs, and the loop has a signal in hand, one that was  *)
(* sent, exactly while it handles it.                                      *)
Stages ==
  /\ pty /\ loop # "done" => winchState = "open"
  /\ inHand # 0 <=> loop \in {"sigLock", "sendingSig"}
  /\ inHand <= sent

Typed == TypeOK /\ Stages

LEMMA LoopKeepsTypes ==
  ASSUME Typed, Request \/ LoopStep
  PROVE  Typed'
<1> USE SizesAssumption
        DEF Typed, TypeOK, Stages, Reads, startVars, winVars, sigVars, loopVars, appVars, exitVars,
            chanVars, histVars, LoopPC, AppPC
<1>1. CASE Start  BY <1>1 DEF Start
<1>2. CASE PtyRequest  BY <1>2 DEF PtyRequest
<1>3. CASE WindowChange  BY <1>3 DEF WindowChange
<1>4. CASE SignalRequest  BY <1>4 DEF SignalRequest
<1>5. CASE BreakRequest  BY <1>5 DEF BreakRequest
<1>6. CASE WindowSent  BY <1>6 DEF WindowSent
<1>7. CASE SignalLocks
  <2>1. inHand \in 1..sent /\ inHand \in Nat  BY <1>7 DEF SignalLocks
  <2>2. CASE sigCh # None
    <3>1. /\ UNCHANGED <<handled, pty, breakCh, exited, returned, chanVars, winVars, sigCh, arg,
                        sigBuf, flushed, mu, app, inHand, histVars>>
          /\ sigMu' = "loop" /\ loop' = "sendingSig" /\ sendTo' = sigCh
      BY <1>7, <2>2 DEF SignalLocks
    <3>2. QED  BY <2>1, <2>2, <3>1
  <2>3. CASE sigCh = None
    <3>1. /\ sigBuf' \in Seq(Nat) /\ Len(sigBuf') <= BufSize /\ Len(sigBuf) <= Len(sigBuf')
          /\ dropped' \subseteq 1..sent
      <4>1. CASE Len(sigBuf) < BufSize
        <5>1. sigBuf' = Append(sigBuf, inHand) /\ dropped' = dropped
          BY <1>7, <2>3, <4>1 DEF SignalLocks
        <5>2. QED  BY <2>1, <4>1, <5>1
      <4>2. CASE ~(Len(sigBuf) < BufSize)
        <5>1. sigBuf' = sigBuf /\ dropped' = dropped \cup {inHand}
          BY <1>7, <2>3, <4>2 DEF SignalLocks
        <5>2. QED  BY <2>1, <5>1
      <4>3. QED  BY <4>1, <4>2
    <3>2. /\ UNCHANGED <<handled, pty, breakCh, exited, returned, chanVars, winVars, sigCh, arg,
                        flushed, sigMu, mu, app, sendTo, sent, received, heard>>
          /\ loop' = "idle" /\ inHand' = 0
      BY <1>7, <2>3 DEF SignalLocks
    <3>3. QED  BY <2>1, <3>1, <3>2
  <2>4. QED  BY <2>2, <2>3
<1>8. CASE BreakLocks  BY <1>8 DEF BreakLocks
<1>9. CASE BreakReplies  BY <1>9 DEF BreakReplies
<1>10. CASE LoopEnds  BY <1>10 DEF LoopEnds
<1>11. QED
  BY <1>1, <1>2, <1>3, <1>4, <1>5, <1>6, <1>7, <1>8, <1>9, <1>10 DEF Request, LoopStep

LEMMA ReceiveKeepsTypes ==
  ASSUME Typed, Receive \/ FlushEnds
  PROVE  Typed'
<1> USE SizesAssumption
        DEF Typed, TypeOK, Stages, startVars, winVars, sigVars, loopVars, appVars, exitVars,
            chanVars, histVars, LoopPC, AppPC
<1>1. CASE SignalReceived  BY <1>1 DEF SignalReceived
<1>2. CASE FlushReceived
  <2>1. flushed + 1 \in 1..Len(sigBuf)  BY <1>2 DEF FlushReceived
  <2>2. received' \in Seq(Nat) /\ heard' \in SigChan \cup {None}
    BY <1>2, <2>1 DEF FlushReceived
  <2>3. QED  BY <1>2, <2>1, <2>2 DEF FlushReceived
<1>3. CASE BreakReceived  BY <1>3 DEF BreakReceived
<1>4. CASE WindowReceived  BY <1>4 DEF WindowReceived
<1>5. CASE FlushEnds  BY <1>5 DEF FlushEnds
<1>6. QED  BY <1>1, <1>2, <1>3, <1>4, <1>5 DEF Receive

LEMMA AppKeepsTypes ==
  ASSUME Typed, AppCall \/ AppStep \/ TransportFails \/ RequestsClose
  PROVE  Typed'
<1> USE DEF Typed, TypeOK, Stages, AfterExit, startVars, winVars, sigVars, loopVars, appVars,
            exitVars, chanVars, histVars, LoopPC, AppPC
<1>1. ASSUME NEW c \in SigChan \cup {None}, SignalsCall(c) PROVE Typed'
  BY <1>1 DEF SignalsCall
<1>2. CASE BreakCall  BY <1>2 DEF BreakCall
<1>3. CASE ExitCall  BY <1>3 DEF ExitCall
<1>4. CASE SignalsLocks  BY <1>4 DEF SignalsLocks
<1>5. CASE BreakRegisters  BY <1>5 DEF BreakRegisters
<1>6. CASE ExitLocks
  <2>1. exited' \in BOOLEAN /\ returned' \in BOOLEAN  BY <1>6 DEF ExitLocks
  <2>2. QED  BY <1>6, <2>1 DEF ExitLocks
<1>7. CASE ExitCloses
  <2>1. chanOpen' \in BOOLEAN  BY <1>7 DEF ExitCloses
  <2>2. QED  BY <1>7, <2>1 DEF ExitCloses
<1>8. CASE TransportFails
  <2>1. alive' \in BOOLEAN  BY <1>8 DEF TransportFails
  <2>2. QED  BY <1>8, <2>1 DEF TransportFails
<1>9. CASE RequestsClose
  <2>1. reqsOpen' \in BOOLEAN  BY <1>9 DEF RequestsClose
  <2>2. QED  BY <1>9, <2>1 DEF RequestsClose
<1>10. QED
  BY <1>1, <1>2, <1>3, <1>4, <1>5, <1>6, <1>7, <1>8, <1>9 DEF AppCall, AppStep

LEMMA TypedHolds == Spec => []Typed
<1>1. ASSUME Init PROVE Typed
  <2>1. /\ handled \in BOOLEAN /\ pty \in BOOLEAN /\ breakCh \in BOOLEAN /\ exited \in BOOLEAN
        /\ returned \in BOOLEAN /\ alive \in BOOLEAN /\ reqsOpen \in BOOLEAN /\ chanOpen \in BOOLEAN
    BY <1>1 DEF Init
  <2>2. sigBuf \in Seq(Nat) /\ Len(sigBuf) = 0 /\ received \in Seq(Nat)  BY <1>1 DEF Init
  <2>3. QED  BY <1>1, <2>1, <2>2, SizesAssumption DEF Init, Typed, TypeOK, Stages, LoopPC, AppPC
<1>2. ASSUME Typed, [Next]_vars PROVE Typed'
  <2>1. CASE UNCHANGED vars
    BY <1>2, <2>1 DEF Typed, TypeOK, Stages, vars, startVars, winVars, sigVars, loopVars, appVars,
                      exitVars, chanVars, histVars, LoopPC, AppPC
  <2>2. QED
    BY <1>2, <2>1, LoopKeepsTypes, ReceiveKeepsTypes, AppKeepsTypes DEF Next
<1>3. QED  BY <1>1, <1>2, PTL DEF Spec

(* The variables have their types, sizes are sent only on an open window   *)
(* channel, and a signal is sent only with a channel for it in hand        *)
(* (session.go 318-340, 359-377, 426-428).                                 *)
THEOREM TypesHold == Spec => []TypeOK
<1>1. Typed => TypeOK  BY DEF Typed
<1>2. QED  BY <1>1, TypedHolds, PTL

-----------------------------------------------------------------------------
(* What SignalsInOrder needs besides: only the flushing goroutine has sent *)
(* a part of the buffer, and beside it nothing is buffered while a channel *)
(* is registered, so a signal sent directly overtakes none.                *)
Flow ==
  /\ sigMu # "flusher" => flushed = 0
  /\ sigCh # None /\ sigMu # "flusher" => sigBuf = <<>>

(* The numbers of S in ascending order.                                    *)
Ascends(q, S) ==
  /\ q \in Seq(Nat)
  /\ \A i, j \in DOMAIN q : i < j => q[i] < q[j]
  /\ {q[i] : i \in DOMAIN q} = S

LEMMA AscendsAppend ==
  ASSUME NEW q, NEW S, Ascends(q, S), NEW n \in Nat, \A s \in S : s < n
  PROVE  Ascends(Append(q, n), S \cup {n})
<1> DEFINE r == Append(q, n)
<1>1. q \in Seq(Nat)  BY DEF Ascends
<1>2. /\ r \in Seq(Nat) /\ Len(r) = Len(q) + 1 /\ r[Len(q) + 1] = n
      /\ \A i \in 1..Len(q) : r[i] = q[i]
      /\ DOMAIN q = 1..Len(q) /\ DOMAIN r = 1..(Len(q) + 1) /\ Len(q) \in Nat
  BY <1>1
<1> HIDE DEF r
<1>3. \A i, j \in DOMAIN r : i < j => r[i] < r[j]
  BY <1>2 DEF Ascends
<1>4. {r[i] : i \in DOMAIN r} = S \cup {n}
  BY <1>2 DEF Ascends
<1>5. QED  BY <1>2, <1>3, <1>4 DEF Ascends, r

LEMMA AscendsFront ==
  ASSUME NEW q \in Seq(Nat), NEW n \in Nat, NEW S, Ascends(Append(q, n), S)
  PROVE  Ascends(q, S \ {n})
<1> DEFINE r == Append(q, n)
<1>1. /\ r \in Seq(Nat) /\ Len(r) = Len(q) + 1 /\ r[Len(q) + 1] = n
      /\ \A i \in 1..Len(q) : r[i] = q[i] /\ q[i] \in Nat
      /\ DOMAIN q = 1..Len(q) /\ DOMAIN r = 1..(Len(q) + 1) /\ Len(q) \in Nat
  OBVIOUS
<1>2. /\ \A i, j \in DOMAIN r : i < j => r[i] < r[j]
      /\ {r[i] : i \in DOMAIN r} = S
  BY DEF Ascends
<1> HIDE DEF r
<1>3. ASSUME NEW i \in 1..Len(q) PROVE q[i] < n
  <2>1. i \in DOMAIN r /\ Len(q) + 1 \in DOMAIN r /\ i < Len(q) + 1  BY <1>1
  <2>2. QED  BY <1>1, <1>2, <2>1
<1>4. {q[i] : i \in DOMAIN q} = S \ {n}
  <2>1. ASSUME NEW i \in DOMAIN q PROVE q[i] \in S \ {n}
    BY <1>1, <1>2, <1>3, <2>1
  <2>2. ASSUME NEW x \in S \ {n} PROVE \E i \in DOMAIN q : x = q[i]
    <3>1. PICK i \in DOMAIN r : x = r[i]  BY <1>2
    <3>2. i \in 1..Len(q)  BY <3>1, <1>1
    <3>3. QED  BY <3>1, <3>2, <1>1
  <2>3. QED  BY <2>1, <2>2
<1>5. QED  BY <1>1, <1>2, <1>4 DEF Ascends

(* Delivery as its three parts: nothing, the rest of a buffer, one signal. *)
LEMMA Parts ==
  ASSUME NEW r \in Seq(Nat), NEW b \in Seq(Nat), NEW n \in Nat
  PROVE  /\ r \o <<>> = r
         /\ r \o <<n>> = Append(r, n)
         /\ r \o Append(b, n) = Append(r \o b, n)
         /\ r \o b \in Seq(Nat)
         /\ SubSeq(b, 1, Len(b)) = b
         /\ SubSeq(b, Len(b) + 1, Len(b)) = <<>>
         /\ \A k \in 0..(Len(b) - 1) :
              /\ SubSeq(b, k + 1, Len(b)) \in Seq(Nat)
              /\ SubSeq(b, k + 2, Len(b)) \in Seq(Nat)
              /\ r \o SubSeq(b, k + 1, Len(b))
                   = Append(r, b[k + 1]) \o SubSeq(b, k + 2, Len(b))
<1>1. r \o <<>> = r /\ r \o b \in Seq(Nat)  OBVIOUS
<1>2. r \o <<n>> = Append(r, n)  OBVIOUS
<1>3. r \o Append(b, n) = Append(r \o b, n)  OBVIOUS
<1>4. SubSeq(b, 1, Len(b)) = b  OBVIOUS
<1>5. SubSeq(b, Len(b) + 1, Len(b)) = <<>>  OBVIOUS
<1>6. ASSUME NEW k \in 0..(Len(b) - 1)
      PROVE  /\ SubSeq(b, k + 1, Len(b)) \in Seq(Nat)
             /\ SubSeq(b, k + 2, Len(b)) \in Seq(Nat)
             /\ r \o SubSeq(b, k + 1, Len(b))
                  = Append(r, b[k + 1]) \o SubSeq(b, k + 2, Len(b))
  <2> DEFINE x == SubSeq(b, k + 1, Len(b))
             y == SubSeq(b, k + 2, Len(b))
  <2>1. /\ x \in Seq(Nat) /\ Len(x) = Len(b) - k
        /\ \A i \in 1..Len(x) : x[i] = b[k + i]
    BY SubSeqProperties
  <2>2. /\ y \in Seq(Nat) /\ Len(y) = Len(b) - k - 1
        /\ \A i \in 1..Len(y) : y[i] = b[k + 1 + i]
    BY SubSeqProperties
  <2>3. b[k + 1] \in Nat  OBVIOUS
  <2> HIDE DEF x, y
  <2>4. r \o x = Append(r, b[k + 1]) \o y
    <3> DEFINE z == Append(r, b[k + 1])
    <3>1. /\ z \in Seq(Nat) /\ Len(z) = Len(r) + 1 /\ z[Len(r) + 1] = b[k + 1]
          /\ \A i \in 1..Len(r) : z[i] = r[i]
      BY <2>3, AppendProperties
    <3> HIDE DEF z
    <3>2. /\ r \o x \in Seq(Nat) /\ Len(r \o x) = Len(r) + Len(x)
          /\ \A i \in 1..(Len(r) + Len(x)) :
               (r \o x)[i] = IF i <= Len(r) THEN r[i] ELSE x[i - Len(r)]
      BY <2>1, ConcatProperties
    <3>3. /\ z \o y \in Seq(Nat) /\ Len(z \o y) = Len(z) + Len(y)
          /\ \A i \in 1..(Len(z) + Len(y)) :
               (z \o y)[i] = IF i <= Len(z) THEN z[i] ELSE y[i - Len(z)]
      BY <2>2, <3>1, ConcatProperties
    <3>4. /\ Len(r) \in Nat /\ Len(b) \in Nat /\ Len(x) \in Nat /\ Len(y) \in Nat
          /\ Len(r) + Len(x) = Len(z) + Len(y)
      <4>1. Len(r) \in Nat /\ Len(b) \in Nat  BY LenProperties
      <4>2. Len(x) = Len(b) - k /\ Len(y) = Len(b) - k - 1 /\ Len(z) = Len(r) + 1
        BY <2>1, <2>2, <3>1
      <4>3. QED  BY <4>1, <4>2
    <3>5. ASSUME NEW i \in 1..(Len(r) + Len(x)) PROVE (r \o x)[i] = (z \o y)[i]
      <4>1. CASE i <= Len(r)  BY <4>1, <3>1, <3>2, <3>3, <3>4
      <4>2. CASE i = Len(r) + 1
        <5>1. 1 \in 1..Len(x) /\ i - Len(r) = 1  BY <4>2, <3>4, <2>1
        <5>2. x[1] = b[k + 1]  BY <5>1, <2>1
        <5>3. (r \o x)[i] = x[1]  BY <4>2, <5>1, <3>2, <3>4
        <5>4. (z \o y)[i] = z[Len(r) + 1]  BY <4>2, <3>1, <3>3, <3>4
        <5>5. QED  BY <5>2, <5>3, <5>4, <3>1
      <4>3. CASE i > Len(r) + 1
        <5>1. i - Len(r) \in 1..Len(x) /\ i - Len(z) \in 1..Len(y)  BY <4>3, <3>1, <3>4
        <5>2. x[i - Len(r)] = b[k + (i - Len(r))] /\ y[i - Len(z)] = b[k + 1 + (i - Len(z))]
          BY <5>1, <2>1, <2>2
        <5>3. k + (i - Len(r)) = k + 1 + (i - Len(z))  BY <3>1, <3>4
        <5>4. (r \o x)[i] = x[i - Len(r)]  BY <4>3, <3>2, <3>4
        <5>5. (z \o y)[i] = y[i - Len(z)]
          <6>1. i \in 1..(Len(z) + Len(y)) /\ ~(i <= Len(z))  BY <4>3, <3>1, <3>4
          <6>2. QED  BY <6>1, <3>3
        <5>6. QED  BY <5>2, <5>3, <5>4, <5>5
      <4>4. i <= Len(r) \/ i = Len(r) + 1 \/ i > Len(r) + 1  BY <3>4
      <4>5. QED  BY <4>1, <4>2, <4>3, <4>4
    <3>6. QED  BY <3>2, <3>3, <3>4, <3>5, SeqEqual DEF z
  <2>5. QED  BY <2>1, <2>2, <2>4 DEF x, y
<1>7. QED  BY <1>1, <1>2, <1>3, <1>4, <1>5, <1>6

LEMMA LoopKeepsFlow ==
  ASSUME Typed, LocksHeld, Flow, Request \/ LoopStep
  PROVE  Flow'
<1> USE DEF LocksHeld, Flow, sigVars
<1>1. CASE Request
  BY <1>1 DEF Request, Start, PtyRequest, WindowChange, SignalRequest, BreakRequest
<1>2. CASE SignalLocks  BY <1>2 DEF SignalLocks
<1>3. CASE WindowSent \/ BreakLocks \/ BreakReplies \/ LoopEnds
  BY <1>3 DEF WindowSent, BreakLocks, BreakReplies, LoopEnds
<1>4. QED  BY <1>1, <1>2, <1>3 DEF LoopStep

LEMMA OthersKeepFlow ==
  ASSUME Typed, LocksHeld, Flow,
         Receive \/ FlushEnds \/ AppCall \/ AppStep \/ TransportFails \/ RequestsClose
  PROVE  Flow'
<1> USE DEF LocksHeld, Flow, sigVars
<1>1. CASE Receive
  <2>1. CASE SignalReceived  BY <1>1, <2>1 DEF SignalReceived, Typed, TypeOK
  <2>2. CASE FlushReceived  BY <1>1, <2>2 DEF FlushReceived
  <2>3. CASE BreakReceived \/ WindowReceived  BY <2>3 DEF BreakReceived, WindowReceived
  <2>4. QED  BY <1>1, <2>1, <2>2, <2>3 DEF Receive
<1>2. CASE FlushEnds  BY <1>2 DEF FlushEnds
<1>3. CASE AppCall  BY <1>3 DEF AppCall, SignalsCall, BreakCall, ExitCall
<1>4. CASE SignalsLocks  BY <1>4 DEF SignalsLocks
<1>5. CASE BreakRegisters \/ ExitLocks \/ ExitCloses
  BY <1>5 DEF BreakRegisters, ExitLocks, ExitCloses
<1>6. CASE TransportFails \/ RequestsClose  BY <1>6 DEF TransportFails, RequestsClose
<1>7. QED  BY <1>1, <1>2, <1>3, <1>4, <1>5, <1>6 DEF AppStep

(* The variables Delivery and the signals due are made of.                 *)
flowVars == <<received, sigBuf, flushed, inHand, sent, dropped>>

LEMMA MostLeaveFlow ==
  ASSUME Next
  PROVE  \/ SignalRequest \/ SignalLocks \/ SignalReceived \/ FlushReceived \/ FlushEnds
         \/ UNCHANGED flowVars
<1> USE DEF flowVars, sigVars, loopVars, histVars
<1>1. CASE Request
  BY <1>1 DEF Request, Start, PtyRequest, WindowChange, BreakRequest
<1>2. CASE LoopStep
  BY <1>2 DEF LoopStep, WindowSent, BreakLocks, BreakReplies, LoopEnds
<1>3. CASE Receive  BY <1>3 DEF Receive, BreakReceived, WindowReceived
<1>4. CASE AppCall  BY <1>4 DEF AppCall, SignalsCall, BreakCall, ExitCall
<1>5. CASE AppStep
  BY <1>5 DEF AppStep, SignalsLocks, BreakRegisters, ExitLocks, ExitCloses
<1>6. CASE TransportFails \/ RequestsClose  BY <1>6 DEF TransportFails, RequestsClose
<1>7. QED  BY <1>1, <1>2, <1>3, <1>4, <1>5, <1>6 DEF Next

(* The line of signals: r received, those of b after the k-th, n in hand.  *)
Line(r, b, k, n) == r \o SubSeq(b, k + 1, Len(b)) \o (IF n = 0 THEN <<>> ELSE <<n>>)

LEMMA LineOfBuffer ==
  ASSUME NEW r \in Seq(Nat), NEW b \in Seq(Nat)
  PROVE  Line(r, b, 0, 0) = r \o b
<1>1. SubSeq(b, 0 + 1, Len(b)) = b /\ r \o b \in Seq(Nat)  BY Parts
<1>2. (r \o b) \o <<>> = r \o b  BY <1>1, Parts
<1>3. QED  BY <1>1, <1>2 DEF Line

LEMMA LineParts ==
  ASSUME NEW r \in Seq(Nat), NEW b \in Seq(Nat), NEW k \in 0..Len(b), NEW n \in Nat
  PROVE  /\ Line(r, b, k, n) \in Seq(Nat)
         /\ n # 0 => Line(r, b, k, n) = Append(Line(r, b, k, 0), n)
         /\ Line(r, b, Len(b), n) = Line(r, <<>>, 0, n)
         /\ k < Len(b) => Line(r, b, k, n) = Line(Append(r, b[k + 1]), b, k + 1, n)
<1> DEFINE x == SubSeq(b, k + 1, Len(b))
<1>1. x \in Seq(Nat)
  <2>1. CASE k < Len(b)  BY <2>1, Parts
  <2>2. CASE k = Len(b)  BY <2>2, Parts
  <2>3. QED  BY <2>1, <2>2
<1>2. Line(r, b, k, 0) = r \o x /\ r \o x \in Seq(Nat)
  BY <1>1, Parts DEF Line
<1>3. n # 0 => Line(r, b, k, n) = Append(Line(r, b, k, 0), n)
  <2>1. (r \o x) \o <<n>> = Append(r \o x, n)  BY <1>2, Parts
  <2>2. QED  BY <1>2, <2>1 DEF Line
<1>4. Line(r, b, k, n) \in Seq(Nat)
  <2>1. CASE n = 0  BY <1>2, <2>1
  <2>2. CASE n # 0
    <3>1. Append(r \o x, n) \in Seq(Nat)  BY <1>2
    <3>2. QED  BY <1>2, <1>3, <2>2, <3>1
  <2>3. QED  BY <2>1, <2>2
<1>5. Line(r, b, Len(b), n) = Line(r, <<>>, 0, n)
  <2>1. SubSeq(b, Len(b) + 1, Len(b)) = <<>>  BY Parts
  <2>2. SubSeq(<<>>, 0 + 1, Len(<<>>)) = <<>>  OBVIOUS
  <2>3. QED  BY <2>1, <2>2 DEF Line
<1>6. ASSUME k < Len(b)
      PROVE  Line(r, b, k, n) = Line(Append(r, b[k + 1]), b, k + 1, n)
  <2>1. r \o SubSeq(b, k + 1, Len(b)) = Append(r, b[k + 1]) \o SubSeq(b, (k + 1) + 1, Len(b))
    <3>1. (k + 1) + 1 = k + 2 /\ k \in 0..(Len(b) - 1)  BY <1>6
    <3>2. r \o SubSeq(b, k + 1, Len(b)) = Append(r, b[k + 1]) \o SubSeq(b, k + 2, Len(b))
      BY <3>1, Parts
    <3>3. QED  BY <3>1, <3>2
  <2>2. QED  BY <2>1 DEF Line
<1>7. QED  BY <1>3, <1>4, <1>5, <1>6

LEMMA OrderKept ==
  ASSUME Typed, LocksHeld, Flow, SignalsInOrder, Next \/ UNCHANGED vars
  PROVE  SignalsInOrder'
<1> DEFINE due == (1..sent) \ dropped
<1>1. /\ received \in Seq(Nat) /\ sigBuf \in Seq(Nat) /\ flushed \in 0..Len(sigBuf)
      /\ inHand \in Nat /\ inHand <= sent /\ sent \in Nat /\ dropped \subseteq 1..sent
      /\ inHand # 0 <=> loop \in {"sigLock", "sendingSig"}
  BY SizesAssumption DEF Typed, TypeOK, Stages
<1>2. Delivery = Line(received, sigBuf, flushed, inHand)  BY DEF Delivery, Line
<1>3. Delivery' = Line(received', sigBuf', flushed', inHand')  BY DEF Delivery, Line
<1>4. Ascends(Delivery, due)
  BY <1>1, <1>2, LineParts DEF Ascends, SignalsInOrder
<1>5. SUFFICES Ascends(Delivery', due')
  BY DEF Ascends, SignalsInOrder
<1>6. CASE SignalRequest
  <2>1. inHand = 0 /\ inHand' = sent + 1 /\ sent' = sent + 1
        /\ UNCHANGED <<received, sigBuf, flushed, dropped>>
    BY <1>1, <1>6 DEF SignalRequest, Reads, sigVars
  <2>2. Delivery' = Append(Delivery, sent + 1)
    <3>1. sent + 1 \in Nat /\ sent + 1 # 0  BY <1>1
    <3>2. Line(received, sigBuf, flushed, sent + 1)
            = Append(Line(received, sigBuf, flushed, 0), sent + 1)
      BY <1>1, <3>1, LineParts
    <3>3. QED  BY <1>2, <1>3, <2>1, <3>2
  <2>3. due' = due \cup {sent + 1}  BY <1>1, <2>1
  <2>4. QED  BY <1>1, <1>4, <2>2, <2>3, AscendsAppend
<1>7. CASE SignalLocks
  <2>1. CASE sigCh # None
    BY <1>2, <1>3, <1>4, <1>7, <2>1 DEF SignalLocks
  <2>2. CASE sigCh = None
    <3>1. /\ inHand # 0 /\ inHand' = 0 /\ flushed = 0
          /\ UNCHANGED <<received, flushed, sent>>
      BY <1>1, <1>7, <2>2 DEF SignalLocks, Flow
    <3>2. Delivery = Append(received \o sigBuf, inHand) /\ received \o sigBuf \in Seq(Nat)
      <4>1. /\ Line(received, sigBuf, 0, inHand) = Append(Line(received, sigBuf, 0, 0), inHand)
            /\ Line(received, sigBuf, 0, 0) = received \o sigBuf
        BY <1>1, <3>1, LineParts, LineOfBuffer
      <4>2. received \o sigBuf \in Seq(Nat)  BY <1>1
      <4>3. Delivery = Line(received, sigBuf, 0, inHand)  BY <1>2, <3>1
      <4>4. QED  BY <4>1, <4>2, <4>3
    <3>3. CASE Len(sigBuf) < BufSize
      <4>1. sigBuf' = Append(sigBuf, inHand) /\ dropped' = dropped
        BY <1>7, <2>2, <3>3 DEF SignalLocks
      <4>2. sigBuf' \in Seq(Nat)  BY <1>1, <4>1
      <4>3. Delivery' = received \o Append(sigBuf, inHand)
        <5>1. Line(received, sigBuf', 0, 0) = received \o sigBuf'
          BY <1>1, <4>2, LineOfBuffer
        <5>2. QED  BY <1>3, <3>1, <4>1, <5>1
      <4>4. Delivery' = Delivery  BY <1>1, <3>2, <4>3, Parts
      <4>5. QED  BY <1>4, <3>1, <4>1, <4>4
    <3>4. CASE ~(Len(sigBuf) < BufSize)
      <4>1. sigBuf' = sigBuf /\ dropped' = dropped \cup {inHand}
        BY <1>7, <2>2, <3>4 DEF SignalLocks
      <4>2. Delivery' = received \o sigBuf
        BY <1>1, <1>3, <3>1, <4>1, LineOfBuffer
      <4>3. due' = due \ {inHand}  BY <3>1, <4>1
      <4>4. QED  BY <1>1, <1>4, <3>2, <4>2, <4>3, AscendsFront
    <3>5. QED  BY <3>3, <3>4
  <2>3. QED  BY <2>1, <2>2
<1>8. CASE SignalReceived
  <2>1. /\ inHand # 0 /\ inHand' = 0 /\ received' = Append(received, inHand)
        /\ UNCHANGED <<sigBuf, flushed, sent, dropped>>
    BY <1>1, <1>8 DEF SignalReceived
  <2>2. sigBuf = <<>> /\ flushed = 0
    BY <1>8 DEF SignalReceived, LocksHeld, Flow
  <2>3. Delivery = Append(received, inHand)
    <3>1. /\ Line(received, <<>>, 0, inHand) = Append(Line(received, <<>>, 0, 0), inHand)
          /\ Line(received, <<>>, 0, 0) = received \o <<>>
      BY <1>1, <2>1, <2>2, LineParts, LineOfBuffer
    <3>2. QED  BY <1>1, <1>2, <2>2, <3>1, Parts
  <2>4. received' \in Seq(Nat) /\ Delivery' = received' \o <<>>
    <3>1. received' \in Seq(Nat)  BY <1>1, <2>1
    <3>2. <<>> \in Seq(Nat)  OBVIOUS
    <3>3. Line(received', <<>>, 0, 0) = received' \o <<>>  BY <3>1, <3>2, LineOfBuffer
    <3>4. QED  BY <1>3, <2>1, <2>2, <3>1, <3>3
  <2>5. Delivery' = Delivery  BY <2>1, <2>3, <2>4, Parts
  <2>6. QED  BY <1>4, <2>1, <2>5
<1>9. CASE FlushReceived
  <2>1. /\ flushed < Len(sigBuf) /\ flushed' = flushed + 1
        /\ received' = Append(received, sigBuf[flushed + 1])
        /\ UNCHANGED <<sigBuf, inHand, sent, dropped>>
    BY <1>9 DEF FlushReceived, loopVars
  <2>2. Line(received, sigBuf, flushed, inHand)
          = Line(Append(received, sigBuf[flushed + 1]), sigBuf, flushed + 1, inHand)
    BY <1>1, <2>1, LineParts
  <2>3. Delivery' = Delivery  BY <1>2, <1>3, <2>1, <2>2
  <2>4. QED  BY <1>4, <2>1, <2>3
<1>10. CASE FlushEnds
  <2>1. /\ flushed = Len(sigBuf) /\ flushed' = 0 /\ sigBuf' = <<>>
        /\ UNCHANGED <<received, inHand, sent, dropped>>
    BY <1>10 DEF FlushEnds, loopVars, histVars
  <2>2. Line(received, sigBuf, Len(sigBuf), inHand) = Line(received, <<>>, 0, inHand)
    BY <1>1, LineParts
  <2>3. Delivery' = Delivery  BY <1>2, <1>3, <2>1, <2>2
  <2>4. QED  BY <1>4, <2>1, <2>3
<1>11. CASE UNCHANGED flowVars
  BY <1>2, <1>3, <1>4, <1>11 DEF flowVars
<1>12. QED
  <2>1. UNCHANGED vars => UNCHANGED flowVars
    BY DEF vars, flowVars, sigVars, loopVars, histVars
  <2>2. QED  BY <1>6, <1>7, <1>8, <1>9, <1>10, <1>11, <2>1, MostLeaveFlow

(* Every signal the full buffer did not refuse reaches the application     *)
(* once and in the order sent, for any number of signals and any use of    *)
(* Signals: registered, replaced, unregistered, while the buffer is        *)
(* flushed (session.go 257-275, 359-377).                                  *)
THEOREM SignalsArriveInOrder == Spec => []SignalsInOrder
<1>1. Init => Flow /\ SignalsInOrder
  <2>1. ASSUME Init PROVE SignalsInOrder
    <3>1. Delivery = <<>> /\ sent = 0 /\ dropped = {}
      BY <2>1 DEF Init, Delivery
    <3>2. QED  BY <3>1 DEF SignalsInOrder
  <2>2. QED  BY <2>1 DEF Init, Flow
<1>2. ASSUME Typed, LocksHeld, Flow /\ SignalsInOrder, [Next]_vars
      PROVE  (Flow /\ SignalsInOrder)'
  <2>1. CASE UNCHANGED vars
    BY <1>2, <2>1, OrderKept DEF vars, Flow, sigVars
  <2>2. CASE Next
    BY <1>2, <2>2, OrderKept, LoopKeepsFlow, OthersKeepFlow DEF Next
  <2>3. QED  BY <1>2, <2>1, <2>2
<1>3. QED  BY <1>1, <1>2, TypedHolds, LocksHeldHolds, PTL DEF Spec

-----------------------------------------------------------------------------
(***************************************************************************)
(* Liveness.  The prover takes ENABLED as it stands, so that the theorem   *)
(* starts from NobodyBlocks, which says when the fair steps can be taken.  *)
(***************************************************************************)

(* An Exit that was called when the handler had returned is the last call. *)
InExit  == returned /\ app = "inExit"
Closing == returned /\ app = "closing"
Gone    == app = "gone"

LastCall   == returned => InExit \/ Closing \/ Gone
NotStarted == app = "none" => ~breakCh /\ loop # "sendingBreak"
ExitInv    == LocksHeld /\ mu \in {"free", "loop", "app"} /\ LastCall /\ NotStarted

LEMMA ExitInvHolds == Spec => []ExitInv
<1>1. Init => LastCall /\ NotStarted  BY DEF Init, LastCall, NotStarted
<1>2. ASSUME LocksHeld, LastCall /\ NotStarted, [Next]_vars
      PROVE  (LastCall /\ NotStarted)'
  <2> USE DEF LocksHeld, LastCall, NotStarted, InExit, Closing, Gone, Reads, appVars, exitVars, loopVars
  <2>1. CASE Request  BY <1>2, <2>1
    DEF Request, Start, PtyRequest, WindowChange, SignalRequest, BreakRequest
  <2>2. CASE LoopStep \/ FlushEnds \/ Receive \/ TransportFails \/ RequestsClose
    BY <1>2, <2>2 DEF LoopStep, WindowSent, SignalLocks, BreakLocks, BreakReplies, LoopEnds,
       FlushEnds, Receive, SignalReceived, FlushReceived, BreakReceived, WindowReceived,
       TransportFails, RequestsClose
  <2>3. CASE AppCall  BY <1>2, <2>3 DEF AppCall, SignalsCall, BreakCall, ExitCall
  <2>4. CASE AppStep  BY <1>2, <2>4
    DEF AppStep, SignalsLocks, BreakRegisters, ExitLocks, ExitCloses, AfterExit
  <2>5. CASE UNCHANGED vars  BY <1>2, <2>5 DEF vars
  <2>6. QED  BY <1>2, <2>1, <2>2, <2>3, <2>4, <2>5 DEF Next
<1>3. TypeOK => mu \in {"free", "loop", "app"}  BY DEF TypeOK
<1>4. QED  BY <1>1, <1>2, <1>3, LocksHeldHolds, TypesHold, PTL DEF Spec, ExitInv

(* What a step makes of a call of Exit ...                                 *)
LEMMA ExitMoves ==
  ASSUME ExitInv, [Next]_vars
  PROVE  /\ InExit => InExit' \/ Closing' \/ Gone'
         /\ Closing => Closing' \/ Gone'
         /\ AppStep /\ vars' # vars /\ InExit => Closing' \/ Gone'
         /\ AppStep /\ vars' # vars /\ Closing => Gone'
<1> USE DEF InExit, Closing, Gone, appVars
<1>1. CASE Request  BY <1>1
  DEF Request, Start, PtyRequest, WindowChange, SignalRequest, BreakRequest, AppStep, SignalsLocks,
      BreakRegisters, ExitLocks, ExitCloses, AfterExit, ExitInv, LocksHeld
<1>2. CASE AppStep  BY <1>2
  DEF AppStep, SignalsLocks, BreakRegisters, ExitLocks, ExitCloses, AfterExit
<1>3. CASE /\ ~AppStep
           /\ LoopStep \/ FlushEnds \/ Receive \/ TransportFails \/ RequestsClose
  BY <1>3 DEF LoopStep, WindowSent, SignalLocks, BreakLocks, BreakReplies, LoopEnds,
     FlushEnds, Receive, SignalReceived, FlushReceived, BreakReceived, WindowReceived,
     TransportFails, RequestsClose
<1>4. CASE ~AppStep /\ AppCall  BY <1>4 DEF AppCall, SignalsCall, BreakCall, ExitCall
<1>5. CASE UNCHANGED vars  BY <1>5 DEF vars
<1>6. QED  BY <1>1, <1>2, <1>3, <1>4, <1>5 DEF Next

(* ... and of a loop that holds sess.Mutex to send a break and answer it.  *)
Sends    == loop = "sendingBreak"
Replies  == loop = "breakReply"
LockFree == mu = "free"

LEMMA LoopMoves ==
  ASSUME ExitInv, [Next]_vars
  PROVE  /\ Sends => Sends' \/ Replies'
         /\ Replies => Replies' \/ LockFree'
         /\ BreakReceived => Replies'
         /\ BreakReplies => LockFree'
<1> USE DEF Sends, Replies, LockFree, loopVars, Reads
<1>1. CASE Request  BY <1>1
  DEF Request, Start, PtyRequest, WindowChange, SignalRequest, BreakRequest, BreakReceived,
      BreakReplies
<1>2. CASE LoopStep \/ Receive \/ FlushEnds
  BY <1>2 DEF LoopStep, WindowSent, SignalLocks, BreakLocks, BreakReplies, LoopEnds,
     Receive, SignalReceived, FlushReceived, BreakReceived, WindowReceived, FlushEnds
<1>3. CASE AppCall \/ AppStep \/ TransportFails \/ RequestsClose
  BY <1>3 DEF AppCall, SignalsCall, BreakCall, ExitCall, AppStep, SignalsLocks, BreakRegisters,
     ExitLocks, ExitCloses, TransportFails, RequestsClose, BreakReceived, BreakReplies
<1>4. CASE UNCHANGED vars  BY <1>4 DEF vars, BreakReceived, BreakReplies
<1>5. QED  BY <1>1, <1>2, <1>3, <1>4 DEF Next

(* If a goroutine of the application receives breaks, the Exit called when *)
(* the handler has returned gets sess.Mutex and the session ends           *)
(* (session.go 198-212, 437-445).                                          *)
THEOREM ExitGetsThrough ==
  ASSUME "breaks" \in Drained
  PROVE  []NobodyBlocks /\ FairSpec => SessionExits
<1>1. ExitInv /\ InExit /\ [Next]_vars => InExit' \/ Closing' \/ Gone'  BY ExitMoves
<1>2. ExitInv /\ Closing /\ [Next]_vars => Closing' \/ Gone'  BY ExitMoves
<1>3. ExitInv /\ InExit /\ [Next]_vars /\ <<AppStep>>_vars => Closing' \/ Gone'  BY ExitMoves
<1>4. ExitInv /\ Closing /\ [Next]_vars /\ <<AppStep>>_vars => Gone'  BY ExitMoves
<1>5. ExitInv /\ Sends /\ [Next]_vars => Sends' \/ Replies'  BY LoopMoves
<1>6. ExitInv /\ Replies /\ [Next]_vars => Replies' \/ LockFree'  BY LoopMoves
<1>7. ExitInv /\ [Next]_vars /\ <<BreakReceived>>_vars => Replies'  BY LoopMoves
<1>8. ExitInv /\ [Next]_vars /\ <<BreakReplies>>_vars => LockFree'  BY LoopMoves
<1>9. ExitInv /\ NobodyBlocks =>
        /\ InExit => LockFree \/ Sends \/ Replies
        /\ InExit /\ LockFree => ENABLED <<AppStep>>_vars
        /\ Closing => ENABLED <<AppStep>>_vars
        /\ Sends => ENABLED <<BreakReceived>>_vars
        /\ Replies => ENABLED <<BreakReplies>>_vars
  <2> SUFFICES ASSUME ExitInv, NobodyBlocks
               PROVE  /\ InExit => LockFree \/ Sends \/ Replies
                      /\ InExit /\ LockFree => ENABLED <<AppStep>>_vars
                      /\ Closing => ENABLED <<AppStep>>_vars
                      /\ Sends => ENABLED <<BreakReceived>>_vars
                      /\ Replies => ENABLED <<BreakReplies>>_vars
    OBVIOUS
  <2> USE DEF ExitInv, LocksHeld, NotStarted, NobodyBlocks, InExit, Closing, LockFree, Sends, Replies
  <2>1. InExit => LockFree \/ Sends \/ Replies  OBVIOUS
  <2>2. InExit /\ LockFree => ENABLED <<AppStep>>_vars  OBVIOUS
  <2>3. Closing => ENABLED <<AppStep>>_vars  OBVIOUS
  <2>4. Sends => Receives("breaks")  BY DEF Receives
  <2>5. Sends => ENABLED <<BreakReceived>>_vars  BY <2>4
  <2>6. Replies => ENABLED <<BreakReplies>>_vars  OBVIOUS
  <2>7. QED  BY <2>1, <2>2, <2>3, <2>5, <2>6
<1>10. ExitInv => (returned => InExit \/ Closing \/ Gone)  BY DEF ExitInv, LastCall
<1>11. Gone => app = "gone"  BY DEF Gone
<1>12. []ExitInv /\ []NobodyBlocks /\ [][Next]_vars /\ BreakFair =>
         (Sends ~> LockFree) /\ (Replies ~> LockFree)
  BY <1>5, <1>6, <1>7, <1>8, <1>9, PTL DEF BreakFair
<1>13. []ExitInv /\ []NobodyBlocks /\ [][Next]_vars /\ CallFair => (Closing ~> Gone)
  BY <1>2, <1>4, <1>9, PTL DEF CallFair
<1>14. []ExitInv /\ []NobodyBlocks /\ [][Next]_vars /\ CallFair /\ BreakFair =>
         (InExit ~> Closing \/ Gone)
  BY <1>1, <1>3, <1>9, <1>12, PTL DEF CallFair
<1>15. Fairness => CallFair /\ BreakFair  BY DEF Fairness
<1>16. QED
  BY <1>10, <1>11, <1>13, <1>14, <1>15, ExitInvHolds, PTL DEF FairSpec, Spec, SessionExits
=============================================================================
