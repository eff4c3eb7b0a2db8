------------------------------- MODULE Bicopy -------------------------------
(***************************************************************************)
(* Copying between a channel and a connection: bicopy (tcpip.go) as the    *)
(* handlers of direct-tcpip and direct-streamlocal and the accept loops of *)
(* remote forwarding use it, and the simpler proxy of agent and X11        *)
(* forwarding.  Two goroutines copy, one per direction; the handler waits  *)
(* for both.  The channel is gossh's: a close is complete only when the    *)
(* client has answered or the transport has ended, reads return EOF then,  *)
(* and a write blocks while the window is used up.                         *)
(***************************************************************************)
EXTENDS Naturals

CONSTANTS
  User,     \* Who copies: subset of {"direct", "forwarded", "proxy"}.
  MaxData,  \* Bound: what arrives at an end.
  Window    \* What can be written before the peer has to read.

ASSUME UserAssumption == User \subseteq {"direct", "forwarded", "proxy"}
ASSUME BoundAssumption == MaxData \in Nat /\ Window \in Nat

End == {"chan", "conn"}
Other(e) == IF e = "chan" THEN "conn" ELSE "chan"

VARIABLES
  user,     \* Which handler this is.
  stage,    \* Stage of the handler.
  ctxDone,  \* BOOLEAN: the Context passed to bicopy is done.
  made,     \* [End -> how much has arrived from its peer].
  fin,      \* Ends whose peer has finished sending.
  gone,     \* Ends whose peer or transport is gone.
  closed,   \* Ends the handler has closed.
  put,      \* [End -> how much was written to it].
  unread,   \* [End -> how much of that its peer has not read].
  eof,      \* Ends of which the write side was closed.
  copy,     \* [End -> CopyPC of the goroutine that writes to it].
  counted,  \* Ends whose goroutine's result the handler has taken.
  aborted   \* The variable of bicopy.

peerVars == <<ctxDone, made, fin, gone>>
vars == <<user, stage, peerVars, closed, put, unread, eof, copy, counted, aborted>>

Stage  == {"dialing", "opening", "copying", "done"}
CopyPC == {"idle", "read", "write", "half", "ok", "err"}

Init ==
  /\ user \in User
  /\ stage = IF user = "direct" THEN "dialing" ELSE "opening"
  /\ ctxDone = FALSE
  /\ made = [e \in End |-> 0] /\ put = [e \in End |-> 0] /\ unread = [e \in End |-> 0]
  /\ fin = {} /\ gone = {} /\ closed = {} /\ eof = {} /\ counted = {}
  /\ copy = [e \in End |-> "idle"]
  /\ aborted = FALSE

Bicopies == user # "proxy"

-----------------------------------------------------------------------------
(* Faults: definitions below as a plausible bug would have them.           *)

(* Both ends are closed as soon as one direction is finished. *)
FaultyAborts(e) == TRUE
(* A failed copy does not end the other one. *)
FaultyAbortsNever(e) == FALSE

(* The abort closes the connection and leaves the channel to the client. *)
FaultyCtxAborts ==
  /\ stage = "copying" /\ counted # End
  /\ Bicopies /\ ctxDone /\ ~aborted
  /\ aborted' = TRUE /\ closed' = {"conn"}
  /\ UNCHANGED <<user, stage, peerVars, put, unread, eof, copy, counted>>

(* The connection is left open when there is no channel for it. *)
FaultyNoChannel ==
  /\ stage = "opening"
  /\ stage' = "done"
  /\ UNCHANGED <<user, closed, peerVars, put, unread, eof, copy, counted, aborted>>

-----------------------------------------------------------------------------
(* The direct handlers dial when the callback allows it ... *)
DialSucceeds ==
  /\ stage = "dialing" /\ stage' = "opening"
  /\ UNCHANGED <<user, peerVars, closed, put, unread, eof, copy, counted, aborted>>

(* ... and reject the channel when it does not or there is no connection. *)
Rejects ==
  /\ stage = "dialing" /\ stage' = "done"
  /\ UNCHANGED <<user, peerVars, closed, put, unread, eof, copy, counted, aborted>>

(* newChan.Accept or conn.OpenChannel succeeds and both copies start ...   *)
ChannelOpens ==
  /\ stage = "opening"
  /\ stage' = "copying"
  /\ copy' = [e \in End |-> "read"]
  /\ UNCHANGED <<user, peerVars, closed, put, unread, eof, counted, aborted>>

(* ... or fails, and the connection is closed. *)
NoChannel ==
  /\ stage = "opening"
  /\ stage' = "done"
  /\ closed' = {"conn"}
  /\ UNCHANGED <<user, peerVars, put, unread, eof, copy, counted, aborted>>

(***************************************************************************)
(* The goroutine that copies to e: io.Copy, then CloseWrite.               *)
(***************************************************************************)
MayRead(s) == s = "chan" \/ s \notin gone \cup closed

Read(e) ==
  /\ copy[e] = "read" /\ MayRead(Other(e))
  /\ put[e] < made[Other(e)]
  /\ copy' = [copy EXCEPT ![e] = "write"]
  /\ UNCHANGED <<user, stage, peerVars, closed, put, unread, eof, counted, aborted>>

(* A channel that is gone reads as one that has finished. *)
ReadEOF(e) ==
  /\ copy[e] = "read" /\ MayRead(Other(e))
  /\ put[e] = made[Other(e)]
  /\ Other(e) \in fin \cup (gone \cap {"chan"})
  /\ copy' = [copy EXCEPT ![e] = "half"]
  /\ UNCHANGED <<user, stage, peerVars, closed, put, unread, eof, counted, aborted>>

Write(e) ==
  /\ copy[e] = "write" /\ e \notin gone \cup closed
  /\ unread[e] < Window
  /\ put' = [put EXCEPT ![e] = @ + 1]
  /\ unread' = [unread EXCEPT ![e] = @ + 1]
  /\ copy' = [copy EXCEPT ![e] = "read"]
  /\ UNCHANGED <<user, stage, peerVars, closed, eof, counted, aborted>>

(* A read fails on a connection that is closed or broken; so does a write, *)
(* which blocks on a closed channel without window until the client has    *)
(* answered.  The proxies go on to CloseWrite all the same.                *)
CopyFails(e) ==
  /\ \/ copy[e] = "read" /\ ~MayRead(Other(e))
     \/ copy[e] = "write" /\ e \in gone
     \/ copy[e] = "write" /\ e \in closed /\ (e = "conn" \/ unread[e] < Window)
  /\ copy' = [copy EXCEPT ![e] = IF Bicopies THEN "err" ELSE "half"]
  /\ UNCHANGED <<user, stage, peerVars, closed, put, unread, eof, counted, aborted>>

(* CloseWrite fails on an end that is closed or gone; on a channel this is *)
(* mostly io.EOF, which bicopy ignores as the proxies do any error.        *)
CloseWrite(e) ==
  /\ copy[e] = "half"
  /\ IF e \in gone \cup closed
       THEN /\ \/ copy' = [copy EXCEPT ![e] = "err"]
               \/ (e = "chan" \/ ~Bicopies) /\ copy' = [copy EXCEPT ![e] = "ok"]
            /\ UNCHANGED eof
       ELSE copy' = [copy EXCEPT ![e] = "ok"] /\ eof' = eof \cup {e}
  /\ UNCHANGED <<user, stage, peerVars, closed, put, unread, counted, aborted>>

(***************************************************************************)
(* The handler.                                                            *)
(***************************************************************************)

(* The result of the copy to e makes bicopy close both ends. *)
Aborts(e) == copy[e] = "err" /\ Bicopies

TakeResult(e) ==
  /\ stage = "copying" /\ copy[e] \in {"ok", "err"} /\ e \notin counted
  /\ counted' = counted \cup {e}
  /\ IF Aborts(e) THEN aborted' = TRUE /\ closed' = End ELSE UNCHANGED <<aborted, closed>>
  /\ UNCHANGED <<user, stage, peerVars, put, unread, eof, copy>>

CtxAborts ==
  /\ stage = "copying" /\ counted # End
  /\ Bicopies /\ ctxDone /\ ~aborted
  /\ aborted' = TRUE /\ closed' = End
  /\ UNCHANGED <<user, stage, peerVars, put, unread, eof, copy, counted>>

(* Both goroutines are done: both ends are closed and the handler returns. *)
Returns ==
  /\ stage = "copying" /\ counted = End
  /\ stage' = "done" /\ closed' = End
  /\ UNCHANGED <<user, peerVars, put, unread, eof, copy, counted, aborted>>

(***************************************************************************)
(* The peers, the connection and its Context.  A transport that ends is    *)
(* Goes("chan") and CtxEnds; the Context of a Unix forward also ends with  *)
(* its accept loop.                                                        *)
(***************************************************************************)
Arrives(e) ==
  /\ stage = "copying" /\ e \notin fin \cup gone /\ made[e] < MaxData
  /\ made' = [made EXCEPT ![e] = @ + 1]
  /\ UNCHANGED <<user, stage, ctxDone, fin, gone, closed, put, unread, eof, copy, counted, aborted>>

Finishes(e) ==
  /\ stage = "copying" /\ e \notin fin \cup gone
  /\ fin' = fin \cup {e}
  /\ UNCHANGED <<user, stage, ctxDone, made, gone, closed, put, unread, eof, copy, counted, aborted>>

Goes(e) ==
  /\ stage = "copying" /\ e \notin gone
  /\ gone' = gone \cup {e}
  /\ UNCHANGED <<user, stage, ctxDone, made, fin, closed, put, unread, eof, copy, counted, aborted>>

PeerReads(e) ==
  /\ unread[e] > 0 /\ e \notin gone
  /\ unread' = [unread EXCEPT ![e] = @ - 1]
  /\ UNCHANGED <<user, stage, peerVars, closed, put, eof, copy, counted, aborted>>

CtxEnds ==
  /\ ~ctxDone
  /\ ctxDone' = TRUE
  /\ UNCHANGED <<user, stage, made, fin, gone, closed, put, unread, eof, copy, counted, aborted>>

-----------------------------------------------------------------------------
CopyStep(e) == Read(e) \/ ReadEOF(e) \/ Write(e) \/ CopyFails(e) \/ CloseWrite(e)

HandlerStep == \/ CtxAborts \/ Returns
               \/ \E e \in End : TakeResult(e)

Next ==
  \/ DialSucceeds \/ Rejects \/ ChannelOpens \/ NoChannel
  \/ HandlerStep
  \/ CtxEnds
  \/ \E e \in End : CopyStep(e) \/ Arrives(e) \/ Finishes(e) \/ Goes(e) \/ PeerReads(e)

Spec == Init /\ [][Next]_vars

(* Goroutines run.  A channel the handler has closed goes away: the client *)
(* answers, or its connection ends (ConnKeepAlive: a stalled peer is       *)
(* dropped).  No peer need send, finish, read or go.                       *)
ClosedChanGoes == "chan" \in closed /\ Goes("chan")
CopyFair(e)    == WF_vars(CopyStep(e))
HandlerFair    == WF_vars(HandlerStep) /\ WF_vars(ClosedChanGoes)

Fairness == HandlerFair /\ \A e \in End : CopyFair(e)

FairSpec == Spec /\ Fairness

-----------------------------------------------------------------------------
(* The state has its types: bicopy and the proxies keep no more than this. *)
TypeOK ==
  /\ user \in User /\ stage \in Stage
  /\ ctxDone \in BOOLEAN /\ aborted \in BOOLEAN
  /\ {fin, gone, closed, eof, counted} \subseteq SUBSET End
  /\ made \in [End -> Nat] /\ put \in [End -> Nat] /\ unread \in [End -> Nat]
  /\ copy \in [End -> CopyPC]

(***************************************************************************)
(* The inductive invariant.  What refines Relay rests on EofAfterAll: a    *)
(* goroutine that is past its last read has written all its source will    *)
(* ever send, unless an end is gone or the handler has let go.             *)
(***************************************************************************)
NoHandlerYet ==
  /\ stage = "dialing" => user = "direct"
  /\ stage \in {"dialing", "opening"} => closed = {} /\ copy = [e \in End |-> "idle"]
Running       == stage = "copying" => closed \in {{}, End} /\ \A e \in End : copy[e] # "idle"
CountedIsOver == \A e \in counted : copy[e] \in {"ok", "err"}
SomethingLeft == \A e \in End : copy[e] = "write" => put[e] < made[Other(e)]
EofAfterAll ==
  /\ \A e \in eof : copy[e] = "ok"
  /\ \A e \in End :
       copy[e] = "half" => \/ {e, Other(e)} \cap (gone \cup closed) # {}
                           \/ Other(e) \in fin /\ put[e] = made[Other(e)]
EndingHasCause ==
  \A e \in End : /\ copy[e] = "ok"  => e \in eof \/ gone # {} \/ closed = End
                 /\ copy[e] = "err" => gone # {} \/ closed = End

(* Whatever way the handler returns, from a refused dial to a cancelled    *)
(* copy, it leaves no connection or channel open and no goroutine behind.  *)
DoneIsClean ==
  stage = "done" =>
    \/ closed = End /\ \A e \in End : copy[e] \in {"ok", "err"}
    \/ closed = {"conn"} /\ copy = [e \in End |-> "idle"]
    \/ user = "direct" /\ closed = {} /\ copy = [e \in End |-> "idle"]

IInv ==
  /\ TypeOK /\ NoHandlerYet /\ Running /\ CountedIsOver
  /\ SomethingLeft /\ EofAfterAll /\ EndingHasCause /\ DoneIsClean

(* bicopy ends when its Context does, or when one of its goroutines meets a *)
(* broken connection, even if the client neither reads, sends nor finishes *)
(* (a connection that breaks after its half-close is met by the next       *)
(* write).  The proxies of agent and X11 have no Context and wait for both *)
(* ends to go.                                                             *)
MeetsBrokenConn == "conn" \in gone /\ (copy["chan"] = "read" \/ copy["conn"] = "write")

HandlerReturns ==
  stage = "copying" /\ (IF Bicopies THEN ctxDone \/ MeetsBrokenConn ELSE gone = End)
    ~> stage = "done"

(* The handler waits for both goroutines and each of them for a peer that  *)
(* may do nothing for ever; an abort gets all three out of that, wherever  *)
(* they are.  Once the Context is done or a copy has failed, bicopy closes *)
(* both ends or is about to; an end that is down, the channel when the     *)
(* client has answered the close, blocks no goroutine, in a read, a write  *)
(* or a half-close; and over both results the handler returns.             *)
Down      == (closed \ {"chan"}) \cup gone
At(e)     == IF copy[e] = "write" THEN e ELSE Other(e)
Aborting  == Bicopies /\ (ctxDone \/ \E e \in End : copy[e] = "err")
Over(e)   == copy[e] \in {"ok", "err"}
AbortInterrupts ==
  stage = "copying" =>
    /\ Aborting => closed = End \/ ENABLED <<HandlerStep>>_vars
    /\ closed = End => "chan" \in gone \/ ENABLED <<ClosedChanGoes>>_vars
    /\ \A e \in End : Down = End \/ At(e) \in Down \cap {"conn"} =>
                        Over(e) \/ ENABLED <<CopyStep(e)>>_vars
    /\ (\A e \in End : Over(e)) => ENABLED <<HandlerStep>>_vars

(* Copying keeps what Relay promises: in particular one end's half-close   *)
(* stops neither the reverse direction nor what is still on its way.       *)
R == INSTANCE Relay WITH failed <- gone, cancelled <- ctxDone,
       over <- closed # {} /\ copy["chan"] # "idle"
ImplementsRelay == R!Spec
=============================================================================
