-------------------------------- MODULE Relay -------------------------------
(***************************************************************************)
(* What copying between two ends promises (the comment on bicopy in        *)
(* tcpip.go), without goroutines, buffers and results: what one end sends  *)
(* is carried to the other in order, an end is told that the other has     *)
(* finished only when everything is carried, and both are let go when both *)
(* directions have finished.  Only a failed end or a cancellation excuses  *)
(* less.                                                                   *)
(***************************************************************************)
EXTENDS Naturals

CONSTANT End     \* The two ends.

VARIABLES
  made,          \* [End -> how much arrived from it].
  fin,           \* Ends that have finished sending.
  failed,        \* Ends that are gone.
  put,           \* [End -> how much was passed on to it].
  eof,           \* Ends that were told nothing more will come.
  cancelled,     \* BOOLEAN: somebody wants the copying to stop.
  over           \* BOOLEAN: both ends have been let go.

vars == <<made, fin, failed, put, eof, cancelled, over>>

Init ==
  /\ made = [e \in End |-> 0] /\ put = [e \in End |-> 0]
  /\ fin = {} /\ failed = {} /\ eof = {}
  /\ cancelled = FALSE /\ over = FALSE

(* What happens to an end or to the caller. *)
Arrive(e) == made' = [made EXCEPT ![e] = @ + 1] /\ UNCHANGED <<fin, failed, put, eof, cancelled, over>>
Finish(e) == fin' = fin \cup {e} /\ UNCHANGED <<made, failed, put, eof, cancelled, over>>
Fail(e)   == failed' = failed \cup {e} /\ UNCHANGED <<made, fin, put, eof, cancelled, over>>
Cancel    == cancelled' = TRUE /\ UNCHANGED <<made, fin, failed, put, eof, over>>

(* One unit goes from s to e. *)
Carry(s, e) ==
  /\ s # e /\ ~over /\ e \notin eof
  /\ put[e] < made[s]
  /\ put' = [put EXCEPT ![e] = @ + 1]
  /\ UNCHANGED <<made, fin, failed, eof, cancelled, over>>

TellEnd(s, e) ==
  /\ s # e /\ ~over
  /\ s \in failed \/ (s \in fin /\ put[e] = made[s])
  /\ eof' = eof \cup {e}
  /\ UNCHANGED <<made, fin, failed, put, cancelled, over>>

LetGo ==
  /\ ~over
  /\ eof = End \/ failed # {} \/ cancelled
  /\ over' = TRUE
  /\ UNCHANGED <<made, fin, failed, put, eof, cancelled>>

Next ==
  \/ \E e \in End : Arrive(e) \/ Finish(e) \/ Fail(e) \/ \E s \in End : Carry(s, e) \/ TellEnd(s, e)
  \/ Cancel
  \/ LetGo

Spec == Init /\ [][Next]_vars
=============================================================================
