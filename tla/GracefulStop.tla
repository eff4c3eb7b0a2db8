---------------------------- MODULE GracefulStop ----------------------------
(***************************************************************************)
(* What Shutdown promises (the comment on server.go's Shutdown), without   *)
(* its maps, WaitGroups, channels and goroutines: a stopper returns "nil"  *)
(* only after everything that was active when it began has left.  It may   *)
(* give up at any time, and says so.                                       *)
(***************************************************************************)
CONSTANTS
  Item,      \* What can be active: accept loops and connections.
  Stopper    \* The calls of Shutdown.

VARIABLES
  active,    \* The items that are active now.
  gone,      \* The items that were active once and have left for good.
  pending,   \* [Stopper -> the items the call still waits for].
  result     \* [Stopper -> "idle", "waiting", "drained" or "expired"].

vars == <<active, gone, pending, result>>

Init ==
  /\ active = {}
  /\ gone = {}
  /\ pending = [s \in Stopper |-> {}]
  /\ result = [s \in Stopper |-> "idle"]

Join(i) ==
  /\ i \notin active \cup gone
  /\ active' = active \cup {i}
  /\ UNCHANGED <<gone, pending, result>>

Leave(i) ==
  /\ i \in active
  /\ active' = active \ {i}
  /\ gone' = gone \cup {i}
  /\ pending' = [s \in Stopper |-> pending[s] \ {i}]
  /\ UNCHANGED result

Begin(s) ==
  /\ result[s] = "idle"
  /\ result' = [result EXCEPT ![s] = "waiting"]
  /\ pending' = [pending EXCEPT ![s] = active]
  /\ UNCHANGED <<active, gone>>

Drained(s) ==
  /\ result[s] = "waiting"
  /\ pending[s] = {}
  /\ result' = [result EXCEPT ![s] = "drained"]
  /\ UNCHANGED <<active, gone, pending>>

Expired(s) ==
  /\ result[s] = "waiting"
  /\ result' = [result EXCEPT ![s] = "expired"]
  /\ UNCHANGED <<active, gone, pending>>

Next ==
  \/ \E i \in Item : Join(i) \/ Leave(i)
  \/ \E s \in Stopper : Begin(s) \/ Drained(s) \/ Expired(s)

Spec == Init /\ [][Next]_vars
=============================================================================
