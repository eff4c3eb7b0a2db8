------------------------------ MODULE MCServer ------------------------------
(* Small instances of Server for TLC. *)
EXTENDS Server, TLC

CONSTANTS l1, l2, c1, c2, s1

MCListener == {l1, l2}
OneListener == {l1}
MCConn == {c1, c2}
OneConn == {c1}
MCStopper == {s1}

(* Bound for liveness: a behaviour has a second Serve or a connection.     *)
OneOfTwo == serve[l2] = "idle" \/ handle[c1] = "none"
BoundedFairSpec == Init /\ [][Next /\ OneOfTwo']_vars /\ Fairness

Symmetry == Permutations({l1, l2}) \cup Permutations({c1, c2})
=============================================================================
