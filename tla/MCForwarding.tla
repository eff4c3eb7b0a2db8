---------------------------- MODULE MCForwarding ----------------------------
(* Small instances of both forwarding handlers for TLC.  What they share   *)
(* is the Context and the turn of a connection's requests, so in every     *)
(* behaviour the goroutines and requests of one of them stay idle: TLC     *)
(* explores the sum of their states instead of the product.                *)
EXTENDS Forwarding

CONSTANTS c1, c2, p1, l1, l2

VARIABLE mover  \* "unix" or "tcp": the handler that does not stay idle.

MCConn     == {c1, c2}
MCPath     == {p1}
MCAddr     == {p1}
MCListener == {l1, l2}

OneMoves ==
  /\ \/ mover = "unix" /\ \E c \in Conn : UnixRequest(c)
     \/ mover = "unix" /\ \E l \in Listener : UnixGoroutine(l)
     \/ mover = "tcp" /\ \E c \in Conn : TCPRequest(c)
     \/ mover = "tcp" /\ \E l \in Listener : TCPGoroutine(l)
     \/ \E c \in Conn : ConnEnds(c)
  /\ UNCHANGED mover

MCInit == FwdInit /\ mover \in {"unix", "tcp"}

MCSpec == /\ MCInit
          /\ [][OneMoves]_<<fwdVars, mover>>
          /\ Fairness /\ TCP!Fairness
=============================================================================
