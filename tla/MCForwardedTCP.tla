--------------------------- MODULE MCForwardedTCP ---------------------------
(* A small instance of ForwardedTCP for TLC. *)
EXTENDS ForwardedTCP

CONSTANTS c1, a1, l1, l2

OneConn    == {c1}
OneAddr    == {a1}
MCListener == {l1, l2}
=============================================================================
