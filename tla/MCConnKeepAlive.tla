-------------------------- MODULE MCConnKeepAlive --------------------------
(* Small instances of ConnKeepAlive for TLC. *)
EXTENDS ConnKeepAlive

CONSTANT c1

OneChannel == {c1}
=============================================================================
