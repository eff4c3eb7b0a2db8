------------------------------ MODULE MCSession -----------------------------
(* Small instances of Session for TLC. *)
EXTENDS Session

CONSTANTS k1, k2

TwoChans == {k1, k2}
OneChan  == {k1}
All      == {"signals", "breaks", "winch"}
NoBreaks == {"signals", "winch"}
=============================================================================
