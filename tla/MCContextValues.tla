--------------------------- MODULE MCContextValues --------------------------
(* A small instance of ContextValues for TLC: one session, one task.       *)
EXTENDS ContextValues
=============================================================================
