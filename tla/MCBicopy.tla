------------------------------ MODULE MCBicopy ------------------------------
(* A small instance of Bicopy for TLC. *)
EXTENDS Bicopy

AllUsers == {"direct", "forwarded", "proxy"}
=============================================================================
