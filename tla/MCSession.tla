------------------------------ MODULE MCSession ------------------------------
(***************************************************************************)
(* Session for TLC: three clients for a lobby of two, so that a player can *)
(* be replaced while its messages, and the other's, are still on the way.  *)
(***************************************************************************)
EXTENDS Session
=============================================================================
