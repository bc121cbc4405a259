-------------------------- MODULE MCSessionQueue ---------------------------
(* SessionQueue on small instances, for TLC. *)
EXTENDS SessionQueue
=============================================================================
