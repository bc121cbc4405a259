--------------------------- MODULE MCEventReplay ----------------------------
(* EventReplay on small instances, for TLC. *)
EXTENDS EventReplay
=============================================================================
