--------------------------- MODULE MCEventStream ---------------------------
(* Instances of EventStream small enough for TLC.                          *)
EXTENDS EventInvariants
=============================================================================
