-------------------------- MODULE MCScheduledChats --------------------------
(* Instances of ScheduledChats small enough for TLC.                       *)
EXTENDS ScheduledChats

=============================================================================
