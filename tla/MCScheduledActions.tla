------------------------- MODULE MCScheduledActions -------------------------
(***************************************************************************)
(* Instances of ScheduledActions for TLC.                                  *)
(***************************************************************************)
EXTENDS ScheduledActions

=============================================================================
