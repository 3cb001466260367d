---------------------------- MODULE MCModemPort ----------------------------
(***************************************************************************)
(* Instances of ModemPort for TLC.                                         *)
(***************************************************************************)
EXTENDS ModemPort

=============================================================================
