------------------------- MODULE MCSharedConnection -------------------------
(***************************************************************************)
(* Instances of SharedConnection for TLC.                                  *)
(***************************************************************************)
EXTENDS SharedConnection

CONSTANTS s1, calls

OneSocket == {s1}
=============================================================================
