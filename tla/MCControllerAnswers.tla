------------------------ MODULE MCControllerAnswers ------------------------
(***************************************************************************)
(* Instances of ControllerAnswers for TLC.                                 *)
(***************************************************************************)
EXTENDS ControllerAnswers

CONSTANTS s1, s2

TwoSockets == {s1, s2}
=============================================================================
