---------------------------- MODULE MCCallQueue ----------------------------
(***************************************************************************)
(* Instances of CallQueue for TLC.                                         *)
(***************************************************************************)
EXTENDS CallQueue

\* The first and the last row belong to one controller.
TwoControllers == [r \in 1..3 |-> IF r = 2 THEN "b" ELSE "a"]
=============================================================================
