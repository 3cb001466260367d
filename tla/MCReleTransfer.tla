--------------------------- MODULE MCReleTransfer ---------------------------
(***************************************************************************)
(* Instances of ReleTransfer for TLC: packets of three rows and a word     *)
(* short enough for TLC's integers.                                        *)
(***************************************************************************)
EXTENDS ReleTransfer

SmallWord == 2^16
=============================================================================
