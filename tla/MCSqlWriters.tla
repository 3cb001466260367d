---------------------------- MODULE MCSqlWriters ----------------------------
(***************************************************************************)
(* Instances of SqlWriters for TLC.                                        *)
(***************************************************************************)
EXTENDS SqlWriters

CONSTANTS t1, t2

TwoIds == {t1, t2}
=============================================================================
