------------------------------ MODULE MCDaemon ------------------------------
(***************************************************************************)
(* Instances of Daemon for TLC.  The pids are not interchangeable: they    *)
(* have lengths, and the open takes the least unused inode.                *)
(***************************************************************************)
EXTENDS Daemon

=============================================================================
