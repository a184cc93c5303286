------------------------------ MODULE MCDaemon ------------------------------
(***************************************************************************)
(* The daemon with a few connections of each sort.                         *)
(***************************************************************************)
EXTENDS Daemon
=============================================================================
