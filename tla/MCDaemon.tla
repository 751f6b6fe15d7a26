------------------------------- MODULE MCDaemon -------------------------------
(***************************************************************************)
(* A small instance of Daemon: two connections may wait, so that another   *)
(* one waits while the first is being served.                              *)
(***************************************************************************)
EXTENDS Daemon

===============================================================================
