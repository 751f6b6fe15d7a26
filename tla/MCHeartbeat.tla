---------------------------- MODULE MCHeartbeat ----------------------------
(***************************************************************************)
(* A small instance of Heartbeat: a timeout of two units of time and lives *)
(* of three reports, which is one more than the two counters a check()     *)
(* compares.                                                               *)
(***************************************************************************)
EXTENDS Heartbeat

============================================================================
