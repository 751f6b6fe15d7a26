----------------------------- MODULE MCPhmEngine -----------------------------
(***************************************************************************)
(* Small instances of PhmEngine: two objects of one name, so that one is   *)
(* removed and its successor added while the worker or a client still      *)
(* holds the first, one of them disabled, and an entity that has a monitor *)
(* whose start() fails; and a smaller one that two threads start and stop. *)
(***************************************************************************)
EXTENDS PhmEngine, TLC

CONSTANTS lc, reg, a, b

MCName   == (1 :> a) @@ (2 :> a) @@ (3 :> b)
MCStates == {INIT, RUNNING, ERROR, FATAL}

==============================================================================
