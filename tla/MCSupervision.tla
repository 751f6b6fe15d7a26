--------------------------- MODULE MCSupervision ---------------------------
(***************************************************************************)
(* A small instance of Supervision: all three monitors on one process, the  *)
(* resource monitor with threshold 2, since it is the only one of the      *)
(* three that repeats its report.                                          *)
(***************************************************************************)
EXTENDS Supervision, TLC

MCSources   == {"process_lifecycle", "resource", "deadlock"}
MCEventType == [m \in MCSources |->
                   CASE m = "resource" -> "RESOURCE"
                     [] m = "deadlock" -> "DEADLOCK"
                     [] OTHER          -> "PROCESS_LIFECYCLE"]
MCRegistered == <<"process_lifecycle", "resource", "deadlock">>
MCConfigs ==
    << [type |-> "PROCESS_LIFECYCLE", debounce_count |-> 1],
       [type |-> "RESOURCE",          debounce_count |-> 2],
       [type |-> "DEADLOCK",          debounce_count |-> 1] >>

============================================================================
