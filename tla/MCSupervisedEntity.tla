------------------------ MODULE MCSupervisedEntity ------------------------
(***************************************************************************)
(* A small instance of SupervisedEntity: two configured sources that share  *)
(* one entity, one with threshold 2 and one with the 0 that counts as 1,   *)
(* a second configuration of the same type that must never be chosen, and  *)
(* a source (alv) whose type has no configuration.                         *)
(***************************************************************************)
EXTENDS SupervisedEntity, TLC

CONSTANTS res, cus, alv

MCEventType == (res :> "RESOURCE") @@ (cus :> "CUSTOM") @@ (alv :> "ALIVE")

MCMonitorConfigs ==
    << [type |-> "RESOURCE", debounce_count |-> 2],
       [type |-> "CUSTOM",   debounce_count |-> 0],
       [type |-> "RESOURCE", debounce_count |-> 1] >>

===========================================================================
