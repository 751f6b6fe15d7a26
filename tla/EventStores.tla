----------------------------- MODULE EventStores -----------------------------
(***************************************************************************)
(* The two stores of events, EventQueue and AlertAggregator, side by side: *)
(* no other part of the repository calls them, neither knows of the other, *)
(* and any thread may call either at any time.                             *)
(***************************************************************************)
EXTENDS EventQueue, AlertAggregator

CONSTANT MaxStored   \* bound: the events that are stored, in one or the other

ASSUME StoresAssumption == MaxStored \in Nat

vars == <<queueVars, alertVars>>

Init == QueueInit /\ AlertInit

Next ==
    /\ \/ QueueNext /\ UNCHANGED alertVars
       \/ AlertNext /\ UNCHANGED queueVars
    /\ Len(events') + Len(events_') <= MaxStored

Spec == Init /\ [][Next]_vars

\* The types of both.
TypeOK == QueueTypeOK /\ AlertTypeOK

=============================================================================
