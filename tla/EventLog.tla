------------------------------ MODULE EventLog ------------------------------
(***************************************************************************)
(* What a bounded event queue promises, event by event and without a       *)
(* queue: an event is kept from its arrival until somebody settles it, it  *)
(* is swept away, or newer events crowd it out.  Nobody settles what was   *)
(* not shown, and only Capacity newer ones crowd an event out.             *)
(***************************************************************************)
EXTENDS Naturals

CONSTANTS
    Capacity,    \* the newest so many events are never crowded out
    MaxEvents    \* bound: the events that arrive

VARIABLE fate    \* of each event, by number of arrival

Fates == {"unborn", "kept", "shown", "settled", "swept", "dropped"}

Number  == 1 .. MaxEvents
Arrived == {n \in Number : fate[n] # "unborn"}
Pending == {n \in Number : fate[n] \in {"kept", "shown"}}

Init == fate = [n \in Number |-> "unborn"]

\* The fate of the events in S becomes f, that of the others stays.
Becomes(S, f) == fate' = [n \in Number |-> IF n \in S THEN f ELSE fate[n]]

\* Events arrive in the order of their numbers, each at the price of at most one other.
Arrive ==
    \E n \in Number \ Arrived, crowded \in SUBSET Pending :
        /\ Arrived = 1 .. n - 1
        /\ \A m \in crowded : m + Capacity <= n
        /\ \A l, m \in crowded : l = m
        /\ fate' = [m \in Number |-> IF m = n THEN "kept"
                                     ELSE IF m \in crowded THEN "dropped"
                                     ELSE fate[m]]

Show == \E S \in SUBSET Pending : Becomes(S, "shown")

Settle == \E S \in SUBSET {n \in Number : fate[n] = "shown"} : Becomes(S, "settled")

Sweep == \E S \in SUBSET Pending : Becomes(S, "swept")

Next == Arrive \/ Show \/ Settle \/ Sweep

Spec == Init /\ [][Next]_fate

=============================================================================
