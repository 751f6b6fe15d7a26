--------------------------- MODULE AlertAggregator ---------------------------
(***************************************************************************)
(* AlertAggregator (src/daemon/alert_aggregator.cpp): a list of alerts in  *)
(* which an alert of one entity, monitor and severity is not repeated for  *)
(* suppression_duration_.  The mutex makes addEvent() and clear() one step *)
(* each; the durations are set without it, and the clock is the system's,  *)
(* which may be set back.  escalation_duration_ is written and never read. *)
(***************************************************************************)
EXTENDS Integers, Sequences

CONSTANTS
    Keys,        \* entity, monitor and severity of an event
    Durations,   \* the values of suppression_duration_
    MaxClock,    \* bound: the values of the clock
    MaxAlerts    \* bound: the alerts in the list

ASSUME AggregatorAssumption ==
    /\ Durations \subseteq Nat
    /\ MaxClock \in Nat /\ MaxAlerts \in Nat

Clock == 0 .. MaxClock
Never == -1       \* a key without an entry in last_suppressed_

VARIABLES
    events_,                 \* the list; with the duration at the time as history
    last_suppressed_,        \* when the last alert of each key was listed
    suppression_duration_,
    now,                     \* the clock
    \* History, read by no step of the code.
    muted                    \* the keys of which an event was turned away since clear()

alertVars == <<events_, last_suppressed_, suppression_duration_, now, muted>>

Alert == [key : Keys, time : Clock, gap : Durations]

AlertInit ==
    /\ events_ = <<>>
    /\ last_suppressed_ = [k \in Keys |-> Never]
    /\ suppression_duration_ \in Durations
    /\ now \in Clock
    /\ muted = {}

-----------------------------------------------------------------------------
\* Mutant: a difference of unsigned times, large when the clock was set back.
OutsideUnsigned(key) ==
    LET age == now - last_suppressed_[key]
    IN  age < 0 \/ age >= suppression_duration_

Outside(key) == now - last_suppressed_[key] >= suppression_duration_

addEvent(key) ==
    /\ last_suppressed_[key] = Never \/ Outside(key)
    /\ Len(events_) < MaxAlerts
    /\ events_' = Append(events_, [key |-> key, time |-> now, gap |-> suppression_duration_])
    /\ last_suppressed_' = [last_suppressed_ EXCEPT ![key] = now]
    /\ UNCHANGED <<suppression_duration_, now, muted>>

suppressEvent(key) ==
    /\ last_suppressed_[key] # Never /\ ~Outside(key)
    /\ muted' = muted \cup {key}
    /\ UNCHANGED <<events_, last_suppressed_, suppression_duration_, now>>

setSuppressionDuration(duration) ==
    /\ suppression_duration_' = duration
    /\ UNCHANGED <<events_, last_suppressed_, now, muted>>

\* Mutant: the times of the last alerts stay.
ClearListOnly ==
    /\ events_' = <<>>
    /\ muted' = {}
    /\ UNCHANGED <<last_suppressed_, suppression_duration_, now>>

clearAlerts ==
    /\ events_' = <<>>
    /\ last_suppressed_' = [k \in Keys |-> Never]
    /\ muted' = {}
    /\ UNCHANGED <<suppression_duration_, now>>

clockTurns ==
    /\ now' \in Clock
    /\ UNCHANGED <<events_, last_suppressed_, suppression_duration_, muted>>

AlertNext ==
    \/ \E k \in Keys : addEvent(k) \/ suppressEvent(k)
    \/ \E d \in Durations : setSuppressionDuration(d)
    \/ clearAlerts
    \/ clockTurns

AlertSpec == AlertInit /\ [][AlertNext]_alertVars

-----------------------------------------------------------------------------
(* Properties *)

AlertTypeOK ==
    /\ events_ \in Seq(Alert)
    /\ last_suppressed_ \in [Keys -> Clock \cup {Never}]
    /\ suppression_duration_ \in Durations
    /\ now \in Clock
    /\ muted \subseteq Keys

(***************************************************************************)
(* "The same alert is not reported again within N minutes"                 *)
(* (alert_aggregator.h line 23): of two alerts of a key in the list, the   *)
(* later one came at least the duration then set after the earlier one,    *)
(* however the clock and the duration were set meanwhile.                  *)
(***************************************************************************)
AlertsAreSpaced ==
    \A i, j \in DOMAIN events_ :
        i < j /\ events_[i].key = events_[j].key
        => events_[j].time >= events_[i].time + events_[j].gap

(***************************************************************************)
(* No alert is swallowed: as long as an event was turned away, an alert of *)
(* its key is in the list that stands for it (addEvent, lines 29-37, and   *)
(* clear, lines 55-59).                                                    *)
(***************************************************************************)
MutedIsListed == \A k \in muted : \E i \in DOMAIN events_ : events_[i].key = k

=============================================================================
