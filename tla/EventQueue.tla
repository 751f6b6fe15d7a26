----------------------------- MODULE EventQueue -----------------------------
(***************************************************************************)
(* EventManager (src/src/event_manager.cpp): a queue that drops its oldest *)
(* event when it is full.  Its mutex makes each method one step; what lies *)
(* between the steps is the time a client takes from getEvents() to        *)
(* acknowledge(), in which other threads push, purge, clear and            *)
(* acknowledge.                                                            *)
(*                                                                         *)
(* An event is known by the number of its arrival, which stands for its    *)
(* unique id (types.h line 92).  erase() keeps the order of a deque, so    *)
(* that queue_ is the set of its events, in the order of their numbers.    *)
(***************************************************************************)
EXTENDS Naturals, Sequences, FiniteSets

CONSTANTS
    Capacity,     \* max_size_
    Clients,      \* who asks for events and acknowledges them
    Severity,     \* the severities of events, by their numeric values
    Times,        \* the values of the clock an event is stamped with
    MaxEvents     \* bound: the events that are pushed

\* At capacity 0 push() pops from an empty deque, which has no defined outcome.
ASSUME QueueAssumption ==
    /\ Capacity \in Nat \ {0}
    /\ MaxEvents \in Nat
    /\ Severity \subseteq Nat /\ Times \subseteq Nat

VARIABLES
    queue_,       \* the numbers of the events in the queue
    events,       \* what was pushed: severity and timestamp of each number
    seen,         \* per client: the events getEvents() has given it
    \* History, read by no step of the code.
    acked,        \* the events that an acknowledge() has removed
    swept         \* the events that clear() or purge() has removed

queueVars == <<queue_, events, seen, acked, swept>>

Event == [severity : Severity, timestamp : Times]

QueueInit ==
    /\ queue_ = {}
    /\ events = <<>>
    /\ seen = [c \in Clients |-> {}]
    /\ acked = {} /\ swept = {}

-----------------------------------------------------------------------------
\* Mutant: the newest event makes room.
ButNewest(q) == {n \in q : \E m \in q : n < m}

popFront(q) == {n \in q : \E m \in q : m < n}

push(event) ==
    /\ Len(events) < MaxEvents
    /\ events' = Append(events, event)
    /\ queue_' = (IF Cardinality(queue_) >= Capacity THEN popFront(queue_) ELSE queue_)
                 \cup {Len(events) + 1}
    /\ UNCHANGED <<seen, acked, swept>>

getEvents(c, min_severity) ==
    /\ seen' = [seen EXCEPT ![c] =
                   @ \cup {n \in queue_ : events[n].severity >= min_severity}]
    /\ UNCHANGED <<queue_, events, acked, swept>>

acknowledge(c, ids) ==
    /\ queue_' = queue_ \ ids
    /\ acked' = acked \cup (queue_ \cap ids)
    /\ UNCHANGED <<events, seen, swept>>

Remove(S) ==
    /\ queue_' = queue_ \ S
    /\ swept' = swept \cup (queue_ \cap S)
    /\ UNCHANGED <<events, seen, acked>>

clear == Remove(queue_)

\* The stamps follow a clock that may go back: the expired need not be the oldest.
purge(cutoff) == Remove({n \in queue_ : events[n].timestamp < cutoff})

-----------------------------------------------------------------------------
\* A client acknowledges ids it was given.
QueueNext ==
    \/ \E e \in Event : push(e)
    \/ \E c \in Clients, s \in Severity : getEvents(c, s)
    \/ \E c \in Clients : \E ids \in SUBSET seen[c] : acknowledge(c, ids)
    \/ clear
    \/ \E t \in Times : purge(t)

QueueSpec == QueueInit /\ [][QueueNext]_queueVars

-----------------------------------------------------------------------------
(* Properties *)

QueueTypeOK ==
    /\ events \in Seq(Event) /\ Len(events) <= MaxEvents
    /\ queue_ \subseteq 1 .. Len(events) /\ Cardinality(queue_) <= Capacity
    /\ seen \in [Clients -> SUBSET (1 .. Len(events))]
    /\ acked \subseteq 1 .. Len(events) /\ swept \subseteq 1 .. Len(events)

(***************************************************************************)
(* The queue keeps the promise of EventLog: nobody acknowledges an event   *)
(* away that no client was given, however its ids have aged since          *)
(* getEvents(), and a full queue loses only events that Capacity newer     *)
(* ones have followed (push, lines 24-35, acknowledge, lines 53-69).       *)
(***************************************************************************)
Shown == UNION {seen[c] : c \in Clients}

Fate(n) ==
    IF n > Len(events)  THEN "unborn"
    ELSE IF n \in queue_ THEN IF n \in Shown THEN "shown" ELSE "kept"
    ELSE IF n \in acked  THEN "settled"
    ELSE IF n \in swept  THEN "swept"
    ELSE "dropped"

Log == INSTANCE EventLog WITH fate <- [n \in 1 .. MaxEvents |-> Fate(n)]

ImplementsLog == Log!Spec

=============================================================================
