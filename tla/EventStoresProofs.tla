-------------------------- MODULE EventStoresProofs --------------------------
(***************************************************************************)
(* What EventQueue and AlertAggregator promise, for any capacity, any      *)
(* number of events, clients and keys, and any durations.                  *)
(***************************************************************************)
EXTENDS EventStores, FiniteSetTheorems, SequenceTheorems, WellFoundedInduction, TLAPS

-----------------------------------------------------------------------------
(* The deque *)

\* A set of numbers that is not empty has a least one.
LEMMA LeastNumber ==
    ASSUME NEW S \in SUBSET Nat, S # {}
    PROVE  \E m \in S : \A n \in S : m <= n
<1>1. PICK m \in S : \A n \in S : ~(<<n, m>> \in OpToRel(<, Nat))
    BY NatLessThanWellFounded, WFMin
<1>2. \A n \in S : ~(n < m)
    BY <1>1 DEF OpToRel
<1> QED
    BY <1>2

\* What popFront takes from a queue is one number, the least.
LEMMA PopTakesOne ==
    ASSUME NEW q \in SUBSET Nat, IsFiniteSet(q), q # {}
    PROVE  \E m \in q : /\ \A n \in q : m <= n
                        /\ popFront(q) = q \ {m}
                        /\ IsFiniteSet(popFront(q))
                        /\ Cardinality(popFront(q)) = Cardinality(q) - 1
<1>1. PICK m \in q : \A n \in q : m <= n
    BY LeastNumber
<1>2. \A n \in q : (\E k \in q : k < n) <=> n # m
    <2> TAKE n \in q
    <2>1. m \in Nat /\ n \in Nat /\ m <= n
        BY <1>1
    <2>2. n # m => m < n
        BY <2>1
    <2>3. ASSUME NEW k \in q, k < n, n = m
          PROVE  FALSE
        <3>1. k \in Nat /\ m <= k
            BY <1>1
        <3> QED
            BY <2>1, <2>3, <3>1
    <2> QED
        BY <2>2, <2>3
<1>3. popFront(q) = q \ {m}
    BY <1>2 DEF popFront
<1> QED
    BY <1>1, <1>3, FS_RemoveElement

\* A full queue spans at least Capacity numbers.
LEMMA SpanOfQueue ==
    ASSUME NEW q, NEW l \in Nat, NEW m \in q, q \subseteq 1 .. l,
           \A n \in q : m <= n
    PROVE  Cardinality(q) + m <= l + 1
<1>1. m \in Nat /\ m <= l /\ q \in SUBSET (m .. l)
    OBVIOUS
<1>2. IsFiniteSet(m .. l) /\ Cardinality(m .. l) = l - m + 1
    BY <1>1, FS_Interval
<1>3. IsFiniteSet(q) /\ Cardinality(q) <= Cardinality(m .. l)
    BY <1>1, <1>2, FS_Subset
<1>4. Cardinality(q) \in Nat
    BY <1>3, FS_CardinalityType
<1> QED
    BY <1>1, <1>2, <1>3, <1>4

-----------------------------------------------------------------------------
(* The invariant of the queue *)

QueueInv ==
    /\ QueueTypeOK
    /\ queue_ \cap acked = {} /\ queue_ \cap swept = {} /\ acked \cap swept = {}

\* What QueueInv says of the sizes.
LEMMA QueueFacts ==
    ASSUME QueueInv
    PROVE  /\ Len(events) \in Nat /\ Cardinality(queue_) \in Nat
           /\ IsFiniteSet(queue_) /\ queue_ \in SUBSET Nat
           /\ Shown \subseteq 1 .. Len(events)
<1>1. Len(events) \in Nat
    BY LenProperties DEF QueueInv, QueueTypeOK
<1>2. IsFiniteSet(queue_)
    <2>1. IsFiniteSet(1 .. Len(events))
        BY <1>1, FS_Interval
    <2>2. queue_ \in SUBSET (1 .. Len(events))
        BY DEF QueueInv, QueueTypeOK
    <2> QED
        BY <2>1, <2>2, FS_Subset
<1>3. Shown \subseteq 1 .. Len(events)
    BY DEF QueueInv, QueueTypeOK, Shown
<1> QED
    BY <1>1, <1>2, <1>3, FS_CardinalityType DEF QueueInv, QueueTypeOK

LEMMA QueueInitially ==
    ASSUME QueueInit PROVE QueueInv
<1>1. queue_ = {} /\ events = <<>> /\ Len(events) = 0 /\ events \in Seq(Event)
    BY EmptySeq, LenProperties DEF QueueInit
<1>2. Cardinality(queue_) = 0
    BY <1>1, FS_EmptySet
<1> QED
    BY <1>1, <1>2, QueueAssumption DEF QueueInit, QueueInv, QueueTypeOK

\* push() leaves room for one more, and takes at most one from the queue.
LEMMA RoomIsMade ==
    ASSUME QueueInv
    PROVE  LET room == IF Cardinality(queue_) >= Capacity THEN popFront(queue_) ELSE queue_
           IN  /\ room \subseteq queue_ /\ IsFiniteSet(room)
               /\ Cardinality(room) \in Nat /\ Cardinality(room) < Capacity
               /\ \A m \in queue_ \ room : m + Capacity <= Len(events) + 1
               /\ \A l, m \in queue_ \ room : l = m
<1>1. CASE Cardinality(queue_) < Capacity
    BY <1>1, QueueFacts, QueueAssumption
<1>2. CASE Cardinality(queue_) >= Capacity
    <2>1. queue_ # {}
        BY <1>2, FS_EmptySet, QueueAssumption
    <2>2. PICK m \in queue_ : /\ \A n \in queue_ : m <= n
                              /\ popFront(queue_) = queue_ \ {m}
                              /\ IsFiniteSet(popFront(queue_))
                              /\ Cardinality(popFront(queue_)) = Cardinality(queue_) - 1
        BY <2>1, QueueFacts, PopTakesOne
    <2>3. Cardinality(queue_) = Capacity
        BY <1>2, QueueFacts, QueueAssumption DEF QueueInv, QueueTypeOK
    <2>4. Cardinality(queue_) + m <= Len(events) + 1
        BY <2>2, QueueFacts, SpanOfQueue DEF QueueInv, QueueTypeOK
    <2>5. m + Capacity <= Len(events) + 1
        BY <2>3, <2>4, QueueFacts, QueueAssumption
    <2>6. Cardinality(popFront(queue_)) \in Nat /\ Cardinality(popFront(queue_)) < Capacity
        BY <2>2, <2>3, QueueAssumption
    <2> QED
        BY <1>2, <2>2, <2>5, <2>6
<1> QED
    BY <1>1, <1>2, QueueFacts, QueueAssumption

LEMMA PushKeepsInv ==
    ASSUME QueueInv, NEW e \in Event, push(e) PROVE QueueInv'
<1> DEFINE room == IF Cardinality(queue_) >= Capacity THEN popFront(queue_) ELSE queue_
           l == Len(events)
<1>1. /\ l \in Nat /\ l < MaxEvents /\ events \in Seq(Event)
      /\ queue_' = room \cup {l + 1} /\ events' = Append(events, e)
      /\ UNCHANGED <<seen, acked, swept>>
    BY QueueFacts DEF push, QueueInv, QueueTypeOK
<1>2. events' \in Seq(Event) /\ Len(events') = l + 1
    BY <1>1, AppendProperties
<1>3. /\ room \subseteq queue_ /\ IsFiniteSet(room)
      /\ Cardinality(room) \in Nat /\ Cardinality(room) < Capacity
    BY RoomIsMade
<1> HIDE DEF room, l
<1>4. queue_ \subseteq 1 .. l /\ acked \subseteq 1 .. l /\ swept \subseteq 1 .. l
    BY DEF QueueInv, QueueTypeOK, l
<1>5. l + 1 \notin room /\ l + 1 \notin acked /\ l + 1 \notin swept
    BY <1>1, <1>3, <1>4
<1>6. Cardinality(queue_') = Cardinality(room) + 1
    BY <1>1, <1>3, <1>5, FS_AddElement
<1>7. Cardinality(queue_') <= Capacity
    BY <1>3, <1>6, QueueAssumption
<1>8. 1 .. l \subseteq 1 .. (l + 1) /\ l + 1 \in 1 .. (l + 1) /\ l + 1 <= MaxEvents
    BY <1>1, QueueAssumption
<1>9. seen' \in [Clients -> SUBSET (1 .. (l + 1))]
    BY <1>1, <1>8 DEF QueueInv, QueueTypeOK, l
<1>10. QueueTypeOK'
    BY <1>1, <1>2, <1>3, <1>4, <1>7, <1>8, <1>9 DEF QueueTypeOK
<1> QED
    BY <1>1, <1>3, <1>5, <1>10 DEF QueueInv

\* What only takes events away keeps the capacity.
LEMMA FewerFit ==
    ASSUME QueueInv, NEW q \in SUBSET queue_
    PROVE  Cardinality(q) <= Capacity
<1>1. Cardinality(q) <= Cardinality(queue_) /\ IsFiniteSet(q)
    BY QueueFacts, FS_Subset
<1> QED
    BY <1>1, QueueFacts, FS_CardinalityType, QueueAssumption DEF QueueInv, QueueTypeOK

LEMMA GetKeepsInv ==
    ASSUME QueueInv, NEW c \in Clients, NEW s \in Severity, getEvents(c, s) PROVE QueueInv'
BY DEF QueueInv, QueueTypeOK, getEvents

LEMMA AckKeepsInv ==
    ASSUME QueueInv, NEW c \in Clients, NEW ids \in SUBSET seen[c], acknowledge(c, ids)
    PROVE  QueueInv'
<1>1. Cardinality(queue_') <= Capacity
    BY FewerFit DEF acknowledge
<1> QED
    BY <1>1 DEF QueueInv, QueueTypeOK, acknowledge

LEMMA RemoveKeepsInv ==
    ASSUME QueueInv, NEW S, Remove(S) PROVE QueueInv'
<1>1. Cardinality(queue_') <= Capacity
    BY FewerFit DEF Remove
<1> QED
    BY <1>1 DEF QueueInv, QueueTypeOK, Remove

-----------------------------------------------------------------------------
(* The steps of the queue are steps of the log *)

Fates == [n \in 1 .. MaxEvents |-> Fate(n)]

\* What the log sees of the queue.
LEMMA FateFacts ==
    ASSUME QueueInv
    PROVE  /\ Log!Arrived = 1 .. Len(events)
           /\ Log!Pending = queue_
           /\ \A n \in Log!Number : Fates[n] = "shown" <=> n \in queue_ /\ n \in Shown
<1> USE DEF Log!Number
<1>1. /\ Len(events) \in Nat /\ Len(events) <= MaxEvents /\ MaxEvents \in Nat
      /\ queue_ \subseteq 1 .. Len(events)
    BY QueueFacts, QueueAssumption DEF QueueInv, QueueTypeOK
<1>2. \A n \in 1 .. MaxEvents : Fate(n) # "unborn" <=> n <= Len(events)
    BY <1>1 DEF Fate
<1>3. \A n \in 1 .. MaxEvents : Fate(n) \in {"kept", "shown"} <=> n \in queue_
    BY <1>1 DEF Fate
<1>4. \A n \in 1 .. MaxEvents : Fate(n) = "shown" <=> n \in queue_ /\ n \in Shown
    BY <1>1 DEF Fate
<1>5. \A n \in 1 .. MaxEvents : Fates[n] = Fate(n)
    BY DEF Fates
<1>6. Log!Arrived = {n \in 1 .. MaxEvents : n <= Len(events)}
    BY <1>2, <1>5 DEF Log!Arrived, Fates
<1>7. Log!Pending = {n \in 1 .. MaxEvents : n \in queue_}
    BY <1>3, <1>5 DEF Log!Pending, Fates
<1>8. {n \in 1 .. MaxEvents : n <= Len(events)} = 1 .. Len(events)
    BY <1>1
<1>9. {n \in 1 .. MaxEvents : n \in queue_} = queue_
    <2>1. \A n \in queue_ : n \in 1 .. MaxEvents
        BY <1>1
    <2> QED
        BY <2>1, Zenon
<1>10. \A n \in Log!Number : Fates[n] = "shown" <=> n \in queue_ /\ n \in Shown
    BY <1>4, <1>5
<1>11. Log!Arrived = 1 .. Len(events)
    BY <1>6, <1>8
<1>12. Log!Pending = queue_
    BY <1>7, <1>9
<1> QED
    BY <1>10, <1>11, <1>12

LEMMA PushIsArrival ==
    ASSUME QueueInv, QueueInv', NEW e \in Event, push(e) PROVE Log!Arrive
<1> DEFINE room == IF Cardinality(queue_) >= Capacity THEN popFront(queue_) ELSE queue_
           l == Len(events)
           crowded == queue_ \ room
<1>1. /\ l \in Nat /\ l < MaxEvents /\ MaxEvents \in Nat
      /\ queue_' = room \cup {l + 1} /\ Len(events') = l + 1
      /\ UNCHANGED <<seen, acked, swept>> /\ Shown' = Shown
    <2>1. events \in Seq(Event) /\ Len(events) \in Nat
        BY QueueFacts DEF QueueInv, QueueTypeOK
    <2> QED
        BY <2>1, AppendProperties, QueueAssumption DEF push, Shown
<1>2. /\ room \subseteq queue_
      /\ \A m \in crowded : m + Capacity <= l + 1
      /\ \A k, m \in crowded : k = m
    BY RoomIsMade
<1>3. /\ queue_ \subseteq 1 .. l /\ Shown \subseteq 1 .. l
      /\ acked \subseteq 1 .. l /\ swept \subseteq 1 .. l
      /\ queue_ \cap acked = {} /\ queue_ \cap swept = {}
    BY QueueFacts DEF QueueInv, QueueTypeOK
<1> HIDE DEF room, l
<1>4. \A m \in 1 .. MaxEvents :
          Fate(m)' = IF m = l + 1 THEN "kept" ELSE IF m \in crowded THEN "dropped" ELSE Fate(m)
    <2> TAKE m \in 1 .. MaxEvents
    <2>1. CASE m = l + 1
        BY <1>1, <1>3, <2>1 DEF Fate
    <2>2. CASE m \in crowded
        BY <1>1, <1>2, <1>3, <2>2 DEF Fate, l
    <2>3. CASE m # l + 1 /\ m \notin crowded
        BY <1>1, <1>2, <1>3, <2>3 DEF Fate, l
    <2> QED
        BY <2>1, <2>2, <2>3, <1>1, <1>3
<1>5. /\ l + 1 \in Log!Number \ Log!Arrived /\ Log!Arrived = 1 .. (l + 1) - 1
      /\ crowded \in SUBSET Log!Pending
    <2>1. Log!Arrived = 1 .. l /\ Log!Pending = queue_
        BY FateFacts DEF l
    <2>2. l + 1 \in 1 .. MaxEvents /\ (l + 1) - 1 = l
        BY <1>1
    <2> QED
        BY <2>1, <2>2 DEF Log!Number
<1>6. Fates' = [m \in Log!Number |-> IF m = l + 1 THEN "kept"
                                      ELSE IF m \in crowded THEN "dropped" ELSE Fates[m]]
    BY <1>4 DEF Fates, Log!Number
<1> QED
    BY <1>2, <1>5, <1>6 DEF Log!Arrive, Fates, crowded

LEMMA GetIsShowing ==
    ASSUME QueueInv, NEW c \in Clients, NEW s \in Severity, getEvents(c, s) PROVE Log!Show
<1> DEFINE S == {n \in queue_ : events[n].severity >= s}
<1>1. /\ UNCHANGED <<queue_, events, acked, swept>>
      /\ Shown' = Shown \cup S
    BY DEF getEvents, Shown, QueueInv, QueueTypeOK
<1>2. S \in SUBSET Log!Pending /\ queue_ \subseteq 1 .. Len(events) /\ Len(events) \in Nat
    BY FateFacts, QueueFacts DEF QueueInv, QueueTypeOK
<1>3. S \subseteq queue_
    OBVIOUS
<1> HIDE DEF S
<1>4. \A n \in Log!Number : Fate(n)' = IF n \in S THEN "shown" ELSE Fate(n)
    BY <1>1, <1>2, <1>3 DEF Fate, Log!Number
<1>5. Log!Becomes(S, "shown")
    BY <1>4 DEF Log!Becomes, Log!Number
<1> QED
    BY <1>2, <1>5 DEF Log!Show

LEMMA AckIsSettling ==
    ASSUME QueueInv, NEW c \in Clients, NEW ids \in SUBSET seen[c], acknowledge(c, ids)
    PROVE  Log!Settle
<1> DEFINE S == queue_ \cap ids
<1>1. /\ queue_' = queue_ \ S /\ acked' = acked \cup S
      /\ UNCHANGED <<events, seen, swept>> /\ Shown' = Shown
    BY DEF acknowledge, Shown
<1>2. /\ S \subseteq queue_ /\ S \subseteq Shown
      /\ queue_ \subseteq 1 .. Len(events) /\ Len(events) \in Nat
      /\ Len(events) <= MaxEvents /\ MaxEvents \in Nat
    BY QueueFacts, QueueAssumption DEF QueueInv, QueueTypeOK, Shown
<1> HIDE DEF S
<1>3. \A n \in Log!Number : Fate(n)' = IF n \in S THEN "settled" ELSE Fate(n)
    BY <1>1, <1>2 DEF Fate, Log!Number
<1>4. Log!Becomes(S, "settled")
    BY <1>3 DEF Log!Becomes, Log!Number
<1>5. \A n \in S : n \in Log!Number /\ Fates[n] = "shown"
    BY <1>2, FateFacts DEF Log!Number
<1> QED
    BY <1>4, <1>5 DEF Log!Settle, Fates

LEMMA RemoveIsSweeping ==
    ASSUME QueueInv, NEW T, Remove(T) PROVE Log!Sweep
<1> DEFINE S == queue_ \cap T
<1>1. /\ queue_' = queue_ \ S /\ swept' = swept \cup S
      /\ UNCHANGED <<events, seen, acked>> /\ Shown' = Shown
    BY DEF Remove, Shown
<1>2. /\ S \subseteq queue_ /\ queue_ \cap acked = {}
      /\ queue_ \subseteq 1 .. Len(events) /\ Len(events) \in Nat
    BY QueueFacts DEF QueueInv, QueueTypeOK
<1> HIDE DEF S
<1>3. \A n \in Log!Number : Fate(n)' = IF n \in S THEN "swept" ELSE Fate(n)
    BY <1>1, <1>2 DEF Fate, Log!Number
<1>4. Log!Becomes(S, "swept")
    BY <1>3 DEF Log!Becomes, Log!Number
<1> QED
    BY <1>2, <1>4, FateFacts DEF Log!Sweep

\* What neither method touches stays for the log as well.
LEMMA QueueAtRest ==
    ASSUME UNCHANGED queueVars PROVE QueueInv => QueueInv' /\ UNCHANGED Fates
BY DEF QueueInv, QueueTypeOK, queueVars, Fates, Fate, Shown

LEMMA QueueStep ==
    ASSUME QueueInv, QueueNext PROVE QueueInv' /\ (Log!Next \/ UNCHANGED Fates)
<1>1. CASE \E e \in Event : push(e)
    BY <1>1, PushKeepsInv, PushIsArrival DEF Log!Next
<1>2. CASE \E c \in Clients, s \in Severity : getEvents(c, s)
    BY <1>2, GetKeepsInv, GetIsShowing DEF Log!Next
<1>3. CASE \E c \in Clients : \E ids \in SUBSET seen[c] : acknowledge(c, ids)
    BY <1>3, AckKeepsInv, AckIsSettling DEF Log!Next
<1>4. CASE clear
    BY <1>4, RemoveKeepsInv, RemoveIsSweeping DEF Log!Next, clear
<1>5. CASE \E t \in Times : purge(t)
    BY <1>5, RemoveKeepsInv, RemoveIsSweeping DEF Log!Next, purge
<1> QED
    BY <1>1, <1>2, <1>3, <1>4, <1>5 DEF QueueNext

-----------------------------------------------------------------------------
(* The alerts *)

Suppressed(k) == last_suppressed_[k]

\* last_suppressed_ has the time of the last alert of each key, which is in the list.
LastIsListed ==
    \A k \in Keys :
        /\ Suppressed(k) # Never =>
               \E i \in DOMAIN events_ : events_[i].key = k /\ events_[i].time = Suppressed(k)
        /\ \A i \in DOMAIN events_ :
               events_[i].key = k => Suppressed(k) # Never /\ events_[i].time <= Suppressed(k)

MutedIsKnown == \A k \in muted : Suppressed(k) # Never

AlertInv == AlertTypeOK /\ LastIsListed /\ MutedIsKnown /\ AlertsAreSpaced

LEMMA AlertInitially ==
    ASSUME AlertInit PROVE AlertInv
<1>1. events_ = <<>> /\ events_ \in Seq(Alert) /\ DOMAIN events_ = {}
    BY EmptySeq DEF AlertInit
<1> QED
    BY <1>1 DEF AlertInit, AlertInv, AlertTypeOK, LastIsListed, MutedIsKnown, AlertsAreSpaced,
                Suppressed

LEMMA AddKeepsInv ==
    ASSUME AlertInv, NEW k \in Keys, addEvent(k) PROVE AlertInv'
<1> DEFINE a == [key |-> k, time |-> now, gap |-> suppression_duration_]
           l == Len(events_)
<1>1. /\ events_ \in Seq(Alert) /\ a \in Alert
      /\ now \in Nat /\ suppression_duration_ \in Nat
      /\ last_suppressed_ \in [Keys -> Clock \cup {Never}]
    BY AggregatorAssumption DEF AlertInv, AlertTypeOK, Alert, Clock
<1>2. /\ events_' \in Seq(Alert) /\ l \in Nat
      /\ DOMAIN events_ = 1 .. l /\ DOMAIN events_' = 1 .. l + 1
      /\ \A i \in 1 .. l : events_'[i] = events_[i]
      /\ events_'[l + 1] = a
    BY <1>1, AppendProperties, LenProperties DEF addEvent
<1>3. /\ \A x \in Keys \ {k} : Suppressed(x)' = Suppressed(x)
      /\ Suppressed(k)' = now
      /\ last_suppressed_' \in [Keys -> Clock \cup {Never}]
    BY <1>1 DEF addEvent, Suppressed, AlertInv, AlertTypeOK
<1>4. Suppressed(k) = Never \/ now - Suppressed(k) >= suppression_duration_
    BY DEF addEvent, Outside, Suppressed
<1>5. now # Never /\ Suppressed(k) \in Int
    BY <1>1, AggregatorAssumption DEF Never, Suppressed, Clock
<1>6. \A i \in 1 .. l : /\ events_[i].time \in Nat
                        /\ events_[i].key = k => events_[i].time + suppression_duration_ <= now
    <2> TAKE i \in 1 .. l
    <2>1. events_[i] \in Alert
        BY <1>1, <1>2
    <2>2. events_[i].time \in Nat
        BY <2>1, AggregatorAssumption DEF Alert, Clock
    <2>3. events_[i].key = k => Suppressed(k) # Never /\ events_[i].time <= Suppressed(k)
        BY <1>2 DEF AlertInv, LastIsListed
    <2> QED
        BY <1>1, <1>4, <1>5, <2>2, <2>3
<1>7. AlertTypeOK'
    BY <1>2, <1>3 DEF addEvent, AlertInv, AlertTypeOK
<1>8. LastIsListed'
    <2> SUFFICES ASSUME NEW x \in Keys
                 PROVE  /\ Suppressed(x)' # Never =>
                              \E i \in DOMAIN events_' :
                                  events_'[i].key = x /\ events_'[i].time = Suppressed(x)'
                        /\ \A i \in DOMAIN events_' :
                              events_'[i].key = x =>
                                  Suppressed(x)' # Never /\ events_'[i].time <= Suppressed(x)'
        BY DEF LastIsListed
    <2>1. a.key = k /\ a.time = now
        OBVIOUS
    <2> HIDE DEF a
    <2>2. CASE x = k
        <3>1. events_'[l + 1].key = x /\ events_'[l + 1].time = Suppressed(x)'
            BY <1>2, <1>3, <2>1, <2>2
        <3>2. \A i \in 1 .. l : events_[i].key = x => events_[i].time <= now
            BY <1>1, <1>6, <2>2
        <3> QED
            BY <1>1, <1>2, <1>3, <1>5, <2>1, <2>2, <3>1, <3>2
    <2>3. CASE x # k
        BY <1>2, <1>3, <2>1, <2>3 DEF AlertInv, LastIsListed
    <2> QED
        BY <2>2, <2>3
<1>9. MutedIsKnown'
    BY <1>3, <1>5 DEF AlertInv, MutedIsKnown, addEvent, AlertTypeOK
<1>10. AlertsAreSpaced'
    <2> SUFFICES ASSUME NEW i \in 1 .. l + 1, NEW j \in 1 .. l + 1, i < j,
                        events_'[i].key = events_'[j].key
                 PROVE  events_'[j].time >= events_'[i].time + events_'[j].gap
        BY <1>2 DEF AlertsAreSpaced
    <2>1. i \in 1 .. l
        BY <1>2
    <2>2. CASE j \in 1 .. l
        BY <1>2, <2>1, <2>2 DEF AlertInv, AlertsAreSpaced
    <2>3. CASE j = l + 1
        BY <1>1, <1>2, <1>6, <2>1, <2>3
    <2> QED
        BY <1>2, <2>2, <2>3
<1> QED
    BY <1>7, <1>8, <1>9, <1>10 DEF AlertInv

LEMMA AlertStep ==
    ASSUME AlertInv, AlertNext PROVE AlertInv'
<1>1. CASE \E k \in Keys : addEvent(k)
    BY <1>1, AddKeepsInv
<1>2. CASE \E k \in Keys : suppressEvent(k)
    BY <1>2 DEF AlertInv, AlertTypeOK, LastIsListed, MutedIsKnown, AlertsAreSpaced, Suppressed,
                suppressEvent
<1>3. CASE \E d \in Durations : setSuppressionDuration(d)
    BY <1>3 DEF AlertInv, AlertTypeOK, LastIsListed, MutedIsKnown, AlertsAreSpaced, Suppressed,
                setSuppressionDuration
<1>4. CASE clearAlerts
    <2>1. events_' = <<>> /\ events_' \in Seq(Alert) /\ DOMAIN events_' = {}
        BY <1>4, EmptySeq DEF clearAlerts
    <2> QED
        BY <1>4, <2>1 DEF AlertInv, AlertTypeOK, LastIsListed, MutedIsKnown, AlertsAreSpaced,
                          Suppressed, clearAlerts
<1>5. CASE clockTurns
    BY <1>5 DEF AlertInv, AlertTypeOK, LastIsListed, MutedIsKnown, AlertsAreSpaced, Suppressed,
                clockTurns
<1> QED
    BY <1>1, <1>2, <1>3, <1>4, <1>5 DEF AlertNext

LEMMA AlertsAtRest ==
    ASSUME UNCHANGED alertVars PROVE AlertInv => AlertInv'
BY DEF AlertInv, AlertTypeOK, LastIsListed, MutedIsKnown, AlertsAreSpaced, Suppressed, alertVars

\* A key that is known has an alert in the list.
LEMMA MutedFollows ==
    ASSUME AlertInv PROVE MutedIsListed
BY DEF AlertInv, AlertTypeOK, LastIsListed, MutedIsKnown, MutedIsListed

-----------------------------------------------------------------------------
(* The theorems *)

LEMMA StoresInvariant == Spec => [](QueueInv /\ AlertInv)
<1>1. Init => QueueInv /\ AlertInv
    BY QueueInitially, AlertInitially DEF Init
<1>2. QueueInv /\ AlertInv /\ [Next]_vars => (QueueInv /\ AlertInv)'
    BY QueueStep, AlertStep, QueueAtRest, AlertsAtRest DEF Next, vars
<1> QED
    BY <1>1, <1>2, PTL DEF Spec

(***************************************************************************)
(* The types of both stores; in particular the queue never holds more than *)
(* max_size_ events (push, lines 27-31).                                   *)
(***************************************************************************)
THEOREM TypesHold == Spec => []TypeOK
<1>1. QueueInv /\ AlertInv => TypeOK
    BY DEF QueueInv, AlertInv, TypeOK
<1> QED
    BY <1>1, StoresInvariant, PTL

(***************************************************************************)
(* The queue implements the log, whatever its capacity: what a client      *)
(* acknowledges it was given, and only Capacity newer events crowd one out *)
(* (push, getEvents, acknowledge, clear and purge).                        *)
(***************************************************************************)
THEOREM QueueImplementsLog == Spec => ImplementsLog
<1>1. Init => Log!Init
    <2>1. ASSUME Init PROVE \A n \in 1 .. MaxEvents : Fate(n) = "unborn"
        BY <2>1 DEF Init, QueueInit, Fate
    <2> QED
        BY <2>1 DEF Log!Init, Log!Number
<1>2. QueueInv /\ [Next]_vars => [Log!Next]_Fates
    BY QueueStep, QueueAtRest DEF Next, vars
<1> QED
    BY <1>1, <1>2, StoresInvariant, PTL DEF Spec, ImplementsLog, Log!Spec, Fates

\* Only events that Capacity newer ones have followed were crowded out.
OldAreDropped ==
    \A n \in Log!Number : Fates[n] = "dropped" => n + Capacity \in Log!Arrived

\* What was once decided stays so, and nobody settles what was not shown.
WordIsKept ==
    \A n \in Log!Number :
        /\ Fates[n] \in {"settled", "swept", "dropped"} => Fates'[n] = Fates[n]
        /\ Fates'[n] = "settled" => Fates[n] \in {"shown", "settled"}

LEMMA LogStep ==
    ASSUME [Log!Next]_Fates
    PROVE  WordIsKept /\ (OldAreDropped => OldAreDropped')
<1>1. ASSUME Fates' = Fates PROVE WordIsKept /\ (OldAreDropped => OldAreDropped')
    BY <1>1 DEF WordIsKept, OldAreDropped, Log!Arrived, Fates
<1>2. ASSUME NEW S, NEW f \in {"shown", "settled", "swept"},
             \A n \in S : n \in Log!Number /\ Fates[n] \in {"kept", "shown"},
             f = "settled" => \A n \in S : Fates[n] = "shown",
             Log!Becomes(S, f)
      PROVE  WordIsKept /\ (OldAreDropped => OldAreDropped')
    <2>1. \A n \in Log!Number : Fates'[n] = IF n \in S THEN f ELSE Fates[n]
        BY <1>2 DEF Log!Becomes, Fates
    <2>2. Log!Arrived' = Log!Arrived
        BY <1>2, <2>1 DEF Log!Arrived, Fates
    <2> QED
        BY <1>2, <2>1, <2>2 DEF WordIsKept, OldAreDropped
<1>3. CASE Log!Arrive
    <2>1. PICK n \in Log!Number \ Log!Arrived, crowded \in SUBSET Log!Pending :
              /\ Log!Arrived = 1 .. n - 1
              /\ \A m \in crowded : m + Capacity <= n
              /\ Fates' = [m \in Log!Number |-> IF m = n THEN "kept"
                                               ELSE IF m \in crowded THEN "dropped" ELSE Fates[m]]
        BY <1>3 DEF Log!Arrive, Fates
    <2>2. n \in 1 .. MaxEvents /\ Fates[n] = "unborn"
        BY <2>1 DEF Log!Arrived, Log!Number, Fates
    <2>3. \A m \in crowded : m \in 1 .. MaxEvents /\ Fates[m] \in {"kept", "shown"}
        BY <2>1 DEF Log!Pending, Log!Number, Fates
    <2>4. Log!Arrived' = 1 .. n
        <3>1. \A m \in Log!Number : Fates[m] # "unborn" <=> m \in 1 .. n - 1
            BY <2>1 DEF Log!Arrived, Fates
        <3>2. \A m \in Log!Number : Fates'[m] # "unborn" <=> m \in 1 .. n
            BY <2>1, <2>2, <2>3, <3>1, QueueAssumption DEF Log!Number
        <3> QED
            BY <2>2, <3>2, QueueAssumption DEF Log!Arrived, Fates, Log!Number
    <2>5. WordIsKept
        BY <2>1, <2>2, <2>3 DEF WordIsKept
    <2>6. ASSUME OldAreDropped PROVE OldAreDropped'
        <3> SUFFICES ASSUME NEW m \in Log!Number, Fates'[m] = "dropped"
                     PROVE  m + Capacity \in 1 .. n
            BY <2>4 DEF OldAreDropped, Log!Number
        <3>1. CASE m \in crowded
            BY <2>1, <2>2, <2>3, <3>1, QueueAssumption
        <3>2. CASE m \notin crowded
            BY <2>1, <2>2, <2>6, <3>2, QueueAssumption DEF OldAreDropped
        <3> QED
            BY <3>1, <3>2
    <2> QED
        BY <2>5, <2>6
<1>4. CASE Log!Show
    <2>1. PICK S \in SUBSET Log!Pending : Log!Becomes(S, "shown")
        BY <1>4 DEF Log!Show
    <2> QED
        BY <1>2, <2>1 DEF Log!Pending, Fates
<1>5. CASE Log!Settle
    <2>1. PICK S \in SUBSET {n \in Log!Number : Fates[n] = "shown"} : Log!Becomes(S, "settled")
        BY <1>5 DEF Log!Settle, Fates
    <2> QED
        BY <1>2, <2>1
<1>6. CASE Log!Sweep
    <2>1. PICK S \in SUBSET Log!Pending : Log!Becomes(S, "swept")
        BY <1>6 DEF Log!Sweep
    <2> QED
        BY <1>2, <2>1 DEF Log!Pending, Fates
<1> QED
    BY <1>1, <1>3, <1>4, <1>5, <1>6 DEF Log!Next

(***************************************************************************)
(* What the log gives whoever relies on it: an event is lost to a full     *)
(* queue only when Capacity newer ones have arrived, what was settled,     *)
(* swept or dropped never comes back, and only a shown event is settled.   *)
(***************************************************************************)
THEOREM LogKeepsItsWord == ImplementsLog => []OldAreDropped /\ [][WordIsKept]_Fates
<1>1. Log!Init => OldAreDropped
    BY DEF Log!Init, OldAreDropped, Fates, Log!Number
<1>2. [Log!Next]_Fates => [WordIsKept]_Fates /\ (OldAreDropped => OldAreDropped')
    BY LogStep
<1> QED
    BY <1>1, <1>2, PTL DEF ImplementsLog, Log!Spec, Fates

(***************************************************************************)
(* Alerts of one key keep the distance that was set when the later one was *)
(* listed, for any durations and however the clock is set (addEvent).      *)
(***************************************************************************)
THEOREM AlertsStaySpaced == Spec => []AlertsAreSpaced
<1>1. AlertInv => AlertsAreSpaced
    BY DEF AlertInv
<1> QED
    BY <1>1, StoresInvariant, PTL

(***************************************************************************)
(* An alert that was turned away is represented in the list until the list *)
(* is cleared, which also ends the suppression (addEvent and clear).       *)
(***************************************************************************)
THEOREM MutedStaysListed == Spec => []MutedIsListed
BY MutedFollows, StoresInvariant, PTL

=============================================================================
