------------------------- MODULE HealthChannelProofs -------------------------
(***************************************************************************)
(* What the memory of a health channel is worth to its reader: the         *)
(* heartbeat of Heartbeat, for every timeout and number of reports, and    *)
(* the metrics of ResourceReporter, for any number of metrics and levels.  *)
(***************************************************************************)
EXTENDS Heartbeat, ResourceReporter, TLAPS

-----------------------------------------------------------------------------
(* The heartbeat *)

\* The time a report has read and not yet stored is the last one any report read.
StampIsLast == client \in {"store_counter", "store_time"} => begun = stamp

AgesOK ==
    /\ last_update \in Ages
    /\ stamp \in Ages
    /\ begun \in Ages

LifeSignInv == AgesOK /\ StampIsLast /\ AliveIsRecent

-----------------------------------------------------------------------------
(***************************************************************************)
(* Time keeps the order of two ages, and does not make an age fresh again. *)
(***************************************************************************)
LEMMA OlderKeepsOrder ==
    ASSUME NEW a \in Ages, NEW b \in Ages, a <= b
    PROVE  /\ Older(a) \in Ages
           /\ Older(a) <= Older(b)
           /\ Older(b) < Timeout => b < Timeout
BY HeartbeatAssumption DEF Ages, Older

LEMMA OlderType == ASSUME NEW a \in Ages PROVE Older(a) \in Ages
BY HeartbeatAssumption DEF Ages, Older

LEMMA LifeSignInit == Init => LifeSignInv
BY HeartbeatAssumption
   DEF Init, LifeSignInv, AgesOK, StampIsLast, AliveIsRecent, Ages, Stale

\* The steps that change neither an age nor what the client is about to do.
LEMMA LifeSignKept ==
    ASSUME LifeSignInv, UNCHANGED <<last_update, stamp, begun, client>>
    PROVE  LifeSignInv'
BY DEF LifeSignInv, AgesOK, StampIsLast, AliveIsRecent

LEMMA LifeSignStep == LifeSignInv /\ [Next]_vars => LifeSignInv'
<1> SUFFICES ASSUME LifeSignInv, [Next]_vars PROVE LifeSignInv'
    OBVIOUS
<1> USE HeartbeatAssumption
<1>1. AgesOK /\ StampIsLast /\ AliveIsRecent
    BY DEF LifeSignInv
<1>2. CASE Tick
    <2>1. /\ last_update' = Older(last_update)
          /\ stamp' = Older(stamp)
          /\ begun' = Older(begun)
          /\ client' = client
        BY <1>2 DEF Tick
    <2>2. AgesOK'
        BY <1>1, <2>1, OlderType DEF AgesOK
    <2>3. StampIsLast'
        BY <1>1, <2>1 DEF StampIsLast
    <2>4. AliveIsRecent'
        <3>1. CASE last_update < Timeout
            BY <1>1, <2>1, <3>1, OlderKeepsOrder DEF AgesOK, AliveIsRecent
        <3>2. CASE ~(last_update < Timeout)
            BY <1>1, <2>1, <3>2 DEF AgesOK, AliveIsRecent, Older, Ages
        <3> QED  BY <3>1, <3>2
    <2> QED  BY <2>2, <2>3, <2>4 DEF LifeSignInv
<1>3. ASSUME NEW side \in Sides, Wipe(side) PROVE LifeSignInv'
    <2>1. PICK word \in {"alive_counter", "last_update_ms"} : wipe(side, word)
        BY <1>3 DEF Wipe
    <2>2. /\ last_update' = last_update \/ last_update' = Stale
          /\ UNCHANGED <<stamp, begun, client>>
        BY <2>1 DEF wipe, caller
    <2> QED
        BY <1>1, <2>2 DEF LifeSignInv, AgesOK, StampIsLast, AliveIsRecent, Ages, Stale
<1>4. CASE ClientStep
    <2>1. CASE openClient
        BY <1>1, <2>1 DEF openClient, shm, history, LifeSignInv, AgesOK, StampIsLast,
                          AliveIsRecent
    <2>2. CASE reportBegin
        BY <1>1, <2>2 DEF reportBegin, shm, LifeSignInv, AgesOK, StampIsLast,
                          AliveIsRecent, Ages
    <2>3. CASE reportCounter
        BY <1>1, <2>3 DEF reportCounter, LifeSignInv, AgesOK, StampIsLast, AliveIsRecent
    <2>4. CASE reportTime
        BY <1>1, <2>4 DEF reportTime, LifeSignInv, AgesOK, StampIsLast, AliveIsRecent, Ages
    <2>5. CASE clientDies
        BY <1>1, <2>5 DEF clientDies, shm, history, LifeSignInv, AgesOK, StampIsLast,
                          AliveIsRecent
    <2> QED  BY <1>4, <2>1, <2>2, <2>3, <2>4, <2>5 DEF ClientStep
<1>5. CASE Lifecycle
    <2>1. UNCHANGED <<last_update, stamp, begun, client>>
        BY <1>5 DEF Lifecycle, openDaemon, daemonDies, setHealthChannel, start, reset, stop,
                    shm, caller, history
    <2> QED  BY <2>1, LifeSignKept
<1>6. CASE CheckStep
    <2>1. UNCHANGED <<last_update, stamp, begun, client>>
        BY <1>6 DEF CheckStep, checkNoChannel, checkCounter, checkTime, checkDecide,
                    shm, caller, history
    <2> QED  BY <2>1, LifeSignKept
<1>7. CASE UNCHANGED vars
    <2>1. UNCHANGED <<last_update, stamp, begun, client>>
        BY <1>7 DEF vars, shm, caller, history
    <2> QED  BY <2>1, LifeSignKept
<1> QED
    BY <1>2, <1>3, <1>4, <1>5, <1>6, <1>7 DEF Next

(***************************************************************************)
(* The channel never says alive on the strength of a report that began     *)
(* longer ago than the timeout (health_channel.cpp, lines 83-88): whatever *)
(* the two sides do, die and open again between any two steps.             *)
(***************************************************************************)
THEOREM LifeSignIsRecent == Spec => []AliveIsRecent
<1>1. LifeSignInv => AliveIsRecent
    BY DEF LifeSignInv
<1> QED
    BY <1>1, LifeSignInit, LifeSignStep, PTL DEF Spec

-----------------------------------------------------------------------------
(***************************************************************************)
(* Types first: every later argument compares counters or ages.            *)
(***************************************************************************)
LEMMA TypesInit == Init => TypeOK
<1> SUFFICES ASSUME Init PROVE TypeOK
    OBVIOUS
<1>1. {health_channel_, first_check_, event, stored, wiped, beaten, disturbed} \subseteq BOOLEAN
    BY Zenon DEF Init
<1>2. {last_update, stamp, seen, begun, done, seenDone} \subseteq Ages
    BY HeartbeatAssumption DEF Init, Ages, Stale
<1>3. {alive_counter, beats, last_counter_, current} \subseteq 0 .. MaxBeats
    BY HeartbeatAssumption DEF Init
<1> QED
    BY <1>1, <1>2, <1>3 DEF Init, TypeOK

LEMMA TypesStep == TypeOK /\ [Next]_vars => TypeOK'
<1> SUFFICES ASSUME TypeOK, [Next]_vars PROVE TypeOK'
    OBVIOUS
<1> USE HeartbeatAssumption DEF TypeOK
<1>1. CASE Tick
    <2>1. \A a \in Ages : Older(a) \in Ages
        BY OlderType
    <2> QED  BY <1>1, <2>1 DEF Tick
<1>2. ASSUME NEW side \in Sides, Wipe(side) PROVE TypeOK'
    <2>1. PICK word \in {"alive_counter", "last_update_ms"} : wipe(side, word)
        BY <1>2 DEF Wipe
    <2>2. wiping' \in [Sides -> SUBSET {"alive_counter", "last_update_ms"}]
        BY <2>1 DEF wipe
    <2>3. /\ alive_counter' = alive_counter \/ alive_counter' = 0
          /\ last_update' = last_update \/ last_update' = Stale
          /\ done' = done \/ done' = Stale
          /\ UNCHANGED <<caller, monitor, begun, seenDone>>
        BY <2>1 DEF wipe
    <2>4. {health_channel_', first_check_', event', stored', wiped', beaten', disturbed'}
             \subseteq BOOLEAN
        BY <2>1, Zenon DEF wipe, monitor
    <2> QED  BY <2>2, <2>3, <2>4 DEF caller, monitor, Ages, Stale
<1>3. CASE ClientStep
    <2>1. CASE openClient
        BY <2>1 DEF openClient, open, shm, monitor, history, Sides
    <2>2. CASE reportBegin
        BY <2>2 DEF reportBegin, shm, monitor, Ages
    <2>3. CASE reportCounter
        BY <2>3 DEF reportCounter, monitor
    <2>4. CASE reportTime
        BY <2>4 DEF reportTime, monitor
    <2>5. CASE clientDies
        BY <2>5 DEF clientDies, shm, monitor, history, Sides
    <2> QED  BY <1>3, <2>1, <2>2, <2>3, <2>4, <2>5 DEF ClientStep
<1>4. CASE Lifecycle
    <2>b. {health_channel_', first_check_', event', stored', wiped', beaten', disturbed'}
             \subseteq BOOLEAN
        BY <1>4, Zenon DEF Lifecycle, openDaemon, daemonDies, setHealthChannel, start, reset, stop,
                           history
    <2>1. CASE openDaemon
        BY <2>1, <2>b DEF openDaemon, open, shm, caller, history, Sides
    <2>2. CASE daemonDies
        BY <2>2 DEF daemonDies, shm, caller, history, Sides
    <2>3. CASE setHealthChannel \/ start \/ reset \/ stop
        BY <2>3, <2>b DEF setHealthChannel, start, reset, stop, shm, caller, history
    <2> QED  BY <1>4, <2>1, <2>2, <2>3 DEF Lifecycle
<1>5. CASE CheckStep
    <2>1. CASE checkCounter
        BY <2>1 DEF checkCounter, shm, caller
    <2>2. CASE checkTime
        BY <2>2 DEF checkTime, shm, caller
    <2>3. CASE checkDecide
        <3>1. {health_channel_', first_check_', event', stored', wiped', beaten', disturbed'}
                 \subseteq BOOLEAN
            BY <2>3, Zenon DEF checkDecide, Verdict, history
        <3>2. state_' \in {INIT, RUNNING, WARN}
            BY <2>3 DEF checkDecide, Verdict
        <3> QED  BY <2>3, <3>1, <3>2 DEF checkDecide, shm, caller, history
    <2>4. CASE checkNoChannel
        BY <2>4 DEF checkNoChannel, shm, caller, history
    <2> QED  BY <1>5, <2>1, <2>2, <2>3, <2>4 DEF CheckStep
<1>6. CASE UNCHANGED vars
    BY <1>6 DEF vars, shm, caller, monitor, history
<1> QED
    BY <1>1, <1>2, <1>3, <1>4, <1>5, <1>6 DEF Next

(***************************************************************************)
(* Every variable keeps its type: in particular no counter is beyond what  *)
(* the client counts, and no monitor is in a state the class has not       *)
(* (health_channel.cpp and alive_monitor.cpp).                             *)
(***************************************************************************)
THEOREM TypesHold == Spec => []TypeOK
<1> QED
    BY TypesInit, TypesStep, PTL DEF Spec

-----------------------------------------------------------------------------
(***************************************************************************)
(* No false alarm.  A client that reports has cleared its memory; so the   *)
(* counter it stores is above the one that is there, and that is at least  *)
(* the one the monitor loaded last, unless somebody has cleared it since.  *)
(***************************************************************************)
Cleared == client \in {"store_counter", "store_time"} => wiping["client"] = {}

CounterIsBehind ==
    /\ client # "down" /\ "alive_counter" \notin wiping["client"] => alive_counter <= beats
    /\ client = "store_counter" => alive_counter < beats

\* The counter that the next one will be compared with.
Loaded == IF daemon = "down" THEN 0 ELSE IF daemon = "idle" THEN last_counter_ ELSE current

CounterGrows ==
    ~wiped => /\ Loaded <= alive_counter
              /\ stored => Loaded < alive_counter

GrowthIsSeen ==
    /\ daemon \in {"load_time", "decide"} /\ beaten /\ ~disturbed => last_counter_ < current
    /\ daemon = "decide" => seen = seenDone

TimesAgree == last_update = done

AlarmInv ==
    TypeOK /\ Cleared /\ CounterIsBehind /\ CounterGrows /\ GrowthIsSeen /\ TimesAgree

LEMMA AlarmInit == Init => AlarmInv
BY TypesInit
   DEF Init, AlarmInv, Cleared, CounterIsBehind, CounterGrows, Loaded, GrowthIsSeen, TimesAgree

LEMMA AlarmStep == AlarmInv /\ [Next]_vars => AlarmInv'
<1> SUFFICES ASSUME AlarmInv, [Next]_vars PROVE AlarmInv'
    OBVIOUS
<1>t. TypeOK /\ TypeOK'
    BY TypesStep DEF AlarmInv
<1>n. {alive_counter, beats, last_counter_, current} \subseteq Nat
    BY <1>t, HeartbeatAssumption DEF TypeOK
<1> USE <1>n DEF AlarmInv, Cleared, CounterIsBehind, CounterGrows, Loaded, GrowthIsSeen,
                 TimesAgree
<1>1. CASE Tick
    BY <1>t, <1>1 DEF Tick
<1>2. ASSUME NEW side \in Sides, Wipe(side) PROVE AlarmInv'
    <2>1. PICK word \in {"alive_counter", "last_update_ms"} : wipe(side, word)
        BY <1>2 DEF Wipe
    <2>2. UNCHANGED <<caller, monitor, stored, beaten, disturbed, seenDone>>
        BY <2>1 DEF wipe
    <2>3. wiping["client"] = {} => wiping'["client"] = {}
        BY <2>1, <1>t DEF wipe, TypeOK, Sides
    <2>4. CASE word = "alive_counter"
        BY <1>t, <2>1, <2>2, <2>3, <2>4 DEF wipe, caller, monitor
    <2>5. CASE word = "last_update_ms"
        <3>1. "alive_counter" \in wiping["client"] => "alive_counter" \in wiping'["client"]
            BY <2>1, <2>5, <1>t DEF wipe, TypeOK, Sides
        <3> QED  BY <1>t, <2>1, <2>2, <2>3, <2>5, <3>1 DEF wipe, caller, monitor
    <2> QED  BY <2>4, <2>5
<1>3. CASE ClientStep
    <2>1. CASE openClient
        <3>1. "alive_counter" \in wiping'["client"]
            BY <2>1, <1>t DEF openClient, open, TypeOK, Sides
        <3> QED  BY <1>t, <2>1, <3>1 DEF openClient, shm, monitor, history
    <2>2. CASE reportBegin
        BY <1>t, <2>2 DEF reportBegin, shm, monitor
    <2>3. CASE reportCounter
        BY <1>t, <2>3 DEF reportCounter, monitor
    <2>4. CASE reportTime
        BY <1>t, <2>4 DEF reportTime, monitor
    <2>5. CASE clientDies
        BY <1>t, <2>5 DEF clientDies, shm, monitor, history
    <2> QED  BY <1>3, <2>1, <2>2, <2>3, <2>4, <2>5 DEF ClientStep
<1>4. CASE Lifecycle
    <2>1. CASE openDaemon \/ daemonDies
        <3>1. wiping'["client"] = wiping["client"]
            BY <2>1, <1>t DEF openDaemon, daemonDies, open, TypeOK, Sides
        <3> QED  BY <1>t, <2>1, <3>1 DEF openDaemon, daemonDies, shm, caller, history
    <2>2. CASE start \/ reset
        BY <1>t, <2>2 DEF start, reset, Ready, shm, caller, history
    <2>3. CASE stop \/ setHealthChannel
        BY <1>t, <2>3 DEF stop, setHealthChannel, Ready, shm, caller, history
    <2> QED  BY <1>4, <2>1, <2>2, <2>3 DEF Lifecycle
<1>5. CASE CheckStep
    <2>1. CASE checkCounter
        BY <1>t, <2>1 DEF checkCounter, Ready, shm, caller
    <2>2. CASE checkTime
        BY <1>t, <2>2 DEF checkTime, shm, caller
    <2>3. CASE checkDecide
        BY <1>t, <2>3 DEF checkDecide, shm, caller, history
    <2>4. CASE checkNoChannel
        BY <1>t, <2>4 DEF checkNoChannel, shm, caller, history
    <2> QED  BY <1>5, <2>1, <2>2, <2>3, <2>4 DEF CheckStep
<1>6. CASE UNCHANGED vars
    BY <1>t, <1>6 DEF vars, shm, caller, monitor, history
<1> QED
    BY <1>1, <1>2, <1>3, <1>4, <1>5, <1>6 DEF Next

(***************************************************************************)
(* check() warns only of a client that has not stored its counter since    *)
(* the check before, has completed no report within the timeout, or whose  *)
(* memory was cleared in between (alive_monitor.cpp, lines 49-80).         *)
(***************************************************************************)
THEOREM AlarmsAreTrue == Spec => NoFalseAlarm
<1>1. AlarmInv /\ [Next]_vars
      => [(checkDecide /\ event') => ~beaten \/ disturbed \/ seenDone = Stale]_vars
    <2> SUFFICES ASSUME AlarmInv, checkDecide, event', beaten, ~disturbed
                 PROVE  seenDone = Stale
        OBVIOUS
    <2>1. last_counter_ < current /\ seen = seenDone /\ current \in Nat /\ last_counter_ \in Nat
        BY HeartbeatAssumption DEF AlarmInv, GrowthIsSeen, checkDecide, TypeOK
    <2>2. current # last_counter_
        BY <2>1
    <2>3. ~isAlive
        BY <2>2, Zenon DEF checkDecide, Verdict
    <2>4. seen \in Ages
        BY DEF AlarmInv, TypeOK
    <2> QED
        BY <2>1, <2>3, <2>4, HeartbeatAssumption DEF isAlive, Ages, Stale
<1> QED
    BY <1>1, AlarmInit, AlarmStep, PTL DEF Spec, NoFalseAlarm

-----------------------------------------------------------------------------
(* Silence is found *)

\* The steps that store no counter and leave the monitor where it is.
Silent      == ~reportCounter /\ ~Lifecycle
Round(l)    == daemon = l
ToWipe(w)   == w \in wiping["daemon"]
Wiping      == wiping["daemon"] # {}
Up          == daemon # "down" /\ health_channel_
Wiped       == alive_counter = 0
InView      == current = alive_counter
Compared    == InView /\ last_counter_ = alive_counter
Based       == ~first_check_
Warned      == state_ = WARN

\* A silent step that is not one of check() touches neither the monitor nor the
\* counter, but to set it to zero.
LEMMA SilentStep ==
    ASSUME TypeOK, [Next]_vars, [Silent]_vars, ~CheckStep
    PROVE  /\ UNCHANGED <<daemon, health_channel_, state_, last_counter_, first_check_, current>>
           /\ alive_counter' \in {alive_counter, 0}
           /\ wiping'["daemon"] \subseteq wiping["daemon"]
<1> USE DEF TypeOK
<1>1. CASE Tick
    BY <1>1 DEF Tick
<1>2. ASSUME NEW side \in Sides, NEW word \in {"alive_counter", "last_update_ms"}, wipe(side, word)
      PROVE  /\ UNCHANGED <<daemon, health_channel_, state_, last_counter_, first_check_, current>>
             /\ alive_counter' \in {alive_counter, 0}
             /\ wiping'["daemon"] \subseteq wiping["daemon"]
    BY <1>2 DEF wipe, monitor, Sides
<1>3. CASE openClient
    BY <1>3 DEF openClient, open, shm, monitor, Sides
<1>4. CASE reportBegin \/ reportTime
    BY <1>4 DEF reportBegin, reportTime, shm, monitor
<1>5. CASE clientDies
    BY <1>5 DEF clientDies, shm, monitor, Sides
<1>6. CASE UNCHANGED vars
    BY <1>6 DEF vars, shm, monitor
<1> QED
    BY <1>1, <1>2, <1>3, <1>4, <1>5, <1>6 DEF Next, ClientStep, Silent, Wipe

LEMMA CheckKeeps ==
    ASSUME CheckStep
    PROVE  UNCHANGED <<alive_counter, wiping>>
BY DEF CheckStep, checkNoChannel, checkCounter, checkTime, checkDecide, shm

\* A check() that has its channel takes its three steps one after the other.
LEMMA CheckRound ==
    ASSUME CheckStep, Up
    PROVE  /\ \/ Round("idle") /\ Round("load_time")' /\ checkCounter
              \/ Round("load_time") /\ Round("decide")' /\ checkTime
              \/ Round("decide") /\ Round("idle")' /\ checkDecide
           /\ Round("idle") => ~Wiping
<1>1. CASE checkCounter
    BY <1>1 DEF checkCounter, Ready, Round, Wiping
<1>2. CASE checkTime
    BY <1>2 DEF checkTime, Round
<1>3. CASE checkDecide
    BY <1>3 DEF checkDecide, Round
<1>4. ~checkNoChannel
    BY DEF checkNoChannel, Up
<1> QED
    BY <1>1, <1>2, <1>3, <1>4 DEF CheckStep

\* The memory that the daemon opened is cleared once.
LEMMA WipeFacts ==
    ASSUME TypeOK, [Next]_vars, [Silent]_vars
    PROVE  /\ ToWipe("alive_counter")' => ToWipe("alive_counter")
           /\ ToWipe("last_update_ms")' => ToWipe("last_update_ms")
           /\ Wiping <=> ToWipe("alive_counter") \/ ToWipe("last_update_ms")
           /\ Wipe("daemon") => \/ ToWipe("alive_counter") /\ ~ToWipe("alive_counter")'
                                \/ ToWipe("last_update_ms") /\ ~ToWipe("last_update_ms")'
           /\ Wiped => Wiped'
<1>1. Wiping <=> ToWipe("alive_counter") \/ ToWipe("last_update_ms")
    BY DEF ToWipe, Wiping, TypeOK, Sides
<1>2. ASSUME NEW word \in {"alive_counter", "last_update_ms"}, wipe("daemon", word)
      PROVE  word \in wiping["daemon"] /\ word \notin wiping'["daemon"]
    BY <1>2 DEF wipe, TypeOK, Sides
<1>3. wiping'["daemon"] \subseteq wiping["daemon"] /\ alive_counter' \in {alive_counter, 0}
    BY SilentStep, CheckKeeps
<1> QED
    BY <1>1, <1>2, <1>3 DEF ToWipe, Wiped, Wipe

\* check() goes round: the three steps follow each other.
LEMMA RoundFacts ==
    ASSUME TypeOK, [Next]_vars, [Silent]_vars
    PROVE  /\ Up => Round("idle") \/ Round("load_time") \/ Round("decide")
           /\ ~(Round("idle") /\ Round("load_time"))
           /\ ~(Round("idle") /\ Round("decide"))
           /\ ~(Round("decide") /\ Round("load_time"))
           /\ Up /\ ~Wiping => CanCheck
           /\ Up /\ <<CheckStep>>_vars =>
                 \/ Round("idle") /\ Round("load_time")' /\ checkCounter
                 \/ Round("load_time") /\ Round("decide")' /\ checkTime
                 \/ Round("decide") /\ Round("idle")' /\ checkDecide
           /\ ~<<CheckStep>>_vars =>
                 /\ Round("idle") => Round("idle")'
                 /\ Round("load_time") => Round("load_time")'
                 /\ Round("decide") => Round("decide")'
<1>1. Up => Round("idle") \/ Round("load_time") \/ Round("decide")
    BY DEF TypeOK, Up, Round
<1>2. Up /\ ~Wiping => CanCheck
    BY DEF TypeOK, Up, Wiping, CanCheck, Ready
<1>3. Up /\ CheckStep => \/ Round("idle") /\ Round("load_time")' /\ checkCounter
                         \/ Round("load_time") /\ Round("decide")' /\ checkTime
                         \/ Round("decide") /\ Round("idle")' /\ checkDecide
    BY CheckRound
<1>4. UNCHANGED vars => daemon' = daemon
    BY DEF vars, monitor
<1>5. ~<<CheckStep>>_vars => daemon' = daemon
    BY <1>4, SilentStep
<1> QED
    BY <1>1, <1>2, <1>3, <1>5 DEF Round

\* What the monitor knows settles, once the counter does.
LEMMA SettleFacts ==
    ASSUME TypeOK, Up, [Next]_vars, [Silent]_vars, Wiped <=> Wiped'
    PROVE  /\ InView => InView'
           /\ Compared => Compared'
           /\ Based => Based'
           /\ Compared /\ Warned => Warned'
           /\ checkCounter => InView'
           /\ InView /\ checkDecide => Compared'
           /\ checkDecide => Based'
           /\ Compared /\ Based /\ checkDecide => Warned'
<1> DEFINE Goal ==
           /\ InView => InView'
           /\ Compared => Compared'
           /\ Based => Based'
           /\ Compared /\ Warned => Warned'
<1>1. alive_counter' = alive_counter
    BY SilentStep, CheckKeeps DEF Wiped
<1>c. ~checkNoChannel
    BY DEF checkNoChannel, Up
<1> USE DEF InView, Compared, Based, Warned
<1>2. CASE ~CheckStep
    BY <1>1, <1>2, SilentStep DEF CheckStep
<1>3. CASE checkCounter
    BY <1>1, <1>3 DEF checkCounter, checkDecide, Ready
<1>4. CASE checkTime
    BY <1>1, <1>4 DEF checkTime, checkCounter, checkDecide, Ready
<1>5. CASE checkDecide
    <2>1. UNCHANGED current /\ last_counter_' = current /\ first_check_' = FALSE
        BY <1>5 DEF checkDecide
    <2>2. Compared /\ Based => Warned'
        BY <1>5 DEF checkDecide, Verdict
    <2>3. ~checkCounter
        BY <1>5 DEF checkCounter, checkDecide, Ready
    <2>4. Compared /\ Warned => Warned'
        BY <1>5 DEF checkDecide, Verdict, WARN, RUNNING
    <2> QED
        BY <1>1, <2>1, <2>2, <2>3, <2>4
<1> QED
    BY <1>c, <1>2, <1>3, <1>4, <1>5 DEF CheckStep

(***************************************************************************)
(* A client whose counter is not stored any more is found by every monitor *)
(* that has been given its channel (setHealthChannel), for every timeout:  *)
(* the memory is cleared for good, the round of check() goes on, the       *)
(* counter settles, then what the monitor has loaded, what it compares     *)
(* with, and its verdict.                                                  *)
(***************************************************************************)
THEOREM SilenceIsAlwaysFound == FairSpec /\ []CheckNeverWaits => SilenceIsFound
<1> DEFINE Calm == TypeOK /\ [Next]_vars /\ [Silent]_vars
           Premise == /\ []TypeOK /\ [][Next]_vars /\ []CheckNeverWaits
                      /\ WF_vars(CheckStep) /\ WF_vars(Wipe("daemon"))
                      /\ <>[][Silent]_vars /\ <>[]Up
<1>1. FairSpec => []TypeOK /\ [][Next]_vars /\ WF_vars(CheckStep) /\ WF_vars(Wipe("daemon"))
    BY TypesHold, PTL DEF FairSpec, Fairness, Spec
<1>2. CheckNeverWaits => /\ CanCheck => ENABLED <<CheckStep>>_vars
                         /\ Wiping => ENABLED <<Wipe("daemon")>>_vars
    BY DEF CheckNeverWaits, Wiping
<1>3. TypeOK /\ [Next]_vars /\ [Silent]_vars =>
           /\ ToWipe("alive_counter")' => ToWipe("alive_counter")
           /\ ToWipe("last_update_ms")' => ToWipe("last_update_ms")
           /\ Wiping <=> ToWipe("alive_counter") \/ ToWipe("last_update_ms")
           /\ Wipe("daemon") => \/ ToWipe("alive_counter") /\ ~ToWipe("alive_counter")'
                                \/ ToWipe("last_update_ms") /\ ~ToWipe("last_update_ms")'
           /\ Wiped => Wiped'
    BY WipeFacts
<1>4. TypeOK /\ [Next]_vars /\ [Silent]_vars =>
           /\ Up => Round("idle") \/ Round("load_time") \/ Round("decide")
           /\ ~(Round("idle") /\ Round("load_time"))
           /\ ~(Round("idle") /\ Round("decide"))
           /\ ~(Round("decide") /\ Round("load_time"))
           /\ Up /\ ~Wiping => CanCheck
           /\ Up /\ <<CheckStep>>_vars =>
                 \/ Round("idle") /\ Round("load_time")' /\ checkCounter
                 \/ Round("load_time") /\ Round("decide")' /\ checkTime
                 \/ Round("decide") /\ Round("idle")' /\ checkDecide
           /\ ~<<CheckStep>>_vars =>
                 /\ Round("idle") => Round("idle")'
                 /\ Round("load_time") => Round("load_time")'
                 /\ Round("decide") => Round("decide")'
    BY RoundFacts
<1> DEFINE Settling ==
           /\ InView => InView'
           /\ Compared => Compared'
           /\ Based => Based'
           /\ Compared /\ Warned => Warned'
           /\ checkCounter => InView'
           /\ InView /\ checkDecide => Compared'
           /\ checkDecide => Based'
           /\ Compared /\ Based /\ checkDecide => Warned'
<1>5. TypeOK /\ Up /\ [Next]_vars /\ [Silent]_vars /\ (Wiped <=> Wiped') => Settling
    BY SettleFacts
<1>6. UNCHANGED vars =>
           /\ InView => InView'
           /\ Compared => Compared'
           /\ Based => Based'
           /\ Compared /\ Warned => Warned'
    BY DEF vars, shm, monitor, InView, Compared, Based, Warned
<1> HIDE DEF Premise
<1>7. Premise => <>[]~Wiping
    BY <1>2, <1>3, PTL DEF Premise
<1>8. Premise => []<><<CheckStep>>_vars
    BY <1>2, <1>4, <1>7, PTL DEF Premise
<1>9. Premise => /\ []<><<Round("idle") /\ checkCounter>>_vars
                 /\ []<><<Round("decide") /\ checkDecide>>_vars
    BY <1>4, <1>8, PTL DEF Premise
<1> HIDE DEF Settling
<1>10. Premise => <>[][Settling]_vars
    <2>1. Premise => <>[]Wiped \/ <>[]~Wiped
        BY <1>3, PTL DEF Premise
    <2> QED
        BY <1>5, <2>1, PTL DEF Premise
<1>11. Premise => <>[]Based /\ <>[]InView
    BY <1>6, <1>9, <1>10, PTL DEF Settling
<1>12. Premise => <>[](Based /\ Compared)
    BY <1>6, <1>9, <1>10, <1>11, PTL DEF Settling
<1>13. Premise => <>[]Warned
    BY <1>6, <1>9, <1>10, <1>12, PTL DEF Settling
<1> QED
    BY <1>1, <1>13, PTL DEF Premise, SilenceIsFound, ClientIsSilent, Silent, Up, Warned

-----------------------------------------------------------------------------
(* The metrics: the inductive invariant *)

Quiet == \A s \in Openers : clearing[s] = {}
Writing == worker \in {"key", "value", "count"}

\* Slot i has its key, and a reading of S.
Filled(i, S) == key[i] /\ value[i] \in S

\* The slots the report under way has been through.
Written(i) == worker = "count" \/ (worker \in {"key", "value"} /\ i < at)

OwnerStands ==
    /\ owner = "idle" => worker # "done" /\ (running_ <=> worker # "none")
    /\ owner \in {"starting", "dead", "opening"} => worker = "none"
    /\ owner = "starting" => running_
    /\ owner \in {"joining", "dead", "opening"} => ~running_
    /\ owner = "joining" => worker # "none"
    /\ clearing["process"] # {} => owner = "opening"
    /\ clearing["monitor"] # {} => reader = "opening"
    /\ reader \in {"idle", "opening"} => next = 1

\* What an undisturbed report has stored stays until an opening.
ReportStands ==
    /\ clean => Quiet
    /\ whole => clean
    /\ clean /\ Writing => \A i \in Slots : Written(i) => Filled(i, {sample[i]})
    /\ clean /\ worker = "value" => key[at]
    /\ whole => /\ Quiet /\ metric_count = NumSlots
                /\ \A i \in Slots : Filled(i, recent[i])
                /\ Writing => \A i \in Slots : sample[i] \in recent[i]

\* What a reader that began after such a report has got, and will get.
ReadingStands ==
    floor => /\ whole
             /\ reader \in {"key", "value"}
             /\ n = NumSlots
             /\ \A i \in Slots : recent[i] \subseteq fresh[i]
             /\ \A i \in Slots : i < next => snapshot[i] \in fresh[i]

IInv == MetricsTypeOK /\ OwnerStands /\ ReportStands /\ ReadingStands

LEMMA NoneYetType == NoneYet \in [Slots -> SUBSET Readings]
BY DEF NoneYet

LEMMA SampleType ==
    ASSUME MetricsTypeOK, collectAndReport PROVE sample' \in [Slots -> Readings]
<1>1. /\ readSelfCpuUsage \subseteq Readings
      /\ readSelfOpenFdCount \in Readings /\ readSelfMemoryBytes \in Readings
    BY DEF MetricsTypeOK, readSelfCpuUsage, readSelfOpenFdCount, readSelfMemoryBytes, Readings
<1> QED
    BY <1>1, ReporterAssumption DEF collectAndReport

LEMMA SampleIsSomething == ASSUME NEW s \in [Slots -> Readings] PROVE s # Nothing
<1>1. 1 \in Slots
    BY ReporterAssumption DEF Slots
<1>2. Missing \notin Readings
    <2>1. Missing \notin Nat /\ Levels \subseteq Nat /\ Zero \in Nat
        BY ReporterAssumption DEF Zero
    <2> QED
        BY <2>1 DEF Readings
<1> QED
    BY <1>1, <1>2 DEF Nothing

LEMMA InitIsGood == ASSUME MetricsInit PROVE IInv
<1>1. MetricsTypeOK
    <2>1. 1 \in Slots /\ 1 \in 1 .. NumSlots + 1 /\ 0 \in {0, NumSlots}
        BY ReporterAssumption DEF Slots
    <2>2. clearing \in [Openers -> SUBSET Words]
        BY DEF MetricsInit
    <2> QED
        BY <2>1, <2>2, NoneYetType DEF MetricsInit, MetricsTypeOK, Readings, Nothing
<1> QED
    BY <1>1, ReporterAssumption
    DEF MetricsInit, IInv, OwnerStands, ReportStands, ReadingStands, Quiet, Writing, Openers

LEMMA StartKeeps ==
    ASSUME IInv, startReporter PROVE IInv'
<1> USE DEF IInv, startReporter, use, memory, past
<1>1. MetricsTypeOK'
    BY ReporterAssumption DEF MetricsTypeOK, Slots, Openers, Readings
<1>2. OwnerStands'
    BY DEF MetricsTypeOK, OwnerStands, Openers
<1>3. ReportStands'
    BY ReporterAssumption DEF MetricsTypeOK, ReportStands, Quiet, Writing, Written, Filled,
                              Slots, Openers
<1>4. ReadingStands'
    BY ReporterAssumption DEF MetricsTypeOK, ReportStands, ReadingStands, Quiet, Filled,
                              Writing, Slots, Openers
<1> QED
    BY <1>1, <1>2, <1>3, <1>4

LEMMA StartThreadKeeps ==
    ASSUME IInv, startThread PROVE IInv'
<1> USE DEF IInv, startThread, use, memory, past
<1>1. MetricsTypeOK'
    BY ReporterAssumption DEF MetricsTypeOK, Slots, Openers, Readings
<1>2. OwnerStands'
    BY DEF MetricsTypeOK, OwnerStands, Openers
<1>3. ReportStands'
    BY ReporterAssumption DEF MetricsTypeOK, ReportStands, Quiet, Writing, Written, Filled,
                              Slots, Openers
<1>4. ReadingStands'
    BY ReporterAssumption DEF MetricsTypeOK, ReportStands, ReadingStands, Quiet, Filled,
                              Writing, Slots, Openers
<1> QED
    BY <1>1, <1>2, <1>3, <1>4

LEMMA StopKeeps ==
    ASSUME IInv, stopReporter PROVE IInv'
<1> USE DEF IInv, stopReporter, use, memory, past
<1>1. MetricsTypeOK'
    <2>1. running_' \in BOOLEAN /\ owner' = "joining"
        OBVIOUS
    <2>2. worker' = worker /\ reader' = reader /\ n' = n /\ next' = next
        OBVIOUS
    <2> QED
        BY <2>1, <2>2 DEF MetricsTypeOK
<1>2. OwnerStands'
    BY DEF MetricsTypeOK, OwnerStands, Openers
<1>3. ReportStands'
    BY ReporterAssumption DEF MetricsTypeOK, ReportStands, Quiet, Writing, Written, Filled,
                              Slots, Openers
<1>4. ReadingStands'
    BY ReporterAssumption DEF MetricsTypeOK, ReportStands, ReadingStands, Quiet, Filled,
                              Writing, Slots, Openers
<1> QED
    BY <1>1, <1>2, <1>3, <1>4

LEMMA StopJoinKeeps ==
    ASSUME IInv, stopJoin PROVE IInv'
<1> USE DEF IInv, stopJoin, use, memory, past
<1>1. MetricsTypeOK'
    BY ReporterAssumption DEF MetricsTypeOK, Slots, Openers, Readings
<1>2. OwnerStands'
    BY DEF MetricsTypeOK, OwnerStands, Openers
<1>3. ReportStands'
    BY ReporterAssumption DEF MetricsTypeOK, ReportStands, Quiet, Writing, Written, Filled,
                              Slots, Openers
<1>4. ReadingStands'
    BY ReporterAssumption DEF MetricsTypeOK, ReportStands, ReadingStands, Quiet, Filled,
                              Writing, Slots, Openers
<1> QED
    BY <1>1, <1>2, <1>3, <1>4

LEMMA DieKeeps ==
    ASSUME IInv, die PROVE IInv'
<1> USE DEF IInv, die, use, memory, past
<1>1. MetricsTypeOK'
    <2>1. clearing' \in [Openers -> SUBSET Words] /\ at' \in Slots
        BY ReporterAssumption DEF MetricsTypeOK, Openers, Slots
    <2> QED
        BY <2>1 DEF MetricsTypeOK
<1>2. OwnerStands'
    BY DEF MetricsTypeOK, OwnerStands, Openers
<1>3. ReportStands'
    BY ReporterAssumption DEF MetricsTypeOK, ReportStands, Quiet, Writing, Written, Filled,
                              Slots, Openers
<1>4. ReadingStands'
    BY ReporterAssumption DEF MetricsTypeOK, ReportStands, ReadingStands, Quiet, Filled,
                              Writing, Slots, Openers
<1> QED
    BY <1>1, <1>2, <1>3, <1>4

LEMMA LaunchKeeps ==
    ASSUME IInv, launch PROVE IInv'
<1> USE DEF IInv, launch, BeginWipe, use, memory, past
<1>1. MetricsTypeOK'
    <2>1. clearing' \in [Openers -> SUBSET Words]
        BY DEF MetricsTypeOK, Openers
    <2> QED
        BY <2>1, NoneYetType DEF MetricsTypeOK
<1>2. OwnerStands'
    BY DEF MetricsTypeOK, OwnerStands, Openers
<1>3. ReportStands'
    BY ReporterAssumption DEF MetricsTypeOK, ReportStands, Quiet, Writing, Written, Filled,
                              Slots, Openers
<1>4. ReadingStands'
    BY ReporterAssumption DEF MetricsTypeOK, ReportStands, ReadingStands, Quiet, Filled,
                              Writing, Slots, Openers
<1> QED
    BY <1>1, <1>2, <1>3, <1>4

LEMMA OpenedKeeps ==
    ASSUME IInv, opened PROVE IInv'
<1> USE DEF IInv, opened, use, memory, past
<1>1. MetricsTypeOK'
    BY ReporterAssumption DEF MetricsTypeOK, Slots, Openers, Readings
<1>2. OwnerStands'
    BY DEF MetricsTypeOK, OwnerStands, Openers
<1>3. ReportStands'
    BY ReporterAssumption DEF MetricsTypeOK, ReportStands, Quiet, Writing, Written, Filled,
                              Slots, Openers
<1>4. ReadingStands'
    BY ReporterAssumption DEF MetricsTypeOK, ReportStands, ReadingStands, Quiet, Filled,
                              Writing, Slots, Openers
<1> QED
    BY <1>1, <1>2, <1>3, <1>4

LEMMA WipeKeeps ==
    ASSUME IInv, NEW side \in Openers, wipeSlot(side) PROVE IInv'
<1> USE DEF IInv, wipeSlot, Words, use, memory, past
<1>1. MetricsTypeOK'
    BY ReporterAssumption DEF MetricsTypeOK, Slots, Openers, Readings
<1>2. OwnerStands'
    BY DEF MetricsTypeOK, OwnerStands, Openers
<1>3. ReportStands'
    BY ReporterAssumption DEF MetricsTypeOK, ReportStands, Quiet, Writing, Written, Filled,
                              Slots, Openers
<1>4. ReadingStands'
    BY ReporterAssumption DEF MetricsTypeOK, ReportStands, ReadingStands, Quiet, Filled,
                              Writing, Slots, Openers
<1> QED
    BY <1>1, <1>2, <1>3, <1>4

LEMMA TestKeeps ==
    ASSUME IInv, testRunning PROVE IInv'
<1> USE DEF IInv, testRunning, use, memory, past
<1>1. MetricsTypeOK'
    BY ReporterAssumption DEF MetricsTypeOK, Slots, Openers, Readings
<1>2. OwnerStands'
    BY DEF MetricsTypeOK, OwnerStands, Openers
<1>3. ReportStands'
    BY ReporterAssumption DEF MetricsTypeOK, ReportStands, Quiet, Writing, Written, Filled,
                              Slots, Openers
<1>4. ReadingStands'
    BY ReporterAssumption DEF MetricsTypeOK, ReportStands, ReadingStands, Quiet, Filled,
                              Writing, Slots, Openers
<1> QED
    BY <1>1, <1>2, <1>3, <1>4

LEMMA CollectKeeps ==
    ASSUME IInv, collect PROVE IInv'
<1>1. /\ sample' \in [Slots -> Readings]
      /\ worker = "collect" /\ worker' = "key" /\ at' = 1
      /\ span' = {level}
      /\ clean' = Quiet
      /\ recent' = IF whole THEN [i \in Slots |-> recent[i] \cup {sample'[i]}] ELSE NoneYet
      /\ fresh' = IF floor THEN [i \in Slots |-> fresh[i] \cup {sample'[i]}] ELSE NoneYet
      /\ UNCHANGED <<level, ru_maxrss, memory, clearing, running_, owner, reader, n, next, snapshot,
                     whole, floor>>
    BY SampleType DEF IInv, collect, Remember, Quiet
<1>2. MetricsTypeOK'
    <2>1. recent' \in [Slots -> SUBSET Readings] /\ fresh' \in [Slots -> SUBSET Readings]
        BY <1>1, NoneYetType DEF IInv, MetricsTypeOK
    <2>2. at' \in Slots /\ span' \subseteq Levels
        BY <1>1, ReporterAssumption DEF IInv, MetricsTypeOK, Slots
    <2>3. sample' # Nothing
        BY <1>1, SampleIsSomething
    <2>4. clean' \in BOOLEAN
        BY <1>1 DEF Quiet
    <2>5. UNCHANGED <<level, ru_maxrss, key, value, metric_count, clearing, running_, owner,
                      reader, n, next, snapshot, whole, floor>>
        BY <1>1 DEF memory
    <2> QED
        BY <1>1, <2>1, <2>2, <2>3, <2>4, <2>5 DEF IInv, MetricsTypeOK
<1>3. OwnerStands'
    BY <1>1 DEF IInv, OwnerStands, memory
<1>4. ReportStands'
    <2>1. \A i \in Slots : ~Written(i)'
        BY <1>1 DEF Written, Slots
    <2>2. Quiet' = Quiet
        BY <1>1 DEF Quiet
    <2>3. whole => \A i \in Slots : recent[i] \subseteq recent'[i] /\ sample'[i] \in recent'[i]
        BY <1>1 DEF IInv, MetricsTypeOK
    <2> QED
        BY <1>1, <2>1, <2>2, <2>3 DEF IInv, ReportStands, Filled, memory
<1>5. ReadingStands'
    BY <1>1 DEF IInv, MetricsTypeOK, ReadingStands
<1> QED
    BY <1>2, <1>3, <1>4, <1>5 DEF IInv

LEMMA StoreKeyKeeps ==
    ASSUME IInv, storeKey PROVE IInv'
<1> USE DEF IInv, storeKey, use, memory, past
<1>1. MetricsTypeOK'
    BY ReporterAssumption DEF MetricsTypeOK, Slots, Openers, Readings
<1>2. OwnerStands'
    BY DEF MetricsTypeOK, OwnerStands, Openers
<1>3. ReportStands'
    BY ReporterAssumption DEF MetricsTypeOK, ReportStands, Quiet, Writing, Written, Filled,
                              Slots, Openers
<1>4. ReadingStands'
    BY ReporterAssumption DEF MetricsTypeOK, ReportStands, ReadingStands, Quiet, Filled,
                              Writing, Slots, Openers
<1> QED
    BY <1>1, <1>2, <1>3, <1>4

LEMMA StoreValueKeeps ==
    ASSUME IInv, storeValue PROVE IInv'
<1> USE DEF IInv, storeValue, use, memory, past
<1>1. MetricsTypeOK'
    BY ReporterAssumption DEF MetricsTypeOK, Slots, Openers, Readings
<1>2. OwnerStands'
    BY DEF MetricsTypeOK, OwnerStands, Openers
<1>3. ReportStands'
    BY ReporterAssumption DEF MetricsTypeOK, ReportStands, Quiet, Writing, Written, Filled,
                              Slots, Openers
<1>4. ReadingStands'
    BY ReporterAssumption DEF MetricsTypeOK, ReportStands, ReadingStands, Quiet, Filled,
                              Writing, Slots, Openers
<1> QED
    BY <1>1, <1>2, <1>3, <1>4

LEMMA StoreCountKeeps ==
    ASSUME IInv, storeCount PROVE IInv'
<1> USE DEF IInv, storeCount, use, memory, past
<1>1. MetricsTypeOK'
    <2>1. recent' \in [Slots -> SUBSET Readings]
        BY NoneYetType DEF MetricsTypeOK
    <2> QED
        BY <2>1 DEF MetricsTypeOK
<1>2. OwnerStands'
    BY DEF MetricsTypeOK, OwnerStands, Openers
<1>3. ReportStands'
    BY ReporterAssumption DEF MetricsTypeOK, ReportStands, Quiet, Writing, Written, Filled,
                              Slots, Openers
<1>4. ReadingStands'
    BY ReporterAssumption DEF MetricsTypeOK, ReportStands, ReadingStands, Quiet, Filled,
                              Writing, Slots, Openers
<1> QED
    BY <1>1, <1>2, <1>3, <1>4

LEMMA SleepKeeps ==
    ASSUME IInv, sleep PROVE IInv'
<1> USE DEF IInv, sleep, use, memory, past
<1>1. MetricsTypeOK'
    BY ReporterAssumption DEF MetricsTypeOK, Slots, Openers, Readings
<1>2. OwnerStands'
    BY DEF MetricsTypeOK, OwnerStands, Openers
<1>3. ReportStands'
    BY ReporterAssumption DEF MetricsTypeOK, ReportStands, Quiet, Writing, Written, Filled,
                              Slots, Openers
<1>4. ReadingStands'
    BY ReporterAssumption DEF MetricsTypeOK, ReportStands, ReadingStands, Quiet, Filled,
                              Writing, Slots, Openers
<1> QED
    BY <1>1, <1>2, <1>3, <1>4

LEMMA ReopenKeeps ==
    ASSUME IInv, reopen PROVE IInv'
<1> USE DEF IInv, reopen, BeginWipe, use, memory, past
<1>1. MetricsTypeOK'
    <2>1. snapshot' \in [Slots -> Readings \cup {Missing}] /\ next' \in 1 .. NumSlots + 1
        BY ReporterAssumption DEF MetricsTypeOK, Nothing
    <2>2. clearing' \in [Openers -> SUBSET Words]
        BY DEF MetricsTypeOK, Openers
    <2> QED
        BY <2>1, <2>2, NoneYetType, ReporterAssumption DEF MetricsTypeOK
<1>2. OwnerStands'
    BY DEF MetricsTypeOK, OwnerStands, Openers
<1>3. ReportStands'
    BY ReporterAssumption DEF MetricsTypeOK, ReportStands, Quiet, Writing, Written, Filled,
                              Slots, Openers
<1>4. ReadingStands'
    BY ReporterAssumption DEF MetricsTypeOK, ReportStands, ReadingStands, Quiet, Filled,
                              Writing, Slots, Openers
<1> QED
    BY <1>1, <1>2, <1>3, <1>4

LEMMA ReopenedKeeps ==
    ASSUME IInv, reopened PROVE IInv'
<1> USE DEF IInv, reopened, use, memory, past
<1>1. MetricsTypeOK'
    BY ReporterAssumption DEF MetricsTypeOK, Slots, Openers, Readings
<1>2. OwnerStands'
    BY DEF MetricsTypeOK, OwnerStands, Openers
<1>3. ReportStands'
    BY ReporterAssumption DEF MetricsTypeOK, ReportStands, Quiet, Writing, Written, Filled,
                              Slots, Openers
<1>4. ReadingStands'
    BY ReporterAssumption DEF MetricsTypeOK, ReportStands, ReadingStands, Quiet, Filled,
                              Writing, Slots, Openers
<1> QED
    BY <1>1, <1>2, <1>3, <1>4

LEMMA GetMetricsKeeps ==
    ASSUME IInv, getMetrics PROVE IInv'
<1> USE DEF IInv, getMetrics, use, memory, past
<1>1. MetricsTypeOK'
    BY ReporterAssumption DEF MetricsTypeOK, Slots, Openers, Readings
<1>2. OwnerStands'
    BY DEF MetricsTypeOK, OwnerStands, Openers
<1>3. ReportStands'
    BY ReporterAssumption DEF MetricsTypeOK, ReportStands, Quiet, Writing, Written, Filled,
                              Slots, Openers
<1>4. ReadingStands'
    <2>1. floor' = whole /\ fresh' = recent /\ n' = metric_count /\ reader' = "key"
          /\ next' = next /\ recent' = recent /\ whole' = whole /\ next = 1
        BY DEF OwnerStands
    <2> QED
        BY <2>1, ReporterAssumption DEF ReportStands, ReadingStands, Slots
<1> QED
    BY <1>1, <1>2, <1>3, <1>4

LEMMA LoadKeyKeeps ==
    ASSUME IInv, loadKey PROVE IInv'
<1> USE DEF IInv, loadKey, use, memory, past
<1>1. MetricsTypeOK'
    BY ReporterAssumption DEF MetricsTypeOK, Slots, Openers, Readings
<1>2. OwnerStands'
    BY DEF MetricsTypeOK, OwnerStands, Openers
<1>3. ReportStands'
    BY ReporterAssumption DEF MetricsTypeOK, ReportStands, Quiet, Writing, Written, Filled,
                              Slots, Openers
<1>4. ReadingStands'
    BY ReporterAssumption DEF MetricsTypeOK, ReportStands, ReadingStands, Quiet, Filled,
                              Writing, Slots, Openers
<1> QED
    BY <1>1, <1>2, <1>3, <1>4

LEMMA LoadValueKeeps ==
    ASSUME IInv, loadValue PROVE IInv'
<1> USE DEF IInv, loadValue, use, memory, past
<1>1. MetricsTypeOK'
    BY ReporterAssumption DEF MetricsTypeOK, Slots, Openers, Readings
<1>2. OwnerStands'
    BY DEF MetricsTypeOK, OwnerStands, Openers
<1>3. ReportStands'
    BY ReporterAssumption DEF MetricsTypeOK, ReportStands, Quiet, Writing, Written, Filled,
                              Slots, Openers
<1>4. ReadingStands'
    BY ReporterAssumption DEF MetricsTypeOK, ReportStands, ReadingStands, Quiet, Filled,
                              Writing, Slots, Openers
<1> QED
    BY <1>1, <1>2, <1>3, <1>4

LEMMA ReturnKeeps ==
    ASSUME IInv, returnMetrics PROVE IInv'
<1> USE DEF IInv, returnMetrics, Complete, use, memory, past
<1>1. MetricsTypeOK'
    <2>1. snapshot' \in [Slots -> Readings \cup {Missing}] /\ next' \in 1 .. NumSlots + 1
        BY ReporterAssumption DEF MetricsTypeOK, Nothing
    <2> QED
        BY <2>1, NoneYetType DEF MetricsTypeOK
<1>2. OwnerStands'
    BY DEF MetricsTypeOK, OwnerStands, Openers
<1>3. ReportStands'
    BY ReporterAssumption DEF MetricsTypeOK, ReportStands, Quiet, Writing, Written, Filled,
                              Slots, Openers
<1>4. ReadingStands'
    BY ReporterAssumption DEF MetricsTypeOK, ReportStands, ReadingStands, Quiet, Filled,
                              Writing, Slots, Openers
<1> QED
    BY <1>1, <1>2, <1>3, <1>4

LEMMA UseKeeps ==
    ASSUME IInv, useChanges PROVE IInv'
<1> USE DEF IInv, useChanges, use, memory, past
<1>1. MetricsTypeOK'
    <2>1. ru_maxrss' \in Levels /\ span' \subseteq Levels
        BY DEF MetricsTypeOK
    <2> QED
        BY <2>1 DEF MetricsTypeOK
<1>2. OwnerStands'
    BY DEF MetricsTypeOK, OwnerStands, Openers
<1>3. ReportStands'
    BY ReporterAssumption DEF MetricsTypeOK, ReportStands, Quiet, Writing, Written, Filled,
                              Slots, Openers
<1>4. ReadingStands'
    BY ReporterAssumption DEF MetricsTypeOK, ReportStands, ReadingStands, Quiet, Filled,
                              Writing, Slots, Openers
<1> QED
    BY <1>1, <1>2, <1>3, <1>4

LEMMA RestKeeps ==
    ASSUME IInv, UNCHANGED metricsVars PROVE IInv'
<1> USE DEF IInv, metricsVars, use, memory, past
<1>1. MetricsTypeOK'
    BY ReporterAssumption DEF MetricsTypeOK, Slots, Openers, Readings
<1>2. OwnerStands'
    BY DEF MetricsTypeOK, OwnerStands, Openers
<1>3. ReportStands'
    BY ReporterAssumption DEF MetricsTypeOK, ReportStands, Quiet, Writing, Written, Filled,
                              Slots, Openers
<1>4. ReadingStands'
    BY ReporterAssumption DEF MetricsTypeOK, ReportStands, ReadingStands, Quiet, Filled,
                              Writing, Slots, Openers
<1> QED
    BY <1>1, <1>2, <1>3, <1>4

LEMMA StepKeeps ==
    ASSUME IInv, [MetricsNext]_metricsVars PROVE IInv'
<1>1. CASE Owner
    BY <1>1, StartKeeps, StartThreadKeeps, StopKeeps, StopJoinKeeps, DieKeeps, LaunchKeeps,
       OpenedKeeps, WipeKeeps DEF Owner, Openers
<1>2. CASE Worker
    BY <1>2, TestKeeps, CollectKeeps, StoreKeyKeeps, StoreValueKeeps, StoreCountKeeps, SleepKeeps
       DEF Worker
<1>3. CASE Reader
    BY <1>3, GetMetricsKeeps, LoadKeyKeeps, LoadValueKeeps, ReturnKeeps DEF Reader
<1>4. CASE Reopening \/ reopen
    BY <1>4, ReopenKeeps, ReopenedKeeps, WipeKeeps DEF Reopening, Openers
<1>5. CASE useChanges \/ UNCHANGED metricsVars
    BY <1>5, UseKeeps, RestKeeps
<1> QED
    BY <1>1, <1>2, <1>3, <1>4, <1>5 DEF MetricsNext

LEMMA Invariance == MetricsSpec => []IInv
BY InitIsGood, StepKeeps, PTL DEF MetricsSpec

-----------------------------------------------------------------------------
(* Theorems *)

(***************************************************************************)
(* Every variable keeps its type: in particular the reader never goes      *)
(* beyond the slots that are counted (getMetrics).                         *)
(***************************************************************************)
THEOREM MetricsTypesHold == MetricsSpec => []MetricsTypeOK
<1>1. IInv => MetricsTypeOK
    BY DEF IInv
<1> QED
    BY <1>1, Invariance, PTL

(***************************************************************************)
(* After stop() no thread is left, after start() there is one (start and   *)
(* stop).                                                                  *)
(***************************************************************************)
THEOREM StoppedStaysQuiet == MetricsSpec => []StoppedIsQuiet
<1>1. IInv => StoppedIsQuiet
    BY DEF IInv, OwnerStands, StoppedIsQuiet
<1> QED
    BY <1>1, Invariance, PTL

(***************************************************************************)
(* Snapshots are whole and recent unless the channel was opened meanwhile, *)
(* for any number of slots and any interleaving of the loads and stores    *)
(* (reportMetrics and getMetrics).                                         *)
(***************************************************************************)
THEOREM SnapshotsAreRecent == MetricsSpec => []SnapshotIsRecent
<1>1. IInv => SnapshotIsRecent
    BY ReporterAssumption DEF IInv, MetricsTypeOK, ReadingStands, SnapshotIsRecent, Complete,
                              Slots
<1> QED
    BY <1>1, Invariance, PTL

-----------------------------------------------------------------------------
(* A level that stays is seen *)

\* A report and a reading, place by place.
Works(w)     == worker = w
Writes(w, i) == worker = w /\ at = i
Reads(r, i)  == reader = r /\ next = i

Started == owner = "idle"
Idle    == reader = "idle"

\* The thread goes round its loop: it makes report after report.
Turns ==
    /\ \/ Works("test") \/ Works("collect") \/ Works("count") \/ Works("sleep")
       \/ Writes("key", 1) \/ Writes("value", 1) \/ Writes("key", 2) \/ Writes("value", 2)
       \/ Writes("key", 3) \/ Writes("value", 3)
    /\ <<Worker>>_metricsVars =>
          /\ Works("test") => Works("collect")'
          /\ Works("collect") => Writes("key", 1)' /\ collect
          /\ Writes("key", 1) => Writes("value", 1)'
          /\ Writes("value", 1) => Writes("key", 2)' \/ Works("count")'
          /\ Writes("key", 2) => Writes("value", 2)'
          /\ Writes("value", 2) => Writes("key", 3)' \/ Works("count")'
          /\ Writes("key", 3) => Writes("value", 3)'
          /\ Writes("value", 3) => Works("count")'
          /\ Works("count") => Works("sleep")' /\ storeCount
          /\ Works("sleep") => Works("test")'
    /\ ~<<Worker>>_metricsVars =>
          /\ Works("test") => Works("test")'
          /\ Works("collect") => Works("collect")'
          /\ Writes("key", 1) => Writes("key", 1)'
          /\ Writes("value", 1) => Writes("value", 1)'
          /\ Writes("key", 2) => Writes("key", 2)'
          /\ Writes("value", 2) => Writes("value", 2)'
          /\ Writes("key", 3) => Writes("key", 3)'
          /\ Writes("value", 3) => Writes("value", 3)'
          /\ Works("count") => Works("count")'
          /\ Works("sleep") => Works("sleep")'

\* getMetrics() ends, and is called again.
Passes ==
    /\ \/ Idle \/ Reads("key", 1) \/ Reads("key", 2) \/ Reads("key", 3) \/ Reads("key", 4)
       \/ Reads("value", 1) \/ Reads("value", 2) \/ Reads("value", 3)
    /\ Reader =>
          /\ Reads("key", 1) => Reads("value", 1)' \/ Reads("key", 2)' \/ Idle'
          /\ Reads("value", 1) => Reads("key", 2)'
          /\ Reads("key", 2) => Reads("value", 2)' \/ Reads("key", 3)' \/ Idle'
          /\ Reads("value", 2) => Reads("key", 3)'
          /\ Reads("key", 3) => Reads("value", 3)' \/ Reads("key", 4)' \/ Idle'
          /\ Reads("value", 3) => Reads("key", 4)'
          /\ Reads("key", 4) => Idle'
    /\ ~Reader =>
          /\ Reads("key", 1) => Reads("key", 1)'
          /\ Reads("value", 1) => Reads("value", 1)'
          /\ Reads("key", 2) => Reads("key", 2)'
          /\ Reads("value", 2) => Reads("value", 2)'
          /\ Reads("key", 3) => Reads("key", 3)'
          /\ Reads("value", 3) => Reads("value", 3)'
          /\ Reads("key", 4) => Reads("key", 4)'


\* While the reporter runs and nobody opens the memory, the owner does nothing
\* but make the thread that start() owes.
LEMMA OwnerSettles ==
    ASSUME IInv, [MetricsNext]_metricsVars, NEW l \in Levels, Steady(l), Steady(l)'
    PROVE  /\ Quiet
           /\ Started \/ owner = "starting"
           /\ Started => worker \notin {"none", "done"}
           /\ Started => Started'
           /\ Finishing => Started'
           /\ Owner => ~Started /\ startThread
           /\ ~reopen /\ ~Reopening
<1>1. Quiet
    BY DEF IInv, OwnerStands, Steady, Quiet, Openers
<1>2. /\ Started \/ owner = "starting"
      /\ Started => worker \notin {"none", "done"}
    BY DEF IInv, OwnerStands, MetricsTypeOK, Steady, Started
<1>3. \A side \in Openers : ~wipeSlot(side)
    BY <1>1 DEF wipeSlot, Quiet
<1>4. ~reopen /\ ~Reopening
    BY <1>3 DEF reopen, Reopening, reopened, Steady, Openers
<1>5. ~startReporter /\ ~stopReporter /\ ~die /\ ~stopJoin /\ ~launch /\ ~opened
    BY <1>2 DEF startReporter, stopReporter, die, stopJoin, launch, opened, Steady, Started
<1>6. Owner => ~Started /\ startThread
    BY <1>3, <1>5 DEF Owner, Openers, startThread, Started
<1>7. Finishing => Started'
    BY <1>3, <1>5 DEF Finishing, Openers, startThread, Started
<1>8. ASSUME Started PROVE Started'
    <2>1. CASE Worker
        BY <1>8, <2>1 DEF Started, Worker, testRunning, collect, storeKey, storeValue, storeCount,
           sleep
    <2>2. CASE Reader
        BY <1>8, <2>2 DEF Started, Reader, getMetrics, loadKey, loadValue, returnMetrics
    <2>3. CASE useChanges \/ UNCHANGED metricsVars
        BY <1>8, <2>3 DEF Started, useChanges, metricsVars
    <2> QED
        BY <1>4, <1>6, <1>8, <2>1, <2>2, <2>3 DEF MetricsNext
<1> QED
    BY <1>1, <1>2, <1>4, <1>6, <1>7, <1>8

LEMMA ReportTurns ==
    ASSUME NumSlots <= 3, IInv, [MetricsNext]_metricsVars, NEW l \in Levels, Steady(l), Steady(l)',
           Started
    PROVE  Turns
<1> USE DEF Works, Writes
<1>1. at \in 1 .. NumSlots /\ NumSlots \in 1 .. 3
    BY ReporterAssumption DEF IInv, MetricsTypeOK, Slots
<1>2. worker \in {"test", "collect", "key", "value", "count", "sleep"}
    BY OwnerSettles DEF IInv, MetricsTypeOK
<1>3. ~<<Worker>>_metricsVars => worker' = worker /\ at' = at
    <2>1. ~Owner /\ ~reopen /\ ~Reopening
        BY OwnerSettles
    <2>2. Reader => worker' = worker /\ at' = at
        BY DEF Reader, getMetrics, loadKey, loadValue, returnMetrics
    <2>3. useChanges \/ UNCHANGED metricsVars => worker' = worker /\ at' = at
        BY DEF useChanges, metricsVars
    <2> QED
        BY <2>1, <2>2, <2>3 DEF MetricsNext
<1>4. ASSUME Worker
      PROVE  /\ worker = "test" => worker' = "collect"
             /\ worker = "collect" => worker' = "key" /\ at' = 1 /\ collect
             /\ worker = "key" => worker' = "value" /\ at' = at
             /\ worker = "value" => \/ worker' = "count"
                                    \/ worker' = "key" /\ at' = at + 1 /\ at < NumSlots
             /\ worker = "count" => worker' = "sleep" /\ storeCount
             /\ worker = "sleep" => worker' = "test"
    BY <1>4 DEF Worker, testRunning, collect, storeKey, storeValue, storeCount, sleep, Steady
<1>5. /\ \/ Works("test") \/ Works("collect") \/ Works("count") \/ Works("sleep")
         \/ Writes("key", 1) \/ Writes("value", 1) \/ Writes("key", 2) \/ Writes("value", 2)
         \/ Writes("key", 3) \/ Writes("value", 3)
    BY <1>1, <1>2
<1>6. CASE <<Worker>>_metricsVars
    BY <1>1, <1>4, <1>5, <1>6 DEF Turns
<1>7. CASE ~<<Worker>>_metricsVars
    BY <1>3, <1>5, <1>7 DEF Turns
<1> QED
    BY <1>6, <1>7

LEMMA ReadingPasses ==
    ASSUME NumSlots <= 3, IInv, [MetricsNext]_metricsVars, NEW l \in Levels, Steady(l), Steady(l)'
    PROVE  Passes
<1> USE DEF Reads, Idle
<1>1. /\ NumSlots \in 1 .. 3 /\ n \in {0, NumSlots} /\ next \in 1 .. NumSlots + 1
      /\ reader = "value" => next <= n
    BY ReporterAssumption DEF IInv, MetricsTypeOK
<1>2. reader \in {"idle", "key", "value"}
    BY DEF IInv, MetricsTypeOK, Steady
<1>3. ~Reader => reader' = reader /\ next' = next
    <2>1. Owner => reader' = reader /\ next' = next
        BY OwnerSettles DEF startThread
    <2>2. Worker => reader' = reader /\ next' = next
        BY DEF Worker, testRunning, collect, storeKey, storeValue, storeCount, sleep
    <2>3. useChanges \/ UNCHANGED metricsVars => reader' = reader /\ next' = next
        BY DEF useChanges, metricsVars
    <2> QED
        BY <2>1, <2>2, <2>3, OwnerSettles DEF MetricsNext
<1>4. ASSUME Reader
      PROVE  /\ reader = "key" => \/ next <= n /\ reader' = "value" /\ next' = next
                                  \/ next <= n /\ reader' = "key" /\ next' = next + 1
                                  \/ reader' = "idle"
             /\ reader = "value" => reader' = "key" /\ next' = next + 1
    BY <1>4 DEF Reader, getMetrics, loadKey, loadValue, returnMetrics, Complete
<1>5. \/ Idle \/ Reads("key", 1) \/ Reads("key", 2) \/ Reads("key", 3) \/ Reads("key", 4)
      \/ Reads("value", 1) \/ Reads("value", 2) \/ Reads("value", 3)
    BY <1>1, <1>2
<1>6. CASE Reader
    BY <1>1, <1>4, <1>5, <1>6 DEF Passes
<1>7. CASE ~Reader
    BY <1>3, <1>5, <1>7 DEF Passes
<1> QED
    BY <1>6, <1>7

Spanned(l)  == span = {l}
Sampled(l)  == sample \in {Nothing, Seen(l)}
Recently(l) == \A i \in Slots : recent[i] \subseteq {Seen(l)[i]}

\* The reading under way, if any, began after a report of l alone.
Reading(l)  == Idle \/ (floor /\ \A i \in Slots : fresh[i] \subseteq {Seen(l)[i]})

\* The peak is not below what is used.
PeakStands == level <= ru_maxrss

LEMMA PeakInvariance == MetricsSpec => []PeakStands
<1>1. MetricsInit => PeakStands
    BY ReporterAssumption DEF MetricsInit, PeakStands
<1>2. MetricsTypeOK /\ MetricsTypeOK' /\ PeakStands /\ [MetricsNext]_metricsVars => PeakStands'
    <2> SUFFICES ASSUME MetricsTypeOK, MetricsTypeOK', PeakStands, [MetricsNext]_metricsVars
                 PROVE  PeakStands'
        OBVIOUS
    <2> USE DEF PeakStands
    <2>1. CASE useChanges
        BY <2>1, ReporterAssumption DEF useChanges, MetricsTypeOK
    <2>2. CASE launch
        BY <2>2, ReporterAssumption DEF launch, MetricsTypeOK
    <2>3. CASE UNCHANGED <<level, ru_maxrss>>
        BY <2>3
    <2>4. Worker => UNCHANGED <<level, ru_maxrss>>
        BY DEF Worker, testRunning, collect, storeKey, storeValue, storeCount, sleep, use
    <2>5. Reader => UNCHANGED <<level, ru_maxrss>>
        BY DEF Reader, getMetrics, loadKey, loadValue, returnMetrics, use
    <2>6. Reopening \/ reopen => UNCHANGED <<level, ru_maxrss>>
        BY DEF Reopening, reopen, reopened, wipeSlot, use
    <2>7. Owner => launch \/ UNCHANGED <<level, ru_maxrss>>
        BY DEF Owner, startReporter, startThread, stopReporter, stopJoin, die, opened, wipeSlot, use
    <2> QED
        BY <2>1, <2>2, <2>3, <2>4, <2>5, <2>6, <2>7 DEF MetricsNext, metricsVars, use
<1> QED
    BY <1>1, <1>2, MetricsTypesHold, PTL DEF MetricsSpec

\* While the level stays, so does what is seen of it, and a reading is of it
\* alone once the former one was taken at that level.
LEMMA SampleSettles ==
    ASSUME IInv, PeakStands, [MetricsNext]_metricsVars, NEW l \in Levels, Steady(l), Steady(l)'
    PROVE  /\ Seen(l)' = Seen(l)
           /\ Spanned(l) => Spanned(l)'
           /\ collect => Spanned(l)'
           /\ collect /\ Spanned(l) => sample' = Seen(l)
<1>1. ASSUME collect
      PROVE  /\ ru_maxrss' = ru_maxrss /\ Spanned(l)'
             /\ Spanned(l) => sample' = Seen(l)
    <2>1. ru_maxrss' = ru_maxrss /\ Spanned(l)'
        BY <1>1 DEF collect, Spanned, Steady
    <2>2. ASSUME Spanned(l) PROVE readSelfCpuUsage = {l}
        <3>1. \A m \in Levels : m <= l /\ l <= m <=> m = l
            BY ReporterAssumption
        <3>2. readSelfCpuUsage = {m \in Levels : l <= m /\ m <= l}
            BY <2>2 DEF Spanned, readSelfCpuUsage
        <3> QED
            BY <3>1, <3>2
    <2>3. ASSUME Spanned(l) PROVE sample' = Seen(l)
        <3>1. readSelfMemoryBytes = ru_maxrss
              /\ readSelfOpenFdCount = IF l \in Exhausted THEN Zero ELSE l
            BY DEF readSelfMemoryBytes, readSelfOpenFdCount, Steady
        <3> QED
            BY <1>1, <2>2, <2>3, <3>1, ReporterAssumption DEF collect, collectAndReport, Seen
    <2> QED
        BY <2>1, <2>3
<1>2. ASSUME useChanges PROVE UNCHANGED ru_maxrss /\ (Spanned(l) => Spanned(l)')
    BY <1>2, ReporterAssumption DEF useChanges, IInv, MetricsTypeOK, PeakStands, Spanned, Steady
<1>3. ASSUME ~collect, ~useChanges PROVE UNCHANGED <<ru_maxrss, span>>
    <2>1. Worker => UNCHANGED <<ru_maxrss, span>>
        BY <1>3 DEF Worker, testRunning, storeKey, storeValue, storeCount, sleep, use
    <2>2. Reader => UNCHANGED <<ru_maxrss, span>>
        BY DEF Reader, getMetrics, loadKey, loadValue, returnMetrics, use
    <2>3. Owner => UNCHANGED <<ru_maxrss, span>>
        BY OwnerSettles DEF startThread, use
    <2> QED
        BY <1>3, <2>1, <2>2, <2>3, OwnerSettles DEF MetricsNext, metricsVars, use
<1>4. ru_maxrss' = ru_maxrss
    BY <1>1, <1>2, <1>3
<1>5. Seen(l)' = Seen(l)
    BY <1>4 DEF Seen
<1> QED
    BY <1>1, <1>2, <1>3, <1>5 DEF Spanned

\* What has settled on the level stays there, and each report and each reading
\* brings the next thing there.
LEMMA LevelSettles ==
    ASSUME IInv, PeakStands, [MetricsNext]_metricsVars, NEW l \in Levels, Steady(l), Steady(l)'
    PROVE  /\ clean => clean'
           /\ collect => clean'
           /\ Spanned(l) /\ Sampled(l) => Sampled(l)'
           /\ Spanned(l) /\ collect => Sampled(l)'
           /\ whole => whole'
           /\ clean /\ Sampled(l) /\ storeCount => whole' /\ Recently(l)'
           /\ whole /\ Spanned(l) /\ Sampled(l) /\ Recently(l) => Recently(l)'
           /\ whole /\ Spanned(l) /\ Recently(l) /\ Reading(l) => Reading(l)'
<1> DEFINE Settled == UNCHANGED <<clean, whole, sample, recent>>
<1>1. ASSUME ~Worker PROVE Settled
    <2>1. CASE Owner
        BY <2>1, OwnerSettles DEF startThread, past
    <2>2. CASE Reader
        BY <2>2 DEF Reader, getMetrics, loadKey, loadValue, returnMetrics, past
    <2>3. CASE useChanges \/ UNCHANGED metricsVars
        BY <2>3 DEF useChanges, metricsVars, past
    <2> QED
        BY <1>1, <2>1, <2>2, <2>3, OwnerSettles DEF MetricsNext
<1>2. ASSUME Worker, ~collect, ~storeCount PROVE Settled
    BY <1>2 DEF Worker, testRunning, storeKey, storeValue, sleep, past
<1>3. ASSUME collect
      PROVE  /\ ~storeCount /\ clean' /\ whole' = whole
             /\ Spanned(l) => sample' = Seen(l)
             /\ recent' = IF whole THEN [i \in Slots |-> recent[i] \cup {sample'[i]}] ELSE NoneYet
             /\ fresh' = IF floor THEN [i \in Slots |-> fresh[i] \cup {sample'[i]}] ELSE NoneYet
             /\ reader' = reader /\ floor' = floor
    BY <1>3, OwnerSettles, SampleSettles DEF collect, Remember, storeCount, Quiet
<1>4. ASSUME storeCount
      PROVE  /\ ~collect /\ clean' = clean /\ whole' = clean /\ sample' = Nothing
             /\ recent' = (IF clean THEN [i \in Slots |-> {sample[i]}] ELSE NoneYet)
             /\ sample # Nothing
    BY <1>4 DEF storeCount, collect, IInv, MetricsTypeOK
<1>5. whole => clean
    BY DEF IInv, ReportStands
<1>6. Seen(l)' = Seen(l)
    BY SampleSettles
<1>7. /\ clean => clean'
      /\ collect => clean'
      /\ Spanned(l) /\ Sampled(l) => Sampled(l)'
      /\ Spanned(l) /\ collect => Sampled(l)'
      /\ whole => whole'
      /\ clean /\ Sampled(l) /\ storeCount => whole' /\ Recently(l)'
      /\ whole /\ Spanned(l) /\ Sampled(l) /\ Recently(l) => Recently(l)'
    <2> USE DEF Sampled, Recently
    <2>1. CASE collect
        BY <1>3, <1>6, <2>1
    <2>2. CASE storeCount
        BY <1>4, <1>5, <1>6, <2>2
    <2>3. CASE ~collect /\ ~storeCount
        BY <1>1, <1>2, <1>6, <2>3
    <2> QED
        BY <2>1, <2>2, <2>3
<1>8. ASSUME whole, Spanned(l), Recently(l), Reading(l) PROVE Reading(l)'
    <2> USE DEF Reading, Idle
    <2>1. CASE collect
        <3>1. floor => \A i \in Slots : fresh'[i] = fresh[i] \cup {Seen(l)[i]}
            BY <1>3, <1>8, <2>1
        <3> QED
            BY <1>3, <1>6, <1>8, <2>1, <3>1
    <2>2. CASE Worker /\ ~collect
        <3>1. reader' = reader /\ floor' = floor /\ fresh' = fresh
            BY <2>2 DEF Worker, testRunning, storeKey, storeValue, storeCount, sleep, past
        <3> QED
            BY <1>6, <1>8, <3>1
    <2>3. CASE Reader
        <3>1. \/ reader' = reader /\ floor' = floor /\ fresh' = fresh
              \/ reader # "idle" /\ floor' = floor /\ fresh' = fresh
              \/ floor' = whole /\ fresh' = recent
              \/ reader' = "idle"
            BY <2>3 DEF Reader, getMetrics, loadKey, loadValue, returnMetrics, past
        <3> QED
            BY <1>6, <1>8, <3>1 DEF Recently
    <2>4. CASE Owner
        BY <1>6, <1>8, <2>4, OwnerSettles DEF startThread, past
    <2>5. CASE useChanges \/ UNCHANGED metricsVars
        BY <1>6, <1>8, <2>5 DEF useChanges, metricsVars, past
    <2> QED
        BY <2>1, <2>2, <2>3, <2>4, <2>5, OwnerSettles DEF MetricsNext
<1> QED
    BY <1>7, <1>8

(***************************************************************************)
(* What is used for good is seen for good, for up to three metrics, which  *)
(* is what the reporter has (collectAndReport: cpu, memory_bytes,          *)
(* fd_count), and however the loads and stores of the two threads          *)
(* interleave: the second sample at that level is of it alone, but for the *)
(* memory, whose peak no longer moves; a report of it after the last       *)
(* opening is whole, and so is what a reading after that returns.          *)
(***************************************************************************)
THEOREM LevelsAreSeen ==
    ASSUME NumSlots <= 3
    PROVE  MetricsFairSpec /\ []ReportingNeverWaits => LevelIsSeen
<1>1. ASSUME NEW l \in Levels
      PROVE  MetricsFairSpec /\ []ReportingNeverWaits /\ <>[]Steady(l)
                => <>[](Complete => snapshot = Seen(l))
    <2> DEFINE Base    == []IInv /\ []PeakStands /\ [][MetricsNext]_metricsVars /\ <>[]Steady(l)
               Loops   == /\ []<><<collect>>_metricsVars /\ []<><<storeCount>>_metricsVars
                          /\ []<>Idle
               Premise == /\ Base /\ []ReportingNeverWaits
                          /\ WF_metricsVars(Worker) /\ WF_metricsVars(Reader)
                          /\ WF_metricsVars(Finishing)
    <2>1. MetricsFairSpec /\ []ReportingNeverWaits /\ <>[]Steady(l) => Premise
        BY Invariance, PeakInvariance, PTL DEF MetricsFairSpec, MetricsSpec
    <2>2. IInv /\ [MetricsNext]_metricsVars /\ Steady(l) /\ Steady(l)' =>
              /\ Started \/ owner = "starting"
              /\ Started => worker \notin {"none", "done"}
              /\ Started => Started'
              /\ Finishing => Started'
              /\ Passes
              /\ Started => Turns
        BY OwnerSettles, ReportTurns, ReadingPasses
    <2>3. ReportingNeverWaits =>
              /\ worker \notin {"none", "done"} => ENABLED <<Worker>>_metricsVars
              /\ owner = "starting" => ENABLED <<Finishing>>_metricsVars
              /\ reader # "opening" => ENABLED <<Reader>>_metricsVars
        BY DEF ReportingNeverWaits
    <2>4. Steady(l) => reader # "opening"
        BY DEF Steady
    <2>5. IInv /\ PeakStands /\ [MetricsNext]_metricsVars /\ Steady(l) /\ Steady(l)' =>
              /\ Spanned(l) => Spanned(l)'
              /\ collect => Spanned(l)'
              /\ clean => clean'
              /\ collect => clean'
              /\ Spanned(l) /\ Sampled(l) => Sampled(l)'
              /\ Spanned(l) /\ collect => Sampled(l)'
              /\ whole => whole'
              /\ clean /\ Sampled(l) /\ storeCount => whole' /\ Recently(l)'
              /\ whole /\ Spanned(l) /\ Sampled(l) /\ Recently(l) => Recently(l)'
              /\ whole /\ Spanned(l) /\ Recently(l) /\ Reading(l) => Reading(l)'
        BY SampleSettles, LevelSettles
    <2> HIDE DEF Base, Loops, Premise
    <2>6. Premise => <>[]Started
        BY <2>2, <2>3, PTL DEF Premise, Base
    <2>7. Premise => []<><<Worker>>_metricsVars /\ []<><<Reader>>_metricsVars
        BY <2>2, <2>3, <2>4, <2>6, PTL DEF Premise, Base
    <2>8. Base /\ <>[]Started /\ []<><<Worker>>_metricsVars
             => []<><<collect>>_metricsVars /\ []<><<storeCount>>_metricsVars
        BY <2>2, PTL DEF Base, Turns
    <2>9. Base /\ []<><<Reader>>_metricsVars => []<>Idle
        BY <2>2, PTL DEF Base, Passes
    <2>10. Premise => Base /\ Loops
        BY <2>6, <2>7, <2>8, <2>9, PTL DEF Premise, Loops
    <2>11. Base /\ Loops => <>[](clean /\ Spanned(l))
        BY <2>5, PTL DEF Base, Loops
    <2>12. Base /\ Loops => <>[](clean /\ Spanned(l) /\ Sampled(l))
        BY <2>5, <2>11, PTL DEF Base, Loops
    <2>13. Base /\ Loops => <>[](whole /\ Spanned(l) /\ Recently(l))
        BY <2>5, <2>12, PTL DEF Base, Loops
    <2>14. Base /\ Loops => <>[]Reading(l)
        <3>1. Idle => Reading(l)
            BY DEF Reading
        <3> QED
            BY <2>5, <2>13, <3>1, PTL DEF Base, Loops
    <2>15. IInv /\ Reading(l) => (Complete => snapshot = Seen(l))
        <3> SUFFICES ASSUME IInv, Reading(l), Complete PROVE snapshot = Seen(l)
            OBVIOUS
        <3>1. \A i \in Slots : snapshot[i] = Seen(l)[i]
            BY ReporterAssumption DEF IInv, MetricsTypeOK, ReadingStands, Reading, Idle, Complete,
                                      Slots
        <3> QED
            BY <3>1 DEF IInv, MetricsTypeOK, Seen
    <2> QED
        BY <2>1, <2>10, <2>14, <2>15, PTL DEF Base
<1> QED
    BY <1>1 DEF LevelIsSeen

=============================================================================
