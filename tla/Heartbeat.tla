------------------------------ MODULE Heartbeat ------------------------------
(***************************************************************************)
(* The heartbeat of a supervised process: the shared memory of             *)
(* src/src/health_channel.cpp, the client that reports into it, and the    *)
(* AliveMonitor (src/src/monitors/alive_monitor.cpp) that reads it in the  *)
(* daemon.  No lock protects the memory, so that every load and store of   *)
(* one of its words is a step, and both sides may die at any step.  The    *)
(* monitor reads the channel that setHealthChannel() has given it, which   *)
(* nothing in src/ calls: until somebody does, check() finds nothing.      *)
(*                                                                         *)
(* Time is discrete.  A time stamp is kept as its age, which says nothing  *)
(* new once it has reached Timeout; a stamp of 0 is as old as the machine, *)
(* which has been up for longer than Timeout.                              *)
(***************************************************************************)
EXTENDS PhmTypes

CONSTANTS
    Timeout,   \* alive_timeout, in units of time
    MaxBeats   \* bound: the reports of one life of the client

ASSUME HeartbeatAssumption == Timeout \in Nat \ {0} /\ MaxBeats \in Nat

Ages  == 0 .. Timeout
Stale == Timeout
Older(age) == IF age < Timeout THEN age + 1 ELSE Timeout

VARIABLES
    alive_counter,    \* HealthChannelData::alive_counter
    last_update,      \* age of HealthChannelData::last_update_ms
    wiping,           \* what each side's constructor has still to set to zero
    client,           \* "down", or what the client is about to do
    beats,            \* the counter the client keeps
    stamp,            \* age of the time its report() has read
    daemon,           \* "down", or what the daemon is about to do
    health_channel_,  \* is AliveMonitor::health_channel_ set?
    state_,           \* AliveMonitor::state_
    last_counter_, first_check_,
    current, seen,    \* what the running check() has loaded: counter, age
    event             \* does the last finished check() return a WARNING?

\* History, read by no action of the code.
VARIABLES
    begun,            \* age of the last time read by a report()
    done,             \* age of the last report() that is complete and not wiped
    stored,           \* was the counter stored since check() loaded it?
    wiped,            \* was it set to zero since then?
    beaten,           \* stored, when the running check() loaded the counter
    disturbed,        \* wiped, at that time
    seenDone          \* done, when the running check() loaded the time stamp

shm     == <<alive_counter, last_update>>
caller  == <<client, beats, stamp>>
monitor == <<daemon, health_channel_, state_, last_counter_, first_check_, current, seen, event>>
history == <<begun, done, stored, wiped, beaten, disturbed, seenDone>>
vars    == <<shm, wiping, caller, monitor, history>>

Sides == {"client", "daemon"}

Init ==
    /\ alive_counter = 0 /\ last_update = Stale
    /\ wiping = [s \in Sides |-> {}]
    /\ client = "down" /\ beats = 0 /\ stamp = Stale
    /\ daemon = "down" /\ health_channel_ = FALSE /\ state_ = INIT
    /\ last_counter_ = 0 /\ first_check_ = TRUE
    /\ current = 0 /\ seen = Stale /\ event = FALSE
    /\ begun = Stale /\ done = Stale
    /\ stored = FALSE /\ wiped = FALSE /\ beaten = FALSE /\ disturbed = FALSE
    /\ seenDone = Stale

Tick ==
    /\ last_update' = Older(last_update)
    /\ stamp' = Older(stamp)
    /\ seen' = Older(seen)
    /\ begun' = Older(begun)
    /\ done' = Older(done)
    /\ seenDone' = Older(seenDone)
    /\ UNCHANGED <<alive_counter, wiping, client, beats, daemon, health_channel_, state_,
                   last_counter_, first_check_, current, event, stored, wiped, beaten, disturbed>>

-----------------------------------------------------------------------------
(***************************************************************************)
(* The constructor of either side opens the memory and sets it to zero,    *)
(* the words in no order the language promises.                            *)
(***************************************************************************)
open(side) == wiping' = [wiping EXCEPT ![side] = {"alive_counter", "last_update_ms"}]

wipe(side, word) ==
    /\ word \in wiping[side]
    /\ wiping' = [wiping EXCEPT ![side] = @ \ {word}]
    /\ IF word = "alive_counter"
       THEN alive_counter' = 0 /\ wiped' = TRUE /\ UNCHANGED <<last_update, done>>
       ELSE last_update' = Stale /\ done' = Stale /\ UNCHANGED <<alive_counter, wiped>>
    /\ UNCHANGED <<caller, monitor, begun, stored, beaten, disturbed, seenDone>>

-----------------------------------------------------------------------------
(* The client *)

openClient ==
    /\ client = "down"
    /\ open("client")
    /\ client' = "idle"
    /\ beats' = 0
    /\ UNCHANGED <<shm, stamp, monitor, history>>

\* report(++counter): reads the clock first, then stores counter and time.
reportBegin ==
    /\ client = "idle" /\ wiping["client"] = {}
    /\ beats < MaxBeats
    /\ beats' = beats + 1
    /\ stamp' = 0
    /\ begun' = 0
    /\ client' = "store_counter"
    /\ UNCHANGED <<shm, wiping, monitor, done, stored, wiped, beaten, disturbed, seenDone>>

reportCounter ==
    /\ client = "store_counter"
    /\ alive_counter' = beats
    /\ stored' = TRUE
    /\ client' = "store_time"
    /\ UNCHANGED <<last_update, wiping, beats, stamp, monitor, begun, done, wiped,
                   beaten, disturbed, seenDone>>

\* Mutant: the clock is read when the time is stored.
ReportTimeLate ==
    /\ client = "store_time"
    /\ last_update' = 0
    /\ done' = stamp
    /\ client' = "idle"
    /\ UNCHANGED <<alive_counter, wiping, beats, stamp, monitor, begun, stored, wiped,
                   beaten, disturbed, seenDone>>

reportTime ==
    /\ client = "store_time"
    /\ last_update' = stamp
    /\ done' = stamp
    /\ client' = "idle"
    /\ UNCHANGED <<alive_counter, wiping, beats, stamp, monitor, begun, stored, wiped,
                   beaten, disturbed, seenDone>>

clientDies ==
    /\ client # "down"
    /\ client' = "down"
    /\ wiping' = [wiping EXCEPT !["client"] = {}]
    /\ UNCHANGED <<shm, beats, stamp, monitor, history>>

-----------------------------------------------------------------------------
(* The daemon's side *)

\* The entity's constructor opens the channel; its monitor is not started yet.
openDaemon ==
    /\ daemon = "down"
    /\ open("daemon")
    /\ daemon' = "idle" /\ health_channel_' = FALSE
    /\ state_' = INIT /\ last_counter_' = 0 /\ first_check_' = TRUE /\ event' = FALSE
    /\ UNCHANGED <<shm, caller, current, seen, history>>

daemonDies ==
    /\ daemon # "down"
    /\ daemon' = "down"
    /\ wiping' = [wiping EXCEPT !["daemon"] = {}]
    /\ UNCHANGED <<shm, caller, health_channel_, state_, last_counter_, first_check_, current, seen,
                   event, history>>

Ready == daemon = "idle" /\ wiping["daemon"] = {}

\* start() and reset() are the worker's, or come when there is no worker.
start ==
    /\ Ready
    /\ state_' = RUNNING /\ last_counter_' = 0 /\ first_check_' = TRUE
    /\ UNCHANGED <<shm, wiping, caller, daemon, health_channel_, current, seen, event, history>>

reset ==
    /\ Ready
    /\ state_' = INIT /\ last_counter_' = 0 /\ first_check_' = TRUE
    /\ UNCHANGED <<shm, wiping, caller, daemon, health_channel_, current, seen, event, history>>

\* stop() may come from a client of the engine in the middle of a check().
stop ==
    /\ daemon # "down"
    /\ state_' = INIT
    /\ UNCHANGED <<shm, wiping, caller, daemon, health_channel_, last_counter_, first_check_, current,
                   seen, event, history>>

setHealthChannel ==
    /\ Ready /\ ~health_channel_
    /\ health_channel_' = TRUE
    /\ UNCHANGED <<shm, wiping, caller, daemon, state_, last_counter_, first_check_, current,
                   seen, event, history>>

\* if (!health_channel_) return event;
checkNoChannel ==
    /\ Ready /\ ~health_channel_
    /\ event' = FALSE
    /\ UNCHANGED <<shm, wiping, caller, daemon, health_channel_, state_, last_counter_,
                   first_check_, current, seen, history>>

\* check() loads the counter, then (isAlive) the time, and then the clock.
checkCounter ==
    /\ Ready /\ health_channel_
    /\ current' = alive_counter
    /\ beaten' = stored /\ stored' = FALSE
    /\ disturbed' = wiped /\ wiped' = FALSE
    /\ daemon' = "load_time"
    /\ UNCHANGED <<shm, wiping, caller, health_channel_, state_, last_counter_, first_check_, seen, event,
                   begun, done, seenDone>>

checkTime ==
    /\ daemon = "load_time"
    /\ seen' = last_update
    /\ seenDone' = done
    /\ daemon' = "decide"
    /\ UNCHANGED <<shm, wiping, caller, health_channel_, state_, last_counter_, first_check_, current,
                   event, begun, done, stored, wiped, beaten, disturbed>>

isAlive == seen < Timeout

\* What check() does after its loads: the first one only takes the base line.
Verdict ==
    LET lost == ~first_check_ /\ (~isAlive \/ current = last_counter_)
    IN  /\ event' = lost
        /\ state_' = CASE lost -> WARN
                       [] ~first_check_ /\ ~lost /\ current > last_counter_ -> RUNNING
                       [] OTHER -> state_

\* Mutants: the counter is loaded again for the next comparison; the base line
\* is taken again and again.
DecideReloads ==
    /\ daemon = "decide"
    /\ Verdict
    /\ first_check_' = FALSE
    /\ last_counter_' = alive_counter
    /\ daemon' = "idle"
    /\ UNCHANGED <<shm, wiping, caller, health_channel_, current, seen, history>>

DecideFirstAgain ==
    /\ daemon = "decide"
    /\ Verdict
    /\ last_counter_' = current
    /\ daemon' = "idle"
    /\ UNCHANGED <<shm, wiping, caller, health_channel_, first_check_, current, seen, history>>

checkDecide ==
    /\ daemon = "decide"
    /\ Verdict
    /\ first_check_' = FALSE
    /\ last_counter_' = current
    /\ daemon' = "idle"
    /\ UNCHANGED <<shm, wiping, caller, health_channel_, current, seen, history>>

-----------------------------------------------------------------------------
ClientStep == openClient \/ reportBegin \/ reportCounter \/ reportTime \/ clientDies
Lifecycle  == openDaemon \/ daemonDies \/ setHealthChannel \/ start \/ reset \/ stop
CheckStep  == checkNoChannel \/ checkCounter \/ checkTime \/ checkDecide
Wipe(side) == \E word \in {"alive_counter", "last_update_ms"} : wipe(side, word)

Next ==
    \/ Tick
    \/ \E side \in Sides : Wipe(side)
    \/ ClientStep
    \/ Lifecycle
    \/ CheckStep

Spec == Init /\ [][Next]_vars

\* The engine's worker goes on; neither the client nor the clock has to.
Fairness == WF_vars(CheckStep) /\ WF_vars(Wipe("daemon"))

FairSpec == Spec /\ Fairness

-----------------------------------------------------------------------------
(* Properties *)

TypeOK ==
    /\ {alive_counter, beats, last_counter_, current} \subseteq 0 .. MaxBeats
    /\ {last_update, stamp, seen, begun, done, seenDone} \subseteq Ages
    /\ wiping \in [Sides -> SUBSET {"alive_counter", "last_update_ms"}]
    /\ client \in {"down", "idle", "store_counter", "store_time"}
    /\ daemon \in {"down", "idle", "load_time", "decide"}
    /\ state_ \in {INIT, RUNNING, WARN}
    /\ {health_channel_, first_check_, event, stored, wiped, beaten, disturbed} \subseteq BOOLEAN

(***************************************************************************)
(* The channel says alive only when the client began a report within the   *)
(* timeout: a report that is delayed between reading the clock and storing *)
(* it, or that an opening of the channel overtakes, does not make the      *)
(* client look alive for longer (health_channel.cpp, lines 83-88).         *)
(***************************************************************************)
AliveIsRecent == last_update < Timeout => begun <= last_update

(***************************************************************************)
(* No false alarm: check() returns a WARNING only when the client has not  *)
(* stored its counter since the check before, or has completed no report   *)
(* within the timeout, or the channel was opened in between, by whichever  *)
(* side (alive_monitor.cpp, lines 49-80).                                  *)
(***************************************************************************)
NoFalseAlarm ==
    [][ (checkDecide /\ event') => ~beaten \/ disturbed \/ seenDone = Stale ]_vars

(***************************************************************************)
(* A client whose counter is not stored any more is found by a monitor     *)
(* that has its channel: from some check on the monitor stays in WARN,     *)
(* whatever time it is and however often the client opens the channel      *)
(* again, unless the monitor itself is started, stopped or replaced again  *)
(* and again (alive_monitor.cpp, lines 49-80).                             *)
(***************************************************************************)
ClientIsSilent == <>[][~reportCounter /\ ~Lifecycle]_vars

SilenceIsFound ==
    ClientIsSilent /\ <>[](daemon # "down" /\ health_channel_) => <>[](state_ = WARN)

-----------------------------------------------------------------------------
(***************************************************************************)
(* What the liveness theorem takes for granted of ENABLED, which its proof *)
(* cannot expand, and what is plain from the guards above: a check() that  *)
(* has a channel can begin once the daemon's memory is cleared, and can go *)
(* on once it has begun, as can the clearing.                              *)
(***************************************************************************)
CanCheck == (Ready /\ health_channel_) \/ daemon \in {"load_time", "decide"}

CheckNeverWaits ==
    /\ CanCheck => ENABLED <<CheckStep>>_vars
    /\ wiping["daemon"] # {} => ENABLED <<Wipe("daemon")>>_vars

=============================================================================
