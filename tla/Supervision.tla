----------------------------- MODULE Supervision -----------------------------
(***************************************************************************)
(* A supervised entity with the monitors the library brings: the process   *)
(* lifecycle, resource and deadlock monitors of src/src/monitors, over the *)
(* process they watch.  What a check() returns is no longer any event, as  *)
(* in SupervisedEntity, but what the monitor makes of the process.         *)
(*                                                                         *)
(* The environment is the process, whether the deadlock monitor's test     *)
(* finds it hung, and what getCpuUsage() answers: any value at any time,   *)
(* true or not (CpuWatch is about that).  No monitor has a health channel. *)
(* SupervisedEntity::stop() runs through the monitors in one step, and may *)
(* come between two monitors of a checkAll(): PhmEngine::removeEntity()    *)
(* calls it from another thread.                                           *)
(***************************************************************************)
EXTENDS SupervisedEntity

CONSTANTS
    Registered0,  \* the monitors of the entity, in order of registration, each once
    Pids,         \* the process identifiers the process gets
    Usages        \* what getCpuUsage() answers, as far as the thresholds tell it apart

ASSUME SupervisionAssumption ==
    /\ Registered0 \in Seq(Monitors)
    /\ \A i, j \in DOMAIN Registered0 : Registered0[i] = Registered0[j] => i = j
    /\ Monitors \subseteq {"process_lifecycle", "resource", "deadlock"}
    /\ Pids \subseteq Nat \ {0}
    /\ "zero" \in Usages /\ Usages \subseteq {"zero", "low", "warn", "error"}

\* The environment.
VARIABLES
    process,      \* the process's pid, 0 when there is none
    cpu,          \* what getCpuUsage() answers: 0, below the thresholds, or at one of them
    hung          \* does checkThreadByName() not find the watched thread?

VARIABLES
    platform,     \* platform_ of the monitors: created by start(), freed by stop()
    lifecycle,    \* ProcessLifecycleMonitor: state_ and pid_ (0 for -1)
    resource,     \* ResourceMonitor: state_ and pid_
    last_cpu_,    \* ResourceMonitor: the last usage that was not 0
    deadlock,     \* DeadlockMonitor: state_ and last_check_ok_
    crashed       \* the daemon has dereferenced a null pointer

\* History, read by no action of the code.
VARIABLES
    lost,         \* the process that the lifecycle monitor has as RUNNING has exited
    faulty        \* has anything gone wrong since the entity was reset?

env      == <<process, cpu, hung>>
builtin  == <<platform, lifecycle, resource, last_cpu_, deadlock>>
allVars  == <<vars, env, builtin, crashed, lost, faulty>>

Over == {"warn", "error"}

SInit ==
    /\ current_state = INIT
    /\ monitors = Registered0
    /\ debounce_map = [m \in Sources |-> 0]
    /\ pending_events = 0 /\ state_cb = FALSE /\ cursor = 0 /\ raised = NoEvent
    /\ view = INIT /\ evidence = [m \in Sources |-> 0] /\ handled = {}
    /\ process \in Pids \cup {0} /\ cpu = "zero" /\ hung = FALSE
    /\ platform = FALSE
    /\ lifecycle = [state |-> INIT, pid |-> 0]
    /\ resource = [state |-> INIT, pid |-> 0] /\ last_cpu_ = "zero"
    /\ deadlock = [state |-> INIT, ok |-> TRUE]
    /\ crashed = FALSE /\ lost = FALSE /\ faulty = FALSE

-----------------------------------------------------------------------------
(* The environment *)

processExits ==
    /\ process # 0
    /\ process' = 0
    /\ faulty' = TRUE
    /\ lost' = IF platform /\ lifecycle.pid = process
               THEN lifecycle.state = RUNNING
               ELSE lost
    /\ UNCHANGED <<vars, cpu, hung, builtin, crashed>>

\* A process that gets the pid of the one that is lost cannot be told from it.
processStarts(pid) ==
    /\ process = 0
    /\ process' = pid
    /\ lost' = (lost /\ lifecycle.pid # pid)
    /\ UNCHANGED <<vars, cpu, hung, builtin, crashed, faulty>>

\* The static variables behind an answer are everybody's: it may be any.
getCpuUsage(level) ==
    /\ cpu' = level
    /\ faulty' = (faulty \/ level \in Over)
    /\ UNCHANGED <<vars, process, hung, builtin, crashed, lost>>

\* What checkThreadByName() finds changes.
hangs(value) ==
    /\ hung' = value
    /\ faulty' = (faulty \/ value)
    /\ UNCHANGED <<vars, process, cpu, builtin, crashed, lost>>

-----------------------------------------------------------------------------
(* start(), stop() and reset() of the entity and of its monitors *)

Found(m) == [state |-> IF process # 0 THEN RUNNING ELSE m.state, pid |-> process]

\* Mutant: RUNNING whether or not there is a process.
FoundAlways(m) == [state |-> RUNNING, pid |-> process]

LookUp(m) == Found(m)

startAll ==
    /\ cursor = 0
    /\ start(TRUE)
    /\ platform' = TRUE
    /\ lifecycle' = LookUp(lifecycle)
    /\ resource' = LookUp(resource)
    /\ deadlock' = [state |-> RUNNING, ok |-> TRUE]
    /\ lost' = FALSE
    /\ UNCHANGED <<env, last_cpu_, crashed, faulty>>

stopAll ==
    /\ platform' = FALSE
    /\ lifecycle' = [lifecycle EXCEPT !.state = INIT]
    /\ resource' = [resource EXCEPT !.state = INIT]
    /\ deadlock' = [deadlock EXCEPT !.state = INIT]
    /\ lost' = FALSE
    /\ UNCHANGED <<vars, env, last_cpu_, crashed, faulty>>

\* The last usage survives stop() and reset().
resetAll ==
    /\ cursor = 0
    /\ reset
    /\ platform' = FALSE
    /\ lifecycle' = [state |-> INIT, pid |-> 0]
    /\ resource' = [state |-> INIT, pid |-> 0]
    /\ deadlock' = [state |-> INIT, ok |-> TRUE]
    /\ lost' = FALSE
    /\ faulty' = (hung \/ {cpu, last_cpu_} \cap Over # {})
    /\ UNCHANGED <<env, last_cpu_, crashed>>

-----------------------------------------------------------------------------
(* check() of each monitor *)

Checking(m) == cursor # 0 /\ monitors[cursor] = m

Returns(severity) ==
    IF severity = NoEvent THEN checkReturnsEmpty ELSE checkReturns(severity)

\* A monitor without a platform returns the empty event and changes nothing.
checkStopped ==
    /\ ~platform
    /\ Checking("process_lifecycle") \/ Checking("deadlock")
    /\ Returns(NoEvent)
    /\ UNCHANGED <<env, builtin, crashed, lost, faulty>>

\* Mutant: any process of the name will do.
ExitOverlooked(pid) == ~(pid # 0 /\ process # 0)

Exited(pid) == ~(pid # 0 /\ pid = process)

checkLifecycle ==
    LET pid    == IF lifecycle.pid # 0 THEN lifecycle.pid ELSE process
        exit   == Exited(pid) /\ lifecycle.state = RUNNING
        return == ~Exited(pid) /\ lifecycle.state = ERROR
    IN  /\ platform /\ Checking("process_lifecycle")
        /\ Returns(IF exit THEN "ERROR" ELSE NoEvent)
        /\ lifecycle' = [state |-> CASE exit -> ERROR
                                     [] return -> RUNNING
                                     [] OTHER -> lifecycle.state,
                         pid   |-> IF exit THEN 0 ELSE pid]
        /\ UNCHANGED <<env, platform, resource, last_cpu_, deadlock, crashed, lost, faulty>>

\* Without a platform the search for the process goes through a null pointer.
checkResourceNull ==
    /\ ~platform /\ Checking("resource")
    /\ crashed' = TRUE
    /\ UNCHANGED <<vars, env, builtin, lost, faulty>>

checkResourceSearch ==
    /\ platform /\ Checking("resource")
    /\ resource.pid = 0
    /\ resource' = [resource EXCEPT !.pid = process]
    /\ Returns(NoEvent)
    /\ UNCHANGED <<env, platform, lifecycle, last_cpu_, deadlock, crashed, lost, faulty>>

checkResourceExit ==
    /\ platform /\ Checking("resource")
    /\ resource.pid # 0 /\ Exited(resource.pid)
    /\ resource' = [state |-> ERROR, pid |-> 0]
    /\ Returns("ERROR")
    /\ UNCHANGED <<env, platform, lifecycle, last_cpu_, deadlock, crashed, lost, faulty>>

\* A usage of 0 is taken for no answer: the last one counts once more.
getMetricWithFallback == IF cpu = "zero" THEN last_cpu_ ELSE cpu

\* Mutant: the warning threshold is compared first.
WarnFirst == IF getMetricWithFallback \in Over THEN "WARNING" ELSE NoEvent

Severity == CASE getMetricWithFallback = "error" -> "ERROR"
              [] getMetricWithFallback = "warn"  -> "WARNING"
              [] OTHER                           -> NoEvent

checkResourceUse ==
    /\ platform /\ Checking("resource")
    /\ resource.pid # 0 /\ ~Exited(resource.pid)
    /\ last_cpu_' = getMetricWithFallback
    /\ resource' = [resource EXCEPT !.state =
                       IF Severity = NoEvent THEN RUNNING ELSE seStateFromSeverity[Severity]]
    /\ Returns(Severity)
    /\ UNCHANGED <<env, platform, lifecycle, deadlock, crashed, lost, faulty>>

\* config_.interval has not passed since the last check().
checkDeadlockEarly ==
    /\ platform /\ Checking("deadlock")
    /\ Returns(NoEvent)
    /\ UNCHANGED <<env, builtin, crashed, lost, faulty>>

\* Only the change from alive to hung is an event.
checkDeadlock ==
    /\ platform /\ Checking("deadlock")
    /\ Returns(IF hung /\ deadlock.ok THEN "ERROR" ELSE NoEvent)
    /\ deadlock' = [state |-> CASE hung /\ deadlock.ok   -> ERROR
                                [] ~hung /\ ~deadlock.ok -> RUNNING
                                [] OTHER                 -> deadlock.state,
                    ok    |-> ~hung]
    /\ UNCHANGED <<env, platform, lifecycle, resource, last_cpu_, crashed, lost, faulty>>

-----------------------------------------------------------------------------
Environment ==
    \/ processExits
    \/ \E pid \in Pids : processStarts(pid)
    \/ \E level \in Usages : getCpuUsage(level)
    \/ \E value \in BOOLEAN : hangs(value)

begin == beginCheckAll /\ UNCHANGED <<env, builtin, crashed, lost, faulty>>

Owner == startAll \/ stopAll \/ resetAll

Worker ==
    \/ begin
    \/ checkStopped \/ checkLifecycle
    \/ checkResourceNull \/ checkResourceSearch \/ checkResourceExit \/ checkResourceUse
    \/ checkDeadlockEarly \/ checkDeadlock

SNext == Environment \/ (~crashed /\ (Owner \/ Worker))

SSpec == SInit /\ [][SNext]_allVars

\* The worker goes on, and the interval of a deadlock monitor passes.
SFairness ==
    /\ WF_allVars(~crashed /\ Worker)
    /\ SF_allVars(~crashed /\ checkDeadlock)

SFairSpec == SSpec /\ SFairness

-----------------------------------------------------------------------------
(* Properties *)

TypeInvariant ==
    /\ TypeOK
    /\ process \in Pids \cup {0}
    /\ {cpu, last_cpu_} \subseteq Usages
    /\ {hung, platform, crashed, lost, faulty} \subseteq BOOLEAN
    /\ lifecycle \in [state : {INIT, RUNNING, ERROR}, pid : Pids \cup {0}]
    /\ resource \in [state : {INIT, RUNNING, WARN, ERROR}, pid : Pids \cup {0}]
    /\ deadlock \in [state : {INIT, RUNNING, ERROR}, ok : BOOLEAN]

(***************************************************************************)
(* No alarm without a cause, from end to end: an entity is suspected or    *)
(* worse only when, since it was last reset, a process has exited, the     *)
(* watched thread was not found, or getCpuUsage() has answered a usage at  *)
(* a threshold - or had done so before the reset, which last_cpu_          *)
(* survives.  A process that is not there is no cause.  Whether the usage  *)
(* was true is another question (UsageIsTrue and OverloadNeedsUse of       *)
(* CpuWatch).                                                              *)
(***************************************************************************)
AlarmHasCause == current_state > RUNNING => faulty

(***************************************************************************)
(* The exit of a process that was there when the monitor started is found, *)
(* even when it is restarted under another pid before the next check: with *)
(* debounce_count 1 the entity is in ERROR some time after, unless the     *)
(* monitors are stopped or started again.                                  *)
(***************************************************************************)
CrashIsRaised ==
    lost ~> (current_state = ERROR \/ ~lost \/ crashed)

(***************************************************************************)
(* A process that hangs for good puts an entity whose monitors stay        *)
(* started into ERROR, for good (debounce_count 1).                        *)
(***************************************************************************)
HangIsRaised ==
    <>[](hung /\ platform /\ ~crashed) => <>[](current_state = ERROR)

(***************************************************************************)
(* A process that stays and is measured to use too much for good is        *)
(* reported again and again, so that any debounce_count is reached: the    *)
(* entity ends up in the state of the threshold, or a worse one.           *)
(***************************************************************************)
Measured(level) == cpu = level /\ process # 0 /\ platform /\ ~crashed

OverloadIsRaised ==
    /\ <>[]Measured("error") => <>[](current_state = ERROR)
    /\ <>[]Measured("warn") => <>[](current_state \in {WARN, ERROR})

-----------------------------------------------------------------------------
(***************************************************************************)
(* What the liveness theorems take for granted of ENABLED, which a proof   *)
(* cannot expand, and what is plain from the guards above: some step of    *)
(* checkAll() can always be taken, and a deadlock check whose interval has *)
(* passed can be made.                                                     *)
(***************************************************************************)
MonitorsNeverWait ==
    ~crashed /\ monitors # <<>> =>
        /\ ENABLED <<~crashed /\ Worker>>_allVars
        /\ platform /\ Checking("deadlock") => ENABLED <<~crashed /\ checkDeadlock>>_allVars

=============================================================================
