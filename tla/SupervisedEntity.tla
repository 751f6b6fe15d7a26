-------------------------- MODULE SupervisedEntity --------------------------
(***************************************************************************)
(* One supervised entity (SE) of src/src/state_machine.cpp: its state      *)
(* machine, the debounce counters in front of it, and the operations of    *)
(* class SupervisedEntity.                                                 *)
(*                                                                         *)
(* Every operation is one action, except checkAll(): it calls the check()  *)
(* of each monitor in turn and holds no lock, so that the operations of    *)
(* other threads fall between two monitors (cursor is the loop's place).   *)
(* A monitor is an IMonitor: its check() returns an event or the empty     *)
(* event, and the monitors in Callers also hand the event to the callback  *)
(* registerMonitor() gave them, from inside check().                       *)
(***************************************************************************)
EXTENDS PhmTypes, Sequences

CONSTANTS
    Sources,         \* the source_monitor names events may carry
    Monitors,        \* the sources that are monitors of this entity
    EventType,       \* MonitorType each source's name stands for
    MonitorConfigs,  \* SEConfig::monitors, in their order
    Callers,         \* monitors that call their event callback inside check()
    MaxPending       \* bound: pending_events is counted up to here

\* check() returned the event whose id is empty: nothing to handle.
NoEvent == "none"

\* The fields of a MonitorConfig the entity reads.
MonitorConfig == [type : MonitorTypes, debounce_count : Nat]

ASSUME SEAssumption ==
    /\ Monitors \subseteq Sources
    /\ EventType \in [Sources -> MonitorTypes]
    /\ MonitorConfigs \in Seq(MonitorConfig)
    /\ Callers \subseteq Monitors
    /\ MaxPending \in Nat

(***************************************************************************)
(* The first configuration of the type the event's source stands for, and  *)
(* the threshold it gives: enabled is not looked at, and 0 counts as 1.    *)
(***************************************************************************)
Matching(m)   == {i \in DOMAIN MonitorConfigs : MonitorConfigs[i].type = EventType[m]}
Configured(m) == Matching(m) # {}
ConfigOf(m)   == MonitorConfigs[CHOOSE i \in Matching(m) : \A j \in Matching(m) : i <= j]
Debounce(m)   ==
    IF ~Configured(m) \/ ConfigOf(m).debounce_count = 0
    THEN 1 ELSE ConfigOf(m).debounce_count

VARIABLES
    current_state,   \* current_state_
    monitors,        \* names of monitors_, in registration order
    debounce_map,    \* debounce_map_[m].consecutive_count, 0 when absent
    pending_events,  \* number of entries of pending_events_, up to MaxPending
    state_cb,        \* is a state change callback installed?
    cursor,          \* next monitor of the running checkAll(), 0 when none runs
    raised           \* event the running check() gave to its callback, or NoEvent

\* History, read by no action of the code.
VARIABLES
    view,            \* the state as the callback's owner knows it
    evidence,        \* abnormal observations of m since it recovered, up to Debounce(m)
    handled          \* the event the last step handled, if any: {<<source, severity>>}

vars == <<current_state, monitors, debounce_map, pending_events,
          state_cb, cursor, raised, view, evidence, handled>>

Registered == {monitors[i] : i \in DOMAIN monitors}

Init ==
    /\ current_state = INIT
    /\ monitors = <<>>
    /\ debounce_map = [m \in Sources |-> 0]
    /\ pending_events = 0
    /\ state_cb = FALSE
    /\ cursor = 0
    /\ raised = NoEvent
    /\ view = INIT
    /\ evidence = [m \in Sources |-> 0]
    /\ handled = {}

\* Mutant: the state changes and nobody is told.
SilentTransition(s) ==
    IF isTransitionAllowed(current_state, s)
    THEN current_state' = s /\ UNCHANGED view
    ELSE UNCHANGED <<current_state, view>>

\* A refused transition leaves the state alone and calls nobody.
transitionTo(s) ==
    IF isTransitionAllowed(current_state, s)
    THEN /\ current_state' = s
         /\ view' = IF state_cb THEN s ELSE view
    ELSE UNCHANGED <<current_state, view>>

-----------------------------------------------------------------------------
(***************************************************************************)
(* processMonitorResult: an event of m is dropped when no configuration    *)
(* has m's type; an INFO event clears m's counter and brings the entity    *)
(* back; an event worse than the current state counts, and the threshold   *)
(* or a first suspicion moves the state; any other event does nothing.     *)
(***************************************************************************)
Recover(m) ==
    /\ debounce_map' = [debounce_map EXCEPT ![m] = 0]
    /\ transitionTo(RUNNING)

\* Mutant: the threshold is compared with > instead of >=.
CountOneMore(m, target) ==
    IF debounce_map[m] + 1 > Debounce(m)
    THEN debounce_map' = [debounce_map EXCEPT ![m] = 0] /\ transitionTo(target)
    ELSE /\ debounce_map' = [debounce_map EXCEPT ![m] = @ + 1]
         /\ IF current_state = RUNNING
            THEN transitionTo(SUSPECT)
            ELSE UNCHANGED <<current_state, view>>

CountFault(m, target) ==
    IF debounce_map[m] + 1 >= Debounce(m)
    THEN /\ debounce_map' = [debounce_map EXCEPT ![m] = 0]
         /\ transitionTo(target)
    ELSE /\ debounce_map' = [debounce_map EXCEPT ![m] = @ + 1]
         /\ IF current_state = RUNNING
            THEN transitionTo(SUSPECT)
            ELSE UNCHANGED <<current_state, view>>

processMonitorResult(m, severity) ==
    LET target == seStateFromSeverity[severity]
    IN  CASE Configured(m) /\ target = RUNNING -> Recover(m)
          [] Configured(m) /\ target # RUNNING /\ target > current_state
                -> CountFault(m, target)
          [] OTHER -> UNCHANGED <<current_state, debounce_map, view>>

(***************************************************************************)
(* History of an event of m. isNew: this observation was not handled yet,  *)
(* or what was remembered of it has been cleared since.                    *)
(***************************************************************************)
Remember(m, severity, isNew) ==
    /\ handled' = {<<m, severity>>}
    /\ evidence' =
          IF ~Configured(m) THEN evidence
          ELSE [evidence EXCEPT ![m] =
                   IF severity = "INFO" THEN 0
                   ELSE IF @ < Debounce(m) /\ (isNew \/ @ = 0) THEN @ + 1 ELSE @]

pushPending ==
    pending_events' = IF pending_events < MaxPending THEN pending_events + 1
                                                     ELSE pending_events

onMonitorEvent(m, severity) ==
    /\ pushPending
    /\ processMonitorResult(m, severity)
    /\ Remember(m, severity, TRUE)

-----------------------------------------------------------------------------
\* A second monitor of the same name is refused.
registerMonitor(m) ==
    /\ m \notin Registered
    /\ cursor = 0
    /\ monitors' = Append(monitors, m)
    /\ handled' = {}
    /\ UNCHANGED <<current_state, debounce_map, pending_events,
                   state_cb, cursor, raised, view, evidence>>

\* Every monitor is started, and the state moves only when all of them succeed.
start(all_ok) ==
    /\ monitors = <<>> => all_ok
    /\ IF all_ok /\ current_state = INIT
       THEN transitionTo(RUNNING)
       ELSE UNCHANGED <<current_state, view>>
    /\ handled' = {}
    /\ UNCHANGED <<monitors, debounce_map, pending_events, state_cb, cursor,
                   raised, evidence>>

\* Mutant: the debounce counters survive the reset.
ResetKeepsCounters ==
    /\ pending_events' = 0
    /\ current_state' = INIT
    /\ evidence' = [m \in Sources |-> 0]
    /\ handled' = {}
    /\ UNCHANGED <<debounce_map, monitors, state_cb, cursor, raised, view>>

\* Stops the monitors and assigns current_state_: no transition, no callback.
reset ==
    /\ pending_events' = 0
    /\ debounce_map' = [m \in Sources |-> 0]
    /\ current_state' = INIT
    /\ evidence' = [m \in Sources |-> 0]
    /\ handled' = {}
    /\ UNCHANGED <<monitors, state_cb, cursor, raised, view>>

drainEvents ==
    /\ pending_events' = 0
    /\ handled' = {}
    /\ UNCHANGED <<current_state, monitors, debounce_map, state_cb,
                   cursor, raised, view, evidence>>

\* The new owner reads getState() when it installs its callback.
setStateChangeCallback(installed) ==
    /\ state_cb' = installed
    /\ view' = IF installed THEN current_state ELSE view
    /\ handled' = {}
    /\ UNCHANGED <<current_state, monitors, debounce_map,
                   pending_events, cursor, raised, evidence>>

\* An event somebody reports to the entity outside a check.
reportEvent(m, severity) ==
    /\ onMonitorEvent(m, severity)
    /\ UNCHANGED <<monitors, state_cb, cursor, raised>>

-----------------------------------------------------------------------------
(***************************************************************************)
(* checkAll: for each monitor in turn, check() may first hand its event to *)
(* the callback (onMonitorEvent), then returns that event, or the event of *)
(* this check, or the empty event; a returned event is handled.            *)
(***************************************************************************)
beginCheckAll ==
    /\ cursor = 0
    /\ monitors # <<>>
    /\ cursor' = 1
    /\ handled' = {}
    /\ UNCHANGED <<current_state, monitors, debounce_map,
                   pending_events, state_cb, raised, view, evidence>>

checkRaises(severity) ==
    /\ cursor # 0
    /\ raised = NoEvent
    /\ monitors[cursor] \in Callers
    /\ onMonitorEvent(monitors[cursor], severity)
    /\ raised' = severity
    /\ UNCHANGED <<monitors, state_cb, cursor>>

nextMonitor ==
    /\ cursor' = IF cursor = Len(monitors) THEN 0 ELSE cursor + 1
    /\ raised' = NoEvent
    /\ UNCHANGED <<monitors, state_cb, pending_events>>

checkReturns(severity) ==
    /\ cursor # 0
    /\ raised \in {NoEvent, severity}
    /\ processMonitorResult(monitors[cursor], severity)
    /\ Remember(monitors[cursor], severity, raised = NoEvent)
    /\ nextMonitor

checkReturnsEmpty ==
    /\ cursor # 0
    /\ handled' = {}
    /\ nextMonitor
    /\ UNCHANGED <<current_state, debounce_map, view, evidence>>

-----------------------------------------------------------------------------
Next ==
    \/ \E m \in Monitors : registerMonitor(m)
    \/ \E all_ok \in BOOLEAN : start(all_ok)
    \/ reset
    \/ drainEvents
    \/ \E installed \in BOOLEAN : setStateChangeCallback(installed)
    \/ \E m \in Sources, s \in Severities : reportEvent(m, s)
    \/ beginCheckAll
    \/ \E s \in Severities : checkRaises(s)
    \/ \E s \in Severities : checkReturns(s)
    \/ checkReturnsEmpty

Spec == Init /\ [][Next]_vars

-----------------------------------------------------------------------------
(* Properties *)

TypeOK ==
    /\ current_state \in SeStates
    /\ monitors \in Seq(Monitors)
    /\ debounce_map \in [Sources -> Nat]
    /\ pending_events \in 0 .. MaxPending
    /\ state_cb \in BOOLEAN
    /\ cursor \in 0 .. Len(monitors)
    /\ raised \in Severities \cup {NoEvent}
    /\ view \in SeStates
    /\ evidence \in [Sources -> Nat]
    /\ handled \subseteq Sources \X Severities

\* m has been seen abnormal as often as its configuration asks for. A monitor
\* that calls back inside check() has each observation handled twice.
EnoughEvidence(m) == evidence[m] = Debounce(m) \/ (m \in Callers /\ evidence[m] > 0)

(***************************************************************************)
(* The debounce counter of a monitor stays below its threshold between two *)
(* events, and, for a monitor that does not call back, never exceeds the   *)
(* abnormal observations made since the monitor last recovered: nothing    *)
(* another monitor does, no reset and no refused transition inflates it    *)
(* (processMonitorResult, lines 210-238).                                  *)
(***************************************************************************)
CounterIsEvidence ==
    \A m \in Sources :
        /\ debounce_map[m] < Debounce(m)
        /\ m \notin Callers => debounce_map[m] <= evidence[m]
        /\ debounce_map[m] > 0 => evidence[m] > 0

(***************************************************************************)
(* An alarm stands only on unrecovered evidence: an entity in SUSPECT has  *)
(* a monitor that was abnormal and has not reported INFO since, and one in *)
(* WARN or ERROR has a monitor with as many such observations as its       *)
(* debounce_count, whatever the other monitors reported in between.        *)
(***************************************************************************)
AlarmIsBacked ==
    /\ current_state = SUSPECT => \E m \in Sources : evidence[m] > 0
    /\ current_state \in {WARN, ERROR} => \E m \in Sources : EnoughEvidence(m)

(***************************************************************************)
(* As long as a callback is installed its owner knows the state: the last  *)
(* new_state it was given is the current one, or the entity was reset,     *)
(* which tells nobody (transitionTo line 67, reset line 153).              *)
(***************************************************************************)
ObserverKnowsState == state_cb => current_state \in {view, INIT}

\* What makes the invariants above inductive: the history is as bounded as
\* Remember makes it, and only a monitor in Callers has raised an event.
EvidenceIsBounded == \A m \in Sources : evidence[m] <= Debounce(m)
RaisedByCaller    == raised # NoEvent => cursor # 0 /\ monitors[cursor] \in Callers

IInv ==
    /\ TypeOK
    /\ CounterIsEvidence
    /\ AlarmIsBacked
    /\ ObserverKnowsState
    /\ EvidenceIsBounded
    /\ RaisedByCaller

(***************************************************************************)
(* The state rises to WARN, ERROR or FATAL only on an event of a monitor   *)
(* that itself has reached its debounce_count since it recovered: the      *)
(* observations of two monitors never add up (debounce_map_ is per source).*)
(***************************************************************************)
EscalationIsJustified ==
    [][ (current_state' \in {WARN, ERROR, FATAL} /\ current_state' # current_state)
        => \E e \in handled' : EnoughEvidence(e[1])' ]_vars

RecoveredOrReset ==
    \/ /\ current_state # FATAL
       /\ current_state' = RUNNING
       /\ \E m \in Sources : handled' = {<<m, "INFO">>} /\ debounce_map'[m] = 0
    \/ /\ current_state' = INIT
       /\ pending_events' = 0
       /\ \A m \in Sources : debounce_map'[m] = 0

(***************************************************************************)
(* A state never becomes better except by an INFO event, which leads to    *)
(* RUNNING and clears the counter of the monitor that sent it, or by       *)
(* reset(), which clears everything; FATAL is left only by reset().        *)
(***************************************************************************)
OnlyRecoveryLowers == [][ current_state' < current_state => RecoveredOrReset ]_vars

-----------------------------------------------------------------------------
\* The alarm the entity implements: the sources without a configuration are
\* not heard, and what was seen of the others is their evidence.
Heard == {m \in Sources : Configured(m)}

Alarm == INSTANCE DebouncedAlarm WITH
             Threshold <- [m \in Heard |-> Debounce(m)],
             Eager     <- Callers,
             level     <- current_state,
             observed  <- [m \in Heard |-> evidence[m]]

(***************************************************************************)
(* The entity implements the alarm: whatever the threads that report,      *)
(* check, start, reset and register do, and whatever its counters hold, a  *)
(* reader of getState() sees a level that rises by the evidence of one     *)
(* source, never leaves INIT by an abnormal event nor FATAL but by a       *)
(* reset, and falls only when a source recovers (lines 192-249).  That it  *)
(* stays in INIT is what the table says and the code does; the tests of    *)
(* the class expect otherwise (README, section 5).                         *)
(***************************************************************************)
ImplementsAlarm == Alarm!AlarmSpec

-----------------------------------------------------------------------------
\* The steps that handle an event of m with this severity.
Handles(m, severity) == handled' = {<<m, severity>>}

Heals == reset \/ \E m \in Sources : Configured(m) /\ Handles(m, "INFO")

(***************************************************************************)
(* A configured monitor that reports ERROR again and again, while it sends *)
(* no FATAL, nothing recovers and nobody resets the entity, takes the      *)
(* entity to ERROR or FATAL for good, from any state but INIT, which an    *)
(* abnormal event does not leave (README, section 5): no mix of reports of *)
(* the other monitors and no lesser report of its own keeps the error from *)
(* being confirmed (lines 226-238).                                        *)
(***************************************************************************)
PersistentErrorIsRaised ==
    \A m \in Sources :
        /\ Configured(m)
        /\ []<><<Handles(m, "ERROR")>>_vars
        /\ <>[][~Heals /\ ~Handles(m, "FATAL")]_vars
        => <>[](current_state \in {INIT, ERROR, FATAL})

=============================================================================
