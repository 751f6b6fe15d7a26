----------------------- MODULE SupervisedEntityProofs -----------------------
(***************************************************************************)
(* What SupervisedEntity guarantees for every set of sources, every list   *)
(* of monitor configurations and every threshold.                          *)
(***************************************************************************)
EXTENDS Supervision, WellFoundedInduction, TLAPS

(***************************************************************************)
(* A source with a configuration of its type has a first one.              *)
(***************************************************************************)
LEMMA FirstConfig ==
    ASSUME NEW m \in Sources, Configured(m)
    PROVE  ConfigOf(m) \in MonitorConfig
<1> DEFINE Less == OpToRel(<, Nat)
<1>1. /\ Matching(m) \subseteq Nat
      /\ \A i \in Matching(m) : MonitorConfigs[i] \in MonitorConfig
    BY SEAssumption DEF SEAssumption, Matching
<1>2. \E i \in Matching(m) : \A j \in Matching(m) : ~(<<j, i>> \in Less)
    BY <1>1, NatLessThanWellFounded, WFMin DEF Configured
<1>3. \A i, j \in Nat : ~(<<j, i>> \in Less) => i <= j
    BY DEF OpToRel
<1>4. \E i \in Matching(m) : \A j \in Matching(m) : i <= j
    BY <1>1, <1>2, <1>3
<1>5. (CHOOSE i \in Matching(m) : \A j \in Matching(m) : i <= j) \in Matching(m)
    BY <1>4
<1> QED
    BY <1>1, <1>5 DEF ConfigOf

(***************************************************************************)
(* Every threshold is a positive number (processMonitorResult, line 206).  *)
(***************************************************************************)
LEMMA DebounceType ==
    ASSUME NEW m \in Sources
    PROVE  Debounce(m) \in Nat /\ Debounce(m) >= 1
<1>1. CASE Configured(m)
    <2>1. ConfigOf(m).debounce_count \in Nat
        BY <1>1, FirstConfig DEF MonitorConfig
    <2> QED  BY <1>1, <2>1 DEF Debounce
<1>2. CASE ~Configured(m)
    BY <1>2 DEF Debounce
<1> QED  BY <1>1, <1>2

-----------------------------------------------------------------------------
(* What the two helpers of processMonitorResult do *)

LEMMA SeverityMap ==
    ASSUME NEW s \in Severities
    PROVE  /\ seStateFromSeverity[s] \in {RUNNING, WARN, ERROR, FATAL}
           /\ seStateFromSeverity[s] = RUNNING <=> s = "INFO"
BY DEF seStateFromSeverity, Severities, RUNNING, WARN, ERROR, FATAL

LEMMA TransitionEffect ==
    ASSUME TypeOK, NEW s \in SeStates, transitionTo(s), state_cb' = state_cb
    PROVE  /\ current_state' \in {current_state, s}
           /\ current_state' \in SeStates
           /\ view' \in SeStates
           /\ ObserverKnowsState => ObserverKnowsState'
BY DEF TypeOK, transitionTo, ObserverKnowsState

\* RUNNING can be reached from every state but FATAL.
LEMMA RecoveryEffect ==
    ASSUME TypeOK, transitionTo(RUNNING)
    PROVE  current_state' \in {RUNNING, FATAL}
<1>1. current_state \in {INIT, RUNNING, SUSPECT, WARN, ERROR, FATAL}
    BY DEF TypeOK, SeStates, INIT, RUNNING, SUSPECT, WARN, ERROR, FATAL
<1>2. current_state \notin {RUNNING, FATAL} => isTransitionAllowed(current_state, RUNNING)
    BY <1>1 DEF isTransitionAllowed, g_transition_table, SeStates,
                INIT, RUNNING, SUSPECT, WARN, ERROR, FATAL
<1> QED
    BY <1>2 DEF transitionTo

-----------------------------------------------------------------------------
(* The handling of one event *)

\* The evidence of a source never shrinks but by its own INFO event.
LEMMA RememberEffect ==
    ASSUME TypeOK, EvidenceIsBounded,
           NEW m \in Sources, NEW severity \in Severities, NEW isNew \in BOOLEAN,
           Remember(m, severity, isNew)
    PROVE  /\ evidence' \in [Sources -> Nat]
           /\ handled' \subseteq Sources \X Severities
           /\ \A k \in Sources : evidence'[k] <= Debounce(k)
           /\ \A k \in Sources : k # m => evidence'[k] = evidence[k]
           /\ (~Configured(m) \/ severity # "INFO") => evidence'[m] >= evidence[m]
           /\ (Configured(m) /\ severity # "INFO") => evidence'[m] > 0
           /\ (Configured(m) /\ severity # "INFO" /\ isNew /\ evidence[m] < Debounce(m))
                  => evidence'[m] = evidence[m] + 1
<1>1. \A k \in Sources : Debounce(k) \in Nat /\ Debounce(k) >= 1
    BY DebounceType
<1>2. evidence \in [Sources -> Nat] /\ \A k \in Sources : evidence[k] <= Debounce(k)
    BY DEF TypeOK, EvidenceIsBounded
<1>3. handled' \subseteq Sources \X Severities
    BY DEF Remember
<1>4. CASE ~Configured(m)
    BY <1>2, <1>3, <1>4 DEF Remember
<1>5. CASE Configured(m) /\ severity = "INFO"
    <2>1. evidence' = [evidence EXCEPT ![m] = 0]
        BY <1>5 DEF Remember
    <2> QED  BY <1>1, <1>2, <1>3, <1>5, <2>1
<1>6. CASE Configured(m) /\ severity # "INFO"
    <2>1. evidence' = [evidence EXCEPT ![m] =
                 IF evidence[m] < Debounce(m) /\ (isNew \/ evidence[m] = 0)
                 THEN evidence[m] + 1 ELSE evidence[m]]
        BY <1>6 DEF Remember
    <2> QED  BY <1>1, <1>2, <1>3, <1>6, <2>1
<1> QED  BY <1>4, <1>5, <1>6

\* An event that does not heal keeps every proof of an alarm there was.
LEMMA EvidenceKept ==
    ASSUME TypeOK, EvidenceIsBounded,
           NEW m \in Sources, NEW severity \in Severities, NEW isNew \in BOOLEAN,
           Remember(m, severity, isNew),
           ~Configured(m) \/ severity # "INFO"
    PROVE  \A k \in Sources : /\ evidence[k] > 0 => evidence'[k] > 0
                              /\ EnoughEvidence(k) => EnoughEvidence(k)'
<1>1. evidence \in [Sources -> Nat]
    BY DEF TypeOK
<1>2. /\ evidence' \in [Sources -> Nat]
      /\ \A k \in Sources : evidence'[k] <= Debounce(k)
      /\ \A k \in Sources : k # m => evidence'[k] = evidence[k]
      /\ evidence'[m] >= evidence[m]
    BY RememberEffect
<1>3. \A k \in Sources : evidence'[k] >= evidence[k]
    BY <1>1, <1>2
<1>4. \A k \in Sources : Debounce(k) \in Nat
    BY DebounceType
<1> QED  BY <1>1, <1>2, <1>3, <1>4 DEF EnoughEvidence

(***************************************************************************)
(* Handling an event keeps the counters below what was observed, every     *)
(* alarm backed and the callback's owner informed.                         *)
(***************************************************************************)
LEMMA EventKeepsInv ==
    ASSUME TypeOK, CounterIsEvidence, AlarmIsBacked, ObserverKnowsState,
           EvidenceIsBounded,
           NEW m \in Sources, NEW severity \in Severities, NEW isNew \in BOOLEAN,
           m \notin Callers => isNew,
           state_cb' = state_cb,
           processMonitorResult(m, severity),
           Remember(m, severity, isNew)
    PROVE  /\ current_state' \in SeStates /\ view' \in SeStates
           /\ debounce_map' \in [Sources -> Nat]
           /\ evidence' \in [Sources -> Nat]
           /\ handled' \subseteq Sources \X Severities
           /\ CounterIsEvidence'
           /\ AlarmIsBacked'
           /\ ObserverKnowsState'
           /\ EvidenceIsBounded'
           /\ (current_state' \in {WARN, ERROR, FATAL} /\ current_state' # current_state)
                 => EnoughEvidence(m)'
           /\ current_state' < current_state
                 => /\ current_state # FATAL
                    /\ current_state' = RUNNING
                    /\ handled' = {<<m, "INFO">>}
                    /\ debounce_map'[m] = 0
<1> DEFINE target == seStateFromSeverity[severity]
<1>1. /\ evidence' \in [Sources -> Nat]
      /\ handled' \subseteq Sources \X Severities
      /\ EvidenceIsBounded'
    BY RememberEffect DEF EvidenceIsBounded, Debounce
<1>2. \A k \in Sources : Debounce(k) \in Nat /\ Debounce(k) >= 1
    BY DebounceType
<1>3. /\ current_state \in SeStates /\ view \in SeStates
      /\ debounce_map \in [Sources -> Nat]
      /\ evidence \in [Sources -> Nat]
    BY DEF TypeOK
<1>4. CASE Configured(m) /\ target = RUNNING
    <2>1. Recover(m)
        BY <1>4 DEF processMonitorResult
    <2>2. current_state' \in {RUNNING, FATAL}
        BY <2>1, RecoveryEffect DEF Recover
    <2>3. view' \in SeStates /\ current_state' \in SeStates /\ ObserverKnowsState'
        BY <2>1, TransitionEffect DEF Recover, SeStates, RUNNING, INIT, FATAL
    <2>4. /\ debounce_map' \in [Sources -> Nat] /\ debounce_map'[m] = 0
          /\ \A k \in Sources : k # m => debounce_map'[k] = debounce_map[k]
        BY <2>1, <1>3 DEF Recover
    <2>5. CounterIsEvidence'
        <3>1. \A k \in Sources : k # m => evidence'[k] = evidence[k]
            BY RememberEffect
        <3> QED  BY <2>4, <3>1, <1>1, <1>2 DEF CounterIsEvidence
    <2>6. AlarmIsBacked'
        BY <2>2 DEF AlarmIsBacked, RUNNING, FATAL, SUSPECT, WARN, ERROR
    <2>7. current_state' # current_state => current_state # FATAL /\ current_state' = RUNNING
        <3>1. ~isTransitionAllowed(FATAL, RUNNING)
            BY DEF isTransitionAllowed, g_transition_table, SeStates,
                   INIT, RUNNING, SUSPECT, WARN, ERROR, FATAL
        <3> QED  BY <2>1, <3>1 DEF Recover, transitionTo
    <2>8. handled' = {<<m, "INFO">>}
        BY <1>4, SeverityMap DEF Remember
    <2> QED  BY <1>1, <1>3, <2>3, <2>4, <2>5, <2>6, <2>7, <2>8
                DEF SeStates, INIT, RUNNING, WARN, ERROR, FATAL
<1>5. CASE Configured(m) /\ target # RUNNING /\ target > current_state
    <2>1. CountFault(m, target)
        BY <1>5 DEF processMonitorResult
    <2>2. severity # "INFO" /\ target \in {WARN, ERROR, FATAL} /\ target \in SeStates
        BY <1>5, SeverityMap DEF SeStates, INIT, WARN, ERROR, FATAL
    <2>3. \A k \in Sources : /\ evidence[k] > 0 => evidence'[k] > 0
                             /\ EnoughEvidence(k) => EnoughEvidence(k)'
        BY <2>2, EvidenceKept
    <2>4. /\ evidence'[m] > 0
          /\ evidence'[m] >= evidence[m]
          /\ \A k \in Sources : k # m => evidence'[k] = evidence[k]
          /\ isNew /\ evidence[m] < Debounce(m) => evidence'[m] = evidence[m] + 1
        BY <1>5, <2>2, RememberEffect
    <2>5. CASE debounce_map[m] + 1 >= Debounce(m)
        <3>1. transitionTo(target) /\ debounce_map' = [debounce_map EXCEPT ![m] = 0]
            BY <2>1, <2>5 DEF CountFault
        <3>2. /\ current_state' \in {current_state, target}
              /\ current_state' \in SeStates /\ view' \in SeStates /\ ObserverKnowsState'
            BY <3>1, <2>2, TransitionEffect
        <3>3. debounce_map' \in [Sources -> Nat] /\ CounterIsEvidence'
            BY <3>1, <2>4, <1>1, <1>2, <1>3 DEF CounterIsEvidence
        <3>4. EnoughEvidence(m)'
            <4>1. evidence'[m] \in Nat /\ evidence'[m] <= Debounce(m)
                BY <1>1 DEF EvidenceIsBounded, Debounce
            <4>2. CASE m \in Callers
                BY <2>4, <4>2 DEF EnoughEvidence
            <4>3. CASE m \notin Callers
                <5>1. debounce_map[m] <= evidence[m] /\ evidence[m] <= Debounce(m)
                    BY <4>3 DEF CounterIsEvidence, EvidenceIsBounded
                <5>2. evidence'[m] = Debounce(m)
                    BY <5>1, <4>1, <4>3, <2>4, <2>5, <1>2, <1>3
                <5> QED  BY <5>2 DEF EnoughEvidence, Debounce
            <4> QED  BY <4>2, <4>3
        <3>5. AlarmIsBacked'
            BY <3>2, <3>4, <2>2, <2>3 DEF AlarmIsBacked, SUSPECT, WARN, ERROR, FATAL
        <3> QED  BY <1>1, <1>3, <1>5, <2>2, <3>2, <3>3, <3>4, <3>5
                    DEF SeStates, INIT, FATAL
    <2>6. CASE ~(debounce_map[m] + 1 >= Debounce(m))
        <3>1. /\ debounce_map' = [debounce_map EXCEPT ![m] = @ + 1]
              /\ transitionTo(SUSPECT) \/ UNCHANGED <<current_state, view>>
            BY <2>1, <2>6 DEF CountFault
        <3>2. /\ current_state' \in {current_state, SUSPECT}
              /\ current_state' \in SeStates /\ view' \in SeStates /\ ObserverKnowsState'
            <4>1. SUSPECT \in SeStates
                BY DEF SeStates, INIT, SUSPECT, FATAL
            <4>2. CASE transitionTo(SUSPECT)
                BY <4>1, <4>2, TransitionEffect
            <4>3. CASE UNCHANGED <<current_state, view>>
                BY <4>3, <1>3 DEF ObserverKnowsState
            <4> QED  BY <3>1, <4>2, <4>3
        <3>3. debounce_map' \in [Sources -> Nat] /\ debounce_map'[m] = debounce_map[m] + 1
              /\ \A k \in Sources : k # m => debounce_map'[k] = debounce_map[k]
            BY <3>1, <1>3
        <3>4. m \notin Callers => debounce_map'[m] <= evidence'[m]
            <4>1. m \notin Callers => debounce_map[m] <= evidence[m]
                BY DEF CounterIsEvidence
            <4> QED  BY <4>1, <3>3, <2>4, <2>6, <1>1, <1>2, <1>3
        <3>5. CounterIsEvidence'
            <4>1. /\ debounce_map'[m] < Debounce(m)
                  /\ m \notin Callers => debounce_map'[m] <= evidence'[m]
                  /\ debounce_map'[m] > 0 => evidence'[m] > 0
                BY <3>3, <3>4, <2>4, <2>6, <1>2, <1>3
            <4>2. ASSUME NEW k \in Sources, k # m
                  PROVE  /\ debounce_map'[k] < Debounce(k)
                         /\ k \notin Callers => debounce_map'[k] <= evidence'[k]
                         /\ debounce_map'[k] > 0 => evidence'[k] > 0
                BY <4>2, <3>3, <2>4 DEF CounterIsEvidence
            <4> QED  BY <4>1, <4>2 DEF CounterIsEvidence, Debounce
        <3>6. AlarmIsBacked'
            BY <3>2, <2>3, <2>4 DEF AlarmIsBacked, SUSPECT, WARN, ERROR
        <3>7. current_state' # current_state => current_state = RUNNING /\ current_state' = SUSPECT
            BY <2>1, <2>6 DEF CountFault, transitionTo
        <3> QED  BY <1>1, <1>3, <3>2, <3>3, <3>5, <3>6, <3>7
                    DEF SeStates, INIT, RUNNING, SUSPECT, WARN, ERROR, FATAL
    <2> QED  BY <2>5, <2>6
<1>6. CASE ~Configured(m) \/ (target # RUNNING /\ ~(target > current_state))
    <2>1. UNCHANGED <<current_state, debounce_map, view>>
        BY <1>6 DEF processMonitorResult
    <2>2. ~Configured(m) \/ severity # "INFO"
        BY <1>6, SeverityMap
    <2>3. \A k \in Sources : /\ evidence[k] > 0 => evidence'[k] > 0
                             /\ EnoughEvidence(k) => EnoughEvidence(k)'
        BY <2>2, EvidenceKept
    <2>4. \A k \in Sources : evidence'[k] >= evidence[k]
        BY <2>2, <1>1, <1>3, RememberEffect
    <2>5. CounterIsEvidence'
        BY <2>1, <2>3, <2>4, <1>1, <1>2, <1>3 DEF CounterIsEvidence, Debounce
    <2>6. AlarmIsBacked'
        BY <2>1, <2>3 DEF AlarmIsBacked
    <2> QED  BY <1>1, <1>3, <2>1, <2>5, <2>6 DEF ObserverKnowsState, SeStates, INIT, FATAL
<1> QED  BY <1>4, <1>5, <1>6

-----------------------------------------------------------------------------
(* The inductive invariant *)

\* The event of a push, and the event a callback gets from inside a check.
LEMMA PushKeepsInv ==
    ASSUME IInv, NEW m \in Sources, NEW severity \in Severities,
           onMonitorEvent(m, severity), UNCHANGED <<monitors, state_cb, cursor>>,
           raised' \in {raised, severity},
           raised' # NoEvent => cursor # 0 /\ monitors[cursor] \in Callers
    PROVE  IInv'
<1>1. pending_events' \in 0 .. MaxPending
    BY SEAssumption DEF SEAssumption, IInv, TypeOK, onMonitorEvent, pushPending
<1>2. /\ current_state' \in SeStates /\ view' \in SeStates
      /\ debounce_map' \in [Sources -> Nat] /\ evidence' \in [Sources -> Nat]
      /\ handled' \subseteq Sources \X Severities
      /\ CounterIsEvidence' /\ AlarmIsBacked' /\ ObserverKnowsState'
      /\ EvidenceIsBounded'
    BY EventKeepsInv DEF IInv, onMonitorEvent
<1>3. TypeOK'
    BY <1>1, <1>2 DEF IInv, TypeOK
<1>4. RaisedByCaller'
    BY DEF RaisedByCaller
<1> QED  BY <1>2, <1>3, <1>4 DEF IInv

\* Leaving a monitor: the cursor stays inside the list or ends the check.
LEMMA NextMonitorType ==
    ASSUME TypeOK, cursor # 0, nextMonitor
    PROVE  /\ monitors' \in Seq(Monitors)
           /\ pending_events' \in 0 .. MaxPending
           /\ state_cb' \in BOOLEAN
           /\ cursor' \in 0 .. Len(monitors')
           /\ raised' \in Severities \cup {NoEvent}
           /\ RaisedByCaller'
BY DEF TypeOK, nextMonitor, RaisedByCaller

\* The monitor of the running check is a source.
LEMMA CheckedIsSource ==
    ASSUME TypeOK, cursor # 0
    PROVE  monitors[cursor] \in Sources
BY SEAssumption DEF SEAssumption, TypeOK

LEMMA InitInv == Init => IInv
<1> SUFFICES ASSUME Init PROVE IInv
    OBVIOUS
<1>1. \A m \in Sources : Debounce(m) \in Nat /\ Debounce(m) >= 1
    BY DebounceType
<1>2. TypeOK
    <2>1. /\ monitors \in Seq(Monitors) /\ Len(monitors) = 0
          /\ MaxPending \in Nat
        BY SEAssumption DEF SEAssumption, Init
    <2>2. /\ debounce_map \in [Sources -> Nat] /\ evidence \in [Sources -> Nat]
          /\ handled \subseteq Sources \X Severities
        BY DEF Init
    <2>3. /\ current_state \in SeStates /\ view \in SeStates
          /\ pending_events = 0 /\ cursor = 0
        BY DEF Init, SeStates, INIT, FATAL
    <2>4. raised \in Severities \cup {NoEvent} /\ state_cb \in BOOLEAN
        BY DEF Init
    <2> QED  BY <2>1, <2>2, <2>3, <2>4 DEF TypeOK
<1> QED
    BY <1>1, <1>2 DEF Init, IInv, CounterIsEvidence, AlarmIsBacked, ObserverKnowsState,
       EvidenceIsBounded, RaisedByCaller, INIT, SUSPECT, WARN, ERROR

LEMMA StepInv == IInv /\ [Next]_vars => IInv'
<1> SUFFICES ASSUME IInv, [Next]_vars PROVE IInv'
    OBVIOUS
<1> USE DEF IInv
<1>1. ASSUME NEW m \in Monitors, registerMonitor(m) PROVE IInv'
    <2>1. monitors' \in Seq(Monitors)
        BY <1>1 DEF registerMonitor, TypeOK
    <2>2. TypeOK' /\ RaisedByCaller'
        BY <1>1, <2>1 DEF registerMonitor, TypeOK, RaisedByCaller
    <2> QED  BY <1>1, <2>2 DEF registerMonitor, CounterIsEvidence, AlarmIsBacked,
                ObserverKnowsState, EvidenceIsBounded, EnoughEvidence, Debounce
<1>2. ASSUME NEW all_ok \in BOOLEAN, start(all_ok) PROVE IInv'
    <2>1. /\ UNCHANGED <<debounce_map, evidence, state_cb, raised, cursor, monitors>>
          /\ current_state' = current_state \/ current_state' = RUNNING
          /\ current_state' \in SeStates /\ view' \in SeStates
          /\ ObserverKnowsState'
        BY <1>2, TransitionEffect
           DEF start, TypeOK, ObserverKnowsState, SeStates, INIT, RUNNING, FATAL
    <2>2. TypeOK'
        BY <1>2, <2>1 DEF start, TypeOK
    <2>3. AlarmIsBacked'
        BY <2>1 DEF AlarmIsBacked, EnoughEvidence, Debounce, RUNNING, SUSPECT, WARN, ERROR
    <2> QED  BY <2>1, <2>2, <2>3 DEF CounterIsEvidence, EvidenceIsBounded, RaisedByCaller, Debounce
<1>3. CASE reset
    <2>1. \A m \in Sources : Debounce(m) \in Nat /\ Debounce(m) >= 1
        BY DebounceType
    <2>2. TypeOK'
        BY <1>3, SEAssumption DEF SEAssumption, reset, TypeOK, SeStates, INIT, FATAL
    <2> QED  BY <1>3, <2>1, <2>2 DEF reset, CounterIsEvidence, AlarmIsBacked,
                ObserverKnowsState, EvidenceIsBounded, RaisedByCaller, Debounce,
                INIT, SUSPECT, WARN, ERROR
<1>4. CASE drainEvents
    <2>1. TypeOK'
        BY <1>4, SEAssumption DEF SEAssumption, drainEvents, TypeOK
    <2> QED  BY <1>4, <2>1 DEF drainEvents, CounterIsEvidence, AlarmIsBacked,
                ObserverKnowsState, EvidenceIsBounded, RaisedByCaller, EnoughEvidence, Debounce
<1>5. ASSUME NEW installed \in BOOLEAN, setStateChangeCallback(installed) PROVE IInv'
    <2>1. TypeOK'
        BY <1>5 DEF setStateChangeCallback, TypeOK
    <2>2. ObserverKnowsState'
        BY <1>5 DEF setStateChangeCallback, ObserverKnowsState
    <2> QED  BY <1>5, <2>1, <2>2 DEF setStateChangeCallback, CounterIsEvidence, AlarmIsBacked,
                EvidenceIsBounded, RaisedByCaller, EnoughEvidence, Debounce
<1>6. ASSUME NEW m \in Sources, NEW s \in Severities, reportEvent(m, s) PROVE IInv'
    BY <1>6, PushKeepsInv DEF reportEvent, RaisedByCaller
<1>7. CASE beginCheckAll
    <2>1. TypeOK' /\ RaisedByCaller'
        BY <1>7 DEF beginCheckAll, TypeOK, RaisedByCaller
    <2> QED  BY <1>7, <2>1 DEF beginCheckAll, CounterIsEvidence, AlarmIsBacked,
                ObserverKnowsState, EvidenceIsBounded, EnoughEvidence, Debounce
<1>8. ASSUME NEW s \in Severities, checkRaises(s) PROVE IInv'
    <2>1. monitors[cursor] \in Sources
        BY <1>8, CheckedIsSource DEF checkRaises
    <2> QED  BY <1>8, <2>1, PushKeepsInv DEF checkRaises
<1>9. ASSUME NEW s \in Severities, checkReturns(s) PROVE IInv'
    <2> DEFINE m == monitors[cursor]
               isNew == raised = NoEvent
    <2>1. m \in Sources /\ isNew \in BOOLEAN /\ (m \notin Callers => isNew)
        BY <1>9, CheckedIsSource DEF checkReturns, RaisedByCaller
    <2>2. processMonitorResult(m, s) /\ Remember(m, s, isNew) /\ state_cb' = state_cb
        BY <1>9 DEF checkReturns, nextMonitor
    <2> HIDE DEF m, isNew
    <2>3. /\ current_state' \in SeStates /\ view' \in SeStates
          /\ debounce_map' \in [Sources -> Nat] /\ evidence' \in [Sources -> Nat]
          /\ handled' \subseteq Sources \X Severities
          /\ CounterIsEvidence' /\ AlarmIsBacked' /\ ObserverKnowsState'
          /\ EvidenceIsBounded'
        BY <2>1, <2>2, EventKeepsInv
    <2>4. TypeOK' /\ RaisedByCaller'
        BY <1>9, <2>3, NextMonitorType DEF checkReturns, TypeOK
    <2> QED  BY <2>3, <2>4
<1>10. CASE checkReturnsEmpty
    <2>1. TypeOK' /\ RaisedByCaller'
        BY <1>10, NextMonitorType DEF checkReturnsEmpty, TypeOK
    <2> QED  BY <1>10, <2>1 DEF checkReturnsEmpty, nextMonitor, CounterIsEvidence, AlarmIsBacked,
                ObserverKnowsState, EvidenceIsBounded, EnoughEvidence, Debounce
<1>11. CASE UNCHANGED vars
    <2>1. TypeOK' /\ RaisedByCaller'
        BY <1>11 DEF vars, TypeOK, RaisedByCaller
    <2> QED  BY <1>11, <2>1 DEF vars, CounterIsEvidence, AlarmIsBacked, ObserverKnowsState,
                EvidenceIsBounded, EnoughEvidence, Debounce
<1> QED
    BY <1>1, <1>2, <1>3, <1>4, <1>5, <1>6, <1>7, <1>8, <1>9, <1>10, <1>11 DEF Next

(***************************************************************************)
(* The inductive invariant holds in every reachable state, for every set   *)
(* of sources, monitors, configurations and callers.                       *)
(***************************************************************************)
THEOREM Invariance == Spec => []IInv
BY InitInv, StepInv, PTL DEF Spec

(***************************************************************************)
(* Type correctness of the entity.                                         *)
(***************************************************************************)
THEOREM TypeCorrect == Spec => []TypeOK
<1>1. IInv => TypeOK
    BY DEF IInv
<1> QED  BY <1>1, Invariance, PTL

(***************************************************************************)
(* The debounce counters stay below their thresholds and never exceed what *)
(* was observed (processMonitorResult).                                    *)
(***************************************************************************)
THEOREM CountersAreEvidence == Spec => []CounterIsEvidence
<1>1. IInv => CounterIsEvidence
    BY DEF IInv
<1> QED  BY <1>1, Invariance, PTL

(***************************************************************************)
(* SUSPECT, WARN and ERROR stand on unrecovered evidence.                  *)
(***************************************************************************)
THEOREM AlarmsAreBacked == Spec => []AlarmIsBacked
<1>1. IInv => AlarmIsBacked
    BY DEF IInv
<1> QED  BY <1>1, Invariance, PTL

(***************************************************************************)
(* The owner of an installed callback knows the state, but for a reset.    *)
(***************************************************************************)
THEOREM ObserversKnow == Spec => []ObserverKnowsState
<1>1. IInv => ObserverKnowsState
    BY DEF IInv
<1> QED  BY <1>1, Invariance, PTL

-----------------------------------------------------------------------------
(* The action properties *)

Rises     == current_state' \in {WARN, ERROR, FATAL} /\ current_state' # current_state
Justified == \E e \in handled' : EnoughEvidence(e[1])'
Lowers    == current_state' < current_state

LEMMA RisesAreJustified == ASSUME IInv, [Next]_vars, Rises PROVE Justified
<1> USE DEF Rises, Justified
<1>1. ASSUME NEW m \in Sources, NEW s \in Severities, NEW isNew \in BOOLEAN,
             m \notin Callers => isNew, state_cb' = state_cb,
             processMonitorResult(m, s), Remember(m, s, isNew)
      PROVE  Justified
    <2>1. EnoughEvidence(m)'
        BY <1>1, EventKeepsInv DEF IInv
    <2>2. <<m, s>> \in handled'
        BY <1>1 DEF Remember
    <2> QED  BY <2>1, <2>2
<1>2. ASSUME NEW m \in Sources, NEW s \in Severities, reportEvent(m, s) PROVE Justified
    BY <1>1, <1>2 DEF reportEvent, onMonitorEvent
<1>3. ASSUME NEW s \in Severities, checkRaises(s) PROVE Justified
    BY <1>1, <1>3, CheckedIsSource DEF checkRaises, onMonitorEvent, IInv
<1>4. ASSUME NEW s \in Severities, checkReturns(s) PROVE Justified
    <2>1. /\ monitors[cursor] \in Sources
          /\ monitors[cursor] \notin Callers => raised = NoEvent
        BY <1>4, CheckedIsSource DEF checkReturns, IInv, RaisedByCaller
    <2>2. (raised = NoEvent) \in BOOLEAN
        OBVIOUS
    <2> QED  BY <1>1, <1>4, <2>1, <2>2 DEF checkReturns, nextMonitor
<1>5. ASSUME NEW all_ok \in BOOLEAN, start(all_ok) PROVE FALSE
    BY <1>5 DEF start, transitionTo, RUNNING, WARN, ERROR, FATAL
<1>6. CASE reset
    BY <1>6 DEF reset, INIT, WARN, ERROR, FATAL
<1> QED
    BY <1>2, <1>3, <1>4, <1>5, <1>6
       DEF Next, vars, registerMonitor, drainEvents, setStateChangeCallback,
           beginCheckAll, checkReturnsEmpty

LEMMA LowersAreRecoveries == ASSUME IInv, [Next]_vars, Lowers PROVE RecoveredOrReset
<1> USE DEF Lowers
<1>1. ASSUME NEW m \in Sources, NEW s \in Severities, NEW isNew \in BOOLEAN,
             m \notin Callers => isNew, state_cb' = state_cb,
             processMonitorResult(m, s), Remember(m, s, isNew)
      PROVE  RecoveredOrReset
    BY <1>1, EventKeepsInv DEF IInv, RecoveredOrReset
<1>2. ASSUME NEW m \in Sources, NEW s \in Severities, reportEvent(m, s) PROVE RecoveredOrReset
    BY <1>1, <1>2 DEF reportEvent, onMonitorEvent
<1>3. ASSUME NEW s \in Severities, checkRaises(s) PROVE RecoveredOrReset
    BY <1>1, <1>3, CheckedIsSource DEF checkRaises, onMonitorEvent, IInv
<1>4. ASSUME NEW s \in Severities, checkReturns(s) PROVE RecoveredOrReset
    <2>1. /\ monitors[cursor] \in Sources
          /\ monitors[cursor] \notin Callers => raised = NoEvent
        BY <1>4, CheckedIsSource DEF checkReturns, IInv, RaisedByCaller
    <2>2. (raised = NoEvent) \in BOOLEAN
        OBVIOUS
    <2> QED  BY <1>1, <1>4, <2>1, <2>2 DEF checkReturns, nextMonitor
<1>5. CASE reset
    BY <1>5 DEF reset, RecoveredOrReset
<1>6. ~(current_state < current_state)
    BY DEF IInv, TypeOK, SeStates, INIT, FATAL
<1>7. ASSUME NEW all_ok \in BOOLEAN, start(all_ok) PROVE FALSE
    BY <1>6, <1>7 DEF start, transitionTo, INIT, RUNNING
<1> QED
    BY <1>2, <1>3, <1>4, <1>5, <1>6, <1>7
       DEF Next, vars, registerMonitor, drainEvents, setStateChangeCallback,
           beginCheckAll, checkReturnsEmpty

(***************************************************************************)
(* The state rises to WARN, ERROR or FATAL only on an event of a source    *)
(* that has itself been observed abnormal as often as configured.          *)
(***************************************************************************)
THEOREM EscalationsAreJustified == Spec => EscalationIsJustified
<1>1. IInv /\ [Next]_vars => [Rises => Justified]_vars
    BY RisesAreJustified
<1> QED  BY <1>1, Invariance, PTL DEF Spec, EscalationIsJustified, Rises, Justified

(***************************************************************************)
(* The state becomes better only by an INFO event, which clears the        *)
(* counter of its source, or by reset(), which clears everything; FATAL is *)
(* left only by reset().                                                   *)
(***************************************************************************)
THEOREM OnlyRecoveryLowersState == Spec => OnlyRecoveryLowers
<1>1. IInv /\ [Next]_vars => [Lowers => RecoveredOrReset]_vars
    BY LowersAreRecoveries
<1> QED  BY <1>1, Invariance, PTL DEF Spec, OnlyRecoveryLowers, Lowers

-----------------------------------------------------------------------------
(* The alarm it implements *)

\* One more abnormal event of a configured source, as the alarm counts it.
LEMMA RememberIsObserve ==
    ASSUME TypeOK, EvidenceIsBounded,
           NEW m \in Heard, NEW severity \in Severities, NEW isNew \in BOOLEAN,
           Remember(m, severity, isNew)
    PROVE  /\ severity # "INFO" => Alarm!Observe(m)
           /\ severity = "INFO" =>
                 [k \in Heard |-> evidence'[k]] = [[k \in Heard |-> evidence[k]] EXCEPT ![m] = 0]
<1> DEFINE obs == [k \in Heard |-> evidence[k]]
<1>1. Heard \subseteq Sources /\ Configured(m) /\ evidence \in [Sources -> Nat]
    BY DEF Heard, TypeOK
<1>2. \A k \in Sources : /\ Debounce(k) \in Nat /\ Debounce(k) >= 1
                         /\ evidence[k] <= Debounce(k)
    BY DebounceType DEF EvidenceIsBounded
<1>3. ASSUME severity = "INFO" PROVE [k \in Heard |-> evidence'[k]] = [obs EXCEPT ![m] = 0]
    BY <1>1, <1>3 DEF Remember
<1>4. ASSUME severity # "INFO" PROVE Alarm!Observe(m)
    <2>1. \/ evidence' = evidence /\ evidence[m] > 0
          \/ /\ evidence' = [evidence EXCEPT ![m] = evidence[m] + 1]
             /\ evidence[m] < Debounce(m)
        <3>1. evidence' = [evidence EXCEPT ![m] =
                     IF evidence[m] < Debounce(m) /\ (isNew \/ evidence[m] = 0)
                     THEN evidence[m] + 1 ELSE evidence[m]]
            BY <1>1, <1>4 DEF Remember
        <3>2. [evidence EXCEPT ![m] = evidence[m]] = evidence
            BY <1>1
        <3>3. /\ evidence[m] \in Nat /\ Debounce(m) \in Nat /\ Debounce(m) >= 1
              /\ evidence[m] <= Debounce(m)
            BY <1>1, <1>2
        <3>4. CASE evidence[m] < Debounce(m) /\ (isNew \/ evidence[m] = 0)
            BY <3>1, <3>4
        <3>5. CASE ~(evidence[m] < Debounce(m) /\ (isNew \/ evidence[m] = 0))
            <4>1. evidence[m] > 0
                BY <3>3, <3>5
            <4>2. evidence' = [evidence EXCEPT ![m] = evidence[m]]
                BY <3>1, <3>5
            <4> QED
                BY <3>2, <4>1, <4>2
        <3> QED
            BY <3>4, <3>5
    <2>2. CASE evidence' = evidence /\ evidence[m] > 0
        BY <1>1, <1>2, <2>2 DEF Alarm!Observe
    <2>3. CASE evidence' = [evidence EXCEPT ![m] = evidence[m] + 1] /\ evidence[m] < Debounce(m)
        <3>1. [k \in Heard |-> evidence'[k]] = [obs EXCEPT ![m] = @ + 1]
            BY <1>1, <2>3
        <3>2. evidence'[m] \in 1 .. Debounce(m)
            BY <1>1, <1>2, <2>3
        <3> QED
            BY <3>1, <3>2 DEF Alarm!Observe
    <2> QED
        BY <2>1, <2>2, <2>3
<1> QED
    BY <1>3, <1>4

\* What the transition table refuses: alarms of an entity that is not supervised,
\* and everything once the entity is FATAL.
LEMMA TableRefuses ==
    /\ \A s \in {WARN, ERROR, FATAL} : ~isTransitionAllowed(INIT, s)
    /\ \A s \in SeStates : ~isTransitionAllowed(FATAL, s)
    /\ \A s \in SeStates \ {RUNNING, FATAL} : isTransitionAllowed(s, RUNNING)
BY DEF isTransitionAllowed, g_transition_table, SeStates, INIT, RUNNING, SUSPECT, WARN, ERROR, FATAL

alarmVars == <<current_state, [k \in Heard |-> evidence[k]]>>

(***************************************************************************)
(* Handling an event is a step of the alarm, or none: the event of a       *)
(* source without configuration, and the second of two equal ones.         *)
(***************************************************************************)
LEMMA EventIsAlarm ==
    ASSUME IInv, NEW m \in Sources, NEW severity \in Severities, NEW isNew \in BOOLEAN,
           m \notin Callers => isNew, state_cb' = state_cb,
           processMonitorResult(m, severity), Remember(m, severity, isNew)
    PROVE  [Alarm!AlarmNext]_alarmVars
<1> DEFINE target == seStateFromSeverity[severity]
<1> USE DEF IInv
<1>1. CASE ~Configured(m)
    BY <1>1 DEF Remember, processMonitorResult, alarmVars
<1>2. CASE Configured(m) /\ severity = "INFO"
    <2>1. m \in Heard /\ Recover(m)
        BY <1>2, SeverityMap DEF Heard, processMonitorResult
    <2>2. current_state' = IF current_state = FATAL THEN FATAL ELSE RUNNING
        <3>1. current_state \in SeStates
            BY DEF TypeOK
        <3>2. RUNNING \in SeStates
            BY DEF SeStates, INIT, RUNNING, FATAL
        <3> QED
            BY <2>1, <3>1, <3>2, TableRefuses DEF Recover, transitionTo
    <2>3. Alarm!Recovery(m)
        BY <1>2, <2>1, <2>2, RememberIsObserve DEF Alarm!Recovery, Alarm!FATAL, Alarm!RUNNING, FATAL, RUNNING
    <2> QED
        BY <2>1, <2>3 DEF Alarm!AlarmNext
<1>3. CASE Configured(m) /\ severity # "INFO"
    <2>1. m \in Heard /\ Alarm!Observe(m)
        BY <1>3, RememberIsObserve DEF Heard
    <2>2. target \in {WARN, ERROR, FATAL} /\ current_state \in SeStates
        BY <1>3, SeverityMap DEF TypeOK
    <2>3. \/ current_state' = current_state
          \/ current_state = RUNNING /\ current_state' = SUSPECT
          \/ /\ current_state' = target /\ target > current_state
             /\ isTransitionAllowed(current_state, target)
        <3>1. \/ CountFault(m, target) /\ target > current_state
              \/ current_state' = current_state
            BY <1>3, <2>2 DEF processMonitorResult, RUNNING, WARN, ERROR, FATAL
        <3> QED
            BY <3>1 DEF CountFault, transitionTo
    <2>4. CASE current_state' = current_state \/ (current_state = RUNNING /\ current_state' = SUSPECT)
        <3>1. Alarm!Suspect(m)
            BY <2>1, <2>4 DEF Alarm!Suspect, Alarm!RUNNING, Alarm!SUSPECT, RUNNING, SUSPECT
        <3> QED
            BY <2>1, <3>1 DEF Alarm!AlarmNext
    <2>5. CASE /\ current_state' = target /\ target > current_state
               /\ isTransitionAllowed(current_state, target)
        <3>1. current_state # INIT /\ current_state # FATAL
            BY <2>2, <2>5, TableRefuses DEF SeStates, INIT, WARN, ERROR, FATAL
        <3>2. current_state \in {RUNNING, SUSPECT, WARN, ERROR}
            BY <3>1, <2>2 DEF SeStates, INIT, RUNNING, SUSPECT, WARN, ERROR, FATAL
        <3>3. EnoughEvidence(m)'
            <4>1. current_state' # current_state
                BY <2>2, <2>5 DEF SeStates, INIT, FATAL
            <4> QED
                BY <2>2, <2>5, <4>1, EventKeepsInv
        <3>4. Alarm!Confirmed(m)'
            BY <2>1, <3>3 DEF EnoughEvidence, Alarm!Confirmed, Heard, Debounce
        <3>5. Alarm!Raise(m)
            BY <2>1, <2>2, <2>5, <3>2, <3>4
               DEF Alarm!Raise, Alarm!RUNNING, Alarm!SUSPECT, Alarm!WARN, Alarm!ERROR, Alarm!FATAL,
                   RUNNING, SUSPECT, WARN, ERROR, FATAL
        <3> QED
            BY <2>1, <3>5 DEF Alarm!AlarmNext
    <2> QED
        BY <2>3, <2>4, <2>5
<1> QED
    BY <1>1, <1>2, <1>3

LEMMA StepIsAlarm == IInv /\ [Next]_vars => [Alarm!AlarmNext]_alarmVars
<1> SUFFICES ASSUME IInv, [Next]_vars PROVE [Alarm!AlarmNext]_alarmVars
    OBVIOUS
<1>1. ASSUME NEW all_ok \in BOOLEAN, start(all_ok) PROVE [Alarm!AlarmNext]_alarmVars
    <2>1. evidence' = evidence
        BY <1>1 DEF start
    <2>2. current_state' = current_state \/ (current_state = INIT /\ current_state' = RUNNING)
        BY <1>1 DEF start, transitionTo
    <2> QED
        BY <2>1, <2>2 DEF alarmVars, Alarm!AlarmNext, Alarm!Begin, Alarm!INIT, Alarm!RUNNING,
                          INIT, RUNNING
<1>2. CASE reset
    BY <1>2 DEF reset, Alarm!AlarmNext, Alarm!Forget, Heard, Alarm!INIT, INIT
<1>3. ASSUME NEW m \in Sources, NEW s \in Severities, reportEvent(m, s)
      PROVE [Alarm!AlarmNext]_alarmVars
    BY <1>3, EventIsAlarm DEF reportEvent, onMonitorEvent
<1>4. ASSUME NEW s \in Severities, checkRaises(s) PROVE [Alarm!AlarmNext]_alarmVars
    BY <1>4, CheckedIsSource, EventIsAlarm DEF IInv, checkRaises, onMonitorEvent
<1>5. ASSUME NEW s \in Severities, checkReturns(s) PROVE [Alarm!AlarmNext]_alarmVars
    <2>1. /\ monitors[cursor] \in Sources
          /\ monitors[cursor] \notin Callers => raised = NoEvent
        BY <1>5, CheckedIsSource DEF checkReturns, IInv, RaisedByCaller
    <2>2. (raised = NoEvent) \in BOOLEAN
        OBVIOUS
    <2> QED
        BY <1>5, <2>1, <2>2, EventIsAlarm DEF checkReturns, nextMonitor
<1> QED
    BY <1>1, <1>2, <1>3, <1>4, <1>5
       DEF Next, vars, alarmVars, registerMonitor, drainEvents, setStateChangeCallback,
           beginCheckAll, checkReturnsEmpty

(***************************************************************************)
(* The entity implements the alarm of DebouncedAlarm: with any number of   *)
(* sources, thresholds and threads that report, its counters and its       *)
(* transition table do no more than the alarm allows.                      *)
(***************************************************************************)
THEOREM EntityImplementsAlarm == Spec => ImplementsAlarm
<1>1. Init => Alarm!AlarmInit
    BY DEF Init, Alarm!AlarmInit, Heard, Alarm!INIT, INIT
<1>2. IInv /\ [Next]_vars => [Alarm!AlarmNext]_<<current_state, [m \in Heard |-> evidence[m]]>>
    BY StepIsAlarm DEF alarmVars
<1> QED
    BY <1>1, <1>2, Invariance, PTL DEF Spec, ImplementsAlarm, Alarm!AlarmSpec

-----------------------------------------------------------------------------
(* What the alarm promises whoever reads it *)

\* The alarm, and for each level but FATAL what stands behind it.
AlarmRests ==
    /\ current_state \in SeStates
    /\ \A m \in Heard : evidence[m] \in 0 .. Debounce(m)
    /\ current_state = SUSPECT => \E m \in Heard : evidence[m] > 0
    /\ current_state \in {WARN, ERROR} => \E m \in Heard : EnoughEvidence(m)

\* One more observation of m takes no evidence away.
LEMMA ObserveEffect ==
    ASSUME AlarmRests, NEW m \in Heard, Alarm!Observe(m)
    PROVE  /\ evidence'[m] \in 1 .. Debounce(m)
           /\ \A k \in Heard : evidence'[k] \in evidence[k] .. Debounce(k)
<1> DEFINE obs == [k \in Heard |-> evidence[k]]
<1>1. \A k \in Heard : Debounce(k) \in Nat /\ Debounce(k) >= 1 /\ evidence[k] \in 0 .. Debounce(k)
    BY DebounceType DEF Heard, AlarmRests
<1>2. /\ obs' \in {obs, [obs EXCEPT ![m] = @ + 1]}
      /\ evidence'[m] \in 1 .. Debounce(m)
    BY DEF Alarm!Observe
<1>3. \A k \in Heard : obs[k] = evidence[k] /\ obs'[k] = evidence'[k]
    OBVIOUS
<1>4. \A k \in Heard \ {m} : evidence'[k] = evidence[k]
    BY <1>2, <1>3
<1>5. evidence'[m] \in {evidence[m], evidence[m] + 1}
    BY <1>2, <1>3
<1> QED
    BY <1>1, <1>2, <1>4, <1>5

LEMMA AlarmStepRests ==
    ASSUME AlarmRests, [Alarm!AlarmNext]_alarmVars PROVE AlarmRests'
<1> USE DEF SeStates, INIT, RUNNING, SUSPECT, WARN, ERROR, FATAL,
            Alarm!INIT, Alarm!RUNNING, Alarm!SUSPECT, Alarm!WARN, Alarm!ERROR, Alarm!FATAL
<1> DEFINE obs == [k \in Heard |-> evidence[k]]
<1>1. \A k \in Heard : /\ Debounce(k) \in Nat /\ Debounce(k) >= 1
                      /\ obs[k] = evidence[k] /\ obs'[k] = evidence'[k]
    BY DebounceType DEF Heard
<1>2. ASSUME obs' = obs, current_state' \in {current_state, RUNNING} PROVE AlarmRests'
    <2>1. \A k \in Heard : evidence'[k] = evidence[k]
        BY <1>1, <1>2
    <2>2. \A k \in Heard : EnoughEvidence(k) => EnoughEvidence(k)'
        BY <2>1 DEF EnoughEvidence
    <2> QED
        BY <1>2, <2>1, <2>2 DEF AlarmRests
<1>3. CASE Alarm!Forget
    <2>1. current_state' = INIT /\ \A k \in Heard : evidence'[k] = 0
        BY <1>1, <1>3 DEF Alarm!Forget
    <2> QED
        BY <1>1, <2>1 DEF AlarmRests
<1>4. ASSUME NEW m \in Heard, Alarm!Suspect(m) PROVE AlarmRests'
    <2>1. Alarm!Observe(m) /\ current_state' \in {current_state, SUSPECT}
        BY <1>4 DEF Alarm!Suspect
    <2>2. /\ evidence'[m] > 0
          /\ \A k \in Heard : evidence'[k] \in evidence[k] .. Debounce(k) /\ evidence[k] \in Nat
        BY <1>1, <2>1, ObserveEffect DEF AlarmRests
    <2>3. \A k \in Heard : EnoughEvidence(k) => EnoughEvidence(k)'
        BY <1>1, <2>2 DEF EnoughEvidence, AlarmRests
    <2> QED
        BY <1>1, <2>1, <2>2, <2>3 DEF AlarmRests
<1>5. ASSUME NEW m \in Heard, Alarm!Raise(m) PROVE AlarmRests'
    <2>1. Alarm!Observe(m) /\ current_state' \in {WARN, ERROR, FATAL}
        BY <1>5 DEF Alarm!Raise
    <2>2. evidence'[m] = Debounce(m) \/ m \in Callers
        BY <1>1, <1>5 DEF Alarm!Raise, Alarm!Confirmed
    <2>3. EnoughEvidence(m)'
        BY <1>1, <2>1, <2>2, ObserveEffect DEF EnoughEvidence
    <2>4. \A k \in Heard : evidence'[k] \in 0 .. Debounce(k)
        BY <1>1, <2>1, ObserveEffect DEF AlarmRests
    <2> QED
        BY <2>1, <2>3, <2>4 DEF AlarmRests
<1>6. ASSUME NEW m \in Heard, Alarm!Recovery(m) PROVE AlarmRests'
    <2>1. /\ obs' = [obs EXCEPT ![m] = 0]
          /\ current_state' \in {RUNNING, FATAL}
        BY <1>6 DEF Alarm!Recovery
    <2>2. \A k \in Heard : evidence'[k] \in {0, evidence[k]}
        BY <1>1, <2>1
    <2> QED
        BY <1>1, <2>1, <2>2 DEF AlarmRests
<1>7. Alarm!Begin \/ UNCHANGED alarmVars
      => obs' = obs /\ current_state' \in {current_state, RUNNING}
    BY DEF Alarm!Begin, alarmVars
<1> QED
    BY <1>2, <1>3, <1>4, <1>5, <1>6, <1>7 DEF Alarm!AlarmNext

(***************************************************************************)
(* Whatever implements the alarm keeps its word on the levels: one that    *)
(* reads SUSPECT, WARN or ERROR has a source that was seen abnormal, for   *)
(* WARN and ERROR as often as configured, since it last recovered.         *)
(***************************************************************************)
THEOREM AlarmsRestOnEvidence == ImplementsAlarm => []AlarmIsBacked
<1>1. Alarm!AlarmInit => AlarmRests
    BY DebounceType DEF Alarm!AlarmInit, AlarmRests, Heard, SeStates, INIT, SUSPECT, WARN, ERROR,
                        FATAL, Alarm!INIT
<1>2. AlarmRests /\ [Alarm!AlarmNext]_<<current_state, [m \in Heard |-> evidence[m]]>>
      => AlarmRests'
    BY AlarmStepRests DEF alarmVars
<1>3. AlarmRests => AlarmIsBacked
    BY DEF AlarmRests, AlarmIsBacked, Heard
<1> QED
    BY <1>1, <1>2, <1>3, PTL DEF ImplementsAlarm, Alarm!AlarmSpec

-----------------------------------------------------------------------------
(***************************************************************************)
(* A persistent error is raised.  While nothing heals, the state only gets *)
(* worse; as long as it stays where it is, every report of m that would    *)
(* make it worse counts, and those that would not leave the counter alone. *)
(***************************************************************************)
Fresh   == current_state = INIT
Low     == current_state \in {RUNNING, SUSPECT}
Mid     == current_state = WARN
Settled == current_state \in {ERROR, FATAL}

Count(m, k) == debounce_map[m] = k

\* The state stays in its class.
Same == (Low /\ Low') \/ (Mid /\ Mid')

\* What handling an event does, that does not heal, to the state and to the
\* counter of m.
LEMMA EventGrinds ==
    ASSUME TypeOK, NEW k \in Sources, NEW s \in Severities, processMonitorResult(k, s),
           ~Configured(k) \/ s # "INFO",
           NEW m \in Sources, Configured(m), ~(k = m /\ s = "FATAL")
    PROVE  /\ ~Fresh => ~Fresh'
           /\ Low => Low' \/ Mid' \/ Settled'
           /\ Mid => Mid' \/ Settled'
           /\ Settled => Settled'
           /\ Same => \/ debounce_map'[m] = debounce_map[m] /\ ~(k = m /\ s = "ERROR")
                      \/ debounce_map'[m] = debounce_map[m] + 1
<1> DEFINE target == seStateFromSeverity[s]
<1> USE DEF Fresh, Low, Mid, Settled, Same
<1>1. /\ current_state \in SeStates
      /\ debounce_map \in [Sources -> Nat]
      /\ s # "INFO" => target \in {WARN, ERROR, FATAL}
      /\ s = "ERROR" => target = ERROR
      /\ s # "FATAL" => target # FATAL
    BY SeverityMap DEF TypeOK, seStateFromSeverity, Severities, RUNNING, WARN, ERROR, FATAL
<1>2. CASE Configured(k) /\ target > current_state
    <2>1. CountFault(k, target) /\ target \in {WARN, ERROR, FATAL}
        BY <1>1, <1>2 DEF processMonitorResult, RUNNING, WARN, ERROR, FATAL
    <2>2. \/ /\ debounce_map' = [debounce_map EXCEPT ![k] = 0]
             /\ transitionTo(target)
          \/ /\ debounce_map' = [debounce_map EXCEPT ![k] = @ + 1]
             /\ current_state' = current_state \/ (current_state = RUNNING /\ transitionTo(SUSPECT))
        BY <2>1 DEF CountFault
    <2>3. \A t \in SeStates : transitionTo(t) =>
             current_state' = IF t \in g_transition_table[current_state] THEN t ELSE current_state
        BY DEF transitionTo, isTransitionAllowed
    <2>4. CASE debounce_map' = [debounce_map EXCEPT ![k] = 0] /\ transitionTo(target)
        <3>1. current_state' = IF target \in g_transition_table[current_state]
                               THEN target ELSE current_state
            BY <2>1, <2>3, <2>4 DEF SeStates, INIT, WARN, ERROR, FATAL
        <3>2. /\ current_state' = current_state \/ current_state' = target
              /\ current_state = INIT => current_state' = current_state
              /\ current_state \in {RUNNING, SUSPECT, WARN} /\ target # FATAL => current_state' = target
            BY <1>1, <1>2, <2>1, <3>1 DEF g_transition_table, SeStates, INIT, RUNNING, SUSPECT, WARN,
               ERROR, FATAL
        <3>3. Same => k # m
            BY <1>1, <1>2, <2>1, <3>2 DEF RUNNING, SUSPECT, WARN, ERROR, FATAL
        <3>4. k # m => debounce_map'[m] = debounce_map[m]
            BY <1>1, <2>4
        <3> QED
            BY <1>1, <1>2, <2>1, <3>2, <3>3, <3>4 DEF SeStates, INIT, RUNNING, SUSPECT, WARN, ERROR,
               FATAL
    <2>5. CASE /\ debounce_map' = [debounce_map EXCEPT ![k] = @ + 1]
               /\ current_state' = current_state \/ (current_state = RUNNING /\ transitionTo(SUSPECT))
        <3>1. current_state' \in {current_state, SUSPECT} /\ (current_state' # current_state => Low)
            BY <2>3, <2>5 DEF SeStates, INIT, SUSPECT, FATAL
        <3>2. debounce_map'[m] = IF k = m THEN debounce_map[m] + 1 ELSE debounce_map[m]
            BY <1>1, <2>5
        <3> QED
            BY <3>1, <3>2 DEF INIT, RUNNING, SUSPECT, WARN, ERROR, FATAL
    <2> QED
        BY <2>2, <2>4, <2>5
<1>3. CASE ~(Configured(k) /\ target > current_state)
    <2>1. current_state' = current_state /\ debounce_map' = debounce_map
        BY <1>1, <1>3 DEF processMonitorResult, RUNNING, WARN, ERROR, FATAL
    <2>2. Same => ~(k = m /\ s = "ERROR")
        BY <1>1, <1>3 DEF RUNNING, SUSPECT, WARN, ERROR
    <2> QED
        BY <2>1, <2>2
<1> QED
    BY <1>2, <1>3

\* What a step does, while nothing heals and m sends no FATAL event.
Calm(m) == [~Heals /\ ~Handles(m, "FATAL")]_vars

ErrorOf(m) == <<Handles(m, "ERROR")>>_vars

Grind(m) ==
    /\ Fresh \/ Low \/ Mid \/ Settled
    /\ ~Fresh => ~Fresh'
    /\ Low => Low' \/ Mid' \/ Settled'
    /\ Mid => Mid' \/ Settled'
    /\ Settled => Settled'
    /\ Count(m, 0) \/ Count(m, 1) \/ Count(m, 2)
    /\ Same /\ ErrorOf(m) =>
          /\ Count(m, 0) => Count(m, 1)'
          /\ Count(m, 1) => Count(m, 2)'
          /\ ~Count(m, 2)
    /\ Same /\ ~ErrorOf(m) =>
          /\ Count(m, 0) => Count(m, 0)' \/ Count(m, 1)'
          /\ Count(m, 1) => Count(m, 1)' \/ Count(m, 2)'
          /\ Count(m, 2) => Count(m, 2)'

LEMMA StepGrinds ==
    ASSUME NEW m \in Sources, Configured(m), Debounce(m) <= 3, IInv, [Next]_vars, Calm(m)
    PROVE  Grind(m)
<1> DEFINE Moves ==
              /\ ~Fresh => ~Fresh'
              /\ Low => Low' \/ Mid' \/ Settled'
              /\ Mid => Mid' \/ Settled'
              /\ Settled => Settled'
              /\ Same => \/ debounce_map'[m] = debounce_map[m] /\ ~ErrorOf(m)
                         \/ debounce_map'[m] = debounce_map[m] + 1
<1>1. ASSUME NEW k \in Sources, NEW s \in Severities, processMonitorResult(k, s),
             NEW isNew \in BOOLEAN, Remember(k, s, isNew), vars' # vars
      PROVE  Moves
    <2>3. handled' = {<<k, s>>}
        BY <1>1 DEF Remember
    <2>4. ASSUME handled' = {<<m, "ERROR">>} PROVE k = m /\ s = "ERROR"
        <3>1. <<k, s>> \in {<<m, "ERROR">>}
            BY <2>3, <2>4
        <3> QED
            BY <3>1
    <2>1. Handles(k, s) /\ (ErrorOf(m) => k = m /\ s = "ERROR")
        BY <2>3, <2>4 DEF Handles, ErrorOf
    <2>2. (~Configured(k) \/ s # "INFO") /\ ~(k = m /\ s = "FATAL")
        BY <1>1, <2>1 DEF Calm, Heals
    <2> QED
        BY <1>1, <2>1, <2>2, EventGrinds DEF IInv
<1>2. UNCHANGED debounce_map /\ ~ErrorOf(m)
      /\ (current_state' = current_state \/ (Fresh /\ current_state' = RUNNING)) => Moves
    BY DEF Fresh, Low, Mid, Settled, INIT, RUNNING, SUSPECT, WARN, ERROR, FATAL
<1>3. handled' = {} => ~ErrorOf(m)
    BY DEF ErrorOf, Handles
<1> HIDE DEF Moves
<1>4. ASSUME UNCHANGED vars PROVE Moves
    <2>1. UNCHANGED <<debounce_map, current_state>> /\ ~ErrorOf(m)
        BY <1>4 DEF vars, ErrorOf
    <2> QED
        BY <1>2, <2>1
<1>5. ASSUME NEW all_ok \in BOOLEAN, start(all_ok) PROVE Moves
    BY <1>2, <1>3, <1>5 DEF start, transitionTo, Fresh
<1>6. ASSUME reset, vars' # vars PROVE Moves
    BY <1>6 DEF Calm, Heals
<1>7. ASSUME NEW k \in Sources, NEW s \in Severities, reportEvent(k, s), vars' # vars PROVE Moves
    BY <1>1, <1>7 DEF reportEvent, onMonitorEvent
<1>8. ASSUME NEW s \in Severities, checkRaises(s), vars' # vars PROVE Moves
    BY <1>1, <1>8, CheckedIsSource DEF checkRaises, onMonitorEvent, IInv
<1>9. ASSUME NEW s \in Severities, checkReturns(s), vars' # vars PROVE Moves
    <2>1. (raised = NoEvent) \in BOOLEAN
        OBVIOUS
    <2> QED
        BY <1>1, <1>9, <2>1, CheckedIsSource DEF checkReturns, IInv
<1>10. ASSUME \/ \E k \in Monitors : registerMonitor(k)
              \/ drainEvents
              \/ \E installed \in BOOLEAN : setStateChangeCallback(installed)
              \/ beginCheckAll
              \/ checkReturnsEmpty
       PROVE  Moves
    <2>1. UNCHANGED <<debounce_map, current_state>> /\ handled' = {}
        BY <1>10 DEF registerMonitor, drainEvents, setStateChangeCallback, beginCheckAll,
           checkReturnsEmpty
    <2> QED
        BY <1>2, <1>3, <2>1
<1>11. Moves
    <2>1. CASE Next /\ vars' # vars
        BY <1>5, <1>6, <1>7, <1>8, <1>9, <1>10, <2>1 DEF Next
    <2> QED
        BY <1>4, <2>1
<1>12. debounce_map[m] \in 0 .. 2 /\ debounce_map'[m] \in 0 .. 2
    <2>1. IInv'
        BY StepInv
    <2>2. Debounce(m) \in 1 .. 3
        BY DebounceType
    <2> QED
        BY <2>1, <2>2 DEF IInv, TypeOK, CounterIsEvidence
<1>13. Fresh \/ Low \/ Mid \/ Settled
    BY DEF IInv, TypeOK, SeStates, Fresh, Low, Mid, Settled, INIT, RUNNING, SUSPECT, WARN, ERROR, FATAL
<1> QED
    BY <1>11, <1>12, <1>13 DEF Moves, Grind, Count

(***************************************************************************)
(* A source that reports ERROR again and again takes the entity to ERROR   *)
(* or FATAL for good, if every configured debounce_count is at most 3 (its *)
(* default), whatever its other reports and those of the others are.       *)
(***************************************************************************)
THEOREM PersistentErrorsAreRaised ==
    ASSUME \A m \in Sources : Configured(m) => Debounce(m) <= 3
    PROVE  Spec => PersistentErrorIsRaised
<1>1. ASSUME NEW m \in Sources
      PROVE  Spec => (/\ Configured(m)
                      /\ []<><<Handles(m, "ERROR")>>_vars
                      /\ <>[][~Heals /\ ~Handles(m, "FATAL")]_vars
                      => <>[](current_state \in {INIT, ERROR, FATAL}))
    <2> DEFINE Stay == Low \/ Mid
    <2>1. ASSUME Configured(m)
          PROVE  IInv /\ [Next]_vars /\ Calm(m) => Grind(m)
        BY <2>1, StepGrinds
    <2>2. Fresh \/ Settled => current_state \in {INIT, ERROR, FATAL}
        BY DEF Fresh, Settled
    <2>3. CASE Configured(m)
        <3>1. IInv /\ [Next]_vars /\ [~Heals /\ ~Handles(m, "FATAL")]_vars => Grind(m)
            BY <2>1, <2>3 DEF Calm
        <3>2. Spec /\ <>[][~Heals /\ ~Handles(m, "FATAL")]_vars
                   /\ []<><<Handles(m, "ERROR")>>_vars => <>[](Fresh \/ Settled)
            BY <3>1, Invariance, PTL DEF Spec, Grind, Same, ErrorOf
        <3> QED
            BY <2>2, <3>2, PTL
    <2>4. CASE ~Configured(m)
        BY <2>4
    <2> QED
        BY <2>3, <2>4
<1> QED
    BY <1>1 DEF PersistentErrorIsRaised

-----------------------------------------------------------------------------
(***************************************************************************)
(* The entity with the monitors of the library (Supervision): each of its  *)
(* steps is one of the entity or leaves the entity alone, so that the      *)
(* invariant above holds of it too; and what its monitors report has been  *)
(* wrong with the process.                                                 *)
(***************************************************************************)
BuiltinOK ==
    /\ process \in Pids \cup {0}
    /\ {cpu, last_cpu_} \subseteq Usages
    /\ {hung, platform, crashed, lost, faulty} \subseteq BOOLEAN
    /\ lifecycle \in [state : {INIT, RUNNING, ERROR}, pid : Pids \cup {0}]
    /\ resource \in [state : {INIT, RUNNING, WARN, ERROR}, pid : Pids \cup {0}]
    /\ deadlock \in [state : {INIT, RUNNING, ERROR}, ok : BOOLEAN]

\* What is wrong with the process, or looks so to a monitor, has been noted.
LifecycleSound ==
    /\ lifecycle.state = ERROR => faulty
    /\ lifecycle.state = RUNNING => faulty \/ (lifecycle.pid # 0 /\ lifecycle.pid = process)

FaultsNoted ==
    /\ hung \/ {cpu, last_cpu_} \cap Over # {} => faulty
    /\ LifecycleSound
    /\ resource.pid \notin {0, process} => faulty

SInv == IInv /\ BuiltinOK /\ FaultsNoted /\ AlarmHasCause

LEMMA StatesDiffer == INIT # RUNNING /\ INIT # ERROR /\ RUNNING # ERROR
BY DEF INIT, RUNNING, ERROR

LEMMA SInitInv == SInit => SInv
<1> SUFFICES ASSUME SInit PROVE SInv
    OBVIOUS
<1>1. \A m \in Sources : Debounce(m) \in Nat /\ Debounce(m) >= 1
    BY DebounceType
<1>2. TypeOK
    <2>1. /\ monitors \in Seq(Monitors) /\ Len(monitors) \in Nat
          /\ MaxPending \in Nat
        BY SEAssumption, SupervisionAssumption DEF SInit
    <2>2. /\ debounce_map \in [Sources -> Nat] /\ evidence \in [Sources -> Nat]
          /\ handled \subseteq Sources \X Severities
        BY DEF SInit
    <2>3. /\ current_state \in SeStates /\ view \in SeStates
          /\ pending_events = 0 /\ cursor = 0
        BY DEF SInit, SeStates, INIT, FATAL
    <2>4. raised \in Severities \cup {NoEvent} /\ state_cb \in BOOLEAN
        BY DEF SInit
    <2> QED  BY <2>1, <2>2, <2>3, <2>4 DEF TypeOK
<1>3. IInv
    BY <1>1, <1>2 DEF SInit, IInv, CounterIsEvidence, AlarmIsBacked, ObserverKnowsState,
       EvidenceIsBounded, RaisedByCaller, INIT, SUSPECT, WARN, ERROR
<1>4. BuiltinOK /\ FaultsNoted
    BY StatesDiffer, SupervisionAssumption DEF SInit, BuiltinOK, FaultsNoted, LifecycleSound, Over
<1>5. AlarmHasCause
    BY DEF SInit, AlarmHasCause, INIT, RUNNING
<1> QED
    BY <1>3, <1>4, <1>5 DEF SInv

\* Every step of the composition is a step of the entity, or none of it.
LEMMA StepOfEntity == SNext => [Next]_vars
<1> SUFFICES ASSUME SNext PROVE [Next]_vars
    OBVIOUS
<1>1. CASE Environment
    BY <1>1 DEF Environment, processExits, processStarts, getCpuUsage, hangs
<1>2. CASE startAll
    BY <1>2 DEF startAll, Next
<1>3. CASE stopAll
    BY <1>3 DEF stopAll
<1>4. CASE resetAll
    BY <1>4 DEF resetAll, Next
<1>5. CASE begin
    BY <1>5 DEF begin, Next
<1>6. CASE checkResourceNull
    BY <1>6 DEF checkResourceNull
<1>7. ASSUME NEW s \in {"ERROR", "WARNING", NoEvent}, Returns(s) PROVE [Next]_vars
    BY <1>7 DEF Returns, Next, Severities
<1>8. Severity \in {"ERROR", "WARNING", NoEvent}
    BY DEF Severity
<1>9. CASE Worker /\ ~begin /\ ~checkResourceNull
    BY <1>7, <1>8, <1>9 DEF Worker, checkStopped, checkLifecycle, checkResourceSearch,
       checkResourceExit, checkResourceUse, checkDeadlockEarly, checkDeadlock
<1> QED
    BY <1>1, <1>2, <1>3, <1>4, <1>5, <1>6, <1>9 DEF SNext, Owner, Worker

\* The types of the process and of the monitors.
LEMMA StepOfBuiltin == ASSUME BuiltinOK, SNext PROVE BuiltinOK'
<1> USE DEF BuiltinOK
<1>1. CASE Environment
    BY <1>1 DEF Environment, processExits, processStarts, getCpuUsage, hangs, vars, builtin, env
<1>2. CASE startAll
    BY <1>2 DEF startAll, LookUp, Found, env
<1>3. CASE stopAll
    BY <1>3 DEF stopAll, env
<1>4. CASE resetAll
    BY <1>4 DEF resetAll, env
<1>5. CASE begin \/ checkStopped \/ checkDeadlockEarly \/ checkResourceNull
    BY <1>5 DEF begin, checkStopped, checkDeadlockEarly, checkResourceNull, env, builtin
<1>6. CASE checkLifecycle
    BY <1>6 DEF checkLifecycle, env
<1>7. CASE checkResourceSearch \/ checkResourceExit
    BY <1>7 DEF checkResourceSearch, checkResourceExit, env
<1>8. CASE checkResourceUse
    <2>1. Severity # NoEvent => seStateFromSeverity[Severity] \in {WARN, ERROR}
        BY DEF Severity, seStateFromSeverity, Severities
    <2> QED
        BY <1>8, <2>1 DEF checkResourceUse, getMetricWithFallback, env
<1>9. CASE checkDeadlock
    BY <1>9 DEF checkDeadlock, env
<1> QED
    BY <1>1, <1>2, <1>3, <1>4, <1>5, <1>6, <1>7, <1>8, <1>9 DEF SNext, Owner, Worker

\* An event that a monitor returns comes with a fault.
LEMMA EventsAreFaults ==
    ASSUME BuiltinOK, FaultsNoted, ~faulty, Worker
    PROVE  /\ current_state' = current_state
           /\ FaultsNoted'
<1> USE DEF BuiltinOK, FaultsNoted, LifecycleSound
<1>1. CASE begin
    BY <1>1 DEF begin, beginCheckAll, env, builtin
<1>2. CASE checkStopped \/ checkDeadlockEarly
    BY <1>2 DEF checkStopped, checkDeadlockEarly, Returns, checkReturnsEmpty, env, builtin
<1>3. CASE checkLifecycle
    BY <1>3, StatesDiffer DEF checkLifecycle, Exited, Returns, checkReturnsEmpty, env
<1>4. CASE checkResourceNull
    BY <1>4 DEF checkResourceNull, vars, env, builtin
<1>5. CASE checkResourceSearch
    BY <1>5 DEF checkResourceSearch, Returns, checkReturnsEmpty, env
<1>6. CASE checkResourceExit
    BY <1>6 DEF checkResourceExit, Exited
<1>7. CASE checkResourceUse
    BY <1>7 DEF checkResourceUse, Severity, getMetricWithFallback, Over, Returns, checkReturnsEmpty, env
<1>8. CASE checkDeadlock
    BY <1>8 DEF checkDeadlock, Returns, checkReturnsEmpty, env
<1> QED
    BY <1>1, <1>2, <1>3, <1>4, <1>5, <1>6, <1>7, <1>8 DEF Worker

LEMMA FaultsStep ==
    ASSUME TypeOK, BuiltinOK, FaultsNoted, AlarmHasCause, SNext
    PROVE  (FaultsNoted /\ AlarmHasCause)'
<1>1. CASE Environment
    <2>1. current_state' = current_state /\ (faulty => faulty')
        BY <1>1 DEF Environment, processExits, processStarts, getCpuUsage, hangs, vars, BuiltinOK
    <2>2. FaultsNoted'
        <3> USE DEF vars, builtin, env, BuiltinOK, FaultsNoted, LifecycleSound
        <3>1. CASE processExits
            BY <3>1 DEF processExits
        <3>2. ASSUME NEW pid \in Pids, processStarts(pid) PROVE FaultsNoted'
            BY <3>2, SupervisionAssumption DEF processStarts
        <3>3. ASSUME NEW level, getCpuUsage(level) PROVE FaultsNoted'
            BY <3>3 DEF getCpuUsage
        <3>4. ASSUME NEW value \in BOOLEAN, hangs(value) PROVE FaultsNoted'
            BY <3>4 DEF hangs
        <3> QED
            BY <1>1, <3>1, <3>2, <3>3, <3>4 DEF Environment
    <2> QED
        BY <2>1, <2>2 DEF AlarmHasCause
<1>2. CASE startAll
    <2>1. current_state' \in {current_state, RUNNING} /\ faulty' = faulty
        BY <1>2 DEF startAll, start, transitionTo
    <2>2. FaultsNoted'
        BY <1>2, StatesDiffer DEF startAll, LookUp, Found, env, BuiltinOK, FaultsNoted,
                                  LifecycleSound
    <2> QED
        BY <2>1, <2>2 DEF AlarmHasCause, RUNNING
<1>3. CASE stopAll
    BY <1>3, StatesDiffer DEF stopAll, vars, env, BuiltinOK, FaultsNoted, LifecycleSound,
                              AlarmHasCause
<1>4. CASE resetAll
    <2>1. current_state' = INIT
        BY <1>4 DEF resetAll, reset
    <2>2. FaultsNoted'
        BY <1>4, StatesDiffer DEF resetAll, env, FaultsNoted, LifecycleSound
    <2> QED
        BY <2>1, <2>2 DEF AlarmHasCause, INIT, RUNNING
<1>5. CASE Worker
    <2>1. faulty' = faulty
        BY <1>5 DEF Worker, begin, checkStopped, checkLifecycle, checkResourceNull,
                    checkResourceSearch,
           checkResourceExit, checkResourceUse, checkDeadlockEarly, checkDeadlock
    <2>2. CASE faulty
        BY <2>1, <2>2 DEF FaultsNoted, LifecycleSound, AlarmHasCause
    <2>3. CASE ~faulty
        BY <1>5, <2>1, <2>3, EventsAreFaults DEF AlarmHasCause
    <2> QED
        BY <2>2, <2>3
<1> QED
    BY <1>1, <1>2, <1>3, <1>4, <1>5 DEF SNext, Owner

LEMMA StepIsEntityStep == [SNext]_allVars => [Next]_vars
BY StepOfEntity DEF allVars

LEMMA SStepInv == SInv /\ [SNext]_allVars => SInv'
<1> SUFFICES ASSUME SInv, [SNext]_allVars PROVE SInv'
    OBVIOUS
<1>1. CASE SNext
    BY <1>1, StepOfEntity, StepInv, StepOfBuiltin, FaultsStep DEF SInv, IInv
<1>2. CASE UNCHANGED allVars
    <2>1. UNCHANGED vars /\ UNCHANGED <<env, builtin, crashed, lost, faulty>>
        BY <1>2 DEF allVars
    <2>2. IInv'
        BY <2>1, StepInv DEF SInv
    <2>3. (BuiltinOK /\ FaultsNoted /\ AlarmHasCause)'
        BY <2>1 DEF SInv, vars, env, builtin, BuiltinOK, FaultsNoted, LifecycleSound, AlarmHasCause
    <2> QED
        BY <2>2, <2>3 DEF SInv
<1> QED
    BY <1>1, <1>2

LEMMA SInvariance == SSpec => []SInv
BY SInitInv, SStepInv, PTL DEF SSpec

(***************************************************************************)
(* The entity of SupervisedEntity keeps its invariant when the library's   *)
(* monitors drive it: its counters are evidence and its alarms are backed. *)
(***************************************************************************)
THEOREM MonitorsKeepTheEntity == SSpec => []IInv
<1>1. SInv => IInv
    BY DEF SInv
<1> QED
    BY SInvariance, <1>1, PTL

(***************************************************************************)
(* Types of every reachable state of the entity, its process and the       *)
(* monitors that watch it.                                                 *)
(***************************************************************************)
THEOREM SupervisionTypes == SSpec => []TypeInvariant
<1>1. SInv => TypeInvariant
    BY DEF SInv, IInv, BuiltinOK, TypeInvariant
<1> QED
    BY SInvariance, <1>1, PTL

(***************************************************************************)
(* No alarm without a cause, for any monitors, debounce counts and process *)
(* identifiers, and whatever getCpuUsage() answers: an entity is suspected *)
(* or worse only when since its reset a process has exited, the watched    *)
(* thread was not found or a usage at a threshold was answered, or when    *)
(* last_cpu_ still held one at the reset (resource_monitor.cpp, 57-61).    *)
(***************************************************************************)
THEOREM AlarmsHaveCauses == SSpec => []AlarmHasCause
<1>1. SInv => AlarmHasCause
    BY DEF SInv
<1> QED
    BY SInvariance, <1>1, PTL

(***************************************************************************)
(* With the monitors of the library too the state rises only on confirmed  *)
(* evidence of one monitor (processMonitorResult, lines 226-238).          *)
(***************************************************************************)
THEOREM MonitorsEscalateOnEvidence == SSpec => EscalationIsJustified
<1>1. SInv /\ [SNext]_allVars => [Rises => Justified]_vars
    BY StepIsEntityStep, RisesAreJustified DEF SInv
<1> QED  BY <1>1, SInvariance, PTL DEF SSpec, EscalationIsJustified, Rises, Justified

(***************************************************************************)
(* With the monitors of the library too the state becomes better only by   *)
(* the INFO event of a monitor or by reset(), which clears everything.     *)
(***************************************************************************)
THEOREM MonitorsLowerByReset == SSpec => OnlyRecoveryLowers
<1>1. SInv /\ [SNext]_allVars => [Lowers => RecoveredOrReset]_vars
    BY StepIsEntityStep, LowersAreRecoveries DEF SInv
<1> QED  BY <1>1, SInvariance, PTL DEF SSpec, OnlyRecoveryLowers, Lowers

(***************************************************************************)
(* The entity with the library's monitors over a process implements the    *)
(* alarm: the composition adds no step that DebouncedAlarm does not allow. *)
(***************************************************************************)
THEOREM MonitorsImplementAlarm == SSpec => ImplementsAlarm
<1>1. SInit => Alarm!AlarmInit
    BY DEF SInit, Alarm!AlarmInit, Heard, Alarm!INIT, INIT
<1>2. SInv /\ [SNext]_allVars
         => [Alarm!AlarmNext]_<<current_state, [m \in Heard |-> evidence[m]]>>
    BY StepIsEntityStep, StepIsAlarm DEF SInv, alarmVars
<1> QED
    BY <1>1, <1>2, SInvariance, PTL DEF SSpec, ImplementsAlarm, Alarm!AlarmSpec

-----------------------------------------------------------------------------
(***************************************************************************)
(* Crashes and hangs are raised.  checkAll() goes round the monitors, each *)
(* of them registered once, so that every monitor is at most three steps   *)
(* away; the invariant says what a monitor that has not reported yet knows.*)
(***************************************************************************)
Placed(m) == \E i \in DOMAIN Registered0 : Registered0[i] = m

\* m is registered, its events are heard, and its n-th report at the latest confirms.
WatchedBy(m, n) == Placed(m) /\ m \in Heard /\ Debounce(m) <= n

Watched(m) == WatchedBy(m, 1)

Place(m) == CHOOSE i \in DOMAIN Registered0 : Registered0[i] = m

\* The steps of the worker before it checks m.
Distance(m) ==
    IF cursor <= Place(m) THEN Place(m) - cursor ELSE Len(Registered0) + 1 + Place(m) - cursor

Away(m, n) == Distance(m) = n

Raised  == current_state = ERROR
Worried == current_state \in {WARN, ERROR}

\* The monitors stay, and an entity whose monitors are started has left INIT.
Stands ==
    /\ monitors = Registered0
    /\ current_state # FATAL
    /\ platform => current_state # INIT

\* The lifecycle monitor has yet to notice what its next check will.
Unnoticed ==
    /\ platform
    /\ lifecycle.state = RUNNING
    /\ lifecycle.pid \notin {0, process}

CrashKnown == lost => Raised \/ Unnoticed

HangKnown == ~deadlock.ok => Raised

LEMMA PlaceIsThere ==
    ASSUME NEW m, Placed(m)
    PROVE  /\ Len(Registered0) \in 1 .. 3
           /\ Place(m) \in 1 .. Len(Registered0)
           /\ Registered0[Place(m)] = m
<1>1. /\ Registered0 \in Seq(Monitors)
      /\ DOMAIN Registered0 = 1 .. Len(Registered0)
      /\ Len(Registered0) \in Nat
    BY SupervisionAssumption
<1>2. PICK i \in 1 .. Len(Registered0) : Registered0[i] = m
    BY <1>1 DEF Placed
<1>3. Place(m) \in DOMAIN Registered0 /\ Registered0[Place(m)] = m
    BY <1>1, <1>2 DEF Place
<1>4. ASSUME Len(Registered0) >= 4 PROVE FALSE
    <2>1. \A k \in 1 .. 4 : k \in DOMAIN Registered0 /\ Registered0[k] \in Monitors
        BY <1>1, <1>4
    <2>3. \A k \in 1 .. 4 : Registered0[k] \in {"process_lifecycle", "resource", "deadlock"}
        BY <2>1, SupervisionAssumption
    <2>2. /\ Registered0[1] \notin {Registered0[2], Registered0[3], Registered0[4]}
          /\ Registered0[2] \notin {Registered0[3], Registered0[4]}
          /\ Registered0[3] # Registered0[4]
        BY <2>1, SupervisionAssumption
    <2> QED
        BY <2>2, <2>3
<1> QED
    BY <1>1, <1>2, <1>3, <1>4

LEMMA DistanceIsShort ==
    ASSUME NEW m, Placed(m), TypeOK, Stands
    PROVE  /\ Away(m, 0) \/ Away(m, 1) \/ Away(m, 2) \/ Away(m, 3)
           /\ Away(m, 0) <=> Checking(m)
<1> DEFINE p == Place(m)
           l == Len(Registered0)
<1>1. cursor \in 0 .. l /\ monitors = Registered0
    BY DEF TypeOK, Stands
<1>2. l \in 1 .. 3 /\ p \in 1 .. l /\ Registered0[p] = m
    BY PlaceIsThere
<1>3. Distance(m) \in 0 .. 3 /\ (Distance(m) = 0 => cursor = p)
    <2> HIDE DEF p, l
    <2>1. Distance(m) = IF cursor <= p THEN p - cursor ELSE l + 1 + p - cursor
        BY DEF Distance, p, l
    <2> QED
        BY <1>1, <1>2, <2>1
<1>4. Distance(m) = 0 => Checking(m)
    BY <1>1, <1>2, <1>3 DEF Checking
<1>5. Checking(m) => Distance(m) = 0
    <2> SUFFICES ASSUME Checking(m) PROVE cursor = p
        BY <1>2 DEF Distance
    <2>1. cursor \in DOMAIN Registered0 /\ p \in DOMAIN Registered0
        BY <1>1, <1>2, SupervisionAssumption DEF Checking
    <2> QED
        BY <1>1, <1>2, <2>1, SupervisionAssumption DEF Checking
<1> QED
    BY <1>3, <1>4, <1>5 DEF Away

LEMMA CursorStays ==
    ASSUME [SNext]_allVars, ~<<~crashed /\ Worker>>_allVars
    PROVE  cursor' = cursor
<1>1. CASE Environment
    BY <1>1 DEF Environment, processExits, processStarts, getCpuUsage, hangs, vars
<1>2. CASE Owner
    BY <1>2 DEF Owner, startAll, stopAll, resetAll, start, reset, vars
<1>3. CASE UNCHANGED allVars
    BY <1>3 DEF allVars, vars
<1> QED
    BY <1>1, <1>2, <1>3 DEF SNext

\* What a check of a started monitor does to the entity.
LEMMA CheckReturnsEvent ==
    ASSUME Worker, platform
    PROVE  begin \/ \E s \in {"ERROR", "WARNING", NoEvent} : Returns(s)
<1>1. Severity \in {"ERROR", "WARNING", NoEvent}
    BY DEF Severity
<1> QED
    BY <1>1 DEF Worker, checkStopped, checkLifecycle, checkResourceNull, checkResourceSearch,
       checkResourceExit, checkResourceUse, checkDeadlockEarly, checkDeadlock

LEMMA CursorMoves ==
    ASSUME NEW m, Placed(m), TypeOK, Stands, Worker, platform,
           NEW n \in 1 .. 3, Away(m, n)
    PROVE  Away(m, n - 1)'
<1>1. cursor \in 0 .. Len(Registered0) /\ monitors = Registered0
    BY DEF TypeOK, Stands
<1>2. \/ cursor = 0 /\ cursor' = 1
      \/ cursor # 0 /\ cursor' = IF cursor = Len(Registered0) THEN 0 ELSE cursor + 1
    BY <1>1, CheckReturnsEvent DEF begin, beginCheckAll, Returns, checkReturns, checkReturnsEmpty,
       nextMonitor
<1> QED
    BY <1>1, <1>2, PlaceIsThere DEF Away, Distance

LEMMA ReturnsEffect ==
    ASSUME TypeOK, NEW s \in {"ERROR", "WARNING", NoEvent}, Returns(s), current_state # FATAL
    PROVE  /\ current_state' # FATAL
           /\ current_state' = INIT <=> current_state = INIT
           /\ Raised => Raised'
           /\ monitors' = monitors
           /\ s = "ERROR" /\ current_state # INIT /\ Configured(monitors[cursor])
              /\ Debounce(monitors[cursor]) = 1 => Raised'
           /\ Worried => Worried'
<1>1. CASE s = NoEvent
    BY <1>1 DEF Returns, checkReturnsEmpty, nextMonitor, Raised, Worried, NoEvent
<1>2. CASE s # NoEvent
    <2> DEFINE m == monitors[cursor]
               target == seStateFromSeverity[s]
    <2>1. /\ checkReturns(s) /\ target = (IF s = "ERROR" THEN ERROR ELSE WARN)
        BY <1>2 DEF Returns, seStateFromSeverity, Severities
    <2>2. m \in Sources /\ debounce_map[m] \in Nat /\ current_state \in SeStates
        BY <2>1, CheckedIsSource DEF checkReturns, TypeOK
    <2>3. target # RUNNING
        BY <2>1 DEF RUNNING, WARN, ERROR
    <2>4. CASE Configured(m) /\ target > current_state
        <3>1. CountFault(m, target)
            BY <2>1, <2>3, <2>4 DEF checkReturns, processMonitorResult
        <3>2. \/ transitionTo(target)
              \/ /\ Debounce(m) # 1
                 /\ \/ current_state = RUNNING /\ transitionTo(SUSPECT)
                    \/ current_state' = current_state
            BY <2>2, <3>1 DEF CountFault
        <3>3. \A t \in SeStates : transitionTo(t) =>
                 current_state' = IF t \in g_transition_table[current_state] THEN t ELSE current_state
            BY DEF transitionTo, isTransitionAllowed
        <3>4. target \in SeStates /\ SUSPECT \in SeStates
            BY <2>1 DEF SeStates, INIT, SUSPECT, WARN, ERROR, FATAL
        <3>5. CASE transitionTo(target)
            BY <2>1, <2>2, <2>4, <3>3, <3>4, <3>5 DEF g_transition_table, SeStates, INIT, RUNNING, SUSPECT,
               WARN, ERROR, FATAL, Raised, Worried, checkReturns, nextMonitor
        <3>6. CASE Debounce(m) # 1 /\ current_state = RUNNING /\ transitionTo(SUSPECT)
            BY <2>1, <2>2, <3>3, <3>4, <3>6 DEF g_transition_table, SeStates, INIT, RUNNING, SUSPECT,
               WARN, ERROR, FATAL, Raised, Worried, checkReturns, nextMonitor
        <3>7. CASE Debounce(m) # 1 /\ current_state' = current_state
            BY <2>1, <3>7 DEF Raised, Worried, checkReturns, nextMonitor
        <3> QED
            BY <3>2, <3>5, <3>6, <3>7
    <2>5. CASE ~(Configured(m) /\ target > current_state)
        <3>1. current_state' = current_state
            BY <2>1, <2>3, <2>5 DEF checkReturns, processMonitorResult
        <3> QED
            BY <2>1, <2>2, <2>5, <3>1 DEF checkReturns, nextMonitor, Raised, Worried, SeStates, INIT, WARN,
               ERROR, FATAL
    <2> QED
        BY <2>4, <2>5
<1> QED
    BY <1>1, <1>2

\* The steps that no monitor takes part in: an exit is remembered, start(),
\* stop() and reset() forget it.
LEMMA OthersKeep ==
    ASSUME Environment \/ Owner \/ checkResourceNull \/ UNCHANGED allVars,
           BuiltinOK, Stands
    PROVE  /\ Stands'
           /\ CrashKnown => CrashKnown'
           /\ HangKnown => HangKnown'
           /\ Raised => Raised' \/ ~platform'
           /\ Worried => Worried' \/ ~platform'
<1> USE DEF Stands, Raised, Worried, CrashKnown, HangKnown, Unnoticed
<1>1. CASE processExits
    BY <1>1 DEF processExits, vars, builtin, BuiltinOK
<1>2. CASE \E pid \in Pids : processStarts(pid)
    <2>1. PICK pid \in Pids : processStarts(pid)
        BY <1>2
    <2>2. lost' => lost /\ lifecycle.pid # process'
        BY <2>1 DEF processStarts
    <2>3. UNCHANGED <<vars, builtin>>
        BY <2>1 DEF processStarts
    <2> QED
        BY <2>2, <2>3 DEF vars, builtin
<1>7. CASE \E level \in Usages : getCpuUsage(level)
    BY <1>7 DEF getCpuUsage, vars, builtin
<1>8. CASE \E value \in BOOLEAN : hangs(value)
    BY <1>8 DEF hangs, vars, builtin
<1>3. CASE checkResourceNull \/ UNCHANGED allVars
    BY <1>3 DEF checkResourceNull, vars, allVars, builtin, env
<1>4. CASE startAll
    <2>1. /\ current_state' = IF current_state = INIT THEN RUNNING ELSE current_state
          /\ monitors' = monitors
        BY <1>4 DEF startAll, start, transitionTo, isTransitionAllowed, g_transition_table,
           SeStates, INIT, RUNNING, FATAL
    <2>2. lost' = FALSE /\ deadlock'.ok = TRUE
        BY <1>4 DEF startAll
    <2> QED
        BY <2>1, <2>2 DEF INIT, RUNNING, FATAL, WARN, ERROR
<1>5. CASE stopAll
    BY <1>5 DEF stopAll, vars, BuiltinOK
<1>6. CASE resetAll
    BY <1>6 DEF resetAll, reset, INIT, FATAL
<1> QED
    BY <1>1, <1>2, <1>3, <1>4, <1>5, <1>6, <1>7, <1>8 DEF Environment, Owner

\* What a monitor returns does to the entity, and what the others do not touch.
LEMMA ChecksEffect ==
    ASSUME Worker, ~checkResourceNull, TypeOK, Stands
    PROVE  /\ Stands'
           /\ Raised => Raised'
           /\ Worried => Worried'
           /\ UNCHANGED <<process, hung, platform, lost>>
           /\ checkLifecycle \/ UNCHANGED lifecycle
           /\ checkDeadlock \/ UNCHANGED deadlock
<1>1. platform' = platform /\ UNCHANGED <<process, hung, lost>>
    BY DEF Worker, begin, checkStopped, checkLifecycle, checkResourceSearch,
       checkResourceExit, checkResourceUse, checkDeadlockEarly, checkDeadlock, env, builtin
<1>2. checkLifecycle \/ UNCHANGED lifecycle
    BY DEF Worker, begin, checkStopped, checkResourceSearch,
       checkResourceExit, checkResourceUse, checkDeadlockEarly, checkDeadlock, builtin
<1>3. checkDeadlock \/ UNCHANGED deadlock
    BY DEF Worker, begin, checkStopped, checkResourceSearch, checkLifecycle,
       checkResourceExit, checkResourceUse, checkDeadlockEarly, builtin
<1>4. CASE begin
    BY <1>1, <1>2, <1>3, <1>4 DEF begin, beginCheckAll, Stands, Raised, Worried
<1>5. ASSUME ~begin
      PROVE  \E s \in {"ERROR", "WARNING", NoEvent} : Returns(s)
    BY <1>5, CheckReturnsEvent DEF Worker, checkStopped, checkLifecycle, checkResourceSearch,
       checkResourceExit, checkResourceUse, checkDeadlockEarly, checkDeadlock
<1> QED
    BY <1>1, <1>2, <1>3, <1>4, <1>5, ReturnsEffect DEF Stands

LEMMA WatchedConfirms ==
    ASSUME NEW m, Watched(m)
    PROVE  Placed(m) /\ Configured(m) /\ Debounce(m) = 1
BY DebounceType DEF Watched, WatchedBy, Heard

\* The check of the lifecycle monitor notices what is unnoticed.
LEMMA LifecycleNotices ==
    ASSUME Watched("process_lifecycle"), TypeOK, Stands, checkLifecycle
    PROVE  Unnoticed => Raised'
<1> SUFFICES ASSUME Unnoticed PROVE Raised'
    OBVIOUS
<1>1. Returns("ERROR") /\ monitors[cursor] = "process_lifecycle" /\ platform
    BY DEF checkLifecycle, Unnoticed, Exited, Checking
<1> QED
    BY <1>1, ReturnsEffect, WatchedConfirms DEF Stands

LEMMA DeadlockNotices ==
    ASSUME Watched("deadlock"), TypeOK, Stands, BuiltinOK, HangKnown, checkDeadlock
    PROVE  hung => Raised'
<1> SUFFICES ASSUME hung PROVE Raised'
    OBVIOUS
<1>1. monitors[cursor] = "deadlock" /\ platform
    BY DEF checkDeadlock, Checking
<1>2. CASE deadlock.ok
    <2>1. Returns("ERROR")
        BY <1>2 DEF checkDeadlock
    <2> QED
        BY <1>1, <2>1, ReturnsEffect, WatchedConfirms DEF Stands
<1>3. CASE ~deadlock.ok
    BY <1>3, ChecksEffect DEF Worker, HangKnown, checkDeadlock, checkResourceNull, Checking
<1> QED
    BY <1>2, <1>3

LEMMA StandsInit == SInit => Stands /\ CrashKnown /\ HangKnown
BY DEF SInit, Stands, CrashKnown, HangKnown, INIT, FATAL

LEMMA StandsStep ==
    ASSUME TypeOK, BuiltinOK, Stands, [SNext]_allVars
    PROVE  /\ Stands'
           /\ Watched("process_lifecycle") /\ CrashKnown => CrashKnown'
           /\ Watched("deadlock") /\ HangKnown => HangKnown'
           /\ Raised => Raised' \/ ~platform'
           /\ Worried => Worried' \/ ~platform'
<1>1. CASE Worker /\ ~checkResourceNull
    <2>1. Watched("process_lifecycle") /\ CrashKnown => CrashKnown'
        BY <1>1, ChecksEffect, LifecycleNotices DEF CrashKnown, Unnoticed
    <2>2. checkDeadlock => deadlock'.ok = ~hung
        BY DEF checkDeadlock
    <2>3. Watched("deadlock") /\ HangKnown => HangKnown'
        BY <1>1, <2>2, ChecksEffect, DeadlockNotices DEF HangKnown, BuiltinOK
    <2> QED
        BY <1>1, <2>1, <2>3, ChecksEffect
<1>2. CASE Environment \/ Owner \/ checkResourceNull \/ UNCHANGED allVars
    BY <1>2, OthersKeep
<1> QED
    BY <1>1, <1>2 DEF SNext

\* A started monitor, seen from a step of the worker and from any other.
WorkerSteps == <<~crashed /\ Worker>>_allVars

LEMMA RoundStep ==
    ASSUME NEW m, Placed(m), TypeOK, Stands, [SNext]_allVars, NEW n \in 1 .. 3, Away(m, n), platform
    PROVE  /\ WorkerSteps => Away(m, n - 1)'
           /\ ~WorkerSteps => Away(m, n)'
<1>1. WorkerSteps => Away(m, n - 1)'
    BY CursorMoves DEF WorkerSteps
<1>2. ~WorkerSteps => cursor' = cursor
    BY CursorStays DEF WorkerSteps
<1> QED
    BY <1>1, <1>2 DEF Away, Distance

LEMMA WaitStep ==
    ASSUME NEW m, [SNext]_allVars, Away(m, 0), ~WorkerSteps
    PROVE  Away(m, 0)'
BY CursorStays DEF WorkerSteps, Away, Distance

\* The invariant of the composition, with what its monitors have noticed.
WInv == IInv /\ BuiltinOK /\ Stands

LEMMA WInvariance == SSpec => []WInv
<1>1. SInit => Stands
    BY StandsInit
<1>2. SInv /\ Stands /\ [SNext]_allVars => Stands'
    BY StandsStep DEF SInv, IInv
<1>3. SInv /\ Stands => WInv
    BY DEF SInv, IInv, WInv
<1> QED
    BY SInvariance, <1>1, <1>2, <1>3, PTL DEF SSpec

\* The worker comes round to the check of m, three steps at most.
RoundOf(m) ==
    /\ Away(m, 0) \/ Away(m, 1) \/ Away(m, 2) \/ Away(m, 3)
    /\ Away(m, 0) /\ ~WorkerSteps => Away(m, 0)'
    /\ Away(m, 1) => Away(m, 0)' \/ (~WorkerSteps /\ Away(m, 1)')
    /\ Away(m, 2) => Away(m, 1)' \/ (~WorkerSteps /\ Away(m, 2)')
    /\ Away(m, 3) => Away(m, 2)' \/ (~WorkerSteps /\ Away(m, 3)')

LEMMA GoesRound ==
    ASSUME NEW m, Placed(m), WInv, [SNext]_allVars, platform
    PROVE  RoundOf(m)
<1>1. Away(m, 0) \/ Away(m, 1) \/ Away(m, 2) \/ Away(m, 3)
    BY DistanceIsShort DEF WInv, IInv
<1>2. Away(m, 0) /\ ~WorkerSteps => Away(m, 0)'
    BY WaitStep
<1>3. \A n \in 1 .. 3 : Away(m, n) => Away(m, n - 1)' \/ (~WorkerSteps /\ Away(m, n)')
    BY RoundStep DEF WInv, IInv
<1>4. /\ Away(m, 1) => Away(m, 1 - 1)' \/ (~WorkerSteps /\ Away(m, 1)')
      /\ Away(m, 2) => Away(m, 2 - 1)' \/ (~WorkerSteps /\ Away(m, 2)')
      /\ Away(m, 3) => Away(m, 3 - 1)' \/ (~WorkerSteps /\ Away(m, 3)')
    BY <1>3
<1>5. 1 - 1 = 0 /\ 2 - 1 = 1 /\ 3 - 1 = 2
    OBVIOUS
<1> QED
    BY <1>1, <1>2, <1>4, <1>5 DEF RoundOf

(***************************************************************************)
(* The exit of a watched process raises the entity, whatever the other     *)
(* monitors are and whoever else acts on it, if the lifecycle monitor's    *)
(* first report confirms: the exit stays unnoticed until the worker comes  *)
(* round to that monitor, which is in reach and cannot miss it.            *)
(***************************************************************************)
THEOREM CrashIsAlwaysRaised ==
    ASSUME Watched("process_lifecycle")
    PROVE  SFairSpec /\ []MonitorsNeverWait => CrashIsRaised
<1> DEFINE Alert == lost /\ ~Raised /\ ~crashed
<1>0. Placed("process_lifecycle")
    BY Watched("process_lifecycle"), WatchedConfirms
<1>1. SSpec => [](WInv /\ CrashKnown)
    <2>1. SInit => CrashKnown
        BY StandsInit
    <2>2. WInv /\ CrashKnown /\ [SNext]_allVars => CrashKnown'
        BY Watched("process_lifecycle"), StandsStep DEF WInv, IInv
    <2> QED
        BY WInvariance, <2>1, <2>2, PTL DEF SSpec
<1>2. WInv /\ CrashKnown /\ Alert => platform /\ Unnoticed
    BY DEF CrashKnown, Unnoticed
<1>3. WInv /\ CrashKnown /\ Alert /\ [SNext]_allVars => RoundOf("process_lifecycle")
    BY <1>0, <1>2, GoesRound
<1>4. WInv /\ CrashKnown /\ Alert /\ Away("process_lifecycle", 0) /\ WorkerSteps => Raised'
    <2> SUFFICES ASSUME WInv, CrashKnown, Alert, Away("process_lifecycle", 0), WorkerSteps
                 PROVE  Raised'
        OBVIOUS
    <2>1. Checking("process_lifecycle") /\ platform /\ Worker
        BY <1>0, <1>2, DistanceIsShort DEF WInv, IInv, WorkerSteps
    <2>2. checkLifecycle
        BY <2>1 DEF Worker, begin, beginCheckAll, checkStopped, checkResourceNull, checkResourceSearch,
           checkResourceExit, checkResourceUse, checkDeadlockEarly, checkDeadlock, Checking
    <2> QED
        BY <1>2, <2>2, Watched("process_lifecycle"), LifecycleNotices DEF WInv, IInv
<1>5. WInv /\ Alert /\ MonitorsNeverWait => ENABLED WorkerSteps
    BY <1>0, PlaceIsThere DEF WInv, IInv, Stands, MonitorsNeverWait, WorkerSteps
<1>6. SFairSpec /\ []MonitorsNeverWait => [](Alert => <>~Alert)
    BY <1>1, <1>3, <1>4, <1>5, PTL DEF SFairSpec, SSpec, SFairness, WorkerSteps, RoundOf
<1> QED
    BY <1>6, PTL DEF CrashIsRaised, Raised

(***************************************************************************)
(* A watched process that hangs for good puts the entity into ERROR for    *)
(* good, if the deadlock monitor's first report confirms: the worker comes *)
(* round to the monitor again and again, so that its interval passes in    *)
(* between, and until it has reported the monitor takes the process for    *)
(* alive.                                                                  *)
(***************************************************************************)
THEOREM HangIsAlwaysRaised ==
    ASSUME Watched("deadlock")
    PROVE  SFairSpec /\ []MonitorsNeverWait => HangIsRaised
<1> DEFINE Hanging == hung /\ platform /\ ~crashed
<1>0. Placed("deadlock")
    BY Watched("deadlock"), WatchedConfirms
<1>1. SSpec => [](WInv /\ HangKnown)
    <2>1. SInit => HangKnown
        BY StandsInit
    <2>2. WInv /\ HangKnown /\ [SNext]_allVars => HangKnown'
        BY Watched("deadlock"), StandsStep DEF WInv, IInv
    <2> QED
        BY WInvariance, <2>1, <2>2, PTL DEF SSpec
<1>2. WInv /\ Hanging /\ [SNext]_allVars => RoundOf("deadlock")
    BY <1>0, GoesRound
<1>3. WInv /\ Hanging /\ MonitorsNeverWait => ENABLED WorkerSteps
    BY <1>0, PlaceIsThere DEF WInv, IInv, Stands, MonitorsNeverWait, WorkerSteps
<1>4. WInv /\ Hanging /\ MonitorsNeverWait /\ Away("deadlock", 0)
      => ENABLED <<~crashed /\ checkDeadlock>>_allVars
    BY <1>0, PlaceIsThere, DistanceIsShort DEF WInv, IInv, Stands, MonitorsNeverWait
<1>5. WInv /\ HangKnown /\ Hanging /\ checkDeadlock => Raised'
    BY Watched("deadlock"), DeadlockNotices DEF WInv, IInv
<1>6. WInv /\ [SNext]_allVars /\ Hanging' /\ Raised => Raised'
    BY StandsStep DEF WInv, IInv
<1> DEFINE Premise == /\ [](WInv /\ HangKnown) /\ [][SNext]_allVars /\ []MonitorsNeverWait
                      /\ WF_allVars(~crashed /\ Worker)
                      /\ SF_allVars(~crashed /\ checkDeadlock)
                      /\ <>[]Hanging
<1>7. SFairSpec /\ []MonitorsNeverWait /\ <>[]Hanging => Premise
    BY <1>1, PTL DEF SFairSpec, SSpec, SFairness
<1> HIDE DEF Premise
<1>8. Premise => []<>Away("deadlock", 0)
    BY <1>2, <1>3, PTL DEF Premise, WorkerSteps, RoundOf
<1>9. Premise => []<><<~crashed /\ checkDeadlock>>_allVars
    BY <1>4, <1>8, PTL DEF Premise
<1>10. Premise => <>[]Raised
    BY <1>5, <1>6, <1>9, PTL DEF Premise
<1> QED
    BY <1>7, <1>10, PTL DEF HangIsRaised, Raised


-----------------------------------------------------------------------------
(***************************************************************************)
(* Overloads are raised.  The resource monitor has to find the process it  *)
(* measures; from then on each of its checks counts, until the threshold,  *)
(* at most 3 (the default of MonitorConfig::debounce_count), is reached.   *)
(***************************************************************************)
Busy(level) == Measured(level)

\* The monitor has the process, or will look for it at its next check.
Matched  == resource.pid = process
NoPid    == resource.pid = 0

Alarmed(level) == IF level = "error" THEN Raised ELSE Worried

\* While the process uses too much it is there, and the monitor that has found
\* it keeps it.
LEMMA MatchStep ==
    ASSUME [SNext]_allVars, NEW level \in {"warn", "error"}, Busy(level), Busy(level)'
    PROVE  /\ Matched => Matched'
           /\ NoPid => NoPid' \/ Matched'
           /\ UNCHANGED resource \/ NoPid' \/ Matched'
           /\ process' = process
<1> USE DEF Matched, NoPid, Busy, Measured
<1>1. CASE Environment
    BY <1>1 DEF Environment, processExits, processStarts, getCpuUsage, hangs, builtin
<1>2. CASE startAll
    BY <1>2 DEF startAll, LookUp, Found, env
<1>3. CASE stopAll \/ resetAll
    BY <1>3 DEF stopAll, resetAll
<1>4. CASE begin \/ checkStopped \/ checkLifecycle \/ checkResourceNull \/ checkDeadlockEarly
           \/ checkDeadlock
    BY <1>4 DEF begin, checkStopped, checkLifecycle, checkResourceNull, checkDeadlockEarly,
       checkDeadlock, builtin, env
<1>5. CASE checkResourceSearch
    BY <1>5 DEF checkResourceSearch, env
<1>6. CASE checkResourceExit
    BY <1>6 DEF checkResourceExit, Exited, env
<1>7. CASE checkResourceUse
    BY <1>7 DEF checkResourceUse, Exited, env
<1>8. CASE UNCHANGED allVars
    BY <1>8 DEF allVars, builtin, env
<1> QED
    BY <1>1, <1>2, <1>3, <1>4, <1>5, <1>6, <1>7, <1>8 DEF SNext, Owner, Worker

\* The three ways a check of a started resource monitor can go.
LEMMA ResourceChecks ==
    ASSUME Worker, platform, Checking("resource")
    PROVE  checkResourceSearch \/ checkResourceExit \/ checkResourceUse
BY DEF Worker, begin, beginCheckAll, checkStopped, checkLifecycle, checkResourceNull,
   checkDeadlockEarly, checkDeadlock, Checking

LEMMA MatchFound ==
    ASSUME BuiltinOK, Worker, Checking("resource"),
           NEW level \in {"warn", "error"}, Busy(level), Busy(level)'
    PROVE  /\ NoPid => Matched'
           /\ ~NoPid /\ ~Matched => NoPid'
<1> USE DEF Matched, NoPid, Busy, Measured
<1>1. CASE checkResourceSearch
    BY <1>1 DEF checkResourceSearch, BuiltinOK, env
<1>2. CASE checkResourceExit
    BY <1>2 DEF checkResourceExit
<1>3. CASE checkResourceUse
    BY <1>3 DEF checkResourceUse, Exited
<1> QED
    BY <1>1, <1>2, <1>3, ResourceChecks

\* The counter of a source changes only when its monitor is checked.
LEMMA CountStays ==
    ASSUME "resource" \in Sources, TypeOK, [SNext]_allVars, platform', ~(Worker /\ Checking("resource"))
    PROVE  debounce_map'["resource"] = debounce_map["resource"]
<1>1. CASE Environment \/ checkResourceNull \/ UNCHANGED allVars
    BY <1>1 DEF Environment, processExits, processStarts, getCpuUsage, hangs, checkResourceNull,
       vars, allVars
<1>2. CASE Owner
    BY <1>2 DEF Owner, startAll, stopAll, resetAll, start, vars
<1>3. CASE begin
    BY <1>3 DEF begin, beginCheckAll
<1>4. ASSUME NEW s \in {"ERROR", "WARNING", NoEvent}, Returns(s), monitors[cursor] # "resource"
      PROVE  debounce_map'["resource"] = debounce_map["resource"]
    BY <1>4 DEF Returns, checkReturns, checkReturnsEmpty, processMonitorResult, Recover, CountFault,
       TypeOK
<1>5. CASE Worker /\ ~begin /\ ~checkResourceNull
    <2>1. cursor # 0 /\ monitors[cursor] # "resource" /\ platform
        BY <1>5 DEF Worker, checkStopped, checkLifecycle, checkResourceSearch, checkResourceExit,
           checkResourceUse, checkDeadlockEarly, checkDeadlock, Checking, builtin
    <2> QED
        BY <1>4, <1>5, <2>1, CheckReturnsEvent
<1> QED
    BY <1>1, <1>2, <1>3, <1>5 DEF SNext


\* A check of a monitor that has the process reports, and the report counts.
LEMMA UseCounts ==
    ASSUME TypeOK, Stands, platform, checkResourceUse, Configured("resource"),
           NEW level \in {"warn", "error"}, cpu = level, ~Alarmed(level)
    PROVE  \/ Alarmed(level)'
           \/ /\ debounce_map'["resource"] = debounce_map["resource"] + 1
              /\ debounce_map'["resource"] < Debounce("resource")
<1> DEFINE s      == IF level = "error" THEN "ERROR" ELSE "WARNING"
           target == IF level = "error" THEN ERROR ELSE WARN
<1>1. checkReturns(s) /\ monitors[cursor] = "resource" /\ cursor # 0
    BY DEF checkResourceUse, Severity, getMetricWithFallback, Returns, Checking, NoEvent
<1>2. seStateFromSeverity[s] = target /\ target # RUNNING
    BY DEF seStateFromSeverity, Severities, RUNNING, WARN, ERROR
<1>3. /\ current_state \in {RUNNING, SUSPECT, WARN}
      /\ current_state < target
    BY DEF TypeOK, SeStates, Stands, Alarmed, Raised, Worried, INIT, RUNNING, SUSPECT, WARN, ERROR,
       FATAL
<1>4. CountFault("resource", target)
    BY <1>1, <1>2, <1>3 DEF checkReturns, processMonitorResult, RUNNING, SUSPECT, WARN, ERROR
<1>5. "resource" \in Sources /\ debounce_map["resource"] \in Nat
    BY <1>1, CheckedIsSource DEF TypeOK
<1>6. Debounce("resource") \in Nat
    BY <1>5, DebounceType
<1>7. CASE debounce_map["resource"] + 1 >= Debounce("resource")
    <2>1. transitionTo(target)
        BY <1>4, <1>7 DEF CountFault
    <2>2. target \in g_transition_table[current_state]
        BY <1>3 DEF g_transition_table, SeStates, INIT, RUNNING, SUSPECT, WARN, ERROR, FATAL
    <2> QED
        BY <2>1, <2>2 DEF transitionTo, isTransitionAllowed, Alarmed, Raised, Worried
<1>8. CASE ~(debounce_map["resource"] + 1 >= Debounce("resource"))
    BY <1>4, <1>5, <1>6, <1>8 DEF CountFault, TypeOK
<1> QED
    BY <1>7, <1>8

\* A step of an overload: what it does to the process the monitor has found,
\* to the counter and to the state.
CheckNow == <<~crashed /\ Worker /\ Away("resource", 0)>>_allVars

Presses(level) ==
    /\ Matched => Matched'
    /\ NoPid => NoPid' \/ Matched'
    /\ CheckNow /\ NoPid => Matched'
    /\ CheckNow /\ ~NoPid /\ ~Matched => NoPid'
    /\ Alarmed(level) => Alarmed(level)'
    /\ Count("resource", 0) \/ Count("resource", 1) \/ Count("resource", 2)
    /\ ~CheckNow => (Count("resource", 0) => Count("resource", 0)') /\ (Count("resource", 1) => Count("resource", 1)') /\ (Count("resource", 2) => Count("resource", 2)')
    /\ CheckNow /\ Matched /\ ~Alarmed(level) =>
          \/ Alarmed(level)'
          \/ ~Count("resource", 2) /\ (Count("resource", 0) => Count("resource", 1)') /\ (Count("resource", 1) => Count("resource", 2)')

LEMMA OverloadPresses ==
    ASSUME WatchedBy("resource", 3), WInv, [SNext]_allVars,
           NEW level \in {"warn", "error"}, Busy(level), Busy(level)'
    PROVE  Presses(level)
<1>1. /\ Placed("resource") /\ Configured("resource") /\ "resource" \in Sources
      /\ Debounce("resource") \in 1 .. 3
    BY DebounceType DEF WatchedBy, Heard
<1>2. CheckNow => Worker /\ Checking("resource") /\ platform
    BY <1>1, DistanceIsShort DEF CheckNow, WorkerSteps, WInv, IInv, Busy, Measured
<1>3. /\ Matched => Matched'
      /\ NoPid => NoPid' \/ Matched'
    BY MatchStep
<1>4. /\ CheckNow /\ NoPid => Matched'
      /\ CheckNow /\ ~NoPid /\ ~Matched => NoPid'
    BY <1>2, MatchFound DEF WInv
<1>5. Alarmed(level) => Alarmed(level)'
    BY StandsStep DEF WInv, IInv, Alarmed, Busy, Measured
<1>6. debounce_map["resource"] \in 0 .. 2
    BY <1>1 DEF WInv, IInv, TypeOK, CounterIsEvidence
<1>7. ~CheckNow => debounce_map'["resource"] = debounce_map["resource"]
    <2>1. CASE UNCHANGED allVars
        BY <2>1 DEF allVars, vars
    <2>2. CASE ~UNCHANGED allVars
        <3>1. ~CheckNow => ~(Worker /\ Checking("resource"))
            BY <1>1, <2>2, DistanceIsShort DEF CheckNow, WorkerSteps, WInv, IInv, Busy, Measured
        <3> QED
            BY <1>1, <3>1, CountStays DEF WInv, IInv, Busy, Measured
    <2> QED
        BY <2>1, <2>2
<1>8. CheckNow /\ Matched /\ ~Alarmed(level) =>
          \/ Alarmed(level)'
          \/ /\ debounce_map'["resource"] = debounce_map["resource"] + 1
             /\ debounce_map'["resource"] < Debounce("resource")
    <2> SUFFICES ASSUME CheckNow, Matched, ~Alarmed(level)
                 PROVE  \/ Alarmed(level)'
                        \/ /\ debounce_map'["resource"] = debounce_map["resource"] + 1
                           /\ debounce_map'["resource"] < Debounce("resource")
        OBVIOUS
    <2>1. checkResourceUse
        BY <1>2, ResourceChecks DEF checkResourceSearch, checkResourceExit, Exited, Matched,
           Busy, Measured
    <2> QED
        BY <1>1, <1>2, <2>1, UseCounts DEF WInv, IInv, Busy, Measured
<1>9. /\ Count("resource", 0) \/ Count("resource", 1) \/ Count("resource", 2)
      /\ ~CheckNow => (Count("resource", 0) => Count("resource", 0)') /\ (Count("resource", 1) => Count("resource", 1)') /\ (Count("resource", 2) => Count("resource", 2)')
      /\ CheckNow /\ Matched /\ ~Alarmed(level) =>
            \/ Alarmed(level)'
            \/ ~Count("resource", 2) /\ (Count("resource", 0) => Count("resource", 1)') /\ (Count("resource", 1) => Count("resource", 2)')
    BY <1>1, <1>6, <1>7, <1>8 DEF Count
<1> QED
    BY <1>3, <1>4, <1>5, <1>9 DEF Presses

(***************************************************************************)
(* A process that stays and is measured to use too much for good puts the  *)
(* entity into the state of the threshold, or a worse one, for good, for   *)
(* any debounce_count up to its default of 3 and whatever the other        *)
(* monitors report: the resource monitor finds the process, and then each  *)
(* of its checks counts.                                                   *)
(***************************************************************************)
THEOREM OverloadIsAlwaysRaised ==
    ASSUME WatchedBy("resource", 3)
    PROVE  SFairSpec /\ []MonitorsNeverWait => OverloadIsRaised
<1>0. Placed("resource")
    BY WatchedBy("resource", 3) DEF WatchedBy
<1>1. SSpec => []WInv
    BY WInvariance
<1>2. WInv /\ platform /\ [SNext]_allVars => RoundOf("resource")
    BY <1>0, GoesRound
<1>3. WInv /\ ~crashed /\ MonitorsNeverWait => ENABLED WorkerSteps
    BY <1>0, PlaceIsThere DEF WInv, IInv, Stands, MonitorsNeverWait, WorkerSteps
<1>4. /\ WInv /\ [SNext]_allVars /\ Busy("error") /\ Busy("error")' => Presses("error")
      /\ WInv /\ [SNext]_allVars /\ Busy("warn") /\ Busy("warn")' => Presses("warn")
    BY WatchedBy("resource", 3), OverloadPresses
<1>5. /\ Busy("error") => platform /\ ~crashed
      /\ Busy("warn") => platform /\ ~crashed
    BY DEF Busy, Measured
<1> DEFINE Steady  == []WInv /\ [][SNext]_allVars
           Checks  == []<><<~crashed /\ Worker /\ Away("resource", 0)>>_allVars
           Premise == /\ Steady /\ []MonitorsNeverWait
                      /\ WF_allVars(~crashed /\ Worker)
                      /\ <>[](platform /\ ~crashed)
<1>6. SFairSpec /\ []MonitorsNeverWait /\ <>[](platform /\ ~crashed) => Premise
    BY <1>1, PTL DEF SFairSpec, SSpec, SFairness
<1> HIDE DEF Steady, Checks, Premise
<1>7. Premise => Steady /\ Checks
    BY <1>2, <1>3, PTL DEF Premise, Steady, Checks, WorkerSteps, RoundOf
<1>8. /\ Steady /\ Checks /\ <>[]Busy("error") => <>[]Matched
      /\ Steady /\ Checks /\ <>[]Busy("warn") => <>[]Matched
    BY <1>4, PTL DEF Steady, Checks, CheckNow, Presses
<1>9. Steady /\ Checks /\ <>[]Busy("error") => <>[]Alarmed("error")
    BY <1>4, <1>8, PTL DEF Steady, Checks, CheckNow, Presses
<1>10. Steady /\ Checks /\ <>[]Busy("warn") => <>[]Alarmed("warn")
    BY <1>4, <1>8, PTL DEF Steady, Checks, CheckNow, Presses
<1>11. /\ Alarmed("error") => current_state = ERROR
       /\ Alarmed("warn") => current_state \in {WARN, ERROR}
       /\ Measured("error") => Busy("error")
       /\ Measured("warn") => Busy("warn")
    BY DEF Alarmed, Raised, Worried, Busy
<1> QED
    BY <1>5, <1>6, <1>7, <1>9, <1>10, <1>11, PTL DEF OverloadIsRaised


=============================================================================
