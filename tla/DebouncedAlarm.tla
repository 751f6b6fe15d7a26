--------------------------- MODULE DebouncedAlarm ---------------------------
(***************************************************************************)
(* What a supervised entity promises whoever reads its state, without the  *)
(* counters, the cursor of a check, the callback and the transition table  *)
(* that src/src/state_machine.cpp implements it with: an alarm level that  *)
(* rises on the evidence of one source and falls only on a recovery.       *)
(***************************************************************************)
EXTENDS PhmTypes

CONSTANTS
    Heard,       \* the sources whose events count
    Threshold,   \* abnormal observations of a source that confirm an alarm
    Eager        \* sources whose every observation is handled twice

VARIABLES
    level,       \* the alarm level, one of SeStates
    observed     \* abnormal observations of a source since it recovered

AlarmInit ==
    /\ level = INIT
    /\ observed = [m \in Heard |-> 0]

Confirmed(m) == observed[m] = Threshold[m] \/ m \in Eager

\* Supervision begins: an alarm can only be raised from now on.
Begin ==
    /\ level = INIT
    /\ level' = RUNNING
    /\ UNCHANGED observed

\* m was seen abnormal; a repeated report adds nothing to what is known.
Observe(m) ==
    /\ observed' \in {observed, [observed EXCEPT ![m] = @ + 1]}
    /\ observed'[m] \in 1 .. Threshold[m]

\* The first doubt about a running entity.
Suspect(m) ==
    /\ Observe(m)
    /\ level' \in {level, IF level = RUNNING THEN SUSPECT ELSE level}

\* The alarm gets worse, on what its source itself has shown.
Raise(m) ==
    /\ Observe(m)
    /\ Confirmed(m)'
    /\ level \in {RUNNING, SUSPECT, WARN, ERROR}
    /\ level' \in {WARN, ERROR, FATAL}
    /\ level' > level

\* m is well again: the alarm ends, but one of the level FATAL.
Recovery(m) ==
    /\ observed' = [observed EXCEPT ![m] = 0]
    /\ level' = IF level = FATAL THEN FATAL ELSE RUNNING

Forget ==
    /\ level' = INIT
    /\ observed' = [m \in Heard |-> 0]

AlarmNext ==
    \/ Begin
    \/ Forget
    \/ \E m \in Heard : Suspect(m) \/ Raise(m) \/ Recovery(m)

AlarmSpec == AlarmInit /\ [][AlarmNext]_<<level, observed>>

=============================================================================
