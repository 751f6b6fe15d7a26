------------------------------ MODULE PhmTypes ------------------------------
(***************************************************************************)
(* The enumerations of src/include/faw/phm/types.h and the transition      *)
(* table of src/src/state_machine.cpp, shared by the component modules.    *)
(***************************************************************************)
EXTENDS Naturals

(***************************************************************************)
(* SeState has its numeric values: the code compares them with >.          *)
(***************************************************************************)
INIT    == 0
RUNNING == 1
SUSPECT == 2
WARN    == 3
ERROR   == 4
FATAL   == 5

SeStates     == INIT .. FATAL
Severities   == {"INFO", "WARNING", "ERROR", "CRITICAL", "FATAL"}
MonitorTypes == {"PROCESS_LIFECYCLE", "RESOURCE", "DEADLOCK", "ALIVE", "CUSTOM"}

-----------------------------------------------------------------------------
seStateFromSeverity ==
    [s \in Severities |->
        CASE s = "INFO"    -> RUNNING
          [] s = "WARNING" -> WARN
          [] s = "FATAL"   -> FATAL
          [] OTHER         -> ERROR]

\* Mutant: the table without the jump SUSPECT -> ERROR.
TableWithoutJump ==
    [s \in SeStates |->
        CASE s = INIT    -> {RUNNING, SUSPECT}
          [] s = RUNNING -> {SUSPECT, WARN, ERROR, FATAL}
          [] s = SUSPECT -> {RUNNING, WARN}
          [] s = WARN    -> {RUNNING, ERROR}
          [] s = ERROR   -> {RUNNING, FATAL}
          [] s = FATAL   -> {}]

\* g_transition_table: the states each state may move to.
g_transition_table ==
    [s \in SeStates |->
        CASE s = INIT    -> {RUNNING, SUSPECT}
          [] s = RUNNING -> {SUSPECT, WARN, ERROR, FATAL}
          [] s = SUSPECT -> {RUNNING, WARN, ERROR}
          [] s = WARN    -> {RUNNING, ERROR}
          [] s = ERROR   -> {RUNNING, FATAL}
          [] s = FATAL   -> {}]

\* Mutant: an INFO event brings back even a FATAL entity.
AllowedFromFatal(from, to) == to \in g_transition_table[from] \/ (from = FATAL /\ to = RUNNING)

isTransitionAllowed(from, to) == to \in g_transition_table[from]

=============================================================================
