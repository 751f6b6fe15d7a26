------------------------------ MODULE CpuWatch ------------------------------
(***************************************************************************)
(* How a level of CPU use becomes an alarm: LinuxPlatform::getCpuUsage     *)
(* (src/src/platform/linux/process_linux.cpp) under the resource monitors  *)
(* (src/src/monitors/resource_monitor.cpp) that one thread checks in turn. *)
(* The usage is the difference of two samples, and the former sample is    *)
(* kept in variables of the function: one for all processes, monitors and  *)
(* lives of a process.                                                     *)
(*                                                                         *)
(* Time passes between any two steps of a check, in milliseconds and, more *)
(* coarsely, in the jiffies the kernel counts.  A pid is the life of a     *)
(* process.  One threshold stands for two, and no monitor has a health     *)
(* channel: nothing in src/ ever gives it one.                             *)
(***************************************************************************)
EXTENDS Integers

CONSTANTS
    Monitors,     \* each watches the process of its own name
    Nobody,       \* no monitor
    NumCpus,      \* _SC_NPROCESSORS_ONLN
    Threshold,    \* error_threshold, in per cent of one processor
    Modulus,      \* of an unsigned long long: 2^64
    MaxClock,     \* bound: the time that passes
    MaxLives      \* bound: how often a process is started

ASSUME CpuWatchAssumption ==
    /\ Nobody \notin Monitors
    /\ NumCpus \in Nat \ {0} /\ Threshold \in Nat \ {0} /\ Modulus \in Nat \ {0}
    /\ MaxClock \in Nat /\ MaxLives \in Nat
    /\ 1 + MaxClock * NumCpus < Modulus    \* no counter of the kernel turns over

VARIABLES
    clock, total_jiffies,                        \* the kernel's time
    life, alive, used,                           \* per process: its pid, its utime + stime
    last_read, last_total_jiffies, last_proc_jiffies,  \* static in getCpuUsage()
    pid_, last_cpu_,                             \* per monitor
    checking, at, proc_jiffies,                  \* the check under way, its place, what it has read
    \* History, read by no step of the code.
    sampled,      \* time, pid and system time of the process sample under way
    base,         \* the same of the sample in the static variables
    raised,       \* the check that ended in this step, and its event
    report        \* the usage computed in this step, and what there is to know of it

environment == <<clock, total_jiffies, life, alive, used>>
statics == <<last_read, last_total_jiffies, last_proc_jiffies, base>>
monitors == <<pid_, last_cpu_>>
check == <<checking, at, proc_jiffies, sampled>>
vars == <<environment, statics, monitors, check, raised, report>>

NoPid == 0
Usages == {"zero", "below", "above"}    \* what the code tells apart in a usage

NoSample == [pid |-> NoPid, of |-> Nobody, total |-> 0, prompt |-> FALSE, proc |-> 0]
NoEvent == [by |-> Nobody, event |-> "none"]
NoReport == [usage |-> "zero", own |-> FALSE, prompt |-> FALSE, basePrompt |-> FALSE,
             overloaded |-> FALSE]

Init ==
    /\ clock = 0 /\ total_jiffies = 1
    /\ life = [m \in Monitors |-> 1] /\ alive \in [Monitors -> BOOLEAN]
    /\ used = [m \in Monitors |-> 0]
    /\ last_read = 0 /\ last_total_jiffies = 0 /\ last_proc_jiffies = 0
    /\ pid_ = [m \in Monitors |-> IF alive[m] THEN life[m] ELSE NoPid]
    /\ last_cpu_ = [m \in Monitors |-> "zero"]
    /\ checking = Nobody /\ at = "none" /\ proc_jiffies = 0
    /\ sampled = NoSample /\ base = NoSample
    /\ raised = NoEvent /\ report = NoReport

NothingReturned == raised' = NoEvent /\ report' = NoReport

-----------------------------------------------------------------------------
(* The system *)

\* A millisecond passes, and a jiffy with it or not, in which each process may run.
timePasses ==
    /\ clock < MaxClock
    /\ clock' = clock + 1
    /\ \/ UNCHANGED <<total_jiffies, used>>
       \/ /\ total_jiffies' = total_jiffies + NumCpus
          /\ \E run \in SUBSET {m \in Monitors : alive[m]} :
                used' = [m \in Monitors |-> IF m \in run THEN used[m] + 1 ELSE used[m]]
    /\ NothingReturned
    /\ UNCHANGED <<life, alive, statics, monitors, check>>

exits(m) ==
    /\ alive[m]
    /\ alive' = [alive EXCEPT ![m] = FALSE]
    /\ NothingReturned
    /\ UNCHANGED <<clock, total_jiffies, life, used, statics, monitors, check>>

starts(m) ==
    /\ ~alive[m] /\ life[m] < MaxLives
    /\ alive' = [alive EXCEPT ![m] = TRUE]
    /\ life' = [life EXCEPT ![m] = @ + 1]
    /\ used' = [used EXCEPT ![m] = 0]
    /\ NothingReturned
    /\ UNCHANGED <<clock, total_jiffies, statics, monitors, check>>

processExists(m) == alive[m] /\ pid_[m] = life[m]
getProcessId(m) == IF alive[m] THEN life[m] ELSE NoPid

-----------------------------------------------------------------------------
(* check() of a resource monitor *)

Return(m, event) ==
    /\ raised' = [by |-> m, event |-> event]
    /\ checking' = Nobody /\ at' = "none" /\ proc_jiffies' = 0 /\ sampled' = NoSample

\* A usage of zero is taken for no answer: the one before counts.
Conclude(m, usage) ==
    LET cpu == IF usage # "zero" THEN usage ELSE last_cpu_[m]
    IN  /\ last_cpu_' = [last_cpu_ EXCEPT ![m] = cpu]
        /\ Return(m, IF cpu = "above" THEN "overload" ELSE "none")
        /\ UNCHANGED pid_

checkSearch(m) ==
    /\ checking = Nobody /\ pid_[m] = NoPid
    /\ pid_' = [pid_ EXCEPT ![m] = getProcessId(m)]
    /\ Return(m, "none") /\ report' = NoReport
    /\ UNCHANGED <<environment, statics, last_cpu_>>

checkExit(m) ==
    /\ checking = Nobody /\ pid_[m] # NoPid /\ ~processExists(m)
    /\ pid_' = [pid_ EXCEPT ![m] = NoPid]
    /\ Return(m, "exit") /\ report' = NoReport
    /\ UNCHANGED <<environment, statics, last_cpu_>>

checkUse(m) ==
    /\ checking = Nobody /\ pid_[m] # NoPid /\ processExists(m)
    /\ checking' = m /\ at' = "readProcStat"
    /\ NothingReturned
    /\ UNCHANGED <<environment, statics, monitors, proc_jiffies, sampled>>

\* Neither file can be opened without a free descriptor, nor that of a process that is gone.
readFails ==
    /\ at \in {"readProcStat", "readSystemStat"}
    /\ Conclude(checking, "zero") /\ report' = NoReport
    /\ UNCHANGED <<environment, statics>>

readProcStat ==
    /\ at = "readProcStat"
    /\ LET m == checking
       IN  /\ processExists(m)
           /\ proc_jiffies' = used[m]
           /\ sampled' = [pid |-> life[m], of |-> m, total |-> total_jiffies,
                          prompt |-> TRUE, proc |-> used[m]]
    /\ at' = "readSystemStat"
    /\ NothingReturned
    /\ UNCHANGED <<environment, statics, monitors, checking>>

\* Mutant: the base line of the system's jiffies stays.
UpdateProcess ==
    /\ last_proc_jiffies' = proc_jiffies
    /\ last_read' = clock
    /\ last_total_jiffies' = IF last_total_jiffies = 0 THEN total_jiffies ELSE last_total_jiffies
    /\ base' = [sampled EXCEPT !.prompt = sampled.total = total_jiffies]

Update ==
    /\ last_proc_jiffies' = proc_jiffies
    /\ last_total_jiffies' = total_jiffies
    /\ last_read' = clock
    /\ base' = [sampled EXCEPT !.prompt = sampled.total = total_jiffies]

Usage(proc_delta, sys_delta) ==
    IF proc_delta = 0 THEN "zero"
    ELSE IF 100 * NumCpus * proc_delta >= Threshold * sys_delta THEN "above" ELSE "below"

\* What the process really used between the two looks at it.
Overloaded ==
    /\ sampled.total > base.total
    /\ 100 * NumCpus * (sampled.proc - base.proc) >= Threshold * (sampled.total - base.total)

\* The system's jiffies are read, and the rest of getCpuUsage().
computeUsage ==
    /\ at = "readSystemStat"
    /\ LET proc_delta == (proc_jiffies - last_proc_jiffies) % Modulus
           sys_delta == (total_jiffies - last_total_jiffies) % Modulus
       IN  IF last_total_jiffies = 0
           THEN Update /\ Conclude(checking, "zero") /\ report' = NoReport
           ELSE IF clock - last_read <= 0
           THEN Conclude(checking, "zero") /\ report' = NoReport /\ UNCHANGED statics
           ELSE IF sys_delta = 0
           THEN Update /\ Conclude(checking, "zero") /\ report' = NoReport
           ELSE /\ Update
                /\ Conclude(checking, Usage(proc_delta, sys_delta))
                /\ report' = [usage |-> Usage(proc_delta, sys_delta),
                              own |-> base.pid = sampled.pid /\ base.of = sampled.of,
                              prompt |-> sampled.total = total_jiffies,
                              basePrompt |-> base.prompt,
                              overloaded |-> Overloaded]
    /\ UNCHANGED environment

Next ==
    \/ timePasses
    \/ \E m \in Monitors : exits(m) \/ starts(m)
    \/ \E m \in Monitors : checkSearch(m) \/ checkExit(m) \/ checkUse(m)
    \/ readProcStat
    \/ readFails
    \/ computeUsage

Spec == Init /\ [][Next]_vars

-----------------------------------------------------------------------------
(* Properties *)

Sample == [pid : Nat, of : Monitors \cup {Nobody}, total : Nat, prompt : BOOLEAN, proc : Nat]

TypeOK ==
    /\ clock \in 0 .. MaxClock /\ total_jiffies \in Nat \ {0}
    /\ life \in [Monitors -> Nat \ {NoPid}] /\ alive \in [Monitors -> BOOLEAN]
    /\ used \in [Monitors -> Nat]
    /\ last_read \in 0 .. clock
    /\ last_total_jiffies \in 0 .. total_jiffies /\ last_proc_jiffies \in Nat
    /\ pid_ \in [Monitors -> Nat] /\ last_cpu_ \in [Monitors -> Usages]
    /\ raised \in [by : Monitors \cup {Nobody}, event : {"none", "exit", "overload"}]
    /\ checking \in Monitors \cup {Nobody}
    /\ at \in {"none", "readProcStat", "readSystemStat"}
    /\ (at = "none" <=> checking = Nobody)
    /\ proc_jiffies \in Nat
    /\ sampled \in Sample /\ base \in Sample
    /\ report \in [usage : Usages, own : BOOLEAN, prompt : BOOLEAN, basePrompt : BOOLEAN,
                   overloaded : BOOLEAN]

(***************************************************************************)
(* A usage computed from two samples of one life of a process is true on   *)
(* the side that the delay between the two files read lets it err to: it   *)
(* is above the threshold only for an overloaded process if the former     *)
(* sample was not delayed, and always for one if the latter was not        *)
(* (getCpuUsage, lines 226-267).                                           *)
(***************************************************************************)
UsageIsTrue ==
    report.own =>
        /\ report.basePrompt /\ report.usage = "above" => report.overloaded
        /\ report.prompt /\ report.overloaded => report.usage = "above"

(***************************************************************************)
(* "The CPU usage of the target process is obtained correctly"             *)
(* (doc/checklist.md, 2.2.1): an overload is reported of a process that    *)
(* has used the processor at all.                                          *)
(***************************************************************************)
OverloadNeedsUse ==
    raised.event = "overload" /\ processExists(raised.by) => used[raised.by] > 0

=============================================================================
