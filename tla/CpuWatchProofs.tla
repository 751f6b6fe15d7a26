--------------------------- MODULE CpuWatchProofs ---------------------------
(***************************************************************************)
(* What CpuWatch promises, for any number of monitors and processors and   *)
(* any threshold.                                                          *)
(***************************************************************************)
EXTENDS CpuWatch, TLAPS

-----------------------------------------------------------------------------
(* Arithmetic *)

LEMMA ProductGrows ==
    ASSUME NEW a \in Nat, NEW b \in Nat, NEW c \in Nat, a <= b
    PROVE  c * a <= c * b /\ c * a \in Nat /\ c * b \in Nat
OBVIOUS

LEMMA ProductOfNext ==
    ASSUME NEW a \in Nat, NEW c \in Nat
    PROVE  (a + 1) * c = a * c + c /\ a * c \in Nat
OBVIOUS

\* Numbers below the modulus are their own remainder.
LEMMA SmallRemainder ==
    ASSUME NEW a \in Nat, a < Modulus PROVE a % Modulus = a
BY CpuWatchAssumption

-----------------------------------------------------------------------------
(* The inductive invariant *)

\* The kernel's counters grow with its clock.
Counters ==
    /\ total_jiffies <= 1 + clock * NumCpus
    /\ \A m \in Monitors : used[m] <= clock

\* s was read off process m of life p: since then it has not run longer than the system has.
ReadOff(s) ==
    s.of # Nobody =>
        /\ s.pid # NoPid /\ s.pid <= life[s.of]
        /\ s.total <= total_jiffies /\ s.proc <= clock
        /\ s.pid = life[s.of] =>
               /\ s.proc <= used[s.of]
               /\ used[s.of] - s.proc <= total_jiffies - s.total

BaseIsSaved ==
    /\ base.pid # NoPid => base.of # Nobody
    /\ base.of # Nobody =>
           /\ base.proc = last_proc_jiffies
           /\ base.total <= last_total_jiffies
           /\ base.prompt <=> base.total = last_total_jiffies

SampleIsNewer ==
    at = "readSystemStat" =>
        /\ sampled.of = checking /\ sampled.proc = proc_jiffies
        /\ last_total_jiffies <= sampled.total
        /\ base.of = sampled.of /\ base.pid = sampled.pid =>
               /\ base.proc <= sampled.proc
               /\ sampled.proc - base.proc <= sampled.total - base.total

IInv ==
    /\ TypeOK /\ Counters
    /\ ReadOff(base) /\ ReadOff(sampled)
    /\ BaseIsSaved /\ SampleIsNewer
    /\ UsageIsTrue

-----------------------------------------------------------------------------
(* The steps *)

LEMMA InitIsGood == ASSUME Init PROVE IInv
<1>1. TypeOK
    BY CpuWatchAssumption DEF Init, TypeOK, Usages, Sample, NoSample, NoPid, NoEvent, NoReport
<1>2. Counters
    BY CpuWatchAssumption DEF Init, Counters
<1> QED
    BY <1>1, <1>2
    DEF Init, IInv, ReadOff, BaseIsSaved, SampleIsNewer, UsageIsTrue, NoSample, NoReport, NoPid

\* A step in which no usage is computed claims nothing.
LEMMA NothingToReport == ASSUME report' = NoReport PROVE UsageIsTrue'
BY DEF UsageIsTrue, NoReport

LEMMA TimeKeeps == ASSUME IInv, timePasses PROVE IInv'
<1>1. /\ clock \in Nat /\ clock < MaxClock /\ clock' = clock + 1
      /\ NumCpus \in Nat /\ NumCpus >= 1 /\ MaxClock \in Nat
      /\ total_jiffies \in Nat \ {0} /\ used \in [Monitors -> Nat]
    BY CpuWatchAssumption DEF IInv, TypeOK, timePasses
<1>2. /\ total_jiffies' \in {total_jiffies, total_jiffies + NumCpus}
      /\ used' \in [Monitors -> Nat]
      /\ \A m \in Monitors : used'[m] \in {used[m], used[m] + 1}
      /\ \A m \in Monitors : used'[m] # used[m] => total_jiffies' = total_jiffies + NumCpus
    BY <1>1 DEF timePasses
<1>3. UNCHANGED <<life, alive, statics, monitors, check>> /\ raised' = NoEvent /\ report' = NoReport
    BY DEF timePasses, NothingReturned
<1>4. TypeOK'
    BY <1>1, <1>2, <1>3
    DEF IInv, TypeOK, statics, monitors, check, NoEvent, NoReport, Usages
<1>5. Counters'
    <2>1. clock' * NumCpus = clock * NumCpus + NumCpus /\ clock * NumCpus \in Nat
        BY <1>1, ProductOfNext
    <2>2. total_jiffies <= 1 + clock * NumCpus /\ \A m \in Monitors : used[m] <= clock
        BY DEF IInv, Counters
    <2> QED
        BY <1>1, <1>2, <2>1, <2>2 DEF Counters
<1>6. ASSUME NEW s \in Sample, ReadOff(s), s' = s PROVE ReadOff(s)'
    <2> SUFFICES ASSUME s.of # Nobody PROVE ReadOff(s)'
        BY <1>6 DEF ReadOff
    <2>1. s.of \in Monitors /\ s.total \in Nat /\ s.proc \in Nat
        BY DEF Sample
    <2>2. life' = life
        BY <1>3
    <2>3. /\ s.pid # NoPid /\ s.pid <= life[s.of]
          /\ s.total <= total_jiffies /\ s.proc <= clock
          /\ s.pid = life[s.of] => /\ s.proc <= used[s.of]
                                  /\ used[s.of] - s.proc <= total_jiffies - s.total
        BY <1>6 DEF ReadOff
    <2>4. /\ used[s.of] \in Nat /\ used'[s.of] \in {used[s.of], used[s.of] + 1}
          /\ used'[s.of] # used[s.of] => total_jiffies' = total_jiffies + NumCpus
        BY <1>1, <1>2, <2>1
    <2>5. s.total <= total_jiffies' /\ s.proc <= clock'
        BY <1>1, <1>2, <2>1, <2>3
    <2>6. s.pid = life[s.of] => /\ s.proc <= used'[s.of]
                               /\ used'[s.of] - s.proc <= total_jiffies' - s.total
        BY <1>1, <1>2, <2>1, <2>3, <2>4
    <2> QED
        BY <1>6, <2>2, <2>3, <2>5, <2>6 DEF ReadOff
<1>7. ReadOff(base)' /\ ReadOff(sampled)'
    BY <1>3, <1>6 DEF IInv, TypeOK, statics, check
<1>8. BaseIsSaved' /\ SampleIsNewer'
    BY <1>3 DEF IInv, BaseIsSaved, SampleIsNewer, statics, check
<1> QED
    BY <1>3, <1>4, <1>5, <1>7, <1>8, NothingToReport DEF IInv

LEMMA ExitKeeps == ASSUME IInv, NEW m \in Monitors, exits(m) PROVE IInv'
<1>1. /\ UNCHANGED <<clock, total_jiffies, life, used, statics, monitors, check>>
      /\ raised' = NoEvent /\ report' = NoReport
    BY DEF exits, NothingReturned
<1>2. TypeOK'
    BY <1>1 DEF exits, IInv, TypeOK, statics, monitors, check, NoEvent, NoReport, Usages
<1> QED
    BY <1>1, <1>2, NothingToReport
    DEF IInv, Counters, ReadOff, BaseIsSaved, SampleIsNewer, statics, check

LEMMA StartKeeps == ASSUME IInv, NEW m \in Monitors, starts(m) PROVE IInv'
<1>1. /\ UNCHANGED <<clock, total_jiffies, statics, monitors, check>>
      /\ raised' = NoEvent /\ report' = NoReport
      /\ life' = [life EXCEPT ![m] = @ + 1] /\ used' = [used EXCEPT ![m] = 0]
      /\ alive' = [alive EXCEPT ![m] = TRUE]
    BY DEF starts, NothingReturned
<1>2. life \in [Monitors -> Nat \ {NoPid}] /\ used \in [Monitors -> Nat] /\ clock \in Nat
    BY CpuWatchAssumption DEF IInv, TypeOK
<1>3. TypeOK'
    BY <1>1, <1>2 DEF IInv, TypeOK, statics, monitors, check, NoEvent, NoReport, Usages, NoPid
<1>4. Counters'
    BY <1>1, <1>2 DEF IInv, Counters
<1>5. ASSUME NEW s \in Sample, ReadOff(s), s' = s PROVE ReadOff(s)'
    <2> SUFFICES ASSUME s.of # Nobody PROVE ReadOff(s)'
        BY <1>5 DEF ReadOff
    <2>1. s.of \in Monitors /\ s.pid \in Nat
        BY DEF Sample
    <2>2. CASE s.of = m
        BY <1>1, <1>2, <1>5, <2>1, <2>2 DEF ReadOff
    <2>3. CASE s.of # m
        BY <1>1, <1>2, <1>5, <2>1, <2>3 DEF ReadOff
    <2> QED
        BY <2>2, <2>3
<1>6. ReadOff(base)' /\ ReadOff(sampled)'
    BY <1>1, <1>5 DEF IInv, TypeOK, statics, check
<1> QED
    BY <1>1, <1>3, <1>4, <1>6, NothingToReport
    DEF IInv, BaseIsSaved, SampleIsNewer, statics, check

LEMMA SearchKeeps ==
    ASSUME IInv, NEW m \in Monitors, checkSearch(m) \/ checkExit(m) PROVE IInv'
<1>1. /\ UNCHANGED <<environment, statics, last_cpu_>>
      /\ report' = NoReport
      /\ checking' = Nobody /\ at' = "none" /\ proc_jiffies' = 0 /\ sampled' = NoSample
      /\ raised'.by = m /\ raised' \in [by : Monitors \cup {Nobody}, event : {"none", "exit", "overload"}]
    BY DEF checkSearch, checkExit, Return
<1>2. pid_' \in [Monitors -> Nat]
    BY DEF IInv, TypeOK, checkSearch, checkExit, getProcessId, NoPid
<1>3. TypeOK'
    BY <1>1, <1>2
    DEF IInv, TypeOK, environment, statics, NoReport, NoSample, NoPid, Usages, Sample
<1> QED
    BY <1>1, <1>3, NothingToReport
    DEF IInv, Counters, ReadOff, BaseIsSaved, SampleIsNewer, environment, statics, NoSample

LEMMA BeginKeeps == ASSUME IInv, NEW m \in Monitors, checkUse(m) PROVE IInv'
<1>1. /\ UNCHANGED <<environment, statics, monitors, proc_jiffies, sampled>>
      /\ raised' = NoEvent /\ report' = NoReport
      /\ checking' = m /\ at' = "readProcStat"
    BY DEF checkUse, NothingReturned
<1>2. TypeOK'
    BY <1>1, CpuWatchAssumption
    DEF IInv, TypeOK, environment, statics, monitors, NoEvent, NoReport, Usages
<1> QED
    BY <1>1, <1>2, NothingToReport
    DEF IInv, Counters, ReadOff, BaseIsSaved, SampleIsNewer, environment, statics

\* What any end of getCpuUsage() does to the types.
LEMMA ConcludeTypes ==
    ASSUME IInv, NEW m \in Monitors, NEW u \in Usages, Conclude(m, u)
    PROVE  /\ last_cpu_' \in [Monitors -> Usages] /\ pid_' = pid_
           /\ raised' \in [by : Monitors \cup {Nobody}, event : {"none", "exit", "overload"}]
           /\ checking' = Nobody /\ at' = "none" /\ proc_jiffies' = 0
           /\ sampled' = NoSample /\ sampled' \in Sample
BY DEF IInv, TypeOK, Conclude, Return, NoSample, Sample, NoPid, Usages

LEMMA ReadProcKeeps == ASSUME IInv, readProcStat PROVE IInv'
<1> DEFINE m == checking
<1>1. m \in Monitors /\ m # Nobody /\ UNCHANGED <<environment, statics>>
    BY CpuWatchAssumption DEF IInv, TypeOK, readProcStat
<1>2. /\ proc_jiffies' = used[m]
      /\ sampled' = [pid |-> life[m], of |-> m, total |-> total_jiffies,
                     prompt |-> TRUE, proc |-> used[m]]
      /\ at' = "readSystemStat"
      /\ UNCHANGED <<checking, monitors>> /\ raised' = NoEvent /\ report' = NoReport
    BY DEF readProcStat, NothingReturned
<1>3. /\ life[m] \in Nat \ {NoPid} /\ used[m] \in Nat /\ used[m] <= clock
      /\ total_jiffies \in Nat /\ last_total_jiffies <= total_jiffies
    BY <1>1 DEF IInv, TypeOK, Counters
<1>4. sampled' \in Sample
    BY <1>1, <1>2, <1>3 DEF Sample
<1>5. TypeOK'
    BY <1>1, <1>2, <1>3, <1>4
    DEF IInv, TypeOK, environment, statics, monitors, NoEvent, NoReport, Usages
<1>6. ReadOff(sampled)'
    BY <1>1, <1>2, <1>3 DEF ReadOff, environment
<1>7. SampleIsNewer'
    <2>1. base.of = m /\ base.pid = life[m] =>
              /\ base.proc <= used[m]
              /\ used[m] - base.proc <= total_jiffies - base.total
        BY <1>1 DEF IInv, ReadOff
    <2> QED
        BY <1>1, <1>2, <1>3, <2>1 DEF SampleIsNewer, environment, statics
<1> QED
    BY <1>1, <1>2, <1>5, <1>6, <1>7, NothingToReport
    DEF IInv, Counters, ReadOff, BaseIsSaved, environment, statics

LEMMA NothingReadKeeps ==
    ASSUME IInv, checking \in Monitors, Conclude(checking, "zero"), report' = NoReport,
           UNCHANGED <<environment, statics>>
    PROVE  IInv'
<1>1. "zero" \in Usages
    BY DEF Usages
<1>2. TypeOK'
    BY <1>1, ConcludeTypes DEF IInv, TypeOK, environment, statics, NoReport, Usages
<1> QED
    BY <1>1, <1>2, ConcludeTypes, NothingToReport
    DEF IInv, Counters, ReadOff, BaseIsSaved, SampleIsNewer, environment, statics, NoSample

LEMMA ReadFailsKeeps == ASSUME IInv, readFails PROVE IInv'
<1>1. checking \in Monitors
    BY DEF IInv, TypeOK, readFails
<1> QED
    BY <1>1, NothingReadKeeps DEF readFails

\* The new base line is the sample.
LEMMA UpdateKeeps ==
    ASSUME IInv, at = "readSystemStat", Update, UNCHANGED environment, sampled' = NoSample,
           at' = "none"
    PROVE  /\ last_read' \in 0 .. clock' /\ last_total_jiffies' \in 0 .. total_jiffies'
           /\ last_proc_jiffies' \in Nat /\ base' \in Sample
           /\ Counters' /\ ReadOff(base)' /\ ReadOff(sampled)' /\ BaseIsSaved' /\ SampleIsNewer'
<1>1. /\ sampled \in Sample /\ proc_jiffies \in Nat /\ total_jiffies \in Nat /\ clock \in Nat
      /\ checking \in Monitors /\ checking # Nobody
    BY CpuWatchAssumption DEF IInv, TypeOK
<1>2. /\ base'.pid = sampled.pid /\ base'.of = sampled.of /\ base'.total = sampled.total
      /\ base'.proc = sampled.proc /\ base'.prompt = (sampled.total = total_jiffies)
      /\ base' \in Sample
    BY <1>1 DEF Update, Sample
<1>3. /\ last_proc_jiffies' = proc_jiffies /\ last_total_jiffies' = total_jiffies
      /\ last_read' = clock
      /\ clock' = clock /\ total_jiffies' = total_jiffies /\ life' = life /\ used' = used
    BY DEF Update, environment
<1>4. sampled.of = checking /\ sampled.proc = proc_jiffies
    BY DEF IInv, SampleIsNewer
<1>5. /\ sampled.pid # NoPid /\ sampled.pid <= life[sampled.of]
      /\ sampled.total <= total_jiffies /\ sampled.proc <= clock
      /\ sampled.pid = life[sampled.of] =>
             /\ sampled.proc <= used[sampled.of]
             /\ used[sampled.of] - sampled.proc <= total_jiffies - sampled.total
    BY <1>1, <1>4 DEF IInv, ReadOff
<1>6. ReadOff(base)' /\ BaseIsSaved'
    BY <1>1, <1>2, <1>3, <1>4, <1>5 DEF ReadOff, BaseIsSaved
<1>7. ReadOff(sampled)' /\ SampleIsNewer'
    BY DEF ReadOff, SampleIsNewer, NoSample
<1> QED
    BY <1>1, <1>2, <1>3, <1>6, <1>7 DEF IInv, Counters

\* The usage of a life whose former sample is the base line.
LEMMA UsageOfOne ==
    ASSUME IInv, at = "readSystemStat", last_total_jiffies # 0,
           base.pid = sampled.pid, base.of = sampled.of,
           NEW u, u = Usage((proc_jiffies - last_proc_jiffies) % Modulus,
                            (total_jiffies - last_total_jiffies) % Modulus)
    PROVE  /\ base.prompt /\ u = "above" => Overloaded
           /\ sampled.total = total_jiffies /\ Overloaded => u = "above"
<1> DEFINE p == sampled.proc - base.proc
           d == sampled.total - base.total
           t == total_jiffies - last_total_jiffies
           c == 100 * NumCpus * p
<1>1. /\ sampled \in Sample /\ base \in Sample /\ total_jiffies \in Nat
      /\ last_total_jiffies \in 0 .. total_jiffies /\ clock \in 0 .. MaxClock
      /\ checking \in Monitors /\ checking # Nobody
      /\ NumCpus \in Nat \ {0} /\ Threshold \in Nat \ {0} /\ MaxClock \in Nat
    BY CpuWatchAssumption DEF IInv, TypeOK
<1>2. /\ sampled.of # Nobody /\ sampled.proc = proc_jiffies /\ base.proc = last_proc_jiffies
      /\ base.total <= last_total_jiffies /\ last_total_jiffies <= sampled.total
      /\ base.prompt <=> base.total = last_total_jiffies
      /\ base.proc <= sampled.proc /\ p <= d
      /\ sampled.total <= total_jiffies /\ sampled.proc <= clock
    BY <1>1 DEF IInv, BaseIsSaved, SampleIsNewer, ReadOff
<1>3. p \in Nat /\ d \in Nat /\ t \in Nat
    BY <1>1, <1>2 DEF Sample
<1>4. p < Modulus /\ t < Modulus
    <2>1. clock * NumCpus <= MaxClock * NumCpus /\ clock * NumCpus \in Nat
        BY <1>1, ProductGrows
    <2>2. clock <= clock * NumCpus
        BY <1>1
    <2>3. 1 + MaxClock * NumCpus < Modulus /\ total_jiffies <= 1 + clock * NumCpus /\ Modulus \in Nat
        BY CpuWatchAssumption DEF IInv, Counters
    <2>4. MaxClock * NumCpus \in Nat
        BY <1>1
    <2>5. sampled.proc < Modulus /\ total_jiffies < Modulus
        BY <1>1, <1>2, <2>1, <2>2, <2>3, <2>4 DEF Sample
    <2> QED
        BY <1>1, <1>2, <2>3, <2>5 DEF Sample
<1>5. (proc_jiffies - last_proc_jiffies) % Modulus = p /\ t % Modulus = t
    BY <1>2, <1>3, <1>4, SmallRemainder
<1>6. u = IF p = 0 THEN "zero" ELSE IF c >= Threshold * t THEN "above" ELSE "below"
    BY <1>5 DEF Usage
<1>7. Overloaded <=> d > 0 /\ c >= Threshold * d
    BY <1>1, <1>2 DEF Overloaded, Sample
<1>8. c \in Nat /\ (p = 0 => c = 0)
    BY <1>1, <1>3
<1>9. Threshold * t \in Nat /\ Threshold * d \in Nat /\ (d > 0 => Threshold * d > 0)
    BY <1>1, <1>3
<1>10. ASSUME base.prompt, u = "above" PROVE Overloaded
    <2>1. p # 0 /\ c >= Threshold * t
        BY <1>6, <1>10
    <2>2. d <= t
        BY <1>1, <1>2, <1>10 DEF Sample
    <2>3. Threshold * d <= Threshold * t
        BY <1>1, <1>3, <2>2, ProductGrows
    <2>4. d > 0
        BY <1>2, <1>3, <2>1
    <2> HIDE DEF c, d, p, t
    <2> QED
        BY <1>7, <1>8, <1>9, <2>1, <2>3, <2>4
<1>11. ASSUME sampled.total = total_jiffies, Overloaded PROVE u = "above"
    <2>1. d > 0 /\ c >= Threshold * d
        BY <1>7, <1>11
    <2>2. t <= d
        BY <1>1, <1>2, <1>11 DEF Sample
    <2>3. Threshold * t <= Threshold * d
        BY <1>1, <1>3, <2>2, ProductGrows
    <2> HIDE DEF c, d, p, t
    <2>4. c >= Threshold * t /\ p # 0
        BY <1>8, <1>9, <2>1, <2>3
    <2> QED
        BY <1>6, <2>4
<1> QED
    BY <1>10, <1>11

LEMMA ComputeKeeps == ASSUME IInv, computeUsage PROVE IInv'
<1> DEFINE m == checking
           proc_delta == (proc_jiffies - last_proc_jiffies) % Modulus
           sys_delta == (total_jiffies - last_total_jiffies) % Modulus
           u == Usage(proc_delta, sys_delta)
<1>1. m \in Monitors /\ m # Nobody /\ UNCHANGED environment /\ at = "readSystemStat"
    BY CpuWatchAssumption DEF IInv, TypeOK, computeUsage
<1>2. u \in Usages /\ "zero" \in Usages
    BY DEF Usage, Usages
<1> HIDE DEF u
<1>3. CASE UNCHANGED statics /\ Conclude(m, "zero") /\ report' = NoReport
    BY <1>1, <1>3, NothingReadKeeps
<1>4. CASE Update /\ Conclude(m, "zero") /\ report' = NoReport
    <2>1. sampled' = NoSample /\ at' = "none"
        BY <1>1, <1>2, <1>4, ConcludeTypes
    <2>2. TypeOK'
        BY <1>1, <1>2, <1>4, <2>1, ConcludeTypes, UpdateKeeps
        DEF IInv, TypeOK, environment, NoReport, Usages
    <2> QED
        BY <1>1, <1>4, <2>1, <2>2, UpdateKeeps, NothingToReport DEF IInv
<1>5. CASE /\ Update /\ Conclude(m, u) /\ last_total_jiffies # 0
           /\ report' = [usage |-> u,
                         own |-> base.pid = sampled.pid /\ base.of = sampled.of,
                         prompt |-> sampled.total = total_jiffies,
                         basePrompt |-> base.prompt,
                         overloaded |-> Overloaded]
    <2>1. sampled' = NoSample /\ at' = "none"
        BY <1>1, <1>2, <1>5, ConcludeTypes
    <2>2. base.prompt \in BOOLEAN
        BY DEF IInv, TypeOK, Sample
    <2>3. report' \in [usage : Usages, own : BOOLEAN, prompt : BOOLEAN, basePrompt : BOOLEAN,
                       overloaded : BOOLEAN]
        BY <1>2, <1>5, <2>2 DEF Overloaded
    <2>4. TypeOK'
        BY <1>1, <1>2, <1>5, <2>1, <2>3, ConcludeTypes, UpdateKeeps DEF IInv, TypeOK, environment
    <2>5. UsageIsTrue'
        <3>1. ASSUME base.pid = sampled.pid, base.of = sampled.of
              PROVE  /\ base.prompt /\ u = "above" => Overloaded
                     /\ sampled.total = total_jiffies /\ Overloaded => u = "above"
            BY <1>1, <1>5, <3>1, UsageOfOne DEF u
        <3>2. /\ report'.own <=> base.pid = sampled.pid /\ base.of = sampled.of
              /\ report'.usage = u /\ report'.prompt = (sampled.total = total_jiffies)
              /\ report'.basePrompt = base.prompt /\ report'.overloaded = Overloaded
            BY <1>5
        <3> QED
            BY <3>1, <3>2, Zenon DEF UsageIsTrue
    <2> QED
        BY <1>1, <1>5, <2>1, <2>4, <2>5, UpdateKeeps DEF IInv
<1> QED
    BY <1>3, <1>4, <1>5 DEF computeUsage, u

LEMMA StepKeeps == ASSUME IInv, [Next]_vars PROVE IInv'
<1>1. CASE timePasses
    BY <1>1, TimeKeeps
<1>2. CASE \E m \in Monitors : exits(m) \/ starts(m)
    BY <1>2, ExitKeeps, StartKeeps
<1>3. CASE \E m \in Monitors : checkSearch(m) \/ checkExit(m) \/ checkUse(m)
    BY <1>3, SearchKeeps, BeginKeeps
<1>4. CASE readProcStat
    BY <1>4, ReadProcKeeps
<1>5. CASE readFails \/ computeUsage
    BY <1>5, ReadFailsKeeps, ComputeKeeps
<1>6. CASE UNCHANGED vars
    <2>1. UNCHANGED <<environment, statics, monitors, check, raised, report>>
        BY <1>6 DEF vars
    <2>2. TypeOK'
        BY <2>1 DEF IInv, TypeOK, environment, statics, monitors, check
    <2> QED
        BY <2>1, <2>2
        DEF IInv, Counters, ReadOff, BaseIsSaved, SampleIsNewer, UsageIsTrue, environment, statics,
            check
<1> QED
    BY <1>1, <1>2, <1>3, <1>4, <1>5, <1>6 DEF Next

LEMMA Invariance == Spec => []IInv
BY InitIsGood, StepKeeps, PTL DEF Spec

-----------------------------------------------------------------------------
(* Theorems *)

(***************************************************************************)
(* Every variable keeps its type: in particular the base line is never     *)
(* ahead of the kernel (getCpuUsage).                                      *)
(***************************************************************************)
THEOREM TypeIsCorrect == Spec => []TypeOK
<1>1. IInv => TypeOK
    BY DEF IInv
<1> QED
    BY <1>1, Invariance, PTL

(***************************************************************************)
(* Between two samples of one life the usage errs only as the delays in    *)
(* between let it, for any threshold, processors and times (getCpuUsage).  *)
(***************************************************************************)
THEOREM UsagesAreTrue == Spec => []UsageIsTrue
<1>1. IInv => UsageIsTrue
    BY DEF IInv
<1> QED
    BY <1>1, Invariance, PTL

-----------------------------------------------------------------------------
(* Where a false overload comes from *)

\* A usage above the threshold was once computed from jiffies of the process itself.
UseIsKnown ==
    /\ \A k \in Monitors : life[k] = 1
    /\ \A k \in Monitors : last_cpu_[k] = "above" => used[k] > 0
    /\ base.of = Nobody => last_proc_jiffies = 0
    /\ OverloadNeedsUse

\* With one process that lives once, the base line is of the sample's own life.
LEMMA OwnJiffies ==
    ASSUME NEW m, Monitors = {m}, IInv, UseIsKnown, at = "readSystemStat",
           NEW d, Usage((proc_jiffies - last_proc_jiffies) % Modulus, d) = "above"
    PROVE  used[m] > 0
<1>1. /\ sampled \in Sample /\ base \in Sample /\ checking = m /\ m # Nobody
      /\ used[m] \in Nat /\ proc_jiffies \in Nat /\ last_proc_jiffies \in Nat /\ life[m] = 1
    BY CpuWatchAssumption DEF IInv, TypeOK, UseIsKnown
<1>2. sampled.of = m /\ sampled.proc = proc_jiffies
    BY <1>1 DEF IInv, SampleIsNewer
<1>3. sampled.pid = 1 /\ sampled.proc <= used[m]
    BY <1>1, <1>2 DEF IInv, ReadOff, Sample, NoPid
<1>4. last_proc_jiffies <= proc_jiffies
    <2>1. CASE base.of = Nobody
        BY <1>1, <2>1 DEF UseIsKnown
    <2>2. CASE base.of # Nobody
        <3>1. base.of = m /\ base.proc = last_proc_jiffies
            BY <1>1, <2>2 DEF Sample, IInv, BaseIsSaved
        <3>2. base.pid = 1
            BY <1>1, <2>2, <3>1 DEF IInv, ReadOff, Sample, NoPid
        <3> QED
            BY <1>2, <1>3, <3>1, <3>2 DEF IInv, SampleIsNewer
    <2> QED
        BY <2>1, <2>2
<1>5. proc_jiffies # 0
    <2> SUFFICES ASSUME proc_jiffies = 0 PROVE FALSE
        OBVIOUS
    <2>1. proc_jiffies - last_proc_jiffies = 0
        BY <1>1, <1>4
    <2>2. 0 < Modulus
        BY CpuWatchAssumption
    <2>3. (proc_jiffies - last_proc_jiffies) % Modulus = 0
        BY <2>1, <2>2, SmallRemainder
    <2> QED
        BY <2>3 DEF Usage
<1> QED
    BY <1>1, <1>2, <1>3, <1>5

LEMMA UseStaysKnown ==
    ASSUME NEW m, Monitors = {m}, MaxLives = 1, IInv, UseIsKnown, [Next]_vars
    PROVE  UseIsKnown'
<1>1. /\ life[m] = 1 /\ used[m] \in Nat /\ m # Nobody /\ last_cpu_ \in [Monitors -> Usages]
      /\ used \in [Monitors -> Nat] /\ checking \in Monitors \cup {Nobody}
    BY CpuWatchAssumption DEF IInv, TypeOK, UseIsKnown
<1>2. ASSUME NEW u \in Usages, Conclude(m, u), UNCHANGED environment, u = "above" => used[m] > 0,
             UNCHANGED statics \/ (Update /\ sampled.of # Nobody)
      PROVE  UseIsKnown'
    <2>1. /\ last_cpu_' = [last_cpu_ EXCEPT ![m] = IF u # "zero" THEN u ELSE last_cpu_[m]]
          /\ raised' = [by |-> m, event |-> IF last_cpu_'[m] = "above" THEN "overload" ELSE "none"]
        BY <1>1, <1>2 DEF Conclude, Return
    <2>2. last_cpu_'[m] = "above" => used[m] > 0
        BY <1>1, <1>2, <2>1 DEF UseIsKnown
    <2>3. used' = used /\ life' = life
        BY <1>2 DEF environment
    <2>4. base'.of = Nobody => last_proc_jiffies' = 0
        <3>1. CASE UNCHANGED statics
            BY <3>1 DEF statics, UseIsKnown
        <3>2. CASE Update /\ sampled.of # Nobody
            BY <3>2 DEF Update, IInv, TypeOK, Sample
        <3> QED
            BY <1>2, <3>1, <3>2
    <2>5. OverloadNeedsUse'
        <3>1. raised'.by = m /\ (raised'.event = "overload" => last_cpu_'[m] = "above")
            BY <2>1
        <3> QED
            BY <2>2, <2>3, <3>1 DEF OverloadNeedsUse
    <2> QED
        BY <2>2, <2>3, <2>4, <2>5 DEF UseIsKnown
<1>3. CASE timePasses
    <2>1. \A k \in Monitors : used'[k] \in {used[k], used[k] + 1} /\ used[k] \in Nat
        BY <1>1, <1>3 DEF timePasses
    <2>2. UNCHANGED <<life, last_cpu_, base, last_proc_jiffies>> /\ raised' = NoEvent
        BY <1>3 DEF timePasses, NothingReturned, statics, monitors
    <2> QED
        BY <2>1, <2>2 DEF UseIsKnown, OverloadNeedsUse, NoEvent
<1>4. CASE \E k \in Monitors : exits(k) \/ checkUse(k)
    BY <1>4 DEF exits, checkUse, NothingReturned, UseIsKnown, OverloadNeedsUse, environment,
                statics, monitors, NoEvent
<1>5. ASSUME NEW k \in Monitors, starts(k) PROVE FALSE
    BY <1>1, <1>5 DEF starts
<1>6. CASE \E k \in Monitors : checkSearch(k) \/ checkExit(k)
    BY <1>6 DEF checkSearch, checkExit, Return, UseIsKnown, OverloadNeedsUse, environment, statics
<1>7. CASE readProcStat
    BY <1>7 DEF readProcStat, NothingReturned, UseIsKnown, OverloadNeedsUse, environment, statics,
                monitors, NoEvent
<1>8. CASE readFails
    <2>1. checking = m
        BY <1>1, <1>8 DEF IInv, TypeOK, readFails
    <2> QED
        BY <1>2, <1>8, <2>1 DEF readFails, Usages
<1>9. CASE computeUsage
    <2> DEFINE u == Usage((proc_jiffies - last_proc_jiffies) % Modulus,
                          (total_jiffies - last_total_jiffies) % Modulus)
    <2>1. checking = m /\ at = "readSystemStat" /\ sampled.of # Nobody /\ UNCHANGED environment
        BY <1>1, <1>9 DEF IInv, TypeOK, computeUsage, SampleIsNewer
    <2>2. u \in Usages /\ "zero" \in Usages /\ (u = "above" => used[m] > 0)
        BY <2>1, OwnJiffies DEF Usage, Usages
    <2>3. \E v \in {"zero", u} : Conclude(m, v) /\ (UNCHANGED statics \/ Update)
        BY <1>9, <2>1 DEF computeUsage
    <2> HIDE DEF u
    <2> QED
        BY <1>2, <2>1, <2>2, <2>3
<1>10. CASE UNCHANGED vars
    BY <1>10 DEF vars, UseIsKnown, OverloadNeedsUse, environment, statics, monitors, processExists
<1> QED
    BY <1>3, <1>4, <1>5, <1>6, <1>7, <1>8, <1>9, <1>10 DEF Next

(***************************************************************************)
(* The overload of a process that uses nothing, which restart_alarm finds, *)
(* comes from the base line being shared: with one monitor and one life of *)
(* its process there is none, for any threshold, processors and times.     *)
(***************************************************************************)
THEOREM OneLifeNeedsUse ==
    ASSUME NEW m, Monitors = {m}, MaxLives = 1
    PROVE  Spec => []OverloadNeedsUse
<1>1. Init => UseIsKnown
    BY DEF Init, UseIsKnown, OverloadNeedsUse, NoEvent
<1>2. IInv /\ UseIsKnown /\ [Next]_vars => UseIsKnown'
    BY UseStaysKnown
<1>3. UseIsKnown => OverloadNeedsUse
    BY DEF UseIsKnown
<1> QED
    BY <1>1, <1>2, <1>3, Invariance, PTL DEF Spec

=============================================================================
