--------------------------- MODULE ResourceReporter ---------------------------
(***************************************************************************)
(* ProcessResourceReporter (src/src/client_resource.cpp): a thread in the  *)
(* watched process that reports how much the process uses, and the metric  *)
(* slots of HealthChannel (src/src/health_channel.cpp) that it reports     *)
(* through.  The slots are written and read one by one, without a lock,    *)
(* and whichever process opens the channel clears them, in no order that   *)
(* memset() promises.                                                      *)
(*                                                                         *)
(* The reporter has one owner, who starts and stops it, makes it anew, and *)
(* dies at times.  A level stands for what the process uses at a time, one *)
(* for all of its metrics; what a report says of it differs by the metric. *)
(***************************************************************************)
EXTENDS Naturals

CONSTANTS
    NumSlots,     \* the number of metrics in a report
    Metrics,      \* their keys, in the order of the std::map they are collected in
    Levels,       \* what the process may use
    Exhausted,    \* the levels at which it has no file descriptor left to open
    Missing       \* in a snapshot: no such metric

Slots   == 1 .. NumSlots
Zero    == 0                         \* a cleared slot, and what the readings return for "none"
Openers == {"process", "monitor"}    \* who opens the channel

ASSUME ReporterAssumption ==
    /\ NumSlots \in Nat \ {0}
    /\ Metrics \in [Slots -> {"cpu", "fd_count", "memory_bytes"}]
    /\ Levels \subseteq Nat \ {0} /\ Exhausted \subseteq Levels
    /\ Missing \notin Nat

VARIABLES
    level,                       \* what the process uses now
    ru_maxrss,                   \* the most it has used in this life
    span,                        \* what it has used since the reporter's last sample, {} before one
    key, value, metric_count,    \* the memory: is the key of a slot there, its value, their number
    clearing,                    \* per side: the words its memset() has yet to clear
    running_,
    owner,                       \* where the owner is
    worker, at, sample,          \* where the thread is, "none" without one; its slot; its readings
    reader, n, next, snapshot,   \* getMetrics(): where it is, count, slot, result
    \* History, read by no step of the code.
    clean,     \* no opening since the collection of the last report began
    whole,     \* a report has been written since the last opening
    recent,    \* per slot: the readings collected since the last such report began
    floor,     \* whole, when getMetrics() read the count; no opening since
    fresh      \* recent at that time, and the readings collected since

use         == <<level, ru_maxrss, span>>
memory      == <<key, value, metric_count>>
past        == <<clean, whole, recent, floor, fresh>>
metricsVars == <<use, memory, clearing, running_, owner, worker, at, sample,
                reader, n, next, snapshot, past>>

Nothing == [i \in Slots |-> Missing]
NoneYet == [i \in Slots |-> {}]

Words == {<<"count", 0>>} \cup ({"key", "value"} \X Slots)

MetricsInit ==
    /\ level \in Levels /\ ru_maxrss = level /\ span = {}
    /\ key = [i \in Slots |-> FALSE] /\ value = [i \in Slots |-> Zero] /\ metric_count = 0
    /\ clearing = [s \in Openers |-> {}]
    /\ running_ = FALSE /\ owner = "idle"
    /\ worker = "none" /\ at = 1 /\ sample = Nothing
    /\ reader = "idle" /\ n = 0 /\ next = 1 /\ snapshot = Nothing
    /\ clean = TRUE /\ whole = FALSE /\ recent = NoneYet /\ floor = FALSE /\ fresh = NoneYet

-----------------------------------------------------------------------------
(* The owner and the channel *)

\* A reporter that was made anew has no sample yet.
startReporter ==
    /\ owner = "idle" /\ ~running_
    /\ running_' = TRUE
    /\ owner' = "starting"
    /\ span' \in {span, {}}
    /\ UNCHANGED <<level, ru_maxrss, memory, clearing, worker, at, sample, reader, n, next, snapshot, past>>

startThread ==
    /\ owner = "starting"
    /\ worker' = "test"
    /\ owner' = "idle"
    /\ UNCHANGED <<use, memory, clearing, running_, at, sample, reader, n, next, snapshot, past>>

stopReporter ==
    /\ owner = "idle" /\ running_
    /\ running_' = FALSE
    /\ owner' = "joining"
    /\ UNCHANGED <<use, memory, clearing, worker, at, sample, reader, n, next, snapshot, past>>

\* Mutant: the thread is let go instead of waited for.
StopDetaches ==
    /\ owner = "joining"
    /\ owner' = "idle"
    /\ UNCHANGED <<use, memory, clearing, running_, worker, at, sample, reader, n, next, snapshot,
                   past>>

stopJoin ==
    /\ owner = "joining" /\ worker = "done"
    /\ worker' = "none"
    /\ owner' = "idle"
    /\ UNCHANGED <<use, memory, clearing, running_, at, sample, reader, n, next, snapshot, past>>

\* The memory is cleared from here on: nothing read or written meanwhile can be relied on.
BeginWipe(side) ==
    /\ clearing' = [clearing EXCEPT ![side] = Words]
    /\ clean' = FALSE /\ whole' = FALSE /\ floor' = FALSE
    /\ recent' = NoneYet /\ fresh' = NoneYet

wipeSlot(side) ==
    /\ \E w \in clearing[side] :
          /\ clearing' = [clearing EXCEPT ![side] = @ \ {w}]
          /\ metric_count' = IF w = <<"count", 0>> THEN 0 ELSE metric_count
          /\ key' = [i \in Slots |-> w # <<"key", i>> /\ key[i]]
          /\ value' = [i \in Slots |-> IF w = <<"value", i>> THEN Zero ELSE value[i]]
    /\ UNCHANGED <<use, running_, owner, worker, at, sample, reader, n, next, snapshot, past>>

die ==
    /\ owner # "dead"
    /\ owner' = "dead" /\ running_' = FALSE /\ worker' = "none"
    /\ at' = 1 /\ sample' = Nothing /\ span' = {}
    /\ clearing' = [clearing EXCEPT !["process"] = {}]
    /\ UNCHANGED <<level, ru_maxrss, memory, reader, n, next, snapshot, past>>

launch ==
    /\ owner = "dead"
    /\ owner' = "opening"
    /\ ru_maxrss' = level
    /\ BeginWipe("process")
    /\ UNCHANGED <<level, span, memory, running_, worker, at, sample, reader, n, next, snapshot>>

opened ==
    /\ owner = "opening" /\ clearing["process"] = {}
    /\ owner' = "idle"
    /\ UNCHANGED <<use, memory, clearing, running_, worker, at, sample, reader, n, next, snapshot,
                   past>>

\* The owner goes on with what it has begun.
Finishing == startThread \/ stopJoin \/ opened \/ wipeSlot("process")

Owner == \/ startReporter \/ startThread \/ stopReporter \/ stopJoin
         \/ die \/ launch \/ opened \/ wipeSlot("process")

-----------------------------------------------------------------------------
(* The thread *)

testRunning ==
    /\ worker = "test"
    /\ worker' = IF running_ THEN "collect" ELSE "done"
    /\ UNCHANGED <<use, memory, clearing, running_, owner, at, sample, reader, n, next, snapshot,
                   past>>

\* The mean since the last sample, from the processor time used in between.
readSelfCpuUsage ==
    IF span = {} THEN {Zero}
    ELSE {l \in Levels : \E low, high \in span : low <= l /\ l <= high}

\* The directory of the descriptors cannot be opened without a descriptor.
readSelfOpenFdCount == IF level \in Exhausted THEN Zero ELSE level

readSelfMemoryBytes == ru_maxrss

collectAndReport ==
    \E mean \in readSelfCpuUsage :
        sample' = [i \in Slots |-> CASE Metrics[i] = "cpu"          -> mean
                                    [] Metrics[i] = "fd_count"     -> readSelfOpenFdCount
                                    [] Metrics[i] = "memory_bytes" -> readSelfMemoryBytes]

\* What is read now may be in a snapshot from now on.
Remember ==
    /\ clean' = (\A s \in Openers : clearing[s] = {})
    /\ recent' = IF whole THEN [i \in Slots |-> recent[i] \cup {sample'[i]}] ELSE NoneYet
    /\ fresh' = IF floor THEN [i \in Slots |-> fresh[i] \cup {sample'[i]}] ELSE NoneYet

\* Mutant: the mean is taken since the first sample, not since the last.
CollectSinceFirst ==
    /\ worker = "collect"
    /\ collectAndReport
    /\ span' = IF span = {} THEN {level} ELSE span
    /\ worker' = "key" /\ at' = 1
    /\ Remember
    /\ UNCHANGED <<level, ru_maxrss, memory, clearing, running_, owner, reader, n, next, snapshot,
                   whole, floor>>

collect ==
    /\ worker = "collect"
    /\ collectAndReport
    /\ span' = {level}
    /\ worker' = "key" /\ at' = 1
    /\ Remember
    /\ UNCHANGED <<level, ru_maxrss, memory, clearing, running_, owner, reader, n, next, snapshot,
                   whole, floor>>

storeKey ==
    /\ worker = "key"
    /\ key' = [key EXCEPT ![at] = TRUE]
    /\ worker' = "value"
    /\ UNCHANGED <<use, value, metric_count, clearing, running_, owner, at, sample,
                   reader, n, next, snapshot, past>>

\* Mutant: the number of slots is stored as they are filled.
StoreAndCount ==
    /\ worker = "value"
    /\ value' = [value EXCEPT ![at] = sample[at]]
    /\ metric_count' = at
    /\ IF at < NumSlots THEN worker' = "key" /\ at' = at + 1
                        ELSE worker' = "count" /\ at' = 1
    /\ UNCHANGED <<use, key, clearing, running_, owner, sample, reader, n, next, snapshot, past>>

storeValue ==
    /\ worker = "value"
    /\ value' = [value EXCEPT ![at] = sample[at]]
    /\ IF at < NumSlots THEN worker' = "key" /\ at' = at + 1
                        ELSE worker' = "count" /\ at' = 1
    /\ UNCHANGED <<use, key, metric_count, clearing, running_, owner, sample,
                   reader, n, next, snapshot, past>>

storeCount ==
    /\ worker = "count"
    /\ metric_count' = NumSlots
    /\ worker' = "sleep"
    /\ sample' = Nothing
    /\ whole' = clean
    /\ recent' = IF clean THEN [i \in Slots |-> {sample[i]}] ELSE NoneYet
    /\ UNCHANGED <<use, key, value, clearing, running_, owner, at, reader, n, next, snapshot,
                   clean, floor, fresh>>

sleep ==
    /\ worker = "sleep"
    /\ worker' = "test"
    /\ UNCHANGED <<use, memory, clearing, running_, owner, at, sample, reader, n, next, snapshot,
                   past>>

Worker == testRunning \/ collect \/ storeKey \/ storeValue \/ storeCount \/ sleep

-----------------------------------------------------------------------------
(* The monitor's side: opening the channel, and getMetrics() *)

reopen ==
    /\ reader # "opening"
    /\ reader' = "opening" /\ n' = 0 /\ next' = 1 /\ snapshot' = Nothing
    /\ BeginWipe("monitor")
    /\ UNCHANGED <<use, memory, running_, owner, worker, at, sample>>

reopened ==
    /\ reader = "opening" /\ clearing["monitor"] = {}
    /\ reader' = "idle"
    /\ UNCHANGED <<use, memory, clearing, running_, owner, worker, at, sample, n, next, snapshot,
                   past>>

getMetrics ==
    /\ reader = "idle"
    /\ n' = metric_count
    /\ reader' = "key"
    /\ floor' = whole /\ fresh' = recent
    /\ UNCHANGED <<use, memory, clearing, running_, owner, worker, at, sample, next, snapshot,
                   clean, whole, recent>>

loadKey ==
    /\ reader = "key" /\ next <= n
    /\ IF key[next] THEN reader' = "value" /\ UNCHANGED next
                    ELSE next' = next + 1 /\ UNCHANGED reader
    /\ UNCHANGED <<use, memory, clearing, running_, owner, worker, at, sample, n, snapshot, past>>

loadValue ==
    /\ reader = "value"
    /\ snapshot' = [snapshot EXCEPT ![next] = value[next]]
    /\ next' = next + 1
    /\ reader' = "key"
    /\ UNCHANGED <<use, memory, clearing, running_, owner, worker, at, sample, n, past>>

Complete == reader = "key" /\ next > n

returnMetrics ==
    /\ Complete
    /\ reader' = "idle" /\ n' = 0 /\ next' = 1 /\ snapshot' = Nothing
    /\ floor' = FALSE /\ fresh' = NoneYet
    /\ UNCHANGED <<use, memory, clearing, running_, owner, worker, at, sample, clean, whole, recent>>

Reader == getMetrics \/ loadKey \/ loadValue \/ returnMetrics
Reopening == reopened \/ wipeSlot("monitor")

useChanges ==
    /\ level' \in Levels
    /\ ru_maxrss' = IF level' > ru_maxrss THEN level' ELSE ru_maxrss
    /\ span' = IF span = {} THEN {} ELSE span \cup {level'}
    /\ UNCHANGED <<memory, clearing, running_, owner, worker, at, sample, reader, n, next, snapshot,
                   past>>

MetricsNext == Owner \/ Worker \/ Reader \/ Reopening \/ reopen \/ useChanges

MetricsSpec == MetricsInit /\ [][MetricsNext]_metricsVars

\* Threads that can go on do; the owner finishes what it has begun.
MetricsFairSpec ==
    /\ MetricsSpec
    /\ WF_metricsVars(Worker) /\ WF_metricsVars(Reader) /\ WF_metricsVars(Reopening)
    /\ WF_metricsVars(Finishing)

-----------------------------------------------------------------------------
(* Properties *)

Readings == Levels \cup {Zero}

MetricsTypeOK ==
    /\ level \in Levels /\ ru_maxrss \in Levels /\ span \subseteq Levels
    /\ key \in [Slots -> BOOLEAN] /\ value \in [Slots -> Readings]
    /\ metric_count \in {0, NumSlots}
    /\ clearing \in [Openers -> SUBSET Words]
    /\ running_ \in BOOLEAN
    /\ owner \in {"idle", "starting", "joining", "dead", "opening"}
    /\ worker \in {"none", "test", "collect", "key", "value", "count", "sleep", "done"}
    /\ at \in Slots /\ sample \in [Slots -> Readings] \cup {Nothing}
    /\ (worker \in {"key", "value", "count"} => sample # Nothing)
    /\ reader \in {"idle", "opening", "key", "value"}
    /\ n \in {0, NumSlots} /\ next \in 1 .. NumSlots + 1
    /\ (reader = "value" => next <= n)
    /\ snapshot \in [Slots -> Readings \cup {Missing}]
    /\ clean \in BOOLEAN /\ whole \in BOOLEAN /\ floor \in BOOLEAN
    /\ recent \in [Slots -> SUBSET Readings] /\ fresh \in [Slots -> SUBSET Readings]

(***************************************************************************)
(* Once stop() has returned no thread of the reporter is left that could   *)
(* write into a channel its owner destroys next, and a reporter that runs  *)
(* has its thread (start, lines 36-48, stop, lines 50-59).                 *)
(***************************************************************************)
StoppedIsQuiet == owner = "idle" => (running_ <=> worker \notin {"none", "done"})

(***************************************************************************)
(* Torn as it may be between two reports, a snapshot taken after a report  *)
(* that no opening of the channel disturbed has every metric, each as it   *)
(* was read for that report or for a later one (reportMetrics, lines       *)
(* 97-111, getMetrics, lines 113-124).                                     *)
(***************************************************************************)
SnapshotIsRecent == Complete /\ floor => \A i \in Slots : snapshot[i] \in fresh[i]

(***************************************************************************)
(* What the process uses for good is seen for good: with its reporter      *)
(* running and both sides' channels open, each snapshot is in the end of   *)
(* that level, but for the memory, which is the most used in this life,    *)
(* and the descriptors, none if there is none left (client_resource.cpp,   *)
(* lines 61-119).                                                          *)
(***************************************************************************)
Steady(l) == level = l /\ running_ /\ reader # "opening" /\ clearing["monitor"] = {}

Seen(l) ==
    [i \in Slots |-> CASE Metrics[i] = "cpu"          -> l
                       [] Metrics[i] = "fd_count"     -> IF l \in Exhausted THEN Zero ELSE l
                       [] Metrics[i] = "memory_bytes" -> ru_maxrss]

LevelIsSeen == \A l \in Levels : <>[]Steady(l) => <>[](Complete => snapshot = Seen(l))

-----------------------------------------------------------------------------
(* A premise of the liveness theorem *)

(***************************************************************************)
(* Neither the thread nor getMetrics() ever waits for the other, whatever  *)
(* is in the memory, and the owner waits in stop() alone, for the thread:  *)
(* the guards above, read as statements on ENABLED.                        *)
(***************************************************************************)
ReportingNeverWaits ==
    /\ worker \notin {"none", "done"} => ENABLED <<Worker>>_metricsVars
    /\ reader # "opening" => ENABLED <<Reader>>_metricsVars
    /\ \/ owner \in {"starting", "opening"}
       \/ owner = "joining" /\ worker = "done"
       => ENABLED <<Finishing>>_metricsVars

=============================================================================
