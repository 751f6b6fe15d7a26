# PHM in TLA+

PHM (`src/doc/spec.md`) watches the processes of a machine: a library,
`libphm`, with an engine that ticks through supervised entities and their
monitors, and a daemon, `phmd`, around it. This directory holds TLA+ models of
its components, the TLC configurations that check them, and theorems about them that
TLAPS proves. Every definition is translated from the C++ source; `PROJECT.json`
gives the lines behind each one.

Run a check with `tlc -config X.cfg M` and the proofs with `tlapm M.tla`, in this
directory.

## 1. Inventory

| part | source (under `src/`) | state it keeps | operations | model |
|---|---|---|---|---|
| types, transition table | `include/faw/phm/types.h`, `src/state_machine.cpp` 1-56 | none | severity to state, allowed transitions | `PhmTypes` |
| SupervisedEntity | `src/state_machine.cpp`, `state_machine.h` | `current_state_`, `monitors_`, `debounce_map_`, `pending_events_`, `state_cb_`; **no lock** | `registerMonitor`, `start`, `stop`, `reset`, `checkAll`, `onMonitorEvent`, `drainEvents`, `setStateChangeCallback` | `SupervisedEntity` |
| PhmEngine | `src/phm_engine.cpp` | `entities_`, `running_`, `worker_`, `mutex_`, `config_` | `addSupervisedEntity`, `registerEntity`, `removeEntity`, `start`, `stop`, `tickLoop`, `onEntityStateChanged`, `getEntity`, `loadConfiguration`, `reloadConfiguration`, the other getters | `PhmEngine`, `Configuration`, partly |
| AliveMonitor | `src/monitors/alive_monitor.cpp` | `health_channel_`, `state_`, `last_counter_`, `first_check_` | `start`, `stop`, `reset`, `setHealthChannel`, `check` | `Heartbeat` |
| HealthChannel | `src/health_channel.cpp` | a shared memory page: counter, time, metric slots; **no lock** | constructor and destructor, `report`, `getAliveCounter`, `isAlive`, `reportMetrics`, `getMetrics` | `Heartbeat`, `ResourceReporter` |
| ProcessLifecycle-, Resource-, DeadlockMonitor | `src/monitors/*.cpp` | `state_`, `pid_`, `platform_`, `last_check_ok_`, `last_cpu_` | `start`, `stop`, `reset`, `check` | `Supervision`, `CpuWatch`, partly |
| EventManager | `src/event_manager.cpp` | a bounded queue | `push`, `getEvents`, `acknowledge`, `purge`, `clear` | `EventQueue`, implements `EventLog` |
| DataReporter | `src/data_reporter.cpp` | an open file per hour, bytes of the day | `report`, `reportBatch`, `setUploader` | `DataReporter`, partly |
| ProcessResourceReporter | `src/client_resource.cpp` | `running_`, `worker_`, the former sample | `start`, `stop`, its thread | `ResourceReporter` |
| Daemon | `daemon/daemon.cpp`, `daemon/main.cpp` | `running_`, `reload_requested_`, the PID file | `initialize`, `run`, the signal handler | `Daemon` |
| IpcServer | `daemon/ipc_server.cpp` | the socket and its file, `running_` | `start`, `stop`, `acceptOne`, `dispatch` | `Daemon` |
| AlertAggregator | `daemon/alert_aggregator.cpp` | alerts, the last one of each key | `addEvent`, `clear`, the durations | `AlertAggregator` |
| ConfigParser | `src/config_parser.cpp` | `s_last_error` of each thread | `parseFile`, `validate`, `lastError` | `Configuration` |
| Linux platform | `src/platform/linux` | the former sample of `getCpuUsage`, in static variables | `getCpuUsage`, `processExists`, `getProcessId`; wrappers of system calls | `CpuWatch`, partly |
| MonitorFactory, Logger | `src/monitor_framework.cpp`, `logger.cpp` | a table filled once, a log file | lookups, output | no: no behaviour over time |
| QNX platform | `src/platform/qnx` | none | wrappers of system calls | no: the models are of the Linux build |

**How they interact.** The worker thread of the engine copies the map of
entities under `mutex_` and then, without the lock, calls `checkAll()` of each.
`checkAll()` calls `check()` of each monitor; a monitor returns an event, and
may also hand it to `onMonitorEvent` from inside `check()`. The event passes the
entity's debounce counters and may move its state machine. Each transition
calls back into the engine (`onEntityStateChanged`), which takes `mutex_` to
compute the global state. Client threads call the engine's public methods at the
same time, and may keep the `shared_ptr` of an entity they registered or got from
`getEntity()`. The process being watched is another program: it writes its heartbeat
into shared memory that the monitor reads, and it exits, hangs and restarts when
it likes. The main thread of `phmd` starts the engine and then turns in a loop:
one client of the socket, one look at the flag a SIGHUP sets, one second of
sleep; a SIGTERM clears the flag the loop tests. EventManager and AlertAggregator are
classes no other part of the repository uses; DataReporter is called by the tick,
ProcessResourceReporter by the watched process. ConfigParser feeds the engine,
whose load takes `mutex_` anew for each entity. The resource monitors ask the
platform for a usage, which it computes from the sample it took last, of
whichever process.

**What is hard in it, and what makes each part correct.**

- *SupervisedEntity*: several sources share one state machine and one map of
  counters; a refused transition still clears the counter; the recovery of one
  monitor recovers the entity; `reset()` tells nobody. Correct means: alarms
  stand on evidence, evidence of two monitors never adds up, the state sinks
  only by recovery or reset, a lasting error is confirmed, and the owner of the
  callback knows the state.
- *PhmEngine*: the callback locks a mutex in whatever context it runs;
  `stop()` joins the worker outside the lock; entities are removed while the
  worker is checking them, and the worker restarts entities that are being
  removed, as long as anybody holds them. Correct means: no thread waits for itself, no
  `std::terminate`, a stopped engine is quiet, a removed entity does not run on, `stop()`
  returns, and every entity is checked again and again.
- *Heartbeat*: two processes, one memory, no lock, and either side may die and
  open (that is: clear) the memory at any time. Correct means: no alarm without
  a cause, no life sign without a recent report, and silence is found.
- *Monitors*: they report the edge of a fault and not its end, and keep pids and
  usages that go stale. Correct means: lasting faults get through to the entity's
  state, no alarm is without a cause, recovery is seen.

- *Daemon*: signals fall between any two instructions of a loop that also waits
  for clients, and a daemon that is killed leaves two files to its successor.
  The system may refuse it either file, and it goes on. Correct means: a SIGHUP is
  not lost, a SIGTERM ends the daemon, the files lead to the daemon that is alive,
  and a daemon that exits leaves none.

- *EventManager, AlertAggregator*: clients acknowledge ids they were given long
  ago, of a queue that others fill, sweep and acknowledge; the aggregator
  compares times of a clock that may be set back. Correct means: an event leaves
  the queue only by an acknowledgement of somebody who was shown it, by a sweep, or
  because as many newer ones as the capacity arrived; an alert is not repeated
  within the duration, and none is turned away for one that is no longer listed.

- *Configuration*: a load is a critical section for each entity, over a file that
  is edited while others validate it and clients add and remove the same
  entities. Correct means: a load that fails leaves no trace, one that succeeds
  adds what is new and touches nothing else, a verdict can be relied on.

- *ResourceReporter*: metrics go from process to process slot by slot without a
  lock, and either side clears them when it opens the memory; what they are read from
  is a mean, a count that may fail, and a peak. Correct means: no thread outlives
  `stop()`, a snapshot is complete and recent unless an opening disturbed it, and a
  use that stays is seen.

- *CpuWatch*: a usage is the difference of two samples, and the former one
  belongs to whoever was measured last. Correct means: a usage that is computed
  within one life of a process is true of it.

- *DataReporter*: one stream is handed from file to file, and a write that fails
  leaves it bad and its record in the buffer. Correct means: the failure of one
  file costs no record of another, and every record is in the file of its own
  entity and hour, at most once.

The full list, each entry at its line with the properties that cover it or the
reason none does, is "hazards" in `PROJECT.json`.

## 2. The modules

### PhmTypes
The enumerations with their numeric order (the code compares `SeState` with
`>`), the map from severity to state, and `g_transition_table`.

### SupervisedEntity, DebouncedAlarm
`DebouncedAlarm` is the abstract specification: an alarm level that rises on the
confirmed evidence of one source and falls only on a recovery, or is forgotten
with all its evidence; no counters, no cursor, no callback, no table of transitions. `Alarm` in
`SupervisedEntity` is the refinement mapping: the level is `current_state_`, the observations
are the history `evidence`; a source that calls back inside `check()` may confirm
one observation early (`Eager`).

`SupervisedEntity` has one action per public method. `checkAll()` is a loop without a lock, so it is
split at the calls of `check()`: `cursor` is the loop's place, and the
operations of other threads fall between two monitors. `checkRaises` is a
monitor that calls its event callback inside `check()`, `checkReturns` and
`checkReturnsEmpty` are the return. A monitor here is *any* `IMonitor`: it may
report anything at any time. `processMonitorResult` is the debounce logic of
lines 183-239, in three cases (recovery, a fault that counts, nothing).

`view`, `evidence` and `handled` are history: what the callback was last told,
how often each source was seen abnormal since it last sent INFO (no further than
its threshold), and the event the last step handled. No action of the code reads
them.

Simplified: the operations of one entity do not overlap inside a single
event. The class has no lock, so two threads inside `processMonitorResult` at
once is undefined behaviour, and so is a callback that calls `reset()` while the
function holds a reference into `debounce_map_`; neither has a defined outcome
to model.

### PhmEngine
Threads with program counters over one `std::mutex`. A step is what a thread does between two
points where it may wait or where it leaves the mutex; an operation that is one critical
section is one action. An entity is reduced to its state and to whether its
monitors run; which transition a check finds is any that the table allows.
`Transition` sends the thread into the two critical sections of
`onEntityStateChanged`, whichever operation caused it, and `return` says where
it goes on. An entity is held by the map, by `snapshot`, which is the vector of
`shared_ptr` of a tick, and by `handles`, the clients that registered it or called
`getEntity()`. Who lets go of it last, `removeEntity`, `tickEnd` or `release`, runs the
destructor, which stops its monitors (`Destroy`); it may then be constructed again.

Three sets of threads: those that start and stop the engine, those that change
the map, and the worker. `Prestarted` are the entities that their owner started
before registering them, `Shared` those that clients keep: the others are given away at
once.

Simplified: once an entity is registered its clients leave its monitors to the engine.
What a client does with the entity it holds, `start()`, `stop()` or an event of its
own, is the subject of `SupervisedEntity`.

### Heartbeat
`HealthChannel` and `AliveMonitor`, load by load and store by store, since no
lock protects the memory: `report()` is reading the clock, storing the
counter, storing the time; `check()` is loading the counter, loading the time,
deciding; and the constructor of either side clears the words in no promised
order. Both sides die and open the channel again at any step. Times are kept as
ages that stop at `Timeout`; beyond it an age says nothing new, as the
only use of a time is `now - last_update_ms < timeout`. A monitor starts without its
channel; `setHealthChannel` gives it one, and until then `checkNoChannel` is all that
`check()` does. Nothing in `src/` calls `setHealthChannel`, so what the run shows of a
monitor that has its channel is what one gets by calling it.

### Supervision
`SupervisedEntity` extended with the monitors the library really brings,
over a process that exits, restarts with another (or the same) pid, hangs and is
measured. The `check()` of each monitor decides which event the entity's own action
`checkReturns` handles; `stopAll` may come between two monitors, which is what
`removeEntity()` of another thread does. `getCpuUsage` is any answer at any time, true
or not, as its static variables are shared with all other monitors (`CpuWatch` is about
that), and `getMetricWithFallback` takes the last one that was not 0 where it is 0.
`hangs` is the search of the thread by name, which is what a deadlock monitor without a
channel does. `lost` and `faulty` are history.

Simplified: `stop()` goes through the monitors in one step; the resource
monitor watches one quantity.

### Daemon
The main thread of `phmd` from `main()` to its exit, with `pc` at the points
between which a signal, a client, a kill or an edit of the configuration file
may fall. Each system call may fail where the code has a way on: the socket and the PID
file may be refused (`bindEndpoint`, `writePidFile`), and the file may be left empty. `launch`
begins a life, `killed` ends one anywhere, so that each
daemon finds the files of the one before: `pid_file` and `endpoint` are "none",
"mine" or "stale" (a dead daemon's). The signals are steps that set a flag; a
signal that comes inside a step that writes into the log waits for the logger's
mutex, which its own thread holds (`signalInsideLog`). `acceptOne` takes a
waiting connection and `read` is where the thread stays until that client says
something. A reload is two steps, reading the file and giving the engine what it
says, as the file and the flags may change in between.

Simplified: one daemon is alive at a time. The engine is what the main thread
sees of it: `start()` does not return when a loaded entity is enabled
(`PhmEngine` shows why), `stop()` returns, `getStats()` does not. The main
thread takes the signals: the system prefers it to the others. `owed`,
`asked`, `refused` and `unwritten` are history.

### DataReporter
`report()` in its steps (make the name, close the old file, open the new one,
write), which its mutex keeps apart from other reports but not from the clock,
the disk or a kill. A file is the sequence of what was appended to it, records
whole or torn. The stream is what the code relies on without saying so: after a
failed write it is "bad" and takes nothing more, its buffer keeps the record,
and `close()` writes the buffer once more; opening makes it good again. So a
daemon with several entities, which changes files at each tick, recovers at the
next record, and one with a single entity when the hour changes. The clock may
go back, as local time does.

Simplified: a record fits into the buffer, as those of the engine do (longer ones
are written past it). A torn piece has no end of line, so that the piece after it
continues its line; which lines a reader can parse is not modelled, nor are the
uploader and `bytes_today_`, which counts records that failed too and never
starts again with a new day. `place` and `damaged` are history.

### EventLog, EventQueue, AlertAggregator, EventStores
`EventLog` is the abstract specification: the fate of each event (kept, shown,
settled, swept, dropped), and no queue. `EventQueue` is `EventManager`, one
action per method as its mutex makes them, with what each client was shown, as a
client may acknowledge much later what it was once shown. `Log` is the
refinement mapping: the fate of an event is read off the queue, the clients and
the history (`acked`, `swept`), and `ImplementsLog` says that every step of the queue
is one of the log or none. `AlertAggregator` has its own clock, which may be set
to any value. `EventStores` puts the two side by side: nothing in the repository
joins them, and any thread may call either.

Simplified: an event is its number of arrival (the id is a counter); a key is
entity, monitor and severity of an alert. A queue of capacity 0 is excluded by an
assumption: its first `push()` pops from an empty deque.

### Configuration
`ConfigParser` and the two operations of the engine that it feeds. A load parses
its file in one step (a file is read at once) and then adds entity by entity, as the
engine's mutex is taken anew for each one. `validate` is the parser and the
checks after it, with `s_last_error` per thread and with the error paths
that write it and those that do not. `Unsigned` is what `json::value<unsigned>`
makes of a negative interval. `answer`, `vouched`, `last` and `due` are history.

Simplified: one thread loads (the daemon's main thread). A document is its global
settings and the entities with the first fault the parser finds in each; one
interval stands for the numbers.

### ResourceReporter
The thread that reports what a process uses, and both ends of the metric slots of
`HealthChannel`: key, value, key, value, count on the one side, count, key, value on
the other, and the constructor of either side clearing the words in any
order. The owner starts and stops the thread (`start()` sets the flag in one
step and makes the thread in another), may make the reporter anew, and dies at any time.
What a report says of `level` depends on the metric: `readSelfCpuUsage` is 0 at the first
sample and then the mean since the sample before, which lies between the levels in
`span`; `readSelfMemoryBytes` is `ru_maxrss`, the highest level of this life; and
`readSelfOpenFdCount` is the level, or 0 where none is left to open the directory with.
`clean`, `whole`, `recent`, `floor` and `fresh` are history: which readings may be in a
snapshot.

Simplified: one level stands for the use of all three; of a mean only the levels it lies
between are known. The descriptors are counted with the directory's own and less two.

### CpuWatch
`getCpuUsage()` below the resource monitors of one thread. A check is three
steps, as time passes between reading the process's file and the system's: the
look at the pid, `readProcStat`, and `computeUsage`, which reads the system's file first; either
file may fail to open, which is a usage of 0 (`readFails`). `last_read`,
`last_total_jiffies` and `last_proc_jiffies` are the static variables,
`Modulus` the range of the unsigned difference of two samples, and a usage is one
of "zero", "below" and "above", which is all the monitor tells apart. `sampled`,
`base`, `raised` and `report` are history.

Simplified: one threshold instead of two; no memory; a pid is not used again.

## 3. The runs

| run | question | instance and why it is enough |
|---|---|---|
| `supervised_entity` | Is the debounced state machine honest whatever the sources, the owner and other threads do? | Three sources: one with threshold 2 (the least at which "count", "confirm" and "suspect" differ), one with `debounce_count` 0 that also calls back inside `check()`, and one whose type has no configuration; a second configuration of one type that must not be chosen. Counters and history are bounded by the thresholds. `MaxPending = 0`: the length of the pending list is read by nothing. |
| `phm_engine` | Do locks, joins and lifetimes work out between clients and worker? | One client that starts and stops, one that changes the map and holds entities. Three entities: two of one name that restart on FATAL, so that one is removed and its successor added while the worker or the client still holds the first, the successor disabled and not kept by clients; and one whose monitor fails to start. Two of one name is the least for an identity mix-up; each entity can be constructed again without end. |
| `start_under_lock` | Can `start()` start the entities itself? | **Deadlock**: the callback locks the mutex `start()` holds. |
| `start_during_stop` | Do all public methods support concurrent calls, as the header says? | **`std::terminate`**: a `start()` before the join of another thread's `stop()`. Two threads that start and stop, one of which changes the map too; two entities, one of which restarts. |
| `heartbeat` | What do a life sign and an alarm mean when two processes share memory without a lock? | `Timeout = 2`: an age can be fresh, ageing and stale. Three reports in a life: the check compares two counters, and one more can change between them; a new life counts from one again, so that equal counters of different lives meet. |
| `supervision` | Does what goes wrong with a process get into the entity's state, and nothing else? | All three monitors on one entity, two pids (a restart under another one and under the same), the resource monitor with threshold 2 since it is the only one that repeats its report; usages of 0 and at either threshold, so that the last one that was not 0 can be either. A usage below both, which ends an overload and raises nothing, doubles the states; TLC finds the same with it, in a few minutes more. |
| `daemon` | Do signals, clients and deaths at any point leave the daemon obedient and its files right? | `MaxWaiting = 2`: one connection waits while another is served. Three contents of the configuration file, the least that tell apart a failed load, an engine that starts and one that does not. |
| `stores` | Does the queue keep the promise of the log, the aggregator that of its comment, and does each record reach its own file, unless something failed there? | *Queue and alerts*: capacity 2 and three events, the least that crowds one out and keeps two in order; two clients, so that one acknowledges what another already did; two severities and two times of the clock for `getEvents` and `purge`. Two keys, durations 0 and 2 over a clock of 0 to 2, which may be set back. The two hold three events between them (`MaxStored`): neither knows of the other, so nothing is missed. *Files*: two entities and two hours: a file is left for another of the same entity or hour, and come back to. Four records: two in one file around one in another, and one more after a failure. The files share nothing with the other two, so each behaviour of `MCStores` is of one part (`part`). Clients, keys, entities and hours are symmetric: nothing compares them but for equality. |
| `configuration` | What do loads, reloads and verdicts leave behind over files that change? | Two files and two entities. The documents take each way through the parser: no file, no JSON, an entity without a name after a good one, an unknown type, an interval of 0, a negative one, and an entity named twice. `Modulus = 16`: large against the intervals, as 2^32 is. |
| `resource_reporter` | Is a snapshot of the metrics worth something, and does the thread end when it is told? | Two slots, the least that a reader can find torn, for processor use and memory, the two metrics that remember, and two levels. The descriptors, which are read anew each time, are left to the theorem `LevelsAreSeen`. |
| `cpu_watch` | When can a computed usage be believed? | Two monitors over one base line, two lives, four milliseconds: one for each of two samples and one within each. `Modulus = 64`, above every count, as 2^64 is. |
| `restart_alarm` | Is an overload reported only of a process that has used the processor? | **No**: one monitor, one restart. |

What the properties of the passing runs say:

- `ImplementsAlarm`: the entity is the alarm of `DebouncedAlarm`; with `CounterIsEvidence`
  it says that no counter and no alarm exceeds what its source was seen to do, and
  that two monitors' observations never add up to one alarm. `AlarmIsBacked`, that an
  alarm stands on unrecovered evidence, follows from it (`AlarmsRestOnEvidence`).
- `OnlyRecoveryLowers`: a state becomes better only by INFO or reset.
- `ObserverKnowsState`: the callback's owner knows the state, except after a
  `reset()`.
- `PersistentErrorIsRaised`: a monitor that keeps reporting ERROR takes the
  entity to ERROR, however other reports mix with it. It excludes FATAL reports:
  their refused confirmations clear the same counter (section 5).
- `StoppedMeansQuiet`, `NoCircularWait`, `RemovedRunsByRestart`, `StopReturns`,
  `EveryEntityIsChecked`, `RemovedIsReleased`: the engine, with entities that were started before they were
  registered and with one thread that starts and stops it. Both conditions are needed:
  `start_under_lock`, which asks for `NoSelfDeadlock`, shows the first, and
  `start_during_stop`, which asks for `NeverTerminates`, the second. That this is the only
  way two owners end the process is `OnlyAStopTerminates`, which is proved; TLC finds it
  and `StoppedMeansQuiet` true of the instance of `start_during_stop`.
  `NoCircularWait` is about the chain of a client that waits for the worker in
  `stop()`, the worker that waits for the mutex, and who holds it: that chain ends.
  `RemovedRunsByRestart` says what may still run after `removeEntity()` has stopped it:
  what auto restart has started again, until the tick is over, or for as long as a
  client holds it. The second half is not idle: an entity that was removed, restarted
  and kept runs on, also after `stop()`, which goes through the map. So `RemovedIsReleased`
  asks for the end of the monitors only of what nobody holds.
- `AliveIsRecent`, `NoFalseAlarm`, `SilenceIsFound`: the heartbeat. A heartbeat slower
  than the tick is a cause of alarm to `NoFalseAlarm`, as it is to the code.
  `SilenceIsFound` is about monitors that have their channel.
- `AlarmHasCause`, `CrashIsRaised`, `HangIsRaised`, `OverloadIsRaised`: the
  monitors, end to end. A cause is an exit, a thread that was not found, or an *answer* of
  `getCpuUsage()`: whether that answer was true is the question of `cpu_watch`, and
  `restart_alarm` shows one that was not. `AlarmHasCause` says that nothing else raises the
  entity, not even stale usages and pids: a process that is not there is no alarm.
- `MainNeverWaits`: the daemon's main thread can go on wherever it is not with a client
  or waiting for itself; neither the sockets nor a signal, nor a file that was left
  behind or refused, makes it wait.
- `ReloadIsServed`: a SIGHUP at any point, also at start-up or during a reload, is
  followed by a reading of the file, or by the end of the daemon. It assumes that one
  configuration has been read: a daemon whose first load failed has no path to read
  and never honours a SIGHUP; and it excepts, as `TermIsObeyed` does, clients that
  keep the daemon in `read()` and the deadlocks.
- `FilesLeadHere`, `ExitLeavesNothing`: the PID file and the socket, across kills
  and relaunches. Where the system refused the socket, or to write the PID file, the
  daemon goes on, without it or with a dead daemon's, which the properties except.
- `TermIsObeyed`: a SIGTERM the main loop gets ends the daemon, unless a client keeps it
  in `read()` for ever, or it waits for itself in `getStats()` or in the log. A
  SIGTERM that comes earlier is overwritten by `running_ = true` and lost.

- `SoundFilesAreComplete`, `FilesAreInOrder`: the files of the data reporter over
  any failures and any number of processes.

- `ImplementsLog`: the queue of events is the log. `AlertsAreSpaced`: two alerts
  of a key in the list are as far apart as the duration was when the first one
  came. `MutedIsListed`: an event is turned away only for an alert one can see.

- `SettingsBelongTogether`: the settings and the path are of the same load, the
  last that succeeded. `LoadOnlyAdds`: what a load does to the entities.
  `VerdictIsSound`: a "no" has its reason in the same thread, a "yes" means a file
  that loads with intervals that are not 0 as the program reads them. That an interval may
  have been *negative* in the file is item 8 of section 5.

- `StoppedIsQuiet`, `SnapshotIsRecent`, `LevelIsSeen`: the thread of the reporter and
  the reader of its metrics. `LevelIsSeen` says what is seen in the end of a use that
  stays: the level as processor use, the level (or none, if none is left) as descriptors,
  and as memory the peak of this life, which need not be the level.

- `UsageIsTrue`: a usage computed from two samples of one life is true, but for the
  delay between the two files one sample reads, which can only make it too
  small (a delayed later sample) or too large (a delayed former one).

Each property has a mutant: a definition of the code changed the way a plausible
bug would, under which TLC finds the property violated. The mutants stand
before the definitions they replace, marked "Mutant".

The properties of the runs that find a counterexample are each what a document, a
header or a test says of the program; section 5 names them.

### Fairness
- *SupervisedEntity*: none. `PersistentErrorIsRaised` assumes that the events come.
- *PhmEngine*: a thread that can go on goes on (weak fairness of each thread's
  steps inside a call, of callbacks and of the worker). The strong fairness of
  `CheckEnds` says that a `checkAll()` ends: in the model a check may find any
  number of transitions, in the code it calls each monitor once. Nobody has to
  call `start()` or `stop()`. The liveness properties assume `MapLeftAlone`, that
  map changes cease, because `std::mutex` promises no order among the threads
  that wait for it.
- *Heartbeat*: the worker finishes its checks and clears what it has opened.
  Nothing is assumed of the client or of the clock: silence is found because the
  counter does not move, even if time does not either.
- *Supervision*: the worker goes on, and the deadlock monitor's interval passes
  again and again (strong fairness, because in between its check returns early).
  Nothing is assumed of the process.
- *ResourceReporter*: the reporter's thread and the reader go on, the openings of
  both sides end, and the owner finishes a `start()` or `stop()` it has begun.
  Nothing is assumed of when it does either, nor of deaths and levels.
- *EventStores, DataReporter, Configuration, CpuWatch*: none; what is asked of them is safety.
- *Daemon*: the main thread goes on where it does not wait for a client (weak
  fairness of its own steps). Nothing is assumed of clients, signals, kills and
  the configuration file.

## 4. What is proved

`SupervisedEntityProofs` (also of `Supervision`), `PhmEngineProofs`,
`HealthChannelProofs` (of `Heartbeat` and `ResourceReporter`), `DaemonProofs`,
`DataReporterProofs`, `EventStoresProofs`, `ConfigurationProofs` and
`CpuWatchProofs` are checked by TLAPS for every
value of the constants that meets the named assumptions, safety and liveness:

- `SEAssumption` (monitors are among the sources, each source has a type, the
  configurations are a sequence of type and threshold, callers are monitors).
  Nothing is assumed of how many there are.
- `SupervisionAssumption` (the registered monitors are a sequence of the library's,
  none of them twice, which `registerMonitor` refuses; process identifiers are
  positive; the measurement may answer 0). The liveness theorems have the premise `Watched` or `WatchedBy`: the
  monitor in question is registered, its type is configured, and its first
  report, for the resource monitor its third at the latest, confirms.
- `EngineAssumption` (the entities are finitely many numbers, the sets of entities are
  of them, the worker is no client). Two of the theorems have a premise of their own:
  `OneLifecycle`, at most one thread starts and stops the engine, and
  `StartedBefore`, every enabled entity is started before it is registered, or
  cannot be started.
- `HeartbeatAssumption` (`Timeout` is a positive number, `MaxBeats` a number).
- `ReporterAssumption` of `DataReporter` (`MaxRecords` is a number; entities and hours
  are any sets) and of `ResourceReporter` (there is a slot, and each is for one of the three
  metrics; levels are positive numbers; "missing" is no number).
- `QueueAssumption` (the capacity is not 0; severities and times are numbers),
  `AggregatorAssumption` (durations are numbers), `StoresAssumption` (the bound is one).
- `ConfigurationAssumption` (documents are documents, the modulus is not 0, the
  names of nothing are not among those of something).
- `CpuWatchAssumption` (processors, threshold and modulus are positive, and no
  counter of the kernel turns over within the time considered).
- Of the theorems about `Daemon` only `TypesHold` needs an assumption: that
  `MaxWaiting` is a number.

| module | theorem | says |
|---|---|---|
| `SupervisedEntityProofs` | `Invariance` | `Spec => []IInv` |
| | `TypeCorrect` | types, always |
| | `CountersAreEvidence`, `AlarmsAreBacked`, `ObserversKnow` | `CounterIsEvidence`, `AlarmIsBacked` and `ObserverKnowsState`, always |
| | `OnlyRecoveryLowersState` | the action property of the run, on every step |
| | `EscalationsAreJustified` | WARN, ERROR and FATAL are entered on confirmed evidence of the event's own source |
| | `EntityImplementsAlarm` | `Spec => ImplementsAlarm`: the refinement of `DebouncedAlarm` |
| | `AlarmsRestOnEvidence` | `ImplementsAlarm => []AlarmIsBacked`: a promise of the alarm, kept by whatever implements it |
| | `PersistentErrorsAreRaised` | **liveness**: `Spec => PersistentErrorIsRaised`, for every `debounce_count` up to 3 (the default) |
| | `MonitorsKeepTheEntity` | `SSpec => []IInv`: the composition keeps the entity's invariant |
| | `MonitorsEscalateOnEvidence`, `MonitorsLowerByReset`, `MonitorsImplementAlarm` | the composition keeps the two action properties and implements the same alarm |
| | `SupervisionTypes`, `AlarmsHaveCauses` | types, and no alarm without a cause from end to end, always |
| | `CrashIsAlwaysRaised`, `HangIsAlwaysRaised`, `OverloadIsAlwaysRaised` | **liveness**: `SFairSpec /\ []MonitorsNeverWait => ` the three liveness properties of the run, for any order of the monitors |
| `PhmEngineProofs` | `TypesHold`, `StoppedStaysQuiet`, `RemovedRunsOnlyByRestart` | types, `StoppedMeansQuiet` and `RemovedRunsByRestart`, always, for any number of owners |
| | `OnlyAStopCanTerminate` | `OnlyAStopTerminates`, always, for any number of owners |
| | `StartedBeforeNeverBlocks`, `WaitsEnd` | `NoSelfDeadlock` and `NoCircularWait`, always, if `OneLifecycle` and `StartedBefore` |
| | `StopAlwaysReturns`, `EveryEntityIsAlwaysChecked`, `RemovedIsAlwaysReleased` | **liveness**: `FairSpec /\ []OnlyWaitersWait /\ TicksSettle => ` the three liveness properties of the run, if `OneLifecycle` and `StartedBefore` |
| | `SmallTicksSettle`, `SmallEnginesGoOn` | `Spec => TicksSettle` when at most six entities are ever made, and so the three properties without that premise |
| `HealthChannelProofs` | `TypesHold`, `LifeSignIsRecent`, `AlarmsAreTrue` | types, the age of a life sign, and `NoFalseAlarm` on every step of `Heartbeat` |
| | `SilenceIsAlwaysFound` | **liveness**: `FairSpec /\ []CheckNeverWaits => SilenceIsFound`, for every timeout, of a monitor that has its channel |
| | `MetricsTypesHold`, `StoppedStaysQuiet`, `SnapshotsAreRecent` | types, and the two invariants of the run of `ResourceReporter`, always |
| | `LevelsAreSeen` | **liveness**: `MetricsFairSpec /\ []ReportingNeverWaits => LevelIsSeen`, for up to three metrics, which is what the reporter has |
| `DaemonProofs` | `TypesHold`, `ReloadsAreRemembered`, `FilesAlwaysLeadHere`, `ExitsLeaveNothing` | types, `ReloadIsRemembered`, and two invariants of the run, always |
| | `TermIsRemembered` | a daemon that got a SIGTERM in its main loop stays on its way out |
| | `TermIsAlwaysObeyed`, `ReloadIsAlwaysServed` | **liveness**: `FairSpec /\ []MainNeverWaits => TermIsObeyed`, and `ReloadIsServed` |
| `DataReporterProofs` | `TypesHold`, `SoundFilesStayComplete`, `FilesStayInOrder` | types, and the two invariants of the run, always |
| `EventStoresProofs` | `TypesHold` | types, in particular that the queue keeps its capacity |
| | `QueueImplementsLog` | `Spec => Log!Spec`: the refinement |
| | `LogKeepsItsWord` | what `Log!Spec` promises: only events that `Capacity` newer ones have followed are dropped, nothing comes back, only shown events are settled |
| | `AlertsStaySpaced`, `MutedStaysListed` | the two invariants of the run, always |
| `ConfigurationProofs` | `TypeIsCorrect`, `SettingsStayTogether`, `LoadsOnlyAdd`, `VerdictsAreSound` | types, and the three invariants of the run, always |
| `CpuWatchProofs` | `TypeIsCorrect`, `UsagesAreTrue` | types, and the invariant of the run, always |
| | `OneLifeNeedsUse` | `OverloadNeedsUse`, which `restart_alarm` finds violated, always, with one monitor and one life of its process |

The type invariants that are proved with an invariant of the same run are not
checked by the run again.

**The argument for SupervisedEntity.** None of the invariants is inductive
alone. `AlarmIsBacked` after a confirmation follows from `CounterIsEvidence`
before it: a counter that reaches the threshold does so on a counter one below,
which was at most the evidence. For a monitor that calls back inside `check()`
the same observation is handled twice, so its counter may run ahead of its evidence;
what holds is that it is positive only if the evidence is, and to keep that,
one needs to know that an event can only be `raised` by a caller
(`RaisedByCaller`). `EvidenceIsBounded` keeps the saturated history at the
threshold, so that "as much evidence as asked for" is an equality that later
events cannot overshoot. `IInv` is the conjunction of the four invariants
with these two. It is preserved by each operation; the work is in `EventKeepsInv`,
which is about one event however it reached the entity, by its three cases. The
action properties follow from `IInv` and the effect of one step.

The refinement is about the same cases: a count is `Suspect` or `Raise`, an INFO
event `Recovery`, `reset()` `Forget`, and all the rest a stutter; `IInv` supplies that
a confirmation finds the evidence complete. It holds of `Supervision` as well,
since each of its steps is a step of the entity or leaves it alone.

**The argument for the liveness of SupervisedEntity.** An ERROR report of the source
either puts its counter one up or, at the threshold, moves the state out of
its class, from RUNNING and SUSPECT or from WARN into ERROR; past INIT no confirmation
of a WARNING or ERROR is refused. `EventGrinds` says of each event, of whatever source,
that neither the class nor, within one class, the counter ever falls; so each further
report is progress, and two classes times the counts below `debounce_count` are all
there is to pass. For a bound that is a variable one would need an induction on it,
which is out of reach of the provers; with the code's default of 3 the chain is
written out.

**The argument for Supervision.** Each step of the composition is a step of the
entity or leaves it alone (`StepOfEntity`), so that `IInv` carries over from the lemmas
above; only the initial state, which has monitors, is new. An event is a fault
because what a monitor remembers is true as long as nothing has gone wrong:
a lifecycle monitor that is RUNNING has the pid of the process, one in ERROR
has seen an exit, the resource monitor's pid is stale only after one, and a usage at a
threshold is kept only if it was answered (`FaultsNoted`).
`EventsAreFaults` concludes that without a cause no check moves the entity.

For liveness, `checkAll()` goes round the registered monitors, at most three as they are
distinct, so that each monitor has a `Distance` of at most three from the
cursor, which every step of the worker shortens (`StandsStep`, `GoesRound`). What a monitor has
yet to report does not get lost on the way: `CrashKnown` and `HangKnown` say that a
lifecycle monitor still holds the pid of an exit that was not reported, and that a
deadlock monitor still takes the hung process for alive, until the check that
reports it; the resource monitor finds the process in one check
(`MatchFound`) and counts in each later one (`UseCounts`), up to its third. Weak fairness of the
worker, with `MonitorsNeverWait`, takes the cursor there; the deadlock monitor
also needs its interval to pass, which strong fairness gives as its check is
possible once in every round.

**The argument for PhmEngine.** The mutex is held from one step to the next by
`start()` alone (`MutexOK`); the worker's handle is joinable as long as the worker
is there, and only while the engine runs or somebody is about to join it
(`HandleOK`); something is kept alive only in a tick (`SnapshotOK`), and what is not
in the map is monitored only if it restarts and is kept alive, by the tick or by a client
(`RemovedOK`). One lemma for each action shows that their conjunction is kept, for any
number of threads. A `start()` that finds the handle joinable therefore finds a `stop()` that
has not joined it (`JoinOK`), which is `OnlyAStopTerminates`. With one
thread that starts and stops, the handle is joined whenever a worker is about to be
launched (`LaunchOK`). With entities that were started before, no entity of the
map that `start()` would start is in INIT, but one that the worker is just
restarting, and then the engine has not been stopped (`CalmOK`): so `start()` finds no
transition to make under the mutex, and only the worker is ever in a callback.
Neither premise can be dropped: section 5 says what happens without it.
From the same lemma (`StaysCalm`) whoever holds the mutex is in a `start()` that
waits for nobody, and the worker waits only for the mutex, so that a chain of
waiting threads is at most a `stop()`, the worker and that `start()` (`WaitsEnd`).

**The argument for the liveness of PhmEngine.** `Owned` joins these invariants with
what `WaitsFor` can name; it says that a worker in a tick always finds the mutex free
(`WorkerFindsMutexFree`) and, with `OnlyWaitersWait`, that it can go on
(`TickCanGoOn`), as can a `stop()` whose worker has gone and a `start()` under way.
What is left is that a tick ends. In a tick the list of entities to check only gets
shorter, and fairness takes the worker to the end of the current check, so a tick that
went on for ever would shorten its list again and again (`EndlessTickDrops`). That a
finite list cannot be shortened for ever is `TicksSettle`: there is a point from which
it does not change. It is the induction over a finite set that the provers cannot
instantiate, so it is a premise of the three theorems; its step, from any set of
entities to one with one more, is the lemma `OneMoreSettles`, and `SmallTicksSettle`
takes it six times. With ticks that end, `StopReturns` is the worker's way from
`running_ = FALSE` to its exit and the join (`StopSteps`); `EveryEntityIsChecked` is
that a tick whose snapshot holds an entity cannot end without checking or restarting
it (`EntitySteps`), and a restart is followed, in the next tick, by a check; and
`RemovedIsReleased` is that only a tick keeps alive what is neither in the map nor held
by a client (`RemovedOK`). The proofs need no use of `MapLeftAlone`: a change of the map is one
step of the model, which leaves the mutex as free as it was. The properties keep that
premise, as the code's mutex may pass the worker over.

**The argument for Heartbeat.** A report stores a time it read before, and
others may be read in between only after the client has died; `StampIsLast` says that
a report that is under way holds the time last read, and with the types of the
ages and the fact that time keeps the order of two ages (`OlderKeepsOrder`),
`AliveIsRecent` is inductive. `NoFalseAlarm` is about one step, and its
counterexamples would span two checks: `AlarmInv` says that while nobody has
cleared the memory the counter is at least what the monitor loaded last, and above it
once a report has stored (`CounterGrows`), because a client's own count is ahead of
the counter in the memory it has cleared (`CounterIsBehind`, `Cleared`).
`SilenceIsFound` follows in five stages, each kept by every step once it is reached,
and each reached by the next round of `check()`: the memory is not cleared any more, the
counter stands, what the monitor has loaded is that counter, what it compares
with is, and its verdict is an alarm.

**The argument for Daemon.** A request is forgotten only where `config_path_`
is set while the request is older; a reload sets it again, so one has to know
that it was set before there was anything to apply (`ParsedAfterPath`), and
`ReloadIsRemembered` with that is inductive (`RequestInv`). The files are an
invariant by the point of life (`FilesInv`): from `writePidFile` to
`removePidFile` the PID file is this daemon's; after `unlinkEndpoint` the path
is free, after `bindEndpoint` the socket leads here or was refused. Nothing is
said of what a new life finds, which is why kills at any point keep it.
For the SIGTERM, `Leaving` is the invariant that nothing sets `running_` again; with it
the points of the main thread between the signal and the exit are a list in
which each of its steps goes on (`WayOut`, `GoesOn`), and `MainNeverWaits` says that
it can, away from a client. For the SIGHUP the list is that of the whole life
(`OwingStep`), from the start-up through at most one more turn of the loop: while the
request stands in the flag, `ReloadIsRemembered` shuts the way from the test of the
flag back to the sleep, so that no way turns in a circle.

**The argument for DataReporter.** A record may be appended to a file when all
that is there is older, or a torn piece of itself. For the record under way that
holds because no file has it yet (`PointOfReport`); for the one in the buffer,
which is written again much later, because its stream has been bad ever since and
the open file is still its own (`BufferBelongs`). And a record that is dropped,
as the file did not open or the stream is bad, is dropped from a file that is
already damaged. `RInv` joins these to the two invariants and the types; one lemma
for each step, over lemmas on what an addition to a file changes.

**The argument for EventStores.** An event that `push()` crowds out must be one
that `Capacity` newer ones have followed: the queue is full, holds numbers up to
that of the last event, and what is popped is the least of them, so that the
numbers from it to the new one are at least as many as the capacity
(`SpanOfQueue`, over facts on finite sets of numbers). `QueueInv` keeps what is
queued, acknowledged and swept apart, so that the fate of an event is one; each
operation then maps to an action of the log. The aggregator's invariant adds
that the time kept for a key is that of its last alert, which is in the list
(`LastIsListed`); a clock that is set back makes the difference negative, which is
below any duration, so the times of a key never go down. `LogKeepsItsWord` and
`AlarmsRestOnEvidence` are about the two abstract specifications themselves: what
one may conclude from them alone, whatever implements them.

**The argument for Configuration.** `LoadOnlyAdds` speaks of the end of a load;
`DueIsComing` is its form at every point: whom the load owes is there, or his name is
free and the first configuration of that name still to be added is his. The first
position of a name in a document is the least of a finite set of positions, which is
where the proof uses that parsing keeps their order.

**The argument for ResourceReporter.** `ReportStands` is what an undisturbed report
has stored so far, `ReadingStands` what a reader that began after it has read so far;
the first must survive the steps of the next report, which overwrites the same
slots with newer levels, and both end where a side begins to clear the
memory. `OwnerStands` ties the owner's place, the flag and the thread.
For liveness: while the level stays, the reporter runs and no side opens the memory,
the owner does nothing but make the thread it owes (`OwnerSettles`), the thread and the
reader go round their loops (`Turns`, `Passes`, written out place by place, hence for
the three metrics of the code), and what they leave behind settles in order: a sample is
taken after the level has come to stay, so that the mean of the next is of that level
alone; the memory is clean, the sample is what is to be seen, a report is whole, all
reports since say the same, and so does a reading that began after them
(`LevelSettles`), of which `SnapshotIsRecent` says the rest. That the peak is not below
the level, and stands while the level does, is `PeakStands`.

**The argument for CpuWatch.** A process cannot have run longer between two samples of
one life than the system did (`ReadOff`, for the stored sample and the one under way); with
the order of the two samples (`SampleIsNewer`) and `BaseIsSaved` the unsigned differences are
the true ones, and the delay of the system's file, in either sample, changes the
quotient in one direction only, which is the inequality `UsageOfOne` proves.
`OneLifeNeedsUse` confines the finding of `restart_alarm`: with one life and one monitor
the former sample is the process's own, so that a difference that is not zero is of
jiffies it used (`OwnJiffies`). TLC shows that neither condition can be dropped: with a
second life by the run, and with a second monitor in the same way.

**What the liveness theorems rest on.** TLAPS does not reason about ENABLED, which is
hidden in weak and strong fairness. The part that needs it is a state predicate of
its own, "this step can be taken now": `CheckNeverWaits`, `MonitorsNeverWait`,
`ReportingNeverWaits` and `OnlyWaitersWait`, which stand at the end of their modules, and
`MainNeverWaits`, a property of the daemon. The theorems take
`[]` of one of them as a premise and prove the rest, for all values of the
constants, by propositional temporal logic over proved facts on single steps. The first four
say of the actions what their guards say and no more, so they are no property of a
run; added to one as an INVARIANT (to `phm_engine`, `heartbeat`, `supervision`,
`resource_reporter`), TLC finds them true.
`PersistentErrorsAreRaised` needs no fairness and has no such premise.

The liveness of the engine has the second premise `TicksSettle`, of which
`SmallTicksSettle` relieves engines that see at most six entities.

**Only model-checked:** `MainNeverWaits`; the liveness of an engine that sees more
than six entities, as far as it is that of `TicksSettle`; and the liveness of entities and
monitors with a `debounce_count` above the one its theorem states (the run of `supervision`
has the lifecycle and deadlock monitors at 1, since with 2 a fault they report once
does not get through).

## 5. Where code and documents disagree

Each of the first three is a run that TLC finishes with a counterexample; `PROJECT.json`
quotes the lines.

1. `start_under_lock`: `PhmEngine::start()` holds `mutex_` while entities go from INIT to
   RUNNING; the callback locks it again. An engine whose enabled entities are
   not yet running, as after `loadConfiguration`, never comes out of `start()`.
2. `start_during_stop`: `start()` between the two halves of another thread's `stop()`
   assigns to a joinable `std::thread`, which ends the program, although "all public
   methods support concurrent calls" (`phm_engine.h:29`).
3. `restart_alarm`: the former sample of `getCpuUsage()` is in static variables. After
   a restart of the process, or the check of another one, the smaller count of
   jiffies minus the larger one is near 2^64, above every threshold.

The others are plain from one line of the code. The models do what that line does, and
the properties say no more than is then true:

4. An abnormal event does not leave INIT (`state_machine.cpp:229`), so that an entity nobody
   has started stays there. `test_debounce.cpp` (9, 24, 44, 74-78) and
   `test_state_machine.cpp` (55-62) expect SUSPECT and ERROR of such entities.
   `DebouncedAlarm` and `PersistentErrorIsRaised` follow the code: they say what becomes
   of an alarm in an entity that was started.
5. `AliveMonitor::check()` returns at once while it has no channel (line 47), and nothing in
   `src/` gives it one, although the example (`basic_usage.cpp:40`), `spec.md:164` and
   `checklist.md:102` say that a silent client is reported. `SilenceIsFound` speaks of
   monitors that have their channel.
6. A usage of 0 is taken for no answer, and the one before counts again
   (`resource_monitor.cpp:95-101`), so that a process that has fallen idle stays overloaded
   for its monitor (`checklist.md:84` wants RUNNING). `AlarmHasCause` counts an answer
   from before a `reset()` as a cause.
7. The end of a fault is no event (`resource_monitor.cpp:145`), and the entity stays in its
   alarm until a reset; after one usage at a threshold it is suspected for ever
   (`spec.md:268` wants the counter cleared and RUNNING). `OnlyRecoveryLowers` says only
   that nothing else brings it back.
8. A negative `interval_ms` becomes a large unsigned number (`config_parser.cpp:41`) and
   passes `validate()`, which refuses 0 only (`checklist.md:112` wants it refused).
   `VerdictIsSound` speaks of intervals as the program reads them.
9. The listening socket is non-blocking and the accepted one is not (`ipc_server.cpp:104`),
   so that "accepts and handles one client without blocking" (`ipc_server.h:51`) waits for
   a client that says nothing, and with it every signal. `TermIsObeyed` and
   `ReloadIsServed` except it.
10. The memory reported is `ru_maxrss`, which never falls (`client_resource.cpp:98`), where
    `resource_reporter.h:22` says the memory in use; and counting the descriptors needs
    one (line 107), so that a process with none left is reported with none open.
    `LevelIsSeen` says what is seen.
11. SUSPECT -> FATAL is not in the transition table, so that with a `debounce_count`
    above 1 FATAL is never reached from RUNNING. No monitor of the library sends
    FATAL in the first place (a crash is an ERROR event), so that the automatic
    restart is left to monitors that users write.
12. A process found by `check()` instead of `start()` exits unnoticed
    (`process_lifecycle_monitor.cpp:73`): `CrashIsRaised` speaks of the others.
13. `run()` ignores that the PID file could not be written (`daemon.cpp:77`):
    `FilesLeadHere` and `ExitLeavesNothing` except it.
14. `reset()` tells the callback nothing: `ObserverKnowsState` excepts it.
15. An entity that was removed, that the worker restarted in the same tick, and that a
    client holds, is monitored on, also after `stop()`: `RemovedRunsByRestart` says so.

## 6. What is not modelled

- `getStats()` in the engine: it locks `mutex_` and then calls
  `getGlobalState()`, which locks it again, so there is no step after its first; nor the
  getters that change nothing, nor `setGlobalStateCallback`.
- That `loadConfiguration` writes `config_` without the lock while the worker reads
  its interval: a data race with no defined outcome.
- What becomes of entities that are checked without having been started (disabled, or
  added to a running engine): `ResourceMonitor::check()` goes through a null
  pointer there, `checkResourceNull` of `Supervision`.
- The branches of ResourceMonitor and DeadlockMonitor for a health channel, which nothing
  in the repository ever gives them; the thresholds of memory and descriptors.
- What a client does by itself to the monitors of an entity it has registered.
- The functions of the platform that wrap one system call each, and
  `startProcess`, `stopProcess` and `waitProcess`, which nothing calls; the QNX
  platform, the logger, the factory, and the parsing of JSON itself.
- `reportBatch` of DataReporter beyond being a sequence of reports, its uploader,
  and what a reader of its files can parse.
- Two daemons at once: the second takes the PID file and the socket away from the
  first without asking.
- Timers in numbers: intervals and sleeps are steps that may come at any time.
- A machine that has been up for less than a heartbeat's timeout, on which the
  cleared time 0 would count as recent.

## 7. Plan

1. `SupervisedEntity`, `PhmEngine`, `Heartbeat`, `Supervision`, `Daemon`,
   `DataReporter`, with the proofs of section 4. *Done.*
2. `EventStores` with the refinement, `Configuration`, `ResourceReporter`,
   `CpuWatch`, each with its proofs; `NoFalseAlarm`. *Done.*
3. Proofs about `PhmEngine` and `Supervision`. *Done.*
4. `DebouncedAlarm` with its refinement; proofs of liveness, and of the engine's waits.
   *Done.*
5. The liveness of `PhmEngine` and of reloads, what the abstract specifications promise,
   and the conditions of the finding about CPU use. *Done.*
6. The entity of `PhmEngine` as an image of `SupervisedEntity`; `TicksSettle` for any
   finite set of entities, which needs an induction over finite sets.
