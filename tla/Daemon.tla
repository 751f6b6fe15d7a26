-------------------------------- MODULE Daemon --------------------------------
(***************************************************************************)
(* phmd: the main thread of src/daemon/daemon.cpp with the IPC server      *)
(* (src/daemon/ipc_server.cpp) it runs, the signals that interrupt it, the *)
(* clients that connect, and the two files it leaves behind when it dies.  *)
(* One daemon is alive at a time; it may be killed anywhere and launched   *)
(* again.                                                                  *)
(*                                                                         *)
(* The engine is reduced to what the main thread sees of it: start() does  *)
(* not return when a loaded entity is enabled (PhmEngine says why), stop() *)
(* returns, and getStats() does not.  A signal is taken by the main        *)
(* thread, as Linux prefers, between two of its steps or inside one.       *)
(***************************************************************************)
EXTENDS Integers

CONSTANT MaxWaiting   \* bound: the connections that wait in listen()'s backlog

ASSUME DaemonAssumption == MaxWaiting \in Nat

\* What the configuration file says: nothing that parses, entities that are
\* all disabled, or one that is enabled and whose monitors start.
Configs == {"bad", "disabled", "enabled"}

VARIABLES
    pc,                 \* where the main thread is
    running_,           \* Daemon::running_
    reload_requested_,  \* Daemon::reload_requested_
    config_path_,       \* has a configuration been read once? (PhmEngine)
    parsed,             \* what the reload that is under way has read
    enabled,            \* is an entity the engine has enabled?
    serving,            \* IpcServer::running_, and server_fd_ is open
    waiting,            \* connections nobody has accepted
    pid_file, endpoint, \* the two files: "none", "mine", or "stale", which leads to nobody
    config              \* the configuration file

\* History, read by no action of the code.
VARIABLES
    owed,               \* a SIGHUP came, and the file has not been read since
    asked,              \* a SIGTERM came since the main loop began
    refused,            \* the system refused the socket
    unwritten           \* the system refused to write the PID file

flags   == <<running_, reload_requested_>>
engine  == <<config_path_, parsed, enabled>>
files   == <<pid_file, endpoint>>
history == <<owed, asked, refused, unwritten>>
vars    == <<pc, flags, engine, serving, waiting, files, config, history>>

Init ==
    /\ pc = "down"
    /\ running_ = FALSE /\ reload_requested_ = FALSE
    /\ config_path_ = FALSE /\ parsed = "bad" /\ enabled = FALSE
    /\ serving = FALSE /\ waiting = 0
    /\ pid_file = "none" /\ endpoint = "none"
    /\ config \in Configs
    /\ owed = FALSE /\ asked = FALSE /\ refused = FALSE /\ unwritten = FALSE

At(l)   == pc = l
Goto(l) == pc' = l

-----------------------------------------------------------------------------
(* From main() to the main loop *)

launch ==
    /\ pc \in {"down", "exited"}
    /\ Goto("signals")
    /\ running_' = FALSE /\ reload_requested_' = FALSE
    /\ config_path_' = FALSE /\ parsed' = "bad" /\ enabled' = FALSE
    /\ serving' = FALSE /\ waiting' = 0
    /\ owed' = FALSE /\ asked' = FALSE /\ refused' = FALSE /\ unwritten' = FALSE
    /\ UNCHANGED <<files, config>>

\* Before this a signal kills.
registerSignals ==
    /\ At("signals") /\ Goto("load")
    /\ UNCHANGED <<flags, engine, serving, waiting, files, config, history>>

\* What reading the file does: a file that does not parse leaves all as it was.
Load(text) ==
    IF text = "bad" THEN UNCHANGED <<config_path_, enabled>>
    ELSE config_path_' = TRUE /\ enabled' = (enabled \/ text = "enabled")

loadConfiguration ==
    /\ At("load") /\ Goto("daemonize")
    /\ Load(config)
    /\ owed' = FALSE
    /\ UNCHANGED <<flags, parsed, serving, waiting, files, config, asked, refused, unwritten>>

\* fork() or setsid() may fail.
daemonize ==
    /\ At("daemonize")
    /\ Goto("pid_file") \/ Goto("down")
    /\ UNCHANGED <<flags, engine, serving, waiting, files, config, history>>

\* run() goes on when it fails: the file stays what it was, or is left empty.
writePidFile ==
    /\ At("pid_file") /\ Goto("engine")
    /\ \/ pid_file' = "mine" /\ UNCHANGED unwritten
       \/ pid_file' \in {pid_file, "stale"} /\ unwritten' = TRUE
    /\ UNCHANGED <<flags, engine, serving, waiting, endpoint, config, owed, asked, refused>>

startEngine ==
    /\ At("engine")
    /\ Goto(IF enabled THEN "start_deadlock" ELSE "socket")
    /\ UNCHANGED <<flags, engine, serving, waiting, files, config, history>>

\* IpcServer::start(): that one of its calls fails is not fatal.  A socket that
\* cannot be made leaves the old file, one that cannot listen leaves a new one.
Refuse ==
    /\ Goto("running")
    /\ refused' = TRUE
    /\ UNCHANGED serving

\* Mutant: the socket file of a daemon that was killed stays in the way.
UnlinkNothing ==
    /\ At("socket") /\ Goto("bind")
    /\ UNCHANGED <<flags, engine, serving, waiting, files, config, history>>

unlinkEndpoint ==
    /\ At("socket")
    /\ \/ Refuse /\ UNCHANGED endpoint
       \/ Goto("bind") /\ endpoint' = "none" /\ UNCHANGED <<serving, refused>>
    /\ UNCHANGED <<flags, engine, waiting, pid_file, config, owed, asked, unwritten>>

bindEndpoint ==
    /\ At("bind")
    /\ \/ Refuse /\ UNCHANGED endpoint
       \/ Refuse /\ endpoint = "none" /\ endpoint' = "stale"
       \/ /\ Goto("running")
          /\ serving' = (endpoint = "none")
          /\ endpoint' = IF serving' THEN "mine" ELSE endpoint
          /\ UNCHANGED refused
    /\ UNCHANGED <<flags, engine, waiting, pid_file, config, owed, asked, unwritten>>

setRunning ==
    /\ At("running") /\ Goto("test")
    /\ running_' = TRUE
    /\ UNCHANGED <<reload_requested_, engine, serving, waiting, files, config, history>>

-----------------------------------------------------------------------------
(* The main loop *)

\* Mutant: running_ is set at each turn of the loop.
TestSetsRunning ==
    /\ At("test") /\ Goto("accept")
    /\ running_' = TRUE
    /\ UNCHANGED <<reload_requested_, engine, serving, waiting, files, config, history>>

testRunning ==
    /\ At("test") /\ Goto(IF running_ THEN "accept" ELSE "ipc_stop")
    /\ UNCHANGED <<flags, engine, serving, waiting, files, config, history>>

\* Mutant: the socket is not made non-blocking.
AcceptBlocks ==
    /\ At("accept") /\ serving /\ waiting > 0
    /\ waiting' = waiting - 1
    /\ Goto("read")
    /\ UNCHANGED <<flags, engine, serving, files, config, history>>

\* accept() does not block, the read() that follows does.
acceptOne ==
    /\ At("accept")
    /\ IF serving /\ waiting > 0
       THEN waiting' = waiting - 1 /\ Goto("read")
       ELSE UNCHANGED waiting /\ Goto("flag")
    /\ UNCHANGED <<flags, engine, serving, files, config, history>>

testReload ==
    /\ At("flag")
    /\ Goto(IF reload_requested_ THEN "reload" ELSE "sleep")
    /\ reload_requested_' = FALSE
    /\ UNCHANGED <<running_, engine, serving, waiting, files, config, history>>

\* reloadConfiguration(), for a signal or for a client: reads the file, if one
\* has been read before, and then gives the engine what it says.
Reading == [reload |-> "apply", reload_rpc |-> "apply_rpc"]
Applying == [apply |-> "sleep", apply_rpc |-> "flag"]

reloadRead ==
    /\ pc \in DOMAIN Reading /\ Goto(Reading[pc])
    /\ parsed' = IF config_path_ THEN config ELSE "bad"
    /\ owed' = (owed /\ ~config_path_)
    /\ UNCHANGED <<flags, config_path_, enabled, serving, waiting, files, config,
                   asked, refused, unwritten>>

\* Mutant: the request is cleared when it has been served.
ApplyClears ==
    /\ pc \in DOMAIN Applying /\ Goto(Applying[pc])
    /\ Load(parsed)
    /\ reload_requested_' = FALSE
    /\ UNCHANGED <<running_, parsed, serving, waiting, files, config, history>>

reloadApply ==
    /\ pc \in DOMAIN Applying /\ Goto(Applying[pc])
    /\ Load(parsed)
    /\ UNCHANGED <<flags, parsed, serving, waiting, files, config, history>>

sleep ==
    /\ At("sleep") /\ Goto("test")
    /\ UNCHANGED <<flags, engine, serving, waiting, files, config, history>>

-----------------------------------------------------------------------------
(* The end of run() *)

\* Mutant: the socket is closed and its file stays.
StopKeepsFile ==
    /\ At("ipc_stop") /\ Goto("engine_stop")
    /\ serving' = FALSE /\ waiting' = 0
    /\ UNCHANGED <<flags, engine, files, config, history>>

\* The file goes only with a socket that was opened.
stopIpc ==
    /\ At("ipc_stop") /\ Goto("engine_stop")
    /\ serving' = FALSE /\ waiting' = 0
    /\ endpoint' = IF serving THEN "none" ELSE endpoint
    /\ UNCHANGED <<flags, engine, pid_file, config, history>>

stopEngine ==
    /\ At("engine_stop") /\ Goto("remove_pid")
    /\ UNCHANGED <<flags, engine, serving, waiting, files, config, history>>

\* A file that could not be written may be one that cannot be removed either.
removePidFile ==
    /\ At("remove_pid") /\ Goto("exited")
    /\ pid_file' = "none" \/ (unwritten /\ UNCHANGED pid_file)
    /\ UNCHANGED <<flags, engine, serving, waiting, endpoint, config, history>>

-----------------------------------------------------------------------------
(* Clients, signals, and the rest of the world *)

connect ==
    /\ serving /\ endpoint = "mine"
    /\ waiting < MaxWaiting
    /\ waiting' = waiting + 1
    /\ UNCHANGED <<pc, flags, engine, serving, files, config, history>>

\* The accepted client closes, or asks for something the getters answer.
clientAsks ==
    /\ At("read") /\ Goto("flag")
    /\ UNCHANGED <<flags, engine, serving, waiting, files, config, history>>

clientReloads ==
    /\ At("read") /\ Goto("reload_rpc")
    /\ UNCHANGED <<flags, engine, serving, waiting, files, config, history>>

\* getStats() locks the engine's mutex and calls a method that locks it again.
clientWantsStats ==
    /\ At("read") /\ Goto("stats_deadlock")
    /\ UNCHANGED <<flags, engine, serving, waiting, files, config, history>>

Alive   == pc \notin {"down", "exited"}
Handled == Alive /\ pc # "signals"
InLoop  == {"test", "accept", "read", "reload_rpc", "apply_rpc", "flag", "reload",
            "apply", "sleep", "stats_deadlock"}

\* signalHandler: the flag of the signal, after a line in the log.
requestShutdown ==
    /\ Handled
    /\ running_' = FALSE
    /\ asked' = (asked \/ pc \in InLoop)
    /\ UNCHANGED <<pc, reload_requested_, engine, serving, waiting, files, config,
                   owed, refused, unwritten>>

requestReload ==
    /\ Handled
    /\ reload_requested_' = TRUE
    /\ owed' = TRUE
    /\ UNCHANGED <<pc, running_, engine, serving, waiting, files, config, asked, refused,
                   unwritten>>

\* The steps that write into the log, under the logger's mutex.
Logging == {"load", "engine", "bind", "running", "reload", "apply", "reload_rpc",
            "apply_rpc", "ipc_stop", "engine_stop", "remove_pid"}

\* The signal interrupts such a step: its own line waits for that mutex.
signalInsideLog ==
    /\ pc \in Logging
    /\ Goto("log_deadlock")
    /\ UNCHANGED <<flags, engine, serving, waiting, files, config, history>>

Left(file) == IF file = "mine" THEN "stale" ELSE file

killed ==
    /\ Alive
    /\ Goto("down")
    /\ serving' = FALSE /\ waiting' = 0
    /\ pid_file' = Left(pid_file) /\ endpoint' = Left(endpoint)
    /\ UNCHANGED <<flags, engine, config, history>>

edit ==
    /\ config' \in Configs
    /\ UNCHANGED <<pc, flags, engine, serving, waiting, files, history>>

-----------------------------------------------------------------------------
StartUp  == \/ registerSignals \/ loadConfiguration \/ daemonize \/ writePidFile
            \/ startEngine \/ unlinkEndpoint \/ bindEndpoint \/ setRunning
MainLoop == \/ testRunning \/ acceptOne \/ testReload \/ reloadRead \/ reloadApply
            \/ sleep
ShutDown == stopIpc \/ stopEngine \/ removePidFile
Client   == connect \/ clientAsks \/ clientReloads \/ clientWantsStats
Signal   == requestShutdown \/ requestReload \/ signalInsideLog

MainStep == StartUp \/ MainLoop \/ ShutDown

Next == MainStep \/ Client \/ Signal \/ launch \/ killed \/ edit

Spec == Init /\ [][Next]_vars

\* The main thread goes on where it does not wait for a client.
Fairness == WF_vars(MainStep)

FairSpec == Spec /\ Fairness

-----------------------------------------------------------------------------
(* Properties *)

Labels == InLoop \cup {"down", "signals", "load", "daemonize", "pid_file", "engine",
                       "start_deadlock", "socket", "bind", "running", "ipc_stop",
                       "engine_stop", "remove_pid", "log_deadlock", "exited"}

TypeOK ==
    /\ pc \in Labels
    /\ {running_, reload_requested_, config_path_, enabled, serving,
        owed, asked, refused, unwritten} \subseteq BOOLEAN
    /\ waiting \in 0 .. MaxWaiting
    /\ {pid_file, endpoint} \subseteq {"none", "mine", "stale"}
    /\ {config, parsed} \subseteq Configs

(***************************************************************************)
(* A SIGHUP is not lost once a configuration has been read: it stands in   *)
(* reload_requested_ until a reload reads the file after it, also when it  *)
(* comes while another one is being served (daemon.cpp, lines 101-110), or  *)
(* at start-up; only a deadlock in the log forgets it.                     *)
(***************************************************************************)
ReloadIsRemembered ==
    owed /\ config_path_ /\ Alive
    => reload_requested_ \/ pc \in {"reload", "log_deadlock"}

(***************************************************************************)
(* A daemon in its main loop is the one the two files lead to, whatever    *)
(* the daemon before it left behind when it was killed; it goes without    *)
(* its socket only when the system refused one (ipc_server.cpp, line 41),  *)
(* and without its PID file, or with a dead daemon's, only when the system *)
(* refused to write it, which run() ignores (daemon.cpp, 77, 204-208).     *)
(***************************************************************************)
FilesLeadHere ==
    pc \in InLoop => /\ pid_file = "mine" \/ unwritten
                     /\ endpoint = "mine" \/ refused

(***************************************************************************)
(* A daemon that exits leaves neither file behind (doc/checklist.md:180,   *)
(* 181), not even those of a daemon that was killed before, unless the     *)
(* system refused it the file.                                             *)
(***************************************************************************)
ExitLeavesNothing ==
    pc = "exited" => /\ pid_file = "none" \/ unwritten
                     /\ endpoint = "none" \/ refused

WaitsAt == {"read", "stats_deadlock", "log_deadlock", "start_deadlock", "down", "exited"}

(***************************************************************************)
(* The main thread waits for nobody but a client it has accepted and, in a *)
(* deadlock, itself: the sockets do not block, and neither the death of    *)
(* another daemon, nor a signal, nor a file left behind makes it wait      *)
(* (daemon.cpp, lines 86-120; ipc_server.cpp, lines 41-113).               *)
(***************************************************************************)
MainNeverWaits == pc \notin WaitsAt <=> ENABLED <<MainStep>>_vars

Stuck == pc \in {"stats_deadlock", "log_deadlock"}

(***************************************************************************)
(* A SIGTERM the main loop gets ends the daemon, whatever else it has to   *)
(* do, provided no client keeps it waiting for ever in read() and nothing  *)
(* deadlocks.                                                              *)
(***************************************************************************)
TermIsObeyed ==
    []<>(pc # "read") => (asked ~> (~Alive \/ Stuck))

(***************************************************************************)
(* A SIGHUP is served in the end: once a configuration has been read, the  *)
(* file is read again after it, also when the signal comes at start-up or  *)
(* while another reload is under way (daemon.cpp, lines 101-110), or the   *)
(* daemon ends; provided that no client keeps it waiting for ever in       *)
(* read() and nothing deadlocks.                                           *)
(***************************************************************************)
ReloadIsServed ==
    []<>(pc # "read") =>
        (owed /\ config_path_ ~> (~owed \/ ~Alive \/ Stuck \/ At("start_deadlock")))

=============================================================================
