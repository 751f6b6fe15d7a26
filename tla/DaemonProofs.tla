----------------------------- MODULE DaemonProofs -----------------------------
(***************************************************************************)
(* What Daemon says of requests to reload and to end, and of the files a   *)
(* daemon leaves behind, for every length of the backlog.                  *)
(***************************************************************************)
EXTENDS Daemon, TLAPS

\* A reload has something to apply only when a file has been read before.
ParsedAfterPath == parsed # "bad" => config_path_

RequestInv == ReloadIsRemembered /\ ParsedAfterPath

LEMMA RequestInit == Init => RequestInv
BY DEF Init, RequestInv, ReloadIsRemembered, ParsedAfterPath, Alive

LEMMA RequestKept ==
    ASSUME RequestInv,
           UNCHANGED <<reload_requested_, owed, config_path_, parsed>>,
           \/ pc' = pc
           \/ pc \notin {"reload", "log_deadlock", "down", "exited"}
           \/ pc' \in {"log_deadlock", "down", "exited"}
    PROVE  RequestInv'
BY DEF RequestInv, ReloadIsRemembered, ParsedAfterPath, Alive

LEMMA RequestStep == RequestInv /\ [Next]_vars => RequestInv'
<1> SUFFICES ASSUME RequestInv, [Next]_vars PROVE RequestInv'
    OBVIOUS
<1>1. CASE StartUp
    <2>1. CASE loadConfiguration
        BY <2>1 DEF RequestInv, ReloadIsRemembered, ParsedAfterPath, loadConfiguration,
                    Load, flags
    <2>2. CASE ~loadConfiguration
        BY <1>1, <2>2, RequestKept
           DEF StartUp, registerSignals, daemonize, writePidFile, startEngine,
               unlinkEndpoint, bindEndpoint, setRunning, At, Goto, flags, engine, history
    <2> QED  BY <2>1, <2>2
<1>2. CASE MainLoop
    <2>1. CASE testReload
        BY <2>1 DEF RequestInv, ReloadIsRemembered, ParsedAfterPath, testReload, Alive,
                    At, Goto, engine, history
    <2>2. CASE reloadRead
        BY <2>2 DEF RequestInv, ReloadIsRemembered, ParsedAfterPath, reloadRead
    <2>3. CASE reloadApply
        <3>1. pc \in {"apply", "apply_rpc"}
            BY <2>3 DEF reloadApply, Applying
        <3>2. UNCHANGED <<reload_requested_, owed, parsed>>
            BY <2>3 DEF reloadApply, flags, history
        <3>3. config_path_' = config_path_
            BY <2>3 DEF reloadApply, Load, RequestInv, ParsedAfterPath
        <3> QED  BY <3>1, <3>2, <3>3, RequestKept
    <2>4. CASE testRunning \/ acceptOne \/ sleep
        BY <2>4, RequestKept DEF testRunning, acceptOne, sleep, At, Goto, flags, engine,
                                 history
    <2> QED  BY <1>2, <2>1, <2>2, <2>3, <2>4 DEF MainLoop
<1>3. CASE ShutDown
    BY <1>3, RequestKept DEF ShutDown, stopIpc, stopEngine, removePidFile, At, Goto,
                             flags, engine, history
<1>4. CASE Client
    BY <1>4, RequestKept DEF Client, connect, clientAsks, clientReloads,
                             clientWantsStats, At, Goto, flags, engine, history
<1>5. CASE Signal
    <2>1. CASE requestReload
        BY <2>1 DEF RequestInv, ReloadIsRemembered, ParsedAfterPath, requestReload, engine
    <2>2. CASE requestShutdown \/ signalInsideLog
        BY <2>2, RequestKept DEF requestShutdown, signalInsideLog, Goto, flags, engine,
                                 history
    <2> QED  BY <1>5, <2>1, <2>2 DEF Signal
<1>6. CASE launch
    BY <1>6 DEF launch, RequestInv, ReloadIsRemembered, ParsedAfterPath
<1>7. CASE killed \/ edit \/ UNCHANGED vars
    BY <1>7, RequestKept DEF killed, edit, Goto, vars, flags, engine, history
<1> QED
    BY <1>1, <1>2, <1>3, <1>4, <1>5, <1>6, <1>7 DEF Next, MainStep

(***************************************************************************)
(* A SIGHUP is remembered until the configuration file has been read after *)
(* it (daemon.cpp, lines 101-110), whatever comes in between.              *)
(***************************************************************************)
THEOREM ReloadsAreRemembered == Spec => []ReloadIsRemembered
<1>1. RequestInv => ReloadIsRemembered
    BY DEF RequestInv
<1> QED
    BY <1>1, RequestInit, RequestStep, PTL DEF Spec

-----------------------------------------------------------------------------
(***************************************************************************)
(* The files at each point of a daemon's life: from when the PID file is   *)
(* written it is this daemon's; from when the old socket file is gone the  *)
(* path is free, and after bind() it leads here or was refused.            *)
(***************************************************************************)
Bound     == InLoop \cup {"running", "ipc_stop"}
Unbound   == {"signals", "load", "daemonize", "pid_file", "engine", "start_deadlock",
              "socket", "bind"}
Listening == IF serving THEN endpoint = "mine" ELSE refused

PidFileWritten ==
    pc \in Bound \cup {"engine", "socket", "bind", "engine_stop", "remove_pid"}
    => pid_file = "mine" \/ unwritten

EndpointAsBound ==
    /\ pc \in Bound => Listening
    /\ pc = "bind" => endpoint = "none"
    /\ pc \in Unbound => ~serving
    /\ pc \in {"engine_stop", "remove_pid", "exited"} => endpoint = "none" \/ refused

FilesInv == PidFileWritten /\ EndpointAsBound /\ ExitLeavesNothing

LEMMA FilesKept ==
    ASSUME FilesInv,
           UNCHANGED <<files, serving, refused, unwritten>>,
           \/ pc' = pc
           \/ pc \in InLoop \cup {"running"} /\ pc' \in Bound
           \/ pc \in Unbound /\ pc' \in Unbound \ {"bind", "engine", "socket"}
           \/ pc = "engine" /\ pc' = "socket"
           \/ pc' \in {"down", "log_deadlock"}
    PROVE  FilesInv'
BY DEF FilesInv, PidFileWritten, EndpointAsBound, ExitLeavesNothing, Listening, files,
       Bound, Unbound, InLoop

LEMMA FilesStep == FilesInv /\ [Next]_vars => FilesInv'
<1> SUFFICES ASSUME FilesInv, [Next]_vars PROVE FilesInv'
    OBVIOUS
<1> USE DEF FilesInv, PidFileWritten, EndpointAsBound, ExitLeavesNothing, Listening,
            Bound, Unbound, InLoop
<1>1. CASE StartUp
    <2>1. CASE registerSignals \/ loadConfiguration \/ daemonize \/ startEngine
        BY <2>1, FilesKept
           DEF registerSignals, loadConfiguration, daemonize, startEngine, At, Goto,
               files, history
    <2>2. CASE writePidFile
        BY <2>2 DEF writePidFile, At, Goto
    <2>3. CASE unlinkEndpoint
        BY <2>3 DEF unlinkEndpoint, Refuse, At, Goto
    <2>4. CASE bindEndpoint
        <3>1. /\ pc = "bind" /\ pc' = "running"
              /\ pid_file' = pid_file /\ unwritten' = unwritten
            BY <2>4 DEF bindEndpoint, Refuse, At, Goto
        <3>2. endpoint = "none" /\ ~serving
            BY <3>1
        <3>3. \/ ~serving' /\ refused'
              \/ serving' /\ endpoint' = "mine"
            <4>1. CASE Refuse
                BY ONLY <3>2, <4>1, Zenon DEF Refuse
            <4>2. CASE ~Refuse
                BY ONLY <2>4, <3>2, <4>2, Zenon DEF bindEndpoint
            <4> QED  BY <4>1, <4>2
        <3> QED  BY <3>1, <3>3
    <2>5. CASE setRunning
        BY <2>5, FilesKept DEF setRunning, At, Goto, files, history
    <2> QED  BY <1>1, <2>1, <2>2, <2>3, <2>4, <2>5 DEF StartUp
<1>2. CASE MainLoop
    <2>1. UNCHANGED <<files, serving, refused, unwritten>> /\ pc \in InLoop /\ pc' \in Bound
        BY <1>2 DEF MainLoop, testRunning, acceptOne, testReload, reloadRead, reloadApply,
                    sleep, At, Goto, Reading, Applying, files, history
    <2> QED  BY <2>1, FilesKept
<1>3. CASE ShutDown
    BY <1>3 DEF ShutDown, stopIpc, stopEngine, removePidFile, At, Goto, files, history
<1>4. CASE Client
    <2>1. /\ UNCHANGED <<files, serving, refused, unwritten>>
          /\ pc' = pc \/ (pc \in InLoop /\ pc' \in Bound)
        BY <1>4 DEF Client, connect, clientAsks, clientReloads, clientWantsStats, At,
                    Goto, files, history
    <2> QED  BY <2>1, FilesKept
<1>5. CASE Signal
    BY <1>5, FilesKept
       DEF Signal, requestShutdown, requestReload, signalInsideLog, Goto, files, history
<1>6. CASE launch
    BY <1>6 DEF launch, Goto
<1>7. CASE killed
    BY <1>7 DEF killed, Goto
<1>8. CASE edit \/ UNCHANGED vars
    BY <1>8, FilesKept DEF edit, vars, files, history
<1> QED
    BY <1>1, <1>2, <1>3, <1>4, <1>5, <1>6, <1>7, <1>8 DEF Next, MainStep

LEMMA FilesAlways == Spec => []FilesInv
<1>1. Init => FilesInv
    BY DEF Init, FilesInv, PidFileWritten, EndpointAsBound, ExitLeavesNothing, Listening,
           Bound, Unbound, InLoop
<1> QED
    BY <1>1, FilesStep, PTL DEF Spec

(***************************************************************************)
(* In its main loop a daemon is found at its socket, unless it was refused *)
(* one, and named by its PID file, unless that could not be written,       *)
(* however the ones before it ended (ipc_server.cpp, line 41; daemon.cpp,  *)
(* lines 77 and 204-208).                                                  *)
(***************************************************************************)
THEOREM FilesAlwaysLeadHere == Spec => []FilesLeadHere
<1>1. FilesInv => FilesLeadHere
    BY DEF FilesInv, PidFileWritten, EndpointAsBound, Listening, Bound, FilesLeadHere
<1> QED
    BY <1>1, FilesAlways, PTL

(***************************************************************************)
(* No exit leaves a PID file or a socket behind that the system let the    *)
(* daemon make (daemon.cpp, lines 116-120).                                *)
(***************************************************************************)
THEOREM ExitsLeaveNothing == Spec => []ExitLeavesNothing
<1>1. FilesInv => ExitLeavesNothing
    BY DEF FilesInv
<1> QED
    BY <1>1, FilesAlways, PTL

-----------------------------------------------------------------------------
\* The variables that are flags.
Booleans == {running_, reload_requested_, config_path_, enabled, serving,
             owed, asked, refused, unwritten}

LEMMA BooleansStep ==
    ASSUME Booleans \subseteq BOOLEAN, [Next]_vars PROVE Booleans' \subseteq BOOLEAN
<1> USE DEF Booleans, flags, engine, history, Load, Refuse
<1>1. CASE StartUp
    BY <1>1, Zenon DEF StartUp, registerSignals, loadConfiguration, daemonize, writePidFile,
                       startEngine, unlinkEndpoint, bindEndpoint, setRunning
<1>2. CASE MainLoop
    BY <1>2, Zenon DEF MainLoop, testRunning, acceptOne, testReload, reloadRead,
                       reloadApply, sleep
<1>3. CASE ShutDown \/ Client
    BY <1>3, Zenon DEF ShutDown, stopIpc, stopEngine, removePidFile, Client, connect,
                       clientAsks, clientReloads, clientWantsStats
<1>4. CASE Signal
    BY <1>4, Zenon DEF Signal, requestShutdown, requestReload, signalInsideLog
<1>5. CASE launch \/ killed \/ edit \/ UNCHANGED vars
    BY <1>5, Zenon DEF launch, killed, edit, vars
<1> QED
    BY <1>1, <1>2, <1>3, <1>4, <1>5 DEF Next, MainStep

(***************************************************************************)
(* Every variable keeps its type: the loop takes no connection that does   *)
(* not wait, and the two files are never any other than none, this         *)
(* daemon's or a dead one's (acceptOne, bindEndpoint).                     *)
(***************************************************************************)
THEOREM TypesHold == Spec => []TypeOK
<1>1. Init => TypeOK
    <2> SUFFICES ASSUME Init PROVE TypeOK
        OBVIOUS
    <2>1. Booleans \subseteq BOOLEAN
        BY Zenon DEF Init, Booleans
    <2> QED
        BY <2>1, DaemonAssumption DEF Init, TypeOK, Booleans, Labels, Configs
<1>2. TypeOK /\ [Next]_vars => TypeOK'
    <2> SUFFICES ASSUME TypeOK, [Next]_vars PROVE TypeOK'
        OBVIOUS
    <2>b. Booleans' \subseteq BOOLEAN
        BY BooleansStep DEF TypeOK, Booleans
    <2>p. pc' \in Labels
        <3> USE DEF TypeOK, Labels, InLoop, At, Goto
        <3>1. CASE StartUp
            BY <3>1 DEF StartUp, registerSignals, loadConfiguration, daemonize, writePidFile,
                        startEngine, unlinkEndpoint, bindEndpoint, setRunning, Refuse
        <3>2. CASE MainLoop
            BY <3>2 DEF MainLoop, testRunning, acceptOne, testReload, reloadRead, reloadApply,
                        sleep, Reading, Applying
        <3>3. CASE ShutDown \/ Client
            BY <3>3 DEF ShutDown, stopIpc, stopEngine, removePidFile, Client, connect,
                        clientAsks, clientReloads, clientWantsStats
        <3>4. CASE Signal \/ launch \/ killed \/ edit \/ UNCHANGED vars
            BY <3>4 DEF Signal, requestShutdown, requestReload, signalInsideLog, launch,
                        killed, edit, vars
        <3> QED  BY <3>1, <3>2, <3>3, <3>4 DEF Next, MainStep
    <2>w. waiting' \in 0 .. MaxWaiting
        <3> USE DaemonAssumption DEF TypeOK
        <3>1. CASE connect \/ acceptOne
            BY <3>1 DEF connect, acceptOne
        <3>2. CASE ~(connect \/ acceptOne)
            BY <3>2 DEF Next, MainStep, StartUp, MainLoop, ShutDown, Client, Signal, launch, killed,
                edit, vars, registerSignals, loadConfiguration, daemonize, writePidFile,
                startEngine, unlinkEndpoint, bindEndpoint, setRunning, testRunning,
                testReload, reloadRead, reloadApply, sleep, stopIpc, stopEngine,
                removePidFile, clientAsks, clientReloads, clientWantsStats,
                requestShutdown, requestReload, signalInsideLog
        <3> QED  BY <3>1, <3>2
    <2>f. {pid_file', endpoint'} \subseteq {"none", "mine", "stale"}
        <3> USE DEF TypeOK, files
        <3>1. CASE StartUp
            BY <3>1 DEF StartUp, registerSignals, loadConfiguration, daemonize, writePidFile,
                        startEngine, unlinkEndpoint, bindEndpoint, setRunning
        <3>2. CASE MainLoop \/ Client \/ Signal
            BY <3>2 DEF MainLoop, testRunning, acceptOne, testReload, reloadRead, reloadApply,
                        sleep, Client, connect, clientAsks, clientReloads, clientWantsStats,
                        Signal, requestShutdown, requestReload, signalInsideLog
        <3>3. CASE ShutDown \/ launch \/ killed \/ edit \/ UNCHANGED vars
            BY <3>3 DEF ShutDown, stopIpc, stopEngine, removePidFile, launch, killed, Left,
                        edit, vars
        <3> QED  BY <3>1, <3>2, <3>3 DEF Next, MainStep
    <2>c. {config', parsed'} \subseteq Configs
        <3> USE DEF TypeOK, Configs, engine
        <3>1. CASE StartUp \/ ShutDown
            BY <3>1 DEF StartUp, registerSignals, loadConfiguration, daemonize, writePidFile,
                        startEngine, unlinkEndpoint, bindEndpoint, setRunning,
                        ShutDown, stopIpc, stopEngine, removePidFile
        <3>2. CASE MainLoop
            BY <3>2 DEF MainLoop, testRunning, acceptOne, testReload, reloadRead, reloadApply,
                        sleep
        <3>3. CASE Client \/ Signal
            BY <3>3 DEF Client, connect, clientAsks, clientReloads, clientWantsStats,
                        Signal, requestShutdown, requestReload, signalInsideLog
        <3>4. CASE launch \/ killed \/ edit \/ UNCHANGED vars
            BY <3>4 DEF launch, killed, edit, vars
        <3> QED  BY <3>1, <3>2, <3>3, <3>4 DEF Next, MainStep
    <2> QED
        BY <2>b, <2>p, <2>w, <2>f, <2>c DEF TypeOK, Booleans
<1> QED
    BY <1>1, <1>2, PTL DEF Spec

-----------------------------------------------------------------------------
Ended  == ~Alive \/ Stuck
WayOut == {"accept", "read", "reload_rpc", "apply_rpc", "flag", "reload", "apply", "sleep",
           "test", "ipc_stop", "engine_stop", "remove_pid"}

\* A daemon that was asked to end is in its main loop or on the way out of it, and
\* nothing sets running_ again before the next launch.
Leaving == asked => ~running_ /\ (Ended \/ pc \in WayOut)

\* The place of a main thread that was asked to end and has not done so.
On(l) == asked /\ pc = l

LEMMA EndedOrOnTheWay == ASSUME pc \in WayOut PROVE ~Ended /\ pc # "running"
BY DEF WayOut, Ended, Alive, Stuck

\* Nothing but the next launch makes the daemon forget that it was asked to end.
LEMMA AskedStep ==
    ASSUME [Next]_vars, asked, ~running_, Alive, pc # "running"
    PROVE  asked' /\ ~running_'
<1>1. ~launch /\ ~setRunning
    BY DEF launch, Alive, setRunning, At
<1>2. CASE UNCHANGED <<asked, running_>>
    BY <1>2
<1>3. CASE requestShutdown
    BY <1>3 DEF requestShutdown
<1>4. StartUp \/ MainLoop => setRunning \/ UNCHANGED <<asked, running_>>
    BY DEF StartUp, registerSignals, loadConfiguration, daemonize, writePidFile, startEngine,
           unlinkEndpoint, bindEndpoint, setRunning, Refuse, MainLoop, testRunning, acceptOne,
           testReload, reloadRead, reloadApply, sleep, flags, history
<1>5. ShutDown \/ Client => UNCHANGED <<asked, running_>>
    BY DEF ShutDown, stopIpc, stopEngine, removePidFile, Client, connect,
                clientAsks, clientReloads, clientWantsStats, flags, history
<1>6. Signal \/ killed \/ edit \/ UNCHANGED vars => requestShutdown \/ UNCHANGED <<asked, running_>>
    BY DEF Signal, requestReload, signalInsideLog, killed, edit, vars, flags, history
<1> QED
    BY <1>1, <1>2, <1>3, <1>4, <1>5, <1>6 DEF Next, MainStep

(***************************************************************************)
(* Where the main thread goes once running_ is false: to the end of the    *)
(* turn it is in, out of the loop, and through the end of run().           *)
(***************************************************************************)
GoesOn ==
    \/ pc = "accept"      /\ pc' \in {"read", "flag"}
    \/ pc = "reload_rpc"  /\ pc' = "apply_rpc"
    \/ pc = "apply_rpc"   /\ pc' = "flag"
    \/ pc = "flag"        /\ pc' \in {"reload", "sleep"}
    \/ pc = "reload"      /\ pc' = "apply"
    \/ pc = "apply"       /\ pc' = "sleep"
    \/ pc = "sleep"       /\ pc' = "test"
    \/ pc = "test"        /\ pc' = "ipc_stop"
    \/ pc = "ipc_stop"    /\ pc' = "engine_stop"
    \/ pc = "engine_stop" /\ pc' = "remove_pid"
    \/ pc = "remove_pid"  /\ pc' = "exited"

LEMMA WayOutStep ==
    ASSUME [Next]_vars, ~running_, pc \in WayOut
    PROVE  \/ pc' \in {"stats_deadlock", "log_deadlock", "down"}
           \/ pc' = pc /\ ~MainStep
           \/ pc = "read" /\ pc' \in {"flag", "reload_rpc"}
           \/ GoesOn
<1>1. ~StartUp /\ ~launch
    BY DEF StartUp, registerSignals, loadConfiguration, daemonize, writePidFile, startEngine,
           unlinkEndpoint, bindEndpoint, setRunning, launch, At, WayOut
<1>2. MainLoop => GoesOn
    BY DEF GoesOn, MainLoop, testRunning, acceptOne, testReload, reloadRead, reloadApply, sleep,
           Reading, Applying, At, Goto
<1>3. ShutDown => GoesOn
    BY DEF GoesOn, ShutDown, stopIpc, stopEngine, removePidFile, At, Goto
<1>4. clientAsks \/ clientReloads \/ clientWantsStats
      => pc = "read" /\ pc' \in {"flag", "reload_rpc", "stats_deadlock"}
    BY DEF clientAsks, clientReloads, clientWantsStats, At, Goto
<1>5. signalInsideLog \/ killed => pc' \in {"log_deadlock", "down"}
    BY DEF signalInsideLog, killed, Goto
<1>6. connect \/ requestShutdown \/ requestReload \/ edit \/ UNCHANGED vars => pc' = pc
    BY DEF connect, requestShutdown, requestReload, edit, vars
<1> QED
    BY <1>1, <1>2, <1>3, <1>4, <1>5, <1>6 DEF Next, MainStep, Client, Signal

LEMMA LeavingStep == Leaving /\ [Next]_vars => Leaving'
<1> SUFFICES ASSUME Leaving, [Next]_vars PROVE Leaving'
    OBVIOUS
<1>1. CASE asked /\ pc \in WayOut
    <2>1. asked' /\ ~running_'
        BY <1>1, AskedStep, EndedOrOnTheWay DEF Leaving, Ended
    <2>2. (Ended \/ pc \in WayOut)'
        BY <1>1, WayOutStep DEF Leaving, GoesOn, WayOut, Ended, Alive, Stuck
    <2> QED
        BY <2>1, <2>2 DEF Leaving
<1>2. CASE asked /\ Ended
    <2>1. ~running_ /\ pc \in {"down", "exited", "stats_deadlock", "log_deadlock"}
        BY <1>2 DEF Leaving, Ended, Alive, Stuck
    <2>2. ~(StartUp \/ MainLoop \/ ShutDown)
        BY <2>1 DEF StartUp, registerSignals, loadConfiguration, daemonize, writePidFile,
            startEngine, unlinkEndpoint, bindEndpoint, setRunning, MainLoop, testRunning,
            acceptOne, testReload, reloadRead, reloadApply, sleep, Reading, Applying,
            ShutDown, stopIpc, stopEngine, removePidFile, At
    <2>3. launch => ~asked'
        BY DEF launch
    <2>4. ~launch => ~running_'
        BY <2>1, <2>2 DEF Next, MainStep, Client, connect, clientAsks, clientReloads, clientWantsStats,
           Signal, requestShutdown, requestReload, signalInsideLog, killed, edit, vars, flags
    <2>5. ~launch => pc' \in {"down", "exited", "stats_deadlock", "log_deadlock"}
        BY <2>1, <2>2 DEF Next, MainStep, Client, connect, clientAsks, clientReloads, clientWantsStats,
           Signal, requestShutdown, requestReload, signalInsideLog, killed, edit, vars,
           At, Goto, Logging
    <2>6. ~launch => Ended'
        BY <2>5 DEF Ended, Alive, Stuck
    <2> QED
        BY <2>3, <2>4, <2>6 DEF Leaving
<1>3. CASE ~asked /\ asked'
    <2>1. requestShutdown
        BY <1>3 DEF Next, MainStep, StartUp, registerSignals, loadConfiguration, daemonize, writePidFile,
           startEngine, unlinkEndpoint, bindEndpoint, setRunning, Refuse, MainLoop, testRunning,
           acceptOne, testReload, reloadRead, reloadApply, sleep, ShutDown, stopIpc, stopEngine,
           removePidFile, Client, connect, clientAsks, clientReloads, clientWantsStats, Signal,
           requestReload, signalInsideLog, launch, killed, edit, vars, history
    <2>2. pc \in InLoop /\ pc' = pc /\ running_' = FALSE
        BY <1>3, <2>1 DEF requestShutdown
    <2>3. (Ended \/ pc \in WayOut)'
        BY <2>2 DEF InLoop, WayOut, Ended, Stuck
    <2> QED
        BY <2>2, <2>3 DEF Leaving
<1> QED
    BY <1>1, <1>2, <1>3 DEF Leaving

(***************************************************************************)
(* A SIGTERM the main loop gets is not forgotten: nothing sets running_    *)
(* again, and the daemon does not go back before the loop.                 *)
(***************************************************************************)
THEOREM TermIsRemembered == Spec => []Leaving
<1>1. Init => Leaving
    BY DEF Init, Leaving
<1> QED
    BY <1>1, LeavingStep, PTL DEF Spec

LEMMA OnStep ==
    ASSUME Leaving, [Next]_vars
    PROVE  /\ asked => \/ Ended \/ On("accept") \/ On("read") \/ On("reload_rpc")
                       \/ On("apply_rpc") \/ On("flag") \/ On("reload") \/ On("apply")
                       \/ On("sleep") \/ On("test") \/ On("ipc_stop") \/ On("engine_stop")
                       \/ On("remove_pid")
           /\ On("accept")      => Ended' \/ (On("accept")' /\ ~MainStep)
                                   \/ On("read")' \/ On("flag")'
           /\ On("read")        => Ended' \/ On("read")' \/ On("reload_rpc")' \/ On("flag")'
           /\ On("reload_rpc")  => Ended' \/ (On("reload_rpc")' /\ ~MainStep) \/ On("apply_rpc")'
           /\ On("apply_rpc")   => Ended' \/ (On("apply_rpc")' /\ ~MainStep) \/ On("flag")'
           /\ On("flag")        => Ended' \/ (On("flag")' /\ ~MainStep)
                                   \/ On("reload")' \/ On("sleep")'
           /\ On("reload")      => Ended' \/ (On("reload")' /\ ~MainStep) \/ On("apply")'
           /\ On("apply")       => Ended' \/ (On("apply")' /\ ~MainStep) \/ On("sleep")'
           /\ On("sleep")       => Ended' \/ (On("sleep")' /\ ~MainStep) \/ On("test")'
           /\ On("test")        => Ended' \/ (On("test")' /\ ~MainStep) \/ On("ipc_stop")'
           /\ On("ipc_stop")    => Ended' \/ (On("ipc_stop")' /\ ~MainStep) \/ On("engine_stop")'
           /\ On("engine_stop") => Ended' \/ (On("engine_stop")' /\ ~MainStep) \/ On("remove_pid")'
           /\ On("remove_pid")  => Ended' \/ (On("remove_pid")' /\ ~MainStep)
<1>1. asked => Ended \/ pc \in WayOut
    BY DEF Leaving
<1>2. ASSUME asked, pc \in WayOut PROVE asked'
    BY <1>2, AskedStep, EndedOrOnTheWay DEF Leaving, Ended
<1>3. ASSUME asked, pc \in WayOut
      PROVE  \/ Ended'
             \/ pc' = pc /\ ~MainStep
             \/ pc = "read" /\ pc' \in {"flag", "reload_rpc"}
             \/ GoesOn
    <2>1. pc' \in {"stats_deadlock", "log_deadlock", "down"} => Ended'
        BY DEF Ended, Alive, Stuck
    <2> QED
        BY <1>3, <2>1, WayOutStep DEF Leaving
<1>4. pc' = "exited" => Ended'
    BY DEF Ended, Alive
<1> QED
    BY <1>1, <1>2, <1>3, <1>4 DEF On, WayOut, GoesOn

(***************************************************************************)
(* A SIGTERM the main loop gets ends the daemon, whatever the clients ask, *)
(* whatever other signals come and however the file is edited: provided    *)
(* that the main thread can go on wherever MainNeverWaits says.            *)
(***************************************************************************)
THEOREM TermIsAlwaysObeyed == FairSpec /\ []MainNeverWaits => TermIsObeyed
<1> DEFINE Premise == /\ []Leaving /\ [][Next]_vars /\ WF_vars(MainStep)
                      /\ []MainNeverWaits /\ []<>~On("read")
<1>1. FairSpec => []Leaving /\ [][Next]_vars /\ WF_vars(MainStep)
    BY TermIsRemembered, PTL DEF FairSpec, Fairness, Spec, MainStep
<1>2. MainNeverWaits
      => (\/ On("accept") \/ On("reload_rpc") \/ On("apply_rpc") \/ On("flag")
          \/ On("reload") \/ On("apply") \/ On("sleep") \/ On("test") \/ On("ipc_stop")
          \/ On("engine_stop") \/ On("remove_pid")
          => ENABLED <<MainStep>>_vars)
    BY DEF On, WaitsAt, MainNeverWaits
<1>3. pc # "read" => ~On("read")
    BY DEF On
<1>4. Leaving /\ [Next]_vars =>
           /\ asked => \/ Ended \/ On("accept") \/ On("read") \/ On("reload_rpc")
                       \/ On("apply_rpc") \/ On("flag") \/ On("reload") \/ On("apply")
                       \/ On("sleep") \/ On("test") \/ On("ipc_stop") \/ On("engine_stop")
                       \/ On("remove_pid")
           /\ On("accept")      => Ended' \/ (On("accept")' /\ ~MainStep)
                                   \/ On("read")' \/ On("flag")'
           /\ On("read")        => Ended' \/ On("read")' \/ On("reload_rpc")' \/ On("flag")'
           /\ On("reload_rpc")  => Ended' \/ (On("reload_rpc")' /\ ~MainStep) \/ On("apply_rpc")'
           /\ On("apply_rpc")   => Ended' \/ (On("apply_rpc")' /\ ~MainStep) \/ On("flag")'
           /\ On("flag")        => Ended' \/ (On("flag")' /\ ~MainStep)
                                   \/ On("reload")' \/ On("sleep")'
           /\ On("reload")      => Ended' \/ (On("reload")' /\ ~MainStep) \/ On("apply")'
           /\ On("apply")       => Ended' \/ (On("apply")' /\ ~MainStep) \/ On("sleep")'
           /\ On("sleep")       => Ended' \/ (On("sleep")' /\ ~MainStep) \/ On("test")'
           /\ On("test")        => Ended' \/ (On("test")' /\ ~MainStep) \/ On("ipc_stop")'
           /\ On("ipc_stop")    => Ended' \/ (On("ipc_stop")' /\ ~MainStep) \/ On("engine_stop")'
           /\ On("engine_stop") => Ended' \/ (On("engine_stop")' /\ ~MainStep) \/ On("remove_pid")'
           /\ On("remove_pid")  => Ended' \/ (On("remove_pid")' /\ ~MainStep)
    BY OnStep
<1>5. Premise => (asked ~> Ended)
    BY <1>2, <1>4, PTL
<1> HIDE DEF Premise
<1> QED
    BY <1>1, <1>3, <1>5, PTL DEF TermIsObeyed, Ended, Premise

-----------------------------------------------------------------------------
\* A SIGHUP that waits has been served when the file was read, or never will be.
Served == ~owed \/ Ended \/ At("start_deadlock")

\* The place of a main thread that has a SIGHUP to serve.
Owing(l) == owed /\ config_path_ /\ pc = l

\* Where MainNeverWaits lets the main thread go on.
Moving == {"signals", "load", "daemonize", "pid_file", "engine", "socket", "bind", "running"}
          \cup (InLoop \ {"read", "stats_deadlock"}) \cup {"ipc_stop", "engine_stop", "remove_pid"}

\* A request is forgotten by nothing but the reading of the file and the next launch.
LEMMA OwedStep ==
    ASSUME [Next]_vars, owed, config_path_, Alive
    PROVE  /\ config_path_'
           /\ owed' \/ loadConfiguration \/ reloadRead
           /\ reloadRead => ~owed'
<1>1. ~launch
    BY DEF launch, Alive
<1>2. StartUp => config_path_' /\ (owed' \/ loadConfiguration)
    BY DEF StartUp, registerSignals, loadConfiguration, daemonize, writePidFile, startEngine,
           unlinkEndpoint, bindEndpoint, setRunning, Refuse, Load, engine, history
<1>3. MainLoop => config_path_' /\ (owed' \/ reloadRead)
    BY DEF MainLoop, testRunning, acceptOne, testReload, reloadRead, reloadApply, sleep, Load,
           engine, history
<1>4. ShutDown \/ Client \/ Signal \/ killed \/ edit \/ UNCHANGED vars => config_path_' /\ owed'
    BY DEF ShutDown, stopIpc, stopEngine, removePidFile, Client, connect, clientAsks,
           clientReloads, clientWantsStats, Signal, requestShutdown, requestReload,
           signalInsideLog, killed, edit, vars, engine, history
<1>5. reloadRead => ~owed'
    BY DEF reloadRead
<1> QED
    BY <1>1, <1>2, <1>3, <1>4, <1>5 DEF Next, MainStep

\* Where the main thread goes that reads no configuration file: the order of run().
Onward ==
    \/ pc = "signals"   /\ pc' = "load"
    \/ pc = "daemonize" /\ pc' = "pid_file"
    \/ pc = "pid_file"  /\ pc' = "engine"
    \/ pc = "engine"    /\ pc' = "socket"
    \/ pc = "socket"    /\ pc' \in {"bind", "running"}
    \/ pc = "bind"      /\ pc' = "running"
    \/ pc = "running"   /\ pc' = "test"
    \/ pc = "test"      /\ pc' = "accept"
    \/ pc = "read"      /\ pc' \in {"flag", "reload_rpc"}
    \/ pc = "flag"      /\ pc' = (IF reload_requested_ THEN "reload" ELSE "sleep")
    \/ pc \notin {"flag", "reload", "reload_rpc"} /\ GoesOn

\* A step that neither reads the file nor ends in a deadlock or a crash follows it.
LEMMA PlaceStep ==
    ASSUME [Next]_vars, pc \in Moving \cup {"read"}
    PROVE  \/ pc' \in {"stats_deadlock", "log_deadlock", "start_deadlock", "down"}
           \/ pc' = pc /\ ~MainStep
           \/ loadConfiguration \/ reloadRead
           \/ Onward
<1>1. pc \notin {"down", "exited", "stats_deadlock"}
    BY DEF Moving, InLoop
<1>2. StartUp => pc \notin InLoop \cup {"ipc_stop", "engine_stop", "remove_pid", "read"}
    BY DEF StartUp, registerSignals, loadConfiguration, daemonize, writePidFile, startEngine,
           unlinkEndpoint, bindEndpoint, setRunning, At, InLoop
<1>3. StartUp
      => \/ loadConfiguration
         \/ pc = "signals"   /\ pc' = "load"
         \/ pc = "daemonize" /\ pc' \in {"pid_file", "down"}
         \/ pc = "pid_file"  /\ pc' = "engine"
         \/ pc = "engine"    /\ pc' \in {"socket", "start_deadlock"}
         \/ pc = "socket"    /\ pc' \in {"bind", "running"}
         \/ pc = "bind"      /\ pc' = "running"
         \/ pc = "running"   /\ pc' = "test"
    BY DEF StartUp, registerSignals, daemonize, writePidFile, startEngine,
           unlinkEndpoint, bindEndpoint, setRunning, Refuse, At, Goto
<1>4. MainLoop
      => \/ reloadRead
         \/ pc = "test" /\ pc' \in {"accept", "ipc_stop"}
         \/ pc = "flag" /\ pc' = (IF reload_requested_ THEN "reload" ELSE "sleep")
         \/ pc \notin {"flag", "reload", "reload_rpc"} /\ GoesOn
    BY DEF GoesOn, MainLoop, testRunning, acceptOne, testReload, reloadApply, sleep,
           Applying, At, Goto
<1>5. ShutDown => pc \notin {"flag", "reload", "reload_rpc"} /\ GoesOn
    BY DEF GoesOn, ShutDown, stopIpc, stopEngine, removePidFile, At, Goto
<1>6. clientAsks \/ clientReloads \/ clientWantsStats
      => pc = "read" /\ pc' \in {"flag", "reload_rpc", "stats_deadlock"}
    BY DEF clientAsks, clientReloads, clientWantsStats, At, Goto
<1>7. signalInsideLog \/ killed => pc' \in {"log_deadlock", "down"}
    BY DEF signalInsideLog, killed, Goto
<1>8. ~launch
    BY <1>1 DEF launch
<1>9. connect \/ requestShutdown \/ requestReload \/ edit \/ UNCHANGED vars => pc' = pc
    BY DEF connect, requestShutdown, requestReload, edit, vars
<1>10. ASSUME pc' = pc, MainStep PROVE loadConfiguration \/ reloadRead
    BY <1>3, <1>4, <1>5, <1>10 DEF MainStep, GoesOn
<1> QED
    BY <1>3, <1>4, <1>5, <1>6, <1>7, <1>8, <1>9, <1>10
       DEF Next, MainStep, Client, Signal, Onward, GoesOn

\* A turn that the main thread does not take.
Waits(l) == Owing(l)' /\ ~MainStep

(***************************************************************************)
(* The ways of a SIGHUP that waits, place by place: each ends where the    *)
(* file is read or where the daemon ends, and none turns in a circle.      *)
(***************************************************************************)
LEMMA OwingStep ==
    TypeOK /\ ReloadIsRemembered /\ [Next]_vars =>
       /\ owed /\ config_path_ => Served \/ Owing("signals") \/ Owing("load")
                                         \/ Owing("daemonize") \/ Owing("pid_file")
                                         \/ Owing("engine") \/ Owing("socket")
                                         \/ Owing("bind") \/ Owing("running")
                                         \/ Owing("apply") \/ Owing("sleep")
                                         \/ Owing("test") \/ Owing("accept")
                                         \/ Owing("read") \/ Owing("reload_rpc")
                                         \/ Owing("apply_rpc") \/ Owing("flag")
                                         \/ Owing("reload") \/ Owing("ipc_stop")
                                         \/ Owing("engine_stop") \/ Owing("remove_pid")
       /\ Owing("signals")     => Served' \/ Waits("signals") \/ Owing("load")'
       /\ Owing("load")        => Served' \/ Waits("load")
       /\ Owing("daemonize")   => Served' \/ Waits("daemonize") \/ Owing("pid_file")'
       /\ Owing("pid_file")    => Served' \/ Waits("pid_file") \/ Owing("engine")'
       /\ Owing("engine")      => Served' \/ Waits("engine") \/ Owing("socket")'
       /\ Owing("socket")      => Served' \/ Waits("socket") \/ Owing("bind")' \/ Owing("running")'
       /\ Owing("bind")        => Served' \/ Waits("bind") \/ Owing("running")'
       /\ Owing("running")     => Served' \/ Waits("running") \/ Owing("test")'
       /\ Owing("apply")       => Served' \/ Waits("apply") \/ Owing("sleep")'
       /\ Owing("sleep")       => Served' \/ Waits("sleep") \/ Owing("test")'
       /\ Owing("test")        => Served' \/ Waits("test") \/ Owing("accept")' \/ Owing("ipc_stop")'
       /\ Owing("accept")      => Served' \/ Waits("accept") \/ Owing("read")' \/ Owing("flag")'
       /\ Owing("read")        => Served' \/ Owing("read")' \/ Owing("flag")' \/ Owing("reload_rpc")'
       /\ Owing("reload_rpc")  => Served' \/ Waits("reload_rpc")
       /\ Owing("apply_rpc")   => Served' \/ Waits("apply_rpc") \/ Owing("flag")'
       /\ Owing("flag")        => Served' \/ Waits("flag") \/ Owing("reload")'
       /\ Owing("reload")      => Served' \/ Waits("reload")
       /\ Owing("ipc_stop")    => Served' \/ Waits("ipc_stop") \/ Owing("engine_stop")'
       /\ Owing("engine_stop") => Served' \/ Waits("engine_stop") \/ Owing("remove_pid")'
       /\ Owing("remove_pid")  => Served' \/ Waits("remove_pid")
<1>1. ASSUME TypeOK PROVE Served \/ pc \in Moving \cup {"read"}
    BY <1>1 DEF TypeOK, Labels, Served, Ended, Alive, Stuck, At, Moving
<1>2. ASSUME [Next]_vars, owed, config_path_, pc \in Moving \cup {"read"}
      PROVE  \/ Served'
             \/ owed' /\ config_path_' /\ pc' = pc /\ ~MainStep
             \/ owed' /\ config_path_' /\ Onward
    <2>1. Alive /\ pc # "log_deadlock"
        BY <1>2 DEF Alive, Moving, InLoop
    <2>2. CASE loadConfiguration \/ reloadRead
        BY <1>2, <2>1, <2>2, OwedStep DEF loadConfiguration, Served
    <2>3. CASE ~(loadConfiguration \/ reloadRead)
        <3>1. owed' /\ config_path_'
            BY <1>2, <2>1, <2>3, OwedStep
        <3>2. pc' \in {"stats_deadlock", "log_deadlock", "start_deadlock", "down"} => Served'
            BY DEF Served, Ended, Alive, Stuck, At
        <3> QED
            BY <1>2, <2>3, <3>1, <3>2, PlaceStep
    <2> QED
        BY <2>2, <2>3
<1>3. ASSUME ReloadIsRemembered, owed, config_path_, pc = "flag" PROVE reload_requested_
    BY <1>3 DEF ReloadIsRemembered, Alive
<1>4. pc' = "exited" => Served'
    BY DEF Served, Ended, Alive
<1> QED
    BY <1>1, <1>2, <1>3, <1>4 DEF Owing, Waits, Onward, GoesOn, Moving, InLoop

(***************************************************************************)
(* A SIGHUP the daemon gets once it has read a configuration is served:    *)
(* the file is read again after it or the daemon ends, whatever clients    *)
(* ask, whatever other signals come, and wherever the signal interrupts    *)
(* it; provided that the main thread can go on wherever MainNeverWaits     *)
(* says.                                                                   *)
(***************************************************************************)
THEOREM ReloadIsAlwaysServed == FairSpec /\ []MainNeverWaits => ReloadIsServed
<1> DEFINE Premise == /\ []TypeOK /\ []ReloadIsRemembered /\ [][Next]_vars
                      /\ WF_vars(MainStep) /\ []MainNeverWaits /\ []<>~Owing("read")
<1>1. FairSpec => [][Next]_vars /\ WF_vars(MainStep)
    BY PTL DEF FairSpec, Fairness, Spec
<1>2. FairSpec => []TypeOK /\ []ReloadIsRemembered
    BY TypesHold, ReloadsAreRemembered, PTL DEF FairSpec
<1>3. ASSUME MainNeverWaits, NEW l \in Moving, Owing(l) PROVE ENABLED <<MainStep>>_vars
    BY <1>3 DEF MainNeverWaits, Owing, Moving, WaitsAt, InLoop
<1>4. MainNeverWaits
      => (    Owing("signals") \/ Owing("load") \/ Owing("daemonize")
           \/ Owing("pid_file") \/ Owing("engine") \/ Owing("socket")
           \/ Owing("bind") \/ Owing("running") \/ Owing("apply")
           \/ Owing("sleep") \/ Owing("test") \/ Owing("accept")
           \/ Owing("reload_rpc") \/ Owing("apply_rpc") \/ Owing("flag")
           \/ Owing("reload") \/ Owing("ipc_stop") \/ Owing("engine_stop")
           \/ Owing("remove_pid")
          => ENABLED <<MainStep>>_vars)
    BY <1>3 DEF Moving, InLoop
<1>5. pc # "read" => ~Owing("read")
    BY DEF Owing
<1>6. Premise => (owed /\ config_path_ ~> Served)
    BY <1>4, OwingStep, PTL DEF Waits
<1> HIDE DEF Premise
<1> QED
    BY <1>1, <1>2, <1>5, <1>6, PTL DEF ReloadIsServed, Served, Ended, Premise

===============================================================================
