--------------------------- MODULE PhmEngineProofs ---------------------------
(***************************************************************************)
(* What PhmEngine guarantees for any number of entities, of clients that   *)
(* start and stop the engine and of clients that change its map; and what  *)
(* it guarantees only if one thread starts and stops it and its entities   *)
(* have been started before.                                               *)
(***************************************************************************)
EXTENDS PhmEngine, WellFoundedInduction, TLAPS

-----------------------------------------------------------------------------
(* The inductive invariant *)

InCallback(t) == pc[t] \in {"old_global", "new_global"}

Ticking == pc[worker] \in {"check", "restart", "old_global", "new_global"}

PcOK == pc \in [Threads -> WorkerLabels \cup ClientLabels]

ReturnOK ==
    \A t \in Threads :
        InCallback(t) => return[t] = IF t = worker THEN "check" ELSE "starting"

\* The mutex is held across steps by start() alone, also in a callback of start().
MutexOK ==
    /\ mutex # worker
    /\ \A c \in Clients : mutex = c <=> pc[c] \in {"starting", "launching"} \/ InCallback(c)

\* While start() holds the mutex the map stays, and nobody takes running_ back.
StartingOK ==
    \A c \in Clients : /\ pc[c] = "starting" => todo[c] \subseteq entities
                       /\ pc[c] = "launching" => running

\* The worker exists only while its handle is joinable, and the handle only
\* while the engine runs or somebody is about to join.
HandleOK ==
    /\ pc[worker] # "exited" => joinable
    /\ joinable => running \/ \E c \in Lifecycle : pc[c] = "joining"

SnapshotOK ==
    /\ snapshot # {} => Ticking
    /\ pc[worker] = "restart" => todo[worker] # {} /\ current \in AutoRestart

RemovedOK ==
    \A e \in Entities \ entities :
        monitoring[e] => e \in AutoRestart /\ e \in snapshot \cup handles

Places == PcOK /\ ReturnOK /\ MutexOK /\ StartingOK /\ HandleOK

IInv == TypeOK /\ Places /\ SnapshotOK /\ RemovedOK

LEMMA WorkerIsNoClient == worker \notin Clients /\ free \notin Clients /\ worker # free
BY EngineAssumption DEF worker, free

\* A set of entities has a first one.
LEMMA FirstIsThere ==
    ASSUME NEW S \in SUBSET Entities, S # {}
    PROVE  First(S) \in S
<1> DEFINE Less == OpToRel(<, Nat)
<1>1. S \subseteq Nat
    BY EngineAssumption
<1>2. \E e \in S : \A d \in S : ~(<<d, e>> \in Less)
    BY <1>1, NatLessThanWellFounded, WFMin
<1>3. \A d, e \in Nat : ~(<<d, e>> \in Less) => e <= d
    BY DEF OpToRel
<1>4. \E e \in S : \A d \in S : e <= d
    BY <1>1, <1>2, <1>3
<1> QED
    BY <1>4 DEF First

LEMMA InitIsGood == ASSUME Init PROVE IInv
<1> USE EngineAssumption, WorkerIsNoClient
<1>1. TypeOK
    BY DEF Init, TypeOK, Threads, WorkerLabels, ClientLabels, SeStates, INIT, FATAL
<1>2. Places
    BY DEF Init, Places, PcOK, ReturnOK, MutexOK, StartingOK, HandleOK, InCallback, Threads,
           WorkerLabels, ClientLabels
<1>3. SnapshotOK /\ RemovedOK
    BY DEF Init, SnapshotOK, RemovedOK, Threads
<1> QED
    BY <1>1, <1>2, <1>3 DEF IInv

-----------------------------------------------------------------------------
(* The clients that change the map *)

LEMMA MapKeeps ==
    ASSUME IInv, NEW c \in Registrars, MapStep(c)
    PROVE  IInv'
<1> USE EngineAssumption, WorkerIsNoClient
<1>1. PICK e \in Entities : \/ addSupervisedEntity(c, e)
                            \/ registerEntity(c, e)
                            \/ removeEntity(c, e)
                            \/ getEntity(c, e)
                            \/ release(c, e)
    BY DEF MapStep
<1>2. TypeOK'
    BY <1>1 DEF IInv, TypeOK, addSupervisedEntity, registerEntity, removeEntity, getEntity, release, Destroy,
                SeStates, INIT, RUNNING, FATAL
<1>3. Places'
    BY <1>1 DEF IInv, Places, PcOK, ReturnOK, MutexOK, StartingOK, HandleOK, InCallback, FreeMutex,
                Clients, addSupervisedEntity, registerEntity, removeEntity, getEntity, release
<1>4. SnapshotOK'
    BY <1>1 DEF IInv, SnapshotOK, current, Ticking, addSupervisedEntity, registerEntity, removeEntity, getEntity, release
<1>5. RemovedOK'
    BY <1>1 DEF IInv, TypeOK, RemovedOK, Destroy, addSupervisedEntity, registerEntity, removeEntity, getEntity, release
<1> QED
    BY <1>2, <1>3, <1>4, <1>5 DEF IInv

-----------------------------------------------------------------------------
(* Callbacks, start() and stop() *)

LEMMA CallbackKeeps ==
    ASSUME IInv, NEW t \in Threads, Callback(t)
    PROVE  IInv'
<1> USE EngineAssumption, WorkerIsNoClient
<1>2. TypeOK'
    BY DEF IInv, TypeOK, Threads, Clients, WorkerLabels, ClientLabels, Places, PcOK, ReturnOK,
           MutexOK, InCallback, FreeMutex, Callback, oldGlobal, newGlobal, Goto
<1>3. Places'
    BY DEF IInv, Places, PcOK, ReturnOK, MutexOK, StartingOK, HandleOK, InCallback, FreeMutex,
           Threads, Clients, WorkerLabels, ClientLabels, Callback, oldGlobal, newGlobal, Goto
<1>4. SnapshotOK'
    BY DEF IInv, TypeOK, Places, PcOK, ReturnOK, InCallback, SnapshotOK, current, Ticking, Threads,
           Clients, Callback, oldGlobal, newGlobal, Goto
<1>5. RemovedOK'
    BY DEF IInv, TypeOK, RemovedOK, Callback, oldGlobal, newGlobal, Goto
<1> QED
    BY <1>2, <1>3, <1>4, <1>5 DEF IInv

LEMMA StartLockKeeps ==
    ASSUME IInv, NEW c \in Lifecycle, startLock(c)
    PROVE  IInv'
<1> USE EngineAssumption, WorkerIsNoClient
<1>2. TypeOK'
    BY DEF IInv, TypeOK, Places, PcOK, Threads, Clients, WorkerLabels, ClientLabels, startLock, Goto
<1>3. Places'
    BY DEF IInv, TypeOK, Places, PcOK, ReturnOK, MutexOK, StartingOK, HandleOK, InCallback,
           FreeMutex,
           Threads, Clients, WorkerLabels, ClientLabels, startLock, Goto
<1>4. SnapshotOK'
    BY DEF IInv, TypeOK, Places, PcOK, ReturnOK, InCallback, SnapshotOK, current, Ticking, Threads,
           Clients, WorkerLabels, ClientLabels, startLock, Goto
<1>5. RemovedOK'
    BY DEF IInv, TypeOK, RemovedOK, startLock, Goto
<1> QED
    BY <1>2, <1>3, <1>4, <1>5 DEF IInv

LEMMA StartRunningKeeps ==
    ASSUME IInv, NEW c \in Lifecycle, startRunning(c)
    PROVE  IInv'
<1> USE EngineAssumption, WorkerIsNoClient
<1>2. TypeOK'
    BY DEF IInv, TypeOK, Places, PcOK, Threads, Clients, WorkerLabels, ClientLabels, startRunning,
           Goto
<1>3. Places'
    BY DEF IInv, TypeOK, Places, PcOK, ReturnOK, MutexOK, StartingOK, HandleOK, InCallback,
           FreeMutex,
           Threads, Clients, WorkerLabels, ClientLabels, startRunning, Goto
<1>4. SnapshotOK'
    BY DEF IInv, TypeOK, Places, PcOK, ReturnOK, InCallback, SnapshotOK, current, Ticking, Threads,
           Clients, WorkerLabels, ClientLabels, startRunning, Goto
<1>5. RemovedOK'
    BY DEF IInv, TypeOK, RemovedOK, startRunning, Goto
<1> QED
    BY <1>2, <1>3, <1>4, <1>5 DEF IInv

LEMMA StartWorkerKeeps ==
    ASSUME IInv, NEW c \in Lifecycle, startWorker(c)
    PROVE  IInv'
<1> USE EngineAssumption, WorkerIsNoClient
<1>2. TypeOK'
    BY DEF IInv, TypeOK, Places, PcOK, Threads, Clients, WorkerLabels, ClientLabels, startWorker,
           Goto
<1>3. Places'
    BY DEF IInv, TypeOK, Places, PcOK, ReturnOK, MutexOK, StartingOK, HandleOK, InCallback,
           FreeMutex,
           Threads, Clients, WorkerLabels, ClientLabels, startWorker, Goto
<1>4. SnapshotOK'
    BY DEF IInv, TypeOK, Places, PcOK, HandleOK, SnapshotOK, current, Ticking, Threads, Clients,
           WorkerLabels, ClientLabels, startWorker, Goto
<1>5. RemovedOK'
    BY DEF IInv, TypeOK, RemovedOK, startWorker, Goto
<1> QED
    BY <1>2, <1>3, <1>4, <1>5 DEF IInv

LEMMA StopLockKeeps ==
    ASSUME IInv, NEW c \in Lifecycle, stopLock(c)
    PROVE  IInv'
<1> USE EngineAssumption, WorkerIsNoClient
<1>2. TypeOK'
    BY DEF IInv, TypeOK, Places, PcOK, Threads, Clients, WorkerLabels, ClientLabels, stopLock, Goto
<1>3. Places'
    BY DEF IInv, TypeOK, Places, PcOK, ReturnOK, MutexOK, StartingOK, HandleOK, InCallback,
           FreeMutex,
           Threads, Clients, WorkerLabels, ClientLabels, stopLock, Goto
<1>4. SnapshotOK'
    BY DEF IInv, TypeOK, Places, PcOK, ReturnOK, InCallback, SnapshotOK, current, Ticking, Threads,
           Clients, WorkerLabels, ClientLabels, stopLock, Goto
<1>5. RemovedOK'
    BY DEF IInv, TypeOK, RemovedOK, stopLock, Goto
<1> QED
    BY <1>2, <1>3, <1>4, <1>5 DEF IInv

LEMMA StopJoinKeeps ==
    ASSUME IInv, NEW c \in Lifecycle, stopJoin(c)
    PROVE  IInv'
<1> USE EngineAssumption, WorkerIsNoClient
<1>2. TypeOK'
    BY DEF IInv, TypeOK, Places, PcOK, Threads, Clients, WorkerLabels, ClientLabels, stopJoin, Goto
<1>3. Places'
    BY DEF IInv, TypeOK, Places, PcOK, ReturnOK, MutexOK, StartingOK, HandleOK, InCallback,
           FreeMutex,
           Threads, Clients, WorkerLabels, ClientLabels, stopJoin, Goto
<1>4. SnapshotOK'
    BY DEF IInv, TypeOK, Places, PcOK, ReturnOK, InCallback, SnapshotOK, current, Ticking, Threads,
           Clients, WorkerLabels, ClientLabels, stopJoin, Goto
<1>5. RemovedOK'
    BY DEF IInv, TypeOK, RemovedOK, stopJoin, Goto
<1> QED
    BY <1>2, <1>3, <1>4, <1>5 DEF IInv

LEMMA StopEntitiesKeeps ==
    ASSUME IInv, NEW c \in Lifecycle, stopEntities(c)
    PROVE  IInv'
<1> USE EngineAssumption, WorkerIsNoClient
<1>2. TypeOK'
    BY DEF IInv, TypeOK, Places, PcOK, Threads, Clients, WorkerLabels, ClientLabels, stopEntities,
           Goto
<1>3. Places'
    BY DEF IInv, TypeOK, Places, PcOK, ReturnOK, MutexOK, StartingOK, HandleOK, InCallback,
           FreeMutex,
           Threads, Clients, WorkerLabels, ClientLabels, stopEntities, Goto
<1>4. SnapshotOK'
    BY DEF IInv, TypeOK, Places, PcOK, ReturnOK, InCallback, SnapshotOK, current, Ticking, Threads,
           Clients, WorkerLabels, ClientLabels, stopEntities, Goto
<1>5. RemovedOK'
    BY DEF IInv, TypeOK, RemovedOK, stopEntities, Goto
<1> QED
    BY <1>2, <1>3, <1>4, <1>5 DEF IInv

LEMMA StartNextKeeps ==
    ASSUME IInv, NEW c \in Lifecycle, startNext(c)
    PROVE  IInv'
<1> USE EngineAssumption, WorkerIsNoClient
<1>1. c \in Clients /\ c \in Threads /\ First(todo[c]) \in todo[c] /\ todo[c] \subseteq Entities
    BY FirstIsThere DEF IInv, TypeOK, startNext, Clients, Threads
<1>2. TypeOK'
    BY <1>1 DEF IInv, TypeOK, Places, PcOK, Threads, Clients, WorkerLabels, ClientLabels,
                SeStates, INIT, RUNNING, FATAL, startNext, startEntity, Transition, Goto
<1>3. Places'
    BY <1>1 DEF IInv, TypeOK, Places, PcOK, ReturnOK, MutexOK, StartingOK, HandleOK, InCallback,
                FreeMutex,
           Threads, Clients, WorkerLabels, ClientLabels, startNext, startEntity, Transition, Goto
<1>4. SnapshotOK'
    BY <1>1 DEF IInv, TypeOK, Places, PcOK, ReturnOK, InCallback, SnapshotOK, current, Ticking, Threads,
                Clients, WorkerLabels, ClientLabels, startNext, startEntity, Transition, Goto
<1>5. RemovedOK'
    BY <1>1 DEF IInv, TypeOK, RemovedOK, Places, StartingOK, startNext, startEntity, Transition,
                Goto
<1> QED
    BY <1>2, <1>3, <1>4, <1>5 DEF IInv

-----------------------------------------------------------------------------
(* The worker *)

LEMMA LoopTestKeeps ==
    ASSUME IInv, tickLoopTest
    PROVE  IInv'
<1> USE EngineAssumption, WorkerIsNoClient
<1>2. TypeOK'
    BY DEF IInv, TypeOK, Places, PcOK, Threads, Clients, WorkerLabels, ClientLabels, tickLoopTest,
           Goto
<1>3. Places'
    BY DEF IInv, TypeOK, Places, PcOK, ReturnOK, MutexOK, StartingOK, HandleOK, InCallback,
           FreeMutex,
           Threads, Clients, WorkerLabels, ClientLabels, tickLoopTest, Goto
<1>4. SnapshotOK'
    BY DEF IInv, TypeOK, Places, PcOK, ReturnOK, InCallback, SnapshotOK, current, Ticking, Threads,
           Clients, WorkerLabels, ClientLabels, tickLoopTest, Goto
<1>5. RemovedOK'
    BY DEF IInv, TypeOK, RemovedOK, SnapshotOK, current, Ticking, Places, PcOK, tickLoopTest, Goto
<1> QED
    BY <1>2, <1>3, <1>4, <1>5 DEF IInv

LEMMA TakeSnapshotKeeps ==
    ASSUME IInv, takeSnapshot
    PROVE  IInv'
<1> USE EngineAssumption, WorkerIsNoClient
<1>2. TypeOK'
    BY DEF IInv, TypeOK, Places, PcOK, Threads, Clients, WorkerLabels, ClientLabels, takeSnapshot,
           Goto
<1>3. Places'
    BY DEF IInv, TypeOK, Places, PcOK, ReturnOK, MutexOK, StartingOK, HandleOK, InCallback,
           FreeMutex,
           Threads, Clients, WorkerLabels, ClientLabels, takeSnapshot, Goto
<1>4. SnapshotOK'
    BY DEF IInv, TypeOK, Places, PcOK, ReturnOK, InCallback, SnapshotOK, current, Ticking, Threads,
           Clients, WorkerLabels, ClientLabels, takeSnapshot, Goto
<1>5. RemovedOK'
    BY DEF IInv, TypeOK, RemovedOK, SnapshotOK, current, Ticking, Places, PcOK, takeSnapshot, Goto
<1> QED
    BY <1>2, <1>3, <1>4, <1>5 DEF IInv

LEMMA TickEndKeeps ==
    ASSUME IInv, tickEnd
    PROVE  IInv'
<1> USE EngineAssumption, WorkerIsNoClient
<1>2. TypeOK'
    BY DEF IInv, TypeOK, Places, PcOK, Threads, Clients, WorkerLabels, ClientLabels, SeStates,
           INIT, FATAL, tickEnd, Goto, Destroy
<1>3. Places'
    BY DEF IInv, TypeOK, Places, PcOK, ReturnOK, MutexOK, StartingOK, HandleOK, InCallback,
           FreeMutex,
           Threads, Clients, WorkerLabels, ClientLabels, tickEnd, Goto, Destroy
<1>4. SnapshotOK'
    BY DEF IInv, TypeOK, Places, PcOK, ReturnOK, InCallback, SnapshotOK, current, Ticking, Threads,
           Clients, WorkerLabels, ClientLabels, tickEnd, Goto, Destroy
<1>5. RemovedOK'
    BY DEF IInv, TypeOK, RemovedOK, SnapshotOK, current, Ticking, Places, PcOK, tickEnd, Goto, Destroy
<1> QED
    BY <1>2, <1>3, <1>4, <1>5 DEF IInv

LEMMA CheckMovesKeeps ==
    ASSUME IInv, NEW s \in States, checkMoves(s)
    PROVE  IInv'
<1> USE EngineAssumption, WorkerIsNoClient
<1>1. current \in todo[worker] /\ todo[worker] \subseteq Entities /\ worker \in Threads
    BY FirstIsThere DEF IInv, TypeOK, SnapshotOK, checkMoves, current, Threads
<1>2. TypeOK'
    BY <1>1 DEF IInv, TypeOK, Places, PcOK, Threads, Clients, WorkerLabels, ClientLabels,
                checkMoves, Transition, Goto
<1>3. Places'
    BY <1>1 DEF IInv, TypeOK, Places, PcOK, ReturnOK, MutexOK, StartingOK, HandleOK, InCallback,
                FreeMutex,
           Threads, Clients, WorkerLabels, ClientLabels, checkMoves, Transition, Goto
<1>4. SnapshotOK'
    BY <1>1 DEF IInv, TypeOK, Places, PcOK, ReturnOK, InCallback, SnapshotOK, current, Ticking, Threads,
                Clients, WorkerLabels, ClientLabels, checkMoves, Transition, Goto
<1>5. RemovedOK'
    BY <1>1 DEF IInv, TypeOK, RemovedOK, checkMoves, Transition, Goto
<1> QED
    BY <1>2, <1>3, <1>4, <1>5 DEF IInv

LEMMA CheckDoneKeeps ==
    ASSUME IInv, checkDone
    PROVE  IInv'
<1> USE EngineAssumption, WorkerIsNoClient
<1>1. current \in todo[worker] /\ todo[worker] \subseteq Entities /\ worker \in Threads
    BY FirstIsThere DEF IInv, TypeOK, SnapshotOK, checkDone, current, Threads
<1>2. TypeOK'
    <2>1. CASE state[current] = FATAL /\ current \in AutoRestart
        <3>1. current \in Entities /\ INIT \in SeStates
            BY <1>1 DEF SeStates, INIT, FATAL
        <3>2. /\ state' = [state EXCEPT ![current] = INIT]
              /\ monitoring' = [monitoring EXCEPT ![current] = FALSE]
              /\ pc' = [pc EXCEPT ![worker] = "restart"]
              /\ UNCHANGED <<mutex, entities, running, joinable, terminated, todo, snapshot,
                           handles, return>>
            BY <2>1 DEF checkDone, Goto
        <3>3. state' \in [Entities -> SeStates] /\ monitoring' \in [Entities -> BOOLEAN]
            BY <3>1, <3>2 DEF IInv, TypeOK
        <3>4. pc'[worker] = "restart" /\ \A c \in Clients : pc'[c] = pc[c]
            BY <1>1, <3>2 DEF IInv, Places, PcOK, Threads
        <3> QED
            BY <3>2, <3>3, <3>4 DEF IInv, TypeOK, WorkerLabels
    <2>2. CASE ~(state[current] = FATAL /\ current \in AutoRestart)
        BY <1>1, <2>2 DEF IInv, TypeOK, checkDone
    <2> QED
        BY <2>1, <2>2
<1>3. Places'
    BY <1>1 DEF IInv, TypeOK, Places, PcOK, ReturnOK, MutexOK, StartingOK, HandleOK, InCallback,
                FreeMutex,
           Threads, Clients, WorkerLabels, ClientLabels, checkDone, Goto
<1>4. SnapshotOK'
    BY <1>1 DEF IInv, TypeOK, Places, PcOK, ReturnOK, InCallback, SnapshotOK, current, Ticking, Threads,
                Clients, WorkerLabels, ClientLabels, checkDone, Goto
<1>5. RemovedOK'
    BY <1>1 DEF IInv, TypeOK, RemovedOK, checkDone, Goto
<1> QED
    BY <1>2, <1>3, <1>4, <1>5 DEF IInv

LEMMA RestartKeeps ==
    ASSUME IInv, restartEntity
    PROVE  IInv'
<1> USE EngineAssumption, WorkerIsNoClient
<1>1. current \in todo[worker] /\ todo[worker] \subseteq Entities /\ worker \in Threads
    BY FirstIsThere DEF IInv, TypeOK, SnapshotOK, restartEntity, current, Threads
<1>2. TypeOK'
    BY <1>1 DEF IInv, TypeOK, Places, PcOK, Threads, Clients, WorkerLabels, ClientLabels,
                SeStates, INIT, RUNNING, FATAL, restartEntity, startEntity, Transition, Goto
<1>3. Places'
    BY <1>1 DEF IInv, TypeOK, Places, PcOK, ReturnOK, MutexOK, StartingOK, HandleOK, InCallback,
                FreeMutex,
           Threads, Clients, WorkerLabels, ClientLabels, restartEntity, startEntity, Transition,
           Goto
<1>4. SnapshotOK'
    BY <1>1 DEF IInv, TypeOK, Places, PcOK, ReturnOK, InCallback, SnapshotOK, current, Ticking, Threads,
                Clients, WorkerLabels, ClientLabels, restartEntity, startEntity, Transition, Goto
<1>5. RemovedOK'
    <2>1. current \in AutoRestart /\ current \in snapshot
        BY <1>1 DEF IInv, TypeOK, SnapshotOK, restartEntity
    <2>2. \A e \in Entities : monitoring'[e] => monitoring[e] \/ e = current
        BY <1>1 DEF IInv, TypeOK, restartEntity, startEntity
    <2> QED
        BY <2>1, <2>2 DEF IInv, RemovedOK, restartEntity
<1> QED
    BY <1>2, <1>3, <1>4, <1>5 DEF IInv

LEMMA StepKeeps == ASSUME IInv, [Next]_vars PROVE IInv'
<1>1. CASE \E c \in Registrars : MapStep(c)
    BY <1>1, MapKeeps
<1>2. CASE \E c \in Lifecycle : BeginCall(c) \/ InsideCall(c)
    BY <1>2, StartLockKeeps, StopLockKeeps, StartNextKeeps, StartRunningKeeps, StartWorkerKeeps,
       StopJoinKeeps, StopEntitiesKeeps
       DEF BeginCall, InsideCall
<1>3. CASE WorkerStep
    BY <1>3, LoopTestKeeps, TakeSnapshotKeeps, RestartKeeps, TickEndKeeps DEF WorkerStep
<1>4. CASE CheckFinds \/ CheckEnds
    BY <1>4, CheckMovesKeeps, CheckDoneKeeps DEF CheckFinds, CheckEnds
<1>5. CASE \E t \in Threads : Callback(t)
    BY <1>5, CallbackKeeps
<1>6. CASE UNCHANGED vars
    BY <1>6 DEF vars, IInv, TypeOK, Places, PcOK, ReturnOK, MutexOK, StartingOK, HandleOK,
                SnapshotOK, current, RemovedOK, InCallback, Ticking
<1> QED
    BY <1>1, <1>2, <1>3, <1>4, <1>5, <1>6 DEF Next

LEMMA Invariance == Spec => []IInv
BY InitIsGood, StepKeeps, PTL DEF Spec

-----------------------------------------------------------------------------
(* One thread that starts and stops, and entities that were started before *)

OneLifecycle == \A c, d \in Lifecycle : c = d

StartedBefore == Enabled \subseteq Prestarted \cup Failing

\* Whoever is about to create a worker finds the handle joined.
LaunchOK == \A c \in Lifecycle : pc[c] \in {"starting", "launching"} => ~joinable

\* start() has nothing left to do for an entity, but for one that the worker is restarting.
Started(e) ==
    \/ e \in Failing
    \/ state[e] # INIT
    \/ pc[worker] = "restart" /\ e = current

CalmOK ==
    /\ \A c \in Clients : ~InCallback(c)
    /\ \A c \in Clients : pc[c] = "starting" => todo[c] \subseteq Enabled
    /\ \A e \in Enabled : Held(e) => Started(e)

\* However many own the engine: a handle a start() finds joinable is being joined.
JoinOK ==
    \A c \in Lifecycle : pc[c] \in {"starting", "launching"} /\ joinable
                        => \E d \in Lifecycle : pc[d] = "joining"

LEMMA JoinStep ==
    ASSUME IInv, JoinOK, OnlyAStopTerminates, [Next]_vars
    PROVE  (JoinOK /\ OnlyAStopTerminates)'
<1> USE EngineAssumption, WorkerIsNoClient
<1> USE DEF IInv, Places, PcOK, JoinOK, OnlyAStopTerminates, Threads, Clients
<1>1. CASE \E c \in Registrars : MapStep(c)
    BY <1>1 DEF MapStep, addSupervisedEntity, registerEntity, removeEntity, getEntity, release
<1>2. ASSUME NEW c \in Lifecycle, BeginCall(c) \/ InsideCall(c)
      PROVE  (JoinOK /\ OnlyAStopTerminates)'
    <2>1. CASE startLock(c)
        <3>1. joinable => \E d \in Lifecycle : d # c /\ pc[d] = "joining"
            BY <2>1 DEF startLock, HandleOK
        <3>2. ~terminated /\ ~terminated' /\ joinable' = joinable
              /\ \A d \in Lifecycle : d # c => pc'[d] = pc[d]
            BY <1>2, <2>1 DEF startLock, BeginCall, InsideCall, Goto
        <3> QED
            BY <3>1, <3>2
    <2>2. CASE stopLock(c)
        BY <1>2, <2>2 DEF stopLock, BeginCall, InsideCall, Goto
    <2>3. CASE stopJoin(c)
        BY <1>2, <2>3 DEF stopJoin, BeginCall, InsideCall, Goto
    <2>4. CASE stopEntities(c)
        BY <1>2, <2>4 DEF stopEntities, BeginCall, InsideCall, Goto
    <2>5. CASE startNext(c)
        BY <1>2, <2>5 DEF startNext, startEntity, Transition, BeginCall, InsideCall, Goto
    <2>6. CASE startRunning(c)
        BY <1>2, <2>6 DEF startRunning, BeginCall, InsideCall, Goto
    <2>7. CASE startWorker(c)
        <3>1. \A d \in Lifecycle : pc[d] \in {"starting", "launching"} => d = c
            BY <2>7 DEF startWorker, MutexOK
        <3> QED
            BY <1>2, <2>7, <3>1 DEF startWorker, BeginCall, InsideCall
    <2> QED
        BY <1>2, <2>1, <2>2, <2>3, <2>4, <2>5, <2>6, <2>7 DEF BeginCall, InsideCall
<1>3. CASE WorkerStep \/ CheckFinds \/ CheckEnds
    BY <1>3 DEF WorkerStep, CheckFinds, CheckEnds, tickLoopTest, takeSnapshot, restartEntity,
                tickEnd,
                checkMoves, checkDone, startEntity, Transition, Goto
<1>4. CASE \E t \in Threads : Callback(t)
    BY <1>4 DEF Callback, oldGlobal, newGlobal, FreeMutex, MutexOK, InCallback, Goto
<1>5. CASE UNCHANGED vars
    BY <1>5 DEF vars
<1> QED
    BY <1>1, <1>2, <1>3, <1>4, <1>5 DEF Next

LEMMA JoinsKept == Spec => [](JoinOK /\ OnlyAStopTerminates)
<1>1. Init => JoinOK /\ OnlyAStopTerminates
    BY DEF Init, JoinOK, OnlyAStopTerminates, Threads, Clients
<1> QED
    BY Invariance, <1>1, JoinStep, PTL DEF Spec

\* So the one owner of an engine launches a worker in peace.
LEMMA OneOwnerLaunches ==
    ASSUME OneLifecycle
    PROVE  Spec => [](LaunchOK /\ NeverTerminates)
<1>1. JoinOK /\ OnlyAStopTerminates => LaunchOK /\ NeverTerminates
    BY OneLifecycle DEF JoinOK, OnlyAStopTerminates, OneLifecycle, LaunchOK, NeverTerminates
<1> QED
    BY JoinsKept, <1>1, PTL

\* No transition leads back to INIT.
LEMMA NeverBackToInit == ASSUME NEW f \in SeStates PROVE INIT \notin g_transition_table[f]
BY DEF g_transition_table, SeStates, INIT, RUNNING, SUSPECT, WARN, ERROR, FATAL

\* The steps that leave the entities and the worker's place alone.
LEMMA CalmKept ==
    ASSUME CalmOK, UNCHANGED <<entities, snapshot, handles, state>>,
           \/ UNCHANGED <<pc[worker], todo[worker]>>
           \/ pc[worker] # "restart"
    PROVE  \A e \in Enabled : Held(e)' => Started(e)'
BY DEF CalmOK, Held, Started, current

LEMMA CalmMap ==
    ASSUME IInv, StartedBefore, CalmOK, NEW c \in Registrars, MapStep(c)
    PROVE  CalmOK'
<1> USE EngineAssumption, WorkerIsNoClient
<1>1. UNCHANGED <<pc, todo>>
    BY DEF MapStep, addSupervisedEntity, registerEntity, removeEntity, getEntity, release
<1>2. \A e \in Enabled : Held(e)' => Started(e)'
    <2>1. PICK e \in Entities : \/ addSupervisedEntity(c, e)
                                \/ registerEntity(c, e)
                                \/ removeEntity(c, e)
                                \/ getEntity(c, e)
                                \/ release(c, e)
        BY DEF MapStep
    <2>2. CASE addSupervisedEntity(c, e)
        BY <1>1, <2>2 DEF addSupervisedEntity, StartedBefore, CalmOK, Held, Started, current
    <2>3. CASE registerEntity(c, e)
        BY <1>1, <2>3 DEF registerEntity, CalmOK, Held, Started, current, IInv, TypeOK, INIT, RUNNING
    <2>4. CASE removeEntity(c, e)
        BY <1>1, <2>4 DEF removeEntity, Destroy, CalmOK, Held, Started, current, IInv, TypeOK
    <2>5. CASE getEntity(c, e)
        BY <1>1, <2>5 DEF getEntity, CalmOK, Held, Started, current
    <2>6. CASE release(c, e)
        BY <1>1, <2>6 DEF release, Destroy, CalmOK, Held, Started, current, IInv, TypeOK
    <2> QED
        BY <2>1, <2>2, <2>3, <2>4, <2>5, <2>6
<1> QED
    BY <1>1, <1>2 DEF CalmOK, InCallback

LEMMA CalmStartNext ==
    ASSUME IInv, StartedBefore, LaunchOK, CalmOK, NEW c \in Lifecycle, startNext(c)
    PROVE  CalmOK'
<1> USE EngineAssumption, WorkerIsNoClient
<1> DEFINE e == First(todo[c])
<1>1. c \in Clients /\ c \in Threads /\ worker \in Threads /\ todo[c] \in SUBSET Entities
    BY DEF IInv, TypeOK, Clients, Threads
<1>2. e \in todo[c] /\ e \in entities \cap Enabled
    BY <1>1, FirstIsThere DEF startNext, CalmOK, IInv, Places, StartingOK
<1>3. pc[worker] = "exited"
    BY DEF startNext, LaunchOK, IInv, Places, HandleOK
<1>4. e \in Failing \/ state[e] # INIT
    BY <1>2, <1>3 DEF CalmOK, Held, Started
<1>5. /\ pc' = [pc EXCEPT ![c] = "starting"]
      /\ todo' = [todo EXCEPT ![c] = @ \ {e}]
      /\ UNCHANGED <<state, entities, snapshot, handles>>
    BY <1>4 DEF startNext, startEntity, Goto
<1>6. \A f \in Enabled : Held(f)' => Started(f)'
    BY <1>3, <1>5, CalmKept
<1>7. \A d \in Clients : ~InCallback(d)' /\ (pc'[d] = "starting" => todo'[d] \subseteq Enabled)
    BY <1>1, <1>5 DEF CalmOK, InCallback, IInv, TypeOK, Places, PcOK, startNext
<1> QED
    BY <1>6, <1>7 DEF CalmOK

LEMMA CalmClient ==
    ASSUME IInv, CalmOK, NEW c \in Lifecycle,
           \/ startLock(c) \/ startRunning(c) \/ startWorker(c)
           \/ stopLock(c) \/ stopJoin(c) \/ stopEntities(c)
    PROVE  CalmOK'
<1> USE EngineAssumption, WorkerIsNoClient
<1>1. c \in Clients /\ c \in Threads /\ worker \in Threads /\ c # worker
    BY DEF Clients, Threads
<1>2. UNCHANGED <<state, entities, snapshot, handles>> /\ todo'[worker] = todo[worker]
    BY <1>1 DEF startLock, startRunning, startWorker, stopLock, stopJoin, stopEntities, IInv, TypeOK
<1>3. pc'[worker] = pc[worker] \/ pc[worker] # "restart"
    BY <1>1 DEF startLock, startRunning, startWorker, stopLock, stopJoin, stopEntities, Goto,
                IInv, TypeOK, Places, PcOK, HandleOK
<1>4. \A e \in Enabled : Held(e)' => Started(e)'
    BY <1>2, <1>3, CalmKept
<1>5. \A d \in Clients : ~InCallback(d)'
    BY <1>1 DEF startLock, startRunning, startWorker, stopLock, stopJoin, stopEntities, Goto,
                InCallback, CalmOK, IInv, Places, PcOK, Threads
<1>6. \A d \in Clients : pc'[d] = "starting" => todo'[d] \subseteq Enabled
    <2>1. CASE startLock(c)
        BY <1>1, <2>1 DEF startLock, Goto, CalmOK, IInv, TypeOK, Places, PcOK, Threads
    <2>2. CASE ~startLock(c)
        <3>1. todo' = todo
            BY <2>2 DEF startRunning, startWorker, stopLock, stopJoin, stopEntities
        <3>2. \A d \in Clients : pc'[d] = "starting" => pc[d] = "starting"
            BY <1>1, <2>2 DEF startRunning, startWorker, stopLock, stopJoin, stopEntities, Goto,
                              IInv, Places, PcOK, Threads
        <3> QED
            BY <3>1, <3>2 DEF CalmOK
    <2> QED
        BY <2>1, <2>2
<1> QED
    BY <1>4, <1>5, <1>6 DEF CalmOK

\* A step of the worker that changes nothing of a client.
LEMMA CalmClients ==
    ASSUME CalmOK, IInv, NEW l, pc' = [pc EXCEPT ![worker] = l],
           \A c \in Clients : todo'[c] = todo[c]
    PROVE  /\ \A c \in Clients : ~InCallback(c)'
           /\ \A c \in Clients : pc'[c] = "starting" => todo'[c] \subseteq Enabled
BY WorkerIsNoClient DEF CalmOK, InCallback, IInv, Places, PcOK, Threads

LEMMA CalmTick ==
    ASSUME IInv, CalmOK, tickLoopTest \/ takeSnapshot \/ tickEnd
    PROVE  CalmOK'
<1> USE EngineAssumption, WorkerIsNoClient
<1>1. \E l : pc' = [pc EXCEPT ![worker] = l]
    BY DEF tickLoopTest, takeSnapshot, tickEnd, Goto
<1>2. \A c \in Clients : todo'[c] = todo[c]
    BY DEF tickLoopTest, takeSnapshot, tickEnd, IInv, TypeOK, Threads, Clients
<1>3. \A e \in Entities : Held(e)' => Held(e) /\ state'[e] = state[e]
    BY DEF tickLoopTest, takeSnapshot, tickEnd, Destroy, Held, IInv, TypeOK
<1>4. pc[worker] # "restart"
    BY DEF tickLoopTest, takeSnapshot, tickEnd
<1>5. \A e \in Enabled : Held(e)' => Started(e)'
    BY <1>3, <1>4 DEF CalmOK, Held, Started
<1> QED
    BY <1>1, <1>2, <1>5, CalmClients DEF CalmOK

LEMMA CalmMoves ==
    ASSUME IInv, CalmOK, NEW s \in States, checkMoves(s)
    PROVE  CalmOK'
<1> USE EngineAssumption, WorkerIsNoClient
<1>1. current \in Entities
    BY FirstIsThere DEF IInv, TypeOK, checkMoves, current, Threads
<1>2. state[current] \in SeStates
    BY <1>1 DEF IInv, TypeOK
<1>3. s # INIT
    BY <1>2, NeverBackToInit DEF checkMoves
<1>4. /\ state' = [state EXCEPT ![current] = s]
      /\ pc' = [pc EXCEPT ![worker] = "old_global"]
      /\ UNCHANGED <<entities, snapshot, handles, todo>>
      /\ pc[worker] # "restart"
    BY DEF checkMoves, Transition, Goto
<1>5. \A e \in Enabled : Held(e)' => Started(e)'
    BY <1>1, <1>3, <1>4 DEF CalmOK, Held, Started, IInv, TypeOK
<1> QED
    BY <1>4, <1>5, CalmClients DEF CalmOK

LEMMA CalmDone ==
    ASSUME IInv, CalmOK, checkDone
    PROVE  CalmOK'
<1> USE EngineAssumption, WorkerIsNoClient
<1>1. current \in Entities /\ worker \in Threads /\ UNCHANGED <<entities, snapshot, handles>> /\ pc[worker] = "check"
    BY FirstIsThere DEF IInv, TypeOK, checkDone, current, Threads
<1>2. CASE state[current] = FATAL /\ current \in AutoRestart
    <2>1. /\ state' = [state EXCEPT ![current] = INIT]
          /\ pc' = [pc EXCEPT ![worker] = "restart"]
          /\ todo' = todo
        BY <1>2 DEF checkDone, Goto
    <2>2. pc'[worker] = "restart" /\ current' = current
        BY <1>1, <2>1 DEF IInv, Places, PcOK, current
    <2>3. \A e \in Enabled : Held(e)' => Started(e)'
        BY <1>1, <2>1, <2>2 DEF CalmOK, Held, Started, IInv, TypeOK
    <2> QED
        BY <2>1, <2>3, CalmClients DEF CalmOK
<1>3. CASE ~(state[current] = FATAL /\ current \in AutoRestart)
    <2>1. UNCHANGED <<state, pc>> /\ \A c \in Clients : todo'[c] = todo[c]
        BY <1>3 DEF checkDone, IInv, TypeOK, Threads, Clients
    <2>2. \A e \in Enabled : Held(e)' => Started(e)'
        BY <1>1, <2>1 DEF CalmOK, Held, Started
    <2> QED
        BY <2>1, <2>2 DEF CalmOK, InCallback
<1> QED
    BY <1>2, <1>3

LEMMA CalmRestart ==
    ASSUME IInv, CalmOK, restartEntity
    PROVE  CalmOK'
<1> USE EngineAssumption, WorkerIsNoClient
<1>1. current \in Entities /\ worker \in Threads /\ UNCHANGED <<entities, snapshot, handles>> /\ pc[worker] = "restart"
    BY FirstIsThere DEF IInv, TypeOK, SnapshotOK, restartEntity, current, Threads
<1>2. \A c \in Clients : todo'[c] = todo[c]
    BY DEF restartEntity, IInv, TypeOK, Threads, Clients
<1>3. \E l : pc' = [pc EXCEPT ![worker] = l]
    BY DEF restartEntity, startEntity, Transition, Goto
<1>4. /\ current \in Failing \/ state'[current] # INIT
      /\ \A e \in Entities \ {current} : state'[e] = state[e]
    BY <1>1 DEF restartEntity, startEntity, Transition, IInv, TypeOK, INIT, RUNNING
<1>5. \A e \in Enabled : Held(e)' => Started(e)'
    BY <1>1, <1>4 DEF CalmOK, Held, Started
<1> QED
    BY <1>2, <1>3, <1>5, CalmClients DEF CalmOK

\* Only the worker is ever in a callback, and it goes back to its checks.
LEMMA CalmCallback ==
    ASSUME IInv, CalmOK, NEW t \in Threads, Callback(t)
    PROVE  CalmOK'
<1> USE EngineAssumption, WorkerIsNoClient
<1>1. t = worker /\ pc[worker] # "restart"
    BY DEF Callback, oldGlobal, newGlobal, CalmOK, InCallback, Threads
<1>2. UNCHANGED <<state, entities, snapshot, handles, todo>> /\ \E l : pc' = [pc EXCEPT ![worker] = l]
    BY <1>1 DEF Callback, oldGlobal, newGlobal, Goto
<1>3. \A e \in Enabled : Held(e)' => Started(e)'
    BY <1>1, <1>2, CalmKept
<1> QED
    BY <1>2, <1>3, CalmClients DEF CalmOK

LEMMA CalmStep ==
    ASSUME IInv, StartedBefore, LaunchOK, CalmOK, [Next]_vars
    PROVE  CalmOK'
<1>1. CASE \E c \in Registrars : MapStep(c)
    BY <1>1, CalmMap
<1>2. CASE \E c \in Lifecycle : BeginCall(c) \/ InsideCall(c)
    BY <1>2, CalmStartNext, CalmClient DEF BeginCall, InsideCall
<1>3. CASE WorkerStep
    BY <1>3, CalmTick, CalmRestart DEF WorkerStep
<1>4. CASE CheckFinds \/ CheckEnds
    BY <1>4, CalmMoves, CalmDone DEF CheckFinds, CheckEnds
<1>5. CASE \E t \in Threads : Callback(t)
    BY <1>5, CalmCallback
<1>6. CASE UNCHANGED vars
    BY <1>6 DEF vars, CalmOK, InCallback, Held, Started, current
<1> QED
    BY <1>1, <1>2, <1>3, <1>4, <1>5, <1>6 DEF Next

-----------------------------------------------------------------------------
(* The theorems *)

(***************************************************************************)
(* Types of every reachable state: in particular the worker of tickLoop()  *)
(* visits only objects that its snapshot keeps alive.                      *)
(***************************************************************************)
THEOREM TypesHold == Spec => []TypeOK
<1>1. IInv => TypeOK
    BY DEF IInv
<1> QED
    BY Invariance, <1>1, PTL

(***************************************************************************)
(* A stopped engine is quiet: outside start() and stop() an engine that    *)
(* does not run has no worker and keeps nothing alive.                     *)
(***************************************************************************)
THEOREM StoppedStaysQuiet == Spec => []StoppedMeansQuiet
<1>1. IInv => StoppedMeansQuiet
    BY DEF IInv, Places, HandleOK, SnapshotOK, Ticking, StoppedMeansQuiet
<1> QED
    BY Invariance, <1>1, PTL

(***************************************************************************)
(* removeEntity() against the auto-restart of tickLoop(): of what is not   *)
(* in the map only what was restarted after its removal is monitored, and  *)
(* only while the tick that had it in its snapshot or a client holds it.   *)
(***************************************************************************)
THEOREM RemovedRunsOnlyByRestart == Spec => []RemovedRunsByRestart
<1>1. IInv => RemovedRunsByRestart
    BY DEF IInv, RemovedOK, SnapshotOK, Ticking, RemovedRunsByRestart
<1> QED
    BY Invariance, <1>1, PTL

(***************************************************************************)
(* However many threads start and stop the engine, the process is          *)
(* terminated only by a start() that another thread's stop() has not       *)
(* joined the worker for yet.                                              *)
(***************************************************************************)
THEOREM OnlyAStopCanTerminate == Spec => []OnlyAStopTerminates
BY JoinsKept, PTL

\* The entities stay calm: a mutex that start() holds is never wanted again by its thread.
LEMMA StaysCalm ==
    ASSUME OneLifecycle, StartedBefore
    PROVE  Spec => []CalmOK
<1>1. Init => CalmOK
    BY DEF Init, CalmOK, InCallback, Threads, Clients, Held
<1>2. IInv /\ LaunchOK /\ CalmOK /\ [Next]_vars => CalmOK'
    BY StartedBefore, CalmStep
<1> QED
    BY OneLifecycle, Invariance, OneOwnerLaunches, <1>1, <1>2, PTL DEF Spec

(***************************************************************************)
(* If moreover every enabled entity has been started by its owner (or does *)
(* not start at all) before it is registered, start() finds no transition  *)
(* to make under the mutex, and no thread waits for a mutex it holds.      *)
(***************************************************************************)
THEOREM StartedBeforeNeverBlocks ==
    ASSUME OneLifecycle, StartedBefore
    PROVE  Spec => []NoSelfDeadlock
<1>1. IInv /\ CalmOK => NoSelfDeadlock
    BY DEF IInv, Places, MutexOK, CalmOK, InCallback, NoSelfDeadlock, Locking, Threads
<1> QED
    BY OneLifecycle, StartedBefore, Invariance, StaysCalm, <1>1, PTL

(***************************************************************************)
(* Under the same conditions no threads wait in a circle, however many     *)
(* change the map: stop() waits for the worker, the worker for the mutex,  *)
(* and its holder, a start(), for nobody.                                  *)
(***************************************************************************)
THEOREM WaitsEnd ==
    ASSUME OneLifecycle, StartedBefore
    PROVE  Spec => []NoCircularWait
<1>1. ASSUME IInv, CalmOK PROVE NoCircularWait
    <2> USE EngineAssumption, WorkerIsNoClient
    <2>1. \A u \in Threads : mutex = u => pc[u] \in {"starting", "launching"}
        BY <1>1 DEF IInv, Places, MutexOK, CalmOK, Threads
    <2>2. \A u \in Threads : mutex = u => WaitsFor(u) = {}
        BY <2>1 DEF WaitsFor, Locking
    <2>3. \A v \in WaitsFor(worker) : mutex = v
        BY <1>1 DEF WaitsFor, IInv, TypeOK, WorkerLabels
    <2>4. \A t \in Threads : \A u \in WaitsFor(t) : u \in Threads /\ (mutex = u \/ u = worker)
        BY DEF WaitsFor
    <2>5. \A v \in WaitsFor(worker) : v \in Threads
        BY DEF WaitsFor
    <2> QED
        BY <2>2, <2>3, <2>4, <2>5 DEF NoCircularWait
<1> QED
    BY OneLifecycle, StartedBefore, Invariance, StaysCalm, <1>1, PTL

-----------------------------------------------------------------------------
(* Ticks end *)

(***************************************************************************)
(* Only the one owner is ever inside start() or stop(); while it starts or *)
(* joins, running_ is false, and while running_ is true there is a worker  *)
(* or the owner is about to create it.                                     *)
(***************************************************************************)
OwnerOK ==
    /\ \A c \in Clients \ Lifecycle : pc[c] = "idle"
    /\ \A c \in Lifecycle : pc[c] \in {"starting", "joining"} => ~running
    /\ running => pc[worker] # "exited" \/ \E c \in Lifecycle : pc[c] = "launching"
    /\ running => Lifecycle # {}

LEMMA OwnerStep ==
    ASSUME IInv, OneLifecycle, CalmOK, OwnerOK, NeverTerminates, NeverTerminates', [Next]_vars
    PROVE  OwnerOK'
<1> USE EngineAssumption, WorkerIsNoClient
<1> USE DEF IInv, Places, PcOK, OwnerOK, NeverTerminates, Threads, Clients
<1>1. CASE \E c \in Registrars : MapStep(c)
    BY <1>1 DEF MapStep, addSupervisedEntity, registerEntity, removeEntity, getEntity, release
<1>2. ASSUME NEW c \in Lifecycle, BeginCall(c) \/ InsideCall(c)
      PROVE  OwnerOK'
    <2>1. CASE startLock(c)
        BY <2>1 DEF startLock, OneLifecycle, Goto
    <2>2. CASE stopLock(c)
        BY <2>2 DEF stopLock, OneLifecycle, Goto
    <2>3. CASE stopJoin(c)
        BY <2>3 DEF stopJoin, OneLifecycle, Goto
    <2>4. CASE stopEntities(c)
        BY <2>4 DEF stopEntities, OneLifecycle, Goto
    <2>5. CASE startNext(c)
        BY <2>5 DEF startNext, startEntity, Transition, OneLifecycle, Goto
    <2>6. CASE startRunning(c)
        BY <2>6 DEF startRunning, OneLifecycle, Goto
    <2>7. CASE startWorker(c)
        BY <2>7 DEF startWorker, OneLifecycle, TypeOK
    <2> QED
        BY <1>2, <2>1, <2>2, <2>3, <2>4, <2>5, <2>6, <2>7 DEF BeginCall, InsideCall
<1>3. CASE WorkerStep \/ CheckFinds \/ CheckEnds
    BY <1>3 DEF WorkerStep, CheckFinds, CheckEnds, tickLoopTest, takeSnapshot, restartEntity,
                tickEnd, checkMoves, checkDone, startEntity, Transition, Goto
<1>4. CASE \E t \in Threads : Callback(t)
    <2>1. PICK t \in Threads : Callback(t)
        BY <1>4
    <2>2. t = worker
        BY <2>1 DEF Callback, oldGlobal, newGlobal, CalmOK, InCallback
    <2> QED
        BY <2>1, <2>2 DEF Callback, oldGlobal, newGlobal, ReturnOK, InCallback, Goto
<1>5. CASE UNCHANGED vars
    BY <1>5 DEF vars
<1> QED
    BY <1>1, <1>2, <1>3, <1>4, <1>5 DEF Next

\* All that is known of an engine with one owner and entities started before.
Owned == IInv /\ LaunchOK /\ NeverTerminates /\ CalmOK /\ OwnerOK

LEMMA StaysOwned ==
    ASSUME OneLifecycle, StartedBefore
    PROVE  Spec => []Owned
<1>1. Init => OwnerOK
    BY WorkerIsNoClient DEF Init, OwnerOK, Threads, Clients
<1>2. /\ IInv /\ CalmOK /\ OwnerOK /\ NeverTerminates /\ NeverTerminates' /\ [Next]_vars
      => OwnerOK'
    BY OneLifecycle, OwnerStep
<1> QED
    BY OneLifecycle, StartedBefore, Invariance, OneOwnerLaunches, StaysCalm, <1>1, <1>2, PTL
       DEF Spec, Owned

\* Nobody holds the mutex while there is a worker or a stop() under way.
LEMMA WorkerFindsMutexFree ==
    ASSUME Owned, \/ pc[worker] # "exited"
                  \/ \E c \in Lifecycle : pc[c] \in {"joining", "stopping"},
           OneLifecycle
    PROVE  mutex = free
<1> USE EngineAssumption, WorkerIsNoClient
<1>1. ASSUME mutex # free PROVE FALSE
    <2>1. mutex \in Clients /\ pc[mutex] \in {"starting", "launching"}
        BY <1>1 DEF Owned, IInv, TypeOK, Places, MutexOK, CalmOK, Threads
    <2>2. mutex \in Lifecycle
        BY <2>1 DEF Owned, OwnerOK
    <2>3. ~joinable
        BY <2>1, <2>2 DEF Owned, LaunchOK
    <2>4. pc[worker] = "exited"
        BY <2>3 DEF Owned, IInv, Places, HandleOK
    <2>5. \A c \in Lifecycle : c = mutex
        BY <2>2, OneLifecycle DEF OneLifecycle
    <2> QED
        BY <2>1, <2>4, <2>5
<1> QED
    BY <1>1

-----------------------------------------------------------------------------
(* The places of the worker, and what is left of its tick *)

At(l)   == pc[worker] = l
Some    == todo[worker] # {}
Has(e)  == e \in todo[worker]
Drop    == todo'[worker] # todo[worker]

LEMMA TickingIsThere ==
    /\ Ticking <=> At("check") \/ At("restart") \/ At("old_global") \/ At("new_global")
    /\ At("exited") => ~Ticking
BY DEF Ticking, At

\* Steps of the threads other than the worker, and steps that change nothing.
LEMMA OthersLeaveTheTick ==
    ASSUME OneLifecycle, Owned, ~At("exited"),
           \/ \E c \in Registrars : MapStep(c)
           \/ \E c \in Lifecycle : BeginCall(c) \/ InsideCall(c)
           \/ \E t \in Threads \ {worker} : Callback(t)
           \/ UNCHANGED vars
    PROVE  UNCHANGED <<pc[worker], todo[worker], snapshot>>
<1> USE EngineAssumption, WorkerIsNoClient
<1> USE DEF Owned, IInv, Places, PcOK, TypeOK, Threads, Clients, At
<1>1. CASE \E c \in Registrars : MapStep(c)
    BY <1>1 DEF MapStep, addSupervisedEntity, registerEntity, removeEntity, getEntity, release
<1>2. ASSUME NEW c \in Lifecycle, BeginCall(c) \/ InsideCall(c)
      PROVE  UNCHANGED <<pc[worker], todo[worker], snapshot>>
    <2>1. CASE BeginCall(c)
        BY <2>1 DEF BeginCall, startLock, stopLock, Goto
    <2>2. CASE startNext(c) \/ startRunning(c) \/ stopJoin(c) \/ stopEntities(c)
        BY <2>2 DEF startNext, startRunning, stopJoin, stopEntities, startEntity, Transition, Goto
    <2>3. CASE startWorker(c)
        BY <2>3 DEF startWorker, LaunchOK, HandleOK
    <2> QED
        BY <1>2, <2>1, <2>2, <2>3 DEF InsideCall
<1>3. CASE \E t \in Threads \ {worker} : Callback(t)
    BY <1>3 DEF Callback, oldGlobal, newGlobal, Goto
<1>4. CASE UNCHANGED vars
    BY <1>4 DEF vars
<1> QED
    BY <1>1, <1>2, <1>3, <1>4

\* What the worker's steps do to its place and to what is left of its tick.
LEMMA WorkerSteps ==
    ASSUME OneLifecycle, Owned, [Next]_vars, ~At("exited")
    PROVE  \/ UNCHANGED <<pc[worker], todo[worker], snapshot>> /\ ~WorkerStep /\ ~CheckEnds
              /\ ~Callback(worker)
           \/ At("loop") /\ pc'[worker] = (IF running THEN "snapshot" ELSE "exited")
              /\ UNCHANGED <<todo[worker], snapshot>>
           \/ At("snapshot") /\ At("check")' /\ todo'[worker] = entities /\ snapshot' = entities
           \/ At("restart") /\ pc'[worker] \in {"check", "old_global"}
              /\ todo'[worker] = todo[worker] \ {current} /\ current \in todo[worker]
              /\ UNCHANGED snapshot
           \/ At("check") /\ At("loop")' /\ ~Some /\ snapshot' = {} /\ UNCHANGED todo[worker]
           \/ At("check") /\ Some /\ ~CheckEnds /\ At("old_global")'
              /\ UNCHANGED <<todo[worker], snapshot>>
           \/ At("check") /\ Some /\ At("restart")' /\ UNCHANGED <<todo[worker], snapshot>>
           \/ At("check") /\ Some /\ At("check")' /\ todo'[worker] = todo[worker] \ {current}
              /\ current \in todo[worker] /\ UNCHANGED snapshot
           \/ At("old_global") /\ At("new_global")' /\ UNCHANGED <<todo[worker], snapshot>>
           \/ At("new_global") /\ At("check")' /\ UNCHANGED <<todo[worker], snapshot>>
<1> USE EngineAssumption, WorkerIsNoClient
<1>0. worker \in Threads /\ todo[worker] \in SUBSET Entities /\ todo \in [Threads -> SUBSET Entities]
      /\ pc \in [Threads -> WorkerLabels \cup ClientLabels]
    BY DEF Owned, IInv, TypeOK, Threads, Places, PcOK
<1>1. Some => current \in todo[worker]
    BY <1>0, FirstIsThere DEF Some, current
<1>2. CASE tickLoopTest
    BY <1>0, <1>2 DEF tickLoopTest, At, Goto
<1>3. CASE takeSnapshot
    BY <1>0, <1>3 DEF takeSnapshot, At, Goto
<1>4. CASE restartEntity
    BY <1>0, <1>1, <1>4 DEF restartEntity, startEntity, Transition, At, Some, Goto, Owned, IInv,
                            SnapshotOK
<1>5. CASE tickEnd
    BY <1>0, <1>5 DEF tickEnd, At, Some, Goto
<1>6. CASE CheckFinds
    BY <1>0, <1>6 DEF CheckFinds, checkMoves, Transition, At, Some, Goto, CheckEnds, checkDone
<1>7. CASE CheckEnds
    BY <1>0, <1>1, <1>7 DEF CheckEnds, checkDone, At, Some, Goto
<1>8. CASE Callback(worker)
    BY <1>0, <1>8 DEF Callback, oldGlobal, newGlobal, At, Goto, Owned, IInv, Places, ReturnOK,
                      InCallback
<1>9. CASE /\ ~WorkerStep /\ ~CheckFinds /\ ~CheckEnds /\ ~Callback(worker)
    BY <1>9, OthersLeaveTheTick DEF Next
<1> QED
    BY <1>2, <1>3, <1>4, <1>5, <1>6, <1>7, <1>8, <1>9 DEF WorkerStep

\* The worker waits for nobody while it is in a tick.
LEMMA TickCanGoOn ==
    ASSUME OneLifecycle, Owned, OnlyWaitersWait
    PROVE  /\ At("old_global") \/ At("new_global") => ENABLED <<Callback(worker)>>_vars
           /\ At("loop") \/ At("snapshot") \/ At("restart") => ENABLED <<WorkerStep>>_vars
           /\ At("check") /\ ~Some => ENABLED <<WorkerStep>>_vars
           /\ At("check") /\ Some => ENABLED <<CheckEnds>>_vars
<1> USE EngineAssumption, WorkerIsNoClient
<1>1. ~At("exited") => mutex = free
    BY OneLifecycle, WorkerFindsMutexFree DEF At
<1>2. ~At("exited") => WaitsFor(worker) = {}
    BY <1>1 DEF WaitsFor, At, Threads, Owned, IInv, TypeOK, WorkerLabels
<1>3. worker \in Threads /\ ~terminated
    BY DEF Threads, Owned, NeverTerminates
<1>4. WaitsFor(worker) = {} /\ pc[worker] \in {"old_global", "new_global"}
      => ENABLED <<Callback(worker)>>_vars
    <2>1. CallbackGoesOn(worker)
        BY <1>3 DEF OnlyWaitersWait
    <2> QED
        BY <2>1 DEF CallbackGoesOn
<1>5. TickGoesOn
    BY <1>3 DEF OnlyWaitersWait
<1> QED
    BY <1>2, <1>4, <1>5 DEF At, Some, TickGoesOn

(***************************************************************************)
(* A tick that went on for ever would drop entities from its list for      *)
(* ever: with none left it ends, and with one left checkAll() returns, or  *)
(* the entity is restarted, and the worker goes on to the next one.        *)
(***************************************************************************)
LEMMA EndlessTickDrops ==
    ASSUME OneLifecycle
    PROVE  /\ []Owned /\ []OnlyWaitersWait /\ [][Next]_vars
           /\ WF_vars(Callback(worker)) /\ WF_vars(WorkerStep) /\ SF_vars(CheckEnds)
           => (<>[]Ticking => []<><<Drop>>_vars)
<1>1. Owned /\ OnlyWaitersWait =>
           /\ At("old_global") \/ At("new_global") => ENABLED <<Callback(worker)>>_vars
           /\ At("restart") => ENABLED <<WorkerStep>>_vars
           /\ At("check") /\ ~Some => ENABLED <<WorkerStep>>_vars
           /\ At("check") /\ Some => ENABLED <<CheckEnds>>_vars
    BY OneLifecycle, TickCanGoOn
<1>2. Owned /\ [Next]_vars /\ Ticking /\ Ticking' =>
           /\ At("old_global") => At("new_global")' \/ (At("old_global")' /\ ~<<Callback(worker)>>_vars)
           /\ At("new_global") => At("check")' \/ (At("new_global")' /\ ~<<Callback(worker)>>_vars)
           /\ At("restart") => <<Drop>>_vars \/ (At("restart")' /\ ~<<WorkerStep>>_vars)
           /\ <<CheckEnds>>_vars => <<Drop>>_vars \/ At("restart")'
           /\ At("check") /\ ~Some => At("check")' /\ ~<<WorkerStep>>_vars
           /\ At("restart") => Some
           /\ ~Some => ~Some'
    <2> SUFFICES ASSUME Owned, [Next]_vars, Ticking, Ticking'
                 PROVE
           /\ At("old_global") => At("new_global")' \/ (At("old_global")' /\ ~<<Callback(worker)>>_vars)
           /\ At("new_global") => At("check")' \/ (At("new_global")' /\ ~<<Callback(worker)>>_vars)
           /\ At("restart") => <<Drop>>_vars \/ (At("restart")' /\ ~<<WorkerStep>>_vars)
           /\ <<CheckEnds>>_vars => <<Drop>>_vars \/ At("restart")'
           /\ At("check") /\ ~Some => At("check")' /\ ~<<WorkerStep>>_vars
           /\ At("restart") => Some
           /\ ~Some => ~Some'
        OBVIOUS
    <2>1. ~At("exited") /\ ~At("loop") /\ ~At("loop")' /\ ~At("snapshot")
        BY DEF At, Ticking
    <2>2. Drop => <<Drop>>_vars
        BY DEF Drop, vars
    <2>3. At("restart") => Some
        BY DEF At, Some, Owned, IInv, SnapshotOK
    <2>4. CheckEnds => At("check") /\ Some
        BY DEF CheckEnds, checkDone, At, Some
    <2> QED
        BY OneLifecycle, <2>1, <2>2, <2>3, <2>4, WorkerSteps DEF At, Some, Drop
<1>3. Ticking <=> At("check") \/ At("restart") \/ At("old_global") \/ At("new_global")
    BY TickingIsThere
<1> QED
    BY <1>1, <1>2, <1>3, PTL

-----------------------------------------------------------------------------
(* A finite list cannot shrink for ever *)

(***************************************************************************)
(* A tick that went on for ever would change its list for the last time at *)
(* some point: the list is a set of entities that only shrinks.            *)
(***************************************************************************)
Keeps(S)    == todo'[worker] \cap S = todo[worker] \cap S
Settles(S)  == <>[]Ticking => <>[][Keeps(S)]_vars
TicksSettle == <>[]Ticking => <>[][~Drop]_vars

LEMMA NothingSettles == Settles({})
<1>1. Keeps({})
    BY DEF Keeps
<1> QED
    BY <1>1, PTL DEF Settles

\* The induction step: what was dropped stays dropped.
LEMMA OneMoreSettles ==
    ASSUME OneLifecycle, NEW S, NEW e
    PROVE  []Owned /\ [][Next]_vars /\ Settles(S) => Settles(S \cup {e})
<1>1. Owned /\ [Next]_vars /\ Ticking /\ Ticking' /\ ~Has(e) => ~Has(e)'
    <2> SUFFICES ASSUME Owned, [Next]_vars, Ticking, Ticking', ~Has(e)
                 PROVE  ~Has(e)'
        OBVIOUS
    <2>1. ~At("exited") /\ ~At("snapshot")
        BY DEF At, Ticking
    <2> QED
        BY OneLifecycle, <2>1, WorkerSteps DEF Has
<1>2. []Owned /\ [][Next]_vars /\ <>[]Ticking => <>[]Has(e) \/ <>[]~Has(e)
    BY <1>1, PTL
<1> DEFINE Former == Keeps(S)
           Latter == Keeps(S \cup {e})
<1>3. /\ Has(e) /\ Has(e)' /\ Former => Latter
      /\ ~Has(e) /\ ~Has(e)' /\ Former => Latter
    BY DEF Has, Keeps
<1> HIDE DEF Former, Latter
<1>4. []Has(e) /\ [][Former]_vars => [][Latter]_vars
    BY <1>3, PTL
<1>5. []~Has(e) /\ [][Former]_vars => [][Latter]_vars
    BY <1>3, PTL
<1>6. []Owned /\ [][Next]_vars
      => ((<>[]Ticking => <>[][Former]_vars) => (<>[]Ticking => <>[][Latter]_vars))
    BY <1>2, <1>4, <1>5, PTL
<1> QED
    BY <1>6 DEF Settles, Former, Latter

\* Once every entity has settled the list has.
LEMMA AllSettle ==
    ASSUME NEW S, Entities \subseteq S
    PROVE  []Owned /\ Settles(S) => TicksSettle
<1> DEFINE KeepsAll == Keeps(S)
<1>1. Owned /\ Owned' /\ KeepsAll => ~Drop
    <2> SUFFICES ASSUME Owned, Owned', KeepsAll
                 PROVE  todo'[worker] = todo[worker]
        BY DEF Drop
    <2>1. todo[worker] \subseteq S /\ todo'[worker] \subseteq S
        BY DEF Owned, IInv, TypeOK, Threads
    <2> QED
        BY <2>1 DEF Keeps
<1> HIDE DEF KeepsAll
<1>2. []Owned => ((<>[]Ticking => <>[][KeepsAll]_vars) => (<>[]Ticking => <>[][~Drop]_vars))
    BY <1>1, PTL
<1> QED
    BY <1>2 DEF Settles, TicksSettle, KeepsAll

(***************************************************************************)
(* TicksSettle for the engine of up to six entities, whatever their names, *)
(* whatever is removed and added meanwhile and whatever the checks find.   *)
(***************************************************************************)
THEOREM SmallTicksSettle ==
    ASSUME OneLifecycle, StartedBefore,
           NEW a, NEW b, NEW c, NEW d, NEW e, NEW f, Entities \subseteq {a, b, c, d, e, f}
    PROVE  Spec => TicksSettle
<1> DEFINE S1 == {} \cup {a}
           S2 == S1 \cup {b}
           S3 == S2 \cup {c}
           S4 == S3 \cup {d}
           S5 == S4 \cup {e}
           S6 == S5 \cup {f}
           Known == []Owned /\ [][Next]_vars
<1>1. Known /\ Settles({}) => Settles(S1)
    BY OneLifecycle, OneMoreSettles
<1>2. Known /\ Settles(S1) => Settles(S2)
    BY OneLifecycle, OneMoreSettles
<1>3. Known /\ Settles(S2) => Settles(S3)
    BY OneLifecycle, OneMoreSettles
<1>4. Known /\ Settles(S3) => Settles(S4)
    BY OneLifecycle, OneMoreSettles
<1>5. Known /\ Settles(S4) => Settles(S5)
    BY OneLifecycle, OneMoreSettles
<1>6. Known /\ Settles(S5) => Settles(S6)
    BY OneLifecycle, OneMoreSettles
<1>7. []Owned /\ Settles(S6) => TicksSettle
    BY AllSettle
<1>8. Spec => Known
    BY OneLifecycle, StartedBefore, StaysOwned, PTL DEF Spec
<1> HIDE DEF S1, S2, S3, S4, S5, S6
<1> QED
    BY <1>1, <1>2, <1>3, <1>4, <1>5, <1>6, <1>7, <1>8, NothingSettles

\* No tick goes on for ever.
LEMMA TicksEnd ==
    ASSUME OneLifecycle, StartedBefore
    PROVE  FairSpec /\ []OnlyWaitersWait /\ TicksSettle => []<>~Ticking
<1>1. (\A t \in Threads : FairCallback(t)) => FairCallback(worker)
    BY DEF Threads
<1>2. FairSpec => /\ []Owned /\ [][Next]_vars
                  /\ WF_vars(Callback(worker)) /\ WF_vars(WorkerStep) /\ SF_vars(CheckEnds)
    BY <1>1, OneLifecycle, StartedBefore, StaysOwned, PTL
       DEF FairSpec, Fairness, FairCallback, Spec
<1> QED
    BY <1>2, OneLifecycle, EndlessTickDrops, PTL DEF TicksSettle

-----------------------------------------------------------------------------
(* stop() returns *)

Joining(c)  == pc[c] = "joining"
Stopping(c) == pc[c] = "stopping"
Idle(c)     == pc[c] = "idle"

\* The owner inside stop(): it leaves its places only by its own steps.
LEMMA StopSteps ==
    ASSUME OneLifecycle, Owned, [Next]_vars, NEW c \in Lifecycle
    PROVE  /\ Joining(c) => \/ Joining(c)' /\ ~InsideCall(c)
                            \/ Stopping(c)'
           /\ Stopping(c) => \/ Stopping(c)' /\ ~InsideCall(c)
                             \/ Idle(c)'
           /\ Joining(c) => ~running /\ (At("exited") => At("exited")')
<1> USE EngineAssumption, WorkerIsNoClient
<1> USE DEF Owned, IInv, Places, PcOK, TypeOK, Threads, Clients, At, Joining, Stopping, Idle
<1>0. \A d \in Lifecycle : d = c
    BY DEF OneLifecycle
<1>1. CASE \E d \in Registrars : MapStep(d)
    BY <1>1 DEF MapStep, addSupervisedEntity, registerEntity, removeEntity, getEntity, release, OwnerOK, InsideCall,
                startNext, startRunning, startWorker, stopJoin, stopEntities, Goto
<1>2. CASE BeginCall(c) \/ InsideCall(c)
    BY <1>2 DEF BeginCall, InsideCall, startLock, stopLock, startNext, startRunning, startWorker,
                stopJoin, stopEntities, startEntity, Transition, OwnerOK, Goto
<1>3. CASE WorkerStep \/ CheckFinds \/ CheckEnds \/ Callback(worker)
    BY <1>3 DEF WorkerStep, CheckFinds, CheckEnds, Callback, tickLoopTest, takeSnapshot,
                restartEntity, tickEnd, checkMoves, checkDone, oldGlobal, newGlobal, startEntity,
                Transition, InsideCall, startNext, startRunning, startWorker, stopJoin,
                stopEntities, OwnerOK, Goto
<1>4. CASE UNCHANGED vars
    BY <1>4 DEF vars, OwnerOK, InsideCall, startNext, startRunning, startWorker, stopJoin,
                stopEntities, startEntity, Transition, Goto
<1>5. CASE \E t \in Clients : Callback(t)
    BY <1>5 DEF Callback, oldGlobal, newGlobal, CalmOK, InCallback
<1> QED
    BY <1>0, <1>1, <1>2, <1>3, <1>4, <1>5 DEF Next

LEMMA StopCanGoOn ==
    ASSUME OneLifecycle, Owned, OnlyWaitersWait, NEW c \in Lifecycle
    PROVE  /\ Joining(c) /\ At("exited") => ENABLED <<InsideCall(c)>>_vars
           /\ Stopping(c) => ENABLED <<InsideCall(c)>>_vars
<1> USE EngineAssumption, WorkerIsNoClient
<1>1. ~terminated /\ CallGoesOn(c)
    BY DEF Owned, NeverTerminates, OnlyWaitersWait
<1>2. Joining(c) /\ At("exited") => WaitsFor(c) = {}
    BY DEF WaitsFor, Locking, Joining, At
<1>3. Stopping(c) => WaitsFor(c) = {}
    BY OneLifecycle, WorkerFindsMutexFree DEF WaitsFor, Locking, Stopping, Threads
<1> QED
    BY <1>1, <1>2, <1>3 DEF CallGoesOn, Joining, Stopping

LEMMA FairToOwner == ASSUME NEW o \in Lifecycle PROVE FairSpec => FairCall(o)
<1>1. (\A c \in Lifecycle : FairCall(c)) => FairCall(o)
    OBVIOUS
<1> QED
    BY <1>1, PTL DEF FairSpec, Fairness

(***************************************************************************)
(* stop() returns, for any entities, whatever they are named and whatever  *)
(* the checks find, and any number of clients that change the map: the     *)
(* worker always gets the mutex, ends its tick and sees running_.          *)
(***************************************************************************)
THEOREM StopAlwaysReturns ==
    ASSUME OneLifecycle, StartedBefore
    PROVE  FairSpec /\ []OnlyWaitersWait /\ TicksSettle => StopReturns
<1> SUFFICES ASSUME NEW c \in Lifecycle
             PROVE  FairSpec /\ []OnlyWaitersWait /\ TicksSettle
                    => (pc[c] = "joining" ~> pc[c] = "idle")
    BY DEF StopReturns
<1> DEFINE Premise == /\ []Owned /\ [][Next]_vars /\ []OnlyWaitersWait /\ []<>~Ticking
                      /\ WF_vars(WorkerStep) /\ WF_vars(InsideCall(c))
<1>1. FairSpec => FairCall(c)
    BY FairToOwner
<1>2. FairSpec /\ []OnlyWaitersWait /\ TicksSettle => Premise
    BY <1>1, OneLifecycle, StartedBefore, StaysOwned, TicksEnd, PTL
       DEF FairSpec, Fairness, FairCall, Spec
<1>3. Owned /\ OnlyWaitersWait =>
           /\ At("loop") \/ At("snapshot") => ENABLED <<WorkerStep>>_vars
           /\ Joining(c) /\ At("exited") => ENABLED <<InsideCall(c)>>_vars
           /\ Stopping(c) => ENABLED <<InsideCall(c)>>_vars
    BY OneLifecycle, TickCanGoOn, StopCanGoOn
<1>4. Owned /\ [Next]_vars =>
           /\ Joining(c) => \/ Joining(c)' /\ ~<<InsideCall(c)>>_vars
                            \/ Stopping(c)'
           /\ Stopping(c) => \/ Stopping(c)' /\ ~<<InsideCall(c)>>_vars
                             \/ Idle(c)'
           /\ Joining(c) /\ At("exited") => At("exited")'
           /\ Joining(c) /\ At("loop") => (At("loop")' /\ ~<<WorkerStep>>_vars) \/ At("exited")'
           /\ At("snapshot") => (At("snapshot")' /\ ~<<WorkerStep>>_vars) \/ Ticking'
           /\ Ticking => Ticking' \/ At("loop")'
    <2> SUFFICES ASSUME Owned, [Next]_vars
                 PROVE  /\ Joining(c) /\ At("loop")
                           => (At("loop")' /\ ~WorkerStep) \/ At("exited")'
                        /\ At("snapshot") => (At("snapshot")' /\ ~WorkerStep) \/ Ticking'
                        /\ Ticking => Ticking' \/ At("loop")'
        BY OneLifecycle, StopSteps
    <2>1. Joining(c) => ~running
        BY OneLifecycle, StopSteps
    <2> QED
        BY OneLifecycle, <2>1, WorkerSteps DEF At, Ticking
<1>5. Owned => At("exited") \/ At("loop") \/ At("snapshot") \/ Ticking
    BY DEF Owned, IInv, TypeOK, WorkerLabels, At, Ticking
<1>6. Premise => [](Joining(c) => <>Stopping(c))
    BY <1>3, <1>4, <1>5, PTL
<1>7. Premise => [](Stopping(c) => <>Idle(c))
    BY <1>3, <1>4, PTL
<1> HIDE DEF Premise
<1> QED
    BY <1>2, <1>6, <1>7, PTL DEF Joining, Idle

-----------------------------------------------------------------------------
(* Every entity is checked, and what is removed is released *)

Launching(c) == pc[c] = "launching"
Checks(e)    == pc[worker] = "check" /\ todo[worker] # {} /\ current = e
Restarts(e)  == pc[worker] = "restart" /\ current = e
Kept(e)      == e \in snapshot

LEMMA LaunchingSteps ==
    ASSUME OneLifecycle, Owned, [Next]_vars, NEW c \in Lifecycle
    PROVE  /\ Launching(c) => (Launching(c)' /\ ~InsideCall(c)) \/ ~Launching(c)'
           /\ running /\ ~Launching(c) => ~Launching(c)'
           /\ running /\ At("exited") => Launching(c)
<1> USE EngineAssumption, WorkerIsNoClient
<1>0. c \in Clients /\ c \in Threads /\ pc \in [Threads -> WorkerLabels \cup ClientLabels]
      /\ \A d \in Lifecycle : d = c
    BY DEF OneLifecycle, Threads, Clients, Owned, IInv, Places, PcOK
<1>1. Launching(c) /\ InsideCall(c) => ~Launching(c)'
    BY <1>0 DEF Launching, InsideCall, startNext, startRunning, startWorker, stopJoin,
                stopEntities, Owned, LaunchOK
<1>2. ASSUME running, ~Launching(c) PROVE ~Launching(c)'
    <2>1. CASE \E d \in Registrars : MapStep(d)
        BY <1>2, <2>1 DEF MapStep, addSupervisedEntity, registerEntity, removeEntity, getEntity, release, Launching
    <2>2. CASE BeginCall(c) \/ InsideCall(c)
        <3>1. pc[c] # "starting"
            BY <1>2 DEF Owned, OwnerOK
        <3> QED
            BY <1>0, <1>2, <2>2, <3>1 DEF BeginCall, InsideCall, startLock, stopLock, startNext,
               startRunning, startWorker, stopJoin, stopEntities, Goto, Launching
    <2>3. CASE WorkerStep \/ CheckFinds \/ CheckEnds
        BY <1>0, <1>2, <2>3 DEF WorkerStep, CheckFinds, CheckEnds, tickLoopTest, takeSnapshot,
           restartEntity, tickEnd, checkMoves, checkDone, startEntity, Transition, Goto, Launching
    <2>4. CASE \E t \in Threads : Callback(t)
        <3>1. PICK t \in Threads : Callback(t)
            BY <2>4
        <3>2. t = worker
            BY <3>1 DEF Callback, oldGlobal, newGlobal, Owned, CalmOK, InCallback, Threads
        <3> QED
            BY <1>0, <1>2, <3>1, <3>2 DEF Callback, oldGlobal, newGlobal, Goto, Launching
    <2>5. CASE UNCHANGED vars
        BY <1>2, <2>5 DEF vars, Launching
    <2> QED
        BY <1>0, <2>1, <2>2, <2>3, <2>4, <2>5 DEF Next
<1>3. running /\ At("exited") => Launching(c)
    BY <1>0 DEF Owned, OwnerOK, At, Launching
<1> QED
    BY <1>1, <1>2, <1>3

LEMMA LaunchingCanGoOn ==
    ASSUME OneLifecycle, Owned, OnlyWaitersWait, NEW c \in Lifecycle
    PROVE  Launching(c) => ENABLED <<InsideCall(c)>>_vars
<1>1. ~terminated /\ CallGoesOn(c)
    BY DEF Owned, NeverTerminates, OnlyWaitersWait
<1>2. Launching(c) => WaitsFor(c) = {}
    BY DEF WaitsFor, Locking, Launching
<1> QED
    BY <1>1, <1>2 DEF CallGoesOn, Launching

\* An entity leaves the list of a tick only when the worker is at it.
LEMMA EntitySteps ==
    ASSUME OneLifecycle, Owned, [Next]_vars, ~At("exited"), NEW e \in Entities
    PROVE  /\ At("loop") /\ running => (At("loop")' /\ ~WorkerStep) \/ At("snapshot")'
           /\ At("snapshot") => \/ At("snapshot")' /\ ~WorkerStep
                                \/ Ticking' /\ ~Restarts(e)' /\ (e \in entities => Has(e)')
           /\ Ticking => \/ Ticking' /\ snapshot' = snapshot
                         \/ At("loop")' /\ ~Has(e) /\ snapshot' = {}
           /\ Ticking /\ Ticking' /\ Has(e) /\ ~Has(e)' => Checks(e) \/ Restarts(e)
           /\ Ticking /\ Restarts(e)' => Restarts(e) \/ Checks(e)
           /\ ~Ticking => snapshot' = snapshot \/ snapshot' = entities
BY OneLifecycle, WorkerSteps DEF At, Ticking, Has, Some, Checks, Restarts, current

LEMMA ExitedSteps ==
    ASSUME Owned, Owned', [Next]_vars, At("exited")
    PROVE  ~Ticking' /\ snapshot' = {}
<1> USE EngineAssumption, WorkerIsNoClient
<1>0. worker \in Threads /\ pc \in [Threads -> WorkerLabels \cup ClientLabels]
    BY DEF Threads, Owned, IInv, Places, PcOK
<1>1. ASSUME \E c \in Registrars : MapStep(c) PROVE ~Ticking'
    BY <1>1 DEF MapStep, addSupervisedEntity, registerEntity, removeEntity, getEntity, release, At, Ticking
<1>2. ASSUME NEW c \in Lifecycle, BeginCall(c) \/ InsideCall(c)
      PROVE  ~Ticking'
    BY <1>0, <1>2 DEF BeginCall, InsideCall, startLock, stopLock, startNext, startRunning,
       startWorker, stopJoin, stopEntities, startEntity, Transition, Goto, At, Ticking, Clients
<1>3. ~\E t \in Threads : Callback(t)
    BY DEF Callback, oldGlobal, newGlobal, Owned, CalmOK, InCallback, Threads, At
<1>4. ~WorkerStep /\ ~CheckFinds /\ ~CheckEnds
    BY DEF WorkerStep, CheckFinds, CheckEnds, tickLoopTest, takeSnapshot, restartEntity, tickEnd,
           checkMoves, checkDone, At
<1>5. ASSUME UNCHANGED vars PROVE ~Ticking'
    BY <1>5 DEF vars, At, Ticking
<1>6. ~Ticking'
    BY <1>1, <1>2, <1>3, <1>4, <1>5 DEF Next
<1> QED
    BY <1>6 DEF Owned, IInv, SnapshotOK

(***************************************************************************)
(* Every entity of a running engine is checked again and again, for any    *)
(* entities, whatever happens to the others: their restarts, their         *)
(* transitions and their removal do not keep the worker from it.           *)
(***************************************************************************)
THEOREM EveryEntityIsAlwaysChecked ==
    ASSUME OneLifecycle, StartedBefore
    PROVE  FairSpec /\ []OnlyWaitersWait /\ TicksSettle => EveryEntityIsChecked
<1> SUFFICES ASSUME NEW e \in Entities
             PROVE  FairSpec /\ []OnlyWaitersWait /\ TicksSettle
                    => (<>[](running /\ e \in entities)
                        => []<>(pc[worker] = "check" /\ todo[worker] # {} /\ current = e))
    BY DEF EveryEntityIsChecked
<1> DEFINE Stays == running /\ e \in entities
<1>1. CASE Lifecycle = {}
    <2>1. Owned => ~Stays
        BY <1>1 DEF Owned, OwnerOK
    <2> QED
        BY <2>1, OneLifecycle, StartedBefore, StaysOwned, PTL DEF FairSpec
<1>2. ASSUME NEW c \in Lifecycle
      PROVE  FairSpec /\ []OnlyWaitersWait /\ TicksSettle /\ <>[]Stays => []<>Checks(e)
    <2> DEFINE Premise == /\ []Owned /\ [][Next]_vars /\ []OnlyWaitersWait /\ []<>~Ticking
                          /\ WF_vars(WorkerStep) /\ WF_vars(InsideCall(c))
    <2>1. FairSpec => FairCall(c)
        BY FairToOwner
    <2>2. FairSpec /\ []OnlyWaitersWait /\ TicksSettle => Premise
        BY <2>1, OneLifecycle, StartedBefore, StaysOwned, TicksEnd, PTL
           DEF FairSpec, Fairness, FairCall, Spec
    <2>3. Owned /\ OnlyWaitersWait =>
               /\ At("loop") \/ At("snapshot") => ENABLED <<WorkerStep>>_vars
               /\ Launching(c) => ENABLED <<InsideCall(c)>>_vars
        BY OneLifecycle, TickCanGoOn, LaunchingCanGoOn
    <2>4. Owned /\ [Next]_vars /\ Stays =>
               /\ Launching(c) => (Launching(c)' /\ ~<<InsideCall(c)>>_vars) \/ ~Launching(c)'
               /\ ~Launching(c) => ~Launching(c)'
               /\ At("exited") => Launching(c)
        BY OneLifecycle, LaunchingSteps
    <2>5. Owned /\ [Next]_vars /\ Stays /\ ~At("exited") =>
               /\ At("loop") => (At("loop")' /\ ~<<WorkerStep>>_vars) \/ At("snapshot")'
               /\ At("snapshot") => \/ At("snapshot")' /\ ~<<WorkerStep>>_vars
                                    \/ Ticking' /\ ~Restarts(e)' /\ Has(e)'
               /\ Ticking => \/ Ticking'
                             \/ At("loop")' /\ ~Has(e)
               /\ Ticking /\ Ticking' /\ Has(e) /\ ~Has(e)' => Checks(e) \/ Restarts(e)
               /\ Ticking /\ Restarts(e)' => Restarts(e) \/ Checks(e)
        BY OneLifecycle, EntitySteps
    <2>6. Owned => At("exited") \/ At("loop") \/ At("snapshot") \/ Ticking
        BY DEF Owned, IInv, TypeOK, WorkerLabels, At, Ticking
    <2> HIDE DEF Stays
    <2>7. Premise /\ <>[]Stays => []<>Checks(e)
        BY <2>3, <2>4, <2>5, <2>6, PTL
    <2> HIDE DEF Premise
    <2> QED
        BY <2>2, <2>7, PTL
<1>3. CASE Lifecycle # {}
    <2>1. PICK c \in Lifecycle : TRUE
        BY <1>3
    <2>2. FairSpec /\ []OnlyWaitersWait /\ TicksSettle /\ <>[]Stays => []<>Checks(e)
        BY <1>2
    <2> QED
        BY <2>2, PTL DEF Checks
<1> QED
    BY <1>1, <1>3

(***************************************************************************)
(* What was removed and no client holds is released, whatever auto-restart *)
(* did to it while the worker still held it: its monitors stop for good.   *)
(***************************************************************************)
THEOREM RemovedIsAlwaysReleased ==
    ASSUME OneLifecycle, StartedBefore
    PROVE  FairSpec /\ []OnlyWaitersWait /\ TicksSettle => RemovedIsReleased
<1> SUFFICES ASSUME NEW e \in Entities
             PROVE  FairSpec /\ []OnlyWaitersWait /\ TicksSettle
                    => (<>[](e \notin entities \cup handles) => <>[]~monitoring[e])
    BY DEF RemovedIsReleased
<1> DEFINE Gone == e \notin entities \cup handles
           Quiet == ~monitoring[e]
<1>1. FairSpec /\ []OnlyWaitersWait /\ TicksSettle => []Owned /\ [][Next]_vars /\ []<>~Ticking
    BY OneLifecycle, StartedBefore, StaysOwned, TicksEnd, PTL DEF FairSpec, Spec
<1>2. Owned /\ Owned' /\ [Next]_vars /\ Gone => (~Kept(e) => ~Kept(e)')
    BY OneLifecycle, EntitySteps, ExitedSteps DEF Kept
<1>3. Owned => /\ Kept(e) => Ticking
               /\ Gone /\ ~Kept(e) => Quiet
    BY DEF Owned, IInv, SnapshotOK, RemovedOK, Kept
<1> HIDE DEF Gone, Quiet
<1>4. []Owned /\ [][Next]_vars /\ []<>~Ticking => (<>[]Gone => <>[]Quiet)
    BY <1>2, <1>3, PTL
<1> QED
    BY <1>1, <1>4, PTL DEF Gone, Quiet

(***************************************************************************)
(* The three together, without a premise on ticks, for an engine that sees *)
(* up to six entities in its life.                                         *)
(***************************************************************************)
THEOREM SmallEnginesGoOn ==
    ASSUME OneLifecycle, StartedBefore,
           NEW a, NEW b, NEW c, NEW d, NEW e, NEW f, Entities \subseteq {a, b, c, d, e, f}
    PROVE  FairSpec /\ []OnlyWaitersWait
           => StopReturns /\ EveryEntityIsChecked /\ RemovedIsReleased
<1>1. Spec => TicksSettle
    BY OneLifecycle, StartedBefore, SmallTicksSettle
<1>2. FairSpec /\ []OnlyWaitersWait /\ TicksSettle
      => StopReturns /\ EveryEntityIsChecked /\ RemovedIsReleased
    BY OneLifecycle, StartedBefore, StopAlwaysReturns, EveryEntityIsAlwaysChecked,
       RemovedIsAlwaysReleased
<1>3. FairSpec => Spec
    BY DEF FairSpec
<1> QED
    BY <1>1, <1>2, <1>3

=============================================================================
