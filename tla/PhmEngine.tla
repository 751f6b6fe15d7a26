------------------------------ MODULE PhmEngine ------------------------------
(***************************************************************************)
(* PhmEngine::Impl of src/src/phm_engine.cpp: the map of entities, the     *)
(* mutex, the worker thread that runs tickLoop(), and the client threads   *)
(* that call the public methods.                                           *)
(*                                                                         *)
(* getGlobalState() and getEntityNames() read the map in one critical      *)
(* section and change nothing; getStats() (line 177) locks the mutex and   *)
(* calls getGlobalState(), so nothing follows its first step.              *)
(*                                                                         *)
(* A step is what a thread does between two points where it may wait or    *)
(* where it leaves the mutex; an operation that is one critical section is *)
(* one action.  mutex_ is a std::mutex: a thread that locks it again waits *)
(* for itself.  An entity is an object (the map holds at most one of each  *)
(* name) with a state, and a flag that says whether its monitors run; what *)
(* its monitors find is the choice of a transition its table allows        *)
(* (SupervisedEntity says which of them are taken).  The map, the worker's *)
(* snapshot and the clients hold it by shared_ptr, and it lives as long as *)
(* one of them does.  Clients are taken to leave the monitors of an entity *)
(* they hold to the engine, once they have registered it.                  *)
(***************************************************************************)
EXTENDS PhmTypes, FiniteSets

CONSTANTS
    Entities,      \* SupervisedEntity objects: numbers, in the order of the map
    Name,          \* SEConfig::name of each
    Enabled,       \* those with SEConfig::enabled
    AutoRestart,   \* those with SEConfig::auto_restart
    Prestarted,    \* those their owner starts before registerEntity()
    Failing,       \* those with a monitor whose start() returns false
    Shared,        \* those that clients keep a shared_ptr of
    States,        \* bound: the entity states the worker's checks lead to
    Lifecycle,     \* the clients that call start() and stop()
    Registrars     \* the clients that add, register and remove entities

worker == "worker"
free   == "free"

Clients == Lifecycle \cup Registrars
Threads == Clients \cup {worker}

ASSUME EngineAssumption ==
    /\ Entities \subseteq Nat
    /\ IsFiniteSet(Entities)
    /\ Enabled \subseteq Entities
    /\ AutoRestart \subseteq Entities
    /\ Prestarted \subseteq Entities
    /\ Failing \subseteq Entities
    /\ Shared \subseteq Entities
    /\ {INIT, RUNNING} \subseteq States
    /\ States \subseteq SeStates
    /\ {worker, free} \cap Clients = {}

VARIABLES
    mutex,        \* the thread that holds mutex_, or free
    entities,     \* the objects in entities_
    state,        \* current_state_ of each object
    monitoring,   \* do the object's monitors run?
    running,      \* running_
    joinable,     \* worker_.joinable(): a thread was started and not joined
    terminated,   \* std::terminate() was called
    pc,           \* where each thread is
    todo,         \* the entities a thread's loop has still to visit
    snapshot,     \* the objects tickLoop's snapshot keeps alive
    handles,      \* the objects a client keeps alive
    return        \* where a thread goes on after onEntityStateChanged()

vars == <<mutex, entities, state, monitoring, running, joinable, terminated,
          pc, todo, snapshot, handles, return>>

\* No object that nobody holds exists; it may be constructed (again).
Held(e)      == e \in entities \cup snapshot \cup handles
Named(n)     == {e \in entities : Name[e] = n}
First(S)     == CHOOSE e \in S : \A d \in S : e <= d
FreeMutex    == mutex = free
Goto(t, l)   == pc' = [pc EXCEPT ![t] = l]

Init ==
    /\ mutex = free
    /\ entities = {}
    /\ state = [e \in Entities |-> INIT]
    /\ monitoring = [e \in Entities |-> FALSE]
    /\ running = FALSE
    /\ joinable = FALSE
    /\ terminated = FALSE
    /\ pc = [t \in Threads |-> IF t = worker THEN "exited" ELSE "idle"]
    /\ todo = [t \in Threads |-> {}]
    /\ snapshot = {}
    /\ handles = {}
    /\ return = [t \in Threads |-> "none"]

\* The last shared_ptr of the objects in S goes: ~SupervisedEntity() stops them.
Destroy(S) ==
    /\ state' = [e \in Entities |-> IF e \in S THEN INIT ELSE state[e]]
    /\ monitoring' = [e \in Entities |-> IF e \in S THEN FALSE ELSE monitoring[e]]

-----------------------------------------------------------------------------
(***************************************************************************)
(* onEntityStateChanged, called by the transition of an entity from        *)
(* whatever the thread t was doing: getGlobalState() is called twice, one  *)
(* critical section each.  Both calls follow the change, so the two values *)
(* differ only when another thread changes the map in between; the global  *)
(* callback is the client's code.                                          *)
(***************************************************************************)
Transition(t, e, s, next) ==
    /\ state' = [state EXCEPT ![e] = s]
    /\ Goto(t, "old_global")
    /\ return' = [return EXCEPT ![t] = next]

oldGlobal(t) ==
    /\ pc[t] = "old_global"
    /\ FreeMutex
    /\ Goto(t, "new_global")
    /\ UNCHANGED <<mutex, entities, state, monitoring, running, joinable,
                   terminated, todo, snapshot, handles, return>>

newGlobal(t) ==
    /\ pc[t] = "new_global"
    /\ FreeMutex
    /\ Goto(t, return[t])
    /\ return' = [return EXCEPT ![t] = "none"]
    /\ UNCHANGED <<mutex, entities, state, monitoring, running, joinable,
                   terminated, todo, snapshot, handles>>

(***************************************************************************)
(* entity->start(): the monitors start, and when none of them fails an     *)
(* entity in INIT moves to RUNNING, which calls back.                      *)
(***************************************************************************)
startEntity(t, e, next) ==
    /\ monitoring' = [monitoring EXCEPT ![e] = TRUE]
    /\ IF state[e] = INIT /\ e \notin Failing
       THEN Transition(t, e, RUNNING, next)
       ELSE Goto(t, next) /\ UNCHANGED <<state, return>>

-----------------------------------------------------------------------------
(* The clients that change the map *)

\* Constructed and put into the map, unless the name is taken.
addSupervisedEntity(c, e) ==
    /\ pc[c] = "idle" /\ FreeMutex
    /\ ~Held(e) /\ e \notin Prestarted
    /\ Named(Name[e]) = {}
    /\ entities' = entities \cup {e}
    /\ UNCHANGED <<mutex, state, monitoring, running, joinable, terminated,
                   pc, todo, snapshot, handles, return>>

\* The caller has constructed e and started it before, or passes an entity it
\* holds since an earlier call, as it is.
registerEntity(c, e) ==
    /\ pc[c] = "idle" /\ FreeMutex
    /\ Named(Name[e]) = {}
    /\ \/ e \in handles /\ UNCHANGED <<state, monitoring>>
       \/ /\ ~Held(e) /\ e \in Prestarted
          /\ state' = [state EXCEPT ![e] = RUNNING]
          /\ monitoring' = [monitoring EXCEPT ![e] = TRUE]
    /\ entities' = entities \cup {e}
    /\ handles' = handles \cup (Shared \cap {e})
    /\ UNCHANGED <<mutex, running, joinable, terminated, pc, todo, snapshot, return>>

\* Mutant: the monitors of what is removed are left to the destructor.
RemoveWithoutStop(c, e) ==
    /\ pc[c] = "idle" /\ FreeMutex
    /\ e \in entities
    /\ entities' = entities \ {e}
    /\ IF e \in snapshot \cup handles
       THEN UNCHANGED <<state, monitoring>>
       ELSE Destroy({e})
    /\ UNCHANGED <<mutex, running, joinable, terminated, pc, todo, snapshot, handles, return>>

removeEntity(c, e) ==
    /\ pc[c] = "idle" /\ FreeMutex
    /\ e \in entities
    /\ entities' = entities \ {e}
    /\ IF e \in snapshot \cup handles
       THEN monitoring' = [monitoring EXCEPT ![e] = FALSE] /\ UNCHANGED state
       ELSE Destroy({e})
    /\ UNCHANGED <<mutex, running, joinable, terminated, pc, todo, snapshot, handles, return>>

getEntity(c, e) ==
    /\ pc[c] = "idle" /\ FreeMutex
    /\ e \in (entities \cap Shared) \ handles
    /\ handles' = handles \cup {e}
    /\ UNCHANGED <<mutex, entities, state, monitoring, running, joinable, terminated,
                   pc, todo, snapshot, return>>

\* A client lets go of what it holds.
release(c, e) ==
    /\ pc[c] = "idle"
    /\ e \in handles
    /\ handles' = handles \ {e}
    /\ IF e \in entities \cup snapshot THEN UNCHANGED <<state, monitoring>> ELSE Destroy({e})
    /\ UNCHANGED <<mutex, entities, running, joinable, terminated, pc, todo, snapshot, return>>

-----------------------------------------------------------------------------
(* start() *)

startLock(c) ==
    /\ pc[c] = "idle" /\ FreeMutex
    /\ ~running
    /\ mutex' = c
    /\ Goto(c, "starting")
    /\ todo' = [todo EXCEPT ![c] = entities \cap Enabled]
    /\ UNCHANGED <<entities, state, monitoring, running, joinable, terminated,
                   snapshot, handles, return>>

startNext(c) ==
    /\ pc[c] = "starting"
    /\ todo[c] # {}
    /\ startEntity(c, First(todo[c]), "starting")
    /\ todo' = [todo EXCEPT ![c] = @ \ {First(@)}]
    /\ UNCHANGED <<mutex, entities, running, joinable, terminated, snapshot, handles>>

startRunning(c) ==
    /\ pc[c] = "starting"
    /\ todo[c] = {}
    /\ running' = TRUE
    /\ Goto(c, "launching")
    /\ UNCHANGED <<mutex, entities, state, monitoring, joinable, terminated,
                   todo, snapshot, handles, return>>

\* Assigning a thread to a std::thread that is still joinable terminates.
startWorker(c) ==
    /\ pc[c] = "launching"
    /\ IF joinable
       THEN /\ terminated' = TRUE
            /\ UNCHANGED <<mutex, joinable, pc>>
       ELSE /\ joinable' = TRUE
            /\ pc' = [pc EXCEPT ![c] = "idle", ![worker] = "loop"]
            /\ mutex' = free
            /\ UNCHANGED terminated
    /\ UNCHANGED <<entities, state, monitoring, running, todo, snapshot, handles, return>>

-----------------------------------------------------------------------------
(* stop() *)

\* Mutant: stop() keeps the mutex while it joins the worker.
StopLockKeepsMutex(c) ==
    /\ pc[c] = "idle" /\ FreeMutex
    /\ running
    /\ mutex' = c
    /\ running' = FALSE
    /\ Goto(c, "joining")
    /\ UNCHANGED <<entities, state, monitoring, joinable, terminated,
                   todo, snapshot, handles, return>>

stopLock(c) ==
    /\ pc[c] = "idle" /\ FreeMutex
    /\ running
    /\ running' = FALSE
    /\ Goto(c, "joining")
    /\ UNCHANGED <<mutex, entities, state, monitoring, joinable, terminated,
                   todo, snapshot, handles, return>>

\* Mutant: stop() does not wait for the worker.
StopWithoutJoin(c) ==
    /\ pc[c] = "joining"
    /\ Goto(c, "stopping")
    /\ UNCHANGED <<mutex, entities, state, monitoring, running, joinable, terminated,
                   todo, snapshot, handles, return>>

stopJoin(c) ==
    /\ pc[c] = "joining"
    /\ joinable => pc[worker] = "exited"
    /\ joinable' = FALSE
    /\ Goto(c, "stopping")
    /\ UNCHANGED <<mutex, entities, state, monitoring, running, terminated,
                   todo, snapshot, handles, return>>

stopEntities(c) ==
    /\ pc[c] = "stopping" /\ FreeMutex
    /\ monitoring' = [e \in Entities |-> IF e \in entities THEN FALSE ELSE monitoring[e]]
    /\ Goto(c, "idle")
    /\ UNCHANGED <<mutex, entities, state, running, joinable, terminated,
                   todo, snapshot, handles, return>>

-----------------------------------------------------------------------------
(* tickLoop() *)

\* Mutant: while (true).
LoopForever ==
    /\ pc[worker] = "loop"
    /\ Goto(worker, "snapshot")
    /\ UNCHANGED <<mutex, entities, state, monitoring, running, joinable,
                   terminated, todo, snapshot, handles, return>>

\* while (running_): the thread ends, or takes its next snapshot.
tickLoopTest ==
    /\ pc[worker] = "loop"
    /\ Goto(worker, IF running THEN "snapshot" ELSE "exited")
    /\ UNCHANGED <<mutex, entities, state, monitoring, running, joinable,
                   terminated, todo, snapshot, handles, return>>

takeSnapshot ==
    /\ pc[worker] = "snapshot" /\ FreeMutex
    /\ snapshot' = entities
    /\ todo' = [todo EXCEPT ![worker] = entities]
    /\ Goto(worker, "check")
    /\ UNCHANGED <<mutex, entities, state, monitoring, running, joinable,
                   terminated, handles, return>>

current == First(todo[worker])

\* checkAll() finds something that moves the entity.
checkMoves(s) ==
    /\ pc[worker] = "check"
    /\ todo[worker] # {}
    /\ s \in g_transition_table[state[current]]
    /\ Transition(worker, current, s, "check")
    /\ UNCHANGED <<mutex, entities, monitoring, running, joinable, terminated,
                   todo, snapshot, handles>>

\* Mutant: a break where the loop should go on to the next entity.
CheckDoneBreaks ==
    /\ pc[worker] = "check"
    /\ todo[worker] # {}
    /\ IF state[current] = FATAL /\ current \in AutoRestart
       THEN /\ state' = [state EXCEPT ![current] = INIT]
            /\ monitoring' = [monitoring EXCEPT ![current] = FALSE]
            /\ Goto(worker, "restart")
            /\ UNCHANGED todo
       ELSE /\ todo' = [todo EXCEPT ![worker] = {}]
            /\ UNCHANGED <<state, monitoring, pc>>
    /\ UNCHANGED <<mutex, entities, running, joinable, terminated, snapshot, handles, return>>

\* checkAll() is over, collectAndReport() reads the metrics, and a FATAL entity
\* with auto_restart is reset without a callback.
checkDone ==
    /\ pc[worker] = "check"
    /\ todo[worker] # {}
    /\ IF state[current] = FATAL /\ current \in AutoRestart
       THEN /\ state' = [state EXCEPT ![current] = INIT]
            /\ monitoring' = [monitoring EXCEPT ![current] = FALSE]
            /\ Goto(worker, "restart")
            /\ UNCHANGED todo
       ELSE /\ todo' = [todo EXCEPT ![worker] = @ \ {current}]
            /\ UNCHANGED <<state, monitoring, pc>>
    /\ UNCHANGED <<mutex, entities, running, joinable, terminated, snapshot, handles, return>>

restartEntity ==
    /\ pc[worker] = "restart"
    /\ startEntity(worker, current, "check")
    /\ todo' = [todo EXCEPT ![worker] = @ \ {current}]
    /\ UNCHANGED <<mutex, entities, running, joinable, terminated, snapshot, handles>>

\* Mutant: ~SupervisedEntity() does not stop the monitors.
TickEndWithoutStop ==
    /\ pc[worker] = "check"
    /\ todo[worker] = {}
    /\ snapshot' = {}
    /\ state' = [e \in Entities |-> IF e \in snapshot \ (entities \cup handles)
                                    THEN INIT ELSE state[e]]
    /\ Goto(worker, "loop")
    /\ UNCHANGED <<mutex, entities, monitoring, running, joinable, terminated,
                   todo, handles, return>>

\* The snapshot goes out of scope, the last owner of what was removed meanwhile
\* unless a client holds it.
tickEnd ==
    /\ pc[worker] = "check"
    /\ todo[worker] = {}
    /\ snapshot' = {}
    /\ Destroy(snapshot \ (entities \cup handles))
    /\ Goto(worker, "loop")
    /\ UNCHANGED <<mutex, entities, running, joinable, terminated, todo, handles, return>>

-----------------------------------------------------------------------------
MapStep(c) ==
    /\ ~terminated
    /\ \E e \in Entities : \/ addSupervisedEntity(c, e)
                           \/ registerEntity(c, e)
                           \/ removeEntity(c, e)
                           \/ getEntity(c, e)
                           \/ release(c, e)

\* A client need not call anything, but it finishes what it has begun.
BeginCall(c)  == ~terminated /\ (startLock(c) \/ stopLock(c))
InsideCall(c) == /\ ~terminated
                 /\ \/ startNext(c) \/ startRunning(c) \/ startWorker(c)
                    \/ stopJoin(c) \/ stopEntities(c)

WorkerStep   == ~terminated /\ (tickLoopTest \/ takeSnapshot \/ restartEntity \/ tickEnd)
CheckFinds   == ~terminated /\ \E s \in States : checkMoves(s)
CheckEnds    == ~terminated /\ checkDone
Callback(t)  == ~terminated /\ (oldGlobal(t) \/ newGlobal(t))

Next ==
    \/ \E c \in Registrars : MapStep(c)
    \/ \E c \in Lifecycle : BeginCall(c) \/ InsideCall(c)
    \/ WorkerStep \/ CheckFinds \/ CheckEnds
    \/ \E t \in Threads : Callback(t)

Spec == Init /\ [][Next]_vars

FairCall(c)     == WF_vars(InsideCall(c))
FairCallback(t) == WF_vars(Callback(t))

(***************************************************************************)
(* A thread that can go on goes on, and a checkAll() ends although its     *)
(* monitors find something: it calls each of them once.                    *)
(***************************************************************************)
Fairness ==
    /\ \A c \in Lifecycle : FairCall(c)
    /\ \A t \in Threads : FairCallback(t)
    /\ WF_vars(WorkerStep)
    /\ SF_vars(CheckEnds)

FairSpec == Spec /\ Fairness

-----------------------------------------------------------------------------
(* Properties *)

WorkerLabels == {"exited", "loop", "snapshot", "check", "restart", "old_global", "new_global"}
ClientLabels == {"idle", "starting", "launching", "joining", "stopping",
                 "old_global", "new_global"}

\* The conjunct on todo[worker]: the worker visits only objects it keeps alive.
TypeOK ==
    /\ mutex \in Threads \cup {free}
    /\ entities \subseteq Entities
    /\ state \in [Entities -> SeStates]
    /\ monitoring \in [Entities -> BOOLEAN]
    /\ {running, joinable, terminated} \subseteq BOOLEAN
    /\ pc[worker] \in WorkerLabels
    /\ \A c \in Clients : pc[c] \in ClientLabels
    /\ todo \in [Threads -> SUBSET Entities]
    /\ todo[worker] \subseteq snapshot
    /\ snapshot \subseteq Entities
    /\ handles \subseteq Shared
    /\ return \in [Threads -> {"none", "starting", "check"}]

Locking(t) == pc[t] \in {"snapshot", "old_global", "new_global", "stopping"}

(***************************************************************************)
(* "No callback runs in a context that holds the lock"                     *)
(* (doc/checklist.md:163): no thread is about to lock mutex_, in a state   *)
(* change callback or elsewhere, while it holds it.                        *)
(***************************************************************************)
NoSelfDeadlock == \A t \in Threads : Locking(t) => mutex # t

\* Whom t waits for: who holds mutex_, or the worker that stop() joins.
WaitsFor(t) ==
    {u \in Threads : \/ Locking(t) /\ mutex = u
                     \/ pc[t] = "joining" /\ joinable /\ pc[worker] # "exited" /\ u = worker}

(***************************************************************************)
(* No threads wait in a circle: stop() may wait for the worker and the     *)
(* worker for the mutex (lines 134 and 319), but whoever holds the mutex   *)
(* waits for nobody.                                                       *)
(***************************************************************************)
NoCircularWait ==
    \A t \in Threads : \A u \in WaitsFor(t) : \A v \in WaitsFor(u) : WaitsFor(v) = {}

(***************************************************************************)
(* "All public methods may be called by several threads at once"           *)
(* (phm_engine.h:29): std::terminate() is never called.                    *)
(***************************************************************************)
NeverTerminates == ~terminated

(***************************************************************************)
(* std::terminate() is called in one way only: a thread creates the worker *)
(* in start() while another one is inside stop() and has not joined yet    *)
(* (lines 120 and 130-134).  No order of other calls, also of two stop()s  *)
(* or of two start()s, ends the process.                                   *)
(***************************************************************************)
OnlyAStopTerminates ==
    terminated => \E c, d \in Lifecycle : pc[c] = "launching" /\ pc[d] = "joining"

(***************************************************************************)
(* While the engine is stopped and no stop() is under way no worker        *)
(* exists, and nothing is kept alive for one: whoever stopped the engine   *)
(* may free what the entities use.                                         *)
(***************************************************************************)
StoppedMeansQuiet ==
    (~running /\ \A c \in Lifecycle : pc[c] # "joining")
    => pc[worker] = "exited" /\ ~joinable /\ snapshot = {}

(***************************************************************************)
(* removeEntity() stops the monitors of what it removes (line 100), and    *)
(* only auto-restart, which does not look at the map (line 250), starts    *)
(* them again: they then run while the tick lasts whose snapshot holds the *)
(* entity, and beyond it only if a client holds the entity as well, also   *)
(* after stop(), which goes through the map (line 139).                    *)
(***************************************************************************)
RemovedRunsByRestart ==
    \A e \in Entities \ entities :
        monitoring[e] => /\ e \in AutoRestart
                         /\ \/ e \in handles
                            \/ /\ e \in snapshot
                               /\ pc[worker] \notin {"exited", "loop", "snapshot"}

(***************************************************************************)
(* stop() returns: the worker sees running_ and ends its tick, whatever    *)
(* its checks and their callbacks find, provided the map is left alone     *)
(* long enough for the waiting threads to get the mutex.                   *)
(***************************************************************************)
MapLeftAlone == <>[][~\E c \in Registrars : MapStep(c)]_vars

StopReturns ==
    MapLeftAlone => \A c \in Lifecycle : pc[c] = "joining" ~> pc[c] = "idle"

(***************************************************************************)
(* Every entity of a running engine is checked again and again.            *)
(***************************************************************************)
EveryEntityIsChecked ==
    \A e \in Entities :
        (MapLeftAlone /\ <>[](running /\ e \in entities))
        => []<>(pc[worker] = "check" /\ todo[worker] # {} /\ current = e)

(***************************************************************************)
(* What was removed and no client holds is released, whatever auto-restart *)
(* did to it meanwhile: its monitors stop for good.                        *)
(***************************************************************************)
RemovedIsReleased ==
    \A e \in Entities :
        (MapLeftAlone /\ <>[](e \notin entities \cup handles)) => <>[]~monitoring[e]

-----------------------------------------------------------------------------
(***************************************************************************)
(* What the liveness theorems take for granted of ENABLED, which their     *)
(* proofs cannot expand, and what is plain from the guards above: a thread *)
(* inside a call, a callback or a tick has a step to take exactly when it  *)
(* waits for nobody.                                                       *)
(***************************************************************************)
CallGoesOn(c) ==
    pc[c] \in {"starting", "launching", "joining", "stopping"}
    => (WaitsFor(c) = {} <=> ENABLED <<InsideCall(c)>>_vars)

CallbackGoesOn(t) ==
    pc[t] \in {"old_global", "new_global"}
    => (WaitsFor(t) = {} <=> ENABLED <<Callback(t)>>_vars)

TickGoesOn ==
    /\ pc[worker] \in {"loop", "snapshot", "restart"}
       => (WaitsFor(worker) = {} <=> ENABLED <<WorkerStep>>_vars)
    /\ pc[worker] = "check" =>
           /\ todo[worker] # {} => ENABLED <<CheckEnds>>_vars
           /\ todo[worker] = {} => ENABLED <<WorkerStep>>_vars

OnlyWaitersWait ==
    ~terminated => /\ \A c \in Lifecycle : CallGoesOn(c)
                   /\ \A t \in Threads : CallbackGoesOn(t)
                   /\ TickGoesOn

=============================================================================
