----------------------------- MODULE MapUpdater -----------------------------
(***************************************************************************)
(* The multithreaded map update of the world server: MapManager::Update on *)
(* the world thread, the two request queues and thread pools of            *)
(* MapUpdater, and MapInstanced::Update, which runs on a pool thread and   *)
(* destroys or schedules the instances it owns.                            *)
(*                                                                         *)
(* The queues are ProducerConsumerQueues.  Each of their operations holds  *)
(* the queue's mutex throughout, so it is one step here; that the mutex    *)
(* and the condition variable implement a blocking queue whose operations  *)
(* are atomic is what module ProducerConsumerQueue shows.                  *)
(***************************************************************************)
EXTENDS Naturals, Sequences, FiniteSets

CONSTANTS
    Continents,    \* maps updated once per tick (MAP_TYPE_MAP)
    BaseMaps,      \* MapInstanced objects: updated once, own instances
    Instances,     \* dungeons, battlegrounds, test maps: updated in a loop
    BaseOf,        \* the MapInstanced that owns an instance
    LoopWorkers,   \* the threads MapUpdater::activate spawns
    NoMap          \* a null MapUpdateRequest*

(* The base maps in i_maps are updated once each; the rest loop.           *)
OnceMaps == Continents \cup BaseMaps
Maps     == OnceMaps \cup Instances

ASSUME MapsAssumption ==
    /\ IsFiniteSet(OnceMaps)
    /\ IsFiniteSet(Instances)
    /\ OnceMaps \cap Instances = {}
    /\ Continents \cap BaseMaps = {}
    /\ NoMap \notin Maps
    /\ BaseOf \in [Instances -> BaseMaps]

(* activated() holds: at least one loop worker was spawned.                *)
ASSUME WorkersAssumption ==
    /\ IsFiniteSet(LoopWorkers)
    /\ LoopWorkers # {}

(* The n-th element of _once_maps_workerThreads is once worker n.          *)
OnceWorkers == 1 .. Cardinality(OnceMaps)

VARIABLES
    mainPc,               \* where the world thread is
    toSchedule,           \* maps of i_maps the loop in MapManager::Update has left
    instancedMaps,        \* the union of the MapInstanced::m_InstancedMaps
    baseMapsLoaded,       \* i_maps still holds its maps (UnloadAll deletes them)
    once_queue, loop_queue,
    onceShutdown, loopShutdown,          \* ProducerConsumerQueue::_shutdown
    pending_once_maps, pending_loop_maps,
    enable_updates_loop, cancelationToken,
    once_maps_workerThreads,             \* size of the vector of threads
    oncePc, onceRequest, instancesLeft,  \* locals of OnceWorkerThread
    loopPc, loopRequest,                 \* locals of LoopWorkerThread
    updates,              \* history: updates of each map in this tick, 2 = many
    scheduled             \* history: instances scheduled in this tick

mainVars  == <<mainPc, toSchedule, instancedMaps, baseMapsLoaded>>
queueVars == <<once_queue, loop_queue, onceShutdown, loopShutdown>>
countVars == <<pending_once_maps, pending_loop_maps, once_maps_workerThreads>>
flagVars  == <<enable_updates_loop, cancelationToken>>
onceVars  == <<oncePc, onceRequest, instancesLeft>>
loopVars  == <<loopPc, loopRequest>>
histVars  == <<updates, scheduled>>
vars      == <<mainVars, queueVars, countVars, flagVars, onceVars, loopVars, histVars>>

MainPcs ==
    {"idle", "schedule", "enable", "waitOnces", "sleepOnces", "disable",
     "waitLoops", "sleepLoops", "delayed", "cancelToken", "cancelLoop",
     "cancelOnce", "endWaitOnces", "endSleepOnces", "endWaitLoops",
     "endSleepLoops", "joinOnce", "joinLoop", "stopped"}
OncePcs == {"none", "wait", "popped", "update", "instances", "finish", "exit"}
LoopPcs == {"wait", "popped", "update", "called", "repush", "finish", "exit"}

InstancesOf(b) == {i \in instancedMaps : BaseOf[i] = b}

-----------------------------------------------------------------------------
(* Updates saturate at 2, which stands for "more than once".               *)
Bump(n) == IF n = 0 THEN 1 ELSE 2

(* spawnMissingOnceUpdateThreads, called with _lock held: push threads     *)
(* until the vector is as long as the number of pending once maps.         *)
Mutant_ThreadsNeeded(pending) ==
    IF pending > once_maps_workerThreads + 1
    THEN pending - 1 ELSE once_maps_workerThreads

ThreadsNeeded(pending) ==
    IF pending > once_maps_workerThreads THEN pending ELSE once_maps_workerThreads

SpawnMissingOnceUpdateThreads(pending) ==
    LET size == ThreadsNeeded(pending)
    IN  /\ once_maps_workerThreads' = size
        /\ oncePc' = [w \in OnceWorkers |->
               IF w > once_maps_workerThreads /\ w <= size
               THEN "wait" ELSE oncePc[w]]

(* schedule_update of a map that is updated once per tick.                 *)
ScheduleOnce(m) ==
    /\ pending_once_maps' = pending_once_maps + 1
    /\ once_queue' = Append(once_queue, m)
    /\ SpawnMissingOnceUpdateThreads(pending_once_maps + 1)
    /\ UNCHANGED <<pending_loop_maps, loop_queue>>

(* schedule_update of an instance.                                         *)
ScheduleLoop(m) ==
    /\ pending_loop_maps' = pending_loop_maps + 1
    /\ loop_queue' = Append(loop_queue, m)
    /\ SpawnMissingOnceUpdateThreads(pending_once_maps)
    /\ UNCHANGED <<pending_once_maps, once_queue>>

(* onceMapFinished and loopMapFinished, both under _lock: the thread that  *)
(* takes the counter to zero notifies the world thread.                    *)
Mutant_ReachesZero(pending) == pending = 0    \* tested before the decrement

ReachesZero(pending) == pending - 1 = 0

OnceMapFinished ==
    /\ pending_once_maps' = pending_once_maps - 1
    /\ mainPc' = IF ReachesZero(pending_once_maps)
                 THEN CASE mainPc = "sleepOnces"    -> "waitOnces"
                        [] mainPc = "endSleepOnces" -> "endWaitOnces"
                        [] OTHER                    -> mainPc
                 ELSE mainPc
    /\ UNCHANGED <<pending_loop_maps, once_maps_workerThreads,
                   toSchedule, instancedMaps, baseMapsLoaded>>

LoopMapFinished ==
    /\ pending_loop_maps' = pending_loop_maps - 1
    /\ mainPc' = IF ReachesZero(pending_loop_maps)
                 THEN CASE mainPc = "sleepLoops"    -> "waitLoops"
                        [] mainPc = "endSleepLoops" -> "endWaitLoops"
                        [] OTHER                    -> mainPc
                 ELSE mainPc
    /\ UNCHANGED <<pending_once_maps, once_maps_workerThreads,
                   toSchedule, instancedMaps, baseMapsLoaded>>

(* The loop conditions of waitUpdateOnces and waitUpdateLoops.             *)
Mutant_StillPending(pending) == pending > 1

StillPending(pending) == pending > 0

(* WaitAndPop takes the front of the queue and pops it.                    *)
Mutant_Popped(queue) == queue                 \* front() without pop()

Popped(queue) == Tail(queue)

-----------------------------------------------------------------------------
(* The world thread.  Between two calls of MapManager::Update it runs the  *)
(* sessions, and a player that logs in or changes map creates an instance. *)
CreateInstance(i) ==
    /\ mainPc = "idle"
    /\ i \notin instancedMaps
    /\ instancedMaps' = instancedMaps \cup {i}
    /\ UNCHANGED <<mainPc, toSchedule, baseMapsLoaded, queueVars, countVars,
                   flagVars, onceVars, loopVars, histVars>>

(* MapManager::Update once i_timer has passed.                             *)
BeginTick ==
    /\ mainPc = "idle"
    /\ mainPc' = "schedule"
    /\ toSchedule' = OnceMaps
    /\ updates' = [m \in Maps |-> 0]
    /\ scheduled' = {}
    /\ UNCHANGED <<instancedMaps, baseMapsLoaded, queueVars, countVars,
                   flagVars, onceVars, loopVars>>

ScheduleBaseMap(m) ==
    /\ mainPc = "schedule"
    /\ m \in toSchedule
    /\ toSchedule' = toSchedule \ {m}
    /\ ScheduleOnce(m)
    /\ UNCHANGED <<mainPc, instancedMaps, baseMapsLoaded, onceShutdown,
                   loopShutdown, flagVars, onceRequest, instancesLeft,
                   loopVars, histVars>>

EndSchedule ==
    /\ mainPc = "schedule"
    /\ toSchedule = {}
    /\ mainPc' = "enable"
    /\ UNCHANGED <<toSchedule, instancedMaps, baseMapsLoaded, queueVars,
                   countVars, flagVars, onceVars, loopVars, histVars>>

(* enableUpdateLoop(true) and enableUpdateLoop(false).                     *)
EnableUpdateLoop ==
    /\ \/ mainPc = "enable"  /\ mainPc' = "waitOnces" /\ enable_updates_loop' = TRUE
       \/ mainPc = "disable" /\ mainPc' = "waitLoops" /\ enable_updates_loop' = FALSE
    /\ UNCHANGED <<toSchedule, instancedMaps, baseMapsLoaded, queueVars,
                   countVars, cancelationToken, onceVars, loopVars, histVars>>

(* One evaluation, under _lock, of the loop in waitUpdateOnces: go on when *)
(* the counter is zero, otherwise release the lock and sleep.              *)
WaitUpdateOnces ==
    /\ \/ /\ mainPc = "waitOnces"
          /\ mainPc' = IF StillPending(pending_once_maps) THEN "sleepOnces" ELSE "disable"
       \/ /\ mainPc = "endWaitOnces"
          /\ mainPc' = IF StillPending(pending_once_maps) THEN "endSleepOnces" ELSE "endWaitLoops"
    /\ UNCHANGED <<toSchedule, instancedMaps, baseMapsLoaded, queueVars,
                   countVars, flagVars, onceVars, loopVars, histVars>>

WaitUpdateLoops ==
    /\ \/ /\ mainPc = "waitLoops"
          /\ mainPc' = IF StillPending(pending_loop_maps) THEN "sleepLoops" ELSE "delayed"
       \/ /\ mainPc = "endWaitLoops"
          /\ mainPc' = IF StillPending(pending_loop_maps) THEN "endSleepLoops" ELSE "joinOnce"
    /\ UNCHANGED <<toSchedule, instancedMaps, baseMapsLoaded, queueVars,
                   countVars, flagVars, onceVars, loopVars, histVars>>

(* A condition variable may wake its waiter without a notification.        *)
SpuriousWakeup ==
    /\ \/ mainPc = "sleepOnces" /\ mainPc' = "waitOnces"
       \/ mainPc = "sleepLoops" /\ mainPc' = "waitLoops"
    /\ UNCHANGED <<toSchedule, instancedMaps, baseMapsLoaded, queueVars,
                   countVars, flagVars, onceVars, loopVars, histVars>>

(* The loop over i_maps that calls DelayedUpdate on every map and, through *)
(* MapInstanced::DelayedUpdate, on every instance.                         *)
DelayedUpdate ==
    /\ mainPc = "delayed"
    /\ mainPc' = "idle"
    /\ UNCHANGED <<toSchedule, instancedMaps, baseMapsLoaded, queueVars,
                   countVars, flagVars, onceVars, loopVars, histVars>>

(* MapManager::UnloadAll deletes every map and then deactivates the        *)
(* updater; the world loop has ended, so no tick is in progress.           *)
UnloadAll ==
    /\ mainPc = "idle"
    /\ mainPc' = "cancelToken"
    /\ instancedMaps' = {}
    /\ baseMapsLoaded' = FALSE
    /\ UNCHANGED <<toSchedule, queueVars, countVars, flagVars, onceVars,
                   loopVars, histVars>>

(* deactivate: set the token, then cancel each queue (its requests are     *)
(* deleted, _shutdown is set and every waiter is woken).                   *)
SetCancelationToken ==
    /\ mainPc = "cancelToken"
    /\ mainPc' = "cancelLoop"
    /\ cancelationToken' = TRUE
    /\ UNCHANGED <<toSchedule, instancedMaps, baseMapsLoaded, queueVars,
                   countVars, enable_updates_loop, onceVars, loopVars, histVars>>

Mutant_CancelLoopQueue ==                     \* _shutdown is not set
    /\ mainPc = "cancelLoop"
    /\ mainPc' = "cancelOnce"
    /\ loop_queue' = <<>>
    /\ UNCHANGED <<toSchedule, instancedMaps, baseMapsLoaded, once_queue,
                   onceShutdown, loopShutdown, countVars, flagVars, onceVars,
                   loopVars, histVars>>

CancelLoopQueue ==
    /\ mainPc = "cancelLoop"
    /\ mainPc' = "cancelOnce"
    /\ loop_queue' = <<>>
    /\ loopShutdown' = TRUE
    /\ UNCHANGED <<toSchedule, instancedMaps, baseMapsLoaded, once_queue,
                   onceShutdown, countVars, flagVars, onceVars, loopVars, histVars>>

CancelOnceQueue ==
    /\ mainPc = "cancelOnce"
    /\ mainPc' = "endWaitOnces"
    /\ once_queue' = <<>>
    /\ onceShutdown' = TRUE
    /\ UNCHANGED <<toSchedule, instancedMaps, baseMapsLoaded, loop_queue,
                   loopShutdown, countVars, flagVars, onceVars, loopVars, histVars>>

(* thread.join() on every thread, then clear the vectors.                  *)
JoinThreads ==
    /\ \/ /\ mainPc = "joinOnce"
          /\ \A w \in OnceWorkers : w <= once_maps_workerThreads => oncePc[w] = "exit"
          /\ mainPc' = "joinLoop"
          /\ once_maps_workerThreads' = 0
       \/ /\ mainPc = "joinLoop"
          /\ \A w \in LoopWorkers : loopPc[w] = "exit"
          /\ mainPc' = "stopped"
          /\ UNCHANGED once_maps_workerThreads
    /\ UNCHANGED <<toSchedule, instancedMaps, baseMapsLoaded, queueVars,
                   pending_once_maps, pending_loop_maps, flagVars, onceVars,
                   loopVars, histVars>>

-----------------------------------------------------------------------------
(* OnceWorkerThread.                                                       *)

(* _once_queue.WaitAndPop: blocks while the queue is empty and not shut    *)
(* down; after a shutdown it leaves request null.                          *)
OnceWaitAndPop(w) ==
    /\ oncePc[w] = "wait"
    /\ once_queue # <<>> \/ onceShutdown
    /\ oncePc' = [oncePc EXCEPT ![w] = "popped"]
    /\ IF once_queue = <<>> \/ onceShutdown
       THEN /\ onceRequest' = [onceRequest EXCEPT ![w] = NoMap]
            /\ UNCHANGED once_queue
       ELSE /\ onceRequest' = [onceRequest EXCEPT ![w] = Head(once_queue)]
            /\ once_queue' = Popped(once_queue)
    /\ UNCHANGED <<mainVars, loop_queue, onceShutdown, loopShutdown, countVars,
                   flagVars, instancesLeft, loopVars, histVars>>

(* The check of _cancelationToken after the pop.                           *)
OnceStop(w) ==
    /\ oncePc[w] = "popped"
    /\ cancelationToken
    /\ oncePc' = [oncePc EXCEPT ![w] = "exit"]
    /\ onceRequest' = [onceRequest EXCEPT ![w] = NoMap]
    /\ IF onceRequest[w] # NoMap
       THEN OnceMapFinished
       ELSE UNCHANGED <<countVars, mainVars>>
    /\ UNCHANGED <<queueVars, flagVars, instancesLeft, loopVars, histVars>>

(* request->call() starts: Map::Update runs.                               *)
OnceCall(w) ==
    /\ oncePc[w] = "popped"
    /\ ~cancelationToken
    /\ oncePc' = [oncePc EXCEPT ![w] = "update"]
    /\ UNCHANGED <<mainVars, queueVars, countVars, flagVars, onceRequest,
                   instancesLeft, loopVars, histVars>>

(* Map::Update ends.  MapInstanced::Update goes on to its instances.       *)
OnceUpdated(w) ==
    LET m == onceRequest[w] IN
    /\ oncePc[w] = "update"
    /\ updates' = [updates EXCEPT ![m] = Bump(@)]
    /\ IF m \in BaseMaps
       THEN /\ oncePc' = [oncePc EXCEPT ![w] = "instances"]
            /\ instancesLeft' = [instancesLeft EXCEPT ![w] = InstancesOf(m)]
       ELSE /\ oncePc' = [oncePc EXCEPT ![w] = "finish"]
            /\ UNCHANGED instancesLeft
    /\ UNCHANGED <<mainVars, queueVars, countVars, flagVars, onceRequest,
                   loopVars, scheduled>>

(* The loop of MapInstanced::Update, one instance per step.  An instance   *)
(* whose unload timer ran out is destroyed unless a player stays in it.    *)
Mutant_DestroyInstance(w, i) ==               \* scheduled before the test
    /\ oncePc[w] = "instances"
    /\ i \in instancesLeft[w]
    /\ instancesLeft' = [instancesLeft EXCEPT ![w] = @ \ {i}]
    /\ ScheduleLoop(i)
    /\ instancedMaps' = instancedMaps \ {i}
    /\ UNCHANGED <<mainPc, toSchedule, baseMapsLoaded, onceShutdown,
                   loopShutdown, flagVars, onceRequest, loopVars, histVars>>

DestroyInstance(w, i) ==
    /\ oncePc[w] = "instances"
    /\ i \in instancesLeft[w]
    /\ instancesLeft' = [instancesLeft EXCEPT ![w] = @ \ {i}]
    /\ instancedMaps' = instancedMaps \ {i}
    /\ UNCHANGED <<mainPc, toSchedule, baseMapsLoaded, queueVars, countVars,
                   flagVars, oncePc, onceRequest, loopVars, histVars>>

(* DestroyInstance returned false: the instance still has players.  It is  *)
(* neither destroyed nor scheduled in this tick.                           *)
SkipInstance(w, i) ==
    /\ oncePc[w] = "instances"
    /\ i \in instancesLeft[w]
    /\ instancesLeft' = [instancesLeft EXCEPT ![w] = @ \ {i}]
    /\ UNCHANGED <<mainVars, queueVars, countVars, flagVars, oncePc,
                   onceRequest, loopVars, histVars>>

ScheduleInstance(w, i) ==
    /\ oncePc[w] = "instances"
    /\ i \in instancesLeft[w]
    /\ instancesLeft' = [instancesLeft EXCEPT ![w] = @ \ {i}]
    /\ ScheduleLoop(i)
    /\ scheduled' = scheduled \cup {i}
    /\ UNCHANGED <<mainVars, onceShutdown, loopShutdown, flagVars,
                   onceRequest, loopVars, updates>>

OnceInstancesDone(w) ==
    /\ oncePc[w] = "instances"
    /\ instancesLeft[w] = {}
    /\ oncePc' = [oncePc EXCEPT ![w] = "finish"]
    /\ UNCHANGED <<mainVars, queueVars, countVars, flagVars, onceRequest,
                   instancesLeft, loopVars, histVars>>

(* delete request; onceMapFinished().                                      *)
OnceFinish(w) ==
    /\ oncePc[w] = "finish"
    /\ oncePc' = [oncePc EXCEPT ![w] = "wait"]
    /\ onceRequest' = [onceRequest EXCEPT ![w] = NoMap]
    /\ OnceMapFinished
    /\ UNCHANGED <<queueVars, flagVars, instancesLeft, loopVars, histVars>>

-----------------------------------------------------------------------------
(* LoopWorkerThread.                                                       *)
LoopWaitAndPop(w) ==
    /\ loopPc[w] = "wait"
    /\ loop_queue # <<>> \/ loopShutdown
    /\ loopPc' = [loopPc EXCEPT ![w] = "popped"]
    /\ IF loop_queue = <<>> \/ loopShutdown
       THEN /\ loopRequest' = [loopRequest EXCEPT ![w] = NoMap]
            /\ UNCHANGED loop_queue
       ELSE /\ loopRequest' = [loopRequest EXCEPT ![w] = Head(loop_queue)]
            /\ loop_queue' = Popped(loop_queue)
    /\ UNCHANGED <<mainVars, once_queue, onceShutdown, loopShutdown, countVars,
                   flagVars, onceVars, histVars>>

LoopStop(w) ==
    /\ loopPc[w] = "popped"
    /\ cancelationToken
    /\ loopPc' = [loopPc EXCEPT ![w] = "exit"]
    /\ loopRequest' = [loopRequest EXCEPT ![w] = NoMap]
    /\ IF loopRequest[w] # NoMap
       THEN LoopMapFinished
       ELSE UNCHANGED <<countVars, mainVars>>
    /\ UNCHANGED <<queueVars, flagVars, onceVars, histVars>>

(* ASSERT(request); request->call(), whatever the loop flag says.          *)
Mutant_AfterLoopPop == IF enable_updates_loop THEN "update" ELSE "finish"

AfterLoopPop == "update"

LoopCall(w) ==
    /\ loopPc[w] = "popped"
    /\ ~cancelationToken
    /\ loopPc' = [loopPc EXCEPT ![w] = AfterLoopPop]
    /\ UNCHANGED <<mainVars, queueVars, countVars, flagVars, onceVars,
                   loopRequest, histVars>>

LoopUpdated(w) ==
    /\ loopPc[w] = "update"
    /\ loopPc' = [loopPc EXCEPT ![w] = "called"]
    /\ updates' = [updates EXCEPT ![loopRequest[w]] = Bump(@)]
    /\ UNCHANGED <<mainVars, queueVars, countVars, flagVars, onceVars,
                   loopRequest, scheduled>>

(* The read of *enable_instance_updates_loop; what follows is a step of    *)
(* its own, so the flag may change in between.                             *)
LoopReadFlag(w) ==
    /\ loopPc[w] = "called"
    /\ loopPc' = [loopPc EXCEPT ![w] = IF enable_updates_loop THEN "repush" ELSE "finish"]
    /\ UNCHANGED <<mainVars, queueVars, countVars, flagVars, onceVars,
                   loopRequest, histVars>>

LoopRepush(w) ==
    /\ loopPc[w] = "repush"
    /\ loopPc' = [loopPc EXCEPT ![w] = "wait"]
    /\ loopRequest' = [loopRequest EXCEPT ![w] = NoMap]
    /\ loop_queue' = Append(loop_queue, loopRequest[w])
    /\ UNCHANGED <<mainVars, once_queue, onceShutdown, loopShutdown, countVars,
                   flagVars, onceVars, histVars>>

LoopFinish(w) ==
    /\ loopPc[w] = "finish"
    /\ loopPc' = [loopPc EXCEPT ![w] = "wait"]
    /\ loopRequest' = [loopRequest EXCEPT ![w] = NoMap]
    /\ LoopMapFinished
    /\ UNCHANGED <<queueVars, flagVars, onceVars, histVars>>

-----------------------------------------------------------------------------
Init ==
    /\ mainPc = "idle"
    /\ toSchedule = {}
    /\ instancedMaps = {}
    /\ baseMapsLoaded = TRUE
    /\ once_queue = <<>> /\ loop_queue = <<>>
    /\ onceShutdown = FALSE /\ loopShutdown = FALSE
    /\ pending_once_maps = 0 /\ pending_loop_maps = 0
    /\ once_maps_workerThreads = 0
    /\ enable_updates_loop = FALSE
    /\ cancelationToken = FALSE
    /\ oncePc = [w \in OnceWorkers |-> "none"]
    /\ onceRequest = [w \in OnceWorkers |-> NoMap]
    /\ instancesLeft = [w \in OnceWorkers |-> {}]
    /\ loopPc = [w \in LoopWorkers |-> "wait"]
    /\ loopRequest = [w \in LoopWorkers |-> NoMap]
    /\ updates = [m \in Maps |-> 0]
    /\ scheduled = {}

WorldThread ==
    \/ \E i \in Instances : CreateInstance(i)
    \/ BeginTick
    \/ \E m \in OnceMaps : ScheduleBaseMap(m)
    \/ EndSchedule
    \/ EnableUpdateLoop
    \/ WaitUpdateOnces
    \/ WaitUpdateLoops
    \/ SpuriousWakeup
    \/ DelayedUpdate
    \/ UnloadAll
    \/ SetCancelationToken
    \/ CancelLoopQueue
    \/ CancelOnceQueue
    \/ JoinThreads

OnceWorkerThread(w) ==
    \/ OnceWaitAndPop(w)
    \/ OnceStop(w)
    \/ OnceCall(w)
    \/ OnceUpdated(w)
    \/ \E i \in Instances : DestroyInstance(w, i)
    \/ \E i \in Instances : SkipInstance(w, i)
    \/ \E i \in Instances : ScheduleInstance(w, i)
    \/ OnceInstancesDone(w)
    \/ OnceFinish(w)

LoopWorkerThread(w) ==
    \/ LoopWaitAndPop(w)
    \/ LoopStop(w)
    \/ LoopCall(w)
    \/ LoopUpdated(w)
    \/ LoopReadFlag(w)
    \/ LoopRepush(w)
    \/ LoopFinish(w)

(* Every thread has joined: the process is past the map manager.           *)
Stopped == mainPc = "stopped" /\ UNCHANGED vars

Next ==
    \/ WorldThread
    \/ \E w \in OnceWorkers : OnceWorkerThread(w)
    \/ \E w \in LoopWorkers : LoopWorkerThread(w)
    \/ Stopped

Spec == Init /\ [][Next]_vars

(* The scheduler runs every thread that can take a step: the world thread  *)
(* finishes a tick or a shutdown it has begun (it need not begin one), and *)
(* each pool thread goes on.  A spurious wakeup is never relied upon.      *)
WorldThreadGoesOn ==
    \/ \E m \in OnceMaps : ScheduleBaseMap(m)
    \/ EndSchedule \/ EnableUpdateLoop \/ WaitUpdateOnces \/ WaitUpdateLoops
    \/ DelayedUpdate \/ SetCancelationToken \/ CancelLoopQueue
    \/ CancelOnceQueue \/ JoinThreads

Fairness ==
    /\ WF_vars(WorldThreadGoesOn)
    /\ \A w \in OnceWorkers : WF_vars(OnceWorkerThread(w))
    /\ \A w \in LoopWorkers : WF_vars(LoopWorkerThread(w))

FairSpec == Spec /\ Fairness

-----------------------------------------------------------------------------
TypeOK ==
    /\ mainPc \in MainPcs
    /\ toSchedule \in SUBSET OnceMaps
    /\ instancedMaps \in SUBSET Instances
    /\ baseMapsLoaded \in BOOLEAN
    /\ once_queue \in Seq(OnceMaps)
    /\ loop_queue \in Seq(Instances)
    /\ onceShutdown \in BOOLEAN
    /\ loopShutdown \in BOOLEAN
    /\ pending_once_maps \in Nat
    /\ pending_loop_maps \in Nat
    /\ once_maps_workerThreads \in Nat
    /\ enable_updates_loop \in BOOLEAN
    /\ cancelationToken \in BOOLEAN
    /\ oncePc \in [OnceWorkers -> OncePcs]
    /\ onceRequest \in [OnceWorkers -> OnceMaps \cup {NoMap}]
    /\ instancesLeft \in [OnceWorkers -> SUBSET Instances]
    /\ loopPc \in [LoopWorkers -> LoopPcs]
    /\ loopRequest \in [LoopWorkers -> Instances \cup {NoMap}]
    /\ updates \in [Maps -> 0 .. 2]
    /\ scheduled \in SUBSET Instances

OnceBusy == {w \in OnceWorkers : onceRequest[w] # NoMap}
LoopBusy == {w \in LoopWorkers : loopRequest[w] # NoMap}

OnceUpdating(w) == oncePc[w] \in {"update", "instances"}
LoopUpdating(w) == loopPc[w] = "update"

(* The atomic counters of MapUpdater equal the number of requests that are *)
(* queued or held by a thread, whatever the interleaving of schedule_update*)
(* (world thread and once workers), the pops and the *MapFinished calls;   *)
(* in particular the ASSERT(pending > 0) of the latter never fails.        *)
PendingCountsRequests ==
    /\ pending_once_maps = Len(once_queue) + Cardinality(OnceBusy)
    /\ pending_loop_maps = Len(loop_queue) + Cardinality(LoopBusy)

(* The ASSERT(request) of both thread functions holds: a thread that pops  *)
(* null from a cancelled queue always sees the cancelation token and       *)
(* leaves, because deactivate sets it before it cancels the queues.        *)
RequestHeld ==
    /\ \A w \in OnceWorkers :
           oncePc[w] \in {"update", "instances", "finish"} => onceRequest[w] # NoMap
    /\ \A w \in LoopWorkers :
           loopPc[w] \in {"update", "called", "repush", "finish"} => loopRequest[w] # NoMap

(* No two pool threads run Map::Update on the same map at the same time,   *)
(* although instances are pushed back to the queue while the continents    *)
(* are updated and are scheduled again by every tick.                      *)
ExclusiveUpdate ==
    /\ \A v, w \in OnceWorkers :
           v # w /\ OnceUpdating(v) /\ OnceUpdating(w) => onceRequest[v] # onceRequest[w]
    /\ \A v, w \in LoopWorkers :
           v # w /\ LoopUpdating(v) /\ LoopUpdating(w) => loopRequest[v] # loopRequest[w]

(* A request in a queue or in a thread's hands refers to a live map:       *)
(* MapInstanced::Update destroys an instance while the loop workers run,   *)
(* and UnloadAll deletes every map before it deactivates the updater.      *)
NoDanglingRequest ==
    /\ \A k \in 1 .. Len(loop_queue) : loop_queue[k] \in instancedMaps
    /\ \A w \in LoopBusy : loopRequest[w] \in instancedMaps
    /\ once_queue # <<>> \/ OnceBusy # {} => baseMapsLoaded

(* While the world thread runs sessions, creates instances, calls          *)
(* DelayedUpdate or deletes maps, no pool thread holds or can pop a        *)
(* request: the world thread has the maps to itself.                       *)
WorldThreadAlone ==
    mainPc \notin {"schedule", "enable", "waitOnces", "sleepOnces", "disable",
                   "waitLoops", "sleepLoops"} =>
        once_queue = <<>> /\ loop_queue = <<>> /\ OnceBusy = {} /\ LoopBusy = {}

(* When a tick reaches DelayedUpdate every map of i_maps was updated       *)
(* exactly once and every instance its MapInstanced scheduled was updated  *)
(* at least once, also if the loop flag was switched around its pop.       *)
TickCoversMaps ==
    mainPc = "delayed" =>
        /\ \A m \in OnceMaps : updates[m] = 1
        /\ \A i \in scheduled : updates[i] > 0

(* "This will ensure once_map_workerThreads match the pending_once_maps    *)
(* count" (MapUpdater.h): there is a thread for every pending once map, so *)
(* no continent waits for another one's update.                            *)
ThreadPerOnceMap ==
    mainPc \notin {"joinLoop", "stopped"} =>
        pending_once_maps <= once_maps_workerThreads

(* A tick that started ends: waitUpdateOnces and waitUpdateLoops return,   *)
(* the loop workers stop re-enqueuing, no wakeup is lost.                  *)
TickTerminates == mainPc = "schedule" ~> mainPc = "idle"

(* deactivate returns: every thread sees the cancelled queue and exits.    *)
ShutdownTerminates == mainPc = "cancelToken" ~> mainPc = "stopped"
=============================================================================
