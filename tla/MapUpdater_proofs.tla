------------------------- MODULE MapUpdater_proofs -------------------------
(***************************************************************************)
(* Theorems about MapUpdater, for any number of continents, base maps,     *)
(* instances and loop workers.                                             *)
(***************************************************************************)
EXTENDS MapUpdater, FiniteSetTheorems, TLAPS

(* A thread that waits, or was never spawned, holds no request.            *)
WaitingHoldsNothing ==
    /\ \A w \in OnceWorkers : oncePc[w] \in {"none", "wait"} => onceRequest[w] = NoMap
    /\ \A w \in LoopWorkers : loopPc[w] = "wait" => loopRequest[w] = NoMap

(* A queue is cancelled, and hence a null request popped, only after the   *)
(* cancelation token was set.                                              *)
TokenBeforeCancel ==
    /\ onceShutdown \/ loopShutdown => cancelationToken
    /\ mainPc \in {"cancelLoop", "cancelOnce"} => cancelationToken
    /\ \A w \in OnceWorkers :
           oncePc[w] = "popped" /\ onceRequest[w] = NoMap => cancelationToken
    /\ \A w \in LoopWorkers :
           loopPc[w] = "popped" /\ loopRequest[w] = NoMap => cancelationToken

(* Where the world thread is bounds what may be pending.                   *)
PendingByPhase ==
    /\ mainPc \notin {"schedule", "enable", "waitOnces", "sleepOnces"} =>
           pending_once_maps = 0
    /\ mainPc \notin {"schedule", "enable", "waitOnces", "sleepOnces",
                      "disable", "waitLoops", "sleepLoops"} =>
           pending_loop_maps = 0

(* Until the threads are joined, the places of the vector beyond its size  *)
(* are threads that were never spawned.                                    *)
UnspawnedBeyondSize ==
    mainPc \notin {"joinLoop", "stopped"} =>
        \A w \in OnceWorkers : w > once_maps_workerThreads => oncePc[w] = "none"

ControlInv ==
    /\ TypeOK
    /\ RequestHeld
    /\ WaitingHoldsNothing
    /\ TokenBeforeCancel
    /\ PendingByPhase
    /\ UnspawnedBeyondSize
    /\ ThreadPerOnceMap

IndInv == ControlInv /\ PendingCountsRequests

-----------------------------------------------------------------------------
(* The sets of threads are finite, so Cardinality counts them.             *)
LEMMA ThreadsFinite ==
    /\ IsFiniteSet(OnceWorkers)
    /\ IsFiniteSet(LoopWorkers)
    /\ IsFiniteSet(OnceBusy)
    /\ IsFiniteSet(LoopBusy)
    /\ Cardinality(OnceBusy) \in Nat
    /\ Cardinality(LoopBusy) \in Nat
<1>1. Cardinality(OnceMaps) \in Nat
  BY MapsAssumption, FS_CardinalityType
<1>2. IsFiniteSet(OnceWorkers)
  BY <1>1, FS_Interval DEF OnceWorkers
<1>3. IsFiniteSet(LoopWorkers)
  BY WorkersAssumption
<1>4. IsFiniteSet(OnceBusy) /\ IsFiniteSet(LoopBusy)
  <2>1. OnceBusy \subseteq OnceWorkers /\ LoopBusy \subseteq LoopWorkers
    BY DEF OnceBusy, LoopBusy
  <2> QED  BY <2>1, <1>2, <1>3, FS_Subset
<1> QED  BY <1>2, <1>3, <1>4, FS_CardinalityType

(* A thread that holds a request accounts for one pending map.             *)
LEMMA HeldIsPending ==
  ASSUME IndInv
  PROVE  /\ \A w \in OnceWorkers : onceRequest[w] # NoMap => pending_once_maps > 0
         /\ \A w \in LoopWorkers : loopRequest[w] # NoMap => pending_loop_maps > 0
<1>1. /\ Len(once_queue) \in Nat
      /\ Len(loop_queue) \in Nat
  BY DEF IndInv, ControlInv, TypeOK
<1>2. ASSUME NEW w \in OnceWorkers, onceRequest[w] # NoMap
      PROVE  pending_once_maps > 0
  <2>1. OnceBusy # {}
    BY <1>2 DEF OnceBusy
  <2>2. Cardinality(OnceBusy) # 0
    BY <2>1, ThreadsFinite, FS_EmptySet
  <2> QED  BY <2>2, <1>1, ThreadsFinite DEF IndInv, PendingCountsRequests
<1>3. ASSUME NEW w \in LoopWorkers, loopRequest[w] # NoMap
      PROVE  pending_loop_maps > 0
  <2>1. LoopBusy # {}
    BY <1>3 DEF LoopBusy
  <2>2. Cardinality(LoopBusy) # 0
    BY <2>1, ThreadsFinite, FS_EmptySet
  <2> QED  BY <2>2, <1>1, ThreadsFinite DEF IndInv, PendingCountsRequests
<1> QED  BY <1>2, <1>3

-----------------------------------------------------------------------------
(* Every step keeps the control part.                                      *)
LEMMA ControlStep ==
  ASSUME IndInv, [Next]_vars
  PROVE  ControlInv'
<1> USE DEF IndInv, ControlInv, TypeOK, RequestHeld, WaitingHoldsNothing,
            TokenBeforeCancel, PendingByPhase, ThreadPerOnceMap, UnspawnedBeyondSize,
            MainPcs, OncePcs, LoopPcs, mainVars, queueVars, countVars,
            flagVars, onceVars, loopVars, histVars
<1> USE MapsAssumption, HeldIsPending
<1>a. OnceWorkers \subseteq Nat
  BY FS_CardinalityType DEF OnceWorkers
<1>b. NoMap \notin OnceMaps /\ NoMap \notin Instances
  BY DEF Maps
<1>1. ASSUME NEW i \in Instances, CreateInstance(i)
      PROVE  ControlInv'
  BY <1>1 DEF CreateInstance
<1>2. CASE BeginTick
  BY <1>2 DEF BeginTick
<1>3. ASSUME NEW m \in OnceMaps, ScheduleBaseMap(m)
      PROVE  ControlInv'
  BY <1>3, <1>a DEF ScheduleBaseMap, ScheduleOnce, SpawnMissingOnceUpdateThreads, ThreadsNeeded
<1>4. CASE EndSchedule
  BY <1>4 DEF EndSchedule
<1>5. CASE EnableUpdateLoop
  BY <1>5 DEF EnableUpdateLoop
<1>6. CASE WaitUpdateOnces
  BY <1>6 DEF WaitUpdateOnces, StillPending
<1>7. CASE WaitUpdateLoops
  BY <1>7 DEF WaitUpdateLoops, StillPending
<1>8. CASE SpuriousWakeup
  BY <1>8 DEF SpuriousWakeup
<1>9. CASE DelayedUpdate
  BY <1>9 DEF DelayedUpdate
<1>10. CASE UnloadAll
  BY <1>10 DEF UnloadAll
<1>11. CASE SetCancelationToken
  BY <1>11 DEF SetCancelationToken
<1>12. CASE CancelLoopQueue
  BY <1>12 DEF CancelLoopQueue
<1>13. CASE CancelOnceQueue
  BY <1>13 DEF CancelOnceQueue
<1>14. CASE JoinThreads
  BY <1>14 DEF JoinThreads
<1>15. ASSUME NEW w \in OnceWorkers, OnceWaitAndPop(w)
      PROVE  ControlInv'
  <2>1. CASE once_queue = <<>> \/ onceShutdown
    BY <1>15, <2>1 DEF OnceWaitAndPop
  <2>2. CASE ~(once_queue = <<>> \/ onceShutdown)
    <3>1. Head(once_queue) \in OnceMaps /\ Head(once_queue) # NoMap /\ Tail(once_queue) \in Seq(OnceMaps)
      BY <2>2, <1>b
    <3>2. /\ oncePc[w] = "wait"
          /\ oncePc' = [oncePc EXCEPT ![w] = "popped"]
          /\ onceRequest' = [onceRequest EXCEPT ![w] = Head(once_queue)]
          /\ once_queue' = Tail(once_queue)
          /\ UNCHANGED <<mainVars, loop_queue, onceShutdown, loopShutdown, countVars,
                       flagVars, instancesLeft, loopVars, histVars>>
      BY <1>15, <2>2 DEF OnceWaitAndPop, Popped
    <3>3. TypeOK'
      BY <3>1, <3>2
    <3> QED  BY <2>2, <3>1, <3>2, <3>3
  <2> QED  BY <2>1, <2>2
<1>16. ASSUME NEW w \in OnceWorkers, OnceStop(w)
      PROVE  ControlInv'
  BY <1>16 DEF OnceStop, OnceMapFinished
<1>17. ASSUME NEW w \in OnceWorkers, OnceCall(w)
      PROVE  ControlInv'
  BY <1>17 DEF OnceCall
<1>18. ASSUME NEW w \in OnceWorkers, OnceUpdated(w)
      PROVE  ControlInv'
  <2>1. updates' \in [Maps -> 0 .. 2]
    <3>1. Bump(updates[onceRequest[w]]) \in 0 .. 2
      BY DEF Bump
    <3>2. updates' = [updates EXCEPT ![onceRequest[w]] = Bump(updates[onceRequest[w]])]
      BY <1>18 DEF OnceUpdated
    <3> QED  BY <3>1, <3>2
  <2>2. InstancesOf(onceRequest[w]) \in SUBSET Instances
    BY DEF InstancesOf
  <2>3. /\ oncePc[w] = "update"
        /\ UNCHANGED <<mainVars, queueVars, countVars, flagVars, onceRequest,
                       loopVars, scheduled>>
    BY <1>18 DEF OnceUpdated
  <2>4. CASE onceRequest[w] \in BaseMaps
    <3>1. /\ oncePc' = [oncePc EXCEPT ![w] = "instances"]
          /\ instancesLeft' = [instancesLeft EXCEPT ![w] = InstancesOf(onceRequest[w])]
      BY <1>18, <2>4 DEF OnceUpdated
    <3>2. TypeOK'
      BY <2>1, <2>2, <2>3, <3>1
    <3> QED  BY <2>3, <3>1, <3>2
  <2>5. CASE onceRequest[w] \notin BaseMaps
    <3>1. /\ oncePc' = [oncePc EXCEPT ![w] = "finish"]
          /\ UNCHANGED instancesLeft
      BY <1>18, <2>5 DEF OnceUpdated
    <3>2. TypeOK'
      BY <2>1, <2>3, <3>1
    <3> QED  BY <2>3, <3>1, <3>2
  <2> QED  BY <2>4, <2>5
<1>19. ASSUME NEW w \in OnceWorkers, NEW i \in Instances, DestroyInstance(w, i)
      PROVE  ControlInv'
  BY <1>19 DEF DestroyInstance
<1>20. ASSUME NEW w \in OnceWorkers, NEW i \in Instances, SkipInstance(w, i)
      PROVE  ControlInv'
  BY <1>20 DEF SkipInstance
<1>21. ASSUME NEW w \in OnceWorkers, NEW i \in Instances, ScheduleInstance(w, i)
      PROVE  ControlInv'
  <2>1. mainPc \notin {"joinLoop", "stopped"}
    BY <1>21 DEF ScheduleInstance
  <2>2. pending_once_maps <= once_maps_workerThreads
    BY <2>1
  <2>3. once_maps_workerThreads' = once_maps_workerThreads
    BY <1>21, <2>2
       DEF ScheduleInstance, ScheduleLoop, SpawnMissingOnceUpdateThreads, ThreadsNeeded
  <2>4. oncePc' = [v \in OnceWorkers |-> oncePc[v]]
    BY <1>21, <1>a, <2>2
       DEF ScheduleInstance, ScheduleLoop, SpawnMissingOnceUpdateThreads, ThreadsNeeded
  <2>5. oncePc' = oncePc
    BY <2>4
  <2>6. /\ instancesLeft' = [instancesLeft EXCEPT ![w] = @ \ {i}]
        /\ pending_loop_maps' = pending_loop_maps + 1
        /\ loop_queue' = Append(loop_queue, i)
        /\ scheduled' = scheduled \cup {i}
        /\ UNCHANGED <<mainVars, onceShutdown, loopShutdown, flagVars, onceRequest,
                       loopVars, updates, pending_once_maps, once_queue>>
    BY <1>21 DEF ScheduleInstance, ScheduleLoop
  <2>7. TypeOK'
    BY <2>3, <2>5, <2>6
  <2>8. mainPc \in {"schedule", "enable", "waitOnces", "sleepOnces"}
    BY <1>21 DEF ScheduleInstance
  <2> QED  BY <2>3, <2>5, <2>6, <2>7, <2>8
<1>22. ASSUME NEW w \in OnceWorkers, OnceInstancesDone(w)
      PROVE  ControlInv'
  BY <1>22 DEF OnceInstancesDone
<1>23. ASSUME NEW w \in OnceWorkers, OnceFinish(w)
      PROVE  ControlInv'
  BY <1>23 DEF OnceFinish, OnceMapFinished
<1>24. ASSUME NEW w \in LoopWorkers, LoopWaitAndPop(w)
      PROVE  ControlInv'
  <2>1. CASE loop_queue = <<>> \/ loopShutdown
    BY <1>24, <2>1 DEF LoopWaitAndPop
  <2>2. CASE ~(loop_queue = <<>> \/ loopShutdown)
    <3>1. Head(loop_queue) \in Instances /\ Head(loop_queue) # NoMap /\ Tail(loop_queue) \in Seq(Instances)
      BY <2>2, <1>b
    <3>2. /\ loopPc[w] = "wait"
          /\ loopPc' = [loopPc EXCEPT ![w] = "popped"]
          /\ loopRequest' = [loopRequest EXCEPT ![w] = Head(loop_queue)]
          /\ loop_queue' = Tail(loop_queue)
          /\ UNCHANGED <<mainVars, once_queue, onceShutdown, loopShutdown, countVars,
                       flagVars, onceVars, histVars>>
      BY <1>24, <2>2 DEF LoopWaitAndPop, Popped
    <3>3. TypeOK'
      BY <3>1, <3>2
    <3> QED  BY <2>2, <3>1, <3>2, <3>3
  <2> QED  BY <2>1, <2>2
<1>25. ASSUME NEW w \in LoopWorkers, LoopStop(w)
      PROVE  ControlInv'
  BY <1>25 DEF LoopStop, LoopMapFinished
<1>26. ASSUME NEW w \in LoopWorkers, LoopCall(w)
      PROVE  ControlInv'
  BY <1>26 DEF LoopCall, AfterLoopPop
<1>27. ASSUME NEW w \in LoopWorkers, LoopUpdated(w)
      PROVE  ControlInv'
  BY <1>27 DEF LoopUpdated, Bump, Maps
<1>28. ASSUME NEW w \in LoopWorkers, LoopReadFlag(w)
      PROVE  ControlInv'
  BY <1>28 DEF LoopReadFlag
<1>29. ASSUME NEW w \in LoopWorkers, LoopRepush(w)
      PROVE  ControlInv'
  BY <1>29 DEF LoopRepush
<1>30. ASSUME NEW w \in LoopWorkers, LoopFinish(w)
      PROVE  ControlInv'
  BY <1>30 DEF LoopFinish, LoopMapFinished
<1>31. CASE Stopped
  BY <1>31 DEF Stopped, vars
<1>32. CASE UNCHANGED vars
  BY <1>32 DEF vars
<1> QED
  BY <1>1, <1>2, <1>3, <1>4, <1>5, <1>6, <1>7, <1>8, <1>9, <1>10, <1>11, <1>12, <1>13, <1>14, <1>15, <1>16, <1>17, <1>18, <1>19, <1>20, <1>21, <1>22, <1>23, <1>24, <1>25, <1>26, <1>27, <1>28, <1>29, <1>30, <1>31, <1>32
     DEF Next, WorldThread, OnceWorkerThread, LoopWorkerThread

-----------------------------------------------------------------------------
(* How the set of threads that hold a request follows a change of one      *)
(* thread's request.                                                       *)
LEMMA OnceBusyChange ==
  ASSUME TypeOK, NEW w \in OnceWorkers, NEW r,
         onceRequest' = [onceRequest EXCEPT ![w] = r]
  PROVE  OnceBusy' = IF r = NoMap THEN OnceBusy \ {w} ELSE OnceBusy \cup {w}
BY DEF OnceBusy, TypeOK

(* The same for a loop worker.                                             *)
LEMMA LoopBusyChange ==
  ASSUME TypeOK, NEW w \in LoopWorkers, NEW r,
         loopRequest' = [loopRequest EXCEPT ![w] = r]
  PROVE  LoopBusy' = IF r = NoMap THEN LoopBusy \ {w} ELSE LoopBusy \cup {w}
BY DEF LoopBusy, TypeOK

(* The two halves of PendingCountsRequests.                                *)
OnceCounts == pending_once_maps = Len(once_queue) + Cardinality(OnceBusy)
LoopCounts == pending_loop_maps = Len(loop_queue) + Cardinality(LoopBusy)

(* A step that touches neither the once queue, nor the counter, nor a once *)
(* worker's request keeps the count.                                       *)
LEMMA OnceCountsUnchanged ==
  ASSUME OnceCounts, UNCHANGED <<pending_once_maps, once_queue, onceRequest>>
  PROVE  OnceCounts'
BY DEF OnceCounts, OnceBusy

(* The same for the loop queue.                                            *)
LEMMA LoopCountsUnchanged ==
  ASSUME LoopCounts, UNCHANGED <<pending_loop_maps, loop_queue, loopRequest>>
  PROVE  LoopCounts'
BY DEF LoopCounts, LoopBusy

(* Every step keeps pending_once_maps equal to the once requests there are:*)
(* schedule_update adds one to both sides, a pop moves a request from the  *)
(* queue to a thread, onceMapFinished takes one from both.                 *)
LEMMA OnceCountsStep ==
  ASSUME IndInv, [Next]_vars
  PROVE  OnceCounts'
<1> USE DEF IndInv, ControlInv
<1>a. /\ OnceCounts
      /\ TypeOK
      /\ pending_once_maps \in Nat /\ once_queue \in Seq(OnceMaps) /\ Len(once_queue) \in Nat
      /\ NoMap \notin OnceMaps
  BY MapsAssumption DEF PendingCountsRequests, OnceCounts, TypeOK, Maps
<1>b. /\ IsFiniteSet(OnceBusy)
      /\ Cardinality(OnceBusy) \in Nat
  BY ThreadsFinite
<1>c. ASSUME NEW w \in OnceWorkers, onceRequest[w] # NoMap,
             onceRequest' = [onceRequest EXCEPT ![w] = NoMap]
      PROVE  Cardinality(OnceBusy') = Cardinality(OnceBusy) - 1
  <2>1. OnceBusy' = OnceBusy \ {w} /\ w \in OnceBusy
    BY <1>a, <1>c, OnceBusyChange DEF OnceBusy
  <2> QED  BY <2>1, <1>b, FS_RemoveElement
<1>1. ASSUME NEW w \in OnceWorkers, OnceWaitAndPop(w)
      PROVE  OnceCounts'
  <2>1. onceRequest[w] = NoMap /\ w \notin OnceBusy
    BY <1>1 DEF OnceWaitAndPop, WaitingHoldsNothing, OnceBusy
  <2>2. CASE once_queue = <<>> \/ onceShutdown
    <3>1. OnceBusy' = OnceBusy \ {w}
      BY <1>1, <1>a, <2>2, OnceBusyChange DEF OnceWaitAndPop
    <3>2. OnceBusy' = OnceBusy
      BY <3>1, <2>1
    <3> QED  BY <1>1, <1>a, <2>2, <3>2 DEF OnceWaitAndPop, OnceCounts, countVars
  <2>3. CASE ~(once_queue = <<>> \/ onceShutdown)
    <3>1. /\ Head(once_queue) # NoMap
          /\ Len(Tail(once_queue)) = Len(once_queue) - 1
      BY <2>3, <1>a
    <3>2. OnceBusy' = OnceBusy \cup {w}
      BY <1>1, <1>a, <2>3, <3>1, OnceBusyChange DEF OnceWaitAndPop
    <3>3. Cardinality(OnceBusy') = Cardinality(OnceBusy) + 1
      BY <3>2, <2>1, <1>b, FS_AddElement
    <3>4. once_queue' = Tail(once_queue) /\ pending_once_maps' = pending_once_maps
      BY <1>1, <2>3 DEF OnceWaitAndPop, Popped, countVars
    <3> QED  BY <1>a, <1>b, <3>1, <3>3, <3>4 DEF OnceCounts
  <2> QED  BY <2>2, <2>3
<1>2. ASSUME NEW w \in OnceWorkers, OnceStop(w)
      PROVE  OnceCounts'
  <2>1. CASE onceRequest[w] # NoMap
    <3>1. Cardinality(OnceBusy') = Cardinality(OnceBusy) - 1
      BY <1>2, <1>c, <2>1 DEF OnceStop
    <3> QED
      BY <1>2, <1>a, <1>b, <2>1, <3>1
         DEF OnceStop, OnceMapFinished, OnceCounts, queueVars
  <2>2. CASE onceRequest[w] = NoMap
    <3>1. OnceBusy' = OnceBusy \ {w}
      BY <1>2, <1>a, OnceBusyChange DEF OnceStop
    <3>2. OnceBusy' = OnceBusy
      BY <2>2, <3>1 DEF OnceBusy
    <3> QED  BY <1>2, <1>a, <2>2, <3>2 DEF OnceStop, OnceCounts, countVars, queueVars
  <2> QED  BY <2>1, <2>2
<1>3. ASSUME NEW w \in OnceWorkers, OnceFinish(w)
      PROVE  OnceCounts'
  <2>1. onceRequest[w] # NoMap
    BY <1>3 DEF OnceFinish, RequestHeld
  <2>2. Cardinality(OnceBusy') = Cardinality(OnceBusy) - 1
    BY <1>3, <1>c, <2>1 DEF OnceFinish
  <2> QED
    BY <1>3, <1>a, <1>b, <2>2 DEF OnceFinish, OnceMapFinished, OnceCounts, queueVars
<1>4. CASE CancelOnceQueue
  <2>1. pending_once_maps = 0
    BY <1>4 DEF CancelOnceQueue, PendingByPhase
  <2>2. Len(once_queue) = 0
    BY <1>a, <1>b, <2>1 DEF OnceCounts
  <2>3. once_queue' = once_queue
    BY <1>4, <1>a, <2>2 DEF CancelOnceQueue
  <2> QED
    BY <1>4, <1>a, <2>3, OnceCountsUnchanged
       DEF CancelOnceQueue, countVars, onceVars, loopVars
<1>5. ASSUME NEW m \in OnceMaps, ScheduleBaseMap(m)
      PROVE  OnceCounts'
  <2>1. OnceBusy' = OnceBusy
    BY <1>5 DEF ScheduleBaseMap, OnceBusy
  <2>2. Len(Append(once_queue, m)) = Len(once_queue) + 1
    BY <1>a
  <2> QED
    BY <1>5, <1>a, <1>b, <2>1, <2>2 DEF ScheduleBaseMap, ScheduleOnce, OnceCounts
<1>6. ASSUME UNCHANGED <<pending_once_maps, once_queue, onceRequest>>
      PROVE  OnceCounts'
  BY <1>6, <1>a, OnceCountsUnchanged
<1> USE DEF mainVars, queueVars, countVars, flagVars, onceVars, loopVars, histVars
<1>7. CASE WorldThread
  BY <1>7, <1>4, <1>5, <1>6
     DEF WorldThread, CreateInstance, BeginTick, EndSchedule,
         EnableUpdateLoop, WaitUpdateOnces, WaitUpdateLoops, SpuriousWakeup,
         DelayedUpdate, UnloadAll, SetCancelationToken, CancelLoopQueue,
         JoinThreads
<1>8. ASSUME NEW w \in OnceWorkers, OnceWorkerThread(w)
      PROVE  OnceCounts'
  BY <1>8, <1>1, <1>2, <1>3, <1>6
     DEF OnceWorkerThread, OnceCall, OnceUpdated, DestroyInstance,
         SkipInstance, ScheduleInstance, ScheduleLoop, OnceInstancesDone
<1>9. ASSUME NEW w \in LoopWorkers, LoopWorkerThread(w)
      PROVE  OnceCounts'
  BY <1>9, <1>6
     DEF LoopWorkerThread, LoopWaitAndPop, LoopStop, LoopCall, LoopUpdated,
         LoopReadFlag, LoopRepush, LoopFinish, LoopMapFinished
<1> QED
  BY <1>6, <1>7, <1>8, <1>9 DEF Next, Stopped, vars


(* The same for pending_loop_maps; a loop worker that pushes its request   *)
(* back moves it from the thread to the queue.                             *)
LEMMA LoopCountsStep ==
  ASSUME IndInv, [Next]_vars
  PROVE  LoopCounts'
<1> USE DEF IndInv, ControlInv
<1>a. /\ LoopCounts
      /\ TypeOK
      /\ pending_loop_maps \in Nat /\ loop_queue \in Seq(Instances) /\ Len(loop_queue) \in Nat
      /\ NoMap \notin Instances
  BY MapsAssumption DEF PendingCountsRequests, LoopCounts, TypeOK, Maps
<1>b. /\ IsFiniteSet(LoopBusy)
      /\ Cardinality(LoopBusy) \in Nat
  BY ThreadsFinite
<1>c. ASSUME NEW w \in LoopWorkers, loopRequest[w] # NoMap,
             loopRequest' = [loopRequest EXCEPT ![w] = NoMap]
      PROVE  Cardinality(LoopBusy') = Cardinality(LoopBusy) - 1
  <2>1. LoopBusy' = LoopBusy \ {w} /\ w \in LoopBusy
    BY <1>a, <1>c, LoopBusyChange DEF LoopBusy
  <2> QED  BY <2>1, <1>b, FS_RemoveElement
<1>1. ASSUME NEW w \in LoopWorkers, LoopWaitAndPop(w)
      PROVE  LoopCounts'
  <2>1. loopRequest[w] = NoMap /\ w \notin LoopBusy
    BY <1>1 DEF LoopWaitAndPop, WaitingHoldsNothing, LoopBusy
  <2>2. CASE loop_queue = <<>> \/ loopShutdown
    <3>1. LoopBusy' = LoopBusy \ {w}
      BY <1>1, <1>a, <2>2, LoopBusyChange DEF LoopWaitAndPop
    <3>2. LoopBusy' = LoopBusy
      BY <3>1, <2>1
    <3> QED  BY <1>1, <1>a, <2>2, <3>2 DEF LoopWaitAndPop, LoopCounts, countVars
  <2>3. CASE ~(loop_queue = <<>> \/ loopShutdown)
    <3>1. /\ Head(loop_queue) # NoMap
          /\ Len(Tail(loop_queue)) = Len(loop_queue) - 1
      BY <2>3, <1>a
    <3>2. LoopBusy' = LoopBusy \cup {w}
      BY <1>1, <1>a, <2>3, <3>1, LoopBusyChange DEF LoopWaitAndPop
    <3>3. Cardinality(LoopBusy') = Cardinality(LoopBusy) + 1
      BY <3>2, <2>1, <1>b, FS_AddElement
    <3>4. loop_queue' = Tail(loop_queue) /\ pending_loop_maps' = pending_loop_maps
      BY <1>1, <2>3 DEF LoopWaitAndPop, Popped, countVars
    <3> QED  BY <1>a, <1>b, <3>1, <3>3, <3>4 DEF LoopCounts
  <2> QED  BY <2>2, <2>3
<1>2. ASSUME NEW w \in LoopWorkers, LoopStop(w)
      PROVE  LoopCounts'
  <2>1. CASE loopRequest[w] # NoMap
    <3>1. Cardinality(LoopBusy') = Cardinality(LoopBusy) - 1
      BY <1>2, <1>c, <2>1 DEF LoopStop
    <3> QED
      BY <1>2, <1>a, <1>b, <2>1, <3>1
         DEF LoopStop, LoopMapFinished, LoopCounts, queueVars
  <2>2. CASE loopRequest[w] = NoMap
    <3>1. LoopBusy' = LoopBusy \ {w}
      BY <1>2, <1>a, LoopBusyChange DEF LoopStop
    <3>2. LoopBusy' = LoopBusy
      BY <2>2, <3>1 DEF LoopBusy
    <3> QED  BY <1>2, <1>a, <2>2, <3>2 DEF LoopStop, LoopCounts, countVars, queueVars
  <2> QED  BY <2>1, <2>2
<1>3. ASSUME NEW w \in LoopWorkers, LoopFinish(w)
      PROVE  LoopCounts'
  <2>1. loopRequest[w] # NoMap
    BY <1>3 DEF LoopFinish, RequestHeld
  <2>2. Cardinality(LoopBusy') = Cardinality(LoopBusy) - 1
    BY <1>3, <1>c, <2>1 DEF LoopFinish
  <2> QED
    BY <1>3, <1>a, <1>b, <2>2 DEF LoopFinish, LoopMapFinished, LoopCounts, queueVars
<1>4. CASE CancelLoopQueue
  <2>1. pending_loop_maps = 0
    BY <1>4 DEF CancelLoopQueue, PendingByPhase
  <2>2. Len(loop_queue) = 0
    BY <1>a, <1>b, <2>1 DEF LoopCounts
  <2>3. loop_queue' = loop_queue
    BY <1>4, <1>a, <2>2 DEF CancelLoopQueue
  <2> QED
    BY <1>4, <1>a, <2>3, LoopCountsUnchanged
       DEF CancelLoopQueue, countVars, onceVars, loopVars
<1>5. ASSUME NEW w \in OnceWorkers, NEW i \in Instances, ScheduleInstance(w, i)
      PROVE  LoopCounts'
  <2>1. LoopBusy' = LoopBusy
    BY <1>5 DEF ScheduleInstance, LoopBusy, loopVars
  <2>2. Len(Append(loop_queue, i)) = Len(loop_queue) + 1
    BY <1>a
  <2> QED
    BY <1>5, <1>a, <1>b, <2>1, <2>2 DEF ScheduleInstance, ScheduleLoop, LoopCounts
<1>6. ASSUME NEW w \in LoopWorkers, LoopRepush(w)
      PROVE  LoopCounts'
  <2>1. loopRequest[w] # NoMap /\ loopRequest[w] \in Instances
    BY <1>6 DEF LoopRepush, RequestHeld, TypeOK
  <2>2. Cardinality(LoopBusy') = Cardinality(LoopBusy) - 1
    BY <1>6, <1>c, <2>1 DEF LoopRepush
  <2>3. Len(Append(loop_queue, loopRequest[w])) = Len(loop_queue) + 1
    BY <1>a, <2>1
  <2> QED
    BY <1>6, <1>a, <1>b, <2>2, <2>3 DEF LoopRepush, LoopCounts, countVars
<1>7. ASSUME UNCHANGED <<pending_loop_maps, loop_queue, loopRequest>>
      PROVE  LoopCounts'
  BY <1>7, <1>a, LoopCountsUnchanged
<1> USE DEF mainVars, queueVars, countVars, flagVars, onceVars, loopVars, histVars
<1>8. CASE WorldThread
  BY <1>8, <1>4, <1>7
     DEF WorldThread, CreateInstance, BeginTick, ScheduleBaseMap, ScheduleOnce,
         EndSchedule, EnableUpdateLoop, WaitUpdateOnces, WaitUpdateLoops,
         SpuriousWakeup, DelayedUpdate, UnloadAll, SetCancelationToken,
         CancelOnceQueue, JoinThreads
<1>9. ASSUME NEW w \in OnceWorkers, OnceWorkerThread(w)
      PROVE  LoopCounts'
  BY <1>9, <1>5, <1>7
     DEF OnceWorkerThread, OnceWaitAndPop, OnceStop, OnceCall, OnceUpdated,
         DestroyInstance, SkipInstance, OnceInstancesDone, OnceFinish,
         OnceMapFinished
<1>10. ASSUME NEW w \in LoopWorkers, LoopWorkerThread(w)
      PROVE  LoopCounts'
  BY <1>10, <1>1, <1>2, <1>3, <1>6, <1>7
     DEF LoopWorkerThread, LoopCall, LoopUpdated, LoopReadFlag
<1> QED
  BY <1>7, <1>8, <1>9, <1>10 DEF Next, Stopped, vars

-----------------------------------------------------------------------------
(* activate() establishes the invariant: no request, both counters 0.      *)
LEMMA InitInv == Init => IndInv
<1> SUFFICES ASSUME Init PROVE IndInv
  OBVIOUS
<1>1. TypeOK
  <2>1. /\ oncePc \in [OnceWorkers -> OncePcs]
        /\ onceRequest \in [OnceWorkers -> OnceMaps \cup {NoMap}]
        /\ instancesLeft \in [OnceWorkers -> SUBSET Instances]
        /\ loopPc \in [LoopWorkers -> LoopPcs]
        /\ loopRequest \in [LoopWorkers -> Instances \cup {NoMap}]
    BY DEF Init, OncePcs, LoopPcs
  <2>2. updates \in [Maps -> 0 .. 2]
    BY DEF Init
  <2>3. /\ mainPc \in MainPcs
        /\ once_queue \in Seq(OnceMaps)
        /\ loop_queue \in Seq(Instances)
    BY DEF Init, MainPcs
  <2> QED  BY <2>1, <2>2, <2>3 DEF Init, TypeOK
<1>2. ControlInv
  BY <1>1
     DEF Init, ControlInv, RequestHeld, WaitingHoldsNothing,
         TokenBeforeCancel, PendingByPhase, UnspawnedBeyondSize,
         ThreadPerOnceMap
<1>3. OnceBusy = {} /\ LoopBusy = {}
  BY DEF Init, OnceBusy, LoopBusy
<1>4. PendingCountsRequests
  BY <1>3, FS_EmptySet DEF Init, PendingCountsRequests
<1> QED  BY <1>2, <1>4 DEF IndInv

(* Every step of the world thread and of the pool threads keeps it.        *)
LEMMA StepInv == IndInv /\ [Next]_vars => IndInv'
<1> SUFFICES ASSUME IndInv, [Next]_vars PROVE IndInv'
  OBVIOUS
<1>1. PendingCountsRequests'
  BY OnceCountsStep, LoopCountsStep
     DEF PendingCountsRequests, OnceCounts, LoopCounts
<1> QED  BY <1>1, ControlStep DEF IndInv

(* The strengthened invariant holds throughout every behaviour.            *)
THEOREM Invariance == Spec => []IndInv
BY InitInv, StepInv, PTL DEF Spec

(* Type correctness of the whole state of the updater; that the counters   *)
(* stay natural numbers is the ASSERT(pending_once_maps > 0) and the       *)
(* ASSERT(pending_loop_maps > 0) of onceMapFinished and loopMapFinished.   *)
THEOREM TypeCorrect == Spec => []TypeOK
<1>1. IndInv => TypeOK
  BY DEF IndInv, ControlInv
<1> QED  BY <1>1, Invariance, PTL

(* For any number of maps and threads, the two counters that waitUpdate-   *)
(* Onces and waitUpdateLoops sleep on count exactly the requests that are  *)
(* queued or being executed.                                               *)
THEOREM PendingCounts == Spec => []PendingCountsRequests
<1>1. IndInv => PendingCountsRequests
  BY DEF IndInv
<1> QED  BY <1>1, Invariance, PTL

(* The ASSERT(request) of OnceWorkerThread and LoopWorkerThread never      *)
(* fails.                                                                  *)
THEOREM NeverCallsNull == Spec => []RequestHeld
<1>1. IndInv => RequestHeld
  BY DEF IndInv, ControlInv
<1> QED  BY <1>1, Invariance, PTL

(* spawnMissingOnceUpdateThreads keeps a thread for every pending map.     *)
THEOREM EnoughOnceThreads == Spec => []ThreadPerOnceMap
<1>1. IndInv => ThreadPerOnceMap
  BY DEF IndInv, ControlInv
<1> QED  BY <1>1, Invariance, PTL

(* Outside the update phase the world thread has the maps to itself: when  *)
(* waitUpdateLoops has returned, no request is queued or in a thread's     *)
(* hands, until the next tick schedules one.                               *)
THEOREM WorldThreadIsAlone == Spec => []WorldThreadAlone
<1>1. IndInv => WorldThreadAlone
  <2> SUFFICES ASSUME IndInv,
                      mainPc \notin {"schedule", "enable", "waitOnces",
                                     "sleepOnces", "disable", "waitLoops",
                                     "sleepLoops"}
               PROVE  /\ once_queue = <<>> /\ loop_queue = <<>>
                      /\ OnceBusy = {} /\ LoopBusy = {}
    BY DEF WorldThreadAlone
  <2>1. pending_once_maps = 0 /\ pending_loop_maps = 0
    BY DEF IndInv, ControlInv, PendingByPhase
  <2>2. /\ Len(once_queue) = 0 /\ Cardinality(OnceBusy) = 0
        /\ Len(loop_queue) = 0 /\ Cardinality(LoopBusy) = 0
    BY <2>1, ThreadsFinite
       DEF IndInv, ControlInv, TypeOK, PendingCountsRequests
  <2>3. once_queue = <<>> /\ loop_queue = <<>>
    BY <2>2 DEF IndInv, ControlInv, TypeOK
  <2>4. OnceBusy = {} /\ LoopBusy = {}
    BY <2>2, ThreadsFinite, FS_EmptySet
  <2> QED  BY <2>3, <2>4
<1> QED  BY <1>1, Invariance, PTL

-----------------------------------------------------------------------------
(* Where the requests are: a map is in one place at a time.  From this     *)
(* follow that no two threads are in one map, that no thread comes to a    *)
(* map that was destroyed, and that a tick updates every map.              *)

In(q, m)    == \E k \in 1 .. Len(q) : q[k] = m
Distinct(q) == \A j, k \in 1 .. Len(q) : q[j] = q[k] => j = k

TickPcs ==
    {"schedule", "enable", "waitOnces", "sleepOnces", "disable", "waitLoops", "sleepLoops"}

(* A request is in one queue, once, or in the hands of one thread, and a   *)
(* map that is still to be scheduled in this tick is in none of them.      *)
OncePlaces ==
    /\ Distinct(once_queue)
    /\ \A w \in OnceBusy : ~In(once_queue, onceRequest[w])
    /\ \A v, w \in OnceBusy : onceRequest[v] = onceRequest[w] => v = w
    /\ mainPc = "schedule" => \A m \in toSchedule :
           ~In(once_queue, m) /\ \A w \in OnceWorkers : onceRequest[w] # m

LoopPlaces ==
    /\ Distinct(loop_queue)
    /\ \A w \in LoopBusy : ~In(loop_queue, loopRequest[w])
    /\ \A v, w \in LoopBusy : loopRequest[v] = loopRequest[w] => v = w

(* A map whose update in this tick has not ended, and an instance that     *)
(* loop workers may come to.                                               *)
ToCome(m) ==
    \/ mainPc = "schedule" /\ m \in toSchedule
    \/ In(once_queue, m)
    \/ \E w \in OnceWorkers : onceRequest[w] = m /\ oncePc[w] \in {"popped", "update"}

InLoop(i) == In(loop_queue, i) \/ \E w \in LoopWorkers : loopRequest[w] = i

(* Only its own MapInstanced schedules or destroys an instance, after its  *)
(* update and each once: until then no loop worker can come to it.         *)
InstancesInv ==
    /\ \A i \in Instances : ToCome(BaseOf[i]) => ~InLoop(i)
    /\ \A w \in OnceWorkers : oncePc[w] = "instances" => \A i \in instancesLeft[w] :
           BaseOf[i] = onceRequest[w] /\ i \in instancedMaps /\ ~InLoop(i)
    /\ \A i \in Instances : InLoop(i) => i \in instancedMaps

(* The maps are deleted, and the token set, after the last tick.           *)
ShutdownInv ==
    mainPc \in TickPcs \cup {"idle", "delayed"} =>
        baseMapsLoaded = TRUE /\ cancelationToken = FALSE

(* In a tick, a map was updated once or is still to come; an instance that *)
(* was scheduled was updated, or a loop worker will.                       *)
CoverInv ==
    mainPc \in TickPcs \cup {"delayed"} =>
        /\ \A m \in OnceMaps : updates[m] = IF ToCome(m) THEN 0 ELSE 1
        /\ \A i \in scheduled :
              \/ updates[i] > 0
              \/ In(loop_queue, i)
              \/ \E w \in LoopWorkers : loopRequest[w] = i /\ loopPc[w] \in {"popped", "update"}

PlacesInv == OncePlaces /\ LoopPlaces /\ InstancesInv /\ ShutdownInv /\ CoverInv

-----------------------------------------------------------------------------
(* What the ends of a queue mean for its contents.                         *)
LEMMA AppendPlaces ==
    ASSUME NEW S, NEW q \in Seq(S), NEW x \in S, Distinct(q), ~In(q, x)
    PROVE  /\ Distinct(Append(q, x))
           /\ \A m : In(Append(q, x), m) <=> In(q, m) \/ m = x
<1>1. /\ Len(Append(q, x)) = Len(q) + 1 /\ Len(q) \in Nat
      /\ \A k \in 1 .. Len(q) : Append(q, x)[k] = q[k]
      /\ Append(q, x)[Len(q) + 1] = x
  OBVIOUS
<1>2. 1 .. Len(q) + 1 = (1 .. Len(q)) \cup {Len(q) + 1}
  BY <1>1
<1> QED
  BY <1>1, <1>2 DEF Distinct, In

LEMMA TailPlaces ==
    ASSUME NEW S, NEW q \in Seq(S), q # <<>>, Distinct(q)
    PROVE  /\ In(q, Head(q)) /\ Head(q) \in S
           /\ Distinct(Tail(q))
           /\ \A m : In(Tail(q), m) <=> In(q, m) /\ m # Head(q)
<1>1. /\ Len(q) \in Nat \ {0} /\ Len(Tail(q)) = Len(q) - 1 /\ Head(q) = q[1]
      /\ \A k \in 1 .. Len(q) - 1 : Tail(q)[k] = q[k + 1]
  OBVIOUS
<1>2. In(q, Head(q)) /\ Head(q) \in S
  BY <1>1 DEF In
<1>3. Distinct(Tail(q))
  BY <1>1 DEF Distinct
<1>4. ASSUME NEW m, In(Tail(q), m) PROVE In(q, m) /\ m # Head(q)
  <2>1. PICK k \in 1 .. Len(q) - 1 : Tail(q)[k] = m
    BY <1>1, <1>4 DEF In
  <2>2. q[k + 1] = m /\ k + 1 \in 1 .. Len(q) /\ k + 1 # 1
    BY <1>1, <2>1
  <2> QED
    BY <1>1, <2>2 DEF In, Distinct
<1>5. ASSUME NEW m, In(q, m), m # Head(q) PROVE In(Tail(q), m)
  <2>1. PICK k \in 1 .. Len(q) : q[k] = m
    BY <1>5 DEF In
  <2>2. k # 1 /\ k - 1 \in 1 .. Len(q) - 1
    BY <1>1, <1>5, <2>1
  <2>3. Tail(q)[k - 1] = m
    BY <1>1, <2>1, <2>2
  <2> QED
    BY <1>1, <2>2, <2>3 DEF In
<1> QED
  BY <1>2, <1>3, <1>4, <1>5

LEMMA EmptyPlaces == Distinct(<<>>) /\ \A m : ~In(<<>>, m)
BY DEF Distinct, In

(* Requests are maps of the right kind.                                    *)
LEMMA Kinds ==
    ASSUME IndInv
    PROVE  /\ NoMap \notin OnceMaps /\ NoMap \notin Instances
           /\ \A i \in Instances : BaseOf[i] \in BaseMaps /\ BaseOf[i] \in OnceMaps
           /\ \A m \in OnceMaps : m \notin Instances /\ m \in Maps
           /\ \A i \in Instances : i \in Maps
           /\ \A w \in OnceWorkers : onceRequest[w] \in OnceMaps \cup {NoMap}
           /\ \A w \in LoopWorkers : loopRequest[w] \in Instances \cup {NoMap}
           /\ \A w \in OnceWorkers :
                 oncePc[w] \in {"update", "instances", "finish"} =>
                          onceRequest[w] # NoMap
           /\ \A w \in LoopWorkers :
                 loopPc[w] \in {"update", "called", "repush", "finish"} =>
                          loopRequest[w] # NoMap
           /\ \A w \in OnceWorkers : oncePc[w] \in {"none", "wait"} =>
                    onceRequest[w] = NoMap
           /\ \A w \in LoopWorkers : loopPc[w] = "wait" => loopRequest[w] = NoMap
           /\ \A w \in OnceWorkers : instancesLeft[w] \subseteq Instances
           /\ instancedMaps \subseteq Instances
           /\ updates \in [Maps -> 0 .. 2]
           /\ once_queue \in Seq(OnceMaps) /\ loop_queue \in Seq(Instances)
           /\ scheduled \subseteq Instances /\ toSchedule \subseteq OnceMaps
BY MapsAssumption
   DEF IndInv, ControlInv, TypeOK, RequestHeld, WaitingHoldsNothing, OnceMaps, Maps

(* Between ticks there is no request.                                      *)
LEMMA NothingBetweenTicks ==
    ASSUME IndInv, mainPc \notin TickPcs
    PROVE  /\ once_queue = <<>> /\ loop_queue = <<>>
           /\ \A w \in OnceWorkers : onceRequest[w] = NoMap
           /\ \A w \in LoopWorkers : loopRequest[w] = NoMap
<1>1. pending_once_maps = 0 /\ pending_loop_maps = 0
  BY DEF IndInv, ControlInv, PendingByPhase, TickPcs
<1>2. /\ Len(once_queue) = 0 /\ Cardinality(OnceBusy) = 0
      /\ Len(loop_queue) = 0 /\ Cardinality(LoopBusy) = 0
  BY <1>1, ThreadsFinite DEF IndInv, ControlInv, TypeOK, PendingCountsRequests
<1>3. once_queue = <<>> /\ loop_queue = <<>>
  BY <1>2 DEF IndInv, ControlInv, TypeOK
<1>4. OnceBusy = {} /\ LoopBusy = {}
  BY <1>2, ThreadsFinite, FS_EmptySet
<1> QED
  BY <1>3, <1>4 DEF OnceBusy, LoopBusy

USE DEF mainVars, queueVars, countVars, flagVars, onceVars, loopVars, histVars

-----------------------------------------------------------------------------
(* Each step keeps the requests in their places: one lemma per action, one *)
(* step of its proof per conjunct.                                         *)

(* A new instance is nowhere yet.                                          *)
LEMMA CreateInstancePlaces ==
    ASSUME IndInv, IndInv', PlacesInv, NEW i \in Instances, CreateInstance(i)
    PROVE  PlacesInv'
<1>1. OncePlaces'
  BY Kinds DEF PlacesInv, OncePlaces, OnceBusy, CreateInstance
<1>2. LoopPlaces'
  BY Kinds DEF PlacesInv, LoopPlaces, LoopBusy, CreateInstance
<1>3. InstancesInv'
  BY Kinds
     DEF PlacesInv, OncePlaces, LoopPlaces, InstancesInv, OnceBusy, LoopBusy, ToCome,
         InLoop, CreateInstance
<1>4. ShutdownInv'
  BY Kinds DEF PlacesInv, ShutdownInv, TickPcs, CreateInstance
<1>5. CoverInv'
  BY Kinds
     DEF PlacesInv, OncePlaces, LoopPlaces, ShutdownInv, CoverInv, TickPcs, OnceBusy,
         LoopBusy, ToCome, CreateInstance
<1> QED
  BY <1>1, <1>2, <1>3, <1>4, <1>5 DEF PlacesInv

(* A tick begins with nothing pending.                                     *)
LEMMA BeginTickPlaces ==
    ASSUME IndInv, IndInv', PlacesInv, BeginTick
    PROVE  PlacesInv'
<1>a. mainPc = "idle" /\ mainPc \notin TickPcs
  BY DEF BeginTick, TickPcs
<1>b. /\ once_queue = <<>> /\ loop_queue = <<>>
      /\ \A w \in OnceWorkers : onceRequest[w] = NoMap
      /\ \A w \in LoopWorkers : loopRequest[w] = NoMap
  BY <1>a, NothingBetweenTicks
<1>c. \A w \in OnceWorkers : oncePc[w] # "instances"
  BY <1>b, Kinds
<1>d. once_queue' = <<>> /\ loop_queue' = <<>> /\ UNCHANGED <<onceVars, loopVars>>
  BY <1>b DEF BeginTick
<1>1. OncePlaces'
  BY <1>b, <1>d, EmptyPlaces, Kinds DEF OncePlaces, OnceBusy, BeginTick
<1>2. LoopPlaces'
  BY Kinds, NothingBetweenTicks, EmptyPlaces, <1>a, <1>b, <1>c, <1>d
     DEF PlacesInv, LoopPlaces, LoopBusy, BeginTick
<1>3. InstancesInv'
  <2>1. \A i \in Instances : ~InLoop(i)'
    BY <1>b, <1>d, EmptyPlaces, Kinds DEF InLoop
  <2> QED
    BY <1>c, <1>d, <2>1 DEF InstancesInv
<1>4. ShutdownInv'
  BY Kinds, NothingBetweenTicks, EmptyPlaces, <1>a, <1>b, <1>c, <1>d
     DEF PlacesInv, ShutdownInv, TickPcs, BeginTick
<1>5. CoverInv'
  BY Kinds, NothingBetweenTicks, EmptyPlaces, <1>a, <1>b, <1>c, <1>d
     DEF PlacesInv, OncePlaces, LoopPlaces, ShutdownInv, CoverInv, TickPcs, OnceBusy,
         LoopBusy, ToCome, BeginTick
<1> QED
  BY <1>1, <1>2, <1>3, <1>4, <1>5 DEF PlacesInv

(* A map is scheduled once, as it was in no place before.                  *)
LEMMA ScheduleBaseMapPlaces ==
    ASSUME IndInv, IndInv', PlacesInv, NEW m \in OnceMaps, ScheduleBaseMap(m)
    PROVE  PlacesInv'
<1>a. m \in toSchedule /\ ~In(once_queue, m) /\ Distinct(once_queue)
  BY DEF ScheduleBaseMap, PlacesInv, OncePlaces
<1>b. /\ Distinct(once_queue')
      /\ \A k : In(once_queue', k) <=> In(once_queue, k) \/ k = m
  BY <1>a, Kinds, AppendPlaces DEF ScheduleBaseMap, ScheduleOnce
<1>c. \A w \in OnceWorkers :
         oncePc'[w] # oncePc[w] => oncePc'[w] = "wait" /\ onceRequest[w] = NoMap
  BY Kinds
     DEF ScheduleBaseMap, ScheduleOnce, SpawnMissingOnceUpdateThreads, IndInv, ControlInv,
         UnspawnedBeyondSize, TypeOK
<1>1. OncePlaces'
  BY Kinds, <1>a, <1>b, <1>c
     DEF PlacesInv, OncePlaces, OnceBusy, ScheduleBaseMap, ScheduleOnce,
         SpawnMissingOnceUpdateThreads
<1>2. LoopPlaces'
  BY Kinds, <1>a, <1>b, <1>c
     DEF PlacesInv, LoopPlaces, LoopBusy, ScheduleBaseMap, ScheduleOnce,
         SpawnMissingOnceUpdateThreads
<1>3. InstancesInv'
  BY Kinds, <1>a, <1>b, <1>c
     DEF PlacesInv, OncePlaces, LoopPlaces, InstancesInv, OnceBusy, LoopBusy, ToCome,
         InLoop, ScheduleBaseMap, ScheduleOnce, SpawnMissingOnceUpdateThreads
<1>4. ShutdownInv'
  BY Kinds, <1>a, <1>b, <1>c
     DEF PlacesInv, ShutdownInv, TickPcs, ScheduleBaseMap, ScheduleOnce,
         SpawnMissingOnceUpdateThreads
<1>5. CoverInv'
  BY Kinds, <1>a, <1>b, <1>c
     DEF PlacesInv, OncePlaces, LoopPlaces, ShutdownInv, CoverInv, TickPcs, OnceBusy,
         LoopBusy, ToCome, ScheduleBaseMap, ScheduleOnce,
         SpawnMissingOnceUpdateThreads
<1> QED
  BY <1>1, <1>2, <1>3, <1>4, <1>5 DEF PlacesInv

(* The rest of the world thread moves no request.                          *)
LEMMA WorldThreadGoesOnPlaces ==
    ASSUME IndInv, IndInv', PlacesInv,
           \/ EndSchedule \/ EnableUpdateLoop \/ WaitUpdateOnces \/ WaitUpdateLoops
           \/ SpuriousWakeup \/ DelayedUpdate \/ SetCancelationToken \/ JoinThreads
    PROVE  PlacesInv'
<1>1. OncePlaces'
  BY Kinds
     DEF PlacesInv, OncePlaces, OnceBusy, EndSchedule, EnableUpdateLoop,
         WaitUpdateOnces, WaitUpdateLoops, SpuriousWakeup, DelayedUpdate,
         SetCancelationToken, JoinThreads
<1>2. LoopPlaces'
  BY Kinds
     DEF PlacesInv, LoopPlaces, LoopBusy, EndSchedule, EnableUpdateLoop,
         WaitUpdateOnces, WaitUpdateLoops, SpuriousWakeup, DelayedUpdate,
         SetCancelationToken, JoinThreads
<1>3. InstancesInv'
  BY Kinds
     DEF PlacesInv, OncePlaces, LoopPlaces, InstancesInv, OnceBusy, LoopBusy, ToCome,
         InLoop, EndSchedule, EnableUpdateLoop, WaitUpdateOnces, WaitUpdateLoops,
         SpuriousWakeup, DelayedUpdate, SetCancelationToken, JoinThreads
<1>4. ShutdownInv'
  BY Kinds
     DEF PlacesInv, ShutdownInv, TickPcs, EndSchedule, EnableUpdateLoop,
         WaitUpdateOnces, WaitUpdateLoops, SpuriousWakeup, DelayedUpdate,
         SetCancelationToken, JoinThreads
<1>5. CoverInv'
  BY Kinds
     DEF PlacesInv, OncePlaces, LoopPlaces, ShutdownInv, CoverInv, TickPcs, OnceBusy,
         LoopBusy, ToCome, EndSchedule, EnableUpdateLoop, WaitUpdateOnces,
         WaitUpdateLoops, SpuriousWakeup, DelayedUpdate, SetCancelationToken,
         JoinThreads
<1> QED
  BY <1>1, <1>2, <1>3, <1>4, <1>5 DEF PlacesInv

(* The maps are deleted when there is no request.                          *)
LEMMA UnloadAllPlaces ==
    ASSUME IndInv, IndInv', PlacesInv, UnloadAll
    PROVE  PlacesInv'
<1>a. mainPc = "idle" /\ mainPc \notin TickPcs
  BY DEF UnloadAll, TickPcs
<1>b. /\ once_queue = <<>> /\ loop_queue = <<>>
      /\ \A w \in OnceWorkers : onceRequest[w] = NoMap
      /\ \A w \in LoopWorkers : loopRequest[w] = NoMap
  BY <1>a, NothingBetweenTicks
<1>c. \A w \in OnceWorkers : oncePc[w] # "instances"
  BY <1>b, Kinds
<1>d. once_queue' = <<>> /\ loop_queue' = <<>> /\ UNCHANGED <<onceVars, loopVars>>
  BY <1>b DEF UnloadAll
<1>1. OncePlaces'
  BY Kinds, NothingBetweenTicks, EmptyPlaces, <1>a, <1>b, <1>c, <1>d
     DEF PlacesInv, OncePlaces, OnceBusy, UnloadAll
<1>2. LoopPlaces'
  BY Kinds, NothingBetweenTicks, EmptyPlaces, <1>a, <1>b, <1>c, <1>d
     DEF PlacesInv, LoopPlaces, LoopBusy, UnloadAll
<1>3. InstancesInv'
  <2>1. \A i \in Instances : ~InLoop(i)'
    BY <1>b, <1>d, EmptyPlaces, Kinds DEF InLoop
  <2> QED
    BY <1>c, <1>d, <2>1 DEF InstancesInv
<1>4. ShutdownInv'
  BY Kinds, NothingBetweenTicks, EmptyPlaces, <1>a, <1>b, <1>c, <1>d
     DEF PlacesInv, ShutdownInv, TickPcs, UnloadAll
<1>5. CoverInv'
  BY Kinds, NothingBetweenTicks, EmptyPlaces, <1>a, <1>b, <1>c, <1>d
     DEF PlacesInv, OncePlaces, LoopPlaces, ShutdownInv, CoverInv, TickPcs, OnceBusy,
         LoopBusy, ToCome, UnloadAll
<1> QED
  BY <1>1, <1>2, <1>3, <1>4, <1>5 DEF PlacesInv

(* Cancelling a queue takes requests out of it.                            *)
LEMMA CancelQueuePlaces ==
    ASSUME IndInv, IndInv', PlacesInv, CancelLoopQueue \/ CancelOnceQueue
    PROVE  PlacesInv'
<1>1. OncePlaces'
  BY Kinds, EmptyPlaces
     DEF PlacesInv, OncePlaces, OnceBusy, CancelLoopQueue, CancelOnceQueue
<1>2. LoopPlaces'
  BY Kinds, EmptyPlaces
     DEF PlacesInv, LoopPlaces, LoopBusy, CancelLoopQueue, CancelOnceQueue
<1>3. InstancesInv'
  BY Kinds, EmptyPlaces
     DEF PlacesInv, OncePlaces, LoopPlaces, InstancesInv, OnceBusy, LoopBusy, ToCome,
         InLoop, CancelLoopQueue, CancelOnceQueue
<1>4. ShutdownInv'
  BY Kinds, EmptyPlaces
     DEF PlacesInv, ShutdownInv, TickPcs, CancelLoopQueue, CancelOnceQueue
<1>5. CoverInv'
  BY Kinds, EmptyPlaces
     DEF PlacesInv, OncePlaces, LoopPlaces, ShutdownInv, CoverInv, TickPcs, OnceBusy,
         LoopBusy, ToCome, CancelLoopQueue, CancelOnceQueue
<1> QED
  BY <1>1, <1>2, <1>3, <1>4, <1>5 DEF PlacesInv

(* A pop moves a request from a queue to a thread.                         *)
LEMMA OnceWaitAndPopPlaces ==
    ASSUME IndInv, IndInv', PlacesInv, NEW w \in OnceWorkers, OnceWaitAndPop(w)
    PROVE  PlacesInv'
<1>a. oncePc[w] = "wait" /\ onceRequest[w] = NoMap
  BY Kinds DEF OnceWaitAndPop
<1>b. \/ onceRequest'[w] = NoMap /\ once_queue' = once_queue
      \/ /\ onceRequest'[w] \in OnceMaps /\ In(once_queue, onceRequest'[w]) /\ Distinct(once_queue')
         /\ \A m : In(once_queue', m) <=> In(once_queue, m) /\ m # onceRequest'[w]
  <2>1. CASE once_queue = <<>> \/ onceShutdown
    BY Kinds, <2>1 DEF OnceWaitAndPop, IndInv, ControlInv, TypeOK
  <2>2. CASE ~(once_queue = <<>> \/ onceShutdown)
    <3>1. Distinct(once_queue)
      BY DEF PlacesInv, OncePlaces
    <3>2. onceRequest'[w] = Head(once_queue) /\ once_queue' = Tail(once_queue)
      BY <2>2 DEF OnceWaitAndPop, Popped, IndInv, ControlInv, TypeOK
    <3> QED
      BY <2>2, <3>1, <3>2, Kinds, TailPlaces
  <2> QED
    BY <2>1, <2>2
<1>c. /\ oncePc'[w] = "popped"
      /\ \A v \in OnceWorkers : v # w =>
               oncePc'[v] = oncePc[v] /\ onceRequest'[v] = onceRequest[v]
      /\ UNCHANGED <<mainVars, histVars, flagVars>>
  BY DEF OnceWaitAndPop, IndInv, ControlInv, TypeOK
<1>1. OncePlaces'
  BY <1>a, <1>b, <1>c, Kinds DEF PlacesInv, OncePlaces, OnceBusy
<1>2. LoopPlaces'
  BY Kinds, <1>a, <1>b, <1>c DEF PlacesInv, LoopPlaces, LoopBusy, OnceWaitAndPop
<1>3. InstancesInv'
  BY Kinds, <1>a, <1>b, <1>c
     DEF PlacesInv, OncePlaces, LoopPlaces, InstancesInv, OnceBusy, LoopBusy, ToCome,
         InLoop, OnceWaitAndPop
<1>4. ShutdownInv'
  BY Kinds, <1>a, <1>b, <1>c DEF PlacesInv, ShutdownInv, TickPcs, OnceWaitAndPop
<1>5. CoverInv'
  BY Kinds, <1>a, <1>b, <1>c
     DEF PlacesInv, OncePlaces, LoopPlaces, ShutdownInv, CoverInv, TickPcs, OnceBusy,
         LoopBusy, ToCome, OnceWaitAndPop
<1> QED
  BY <1>1, <1>2, <1>3, <1>4, <1>5 DEF PlacesInv

(* A thread goes on with its request, or drops it when its map was updated *)
(* or the token set.                                                       *)
LEMMA OnceEndsPlaces ==
    ASSUME IndInv, IndInv', PlacesInv, NEW w \in OnceWorkers,
           OnceStop(w) \/ OnceCall(w) \/ OnceInstancesDone(w) \/ OnceFinish(w)
    PROVE  PlacesInv'
<1>a. /\ onceRequest'[w] \in {onceRequest[w], NoMap}
      /\ \A v \in OnceWorkers : v # w =>
               oncePc'[v] = oncePc[v] /\ onceRequest'[v] = onceRequest[v]
      /\ UNCHANGED <<queueVars, flagVars, histVars, loopVars, instancesLeft>>
      /\ UNCHANGED <<toSchedule, instancedMaps, baseMapsLoaded>>
  BY
     DEF OnceStop, OnceCall, OnceInstancesDone, OnceFinish, OnceMapFinished, IndInv,
         ControlInv, TypeOK
<1>b. /\ mainPc' = "schedule" <=> mainPc = "schedule"
      /\ mainPc' \in TickPcs \cup {"delayed"} <=> mainPc \in TickPcs \cup {"delayed"}
  BY DEF OnceStop, OnceCall, OnceInstancesDone, OnceFinish, OnceMapFinished, TickPcs
<1>c. /\ oncePc'[w] # "instances"
      /\ oncePc'[w] \in {"popped", "update"} => oncePc[w] = "popped"
      /\ oncePc[w] # "update"
      /\ \/ cancelationToken
         \/ onceRequest'[w] = NoMap /\ oncePc[w] = "finish"
         \/ onceRequest'[w] = onceRequest[w] /\ (oncePc[w] = "popped" =>
                  oncePc'[w] = "update")
  BY
     DEF OnceStop, OnceCall, OnceInstancesDone, OnceFinish, OnceMapFinished, IndInv,
         ControlInv, TypeOK
<1>d. mainPc \in TickPcs \cup {"delayed"} => cancelationToken = FALSE
  BY DEF PlacesInv, ShutdownInv
<1>e. /\ \A m \in OnceMaps : ToCome(m)' => ToCome(m)
      /\ \A i : InLoop(i)' <=> InLoop(i)
  BY <1>a, <1>b, <1>c, Kinds DEF ToCome, InLoop
<1>f. mainPc \in TickPcs \cup {"delayed"} => \A m \in OnceMaps : ToCome(m) => ToCome(m)'
  BY <1>a, <1>b, <1>c, <1>d, Kinds DEF ToCome
<1>1. OncePlaces'
  BY <1>a, <1>b, Kinds DEF PlacesInv, OncePlaces, OnceBusy
<1>2. LoopPlaces'
  BY <1>a DEF PlacesInv, LoopPlaces, LoopBusy
<1>3. InstancesInv'
  BY <1>a, <1>c, <1>e, Kinds DEF PlacesInv, InstancesInv
<1>4. ShutdownInv'
  BY Kinds
     DEF PlacesInv, ShutdownInv, TickPcs, OnceStop, OnceCall, OnceInstancesDone,
         OnceFinish, OnceMapFinished
<1>5. CoverInv'
  BY <1>a, <1>b, <1>e, <1>f DEF PlacesInv, CoverInv
<1> QED
  BY <1>1, <1>2, <1>3, <1>4, <1>5 DEF PlacesInv

(* The one update of a map in a tick; a MapInstanced goes on to instances  *)
(* that no loop worker has.                                                *)
LEMMA OnceUpdatedPlaces ==
    ASSUME IndInv, IndInv', PlacesInv, NEW w \in OnceWorkers, OnceUpdated(w)
    PROVE  PlacesInv'
<1>a. oncePc[w] = "update" /\ onceRequest[w] \in OnceMaps /\ ToCome(onceRequest[w])
  BY Kinds DEF OnceUpdated, ToCome
<1>b. \A v \in OnceWorkers : onceRequest[v] = onceRequest[w] => v = w
  BY <1>a, Kinds DEF PlacesInv, OncePlaces, OnceBusy
<1>c. /\ oncePc'[w] \in {"instances", "finish"}
      /\ \A v \in OnceWorkers : v # w =>
               oncePc'[v] = oncePc[v] /\ instancesLeft'[v] = instancesLeft[v]
      /\ oncePc'[w] = "instances" => instancesLeft'[w] = InstancesOf(onceRequest[w])
      /\ UNCHANGED <<mainVars, queueVars, flagVars, onceRequest, loopVars, scheduled>>
  BY DEF OnceUpdated, IndInv, ControlInv, TypeOK
<1>d. \A m : ToCome(m)' <=> ToCome(m) /\ m # onceRequest[w]
  BY <1>a, <1>b, <1>c, Kinds DEF ToCome, PlacesInv, OncePlaces, OnceBusy
<1>e. \A i : InLoop(i)' <=> InLoop(i)
  BY <1>c DEF InLoop
<1>f. updates' = [updates EXCEPT ![onceRequest[w]] = Bump(updates[onceRequest[w]])]
  BY DEF OnceUpdated
<1>g. mainPc \in TickPcs
  BY <1>a, Kinds, NothingBetweenTicks
<1>1. OncePlaces'
  BY Kinds DEF PlacesInv, OncePlaces, OnceBusy, OnceUpdated, Bump, InstancesOf
<1>2. LoopPlaces'
  BY Kinds DEF PlacesInv, LoopPlaces, LoopBusy, OnceUpdated, Bump, InstancesOf
<1>3. InstancesInv'
  <2>1. \A i \in Instances : ToCome(BaseOf[i])' => ~InLoop(i)'
    BY <1>d, <1>e DEF PlacesInv, InstancesInv
  <2>2. ASSUME NEW v \in OnceWorkers, oncePc'[v] = "instances", NEW j \in instancesLeft'[v]
        PROVE  BaseOf[j] = onceRequest'[v] /\ j \in instancedMaps' /\ ~InLoop(j)'
    <3>1. CASE v = w
      BY <1>a, <1>c, <1>e, <2>2, <3>1, Kinds DEF InstancesOf, PlacesInv, InstancesInv
    <3>2. CASE v # w
      BY <1>c, <1>e, <2>2, <3>2 DEF PlacesInv, InstancesInv
    <3> QED
      BY <3>1, <3>2
  <2>3. \A j \in Instances : InLoop(j)' => j \in instancedMaps'
    BY <1>c, <1>e DEF PlacesInv, InstancesInv
  <2> QED
    BY <2>1, <2>2, <2>3 DEF InstancesInv
<1>4. ShutdownInv'
  BY Kinds DEF PlacesInv, ShutdownInv, TickPcs, OnceUpdated, Bump, InstancesOf
<1>5. CoverInv'
  <2>1. /\ \A m \in OnceMaps : updates[m] = IF ToCome(m) THEN 0 ELSE 1
        /\ \A i \in scheduled :
              \/ updates[i] > 0
              \/ In(loop_queue, i)
              \/ \E v \in LoopWorkers : loopRequest[v] = i /\ loopPc[v] \in {"popped", "update"}
    BY <1>g DEF PlacesInv, CoverInv
  <2>2. /\ updates'[onceRequest[w]] = 1
        /\ \A m \in Maps : m # onceRequest[w] => updates'[m] = updates[m]
    BY <1>a, <1>f, <2>1, Kinds DEF Bump
  <2>3. \A m \in OnceMaps : updates'[m] = IF ToCome(m)' THEN 0 ELSE 1
    BY <1>d, <2>1, <2>2, Kinds
  <2>4. \A i \in scheduled' :
           \/ updates'[i] > 0
           \/ In(loop_queue', i)
           \/ \E v \in LoopWorkers : loopRequest'[v] = i /\ loopPc'[v] \in {"popped", "update"}
    BY <1>a, <1>c, <2>1, <2>2, Kinds
  <2> QED
    BY <2>3, <2>4 DEF CoverInv
<1> QED
  BY <1>1, <1>2, <1>3, <1>4, <1>5 DEF PlacesInv

(* Nobody else has the instance that is destroyed.                         *)
LEMMA DestroyInstancePlaces ==
    ASSUME IndInv, IndInv', PlacesInv,
           NEW w \in OnceWorkers, NEW i \in Instances, DestroyInstance(w, i)
    PROVE  PlacesInv'
<1>a. oncePc[w] = "instances" /\ i \in instancesLeft[w] /\ BaseOf[i] = onceRequest[w] /\ ~InLoop(i)
  BY DEF DestroyInstance, PlacesInv, InstancesInv
<1>b. \A v \in OnceWorkers : onceRequest[v] = onceRequest[w] => v = w
  BY <1>a, Kinds DEF PlacesInv, OncePlaces, OnceBusy
<1>c. /\ instancesLeft' = [instancesLeft EXCEPT ![w] = @ \ {i}]
      /\ instancedMaps' = instancedMaps \ {i}
      /\ UNCHANGED <<mainPc, toSchedule, once_queue, loop_queue, oncePc, onceRequest, loopVars>>
  BY DEF DestroyInstance
<1>1. OncePlaces'
  BY Kinds DEF PlacesInv, OncePlaces, OnceBusy, DestroyInstance
<1>2. LoopPlaces'
  BY Kinds DEF PlacesInv, LoopPlaces, LoopBusy, DestroyInstance
<1>3. InstancesInv'
  <2>1. \A m : (ToCome(m)' <=> ToCome(m)) /\ (InLoop(m)' <=> InLoop(m))
    BY <1>c DEF ToCome, InLoop
  <2>2. ASSUME NEW v \in OnceWorkers, oncePc'[v] = "instances", NEW j \in instancesLeft'[v]
        PROVE  BaseOf[j] = onceRequest'[v] /\ j \in instancedMaps' /\ ~InLoop(j)'
    <3>1. j \in instancesLeft[v] /\ oncePc[v] = "instances"
      BY <1>c, <2>2 DEF IndInv, ControlInv, TypeOK
    <3>2. BaseOf[j] = onceRequest[v] /\ j \in instancedMaps /\ ~InLoop(j)
      BY <3>1 DEF PlacesInv, InstancesInv
    <3>3. j # i
      BY <1>a, <1>b, <1>c, <2>2, <3>2 DEF IndInv, ControlInv, TypeOK
    <3> QED
      BY <1>c, <2>1, <3>2, <3>3
  <2>3. \A j \in Instances : InLoop(j)' => j \in instancedMaps'
    BY <1>a, <1>c, <2>1 DEF PlacesInv, InstancesInv
  <2> QED
    BY <2>1, <2>2, <2>3 DEF InstancesInv, PlacesInv
<1>4. ShutdownInv'
  BY Kinds DEF PlacesInv, ShutdownInv, TickPcs, DestroyInstance
<1>5. CoverInv'
  BY Kinds
     DEF PlacesInv, OncePlaces, LoopPlaces, ShutdownInv, CoverInv, TickPcs, OnceBusy,
         LoopBusy, ToCome, DestroyInstance
<1> QED
  BY <1>1, <1>2, <1>3, <1>4, <1>5 DEF PlacesInv

(* The map skips an instance.                                              *)
LEMMA SkipInstancePlaces ==
    ASSUME IndInv, IndInv', PlacesInv,
           NEW w \in OnceWorkers, NEW i \in Instances, SkipInstance(w, i)
    PROVE  PlacesInv'
<1>1. OncePlaces'
  BY Kinds DEF PlacesInv, OncePlaces, OnceBusy, SkipInstance
<1>2. LoopPlaces'
  BY Kinds DEF PlacesInv, LoopPlaces, LoopBusy, SkipInstance
<1>3. InstancesInv'
  BY Kinds
     DEF PlacesInv, OncePlaces, LoopPlaces, InstancesInv, OnceBusy, LoopBusy, ToCome,
         InLoop, SkipInstance
<1>4. ShutdownInv'
  BY Kinds DEF PlacesInv, ShutdownInv, TickPcs, SkipInstance
<1>5. CoverInv'
  BY Kinds
     DEF PlacesInv, OncePlaces, LoopPlaces, ShutdownInv, CoverInv, TickPcs, OnceBusy,
         LoopBusy, ToCome, SkipInstance
<1> QED
  BY <1>1, <1>2, <1>3, <1>4, <1>5 DEF PlacesInv

(* An instance goes into the queue once per tick, by its own MapInstanced. *)
LEMMA ScheduleInstancePlaces ==
    ASSUME IndInv, IndInv', PlacesInv,
           NEW w \in OnceWorkers, NEW i \in Instances, ScheduleInstance(w, i)
    PROVE  PlacesInv'
<1>a. oncePc[w] = "instances" /\ i \in instancesLeft[w] /\ BaseOf[i] = onceRequest[w]
  BY DEF ScheduleInstance, PlacesInv, InstancesInv
<1>b. i \in instancedMaps /\ ~InLoop(i) /\ ~In(loop_queue, i) /\ Distinct(loop_queue)
  BY <1>a DEF PlacesInv, InstancesInv, LoopPlaces, InLoop
<1>c. /\ Distinct(loop_queue')
      /\ \A k : In(loop_queue', k) <=> In(loop_queue, k) \/ k = i
  BY <1>b, Kinds, AppendPlaces DEF ScheduleInstance, ScheduleLoop
<1>d. mainPc \in TickPcs
  BY <1>a, Kinds, NothingBetweenTicks
<1>e. \A v \in OnceWorkers :
         oncePc'[v] # oncePc[v] => oncePc'[v] = "wait" /\ onceRequest[v] = NoMap
  BY <1>d, Kinds
     DEF ScheduleInstance, ScheduleLoop, SpawnMissingOnceUpdateThreads, IndInv, ControlInv,
         UnspawnedBeyondSize, TypeOK, TickPcs
<1>f. /\ instancesLeft' = [instancesLeft EXCEPT ![w] = @ \ {i}]
      /\ scheduled' = scheduled \cup {i} /\ updates' = updates
      /\ UNCHANGED <<mainVars, once_queue, onceRequest, loopVars, flagVars>>
  BY DEF ScheduleInstance, ScheduleLoop
<1>g. \A v \in OnceWorkers : onceRequest[v] = onceRequest[w] => v = w
  BY <1>a, Kinds DEF PlacesInv, OncePlaces, OnceBusy
<1>h. ~ToCome(BaseOf[i])
  BY <1>a, <1>g, Kinds DEF ToCome, PlacesInv, OncePlaces, OnceBusy
<1>i. /\ \A v \in OnceWorkers : oncePc'[v] \in {"popped", "update", "instances"} =>
         oncePc[v] = oncePc'[v]
      /\ \A m : ToCome(m)' => ToCome(m)
      /\ \A j : InLoop(j)' <=> InLoop(j) \/ j = i
  BY <1>c, <1>e, <1>f DEF ToCome, InLoop
<1>j. \A m \in OnceMaps : ToCome(m) => ToCome(m)'
  BY <1>e, <1>f, Kinds DEF ToCome
<1>1. OncePlaces'
  BY Kinds, <1>a, <1>b, <1>c, <1>d
     DEF PlacesInv, OncePlaces, OnceBusy, ScheduleInstance, ScheduleLoop,
         SpawnMissingOnceUpdateThreads
<1>2. LoopPlaces'
  BY <1>b, <1>c, <1>f, Kinds DEF PlacesInv, LoopPlaces, LoopBusy, InLoop
<1>3. InstancesInv'
  <2>1. \A j \in Instances : ToCome(BaseOf[j])' => ~InLoop(j)'
    BY <1>h, <1>i DEF PlacesInv, InstancesInv
  <2>2. ASSUME NEW v \in OnceWorkers, oncePc'[v] = "instances", NEW j \in instancesLeft'[v]
        PROVE  BaseOf[j] = onceRequest'[v] /\ j \in instancedMaps' /\ ~InLoop(j)'
    <3>1. j \in instancesLeft[v] /\ oncePc[v] = "instances"
      BY <1>f, <1>i, <2>2, Kinds DEF IndInv, ControlInv, TypeOK
    <3>2. BaseOf[j] = onceRequest[v] /\ j \in instancedMaps /\ ~InLoop(j)
      BY <3>1 DEF PlacesInv, InstancesInv
    <3>3. j # i
      BY <1>a, <1>f, <1>g, <2>2, <3>2 DEF IndInv, ControlInv, TypeOK
    <3> QED
      BY <1>f, <1>i, <3>2, <3>3
  <2>3. \A j \in Instances : InLoop(j)' => j \in instancedMaps'
    BY <1>b, <1>f, <1>i DEF PlacesInv, InstancesInv
  <2> QED
    BY <2>1, <2>2, <2>3 DEF InstancesInv
<1>4. ShutdownInv'
  BY Kinds, <1>a, <1>b, <1>c, <1>d
     DEF PlacesInv, ShutdownInv, TickPcs, ScheduleInstance, ScheduleLoop,
         SpawnMissingOnceUpdateThreads
<1>5. CoverInv'
  <2>1. \A m \in OnceMaps : updates'[m] = IF ToCome(m)' THEN 0 ELSE 1
    BY <1>d, <1>f, <1>i, <1>j DEF PlacesInv, CoverInv
  <2>2. \A j \in scheduled' :
           \/ updates'[j] > 0
           \/ In(loop_queue', j)
           \/ \E v \in LoopWorkers : loopRequest'[v] = j /\ loopPc'[v] \in {"popped", "update"}
    BY <1>c, <1>d, <1>f DEF PlacesInv, CoverInv
  <2> QED
    BY <2>1, <2>2 DEF CoverInv
<1> QED
  BY <1>1, <1>2, <1>3, <1>4, <1>5 DEF PlacesInv

(* The same for the loop workers.                                          *)
LEMMA LoopWaitAndPopPlaces ==
    ASSUME IndInv, IndInv', PlacesInv, NEW w \in LoopWorkers, LoopWaitAndPop(w)
    PROVE  PlacesInv'
<1>a. loopPc[w] = "wait" /\ loopRequest[w] = NoMap
  BY Kinds DEF LoopWaitAndPop
<1>b. \/ loopRequest'[w] = NoMap /\ loop_queue' = loop_queue
      \/ /\ loopRequest'[w] \in Instances /\ In(loop_queue, loopRequest'[w]) /\ Distinct(loop_queue')
         /\ \A m : In(loop_queue', m) <=> In(loop_queue, m) /\ m # loopRequest'[w]
  <2>1. CASE loop_queue = <<>> \/ loopShutdown
    BY Kinds, <2>1 DEF LoopWaitAndPop, IndInv, ControlInv, TypeOK
  <2>2. CASE ~(loop_queue = <<>> \/ loopShutdown)
    <3>1. Distinct(loop_queue)
      BY DEF PlacesInv, LoopPlaces
    <3>2. loopRequest'[w] = Head(loop_queue) /\ loop_queue' = Tail(loop_queue)
      BY <2>2 DEF LoopWaitAndPop, Popped, IndInv, ControlInv, TypeOK
    <3> QED
      BY <2>2, <3>1, <3>2, Kinds, TailPlaces
  <2> QED
    BY <2>1, <2>2
<1>c. /\ loopPc'[w] = "popped"
      /\ \A v \in LoopWorkers : v # w =>
               loopPc'[v] = loopPc[v] /\ loopRequest'[v] = loopRequest[v]
      /\ UNCHANGED <<mainVars, histVars, flagVars>>
  BY DEF LoopWaitAndPop, IndInv, ControlInv, TypeOK
<1>1. OncePlaces'
  BY Kinds, <1>a, <1>b, <1>c DEF PlacesInv, OncePlaces, OnceBusy, LoopWaitAndPop
<1>2. LoopPlaces'
  BY Kinds, <1>a, <1>b, <1>c DEF PlacesInv, LoopPlaces, LoopBusy, LoopWaitAndPop
<1>3. InstancesInv'
  BY Kinds, <1>a, <1>b, <1>c
     DEF PlacesInv, OncePlaces, LoopPlaces, InstancesInv, OnceBusy, LoopBusy, ToCome,
         InLoop, LoopWaitAndPop
<1>4. ShutdownInv'
  BY Kinds, <1>a, <1>b, <1>c DEF PlacesInv, ShutdownInv, TickPcs, LoopWaitAndPop
<1>5. CoverInv'
  BY Kinds, <1>a, <1>b, <1>c
     DEF PlacesInv, OncePlaces, LoopPlaces, ShutdownInv, CoverInv, TickPcs, OnceBusy,
         LoopBusy, ToCome, LoopWaitAndPop
<1> QED
  BY <1>1, <1>2, <1>3, <1>4, <1>5 DEF PlacesInv

LEMMA LoopEndsPlaces ==
    ASSUME IndInv, IndInv', PlacesInv, NEW w \in LoopWorkers,
           LoopStop(w) \/ LoopCall(w) \/ LoopReadFlag(w) \/ LoopFinish(w)
    PROVE  PlacesInv'
<1>a. /\ loopRequest'[w] \in {loopRequest[w], NoMap}
      /\ \A v \in LoopWorkers : v # w =>
               loopPc'[v] = loopPc[v] /\ loopRequest'[v] = loopRequest[v]
      /\ UNCHANGED <<queueVars, flagVars, histVars, onceVars, instancesLeft>>
      /\ UNCHANGED <<toSchedule, instancedMaps, baseMapsLoaded>>
  BY
     DEF LoopStop, LoopCall, LoopReadFlag, LoopFinish, LoopMapFinished, AfterLoopPop,
         IndInv, ControlInv, TypeOK
<1>b. /\ mainPc' = "schedule" <=> mainPc = "schedule"
      /\ mainPc' \in TickPcs \cup {"delayed"} <=> mainPc \in TickPcs \cup {"delayed"}
  BY
     DEF LoopStop, LoopCall, LoopReadFlag, LoopFinish, LoopMapFinished, AfterLoopPop,
         TickPcs
<1>c. /\ loopPc'[w] # "instances"
      /\ loopPc'[w] \in {"popped", "update"} => loopPc[w] = "popped"
      /\ loopPc[w] # "update"
      /\ \/ cancelationToken
         \/ loopRequest'[w] = NoMap /\ loopPc[w] = "finish"
         \/ loopRequest'[w] = loopRequest[w] /\ (loopPc[w] = "popped" =>
                  loopPc'[w] = "update")
  BY
     DEF LoopStop, LoopCall, LoopReadFlag, LoopFinish, LoopMapFinished, AfterLoopPop,
         IndInv, ControlInv, TypeOK
<1>d. mainPc \in TickPcs \cup {"delayed"} => cancelationToken = FALSE
  BY DEF PlacesInv, ShutdownInv
<1>e. /\ \A m : ToCome(m)' <=> ToCome(m)
      /\ \A i \in Instances : InLoop(i)' => InLoop(i)
  BY <1>a, <1>b, Kinds DEF ToCome, InLoop
<1>1. OncePlaces'
  BY <1>a, <1>b DEF PlacesInv, OncePlaces, OnceBusy
<1>2. LoopPlaces'
  BY <1>a, Kinds DEF PlacesInv, LoopPlaces, LoopBusy
<1>3. InstancesInv'
  BY <1>a, <1>e, Kinds DEF PlacesInv, InstancesInv
<1>4. ShutdownInv'
  BY Kinds
     DEF PlacesInv, ShutdownInv, TickPcs, LoopStop, LoopCall, AfterLoopPop,
         LoopReadFlag, LoopFinish, LoopMapFinished
<1>5. CoverInv'
  BY <1>a, <1>b, <1>c, <1>d, <1>e, Kinds DEF PlacesInv, CoverInv
<1> QED
  BY <1>1, <1>2, <1>3, <1>4, <1>5 DEF PlacesInv

LEMMA LoopUpdatedPlaces ==
    ASSUME IndInv, IndInv', PlacesInv, NEW w \in LoopWorkers, LoopUpdated(w)
    PROVE  PlacesInv'
<1>1. OncePlaces'
  BY Kinds DEF PlacesInv, OncePlaces, OnceBusy, LoopUpdated, Bump
<1>2. LoopPlaces'
  BY Kinds DEF PlacesInv, LoopPlaces, LoopBusy, LoopUpdated, Bump
<1>3. InstancesInv'
  BY Kinds
     DEF PlacesInv, OncePlaces, LoopPlaces, InstancesInv, OnceBusy, LoopBusy, ToCome,
         InLoop, LoopUpdated, Bump
<1>4. ShutdownInv'
  BY Kinds DEF PlacesInv, ShutdownInv, TickPcs, LoopUpdated, Bump
<1>5. CoverInv'
  BY Kinds
     DEF PlacesInv, OncePlaces, LoopPlaces, ShutdownInv, CoverInv, TickPcs, OnceBusy,
         LoopBusy, ToCome, LoopUpdated, Bump
<1> QED
  BY <1>1, <1>2, <1>3, <1>4, <1>5 DEF PlacesInv

(* The request goes back from the thread to the queue.                     *)
LEMMA LoopRepushPlaces ==
    ASSUME IndInv, IndInv', PlacesInv, NEW w \in LoopWorkers, LoopRepush(w)
    PROVE  PlacesInv'
<1>a. loopRequest[w] \in Instances /\ ~In(loop_queue, loopRequest[w]) /\ Distinct(loop_queue)
  BY Kinds DEF LoopRepush, PlacesInv, LoopPlaces, LoopBusy
<1>b. /\ Distinct(loop_queue')
      /\ \A k : In(loop_queue', k) <=> In(loop_queue, k) \/ k = loopRequest[w]
  BY <1>a, Kinds, AppendPlaces DEF LoopRepush
<1>c. /\ loopRequest'[w] = NoMap
      /\ \A v \in LoopWorkers : v # w => loopRequest'[v] = loopRequest[v]
      /\ UNCHANGED <<mainVars, once_queue, onceVars>>
  BY DEF LoopRepush, IndInv, ControlInv, TypeOK
<1>d. \A i \in Instances : InLoop(i)' <=> InLoop(i)
  BY <1>a, <1>b, <1>c, Kinds DEF InLoop
<1>e. \A m : ToCome(m)' <=> ToCome(m)
  BY <1>c DEF ToCome
<1>1. OncePlaces'
  BY Kinds, <1>a, <1>b DEF PlacesInv, OncePlaces, OnceBusy, LoopRepush
<1>2. LoopPlaces'
  BY <1>a, <1>b, <1>c, Kinds DEF PlacesInv, LoopPlaces, LoopBusy
<1>3. InstancesInv'
  BY <1>c, <1>d, <1>e, Kinds DEF PlacesInv, InstancesInv
<1>4. ShutdownInv'
  BY Kinds, <1>a, <1>b DEF PlacesInv, ShutdownInv, TickPcs, LoopRepush
<1>5. CoverInv'
  BY Kinds, <1>a, <1>b
     DEF PlacesInv, OncePlaces, LoopPlaces, ShutdownInv, CoverInv, TickPcs, OnceBusy,
         LoopBusy, ToCome, LoopRepush
<1> QED
  BY <1>1, <1>2, <1>3, <1>4, <1>5 DEF PlacesInv

-----------------------------------------------------------------------------
(* The invariant holds initially and is preserved by every step.           *)
LEMMA PlacesInvariance == Spec => []PlacesInv
<1>1. Init => PlacesInv
  <2> SUFFICES ASSUME Init PROVE PlacesInv
    OBVIOUS
  <2>1. OncePlaces /\ LoopPlaces
    BY EmptyPlaces DEF Init, OncePlaces, LoopPlaces, OnceBusy, LoopBusy
  <2>2. \A i \in Instances : ~InLoop(i)
    BY EmptyPlaces, MapsAssumption DEF Init, InLoop, Maps
  <2>3. InstancesInv
    BY <2>2 DEF Init, InstancesInv
  <2>4. ShutdownInv /\ CoverInv
    BY DEF Init, ShutdownInv, CoverInv, TickPcs
  <2> QED
    BY <2>1, <2>3, <2>4 DEF PlacesInv
<1>2. IndInv /\ IndInv' /\ PlacesInv /\ [Next]_vars => PlacesInv'
  <2> SUFFICES ASSUME IndInv, IndInv', PlacesInv, [Next]_vars PROVE PlacesInv'
    OBVIOUS
  <2>1. CASE UNCHANGED vars
    BY <2>1
       DEF vars, PlacesInv, OncePlaces, LoopPlaces, InstancesInv, ShutdownInv,
           CoverInv,
         OnceBusy, LoopBusy, ToCome, InLoop
  <2>2. CASE WorldThread
    BY <2>2, CreateInstancePlaces, BeginTickPlaces, ScheduleBaseMapPlaces,
       WorldThreadGoesOnPlaces, UnloadAllPlaces, CancelQueuePlaces DEF WorldThread
  <2>3. ASSUME NEW w \in OnceWorkers, OnceWorkerThread(w) PROVE PlacesInv'
    BY <2>3, OnceWaitAndPopPlaces, OnceEndsPlaces, OnceUpdatedPlaces,
       DestroyInstancePlaces, SkipInstancePlaces, ScheduleInstancePlaces DEF OnceWorkerThread
  <2>4. ASSUME NEW w \in LoopWorkers, LoopWorkerThread(w) PROVE PlacesInv'
    BY <2>4, LoopWaitAndPopPlaces, LoopEndsPlaces, LoopUpdatedPlaces, LoopRepushPlaces
       DEF LoopWorkerThread
  <2> QED
    BY <2>1, <2>2, <2>3, <2>4 DEF Next, Stopped
<1> QED
  BY <1>1, <1>2, Invariance, PTL DEF Spec

(* No map is ever updated by two threads at once: a request that is pushed *)
(* back, scheduled again or popped is never in a second place.             *)
THEOREM NoTwoInOneMap == Spec => []ExclusiveUpdate
<1>1. IndInv /\ PlacesInv => ExclusiveUpdate
  BY Kinds DEF PlacesInv, OncePlaces, LoopPlaces, OnceBusy, LoopBusy, ExclusiveUpdate,
     OnceUpdating, LoopUpdating
<1> QED
  BY <1>1, Invariance, PlacesInvariance, PTL

(* MapInstanced::Update destroys an instance while loop workers run, but   *)
(* none that they may come to; UnloadAll deletes the maps between ticks.   *)
THEOREM RequestsAreLive == Spec => []NoDanglingRequest
<1>1. IndInv /\ PlacesInv => NoDanglingRequest
  <2> SUFFICES ASSUME IndInv, PlacesInv PROVE NoDanglingRequest
    OBVIOUS
  <2>1. \A k \in 1 .. Len(loop_queue) : loop_queue[k] \in instancedMaps
    <3> SUFFICES ASSUME NEW k \in 1 .. Len(loop_queue) PROVE loop_queue[k] \in instancedMaps
      OBVIOUS
    <3>1. loop_queue[k] \in Instances /\ In(loop_queue, loop_queue[k])
      BY Kinds DEF In
    <3> QED
      BY <3>1 DEF PlacesInv, InstancesInv, InLoop
  <2>2. \A w \in LoopBusy : loopRequest[w] \in instancedMaps
    BY Kinds DEF PlacesInv, InstancesInv, InLoop, LoopBusy
  <2>3. once_queue # <<>> \/ OnceBusy # {} => baseMapsLoaded
    BY NothingBetweenTicks DEF PlacesInv, ShutdownInv, OnceBusy
  <2> QED
    BY <2>1, <2>2, <2>3 DEF NoDanglingRequest
<1> QED
  BY <1>1, Invariance, PlacesInvariance, PTL

(* When a tick comes to DelayedUpdate, every map of i_maps was updated     *)
(* once and every scheduled instance at least once.                        *)
THEOREM TickIsComplete == Spec => []TickCoversMaps
<1>1. IndInv /\ PlacesInv => TickCoversMaps
  <2> SUFFICES ASSUME IndInv, PlacesInv, mainPc = "delayed"
               PROVE  /\ \A m \in OnceMaps : updates[m] = 1
                      /\ \A i \in scheduled : updates[i] > 0
    BY DEF TickCoversMaps
  <2>1. /\ once_queue = <<>> /\ loop_queue = <<>>
        /\ \A w \in OnceWorkers : onceRequest[w] = NoMap
        /\ \A w \in LoopWorkers : loopRequest[w] = NoMap
    BY NothingBetweenTicks DEF TickPcs
  <2>2. \A m \in OnceMaps : ~ToCome(m)
    BY <2>1, Kinds, EmptyPlaces DEF ToCome
  <2> QED
    BY <2>1, <2>2, Kinds, EmptyPlaces DEF PlacesInv, CoverInv
<1> QED
  BY <1>1, Invariance, PlacesInvariance, PTL
=============================================================================
