---------------------------- MODULE InstanceIds ----------------------------
(***************************************************************************)
(* The instance ids MapManager gives out: _nextInstanceId, and the         *)
(* vector<bool> _instanceIds in which an id in use is marked.  Dungeons    *)
(* keep their id in the table `instance` over a restart of the server;     *)
(* battlegrounds and arenas lose theirs.                                   *)
(*                                                                         *)
(* Ids are generated, and those of dungeons freed, by the world thread.    *)
(* The id of a battleground is freed by the thread that updates the        *)
(* battleground's MapInstanced, under the lock of that map only: several   *)
(* threads may be inside FreeInstanceId at once, and then their loads and  *)
(* stores interleave.  While they run the world thread waits for them      *)
(* (module MapUpdater, WorldThreadAlone).                                  *)
(***************************************************************************)
EXTENDS Integers, FiniteSets

CONSTANTS
    MaxU32,         \* 0xFFFFFFFF
    Block,          \* 32, the step in which the vector is sized
    Word,           \* bits in a word of the vector
    Updaters,       \* once workers, each updating another MapInstanced
    MaxInstance,    \* bound: the largest next id for which one is generated
    MaxRestarts     \* bound: how often the server is restarted

ASSUME IdsAssumption ==
    /\ MaxU32 \in Nat \ {0}
    /\ Block \in Nat \ {0} /\ Word \in Nat \ {0}
    /\ MaxInstance \in Nat /\ MaxInstance <= MaxU32
    /\ MaxRestarts \in Nat

Ids == 0 .. MaxU32

VARIABLES
    next,         \* _nextInstanceId
    used,         \* the ids whose bit is set
    size,         \* _instanceIds.size()
    capacity,     \* _instanceIds.capacity()
    dungeons,     \* per id: dungeon instances that own it
    battlegrounds,  \* per id: battlegrounds and arenas that own it
    stopped,      \* World::StopNow was called
    step,         \* per updater: where it is in FreeInstanceId
    freed,        \* per updater: the argument of FreeInstanceId
    bits,         \* per updater: the word of the vector it has loaded
    survivors,    \* history: ids read from the table at the last start
    raced,        \* history: two calls of FreeInstanceId overlapped
    restarts      \* history: restarts so far

owners == <<dungeons, battlegrounds>>
freeing == <<step, freed, bits, raced>>
vars   == <<next, used, size, capacity, owners, stopped, freeing, survivors, restarts>>

Owners(id) == dungeons[id] + battlegrounds[id]

(* No map is being updated, so the world thread runs.                      *)
AllIdle == \A t \in Updaters : step[t] = "idle"

-----------------------------------------------------------------------------
(* vector<bool>::resize: more memory is taken when n bits do not fit.      *)
RoundUp(n, m) == ((n + m - 1) \div m) * m

Resize(n) ==
    /\ size' = n
    /\ capacity' =
         IF n <= capacity THEN capacity
         ELSE RoundUp(IF n - size > size THEN n ELSE 2 * size, Word)

(* How large GenerateInstanceId makes the vector for a new id.             *)
Mutant_SizeFor(id) ==                         \* without the "+1"
    (id \div Block) * Block + (IF id % Block > 0 THEN Block ELSE 0)

SizeFor(id) ==
    1 + (id \div Block) * Block + (IF id % Block > 0 THEN Block ELSE 0)

AllocateSpace(id) ==
    IF id < size THEN UNCHANGED <<size, capacity>>
    ELSE Resize(IF size < capacity THEN capacity ELSE SizeFor(id))

(* The search of GenerateInstanceId: the first id from `from` on that lies *)
(* behind the vector or whose bit is not set.                              *)
Mutant_Available(i) == i < MaxU32             \* the bits are not looked at

Available(i) == i >= size \/ i \notin used

FindNext(from) ==
    \/ \E i \in from .. (MaxU32 - 1) :
           /\ Available(i)
           /\ \A j \in from .. (i - 1) : ~Available(j)
           /\ next' = i
    \/ /\ \A i \in from .. (MaxU32 - 1) : ~Available(i)
       /\ next' = from

(* The id handed out is the next one; the one after it is looked for at    *)
(* once.                                                                   *)
GenerateInstanceId ==
    /\ AllIdle
    /\ next <= MaxInstance
    /\ FindNext((next + 1) % (MaxU32 + 1))
    /\ AllocateSpace(next)
    /\ stopped' = (stopped \/ next' = next)
    /\ used' = used \cup {next}

CreateInstance ==
    /\ GenerateInstanceId
    /\ dungeons' = [dungeons EXCEPT ![next] = @ + 1]
    /\ UNCHANGED <<battlegrounds, freeing, survivors, restarts>>

CreateNewBattleground ==
    /\ GenerateInstanceId
    /\ battlegrounds' = [battlegrounds EXCEPT ![next] = @ + 1]
    /\ UNCHANGED <<dungeons, freeing, survivors, restarts>>

-----------------------------------------------------------------------------
(* FreeInstanceId on the world thread, which nobody disturbs.              *)
Mutant_FreeInstanceId(id) ==                  \* the next id is not lowered
    /\ UNCHANGED next
    /\ used' = used \ {id}
    /\ UNCHANGED <<size, capacity, stopped>>

FreeInstanceId(id) ==
    /\ next' = IF id < next THEN id ELSE next
    /\ used' = used \ {id}
    /\ UNCHANGED <<size, capacity, stopped>>

(* InstanceSaveManager::_ResetInstance.                                    *)
ResetInstance(id) ==
    /\ AllIdle
    /\ dungeons[id] > 0
    /\ FreeInstanceId(id)
    /\ dungeons' = [dungeons EXCEPT ![id] = @ - 1]
    /\ UNCHANGED <<battlegrounds, freeing, survivors, restarts>>

(* MapInstanced::DestroyInstance of a battleground: the test of            *)
(* _nextInstanceId, the store to it, and the load and the store of the     *)
(* word that holds the bit.                                                *)
WordOf(id) == {i \in Ids : i \div Word = id \div Word}

DestroyBattleground(t, id) ==
    /\ step[t] = "idle"
    /\ battlegrounds[id] > 0
    /\ battlegrounds' = [battlegrounds EXCEPT ![id] = @ - 1]
    /\ freed' = [freed EXCEPT ![t] = id]
    /\ step' = [step EXCEPT ![t] = IF id < next THEN "set" ELSE "load"]
    /\ raced' = (raced \/ ~AllIdle)
    /\ UNCHANGED <<next, used, size, capacity, dungeons, stopped, bits, survivors, restarts>>

SetNextInstanceId(t) ==
    /\ step[t] = "set"
    /\ next' = freed[t]
    /\ step' = [step EXCEPT ![t] = "load"]
    /\ UNCHANGED <<used, size, capacity, owners, stopped, freed, bits, raced,
                   survivors, restarts>>

LoadBits(t) ==
    /\ step[t] = "load"
    /\ bits' = [bits EXCEPT ![t] = used \cap WordOf(freed[t])]
    /\ step' = [step EXCEPT ![t] = "store"]
    /\ UNCHANGED <<next, used, size, capacity, owners, stopped, freed, raced,
                   survivors, restarts>>

StoreBits(t) ==
    /\ step[t] = "store"
    /\ used' = (used \ WordOf(freed[t])) \cup (bits[t] \ {freed[t]})
    /\ step' = [step EXCEPT ![t] = "idle"]
    /\ freed' = [freed EXCEPT ![t] = 0]
    /\ bits' = [bits EXCEPT ![t] = {}]
    /\ UNCHANGED <<next, size, capacity, owners, stopped, raced, survivors, restarts>>

-----------------------------------------------------------------------------
(* How large InitInstanceIds makes the vector for the largest saved id.    *)
InitialSize(maxId) ==
    (maxId \div Block) * Block + (IF maxId % Block > 0 THEN Block ELSE 1)

Rows == {id \in Ids : dungeons[id] > 0}        \* the table `instance`

(* A restart: LoadInstances deletes rows nobody is bound to, which leaves  *)
(* `rows`, and calls InitInstanceIds.  LoadResetTimes, where the ids of    *)
(* the rows are to be registered, returns before it does anything.         *)
Restart(rows, maxId) ==
    /\ restarts < MaxRestarts
    /\ restarts' = restarts + 1
    /\ \A id \in rows : id <= maxId
    /\ dungeons' = [id \in Ids |-> IF id \in rows THEN 1 ELSE 0]
    /\ battlegrounds' = [id \in Ids |-> 0]
    /\ survivors' = rows
    /\ stopped' = FALSE
    /\ step' = [t \in Updaters |-> "idle"]
    /\ freed' = [t \in Updaters |-> 0]
    /\ bits' = [t \in Updaters |-> {}]
    /\ raced' = FALSE
    /\ next' = 1
    /\ used' = {}
    /\ size' = InitialSize(maxId)
    /\ capacity' = RoundUp(InitialSize(maxId), Word)

Init ==
    /\ next = 1
    /\ used = {}
    /\ size = InitialSize(0)
    /\ capacity = RoundUp(InitialSize(0), Word)
    /\ dungeons = [id \in Ids |-> 0]
    /\ battlegrounds = [id \in Ids |-> 0]
    /\ survivors = {}
    /\ stopped = FALSE
    /\ step = [t \in Updaters |-> "idle"]
    /\ freed = [t \in Updaters |-> 0]
    /\ bits = [t \in Updaters |-> {}]
    /\ raced = FALSE
    /\ restarts = 0

Next ==
    \/ CreateInstance
    \/ CreateNewBattleground
    \/ \E id \in Ids : ResetInstance(id)
    \/ \E t \in Updaters :
           \/ \E id \in Ids : DestroyBattleground(t, id)
           \/ SetNextInstanceId(t)
           \/ LoadBits(t)
           \/ StoreBits(t)
    \/ \E rows \in SUBSET Rows :
           \E maxId \in rows \cup {0} : Restart(rows, maxId)    \* MAX(id), or 0

Spec == Init /\ [][Next]_vars

-----------------------------------------------------------------------------
TypeOK ==
    /\ next \in Ids
    /\ used \subseteq Ids
    /\ size \in Nat /\ capacity \in Nat
    /\ dungeons \in [Ids -> Nat]
    /\ battlegrounds \in [Ids -> Nat]
    /\ survivors \subseteq Ids
    /\ stopped \in BOOLEAN /\ raced \in BOOLEAN
    /\ step \in [Updaters -> {"idle", "set", "load", "store"}]
    /\ freed \in [Updaters -> Ids]
    /\ bits \in [Updaters -> SUBSET Ids]
    /\ restarts \in 0 .. MaxRestarts

(* Every write to the vector is in range: each id that is in use, whose    *)
(* bit was set or will be cleared, lies inside it, however the vector grew.*)
IdsInBounds ==
    /\ \A id \in used : id < size
    /\ \A id \in Ids : Owners(id) > 0 => id < size
    /\ \A t \in Updaters : step[t] # "idle" => freed[t] < size

Lowest(n, ids) == n >= 1 /\ n \notin ids /\ \A id \in 1 .. (n - 1) : id \in ids

(* As long as no two calls of FreeInstanceId overlapped since the start,   *)
(* _nextInstanceId is the lowest id that is not in use - and no id near    *)
(* the 32-bit limit was given out.                                         *)
LowestUnlessRaced == ~raced /\ AllIdle => Lowest(next, used)

(* Two instances never get the same id, also when calls of FreeInstanceId  *)
(* overlapped, except that an id which a dungeon kept over the last        *)
(* restart is given out again.                                             *)
OnlySurvivorsShared == \A id \in Ids \ survivors : Owners(id) <= 1

(* "Instances are pulled in ascending order from db and nextInstanceId is  *)
(* initialized with 1, so if the instance id is used, increment until we   *)
(* find the first unused one for a potential new instance": an id belongs  *)
(* to one instance.  Violated, LoadResetTimes never registers the ids.     *)
NoSharedId == \A id \in Ids : Owners(id) <= 1
=============================================================================
