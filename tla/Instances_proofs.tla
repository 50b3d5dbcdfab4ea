-------------------------- MODULE Instances_proofs --------------------------
(***************************************************************************)
(* Proofs about the instances.  First the allocator of their ids, for      *)
(* every size of its vector, every number of instances below the 32-bit    *)
(* limit and every number of restarts.  Then their saves, for every set of *)
(* players and every number of ids: every function that a handler is made  *)
(* of, taken as a function from a state s to a state t, keeps the binds    *)
(* and the saves in agreement and says what it leaves alone; a handler is  *)
(* a chain of such functions.                                              *)
(***************************************************************************)
EXTENDS InstanceIds, InstanceSaves, FiniteSetTheorems, WellFoundedInduction, TLAPS

(* No id is generated next to the 32-bit limit, where the search finds     *)
(* nothing and the allocator goes wrong.                                   *)
BelowLimit == MaxInstance + 1 < MaxU32

(* Ids in use were generated, and lie inside the vector; so do those of a  *)
(* word that a thread has loaded, and the id it is freeing.                *)
InRange(id) == id >= 1 /\ id <= MaxInstance /\ id < size

UsedInRange ==
    /\ \A id \in used : InRange(id)
    /\ \A t \in Updaters : \A id \in bits[t] : InRange(id)
    /\ \A t \in Updaters : step[t] # "idle" => InRange(freed[t])

(* So do the ids that have an owner: those of the table were looked at     *)
(* when the vector was sized.                                              *)
OwnedInRange == \A id \in Ids : Owners(id) > 0 => InRange(id)

(* Outside the ids of the table, an id has at most one owner, and then its *)
(* bit is set.  A lost update may leave the bit of a free id set, never    *)
(* clear the bit of an id in use.                                          *)
OwnedIsUsed ==
    \A id \in Ids \ survivors :
        /\ Owners(id) <= 1
        /\ Owners(id) > 0 => id \in used

(* What a thread is about to store has the bits of all owned ids, ...      *)
LoadedOwned ==
    \A t \in Updaters : step[t] = "store" =>
        \A id \in WordOf(freed[t]) \ survivors : Owners(id) > 0 => id \in bits[t]

(* ... and what it frees has lost its owner.                               *)
FreedHasNoOwner ==
    \A t \in Updaters : step[t] # "idle" /\ freed[t] \notin survivors =>
        Owners(freed[t]) = 0

(* The next id lies in the vector or just behind it, and has no owner.     *)
NextIsFree ==
    /\ next >= 1 /\ next <= size
    /\ next \notin survivors => Owners(next) = 0

(* Where the only thread that frees an id has come to.                     *)
Progress(t) ==
    /\ step[t] = "set" => freed[t] < next /\ Lowest(next, used)
    /\ step[t] \in {"load", "store"} => Lowest(next, used \ {freed[t]})
    /\ step[t] = "store" => bits[t] = used \cap WordOf(freed[t])

LowestInProgress ==
    ~raced =>
        /\ \A s, t \in Updaters : step[s] # "idle" /\ step[t] # "idle" => s = t
        /\ AllIdle => Lowest(next, used)
        /\ \A t \in Updaters : Progress(t)

IndInv ==
    /\ TypeOK
    /\ UsedInRange
    /\ OwnedInRange
    /\ OwnedIsUsed
    /\ LoadedOwned
    /\ FreedHasNoOwner
    /\ NextIsFree
    /\ LowestInProgress

-----------------------------------------------------------------------------
(* Division with remainder, as the vector's sizes use it.                  *)
LEMMA DivMod ==
    ASSUME NEW n \in Nat, NEW m \in Nat \ {0}
    PROVE  /\ n \div m \in Nat
           /\ n % m \in Nat
           /\ n % m < m
           /\ n = m * (n \div m) + (n % m)
  OBVIOUS

(* The size GenerateInstanceId computes leaves room for the new id.        *)
LEMMA SizeForHolds ==
    ASSUME NEW id \in Nat
    PROVE  SizeFor(id) \in Nat /\ SizeFor(id) > id
  <1> DEFINE q == id \div Block
             r == id % Block
  <1>1. q \in Nat /\ r \in Nat /\ r < Block /\ id = Block * q + r
    BY DivMod, IdsAssumption
  <1>2. q * Block = Block * q /\ q * Block \in Nat
    BY <1>1, IdsAssumption
  <1> QED
    BY <1>1, <1>2, IdsAssumption DEF SizeFor

(* So does the size InitInstanceIds computes for the largest id.           *)
LEMMA InitialSizeHolds ==
    ASSUME NEW id \in Nat
    PROVE  InitialSize(id) \in Nat /\ InitialSize(id) > id
  <1> DEFINE q == id \div Block
             r == id % Block
  <1>1. q \in Nat /\ r \in Nat /\ r < Block /\ id = Block * q + r
    BY DivMod, IdsAssumption
  <1>2. q * Block = Block * q /\ q * Block \in Nat
    BY <1>1, IdsAssumption
  <1> QED
    BY <1>1, <1>2, IdsAssumption DEF InitialSize

(* What the library allocates is a number of bits.                         *)
LEMMA RoundUpType ==
    ASSUME NEW n \in Nat, NEW m \in Nat \ {0}
    PROVE  RoundUp(n, m) \in Nat
  <1>1. n + m - 1 \in Nat
    OBVIOUS
  <1>2. (n + m - 1) \div m \in Nat
    BY <1>1, DivMod
  <1> QED
    BY <1>2 DEF RoundUp

-----------------------------------------------------------------------------
(* The allocator starts with its invariant.                                *)
LEMMA InitInv == BelowLimit /\ Init => IndInv
  <1> SUFFICES ASSUME BelowLimit, Init
               PROVE  IndInv
    OBVIOUS
  <1>1. size \in Nat /\ size > 0
    BY InitialSizeHolds DEF Init
  <1>2. capacity \in Nat
    BY InitialSizeHolds, RoundUpType, IdsAssumption DEF Init
  <1>3. TypeOK
    <2>1. next \in Ids /\ restarts \in 0 .. MaxRestarts
      BY IdsAssumption DEF Init, Ids
    <2>2. stopped \in BOOLEAN /\ raced \in BOOLEAN
      BY DEF Init
    <2>3. dungeons \in [Ids -> Nat] /\ battlegrounds \in [Ids -> Nat]
      BY DEF Init
    <2>4. /\ step \in [Updaters -> {"idle", "set", "load", "store"}]
          /\ freed \in [Updaters -> Ids]
          /\ bits \in [Updaters -> SUBSET Ids]
      BY IdsAssumption DEF Init, Ids
    <2> QED
      BY <1>1, <1>2, <2>1, <2>2, <2>3, <2>4 DEF Init, TypeOK
  <1>4. \A id \in Ids : Owners(id) = 0
    BY DEF Init, Owners
  <1>5. \A t \in Updaters : step[t] = "idle" /\ bits[t] = {}
    BY DEF Init
  <1>6. UsedInRange /\ OwnedInRange /\ OwnedIsUsed
    BY <1>4, <1>5 DEF Init, UsedInRange, OwnedInRange, OwnedIsUsed
  <1>7. LoadedOwned /\ FreedHasNoOwner
    BY <1>5 DEF LoadedOwned, FreedHasNoOwner
  <1>8. NextIsFree
    BY <1>1, <1>3, <1>4 DEF Init, NextIsFree, TypeOK
  <1>9. LowestInProgress
    <2>1. Lowest(next, used)
      BY DEF Init, Lowest
    <2> QED
      BY <1>5, <2>1 DEF LowestInProgress, Progress
  <1> QED
    BY <1>3, <1>6, <1>7, <1>8, <1>9 DEF IndInv

(* The vector grows to hold a new id that is at most its size, and never   *)
(* shrinks.                                                                *)
LEMMA SpaceForNext ==
    ASSUME IndInv, AllocateSpace(next)
    PROVE  /\ size' \in Nat /\ capacity' \in Nat
           /\ size' >= size
           /\ size' > next
  <1> USE DEF IndInv, TypeOK, NextIsFree, Ids
  <1>1. next \in Nat /\ next <= size /\ size \in Nat /\ capacity \in Nat
    BY IdsAssumption
  <1>2. CASE next < size
    BY <1>1, <1>2 DEF AllocateSpace
  <1>3. CASE ~(next < size)
    <2>1. next = size
      BY <1>1, <1>3
    <2> DEFINE n == IF size < capacity THEN capacity ELSE SizeFor(next)
    <2>2. n \in Nat /\ n > next
      BY <1>1, <2>1, SizeForHolds
    <2> HIDE DEF n
    <2>3. Resize(n)
      BY <1>3 DEF AllocateSpace, n
    <2> DEFINE grown == IF n - size > size THEN n ELSE 2 * size
    <2>4. grown \in Nat
      BY <1>1, <2>2
    <2>5. RoundUp(grown, Word) \in Nat
      BY <2>4, RoundUpType, IdsAssumption
    <2>6. size' = n /\ (capacity' = capacity \/ capacity' = RoundUp(grown, Word))
      BY <2>3 DEF Resize
    <2> QED
      BY <1>1, <2>1, <2>2, <2>5, <2>6
  <1> QED
    BY <1>2, <1>3

(* The search ends at an id that is not in use, behind the one handed out  *)
(* and with only used ids in between.                                      *)
LEMMA FoundNext ==
    ASSUME BelowLimit, IndInv, next <= MaxInstance,
           FindNext((next + 1) % (MaxU32 + 1))
    PROVE  /\ next' \in Ids
           /\ next' > next
           /\ next' \notin used
           /\ \A id \in (next + 1) .. (next' - 1) : id \in used
           /\ next' <= size \/ next' = next + 1
  <1>1. /\ next \in Nat /\ size \in Nat
        /\ MaxU32 \in Nat /\ MaxInstance \in Nat /\ MaxInstance + 1 < MaxU32
    BY IdsAssumption DEF IndInv, TypeOK, Ids, BelowLimit
  <1>2. \A id \in used : id <= MaxInstance /\ id < size
    BY DEF IndInv, UsedInRange, InRange
  <1>3. (next + 1) % (MaxU32 + 1) = next + 1
    BY <1>1
  <1>4. Available(MaxInstance + 1)
    BY <1>1, <1>2 DEF Available
  <1>5. MaxInstance + 1 \in (next + 1) .. (MaxU32 - 1)
    BY <1>1
  <1>6. PICK i \in (next + 1) .. (MaxU32 - 1) :
            /\ Available(i)
            /\ \A j \in (next + 1) .. (i - 1) : ~Available(j)
            /\ next' = i
    BY <1>3, <1>4, <1>5 DEF FindNext
  <1>7. i \notin used
    BY <1>1, <1>2, <1>6 DEF Available
  <1>8. \A j \in (next + 1) .. (i - 1) : j \in used /\ j < size
    BY <1>1, <1>2, <1>6 DEF Available
  <1>9. i <= size \/ i = next + 1
    <2> SUFFICES ASSUME i > size, i # next + 1
                 PROVE  FALSE
      BY <1>1
    <2>1. i - 1 \in (next + 1) .. (i - 1) /\ i - 1 >= size
      BY <1>1
    <2> QED
      BY <1>1, <1>8, <2>1
  <1> QED
    BY <1>1, <1>6, <1>7, <1>8, <1>9 DEF Ids

-----------------------------------------------------------------------------
(* A step of the world thread changes nothing of the updaters, which are   *)
(* idle: what the invariant says of them goes on to hold.                  *)
LEMMA UpdatersIdle ==
    ASSUME IndInv, AllIdle, UNCHANGED freeing,
           \A id \in Ids : InRange(id) => InRange(id)',
           Lowest(next, used) => Lowest(next, used)'
    PROVE  /\ LoadedOwned' /\ FreedHasNoOwner' /\ LowestInProgress'
           /\ \A t \in Updaters : \A id \in bits'[t] : InRange(id)'
           /\ \A t \in Updaters : step'[t] = "idle"
  <1>1. \A t \in Updaters : step'[t] = "idle" /\ bits'[t] = bits[t]
    BY DEF AllIdle, freeing
  <1>2. AllIdle' /\ raced' = raced
    BY <1>1 DEF AllIdle, freeing
  <1>3. LoadedOwned' /\ FreedHasNoOwner'
    BY <1>1 DEF LoadedOwned, FreedHasNoOwner
  <1>4. LowestInProgress'
    <2>1. \A t \in Updaters : Progress(t)'
      BY <1>1 DEF Progress
    <2>2. ~raced => Lowest(next, used)
      BY DEF IndInv, LowestInProgress
    <2> QED
      BY <1>1, <1>2, <2>1, <2>2 DEF LowestInProgress
  <1>5. \A t \in Updaters : \A id \in bits[t] : id \in Ids /\ InRange(id)
    BY DEF IndInv, TypeOK, UsedInRange
  <1> QED
    BY <1>1, <1>3, <1>4, <1>5

(* Handing out the next id, to whichever owner, keeps the invariant.       *)
LEMMA GenerateInv ==
    ASSUME BelowLimit, IndInv, GenerateInstanceId,
           dungeons' \in [Ids -> Nat], battlegrounds' \in [Ids -> Nat],
           \A id \in Ids : Owners(id)' = Owners(id) + (IF id = next THEN 1 ELSE 0),
           UNCHANGED <<freeing, survivors, restarts>>
    PROVE  IndInv'
  <1>1. /\ next \in Nat /\ size \in Nat /\ MaxInstance \in Nat /\ MaxU32 \in Nat
        /\ next \in Ids /\ next >= 1 /\ next <= MaxInstance /\ next <= size
    BY IdsAssumption
       DEF IndInv, TypeOK, Ids, NextIsFree, GenerateInstanceId
  <1>2. size' \in Nat /\ capacity' \in Nat /\ size' >= size /\ size' > next
    BY SpaceForNext DEF GenerateInstanceId
  <1>3. /\ next' \in Ids /\ next' > next /\ next' \notin used
        /\ \A id \in (next + 1) .. (next' - 1) : id \in used
        /\ next' <= size \/ next' = next + 1
    BY FoundNext DEF GenerateInstanceId
  <1>4. used' = used \cup {next} /\ AllIdle
    BY DEF GenerateInstanceId
  <1>5. TypeOK'
    <2>1. stopped' \in BOOLEAN
      BY DEF GenerateInstanceId
    <2> QED
      BY <1>1, <1>2, <1>3, <1>4, <2>1 DEF IndInv, TypeOK, freeing
  <1>6. \A id \in Ids : InRange(id) => InRange(id)'
    BY <1>1, <1>2 DEF InRange, Ids
  <1>7. Lowest(next, used) => Lowest(next, used)'
    <2> SUFFICES ASSUME Lowest(next, used)
                 PROVE  Lowest(next, used)'
      OBVIOUS
    <2> DEFINE n == next'
    <2>1. n \in Nat
      BY <1>1, <1>3 DEF Ids
    <2>2. \A j \in (next + 1) .. (n - 1) : j \in used
      BY <1>3
    <2>3. n >= 1 /\ n \notin used'
      BY <1>1, <1>3, <1>4 DEF Ids
    <2> HIDE DEF n
    <2>4. \A j \in 1 .. (n - 1) : j < next \/ j = next \/ j \in (next + 1) .. (n - 1)
      BY <1>1, <2>1
    <2>5. \A j \in 1 .. (n - 1) : j < next => j \in used
      BY <1>1, <2>1 DEF Lowest
    <2>6. \A j \in 1 .. (n - 1) : j \in used'
      BY <1>4, <2>2, <2>4, <2>5
    <2> QED
      BY <2>3, <2>6 DEF Lowest, n
  <1>8. /\ LoadedOwned' /\ FreedHasNoOwner' /\ LowestInProgress'
        /\ \A t \in Updaters : \A id \in bits'[t] : InRange(id)'
        /\ \A t \in Updaters : step'[t] = "idle"
    BY <1>4, <1>6, <1>7, UpdatersIdle
  <1>10. next >= 1 /\ next <= MaxInstance /\ next < size'
    BY <1>1, <1>2
  <1>11. UsedInRange'
    <2>1. \A id \in used' : InRange(id)'
      <3> SUFFICES ASSUME NEW id \in used'
                   PROVE  InRange(id)'
        OBVIOUS
      <3>1. CASE id = next
        BY <1>10, <3>1 DEF InRange
      <3>2. CASE id \in used
        BY <1>6, <3>2 DEF IndInv, UsedInRange, TypeOK
      <3> QED
        BY <1>4, <3>1, <3>2
    <2> QED
      BY <1>8, <2>1 DEF UsedInRange
  <1>12. \A id \in Ids : Owners(id) \in Nat
    BY DEF IndInv, TypeOK, Owners
  <1>13. OwnedInRange'
    <2> SUFFICES ASSUME NEW id \in Ids, Owners(id)' > 0
                 PROVE  InRange(id)'
      BY DEF OwnedInRange
    <2>1. CASE id = next
      BY <1>10, <2>1 DEF InRange
    <2>2. CASE id # next
      <3>1. Owners(id) > 0
        BY <1>12, <2>2
      <3> QED
        BY <1>6, <3>1 DEF IndInv, OwnedInRange
    <2> QED
      BY <2>1, <2>2
  <1>14. OwnedIsUsed'
    <2> SUFFICES ASSUME NEW id \in Ids \ survivors
                 PROVE  Owners(id)' <= 1 /\ (Owners(id)' > 0 => id \in used')
      BY DEF OwnedIsUsed
    <2>1. CASE id = next
      BY <1>4, <1>12, <2>1 DEF IndInv, NextIsFree
    <2>2. CASE id # next
      BY <1>4, <1>12, <2>2 DEF IndInv, OwnedIsUsed
    <2> QED
      BY <2>1, <2>2
  <1>15. NextIsFree'
    <2>1. next' >= 1 /\ next' <= size'
      BY <1>1, <1>2, <1>3 DEF Ids
    <2>2. next' # next
      BY <1>1, <1>3 DEF Ids
    <2>3. next' \notin survivors => Owners(next') = 0
      BY <1>3, <1>12 DEF IndInv, OwnedIsUsed
    <2>4. Owners(next)' = dungeons'[next'] + battlegrounds'[next']
      BY DEF Owners
    <2>5. \A id \in Ids : id # next => dungeons'[id] + battlegrounds'[id] = Owners(id)
      BY <1>12 DEF Owners
    <2> QED
      BY <1>3, <2>1, <2>2, <2>3, <2>4, <2>5 DEF NextIsFree
  <1> QED
    BY <1>5, <1>8, <1>11, <1>13, <1>14, <1>15 DEF IndInv

(* A dungeon's id given back by the world thread.                          *)
LEMMA ResetInv ==
    ASSUME IndInv, NEW id0 \in Ids, ResetInstance(id0)
    PROVE  IndInv'
  <1>1. /\ next \in Ids /\ next \in Nat /\ next >= 1 /\ next <= size /\ size \in Nat
        /\ dungeons \in [Ids -> Nat] /\ battlegrounds \in [Ids -> Nat]
        /\ \A id \in Ids : Owners(id) \in Nat
    BY IdsAssumption DEF IndInv, TypeOK, Ids, NextIsFree, Owners
  <1>2. /\ next' = IF id0 < next THEN id0 ELSE next
        /\ used' = used \ {id0}
        /\ size' = size /\ capacity' = capacity /\ stopped' = stopped
        /\ AllIdle /\ UNCHANGED <<freeing, survivors, restarts>>
    BY DEF ResetInstance, FreeInstanceId
  <1>3. /\ dungeons' \in [Ids -> Nat] /\ battlegrounds' \in [Ids -> Nat]
        /\ \A id \in Ids : Owners(id)' = IF id = id0 THEN Owners(id) - 1 ELSE Owners(id)
        /\ Owners(id0) > 0
    BY <1>1 DEF ResetInstance, Owners
  <1>4. id0 \in Nat /\ id0 >= 1 /\ id0 < size
    BY <1>3, IdsAssumption DEF IndInv, OwnedInRange, InRange, Ids
  <1>5. TypeOK'
    BY <1>1, <1>2, <1>3 DEF IndInv, TypeOK, freeing
  <1>6. \A id \in Ids : InRange(id) => InRange(id)'
    BY <1>2 DEF InRange
  <1>7. Lowest(next, used) => Lowest(next, used)'
    BY <1>1, <1>2, <1>4 DEF Lowest
  <1>8. /\ LoadedOwned' /\ FreedHasNoOwner' /\ LowestInProgress'
        /\ \A t \in Updaters : \A id \in bits'[t] : InRange(id)'
        /\ \A t \in Updaters : step'[t] = "idle"
    BY <1>2, <1>6, <1>7, UpdatersIdle
  <1>9. UsedInRange'
    BY <1>2, <1>6, <1>8 DEF IndInv, UsedInRange, TypeOK
  <1>10. OwnedInRange'
    BY <1>1, <1>3, <1>6 DEF IndInv, OwnedInRange
  <1>11. OwnedIsUsed'
    BY <1>1, <1>2, <1>3 DEF IndInv, OwnedIsUsed
  <1>12. NextIsFree'
    <2>1. next' >= 1 /\ next' <= size' /\ next' \in Ids
      BY <1>1, <1>2, <1>4
    <2>2. id0 \notin survivors => Owners(id0)' = 0
      BY <1>1, <1>3 DEF IndInv, OwnedIsUsed
    <2>3. next # id0 /\ next \notin survivors => dungeons'[next] + battlegrounds'[next] = 0
      BY <1>1, <1>3 DEF IndInv, NextIsFree, Owners
    <2>4. id0 \notin survivors => dungeons'[id0] + battlegrounds'[id0] = 0
      BY <2>2 DEF Owners
    <2>5. next' \notin survivors' => dungeons'[next'] + battlegrounds'[next'] = 0
      BY <1>2, <2>3, <2>4
    <2> QED
      BY <2>1, <2>5 DEF NextIsFree, Owners
  <1> QED
    BY <1>5, <1>8, <1>9, <1>10, <1>11, <1>12 DEF IndInv

-----------------------------------------------------------------------------
(* The steps of a thread that frees a battleground's id.                   *)

(* The id it frees is one of the bits of the word it loads and stores.     *)
LEMMA InItsWord ==
    ASSUME NEW id \in Ids
    PROVE  id \in WordOf(id) /\ WordOf(id) \subseteq Ids
  BY DEF WordOf

(* The battleground is destroyed and its id compared with the next one.    *)
LEMMA DestroyInv ==
    ASSUME IndInv, NEW u \in Updaters, NEW id0 \in Ids, DestroyBattleground(u, id0)
    PROVE  IndInv'
  <1>1. /\ next \in Nat /\ next >= 1
        /\ dungeons \in [Ids -> Nat] /\ battlegrounds \in [Ids -> Nat]
        /\ \A id \in Ids : Owners(id) \in Nat
        /\ step \in [Updaters -> {"idle", "set", "load", "store"}]
        /\ freed \in [Updaters -> Ids] /\ id0 \in Nat
    <2>1. /\ dungeons \in [Ids -> Nat] /\ battlegrounds \in [Ids -> Nat]
          /\ step \in [Updaters -> {"idle", "set", "load", "store"}]
          /\ freed \in [Updaters -> Ids]
      BY DEF IndInv, TypeOK
    <2>2. \A id \in Ids : Owners(id) \in Nat
      BY <2>1 DEF Owners
    <2>3. next \in Nat /\ next >= 1 /\ id0 \in Nat
      BY IdsAssumption DEF IndInv, TypeOK, Ids, NextIsFree
    <2> QED  BY <2>1, <2>2, <2>3
  <1>2. /\ step[u] = "idle"
        /\ freed' = [freed EXCEPT ![u] = id0]
        /\ step' = [step EXCEPT ![u] = IF id0 < next THEN "set" ELSE "load"]
        /\ raced' = (raced \/ ~AllIdle)
        /\ UNCHANGED <<next, used, size, capacity, stopped, bits, survivors, restarts>>
    BY DEF DestroyBattleground
  <1>3. /\ dungeons' \in [Ids -> Nat] /\ battlegrounds' \in [Ids -> Nat]
        /\ \A id \in Ids : Owners(id)' = IF id = id0 THEN Owners(id) - 1 ELSE Owners(id)
        /\ Owners(id0) > 0
    BY <1>1 DEF DestroyBattleground, Owners
  <1>4. /\ \A id \in Ids : Owners(id)' > 0 => Owners(id) > 0
        /\ \A id \in Ids : Owners(id) = 0 => Owners(id)' = 0
    BY <1>1, <1>3
  <1>5. TypeOK'
    <2>1. /\ step' \in [Updaters -> {"idle", "set", "load", "store"}]
          /\ freed' \in [Updaters -> Ids]
      BY <1>1, <1>2
    <2>2. raced' \in BOOLEAN
      BY <1>2
    <2> QED
      BY <1>2, <1>3, <2>1, <2>2 DEF IndInv, TypeOK
  <1>6. InRange(id0)
    BY <1>3 DEF IndInv, OwnedInRange
  <1>7. \A id : InRange(id)' <=> InRange(id)
    BY <1>2 DEF InRange
  <1>8. UsedInRange'
    BY <1>1, <1>2, <1>6, <1>7 DEF IndInv, UsedInRange
  <1>9. OwnedInRange'
    BY <1>4, <1>7 DEF IndInv, OwnedInRange
  <1>10. OwnedIsUsed'
    BY <1>1, <1>2, <1>3, <1>4 DEF IndInv, OwnedIsUsed
  <1>11. \A t \in Updaters : t # u => step'[t] = step[t] /\ freed'[t] = freed[t]
    BY <1>1, <1>2
  <1>12. step'[u] \in {"set", "load"} /\ freed'[u] = id0
    BY <1>1, <1>2
  <1>13. LoadedOwned'
    <2> SUFFICES ASSUME NEW t \in Updaters, step'[t] = "store",
                        NEW id \in WordOf(freed'[t]), id \notin survivors, Owners(id)' > 0
                 PROVE  id \in bits[t]
      BY <1>2 DEF LoadedOwned, WordOf
    <2>1. t # u
      BY <1>12
    <2>2. id \in Ids /\ Owners(id) > 0
      BY <1>4 DEF WordOf
    <2> QED
      BY <1>11, <2>1, <2>2 DEF IndInv, LoadedOwned
  <1>14. FreedHasNoOwner'
    <2> SUFFICES ASSUME NEW t \in Updaters, step'[t] # "idle", freed'[t] \notin survivors
                 PROVE  dungeons'[freed'[t]] + battlegrounds'[freed'[t]] = 0
      BY <1>2 DEF FreedHasNoOwner, Owners
    <2>1. \A id \in Ids : dungeons'[id] + battlegrounds'[id] = Owners(id)'
      BY DEF Owners
    <2>2. CASE t = u
      <3>1. freed'[t] = id0 /\ id0 \notin survivors
        BY <1>12, <2>2
      <3>2. Owners(id0) <= 1
        BY <3>1 DEF IndInv, OwnedIsUsed
      <3>3. Owners(id0)' = 0
        BY <1>1, <1>3, <3>2
      <3> QED
        BY <2>1, <3>1, <3>3
    <2>3. CASE t # u
      <3>1. freed'[t] = freed[t] /\ freed[t] \in Ids /\ step[t] # "idle"
        BY <1>1, <1>11, <2>3
      <3>2. Owners(freed[t]) = 0
        BY <3>1 DEF IndInv, FreedHasNoOwner
      <3>3. \A id \in Ids : Owners(id) = 0 => dungeons'[id] + battlegrounds'[id] = 0
        BY <1>4, <2>1
      <3> QED
        BY <3>1, <3>2, <3>3
    <2> QED
      BY <2>2, <2>3
  <1>15. NextIsFree'
    <2>1. next \notin survivors => Owners(next) = 0 /\ next \in Ids
      BY DEF IndInv, NextIsFree, TypeOK
    <2>2. next \notin survivors => dungeons'[next] + battlegrounds'[next] = 0
      BY <1>4, <2>1 DEF Owners
    <2> QED
      BY <1>2, <2>2 DEF IndInv, NextIsFree, Owners
  <1>16. LowestInProgress'
    <2> SUFFICES ASSUME ~raced'
                 PROVE  /\ \A s, t \in Updaters : step'[s] # "idle" /\ step'[t] # "idle" => s = t
                        /\ AllIdle' => Lowest(next, used)'
                        /\ \A t \in Updaters : Progress(t)'
      BY DEF LowestInProgress
    <2>1. ~raced /\ AllIdle /\ Lowest(next, used)
      BY <1>2 DEF IndInv, LowestInProgress
    <2>2. \A t \in Updaters : t # u => step'[t] = "idle"
      BY <1>11, <2>1 DEF AllIdle
    <2>3. ~AllIdle'
      BY <1>12 DEF AllIdle
    <2>4. Progress(u)'
      <3>1. CASE id0 < next
        <4>1. step'[u] = "set" /\ freed'[u] = id0
          BY <1>1, <1>2, <3>1
        <4> QED
          BY <1>2, <2>1, <3>1, <4>1 DEF Progress, Lowest
      <3>2. CASE ~(id0 < next)
        <4>1. step'[u] = "load" /\ freed'[u] = id0
          BY <1>1, <1>2, <3>2
        <4>2. Lowest(next, used \ {id0})
          BY <1>1, <2>1, <3>2 DEF Lowest
        <4> QED
          BY <1>2, <4>1, <4>2 DEF Progress, Lowest
      <3> QED
        BY <3>1, <3>2
    <2>5. \A t \in Updaters : t # u => Progress(t)'
      BY <2>2 DEF Progress
    <2> QED
      BY <2>2, <2>3, <2>4, <2>5
  <1> QED
    BY <1>5, <1>8, <1>9, <1>10, <1>13, <1>14, <1>15, <1>16 DEF IndInv

(* A step of FreeInstanceId that changes no owner, no size and no argument *)
(* keeps the parts of the invariant that speak only of these.              *)
LEMMA OwnersUnchanged ==
    ASSUME UNCHANGED <<size, owners, survivors>>
    PROVE  /\ \A id : InRange(id)' <=> InRange(id)
           /\ \A id : dungeons'[id] + battlegrounds'[id] = Owners(id)
           /\ OwnedInRange => OwnedInRange'
  <1>1. \A id : InRange(id)' <=> InRange(id)
    BY DEF InRange
  <1>2. dungeons' = dungeons /\ battlegrounds' = battlegrounds
    BY DEF owners
  <1> QED
    BY <1>1, <1>2 DEF OwnedInRange, Owners

(* The store to _nextInstanceId.                                           *)
LEMMA SetNextInv ==
    ASSUME IndInv, NEW u \in Updaters, SetNextInstanceId(u)
    PROVE  IndInv'
  <1>1. /\ next \in Nat /\ size \in Nat
        /\ step \in [Updaters -> {"idle", "set", "load", "store"}]
        /\ freed \in [Updaters -> Ids] /\ freed[u] \in Ids /\ freed[u] \in Nat
    BY IdsAssumption DEF IndInv, TypeOK, Ids
  <1>2. /\ step[u] = "set" /\ next' = freed[u]
        /\ step' = [step EXCEPT ![u] = "load"]
        /\ UNCHANGED <<used, size, capacity, owners, stopped, freed, bits, raced,
                       survivors, restarts>>
    BY DEF SetNextInstanceId
  <1>3. /\ \A id : InRange(id)' <=> InRange(id)
        /\ \A id : dungeons'[id] + battlegrounds'[id] = Owners(id)
        /\ OwnedInRange'
    BY <1>2, OwnersUnchanged DEF IndInv
  <1>4. /\ step'[u] = "load"
        /\ \A t \in Updaters : t # u => step'[t] = step[t]
    BY <1>1, <1>2
  <1>5. TypeOK'
    BY <1>1, <1>2 DEF IndInv, TypeOK, owners
  <1>6. UsedInRange'
    BY <1>2, <1>3, <1>4 DEF IndInv, UsedInRange
  <1>7. OwnedIsUsed'
    BY <1>2, <1>3 DEF IndInv, OwnedIsUsed, Owners
  <1>8. LoadedOwned'
    <2> SUFFICES ASSUME NEW t \in Updaters, step'[t] = "store",
                        NEW id \in WordOf(freed[t]), id \notin survivors,
                        dungeons'[id] + battlegrounds'[id] > 0
                 PROVE  id \in bits[t]
      BY <1>2 DEF LoadedOwned, WordOf, Owners
    <2> QED
      BY <1>3, <1>4 DEF IndInv, LoadedOwned
  <1>9. FreedHasNoOwner'
    <2> SUFFICES ASSUME NEW t \in Updaters, step'[t] # "idle", freed[t] \notin survivors
                 PROVE  dungeons'[freed[t]] + battlegrounds'[freed[t]] = 0
      BY <1>2 DEF FreedHasNoOwner, Owners
    <2>1. step[t] # "idle"
      BY <1>2, <1>4
    <2> QED
      BY <1>3, <2>1 DEF IndInv, FreedHasNoOwner
  <1>10. NextIsFree'
    <2>1. InRange(freed[u])
      BY <1>2 DEF IndInv, UsedInRange
    <2>2. freed[u] \notin survivors => Owners(freed[u]) = 0
      BY <1>2 DEF IndInv, FreedHasNoOwner
    <2>3. next' >= 1 /\ next' <= size'
      BY <1>1, <1>2, <2>1 DEF InRange
    <2>4. next' \notin survivors' => dungeons'[next'] + battlegrounds'[next'] = 0
      BY <1>2, <1>3, <2>2
    <2> QED
      BY <2>3, <2>4 DEF NextIsFree, Owners
  <1>11. LowestInProgress'
    <2> SUFFICES ASSUME ~raced
                 PROVE  /\ \A s, t \in Updaters : step'[s] # "idle" /\ step'[t] # "idle" => s = t
                        /\ AllIdle' => Lowest(next, used)'
                        /\ \A t \in Updaters : Progress(t)'
      BY <1>2 DEF LowestInProgress
    <2>1. /\ \A t \in Updaters : t # u => step[t] = "idle"
          /\ freed[u] < next /\ Lowest(next, used)
      BY <1>2 DEF IndInv, LowestInProgress, Progress
    <2>2. \A t \in Updaters : t # u => step'[t] = "idle"
      BY <1>4, <2>1
    <2>3. ~AllIdle'
      BY <1>4 DEF AllIdle
    <2>4. Lowest(freed[u], used \ {freed[u]})
      <3>1. InRange(freed[u])
        BY <1>2 DEF IndInv, UsedInRange
      <3> QED
        BY <1>1, <2>1, <3>1 DEF Lowest, InRange
    <2>5. Progress(u)'
      BY <1>2, <1>4, <2>4 DEF Progress, Lowest
    <2>6. \A t \in Updaters : t # u => Progress(t)'
      BY <2>2 DEF Progress
    <2> QED
      BY <2>2, <2>3, <2>5, <2>6
  <1> QED
    BY <1>3, <1>5, <1>6, <1>7, <1>8, <1>9, <1>10, <1>11 DEF IndInv

(* The load of the word.                                                   *)
LEMMA LoadInv ==
    ASSUME IndInv, NEW u \in Updaters, LoadBits(u)
    PROVE  IndInv'
  <1>1. /\ step \in [Updaters -> {"idle", "set", "load", "store"}]
        /\ freed[u] \in Ids /\ used \subseteq Ids
        /\ bits \in [Updaters -> SUBSET Ids]
    BY DEF IndInv, TypeOK
  <1>2. /\ step[u] = "load"
        /\ bits' = [bits EXCEPT ![u] = used \cap WordOf(freed[u])]
        /\ step' = [step EXCEPT ![u] = "store"]
        /\ UNCHANGED <<next, used, size, capacity, owners, stopped, freed, raced,
                       survivors, restarts>>
    BY DEF LoadBits
  <1>3. /\ \A id : InRange(id)' <=> InRange(id)
        /\ \A id : dungeons'[id] + battlegrounds'[id] = Owners(id)
        /\ OwnedInRange'
    BY <1>2, OwnersUnchanged DEF IndInv
  <1>4. /\ step'[u] = "store" /\ bits'[u] = used \cap WordOf(freed[u])
        /\ \A t \in Updaters : t # u => step'[t] = step[t] /\ bits'[t] = bits[t]
    BY <1>1, <1>2
  <1>5. TypeOK'
    <2>1. /\ step' \in [Updaters -> {"idle", "set", "load", "store"}]
          /\ bits' \in [Updaters -> SUBSET Ids]
      BY <1>1, <1>2
    <2> QED
      BY <1>2, <2>1 DEF IndInv, TypeOK, owners
  <1>6. UsedInRange'
    BY <1>2, <1>3, <1>4 DEF IndInv, UsedInRange
  <1>7. OwnedIsUsed'
    BY <1>2, <1>3 DEF IndInv, OwnedIsUsed, Owners
  <1>8. LoadedOwned'
    <2> SUFFICES ASSUME NEW t \in Updaters, step'[t] = "store",
                        NEW id \in WordOf(freed[t]), id \notin survivors,
                        dungeons'[id] + battlegrounds'[id] > 0
                 PROVE  id \in bits'[t]
      BY <1>2 DEF LoadedOwned, WordOf, Owners
    <2>1. id \in Ids /\ Owners(id) > 0
      BY <1>3 DEF WordOf
    <2>2. CASE t = u
      BY <1>4, <2>1, <2>2 DEF IndInv, OwnedIsUsed
    <2>3. CASE t # u
      BY <1>4, <2>1, <2>3 DEF IndInv, LoadedOwned
    <2> QED
      BY <2>2, <2>3
  <1>9. FreedHasNoOwner'
    <2> SUFFICES ASSUME NEW t \in Updaters, step'[t] # "idle", freed[t] \notin survivors
                 PROVE  dungeons'[freed[t]] + battlegrounds'[freed[t]] = 0
      BY <1>2 DEF FreedHasNoOwner, Owners
    <2>1. step[t] # "idle"
      BY <1>2, <1>4
    <2> QED
      BY <1>3, <2>1 DEF IndInv, FreedHasNoOwner
  <1>10. NextIsFree'
    BY <1>2, <1>3 DEF IndInv, NextIsFree, Owners
  <1>11. LowestInProgress'
    <2> SUFFICES ASSUME ~raced
                 PROVE  /\ \A s, t \in Updaters : step'[s] # "idle" /\ step'[t] # "idle" => s = t
                        /\ AllIdle' => Lowest(next, used)'
                        /\ \A t \in Updaters : Progress(t)'
      BY <1>2 DEF LowestInProgress
    <2>1. /\ \A t \in Updaters : t # u => step[t] = "idle"
          /\ Lowest(next, used \ {freed[u]})
      BY <1>2 DEF IndInv, LowestInProgress, Progress
    <2>2. \A t \in Updaters : t # u => step'[t] = "idle"
      BY <1>4, <2>1
    <2>3. ~AllIdle'
      BY <1>4 DEF AllIdle
    <2>4. Progress(u)'
      BY <1>2, <1>4, <2>1 DEF Progress, Lowest, WordOf
    <2>5. \A t \in Updaters : t # u => Progress(t)'
      BY <2>2 DEF Progress
    <2> QED
      BY <2>2, <2>3, <2>4, <2>5
  <1> QED
    BY <1>3, <1>5, <1>6, <1>7, <1>8, <1>9, <1>10, <1>11 DEF IndInv

(* The store of the word: it may set bits again that another thread has    *)
(* cleared since the load, and clears none of an id in use.                *)
LEMMA StoreInv ==
    ASSUME IndInv, NEW u \in Updaters, StoreBits(u)
    PROVE  IndInv'
  <1>1. /\ step \in [Updaters -> {"idle", "set", "load", "store"}]
        /\ freed \in [Updaters -> Ids] /\ freed[u] \in Ids /\ used \subseteq Ids
        /\ bits \in [Updaters -> SUBSET Ids] /\ 0 \in Ids
    BY IdsAssumption DEF IndInv, TypeOK, Ids
  <1>2. /\ step[u] = "store"
        /\ used' = (used \ WordOf(freed[u])) \cup (bits[u] \ {freed[u]})
        /\ step' = [step EXCEPT ![u] = "idle"]
        /\ freed' = [freed EXCEPT ![u] = 0]
        /\ bits' = [bits EXCEPT ![u] = {}]
        /\ UNCHANGED <<next, size, capacity, owners, stopped, raced, survivors, restarts>>
    BY DEF StoreBits
  <1>3. /\ \A id : InRange(id)' <=> InRange(id)
        /\ \A id : dungeons'[id] + battlegrounds'[id] = Owners(id)
        /\ OwnedInRange'
    BY <1>2, OwnersUnchanged DEF IndInv
  <1>4. /\ step'[u] = "idle" /\ bits'[u] = {}
        /\ \A t \in Updaters : t # u =>
               step'[t] = step[t] /\ bits'[t] = bits[t] /\ freed'[t] = freed[t]
    BY <1>1, <1>2
  <1>5. used' \subseteq used \cup bits[u]
    BY <1>2
  <1>6. TypeOK'
    <2>1. /\ step' \in [Updaters -> {"idle", "set", "load", "store"}]
          /\ bits' \in [Updaters -> SUBSET Ids] /\ freed' \in [Updaters -> Ids]
          /\ used' \subseteq Ids
      BY <1>1, <1>2
    <2> QED
      BY <1>2, <2>1 DEF IndInv, TypeOK, owners
  <1>7. UsedInRange'
    <2>1. \A id \in used' : InRange(id)'
      BY <1>3, <1>5 DEF IndInv, UsedInRange
    <2>2. \A t \in Updaters : \A id \in bits'[t] : InRange(id)'
      BY <1>3, <1>4 DEF IndInv, UsedInRange
    <2>3. \A t \in Updaters : step'[t] # "idle" =>
              freed'[t] >= 1 /\ freed'[t] <= MaxInstance /\ freed'[t] < size'
      BY <1>2, <1>4 DEF IndInv, UsedInRange, InRange
    <2> QED
      BY <2>1, <2>2, <2>3 DEF UsedInRange, InRange
  <1>8. OwnedIsUsed'
    <2> SUFFICES ASSUME NEW id \in Ids \ survivors
                 PROVE  /\ dungeons'[id] + battlegrounds'[id] <= 1
                        /\ dungeons'[id] + battlegrounds'[id] > 0 => id \in used'
      BY <1>2 DEF OwnedIsUsed, Owners
    <2>1. Owners(id) <= 1 /\ (Owners(id) > 0 => id \in used)
      BY DEF IndInv, OwnedIsUsed
    <2>2. Owners(id) > 0 => id # freed[u]
      BY <1>2 DEF IndInv, FreedHasNoOwner
    <2>3. Owners(id) > 0 /\ id \in WordOf(freed[u]) => id \in bits[u]
      BY <1>2 DEF IndInv, LoadedOwned
    <2> QED
      BY <1>2, <1>3, <2>1, <2>2, <2>3
  <1>9. LoadedOwned'
    <2> SUFFICES ASSUME NEW t \in Updaters, step'[t] = "store",
                        NEW id \in WordOf(freed'[t]), id \notin survivors,
                        dungeons'[id] + battlegrounds'[id] > 0
                 PROVE  id \in bits'[t]
      BY <1>2 DEF LoadedOwned, WordOf, Owners
    <2>1. t # u
      BY <1>4
    <2> QED
      BY <1>3, <1>4, <2>1 DEF IndInv, LoadedOwned
  <1>10. FreedHasNoOwner'
    <2> SUFFICES ASSUME NEW t \in Updaters, step'[t] # "idle", freed'[t] \notin survivors
                 PROVE  dungeons'[freed'[t]] + battlegrounds'[freed'[t]] = 0
      BY <1>2 DEF FreedHasNoOwner, Owners
    <2>1. t # u
      BY <1>4
    <2> QED
      BY <1>3, <1>4, <2>1 DEF IndInv, FreedHasNoOwner
  <1>11. NextIsFree'
    BY <1>2, <1>3 DEF IndInv, NextIsFree, Owners
  <1>12. LowestInProgress'
    <2> SUFFICES ASSUME ~raced
                 PROVE  /\ \A s, t \in Updaters : step'[s] # "idle" /\ step'[t] # "idle" => s = t
                        /\ AllIdle' => Lowest(next, used)'
                        /\ \A t \in Updaters : Progress(t)'
      BY <1>2 DEF LowestInProgress
    <2>1. /\ \A t \in Updaters : t # u => step[t] = "idle"
          /\ Lowest(next, used \ {freed[u]})
          /\ bits[u] = used \cap WordOf(freed[u])
      BY <1>2 DEF IndInv, LowestInProgress, Progress
    <2>2. \A t \in Updaters : step'[t] = "idle"
      BY <1>4, <2>1
    <2>3. freed[u] \in WordOf(freed[u])
      BY <1>1, InItsWord
    <2>4. used' = used \ {freed[u]}
      BY <1>2, <2>1, <2>3
    <2>5. Lowest(next, used)'
      BY <1>2, <2>1, <2>4 DEF Lowest
    <2> QED
      BY <2>2, <2>5 DEF Progress
  <1> QED
    BY <1>3, <1>6, <1>7, <1>8, <1>9, <1>10, <1>11, <1>12 DEF IndInv

-----------------------------------------------------------------------------
(* A restart builds it anew from the rows of the table.                    *)
LEMMA RestartInv ==
    ASSUME BelowLimit, IndInv, NEW rows \in SUBSET Rows, NEW maxId \in rows \cup {0},
           Restart(rows, maxId)
    PROVE  IndInv'
  <1>1. maxId \in Nat /\ rows \subseteq Ids
    BY DEF Rows, Ids
  <1>2. \A id \in rows : id >= 1 /\ id <= MaxInstance
    <2>1. \A id \in Rows : dungeons[id] \in Nat /\ battlegrounds[id] \in Nat
      BY DEF Rows, IndInv, TypeOK
    <2>2. \A id \in Rows : id \in Ids /\ Owners(id) > 0
      BY <2>1 DEF Rows, Owners
    <2> QED
      BY <2>2 DEF IndInv, OwnedInRange, InRange
  <1>3. size' \in Nat /\ size' > maxId /\ capacity' \in Nat
    BY <1>1, InitialSizeHolds, RoundUpType, IdsAssumption DEF Restart
  <1>4. \A t \in Updaters : step'[t] = "idle" /\ bits'[t] = {}
    BY DEF Restart
  <1>5. \A id \in Ids : dungeons'[id] + battlegrounds'[id] = IF id \in rows THEN 1 ELSE 0
    BY DEF Restart
  <1>6. next' = 1 /\ used' = {} /\ survivors' = rows /\ 1 \in Ids /\ 0 \in Ids
    BY IdsAssumption DEF Restart, Ids
  <1>7. TypeOK'
    <2>1. restarts' \in 0 .. MaxRestarts
      BY IdsAssumption DEF Restart, IndInv, TypeOK
    <2>2. stopped' \in BOOLEAN /\ raced' \in BOOLEAN
      BY DEF Restart
    <2>3. dungeons' \in [Ids -> Nat] /\ battlegrounds' \in [Ids -> Nat]
      BY DEF Restart
    <2>4. /\ step' \in [Updaters -> {"idle", "set", "load", "store"}]
          /\ freed' \in [Updaters -> Ids] /\ bits' \in [Updaters -> SUBSET Ids]
      BY <1>6 DEF Restart
    <2> QED
      BY <1>1, <1>3, <1>6, <2>1, <2>2, <2>3, <2>4 DEF TypeOK
  <1>8. UsedInRange'
    BY <1>4, <1>6 DEF UsedInRange
  <1>9. OwnedInRange'
    <2> SUFFICES ASSUME NEW id \in Ids, dungeons'[id] + battlegrounds'[id] > 0
                 PROVE  id >= 1 /\ id <= MaxInstance /\ id < size'
      BY DEF OwnedInRange, Owners, InRange
    <2>1. id \in rows /\ id <= maxId
      BY <1>5 DEF Restart
    <2> QED
      BY <1>1, <1>2, <1>3, <2>1 DEF Ids
  <1>10. OwnedIsUsed'
    BY <1>5, <1>6 DEF OwnedIsUsed, Owners
  <1>11. LoadedOwned' /\ FreedHasNoOwner'
    BY <1>4 DEF LoadedOwned, FreedHasNoOwner
  <1>12. NextIsFree'
    <2>1. 1 \notin rows => dungeons'[1] + battlegrounds'[1] = 0
      BY <1>5, <1>6
    <2> QED
      BY <1>1, <1>3, <1>6, <2>1 DEF NextIsFree, Owners
  <1>13. LowestInProgress'
    <2>1. Lowest(next, used)'
      BY <1>6 DEF Lowest
    <2> QED
      BY <1>4, <2>1 DEF LowestInProgress, Progress
  <1> QED
    BY <1>7, <1>8, <1>9, <1>10, <1>11, <1>12, <1>13 DEF IndInv

(* Every step keeps the invariant, one case per action.                    *)
LEMMA StepInv == BelowLimit /\ IndInv /\ [Next]_vars => IndInv'
  <1> SUFFICES ASSUME BelowLimit, IndInv, [Next]_vars
               PROVE  IndInv'
    OBVIOUS
  <1>1. /\ dungeons \in [Ids -> Nat] /\ battlegrounds \in [Ids -> Nat] /\ next \in Ids
    BY DEF IndInv, TypeOK
  <1>2. CASE CreateInstance
    <2>1. dungeons' \in [Ids -> Nat] /\ battlegrounds' \in [Ids -> Nat]
      BY <1>1, <1>2 DEF CreateInstance
    <2>2. \A id \in Ids : Owners(id)' = Owners(id) + (IF id = next THEN 1 ELSE 0)
      BY <1>1, <1>2 DEF CreateInstance, Owners
    <2> QED
      BY <1>2, <2>1, <2>2, GenerateInv DEF CreateInstance
  <1>3. CASE CreateNewBattleground
    <2>1. dungeons' \in [Ids -> Nat] /\ battlegrounds' \in [Ids -> Nat]
      BY <1>1, <1>3 DEF CreateNewBattleground
    <2>2. \A id \in Ids : Owners(id)' = Owners(id) + (IF id = next THEN 1 ELSE 0)
      BY <1>1, <1>3 DEF CreateNewBattleground, Owners
    <2> QED
      BY <1>3, <2>1, <2>2, GenerateInv DEF CreateNewBattleground
  <1>4. ASSUME NEW id \in Ids, ResetInstance(id)
        PROVE  IndInv'
    BY <1>4, ResetInv
  <1>5. ASSUME NEW u \in Updaters, NEW id \in Ids, DestroyBattleground(u, id)
        PROVE  IndInv'
    BY <1>5, DestroyInv
  <1>6. ASSUME NEW u \in Updaters, SetNextInstanceId(u)
        PROVE  IndInv'
    BY <1>6, SetNextInv
  <1>7. ASSUME NEW u \in Updaters, LoadBits(u)
        PROVE  IndInv'
    BY <1>7, LoadInv
  <1>8. ASSUME NEW u \in Updaters, StoreBits(u)
        PROVE  IndInv'
    BY <1>8, StoreInv
  <1>9. ASSUME NEW rows \in SUBSET Rows, NEW maxId \in rows \cup {0},
               Restart(rows, maxId)
        PROVE  IndInv'
    BY <1>9, RestartInv
  <1>10. CASE UNCHANGED vars
    <2>1. UNCHANGED <<next, used, size, capacity, dungeons, battlegrounds, stopped, step,
                      freed, bits, raced, survivors, restarts>>
      BY <1>10 DEF vars, owners, freeing
    <2> QED
      BY <2>1
         DEF IndInv, TypeOK, UsedInRange, OwnedInRange, OwnedIsUsed, LoadedOwned,
             FreedHasNoOwner, NextIsFree, LowestInProgress, Progress, Lowest, InRange,
             Owners, AllIdle, WordOf
  <1> QED
    BY <1>2, <1>3, <1>4, <1>5, <1>6, <1>7, <1>8, <1>9, <1>10 DEF Next

-----------------------------------------------------------------------------
(* The inductive invariant holds throughout, when the ids stay below the   *)
(* 32-bit limit.                                                           *)
THEOREM Invariance == BelowLimit => (Spec => []IndInv)
  <1> SUFFICES ASSUME BelowLimit
               PROVE  Spec => []IndInv
    OBVIOUS
  <1>1. Init => IndInv
    BY InitInv
  <1>2. IndInv /\ [Next]_vars => IndInv'
    BY StepInv
  <1> QED
    BY <1>1, <1>2, PTL DEF Spec

(* The variables keep their types.                                         *)
THEOREM TypeCorrect == BelowLimit => (Spec => []TypeOK)
  <1> SUFFICES ASSUME BelowLimit
               PROVE  Spec => []TypeOK
    OBVIOUS
  <1>1. IndInv => TypeOK
    BY DEF IndInv
  <1>2. Spec => []IndInv
    BY Invariance
  <1> QED
    BY <1>1, <1>2, PTL

(* The vector is only written inside its bounds: GenerateInstanceId makes  *)
(* room for every id, and FreeInstanceId is called for ids inside it.      *)
THEOREM WritesInBounds == BelowLimit => (Spec => []IdsInBounds)
  <1> SUFFICES ASSUME BelowLimit
               PROVE  Spec => []IdsInBounds
    OBVIOUS
  <1>1. IndInv => IdsInBounds
    BY DEF IndInv, UsedInRange, OwnedInRange, InRange, IdsInBounds
  <1>2. Spec => []IndInv
    BY Invariance
  <1> QED
    BY <1>1, <1>2, PTL

(* _nextInstanceId is the lowest id that is not in use, as the comment in  *)
(* GenerateInstanceId expects of FreeInstanceId, until two threads free an *)
(* id at the same time.                                                    *)
THEOREM NextIsLowest == BelowLimit => (Spec => []LowestUnlessRaced)
  <1> SUFFICES ASSUME BelowLimit
               PROVE  Spec => []LowestUnlessRaced
    OBVIOUS
  <1>1. IndInv => LowestUnlessRaced
    BY DEF IndInv, LowestInProgress, LowestUnlessRaced
  <1>2. Spec => []IndInv
    BY Invariance
  <1> QED
    BY <1>1, <1>2, PTL

(* Ids are unique but for those the table held at the last start, for any  *)
(* number of threads that free ids at once.                                *)
THEOREM SharedOnlyAfterRestart == BelowLimit => (Spec => []OnlySurvivorsShared)
  <1> SUFFICES ASSUME BelowLimit
               PROVE  Spec => []OnlySurvivorsShared
    OBVIOUS
  <1>1. IndInv => OnlySurvivorsShared
    BY DEF IndInv, OwnedIsUsed, OnlySurvivorsShared
  <1>2. Spec => []IndInv
    BY Invariance
  <1> QED
    BY <1>1, <1>2, PTL

-----------------------------------------------------------------------------
(* The saves *)

(* The types of the state and of its parts.  Whoever is bound for good is  *)
(* bound to something.                                                     *)
Saves == [alive : BOOLEAN, players : SUBSET Players, group : BOOLEAN, canReset : BOOLEAN]
Binds == {b \in [save : SaveIds \cup {0}, perm : BOOLEAN] : b.perm => b.save # 0}
Kinds == {"none", "soft", "perm"}
SaveRows == [Players -> [SaveIds -> Kinds]]

State ==
    [save : [SaveIds -> Saves], bind : [Players -> Binds], gbind : Binds,
     loaded : SUBSET SaveIds, spent : SUBSET SaveIds, events : SUBSET SaveIds,
     at : [Players -> SaveIds \cup {Outside}], online : SUBSET Players,
     members : SUBSET Players, leader : Players \cup {NoPlayer}, used : SUBSET SaveIds,
     charRow : SaveRows, instRow : SUBSET SaveIds, aborted : BOOLEAN]

(* The invariants, of any state that the functions are handed on.          *)
Agree(s) ==
    \A i \in SaveIds :
        /\ \A p \in Players : p \in s.save[i].players <=> s.bind[p].save = i
        /\ s.save[i].group <=> s.gbind.save = i
        /\ s.save[i].players # {} \/ s.save[i].group => s.save[i].alive

Locked(s) == \A p \in s.online : s.bind[p].perm => s.at[p] \in {Outside, s.bind[p].save}

Occupied(s) ==
    \A i \in SaveIds : HavePlayers(s, i) => i \in s.loaded /\ (s.save[i].alive \/ i \in s.spent)

Sound(s) == s \in State /\ Agree(s)
Good(s)  == Sound(s) /\ ~s.aborted /\ Locked(s) /\ Occupied(s)

(* What a function may leave alone: who is where, ...                      *)
SamePlaces(s, t) ==
    /\ t.online = s.online /\ t.at = s.at /\ t.loaded = s.loaded
    /\ t.aborted = s.aborted

(* ... also the members of the group and the binds, and all saves or all   *)
(* but one.                                                                *)
SameBinds(s, t) ==
    /\ t \in State /\ SamePlaces(s, t)
    /\ t.spent = s.spent /\ t.members = s.members
    /\ t.bind = s.bind /\ t.gbind = s.gbind

OnlySave(s, t, i) == SameBinds(s, t) /\ \A j \in SaveIds : j # i => t.save[j] = s.save[j]
SameSaves(s, t)   == SameBinds(s, t) /\ t.save = s.save

(* A function that changes binds only as far as it frees players, or binds *)
(* some of P to one of I, ...                                              *)
Eases(s, t, P, I) ==
    /\ Sound(t) /\ SamePlaces(s, t)
    /\ \A q \in Players :
           t.bind[q] \in {s.bind[q], NoBind} \/ (q \in P /\ t.bind[q].save \in I)

(* ... and also keeps the saves of the instances with players in them.     *)
Keeps(s, t, P, I) ==
    /\ Eases(s, t, P, I)
    /\ s.spent \subseteq t.spent
    /\ \A i \in SaveIds : HavePlayers(s, i) /\ s.save[i].alive => t.save[i].alive

(* Assignments by which the functions are split up.                        *)
WithSave(s, i, v) == [s EXCEPT !.save[i] = v]
WithBind(s, p, b) == [s EXCEPT !.bind[p] = b]
WithGroup(s, b)   == [s EXCEPT !.gbind = b]
WithRows(s, rows) == [s EXCEPT !.charRow = rows]
Listed(s, p, i, perm) ==
    [s EXCEPT !.save[i].players = @ \cup {p},
              !.save[i].canReset = @ /\ ~perm,
              !.bind[p] = [save |-> i, perm |-> perm]]

BoundTo(s, t, p, i, perm) ==
    /\ t.bind = [s.bind EXCEPT ![p] = [save |-> i, perm |-> perm]]
    /\ t.spent = s.spent /\ t.members = s.members /\ t.gbind = s.gbind
    /\ t.save[i].alive

-----------------------------------------------------------------------------
(* Keeping goes from one function to the next, and keeps the invariants    *)
(* when the players that are bound and online are where they are bound to. *)
LEMMA KeepsItself == \A s, P, I : Sound(s) => Keeps(s, s, P, I)
  BY DEF Keeps, Eases, SamePlaces

LEMMA KeepsOn ==
    ASSUME NEW s, NEW t, NEW u, NEW P, NEW I, Keeps(s, t, P, I), Keeps(t, u, P, I)
    PROVE  Keeps(s, u, P, I)
  <1>1. \A i : HavePlayers(t, i) <=> HavePlayers(s, i)
    BY DEF Keeps, Eases, SamePlaces, HavePlayers, Inside
  <1> QED
    BY <1>1 DEF Keeps, Eases, SamePlaces

LEMMA KeepsMore ==
    ASSUME NEW s, NEW t, NEW P, NEW I, Keeps(s, t, {}, {})
    PROVE  Keeps(s, t, P, I)
  BY DEF Keeps, Eases

LEMMA EasesOn ==
    ASSUME NEW s, NEW t, NEW u, NEW P, NEW I, Eases(s, t, P, I), Eases(t, u, P, I)
    PROVE  Eases(s, u, P, I)
  BY DEF Eases, SamePlaces

LEMMA NoBindIsBind == NoBind \in Binds /\ NoBind.save = 0 /\ ~NoBind.perm
  BY DEF NoBind, Binds

LEMMA EasesGood ==
    ASSUME NEW s, Good(s), NEW P, NEW I, NEW t, Eases(s, t, P, I), Occupied(t),
           \A p \in P \cap s.online, i \in I : s.at[p] = i
    PROVE  Good(t)
  <1>1. s.online \subseteq Players
    BY DEF Good, Sound, State
  <1>2. Locked(t)
    BY <1>1, NoBindIsBind DEF Good, Eases, SamePlaces, Locked
  <1> QED
    BY <1>2 DEF Good, Eases, SamePlaces

LEMMA KeepsGood ==
    ASSUME NEW s, Good(s), NEW P, NEW I, NEW t, Keeps(s, t, P, I),
           \A p \in P \cap s.online, i \in I : s.at[p] = i
    PROVE  Good(t)
  <1>1. Occupied(t)
    BY DEF Good, Keeps, Eases, SamePlaces, Occupied, HavePlayers, Inside
  <1> QED
    BY <1>1, EasesGood DEF Keeps

-----------------------------------------------------------------------------
(* Saves and binds *)

LEMMA SaveFacts ==
    ASSUME NEW s \in State, NEW i \in SaveIds, NEW v \in Saves,
           NEW t, t = WithSave(s, i, v)
    PROVE  OnlySave(s, t, i) /\ t.save[i] = v
  BY DEF State, OnlySave, SameBinds, SamePlaces, WithSave

LEMMA UnloadFacts ==
    ASSUME NEW s \in State, NEW i \in SaveIds, NEW t, t = UnloadIfEmpty(s, i)
    PROVE  /\ OnlySave(s, t, i)
           /\ t.save[i].players = s.save[i].players
           /\ t.save[i].group <=> s.save[i].group
           /\ \/ t.save[i].alive <=> s.save[i].alive
              \/ s.save[i].players = {} /\ ~s.save[i].group /\ ~HavePlayers(s, i)
  <1>1. CASE s.save[i].players = {} /\ ~s.save[i].group /\ ~HavePlayers(s, i)
    <2>1. t = WithSave(s, i, NoSave)
      BY <1>1 DEF UnloadIfEmpty, WithSave
    <2>2. NoSave \in Saves /\ NoSave.players = {} /\ ~NoSave.group
      BY DEF NoSave, Saves
    <2>3. OnlySave(s, t, i) /\ t.save[i] = NoSave
      BY <2>1, <2>2, SaveFacts
    <2> QED
      BY <1>1, <2>2, <2>3
  <1>2. CASE ~(s.save[i].players = {} /\ ~s.save[i].group /\ ~HavePlayers(s, i))
    <2>1. t = s
      BY <1>2 DEF UnloadIfEmpty
    <2> QED
      BY <2>1 DEF OnlySave, SameBinds, SamePlaces
  <1> QED
    BY <1>1, <1>2

LEMMA RemovePlayerFacts ==
    ASSUME NEW s \in State, NEW p \in Players, NEW i \in SaveIds,
           NEW t, t = RemovePlayer(s, p, i)
    PROVE  /\ OnlySave(s, t, i)
           /\ t.save[i].players = s.save[i].players \ {p}
           /\ t.save[i].group <=> s.save[i].group
           /\ \/ t.save[i].alive <=> s.save[i].alive
              \/ t.save[i].players = {} /\ ~t.save[i].group /\ ~HavePlayers(s, i)
  <1> DEFINE v == [s.save[i] EXCEPT !.players = @ \ {p}]
             u == WithSave(s, i, v)
  <1>1. s.save[i] \in Saves
    BY DEF State
  <1>2. v \in Saves /\ v.players = s.save[i].players \ {p} /\ (v.group <=> s.save[i].group)
        /\ (v.alive <=> s.save[i].alive)
    BY <1>1 DEF Saves
  <1>3. t = UnloadIfEmpty(u, i)
    BY DEF RemovePlayer, State, WithSave
  <1> HIDE DEF v
  <1>4. u = WithSave(s, i, v)
    OBVIOUS
  <1> HIDE DEF u
  <1>5. OnlySave(s, u, i) /\ u.save[i] = v
    BY <1>2, <1>4, SaveFacts
  <1>6. /\ OnlySave(u, t, i)
        /\ t.save[i].players = u.save[i].players
        /\ (t.save[i].group <=> u.save[i].group)
        /\ \/ t.save[i].alive <=> u.save[i].alive
           \/ u.save[i].players = {} /\ ~u.save[i].group /\ ~HavePlayers(u, i)
    BY <1>3, <1>5, UnloadFacts DEF OnlySave, SameBinds
  <1>7. HavePlayers(u, i) <=> HavePlayers(s, i)
    BY <1>5 DEF OnlySave, SameBinds, SamePlaces, HavePlayers, Inside
  <1>8. OnlySave(s, t, i)
    BY <1>5, <1>6 DEF OnlySave, SameBinds, SamePlaces
  <1> QED
    BY <1>2, <1>5, <1>6, <1>7, <1>8

LEMMA RemoveGroupFacts ==
    ASSUME NEW s \in State, NEW i \in SaveIds, NEW t, t = RemoveGroup(s, i)
    PROVE  /\ OnlySave(s, t, i)
           /\ t.save[i].players = s.save[i].players
           /\ ~t.save[i].group
           /\ \/ t.save[i].alive <=> s.save[i].alive
              \/ t.save[i].players = {} /\ ~HavePlayers(s, i)
  <1> DEFINE v == [s.save[i] EXCEPT !.group = FALSE]
             u == WithSave(s, i, v)
  <1>1. s.save[i] \in Saves
    BY DEF State
  <1>2. v \in Saves /\ v.players = s.save[i].players /\ ~v.group
        /\ (v.alive <=> s.save[i].alive)
    BY <1>1 DEF Saves
  <1>3. t = UnloadIfEmpty(u, i)
    BY DEF RemoveGroup, State, WithSave
  <1> HIDE DEF v
  <1>4. u = WithSave(s, i, v)
    OBVIOUS
  <1> HIDE DEF u
  <1>5. OnlySave(s, u, i) /\ u.save[i] = v
    BY <1>2, <1>4, SaveFacts
  <1>6. /\ OnlySave(u, t, i)
        /\ t.save[i].players = u.save[i].players
        /\ (t.save[i].group <=> u.save[i].group)
        /\ \/ t.save[i].alive <=> u.save[i].alive
           \/ u.save[i].players = {} /\ ~u.save[i].group /\ ~HavePlayers(u, i)
    BY <1>3, <1>5, UnloadFacts DEF OnlySave, SameBinds
  <1>7. HavePlayers(u, i) <=> HavePlayers(s, i)
    BY <1>5 DEF OnlySave, SameBinds, SamePlaces, HavePlayers, Inside
  <1>8. OnlySave(s, t, i)
    BY <1>5, <1>6 DEF OnlySave, SameBinds, SamePlaces
  <1> QED
    BY <1>2, <1>5, <1>6, <1>7, <1>8

(* Rows are written and deleted without further ado.                       *)
LEMMA RowsFacts ==
    ASSUME NEW s \in State, NEW rows \in SaveRows, NEW t, t = WithRows(s, rows)
    PROVE  SameSaves(s, t)
  BY DEF WithRows, State, SameSaves, SameBinds, SamePlaces

LEMMA DeleteFacts ==
    ASSUME NEW s \in State, NEW i \in SaveIds, NEW t, t = DeleteFromDB(s, i)
    PROVE  SameSaves(s, t)
  <1> DEFINE rows == [p \in Players |-> [s.charRow[p] EXCEPT ![i] = "none"]]
             u == [s EXCEPT !.instRow = @ \ {i}]
  <1>1. rows \in SaveRows
    BY DEF State, SaveRows, Kinds
  <1>2. t = [u EXCEPT !.charRow = rows]
    BY DEF DeleteFromDB, State
  <1> HIDE DEF rows
  <1>3. SameSaves(s, u)
    BY DEF State, SameSaves, SameBinds, SamePlaces
  <1> HIDE DEF u
  <1>4. SameSaves(u, t)
    BY <1>1, <1>2, <1>3, RowsFacts DEF WithRows, SameSaves, SameBinds
  <1> QED
    BY <1>3, <1>4 DEF SameSaves, SameBinds, SamePlaces

LEMMA BindFacts ==
    ASSUME NEW s \in State, NEW p \in Players, NEW b \in Binds, NEW t, t = WithBind(s, p, b)
    PROVE  /\ t \in State /\ SamePlaces(s, t)
           /\ t.spent = s.spent /\ t.members = s.members /\ t.gbind = s.gbind /\ t.save = s.save
           /\ t.bind = [s.bind EXCEPT ![p] = b]
  BY DEF State, SamePlaces, WithBind

LEMMA GroupFacts ==
    ASSUME NEW s \in State, NEW b \in Binds, NEW t, t = WithGroup(s, b)
    PROVE  /\ t \in State /\ SamePlaces(s, t)
           /\ t.spent = s.spent /\ t.members = s.members /\ t.bind = s.bind /\ t.save = s.save
           /\ t.gbind = b
  BY DEF State, SamePlaces, WithGroup

LEMMA BindIs ==
    ASSUME NEW b \in Binds
    PROVE  /\ b.save \in SaveIds \cup {0} /\ b.perm \in BOOLEAN
           /\ (b = NoBind) <=> b.save = 0
           /\ b # NoBind => b.save \in SaveIds
           /\ b.perm => b # NoBind
  <1>1. b \in [save : SaveIds \cup {0}, perm : BOOLEAN] /\ (b.perm => b.save # 0)
    BY DEF Binds
  <1>2. ASSUME b.save = 0 PROVE b = NoBind
    <2>1. b.perm = FALSE
      BY <1>1, <1>2
    <2> QED
      BY <1>1, <1>2, <2>1 DEF NoBind
  <1> QED
    BY <1>1, <1>2, NoBindIsBind

(* A player or the group goes from the list of the save it is bound to,    *)
(* and then is bound to nothing.                                           *)
LEMMA FreePlayer ==
    ASSUME NEW s, Sound(s), NEW p \in Players, s.bind[p] # NoBind,
           NEW i, i = s.bind[p].save,
           NEW r, SameSaves(s, r),
           NEW t, t = WithBind(RemovePlayer(r, p, i), p, NoBind)
    PROVE  /\ Keeps(s, t, {}, {})
           /\ t.bind[p] = NoBind /\ t.gbind = s.gbind /\ t.members = s.members
  <1> DEFINE u == RemovePlayer(r, p, i)
  <1>1. s \in State /\ Agree(s) /\ r \in State
    BY DEF Sound, SameSaves, SameBinds
  <1>2. i \in SaveIds
    BY <1>1, BindIs DEF State
  <1>3. /\ OnlySave(r, u, i)
        /\ u.save[i].players = r.save[i].players \ {p}
        /\ (u.save[i].group <=> r.save[i].group)
        /\ \/ u.save[i].alive <=> r.save[i].alive
           \/ u.save[i].players = {} /\ ~u.save[i].group /\ ~HavePlayers(r, i)
    BY <1>1, <1>2, RemovePlayerFacts
  <1> HIDE DEF u
  <1>4. t = WithBind(u, p, NoBind)
    BY DEF u
  <1>5. /\ t \in State /\ SamePlaces(u, t)
        /\ t.spent = u.spent /\ t.members = u.members /\ t.gbind = u.gbind /\ t.save = u.save
        /\ t.bind = [u.bind EXCEPT ![p] = NoBind]
    <2>1. u \in State /\ NoBind \in Binds
      BY <1>3, NoBindIsBind DEF OnlySave, SameBinds
    <2> QED
      BY <1>4, <2>1, BindFacts
  <1>6. /\ SamePlaces(s, t) /\ t.spent = s.spent /\ t.members = s.members /\ t.gbind = s.gbind
        /\ t.bind = [s.bind EXCEPT ![p] = NoBind]
    <2>1. u.bind = r.bind /\ r.bind = s.bind
      BY <1>3 DEF SameSaves, OnlySave, SameBinds
    <2>2. t.bind = [s.bind EXCEPT ![p] = NoBind]
      BY <1>5, <2>1
    <2>3. SamePlaces(s, t) /\ t.spent = s.spent /\ t.members = s.members /\ t.gbind = s.gbind
      BY <1>3, <1>5 DEF SameSaves, OnlySave, SameBinds, SamePlaces
    <2> QED
      BY <2>2, <2>3
  <1>7. \A j \in SaveIds : j # i => t.save[j] = s.save[j]
    BY <1>3, <1>5 DEF OnlySave, SameSaves
  <1>8. /\ t.save[i].players = s.save[i].players \ {p}
        /\ (t.save[i].group <=> s.save[i].group)
        /\ \/ t.save[i].alive <=> s.save[i].alive
           \/ t.save[i].players = {} /\ ~t.save[i].group /\ ~HavePlayers(s, i)
    BY <1>3, <1>5 DEF SameSaves, SameBinds, SamePlaces, HavePlayers, Inside
  <1>9. s.bind \in [Players -> Binds]
    BY <1>1 DEF State
  <1>10. t.bind[p] = NoBind /\ \A q \in Players : q # p => t.bind[q] = s.bind[q]
    BY <1>6, <1>9
  <1>11. Agree(t)
    <2> SUFFICES ASSUME NEW j \in SaveIds
                 PROVE  /\ \A q \in Players : q \in t.save[j].players <=> t.bind[q].save = j
                        /\ t.save[j].group <=> t.gbind.save = j
                        /\ t.save[j].players # {} \/ t.save[j].group => t.save[j].alive
      BY DEF Agree
    <2>1. /\ \A q \in Players : q \in s.save[j].players <=> s.bind[q].save = j
          /\ s.save[j].group <=> s.gbind.save = j
          /\ s.save[j].players # {} \/ s.save[j].group => s.save[j].alive
      BY <1>1 DEF Agree
    <2>2. NoBind.save # j
      BY NoBindIsBind, SavesAssumption DEF SaveIds
    <2>3. CASE j = i
      <3>1. \A q \in Players : q \in t.save[j].players <=> t.bind[q].save = j
        BY <1>8, <1>10, <2>1, <2>2, <2>3
      <3>2. t.save[j].group <=> t.gbind.save = j
        BY <1>6, <1>8, <2>1, <2>3
      <3>3. t.save[j].players # {} \/ t.save[j].group => t.save[j].alive
        BY <1>8, <2>1, <2>3
      <3> QED
        BY <3>1, <3>2, <3>3
    <2>4. CASE j # i
      BY <1>6, <1>7, <1>10, <2>1, <2>2, <2>4
    <2> QED
      BY <2>3, <2>4
  <1>12. Eases(s, t, {}, {})
    BY <1>5, <1>6, <1>10, <1>11 DEF Eases, Sound
  <1>13. \A j \in SaveIds : HavePlayers(s, j) /\ s.save[j].alive => t.save[j].alive
    BY <1>7, <1>8
  <1> QED
    BY <1>6, <1>10, <1>12, <1>13 DEF Keeps

LEMMA FreeGroup ==
    ASSUME NEW s, Sound(s), s.gbind # NoBind, NEW i, i = s.gbind.save,
           NEW t, t = WithGroup(RemoveGroup(s, i), NoBind)
    PROVE  Keeps(s, t, {}, {}) /\ t.gbind = NoBind /\ t.members = s.members
  <1> DEFINE u == RemoveGroup(s, i)
  <1>1. s \in State /\ Agree(s)
    BY DEF Sound
  <1>2. i \in SaveIds
    BY <1>1, BindIs DEF State
  <1>3. /\ OnlySave(s, u, i)
        /\ u.save[i].players = s.save[i].players
        /\ ~u.save[i].group
        /\ \/ u.save[i].alive <=> s.save[i].alive
           \/ u.save[i].players = {} /\ ~HavePlayers(s, i)
    BY <1>1, <1>2, RemoveGroupFacts
  <1> HIDE DEF u
  <1>4. t = WithGroup(u, NoBind)
    BY DEF u
  <1>5. /\ t \in State /\ SamePlaces(u, t)
        /\ t.spent = u.spent /\ t.members = u.members /\ t.bind = u.bind /\ t.save = u.save
        /\ t.gbind = NoBind
    <2>1. u \in State /\ NoBind \in Binds
      BY <1>3, NoBindIsBind DEF OnlySave, SameBinds
    <2> QED
      BY <1>4, <2>1, GroupFacts
  <1>6. /\ SamePlaces(s, t) /\ t.spent = s.spent /\ t.members = s.members /\ t.bind = s.bind
    BY <1>3, <1>5 DEF OnlySave, SameBinds, SamePlaces
  <1>7. \A j \in SaveIds : j # i => t.save[j] = s.save[j]
    BY <1>3, <1>5 DEF OnlySave
  <1>8. Agree(t)
    <2> SUFFICES ASSUME NEW j \in SaveIds
                 PROVE  /\ \A q \in Players : q \in t.save[j].players <=> t.bind[q].save = j
                        /\ t.save[j].group <=> t.gbind.save = j
                        /\ t.save[j].players # {} \/ t.save[j].group => t.save[j].alive
      BY DEF Agree
    <2>1. /\ \A q \in Players : q \in s.save[j].players <=> s.bind[q].save = j
          /\ s.save[j].group <=> s.gbind.save = j
          /\ s.save[j].players # {} \/ s.save[j].group => s.save[j].alive
      BY <1>1 DEF Agree
    <2>2. NoBind.save # j
      BY NoBindIsBind, SavesAssumption DEF SaveIds
    <2>3. CASE j = i
      BY <1>3, <1>5, <1>6, <2>1, <2>2, <2>3
    <2>4. CASE j # i
      BY <1>5, <1>6, <1>7, <2>1, <2>2, <2>4
    <2> QED
      BY <2>3, <2>4
  <1>9. Eases(s, t, {}, {})
    BY <1>5, <1>6, <1>8 DEF Eases, Sound
  <1>10. \A j \in SaveIds : HavePlayers(s, j) /\ s.save[j].alive => t.save[j].alive
    BY <1>3, <1>5, <1>7
  <1> QED
    BY <1>5, <1>6, <1>9, <1>10 DEF Keeps

LEMMA UnbindFacts ==
    ASSUME NEW s, Sound(s), NEW p \in Players, NEW unload \in BOOLEAN,
           NEW t, t = UnbindPlayer(s, p, unload)
    PROVE  /\ Keeps(s, t, {}, {})
           /\ t.bind[p] = NoBind /\ t.gbind = s.gbind /\ t.members = s.members
  <1>1. s \in State
    BY DEF Sound
  <1>2. CASE s.bind[p] = NoBind
    <2>1. t = s
      BY <1>2 DEF UnbindPlayer
    <2> QED
      BY <1>2, <2>1, KeepsItself
  <1>3. CASE s.bind[p] # NoBind
    <2> DEFINE i == s.bind[p].save
               rows == [s.charRow EXCEPT ![p][i] = "none"]
               r == IF unload THEN s ELSE WithRows(s, rows)
    <2>1. i \in SaveIds
      BY <1>1, <1>3, BindIs DEF State
    <2>2. rows \in SaveRows
      BY <1>1 DEF State, SaveRows, Kinds
    <2>3. r = IF unload THEN s ELSE [s EXCEPT !.charRow[p][i] = "none"]
      BY DEF WithRows
    <2>4. t = WithBind(RemovePlayer(r, p, i), p, NoBind)
      BY <1>3, <2>3 DEF UnbindPlayer, WithBind
    <2> HIDE DEF rows
    <2>5. SameSaves(s, r)
      BY <1>1, <2>2, RowsFacts DEF SameSaves, SameBinds, SamePlaces
    <2> HIDE DEF r
    <2> QED
      BY <1>3, <2>4, <2>5, FreePlayer
  <1> QED
    BY <1>2, <1>3

LEMMA UnbindGroupFacts ==
    ASSUME NEW s, Sound(s), NEW t, t = UnbindGroup(s)
    PROVE  Keeps(s, t, {}, {}) /\ t.gbind = NoBind /\ t.members = s.members
  <1>1. CASE s.gbind = NoBind
    <2>1. t = s
      BY <1>1 DEF UnbindGroup
    <2> QED
      BY <1>1, <2>1, KeepsItself
  <1>2. CASE s.gbind # NoBind
    <2>1. t = WithGroup(RemoveGroup(s, s.gbind.save), NoBind)
      BY <1>2 DEF UnbindGroup, WithGroup
    <2> QED
      BY <1>2, <2>1, FreeGroup
  <1> QED
    BY <1>1, <1>2

(* A save is created, with nobody on its lists.                            *)
LEMMA AddSaveFacts ==
    ASSUME NEW s, Sound(s), NEW i \in SaveIds,
           NEW canReset \in BOOLEAN, NEW load \in BOOLEAN,
           NEW t, t = AddInstanceSave(s, i, canReset, load)
    PROVE  Keeps(s, t, {}, {}) /\ SameBinds(s, t) /\ t.save[i].alive
  <1>1. s \in State /\ Agree(s)
    BY DEF Sound
  <1>2. CASE s.save[i].alive
    <2>1. t = s
      BY <1>2 DEF AddInstanceSave
    <2> QED
      BY <1>1, <1>2, <2>1, KeepsItself DEF SameBinds, SamePlaces
  <1>3. CASE ~s.save[i].alive
    <2> DEFINE v == [NoSave EXCEPT !.alive = TRUE, !.canReset = canReset]
               u == WithSave(s, i, v)
               w == [u EXCEPT !.instRow = IF load THEN @ ELSE @ \cup {i}]
    <2>1. v \in Saves /\ v.players = {} /\ ~v.group /\ v.alive
      BY DEF NoSave, Saves
    <2>2. /\ w.events = s.events
          /\ t = [w EXCEPT !.events = IF load \/ heroic THEN @ ELSE @ \cup {i}]
      BY <1>1, <1>3 DEF AddInstanceSave, WithSave, State
    <2> HIDE DEF v
    <2>3. OnlySave(s, u, i) /\ u.save[i] = v
      BY <1>1, <2>1, SaveFacts
    <2> HIDE DEF u
    <2>4. SameSaves(u, w)
      BY <2>3 DEF OnlySave, SameSaves, SameBinds, SamePlaces, State
    <2> HIDE DEF w
    <2>5. SameSaves(w, t)
      BY <2>2, <2>4 DEF SameSaves, SameBinds, SamePlaces, State
    <2>6. SameBinds(s, t)
      BY <2>3, <2>4, <2>5 DEF OnlySave, SameSaves, SameBinds, SamePlaces
    <2>7. t.save[i] = v /\ \A j \in SaveIds : j # i => t.save[j] = s.save[j]
      BY <2>3, <2>4, <2>5 DEF OnlySave, SameSaves
    <2>8. Agree(t)
      BY <1>1, <1>3, <2>1, <2>6, <2>7 DEF Agree, SameBinds
    <2>9. Keeps(s, t, {}, {})
      BY <2>1, <2>6, <2>7, <2>8 DEF Keeps, Eases, Sound, SameBinds
    <2> QED
      BY <2>1, <2>6, <2>7, <2>9
  <1> QED
    BY <1>2, <1>3

(* It is the same whether the bind or the list goes first.                 *)
LEMMA BindLater ==
    ASSUME NEW s \in State, NEW p \in Players, NEW i \in SaveIds
    PROVE  RemovePlayer(WithBind(s, p, NoBind), p, i) = WithBind(RemovePlayer(s, p, i), p, NoBind)
  BY DEF RemovePlayer, UnloadIfEmpty, WithBind, HavePlayers, Inside, State, Saves

LEMMA GroupLater ==
    ASSUME NEW s \in State, NEW i \in SaveIds
    PROVE  RemoveGroup(WithGroup(s, NoBind), i) = WithGroup(RemoveGroup(s, i), NoBind)
  BY DEF RemoveGroup, UnloadIfEmpty, WithGroup, HavePlayers, Inside, State, Saves

LEMMA SameSavesKeep ==
    ASSUME NEW s, Sound(s), NEW t, SameSaves(s, t)
    PROVE  Keeps(s, t, {}, {})
  <1>1. Agree(t)
    BY DEF Sound, SameSaves, SameBinds, Agree
  <1> QED
    BY <1>1 DEF SameSaves, SameBinds, Keeps, Eases, Sound

LEMMA MoveRowType ==
    ASSUME NEW rows \in [SaveIds -> Kinds], NEW from \in SaveIds, NEW to \in SaveIds,
           NEW perm \in BOOLEAN
    PROVE  MoveRow(rows, from, to, perm) \in [SaveIds -> Kinds]
  <1>1. RowKind(perm) \in Kinds /\ "none" \in Kinds
    BY DEF RowKind, Kinds
  <1> QED
    BY <1>1 DEF MoveRow

(* What BindPlayer writes to the table.                                    *)
LEMMA BindRows ==
    ASSUME NEW s \in State, NEW p \in Players, NEW i \in SaveIds, NEW perm \in BOOLEAN,
           NEW load \in BOOLEAN,
           NEW r,
           r = IF load THEN s
               ELSE IF s.bind[p] = NoBind THEN [s EXCEPT !.charRow[p][i] = RowKind(perm)]
               ELSE [s EXCEPT !.charRow[p] = MoveRow(@, s.bind[p].save, i, perm)]
    PROVE  SameSaves(s, r)
  <1>0. s.charRow \in SaveRows /\ s.bind[p] \in Binds
    BY DEF State
  <1>1. CASE load
    BY <1>1 DEF SameSaves, SameBinds, SamePlaces
  <1>2. CASE ~load /\ s.bind[p] = NoBind
    <2> DEFINE rows == [s.charRow EXCEPT ![p][i] = RowKind(perm)]
    <2>1. rows \in SaveRows
      BY <1>0 DEF SaveRows, Kinds, RowKind
    <2>2. r = WithRows(s, rows)
      BY <1>2 DEF WithRows
    <2> HIDE DEF rows
    <2> QED
      BY <2>1, <2>2, RowsFacts
  <1>3. CASE ~load /\ s.bind[p] # NoBind
    <2> DEFINE moved == MoveRow(s.charRow[p], s.bind[p].save, i, perm)
               rows  == [s.charRow EXCEPT ![p] = moved]
    <2>1. moved \in [SaveIds -> Kinds]
      <3>1. s.bind[p].save \in SaveIds /\ s.charRow[p] \in [SaveIds -> Kinds]
        BY <1>0, <1>3, BindIs DEF SaveRows
      <3> QED
        BY <3>1, MoveRowType
    <2>2. r = WithRows(s, rows)
      BY <1>3 DEF WithRows
    <2> HIDE DEF moved
    <2>3. rows \in SaveRows
      BY <1>0, <2>1 DEF SaveRows
    <2> HIDE DEF rows
    <2> QED
      BY <2>2, <2>3, RowsFacts
  <1> QED
    BY <1>1, <1>2, <1>3

(* What is done to the list of the save that the player is bound to now.   *)
LEMMA ListPlayer ==
    ASSUME NEW s \in State, NEW p \in Players, NEW i \in SaveIds, NEW perm \in BOOLEAN,
           NEW t, t = Listed(s, p, i, perm)
    PROVE  /\ t \in State /\ SamePlaces(s, t)
           /\ t.spent = s.spent /\ t.members = s.members /\ t.gbind = s.gbind
           /\ t.bind = [s.bind EXCEPT ![p] = [save |-> i, perm |-> perm]]
           /\ \A j \in SaveIds : j # i => t.save[j] = s.save[j]
           /\ t.save[i].players = s.save[i].players \cup {p}
           /\ t.save[i].group <=> s.save[i].group
           /\ t.save[i].alive <=> s.save[i].alive
  <1> DEFINE v == [s.save[i] EXCEPT !.players = @ \cup {p}]
             w == [v EXCEPT !.canReset = @ /\ ~perm]
             u == WithSave(s, i, v)
             x == WithSave(u, i, w)
             b == [save |-> i, perm |-> perm]
  <1>1. s.save[i] \in Saves
    BY DEF State
  <1>2. /\ v \in Saves /\ v.players = s.save[i].players \cup {p}
        /\ (v.group <=> s.save[i].group) /\ (v.alive <=> s.save[i].alive)
    BY <1>1 DEF Saves
  <1>3. t = WithBind(x, p, b)
    BY <1>1 DEF WithBind, WithSave, Listed, State, Saves
  <1> HIDE DEF v
  <1>4. w \in Saves /\ w.players = v.players /\ (w.group <=> v.group) /\ (w.alive <=> v.alive)
    BY <1>2 DEF Saves
  <1> HIDE DEF w
  <1>5. OnlySave(s, u, i)
    BY <1>2, SaveFacts
  <1> HIDE DEF u
  <1>6. OnlySave(u, x, i) /\ x.save[i] = w
    BY <1>4, <1>5, SaveFacts DEF OnlySave, SameBinds
  <1>7. x \in State
    BY <1>6 DEF OnlySave, SameBinds
  <1> HIDE DEF x
  <1>8. b \in Binds
    BY SavesAssumption DEF Binds, SaveIds
  <1> HIDE DEF b
  <1>9. /\ t \in State /\ SamePlaces(x, t)
        /\ t.spent = x.spent /\ t.members = x.members /\ t.gbind = x.gbind /\ t.save = x.save
        /\ t.bind = [x.bind EXCEPT ![p] = b]
    BY <1>3, <1>7, <1>8, BindFacts
  <1>10. /\ SamePlaces(s, t) /\ t.spent = s.spent /\ t.members = s.members /\ t.gbind = s.gbind
         /\ x.bind = s.bind
    BY <1>5, <1>6, <1>9 DEF OnlySave, SameBinds, SamePlaces
  <1>11. t.bind = [s.bind EXCEPT ![p] = b]
    BY <1>9, <1>10
  <1>12. /\ \A j \in SaveIds : j # i => t.save[j] = s.save[j]
         /\ t.save[i] = w
    BY <1>5, <1>6, <1>9 DEF OnlySave
  <1> QED
    BY <1>2, <1>4, <1>9, <1>10, <1>11, <1>12 DEF b

(* A player is bound to a save that is alive, and goes from the list of    *)
(* the one he was bound to.                                                *)
LEMMA BindPlayerFacts ==
    ASSUME NEW s, Sound(s), NEW p \in Players, NEW i \in SaveIds, s.save[i].alive,
           NEW perm \in BOOLEAN, NEW load \in BOOLEAN,
           NEW t, t = BindPlayer(s, p, i, perm, load)
    PROVE  Keeps(s, t, {p}, {i}) /\ BoundTo(s, t, p, i, perm)
  <1> DEFINE old == s.bind[p]
             r == IF load THEN s
                  ELSE IF s.bind[p] = NoBind THEN [s EXCEPT !.charRow[p][i] = RowKind(perm)]
                  ELSE [s EXCEPT !.charRow[p] = MoveRow(@, s.bind[p].save, i, perm)]
             k == old.save
             left == IF old = NoBind \/ k = i THEN r ELSE RemovePlayer(r, p, k)
             b == [save |-> i, perm |-> perm]
  <1>1. s \in State /\ Agree(s) /\ s.bind \in [Players -> Binds] /\ old \in Binds
    BY DEF Sound, State
  <1>2. SameSaves(s, r)
    BY <1>1, BindRows
  <1>3. t = Listed(left, p, i, perm)
    BY DEF BindPlayer, Listed
  <1> HIDE DEF r
  <1>4. /\ SameBinds(s, left)
        /\ \A j \in SaveIds : j # k => left.save[j] = s.save[j]
        /\ left.save[i] = s.save[i]
        /\ k \in SaveIds /\ k # i =>
              /\ left.save[k].players = s.save[k].players \ {p}
              /\ left.save[k].group <=> s.save[k].group
              /\ \/ left.save[k].alive <=> s.save[k].alive
                 \/ left.save[k].players = {} /\ ~left.save[k].group /\ ~HavePlayers(s, k)
    <2>1. CASE old = NoBind \/ k = i
      <3>1. left = r
        BY <2>1
      <3>2. k \in SaveIds => k = i
        BY <2>1, NoBindIsBind, SavesAssumption DEF SaveIds
      <3> QED
        BY <1>2, <3>1, <3>2 DEF SameSaves
    <2>2. CASE ~(old = NoBind \/ k = i)
      <3>1. left = RemovePlayer(r, p, k) /\ k # i
        BY <2>2
      <3>2. k \in SaveIds
        BY <1>1, <2>2, BindIs
      <3> HIDE DEF left, k
      <3>3. /\ OnlySave(r, left, k)
            /\ left.save[k].players = r.save[k].players \ {p}
            /\ (left.save[k].group <=> r.save[k].group)
            /\ \/ left.save[k].alive <=> r.save[k].alive
               \/ left.save[k].players = {} /\ ~left.save[k].group /\ ~HavePlayers(r, k)
        BY <1>2, <3>1, <3>2, RemovePlayerFacts DEF SameSaves, SameBinds
      <3>4. r.save = s.save /\ (HavePlayers(r, k) <=> HavePlayers(s, k))
        BY <1>2 DEF SameSaves, SameBinds, SamePlaces, HavePlayers, Inside
      <3>5. SameBinds(s, left)
        BY <1>2, <3>3 DEF OnlySave, SameSaves, SameBinds, SamePlaces
      <3>6. \A j \in SaveIds : j # k => left.save[j] = s.save[j]
        BY <3>3, <3>4 DEF OnlySave
      <3> QED
        BY <3>1, <3>3, <3>4, <3>5, <3>6
    <2> QED
      BY <2>1, <2>2
  <1> HIDE DEF left
  <1>5. /\ t \in State /\ SamePlaces(left, t)
        /\ t.spent = left.spent /\ t.members = left.members /\ t.gbind = left.gbind
        /\ t.bind = [left.bind EXCEPT ![p] = [save |-> i, perm |-> perm]]
        /\ \A j \in SaveIds : j # i => t.save[j] = left.save[j]
        /\ t.save[i].players = left.save[i].players \cup {p}
        /\ (t.save[i].group <=> left.save[i].group)
        /\ (t.save[i].alive <=> left.save[i].alive)
    BY <1>3, <1>4, ListPlayer DEF SameBinds
  <1>6. /\ SamePlaces(s, t) /\ t.spent = s.spent /\ t.members = s.members /\ t.gbind = s.gbind
        /\ t.bind = [s.bind EXCEPT ![p] = b]
    BY <1>4, <1>5 DEF SameBinds, SamePlaces
  <1>7. b.save = i
    OBVIOUS
  <1> HIDE DEF b
  <1>8. t.bind[p] = b /\ \A q \in Players : q # p => t.bind[q] = s.bind[q]
    BY <1>1, <1>6
  <1>9. /\ t.save[i].players = s.save[i].players \cup {p}
        /\ (t.save[i].group <=> s.save[i].group)
        /\ t.save[i].alive
    BY <1>4, <1>5
  <1>10. \A j \in SaveIds : j # i =>
            /\ j # k => t.save[j] = s.save[j]
            /\ j = k => /\ t.save[j].players = s.save[j].players \ {p}
                        /\ (t.save[j].group <=> s.save[j].group)
                        /\ \/ t.save[j].alive <=> s.save[j].alive
                           \/ t.save[j].players = {} /\ ~t.save[j].group /\ ~HavePlayers(s, j)
    BY <1>4, <1>5
  <1>11. Agree(t)
    <2> SUFFICES ASSUME NEW j \in SaveIds
                 PROVE  /\ \A q \in Players : q \in t.save[j].players <=> t.bind[q].save = j
                        /\ t.save[j].group <=> t.gbind.save = j
                        /\ t.save[j].players # {} \/ t.save[j].group => t.save[j].alive
      BY DEF Agree
    <2>1. /\ \A q \in Players : q \in s.save[j].players <=> s.bind[q].save = j
          /\ s.save[j].group <=> s.gbind.save = j
          /\ s.save[j].players # {} \/ s.save[j].group => s.save[j].alive
      BY <1>1 DEF Agree
    <2>2. CASE j = i
      <3>1. \A q \in Players : q \in t.save[j].players <=> t.bind[q].save = j
        BY <1>7, <1>8, <1>9, <2>1, <2>2
      <3>2. t.save[j].group <=> t.gbind.save = j
        BY <1>6, <1>9, <2>1, <2>2
      <3> QED
        BY <1>9, <2>2, <3>1, <3>2
    <2>3. CASE j # i /\ j # k
      <3>1. t.save[j] = s.save[j]
        BY <1>10, <2>3
      <3>2. \A q \in Players : q \in t.save[j].players <=> t.bind[q].save = j
        BY <1>7, <1>8, <2>1, <2>3, <3>1
      <3> QED
        BY <1>6, <2>1, <3>1, <3>2
    <2>4. CASE j # i /\ j = k
      <3>1. /\ t.save[j].players = s.save[j].players \ {p}
            /\ (t.save[j].group <=> s.save[j].group)
            /\ \/ t.save[j].alive <=> s.save[j].alive
               \/ t.save[j].players = {} /\ ~t.save[j].group
        BY <1>10, <2>4
      <3>2. \A q \in Players : q \in t.save[j].players <=> t.bind[q].save = j
        BY <1>7, <1>8, <2>1, <2>4, <3>1
      <3>3. t.save[j].group <=> t.gbind.save = j
        BY <1>6, <2>1, <3>1
      <3>4. t.save[j].players # {} \/ t.save[j].group => t.save[j].alive
        BY <2>1, <3>1
      <3> QED
        BY <3>2, <3>3, <3>4
    <2> QED
      BY <2>2, <2>3, <2>4
  <1>12. \A j \in SaveIds : HavePlayers(s, j) /\ s.save[j].alive => t.save[j].alive
    BY <1>9, <1>10
  <1>13. Eases(s, t, {p}, {i})
    BY <1>5, <1>6, <1>7, <1>8, <1>11 DEF Eases, Sound
  <1> QED
    BY <1>6, <1>9, <1>12, <1>13 DEF Keeps, BoundTo, b

(* So does the group.                                                      *)
LEMMA BindGroupFacts ==
    ASSUME NEW s, Sound(s), NEW i \in SaveIds, s.save[i].alive, NEW perm \in BOOLEAN,
           NEW t, t = BindGroup(s, i, perm)
    PROVE  Keeps(s, t, {}, {}) /\ t.save[i].alive
  <1> DEFINE old == s.gbind
             k == old.save
             left == IF old = NoBind \/ k = i THEN s ELSE RemoveGroup(s, k)
             b == [save |-> i, perm |-> perm]
             v == [left.save[i] EXCEPT !.group = TRUE]
             u == WithSave(left, i, v)
  <1>1. s \in State /\ Agree(s) /\ old \in Binds
    BY DEF Sound, State
  <1>2. t = WithGroup(u, b)
    BY DEF BindGroup, WithGroup, WithSave
  <1>3. /\ SameBinds(s, left)
        /\ \A j \in SaveIds : j # k => left.save[j] = s.save[j]
        /\ left.save[i] = s.save[i]
        /\ k \in SaveIds /\ k # i =>
              /\ left.save[k].players = s.save[k].players
              /\ ~left.save[k].group
              /\ \/ left.save[k].alive <=> s.save[k].alive
                 \/ left.save[k].players = {} /\ ~HavePlayers(s, k)
    <2>1. CASE old = NoBind \/ k = i
      <3>1. left = s
        BY <2>1
      <3>2. k \in SaveIds => k = i
        BY <2>1, NoBindIsBind, SavesAssumption DEF SaveIds
      <3>3. SameBinds(s, s)
        BY <1>1 DEF SameBinds, SamePlaces
      <3> QED
        BY <3>1, <3>2, <3>3
    <2>2. CASE ~(old = NoBind \/ k = i)
      <3>1. left = RemoveGroup(s, k) /\ k # i
        BY <2>2
      <3>2. k \in SaveIds
        BY <1>1, <2>2, BindIs
      <3> HIDE DEF left, k
      <3> QED
        BY <1>1, <3>1, <3>2, RemoveGroupFacts DEF OnlySave
    <2> QED
      BY <2>1, <2>2
  <1> HIDE DEF left
  <1>4. left \in State /\ left.save[i] \in Saves
    BY <1>3 DEF SameBinds, State
  <1>5. /\ v \in Saves /\ v.group /\ v.players = left.save[i].players
        /\ (v.alive <=> left.save[i].alive)
    BY <1>4 DEF Saves
  <1> HIDE DEF v
  <1>6. OnlySave(left, u, i) /\ u.save[i] = v
    BY <1>4, <1>5, SaveFacts
  <1> HIDE DEF u
  <1>7. b \in Binds /\ b.save = i
    BY SavesAssumption DEF Binds, SaveIds
  <1> HIDE DEF b
  <1>8. /\ t \in State /\ SamePlaces(u, t)
        /\ t.spent = u.spent /\ t.members = u.members /\ t.bind = u.bind /\ t.save = u.save
        /\ t.gbind = b
    <2>1. u \in State
      BY <1>6 DEF OnlySave, SameBinds
    <2> QED
      BY <1>2, <1>7, <2>1, GroupFacts
  <1>9. SamePlaces(s, t) /\ t.spent = s.spent /\ t.members = s.members /\ t.bind = s.bind
    BY <1>3, <1>6, <1>8 DEF OnlySave, SameBinds, SamePlaces
  <1>10. t.save[i].players = s.save[i].players /\ t.save[i].group /\ t.save[i].alive
    BY <1>3, <1>5, <1>6, <1>8
  <1>11. \A j \in SaveIds : j # i =>
            /\ j # k => t.save[j] = s.save[j]
            /\ j = k => /\ t.save[j].players = s.save[j].players
                        /\ ~t.save[j].group
                        /\ \/ t.save[j].alive <=> s.save[j].alive
                           \/ t.save[j].players = {} /\ ~HavePlayers(s, j)
    BY <1>3, <1>6, <1>8 DEF OnlySave
  <1>12. Agree(t)
    <2> SUFFICES ASSUME NEW j \in SaveIds
                 PROVE  /\ \A q \in Players : q \in t.save[j].players <=> t.bind[q].save = j
                        /\ t.save[j].group <=> t.gbind.save = j
                        /\ t.save[j].players # {} \/ t.save[j].group => t.save[j].alive
      BY DEF Agree
    <2>1. /\ \A q \in Players : q \in s.save[j].players <=> s.bind[q].save = j
          /\ s.save[j].group <=> k = j
          /\ s.save[j].players # {} \/ s.save[j].group => s.save[j].alive
      BY <1>1 DEF Agree
    <2>2. CASE j = i
      BY <1>7, <1>8, <1>9, <1>10, <2>1, <2>2
    <2>3. CASE j # i /\ j # k
      <3>1. t.save[j] = s.save[j]
        BY <1>11, <2>3
      <3>2. ~t.save[j].group /\ t.gbind.save # j
        BY <1>7, <1>8, <2>1, <2>3, <3>1
      <3> QED
        BY <1>9, <2>1, <3>1, <3>2
    <2>4. CASE j # i /\ j = k
      BY <1>7, <1>8, <1>9, <1>11, <2>1, <2>4
    <2> QED
      BY <2>2, <2>3, <2>4
  <1>13. \A j \in SaveIds : HavePlayers(s, j) /\ s.save[j].alive => t.save[j].alive
    BY <1>10, <1>11
  <1>14. Eases(s, t, {}, {})
    BY <1>8, <1>9, <1>12 DEF Eases, Sound
  <1> QED
    BY <1>9, <1>10, <1>13, <1>14 DEF Keeps

-----------------------------------------------------------------------------
(* Maps and resets *)

LEMMA ScheduleFacts ==
    ASSUME NEW s, Sound(s), NEW i \in SaveIds, NEW on \in BOOLEAN,
           NEW t, t = SetResetSchedule(s, i, on)
    PROVE  Keeps(s, t, {}, {}) /\ SameSaves(s, t)
  <1>1. SameSaves(s, t)
    BY DEF Sound, State, SetResetSchedule, SameSaves, SameBinds, SamePlaces
  <1> QED
    BY <1>1, SameSavesKeep

LEMMA ResetFacts ==
    ASSUME NEW s, Sound(s), NEW i \in SaveIds, NEW method, NEW t, t = Reset(s, i, method)
    PROVE  /\ Keeps(s, t, {}, {})
           /\ t.save = s.save /\ t.bind = s.bind /\ t.gbind = s.gbind /\ t.members = s.members
           /\ i \in s.loaded /\ method # "all" => i \in t.spent
  <1>1. /\ t \in State /\ SamePlaces(s, t) /\ s.spent \subseteq t.spent
        /\ t.save = s.save /\ t.bind = s.bind /\ t.gbind = s.gbind /\ t.members = s.members
        /\ i \in s.loaded /\ method # "all" => i \in t.spent
    BY DEF Sound, State, Reset, SamePlaces
  <1>2. Agree(t)
    BY <1>1 DEF Sound, Agree
  <1> QED
    BY <1>1, <1>2 DEF Keeps, Eases, Sound

(* Player::ResetInstances frees nobody but the player.                     *)
LEMMA ResetSoloFacts ==
    ASSUME NEW s, Sound(s), NEW p \in Players, NEW method, NEW t, t = ResetSolo(s, p, method)
    PROVE  Keeps(s, t, {}, {})
  <1> DEFINE i    == s.bind[p].save
             done == Reset(s, i, method)
             r    == DeleteFromDB(done, i)
  <1>1. CASE s.bind[p] = NoBind \/ ~s.save[i].canReset \/ (method = "all" /\ heroic)
    <2>1. t = s
      BY <1>1 DEF ResetSolo
    <2> QED
      BY <2>1, KeepsItself
  <1>2. CASE ~(s.bind[p] = NoBind \/ ~s.save[i].canReset \/ (method = "all" /\ heroic))
    <2>1. s.bind[p] # NoBind /\ i \in SaveIds
      BY <1>2, BindIs DEF Sound, State
    <2>2. Keeps(s, done, {}, {}) /\ done.bind = s.bind
      BY <2>1, ResetFacts
    <2>3. CASE ~Empty(s, i)
      <3>1. t = done
        BY <1>2, <2>3 DEF ResetSolo
      <3> QED
        BY <2>2, <3>1
    <2>4. CASE Empty(s, i)
      <3>1. t = RemovePlayer([r EXCEPT !.bind[p] = NoBind], p, i)
        BY <1>2, <2>4 DEF ResetSolo
      <3> HIDE DEF done
      <3>2. Sound(done) /\ done \in State /\ done.bind[p] # NoBind /\ i = done.bind[p].save
        BY <2>1, <2>2 DEF Keeps, Eases, Sound
      <3>3. SameSaves(done, r)
        BY <2>1, <3>2, DeleteFacts
      <3> HIDE DEF r
      <3>4. t = RemovePlayer(WithBind(r, p, NoBind), p, i)
        BY <3>1 DEF WithBind
      <3>5. r \in State
        BY <3>3 DEF SameSaves, SameBinds
      <3> HIDE DEF i
      <3>6. t = WithBind(RemovePlayer(r, p, i), p, NoBind)
        BY <2>1, <3>4, <3>5, BindLater
      <3>7. Keeps(done, t, {}, {})
        BY <3>2, <3>3, <3>6, FreePlayer
      <3> QED
        BY <2>2, <3>7, KeepsOn
    <2> QED
      BY <2>3, <2>4
  <1> QED
    BY <1>1, <1>2

(* Group::ResetInstances frees nobody but the group.                       *)
LEMMA ResetGroupFacts ==
    ASSUME NEW s, Sound(s), NEW method, NEW t, t = ResetGroup(s, method)
    PROVE  Keeps(s, t, {}, {})
  <1> DEFINE i     == s.gbind.save
             free  == s.save[i].canReset
             empty == ~free \/ Empty(s, i)
             done  == IF free THEN Reset(s, i, method) ELSE s
             rows  == IF empty /\ free THEN DeleteFromDB(done, i) ELSE done
             stay  == \/ s.gbind = NoBind
                      \/ ~free /\ method # "disband"
                      \/ method = "all" /\ heroic
  <1>1. CASE stay
    <2>1. t = s
      BY <1>1 DEF ResetGroup
    <2> QED
      BY <2>1, KeepsItself
  <1>2. CASE ~stay
    <2>1. s.gbind # NoBind /\ i \in SaveIds
      BY <1>2, BindIs DEF Sound, State
    <2>2. Keeps(s, done, {}, {}) /\ done.gbind = s.gbind
      BY <2>1, ResetFacts, KeepsItself
    <2>3. CASE ~empty /\ method = "all"
      <3>1. t = done
        BY <1>2, <2>3 DEF ResetGroup
      <3> QED
        BY <2>2, <3>1
    <2>4. CASE ~(~empty /\ method = "all")
      <3>1. t = RemoveGroup([rows EXCEPT !.gbind = NoBind], i)
        BY <1>2, <2>4 DEF ResetGroup
      <3> HIDE DEF done
      <3>2. Sound(done) /\ done \in State
        BY <2>2 DEF Keeps, Eases, Sound
      <3>3. SameSaves(done, rows)
        BY <2>1, <3>2, DeleteFacts DEF SameSaves, SameBinds, SamePlaces
      <3> HIDE DEF rows
      <3>4. Keeps(done, rows, {}, {}) /\ rows.gbind = s.gbind /\ rows \in State
        BY <2>2, <3>2, <3>3, SameSavesKeep DEF SameSaves, SameBinds
      <3>5. t = RemoveGroup(WithGroup(rows, NoBind), i)
        BY <3>1 DEF WithGroup
      <3> HIDE DEF i
      <3>6. t = WithGroup(RemoveGroup(rows, i), NoBind)
        BY <2>1, <3>4, <3>5, GroupLater
      <3>7. Sound(rows) /\ rows.gbind # NoBind /\ i = rows.gbind.save
        BY <2>1, <3>4 DEF Keeps, Eases, i
      <3>8. Keeps(rows, t, {}, {})
        BY <3>6, <3>7, FreeGroup
      <3> QED
        BY <2>2, <3>4, <3>8, KeepsOn
    <2> QED
      BY <2>3, <2>4
  <1> QED
    BY <1>1, <1>2

(* _ResetSave frees everybody who is not bound for good; the save may go   *)
(* with players inside.                                                    *)
LEMMA ResetSaveFacts ==
    ASSUME NEW s, Sound(s), NEW i \in SaveIds, NEW t, t = ResetSave(s, i)
    PROVE  /\ Eases(s, t, {}, {}) /\ t.spent = s.spent
           /\ \A j \in SaveIds : j # i => t.save[j] = s.save[j]
  <1>1. s \in State /\ Agree(s)
    BY DEF Sound
  <1>2. CASE ~s.save[i].alive
    <2>1. t = s
      BY <1>2 DEF ResetSave
    <2> QED
      BY <2>1 DEF Eases, SamePlaces
  <1>3. CASE s.save[i].alive
    <2> DEFINE stay  == {p \in s.save[i].players : s.bind[p].perm}
               gone  == s.save[i].players \ stay
               wrong == \E p \in s.save[i].players : s.bind[p] # NoBind /\ s.bind[p].save # i
               v     == IF stay = {} THEN NoSave
                        ELSE [s.save[i] EXCEPT !.players = stay, !.group = FALSE]
               binds == [p \in Players |-> IF p \in gone THEN NoBind ELSE s.bind[p]]
               gbind == IF s.save[i].group THEN NoBind ELSE s.gbind
    <2>1. /\ s.save[i] \in Saves /\ s.save[i].players \subseteq Players
          /\ s.bind \in [Players -> Binds] /\ s.gbind \in Binds /\ s.aborted \in BOOLEAN
      BY <1>1 DEF State, Saves
    <2>2. ~wrong
      BY <1>1, <2>1 DEF Agree
    <2>3. v \in Saves /\ v.players = stay /\ ~v.group /\ (stay # {} => v.alive)
      <3>1. CASE stay = {}
        BY <3>1 DEF NoSave, Saves
      <3>2. CASE stay # {}
        BY <1>3, <2>1, <3>2 DEF Saves
      <3> QED
        BY <3>1, <3>2
    <2>4. binds \in [Players -> Binds] /\ gbind \in Binds
      BY <2>1, NoBindIsBind
    <2>5. t = [s EXCEPT !.save[i] = v, !.bind = binds, !.gbind = gbind, !.aborted = @ \/ wrong]
      BY <1>3 DEF ResetSave
    <2>6. \A p \in Players : /\ p \in gone => binds[p] = NoBind
                             /\ p \notin gone => binds[p] = s.bind[p]
      OBVIOUS
    <2>7. \A p \in Players : p \in stay <=> p \in s.save[i].players /\ p \notin gone
      OBVIOUS
    <2>8. gbind = IF s.save[i].group THEN NoBind ELSE s.gbind
      OBVIOUS
    <2>9. \A q \in gone : q \in s.save[i].players
      OBVIOUS
    <2> HIDE DEF stay, gone, wrong, v, binds, gbind
    <2> DEFINE x == WithSave(s, i, v)
               y == [x EXCEPT !.bind = binds]
               z == WithGroup(y, gbind)
    <2>10. t = [z EXCEPT !.aborted = @ \/ wrong]
      BY <2>5 DEF WithSave, WithGroup
    <2>11. OnlySave(s, x, i) /\ x.save[i] = v
      BY <1>1, <2>3, SaveFacts
    <2> HIDE DEF x
    <2>12. /\ y \in State /\ SamePlaces(x, y) /\ y.spent = x.spent
           /\ y.save = x.save /\ y.bind = binds
      BY <2>4, <2>11 DEF OnlySave, SameBinds, SamePlaces, State
    <2> HIDE DEF y
    <2>13. /\ z \in State /\ SamePlaces(y, z) /\ z.spent = y.spent
           /\ z.save = y.save /\ z.bind = y.bind /\ z.gbind = gbind
      BY <2>4, <2>12, GroupFacts
    <2> HIDE DEF z
    <2>14. z.aborted \in BOOLEAN /\ (z.aborted \/ wrong) = z.aborted
      BY <2>2, <2>13 DEF State
    <2>15. t = z
      BY <2>10, <2>13, <2>14 DEF State
    <2>16. SamePlaces(s, t)
      BY <2>11, <2>12, <2>13, <2>15 DEF OnlySave, SameBinds, SamePlaces
    <2>17. t.save[i] = v /\ \A j \in SaveIds : j # i => t.save[j] = s.save[j]
      BY <2>11, <2>12, <2>13, <2>15 DEF OnlySave
    <2>18. t \in State /\ t.spent = s.spent /\ t.bind = binds /\ t.gbind = gbind
      BY <2>11, <2>12, <2>13, <2>15 DEF OnlySave, SameBinds
    <2>19. Agree(t)
      <3> SUFFICES ASSUME NEW j \in SaveIds
                   PROVE  /\ \A q \in Players : q \in t.save[j].players <=> t.bind[q].save = j
                          /\ t.save[j].group <=> t.gbind.save = j
                          /\ t.save[j].players # {} \/ t.save[j].group => t.save[j].alive
        BY DEF Agree
      <3>1. /\ \A q \in Players : q \in s.save[j].players <=> s.bind[q].save = j
            /\ s.save[j].group <=> s.gbind.save = j
            /\ s.save[j].players # {} \/ s.save[j].group => s.save[j].alive
        BY <1>1 DEF Agree
      <3>2. \A q \in Players : q \in s.save[i].players <=> s.bind[q].save = i
        BY <1>1 DEF Agree
      <3>3. s.save[i].group <=> s.gbind.save = i
        BY <1>1 DEF Agree
      <3>4. NoBind.save # j
        BY NoBindIsBind, SavesAssumption DEF SaveIds
      <3>5. CASE j = i
        <4>1. \A q \in Players : q \in t.save[j].players <=> t.bind[q].save = j
          <5> SUFFICES ASSUME NEW q \in Players
                       PROVE  q \in stay <=> binds[q].save = i
            BY <2>3, <2>17, <2>18, <3>5
          <5>1. CASE q \in gone
            BY <2>6, <2>7, <3>4, <3>5, <5>1
          <5>2. CASE q \notin gone
            BY <2>6, <2>7, <3>2, <5>2
          <5> QED
            BY <5>1, <5>2
        <4>2. t.save[j].group <=> t.gbind.save = j
          BY <2>3, <2>8, <2>17, <2>18, <3>3, <3>4, <3>5
        <4> QED
          BY <2>3, <2>17, <3>5, <4>1, <4>2
      <3>6. CASE j # i
        <4>1. t.save[j] = s.save[j]
          BY <2>17, <3>6
        <4>2. \A q \in Players : q \in t.save[j].players <=> t.bind[q].save = j
          BY <2>6, <2>9, <2>18, <3>1, <3>2, <3>4, <3>6, <4>1
        <4>3. t.save[j].group <=> t.gbind.save = j
          BY <2>8, <2>18, <3>1, <3>3, <3>4, <3>6, <4>1
        <4> QED
          BY <3>1, <4>1, <4>2, <4>3
      <3> QED
        BY <3>5, <3>6
    <2> QED
      BY <2>6, <2>16, <2>17, <2>18, <2>19 DEF Eases, Sound
  <1> QED
    BY <1>2, <1>3

-----------------------------------------------------------------------------
(* Groups *)

(* Who is in the group, and who leads it, is no matter of the saves.       *)
LEMMA MembersFacts ==
    ASSUME NEW s, Sound(s), NEW m \in SUBSET Players, NEW l \in Players \cup {NoPlayer},
           NEW t, t = [s EXCEPT !.members = m, !.leader = l]
    PROVE  Keeps(s, t, {}, {}) /\ t.members = m
  <1>1. /\ t \in State /\ SamePlaces(s, t) /\ t.spent = s.spent
        /\ t.save = s.save /\ t.bind = s.bind /\ t.gbind = s.gbind /\ t.members = m
    BY DEF Sound, State, SamePlaces
  <1>2. Agree(t)
    BY <1>1 DEF Sound, Agree
  <1> QED
    BY <1>1, <1>2 DEF Keeps, Eases, Sound

LEMMA TakeOverFacts ==
    ASSUME NEW s, Sound(s), NEW p \in Players, NEW t, t = TakeOver(s, p)
    PROVE  Keeps(s, t, {}, {})
  <1> DEFINE i == s.at[p]
             take == i # Outside /\ ~heroic /\ s.save[i].alive /\ ~s.save[i].group
                     /\ s.save[i].players = {}
  <1>1. CASE take
    <2>1. i \in SaveIds
      BY <1>1 DEF Sound, State
    <2>2. t = BindGroup(s, i, FALSE)
      BY <1>1 DEF TakeOver
    <2> QED
      BY <1>1, <2>1, <2>2, BindGroupFacts
  <1>2. CASE ~take
    <2>1. t = s
      BY <1>2 DEF TakeOver
    <2> QED
      BY <2>1, KeepsItself
  <1> QED
    BY <1>1, <1>2

LEMMA ConvertFacts ==
    ASSUME NEW s, Sound(s), NEW p \in Players, NEW switch \in BOOLEAN,
           NEW t, t = Convert(s, p, switch)
    PROVE  Keeps(s, t, {}, {})
  <1> DEFINE b     == s.bind[p]
             bind  == b # NoBind /\ (~switch \/ s.gbind = NoBind)
             bound == IF bind THEN BindGroup(s, b.save, b.perm) ELSE s
  <1>1. Keeps(s, bound, {}, {})
    <2>1. CASE bind
      <3>1. b \in Binds /\ Agree(s)
        BY DEF Sound, State
      <3>2. b.save \in SaveIds /\ b.perm \in BOOLEAN
        BY <2>1, <3>1, BindIs
      <3>3. s.save[b.save].alive
        BY <3>1, <3>2 DEF Agree
      <3> QED
        BY <2>1, <3>2, <3>3, BindGroupFacts
    <2>2. CASE ~bind
      BY <2>2, KeepsItself
    <2> QED
      BY <2>1, <2>2
  <1>2. t = IF switch THEN (IF b.perm THEN bound ELSE UnbindPlayer(bound, p, TRUE))
            ELSE TakeOver(bound, p)
    BY DEF Convert
  <1> HIDE DEF bound
  <1>3. Sound(bound)
    BY <1>1 DEF Keeps, Eases
  <1>4. CASE switch /\ b.perm
    BY <1>1, <1>2, <1>4
  <1>5. CASE switch /\ ~b.perm
    <2>1. t = UnbindPlayer(bound, p, TRUE)
      BY <1>2, <1>5
    <2>2. Keeps(bound, t, {}, {})
      BY <1>3, <2>1, UnbindFacts
    <2> QED
      BY <1>1, <2>2, KeepsOn
  <1>6. CASE ~switch
    <2>1. t = TakeOver(bound, p)
      BY <1>2, <1>6
    <2>2. Keeps(bound, t, {}, {})
      BY <1>3, <2>1, TakeOverFacts
    <2> QED
      BY <1>1, <2>2, KeepsOn
  <1> QED
    BY <1>4, <1>5, <1>6

LEMMA ChangeLeaderFacts ==
    ASSUME NEW s, Sound(s), NEW p \in Players, NEW t, t = ChangeLeader(s, p)
    PROVE  Keeps(s, t, {}, {})
  <1> DEFINE loose == s.gbind.perm /\ s.gbind.save \notin s.loaded
             free  == IF loose THEN UnbindGroup(s) ELSE s
             conv  == Convert(free, p, TRUE)
  <1>1. Keeps(s, free, {}, {})
    BY UnbindGroupFacts, KeepsItself
  <1>2. t = [conv EXCEPT !.leader = p]
    BY DEF ChangeLeader
  <1> HIDE DEF free
  <1>3. Keeps(free, conv, {}, {})
    BY <1>1, ConvertFacts DEF Keeps, Eases
  <1> HIDE DEF conv
  <1>4. Sound(conv) /\ conv \in State /\ conv.members \in SUBSET Players
    BY <1>3 DEF Keeps, Eases, Sound, State
  <1>5. t = [conv EXCEPT !.members = conv.members, !.leader = p]
    BY <1>2, <1>4 DEF State
  <1>6. Keeps(conv, t, {}, {})
    BY <1>4, <1>5, MembersFacts
  <1> QED
    BY <1>1, <1>3, <1>6, KeepsOn

LEMMA DisbandFacts ==
    ASSUME NEW s, Sound(s), NEW t, t = Disband(s)
    PROVE  Keeps(s, t, {}, {})
  <1> DEFINE r == [s EXCEPT !.members = {}, !.leader = NoPlayer]
  <1>1. Keeps(s, r, {}, {})
    BY MembersFacts
  <1>2. t = ResetGroup(r, "disband")
    BY DEF Disband
  <1> HIDE DEF r
  <1>3. Keeps(r, t, {}, {})
    BY <1>1, <1>2, ResetGroupFacts DEF Keeps, Eases
  <1> QED
    BY <1>1, <1>3, KeepsOn

LEMMA RemoveMemberFacts ==
    ASSUME NEW s, Sound(s), NEW p \in Players, NEW t \in RemoveMember(s, p)
    PROVE  Keeps(s, t, {}, {})
  <1> DEFINE rest  == [s EXCEPT !.members = @ \ {p}]
             heirs == IF s.leader = p THEN rest.members \cap s.online ELSE {}
             led   == IF heirs = {} THEN {rest} ELSE {ChangeLeader(rest, q) : q \in heirs}
  <1>1. CASE t = Disband(s)
    BY <1>1, DisbandFacts
  <1>2. CASE t # Disband(s)
    <2>1. t \in led \/ t \in {Disband(r) : r \in led}
      BY <1>2 DEF RemoveMember, AfterRemoval
    <2>2. Keeps(s, rest, {}, {})
      <3>1. s.members \ {p} \in SUBSET Players /\ s.leader \in Players \cup {NoPlayer}
        BY DEF Sound, State
      <3>2. rest = [s EXCEPT !.members = s.members \ {p}, !.leader = s.leader]
        BY DEF Sound, State
      <3> QED
        BY <3>1, <3>2, MembersFacts
    <2>3. heirs \subseteq Players
      BY DEF Sound, State
    <2> HIDE DEF rest, heirs
    <2>4. ASSUME NEW r \in led PROVE Keeps(s, r, {}, {})
      <3>1. CASE r = rest
        BY <2>2, <3>1
      <3>2. CASE r # rest
        <4>1. PICK q \in heirs : r = ChangeLeader(rest, q)
          BY <2>4, <3>2
        <4>2. Keeps(rest, r, {}, {})
          BY <2>2, <2>3, <4>1, ChangeLeaderFacts DEF Keeps, Eases
        <4> QED
          BY <2>2, <4>2, KeepsOn
      <3> QED
        BY <3>1, <3>2
    <2> HIDE DEF led
    <2>5. CASE t \in led
      BY <2>4, <2>5
    <2>6. CASE t \in {Disband(r) : r \in led}
      <3>1. PICK r \in led : t = Disband(r)
        BY <2>6
      <3>2. Keeps(s, r, {}, {})
        BY <2>4
      <3>3. Keeps(r, t, {}, {})
        BY <3>1, <3>2, DisbandFacts DEF Keeps, Eases
      <3> QED
        BY <3>2, <3>3, KeepsOn
    <2> QED
      BY <2>1, <2>5, <2>6
  <1> QED
    BY <1>1, <1>2

-----------------------------------------------------------------------------
(* A fold over a finite set S is the value at S of a function that takes   *)
(* one element after the other off.  There is such a function, and what    *)
(* its steps preserve, it has at S.                                        *)

LEMMA LeastNumber ==
    ASSUME NEW N \in SUBSET Nat, N # {}
    PROVE  \E n \in N : \A m \in N : n <= m
  <1>1. PICK n \in N : \A m \in N : <<m, n>> \notin OpToRel(<, Nat)
    BY WFMin, NatLessThanWellFounded
  <1>2. ASSUME NEW m \in N PROVE n <= m
    <2>1. <<m, n>> \in Nat \X Nat /\ <<m, n>>[1] = m /\ <<m, n>>[2] = n
      OBVIOUS
    <2>2. ~(m < n)
      BY <1>1, <2>1 DEF OpToRel
    <2> QED
      BY <2>2
  <1> QED
    BY <1>2

AnyOf(S) == CHOOSE x \in S : TRUE

LEMMA AnyOfIn == ASSUME NEW S, S # {} PROVE AnyOf(S) \in S
  BY DEF AnyOf

LEMMA SmallerWithout ==
    ASSUME NEW S, IsFiniteSet(S), NEW A \in SUBSET S, NEW x \in A
    PROVE  /\ A \ {x} \in SUBSET S
           /\ Cardinality(A) \in Nat /\ Cardinality(A \ {x}) \in Nat
           /\ Cardinality(A) = Cardinality(A \ {x}) + 1
  <1>1. IsFiniteSet(A)
    BY FS_Subset
  <1>2. IsFiniteSet(A \ {x}) /\ Cardinality(A \ {x}) = Cardinality(A) - 1
    BY <1>1, FS_RemoveElement
  <1>3. Cardinality(A) \in Nat /\ Cardinality(A \ {x}) \in Nat
    BY <1>1, <1>2, FS_CardinalityType
  <1> QED
    BY <1>2, <1>3

Folds(f, D, o, base) ==
    f = [A \in D |-> IF A = {} THEN base ELSE o[<<AnyOf(A), f[A \ {AnyOf(A)}]>>]]

LEMMA FoldExists ==
    ASSUME NEW S, IsFiniteSet(S), NEW T, NEW base \in T, NEW o \in [S \X T -> T]
    PROVE  \E f \in [SUBSET S -> T] : Folds(f, SUBSET S, o, base)
  <1> DEFINE D(n) == {A \in SUBSET S : Cardinality(A) <= n}
             Part(n) == \E f \in [D(n) -> T] : Folds(f, D(n), o, base)
             N == {n \in Nat : ~Part(n)}
  <1>1. Part(0)
    <2> DEFINE f == [A \in D(0) |-> base]
    <2>1. ASSUME NEW A \in D(0) PROVE A = {}
      <3>1. IsFiniteSet(A)
        BY FS_Subset
      <3>2. Cardinality(A) \in Nat /\ Cardinality(A) <= 0
        BY <3>1, FS_CardinalityType
      <3>3. Cardinality(A) = 0
        BY <3>2
      <3> QED
        BY <3>1, <3>3, FS_EmptySet
    <2>2. f \in [D(0) -> T]
      OBVIOUS
    <2>3. Folds(f, D(0), o, base)
      BY <2>1 DEF Folds
    <2> QED
      BY <2>2, <2>3
  <1>2. ASSUME NEW n \in Nat, Part(n) PROVE Part(n + 1)
    <2>1. PICK f \in [D(n) -> T] : Folds(f, D(n), o, base)
      BY <1>2
    <2> DEFINE after(A) == IF A = {} THEN base ELSE o[<<AnyOf(A), f[A \ {AnyOf(A)}]>>]
               h == [A \in D(n + 1) |-> after(A)]
    <2>2. ASSUME NEW A \in D(n + 1), A # {}
          PROVE  A \ {AnyOf(A)} \in D(n) /\ A \ {AnyOf(A)} \in D(n + 1) /\ AnyOf(A) \in S
      <3>1. AnyOf(A) \in A
        BY <2>2, AnyOfIn
      <3>2. /\ A \ {AnyOf(A)} \in SUBSET S
            /\ Cardinality(A) \in Nat /\ Cardinality(A \ {AnyOf(A)}) \in Nat
            /\ Cardinality(A) = Cardinality(A \ {AnyOf(A)}) + 1
        BY <3>1, SmallerWithout
      <3> QED
        BY <3>1, <3>2
    <2>3. ASSUME NEW A \in D(n + 1) PROVE after(A) \in T
      <3>1. CASE A = {}
        BY <3>1
      <3>2. CASE A # {}
        <4>1. <<AnyOf(A), f[A \ {AnyOf(A)}]>> \in S \X T
          BY <2>2, <3>2
        <4> QED
          BY <3>2, <4>1
      <3> QED
        BY <3>1, <3>2
    <2>4. h \in [D(n + 1) -> T]
      BY <2>3
    <2>5. \A A \in D(n) : f[A] = after(A)
      BY <2>1 DEF Folds
    <2>6. D(n) \subseteq D(n + 1)
      <3> SUFFICES ASSUME NEW A \in D(n) PROVE Cardinality(A) <= n + 1
        OBVIOUS
      <3>1. Cardinality(A) \in Nat /\ Cardinality(A) <= n
        BY FS_Subset, FS_CardinalityType
      <3> QED
        BY <3>1
    <2>7. \A A \in D(n) : h[A] = f[A]
      BY <2>5, <2>6
    <2>8. \A A \in D(n + 1) :
             after(A) = IF A = {} THEN base ELSE o[<<AnyOf(A), h[A \ {AnyOf(A)}]>>]
      BY <2>2, <2>7
    <2> HIDE DEF D, h
    <2>9. h = [A \in D(n + 1) |-> IF A = {} THEN base ELSE o[<<AnyOf(A), h[A \ {AnyOf(A)}]>>]]
      BY <2>8 DEF h
    <2> QED
      BY <2>4, <2>9 DEF Folds
  <1> HIDE DEF Part
  <1>3. N = {}
    <2> SUFFICES ASSUME N # {} PROVE FALSE
      OBVIOUS
    <2>1. PICK n \in N : \A m \in N : n <= m
      BY LeastNumber
    <2>2. n # 0 /\ n - 1 \in Nat /\ n - 1 \notin N /\ n - 1 + 1 = n
      BY <1>1, <2>1
    <2> QED
      BY <1>2, <2>1, <2>2
  <1>4. Part(Cardinality(S))
    BY <1>3, FS_CardinalityType
  <1>5. PICK f \in [D(Cardinality(S)) -> T] : Folds(f, D(Cardinality(S)), o, base)
    BY <1>4 DEF Part
  <1>6. D(Cardinality(S)) = SUBSET S
    BY FS_Subset
  <1> HIDE DEF D
  <1> QED
    BY <1>5, <1>6

LEMMA FoldStays ==
    ASSUME NEW S, IsFiniteSet(S), NEW T, NEW f, f[{}] \in T,
           \A A \in SUBSET S : A # {} => \E x \in A : f[A \ {x}] \in T => f[A] \in T
    PROVE  f[S] \in T
  <1> DEFINE B == {A \in SUBSET S : f[A] \notin T}
             N == {Cardinality(A) : A \in B}
  <1> SUFFICES ASSUME S \in B PROVE FALSE
    OBVIOUS
  <1>1. N \subseteq Nat
    <2> SUFFICES ASSUME NEW A \in B PROVE Cardinality(A) \in Nat
      OBVIOUS
    <2> QED
      BY FS_Subset, FS_CardinalityType
  <1>2. PICK n \in N : \A m \in N : n <= m
    <2>1. Cardinality(S) \in N
      OBVIOUS
    <2> HIDE DEF N
    <2> QED
      BY <1>1, <2>1, LeastNumber
  <1>3. PICK A \in B : n = Cardinality(A)
    BY <1>2
  <1>4. A \in SUBSET S /\ A # {}
    BY <1>3
  <1>5. PICK x \in A : f[A \ {x}] \in T => f[A] \in T
    BY <1>4
  <1>6. /\ A \ {x} \in SUBSET S
        /\ Cardinality(A) \in Nat /\ Cardinality(A \ {x}) \in Nat
        /\ Cardinality(A) = Cardinality(A \ {x}) + 1
    BY <1>4, SmallerWithout
  <1>7. A \ {x} \in B
    BY <1>3, <1>5, <1>6
  <1>8. Cardinality(A) <= Cardinality(A \ {x})
    BY <1>2, <1>3, <1>7
  <1> QED
    BY <1>6, <1>8

-----------------------------------------------------------------------------
(* The binds of a player who logs in are loaded                            *)

LEMMA LoadBindFacts ==
    ASSUME NEW s, Sound(s), NEW p \in Players, NEW i \in SaveIds, NEW t, t = LoadBind(s, p, i)
    PROVE  /\ Keeps(s, t, {p}, SaveIds)
           /\ t.spent = s.spent /\ t.members = s.members /\ t.gbind = s.gbind
  <1> DEFINE kind == s.charRow[p][i]
             perm == kind = "perm"
             rows == [s.charRow EXCEPT ![p][i] = "none"]
             free == ~perm
             a    == AddInstanceSave(s, i, free, TRUE)
  <1>1. CASE kind = "none" \/ i \notin s.instRow
    <2>1. t = s
      BY <1>1 DEF LoadBind
    <2> QED
      BY <2>1, KeepsItself
  <1>2. CASE ~(kind = "none" \/ i \notin s.instRow) /\ (~perm /\ Grouped(s, p))
    <2>1. t = WithRows(s, rows)
      BY <1>2 DEF LoadBind, WithRows
    <2>2. rows \in SaveRows
      BY DEF Sound, State, SaveRows, Kinds
    <2> HIDE DEF rows
    <2>3. SameSaves(s, t)
      BY <2>1, <2>2, RowsFacts DEF Sound
    <2>4. Keeps(s, t, {p}, SaveIds)
      BY <2>3, SameSavesKeep, KeepsMore
    <2> QED
      BY <2>3, <2>4 DEF SameSaves, SameBinds
  <1>3. CASE ~(kind = "none" \/ i \notin s.instRow) /\ ~(~perm /\ Grouped(s, p))
    <2>1. t = BindPlayer(a, p, i, perm, TRUE)
      BY <1>3 DEF LoadBind
    <2>2. perm \in BOOLEAN /\ free \in BOOLEAN
      OBVIOUS
    <2> HIDE DEF perm, free
    <2>3. /\ Keeps(s, a, {}, {}) /\ a.save[i].alive
          /\ a.spent = s.spent /\ a.members = s.members /\ a.gbind = s.gbind
      <3>1. Keeps(s, a, {}, {}) /\ SameBinds(s, a) /\ a.save[i].alive
        BY <2>2, AddSaveFacts
      <3> QED
        BY <3>1 DEF SameBinds
    <2> HIDE DEF a
    <2>4. Sound(a)
      BY <2>3 DEF Keeps, Eases
    <2>5. Keeps(a, t, {p}, {i}) /\ BoundTo(a, t, p, i, perm)
      BY <2>1, <2>2, <2>3, <2>4, BindPlayerFacts
    <2>6. Keeps(a, t, {p}, SaveIds)
      BY <2>5 DEF Keeps, Eases
    <2>7. Keeps(s, a, {p}, SaveIds)
      BY <2>3, KeepsMore
    <2>8. Keeps(s, t, {p}, SaveIds)
      BY <2>6, <2>7, KeepsOn
    <2> QED
      BY <2>3, <2>5, <2>8 DEF BoundTo
  <1> QED
    BY <1>1, <1>2, <1>3

LEMMA IdsFinite == IsFiniteSet(SaveIds)
  BY SavesAssumption, FS_Interval DEF SaveIds

LEMMA LoadBoundFacts ==
    ASSUME NEW s, Sound(s), NEW p \in Players, NEW t, t = LoadBoundInstances(s, p)
    PROVE  /\ Keeps(s, t, {p}, SaveIds)
           /\ t.spent = s.spent /\ t.members = s.members /\ t.gbind = s.gbind
  <1> DEFINE T == {u \in State : /\ Keeps(s, u, {p}, SaveIds)
                                 /\ u.spent = s.spent /\ u.members = s.members
                                 /\ u.gbind = s.gbind}
             o == [z \in SaveIds \X T |-> LoadBind(z[2], p, z[1])]
             Is(h) == h = [A \in SUBSET SaveIds |->
                             IF A = {} THEN s
                             ELSE LoadBind(h[A \ {AnyOf(A)}], p, AnyOf(A))]
             f == CHOOSE h : Is(h)
  <1>1. t = f[SaveIds]
    BY DEF LoadBoundInstances, FoldSet, MapThenFoldSet, AnyOf
  <1>2. s \in T
    BY KeepsItself DEF Sound
  <1>3. ASSUME NEW i \in SaveIds, NEW u \in T PROVE LoadBind(u, p, i) \in T
    <2> DEFINE v == LoadBind(u, p, i)
    <2>1. Sound(u) /\ Keeps(s, u, {p}, SaveIds)
      BY DEF Keeps, Eases
    <2>2. /\ Keeps(u, v, {p}, SaveIds)
          /\ v.spent = u.spent /\ v.members = u.members /\ v.gbind = u.gbind
      BY <2>1, LoadBindFacts
    <2> HIDE DEF v
    <2>3. Keeps(s, v, {p}, SaveIds)
      BY <2>1, <2>2, KeepsOn
    <2>4. v \in State
      BY <2>2 DEF Keeps, Eases, Sound
    <2>5. v \in T
      BY <2>2, <2>3, <2>4
    <2> QED
      BY <2>5 DEF v
  <1> SUFFICES f[SaveIds] \in T
    BY <1>1
  <1> HIDE DEF T, f
  <1>4. o \in [SaveIds \X T -> T]
    BY <1>3
  <1>5. \E h : Is(h)
    <2>1. PICK h \in [SUBSET SaveIds -> T] : Folds(h, SUBSET SaveIds, o, s)
      BY <1>2, <1>4, IdsFinite, FoldExists
    <2>2. ASSUME NEW A \in SUBSET SaveIds, A # {}
          PROVE  o[<<AnyOf(A), h[A \ {AnyOf(A)}]>>] = LoadBind(h[A \ {AnyOf(A)}], p, AnyOf(A))
      <3>1. AnyOf(A) \in SaveIds
        BY <2>2, AnyOfIn
      <3>2. <<AnyOf(A), h[A \ {AnyOf(A)}]>> \in SaveIds \X T
        BY <3>1
      <3> QED
        BY <3>2
    <2> HIDE DEF o
    <2>3. Is(h)
      BY <2>1, <2>2 DEF Folds
    <2> QED
      BY <2>3
  <1>6. Is(f)
    BY <1>5 DEF f
  <1>7. f[{}] \in T
    BY <1>2, <1>6
  <1>8. \A A \in SUBSET SaveIds : A # {} => \E x \in A : f[A \ {x}] \in T => f[A] \in T
    <2> SUFFICES ASSUME NEW A \in SUBSET SaveIds, A # {}, f[A \ {AnyOf(A)}] \in T
                 PROVE  f[A] \in T
      BY AnyOfIn
    <2>1. AnyOf(A) \in SaveIds
      BY AnyOfIn
    <2>2. f[A] = LoadBind(f[A \ {AnyOf(A)}], p, AnyOf(A))
      BY <1>6
    <2> QED
      BY <1>3, <2>1, <2>2
  <1> QED
    BY <1>7, <1>8, IdsFinite, FoldStays

-----------------------------------------------------------------------------
(* A player is put into a map, or sent home *)

Moved(s, t, p, i) ==
    /\ t \in State
    /\ t.online = s.online \cup {p} /\ t.at[p] = i
    /\ \A q \in Players : q # p => t.at[q] = s.at[q]
    /\ t.save = s.save /\ t.bind = s.bind /\ t.gbind = s.gbind
    /\ t.loaded = s.loaded /\ t.spent = s.spent /\ t.members = s.members
    /\ t.aborted <=> s.aborted

LEMMA SetMapFacts ==
    ASSUME NEW s, Sound(s), NEW p \in Players, NEW i \in SaveIds \cup {Outside},
           NEW t, t = SetMap(s, p, i)
    PROVE  Sound(t) /\ Moved(s, t, p, i)
  <1>1. s \in State /\ Agree(s)
    BY DEF Sound
  <1>2. Moved(s, t, p, i)
    BY <1>1 DEF State, SetMap, Moved
  <1>3. Agree(t)
    BY <1>1, <1>2 DEF Agree, Moved
  <1> QED
    BY <1>2, <1>3 DEF Sound, Moved

LEMMA SentHome ==
    ASSUME NEW s, Good(s), NEW p \in Players, NEW t, t = SetMap(s, p, Outside)
    PROVE  Good(t)
  <1>1. Sound(t) /\ Moved(s, t, p, Outside)
    BY SetMapFacts DEF Good
  <1>2. Outside \notin SaveIds /\ s.online \subseteq Players
    BY SavesAssumption DEF Outside, SaveIds, Good, Sound, State
  <1>3. Locked(t)
    <2> SUFFICES ASSUME NEW q \in t.online, t.bind[q].perm
                 PROVE  t.at[q] \in {Outside, t.bind[q].save}
      BY DEF Locked
    <2>1. CASE q = p
      BY <1>1, <2>1 DEF Moved
    <2>2. CASE q # p
      BY <1>1, <1>2, <2>2 DEF Moved, Good, Locked
    <2> QED
      BY <2>1, <2>2
  <1>4. Occupied(t)
    <2> SUFFICES ASSUME NEW j \in SaveIds, HavePlayers(t, j)
                 PROVE  j \in t.loaded /\ (t.save[j].alive \/ j \in t.spent)
      BY DEF Occupied
    <2>1. PICK q \in t.online : t.at[q] = j
      BY DEF HavePlayers, Inside
    <2>2. q # p
      BY <1>1, <1>2, <2>1 DEF Moved
    <2>3. HavePlayers(s, j)
      BY <1>1, <1>2, <2>1, <2>2 DEF HavePlayers, Inside, Moved
    <2> QED
      BY <1>1, <2>3 DEF Moved, Good, Occupied
  <1> QED
    BY <1>1, <1>3, <1>4 DEF Good, Moved

(* The instance that a player may enter: of his lockout, or of his group,  *)
(* or of his own bind.                                                     *)
Fits(s, p, i) ==
    IF s.bind[p].perm THEN s.bind[p].save = i
    ELSE IF Grouped(s, p) THEN s.gbind # NoBind => s.gbind.save = i
    ELSE s.bind[p] # NoBind => s.bind[p].save = i

LEMMA BindOnEntryFacts ==
    ASSUME NEW s, Sound(s), NEW p \in Players, NEW i \in SaveIds, s.save[i].alive,
           Fits(s, p, i), NEW t, t = BindOnEntry(s, p, i)
    PROVE  Keeps(s, t, {p}, {i})
  <1>1. CASE t = s
    BY <1>1, KeepsItself
  <1>2. CASE t = BindPlayer(s, p, i, FALSE, FALSE)
    BY <1>2, BindPlayerFacts
  <1>3. CASE t = BindPlayer(s, p, i, TRUE, FALSE)
    BY <1>3, BindPlayerFacts
  <1>4. CASE t = BindGroup(s, i, FALSE)
    BY <1>4, BindGroupFacts, KeepsMore
  <1> QED
    BY <1>1, <1>2, <1>3, <1>4 DEF BindOnEntry, Fits

LEMMA AddPlayerGood ==
    ASSUME NEW s, Good(s), NEW p \in Players, NEW i \in SaveIds, i \in s.loaded,
           p \notin s.online \/ s.at[p] = Outside, Fits(s, p, i),
           NEW t, t = AddPlayerToMap(SetMap(s, p, i), p, i)
    PROVE  Good(t)
  <1> DEFINE in    == SetMap(s, p, i)
             saved == AddInstanceSave(in, i, TRUE, FALSE)
             bound == BindOnEntry(saved, p, i)
             free  == SetResetSchedule(bound, i, FALSE)
  <1>1. t = IF Refused(in, p, i) THEN SetMap(saved, p, Outside)
            ELSE [free EXCEPT !.spent = @ \ {i}]
    BY DEF AddPlayerToMap
  <1>2. Sound(in) /\ Moved(s, in, p, i)
    BY SetMapFacts DEF Good
  <1> HIDE DEF in
  <1>3. Keeps(in, saved, {}, {}) /\ SameBinds(in, saved) /\ saved.save[i].alive
    BY <1>2, AddSaveFacts
  <1> HIDE DEF saved
  <1>4. Outside \notin SaveIds /\ s.online \subseteq Players
    BY SavesAssumption DEF Outside, SaveIds, Good, Sound, State
  <1>5. /\ saved.online = s.online \cup {p} /\ saved.at[p] = i
        /\ \A q \in Players : q # p => saved.at[q] = s.at[q]
        /\ saved.bind = s.bind /\ saved.gbind = s.gbind /\ saved.members = s.members
        /\ saved.loaded = s.loaded /\ saved.spent = s.spent
        /\ ~saved.aborted
    BY <1>2, <1>3 DEF Moved, SameBinds, SamePlaces, Good
  <1>6. Sound(saved)
    BY <1>3 DEF Keeps, Eases
  <1>7. Fits(saved, p, i)
    BY <1>5 DEF Fits, Grouped
  <1>8. Locked(saved)
    <2> SUFFICES ASSUME NEW q \in saved.online, saved.bind[q].perm
                 PROVE  saved.at[q] \in {Outside, saved.bind[q].save}
      BY DEF Locked
    <2>1. CASE q = p
      BY <1>5, <1>7, <2>1 DEF Fits
    <2>2. CASE q # p
      BY <1>4, <1>5, <2>2 DEF Good, Locked
    <2> QED
      BY <2>1, <2>2
  <1>9. Occupied(saved)
    <2> SUFFICES ASSUME NEW j \in SaveIds, HavePlayers(saved, j)
                 PROVE  j \in saved.loaded /\ (saved.save[j].alive \/ j \in saved.spent)
      BY DEF Occupied
    <2>1. CASE j = i
      BY <1>3, <1>5, <2>1
    <2>2. CASE j # i
      <3>1. PICK q \in saved.online : saved.at[q] = j
        BY DEF HavePlayers, Inside
      <3>2. q # p /\ q \in s.online /\ s.at[q] = j
        BY <1>4, <1>5, <2>2, <3>1
      <3>3. HavePlayers(s, j)
        BY <3>2 DEF HavePlayers, Inside
      <3>4. j \in s.loaded /\ (s.save[j].alive \/ j \in s.spent)
        BY <3>3 DEF Good, Occupied
      <3>5. HavePlayers(in, j) /\ in.save = s.save
        BY <1>2, <1>4, <3>2 DEF Moved, HavePlayers, Inside
      <3>6. s.save[j].alive => saved.save[j].alive
        BY <1>3, <3>5 DEF Keeps
      <3> QED
        BY <1>5, <3>4, <3>6
    <2> QED
      BY <2>1, <2>2
  <1>10. Good(saved)
    BY <1>5, <1>6, <1>8, <1>9 DEF Good
  <1>11. CASE Refused(in, p, i)
    BY <1>1, <1>10, <1>11, SentHome
  <1>12. CASE ~Refused(in, p, i)
    <2>1. Keeps(saved, bound, {p}, {i})
      BY <1>3, <1>6, <1>7, BindOnEntryFacts
    <2> HIDE DEF bound
    <2>2. Keeps(bound, free, {}, {})
      BY <2>1, ScheduleFacts DEF Keeps, Eases
    <2>3. Keeps(saved, free, {p}, {i})
      BY <2>1, <2>2, KeepsMore, KeepsOn
    <2> HIDE DEF free
    <2>4. Good(free)
      BY <1>5, <1>10, <2>3, KeepsGood
    <2>5. HavePlayers(saved, i)
      BY <1>5 DEF HavePlayers, Inside
    <2>6. free.save[i].alive
      BY <1>3, <2>3, <2>5 DEF Keeps
    <2>7. t = [free EXCEPT !.spent = @ \ {i}]
      BY <1>1, <1>12
    <2>8. /\ t \in State /\ t.spent = free.spent \ {i} /\ SamePlaces(free, t)
          /\ t.save = free.save /\ t.bind = free.bind /\ t.gbind = free.gbind
      BY <2>4, <2>7 DEF Good, Sound, State, SamePlaces
    <2>9. Sound(t)
      BY <2>4, <2>8 DEF Good, Sound, Agree
    <2>10. Locked(t) /\ ~t.aborted
      BY <2>4, <2>8 DEF Good, Locked, SamePlaces
    <2>11. Occupied(t)
      BY <2>4, <2>6, <2>8 DEF Good, Occupied, HavePlayers, Inside, SamePlaces
    <2> QED
      BY <2>9, <2>10, <2>11 DEF Good
  <1> QED
    BY <1>11, <1>12

LEMMA LoadMapGood ==
    ASSUME NEW s, Good(s), NEW i \in SaveIds, NEW t, t = LoadMap(s, i)
    PROVE  /\ Good(t) /\ i \in t.loaded
           /\ t.online = s.online /\ t.at = s.at /\ t.members = s.members
           /\ t.bind = s.bind /\ t.gbind = s.gbind
  <1>1. CASE i \in s.loaded
    <2>1. t = s
      BY <1>1 DEF LoadMap
    <2> QED
      BY <1>1, <2>1
  <1>2. CASE i \notin s.loaded
    <2>1. /\ t \in State /\ t.loaded = s.loaded \cup {i} /\ t.spent = s.spent \ {i}
          /\ t.online = s.online /\ t.at = s.at /\ t.members = s.members /\ t.save = s.save
          /\ t.bind = s.bind /\ t.gbind = s.gbind /\ t.aborted = s.aborted
      BY <1>2 DEF Good, Sound, State, LoadMap
    <2>2. ~HavePlayers(s, i)
      BY <1>2 DEF Good, Occupied
    <2>3. Sound(t)
      BY <2>1 DEF Good, Sound, Agree
    <2>4. Locked(t) /\ ~t.aborted
      BY <2>1 DEF Good, Locked
    <2>5. Occupied(t)
      BY <2>1, <2>2 DEF Good, Occupied, HavePlayers, Inside
    <2> QED
      BY <2>1, <2>3, <2>4, <2>5 DEF Good
  <1> QED
    BY <1>1, <1>2

LEMMA GenerateIs ==
    ASSUME NEW s, SaveIds \ s.used # {}
    PROVE  GenerateId(s) \in SaveIds
  <1>1. SaveIds \ s.used \in SUBSET Nat
    BY SavesAssumption DEF SaveIds
  <1>2. \E i \in SaveIds \ s.used : \A j \in SaveIds \ s.used : i <= j
    BY <1>1, LeastNumber
  <1> QED
    BY <1>2 DEF GenerateId

CanCreate(s, p) ==
    s.bind[p] # NoBind \/ (Grouped(s, p) /\ s.gbind # NoBind) \/ SaveIds \ s.used # {}

(* CreateInstanceForPlayer leads to an instance that the player may enter. *)
LEMMA CreateGood ==
    ASSUME NEW s, Good(s), NEW p \in Players, CanCreate(s, p), NEW i, i = Target(s, p),
           NEW t, t = CreateInstanceForPlayer(s, p)
    PROVE  /\ Good(t) /\ i \in SaveIds /\ i \in t.loaded /\ Fits(t, p, i)
           /\ t.online = s.online /\ t.at = s.at
  <1> DEFINE withGroup == ~s.bind[p].perm /\ Grouped(s, p) /\ s.gbind # NoBind
             alone     == IF withGroup THEN UnbindPlayer(s, p, FALSE) ELSE s
             u         == [alone EXCEPT !.used = @ \cup {i}]
  <1>1. s.bind[p] \in Binds /\ s.gbind \in Binds
    BY DEF Good, Sound, State
  <1>2. /\ s.bind[p].save \in SaveIds \cup {0} /\ s.gbind.save \in SaveIds \cup {0}
        /\ s.bind[p] = NoBind <=> s.bind[p].save = 0
        /\ s.gbind = NoBind <=> s.gbind.save = 0
        /\ s.bind[p].perm => s.bind[p] # NoBind
    BY <1>1, BindIs
  <1>3. i \in SaveIds
    <2>1. CASE GetInstanceSave(s, p) # 0
      BY <1>2, <2>1 DEF Target, GetInstanceSave
    <2>2. CASE GetInstanceSave(s, p) = 0
      <3>1. SaveIds \ s.used # {}
        BY <1>2, <2>2 DEF GetInstanceSave, CanCreate
      <3> QED
        BY <2>2, <3>1, GenerateIs DEF Target
    <2> QED
      BY <2>1, <2>2
  <1>4. /\ s.bind[p].perm => i = s.bind[p].save
        /\ withGroup => i = s.gbind.save
        /\ ~withGroup /\ s.bind[p] # NoBind => i = s.bind[p].save
    BY <1>2 DEF Target, GetInstanceSave
  <1>5. t = LoadMap(u, i)
    BY DEF CreateInstanceForPlayer
  <1>6. /\ Keeps(s, alone, {}, {}) /\ alone.members = s.members /\ alone.gbind = s.gbind
        /\ IF withGroup THEN alone.bind[p] = NoBind ELSE alone.bind[p] = s.bind[p]
    BY UnbindFacts, KeepsItself DEF Good
  <1> HIDE DEF alone
  <1>7. Good(alone)
    BY <1>6, KeepsGood
  <1>8. /\ u \in State /\ SamePlaces(alone, u)
        /\ u.save = alone.save /\ u.bind = alone.bind /\ u.gbind = alone.gbind
        /\ u.members = alone.members /\ u.spent = alone.spent
    BY <1>3, <1>7 DEF Good, Sound, State, SamePlaces
  <1> HIDE DEF u
  <1>9. Keeps(alone, u, {}, {})
    BY <1>7, <1>8 DEF Good, Sound, Agree, Keeps, Eases
  <1>10. Good(u)
    BY <1>7, <1>9, KeepsGood
  <1>11. /\ Good(t) /\ i \in t.loaded
         /\ t.online = u.online /\ t.at = u.at /\ t.members = u.members
         /\ t.bind = u.bind /\ t.gbind = u.gbind
    BY <1>3, <1>5, <1>10, LoadMapGood
  <1>12. t.online = s.online /\ t.at = s.at
    BY <1>6, <1>8, <1>11 DEF Keeps, Eases, SamePlaces
  <1>13. /\ t.members = s.members /\ t.gbind = s.gbind
         /\ IF withGroup THEN t.bind[p] = NoBind ELSE t.bind[p] = s.bind[p]
    BY <1>6, <1>8, <1>11
  <1>14. Fits(t, p, i)
    BY <1>4, <1>13, NoBindIsBind DEF Fits, Grouped
  <1> QED
    BY <1>3, <1>11, <1>12, <1>14

-----------------------------------------------------------------------------
(* Everybody inside, every row, every save *)

LEMMA PermBindFacts ==
    ASSUME NEW s, Sound(s), NEW p \in Players, NEW i \in SaveIds, s.save[i].alive,
           NEW t, t = PermBind(s, p, i)
    PROVE  Keeps(s, t, {p}, {i}) /\ t.save[i].alive
  <1> DEFINE bound == BindPlayer(s, p, i, TRUE, FALSE)
  <1>1. Keeps(s, bound, {p}, {i}) /\ bound.save[i].alive
    <2>1. Keeps(s, bound, {p}, {i}) /\ BoundTo(s, bound, p, i, TRUE)
      BY BindPlayerFacts
    <2> QED
      BY <2>1 DEF BoundTo
  <1>2. t \in {s, bound, BindGroup(bound, i, TRUE)}
    BY DEF PermBind
  <1> HIDE DEF bound
  <1>3. CASE t = s
    BY <1>3, KeepsItself
  <1>4. CASE t = bound
    BY <1>1, <1>4
  <1>5. CASE t = BindGroup(bound, i, TRUE)
    <2>1. Keeps(bound, t, {}, {}) /\ t.save[i].alive
      BY <1>1, <1>5, BindGroupFacts DEF Keeps, Eases
    <2>2. Keeps(bound, t, {p}, {i})
      BY <2>1, KeepsMore
    <2> QED
      BY <1>1, <2>1, <2>2, KeepsOn
  <1> QED
    BY <1>2, <1>3, <1>4, <1>5

PermBindAll(s, i) == FoldSet(LAMBDA p, u : PermBind(u, p, i), s, Inside(s, i))
DeleteAll(s)      == FoldSet(LAMBDA i, u : DeleteFromDB(u, i), s, s.instRow)
ResetAll(s)       == FoldSet(LAMBDA i, u : ResetSave(u, i), s, SaveIds)

LEMMA PermBindAllFacts ==
    ASSUME NEW s, Sound(s), NEW i \in SaveIds, s.save[i].alive, NEW t, t = PermBindAll(s, i)
    PROVE  Keeps(s, t, Inside(s, i), {i})
  <1> DEFINE S == Inside(s, i)
             T == {u \in State : Keeps(s, u, S, {i}) /\ u.save[i].alive}
             o == [z \in S \X T |-> PermBind(z[2], z[1], i)]
             Is(h) == h = [A \in SUBSET S |->
                             IF A = {} THEN s
                             ELSE PermBind(h[A \ {AnyOf(A)}], AnyOf(A), i)]
             f == CHOOSE h : Is(h)
  <1>1. t = f[S]
    BY DEF PermBindAll, FoldSet, MapThenFoldSet, AnyOf
  <1>0. S \subseteq Players /\ IsFiniteSet(S)
    <2>1. S \subseteq Players
      BY DEF Sound, State, Inside
    <2> QED
      BY <2>1, SavesAssumption, FS_Subset
  <1>2. s \in T
    BY KeepsItself DEF Sound
  <1>3. ASSUME NEW x \in S, NEW u \in T PROVE PermBind(u, x, i) \in T
    <2> DEFINE v == PermBind(u, x, i)
    <2>1. Sound(u) /\ Keeps(s, u, S, {i}) /\ u.save[i].alive /\ x \in Players
      BY <1>0 DEF Keeps, Eases
    <2>2. Keeps(u, v, {x}, {i}) /\ v.save[i].alive
      BY <2>1, PermBindFacts
    <2> HIDE DEF v, S
    <2>3. Keeps(u, v, S, {i})
      BY <1>3, <2>2 DEF Keeps, Eases
    <2>4. Keeps(s, v, S, {i})
      BY <2>1, <2>3, KeepsOn
    <2>5. v \in State
      BY <2>2 DEF Keeps, Eases, Sound
    <2>6. v \in T
      BY <2>2, <2>4, <2>5
    <2> QED
      BY <2>6 DEF v
  <1> SUFFICES f[S] \in T
    BY <1>1
  <1>4. IsFiniteSet(S)
    BY <1>0
  <1> HIDE DEF S, T, f
  <1>5. o \in [S \X T -> T]
    BY <1>3
  <1>6. \E h : Is(h)
    <2>1. PICK h \in [SUBSET S -> T] : Folds(h, SUBSET S, o, s)
      BY <1>2, <1>4, <1>5, FoldExists
    <2>2. ASSUME NEW A \in SUBSET S, A # {}
          PROVE  o[<<AnyOf(A), h[A \ {AnyOf(A)}]>>] = PermBind(h[A \ {AnyOf(A)}], AnyOf(A), i)
      <3>1. AnyOf(A) \in S
        BY <2>2, AnyOfIn
      <3>2. <<AnyOf(A), h[A \ {AnyOf(A)}]>> \in S \X T
        BY <3>1
      <3> QED
        BY <3>2
    <2> HIDE DEF o
    <2>3. Is(h)
      BY <2>1, <2>2 DEF Folds
    <2> QED
      BY <2>3
  <1>7. Is(f)
    BY <1>6 DEF f
  <1>8. f[{}] \in T
    BY <1>2, <1>7
  <1>9. \A A \in SUBSET S : A # {} => \E x \in A : f[A \ {x}] \in T => f[A] \in T
    <2> SUFFICES ASSUME NEW A \in SUBSET S, A # {}, f[A \ {AnyOf(A)}] \in T
                 PROVE  f[A] \in T
      BY AnyOfIn
    <2>1. AnyOf(A) \in S
      BY AnyOfIn
    <2>2. f[A] = PermBind(f[A \ {AnyOf(A)}], AnyOf(A), i)
      BY <1>7
    <2> QED
      BY <1>3, <2>1, <2>2
  <1> QED
    BY <1>4, <1>8, <1>9, FoldStays

LEMMA DeleteAllFacts ==
    ASSUME NEW s \in State, NEW t, t = DeleteAll(s)
    PROVE  SameSaves(s, t)
  <1> DEFINE S == s.instRow
             T == {u \in State : SameSaves(s, u)}
             o == [z \in S \X T |-> DeleteFromDB(z[2], z[1])]
             Is(h) == h = [A \in SUBSET S |->
                             IF A = {} THEN s
                             ELSE DeleteFromDB(h[A \ {AnyOf(A)}], AnyOf(A))]
             f == CHOOSE h : Is(h)
  <1>1. t = f[S]
    BY DEF DeleteAll, FoldSet, MapThenFoldSet, AnyOf
  <1>0. S \subseteq SaveIds
    BY DEF State
  <1>2. s \in T
    BY DEF SameSaves, SameBinds, SamePlaces
  <1>3. ASSUME NEW x \in S, NEW u \in T PROVE DeleteFromDB(u, x) \in T
    <2> DEFINE v == DeleteFromDB(u, x)
    <2>1. x \in SaveIds
      BY <1>0
    <2>2. SameSaves(u, v)
      BY <2>1, DeleteFacts
    <2> HIDE DEF v
    <2>3. SameSaves(s, v)
      BY <2>2 DEF SameSaves, SameBinds, SamePlaces
    <2>4. v \in T
      BY <2>2, <2>3 DEF SameSaves, SameBinds
    <2> QED
      BY <2>4 DEF v
  <1> SUFFICES f[S] \in T
    BY <1>1
  <1>4. IsFiniteSet(S)
    BY <1>0, IdsFinite, FS_Subset
  <1> HIDE DEF S, T, f
  <1>5. o \in [S \X T -> T]
    BY <1>3
  <1>6. \E h : Is(h)
    <2>1. PICK h \in [SUBSET S -> T] : Folds(h, SUBSET S, o, s)
      BY <1>2, <1>4, <1>5, FoldExists
    <2>2. ASSUME NEW A \in SUBSET S, A # {}
          PROVE  o[<<AnyOf(A), h[A \ {AnyOf(A)}]>>] = DeleteFromDB(h[A \ {AnyOf(A)}], AnyOf(A))
      <3>1. AnyOf(A) \in S
        BY <2>2, AnyOfIn
      <3>2. <<AnyOf(A), h[A \ {AnyOf(A)}]>> \in S \X T
        BY <3>1
      <3> QED
        BY <3>2
    <2> HIDE DEF o
    <2>3. Is(h)
      BY <2>1, <2>2 DEF Folds
    <2> QED
      BY <2>3
  <1>7. Is(f)
    BY <1>6 DEF f
  <1>8. f[{}] \in T
    BY <1>2, <1>7
  <1>9. \A A \in SUBSET S : A # {} => \E x \in A : f[A \ {x}] \in T => f[A] \in T
    <2> SUFFICES ASSUME NEW A \in SUBSET S, A # {}, f[A \ {AnyOf(A)}] \in T
                 PROVE  f[A] \in T
      BY AnyOfIn
    <2>1. AnyOf(A) \in S
      BY AnyOfIn
    <2>2. f[A] = DeleteFromDB(f[A \ {AnyOf(A)}], AnyOf(A))
      BY <1>7
    <2> QED
      BY <1>3, <2>1, <2>2
  <1> QED
    BY <1>4, <1>8, <1>9, FoldStays

LEMMA ResetAllFacts ==
    ASSUME NEW s, Sound(s), NEW t, t = ResetAll(s)
    PROVE  Eases(s, t, {}, {})
  <1> DEFINE S == SaveIds
             T == {u \in State : Eases(s, u, {}, {})}
             o == [z \in S \X T |-> ResetSave(z[2], z[1])]
             Is(h) == h = [A \in SUBSET S |->
                             IF A = {} THEN s
                             ELSE ResetSave(h[A \ {AnyOf(A)}], AnyOf(A))]
             f == CHOOSE h : Is(h)
  <1>1. t = f[S]
    BY DEF ResetAll, FoldSet, MapThenFoldSet, AnyOf
  <1>2. s \in T
    BY DEF Sound, Eases, SamePlaces
  <1>3. ASSUME NEW x \in S, NEW u \in T PROVE ResetSave(u, x) \in T
    <2> DEFINE v == ResetSave(u, x)
    <2>1. Sound(u) /\ Eases(s, u, {}, {})
      BY DEF Eases
    <2>2. Eases(u, v, {}, {})
      BY <2>1, ResetSaveFacts
    <2> HIDE DEF v
    <2>3. Eases(s, v, {}, {})
      BY <2>1, <2>2, EasesOn
    <2>4. v \in T
      BY <2>2, <2>3 DEF Eases, Sound
    <2> QED
      BY <2>4 DEF v
  <1> SUFFICES f[S] \in T
    BY <1>1
  <1>4. IsFiniteSet(S)
    BY IdsFinite
  <1> HIDE DEF S, T, f
  <1>5. o \in [S \X T -> T]
    BY <1>3
  <1>6. \E h : Is(h)
    <2>1. PICK h \in [SUBSET S -> T] : Folds(h, SUBSET S, o, s)
      BY <1>2, <1>4, <1>5, FoldExists
    <2>2. ASSUME NEW A \in SUBSET S, A # {}
          PROVE  o[<<AnyOf(A), h[A \ {AnyOf(A)}]>>] = ResetSave(h[A \ {AnyOf(A)}], AnyOf(A))
      <3>1. AnyOf(A) \in S
        BY <2>2, AnyOfIn
      <3>2. <<AnyOf(A), h[A \ {AnyOf(A)}]>> \in S \X T
        BY <3>1
      <3> QED
        BY <3>2
    <2> HIDE DEF o
    <2>3. Is(h)
      BY <2>1, <2>2 DEF Folds
    <2> QED
      BY <2>3
  <1>7. Is(f)
    BY <1>6 DEF f
  <1>8. f[{}] \in T
    BY <1>2, <1>7
  <1>9. \A A \in SUBSET S : A # {} => \E x \in A : f[A \ {x}] \in T => f[A] \in T
    <2> SUFFICES ASSUME NEW A \in SUBSET S, A # {}, f[A \ {AnyOf(A)}] \in T
                 PROVE  f[A] \in T
      BY AnyOfIn
    <2>1. AnyOf(A) \in S
      BY AnyOfIn
    <2>2. f[A] = ResetSave(f[A \ {AnyOf(A)}], AnyOf(A))
      BY <1>7
    <2> QED
      BY <1>3, <2>1, <2>2
  <1> QED
    BY <1>4, <1>8, <1>9, FoldStays

-----------------------------------------------------------------------------
(* The steps *)

LEMMA Started == ASSUME SavesInit PROVE Good(g)
  <1>1. NoSave \in Saves /\ NoSave.players = {} /\ ~NoSave.group
    BY DEF NoSave, Saves
  <1>2. /\ g.save = [i \in SaveIds |-> NoSave] /\ g.bind = [p \in Players |-> NoBind]
        /\ g.gbind = NoBind /\ g.online = {} /\ ~g.aborted
    BY DEF SavesInit
  <1>3. g \in State
    <2>1. [p \in Players |-> [i \in SaveIds |-> "none"]] \in SaveRows
      BY DEF SaveRows, Kinds
    <2> HIDE DEF Outside
    <2>2. [i \in SaveIds |-> NoSave] \in [SaveIds -> Saves]
      BY <1>1
    <2>3. [p \in Players |-> NoBind] \in [Players -> Binds] /\ NoBind \in Binds
      BY NoBindIsBind
    <2> QED
      BY <2>1, <2>2, <2>3 DEF SavesInit, State
  <1>4. Agree(g)
    <2>1. 0 \notin SaveIds
      BY SavesAssumption DEF SaveIds
    <2> QED
      BY <1>1, <1>2, <2>1, NoBindIsBind DEF Agree
  <1>5. Locked(g)
    BY <1>2 DEF Locked
  <1>6. Occupied(g)
    BY <1>2 DEF Occupied, HavePlayers, Inside
  <1> QED
    BY <1>2, <1>3, <1>4, <1>5, <1>6 DEF Good, Sound

LEMMA EnterGood == ASSUME Good(g), NEW p \in Players, Enter(p) PROVE Good(g')
  <1> DEFINE i == Target(g, p)
             s == CreateInstanceForPlayer(g, p)
  <1>1. g.at[p] = Outside /\ CanCreate(g, p)
    BY DEF Enter, CanLoad, CanCreate
  <1>2. g' = s \/ g' = AddPlayerToMap(SetMap(s, p, i), p, i)
    BY DEF Enter
  <1>3. /\ Good(s) /\ i \in SaveIds /\ i \in s.loaded /\ Fits(s, p, i)
        /\ s.online = g.online /\ s.at = g.at
    BY <1>1, CreateGood
  <1> HIDE DEF i, s
  <1>4. CASE g' = s
    BY <1>3, <1>4
  <1>5. CASE g' = AddPlayerToMap(SetMap(s, p, i), p, i)
    BY <1>1, <1>3, <1>5, AddPlayerGood
  <1> QED
    BY <1>2, <1>4, <1>5

(* A player who is nowhere counts as inside of nothing that is scheduled.  *)
LEMMA RemovedGood ==
    ASSUME NEW s, Good(s), NEW p \in s.online, NEW t, t = RemovePlayerFromMap(s, p)
    PROVE  Good(t) /\ t.online = s.online /\ t.at = s.at
  <1>1. CASE s.at[p] = Outside
    <2>1. HavePlayers(s, s.at[p])
      BY DEF HavePlayers, Inside
    <2>2. t = s
      BY <2>1 DEF RemovePlayerFromMap, SetResetSchedule
    <2> QED
      BY <2>2
  <1>2. CASE s.at[p] # Outside
    <2>1. s.at[p] \in SaveIds
      BY <1>2 DEF Good, Sound, State
    <2>2. Keeps(s, t, {}, {}) /\ SameSaves(s, t)
      BY <2>1, ScheduleFacts DEF RemovePlayerFromMap, Good
    <2>3. Good(t)
      BY <2>2, KeepsGood
    <2> QED
      BY <2>2, <2>3 DEF SameSaves, SameBinds, SamePlaces
  <1> QED
    BY <1>1, <1>2

LEMMA LeaveGood == ASSUME Good(g), NEW p \in Players, Leave(p) PROVE Good(g')
  <1> DEFINE s == RemovePlayerFromMap(g, p)
  <1>1. Good(s)
    BY RemovedGood DEF Leave
  <1>2. g' = SetMap(s, p, Outside)
    BY DEF Leave
  <1> HIDE DEF s
  <1> QED
    BY <1>1, <1>2, SentHome

LEMMA OfflineGood ==
    ASSUME NEW s, Good(s), NEW p \in Players, NEW t, t = [s EXCEPT !.online = @ \ {p}]
    PROVE  Good(t)
  <1>1. /\ t \in State /\ t.online = s.online \ {p} /\ t.at = s.at
        /\ t.save = s.save /\ t.bind = s.bind /\ t.gbind = s.gbind
        /\ t.loaded = s.loaded /\ t.spent = s.spent /\ t.aborted = s.aborted
    BY DEF Good, Sound, State
  <1>2. Sound(t) /\ Locked(t) /\ ~t.aborted
    BY <1>1 DEF Good, Sound, Agree, Locked
  <1>3. Occupied(t)
    BY <1>1 DEF Good, Occupied, HavePlayers, Inside
  <1> QED
    BY <1>2, <1>3 DEF Good

LEMMA LogoutGood == ASSUME Good(g), NEW p \in Players, Logout(p) PROVE Good(g')
  <1> DEFINE home == SetMap(RemovePlayerFromMap(g, p), p, Outside)
             left(s)    == IF s.at[p] = Outside THEN s ELSE RemovePlayerFromMap(s, p)
             unbound(s) == UnbindPlayer(left(s), p, TRUE)
  <1>1. PICK s \in {g, home} : g' = [unbound(s) EXCEPT !.online = @ \ {p}]
    BY DEF Logout
  <1>2. Good(s) /\ p \in s.online
    <2>1. Good(g) /\ p \in g.online
      BY DEF Logout
    <2>2. Good(RemovePlayerFromMap(g, p))
      BY <2>1, RemovedGood
    <2>3. Good(home)
      BY <2>2, SentHome
    <2>4. p \in home.online
      BY <2>2, SetMapFacts DEF Good, Moved
    <2> QED
      BY <2>1, <2>3, <2>4
  <1> HIDE DEF home
  <1> DEFINE l == left(s)
             u == unbound(s)
  <1>3. Good(l)
    BY <1>2, RemovedGood
  <1> HIDE DEF left
  <1>4. u = UnbindPlayer(l, p, TRUE)
    OBVIOUS
  <1> HIDE DEF l
  <1>5. Keeps(l, u, {}, {})
    BY <1>3, <1>4, UnbindFacts DEF Good
  <1> HIDE DEF u
  <1>6. Good(u)
    BY <1>3, <1>5, KeepsGood
  <1>7. g' = [u EXCEPT !.online = @ \ {p}]
    BY <1>1 DEF u
  <1> QED
    BY <1>6, <1>7, OfflineGood

(* A player comes back to the instance he may enter, or is sent home.      *)
LEMMA LoginGood == ASSUME Good(g), NEW p \in Players, Login(p) PROVE Good(g')
  <1> DEFINE s  == LoadBoundInstances(g, p)
             i  == LoginTarget(s, p, InstanceAtLogin(s, p))
             in == LoadMap(s, i)
  <1>1. /\ p \notin g.online
        /\ IF g.at[p] = Outside \/ i = Outside THEN g' = SetMap(s, p, Outside)
           ELSE g' \in {SetMap(in, p, Outside), AddPlayerToMap(SetMap(in, p, i), p, i)}
    BY DEF Login
  <1>2. Keeps(g, s, {p}, SaveIds)
    BY LoadBoundFacts DEF Good
  <1> HIDE DEF s
  <1>3. Good(s) /\ p \notin s.online
    <2>1. \A q \in {p} \cap g.online, j \in SaveIds : g.at[q] = j
      BY <1>1
    <2>2. Good(s)
      BY <1>2, <2>1, KeepsGood
    <2> QED
      BY <1>1, <1>2, <2>2 DEF Keeps, Eases, SamePlaces
  <1>4. CASE g.at[p] = Outside \/ i = Outside
    BY <1>1, <1>3, <1>4, SentHome
  <1>5. CASE g.at[p] # Outside /\ i # Outside
    <2>1. s.bind[p] \in Binds /\ s.gbind \in Binds /\ s.at[p] \in SaveIds \cup {Outside}
      BY <1>3 DEF Good, Sound, State
    <2>2. /\ s.bind[p].save \in SaveIds \cup {0} /\ s.gbind.save \in SaveIds \cup {0}
          /\ s.bind[p] = NoBind <=> s.bind[p].save = 0
          /\ s.gbind = NoBind <=> s.gbind.save = 0
      BY <2>1, BindIs
    <2>3. i \in SaveIds
      BY <1>5, <2>1, <2>2 DEF LoginTarget, InstanceAtLogin, GetInstanceSave, Outside
    <2>4. Fits(s, p, i)
      BY <1>5, <2>2 DEF LoginTarget, InstanceAtLogin, GetInstanceSave, Fits
    <2> HIDE DEF i
    <2>5. /\ Good(in) /\ i \in in.loaded /\ in.online = s.online
          /\ in.members = s.members /\ in.bind = s.bind /\ in.gbind = s.gbind
      BY <1>3, <2>3, LoadMapGood
    <2> HIDE DEF in
    <2>6. Fits(in, p, i)
      BY <2>4, <2>5 DEF Fits, Grouped
    <2>7. CASE g' = SetMap(in, p, Outside)
      BY <2>5, <2>7, SentHome
    <2>8. CASE g' = AddPlayerToMap(SetMap(in, p, i), p, i)
      BY <1>3, <2>3, <2>5, <2>6, <2>8, AddPlayerGood
    <2> QED
      BY <1>1, <1>5, <2>7, <2>8
  <1> QED
    BY <1>4, <1>5

LEMMA AcceptGood ==
    ASSUME Good(g), NEW p \in Players, NEW leader \in Players,
           HandleGroupAcceptOpcode(p, leader)
    PROVE  Good(g')
  <1> DEFINE c == Convert(g, leader, FALSE)
             n == [c EXCEPT !.members = {leader}, !.leader = leader]
             s == IF g.members # {} THEN g ELSE n
             j == [s EXCEPT !.members = @ \cup {p}]
  <1>1. g' = JoinGroup(s, p)
    BY DEF HandleGroupAcceptOpcode
  <1>2. Keeps(g, c, {}, {})
    BY ConvertFacts DEF Good
  <1> HIDE DEF c
  <1>3. Keeps(c, n, {}, {})
    <2>1. {leader} \in SUBSET Players /\ leader \in Players \cup {NoPlayer} /\ Sound(c)
      BY <1>2 DEF Keeps, Eases
    <2> QED
      BY <2>1, MembersFacts
  <1>4. Keeps(g, n, {}, {})
    BY <1>2, <1>3, KeepsOn
  <1> HIDE DEF n
  <1>5. Keeps(g, s, {}, {})
    BY <1>4, KeepsItself DEF Good
  <1> HIDE DEF s
  <1>6. Keeps(s, j, {}, {})
    <2>1. Sound(s) /\ s \in State
      BY <1>5 DEF Keeps, Eases, Sound
    <2>2. s.members \cup {p} \in SUBSET Players /\ s.leader \in Players \cup {NoPlayer}
      BY <2>1 DEF State
    <2>3. j = [s EXCEPT !.members = s.members \cup {p}, !.leader = s.leader]
      BY <2>1 DEF State
    <2> HIDE DEF j
    <2> QED
      BY <2>1, <2>2, <2>3, MembersFacts
  <1>7. g' = ResetSolo(j, p, "join")
    BY <1>1 DEF JoinGroup
  <1> HIDE DEF j
  <1>8. Keeps(j, g', {}, {})
    BY <1>6, <1>7, ResetSoloFacts DEF Keeps, Eases
  <1>9. Keeps(g, g', {}, {})
    BY <1>5, <1>6, <1>8, KeepsOn
  <1> QED
    BY <1>9, KeepsGood

LEMMA PermBindGood ==
    ASSUME Good(g), NEW i \in SaveIds, PermBindAllPlayers(i)
    PROVE  Good(g')
  <1>1. g' = PermBindAll(g, i) /\ g.save[i].alive
    BY DEF PermBindAllPlayers, PermBindAll
  <1>2. Keeps(g, g', Inside(g, i), {i})
    BY <1>1, PermBindAllFacts DEF Good
  <1>3. \A q \in Inside(g, i) \cap g.online, j \in {i} : g.at[q] = j
    BY DEF Inside
  <1> QED
    BY <1>2, <1>3, KeepsGood

(* Whoever is inside when a save is reset is in a map that is spent.       *)
LEMMA ResetInstanceGood ==
    ASSUME Good(g), NEW i \in SaveIds, _ResetInstance(i)
    PROVE  Good(g')
  <1> DEFINE a == ResetSave(g, i)
             d == DeleteFromDB(a, i)
             r == Reset(d, i, "delay")
  <1>1. PICK rest \in {g.events, g.events \ {i}} :
            g' = [r EXCEPT !.used = @ \ {i}, !.events = rest]
    BY DEF _ResetInstance
  <1>2. /\ Eases(g, a, {}, {}) /\ a.spent = g.spent
        /\ \A j \in SaveIds : j # i => a.save[j] = g.save[j]
    BY ResetSaveFacts DEF Good
  <1> HIDE DEF a
  <1>3. SameSaves(a, d)
    BY <1>2, DeleteFacts DEF Eases, Sound
  <1> HIDE DEF d
  <1>4. Keeps(a, d, {}, {})
    BY <1>2, <1>3, SameSavesKeep DEF Eases
  <1>5. /\ Keeps(d, r, {}, {}) /\ r.save = d.save /\ r.bind = d.bind /\ r.gbind = d.gbind
        /\ i \in d.loaded => i \in r.spent
    BY <1>4, ResetFacts DEF Keeps, Eases
  <1> HIDE DEF r
  <1>6. Eases(g, r, {}, {})
    BY <1>2, <1>4, <1>5, EasesOn DEF Keeps
  <1>7. /\ g' \in State /\ SamePlaces(r, g') /\ g'.spent = r.spent
        /\ g'.save = r.save /\ g'.bind = r.bind /\ g'.gbind = r.gbind
    <2>1. r \in State /\ rest \in SUBSET SaveIds
      BY <1>6 DEF Eases, Sound, Good, State
    <2> QED
      BY <1>1, <2>1 DEF State, SamePlaces
  <1>8. Eases(r, g', {}, {})
    BY <1>6, <1>7 DEF Eases, Sound, Agree
  <1>9. Eases(g, g', {}, {})
    BY <1>6, <1>8, EasesOn
  <1>10. Occupied(g')
    <2> SUFFICES ASSUME NEW j \in SaveIds, HavePlayers(g', j)
                 PROVE  j \in g'.loaded /\ (g'.save[j].alive \/ j \in g'.spent)
      BY DEF Occupied
    <2>1. HavePlayers(g, j) /\ g'.loaded = g.loaded
      BY <1>9 DEF Eases, SamePlaces, HavePlayers, Inside
    <2>2. j \in g.loaded /\ (g.save[j].alive \/ j \in g.spent)
      BY <2>1 DEF Good, Occupied
    <2>3. d.loaded = g.loaded
      BY <1>2, <1>4 DEF Keeps, Eases, SamePlaces
    <2>4. CASE j = i
      BY <1>5, <1>7, <2>1, <2>2, <2>3, <2>4
    <2>5. CASE j # i
      <3>1. g'.save[j] = g.save[j]
        BY <1>2, <1>3, <1>5, <1>7, <2>5 DEF SameSaves
      <3>2. g.spent \subseteq g'.spent
        BY <1>2, <1>4, <1>5, <1>7 DEF Keeps
      <3> QED
        BY <2>1, <2>2, <3>1, <3>2
    <2> QED
      BY <2>4, <2>5
  <1> QED
    BY <1>9, <1>10, EasesGood

LEMMA GlobalResetGood == ASSUME Good(g), GlobalReset PROVE Good(g')
  <1> DEFINE rows  == DeleteAll(g)
             saves == ResetAll(rows)
  <1>1. g' = [saves EXCEPT !.spent = g.loaded]
    BY DEF GlobalReset, DeleteAll, ResetAll
  <1>2. SameSaves(g, rows)
    BY DeleteAllFacts DEF Good, Sound
  <1> HIDE DEF rows
  <1>3. Keeps(g, rows, {}, {})
    BY <1>2, SameSavesKeep DEF Good
  <1>4. Eases(rows, saves, {}, {})
    BY <1>3, ResetAllFacts DEF Keeps, Eases
  <1> HIDE DEF saves
  <1>5. Eases(g, saves, {}, {})
    BY <1>3, <1>4, EasesOn DEF Keeps
  <1>6. /\ g' \in State /\ SamePlaces(saves, g') /\ g'.spent = g.loaded
        /\ g'.save = saves.save /\ g'.bind = saves.bind /\ g'.gbind = saves.gbind
    BY <1>1, <1>5 DEF Eases, Sound, State, Good, SamePlaces
  <1>7. Eases(saves, g', {}, {})
    BY <1>5, <1>6 DEF Eases, Sound, Agree
  <1>8. Eases(g, g', {}, {})
    BY <1>5, <1>7, EasesOn
  <1>9. Occupied(g')
    BY <1>6, <1>8 DEF Good, Occupied, Eases, SamePlaces, HavePlayers, Inside
  <1> QED
    BY <1>8, <1>9, EasesGood

LEMMA DestroyGood == ASSUME Good(g), NEW i \in SaveIds, DestroyInstance(i) PROVE Good(g')
  <1>1. /\ g' = [g EXCEPT !.loaded = @ \ {i}, !.spent = @ \ {i}]
        /\ ~HavePlayers(g, i)
    BY DEF DestroyInstance
  <1>2. /\ g' \in State /\ g'.loaded = g.loaded \ {i} /\ g'.spent = g.spent \ {i}
        /\ g'.online = g.online /\ g'.at = g.at /\ g'.aborted = g.aborted
        /\ g'.save = g.save /\ g'.bind = g.bind /\ g'.gbind = g.gbind
    BY <1>1 DEF Good, Sound, State
  <1>3. Sound(g') /\ Locked(g') /\ ~g'.aborted
    BY <1>2 DEF Good, Sound, Agree, Locked
  <1>4. Occupied(g')
    BY <1>1, <1>2 DEF Good, Occupied, HavePlayers, Inside
  <1> QED
    BY <1>3, <1>4 DEF Good

LEMMA StepGood ==
    ASSUME Good(g), [SavesNext]_savesVars
    PROVE  Good(g')
  <1>1. ASSUME NEW p \in Players, Enter(p) PROVE Good(g')
    BY <1>1, EnterGood
  <1>2. ASSUME NEW p \in Players, Leave(p) PROVE Good(g')
    BY <1>2, LeaveGood
  <1>3. ASSUME NEW p \in Players, Logout(p) PROVE Good(g')
    BY <1>3, LogoutGood
  <1>4. ASSUME NEW p \in Players, Login(p) PROVE Good(g')
    BY <1>4, LoginGood
  <1>5. ASSUME NEW p \in Players, LeaveGroup(p) PROVE Good(g')
    <2>1. g' \in RemoveMember(g, p)
      BY <1>5 DEF LeaveGroup
    <2>2. Keeps(g, g', {}, {})
      BY <2>1, RemoveMemberFacts DEF Good
    <2> QED
      BY <2>2, KeepsGood
  <1>6. ASSUME NEW p \in Players, SetLeader(p) PROVE Good(g')
    <2>1. g' = ChangeLeader(g, p)
      BY <1>6 DEF SetLeader
    <2>2. Keeps(g, g', {}, {})
      BY <2>1, ChangeLeaderFacts DEF Good
    <2> QED
      BY <2>2, KeepsGood
  <1>7. ASSUME NEW p \in Players, HandleResetInstancesOpcode(p) PROVE Good(g')
    <2>1. g' = ResetGroup(g, "all") \/ g' = ResetSolo(g, p, "all")
      BY <1>7 DEF HandleResetInstancesOpcode
    <2>2. Keeps(g, g', {}, {})
      BY <2>1, ResetGroupFacts, ResetSoloFacts DEF Good
    <2> QED
      BY <2>2, KeepsGood
  <1>8. ASSUME NEW p \in Players, HandleSetDungeonDifficultyOpcode(p) PROVE Good(g')
    <2>1. g' = ResetGroup(g, "change") \/ g' = ResetSolo(g, p, "change")
      BY <1>8 DEF HandleSetDungeonDifficultyOpcode
    <2>2. Keeps(g, g', {}, {})
      BY <2>1, ResetGroupFacts, ResetSoloFacts DEF Good
    <2> QED
      BY <2>2, KeepsGood
  <1>9. ASSUME NEW p \in Players, NEW q \in Players, HandleGroupAcceptOpcode(p, q)
        PROVE  Good(g')
    BY <1>9, AcceptGood
  <1>10. ASSUME NEW i \in SaveIds, PermBindAllPlayers(i) PROVE Good(g')
    BY <1>10, PermBindGood
  <1>11. ASSUME NEW i \in SaveIds, _ResetInstance(i) PROVE Good(g')
    BY <1>11, ResetInstanceGood
  <1>12. ASSUME NEW i \in SaveIds, DestroyInstance(i) PROVE Good(g')
    BY <1>12, DestroyGood
  <1>13. CASE GlobalReset
    BY <1>13, GlobalResetGood
  <1>14. CASE UNCHANGED savesVars
    BY <1>14 DEF savesVars
  <1> QED
    BY <1>1, <1>2, <1>3, <1>4, <1>5, <1>6, <1>7, <1>8, <1>9, <1>10, <1>11, <1>12, <1>13, <1>14
    DEF SavesNext

LEMMA AlwaysGood == SavesSpec => []Good(g)
  <1>1. SavesInit => Good(g)
    BY Started
  <1>2. Good(g) /\ [SavesNext]_savesVars => Good(g)'
    BY StepGood
  <1> QED
    BY <1>1, <1>2, PTL DEF SavesSpec

(* No step changes the difficulty.                                         *)
LEMMA HeroicStays == SavesNext => UNCHANGED heroic
  BY DEF SavesNext, Enter, Leave, Logout, Login, LeaveGroup, SetLeader,
         HandleResetInstancesOpcode, HandleSetDungeonDifficultyOpcode,
         HandleGroupAcceptOpcode, PermBindAllPlayers, _ResetInstance, DestroyInstance,
         GlobalReset

(* Every state has its type: maps, saves, binds and rows are those of the  *)
(* dungeon, and whoever is bound for good is bound to something.           *)
THEOREM SavesTypeCorrect == SavesSpec => [](heroic \in BOOLEAN /\ g \in State)
  <1>1. SavesInit => heroic \in BOOLEAN
    BY DEF SavesInit
  <1>2. heroic \in BOOLEAN /\ [SavesNext]_savesVars => (heroic \in BOOLEAN)'
    BY HeroicStays DEF savesVars
  <1>3. Good(g) => g \in State
    BY DEF Good, Sound
  <1> QED
    BY <1>1, <1>2, <1>3, AlwaysGood, PTL DEF SavesSpec

(* The two sides of a bind always agree, whatever order the handlers run   *)
(* in: a save lists those who are bound to it and nobody else, and is      *)
(* alive while somebody is on its lists (RemovePlayer, RemoveGroup,        *)
(* UnloadIfEmpty, _ResetSave).                                             *)
THEOREM BindsAgree == SavesSpec => []SavesAndBindsAgree
  <1>1. Good(g) => SavesAndBindsAgree
    BY DEF Good, Sound, Agree, SavesAndBindsAgree
  <1> QED
    BY <1>1, AlwaysGood, PTL

(* No assertion of InstanceMap::AddPlayerToMap and none of _ResetSave ever *)
(* fails.                                                                  *)
THEOREM NoAssertionFails == SavesSpec => []NeverAborts
  <1>1. Good(g) => NeverAborts
    BY DEF Good, NeverAborts
  <1> QED
    BY <1>1, AlwaysGood, PTL

(* Whoever has a lockout is outside, or in the instance of his lockout,    *)
(* also after a login, a change of the leader or a reset.                  *)
THEOREM LockoutKept == SavesSpec => []LockoutHolds
  <1>1. Good(g) => LockoutHolds
    BY DEF Good, Locked, LockoutHolds
  <1> QED
    BY <1>1, AlwaysGood, PTL

(* An instance with players inside is loaded, and has a save unless it was *)
(* reset under them (UnloadIfEmpty asks HavePlayers).                      *)
THEOREM OccupiedSaved == SavesSpec => []SaveWhileOccupied
  <1>1. Good(g) => SaveWhileOccupied
    BY DEF Good, Occupied, SaveWhileOccupied
  <1> QED
    BY <1>1, AlwaysGood, PTL
=============================================================================
