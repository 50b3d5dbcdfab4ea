-------------------- MODULE ProducerConsumerQueue_proofs --------------------
(***************************************************************************)
(* Theorems about ProducerConsumerQueue, for any finite set of consumers   *)
(* and any set of values.                                                  *)
(***************************************************************************)
EXTENDS ProducerConsumerQueue, FiniteSetTheorems, SequenceTheorems, TLAPS

(* The constructed queue is well typed.                                    *)
LEMMA InitType == Init => TypeOK
<1> SUFFICES ASSUME Init PROVE TypeOK
  OBVIOUS
<1>1. /\ pc \in [Consumers -> {"outside", "entered", "sleeping", "woken"}]
      /\ result \in [Consumers -> Values \cup {NoValue}]
  BY DEF Init
<1>2. /\ queue \in Seq(Values) /\ pushed \in Seq(Values)
      /\ delivered \in Seq(Values) /\ deleted \in Seq(Values)
  BY DEF Init
<1>3. cancels \in 0 .. MaxCancels /\ notifying \in 0 .. cancels
  BY QueueAssumption DEF Init
<1> QED  BY <1>1, <1>2, <1>3 DEF Init, TypeOK

(* Every operation keeps the types.                                        *)
LEMMA StepType == TypeOK /\ [Next]_vars => TypeOK'
<1> SUFFICES ASSUME TypeOK, [Next]_vars PROVE TypeOK'
  OBVIOUS
<1> USE DEF TypeOK
<1>1. ASSUME NEW v \in Values, Push(v)
      PROVE  TypeOK'
  BY <1>1 DEF Push, NotifyOne, Sleeping
<1>2. ASSUME NEW c \in Consumers, EnterWaitAndPop(c)
      PROVE  TypeOK'
  BY <1>2 DEF EnterWaitAndPop
<1>3. ASSUME NEW c \in Consumers, Wait(c)
      PROVE  TypeOK'
  BY <1>3 DEF Wait
<1>4. ASSUME NEW c \in Consumers, TakeFront(c), queue # <<>>
      PROVE  /\ queue' \in Seq(Values)
             /\ delivered' \in Seq(Values)
             /\ result' \in [Consumers -> Values \cup {NoValue}]
  <2>1. Head(queue) \in Values /\ Tail(queue) \in Seq(Values)
    BY <1>4
  <2> QED  BY <1>4, <2>1 DEF TakeFront
<1>5. ASSUME NEW c \in Consumers, WaitAndPop(c)
      PROVE  TypeOK'
  <2>1. CASE NothingToPop
    BY <1>5, <2>1 DEF WaitAndPop
  <2>2. CASE ~NothingToPop
    <3>1. TakeFront(c) /\ queue # <<>>
      BY <1>5, <2>2 DEF WaitAndPop, NothingToPop
    <3> QED  BY <1>4, <1>5, <3>1 DEF WaitAndPop
  <2> QED  BY <2>1, <2>2
<1>6. ASSUME NEW c \in Consumers, SpuriousWakeup(c)
      PROVE  TypeOK'
  BY <1>6 DEF SpuriousWakeup
<1>7. ASSUME NEW c \in Consumers, Pop(c)
      PROVE  TypeOK'
  <2>1. CASE NothingToPop
    BY <1>7, <2>1 DEF Pop
  <2>2. CASE ~NothingToPop
    <3>1. TakeFront(c) /\ queue # <<>>
      BY <1>7, <2>2 DEF Pop, NothingToPop
    <3> QED  BY <1>4, <1>7, <3>1 DEF Pop
  <2> QED  BY <2>1, <2>2
<1>8. CASE CancelLocked
  <2>1. deleted' \in Seq(Values)
    BY <1>8, ConcatProperties DEF CancelLocked
  <2> QED  BY <1>8, <2>1, QueueAssumption DEF CancelLocked
<1>9. CASE NotifyAll
  BY <1>9 DEF NotifyAll
<1>10. CASE UNCHANGED vars
  BY <1>10 DEF vars
<1> QED
  BY <1>1, <1>2, <1>3, <1>5, <1>6, <1>7, <1>8, <1>9, <1>10 DEF Next

(* Type correctness.                                                       *)
THEOREM TypeCorrect == Spec => []TypeOK
BY InitType, StepType, PTL DEF Spec

-----------------------------------------------------------------------------
(* The woken consumers can be counted.                                     *)
LEMMA WokenFinite == IsFiniteSet(Woken) /\ Cardinality(Woken) \in Nat
<1>1. Woken \subseteq Consumers
  BY DEF Woken
<1> QED  BY <1>1, QueueAssumption, FS_Subset, FS_CardinalityType

(* Waking a sleeping consumer adds one to the woken ones.                  *)
LEMMA WakeOne ==
  ASSUME TypeOK, NEW c \in Sleeping, pc' = [pc EXCEPT ![c] = "woken"]
  PROVE  /\ Cardinality(Woken') = Cardinality(Woken) + 1
         /\ Sleeping' \subseteq Sleeping
<1>1. Woken' = Woken \cup {c} /\ c \notin Woken
  BY DEF TypeOK, Sleeping, Woken
<1>2. Cardinality(Woken') = Cardinality(Woken) + 1
  BY <1>1, WokenFinite, FS_AddElement
<1>3. Sleeping' \subseteq Sleeping
  BY DEF TypeOK, Sleeping
<1> QED  BY <1>2, <1>3

(* Every operation keeps enough consumers awake: Push adds a value and a   *)
(* woken consumer, a consumer that stops being woken has taken a value or  *)
(* found the queue empty, and Cancel empties the queue.                    *)
LEMMA StepNoLostWakeup ==
  ASSUME TypeOK, NoLostWakeup, [Next]_vars
  PROVE  NoLostWakeup'
<1>a. Len(queue) \in Nat /\ Cardinality(Woken) \in Nat
  BY WokenFinite DEF TypeOK
<1>1. ASSUME NEW v \in Values, Push(v)
      PROVE  NoLostWakeup'
  <2>1. Len(queue') = Len(queue) + 1 /\ shutdown' = shutdown
    BY <1>1 DEF Push, TypeOK
  <2>2. CASE Sleeping = {}
    <3>1. Sleeping' = {}
      BY <1>1, <2>2 DEF Push, NotifyOne, Sleeping
    <3> QED  BY <3>1 DEF NoLostWakeup
  <2>3. CASE Sleeping # {}
    <3>1. PICK c \in Sleeping : pc' = [pc EXCEPT ![c] = "woken"]
      BY <1>1, <2>3 DEF Push, NotifyOne
    <3>2. Cardinality(Woken') = Cardinality(Woken) + 1
      BY <3>1, WakeOne
    <3> QED  BY <1>a, <2>1, <2>3, <3>2 DEF NoLostWakeup
  <2> QED  BY <2>2, <2>3
<1>2. ASSUME NEW c \in Consumers, EnterWaitAndPop(c)
      PROVE  NoLostWakeup'
  <2>1. Sleeping' = Sleeping /\ Woken' = Woken
    BY <1>2 DEF EnterWaitAndPop, Sleeping, Woken, TypeOK
  <2> QED  BY <1>2, <2>1 DEF EnterWaitAndPop, NoLostWakeup
<1>3. ASSUME NEW c \in Consumers, Wait(c)
      PROVE  NoLostWakeup'
  <2>1. Len(queue') = 0
    BY <1>3 DEF Wait, MustWait
  <2>2. Cardinality(Woken') \in Nat
    <3>1. Woken' \subseteq Consumers
      BY DEF Woken
    <3> QED  BY <3>1, QueueAssumption, FS_Subset, FS_CardinalityType
  <2> QED  BY <2>1, <2>2 DEF NoLostWakeup
<1>4. ASSUME NEW c \in Consumers, WaitAndPop(c)
      PROVE  NoLostWakeup'
  <2>1. CASE shutdown
    BY <1>4, <2>1 DEF WaitAndPop, NoLostWakeup
  <2>2. CASE ~shutdown
    <3>1. Sleeping' = Sleeping /\ Woken' = Woken \ {c}
      BY <1>4 DEF WaitAndPop, Sleeping, Woken, TypeOK
    <3>2. Cardinality(Woken') \in {Cardinality(Woken), Cardinality(Woken) - 1}
      BY <3>1, WokenFinite, FS_RemoveElement
    <3>3. queue # <<>> /\ queue' = Tail(queue)
      BY <1>4, <2>2 DEF WaitAndPop, MustWait, NothingToPop, TakeFront
    <3>4. Len(queue') = Len(queue) - 1
      BY <3>3, HeadTailProperties DEF TypeOK
    <3>5. Cardinality(Woken') \in Nat
      <4>1. IsFiniteSet(Woken')
        BY <3>1, WokenFinite, FS_RemoveElement
      <4> QED  BY <4>1, FS_CardinalityType
    <3> QED  BY <1>a, <2>2, <3>1, <3>2, <3>4, <3>5 DEF NoLostWakeup
  <2> QED  BY <2>1, <2>2
<1>5. ASSUME NEW c \in Consumers, SpuriousWakeup(c)
      PROVE  NoLostWakeup'
  <2>1. /\ Cardinality(Woken') = Cardinality(Woken) + 1
        /\ Sleeping' \subseteq Sleeping
    BY <1>5, WakeOne DEF SpuriousWakeup, Sleeping
  <2> QED  BY <1>5, <1>a, <2>1 DEF SpuriousWakeup, NoLostWakeup
<1>6. ASSUME NEW c \in Consumers, Pop(c)
      PROVE  NoLostWakeup'
  <2>1. Sleeping' = Sleeping /\ Woken' = Woken /\ shutdown' = shutdown
    BY <1>6 DEF Pop, Sleeping, Woken
  <2>2. Len(queue') <= Len(queue) /\ Len(queue') \in Nat
    BY <1>6 DEF Pop, NothingToPop, TakeFront, TypeOK
  <2> QED  BY <1>a, <2>1, <2>2 DEF NoLostWakeup
<1>7. CASE CancelLocked
  BY <1>7 DEF CancelLocked, NoLostWakeup
<1>8. CASE NotifyAll
  <2>1. Sleeping' = {}
    BY <1>8 DEF NotifyAll, NotifiedByAll, Sleeping
  <2> QED  BY <2>1 DEF NoLostWakeup
<1>9. CASE UNCHANGED vars
  BY <1>9 DEF vars, NoLostWakeup, Sleeping, Woken
<1> QED
  BY <1>1, <1>2, <1>3, <1>4, <1>5, <1>6, <1>7, <1>8, <1>9 DEF Next

(* While consumers sleep, every queued value has a woken thread on its way *)
(* to it: one notify_one per Push is enough for any number of consumers.   *)
THEOREM WakeupsNotLost == Spec => []NoLostWakeup
<1>1. Init => NoLostWakeup
  BY DEF Init, NoLostWakeup, Sleeping
<1>2. TypeOK /\ NoLostWakeup /\ [Next]_vars => NoLostWakeup'
  BY StepNoLostWakeup
<1> QED  BY <1>1, <1>2, TypeCorrect, PTL DEF Spec

-----------------------------------------------------------------------------
(* A consumer asleep on a cancelled queue has a notify_all to come, for    *)
(* any number of consumers and of calls of Cancel.                         *)
THEOREM CancelStrandsNobody == Spec => []CancelWillWake
<1>1. Init => CancelWillWake
  BY DEF Init, CancelWillWake
<1>2. TypeOK /\ CancelWillWake /\ [Next]_vars => CancelWillWake'
  <2> SUFFICES ASSUME TypeOK, CancelWillWake, [Next]_vars PROVE CancelWillWake'
    OBVIOUS
  <2>1. CASE NotifyAll
    <3>1. Sleeping' = {}
      BY <2>1 DEF NotifyAll, NotifiedByAll, Sleeping
    <3> QED  BY <3>1 DEF CancelWillWake
  <2>2. CASE CancelLocked
    BY <2>2 DEF CancelLocked, CancelWillWake, TypeOK
  <2>3. ASSUME NEW c \in Consumers, Wait(c)
        PROVE  CancelWillWake'
    BY <2>3 DEF Wait, MustWait, CancelWillWake
  <2>4. ASSUME Sleeping' \subseteq Sleeping, UNCHANGED <<shutdown, notifying>>
        PROVE  CancelWillWake'
    BY <2>4 DEF CancelWillWake
  <2>5. ASSUME NEW v \in Values, Push(v)
        PROVE  Sleeping' \subseteq Sleeping
    BY <2>5 DEF Push, NotifyOne, Sleeping, TypeOK
  <2>6. ASSUME NEW c \in Consumers,
               EnterWaitAndPop(c) \/ WaitAndPop(c) \/ SpuriousWakeup(c) \/ Pop(c)
        PROVE  Sleeping' \subseteq Sleeping /\ UNCHANGED <<shutdown, notifying>>
    BY <2>6 DEF EnterWaitAndPop, WaitAndPop, SpuriousWakeup, Pop, Sleeping, TypeOK
  <2>7. CASE UNCHANGED vars
    BY <2>7 DEF vars, CancelWillWake, Sleeping
  <2> QED
    BY <2>1, <2>2, <2>3, <2>4, <2>5, <2>6, <2>7 DEF Next, Push
<1> QED  BY <1>1, <1>2, TypeCorrect, PTL DEF Spec

(* No value is delivered once the queue is cancelled.                      *)
THEOREM CancelStopsDelivery == Spec => NothingAfterCancel
<1>1. [Next]_vars => [shutdown => UNCHANGED delivered]_vars
  BY DEF Next, vars, Push, EnterWaitAndPop, Wait, WaitAndPop, SpuriousWakeup,
         Pop, NothingToPop, TakeFront, CancelLocked, NotifyAll
<1> QED  BY <1>1, PTL DEF Spec, NothingAfterCancel

-----------------------------------------------------------------------------
(* Nothing is deleted before the first Cancel.                             *)
DeletedByCancel == ~shutdown => deleted = <<>>

(* front() and pop() split the queue: the order is unchanged.              *)
LEMMA HeadThenTail ==
  ASSUME NEW s \in Seq(Values), s # <<>>
  PROVE  s = <<Head(s)>> \o Tail(s)
<1>1. /\ <<Head(s)>> \in Seq(Values) /\ Tail(s) \in Seq(Values)
      /\ Len(Tail(s)) = Len(s) - 1 /\ Len(s) \in Nat
      /\ \A k \in 1 .. Len(Tail(s)) : Tail(s)[k] = s[k + 1]
  BY HeadTailProperties
<1>2. /\ <<Head(s)>> \o Tail(s) \in Seq(Values)
      /\ Len(<<Head(s)>> \o Tail(s)) = Len(s)
      /\ \A k \in 1 .. Len(s) : (<<Head(s)>> \o Tail(s))[k] = s[k]
  <2>1. Len(<<Head(s)>>) = 1 /\ <<Head(s)>>[1] = s[1]
    OBVIOUS
  <2> QED  BY <1>1, <2>1, ConcatProperties
<1> QED  BY <1>2, SeqEqual

(* A value that moves from the queue to a consumer keeps its place in the  *)
(* order of the pushes.                                                    *)
LEMMA TakeKeepsOrder ==
  ASSUME TypeOK, DeletedByCancel, EachValueOnce, ~NothingToPop,
         NEW c \in Consumers, TakeFront(c), UNCHANGED <<pushed, deleted>>
  PROVE  EachValueOnce'
<1>1. /\ deleted = <<>> /\ queue # <<>>
      /\ delivered \in Seq(Values) /\ queue \in Seq(Values)
  BY DEF NothingToPop, DeletedByCancel, TypeOK
<1>2. Head(queue) \in Values /\ Tail(queue) \in Seq(Values)
  BY <1>1
<1>3. pushed = delivered \o (<<Head(queue)>> \o Tail(queue))
  <2>1. pushed = delivered \o queue
    BY <1>1, ConcatEmptySeq DEF EachValueOnce
  <2> QED  BY <2>1, <1>1, HeadThenTail
<1>4. pushed = (delivered \o <<Head(queue)>>) \o Tail(queue)
  <2>1. <<Head(queue)>> \in Seq(Values)
    BY <1>2
  <2> QED  BY <1>1, <1>2, <1>3, <2>1, ConcatAssociative
<1>5. delivered' = delivered \o <<Head(queue)>> /\ delivered' \in Seq(Values)
  BY <1>1, <1>2, AppendIsConcat, AppendProperties DEF TakeFront
<1>6. delivered' \o deleted' = delivered'
  BY <1>1, <1>5, ConcatEmptySeq
<1> QED  BY <1>4, <1>5, <1>6 DEF EachValueOnce, TakeFront

(* Ownership and order, for any number of values, consumers and Cancels:   *)
(* the values delivered, then those deleted, then those still queued, are  *)
(* the values pushed, in the order in which they were pushed.              *)
THEOREM ValuesOnceInOrder == Spec => []EachValueOnce
<1> DEFINE Inv == DeletedByCancel /\ EachValueOnce
<1>1. Init => Inv
  BY DEF Init, DeletedByCancel, EachValueOnce
<1>2. TypeOK /\ Inv /\ [Next]_vars => Inv'
  <2> SUFFICES ASSUME TypeOK, Inv, [Next]_vars PROVE Inv'
    OBVIOUS
  <2>a. /\ queue \in Seq(Values) /\ deleted \in Seq(Values)
        /\ delivered \in Seq(Values) /\ delivered \o deleted \in Seq(Values)
    BY ConcatProperties DEF TypeOK
  <2>1. ASSUME NEW v \in Values, Push(v)
        PROVE  Inv'
    <3>1. Append(pushed, v) = pushed \o <<v>> /\ Append(queue, v) = queue \o <<v>>
      BY AppendIsConcat DEF TypeOK
    <3>2. pushed \o <<v>> = (delivered \o deleted) \o (queue \o <<v>>)
      <4>1. <<v>> \in Seq(Values)
        OBVIOUS
      <4> QED  BY <2>a, <4>1, ConcatAssociative DEF EachValueOnce
    <3> QED  BY <2>1, <3>1, <3>2 DEF Push, DeletedByCancel, EachValueOnce
  <2>2. ASSUME NEW c \in Consumers, WaitAndPop(c) \/ Pop(c)
        PROVE  Inv'
    <3>1. UNCHANGED <<pushed, deleted, shutdown>>
      BY <2>2 DEF WaitAndPop, Pop
    <3>2. CASE NothingToPop
      BY <2>2, <3>1, <3>2 DEF WaitAndPop, Pop, DeletedByCancel, EachValueOnce
    <3>3. CASE ~NothingToPop
      BY <2>2, <3>1, <3>3, TakeKeepsOrder DEF WaitAndPop, Pop, DeletedByCancel
    <3> QED  BY <3>2, <3>3
  <2>3. CASE CancelLocked
    <3>1. delivered \o (deleted \o queue) = (delivered \o deleted) \o queue
      BY <2>a, ConcatAssociative
    <3>2. delivered \o (deleted \o queue) \in Seq(Values)
      BY <2>a, ConcatProperties
    <3>3. (delivered \o (deleted \o queue)) \o <<>> = delivered \o (deleted \o queue)
      BY <3>2, ConcatEmptySeq
    <3> QED  BY <2>3, <3>1, <3>3 DEF CancelLocked, DeletedByCancel, EachValueOnce
  <2>4. ASSUME UNCHANGED <<queue, shutdown, pushed, delivered, deleted>>
        PROVE  Inv'
    BY <2>4 DEF DeletedByCancel, EachValueOnce
  <2> QED
    BY <2>1, <2>2, <2>3, <2>4
       DEF Next, vars, EnterWaitAndPop, Wait, SpuriousWakeup, NotifyAll
<1> QED  BY <1>1, <1>2, TypeCorrect, PTL DEF Spec

-----------------------------------------------------------------------------
(* The mutex and condition variable implement the abstract queue: each     *)
(* step of the code is one atomic operation of it or changes nothing that  *)
(* its users see.  (The liveness part of Abstract!Spec is left to TLC.)    *)
THEOREM Refinement == Spec => Abstract!SafetySpec
<1>1. Init => Abstract!Init
  BY DEF Init, Abstract!Init
<1>2. TypeOK /\ [Next]_vars => [Abstract!Next]_(Abstract!bqVars)
  <2> SUFFICES ASSUME TypeOK, [Next]_vars
               PROVE  Abstract!Next \/ UNCHANGED Abstract!bqVars
    OBVIOUS
  <2> DEFINE blocked == {c \in Consumers : pc[c] # "outside"}
  <2>1. ASSUME NEW v \in Values, Push(v)
        PROVE  Abstract!Next
    <3>1. blocked' = blocked
      BY <2>1 DEF Push, NotifyOne, Sleeping, TypeOK
    <3> QED  BY <2>1, <3>1 DEF Push, Abstract!Push, Abstract!Next
  <2>2. ASSUME NEW c \in Consumers, EnterWaitAndPop(c)
        PROVE  Abstract!Next
    <3>1. c \notin blocked /\ blocked' = blocked \cup {c}
      BY <2>2 DEF EnterWaitAndPop, TypeOK
    <3> QED  BY <2>2, <3>1 DEF EnterWaitAndPop, Abstract!Enter, Abstract!Next
  <2>3. ASSUME NEW c \in Consumers, WaitAndPop(c)
        PROVE  Abstract!Next
    <3>1. c \in blocked /\ blocked' = blocked \ {c}
      BY <2>3 DEF WaitAndPop, TypeOK
    <3>2. Abstract!Return(c)
      BY <2>3, <3>1
         DEF WaitAndPop, MustWait, NothingToPop, TakeFront, Abstract!Return, TypeOK
    <3> QED  BY <3>2 DEF Abstract!Next
  <2>4. ASSUME NEW c \in Consumers, Pop(c)
        PROVE  Abstract!Next
    <3>1. c \notin blocked /\ blocked' = blocked
      BY <2>4 DEF Pop
    <3>2. Abstract!Pop(c)
      BY <2>4, <3>1 DEF Pop, NothingToPop, TakeFront, Abstract!Pop
    <3> QED  BY <3>2 DEF Abstract!Next
  <2>5. CASE CancelLocked
    <3>1. blocked' = blocked
      BY <2>5 DEF CancelLocked
    <3> QED  BY <2>5, <3>1 DEF CancelLocked, Abstract!Cancel, Abstract!Next
  <2>6. ASSUME UNCHANGED <<queue, shutdown, result, blocked>>
        PROVE  UNCHANGED Abstract!bqVars
    BY <2>6 DEF Abstract!bqVars
  <2>7. ASSUME NEW c \in Consumers, Wait(c) \/ SpuriousWakeup(c)
        PROVE  UNCHANGED <<queue, shutdown, result, blocked>>
    BY <2>7 DEF Wait, SpuriousWakeup, TypeOK
  <2>8. CASE NotifyAll
    <3>1. UNCHANGED <<queue, shutdown, result, blocked>>
      BY <2>8 DEF NotifyAll, NotifiedByAll, Sleeping, TypeOK
    <3> QED  BY <2>6, <3>1
  <2>9. CASE UNCHANGED vars
    BY <2>6, <2>9 DEF vars
  <2> QED
    BY <2>1, <2>2, <2>3, <2>4, <2>5, <2>6, <2>7, <2>8, <2>9 DEF Next
<1> QED  BY <1>1, <1>2, TypeCorrect, PTL DEF Spec, Abstract!SafetySpec
=============================================================================
