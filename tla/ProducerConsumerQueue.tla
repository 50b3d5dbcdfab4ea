----------------------- MODULE ProducerConsumerQueue -----------------------
(***************************************************************************)
(* ProducerConsumerQueue<T>: a std::queue, a mutex and a condition         *)
(* variable.  Every access to _queue and _shutdown happens with _queueLock *)
(* held, so a critical section is one step; what remains visible is where  *)
(* a consumer sleeps on _condition, which thread a notification wakes, and *)
(* that Cancel notifies only after it has released the lock.               *)
(***************************************************************************)
EXTENDS Naturals, Sequences, FiniteSets

CONSTANTS
    Values,       \* what is pushed, each value once
    Consumers,    \* the threads that call WaitAndPop and Pop
    NoValue,      \* an output variable nothing was stored in
    MaxCancels    \* bound: how often Cancel is called (once per worker's end)

ASSUME QueueAssumption ==
    /\ NoValue \notin Values
    /\ IsFiniteSet(Consumers)
    /\ MaxCancels \in Nat

VARIABLES
    queue,        \* _queue
    shutdown,     \* _shutdown
    pc,           \* per consumer: outside, entered, asleep in wait(), or woken
    result,       \* the output variable of each consumer
    cancels,      \* calls of Cancel so far
    notifying,    \* calls of Cancel that have yet to notify_all
    pushed, delivered, deleted    \* history: the order of each event

vars == <<queue, shutdown, pc, result, cancels, notifying, pushed, delivered, deleted>>

Sleeping == {c \in Consumers : pc[c] = "sleeping"}
Woken    == {c \in Consumers : pc[c] = "woken"}
Elements(s) == {s[k] : k \in 1 .. Len(s)}

-----------------------------------------------------------------------------
(* notify_one wakes one of the sleeping threads, if there is any.          *)
Mutant_NotifyOne ==                           \* only when it was empty
    IF Sleeping = {} \/ queue # <<>>
    THEN UNCHANGED pc
    ELSE \E c \in Sleeping : pc' = [pc EXCEPT ![c] = "woken"]

NotifyOne ==
    IF Sleeping = {}
    THEN UNCHANGED pc
    ELSE \E c \in Sleeping : pc' = [pc EXCEPT ![c] = "woken"]

Push(v) ==
    /\ v \notin Elements(pushed)
    /\ queue' = Append(queue, v)
    /\ pushed' = Append(pushed, v)
    /\ NotifyOne
    /\ UNCHANGED <<shutdown, result, cancels, notifying, delivered, deleted>>

(* The loop condition of WaitAndPop.                                       *)
MustWait == queue = <<>> /\ ~shutdown

(* The test after the loop, also made by Pop.                              *)
NothingToPop == queue = <<>> \/ shutdown

(* value = _queue.front(); _queue.pop().                                   *)
TakeFront(c) ==
    /\ result' = [result EXCEPT ![c] = Head(queue)]
    /\ queue' = Tail(queue)
    /\ delivered' = Append(delivered, Head(queue))

(* A consumer calls WaitAndPop with a cleared output variable and blocks   *)
(* on the mutex.                                                           *)
EnterWaitAndPop(c) ==
    /\ pc[c] = "outside"
    /\ pc' = [pc EXCEPT ![c] = "entered"]
    /\ result' = [result EXCEPT ![c] = NoValue]
    /\ UNCHANGED <<queue, shutdown, cancels, notifying, pushed, delivered, deleted>>

(* One evaluation of WaitAndPop's loop, with the lock held.                *)
Wait(c) ==
    /\ pc[c] \in {"entered", "woken"}
    /\ MustWait
    /\ pc' = [pc EXCEPT ![c] = "sleeping"]
    /\ UNCHANGED <<queue, shutdown, result, cancels, notifying, pushed, delivered, deleted>>

WaitAndPop(c) ==
    /\ pc[c] \in {"entered", "woken"}
    /\ ~MustWait
    /\ pc' = [pc EXCEPT ![c] = "outside"]
    /\ IF NothingToPop
       THEN UNCHANGED <<result, queue, delivered>>
       ELSE TakeFront(c)
    /\ UNCHANGED <<shutdown, cancels, notifying, pushed, deleted>>

SpuriousWakeup(c) ==
    /\ pc[c] = "sleeping"
    /\ pc' = [pc EXCEPT ![c] = "woken"]
    /\ UNCHANGED <<queue, shutdown, result, cancels, notifying, pushed, delivered, deleted>>

Pop(c) ==
    /\ pc[c] = "outside"
    /\ IF NothingToPop
       THEN /\ result' = [result EXCEPT ![c] = NoValue]
            /\ UNCHANGED <<queue, delivered>>
       ELSE TakeFront(c)
    /\ UNCHANGED <<shutdown, pc, cancels, notifying, pushed, deleted>>

(* Cancel up to unlock(), and the notify_all that follows it.              *)
CancelLocked ==
    /\ cancels < MaxCancels
    /\ cancels' = cancels + 1
    /\ notifying' = notifying + 1
    /\ deleted' = deleted \o queue
    /\ queue' = <<>>
    /\ shutdown' = TRUE
    /\ UNCHANGED <<pc, result, pushed, delivered>>

Mutant_NotifiedByAll ==                       \* notify_one instead of notify_all
    IF Sleeping = {} THEN {} ELSE {CHOOSE c \in Sleeping : TRUE}

NotifiedByAll == Sleeping

NotifyAll ==
    /\ notifying > 0
    /\ notifying' = notifying - 1
    /\ pc' = [c \in Consumers |-> IF c \in NotifiedByAll THEN "woken" ELSE pc[c]]
    /\ UNCHANGED <<queue, shutdown, result, cancels, pushed, delivered, deleted>>

-----------------------------------------------------------------------------
Init ==
    /\ queue = <<>>
    /\ shutdown = FALSE
    /\ pc = [c \in Consumers |-> "outside"]
    /\ result = [c \in Consumers |-> NoValue]
    /\ cancels = 0 /\ notifying = 0
    /\ pushed = <<>> /\ delivered = <<>> /\ deleted = <<>>

Next ==
    \/ \E v \in Values : Push(v)
    \/ \E c \in Consumers :
           \/ EnterWaitAndPop(c)
           \/ Wait(c)
           \/ WaitAndPop(c)
           \/ SpuriousWakeup(c)
           \/ Pop(c)
    \/ CancelLocked
    \/ NotifyAll

Spec == Init /\ [][Next]_vars

(* A thread inside a call goes on; nobody has to call anything, and no     *)
(* spurious wakeup is relied upon.                                         *)
Fairness ==
    /\ \A c \in Consumers : WF_vars(Wait(c) \/ WaitAndPop(c))
    /\ WF_vars(NotifyAll)

FairSpec == Spec /\ Fairness

-----------------------------------------------------------------------------
TypeOK ==
    /\ queue \in Seq(Values)
    /\ shutdown \in BOOLEAN
    /\ pc \in [Consumers -> {"outside", "entered", "sleeping", "woken"}]
    /\ result \in [Consumers -> Values \cup {NoValue}]
    /\ cancels \in 0 .. MaxCancels
    /\ notifying \in 0 .. cancels
    /\ pushed \in Seq(Values)
    /\ delivered \in Seq(Values)
    /\ deleted \in Seq(Values)

(* A value that is in the queue while consumers sleep on _condition has a  *)
(* woken thread of its own on the way to it, although another consumer may *)
(* overtake the woken one and Push wakes a single thread.                  *)
NoLostWakeup ==
    Sleeping # {} => Len(queue) <= Cardinality(Woken) \/ shutdown

(* A consumer that sleeps after a Cancel has its notification to come:     *)
(* the gap between unlock() and notify_all() strands nobody.               *)
CancelWillWake == shutdown /\ Sleeping # {} => notifying > 0

(* Every pushed value is in exactly one place, in the order of the pushes: *)
(* handed to one consumer, deleted by Cancel, or still queued.  It is      *)
(* never delivered twice, nor both delivered and deleted.                  *)
EachValueOnce == pushed = delivered \o deleted \o queue

(* After a Cancel nothing is handed out, also not to a consumer that was   *)
(* already waiting, nor a value that is pushed later.                      *)
NothingAfterCancel == [][shutdown => UNCHANGED delivered]_vars

(* The queue implements its abstract specification: sleeping and waking    *)
(* are hidden, each critical section is one atomic operation, and a value  *)
(* or a Cancel reaches the blocked consumers.                              *)
Abstract == INSTANCE BlockingQueue
              WITH blocked <- {c \in Consumers : pc[c] # "outside"}
ImplementsBlockingQueue == Abstract!Spec
=============================================================================
