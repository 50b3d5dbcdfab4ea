---------------------------- MODULE BlockingQueue ----------------------------
(***************************************************************************)
(* What a ProducerConsumerQueue promises its users: a first-in first-out   *)
(* queue with atomic operations, whose WaitAndPop blocks until there is a  *)
(* value or the queue was cancelled.  There is no mutex and no condition   *)
(* variable here: a blocked consumer may return as soon as it has a reason.*)
(***************************************************************************)
EXTENDS Naturals, Sequences

CONSTANTS Values, Consumers, NoValue

VARIABLES
    queue,       \* the values pushed and not yet popped
    shutdown,    \* Cancel was called
    blocked,     \* the consumers inside WaitAndPop
    result       \* what the last call of each consumer stored, or NoValue

bqVars == <<queue, shutdown, blocked, result>>

Push(v) ==
    /\ queue' = Append(queue, v)
    /\ UNCHANGED <<shutdown, blocked, result>>

(* A consumer enters WaitAndPop with an empty output variable.             *)
Enter(c) ==
    /\ c \notin blocked
    /\ blocked' = blocked \cup {c}
    /\ result' = [result EXCEPT ![c] = NoValue]
    /\ UNCHANGED <<queue, shutdown>>

(* It returns with the oldest value, or with nothing after a Cancel.       *)
Return(c) ==
    /\ c \in blocked
    /\ blocked' = blocked \ {c}
    /\ \/ /\ shutdown
          /\ UNCHANGED <<queue, result>>
       \/ /\ ~shutdown
          /\ queue # <<>>
          /\ result' = [result EXCEPT ![c] = Head(queue)]
          /\ queue' = Tail(queue)
    /\ UNCHANGED shutdown

(* Pop never blocks.                                                       *)
Pop(c) ==
    /\ c \notin blocked
    /\ IF queue = <<>> \/ shutdown
       THEN result' = [result EXCEPT ![c] = NoValue] /\ UNCHANGED queue
       ELSE result' = [result EXCEPT ![c] = Head(queue)] /\ queue' = Tail(queue)
    /\ UNCHANGED <<shutdown, blocked>>

Cancel ==
    /\ queue' = <<>>
    /\ shutdown' = TRUE
    /\ UNCHANGED <<blocked, result>>

Init ==
    /\ queue = <<>>
    /\ shutdown = FALSE
    /\ blocked = {}
    /\ result = [c \in Consumers |-> NoValue]

Next ==
    \/ \E v \in Values : Push(v)
    \/ \E c \in Consumers : Enter(c) \/ Return(c) \/ Pop(c)
    \/ Cancel

(* Some blocked consumer returns if some consumer can; and after a Cancel  *)
(* every one of them does.                                                 *)
Liveness ==
    /\ WF_bqVars(\E c \in Consumers : Return(c))
    /\ \A c \in Consumers : WF_bqVars(shutdown /\ Return(c))

SafetySpec == Init /\ [][Next]_bqVars
Spec == SafetySpec /\ Liveness
=============================================================================
