------------------------------ MODULE MPSCQueue ------------------------------
(***************************************************************************)
(* The lock-free queue of common/Threading/MPSCQueue.h: any thread may put *)
(* a value in, one thread takes values out.  Enqueue is two atomic steps,  *)
(* so the list is broken between them; nodes are freed by the consumer and *)
(* their memory is given out again.                                        *)
(***************************************************************************)
EXTENDS Naturals, Sequences

CONSTANTS
    Producers, Values,
    MaxNodes,        \* bound: nodes that fit into memory
    NoValue

ASSUME NodesAssumption == MaxNodes \in Nat \ {0}

Nodes == 1 .. MaxNodes
Null  == 0

VARIABLES
    _head,           \* the node put in last
    _tail,           \* the node whose value was taken out last
    nextOf, data,    \* the members Next and Data of each node
    live,            \* the nodes that are allocated
    pc,              \* of each producer: idle, or link between the two steps of Enqueue
    node, prevHead,  \* the local variables of Enqueue
    place,           \* history: the position of a node among all nodes
    enqueued,        \* history: the values in the order of the exchanges
    dequeued         \* history: the values handed to the consumer

listVars  == <<_head, _tail, nextOf, data, live>>
localVars == <<pc, node, prevHead>>
queueVars == <<listVars, localVars, place, enqueued, dequeued>>

QueueInit ==
    /\ _head = 1 /\ _tail = 1
    /\ live = {1}
    /\ nextOf = [n \in Nodes |-> Null]
    /\ data = [n \in Nodes |-> NoValue]
    /\ pc = [p \in Producers |-> "idle"]
    /\ node = [p \in Producers |-> 1]
    /\ prevHead = [p \in Producers |-> 1]
    /\ place = [n \in Nodes |-> 0]
    /\ enqueued = <<>> /\ dequeued = <<>>

(* A freed node is given out again as soon as possible.                    *)
Fresh(n) == n \in Nodes \ live /\ \A m \in Nodes \ live : n <= m

(* Enqueue: the new node becomes the head ...                              *)
Exchange(p, v) ==
    /\ pc[p] = "idle"
    /\ \E n \in Nodes :
          /\ Fresh(n)
          /\ live' = live \cup {n}
          /\ data' = [data EXCEPT ![n] = v]
          /\ nextOf' = [nextOf EXCEPT ![n] = Null]
          /\ node' = [node EXCEPT ![p] = n]
          /\ prevHead' = [prevHead EXCEPT ![p] = _head]
          /\ _head' = n
          /\ place' = [place EXCEPT ![n] = Len(enqueued) + 1]
    /\ enqueued' = Append(enqueued, v)
    /\ pc' = [pc EXCEPT ![p] = "link"]
    /\ UNCHANGED <<_tail, dequeued>>

(* ... and only then can be reached from the one before it.                *)
Link(p) ==
    /\ pc[p] = "link"
    /\ nextOf' = [nextOf EXCEPT ![prevHead[p]] = node[p]]
    /\ pc' = [pc EXCEPT ![p] = "idle"]
    /\ UNCHANGED <<_head, _tail, data, live, node, prevHead, place, enqueued, dequeued>>

(* Dequeue: it finds nothing where the list is broken.  Nobody else writes *)
(* _tail, and a Next that is set stays, so the rest is one step.           *)
Empty == nextOf[_tail] = Null
FrontData == data[nextOf[_tail]]

Mutant_Dequeue ==                             \* the node of the value is freed
    /\ ~Empty
    /\ dequeued' = Append(dequeued, FrontData)
    /\ _tail' = nextOf[_tail]
    /\ live' = live \ {nextOf[_tail]}
    /\ UNCHANGED <<_head, nextOf, data, localVars, place, enqueued>>
Dequeue ==
    /\ ~Empty
    /\ dequeued' = Append(dequeued, FrontData)
    /\ _tail' = nextOf[_tail]
    /\ live' = live \ {_tail}
    /\ UNCHANGED <<_head, nextOf, data, localVars, place, enqueued>>

QueueNext ==
    \/ \E p \in Producers : Link(p) \/ \E v \in Values : Exchange(p, v)
    \/ Dequeue

QueueSpec == QueueInit /\ [][QueueNext]_queueVars

-----------------------------------------------------------------------------
(* Whoever still has to read or write a node finds it allocated: the node  *)
(* a producer will link and the one it links it to, and the consumer's     *)
(* tail, although the consumer frees nodes without asking the producers.   *)
NoFreedNode ==
    /\ _tail \in live /\ (~Empty => nextOf[_tail] \in live)
    /\ \A p \in Producers : pc[p] = "link" => {node[p], prevHead[p]} \subseteq live
=============================================================================
