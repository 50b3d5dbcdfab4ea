------------------------- MODULE SocketWrites_proofs -------------------------
(***************************************************************************)
(* Theorems about SocketWrites and the MPSCQueue it sends through, for any *)
(* producers, packets, sizes and buffers, and any number of nodes, whose   *)
(* memory is used again and again.                                         *)
(***************************************************************************)
EXTENDS SocketWrites, SequenceTheorems, WellFoundedInduction, TLAPS

QueueType ==
    /\ _head \in Nodes /\ _tail \in Nodes
    /\ nextOf \in [Nodes -> Nodes \cup {Null}]
    /\ data \in [Nodes -> Values \cup {NoValue}]
    /\ live \in SUBSET Nodes
    /\ pc \in [Producers -> {"idle", "link"}]
    /\ node \in [Producers -> Nodes] /\ prevHead \in [Producers -> Nodes]
    /\ place \in [Nodes -> Nat]
    /\ enqueued \in Seq(Values) /\ dequeued \in Seq(Values)

(* The allocated nodes are those from the tail to the head, one per place, *)
(* and each holds the value that was enqueued at its place.                *)
NodesInv ==
    /\ _head \in live /\ place[_head] = Len(enqueued)
    /\ _tail \in live /\ place[_tail] = Len(dequeued)
    /\ \A n \in live : place[n] \in Len(dequeued) .. Len(enqueued)
    /\ \A m, n \in live : place[m] = place[n] => m = n
    /\ \A n \in live : place[n] > 0 => data[n] = enqueued[place[n]]

(* A Next that is set leads to the node in the next place.  One that is    *)
(* not belongs to the head or to a producer that will link it.             *)
LinksInv ==
    /\ \A n \in live : nextOf[n] # Null =>
           nextOf[n] \in live /\ place[nextOf[n]] = place[n] + 1
    /\ \A n \in live : nextOf[n] = Null /\ n # _head =>
           \E p \in Producers : pc[p] = "link" /\ prevHead[p] = n

(* A producer between its two steps is alone with the link it will set.    *)
ProducersInv ==
    /\ \A p \in Producers : pc[p] = "link" =>
           /\ node[p] \in live /\ prevHead[p] \in live
           /\ place[node[p]] = place[prevHead[p]] + 1
           /\ nextOf[prevHead[p]] = Null
    /\ \A p, q \in Producers :
           pc[p] = "link" /\ pc[q] = "link" /\ prevHead[p] = prevHead[q] => p = q

PrefixInv ==
    /\ Len(dequeued) <= Len(enqueued)
    /\ \A k \in 1 .. Len(dequeued) : dequeued[k] = enqueued[k]

QueueInv == QueueType /\ NodesInv /\ LinksInv /\ ProducersInv /\ PrefixInv

USE NodesAssumption DEF Nodes, Null, listVars, localVars

-----------------------------------------------------------------------------
(* The first step of Enqueue takes a node nobody has, and changes nothing  *)
(* about the nodes in the list.                                            *)
LEMMA ExchangeStep ==
    ASSUME QueueInv, NEW p \in Producers, NEW v \in Values, Exchange(p, v)
    PROVE  QueueInv'
<1>1. PICK n \in Nodes :
         /\ n \notin live
         /\ live' = live \cup {n}
         /\ data' = [data EXCEPT ![n] = v]
         /\ nextOf' = [nextOf EXCEPT ![n] = Null]
         /\ node' = [node EXCEPT ![p] = n]
         /\ prevHead' = [prevHead EXCEPT ![p] = _head]
         /\ _head' = n
         /\ place' = [place EXCEPT ![n] = Len(enqueued) + 1]
  BY DEF Exchange, Fresh
<1>2. /\ enqueued' = Append(enqueued, v) /\ enqueued' \in Seq(Values)
      /\ Len(enqueued') = Len(enqueued) + 1 /\ Len(enqueued) \in Nat
      /\ enqueued'[Len(enqueued) + 1] = v
      /\ \A k \in 1 .. Len(enqueued) : enqueued'[k] = enqueued[k]
      /\ pc' = [pc EXCEPT ![p] = "link"] /\ pc[p] = "idle"
      /\ UNCHANGED <<_tail, dequeued>>
  BY DEF Exchange, QueueInv, QueueType
<1>3. QueueType'
  BY <1>1, <1>2 DEF QueueInv, QueueType
<1>4. /\ place'[n] = Len(enqueued) + 1 /\ nextOf'[n] = Null /\ data'[n] = v
      /\ \A m \in live : m # n /\ place'[m] = place[m] /\ nextOf'[m] = nextOf[m]
                         /\ data'[m] = data[m]
  BY <1>1 DEF QueueInv, QueueType
<1>5. /\ pc'[p] = "link" /\ node'[p] = n /\ prevHead'[p] = _head
      /\ \A q \in Producers : q # p => /\ pc'[q] = pc[q] /\ node'[q] = node[q]
                                       /\ prevHead'[q] = prevHead[q]
  BY <1>1, <1>2 DEF QueueInv, QueueType
<1>6. nextOf[_head] = Null
  BY DEF QueueInv, QueueType, NodesInv, LinksInv
<1>7. \A q \in Producers : pc[q] = "link" => prevHead[q] # _head
  BY DEF QueueInv, QueueType, NodesInv, ProducersInv
<1>8. NodesInv'
  <2>1. \A m \in live : place[m] \in Nat /\ place[m] <= Len(enqueued) /\ place[m] >= Len(dequeued)
    BY DEF QueueInv, QueueType, NodesInv
  <2>2. \A m \in live' : place'[m] \in (Len(dequeued) .. Len(enqueued))'
    BY <1>1, <1>2, <1>4, <2>1 DEF QueueInv, QueueType, PrefixInv
  <2>3. \A m, k \in live' : place'[m] = place'[k] => m = k
    BY <1>1, <1>2, <1>4, <2>1 DEF QueueInv, NodesInv
  <2>4. \A m \in live' : place'[m] > 0 => data'[m] = enqueued'[place'[m]]
    BY <1>1, <1>2, <1>4, <2>1 DEF QueueInv, NodesInv
  <2>5. _head' \in live' /\ place'[_head'] = Len(enqueued')
    BY <1>1, <1>2, <1>4
  <2>6. _tail' \in live' /\ place'[_tail'] = Len(dequeued')
    BY <1>1, <1>2, <1>4 DEF QueueInv, NodesInv
  <2> QED
    BY <2>2, <2>3, <2>4, <2>5, <2>6 DEF NodesInv
<1>9. LinksInv'
  BY <1>1, <1>4, <1>5, <1>2 DEF QueueInv, LinksInv
<1>10. ProducersInv'
  <2>1. ASSUME NEW q \in Producers, pc'[q] = "link"
        PROVE  /\ node'[q] \in live' /\ prevHead'[q] \in live'
               /\ place'[node'[q]] = place'[prevHead'[q]] + 1
               /\ nextOf'[prevHead'[q]] = Null
    <3>1. CASE q = p
      BY <1>1, <1>4, <1>5, <1>6, <3>1 DEF QueueInv, NodesInv
    <3>2. CASE q # p
      BY <1>1, <1>4, <1>5, <2>1, <3>2 DEF QueueInv, ProducersInv
    <3> QED
      BY <3>1, <3>2
  <2>2. ASSUME NEW q \in Producers, NEW r \in Producers, pc'[q] = "link", pc'[r] = "link",
               prevHead'[q] = prevHead'[r]
        PROVE  q = r
    BY <1>5, <1>7, <2>2 DEF QueueInv, ProducersInv
  <2> QED
    BY <2>1, <2>2 DEF ProducersInv
<1>11. PrefixInv'
  BY <1>2 DEF QueueInv, QueueType, PrefixInv
<1> QED
  BY <1>3, <1>8, <1>9, <1>10, <1>11 DEF QueueInv

(* The second step sets the one link that was the producer's own.          *)
LEMMA LinkStep ==
    ASSUME QueueInv, NEW p \in Producers, Link(p)
    PROVE  QueueInv'
<1>1. QueueType'
  BY DEF QueueInv, QueueType, Link
<1>2. NodesInv' /\ PrefixInv'
  BY DEF QueueInv, NodesInv, PrefixInv, Link
<1>3. LinksInv'
  BY DEF QueueInv, QueueType, LinksInv, ProducersInv, Link
<1>4. ProducersInv'
  BY DEF QueueInv, QueueType, ProducersInv, Link
<1> QED
  BY <1>1, <1>2, <1>3, <1>4 DEF QueueInv

(* The node after the tail holds the value that is taken out next.         *)
LEMMA FrontNode ==
    ASSUME QueueInv, Dequeue
    PROVE  /\ nextOf[_tail] \in live /\ nextOf[_tail] # _tail
           /\ place[nextOf[_tail]] = Len(dequeued) + 1
           /\ Len(dequeued) \in Nat /\ Len(enqueued) \in Nat
           /\ Len(dequeued) + 1 <= Len(enqueued)
           /\ FrontData = enqueued[Len(dequeued) + 1] /\ FrontData \in Values
<1> DEFINE n == nextOf[_tail]
<1>1. _tail \in live /\ n # Null /\ place[_tail] = Len(dequeued)
  BY DEF QueueInv, NodesInv, Dequeue, Empty
<1>2. n \in live /\ place[n] = Len(dequeued) + 1
  BY <1>1 DEF QueueInv, LinksInv
<1>3. /\ Len(dequeued) \in Nat /\ Len(enqueued) \in Nat
      /\ enqueued \in Seq(Values) /\ dequeued \in Seq(Values)
  BY DEF QueueInv, QueueType
<1>4. place[n] \in Len(dequeued) .. Len(enqueued) /\ (place[n] > 0 => data[n] = enqueued[place[n]])
  BY <1>2 DEF QueueInv, NodesInv
<1>5. n # _tail
  BY <1>1, <1>2, <1>3
<1>6. FrontData = data[n]
  BY DEF FrontData
<1> HIDE DEF n
<1>7. Len(dequeued) + 1 <= Len(enqueued) /\ data[n] = enqueued[Len(dequeued) + 1]
  BY <1>2, <1>3, <1>4
<1>8. data[n] \in Values
  BY <1>3, <1>7
<1> QED
  BY <1>2, <1>3, <1>5, <1>6, <1>7, <1>8 DEF n

(* The consumer frees its tail: no producer will link it, because its Next *)
(* is set, and it is no producer's new node, because that comes later.     *)
LEMMA DequeueStep ==
    ASSUME QueueInv, Dequeue
    PROVE  QueueInv'
<1> DEFINE n == nextOf[_tail]
<1>1. /\ n \in live /\ n # _tail /\ place[n] = Len(dequeued) + 1
      /\ Len(dequeued) \in Nat /\ Len(enqueued) \in Nat
      /\ Len(dequeued) + 1 <= Len(enqueued)
  BY FrontNode
<1>2. /\ dequeued' = Append(dequeued, FrontData) /\ dequeued' \in Seq(Values)
      /\ Len(dequeued') = Len(dequeued) + 1
      /\ dequeued'[Len(dequeued) + 1] = FrontData /\ FrontData = enqueued[Len(dequeued) + 1]
      /\ \A k \in 1 .. Len(dequeued) : dequeued'[k] = dequeued[k]
  BY FrontNode DEF QueueInv, QueueType, Dequeue
<1>3. /\ _tail' = n /\ live' = live \ {_tail}
      /\ UNCHANGED <<_head, nextOf, data, pc, node, prevHead, place, enqueued>>
  BY DEF Dequeue
<1>4. QueueType'
  BY <1>1, <1>2, <1>3 DEF QueueInv, QueueType
<1>5. _head # _tail
  BY <1>1 DEF QueueInv, NodesInv
<1>6. \A m \in live' : m \in live /\ place[m] \in Nat /\ place[m] > Len(dequeued)
  BY <1>3 DEF QueueInv, QueueType, NodesInv
<1>7. NodesInv'
  BY <1>1, <1>2, <1>3, <1>5, <1>6 DEF QueueInv, NodesInv
<1>8. \A m \in live' : nextOf[m] # Null => nextOf[m] # _tail
  <2>1. place[_tail] = Len(dequeued)
    BY DEF QueueInv, NodesInv
  <2>2. ASSUME NEW m \in live', nextOf[m] # Null
        PROVE  place[nextOf[m]] = place[m] + 1
    BY <1>6, <2>2 DEF QueueInv, LinksInv
  <2> QED
    BY <1>1, <1>6, <2>1, <2>2
<1>9. LinksInv'
  BY <1>3, <1>6, <1>8 DEF QueueInv, LinksInv
<1>10. \A p \in Producers : pc[p] = "link" => node[p] # _tail /\ prevHead[p] # _tail
  BY DEF QueueInv, QueueType, NodesInv, ProducersInv, Dequeue, Empty
<1>11. ProducersInv'
  BY <1>3, <1>10 DEF QueueInv, ProducersInv
<1>12. PrefixInv'
  BY <1>1, <1>2, <1>3 DEF QueueInv, PrefixInv
<1> QED
  BY <1>4, <1>7, <1>9, <1>11, <1>12 DEF QueueInv

-----------------------------------------------------------------------------
(* The invariant holds of the dummy node alone and is preserved.           *)
LEMMA QueueInvariance == QueueSpec => []QueueInv
<1>1. QueueInit => QueueInv
  BY DEF QueueInit, QueueInv, QueueType, NodesInv, LinksInv, ProducersInv, PrefixInv
<1>2. QueueInv /\ [QueueNext]_queueVars => QueueInv'
  <2> SUFFICES ASSUME QueueInv, [QueueNext]_queueVars PROVE QueueInv'
    OBVIOUS
  <2>1. CASE UNCHANGED queueVars
    BY <2>1 DEF queueVars, QueueInv, QueueType, NodesInv, LinksInv, ProducersInv, PrefixInv
  <2> QED
    BY <2>1, ExchangeStep, LinkStep, DequeueStep DEF QueueNext
<1> QED
  BY <1>1, <1>2, PTL DEF QueueSpec

(* Every variable keeps its type.                                          *)
THEOREM TypeCorrect == QueueSpec => []QueueType
BY QueueInvariance, PTL DEF QueueInv

(* Neither Enqueue nor Dequeue touches a node that was freed, however many *)
(* producers are between their two steps while the consumer goes on.       *)
THEOREM NodesOutliveUse == QueueSpec => []NoFreedNode
<1>1. QueueInv => NoFreedNode
  BY DEF QueueInv, NodesInv, LinksInv, ProducersInv, NoFreedNode, Empty
<1> QED
  BY <1>1, QueueInvariance, PTL

(* Dequeue hands out the values in the order of the exchanges, each once.  *)
THEOREM FirstInFirstOut ==
    QueueSpec => [](/\ Len(dequeued) <= Len(enqueued)
                    /\ \A k \in 1 .. Len(dequeued) : dequeued[k] = enqueued[k])
BY QueueInvariance, PTL DEF QueueInv, PrefixInv

(* Dequeue finds nothing only if there is nothing, or if an Enqueue that   *)
(* has not returned is in the way: a value whose Enqueue has returned may  *)
(* have to wait for another producer, but never for ever.                  *)
THEOREM NothingIsHidden ==
    QueueSpec => [](Empty => \/ Len(dequeued) = Len(enqueued)
                             \/ \E p \in Producers : pc[p] = "link" /\ prevHead[p] = _tail)
<1>1. QueueInv => (Empty => \/ Len(dequeued) = Len(enqueued)
                          \/ \E p \in Producers : pc[p] = "link" /\ prevHead[p] = _tail)
  BY DEF QueueInv, NodesInv, LinksInv, Empty
<1> QED
  BY <1>1, QueueInvariance, PTL

-----------------------------------------------------------------------------
HIDE NodesAssumption DEF Nodes, Null, listVars, localVars

LEMMA Least ==
    ASSUME NEW T \in SUBSET Nat, T # {}
    PROVE  \E n \in T : \A m \in T : n <= m
<1>1. PICK n \in T : \A m \in T : <<m, n>> \notin OpToRel(<, Nat)
  BY WFMin, NatLessThanWellFounded
<1>2. ASSUME NEW m \in T PROVE n <= m
  <2>1. <<m, n>> \in Nat \X Nat /\ <<m, n>>[1] = m /\ <<m, n>>[2] = n
    OBVIOUS
  <2>2. ~(m < n)
    BY <1>1, <2>1 DEF OpToRel
  <2> QED
    BY <2>2
<1> QED
  BY <1>2

Flattens(f, q) == f = [i \in 1 .. Len(q) |-> IF i = 1 THEN q[i] ELSE f[i - 1] \o q[i]]

LEMMA FlattenExists ==
    ASSUME NEW S, NEW q \in Seq(Seq(S))
    PROVE  \E f : Flattens(f, q)
<1> DEFINE Part(f, n) == f = [i \in 1 .. n |-> IF i = 1 THEN q[i] ELSE f[i - 1] \o q[i]]
           T == {n \in Nat : ~ \E f : Part(f, n)}
<1>1. \E f : Part(f, 0)
  <2>1. Part([i \in 1 .. 0 |-> q], 0)
    OBVIOUS
  <2> QED
    BY <2>1
<1>2. ASSUME NEW n \in Nat, NEW f, Part(f, n) PROVE \E g : Part(g, n + 1)
  <2> DEFINE g == [i \in 1 .. n + 1 |-> IF i = 1 THEN q[i] ELSE f[i - 1] \o q[i]]
  <2>1. ASSUME NEW i \in 1 .. n PROVE g[i] = f[i]
    <3>1. f[i] = IF i = 1 THEN q[i] ELSE f[i - 1] \o q[i]
      BY <1>2
    <3>2. i \in 1 .. n + 1
      BY <2>1
    <3>3. g[i] = IF i = 1 THEN q[i] ELSE f[i - 1] \o q[i]
      BY <3>2
    <3> QED
      BY <3>1, <3>3
  <2>2. \A i \in 1 .. n + 1 : i # 1 => i - 1 \in 1 .. n
    OBVIOUS
  <2>3. Part(g, n + 1)
    BY <2>1, <2>2
  <2> QED
    BY <2>3
<1> HIDE DEF Part
<1>3. T = {}
  <2> SUFFICES ASSUME T # {} PROVE FALSE
    OBVIOUS
  <2>1. PICK n \in T : \A m \in T : n <= m
    BY Least
  <2>2. n # 0 /\ n - 1 \in Nat /\ n - 1 \notin T /\ n - 1 + 1 = n
    BY <1>1, <2>1
  <2> QED
    BY <1>2, <2>1, <2>2
<1>4. Len(q) \in Nat
  OBVIOUS
<1> QED
  BY <1>3, <1>4 DEF Part, Flattens

LEMMA FlattenIs ==
    ASSUME NEW S, NEW q \in Seq(Seq(S)), q # <<>>
    PROVE  \E f : Flattens(f, q) /\ FlattenSeq(q) = f[Len(q)]
<1> DEFINE f == CHOOSE g : g = [i \in 1 .. Len(q) |-> IF i = 1 THEN q[i] ELSE g[i - 1] \o q[i]]
<1>1. FlattenSeq(q) = f[Len(q)]
  BY DEF FlattenSeq
<1>2. Flattens(f, q)
  BY FlattenExists DEF Flattens
<1> QED
  BY <1>1, <1>2

LEMMA FlattenType ==
    ASSUME NEW S, NEW q \in Seq(Seq(S)), NEW f, Flattens(f, q)
    PROVE  \A i \in 1 .. Len(q) : f[i] \in Seq(S)
<1> DEFINE T == {n \in Nat : n \in 1 .. Len(q) /\ f[n] \notin Seq(S)}
<1>0. \A i \in 1 .. Len(q) : q[i] \in Seq(S)
  OBVIOUS
<1>1. \A i \in 1 .. Len(q) : f[i] = IF i = 1 THEN q[i] ELSE f[i - 1] \o q[i]
  BY DEF Flattens
<1>2. T = {}
  <2> SUFFICES ASSUME T # {} PROVE FALSE
    OBVIOUS
  <2>1. PICK n \in T : \A m \in T : n <= m
    BY Least
  <2>2. n \in 1 .. Len(q) /\ f[n] \notin Seq(S) /\ q[n] \in Seq(S)
    BY <1>0
  <2>3. n # 1 /\ f[n] = f[n - 1] \o q[n]
    BY <1>1, <2>2
  <2>4. n - 1 \in 1 .. Len(q) /\ n - 1 \notin T /\ n - 1 \in Nat
    BY <2>1, <2>2, <2>3
  <2>5. f[n - 1] \in Seq(S)
    BY <2>4
  <2> QED
    BY <2>2, <2>3, <2>5
<1> QED
  BY <1>2

(* Two sequences flatten to the same as far as they agree.                 *)
LEMMA FlattenAgrees ==
    ASSUME NEW S, NEW q \in Seq(Seq(S)), NEW r \in Seq(Seq(S)), NEW f, NEW g, Flattens(f, q), Flattens(g, r),
           Len(q) <= Len(r), \A i \in 1 .. Len(q) : r[i] = q[i]
    PROVE  \A i \in 1 .. Len(q) : f[i] = g[i]
<1> DEFINE T == {n \in Nat : n \in 1 .. Len(q) /\ f[n] # g[n]}
<1>1. \A i \in 1 .. Len(q) : f[i] = IF i = 1 THEN q[i] ELSE f[i - 1] \o q[i]
  BY DEF Flattens
<1>2. \A i \in 1 .. Len(r) : g[i] = IF i = 1 THEN r[i] ELSE g[i - 1] \o r[i]
  BY DEF Flattens
<1>3. Len(q) \in Nat /\ Len(r) \in Nat
  OBVIOUS
<1>4. T = {}
  <2> SUFFICES ASSUME T # {} PROVE FALSE
    OBVIOUS
  <2>1. PICK n \in T : \A m \in T : n <= m
    BY Least
  <2>2. n \in 1 .. Len(q) /\ n \in 1 .. Len(r) /\ f[n] # g[n] /\ r[n] = q[n]
    BY <1>3
  <2>3. n # 1 /\ f[n] = f[n - 1] \o q[n] /\ g[n] = g[n - 1] \o q[n]
    BY <1>1, <1>2, <2>2
  <2>4. n - 1 \in 1 .. Len(q) /\ n - 1 \notin T /\ n - 1 \in Nat
    BY <1>3, <2>1, <2>2, <2>3
  <2>5. f[n - 1] = g[n - 1]
    BY <2>4
  <2> QED
    BY <2>2, <2>3, <2>5
<1>5. ASSUME NEW i \in 1 .. Len(q), f[i] # g[i] PROVE FALSE
  <2>1. i \in Nat
    BY <1>3
  <2>2. i \in T
    BY <1>5, <2>1
  <2> QED
    BY <1>4, <2>2
<1> QED
  BY <1>5

LEMMA FlattenSingle ==
    ASSUME NEW S, NEW x \in Seq(S)
    PROVE  FlattenSeq(<<>>) = <<>> /\ FlattenSeq(<<x>>) = x
<1>1. FlattenSeq(<<>>) = <<>>
  BY DEF FlattenSeq
<1> DEFINE q == <<x>>
<1>2. q \in Seq(Seq(S)) /\ q # <<>> /\ Len(q) = 1 /\ q[1] = x
  OBVIOUS
<1> HIDE DEF q
<1>3. PICK f : Flattens(f, q) /\ FlattenSeq(q) = f[Len(q)]
  BY <1>2, FlattenIs
<1>4. f[1] = x
  BY <1>2, <1>3 DEF Flattens
<1> QED
  BY <1>1, <1>2, <1>3, <1>4 DEF q

LEMMA FlattenAppend ==
    ASSUME NEW S, NEW q \in Seq(Seq(S)), NEW x \in Seq(S)
    PROVE  /\ FlattenSeq(q) \in Seq(S)
           /\ FlattenSeq(Append(q, x)) = FlattenSeq(q) \o x
<1>1. CASE q = <<>>
  <2>1. Append(q, x) = <<x>>
    BY <1>1
  <2>2. FlattenSeq(q) = <<>>
    BY <1>1, FlattenSingle
  <2>3. <<>> \in Seq(S) /\ <<>> \o x = x
    BY ConcatEmptySeq
  <2> QED
    BY <2>1, <2>2, <2>3, FlattenSingle
<1>2. CASE q # <<>>
  <2> DEFINE r == Append(q, x)
  <2>1. /\ r \in Seq(Seq(S)) /\ r # <<>> /\ Len(r) = Len(q) + 1 /\ Len(q) \in Nat \ {0}
        /\ r[Len(q) + 1] = x /\ \A i \in 1 .. Len(q) : r[i] = q[i]
    BY <1>2, AppendProperties
  <2> HIDE DEF r
  <2>2. PICK f : Flattens(f, q) /\ FlattenSeq(q) = f[Len(q)]
    BY <1>2, FlattenIs
  <2>3. PICK g : Flattens(g, r) /\ FlattenSeq(r) = g[Len(r)]
    BY <2>1, FlattenIs
  <2>4. f[Len(q)] = g[Len(q)]
    <3>1. Len(q) <= Len(r) /\ Len(q) \in 1 .. Len(q)
      BY <2>1
    <3>2. \A i \in 1 .. Len(q) : r[i] = q[i]
      BY <2>1
    <3>3. r \in Seq(Seq(S)) /\ Flattens(f, q) /\ Flattens(g, r)
      BY <2>1, <2>2, <2>3
    <3>4. \A i \in 1 .. Len(q) : f[i] = g[i]
      BY <3>1, <3>2, <3>3, FlattenAgrees
    <3> QED
      BY <3>1, <3>4
  <2>5. f[Len(q)] \in Seq(S)
    BY <2>1, <2>2, FlattenType
  <2>6. g[Len(q) + 1] = g[Len(q)] \o x
    <3> DEFINE k == Len(q) + 1
    <3>1. k \in 1 .. Len(r) /\ k # 1 /\ k - 1 = Len(q) /\ r[k] = x
      BY <2>1
    <3>2. \A i \in 1 .. Len(r) : g[i] = IF i = 1 THEN r[i] ELSE g[i - 1] \o r[i]
      BY <2>3 DEF Flattens
    <3> HIDE DEF k
    <3>3. g[k] = IF k = 1 THEN r[k] ELSE g[k - 1] \o r[k]
      BY <3>1, <3>2
    <3>4. g[k] = g[Len(q)] \o x
      BY <3>1, <3>3
    <3> QED
      BY <3>4 DEF k
  <2> QED
    BY <2>1, <2>2, <2>3, <2>4, <2>5, <2>6 DEF r
<1> QED
  BY <1>1, <1>2

(* The first of a sequence comes first.                                    *)
LEMMA FlattenHead ==
    ASSUME NEW S, NEW q \in Seq(Seq(S)), q # <<>>
    PROVE  FlattenSeq(q) = Head(q) \o FlattenSeq(Tail(q))
<1> DEFINE Good(n) == \A r \in Seq(Seq(S)) : Len(r) = n /\ r # <<>> => FlattenSeq(r) = Head(r) \o FlattenSeq(Tail(r))
           T == {n \in Nat : ~Good(n)}
<1>0. \A a, b, c \in Seq(S) : (a \o b) \o c = a \o (b \o c)
  BY SMT
<1>1. Good(0)
  OBVIOUS
<1>2. ASSUME NEW n \in Nat, Good(n) PROVE Good(n + 1)
  <2> SUFFICES ASSUME NEW r \in Seq(Seq(S)), Len(r) = n + 1
               PROVE  FlattenSeq(r) = Head(r) \o FlattenSeq(Tail(r))
    OBVIOUS
  <2> DEFINE t == SubSeq(r, 1, n)
             x == r[n + 1]
  <2>1. t \in Seq(Seq(S)) /\ Len(t) = n /\ x \in Seq(S) /\ r = Append(t, x)
    <3>1. t \in Seq(Seq(S)) /\ Len(t) = n /\ x \in Seq(S) /\ \A i \in 1 .. n : t[i] = r[i]
      OBVIOUS
    <3> HIDE DEF t
    <3>2. /\ Append(t, x) \in Seq(Seq(S)) /\ Len(Append(t, x)) = n + 1
          /\ \A i \in 1 .. n + 1 : Append(t, x)[i] = r[i]
      BY <3>1
    <3> QED
      BY <3>1, <3>2, SeqEqual
  <2> HIDE DEF t, x
  <2>2. CASE n = 0
    <3>1. t = <<>> /\ r = <<x>>
      BY <2>1, <2>2
    <3>2. Head(r) = x /\ Tail(r) = <<>>
      BY <3>1
    <3> QED
      BY <2>1, <3>1, <3>2, FlattenSingle, ConcatEmptySeq
  <2>3. CASE n # 0
    <3>1. t # <<>> /\ Head(t) \in Seq(S) /\ Tail(t) \in Seq(Seq(S)) /\ FlattenSeq(t) = Head(t) \o FlattenSeq(Tail(t))
      BY <1>2, <2>1, <2>3
    <3>2. Head(r) = Head(t) /\ Tail(r) = Append(Tail(t), x)
      BY <2>1, <2>3, <3>1, HeadTailAppend
    <3>3. /\ FlattenSeq(r) = FlattenSeq(t) \o x
          /\ FlattenSeq(Tail(r)) = FlattenSeq(Tail(t)) \o x /\ FlattenSeq(Tail(t)) \in Seq(S)
      BY <2>1, <3>1, <3>2, FlattenAppend
    <3>4. (Head(t) \o FlattenSeq(Tail(t))) \o x = Head(t) \o (FlattenSeq(Tail(t)) \o x)
      <4> DEFINE h == Head(t)
                 m == FlattenSeq(Tail(t))
      <4>1. h \in Seq(S) /\ m \in Seq(S) /\ x \in Seq(S)
        BY <2>1, <3>1, <3>3
      <4> HIDE DEF h, m
      <4>2. (h \o m) \o x = h \o (m \o x)
        BY <1>0, <4>1, Zenon
      <4> QED
        BY <4>2 DEF h, m
    <3> QED
      BY <3>1, <3>2, <3>3, <3>4
  <2> QED
    BY <2>2, <2>3
<1>3. Len(q) \in Nat /\ q \in Seq(Seq(S))
  OBVIOUS
<1> HIDE DEF Good
<1>4. T = {}
  <2> SUFFICES ASSUME T # {} PROVE FALSE
    OBVIOUS
  <2>1. PICK n \in T : \A m \in T : n <= m
    BY Least
  <2>2. n # 0 /\ n - 1 \in Nat /\ n - 1 \notin T /\ n - 1 + 1 = n
    BY <1>1, <2>1
  <2> QED
    BY <1>2, <2>1, <2>2
<1> QED
  BY <1>3, <1>4 DEF Good

-----------------------------------------------------------------------------
(* The bytes of packets *)

Byte == Values \X Nat

Stream(ps) == FlattenSeq([i \in 1 .. Len(ps) |-> Bytes(ps[i])])

LEMMA BytesType ==
    ASSUME NEW p \in Values
    PROVE  /\ Bytes(p) \in Seq(Byte) /\ Len(Bytes(p)) = Size[p] /\ Size[p] \in Nat \ {0}
           /\ Bytes(p) # <<>> /\ \A i \in 1 .. Size[p] : Bytes(p)[i] = <<p, i>>
<1>1. Size[p] \in Nat \ {0}
  BY SocketAssumption
<1>2. \A i \in 1 .. Size[p] : <<p, i>> \in Byte
  BY <1>1 DEF Byte
<1> QED
  BY <1>1, <1>2 DEF Bytes

LEMMA StreamAppend ==
    ASSUME NEW ps \in Seq(Values), NEW p \in Values
    PROVE  /\ Stream(ps) \in Seq(Byte)
           /\ Stream(Append(ps, p)) = Stream(ps) \o Bytes(p)
<1> DEFINE parts == [i \in 1 .. Len(ps) |-> Bytes(ps[i])]
           more  == [i \in 1 .. Len(Append(ps, p)) |-> Bytes(Append(ps, p)[i])]
<1>1. Bytes(p) \in Seq(Byte)
  BY BytesType
<1>2. parts \in Seq(Seq(Byte))
  <2>1. \A i \in 1 .. Len(ps) : Bytes(ps[i]) \in Seq(Byte)
    BY BytesType
  <2> QED
    BY <2>1
<1>3. more = Append(parts, Bytes(p))
  <2>1. Len(Append(ps, p)) = Len(ps) + 1 /\ Len(ps) \in Nat
    OBVIOUS
  <2>2. Append(ps, p)[Len(ps) + 1] = p /\ \A i \in 1 .. Len(ps) : Append(ps, p)[i] = ps[i]
    OBVIOUS
  <2>3. \A i \in 1 .. Len(ps) + 1 : more[i] = IF i <= Len(ps) THEN parts[i] ELSE Bytes(p)
    BY <2>1, <2>2
  <2>4. \A i \in 1 .. Len(ps) + 1 : more[i] \in Seq(Byte)
    <3>1. \A i \in 1 .. Len(ps) : parts[i] \in Seq(Byte)
      BY <1>2
    <3> QED
      BY <1>1, <2>1, <2>3, <3>1
  <2>5. more \in Seq(Seq(Byte)) /\ Len(more) = Len(ps) + 1
    BY <2>1, <2>4
  <2>6. Len(parts) = Len(ps)
    BY <2>1
  <2> HIDE DEF parts, more
  <2>7. /\ Append(parts, Bytes(p)) \in Seq(Seq(Byte)) /\ Len(Append(parts, Bytes(p))) = Len(ps) + 1
        /\ \A i \in 1 .. Len(ps) + 1 : Append(parts, Bytes(p))[i] = IF i <= Len(ps) THEN parts[i] ELSE Bytes(p)
    BY <1>1, <1>2, <2>1, <2>6, AppendProperties
  <2> QED
    BY <2>3, <2>5, <2>7, SeqEqual
<1>4. Stream(ps) = FlattenSeq(parts) /\ Stream(Append(ps, p)) = FlattenSeq(more)
  BY DEF Stream
<1> HIDE DEF parts, more
<1> QED
  BY <1>1, <1>2, <1>3, <1>4, FlattenAppend

LEMMA StreamEmpty == Stream(<<>>) = <<>>
<1>1. [i \in 1 .. Len(<<>>) |-> Bytes(<<>>[i])] = <<>>
  OBVIOUS
<1> QED
  BY <1>1 DEF Stream, FlattenSeq

LEMMA StreamType ==
    ASSUME NEW ps \in Seq(Values)
    PROVE  Stream(ps) \in Seq(Byte)
<1>1. PICK p : p \in Values
  BY SocketAssumption
<1> QED
  BY <1>1, StreamAppend

(* What IsPrefix says of sequences.                                        *)
LEMMA PrefixIs ==
    ASSUME NEW S, NEW s \in Seq(S), NEW t \in Seq(S)
    PROVE  IsPrefix(s, t) <=> Len(s) <= Len(t) /\ \A i \in 1 .. Len(s) : s[i] = t[i]
<1>1. SubSeq(s, 1, Len(s)) = s
  OBVIOUS
<1>2. ASSUME Len(s) <= Len(t)
      PROVE  /\ SubSeq(t, 1, Len(s)) \in Seq(S) /\ Len(SubSeq(t, 1, Len(s))) = Len(s)
             /\ \A i \in 1 .. Len(s) : SubSeq(t, 1, Len(s))[i] = t[i]
  BY <1>2
<1> QED
  BY <1>1, <1>2, SeqEqual DEF IsPrefix

LEMMA PrefixConcat ==
    ASSUME NEW S, NEW s \in Seq(S), NEW t \in Seq(S)
    PROVE  IsPrefix(s, s \o t) /\ IsPrefix(s, s)
<1>1. s \o t \in Seq(S) /\ Len(s) <= Len(s \o t) /\ \A i \in 1 .. Len(s) : (s \o t)[i] = s[i]
  OBVIOUS
<1>2. Len(s) <= Len(s)
  OBVIOUS
<1>3. IsPrefix(s, s)
  BY <1>2, PrefixIs
<1>4. IsPrefix(s, s \o t)
  <2> DEFINE u == s \o t
  <2>1. u \in Seq(S) /\ Len(s) <= Len(u) /\ \A i \in 1 .. Len(s) : u[i] = s[i]
    BY <1>1
  <2> HIDE DEF u
  <2>2. IsPrefix(s, u)
    BY <2>1, PrefixIs
  <2> QED
    BY <2>2 DEF u
<1> QED
  BY <1>3, <1>4

LEMMA PrefixTrans ==
    ASSUME NEW S, NEW s \in Seq(S), NEW t \in Seq(S), NEW u \in Seq(S), IsPrefix(s, t), IsPrefix(t, u)
    PROVE  IsPrefix(s, u)
<1>1. Len(s) <= Len(t) /\ \A i \in 1 .. Len(s) : s[i] = t[i]
  BY PrefixIs
<1>2. Len(t) <= Len(u) /\ \A i \in 1 .. Len(t) : t[i] = u[i]
  BY PrefixIs
<1>3. Len(s) <= Len(u) /\ \A i \in 1 .. Len(s) : s[i] = u[i]
  BY <1>1, <1>2
<1> QED
  BY <1>3, PrefixIs

(* More packets make a longer stream that begins with the old one.         *)
LEMMA StreamPrefix ==
    ASSUME NEW ps \in Seq(Values), NEW qs \in Seq(Values),
           Len(ps) <= Len(qs), \A i \in 1 .. Len(ps) : ps[i] = qs[i]
    PROVE  IsPrefix(Stream(ps), Stream(qs))
<1> DEFINE Good(n) == n >= Len(ps) => IsPrefix(Stream(ps), Stream(SubSeq(qs, 1, n)))
           T == {n \in Nat : n <= Len(qs) /\ ~Good(n)}
<1>1. T = {}
  <2> SUFFICES ASSUME T # {} PROVE FALSE
    OBVIOUS
  <2>1. PICK n \in T : \A m \in T : n <= m
    BY Least
  <2>2. n \in Nat /\ n <= Len(qs) /\ n >= Len(ps) /\ ~IsPrefix(Stream(ps), Stream(SubSeq(qs, 1, n)))
    OBVIOUS
  <2>3. CASE n = Len(ps)
    <3>1. SubSeq(qs, 1, n) = ps
      BY <2>2, <2>3, SeqEqual
    <3> QED
      BY <2>2, <3>1, StreamType, PrefixConcat
  <2>4. CASE n # Len(ps)
    <3> DEFINE front == SubSeq(qs, 1, n - 1)
    <3>1. n - 1 \in Nat /\ n - 1 <= Len(qs) /\ n - 1 >= Len(ps) /\ ~(n <= n - 1)
      BY <2>2, <2>4
    <3>2. Good(n - 1)
      BY <2>1, <3>1
    <3>3. IsPrefix(Stream(ps), Stream(front))
      BY <3>1, <3>2
    <3>4. front \in Seq(Values) /\ qs[n] \in Values /\ SubSeq(qs, 1, n) = Append(front, qs[n])
      <4>1. /\ front \in Seq(Values) /\ Len(front) = n - 1 /\ qs[n] \in Values
            /\ \A i \in 1 .. n - 1 : front[i] = qs[i]
        BY <2>2, <3>1
      <4>2. /\ SubSeq(qs, 1, n) \in Seq(Values) /\ Len(SubSeq(qs, 1, n)) = n
            /\ \A i \in 1 .. n : SubSeq(qs, 1, n)[i] = qs[i]
        BY <2>2
      <4> HIDE DEF front
      <4>3. /\ Append(front, qs[n]) \in Seq(Values) /\ Len(Append(front, qs[n])) = n
            /\ \A i \in 1 .. n : Append(front, qs[n])[i] = qs[i]
        BY <2>2, <3>1, <4>1
      <4> QED
        BY <4>1, <4>2, <4>3, SeqEqual
    <3> HIDE DEF front
    <3>5. Stream(SubSeq(qs, 1, n)) = Stream(front) \o Bytes(qs[n]) /\ Bytes(qs[n]) \in Seq(Byte)
      BY <3>4, StreamAppend, BytesType
    <3>6. Stream(ps) \in Seq(Byte) /\ Stream(front) \in Seq(Byte)
      BY <3>4, StreamType
    <3>7. Stream(front) \o Bytes(qs[n]) \in Seq(Byte) /\ IsPrefix(Stream(front), Stream(front) \o Bytes(qs[n]))
      BY <3>5, <3>6, PrefixConcat
    <3> QED
      BY <2>2, <3>3, <3>5, <3>6, <3>7, PrefixTrans
  <2> QED
    BY <2>3, <2>4
<1>2. Len(qs) \in Nat /\ Len(qs) <= Len(qs) /\ SubSeq(qs, 1, Len(qs)) = qs
  OBVIOUS
<1>3. Good(Len(qs))
  <2> SUFFICES ASSUME ~Good(Len(qs)) PROVE FALSE
    OBVIOUS
  <2>1. Len(qs) \in T
    BY <1>2
  <2> QED
    BY <1>1, <2>1
<1> QED
  BY <1>2, <1>3

-----------------------------------------------------------------------------
(* A sequence in two parts                                                 *)

LEMMA SplitAt ==
    ASSUME NEW S, NEW s \in Seq(S), NEW n \in 0 .. Len(s)
    PROVE  /\ SubSeq(s, 1, n) \in Seq(S) /\ SubSeq(s, n + 1, Len(s)) \in Seq(S)
           /\ SubSeq(s, 1, n) \o SubSeq(s, n + 1, Len(s)) = s
<1>1. SubSeq(s, 1, n) \in Seq(S) /\ SubSeq(s, n + 1, Len(s)) \in Seq(S)
  OBVIOUS
<1>2. 1 \in 1 .. Len(s) + 1 /\ n \in 1 - 1 .. Len(s) /\ Len(s) \in n .. Len(s)
  OBVIOUS
<1>3. SubSeq(s, 1, n) \o SubSeq(s, n + 1, Len(s)) = SubSeq(s, 1, Len(s))
  BY <1>2, ConcatAdjacentSubSeq
<1>4. SubSeq(s, 1, Len(s)) = s
  OBVIOUS
<1> QED
  BY <1>1, <1>3, <1>4

LEMMA NotEmpty ==
    ASSUME NEW S, NEW s \in Seq(S), s # <<>>
    PROVE  Len(s) \in Nat /\ Len(s) # 0
OBVIOUS

LEMMA RestStays ==
    ASSUME NEW S, NEW s \in Seq(S), NEW n \in 0 .. Len(s) - 1
    PROVE  SubSeq(s, n + 1, Len(s)) \in Seq(S) /\ SubSeq(s, n + 1, Len(s)) # <<>>
<1>1. SubSeq(s, n + 1, Len(s)) \in Seq(S) /\ Len(SubSeq(s, n + 1, Len(s))) = Len(s) - n
  OBVIOUS
<1>2. Len(s) - n # 0
  OBVIOUS
<1> QED
  BY <1>1, <1>2

LEMMA PutFirst ==
    ASSUME NEW S, NEW x \in S, NEW q \in Seq(S), q # <<>>
    PROVE  LET r == [q EXCEPT ![1] = x]
           IN  r \in Seq(S) /\ Len(r) = Len(q) /\ r # <<>> /\ Head(r) = x /\ Tail(r) = Tail(q)
                            /\ \A i \in 2 .. Len(q) : r[i] = q[i]
<1> DEFINE r == [q EXCEPT ![1] = x]
<1>1. r \in Seq(S) /\ Len(r) = Len(q) /\ r[1] = x /\ \A i \in 2 .. Len(q) : r[i] = q[i]
  OBVIOUS
<1> HIDE DEF r
<1>2. /\ r # <<>> /\ Head(r) = x /\ Tail(r) \in Seq(S) /\ Len(Tail(r)) = Len(q) - 1
      /\ \A i \in 1 .. Len(q) - 1 : Tail(r)[i] = q[i + 1]
  BY <1>1
<1>3. Tail(q) \in Seq(S) /\ Len(Tail(q)) = Len(q) - 1 /\ \A i \in 1 .. Len(q) - 1 : Tail(q)[i] = q[i + 1]
  OBVIOUS
<1>4. Tail(r) = Tail(q)
  BY <1>2, <1>3, SeqEqual
<1> QED
  BY <1>1, <1>2, <1>4 DEF r

LEMMA PutLast ==
    ASSUME NEW S, NEW q \in Seq(S), q # <<>>
    PROVE  /\ SubSeq(q, 1, Len(q) - 1) \in Seq(S) /\ q[Len(q)] \in S
           /\ q = Append(SubSeq(q, 1, Len(q) - 1), q[Len(q)])
<1> DEFINE front == SubSeq(q, 1, Len(q) - 1)
           x     == q[Len(q)]
<1>1. Len(q) \in Nat \ {0} /\ x \in S
  OBVIOUS
<1>2. front \in Seq(S) /\ Len(front) = Len(q) - 1 /\ \A i \in 1 .. Len(q) - 1 : front[i] = q[i]
  <2>1. ASSUME NEW n \in Nat, n <= Len(q)
        PROVE  /\ SubSeq(q, 1, n) \in Seq(S) /\ Len(SubSeq(q, 1, n)) = n
               /\ \A i \in 1 .. n : SubSeq(q, 1, n)[i] = q[i]
    BY <2>1
  <2>2. Len(q) - 1 \in Nat /\ Len(q) - 1 <= Len(q)
    BY <1>1
  <2> QED
    BY <2>1, <2>2
<1> HIDE DEF front
<1>3. /\ Append(front, x) \in Seq(S) /\ Len(Append(front, x)) = Len(q)
      /\ \A i \in 1 .. Len(q) : Append(front, x)[i] = q[i]
  BY <1>1, <1>2
<1>4. q = Append(front, x)
  BY <1>3, SeqEqual
<1> QED
  BY <1>1, <1>2, <1>4 DEF front

-----------------------------------------------------------------------------
(* What has left, what waits in the write queue, and the buffer            *)

LEMMA Associates ==
    \A a, b, c \in Seq(Byte) : (a \o b) \o c = a \o (b \o c)
BY SMT

LEMMA Joins ==
    /\ \A a, b \in Seq(Byte) : a \o b \in Seq(Byte)
    /\ \A a \in Seq(Byte) : a \o <<>> = a /\ <<>> \o a = a
    /\ <<>> \in Seq(Byte)
<1>1. \A a, b \in Seq(Byte) : a \o b \in Seq(Byte)
  OBVIOUS
<1>2. \A a \in Seq(Byte) : a \o <<>> = a /\ <<>> \o a = a
  BY ConcatEmptySeq
<1> QED
  BY <1>1, <1>2

(* The three ways in which Update takes a packet.                          *)
LEMMA ContentsDrain ==
    ASSUME NEW w \in Seq(Byte), NEW q \in Seq(Seq(Byte)), NEW b \in Seq(Byte), NEW x \in Seq(Byte)
    PROVE  LET before == w \o (FlattenSeq(q) \o b) IN
           /\ w \o (FlattenSeq(q) \o (b \o x)) = before \o x
           /\ w \o (FlattenSeq(Append(q, b)) \o x) = before \o x
           /\ w \o (FlattenSeq(Append(Append(q, b), x)) \o <<>>) = before \o x
<1> DEFINE m == FlattenSeq(q)
<1>1. m \in Seq(Byte) /\ FlattenSeq(Append(q, b)) = m \o b
  BY FlattenAppend
<1>2. Append(q, b) \in Seq(Seq(Byte))
  OBVIOUS
<1>3. FlattenSeq(Append(Append(q, b), x)) = (m \o b) \o x
  BY <1>1, <1>2, FlattenAppend
<1> HIDE DEF m
<1>4. m \o b \in Seq(Byte) /\ (m \o b) \o x \in Seq(Byte)
  BY <1>1, Joins, Zenon
<1>5. (m \o b) \o x = m \o (b \o x) /\ ((m \o b) \o x) \o <<>> = (m \o b) \o x
  BY <1>1, <1>4, Joins, Associates, Zenon
<1>6. (w \o (m \o b)) \o x = w \o ((m \o b) \o x)
  BY <1>4, Associates, Zenon
<1>7. FlattenSeq(q) = m
  BY DEF m
<1> QED
  BY <1>1, <1>3, <1>5, <1>6, <1>7, Zenon

(* The end of the loop queues what is left in the buffer.                  *)
LEMMA ContentsDrainEnds ==
    ASSUME NEW q \in Seq(Seq(Byte)), NEW b \in Seq(Byte)
    PROVE  /\ FlattenSeq(Append(q, b)) \o <<>> = FlattenSeq(q) \o b
           /\ FlattenSeq(q) \in Seq(Byte)
BY FlattenAppend, Joins, Associates

(* Bytes of the first buffer leave, and the rest of it stays in the queue. *)
LEMMA ContentsSome ==
    ASSUME NEW w \in Seq(Byte), NEW q \in Seq(Seq(Byte)), NEW b \in Seq(Byte), q # <<>>,
           NEW n \in 0 .. Len(Head(q))
    PROVE  LET left == SubSeq(Head(q), 1, n)
               rest == SubSeq(Head(q), n + 1, Len(Head(q)))
           IN  /\ left \in Seq(Byte) /\ rest \in Seq(Byte) /\ w \o left \in Seq(Byte)
               /\ [q EXCEPT ![1] = rest] \in Seq(Seq(Byte))
               /\ (w \o left) \o (FlattenSeq([q EXCEPT ![1] = rest]) \o b) = w \o (FlattenSeq(q) \o b)
<1> DEFINE h == Head(q)
           t == Tail(q)
           left == SubSeq(h, 1, n)
           rest == SubSeq(h, n + 1, Len(h))
           m == FlattenSeq(t)
<1>1. h \in Seq(Byte) /\ t \in Seq(Seq(Byte)) /\ n \in 0 .. Len(h)
  OBVIOUS
<1>2. FlattenSeq(q) = h \o m
  BY FlattenHead
<1>3. m \in Seq(Byte)
  BY <1>1, ContentsDrainEnds
<1> HIDE DEF h, t
<1>4. left \in Seq(Byte) /\ rest \in Seq(Byte) /\ left \o rest = h
  BY <1>1, SplitAt
<1> HIDE DEF left, rest
<1> DEFINE r == [q EXCEPT ![1] = rest]
<1>6. r \in Seq(Seq(Byte)) /\ r # <<>> /\ Head(r) = rest /\ Tail(r) = t
  BY <1>4, PutFirst DEF t
<1> HIDE DEF r
<1>7. FlattenSeq(r) = rest \o m
  BY <1>6, FlattenHead
<1> HIDE DEF m
<1>8. w \o left \in Seq(Byte) /\ rest \o m \in Seq(Byte) /\ m \o b \in Seq(Byte) /\ (rest \o m) \o b \in Seq(Byte)
  BY <1>3, <1>4, Joins, Zenon
<1>9. (w \o left) \o ((rest \o m) \o b) = w \o (left \o ((rest \o m) \o b))
      /\ left \o ((rest \o m) \o b) = (left \o (rest \o m)) \o b
  <2> DEFINE rm == rest \o m
             rmb == rm \o b
  <2>1. rm \in Seq(Byte) /\ rmb \in Seq(Byte)
    BY <1>8
  <2> HIDE DEF rm
  <2>2. left \o (rm \o b) = (left \o rm) \o b
    BY <1>4, <2>1, Associates, Zenon
  <2> HIDE DEF rmb
  <2>3. (w \o left) \o rmb = w \o (left \o rmb)
    BY <1>4, <2>1, Associates, Zenon
  <2> QED
    BY <2>2, <2>3 DEF rm, rmb
<1>11. left \o (rest \o m) = h \o m
  <2>1. (left \o rest) \o m = left \o (rest \o m)
    BY <1>3, <1>4, Associates, Zenon
  <2> QED
    BY <1>4, <2>1
<1>12. (w \o left) \o (FlattenSeq(r) \o b) = w \o (FlattenSeq(q) \o b)
  BY <1>2, <1>7, <1>9, <1>11, Zenon
<1> QED
  BY <1>4, <1>6, <1>8, <1>12 DEF left, rest, h, r

(* The whole first buffer leaves.                                          *)
LEMMA ContentsAll ==
    ASSUME NEW w \in Seq(Byte), NEW q \in Seq(Seq(Byte)), NEW b \in Seq(Byte), q # <<>>
    PROVE  LET left == SubSeq(Head(q), 1, Len(Head(q)))
           IN  /\ w \o left \in Seq(Byte) /\ Tail(q) \in Seq(Seq(Byte))
               /\ (w \o left) \o (FlattenSeq(Tail(q)) \o b) = w \o (FlattenSeq(q) \o b)
<1> DEFINE h == Head(q)
           t == Tail(q)
           m == FlattenSeq(t)
<1>1. h \in Seq(Byte) /\ t \in Seq(Seq(Byte)) /\ SubSeq(h, 1, Len(h)) = h
  OBVIOUS
<1>2. FlattenSeq(q) = h \o m
  BY FlattenHead
<1>3. m \in Seq(Byte)
  BY <1>1, ContentsDrainEnds
<1> HIDE DEF h, t, m
<1>4. w \o h \in Seq(Byte) /\ m \o b \in Seq(Byte)
  BY <1>1, <1>3, Joins, Zenon
<1>5. (w \o h) \o (m \o b) = w \o (h \o (m \o b))
  <2> DEFINE mb == m \o b
  <2>1. mb \in Seq(Byte)
    BY <1>4
  <2> HIDE DEF mb
  <2>2. (w \o h) \o mb = w \o (h \o mb)
    BY <1>1, <2>1, Associates, Zenon
  <2> QED
    BY <2>2 DEF mb
<1>6. h \o (m \o b) = (h \o m) \o b
  BY <1>1, <1>3, Associates, Zenon
<1>7. (w \o h) \o (m \o b) = w \o (FlattenSeq(q) \o b)
  BY <1>2, <1>5, <1>6, Zenon
<1> QED
  BY <1>1, <1>4, <1>7 DEF h, t, m

(* A write queue with something in its last buffer has bytes.              *)
LEMMA ContentsEmpty ==
    ASSUME NEW q \in Seq(Seq(Byte)), NEW b \in Seq(Byte), q # <<>> => q[Len(q)] # <<>>,
           FlattenSeq(q) \o b = <<>>
    PROVE  q = <<>> /\ b = <<>>
<1>0. FlattenSeq(q) \in Seq(Byte)
  BY ContentsDrainEnds
<1>1. FlattenSeq(q) = <<>> /\ b = <<>>
  <2> DEFINE m == FlattenSeq(q)
  <2>1. m \in Seq(Byte) /\ m \o b = <<>>
    BY <1>0
  <2> HIDE DEF m
  <2>2. Len(m \o b) = Len(m) + Len(b) /\ Len(m \o b) = 0
    BY <2>1
  <2>3. Len(m) = 0 /\ Len(b) = 0
    BY <2>1, <2>2
  <2>4. m = <<>> /\ b = <<>>
    BY <2>1, <2>3
  <2> QED
    BY <2>4 DEF m
<1>2. ASSUME q # <<>> PROVE FALSE
  <2> DEFINE n == Len(q)
             front == SubSeq(q, 1, n - 1)
             x == q[n]
  <2>1. front \in Seq(Seq(Byte)) /\ x \in Seq(Byte) /\ x # <<>> /\ q = Append(front, x)
    <3>1. x # <<>>
      BY <1>2
    <3> QED
      BY <1>2, <3>1, PutLast
  <2> HIDE DEF front, x
  <2> DEFINE m == FlattenSeq(front)
  <2>2. FlattenSeq(q) = m \o x /\ m \in Seq(Byte)
    BY <2>1, FlattenAppend
  <2> HIDE DEF m
  <2>3. Len(m \o x) = Len(m) + Len(x) /\ Len(x) \in Nat /\ Len(x) # 0 /\ Len(m) \in Nat
    BY <2>1, <2>2
  <2>4. Len(m \o x) # 0
    BY <2>3
  <2> QED
    BY <1>1, <2>2, <2>4
<1> QED
  BY <1>1, <1>2


-----------------------------------------------------------------------------
(* The invariant *)

(* The types of the socket's variables; QueueType has those of the queue.  *)
SocketType ==
    /\ net \in {"idle", "drain", "flush", "queries", "write", "handle", "send"}
    /\ phase \in {"ip", "challenged", "auth", "session", "rejected"}
    /\ sending \in [Producers -> Values \cup {NoValue}]
    /\ reading \in BOOLEAN /\ listed \in BOOLEAN /\ _isWritingAsync \in BOOLEAN
    /\ _closed \in BOOLEAN /\ _closing \in BOOLEAN /\ shut \in BOOLEAN /\ broken \in BOOLEAN
    /\ buffer \in Seq(Byte) /\ _writeQueue \in Seq(Seq(Byte))
    /\ wire \in Seq(Byte) /\ received \in Nat

(* Until the connection fails, what has left, what waits to leave and what *)
(* Update has not queued yet are the packets taken out of the queue, in    *)
(* order; the last buffer that waits holds something.                      *)
WireInv ==
    /\ ~Failed => wire \o (FlattenSeq(_writeQueue) \o buffer) = Stream(dequeued)
    /\ IsPrefix(wire, Stream(dequeued))
    /\ _writeQueue # <<>> => _writeQueue[Len(_writeQueue)] # <<>>
    /\ net # "drain" => buffer = <<>>
    /\ shut => _closed
    /\ received <= Len(wire)

(* A thread is between the two steps of Enqueue only inside SendPacket;    *)
(* nobody but the network thread sends before the session exists.          *)
SendersInv ==
    /\ \A s \in Producers : pc[s] = "link" => sending[s] # NoValue
    /\ sending[Net] # NoValue => net = "send"
    /\ phase # "session" => \A s \in Senders : sending[s] = NoValue

(* Nothing waits to be sent, neither as a packet nor as bytes.             *)
Flushed == _writeQueue = <<>> /\ buffer = <<>> /\ Len(dequeued) = Len(enqueued)

(* The answer to a client that is refused: it is being put into the queue  *)
(* behind nothing else, or it is the last packet ever sent, and then the   *)
(* socket closes only when it has left.                                    *)
AnswerInv ==
    \/ /\ net = "send" /\ sending[Net] = Error /\ pc[Net] = "idle"
       /\ IsOpen
       /\ ~broken => Flushed
    \/ /\ enqueued # <<>> /\ enqueued[Len(enqueued)] = Error
       /\ sending[Net] # NoValue => pc[Net] = "link"
       /\ net = "send" \/ (_closing /\ sending[Net] = NoValue)
       /\ ~broken => /\ Len(dequeued) >= Len(enqueued) - 1
                     /\ _closed => shut /\ wire = Stream(enqueued)
                     /\ ~_closed /\ ~(_writeQueue = <<>> /\ buffer = <<>>) => Len(dequeued) = Len(enqueued)

HandshakeInv ==
    /\ phase = "ip" => /\ IsOpen /\ ~reading
                       /\ enqueued = <<>> /\ sending[Net] = NoValue
                       /\ Flushed
    /\ phase = "challenged" =>
          /\ ~_closing
          /\ \/ enqueued = <<>> /\ net = "send" /\ sending[Net] = Challenge /\ pc[Net] = "idle"
             \/ enqueued = <<Challenge>> /\ (sending[Net] # NoValue => pc[Net] = "link")
    /\ phase = "auth" => /\ IsOpen /\ ~reading
                         /\ enqueued = <<Challenge>> /\ sending[Net] = NoValue
                         /\ ~broken => Flushed
    /\ phase = "rejected" => ~reading /\ AnswerInv

SocketInv == SocketType /\ WireInv /\ SendersInv /\ HandshakeInv

-----------------------------------------------------------------------------
(* Every thread uses the queue as MPSCQueue says: the steps of the socket  *)
(* are its steps, or leave it alone.                                       *)
Sending == sending \in [Producers -> Values \cup {NoValue}]

LEMMA SendingStep ==
    ASSUME Sending, [Next]_vars
    PROVE  Sending' /\ [QueueNext]_queueVars
<1>0. /\ Net \in Producers /\ Challenge \in Values /\ Error \in Values /\ Pong \in Values
      /\ Senders \subseteq Producers /\ GamePackets \subseteq Values
  BY SocketAssumption DEF Senders, GamePackets
<1>1. ASSUME NEW s \in Producers, Enqueue(s) \/ EnqueueEnds(s)
      PROVE  Sending' /\ [QueueNext]_queueVars
  BY <1>1 DEF Sending, Enqueue, EnqueueEnds, QueueNext
<1>2. ASSUME NEW s \in Senders, NEW p \in GamePackets, SendPacket(s, p)
      PROVE  Sending' /\ UNCHANGED queueVars
  BY <1>0, <1>2 DEF Sending, SendPacket, Send
<1>3. CASE Drain
  BY <1>3 DEF Drain, Sending, QueueNext
<1>4. CASE HandleQueue
  BY <1>4 DEF HandleQueue, Sending
<1>5. CASE Answer \/ HandlePing
  BY <1>0, <1>5 DEF Answer, CheckIpCallback, HandleAuthSessionCallback, HandlePing, Send, Sending
<1>6. CASE UpdateStarts \/ DrainEnds \/ Flush \/ NoQueryReady \/ Sent \/ WriteHandlerWrapper
  BY <1>6 DEF UpdateStarts, DrainEnds, Flush, NoQueryReady, Sent, WriteHandlerWrapper, Sending
<1>7. CASE HandleAuthSession \/ ReadFails \/ KickPlayer \/ KickEnds \/ ClientReads \/ ClientVanishes
  BY <1>7 DEF HandleAuthSession, ReadFails, KickPlayer, KickEnds, ClientReads, ClientVanishes, Sending
<1>8. CASE UNCHANGED vars
  BY <1>8 DEF vars, Sending
<1> QED
  BY <1>0, <1>1, <1>2, <1>3, <1>4, <1>5, <1>6, <1>7, <1>8 DEF Next, NetworkThread

(* SendPacket and Update together use the lock-free queue as one consumer  *)
(* and many producers, each of which ends one Enqueue before the next.     *)
THEOREM SendsThroughQueue == Spec => QueueSpec
<1>1. Init => Sending /\ QueueInit
  BY DEF Init, Sending
<1>2. Sending /\ [Next]_vars => Sending' /\ [QueueNext]_queueVars
  BY SendingStep
<1> QED
  BY <1>1, <1>2, PTL DEF Spec, QueueSpec

(* No thread of a socket touches a node of its queue that was freed.       *)
THEOREM NodesOutliveSends == Spec => []NoFreedNode
BY SendsThroughQueue, NodesOutliveUse, PTL

-----------------------------------------------------------------------------
(* What a step of Update does to the queues                                *)

LEMMA TakesNext ==
    ASSUME QueueInv, Dequeue
    PROVE  /\ FrontData \in Values /\ dequeued' = Append(dequeued, FrontData)
           /\ UNCHANGED <<enqueued, pc>>
           /\ Len(dequeued') = Len(dequeued) + 1 /\ Len(dequeued) + 1 <= Len(enqueued)
<1>1. dequeued' = Append(dequeued, FrontData) /\ UNCHANGED <<enqueued, pc>>
  BY DEF Dequeue, localVars
<1> QED
  BY <1>1, FrontNode DEF QueueInv, QueueType

LEMMA DrainCases ==
    ASSUME SocketType, QueueInv, Drain
    PROVE  LET x == Bytes(FrontData)
           IN  \/ buffer' = buffer \o x /\ _writeQueue' = _writeQueue
               \/ buffer' = x /\ buffer # <<>> /\ _writeQueue' = Append(_writeQueue, buffer)
               \/ buffer' = <<>> /\ _writeQueue' = Append(Append(_writeQueue, buffer), x)
<1> DEFINE x == Bytes(FrontData)
           fits  == Len(buffer) + Size[FrontData] <= BufferSize
           large == Size[FrontData] > BufferSize
<1>0. Dequeue
  BY DEF Drain
<1>1. x \in Seq(Byte) /\ Size[FrontData] \in Nat \ {0} /\ Len(buffer) \in Nat /\ BufferSize \in Nat
  BY <1>0, TakesNext, BytesType, SocketAssumption DEF SocketType
<1>2. /\ buffer' = IF fits THEN buffer \o x ELSE IF large THEN <<>> ELSE x
      /\ _writeQueue' = _writeQueue \o (IF fits THEN <<>> ELSE <<buffer>>)
                                    \o (IF large THEN <<x>> ELSE <<>>)
  BY DEF Drain
<1>3. fits => ~large
  BY <1>1
<1>4. buffer = <<>> /\ ~fits => large
  BY <1>1
<1>5. /\ _writeQueue \o <<>> = _writeQueue
      /\ _writeQueue \o <<buffer>> = Append(_writeQueue, buffer)
  BY ConcatEmptySeq, AppendIsConcat DEF SocketType
<1>6. Append(_writeQueue, buffer) \in Seq(Seq(Byte))
  BY DEF SocketType
<1>7. /\ Append(_writeQueue, buffer) \o <<>> = Append(_writeQueue, buffer)
      /\ Append(_writeQueue, buffer) \o <<x>> = Append(Append(_writeQueue, buffer), x)
  BY <1>1, <1>6, ConcatEmptySeq, AppendIsConcat
<1> HIDE DEF x, fits, large
<1>8. CASE fits
  BY <1>2, <1>3, <1>5, <1>8 DEF x
<1>9. CASE ~fits /\ ~large
  BY <1>2, <1>4, <1>5, <1>7, <1>9 DEF x
<1>10. CASE ~fits /\ large
  BY <1>2, <1>5, <1>7, <1>10 DEF x
<1> QED
  BY <1>8, <1>9, <1>10

-----------------------------------------------------------------------------
(* The types are kept *)

LEMMA TypeStep ==
    ASSUME SocketType, QueueInv, [Next]_vars
    PROVE  SocketType'
<1> USE DEF socketVars, closeVars, writeVars, wireVars
<1>0. Sending'
  BY SendingStep DEF SocketType, Sending
<1>1. ASSUME NEW s \in Producers, Enqueue(s) \/ EnqueueEnds(s)
      PROVE  SocketType'
  BY <1>0, <1>1 DEF Sending, SocketType, Enqueue, EnqueueEnds
<1>2. ASSUME NEW s \in Senders, NEW p \in GamePackets, SendPacket(s, p)
      PROVE  SocketType'
  BY <1>0, <1>2 DEF Sending, SocketType, SendPacket
<1>3. CASE Drain
  <2> DEFINE x == Bytes(FrontData)
  <2>1. x \in Seq(Byte)
    BY <1>3, TakesNext, BytesType DEF Drain
  <2>2. \/ buffer' = buffer \o x /\ _writeQueue' = _writeQueue
        \/ buffer' = x /\ buffer # <<>> /\ _writeQueue' = Append(_writeQueue, buffer)
        \/ buffer' = <<>> /\ _writeQueue' = Append(Append(_writeQueue, buffer), x)
    BY <1>3, DrainCases
  <2>3. buffer \in Seq(Byte) /\ _writeQueue \in Seq(Seq(Byte))
    BY DEF SocketType
  <2> HIDE DEF x
  <2>4. buffer \o x \in Seq(Byte) /\ <<>> \in Seq(Byte)
    BY <2>1, <2>3, Joins
  <2>5. Append(_writeQueue, buffer) \in Seq(Seq(Byte)) /\ Append(Append(_writeQueue, buffer), x) \in Seq(Seq(Byte))
    BY <2>1, <2>3
  <2>6. buffer' \in Seq(Byte) /\ _writeQueue' \in Seq(Seq(Byte))
    BY <2>1, <2>2, <2>3, <2>4, <2>5
  <2> QED
    BY <1>0, <1>3, <2>6 DEF Sending, SocketType, Drain
<1>4. CASE HandleQueue
  <2>1. wire' \in Seq(Byte) /\ _writeQueue' \in Seq(Seq(Byte))
    <3>0. wire \in Seq(Byte) /\ _writeQueue \in Seq(Seq(Byte)) /\ buffer \in Seq(Byte)
      BY DEF SocketType
    <3>1. CASE NothingToWrite
      BY <3>0, <3>1 DEF NothingToWrite
    <3>2. CASE WriteFails
      <4>1. wire' = wire /\ _writeQueue # <<>> /\ _writeQueue' = Tail(_writeQueue)
        BY <3>2 DEF WriteFails, PopFirst
      <4> QED
        BY <3>0, <4>1
    <3>3. CASE WriteSome
      <4>1. PICK n \in 0 .. Len(First) - 1 : Leave(n) /\
               _writeQueue' = [_writeQueue EXCEPT ![1] = SubSeq(First, n + 1, Len(First))]
        BY <3>3 DEF WriteSome
      <4>2. _writeQueue # <<>> /\ n \in 0 .. Len(First) /\ Len(First) \in Nat
        BY <3>0, <3>3, <4>1 DEF WriteSome, First
      <4> QED
        BY <3>0, <4>1, <4>2, ContentsSome DEF First, Leave
    <3>4. CASE WriteAll
      <4>1. _writeQueue # <<>> /\ wire' = wire \o SubSeq(First, 1, Len(First)) /\ _writeQueue' = Tail(_writeQueue)
        BY <3>4 DEF WriteAll, Leave, PopFirst
      <4> QED
        BY <3>0, <4>1, ContentsAll DEF First
    <3> QED
      BY <1>4, <3>1, <3>2, <3>3, <3>4 DEF HandleQueue
  <2>2. /\ net' \in {"write", "handle", "idle", "queries"}
        /\ _closed' \in BOOLEAN /\ shut' \in BOOLEAN /\ _isWritingAsync' \in BOOLEAN
        /\ UNCHANGED <<phase, sending, reading, listed, _closing, broken, buffer, received>>
    BY <1>4 DEF HandleQueue, NothingToWrite, WriteFails, WriteSome, WriteAll, Return, Handling, PopFirst, CloseSocket,
                SocketType
  <2> QED
    BY <2>1, <2>2 DEF SocketType
<1>5. CASE Answer \/ HandlePing
  BY <1>0, <1>5 DEF Sending, SocketType, Answer, CheckIpCallback, HandleAuthSessionCallback, HandlePing, IsOpen
<1>6. CASE DrainEnds
  <2>1. buffer' \in Seq(Byte) /\ _writeQueue' \in Seq(Seq(Byte))
    BY <1>6 DEF DrainEnds, SocketType
  <2> QED
    BY <1>0, <1>6, <2>1 DEF Sending, SocketType, DrainEnds
<1>7. CASE UpdateStarts \/ Flush \/ NoQueryReady \/ Sent \/ WriteHandlerWrapper
  BY <1>7 DEF UpdateStarts, Flush, NoQueryReady, Sent, WriteHandlerWrapper, SocketType
<1>8. CASE HandleAuthSession \/ ReadFails \/ KickPlayer \/ KickEnds \/ ClientVanishes
  BY <1>8 DEF HandleAuthSession, ReadFails, KickPlayer, KickEnds, ClientVanishes, CloseSocket, SocketType
<1>9. CASE ClientReads
  <2>1. Len(wire) \in Nat
    BY DEF SocketType
  <2> QED
    BY <1>9, <2>1 DEF ClientReads, SocketType
<1>10. CASE UNCHANGED vars
  BY <1>10 DEF vars, SocketType
<1>11. Net \in Producers /\ Senders \subseteq Producers
  BY SocketAssumption DEF Senders
<1> QED
  BY <1>1, <1>2, <1>3, <1>4, <1>5, <1>6, <1>7, <1>8, <1>9, <1>10, <1>11 DEF Next, NetworkThread

-----------------------------------------------------------------------------
(* The connection carries what was taken from the queue *)

\* Steps that move no bytes
LEMMA NothingMoves ==
    ASSUME WireInv, UNCHANGED <<buffer, _writeQueue, wire, dequeued>>,
           Failed => Failed', shut' => _closed', net' # "drain" => net # "drain",
           received' <= Len(wire)
    PROVE  WireInv'
BY DEF WireInv

\* Bytes that leave leave the rest in place, so what has left stays a prefix
LEMMA MoveOn ==
    ASSUME NEW w \in Seq(Byte), NEW q \in Seq(Seq(Byte)), NEW b \in Seq(Byte), NEW ps \in Seq(Values),
           w \o (FlattenSeq(q) \o b) = Stream(ps)
    PROVE  IsPrefix(w, Stream(ps))
<1> DEFINE m == FlattenSeq(q)
           mb == m \o b
<1>1. mb \in Seq(Byte)
  BY ContentsDrainEnds, Joins
<1> HIDE DEF mb
<1>2. IsPrefix(w, w \o mb)
  BY <1>1, PrefixConcat
<1> QED
  BY <1>2 DEF mb

\* The last of what waits stays the last
LEMMA LastStays ==
    ASSUME NEW q \in Seq(Seq(Byte)), q # <<>>, q[Len(q)] # <<>>, Tail(q) # <<>>
    PROVE  Tail(q)[Len(Tail(q))] # <<>>
<1>0. Len(Tail(q)) = Len(q) - 1 /\ Len(q) \in Nat \ {0} /\ \A i \in 1 .. Len(q) - 1 : Tail(q)[i] = q[i + 1]
  OBVIOUS
<1>1. Len(Tail(q)) = Len(q) - 1 /\ Len(q) - 1 \in Nat \ {0} /\ \A i \in 1 .. Len(q) - 1 : Tail(q)[i] = q[i + 1]
  <2> DEFINE t == Tail(q)
  <2>1. t \in Seq(Seq(Byte)) /\ t # <<>>
    OBVIOUS
  <2> HIDE DEF t
  <2>2. Len(t) # 0
    BY <2>1, NotEmpty
  <2> USE DEF t
  <2> QED
    BY <1>0, <2>2
<1>2. Tail(q)[Len(q) - 1] = q[Len(q) - 1 + 1]
  BY <1>1
<1> QED
  BY <1>1, <1>2

LEMMA MoreLeft ==
    ASSUME NEW w \in Seq(Byte), NEW x \in Seq(Byte), NEW k \in Nat, k <= Len(w)
    PROVE  k <= Len(w \o x)
OBVIOUS

LEMMA WireStep ==
    ASSUME SocketType, WireInv, QueueInv, [Next]_vars
    PROVE  WireInv'
<1> USE DEF socketVars, closeVars, writeVars, wireVars, queueVars, localVars
<1>0. /\ wire \in Seq(Byte) /\ _writeQueue \in Seq(Seq(Byte)) /\ buffer \in Seq(Byte) /\ dequeued \in Seq(Values)
      /\ SocketType'
  BY TypeStep DEF SocketType, QueueInv, QueueType
<1>1. CASE Drain
  <2> DEFINE x == Bytes(FrontData)
             before == wire \o (FlattenSeq(_writeQueue) \o buffer)
  <2>1. /\ FrontData \in Values /\ dequeued' = Append(dequeued, FrontData)
        /\ x \in Seq(Byte) /\ x # <<>>
    BY <1>1, TakesNext, BytesType DEF Drain
  <2>2. \/ buffer' = buffer \o x /\ _writeQueue' = _writeQueue
        \/ buffer' = x /\ buffer # <<>> /\ _writeQueue' = Append(_writeQueue, buffer)
        \/ buffer' = <<>> /\ _writeQueue' = Append(Append(_writeQueue, buffer), x)
    BY <1>1, DrainCases
  <2>3. net = "drain" /\ UNCHANGED <<net, closeVars, wireVars>>
    BY <1>1 DEF Drain
  <2>4. Stream(dequeued') = Stream(dequeued) \o x /\ Stream(dequeued) \in Seq(Byte)
    BY <1>0, <2>1, StreamAppend
  <2> HIDE DEF x
  <2>5. wire' \o (FlattenSeq(_writeQueue') \o buffer') = before \o x
    <3> DEFINE q == _writeQueue
               b == buffer
    <3>1. wire \in Seq(Byte) /\ q \in Seq(Seq(Byte)) /\ b \in Seq(Byte)
      BY <1>0
    <3>2. /\ wire \o (FlattenSeq(q) \o (b \o x)) = (wire \o (FlattenSeq(q) \o b)) \o x
          /\ wire \o (FlattenSeq(Append(q, b)) \o x) = (wire \o (FlattenSeq(q) \o b)) \o x
          /\ wire \o (FlattenSeq(Append(Append(q, b), x)) \o <<>>) = (wire \o (FlattenSeq(q) \o b)) \o x
      BY <2>1, <3>1, ContentsDrain
    <3> QED
      BY <2>2, <2>3, <3>2, Zenon
  <2>6. ~Failed' => before = Stream(dequeued)
    BY <2>3 DEF Failed, WireInv
  <2>7. IsPrefix(wire', Stream(dequeued'))
    <3>1. IsPrefix(wire, Stream(dequeued)) /\ IsPrefix(Stream(dequeued), Stream(dequeued) \o x)
      BY <2>1, <2>4, PrefixConcat DEF WireInv
    <3>2. Stream(dequeued) \o x \in Seq(Byte)
      BY <2>1, <2>4, Joins
    <3> QED
      BY <1>0, <2>3, <2>4, <3>1, <3>2, PrefixTrans
  <2>8. _writeQueue' # <<>> => _writeQueue'[Len(_writeQueue')] # <<>>
    <3>1. ASSUME NEW q \in Seq(Seq(Byte)), NEW y \in Seq(Byte), y # <<>>
          PROVE  Append(q, y)[Len(Append(q, y))] # <<>>
      BY <3>1
    <3>2. Append(_writeQueue, buffer) \in Seq(Seq(Byte))
      BY <1>0
    <3> QED
      BY <1>0, <2>1, <2>2, <3>1, <3>2 DEF WireInv
  <2> QED
    BY <2>3, <2>4, <2>5, <2>6, <2>7, <2>8 DEF WireInv
<1>2. CASE DrainEnds
  <2>1. /\ buffer' = <<>> /\ _writeQueue' = IF buffer = <<>> THEN _writeQueue ELSE Append(_writeQueue, buffer)
        /\ UNCHANGED <<dequeued, closeVars, wireVars>>
    BY <1>2 DEF DrainEnds
  <2>2. FlattenSeq(_writeQueue') \o buffer' = FlattenSeq(_writeQueue) \o buffer
    BY <1>0, <2>1, ContentsDrainEnds
  <2>3. buffer # <<>> => Append(_writeQueue, buffer)[Len(Append(_writeQueue, buffer))] # <<>>
    BY <1>0
  <2> QED
    BY <2>1, <2>2, <2>3 DEF WireInv, Failed
<1>3. CASE WriteFails /\ UNCHANGED queueVars
  <2>1. /\ _writeQueue # <<>> /\ (Failed \/ First = <<>>) /\ net # "drain" /\ _writeQueue' = Tail(_writeQueue)
        /\ (shut => shut') /\ (shut' => _closed') /\ UNCHANGED <<buffer, wireVars, dequeued>>
    BY <1>3 DEF WriteFails, PopFirst, CloseSocket, Handling, WireInv
  <2>2. ~Failed' => wire \o (FlattenSeq(Tail(_writeQueue)) \o buffer) = Stream(dequeued)
    <3> SUFFICES ASSUME ~Failed' PROVE wire \o (FlattenSeq(Tail(_writeQueue)) \o buffer) = Stream(dequeued)
      OBVIOUS
    <3>1. ~Failed /\ First = <<>>
      BY <2>1 DEF Failed
    <3>2. FlattenSeq(_writeQueue) = <<>> \o FlattenSeq(Tail(_writeQueue))
      BY <1>0, <2>1, <3>1, FlattenHead DEF First
    <3>3. Tail(_writeQueue) \in Seq(Seq(Byte))
      BY <1>0, <2>1
    <3>4. FlattenSeq(_writeQueue) = FlattenSeq(Tail(_writeQueue))
      BY <3>2, <3>3, ContentsDrainEnds, Joins
    <3> QED
      BY <3>1, <3>4 DEF WireInv
  <2>3. Tail(_writeQueue) # <<>> => Tail(_writeQueue)[Len(Tail(_writeQueue))] # <<>>
    BY <1>0, <2>1, LastStays DEF WireInv
  <2>4. buffer' = <<>> /\ IsPrefix(wire', Stream(dequeued'))
    BY <2>1 DEF WireInv
  <2> QED
    BY <2>1, <2>2, <2>3, <2>4 DEF WireInv
<1>4. CASE WriteSome /\ UNCHANGED queueVars
  <2> DEFINE q == _writeQueue'
  <2>1. PICK n \in 0 .. Len(First) - 1 : Leave(n) /\ q = [_writeQueue EXCEPT ![1] = SubSeq(First, n + 1, Len(First))]
    BY <1>4 DEF WriteSome
  <2>2. /\ _writeQueue # <<>> /\ n \in 0 .. Len(First) /\ Len(First) \in Nat /\ ~Failed /\ net # "drain"
        /\ UNCHANGED <<buffer, closeVars, dequeued, broken>>
    BY <1>0, <1>4, <2>1 DEF WriteSome, First, Handling
  <2>3. wire' \o (FlattenSeq(_writeQueue') \o buffer) = Stream(dequeued)
    BY <1>0, <2>1, <2>2, ContentsSome DEF WireInv, First, Leave
  <2>4. IsPrefix(wire', Stream(dequeued))
    BY <1>0, <2>2, <2>3, MoveOn DEF SocketType
  <2>5. _writeQueue'[Len(_writeQueue')] # <<>>
    <3> DEFINE rest == SubSeq(First, n + 1, Len(First))
    <3>1. First \in Seq(Byte) /\ n \in Nat /\ n + 1 <= Len(First)
      BY <1>0, <2>1, <2>2 DEF First
    <3>2. rest \in Seq(Byte) /\ rest # <<>>
      <4>1. n \in 0 .. Len(First) - 1
        BY <2>1
      <4> QED
        BY <3>1, <4>1, RestStays
    <3>3. Len(q) = Len(_writeQueue) /\ Head(q) = rest /\ q \in Seq(Seq(Byte)) /\ q # <<>>
          /\ \A i \in 2 .. Len(_writeQueue) : q[i] = _writeQueue[i]
      BY <1>0, <2>1, <2>2, <3>2, PutFirst
    <3> HIDE DEF q, rest
    <3>4. CASE Len(_writeQueue) = 1
      BY <3>2, <3>3, <3>4 DEF q
    <3>5. CASE Len(_writeQueue) # 1
      <4>1. Len(_writeQueue) \in 2 .. Len(_writeQueue)
        <5>1. ASSUME NEW k \in Nat, k # 0, k # 1 PROVE k \in 2 .. k
          BY <5>1
        <5>2. Len(_writeQueue) \in Nat /\ Len(_writeQueue) # 0
          BY <1>0, <2>2, NotEmpty
        <5> QED
          BY <3>5, <5>1, <5>2
      <4>2. _writeQueue[Len(_writeQueue)] # <<>>
        BY <2>2 DEF WireInv
      <4> QED
        BY <3>3, <4>1, <4>2 DEF q
    <3> QED
      BY <3>4, <3>5
  <2> HIDE DEF q
  <2>6. buffer' = <<>> /\ (shut' => _closed')
    BY <2>2 DEF WireInv
  <2>7. received' <= Len(wire')
    <3>1. SubSeq(First, 1, n) \in Seq(Byte) /\ wire' = wire \o SubSeq(First, 1, n) /\ received' = received
      BY <1>0, <1>4, <2>1, <2>2, ContentsSome DEF Leave, First, WriteSome
    <3> QED
      BY <1>0, <3>1, MoreLeft DEF WireInv, SocketType
  <2> QED
    BY <2>2, <2>3, <2>4, <2>5, <2>6, <2>7 DEF WireInv
<1>5. CASE WriteAll /\ UNCHANGED queueVars
  <2>1. /\ _writeQueue # <<>> /\ ~Failed /\ net # "drain" /\ _writeQueue' = Tail(_writeQueue)
        /\ wire' = wire \o SubSeq(First, 1, Len(First))
        /\ (shut' => _closed') /\ UNCHANGED <<buffer, dequeued>>
    BY <1>5 DEF WriteAll, Leave, PopFirst, CloseSocket, Handling, WireInv
  <2>2. wire' \o (FlattenSeq(_writeQueue') \o buffer) = Stream(dequeued)
    BY <1>0, <2>1, ContentsAll DEF WireInv, First
  <2>3. IsPrefix(wire', Stream(dequeued))
    BY <1>0, <2>1, <2>2, MoveOn DEF SocketType
  <2>4. Tail(_writeQueue) # <<>> => Tail(_writeQueue)[Len(Tail(_writeQueue))] # <<>>
    BY <1>0, <2>1, LastStays DEF WireInv
  <2>5. buffer' = <<>>
    BY <2>1 DEF WireInv
  <2>6. received' <= Len(wire')
    <3>1. SubSeq(First, 1, Len(First)) \in Seq(Byte) /\ received' = received
      BY <1>0, <1>5, <2>1 DEF First, WriteAll
    <3> QED
      BY <1>0, <2>1, <3>1, MoreLeft DEF WireInv, SocketType
  <2> QED
    BY <2>1, <2>2, <2>3, <2>4, <2>5, <2>6 DEF WireInv
<1>6. CASE NothingToWrite /\ UNCHANGED queueVars
  BY <1>6, NothingMoves DEF NothingToWrite, Handling, Failed, WireInv
<1>7. ASSUME NEW s \in Producers, Enqueue(s) \/ EnqueueEnds(s)
      PROVE  WireInv'
  <2>1. UNCHANGED <<buffer, _writeQueue, wire, received, dequeued, closeVars, broken, net>>
    BY <1>7 DEF Enqueue, EnqueueEnds, Exchange, Link
  <2> QED
    BY <2>1, NothingMoves DEF Failed, WireInv
<1>8. ASSUME NEW s \in Senders, NEW p \in GamePackets, SendPacket(s, p)
      PROVE  WireInv'
  BY <1>8, NothingMoves DEF SendPacket, Failed, WireInv
<1>9. CASE Answer \/ HandlePing
  BY <1>9, NothingMoves DEF Answer, CheckIpCallback, HandleAuthSessionCallback, HandlePing, Failed, WireInv
<1>10. CASE UpdateStarts \/ Flush \/ NoQueryReady \/ Sent \/ WriteHandlerWrapper
  BY <1>10, NothingMoves DEF UpdateStarts, Flush, NoQueryReady, Sent, WriteHandlerWrapper, Failed, WireInv
<1>11. CASE HandleAuthSession \/ ReadFails
  <2>1. UNCHANGED <<buffer, _writeQueue, wire, received, dequeued, net, broken>>
    BY <1>11 DEF HandleAuthSession, ReadFails
  <2>2. (shut => shut') /\ (shut' => _closed')
    BY <1>11 DEF HandleAuthSession, ReadFails, CloseSocket, WireInv, SocketType
  <2> QED
    BY <2>1, <2>2, NothingMoves DEF Failed, WireInv
<1>14. CASE KickPlayer \/ KickEnds \/ ClientReads \/ ClientVanishes
  <2>1. UNCHANGED <<buffer, _writeQueue, wire, dequeued, net>> /\ (Failed => Failed') /\ (shut' => _closed')
    BY <1>14 DEF KickPlayer, KickEnds, ClientReads, ClientVanishes, Failed, WireInv
  <2>2. Len(wire) \in Nat /\ (received' = received \/ received' = Len(wire))
    BY <1>0, <1>14 DEF KickPlayer, KickEnds, ClientReads, ClientVanishes
  <2>3. received' <= Len(wire)
    BY <2>2 DEF WireInv
  <2> QED
    BY <2>1, <2>3, NothingMoves
<1>12. CASE UNCHANGED vars
  BY <1>12, NothingMoves DEF vars, Failed, WireInv
<1>13. Net \in Producers /\ Senders \subseteq Producers
  BY SocketAssumption DEF Senders
<1> QED
  BY <1>1, <1>2, <1>3, <1>4, <1>5, <1>6, <1>7, <1>8, <1>9, <1>10, <1>11, <1>12, <1>13, <1>14 DEF Next, NetworkThread, HandleQueue

-----------------------------------------------------------------------------
(* Who sends when *)

LEMMA SendersStep ==
    ASSUME SocketType, SendersInv, QueueInv, [Next]_vars
    PROVE  SendersInv'
<1> USE DEF socketVars, closeVars, writeVars, wireVars, queueVars, localVars
<1>0. /\ Net \in Producers /\ Challenge \in Values /\ Error \in Values /\ Pong \in Values /\ NoValue \notin Values
      /\ Senders = Producers \ {Net} /\ GamePackets \subseteq Values
      /\ pc \in [Producers -> {"idle", "link"}] /\ sending \in [Producers -> Values \cup {NoValue}]
  BY SocketAssumption DEF Senders, GamePackets, QueueInv, QueueType, SocketType
<1>1. ASSUME NEW s \in Producers, Enqueue(s)
      PROVE  SendersInv'
  BY <1>0, <1>1 DEF Enqueue, Exchange, SendersInv
<1>2. ASSUME NEW s \in Producers, EnqueueEnds(s)
      PROVE  SendersInv'
  BY <1>0, <1>2 DEF EnqueueEnds, Link, SendersInv
<1>3. ASSUME NEW s \in Senders, NEW p \in GamePackets, SendPacket(s, p)
      PROVE  SendersInv'
  BY <1>0, <1>3 DEF SendPacket, Send, SendersInv
<1>4. CASE Drain
  BY <1>4, TakesNext DEF Drain, SendersInv
<1>5. CASE HandleQueue
  BY <1>5 DEF HandleQueue, NothingToWrite, WriteFails, WriteSome, WriteAll, Handling, SendersInv
<1>6. CASE CheckIpCallback \/ HandlePing
  BY <1>0, <1>6 DEF CheckIpCallback, HandlePing, Send, SendersInv
<1>7. CASE HandleAuthSessionCallback
  BY <1>0, <1>7 DEF HandleAuthSessionCallback, Send, SendersInv
<1>8. CASE DrainEnds \/ UpdateStarts \/ Flush \/ NoQueryReady \/ Sent \/ WriteHandlerWrapper
  BY <1>8 DEF DrainEnds, UpdateStarts, Flush, NoQueryReady, Sent, WriteHandlerWrapper, SendersInv
<1>9. CASE HandleAuthSession \/ ReadFails \/ KickPlayer \/ KickEnds \/ ClientReads \/ ClientVanishes
  BY <1>9 DEF HandleAuthSession, ReadFails, KickPlayer, KickEnds, ClientReads, ClientVanishes, SendersInv
<1>10. CASE UNCHANGED vars
  BY <1>10 DEF vars, SendersInv
<1> QED
  BY <1>0, <1>1, <1>2, <1>3, <1>4, <1>5, <1>6, <1>7, <1>8, <1>9, <1>10 DEF Next, NetworkThread, Answer

-----------------------------------------------------------------------------
(* The handshake *)

(* Equal lengths: everything that was put into the queue was taken out.    *)
LEMMA AllTaken ==
    ASSUME QueueInv, Len(dequeued) >= Len(enqueued)
    PROVE  dequeued = enqueued
<1>1. /\ dequeued \in Seq(Values) /\ enqueued \in Seq(Values) /\ Len(dequeued) <= Len(enqueued)
      /\ \A k \in 1 .. Len(dequeued) : dequeued[k] = enqueued[k]
  BY DEF QueueInv, QueueType, PrefixInv
<1>2. Len(dequeued) = Len(enqueued)
  BY <1>1
<1> QED
  BY <1>1, <1>2, SeqEqual

(* A client that has read the end of the challenge has read all that was   *)
(* ever sent.                                                              *)
LEMMA ChallengeRead ==
    ASSUME SocketType, WireInv, QueueInv, enqueued = <<Challenge>>, ~Failed, net # "drain",
           <<Challenge, Size[Challenge]>> \in Range(SubSeq(wire, 1, received))
    PROVE  Flushed
<1>0. /\ wire \in Seq(Byte) /\ _writeQueue \in Seq(Seq(Byte)) /\ buffer \in Seq(Byte) /\ received \in Nat
      /\ dequeued \in Seq(Values) /\ Challenge \in Values /\ received <= Len(wire)
  BY SocketAssumption DEF SocketType, WireInv, QueueInv, QueueType
<1>1. PICK k \in 1 .. received : wire[k] = <<Challenge, Size[Challenge]>>
  <2>1. \A i \in 1 .. received : SubSeq(wire, 1, received)[i] = wire[i]
    BY <1>0
  <2>2. DOMAIN SubSeq(wire, 1, received) = 1 .. received
    BY <1>0
  <2> QED
    BY <2>1, <2>2 DEF Range
<1> DEFINE stream == Stream(dequeued)
<1>2. stream \in Seq(Byte) /\ IsPrefix(wire, stream)
  BY <1>0, StreamType DEF WireInv
<1>3. Len(wire) <= Len(stream) /\ \A i \in 1 .. Len(wire) : wire[i] = stream[i]
  BY <1>0, <1>2, PrefixIs
<1>4. k \in 1 .. Len(wire) /\ k \in 1 .. Len(stream) /\ stream[k] = <<Challenge, Size[Challenge]>>
  <2>1. k \in Nat /\ Len(wire) \in Nat /\ Len(stream) \in Nat /\ k <= Len(wire) /\ k >= 1
    BY <1>0, <1>1, <1>2
  <2> QED
    BY <1>1, <1>3, <2>1
<1>5. dequeued # <<>>
  <2>1. ASSUME dequeued = <<>> PROVE FALSE
    <3>1. stream = <<>>
      BY <2>1, StreamEmpty
    <3> QED
      BY <1>4, <3>1
  <2> QED
    BY <2>1
<1>6. Len(dequeued) >= Len(enqueued)
  <2>1. Len(dequeued) # 0
    BY <1>0, <1>5, NotEmpty
  <2> QED
    BY <1>0, <2>1
<1>7. dequeued = Append(<<>>, Challenge)
  BY <1>6, AllTaken
<1>8. stream = Bytes(Challenge)
  <2>0. <<>> \in Seq(Values)
    OBVIOUS
  <2>1. Stream(Append(<<>>, Challenge)) = Stream(<<>>) \o Bytes(Challenge)
    BY <1>0, <2>0, StreamAppend
  <2> QED
    BY <1>0, <1>7, <2>1, StreamEmpty, BytesType, Joins
<1>9. /\ Len(stream) = Size[Challenge] /\ Size[Challenge] \in Nat
      /\ \A i \in 1 .. Size[Challenge] : stream[i] = <<Challenge, i>>
  BY <1>0, <1>8, BytesType
<1> HIDE DEF stream
<1>10. k = Size[Challenge]
  BY <1>4, <1>9
<1>11. Len(wire) = Len(stream)
  <2>1. Len(wire) \in Nat
    BY <1>0
  <2> QED
    BY <1>3, <1>4, <1>9, <1>10, <2>1
<1> DEFINE mb == FlattenSeq(_writeQueue) \o buffer
<1>12. wire \o mb = stream /\ mb \in Seq(Byte)
  BY <1>0, ContentsDrainEnds, Joins DEF WireInv, stream
<1>13. mb = <<>>
  <2> HIDE DEF mb
  <2>1. Len(wire \o mb) = Len(wire) + Len(mb) /\ Len(wire) \in Nat /\ Len(mb) \in Nat
    BY <1>0, <1>12
  <2>2. Len(mb) = 0
    BY <1>11, <1>12, <2>1
  <2> QED
    BY <1>12, <2>2
<1>14. _writeQueue = <<>> /\ buffer = <<>>
  BY <1>0, <1>13, ContentsEmpty DEF WireInv
<1> QED
  BY <1>6, <1>7, <1>14 DEF Flushed

(* A closing socket is closed when its last buffer has left, and then      *)
(* everything that was sent has.                                           *)
LEMMA LastLeaves ==
    ASSUME SocketType, WireInv, QueueInv, ~Failed, WriteAll, Tail(_writeQueue) = <<>>,
           Len(dequeued) >= Len(enqueued)
    PROVE  wire' = Stream(enqueued)
<1>0. /\ wire \in Seq(Byte) /\ _writeQueue \in Seq(Seq(Byte)) /\ buffer = <<>> /\ _writeQueue # <<>>
      /\ <<>> \in Seq(Byte)
  BY Joins DEF SocketType, WireInv, WriteAll, Handling
<1>1. wire' = wire \o SubSeq(First, 1, Len(First)) /\ wire' \in Seq(Byte)
  BY <1>0, ContentsAll DEF WriteAll, Leave, First
<1>2. wire' \o (FlattenSeq(Tail(_writeQueue)) \o <<>>) = Stream(dequeued)
  BY <1>0, <1>1, ContentsAll DEF WireInv, First
<1>3. FlattenSeq(Tail(_writeQueue)) = <<>>
  BY DEF FlattenSeq
<1>4. wire' = Stream(dequeued)
  BY <1>0, <1>1, <1>2, <1>3, Joins
<1> QED
  BY <1>4, AllTaken

\* A buffer that an error loses, or that is empty, is not the last while the connection holds
LEMMA NotTheLast ==
    ASSUME SocketType, WireInv, ~Failed, WriteFails
    PROVE  Tail(_writeQueue) # <<>>
<1>1. _writeQueue \in Seq(Seq(Byte)) /\ _writeQueue # <<>> /\ Head(_writeQueue) = <<>> /\ _writeQueue[Len(_writeQueue)] # <<>>
  BY DEF SocketType, WireInv, WriteFails, First
<1>2. Len(_writeQueue) # 1
  BY <1>1
<1>3. Len(Tail(_writeQueue)) = Len(_writeQueue) - 1 /\ Len(_writeQueue) \in Nat
  BY <1>1
<1>4. Len(Tail(_writeQueue)) # 0
  BY <1>2, <1>3
<1>5. Len(<<>>) = 0
  OBVIOUS
<1> QED
  BY <1>4, <1>5

LEMMA HandshakeStep ==
    ASSUME SocketInv, QueueInv, QueueInv', SocketType', SendersInv', [Next]_vars
    PROVE  HandshakeInv'
<1> USE DEF socketVars, closeVars, writeVars, wireVars, queueVars, localVars, IsOpen
<1>0. /\ Net \in Producers /\ Challenge \in Values /\ Error \in Values /\ Pong \in Values /\ NoValue \notin Values
      /\ Senders = Producers \ {Net} /\ GamePackets \subseteq Values
      /\ pc \in [Producers -> {"idle", "link"}] /\ sending \in [Producers -> Values \cup {NoValue}]
      /\ enqueued \in Seq(Values) /\ dequeued \in Seq(Values) /\ Len(dequeued) <= Len(enqueued)
      /\ Len(enqueued) \in Nat /\ Len(dequeued) \in Nat
  <2>1. /\ Net \in Producers /\ Challenge \in Values /\ Error \in Values /\ Pong \in Values /\ NoValue \notin Values
        /\ Senders = Producers \ {Net} /\ GamePackets \subseteq Values
    BY SocketAssumption DEF Senders, GamePackets
  <2>2. pc \in [Producers -> {"idle", "link"}] /\ sending \in [Producers -> Values \cup {NoValue}]
    BY DEF QueueInv, QueueType, SocketInv, SocketType
  <2>3. enqueued \in Seq(Values) /\ dequeued \in Seq(Values) /\ Len(dequeued) <= Len(enqueued)
    BY DEF QueueInv, QueueType, PrefixInv
  <2> QED
    BY <2>1, <2>2, <2>3
<1>1. /\ \A s \in Producers : pc[s] = "link" => sending[s] # NoValue
      /\ sending[Net] # NoValue => net = "send"
      /\ phase # "session" => \A s \in Senders : sending[s] = NoValue
      /\ net # "drain" => buffer = <<>>
  BY DEF SocketInv, SendersInv, WireInv
<1>2. HandshakeInv
  BY DEF SocketInv
<1>3. CASE phase = "session" /\ phase' = "session"
  BY <1>3 DEF HandshakeInv
<1>4. ASSUME NEW s \in Senders, phase # "session", Enqueue(s) \/ EnqueueEnds(s)
      PROVE  FALSE
  BY <1>0, <1>1, <1>4 DEF Enqueue, EnqueueEnds, Link
<1>5. CASE phase # "session" /\ Enqueue(Net)
  <2>1. /\ sending[Net] # NoValue /\ pc[Net] = "idle" /\ net = "send" /\ pc' = [pc EXCEPT ![Net] = "link"]
        /\ enqueued' = Append(enqueued, sending[Net])
        /\ UNCHANGED <<net, phase, reading, _closing, _closed, sending, shut, buffer, _writeQueue, wire, broken, dequeued>>
    BY <1>1, <1>5 DEF Enqueue, Exchange
  <2>2. phase # "ip" /\ phase # "auth"
    BY <1>2, <2>1 DEF HandshakeInv
  <2>3. CASE phase = "challenged"
    BY <1>0, <1>2, <2>1, <2>3 DEF HandshakeInv
  <2>4. CASE phase = "rejected"
    <3>1. ~reading /\ sending[Net] = Error /\ ~_closing /\ ~_closed /\ (~broken => Flushed)
      BY <1>2, <2>1, <2>4 DEF HandshakeInv, AnswerInv
    <3>2. /\ enqueued' # <<>> /\ enqueued'[Len(enqueued')] = Error /\ Len(enqueued') = Len(enqueued) + 1
          /\ pc'[Net] = "link"
      BY <1>0, <2>1, <3>1
    <3>3. AnswerInv'
      BY <1>0, <2>1, <3>1, <3>2 DEF AnswerInv, Flushed
    <3> QED
      BY <2>1, <2>4, <3>1, <3>3 DEF HandshakeInv
  <2> QED
    BY <1>5, <2>1, <2>2, <2>3, <2>4 DEF HandshakeInv
<1>6. CASE phase # "session" /\ EnqueueEnds(Net)
  <2>1. /\ pc[Net] = "link" /\ sending[Net] # NoValue /\ net = "send" /\ sending'[Net] = NoValue
        /\ UNCHANGED <<enqueued, dequeued, net, phase, reading, _closing, _closed, shut, buffer, _writeQueue, wire, broken>>
    BY <1>0, <1>1, <1>6 DEF EnqueueEnds, Link
  <2> QED
    BY <1>2, <1>6, <2>1 DEF HandshakeInv, AnswerInv, Flushed
<1>7. CASE phase # "session" /\ Drain
  <2>1. /\ net = "drain" /\ Len(dequeued') = Len(dequeued) + 1 /\ Len(dequeued) + 1 <= Len(enqueued)
        /\ UNCHANGED <<enqueued, pc, net, phase, reading, sending, _closing, _closed, shut, wire, broken>>
    BY <1>7, TakesNext DEF Drain
  <2>2. phase # "ip"
    BY <1>0, <1>2, <2>1 DEF HandshakeInv
  <2>3. phase = "auth" => broken
    BY <1>0, <1>2, <2>1 DEF HandshakeInv, Flushed
  <2>4. phase = "rejected" => AnswerInv'
    BY <1>0, <1>2, <2>1 DEF HandshakeInv, AnswerInv
  <2> QED
    BY <1>2, <1>7, <2>1, <2>2, <2>3, <2>4 DEF HandshakeInv
<1>8. CASE phase # "session" /\ DrainEnds
  <2>1. /\ net = "drain" /\ net' = "flush" /\ buffer' = <<>> /\ (_writeQueue = <<>> /\ buffer = <<>> => _writeQueue' = <<>>)
        /\ UNCHANGED <<enqueued, dequeued, pc, phase, reading, sending, _closing, _closed, shut, wire, broken>>
    BY <1>8 DEF DrainEnds
  <2> QED
    BY <1>2, <1>8, <2>1 DEF HandshakeInv, AnswerInv, Flushed
<1>9. CASE phase # "session" /\ HandleQueue
  <2>1. /\ net \in {"write", "handle"} /\ net' # "send" /\ buffer = <<>>
        /\ UNCHANGED <<enqueued, dequeued, pc, phase, reading, sending, _closing, broken, buffer>>
    BY <1>1, <1>9 DEF HandleQueue, NothingToWrite, WriteFails, WriteSome, WriteAll, Handling, Return
  <2>2. _writeQueue = <<>> => UNCHANGED <<_writeQueue, closeVars, wire>>
    BY <1>9 DEF HandleQueue, NothingToWrite, WriteFails, WriteSome, WriteAll
  <2>3. ~_closing => UNCHANGED closeVars
    BY <1>9 DEF HandleQueue, NothingToWrite, WriteFails, WriteSome, WriteAll, PopFirst
  <2>4. CASE phase # "rejected"
    BY <1>2, <1>9, <2>1, <2>2, <2>3, <2>4 DEF HandshakeInv, Flushed
  <2>5. CASE phase = "rejected"
    <3>1. /\ ~reading /\ enqueued # <<>> /\ enqueued[Len(enqueued)] = Error /\ _closing /\ sending[Net] = NoValue
          /\ ~broken => /\ Len(dequeued) >= Len(enqueued) - 1
                        /\ _closed => shut /\ wire = Stream(enqueued)
                        /\ ~_closed /\ _writeQueue # <<>> => Len(dequeued) = Len(enqueued)
      BY <1>2, <2>1, <2>5 DEF HandshakeInv, AnswerInv
    <3>2. ASSUME ~broken
          PROVE  /\ _closed' => shut' /\ wire' = Stream(enqueued)
                 /\ ~_closed' /\ _writeQueue' # <<>> => Len(dequeued) = Len(enqueued)
      <4>1. CASE NothingToWrite
        BY <3>1, <3>2, <4>1 DEF NothingToWrite
      <4>2. CASE Failed
        <5>1. shut /\ _closed
          BY <3>2, <4>2 DEF Failed, SocketInv, WireInv
        <5>2. NothingToWrite \/ WriteFails
          BY <1>9, <4>2 DEF HandleQueue, WriteSome, WriteAll
        <5>3. wire' = wire /\ shut' /\ _closed'
          BY <5>1, <5>2 DEF NothingToWrite, WriteFails, PopFirst, CloseSocket
        <5> QED
          BY <3>1, <3>2, <5>1, <5>3
      <4>3. CASE ~Failed /\ WriteFails
        <5>1. Tail(_writeQueue) # <<>>
          BY <4>3, NotTheLast DEF SocketInv
        <5>2. _writeQueue # <<>> /\ UNCHANGED <<closeVars, wire>>
          BY <4>3, <5>1 DEF WriteFails, PopFirst
        <5> QED
          BY <3>1, <3>2, <5>2
      <4>4. CASE WriteSome
        <5>1. _writeQueue # <<>> /\ ~Failed /\ UNCHANGED closeVars
          BY <4>4 DEF WriteSome
        <5>2. ~_closed
          BY <3>1, <3>2, <5>1 DEF Failed
        <5> QED
          BY <3>1, <3>2, <5>1, <5>2
      <4>5. CASE WriteAll
        <5>1. _writeQueue # <<>> /\ ~Failed
          BY <4>5 DEF WriteAll
        <5>2. ~_closed
          BY <3>1, <3>2, <5>1 DEF Failed
        <5>3. Len(dequeued) = Len(enqueued)
          BY <3>1, <3>2, <5>1, <5>2
        <5>4. CASE Tail(_writeQueue) = <<>>
          <6>1. wire' = Stream(enqueued)
            BY <1>0, <4>5, <5>1, <5>3, <5>4, LastLeaves DEF SocketInv
          <6>2. shut' /\ _closed'
            BY <3>1, <4>5, <5>2, <5>4 DEF WriteAll, PopFirst, CloseSocket
          <6> QED
            BY <5>3, <6>1, <6>2
        <5>5. CASE Tail(_writeQueue) # <<>>
          <6>1. _closed' = _closed
            BY <4>5, <5>5 DEF WriteAll, PopFirst
          <6> QED
            BY <5>2, <5>3, <6>1
        <5> QED
          BY <5>4, <5>5
      <4> QED
        BY <1>9, <4>1, <4>2, <4>3, <4>4, <4>5 DEF HandleQueue
    <3>3. AnswerInv'
      BY <2>1, <3>1, <3>2 DEF AnswerInv
    <3> QED
      BY <2>1, <2>5, <3>1, <3>3 DEF HandshakeInv
  <2> QED
    BY <2>4, <2>5
<1>10. CASE CheckIpCallback
  <2>1. pc[Net] = "idle" /\ sending[Net] = NoValue /\ net = "queries" /\ phase = "ip"
    BY <1>0, <1>1, <1>10 DEF CheckIpCallback
  <2>2. IsOpen /\ ~reading /\ enqueued = <<>> /\ Flushed
    BY <1>2, <2>1 DEF HandshakeInv
  <2>3. /\ UNCHANGED <<enqueued, dequeued, pc, _closing, _closed, shut, buffer, _writeQueue, wire, broken>>
        /\ net' = "send"
        /\ \/ phase' = "challenged" /\ sending' = [sending EXCEPT ![Net] = Challenge]
           \/ phase' = "rejected" /\ sending' = [sending EXCEPT ![Net] = Error] /\ reading' = reading
    BY <1>10, <2>2 DEF CheckIpCallback, Send
  <2> QED
    BY <1>0, <2>1, <2>2, <2>3 DEF HandshakeInv, AnswerInv, Flushed
<1>11. CASE HandleAuthSessionCallback
  <2>1. pc[Net] = "idle" /\ sending[Net] = NoValue /\ net = "queries" /\ phase = "auth"
    BY <1>0, <1>1, <1>11 DEF HandleAuthSessionCallback
  <2>2. IsOpen /\ ~reading /\ (~broken => Flushed)
    BY <1>2, <2>1 DEF HandshakeInv
  <2>3. UNCHANGED <<enqueued, dequeued, pc, _closing, _closed, shut, buffer, _writeQueue, wire, broken>>
    BY <1>11 DEF HandleAuthSessionCallback
  <2>4. \/ phase' = "session"
        \/ net' = "send" /\ phase' = "rejected" /\ sending' = [sending EXCEPT ![Net] = Error] /\ reading' = reading
    BY <1>11, <2>2 DEF HandleAuthSessionCallback, Send
  <2> QED
    BY <1>0, <2>1, <2>2, <2>3, <2>4 DEF HandshakeInv, AnswerInv, Flushed
<1>12. CASE phase # "session" /\ Sent
  <2>1. /\ net = "send" /\ sending[Net] = NoValue /\ _closing' = (phase = "rejected")
        /\ UNCHANGED <<enqueued, dequeued, pc, phase, reading, sending, _closed, shut, buffer, _writeQueue, wire, broken>>
    BY <1>12 DEF Sent
  <2> QED
    BY <1>0, <1>2, <1>12, <2>1 DEF HandshakeInv, AnswerInv, Flushed
<1>13. CASE HandleAuthSession
  <2>1. /\ net = "idle" /\ phase = "challenged" /\ IsOpen /\ phase' = "auth" /\ ~reading'
        /\ UNCHANGED <<enqueued, dequeued, pc, sending, _closing, _closed, buffer, _writeQueue, broken>>
    BY <1>13 DEF HandleAuthSession
  <2>2. enqueued = <<Challenge>> /\ sending[Net] = NoValue
    BY <1>1, <1>2, <2>1 DEF HandshakeInv
  <2>3. ~broken => ~Failed
    BY <2>1 DEF Failed, SocketInv, WireInv
  <2>4. ~broken => Flushed
    BY <1>13, <2>1, <2>2, <2>3, ChallengeRead DEF HandleAuthSession, SocketInv
  <2> QED
    BY <2>1, <2>2, <2>4 DEF HandshakeInv, Flushed
<1>14. CASE phase # "session" /\ (UpdateStarts \/ Flush \/ NoQueryReady \/ WriteHandlerWrapper)
  <2>1. /\ net # "send"
        /\ UNCHANGED <<enqueued, dequeued, pc, phase, reading, sending, _closing, _closed, shut, buffer, _writeQueue, wire, broken>>
    BY <1>14 DEF UpdateStarts, Flush, NoQueryReady, WriteHandlerWrapper
  <2> QED
    BY <1>2, <1>14, <2>1 DEF HandshakeInv, AnswerInv, Flushed
<1>15. CASE phase # "session" /\ (ReadFails \/ KickEnds \/ ClientReads \/ ClientVanishes)
  <2>1. UNCHANGED <<enqueued, dequeued, pc, phase, net, sending, _closing, buffer, _writeQueue, wire>>
    BY <1>15 DEF ReadFails, KickEnds, ClientReads, ClientVanishes
  <2>2. CASE ReadFails
    <3>1. phase = "challenged" /\ net = "idle"
      BY <1>2, <1>15, <2>2 DEF ReadFails, HandshakeInv, SocketInv, SocketType
    <3> QED
      BY <1>2, <2>1, <3>1 DEF HandshakeInv
  <2>3. CASE KickEnds
    <3>1. _closed /\ ~shut /\ UNCHANGED <<_closed, reading, broken>>
      BY <2>3 DEF KickEnds
    <3> QED
      BY <1>2, <1>15, <2>1, <3>1 DEF HandshakeInv, AnswerInv, Flushed
  <2>4. CASE ClientReads \/ ClientVanishes
    <3>1. UNCHANGED <<_closed, shut, reading>> /\ (broken => broken')
      BY <2>4 DEF ClientReads, ClientVanishes
    <3> QED
      BY <1>2, <1>15, <2>1, <3>1 DEF HandshakeInv, AnswerInv, Flushed
  <2> QED
    BY <1>15, <2>2, <2>3, <2>4
<1>16. CASE UNCHANGED vars
  BY <1>2, <1>16 DEF vars, HandshakeInv, AnswerInv, Flushed
<1>17. [Next]_vars /\ phase = "session" => phase' = "session"
  BY DEF vars, Next, NetworkThread, UpdateStarts, Drain, DrainEnds, Flush, HandleQueue, NoQueryReady, Sent, Enqueue,
         EnqueueEnds, WriteHandlerWrapper, Answer, CheckIpCallback, HandleAuthSessionCallback, HandleAuthSession,
         HandlePing, ReadFails, SendPacket, KickPlayer, KickEnds, ClientReads, ClientVanishes
<1>18. ASSUME NEW s \in Senders, NEW p \in GamePackets, SendPacket(s, p) \/ HandlePing \/ KickPlayer
       PROVE  phase = "session"
  BY <1>18 DEF SendPacket, HandlePing, KickPlayer
<1>19. HandlePing \/ KickPlayer => phase = "session"
  BY DEF HandlePing, KickPlayer
<1> QED
  BY <1>3, <1>4, <1>5, <1>6, <1>7, <1>8, <1>9, <1>10, <1>11, <1>12, <1>13, <1>14, <1>15, <1>16, <1>17, <1>18, <1>19
     DEF Next, NetworkThread, Answer

-----------------------------------------------------------------------------
(* The invariant and what follows from it *)

LEMMA Invariance == Spec => [](SocketInv /\ QueueInv)
<1>1. Init => SocketInv
  <2>1. ASSUME Init PROVE SocketType
    <3>1. buffer \in Seq(Byte) /\ _writeQueue \in Seq(Seq(Byte)) /\ wire \in Seq(Byte) /\ received \in Nat
      BY <2>1 DEF Init
    <3> QED
      BY <2>1, <3>1 DEF Init, SocketType
  <2>2. ASSUME Init PROVE WireInv
    <3>1. wire = <<>> /\ _writeQueue = <<>> /\ buffer = <<>> /\ dequeued = <<>> /\ received = 0 /\ ~shut
      BY <2>2 DEF Init, QueueInit
    <3>2. FlattenSeq(<<>>) = <<>> /\ Stream(<<>>) = <<>>
      BY StreamEmpty DEF FlattenSeq
    <3>3. wire \o (FlattenSeq(_writeQueue) \o buffer) = Stream(dequeued)
      BY <3>1, <3>2, Joins
    <3>4. IsPrefix(wire, Stream(dequeued)) /\ received <= Len(wire)
      <4>1. <<>> \in Seq(Byte) /\ 0 <= Len(<<>>)
        OBVIOUS
      <4> QED
        BY <3>1, <3>2, <4>1, PrefixConcat
    <3> QED
      BY <3>1, <3>3, <3>4 DEF WireInv
  <2>3. ASSUME Init PROVE SendersInv /\ HandshakeInv
    BY <2>3, SocketAssumption DEF Init, QueueInit, SendersInv, HandshakeInv, Senders, IsOpen, Flushed
  <2> QED
    BY <2>1, <2>2, <2>3 DEF SocketInv
<1>2. SocketInv /\ QueueInv /\ QueueInv' /\ [Next]_vars => SocketInv'
  BY TypeStep, WireStep, SendersStep, HandshakeStep DEF SocketInv
<1>3. Spec => []QueueInv
  BY SendsThroughQueue, QueueInvariance, PTL
<1> QED
  BY <1>1, <1>2, <1>3, PTL DEF Spec

\* The last byte of the last packet of a stream
LEMMA LastByte ==
    ASSUME NEW ps \in Seq(Values), ps # <<>>, NEW p \in Values, ps[Len(ps)] = p
    PROVE  <<p, Size[p]>> \in Range(Stream(ps))
<1> DEFINE front == SubSeq(ps, 1, Len(ps) - 1)
           s     == Stream(front)
           x     == Bytes(p)
<1>1. front \in Seq(Values) /\ ps = Append(front, p)
  BY PutLast
<1> HIDE DEF front
<1>2. Stream(ps) = s \o x /\ s \in Seq(Byte)
  BY <1>1, StreamAppend
<1>3. x \in Seq(Byte) /\ Len(x) = Size[p] /\ Size[p] \in Nat \ {0} /\ x[Size[p]] = <<p, Size[p]>>
  BY BytesType
<1> HIDE DEF s, x
<1>0. ASSUME NEW a \in Seq(Byte), NEW b \in Seq(Byte), b # <<>>
      PROVE  Len(a) + Len(b) \in DOMAIN (a \o b) /\ (a \o b)[Len(a) + Len(b)] = b[Len(b)]
  BY <1>0
<1>4. (s \o x)[Len(s) + Len(x)] = x[Size[p]] /\ Len(s) + Len(x) \in DOMAIN (s \o x)
  <2>1. x # <<>>
    BY BytesType DEF x
  <2> QED
    BY <1>0, <1>2, <1>3, <2>1
<1> QED
  BY <1>2, <1>3, <1>4 DEF Range

(* A client that is refused is told so before its socket is closed.  The   *)
(* answer may still be in the lock-free queue when DelayedCloseSocket is   *)
(* called; it is safe because the network thread itself has sent it, and   *)
(* drains that queue before it next looks whether there is nothing left.   *)
THEOREM RefusalTold == Spec => []RejectionTold
<1>1. SocketInv /\ QueueInv => RejectionTold
  <2> SUFFICES ASSUME SocketInv, QueueInv, Refused PROVE <<Error, Size[Error]>> \in Range(wire)
    BY DEF RejectionTold
  <2>1. phase = "rejected" /\ _closed /\ ~broken
    BY DEF Refused
  <2>2. enqueued # <<>> /\ enqueued[Len(enqueued)] = Error /\ wire = Stream(enqueued)
    BY <2>1 DEF SocketInv, HandshakeInv, AnswerInv, IsOpen
  <2>3. enqueued \in Seq(Values) /\ Error \in Values
    BY SocketAssumption DEF QueueInv, QueueType
  <2> QED
    BY <2>2, <2>3, LastByte
<1> QED
  BY <1>1, Invariance, PTL

-----------------------------------------------------------------------------
(* The abstract stream *)

LEMMA SameStream == \A ps : Abstract!Stream(ps) = Stream(ps)
BY DEF Abstract!Stream, Stream, Abstract!Bytes, Bytes, Abstract!FlattenSeq, FlattenSeq

LEMMA StreamSteps ==
    ASSUME SocketInv, QueueInv, SocketInv', QueueInv', [Next]_vars
    PROVE  [Abstract!Next]_(Abstract!streamVars)
<1> USE DEF socketVars, closeVars, writeVars, wireVars, queueVars, localVars
<1>1. Abstract!Accept
  <2>1. ASSUME NEW s \in Producers, Enqueue(s) PROVE Abstract!Accept
    <3>1. enqueued' = Append(enqueued, sending[s]) /\ sending[s] # NoValue
      BY <2>1 DEF Enqueue, Exchange
    <3>2. sending[s] \in Values
      BY <3>1 DEF SocketInv, SocketType
    <3> QED
      BY <3>1, <3>2 DEF Abstract!Accept
  <2>2. ASSUME NEW s \in Producers, EnqueueEnds(s) PROVE enqueued' = enqueued
    BY <2>2 DEF EnqueueEnds, Link
  <2>3. CASE Drain
    BY <2>3 DEF Drain, Dequeue, Abstract!Accept
  <2>4. Net \in Producers /\ Senders \subseteq Producers
    BY SocketAssumption DEF Senders
  <2>5. \/ \E s \in Producers : Enqueue(s) \/ EnqueueEnds(s)
        \/ Drain
        \/ enqueued' = enqueued
    BY <2>4 DEF vars, Next, NetworkThread, UpdateStarts, DrainEnds, Flush, HandleQueue, NoQueryReady, Sent,
       WriteHandlerWrapper, Answer, CheckIpCallback, HandleAuthSessionCallback, HandleAuthSession,
       HandlePing, ReadFails, SendPacket, KickPlayer, KickEnds, ClientReads, ClientVanishes
  <2> QED
    BY <2>1, <2>2, <2>3, <2>5 DEF Abstract!Accept
<1>2. Abstract!Deliver
  <2>0. wire \in Seq(Byte) /\ wire' \in Seq(Byte) /\ _writeQueue \in Seq(Seq(Byte))
    BY DEF SocketInv, SocketType
  <2>1. IsPrefix(wire, wire')
    <3>1. wire' = wire \/ WriteSome \/ WriteAll
      BY DEF vars, Next, NetworkThread, UpdateStarts, Drain, DrainEnds, Flush, HandleQueue, NothingToWrite, WriteFails,
         NoQueryReady, Sent, Enqueue, EnqueueEnds, WriteHandlerWrapper, Answer, CheckIpCallback,
         HandleAuthSessionCallback, HandleAuthSession, HandlePing, ReadFails, SendPacket, KickPlayer, KickEnds,
         ClientReads, ClientVanishes
    <3>2. CASE WriteSome
      <4>1. PICK n \in 0 .. Len(First) - 1 : Leave(n)
        BY <3>2 DEF WriteSome
      <4>2. First \in Seq(Byte)
        BY <2>0, <3>2 DEF WriteSome, First
      <4>3. SubSeq(First, 1, n) \in Seq(Byte)
        BY <4>1, <4>2, SplitAt
      <4> QED
        BY <2>0, <4>1, <4>3, PrefixConcat DEF Leave
    <3>3. CASE WriteAll
      <4>1. First \in Seq(Byte)
        BY <2>0, <3>3 DEF WriteAll, First
      <4>2. SubSeq(First, 1, Len(First)) \in Seq(Byte)
        BY <4>1
      <4> QED
        BY <2>0, <3>3, <4>2, PrefixConcat DEF WriteAll, Leave
    <3> QED
      BY <2>0, <3>1, <3>2, <3>3, PrefixConcat
  <2>2. IsPrefix(wire', Stream(enqueued'))
    <3>1. IsPrefix(wire', Stream(dequeued'))
      BY DEF SocketInv, WireInv
    <3>2. /\ dequeued' \in Seq(Values) /\ enqueued' \in Seq(Values) /\ Len(dequeued') <= Len(enqueued')
          /\ \A k \in 1 .. Len(dequeued') : dequeued'[k] = enqueued'[k]
      BY DEF QueueInv, QueueType, PrefixInv
    <3>3. IsPrefix(Stream(dequeued'), Stream(enqueued')) /\ Stream(dequeued') \in Seq(Byte) /\ Stream(enqueued') \in Seq(Byte)
      BY <3>2, StreamPrefix, StreamType
    <3> QED
      BY <2>0, <3>1, <3>3, PrefixTrans
  <2> QED
    BY <2>1, <2>2, SameStream DEF Abstract!Deliver, Abstract!IsPrefix, IsPrefix
<1>3. Abstract!Close
  <2> SUFFICES ASSUME _closed' # _closed
               PROVE  _closed' /\ ((broken' \/ phase' # "rejected") \/ (_closing /\ wire' = Stream(enqueued')))
    BY SameStream DEF Abstract!Close
  <2>1. ReadFails \/ KickPlayer \/ HandleQueue
    BY DEF vars, Next, NetworkThread, UpdateStarts, Drain, DrainEnds, Flush, NoQueryReady, Sent, Enqueue,
       EnqueueEnds, WriteHandlerWrapper, Answer, CheckIpCallback, HandleAuthSessionCallback, HandleAuthSession,
       HandlePing, SendPacket, KickEnds, ClientReads, ClientVanishes
  <2>2. _closed' /\ UNCHANGED phase
    BY <2>1 DEF ReadFails, KickPlayer, HandleQueue, NothingToWrite, WriteFails, WriteSome, WriteAll, PopFirst, CloseSocket
  <2>3. ASSUME phase = "rejected" PROVE HandleQueue
    BY <2>1, <2>3 DEF ReadFails, KickPlayer, SocketInv, HandshakeInv
  <2>4. ASSUME phase' = "rejected", ~broken' PROVE _closing /\ wire' = Stream(enqueued')
    <3>1. HandleQueue
      BY <2>2, <2>3, <2>4
    <3>2. _closing
      BY <3>1 DEF HandleQueue, NothingToWrite, WriteFails, WriteSome, WriteAll, PopFirst
    <3>3. wire' = Stream(enqueued')
      BY <2>2, <2>4, <3>1, <3>2 DEF SocketInv, HandshakeInv, AnswerInv, IsOpen, HandleQueue
    <3> QED
      BY <3>2, <3>3
  <2> QED
    BY <2>2, <2>4
<1> QED
  BY <1>1, <1>2, <1>3 DEF Abstract!Next

(* Whatever the threads do, the connection carries whole packets in the    *)
(* order in which SendPacket put them into the queue, and a client that is *)
(* refused is disconnected only when all of them have left: the safety     *)
(* half of ImplementsOrderedStream.                                        *)
THEOREM StreamInOrder == Spec => Abstract!Init /\ [][Abstract!Next]_(Abstract!streamVars)
<1>1. Init => Abstract!Init
  BY DEF Init, QueueInit, Abstract!Init
<1>2. SocketInv /\ QueueInv /\ (SocketInv /\ QueueInv)' /\ [Next]_vars => [Abstract!Next]_(Abstract!streamVars)
  BY StreamSteps
<1> QED
  BY <1>1, <1>2, Invariance, PTL DEF Spec

=============================================================================
