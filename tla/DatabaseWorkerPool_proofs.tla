----------------------- MODULE DatabaseWorkerPool_proofs -----------------------
(***************************************************************************)
(* Theorems about DatabaseWorkerPool, for up to 32 workers, any number of  *)
(* operations and callbacks, and chains of any length.                     *)
(***************************************************************************)
EXTENDS DatabaseWorkerPool, FiniteSetTheorems, TLAPS

TypeOK ==
    /\ creating \in 0 .. AsyncThreads
    /\ connections \in Seq(Workers) /\ dying \in Seq(Workers)
    /\ queue \in Seq(Ops) /\ enqueued \in Seq(Ops)
    /\ shutdown \in BOOLEAN
    /\ worker \in [Workers -> {"none", "waiting", "popped", "executing", "exited"}]
    /\ token \in [Workers -> BOOLEAN]
    /\ operation \in [Workers -> Ops \cup {NoOp}]
    /\ promise \in [Ops -> {"none", "pending", "set", "broken"}]
    /\ callbacks \in Seq(Callbacks) /\ updating \in Seq(Callbacks) /\ kept \in Seq(Callbacks)
    /\ links \in [Callbacks -> 0 .. MaxLinks]
    /\ future \in [Callbacks -> Queries \cup {NoOp}]
    /\ done \in SUBSET Callbacks /\ deleted \in SUBSET Ops
    /\ runs \in [Ops -> Nat] /\ answered \in [Queries -> Nat]

Distinct(q) == \A j, k \in 1 .. Len(q) : q[j] = q[k] => j = k

(* An operation is enqueued once, and before the pool is open none is.     *)
EnqueuedInv ==
    /\ Distinct(enqueued)
    /\ Range(queue) \subseteq Range(enqueued) /\ deleted \subseteq Range(enqueued)
    /\ \A o \in Ops : runs[o] > 0 => o \in Range(enqueued)
    /\ \A w \in Workers : operation[w] # NoOp => operation[w] \in Range(enqueued)
    /\ phase \in {"new", "opening", "reverting"} => enqueued = <<>>

(* Then it is in one place: the queue, a worker's hands, those that were   *)
(* executed, or those that were deleted.                                   *)
FateInv ==
    /\ Distinct(queue)
    /\ \A o \in Ops : runs[o] \in {0, 1} /\ (o \in deleted => runs[o] = 0)
    /\ \A o \in Range(queue) : runs[o] = 0 /\ o \notin deleted /\ \A w \in Workers : operation[w] # o
    /\ \A w \in Workers : operation[w] # NoOp =>
           runs[operation[w]] = 0 /\ operation[w] \notin deleted
    /\ \A v, w \in Workers : operation[v] = operation[w] /\ operation[v] # NoOp => v = w
    /\ \A w \in Workers : worker[w] \in {"none", "waiting"} => operation[w] = NoOp
    /\ \A w \in Workers : worker[w] = "executing" => operation[w] # NoOp

TakenOps == {o \in Ops : runs[o] > 0} \cup {operation[w] : w \in Workers}

(* Operations are taken from the queue in their order, and whoever has     *)
(* executed one holds nothing from before it.                              *)
OrderInv ==
    /\ ~shutdown =>
           /\ Len(queue) <= Len(enqueued)
           /\ \A j \in 1 .. Len(queue) : queue[j] = enqueued[Len(enqueued) - Len(queue) + j]
           /\ \A i \in 1 .. Len(enqueued) - Len(queue) : enqueued[i] \in TakenOps
    /\ \A k \in 1 .. Len(enqueued) : enqueued[k] \in TakenOps => \A i \in 1 .. k - 1 : enqueued[i] \in TakenOps
    /\ \A k \in 1 .. Len(enqueued) : runs[enqueued[k]] > 0 =>
           \E w \in Workers : \A i \in 1 .. k - 1 : operation[w] # enqueued[i]

(* The queries of a QueryCallback are enqueued one after the other.        *)
ChainOf(c) ==
    /\ \A n \in 1 .. MaxLinks : <<c, n>> \in Range(enqueued) =>
           c \in done \/ (future[c] # NoOp /\ n <= future[c][2])
    /\ future[c] # NoOp =>
           /\ future[c][1] = c /\ future[c] \in Range(enqueued)
           /\ links[c] > 0 /\ links[c] + future[c][2] <= MaxLinks + 1
    /\ c \in done => future[c] = NoOp /\ links[c] = 0

ChainInv == \A c \in Callbacks : ChainOf(c)

(* Connections are destroyed in three phases only, and the processor is at *)
(* rest unless the pool is open.                                           *)
PhaseInv ==
    /\ phase \notin {"reverting", "closing", "destroying"} => dying = <<>>
    /\ phase # "open" => updating = <<>> /\ kept = <<>>
    /\ ConnectionOutlivesWorker

(* While the pool is open, a promise is fulfilled or broken by a worker.   *)
AnswerOf(q) ==
    /\ promise[q] \in {"set", "broken"} => q \in Range(enqueued)
    /\ promise[q] = "set" => runs[q] = 1
    /\ promise[q] = "broken" => phase # "open" \/ (runs[q] = 1 /\ q[1] \in Transactions)
    /\ answered[q] > 0 =>
           /\ answered[q] = 1 /\ runs[q] = 1 /\ q \in Range(enqueued)
           /\ q[1] \notin Transactions => promise[q] = "set"
           /\ q[1] \in done \/ (future[q[1]] # NoOp /\ q[2] < future[q[1]][2])

AnswerInv == \A q \in Queries : AnswerOf(q)

IndInv ==
    TypeOK /\ EnqueuedInv /\ FateInv /\ OrderInv /\ ChainInv /\ PhaseInv /\ AnswerInv

USE DEF poolVars, threadVars, procVars, historyVars

-----------------------------------------------------------------------------
(* The operations and the workers.                                         *)
LEMMA Universe ==
    /\ NoOp \notin Ops
    /\ \A o \in Writes : o \in Ops /\ o \notin Queries
    /\ \A q \in Queries : q \in Ops /\ q \notin Writes /\ q # NoOp
                          /\ q[1] \in Callbacks /\ q[2] \in 1 .. MaxLinks /\ q = <<q[1], q[2]>>
    /\ \A c \in Callbacks, n \in 1 .. MaxLinks :
           <<c, n>> \in Queries /\ <<c, n>>[1] = c /\ <<c, n>>[2] = n
    /\ \A o \in Ops : o \in Writes \/ o \in Queries
    /\ \A w \in Workers : w \in Nat /\ w # 0
    /\ AsyncThreads \in Nat \ {0} /\ MaxLinks \in Nat \ {0}
    /\ Workers = 1 .. AsyncThreads /\ Transactions \subseteq Callbacks
BY PoolAssumption, OpsAssumption DEF Ops, Queries, Workers

(* What the ends of a queue mean for its contents.                         *)
LEMMA AppendRange ==
    ASSUME NEW S, NEW q \in Seq(S), NEW x \in S
    PROVE  /\ Append(q, x) \in Seq(S) /\ Range(Append(q, x)) = Range(q) \cup {x}
           /\ Distinct(q) /\ x \notin Range(q) => Distinct(Append(q, x))
<1>1. /\ Append(q, x) \in Seq(S) /\ DOMAIN Append(q, x) = 1 .. Len(q) + 1 /\ Len(q) \in Nat
      /\ Len(Append(q, x)) = Len(q) + 1 /\ DOMAIN q = 1 .. Len(q)
      /\ \A k \in 1 .. Len(q) : Append(q, x)[k] = q[k]
      /\ Append(q, x)[Len(q) + 1] = x
  OBVIOUS
<1>2. 1 .. Len(q) + 1 = (1 .. Len(q)) \cup {Len(q) + 1}
  BY <1>1
<1>3. Range(Append(q, x)) = Range(q) \cup {x}
  BY <1>1, <1>2 DEF Range
<1>4. Distinct(q) /\ x \notin Range(q) => Distinct(Append(q, x))
  BY <1>1, <1>2 DEF Range, Distinct
<1> QED
  BY <1>1, <1>3, <1>4

(* A queue holds its head and what is behind it.                           *)
LEMMA TailRange ==
    ASSUME NEW S, NEW q \in Seq(S), q # <<>>
    PROVE  /\ Head(q) \in S /\ Head(q) \in Range(q) /\ Tail(q) \in Seq(S)
           /\ Range(q) = Range(Tail(q)) \cup {Head(q)}
           /\ Distinct(q) => Distinct(Tail(q)) /\ Head(q) \notin Range(Tail(q))
<1>1. /\ Len(q) \in Nat \ {0} /\ Len(Tail(q)) = Len(q) - 1 /\ Head(q) = q[1] /\ Head(q) \in S
      /\ Tail(q) \in Seq(S) /\ DOMAIN Tail(q) = 1 .. Len(q) - 1 /\ DOMAIN q = 1 .. Len(q)
      /\ \A k \in 1 .. Len(q) - 1 : Tail(q)[k] = q[k + 1]
  OBVIOUS
<1>2. Head(q) \in Range(q)
  BY <1>1 DEF Range
<1>3. \A x \in Range(Tail(q)) : x \in Range(q)
  BY <1>1 DEF Range
<1>4. ASSUME NEW x \in Range(q), x # Head(q) PROVE x \in Range(Tail(q))
  <2>1. PICK k \in 1 .. Len(q) : q[k] = x
    BY <1>1 DEF Range
  <2>2. k # 1 /\ k - 1 \in 1 .. Len(q) - 1 /\ k - 1 + 1 = k
    BY <1>1, <1>4, <2>1
  <2>3. Tail(q)[k - 1] = x
    BY <1>1, <2>1, <2>2
  <2> QED
    BY <1>1, <2>2, <2>3 DEF Range
<1>5. ASSUME Distinct(q) PROVE Distinct(Tail(q)) /\ Head(q) \notin Range(Tail(q))
  BY <1>1, <1>5 DEF Distinct, Range
<1> QED
  BY <1>1, <1>2, <1>3, <1>4, <1>5

(* An empty queue holds nothing.                                           *)
LEMMA EmptyRange == Range(<<>>) = {} /\ Distinct(<<>>)
BY DEF Range, Distinct

(* What a queue holds has its type and a position.                         *)
LEMMA RangeType ==
    ASSUME NEW S, NEW q \in Seq(S)
    PROVE  /\ Range(q) \subseteq S /\ DOMAIN q = 1 .. Len(q) /\ Len(q) \in Nat
           /\ \A k \in 1 .. Len(q) : q[k] \in Range(q) /\ q[k] \in S
           /\ \A x \in Range(q) : \E k \in 1 .. Len(q) : q[k] = x
BY DEF Range

-----------------------------------------------------------------------------
(* Enqueue appends an operation that is nowhere yet.                       *)
LEMMA EnqueueKeeps ==
    ASSUME IndInv, NEW o \in Ops, o \notin Range(enqueued), Enqueue(o), phase = "open"
    PROVE  /\ EnqueuedInv' /\ FateInv' /\ OrderInv'
           /\ queue' \in Seq(Ops) /\ enqueued' \in Seq(Ops)
           /\ Range(enqueued') = Range(enqueued) \cup {o}
<1> DEFINE N == Len(enqueued)
<1>1. /\ queue' = Append(queue, o) /\ enqueued' = Append(enqueued, o)
      /\ UNCHANGED <<runs, deleted, shutdown, threadVars, poolVars>>
  BY DEF Enqueue
<1>2. /\ queue' \in Seq(Ops) /\ enqueued' \in Seq(Ops) /\ Distinct(enqueued')
      /\ Range(enqueued') = Range(enqueued) \cup {o} /\ Range(queue') = Range(queue) \cup {o}
      /\ o \notin Range(queue) /\ Distinct(queue')
  BY <1>1, AppendRange DEF IndInv, TypeOK, EnqueuedInv, FateInv
<1>3. /\ N \in Nat /\ Len(enqueued') = N + 1 /\ Len(queue) \in Nat /\ Len(queue') = Len(queue) + 1
      /\ \A k \in 1 .. N : enqueued'[k] = enqueued[k] /\ enqueued[k] # o /\ enqueued[k] \in Ops
      /\ \A k \in 1 .. Len(queue) : queue'[k] = queue[k]
      /\ enqueued'[N + 1] = o /\ queue'[Len(queue) + 1] = o
  BY <1>1, RangeType DEF IndInv, TypeOK
<1>4. o \notin TakenOps /\ TakenOps' = TakenOps
  BY <1>1, Universe DEF TakenOps, IndInv, EnqueuedInv
<1>5. EnqueuedInv'
  BY <1>1, <1>2 DEF IndInv, EnqueuedInv
<1>6. FateInv'
  BY <1>1, <1>2, Universe DEF IndInv, EnqueuedInv, FateInv, TypeOK
<1>7. OrderInv'
  <2>1. ASSUME ~shutdown'
        PROVE  /\ Len(queue') <= Len(enqueued')
               /\ \A j \in 1 .. Len(queue') : queue'[j] = enqueued'[Len(enqueued') - Len(queue') + j]
               /\ \A i \in 1 .. Len(enqueued') - Len(queue') : enqueued'[i] \in TakenOps
    <3>1. /\ Len(queue) <= N
          /\ \A j \in 1 .. Len(queue) : queue[j] = enqueued[N - Len(queue) + j]
          /\ \A i \in 1 .. N - Len(queue) : enqueued[i] \in TakenOps
      BY <1>1, <2>1 DEF IndInv, OrderInv
    <3>2. Len(enqueued') - Len(queue') = N - Len(queue)
      BY <1>3
    <3>3. ASSUME NEW j \in 1 .. Len(queue')
          PROVE  queue'[j] = enqueued'[N - Len(queue) + j]
      <4>1. CASE j = Len(queue) + 1
        BY <1>3, <4>1, <3>1
      <4>2. CASE j \in 1 .. Len(queue)
        <5>1. N - Len(queue) + j \in 1 .. N
          BY <1>3, <3>1, <4>2
        <5> QED
          BY <1>3, <3>1, <4>2, <5>1
      <4> QED
        BY <1>3, <4>1, <4>2
    <3>4. Len(queue') <= Len(enqueued')
      BY <1>3, <3>1
    <3>5. \A j \in 1 .. Len(queue') : queue'[j] = enqueued'[Len(enqueued') - Len(queue') + j]
      BY <3>2, <3>3
    <3>6. \A i \in 1 .. Len(enqueued') - Len(queue') : i \in 1 .. N /\ enqueued[i] \in TakenOps
      BY <1>3, <3>1, <3>2
    <3> QED
      BY <1>3, <3>4, <3>5, <3>6
  <2>2. \A k \in 1 .. N + 1 : enqueued'[k] \in TakenOps => k \in 1 .. N /\ enqueued[k] \in TakenOps
    BY <1>3, <1>4
  <2>3. ASSUME NEW k \in 1 .. N + 1, enqueued'[k] \in TakenOps
        PROVE  \A i \in 1 .. k - 1 : enqueued'[i] \in TakenOps
    <3>1. k \in 1 .. N /\ \A i \in 1 .. k - 1 : enqueued[i] \in TakenOps
      BY <2>2, <2>3 DEF IndInv, OrderInv
    <3> QED
      BY <1>3, <3>1
  <2>4. ASSUME NEW k \in 1 .. N + 1, runs[enqueued'[k]] > 0
        PROVE  \E w \in Workers : \A i \in 1 .. k - 1 : operation[w] # enqueued'[i]
    <3>1. k \in 1 .. N
      BY <1>1, <1>3, <2>2, <2>4 DEF TakenOps
    <3>2. PICK w \in Workers : \A i \in 1 .. k - 1 : operation[w] # enqueued[i]
      BY <1>3, <2>4, <3>1 DEF IndInv, OrderInv
    <3> QED
      BY <1>3, <3>1, <3>2
  <2> QED
    <3>1. \A k \in 1 .. Len(enqueued') : enqueued'[k] \in TakenOps' =>
              \A i \in 1 .. k - 1 : enqueued'[i] \in TakenOps'
      BY <1>3, <1>4, <2>3
    <3>2. \A k \in 1 .. Len(enqueued') : runs'[enqueued'[k]] > 0 =>
              \E w \in Workers : \A i \in 1 .. k - 1 : operation'[w] # enqueued'[i]
      BY <1>1, <1>3, <2>4
    <3> QED
      BY <1>4, <2>1, <3>1, <3>2 DEF OrderInv
<1> QED
  BY <1>2, <1>5, <1>6, <1>7

(* Cancel deletes what is in the queue; no operation is taken after it.    *)
LEMMA CancelKeeps ==
    ASSUME IndInv, CancelQueue, UNCHANGED <<threadVars, enqueued, runs>>,
           phase' \in {"new", "opening", "reverting"} => phase \in {"new", "opening", "reverting"}
    PROVE  /\ EnqueuedInv' /\ FateInv' /\ OrderInv'
           /\ queue' \in Seq(Ops) /\ deleted' \in SUBSET Ops /\ shutdown' \in BOOLEAN
           /\ promise' \in [Ops -> {"none", "pending", "set", "broken"}]
           /\ \A o \in Ops : promise'[o] = promise[o] \/ (promise'[o] = "broken" /\ o \in Range(queue))
<1>1. /\ queue' = <<>> /\ shutdown' = TRUE /\ deleted' = deleted \cup Range(queue)
      /\ Range(queue') = {} /\ Distinct(queue')
      /\ Range(queue) \subseteq Ops
      /\ TakenOps' = TakenOps
  BY EmptyRange, RangeType DEF CancelQueue, TakenOps, IndInv, TypeOK
<1>2. EnqueuedInv'
  BY <1>1 DEF IndInv, EnqueuedInv
<1>3. FateInv'
  BY <1>1 DEF IndInv, FateInv
<1>4. OrderInv'
  BY <1>1 DEF IndInv, OrderInv
<1>5. \A o \in Ops : promise'[o] = IF o \in Range(queue) THEN "broken" ELSE promise[o]
  BY DEF CancelQueue, IndInv, TypeOK
<1>6. promise' \in [Ops -> {"none", "pending", "set", "broken"}]
  BY DEF CancelQueue, IndInv, TypeOK
<1> QED
  BY <1>1, <1>2, <1>3, <1>4, <1>5, <1>6 DEF IndInv, TypeOK

(* Each step preserves the invariant.                                      *)

LEMMA OpenStep ==
    ASSUME IndInv, Open
    PROVE  IndInv'
<1>1. TypeOK'
  BY Universe DEF IndInv, TypeOK, Open, Idle
<1>2. EnqueuedInv'
  BY Universe DEF IndInv, TypeOK, EnqueuedInv, Open, Idle
<1>3. FateInv'
  BY Universe DEF IndInv, TypeOK, FateInv, Open, Idle
<1>4. OrderInv'
  BY Universe DEF IndInv, TypeOK, OrderInv, TakenOps, Open, Idle
<1>5. ChainInv'
  BY Universe DEF IndInv, TypeOK, ChainInv, ChainOf, Open, Idle
<1>6. PhaseInv'
  BY Universe DEF IndInv, TypeOK, PhaseInv, ConnectionOutlivesWorker, Open, Idle
<1>7. AnswerInv'
  BY Universe DEF IndInv, TypeOK, AnswerInv, AnswerOf, Open, Idle
<1> QED
  BY <1>1, <1>2, <1>3, <1>4, <1>5, <1>6, <1>7 DEF IndInv

(* A worker that is started anew holds nothing: none was enqueued before.  *)
LEMMA CreateConnectionStep ==
    ASSUME IndInv, CreateConnection
    PROVE  IndInv'
<1>a. /\ enqueued = <<>> /\ Len(connections) + 1 \in Workers /\ Range(enqueued) = {}
      /\ \A w \in Workers : operation[w] = NoOp
  BY Universe, EmptyRange DEF CreateConnection, IndInv, TypeOK, EnqueuedInv
<1>b. operation' = operation
  BY <1>a DEF CreateConnection, IndInv, TypeOK
<1>1. TypeOK'
  BY Universe, <1>a, <1>b DEF IndInv, TypeOK, CreateConnection, EnqueuedInv
<1>2. EnqueuedInv'
  BY Universe, <1>a, <1>b DEF IndInv, TypeOK, EnqueuedInv, CreateConnection
<1>3. FateInv'
  BY Universe, <1>a, <1>b DEF IndInv, TypeOK, FateInv, CreateConnection, EnqueuedInv
<1>4. OrderInv'
  BY Universe, <1>a, <1>b
     DEF IndInv, TypeOK, OrderInv, TakenOps, CreateConnection, EnqueuedInv
<1>5. ChainInv'
  BY Universe, <1>a, <1>b
     DEF IndInv, TypeOK, ChainInv, ChainOf, CreateConnection, EnqueuedInv
<1>6. PhaseInv'
  BY Universe, <1>a, <1>b
     DEF IndInv, TypeOK, PhaseInv, ConnectionOutlivesWorker, CreateConnection,
         EnqueuedInv
<1>7. AnswerInv'
  BY Universe, <1>a, <1>b
     DEF IndInv, TypeOK, AnswerInv, AnswerOf, CreateConnection, EnqueuedInv
<1> QED
  BY <1>1, <1>2, <1>3, <1>4, <1>5, <1>6, <1>7 DEF IndInv

(* A connection goes from one owner to the next.                           *)
LEMMA ConnectionOpenedStep ==
    ASSUME IndInv, ConnectionOpened
    PROVE  IndInv'
<1>a. creating \in Workers /\ connections' \in Seq(Workers)
      /\ Range(connections') = Range(connections) \cup {creating}
  <2>1. creating \in Workers /\ connections \in Seq(Workers)
    BY Universe DEF ConnectionOpened, IndInv, TypeOK
  <2> QED
    BY <2>1, AppendRange DEF ConnectionOpened
<1>1. TypeOK'
  BY Universe, <1>a DEF IndInv, TypeOK, ConnectionOpened
<1>2. EnqueuedInv'
  BY Universe, <1>a DEF IndInv, TypeOK, EnqueuedInv, ConnectionOpened
<1>3. FateInv'
  BY Universe, <1>a DEF IndInv, TypeOK, FateInv, ConnectionOpened
<1>4. OrderInv'
  BY Universe, <1>a DEF IndInv, TypeOK, OrderInv, TakenOps, ConnectionOpened
<1>5. ChainInv'
  BY Universe, <1>a DEF IndInv, TypeOK, ChainInv, ChainOf, ConnectionOpened
<1>6. PhaseInv'
  BY Universe, <1>a
     DEF IndInv, TypeOK, PhaseInv, ConnectionOutlivesWorker, ConnectionOpened
<1>7. AnswerInv'
  BY Universe, <1>a DEF IndInv, TypeOK, AnswerInv, AnswerOf, ConnectionOpened
<1> QED
  BY <1>1, <1>2, <1>3, <1>4, <1>5, <1>6, <1>7 DEF IndInv

(* Who failed to open is destroyed last, or alone.                         *)
LEMMA ConnectionFailedStep ==
    ASSUME IndInv, NEW code, ConnectionFailed(code)
    PROVE  IndInv'
<1>a. creating \in Workers /\ dying' \in Seq(Workers) /\ connections' \in Seq(Workers)
      /\ Range(connections') \cup Range(dying') = Range(connections) \cup {creating}
  <2>1. creating \in Workers /\ connections \in Seq(Workers) /\ <<>> \in Seq(Workers)
    BY Universe DEF ConnectionFailed, IndInv, TypeOK
  <2>2. CASE code = "too_old"
    <3>1. /\ Append(<<>>, creating) \in Seq(Workers)
          /\ Range(Append(<<>>, creating)) = {} \cup {creating}
      <4>1. Append(<<>>, creating) = <<creating>> /\ <<creating>> \in Seq(Workers)
        BY <2>1
      <4>2. Range(<<creating>>) = {creating}
        BY DEF Range
      <4> QED
        BY <4>1, <4>2
    <3> QED
      BY <2>1, <2>2, <3>1 DEF ConnectionFailed
  <2>3. CASE code # "too_old"
    BY <2>1, <2>3, AppendRange, EmptyRange DEF ConnectionFailed
  <2> QED
    BY <2>2, <2>3
<1>b. dying = <<>>
  BY DEF ConnectionFailed, IndInv, PhaseInv
<1>1. TypeOK'
  <2>1. creating' = 0 /\ 0 \in 0 .. AsyncThreads
    BY Universe DEF ConnectionFailed
  <2> QED
    BY <1>a, <2>1 DEF IndInv, TypeOK, ConnectionFailed
<1>2. EnqueuedInv'
  BY Universe, EmptyRange, <1>a, <1>b DEF IndInv, TypeOK, EnqueuedInv, ConnectionFailed
<1>3. FateInv'
  BY Universe, EmptyRange, <1>a, <1>b DEF IndInv, TypeOK, FateInv, ConnectionFailed
<1>4. OrderInv'
  BY Universe, EmptyRange, <1>a, <1>b
     DEF IndInv, TypeOK, OrderInv, TakenOps, ConnectionFailed
<1>5. ChainInv'
  BY Universe, EmptyRange, <1>a, <1>b
     DEF IndInv, TypeOK, ChainInv, ChainOf, ConnectionFailed
<1>6. PhaseInv'
  BY Universe, EmptyRange, <1>a, <1>b
     DEF IndInv, TypeOK, PhaseInv, ConnectionOutlivesWorker, ConnectionFailed
<1>7. AnswerInv'
  BY Universe, EmptyRange, <1>a, <1>b
     DEF IndInv, TypeOK, AnswerInv, AnswerOf, ConnectionFailed
<1> QED
  BY <1>1, <1>2, <1>3, <1>4, <1>5, <1>6, <1>7 DEF IndInv

(* The loader goes on or gives up.                                         *)
LEMMA LoaderStep ==
    ASSUME IndInv, ConnectionErrorReadAsZero \/ OpenFailed \/ OpenSynchConnections
    PROVE  IndInv'
<1>a. phase' = "open" => enqueued = <<>> /\ Range(enqueued) = {}
  BY EmptyRange
     DEF ConnectionErrorReadAsZero, OpenFailed, OpenSynchConnections, IndInv,
         EnqueuedInv
<1>b. /\ phase \in {"opening", "reverting"} /\ enqueued = <<>>
      /\ phase' \notin {"reverting", "closing", "destroying"}
      /\ dying' = <<>> /\ updating = <<>> /\ kept = <<>>
      /\ UNCHANGED <<connections, creating, dying, stopStep, queue, shutdown,
                     threadVars, promise, procVars, historyVars>>
  BY
     DEF ConnectionErrorReadAsZero, OpenFailed, OpenSynchConnections, IndInv,
         EnqueuedInv, PhaseInv
<1>1. TypeOK'
  BY Universe, <1>a, <1>b DEF IndInv, TypeOK
<1>2. EnqueuedInv'
  BY Universe, <1>a, <1>b DEF IndInv, TypeOK, EnqueuedInv
<1>3. FateInv'
  BY Universe, <1>a, <1>b DEF IndInv, TypeOK, FateInv
<1>4. OrderInv'
  BY Universe, <1>a, <1>b DEF IndInv, TypeOK, OrderInv, TakenOps
<1>5. ChainInv'
  BY Universe, <1>a, <1>b DEF IndInv, TypeOK, ChainInv, ChainOf
<1>6. PhaseInv'
  BY Universe, <1>a, <1>b DEF IndInv, TypeOK, PhaseInv, ConnectionOutlivesWorker
<1>7. AnswerInv'
  BY Universe, <1>a, <1>b DEF IndInv, TypeOK, AnswerInv, AnswerOf
<1> QED
  BY <1>1, <1>2, <1>3, <1>4, <1>5, <1>6, <1>7 DEF IndInv

(* Close takes the connections out of the pool.                            *)
LEMMA CloseStep ==
    ASSUME IndInv, Close
    PROVE  IndInv'
<1>a. dying = <<>> /\ Range(<<>>) = {}
  BY EmptyRange DEF Close, IndInv, PhaseInv
<1>1. TypeOK'
  BY Universe, <1>a DEF IndInv, TypeOK, Close, Idle
<1>2. EnqueuedInv'
  BY Universe, <1>a DEF IndInv, TypeOK, EnqueuedInv, Close, Idle
<1>3. FateInv'
  BY Universe, <1>a DEF IndInv, TypeOK, FateInv, Close, Idle
<1>4. OrderInv'
  BY Universe, <1>a DEF IndInv, TypeOK, OrderInv, TakenOps, Close, Idle
<1>5. ChainInv'
  BY Universe, <1>a DEF IndInv, TypeOK, ChainInv, ChainOf, Close, Idle
<1>6. PhaseInv'
  BY Universe, <1>a DEF IndInv, TypeOK, PhaseInv, ConnectionOutlivesWorker, Close, Idle
<1>7. AnswerInv'
  BY Universe, <1>a DEF IndInv, TypeOK, AnswerInv, AnswerOf, Close, Idle
<1> QED
  BY <1>1, <1>2, <1>3, <1>4, <1>5, <1>6, <1>7 DEF IndInv

(* The pool's destructor cancels the queue, then takes the connections.    *)
LEMMA DestroyPoolStep ==
    ASSUME IndInv, DestroyPool
    PROVE  IndInv'
<1>a. dying = <<>> /\ Range(<<>>) = {}
  BY EmptyRange DEF DestroyPool, IndInv, PhaseInv
<1>b. /\ EnqueuedInv' /\ FateInv' /\ OrderInv'
      /\ queue' \in Seq(Ops) /\ deleted' \in SUBSET Ops /\ shutdown' \in BOOLEAN
      /\ promise' \in [Ops -> {"none", "pending", "set", "broken"}]
      /\ \A o \in Ops : promise'[o] = promise[o] \/ (promise'[o] = "broken" /\ o \in Range(queue))
  BY CancelKeeps DEF DestroyPool
<1>c. /\ dying' = connections /\ connections' = <<>> /\ phase' = "destroying"
      /\ updating' = <<>> /\ kept' = <<>>
      /\ UNCHANGED <<creating, threadVars, procVars, enqueued, runs>>
  BY DEF DestroyPool, Idle
<1>1. TypeOK'
  BY <1>a, <1>b, <1>c DEF IndInv, TypeOK
<1>2. EnqueuedInv'
  BY <1>b
<1>3. FateInv'
  BY <1>b
<1>4. OrderInv'
  BY <1>b
<1>5. ChainInv'
  BY Universe, <1>a, <1>b, <1>c DEF IndInv, TypeOK, ChainInv, ChainOf
<1>6. PhaseInv'
  BY Universe, <1>a, <1>b, <1>c DEF IndInv, TypeOK, PhaseInv, ConnectionOutlivesWorker
<1>7. AnswerInv'
  BY Universe, <1>a, <1>b, <1>c DEF IndInv, EnqueuedInv, FateInv, AnswerInv, AnswerOf
<1> QED
  BY <1>1, <1>2, <1>3, <1>4, <1>5, <1>6, <1>7 DEF IndInv

(* ~DatabaseWorker.                                                         *)
LEMMA SetCancelationTokenStep ==
    ASSUME IndInv, SetCancelationToken
    PROVE  IndInv'
<1>1. TypeOK'
  BY Universe DEF IndInv, TypeOK, SetCancelationToken
<1>2. EnqueuedInv'
  BY Universe DEF IndInv, TypeOK, EnqueuedInv, SetCancelationToken
<1>3. FateInv'
  BY Universe DEF IndInv, TypeOK, FateInv, SetCancelationToken
<1>4. OrderInv'
  BY Universe DEF IndInv, TypeOK, OrderInv, TakenOps, SetCancelationToken
<1>5. ChainInv'
  BY Universe DEF IndInv, TypeOK, ChainInv, ChainOf, SetCancelationToken
<1>6. PhaseInv'
  BY Universe
     DEF IndInv, TypeOK, PhaseInv, ConnectionOutlivesWorker, SetCancelationToken
<1>7. AnswerInv'
  BY Universe DEF IndInv, TypeOK, AnswerInv, AnswerOf, SetCancelationToken
<1> QED
  BY <1>1, <1>2, <1>3, <1>4, <1>5, <1>6, <1>7 DEF IndInv

(* A worker's destructor cancels the queue that all of them share.         *)
LEMMA CancelSharedQueueStep ==
    ASSUME IndInv, CancelSharedQueue
    PROVE  IndInv'
<1>a. /\ phase # "open"
      /\ UNCHANGED <<phase, connections, creating, dying, threadVars, procVars, enqueued, runs>>
  BY DEF CancelSharedQueue, IndInv, PhaseInv
<1>b. /\ EnqueuedInv' /\ FateInv' /\ OrderInv'
      /\ queue' \in Seq(Ops) /\ deleted' \in SUBSET Ops /\ shutdown' \in BOOLEAN
      /\ promise' \in [Ops -> {"none", "pending", "set", "broken"}]
      /\ \A o \in Ops : promise'[o] = promise[o] \/ (promise'[o] = "broken" /\ o \in Range(queue))
  BY <1>a, CancelKeeps DEF CancelSharedQueue
<1>1. TypeOK'
  BY <1>a, <1>b DEF IndInv, TypeOK
<1>2. EnqueuedInv'
  BY <1>b
<1>3. FateInv'
  BY <1>b
<1>4. OrderInv'
  BY <1>b
<1>5. ChainInv'
  BY Universe, <1>a, <1>b DEF IndInv, TypeOK, ChainInv, ChainOf
<1>6. PhaseInv'
  BY Universe, <1>a, <1>b DEF IndInv, TypeOK, PhaseInv, ConnectionOutlivesWorker
<1>7. AnswerInv'
  BY Universe, <1>a, <1>b DEF IndInv, EnqueuedInv, FateInv, AnswerInv, AnswerOf
<1> QED
  BY <1>1, <1>2, <1>3, <1>4, <1>5, <1>6, <1>7 DEF IndInv

(* The worker has returned when its connection goes.                       *)
LEMMA JoinWorkerStep ==
    ASSUME IndInv, JoinWorker
    PROVE  IndInv'
<1>a. /\ dying' \in Seq(Workers) /\ Range(dying) = Range(dying') \cup {Head(dying)}
      /\ worker[Head(dying)] = "exited"
  BY TailRange DEF JoinWorker, Joinable, IndInv, TypeOK
<1>1. TypeOK'
  BY Universe, <1>a DEF IndInv, TypeOK, JoinWorker
<1>2. EnqueuedInv'
  BY Universe, <1>a DEF IndInv, TypeOK, EnqueuedInv, JoinWorker
<1>3. FateInv'
  BY Universe, <1>a DEF IndInv, TypeOK, FateInv, JoinWorker
<1>4. OrderInv'
  BY Universe, <1>a DEF IndInv, TypeOK, OrderInv, TakenOps, JoinWorker
<1>5. ChainInv'
  BY Universe, <1>a DEF IndInv, TypeOK, ChainInv, ChainOf, JoinWorker
<1>6. PhaseInv'
  BY Universe, <1>a DEF IndInv, TypeOK, PhaseInv, ConnectionOutlivesWorker, JoinWorker
<1>7. AnswerInv'
  BY Universe, <1>a DEF IndInv, TypeOK, AnswerInv, AnswerOf, JoinWorker
<1> QED
  BY <1>1, <1>2, <1>3, <1>4, <1>5, <1>6, <1>7 DEF IndInv

LEMMA ClosedStep ==
    ASSUME IndInv, Closed
    PROVE  IndInv'
<1>1. TypeOK'
  BY Universe DEF IndInv, TypeOK, Closed
<1>2. EnqueuedInv'
  BY Universe DEF IndInv, TypeOK, EnqueuedInv, Closed
<1>3. FateInv'
  BY Universe DEF IndInv, TypeOK, FateInv, Closed
<1>4. OrderInv'
  BY Universe DEF IndInv, TypeOK, OrderInv, TakenOps, Closed
<1>5. ChainInv'
  BY Universe DEF IndInv, TypeOK, ChainInv, ChainOf, Closed
<1>6. PhaseInv'
  BY Universe DEF IndInv, TypeOK, PhaseInv, ConnectionOutlivesWorker, Closed
<1>7. AnswerInv'
  BY Universe DEF IndInv, TypeOK, AnswerInv, AnswerOf, Closed
<1> QED
  BY <1>1, <1>2, <1>3, <1>4, <1>5, <1>6, <1>7 DEF IndInv

(* The operation that a worker takes is the next one in the order.         *)
LEMMA WaitAndPopStep ==
    ASSUME IndInv, NEW w \in Workers, WaitAndPop(w)
    PROVE  IndInv'
<1>a. /\ operation[w] = NoOp /\ worker' = [worker EXCEPT ![w] = "popped"]
      /\ UNCHANGED <<poolVars, shutdown, token, promise, procVars, historyVars>>
  BY DEF WaitAndPop, IndInv, FateInv
<1>b. CASE operation' = operation /\ queue' = queue
  <2>1. TakenOps' = TakenOps
    BY <1>a, <1>b DEF TakenOps
  <2>2. TypeOK' /\ EnqueuedInv' /\ FateInv'
    BY <1>a, <1>b DEF IndInv, TypeOK, EnqueuedInv, FateInv
  <2>3. OrderInv' /\ ChainInv' /\ AnswerInv'
    BY <1>a, <1>b, <2>1 DEF IndInv, OrderInv, ChainInv, ChainOf, AnswerInv, AnswerOf
  <2>4. PhaseInv'
    BY <1>a, <1>b DEF WaitAndPop, IndInv, TypeOK, PhaseInv, ConnectionOutlivesWorker
  <2> QED
    BY <2>2, <2>3, <2>4 DEF IndInv
<1>c. CASE /\ ~shutdown /\ queue # <<>> /\ queue' = Tail(queue)
           /\ operation' = [operation EXCEPT ![w] = Head(queue)]
  <2> DEFINE o == Head(queue)
             N == Len(enqueued)
             D == Len(enqueued) - Len(queue)
  <2>1. /\ o \in Ops /\ o \in Range(queue) /\ queue' \in Seq(Ops) /\ o \notin Range(queue')
        /\ Range(queue) = Range(queue') \cup {o} /\ Distinct(queue') /\ o # NoOp
    BY <1>c, TailRange, Universe DEF IndInv, TypeOK, FateInv
  <2>2. /\ operation'[w] = o /\ \A v \in Workers : v # w => operation'[v] = operation[v]
        /\ \A v \in Workers : v # w => worker'[v] = worker[v]
        /\ worker'[w] = "popped" /\ operation' \in [Workers -> Ops \cup {NoOp}]
    BY <1>a, <1>c, <2>1 DEF IndInv, TypeOK
  <2>3. runs[o] = 0 /\ o \notin deleted /\ \A v \in Workers : operation[v] # o
    BY <2>1 DEF IndInv, FateInv
  <2>4. TypeOK'
    BY <1>a, <2>1, <2>2 DEF IndInv, TypeOK
  <2>5. EnqueuedInv'
    BY <1>a, <2>1, <2>2 DEF IndInv, EnqueuedInv
  <2>6. FateInv'
    BY <1>a, <2>1, <2>2, <2>3 DEF IndInv, FateInv
  <2>7. OrderInv'
    <3>1. /\ N \in Nat /\ Len(queue) \in Nat \ {0} /\ Len(queue') = Len(queue) - 1 /\ o = queue[1]
          /\ \A j \in 1 .. Len(queue') : queue'[j] = queue[j + 1]
          /\ \A k \in 1 .. N : enqueued[k] \in Ops
      BY <1>c DEF IndInv, TypeOK
    <3>2. /\ Len(queue) <= N /\ D \in Nat /\ D + 1 \in 1 .. N /\ o = enqueued[D + 1]
          /\ \A j \in 1 .. Len(queue) : queue[j] = enqueued[D + j]
          /\ \A i \in 1 .. D : enqueued[i] \in TakenOps
      BY <1>c, <3>1 DEF IndInv, OrderInv
    <3>3. \A x \in Ops : x \in TakenOps' <=> x \in TakenOps \/ x = o
      BY <1>a, <2>1, <2>2, Universe DEF TakenOps
    <3>4. /\ Len(enqueued) - Len(queue') = D + 1
          /\ Len(queue') <= N
      BY <3>1, <3>2
    <3>5. ASSUME NEW j \in 1 .. Len(queue') PROVE queue'[j] = enqueued[D + 1 + j]
      <4>1. j + 1 \in 1 .. Len(queue) /\ D + (j + 1) = D + 1 + j
        BY <3>1, <3>2
      <4> QED
        BY <3>1, <3>2, <4>1
    <3>6. ASSUME NEW i \in 1 .. D + 1 PROVE enqueued'[i] \in TakenOps'
      <4>1. i \in 1 .. N /\ (i = D + 1 \/ i \in 1 .. D) /\ enqueued' = enqueued
        <5>1. enqueued' = enqueued
          BY <1>a
        <5>2. D \in Nat /\ N \in Nat /\ D + 1 <= N /\ i \in 1 .. D + 1
          BY <3>1, <3>2
        <5> HIDE DEF D, N
        <5> QED
          BY <5>1, <5>2
      <4>2. enqueued[i] \in Ops /\ (enqueued[i] = o \/ enqueued[i] \in TakenOps)
        BY <3>1, <3>2, <4>1
      <4> QED
        BY <3>3, <4>1, <4>2
    <3>7. ASSUME NEW k \in 1 .. N, enqueued[k] \in TakenOps, NEW i \in 1 .. k - 1
          PROVE  enqueued[i] \in TakenOps
      BY <3>7 DEF IndInv, OrderInv
    <3>8. ASSUME NEW k \in 1 .. N, enqueued'[k] \in TakenOps'
          PROVE \A i \in 1 .. k - 1 : enqueued'[i] \in TakenOps'
      <4>1. CASE enqueued[k] = o
        <5>1. k = D + 1
          BY <3>2, <4>1 DEF IndInv, EnqueuedInv, Distinct
        <5> QED
          BY <3>2, <3>6, <5>1
      <4>2. CASE enqueued[k] # o
        BY <3>1, <1>a, <3>3, <3>7, <3>8, <4>2
      <4> QED
        BY <4>1, <4>2
    <3>9. ASSUME NEW k \in 1 .. N, runs[enqueued[k]] > 0
          PROVE  \E v \in Workers : \A i \in 1 .. k - 1 : operation'[v] # enqueued[i]
      <4>1. PICK v \in Workers : \A i \in 1 .. k - 1 : operation[v] # enqueued[i]
        BY <3>9 DEF IndInv, OrderInv
      <4>2. \A i \in 1 .. k - 1 : enqueued[i] # o
        <5>1. SUFFICES ASSUME NEW i \in 1 .. k - 1, enqueued[i] = o PROVE FALSE
          OBVIOUS
        <5>2. enqueued[i] \in TakenOps
          BY <3>1, <3>7, <3>9 DEF TakenOps
        <5> QED
          BY <2>3, <5>1, <5>2 DEF TakenOps
      <4> QED
        BY <2>2, <4>1, <4>2
    <3> QED
      BY <1>a, <3>4, <3>5, <3>6, <3>8, <3>9 DEF OrderInv
  <2>8. ChainInv' /\ AnswerInv'
    BY <1>a DEF IndInv, ChainInv, ChainOf, AnswerInv, AnswerOf
  <2>9. PhaseInv'
    BY <1>a, <2>2 DEF WaitAndPop, IndInv, PhaseInv, ConnectionOutlivesWorker
  <2> QED
    BY <2>4, <2>5, <2>6, <2>7, <2>8, <2>9 DEF IndInv
<1> QED
  BY <1>b, <1>c DEF WaitAndPop

(* A worker starts its operation or returns.                               *)
LEMMA RoundStep ==
    ASSUME IndInv, NEW w \in Workers, ReturnFromThread(w) \/ StartOperation(w)
    PROVE  IndInv'
<1>a. /\ UNCHANGED <<poolVars, queue, shutdown, token, operation, promise, procVars, historyVars>>
      /\ worker[w] = "popped"
      /\ worker' \in [Workers -> {"none", "waiting", "popped", "executing", "exited"}]
      /\ \/ worker'[w] = "exited"
         \/ worker'[w] = "executing" /\ operation[w] # NoOp
      /\ \A v \in Workers : v # w => worker'[v] = worker[v]
  BY DEF ReturnFromThread, StartOperation, MustReturn, IndInv, TypeOK
<1>1. TypeOK'
  BY <1>a DEF IndInv, TypeOK
<1>2. EnqueuedInv'
  BY <1>a DEF IndInv, TypeOK, EnqueuedInv
<1>3. FateInv'
  BY <1>a DEF IndInv, TypeOK, FateInv
<1>4. OrderInv'
  <2>1. TakenOps' = TakenOps
    BY <1>a DEF TakenOps
  <2> QED
    BY <1>a, <2>1 DEF IndInv, OrderInv
<1>5. ChainInv'
  BY <1>a DEF IndInv, TypeOK, ChainInv, ChainOf
<1>6. PhaseInv'
  BY <1>a DEF IndInv, TypeOK, PhaseInv, ConnectionOutlivesWorker
<1>7. AnswerInv'
  BY <1>a DEF IndInv, TypeOK, AnswerInv, AnswerOf
<1> QED
  BY <1>1, <1>2, <1>3, <1>4, <1>5, <1>6, <1>7 DEF IndInv

(* What a worker executes it has taken, and its hands are empty then.      *)
LEMMA ExecuteOperationStep ==
    ASSUME IndInv, NEW w \in Workers, ExecuteOperation(w)
    PROVE  IndInv'
<1> DEFINE o == operation[w]
<1>a. /\ o \in Ops /\ o # NoOp /\ runs[o] = 0 /\ o \notin deleted /\ o \in Range(enqueued)
      /\ o \notin Range(queue) /\ runs[o] + 1 = 1
  BY Universe DEF ExecuteOperation, IndInv, TypeOK, FateInv, EnqueuedInv
<1>b. /\ runs' = [runs EXCEPT ![o] = 1]
      /\ runs' \in [Ops -> Nat] /\ runs'[o] = 1 /\ \A x \in Ops : x # o => runs'[x] = runs[x]
  BY <1>a DEF ExecuteOperation, IndInv, TypeOK
<1>c. /\ worker' \in [Workers -> {"none", "waiting", "popped", "executing", "exited"}]
      /\ operation' \in [Workers -> Ops \cup {NoOp}]
      /\ worker[w] = "executing" /\ worker'[w] = "waiting" /\ operation'[w] = NoOp
      /\ \A v \in Workers : v # w => worker'[v] = worker[v] /\ operation'[v] = operation[v]
      /\ UNCHANGED <<poolVars, queue, shutdown, token, procVars, enqueued, deleted>>
  BY DEF ExecuteOperation, NextRound, IndInv, TypeOK
<1>d. PICK p \in PromiseAfter(o) : promise' = [promise EXCEPT ![o] = p]
  BY DEF ExecuteOperation
<1>e. /\ p \in {"none", "set", "broken"}
      /\ o \in Queries => p = "set" \/ (p = "broken" /\ o[1] \in Transactions)
  BY <1>a, <1>d, Universe DEF PromiseAfter
<1>f. /\ promise' \in [Ops -> {"none", "pending", "set", "broken"}]
      /\ promise'[o] = p /\ \A x \in Ops : x # o => promise'[x] = promise[x]
  BY <1>a, <1>d, <1>e DEF IndInv, TypeOK
<1>g. \A x \in Ops : x \in TakenOps' <=> x \in TakenOps
  BY <1>a, <1>b, <1>c, Universe DEF TakenOps, IndInv, TypeOK
<1>1. TypeOK'
  BY <1>b, <1>c, <1>f DEF IndInv, TypeOK
<1>2. EnqueuedInv'
  BY <1>a, <1>b, <1>c DEF IndInv, EnqueuedInv
<1>3. FateInv'
  <2>1. /\ Distinct(queue') /\ \A x \in Ops : runs'[x] \in {0, 1} /\ (x \in deleted' => runs'[x] = 0)
    BY <1>a, <1>b, <1>c DEF IndInv, FateInv
  <2>2. \A x \in Range(queue') : runs'[x] = 0 /\ x \notin deleted' /\ \A v \in Workers : operation'[v] # x
    <3>1. \A x \in Range(queue) : x \in Ops /\ x # NoOp /\ x # o
      BY <1>a, RangeType, Universe DEF IndInv, TypeOK
    <3> QED
      BY <1>b, <1>c, <3>1 DEF IndInv, FateInv
  <2>3. \A v \in Workers : operation'[v] # NoOp =>
          v # w /\ operation'[v] = operation[v] /\ operation[v] # o /\ operation[v] \in Ops
    BY <1>a, <1>c DEF IndInv, FateInv, TypeOK
  <2>4. \A v \in Workers : operation'[v] # NoOp =>
          runs'[operation'[v]] = 0 /\ operation'[v] \notin deleted'
    BY <1>b, <1>c, <2>3 DEF IndInv, FateInv
  <2>5. \A u, v \in Workers : operation'[u] = operation'[v] /\ operation'[u] # NoOp => u = v
    BY <1>c, <2>3 DEF IndInv, FateInv
  <2>6. /\ \A v \in Workers : worker'[v] \in {"none", "waiting"} => operation'[v] = NoOp
        /\ \A v \in Workers : worker'[v] = "executing" => operation'[v] # NoOp
    BY <1>c DEF IndInv, FateInv
  <2> QED
    BY <2>1, <2>2, <2>4, <2>5, <2>6 DEF FateInv
<1>4. OrderInv'
  <2>1. \A k \in 1 .. Len(enqueued) : enqueued[k] \in Ops
    BY DEF IndInv, TypeOK
  <2>2. ASSUME NEW k \in 1 .. Len(enqueued), runs'[enqueued[k]] > 0
        PROVE  \E v \in Workers : \A i \in 1 .. k - 1 : operation'[v] # enqueued[i]
    <3>1. CASE enqueued[k] = o
      BY <1>c, <2>1, Universe
    <3>2. CASE enqueued[k] # o
      <4>1. PICK v \in Workers : \A i \in 1 .. k - 1 : operation[v] # enqueued[i]
        BY <1>b, <2>1, <2>2, <3>2 DEF IndInv, OrderInv
      <4>2. \A i \in 1 .. k - 1 : enqueued[i] # NoOp
        BY <2>1, Universe
      <4> QED
        BY <1>c, <4>1, <4>2
    <3> QED
      BY <3>1, <3>2
  <2>3. /\ \A k \in 1 .. Len(enqueued) : enqueued[k] \in TakenOps' <=> enqueued[k] \in TakenOps
        /\ Len(enqueued) \in Nat /\ Len(queue) \in Nat
    BY <1>c, <1>g, <2>1 DEF IndInv, TypeOK
  <2> QED
    BY <1>c, <2>2, <2>3 DEF IndInv, OrderInv
<1>5. ChainInv'
  BY <1>c DEF IndInv, ChainInv, ChainOf
<1>6. PhaseInv'
  BY <1>c DEF IndInv, PhaseInv, ConnectionOutlivesWorker
<1>7. AnswerInv'
  <2> SUFFICES ASSUME NEW x \in Queries PROVE AnswerOf(x)'
    BY DEF AnswerInv
  <2>1. x \in Ops /\ x[1] \in Callbacks /\ x[2] \in Nat /\ AnswerOf(x)
    BY Universe DEF IndInv, AnswerInv
  <2>2. CASE x = o
    BY <1>a, <1>b, <1>c, <1>e, <1>f, <2>1, <2>2 DEF AnswerOf
  <2>3. CASE x # o
    BY <1>a, <1>b, <1>c, <1>f, <2>1, <2>3 DEF AnswerOf
  <2> QED
    BY <2>2, <2>3
<1> QED
  BY <1>1, <1>2, <1>3, <1>4, <1>5, <1>6, <1>7 DEF IndInv

(* A write is enqueued once.                                               *)
LEMMA ExecuteStep ==
    ASSUME IndInv, NEW o \in Writes, Execute(o)
    PROVE  IndInv'
<1>a. /\ EnqueuedInv' /\ FateInv' /\ OrderInv'
      /\ queue' \in Seq(Ops) /\ enqueued' \in Seq(Ops)
      /\ Range(enqueued') = Range(enqueued) \cup {o}
  BY Universe, EnqueueKeeps DEF Execute
<1>b. UNCHANGED <<runs, deleted, shutdown, threadVars, poolVars, promise, procVars>>
  BY DEF Execute, Enqueue
<1>1. TypeOK'
  BY Universe, <1>a, <1>b DEF IndInv, TypeOK
<1>2. EnqueuedInv'
  BY <1>a
<1>3. FateInv'
  BY <1>a
<1>4. OrderInv'
  BY <1>a
<1>5. ChainInv'
  BY Universe, <1>a, <1>b DEF IndInv, TypeOK, ChainInv, ChainOf
<1>6. PhaseInv'
  BY Universe, <1>a, <1>b DEF IndInv, TypeOK, PhaseInv, ConnectionOutlivesWorker
<1>7. AnswerInv'
  BY Universe, <1>a, <1>b DEF IndInv, TypeOK, AnswerInv, AnswerOf
<1> QED
  BY <1>1, <1>2, <1>3, <1>4, <1>5, <1>6, <1>7 DEF IndInv

(* The first query of a callback that was not used before.                 *)
LEMMA AddQueryStep ==
    ASSUME IndInv, NEW c \in Callbacks, NEW n \in 1 .. MaxLinks, AddQuery(c, n)
    PROVE  IndInv'
<1> DEFINE q == <<c, 1>>
<1>a. q \in Queries /\ q \in Ops /\ q[1] = c /\ q[2] = 1 /\ 1 \in 1 .. MaxLinks
  BY Universe
<1>b. c \notin done /\ links[c] = 0 /\ future[c] = NoOp /\ q \notin Range(enqueued)
  BY <1>a, Universe DEF AddQuery, Unused, IndInv, ChainInv, ChainOf, TypeOK
<1>c. /\ EnqueuedInv' /\ FateInv' /\ OrderInv'
      /\ queue' \in Seq(Ops) /\ enqueued' \in Seq(Ops)
      /\ Range(enqueued') = Range(enqueued) \cup {q}
  BY <1>a, <1>b, EnqueueKeeps DEF AddQuery
<1>d. /\ UNCHANGED <<runs, deleted, shutdown, threadVars, poolVars, updating, kept, done, answered>>
      /\ promise' = [promise EXCEPT ![q] = "pending"] /\ future' = [future EXCEPT ![c] = q]
      /\ links' = [links EXCEPT ![c] = n] /\ callbacks' = Append(callbacks, c)
  BY DEF AddQuery, Enqueue
<1>e. /\ promise'[q] = "pending" /\ \A x \in Ops : x # q => promise'[x] = promise[x]
      /\ future'[c] = q /\ \A d \in Callbacks : d # c => future'[d] = future[d]
      /\ links'[c] = n /\ \A d \in Callbacks : d # c => links'[d] = links[d]
  BY <1>a, <1>d DEF IndInv, TypeOK
<1>1. TypeOK'
  <2>1. promise' \in [Ops -> {"none", "pending", "set", "broken"}]
    BY <1>a, <1>d DEF IndInv, TypeOK
  <2>2. future' \in [Callbacks -> Queries \cup {NoOp}]
    BY <1>a, <1>d DEF IndInv, TypeOK
  <2>3. links' \in [Callbacks -> 0 .. MaxLinks] /\ callbacks' \in Seq(Callbacks)
    BY <1>d DEF IndInv, TypeOK
  <2> QED
    BY <1>c, <1>d, <2>1, <2>2, <2>3 DEF IndInv, TypeOK
<1>2. EnqueuedInv'
  BY <1>c
<1>3. FateInv'
  BY <1>c
<1>4. OrderInv'
  BY <1>c
<1>5. ChainInv'
  <2> SUFFICES ASSUME NEW d \in Callbacks PROVE ChainOf(d)'
    BY DEF ChainInv
  <2>1. ChainOf(d)
    BY DEF IndInv, ChainInv
  <2>2. CASE d # c
    BY <1>a, <1>c, <1>d, <1>e, <2>1, <2>2, Universe DEF ChainOf
  <2>3. CASE d = c
    <3>1. /\ future'[c] = q /\ future'[c] # NoOp /\ future'[c][2] = 1
          /\ future'[c] \in Range(enqueued')
      BY <1>a, <1>c, <1>e, Universe
    <3>2. \A m \in 1 .. MaxLinks : <<c, m>> \in Range(enqueued') => m = 1
      <4>1. \A m \in 1 .. MaxLinks : <<c, m>> \notin Range(enqueued)
        BY <1>b, <2>1, <2>3 DEF ChainOf
      <4>2. \A m \in 1 .. MaxLinks : <<c, m>> = q => m = 1
        OBVIOUS
      <4> QED
        BY <1>c, <4>1, <4>2
    <3>3. links'[c] > 0 /\ links'[c] + 1 <= MaxLinks + 1 /\ c \notin done'
      BY <1>b, <1>d, <1>e, Universe
    <3> QED
      BY <1>a, <2>3, <3>1, <3>2, <3>3 DEF ChainOf
  <2> QED
    BY <2>2, <2>3
<1>6. PhaseInv'
  BY <1>d DEF IndInv, TypeOK, PhaseInv, ConnectionOutlivesWorker
<1>7. AnswerInv'
  <2> SUFFICES ASSUME NEW x \in Queries PROVE AnswerOf(x)'
    BY DEF AnswerInv
  <2>1. x \in Ops /\ x[1] \in Callbacks /\ x[2] \in Nat /\ AnswerOf(x)
    BY Universe DEF IndInv, AnswerInv
  <2>2. CASE x = q
    BY <1>a, <1>b, <1>c, <1>d, <1>e, Universe, <2>1, <2>2 DEF AnswerOf
  <2>3. CASE x # q
    BY <1>a, <1>b, <1>c, <1>d, <1>e, <2>1, <2>3 DEF AnswerOf
  <2> QED
    BY <2>2, <2>3
<1> QED
  BY <1>1, <1>2, <1>3, <1>4, <1>5, <1>6, <1>7 DEF IndInv

(* A callback without a future waits for nothing.                          *)
LEMMA AddEmptyTransactionStep ==
    ASSUME IndInv, NEW c \in Callbacks, AddEmptyTransaction(c)
    PROVE  IndInv'
<1>a. /\ links'[c] = 1 /\ links[c] = 0 /\ c \notin done /\ future[c] = NoOp
      /\ \A d \in Callbacks : d # c => links'[d] = links[d]
      /\ links' \in [Callbacks -> 0 .. MaxLinks] /\ callbacks' \in Seq(Callbacks)
  BY Universe DEF AddEmptyTransaction, Unused, IndInv, TypeOK, ChainInv, ChainOf
<1>1. TypeOK'
  BY Universe, <1>a DEF IndInv, TypeOK, AddEmptyTransaction
<1>2. EnqueuedInv'
  BY Universe, <1>a DEF IndInv, TypeOK, EnqueuedInv, AddEmptyTransaction
<1>3. FateInv'
  BY Universe, <1>a DEF IndInv, TypeOK, FateInv, AddEmptyTransaction
<1>4. OrderInv'
  BY Universe, <1>a DEF IndInv, TypeOK, OrderInv, TakenOps, AddEmptyTransaction
<1>5. ChainInv'
  BY Universe, <1>a DEF IndInv, TypeOK, ChainInv, ChainOf, AddEmptyTransaction
<1>6. PhaseInv'
  BY Universe, <1>a
     DEF IndInv, TypeOK, PhaseInv, ConnectionOutlivesWorker, AddEmptyTransaction
<1>7. AnswerInv'
  BY Universe, <1>a DEF IndInv, TypeOK, AnswerInv, AnswerOf, AddEmptyTransaction
<1> QED
  BY <1>1, <1>2, <1>3, <1>4, <1>5, <1>6, <1>7 DEF IndInv

(* The processor moves callbacks from one vector to another.               *)
LEMMA ProcessorStep ==
    ASSUME IndInv, TakeCallbacks \/ NotReady \/ PutBack
    PROVE  IndInv'
<1>a. /\ phase = "open"
      /\ callbacks' \in Seq(Callbacks) /\ updating' \in Seq(Callbacks) /\ kept' \in Seq(Callbacks)
      /\ UNCHANGED <<poolVars, queue, shutdown, threadVars, promise, links,
                      future, done, answered, historyVars>>
  <2>1. callbacks \in Seq(Callbacks) /\ updating \in Seq(Callbacks) /\ kept \in Seq(Callbacks)
    BY DEF IndInv, TypeOK
  <2>2. phase = "open"
    BY DEF TakeCallbacks, NotReady, PutBack, IndInv, PhaseInv
  <2>3. CASE TakeCallbacks
    BY <2>1, <2>2, <2>3 DEF TakeCallbacks
  <2>4. CASE NotReady
    <3>1. /\ Head(updating) \in Callbacks /\ Tail(updating) \in Seq(Callbacks)
          /\ Append(kept, Head(updating)) \in Seq(Callbacks)
      BY <2>1, <2>4 DEF NotReady
    <3> QED
      BY <2>1, <2>2, <2>4, <3>1 DEF NotReady
  <2>5. CASE PutBack
    <3>1. callbacks \o kept \in Seq(Callbacks)
      BY <2>1
    <3> QED
      BY <2>1, <2>2, <2>5, <3>1 DEF PutBack
  <2> QED
    BY <2>3, <2>4, <2>5
<1>1. TypeOK'
  BY <1>a DEF IndInv, TypeOK
<1>2. EnqueuedInv'
  BY <1>a DEF IndInv, TypeOK, EnqueuedInv
<1>3. FateInv'
  BY <1>a DEF IndInv, TypeOK, FateInv
<1>4. OrderInv'
  BY <1>a DEF IndInv, TypeOK, OrderInv, TakenOps
<1>5. ChainInv'
  BY <1>a DEF IndInv, TypeOK, ChainInv, ChainOf
<1>6. PhaseInv'
  BY <1>a DEF IndInv, TypeOK, PhaseInv, ConnectionOutlivesWorker
<1>7. AnswerInv'
  BY <1>a DEF IndInv, TypeOK, AnswerInv, AnswerOf
<1> QED
  BY <1>1, <1>2, <1>3, <1>4, <1>5, <1>6, <1>7 DEF IndInv

(* An answer is one of a query that was executed, and the first of it.     *)
LEMMA InvokeLastStep ==
    ASSUME IndInv, InvokeLast
    PROVE  IndInv'
<1> DEFINE c == Head(updating)
           q == future[c]
<1>a. /\ phase = "open" /\ c \in Callbacks /\ updating' \in Seq(Callbacks)
  BY DEF InvokeLast, IndInv, TypeOK, PhaseInv
<1>b. /\ q # NoOp /\ q \in Queries /\ q \in Ops /\ q[1] = c /\ c \notin done
      /\ q \in Range(enqueued)
      /\ promise[q] \in {"set", "broken"}
  <2>1. Ready(c) /\ future[c] \in Queries \cup {NoOp} /\ ChainOf(c)
    BY <1>a DEF InvokeLast, IndInv, TypeOK, ChainInv
  <2>2. q # NoOp /\ promise[q] \in {"set", "broken"}
    BY <2>1 DEF Ready
  <2>3. q \in Queries /\ q[1] = c /\ c \notin done /\ q \in Range(enqueued)
    BY <2>1, <2>2 DEF ChainOf
  <2> QED
    BY <2>2, <2>3 DEF Ops
<1>c. runs[q] = 1 /\ (q[1] \notin Transactions => promise[q] = "set") /\ answered[q] = 0
  <2>1. AnswerOf(q) /\ answered[q] \in Nat /\ q[2] \in Nat
    BY <1>b, Universe DEF IndInv, TypeOK, AnswerInv
  <2>2. runs[q] = 1 /\ (q[1] \notin Transactions => promise[q] = "set")
    BY <1>a, <1>b, <2>1 DEF AnswerOf
  <2>3. ~(answered[q] > 0)
    BY <1>b, <2>1 DEF AnswerOf
  <2> QED
    BY <2>1, <2>2, <2>3
<1>d. /\ answered' = [answered EXCEPT ![q] = @ + 1] /\ future' = [future EXCEPT ![c] = NoOp]
      /\ links' = [links EXCEPT ![c] = 0] /\ done' = done \cup {c}
      /\ UNCHANGED <<poolVars, queue, shutdown, threadVars, promise, callbacks, kept, historyVars>>
  BY DEF InvokeLast, Answer
<1>e. /\ answered'[q] = 1 /\ \A x \in Queries : x # q => answered'[x] = answered[x]
      /\ future'[c] = NoOp /\ \A d \in Callbacks : d # c => future'[d] = future[d]
      /\ links'[c] = 0 /\ \A d \in Callbacks : d # c => links'[d] = links[d]
      /\ answered' \in [Queries -> Nat]
  BY <1>a, <1>b, <1>c, <1>d DEF IndInv, TypeOK
<1>1. TypeOK'
  <2>1. future' \in [Callbacks -> Queries \cup {NoOp}]
    BY <1>d DEF IndInv, TypeOK
  <2>2. links' \in [Callbacks -> 0 .. MaxLinks] /\ done' \in SUBSET Callbacks
    <3>1. 0 \in 0 .. MaxLinks
      BY Universe
    <3> QED
      BY <1>a, <1>d, <3>1 DEF IndInv, TypeOK
  <2> QED
    BY <1>a, <1>d, <1>e, <2>1, <2>2 DEF IndInv, TypeOK
<1>2. EnqueuedInv'
  BY Universe, <1>a, <1>b, <1>c, <1>d, <1>e DEF IndInv, TypeOK, EnqueuedInv
<1>3. FateInv'
  BY Universe, <1>a, <1>b, <1>c, <1>d, <1>e DEF IndInv, TypeOK, FateInv
<1>4. OrderInv'
  BY Universe, <1>a, <1>b, <1>c, <1>d, <1>e DEF IndInv, TypeOK, OrderInv, TakenOps
<1>5. ChainInv'
  <2> SUFFICES ASSUME NEW d \in Callbacks PROVE ChainOf(d)'
    BY DEF ChainInv
  <2>1. ChainOf(d)
    BY DEF IndInv, ChainInv
  <2>2. CASE d # c
    BY <1>d, <1>e, <2>1, <2>2, Universe DEF ChainOf
  <2>3. CASE d = c
    BY <1>d, <1>e, <2>3 DEF ChainOf
  <2> QED
    BY <2>2, <2>3
<1>6. PhaseInv'
  BY Universe, <1>a, <1>b, <1>c, <1>d, <1>e
     DEF IndInv, TypeOK, PhaseInv, ConnectionOutlivesWorker
<1>7. AnswerInv'
  <2> SUFFICES ASSUME NEW x \in Queries PROVE AnswerOf(x)'
    BY DEF AnswerInv
  <2>1. x \in Ops /\ x[1] \in Callbacks /\ x[2] \in Nat /\ AnswerOf(x)
    BY Universe DEF IndInv, AnswerInv
  <2>2. CASE x = q
    BY <1>b, <1>c, <1>d, <1>e, <2>1, <2>2 DEF AnswerOf
  <2>3. CASE x # q
    BY <1>b, <1>d, <1>e, <2>1, <2>3 DEF AnswerOf
  <2> QED
    BY <2>2, <2>3
<1> QED
  BY <1>1, <1>2, <1>3, <1>4, <1>5, <1>6, <1>7 DEF IndInv

(* The next query of a chain is later than all its queries so far.         *)
LEMMA InvokeNextStepStep ==
    ASSUME IndInv, InvokeNextStep
    PROVE  IndInv'
<1> DEFINE c == Head(updating)
           q == future[c]
           n == <<c, q[2] + 1>>
<1>a. /\ phase = "open" /\ c \in Callbacks /\ updating' \in Seq(Callbacks)
      /\ kept' \in Seq(Callbacks)
  BY DEF InvokeNextStep, KeepChained, IndInv, TypeOK, PhaseInv
<1>b. /\ q # NoOp /\ q \in Queries /\ q \in Ops /\ q[1] = c /\ c \notin done
      /\ q \in Range(enqueued)
      /\ promise[q] \in {"set", "broken"} /\ links[c] > 1 /\ links[c] + q[2] <= MaxLinks + 1
      /\ q[2] \in Nat /\ links[c] \in Nat /\ q[2] + 1 \in 1 .. MaxLinks
  <2>1. /\ Ready(c) /\ MayChain(c) /\ future[c] \in Queries \cup {NoOp} /\ ChainOf(c)
        /\ links[c] \in 0 .. MaxLinks
    BY <1>a DEF InvokeNextStep, IndInv, TypeOK, ChainInv
  <2>2. /\ q # NoOp /\ q \in Queries /\ q \in Ops /\ q[1] = c /\ c \notin done
        /\ q \in Range(enqueued)
        /\ promise[q] \in {"set", "broken"} /\ links[c] > 1 /\ links[c] + q[2] <= MaxLinks + 1
    <3>1. q # NoOp /\ promise[q] \in {"set", "broken"} /\ links[c] > 1
      BY <2>1 DEF Ready, MayChain
    <3>2. /\ q \in Queries /\ q[1] = c /\ c \notin done /\ q \in Range(enqueued)
          /\ links[c] + q[2] <= MaxLinks + 1
      BY <2>1, <3>1 DEF ChainOf
    <3> QED
      BY <3>1, <3>2 DEF Ops
  <2>3. q[2] \in 1 .. MaxLinks /\ MaxLinks \in Nat
    BY <2>2, Universe
  <2> QED
    BY <2>1, <2>2, <2>3
<1>c. runs[q] = 1 /\ (q[1] \notin Transactions => promise[q] = "set") /\ answered[q] = 0
  <2>1. AnswerOf(q) /\ answered[q] \in Nat /\ q[2] \in Nat
    BY <1>b, Universe DEF IndInv, TypeOK, AnswerInv
  <2>2. runs[q] = 1 /\ (q[1] \notin Transactions => promise[q] = "set")
    BY <1>a, <1>b, <2>1 DEF AnswerOf
  <2>3. ~(answered[q] > 0)
    BY <1>b, <2>1 DEF AnswerOf
  <2> QED
    BY <2>1, <2>2, <2>3
<1>d. /\ n \in Queries /\ n \in Ops /\ n[1] = c /\ n[2] = q[2] + 1 /\ n # q
      /\ n \notin Range(enqueued)
  <2>1. n \in Queries /\ n \in Ops /\ n[1] = c /\ n[2] = q[2] + 1
    BY <1>a, <1>b, Universe
  <2>2. ChainOf(c)
    BY <1>a DEF IndInv, ChainInv
  <2>3. n # q
    BY <1>b, <2>1
  <2>4. n \notin Range(enqueued)
    BY <1>b, <2>2 DEF ChainOf
  <2> QED
    BY <2>1, <2>3, <2>4
<1>e. /\ EnqueuedInv' /\ FateInv' /\ OrderInv'
      /\ queue' \in Seq(Ops) /\ enqueued' \in Seq(Ops)
      /\ Range(enqueued') = Range(enqueued) \cup {n}
  <2>1. Enqueue(n)
    BY DEF InvokeNextStep
  <2> QED
    BY <1>a, <1>d, <2>1, EnqueueKeeps
<1>f. /\ UNCHANGED <<runs, deleted, shutdown, threadVars, poolVars, callbacks, done>>
      /\ answered' = [answered EXCEPT ![q] = @ + 1] /\ future' = [future EXCEPT ![c] = n]
      /\ links' = [links EXCEPT ![c] = @ - 1] /\ promise' = [promise EXCEPT ![n] = "pending"]
  BY DEF InvokeNextStep, Answer, Enqueue
<1>g. /\ answered'[q] = 1 /\ \A x \in Queries : x # q => answered'[x] = answered[x]
      /\ future'[c] = n /\ \A d \in Callbacks : d # c => future'[d] = future[d]
      /\ links'[c] = links[c] - 1 /\ \A d \in Callbacks : d # c => links'[d] = links[d]
      /\ promise'[n] = "pending" /\ \A x \in Ops : x # n => promise'[x] = promise[x]
      /\ answered' \in [Queries -> Nat] /\ links' \in [Callbacks -> 0 .. MaxLinks]
  <2>1. /\ answered'[q] = 1 /\ \A x \in Queries : x # q => answered'[x] = answered[x]
        /\ answered' \in [Queries -> Nat]
    BY <1>b, <1>c, <1>f DEF IndInv, TypeOK
  <2>2. future'[c] = n /\ \A d \in Callbacks : d # c => future'[d] = future[d]
    BY <1>a, <1>f DEF IndInv, TypeOK
  <2>3. /\ links'[c] = links[c] - 1 /\ \A d \in Callbacks : d # c => links'[d] = links[d]
        /\ links' \in [Callbacks -> 0 .. MaxLinks]
    <3>1. links[c] - 1 \in 0 .. MaxLinks
      <4>1. links[c] \in 0 .. MaxLinks
        BY <1>a DEF IndInv, TypeOK
      <4> QED
        BY <1>b, <4>1, Universe
    <3> QED
      BY <1>a, <1>f, <3>1 DEF IndInv, TypeOK
  <2>4. promise'[n] = "pending" /\ \A x \in Ops : x # n => promise'[x] = promise[x]
    BY <1>d, <1>f DEF IndInv, TypeOK
  <2> QED
    BY <2>1, <2>2, <2>3, <2>4
<1>1. TypeOK'
  <2>1. promise' \in [Ops -> {"none", "pending", "set", "broken"}]
    BY <1>d, <1>f DEF IndInv, TypeOK
  <2>2. future' \in [Callbacks -> Queries \cup {NoOp}]
    BY <1>d, <1>f DEF IndInv, TypeOK
  <2> QED
    BY <1>a, <1>e, <1>f, <1>g, <2>1, <2>2 DEF IndInv, TypeOK
<1>2. EnqueuedInv'
  BY <1>e
<1>3. FateInv'
  BY <1>e
<1>4. OrderInv'
  BY <1>e
<1>5. ChainInv'
  <2> SUFFICES ASSUME NEW d \in Callbacks PROVE ChainOf(d)'
    BY DEF ChainInv
  <2>1. ChainOf(d)
    BY DEF IndInv, ChainInv
  <2>2. CASE d # c
    BY <1>b, <1>e, <1>f, <1>g, <2>1, <2>2, Universe DEF ChainOf
  <2>3. CASE d = c
    <3>1. /\ future'[c] = n /\ future'[c] # NoOp /\ future'[c][2] = q[2] + 1
          /\ future'[c] \in Range(enqueued')
      BY <1>d, <1>e, <1>g, Universe
    <3>2. \A m \in 1 .. MaxLinks : <<c, m>> \in Range(enqueued') => m <= q[2] + 1
      <4>1. \A m \in 1 .. MaxLinks : <<c, m>> \in Range(enqueued) => m <= q[2]
        BY <1>b, <2>1, <2>3 DEF ChainOf
      <4>2. \A m \in 1 .. MaxLinks : <<c, m>> = n => m = q[2] + 1
        OBVIOUS
      <4> QED
        BY <1>b, <1>e, <4>1, <4>2
    <3>3. links'[c] > 0 /\ links'[c] + (q[2] + 1) <= MaxLinks + 1 /\ c \notin done'
      BY <1>b, <1>f, <1>g, Universe
    <3> QED
      BY <1>d, <2>3, <3>1, <3>2, <3>3 DEF ChainOf
  <2> QED
    BY <2>2, <2>3
<1>6. PhaseInv'
  BY <1>a, <1>f DEF IndInv, TypeOK, PhaseInv, ConnectionOutlivesWorker
<1>7. AnswerInv'
  <2> SUFFICES ASSUME NEW x \in Queries PROVE AnswerOf(x)'
    BY DEF AnswerInv
  <2>1. x \in Ops /\ x[1] \in Callbacks /\ x[2] \in Nat /\ AnswerOf(x)
    BY Universe DEF IndInv, AnswerInv
  <2>2. CASE x = n
    <3>1. answered[n] = 0 /\ n \notin Range(enqueued) /\ answered'[n] = 0
      BY <1>d, <1>g, <2>1, <2>2 DEF AnswerOf, IndInv, TypeOK
    <3> QED
      BY <1>g, <2>2, <3>1 DEF AnswerOf
  <2>3. CASE x = q
    BY <1>b, <1>c, <1>d, <1>e, <1>f, <1>g, <2>1, <2>3, Universe DEF AnswerOf
  <2>4. CASE x # q /\ x # n
    <3>1. CASE x[1] = c
      BY <1>b, <1>d, <1>e, <1>f, <1>g, <2>1, <2>4, <3>1, Universe DEF AnswerOf
    <3>2. CASE x[1] # c
      BY <1>d, <1>e, <1>f, <1>g, <2>1, <2>4, <3>2 DEF AnswerOf
    <3> QED
      BY <3>1, <3>2
  <2> QED
    BY <2>2, <2>3, <2>4
<1> QED
  BY <1>1, <1>2, <1>3, <1>4, <1>5, <1>6, <1>7 DEF IndInv

-----------------------------------------------------------------------------
(* The invariant holds initially and no step breaks it.                    *)
LEMMA Invariance == Spec => []IndInv
<1>1. Init => IndInv
  <2> SUFFICES ASSUME Init PROVE IndInv
    OBVIOUS
  <2>1. TypeOK
    <3>1. 0 \in 0 .. AsyncThreads /\ 0 \in 0 .. MaxLinks
      BY Universe
    <3>2. /\ connections \in Seq(Workers) /\ dying \in Seq(Workers) /\ queue \in Seq(Ops)
          /\ enqueued \in Seq(Ops) /\ callbacks \in Seq(Callbacks)
          /\ updating \in Seq(Callbacks) /\ kept \in Seq(Callbacks)
      BY DEF Init
    <3> QED
      BY <3>1, <3>2 DEF Init, TypeOK
  <2>2. EnqueuedInv /\ FateInv /\ OrderInv
    BY EmptyRange DEF Init, EnqueuedInv, FateInv, OrderInv, TakenOps
  <2>3. ChainInv /\ PhaseInv /\ AnswerInv
    BY EmptyRange, Universe
       DEF Init, ChainInv, ChainOf, PhaseInv, AnswerInv, AnswerOf,
           ConnectionOutlivesWorker
  <2> QED
    BY <2>1, <2>2, <2>3 DEF IndInv
<1>2. IndInv /\ [Next]_vars => IndInv'
  <2> SUFFICES ASSUME IndInv, [Next]_vars PROVE IndInv'
    OBVIOUS
  <2>1. CASE UNCHANGED vars
    <3>1. TypeOK' /\ EnqueuedInv' /\ PhaseInv'
      BY <2>1 DEF vars, IndInv, TypeOK, EnqueuedInv, PhaseInv, ConnectionOutlivesWorker
    <3>2. TakenOps' = TakenOps
      BY <2>1 DEF vars, TakenOps
    <3>3. FateInv' /\ OrderInv'
      BY <2>1, <3>2 DEF vars, IndInv, FateInv, OrderInv
    <3>4. ChainInv' /\ AnswerInv'
      BY <2>1 DEF vars, IndInv, ChainInv, ChainOf, AnswerInv, AnswerOf
    <3> QED
      BY <3>1, <3>3, <3>4 DEF IndInv
  <2>2. CASE PoolStep
    BY <2>2, OpenStep, CreateConnectionStep, ConnectionOpenedStep,
       ConnectionFailedStep, LoaderStep, CloseStep, DestroyPoolStep
       DEF PoolStep
  <2>3. CASE StopStep
    BY <2>3, SetCancelationTokenStep, CancelSharedQueueStep, JoinWorkerStep,
       ClosedStep
       DEF StopStep
  <2>4. ASSUME NEW w \in Workers, WorkerThread(w) PROVE IndInv'
    BY <2>4, WaitAndPopStep, RoundStep, ExecuteOperationStep DEF WorkerThread
  <2>5. CASE ProcessReadyQueries
    BY <2>5, ProcessorStep, InvokeLastStep, InvokeNextStepStep DEF ProcessReadyQueries
  <2>6. CASE Request
    BY <2>6, ExecuteStep, AddQueryStep, AddEmptyTransactionStep DEF Request
  <2> QED
    BY <2>1, <2>2, <2>3, <2>4, <2>5, <2>6 DEF Next
<1> QED
  BY <1>1, <1>2, PTL DEF Spec

(* Every variable keeps its type.                                          *)
THEOREM TypeCorrect == Spec => []TypeOK
BY Invariance, PTL DEF IndInv

(* No operation is executed twice, or executed and deleted, whatever the   *)
(* workers, Cancel and the chains of callbacks do.                         *)
THEOREM FateIsOne == Spec => []OneFate
<1>1. IndInv => OneFate
  <2> SUFFICES ASSUME IndInv PROVE OneFate
    OBVIOUS
  <2>1. \A o \in Ops : runs[o] + (IF o \in deleted THEN 1 ELSE 0) <= 1
    BY DEF IndInv, FateInv
  <2>2. \A o \in Range(queue) : runs[o] = 0 /\ o \notin deleted
    BY DEF IndInv, FateInv
  <2>3. \A w \in Workers : operation[w] # NoOp =>
            runs[operation[w]] = 0 /\ operation[w] \notin deleted
    BY DEF IndInv, FateInv
  <2> QED
    BY <2>1, <2>2, <2>3 DEF OneFate
<1> QED
  BY <1>1, Invariance, PTL

(* An operation overtakes at most as many earlier ones as there are other  *)
(* workers: each of these is still in the hands of one of them.            *)
THEOREM ReorderingIsBounded == Spec => []BoundedReordering
<1>1. IndInv => BoundedReordering
  <2> SUFFICES ASSUME IndInv, NEW k \in 1 .. Len(enqueued), runs[enqueued[k]] > 0
               PROVE  Cardinality(Overtaken(k)) < AsyncThreads
    BY DEF BoundedReordering
  <2>1. PICK w \in Workers : \A i \in 1 .. k - 1 : operation[w] # enqueued[i]
    BY DEF IndInv, OrderInv
  <2>2. /\ Len(enqueued) \in Nat /\ \A i \in 1 .. Len(enqueued) : enqueued[i] \in Ops
        /\ Overtaken(k) \subseteq 1 .. k - 1
    BY DEF IndInv, TypeOK, Overtaken
  <2>3. \A i \in Overtaken(k) : \E v \in Workers \ {w} : operation[v] = enqueued[i]
    <3> SUFFICES ASSUME NEW i \in Overtaken(k)
                 PROVE  \E v \in Workers \ {w} : operation[v] = enqueued[i]
      OBVIOUS
    <3>1. i \in 1 .. k - 1 /\ runs[enqueued[i]] = 0
      BY DEF Overtaken
    <3>2. enqueued[i] \in TakenOps
      <4>1. enqueued[k] \in TakenOps
        BY <2>2 DEF TakenOps
      <4> QED
        BY <3>1, <4>1 DEF IndInv, OrderInv
    <3> QED
      BY <2>1, <3>1, <3>2 DEF TakenOps
  <2> DEFINE f == [i \in Overtaken(k) |->
                     CHOOSE v \in Workers \ {w} : operation[v] = enqueued[i]]
  <2>4. /\ f \in [Overtaken(k) -> Workers \ {w}]
        /\ \A i \in Overtaken(k) : operation[f[i]] = enqueued[i]
    BY <2>3
  <2>5. /\ IsFiniteSet(Overtaken(k)) /\ IsFiniteSet(Workers \ {w})
        /\ Cardinality(Workers \ {w}) = AsyncThreads - 1
    <3>1. IsFiniteSet(1 .. k - 1)
      BY <2>2, FS_Interval
    <3>2. IsFiniteSet(Workers) /\ Cardinality(Workers) = AsyncThreads
      <4>1. 1 \in Int /\ AsyncThreads \in Int /\ AsyncThreads >= 1 /\ Workers = 1 .. AsyncThreads
        BY Universe
      <4>2. IsFiniteSet(1 .. AsyncThreads) /\ Cardinality(1 .. AsyncThreads) = AsyncThreads - 1 + 1
        BY <4>1, FS_Interval, Z3
      <4> QED
        BY <4>1, <4>2
    <3> QED
      BY <2>2, <3>1, <3>2, FS_Subset, FS_RemoveElement
  <2>6. Cardinality(Overtaken(k)) <= Cardinality(Workers \ {w})
    <3>1. SUFFICES ASSUME Cardinality(Workers \ {w}) < Cardinality(Overtaken(k)) PROVE FALSE
      BY <2>5, FS_CardinalityType
    <3> HIDE DEF f
    <3>2. PICK x, y \in Overtaken(k) : x # y /\ f[x] = f[y]
      BY <2>4, <2>5, <3>1, FS_PigeonHole
    <3>3. enqueued[x] = enqueued[y]
      BY <2>4, <3>2
    <3> QED
      BY <2>2, <3>2, <3>3 DEF IndInv, EnqueuedInv, Distinct
  <2> QED
    BY <2>5, <2>6, Universe, FS_CardinalityType
<1> QED
  BY <1>1, Invariance, PTL

(* A worker thread runs only while its connection exists.                  *)
THEOREM ConnectionIsThere == Spec => []ConnectionOutlivesWorker
BY Invariance, PTL DEF IndInv, PhaseInv

(* Answers are handed out once and after the query ran; a broken promise   *)
(* is met only by those who wait for a transaction.                        *)
THEOREM AnswersAreFromQueries == Spec => []AnswersAreReal
<1>1. IndInv => AnswersAreReal
  BY DEF IndInv, AnswerInv, AnswerOf, AnswersAreReal
<1> QED
  BY <1>1, Invariance, PTL
-----------------------------------------------------------------------------
(* A QueryCallback that waits is in one of the three vectors, once.        *)
CallbacksInv ==
    /\ Distinct(callbacks) /\ Distinct(updating) /\ Distinct(kept)
    /\ Range(callbacks) \cap Range(updating) = {}
    /\ Range(callbacks) \cap Range(kept) = {}
    /\ Range(updating) \cap Range(kept) = {}
    /\ \A c \in Callbacks :
           links[c] > 0 <=> c \in Range(callbacks) \cup Range(updating) \cup Range(kept)

(* What two vectors without a common entry give when they are joined.      *)
LEMMA ConcatRange ==
    ASSUME NEW S, NEW q \in Seq(S), NEW r \in Seq(S)
    PROVE  /\ q \o r \in Seq(S) /\ Range(q \o r) = Range(q) \cup Range(r)
           /\ Distinct(q) /\ Distinct(r) /\ Range(q) \cap Range(r) = {} => Distinct(q \o r)
<1>1. /\ q \o r \in Seq(S) /\ Len(q) \in Nat /\ Len(r) \in Nat /\ Len(q \o r) = Len(q) + Len(r)
      /\ DOMAIN (q \o r) = 1 .. Len(q) + Len(r) /\ DOMAIN q = 1 .. Len(q) /\ DOMAIN r = 1 .. Len(r)
      /\ \A k \in 1 .. Len(q) : (q \o r)[k] = q[k]
      /\ \A k \in 1 .. Len(q) + Len(r) : k > Len(q) => (q \o r)[k] = r[k - Len(q)]
  OBVIOUS
<1>2. \A k \in 1 .. Len(q) + Len(r) : k \in 1 .. Len(q) \/ (k > Len(q) /\ k - Len(q) \in 1 .. Len(r))
  BY <1>1
<1>3. \A k \in 1 .. Len(q) + Len(r) : (q \o r)[k] \in Range(q) \cup Range(r)
  BY <1>1, <1>2 DEF Range
<1>4. \A x \in Range(q) : x \in Range(q \o r)
  <2>1. \A k \in 1 .. Len(q) : k \in 1 .. Len(q) + Len(r)
    BY <1>1
  <2> QED
    BY <1>1, <2>1 DEF Range
<1>5. ASSUME NEW x \in Range(r) PROVE x \in Range(q \o r)
  <2>1. PICK k \in 1 .. Len(r) : r[k] = x
    BY <1>1 DEF Range
  <2>2. k + Len(q) \in 1 .. Len(q) + Len(r) /\ k + Len(q) > Len(q) /\ k + Len(q) - Len(q) = k
    BY <1>1
  <2>3. (q \o r)[k + Len(q)] = x
    BY <1>1, <2>1, <2>2
  <2> QED
    BY <1>1, <2>2, <2>3 DEF Range
<1>6. Range(q \o r) = Range(q) \cup Range(r)
  <2>1. \A x \in Range(q \o r) : x \in Range(q) \cup Range(r)
    BY <1>1, <1>3 DEF Range
  <2> QED
    BY <1>4, <1>5, <2>1
<1>7. ASSUME Distinct(q), Distinct(r), Range(q) \cap Range(r) = {},
             NEW j \in 1 .. Len(q) + Len(r), NEW k \in 1 .. Len(q) + Len(r),
             (q \o r)[j] = (q \o r)[k]
      PROVE  j = k
  <2>1. CASE j \in 1 .. Len(q) /\ k \in 1 .. Len(q)
    BY <1>1, <1>7, <2>1 DEF Distinct
  <2>2. CASE j > Len(q) /\ k > Len(q)
    <3>1. /\ j - Len(q) \in 1 .. Len(r) /\ k - Len(q) \in 1 .. Len(r)
          /\ r[j - Len(q)] = r[k - Len(q)]
      BY <1>1, <1>2, <1>7, <2>2
    <3>2. j - Len(q) = k - Len(q)
      BY <1>7, <3>1 DEF Distinct
    <3> QED
      BY <1>1, <3>2
  <2>3. ASSUME NEW a \in 1 .. Len(q), NEW b \in 1 .. Len(q) + Len(r), b > Len(q)
        PROVE  (q \o r)[a] # (q \o r)[b]
    <3>1. (q \o r)[a] \in Range(q)
      BY <1>1 DEF Range
    <3>2. (q \o r)[b] \in Range(r)
      BY <1>1, <1>2, <2>3 DEF Range
    <3> QED
      BY <1>7, <3>1, <3>2
  <2> QED
    BY <1>1, <1>2, <1>7, <2>1, <2>2, <2>3
<1>8. Distinct(q) /\ Distinct(r) /\ Range(q) \cap Range(r) = {} => Distinct(q \o r)
  <2> HIDE DEF Distinct
  <2> QED
    BY <1>1, <1>7 DEF Distinct
<1> QED
  BY <1>1, <1>6, <1>8

(* Adding: a callback that waits already is not added again.               *)
LEMMA AddKeeps ==
    ASSUME IndInv, CallbacksInv, NEW c \in Callbacks, NEW n \in 1 .. MaxLinks,
           AddQuery(c, n) \/ AddEmptyTransaction(c)
    PROVE  CallbacksInv'
<1>1. /\ callbacks \in Seq(Callbacks) /\ links \in [Callbacks -> 0 .. MaxLinks] /\ links[c] = 0
      /\ callbacks' = Append(callbacks, c) /\ updating' = updating /\ kept' = kept
      /\ links' = [links EXCEPT ![c] = n] \/ links' = [links EXCEPT ![c] = 1]
  BY DEF AddQuery, AddEmptyTransaction, Unused, IndInv, TypeOK
<1>2. /\ c \notin Range(callbacks) \cup Range(updating) \cup Range(kept)
  BY <1>1 DEF CallbacksInv
<1>3. Range(callbacks') = Range(callbacks) \cup {c} /\ Distinct(callbacks')
  BY <1>1, <1>2, AppendRange DEF CallbacksInv
<1>4. links'[c] > 0 /\ \A d \in Callbacks : d # c => links'[d] = links[d]
  BY <1>1
<1> QED
  BY <1>1, <1>2, <1>3, <1>4 DEF CallbacksInv

(* Processing: an entry is moved, kept, or gone when it is completed.      *)
LEMMA ProcessKeeps ==
    ASSUME IndInv, CallbacksInv, ProcessReadyQueries
    PROVE  CallbacksInv'
<1>1. /\ callbacks \in Seq(Callbacks) /\ updating \in Seq(Callbacks) /\ kept \in Seq(Callbacks)
      /\ links \in [Callbacks -> 0 .. MaxLinks]
  BY DEF IndInv, TypeOK
<1>2. CASE TakeCallbacks
  BY <1>2, EmptyRange DEF TakeCallbacks, Idle, CallbacksInv
<1>3. CASE PutBack
  <2>1. /\ Range(callbacks \o kept) = Range(callbacks) \cup Range(kept)
        /\ Distinct(callbacks \o kept)
    BY <1>1, ConcatRange DEF CallbacksInv
  <2>2. /\ callbacks' = callbacks \o kept /\ kept' = <<>> /\ updating = <<>>
        /\ updating' = updating /\ links' = links
    BY <1>3 DEF PutBack
  <2> QED
    BY <2>1, <2>2, EmptyRange DEF CallbacksInv
<1>4. ASSUME updating # <<>>, updating' = Tail(updating), callbacks' = callbacks
      PROVE  /\ Head(updating) \in Callbacks /\ Distinct(updating')
             /\ Range(updating) = Range(updating') \cup {Head(updating)}
             /\ Head(updating) \notin Range(updating') \cup Range(callbacks) \cup Range(kept)
             /\ links[Head(updating)] > 0
  <2>1. /\ Head(updating) \in Callbacks /\ Head(updating) \in Range(updating)
        /\ Distinct(updating') /\ Head(updating) \notin Range(updating')
        /\ Range(updating) = Range(updating') \cup {Head(updating)}
    BY <1>1, <1>4, TailRange DEF CallbacksInv
  <2> QED
    BY <2>1 DEF CallbacksInv
<1>5. ASSUME Head(updating) \in Callbacks, Head(updating) \notin Range(kept),
             kept' = Append(kept, Head(updating))
      PROVE  Range(kept') = Range(kept) \cup {Head(updating)} /\ Distinct(kept')
  BY <1>1, <1>5, AppendRange DEF CallbacksInv
<1>6. CASE NotReady
  <2>1. /\ updating # <<>> /\ updating' = Tail(updating) /\ callbacks' = callbacks
        /\ kept' = Append(kept, Head(updating)) /\ links' = links
    BY <1>6 DEF NotReady
  <2> QED
    BY <1>4, <1>5, <2>1 DEF CallbacksInv
<1>7. CASE InvokeLast
  <2>1. /\ updating # <<>> /\ updating' = Tail(updating) /\ callbacks' = callbacks
        /\ kept' = kept /\ links' = [links EXCEPT ![Head(updating)] = 0]
    BY <1>7 DEF InvokeLast
  <2>2. /\ ~(links'[Head(updating)] > 0)
        /\ \A d \in Callbacks : d # Head(updating) => links'[d] = links[d]
    BY <1>1, <1>4, <2>1
  <2> QED
    BY <1>4, <2>1, <2>2 DEF CallbacksInv
<1>8. CASE InvokeNextStep
  <2>1. /\ updating # <<>> /\ updating' = Tail(updating) /\ callbacks' = callbacks
        /\ kept' = Append(kept, Head(updating)) /\ links[Head(updating)] > 1
        /\ links' = [links EXCEPT ![Head(updating)] = @ - 1]
    BY <1>8 DEF InvokeNextStep, KeepChained, MayChain
  <2>2. links'[Head(updating)] > 0 /\ \A d \in Callbacks : d # Head(updating) => links'[d] = links[d]
    BY <1>1, <1>4, <2>1
  <2> QED
    BY <1>4, <1>5, <2>1, <2>2 DEF CallbacksInv
<1> QED
  BY <1>2, <1>3, <1>6, <1>7, <1>8 DEF ProcessReadyQueries

(* No callback is lost, or tried twice in one round, whatever callbacks    *)
(* add and chain while the vector is worked on.                            *)
THEOREM CallbacksAreKept == Spec => []NoCallbackLost
<1>1. Init => CallbacksInv
  BY EmptyRange DEF Init, CallbacksInv
<1>2. IndInv /\ CallbacksInv /\ [Next]_vars => CallbacksInv'
  <2> SUFFICES ASSUME IndInv, CallbacksInv, [Next]_vars PROVE CallbacksInv'
    OBVIOUS
  <2>1. ASSUME UNCHANGED procVars PROVE CallbacksInv'
    BY <2>1 DEF CallbacksInv
  <2>2. CASE UNCHANGED vars
    BY <2>1, <2>2 DEF vars
  <2>3. CASE PoolStep
    BY <2>1, <2>3 DEF PoolStep, Open, CreateConnection, ConnectionOpened, ConnectionFailed,
        ConnectionErrorReadAsZero, OpenFailed, OpenSynchConnections, Close, DestroyPool
  <2>4. CASE StopStep
    BY <2>1, <2>4 DEF StopStep, SetCancelationToken, CancelSharedQueue, JoinWorker, Closed
  <2>5. ASSUME NEW w \in Workers, WorkerThread(w) PROVE CallbacksInv'
    BY <2>1, <2>5 DEF WorkerThread, WaitAndPop, ReturnFromThread, StartOperation, ExecuteOperation
  <2>6. CASE ProcessReadyQueries
    BY <2>6, ProcessKeeps
  <2>7. CASE Request
    <3>1. ASSUME NEW o \in Writes, Execute(o) PROVE CallbacksInv'
      BY <2>1, <3>1 DEF Execute
    <3>2. ASSUME NEW c \in Callbacks, NEW n \in 1 .. MaxLinks, AddQuery(c, n) PROVE CallbacksInv'
      BY <3>2, AddKeeps
    <3>3. ASSUME NEW c \in Callbacks, AddEmptyTransaction(c) PROVE CallbacksInv'
      BY <3>3, AddKeeps, Universe, 1 \in 1 .. MaxLinks
    <3> QED
      BY <2>7, <3>1, <3>2, <3>3 DEF Request
  <2> QED
    BY <2>2, <2>3, <2>4, <2>5, <2>6, <2>7 DEF Next
<1>3. IndInv /\ CallbacksInv => NoCallbackLost
  <2> SUFFICES ASSUME IndInv, CallbacksInv, NEW c \in Callbacks
               PROVE  Cardinality({i \in 1 .. Len(callbacks \o updating \o kept) :
                                     (callbacks \o updating \o kept)[i] = c})
                          = IF links[c] > 0 THEN 1 ELSE 0
    BY DEF NoCallbackLost
  <2> DEFINE all == callbacks \o updating \o kept
             at  == {i \in 1 .. Len(all) : all[i] = c}
  <2>1. callbacks \in Seq(Callbacks) /\ updating \in Seq(Callbacks) /\ kept \in Seq(Callbacks)
    BY DEF IndInv, TypeOK
  <2>2. /\ callbacks \o updating \in Seq(Callbacks) /\ Distinct(callbacks \o updating)
        /\ Range(callbacks \o updating) = Range(callbacks) \cup Range(updating)
    BY <2>1, ConcatRange DEF CallbacksInv
  <2>3. /\ all \in Seq(Callbacks) /\ Distinct(all)
        /\ Range(all) = Range(callbacks) \cup Range(updating) \cup Range(kept)
    <3> DEFINE cu == callbacks \o updating
    <3>1. /\ cu \in Seq(Callbacks) /\ Distinct(cu) /\ Distinct(kept)
          /\ Range(cu) \cap Range(kept) = {}
      BY <2>2 DEF CallbacksInv
    <3>2. /\ cu \o kept \in Seq(Callbacks) /\ Distinct(cu \o kept)
          /\ Range(cu \o kept) = Range(cu) \cup Range(kept)
      <4> HIDE DEF cu
      <4> QED
        BY <2>1, <3>1, ConcatRange
    <3> QED
      BY <2>2, <3>2
  <2>4. CASE links[c] > 0
    <3>1. c \in Range(all)
      BY <2>3, <2>4 DEF CallbacksInv
    <3>2. PICK i \in 1 .. Len(all) : all[i] = c
      <4> HIDE DEF all
      <4> QED
        BY <2>3, <3>1, RangeType
    <3>3. at = {i}
      <4> HIDE DEF all
      <4> QED
        BY <2>3, <3>2 DEF Distinct
    <3> QED
      BY <2>4, <3>3, FS_Singleton
  <2>5. CASE ~(links[c] > 0)
    <3>1. c \notin Range(all)
      BY <2>3, <2>5 DEF CallbacksInv
    <3>2. at = {}
      <4> HIDE DEF all
      <4> QED
        BY <2>3, <3>1, RangeType
    <3> QED
      BY <2>5, <3>2, FS_EmptySet
  <2> QED
    BY <2>4, <2>5
<1> QED
  BY <1>1, <1>2, <1>3, Invariance, PTL DEF Spec
=============================================================================
