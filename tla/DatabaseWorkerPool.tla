------------------------- MODULE DatabaseWorkerPool -------------------------
(***************************************************************************)
(* One database: the pool with its asynchronous connections, the worker    *)
(* thread each of them owns, the queue they share, and one                 *)
(* QueryCallbackProcessor through which the thread that asks (the world    *)
(* thread, a socket) learns the answers.  The queue is used through its    *)
(* atomic operations, which ProducerConsumerQueue is shown to implement.   *)
(***************************************************************************)
EXTENDS Naturals, Sequences, FiniteSets, Functions

CONSTANTS
    AsyncThreads,    \* <name>Database.WorkerThreads
    AutoSetup,       \* Updates.AutoSetup, with updates enabled for this pool
    Writes,          \* one-way statements, each enqueued at most once
    Callbacks,       \* QueryCallback objects, each added at most once
    Transactions,    \* those that wait for a transaction, not for a result
    MaxLinks,        \* bound: callbacks chained on one QueryCallback
    NoOp             \* a null SQLOperation*, a future without a promise

ASSUME PoolAssumption ==
    /\ AsyncThreads \in 1 .. 32               \* checked by DatabaseLoader
    /\ AutoSetup \in BOOLEAN
    /\ Transactions \subseteq Callbacks
    /\ MaxLinks \in Nat \ {0}

Workers == 1 .. AsyncThreads
Queries == Callbacks \X (1 .. MaxLinks)
Ops     == Writes \cup Queries

ASSUME OpsAssumption == NoOp \notin Ops /\ Writes \cap Queries = {}

VARIABLES
    phase,          \* where DatabaseLoader, main() and exit() are
    attempt,        \* calls of Open so far
    error,          \* what the last Open returned
    connections,    \* _connections[IDX_ASYNC]
    creating,       \* the connection being opened: its worker already runs
    dying,          \* connections being destroyed, front first
    stopStep,       \* ~DatabaseWorker of Head(dying): "token", "cancel", "join"
    queue, shutdown,  \* the shared ProducerConsumerQueue
    worker,         \* per connection, where its worker thread is
    token,          \* _cancelationToken
    operation,      \* the local variable of WorkerThread
    promise,        \* per operation with a result
    callbacks, updating, kept,   \* _callbacks, updateCallbacks, those to re-add
    links,          \* per QueryCallback: the callbacks left in its queue
    future,         \* per QueryCallback: the operation whose future it holds
    done,           \* history: QueryCallbacks that were Completed
    enqueued,       \* history: operations in the order of Enqueue
    runs,           \* history: how often each operation was executed
    deleted,        \* history: operations Cancel deleted unexecuted
    answered        \* history: how often the answer of each was handed out

poolVars     == <<phase, attempt, error, connections, creating, dying, stopStep>>
threadVars   == <<worker, token, operation>>
procVars     == <<callbacks, updating, kept, links, future, done, answered>>
historyVars  == <<enqueued, runs, deleted>>
vars == <<poolVars, queue, shutdown, threadVars, promise, procVars, historyVars>>

Idle == updating = <<>> /\ kept = <<>>

-----------------------------------------------------------------------------
(* Opening.  The constructor of an asynchronous connection starts its      *)
(* worker thread before the connection is opened.                          *)
Open ==
    /\ phase = "new"
    /\ phase' = "opening"
    /\ attempt' = 1
    /\ UNCHANGED <<error, connections, creating, dying, stopStep, queue, shutdown,
                   threadVars, promise, procVars, historyVars>>

CreateConnection ==
    /\ phase = "opening"
    /\ creating = 0
    /\ Len(connections) < AsyncThreads
    /\ LET w == Len(connections) + 1 IN
       /\ creating' = w
       /\ worker' = [worker EXCEPT ![w] = "waiting"]
       /\ token' = [token EXCEPT ![w] = FALSE]
       /\ operation' = [operation EXCEPT ![w] = NoOp]
    /\ UNCHANGED <<phase, attempt, error, connections, dying, stopStep, queue,
                   shutdown, promise, procVars, historyVars>>

ConnectionOpened ==
    /\ phase = "opening"
    /\ creating # 0
    /\ connections' = Append(connections, creating)
    /\ creating' = 0
    /\ UNCHANGED <<phase, attempt, error, dying, stopStep, queue, shutdown,
                   threadVars, promise, procVars, historyVars>>

(* Open() of a connection fails: the opened ones are cleared, then the     *)
(* failed one goes out of scope.  A server that is too old is reported     *)
(* without clearing the others.                                            *)
ConnectionFailed(code) ==
    /\ phase = "opening"
    /\ creating # 0
    /\ phase' = "reverting"
    /\ error' = code
    /\ dying' = Append(IF code = "too_old" THEN <<>> ELSE connections, creating)
    /\ connections' = IF code = "too_old" THEN connections ELSE <<>>
    /\ creating' = 0
    /\ stopStep' = "token"
    /\ UNCHANGED <<attempt, queue, shutdown, threadVars, promise, procVars, historyVars>>

(* MySQLConnection::Open reads the error code out of a handle it has just  *)
(* closed: should the freed memory read as 0, the pool goes on with a null *)
(* handle and the process ends there.                                      *)
ConnectionErrorReadAsZero ==
    /\ phase = "opening"
    /\ creating # 0
    /\ phase' = "crashed"
    /\ UNCHANGED <<attempt, error, connections, creating, dying, stopStep, queue,
                   shutdown, threadVars, promise, procVars, historyVars>>

(* The database does not exist: the loader creates it and calls Open       *)
(* again, once.  Any other error ends the process.                         *)
OpenFailed ==
    /\ phase = "reverting"
    /\ dying = <<>>
    /\ \/ /\ error = "bad_db" /\ AutoSetup /\ attempt = 1
          /\ phase' = "opening"
          /\ attempt' = 2
       \/ /\ phase' = "failed"                 \* Create() may fail as well
          /\ UNCHANGED attempt
    /\ UNCHANGED <<error, connections, creating, dying, stopStep, queue, shutdown,
                   threadVars, promise, procVars, historyVars>>

(* The synchronous connections own no thread; when one cannot be opened,   *)
(* the asynchronous ones stay as they are.                                 *)
OpenSynchConnections ==
    /\ phase = "opening"
    /\ creating = 0
    /\ Len(connections) = AsyncThreads
    /\ phase' \in {"open", "failed"}
    /\ UNCHANGED <<attempt, error, connections, creating, dying, stopStep, queue,
                   shutdown, threadVars, promise, procVars, historyVars>>

-----------------------------------------------------------------------------
(* Closing.                                                                *)
Mutant_CancelWithoutFlag ==                   \* _shutdown is not set
    /\ queue' = <<>>
    /\ UNCHANGED shutdown
    /\ deleted' = deleted \cup Range(queue)
    /\ UNCHANGED promise

CancelQueue ==
    /\ queue' = <<>>
    /\ shutdown' = TRUE
    /\ deleted' = deleted \cup Range(queue)
    /\ promise' = [o \in DOMAIN promise |->
                     IF o \in Range(queue) THEN "broken" ELSE promise[o]]

Close ==
    /\ phase = "open"
    /\ Idle
    /\ phase' = "closing"
    /\ dying' = connections
    /\ connections' = <<>>
    /\ stopStep' = "token"
    /\ UNCHANGED <<attempt, error, creating, queue, shutdown, threadVars, promise,
                   procVars, historyVars>>

(* ~DatabaseWorkerPool cancels the queue before the connections go.        *)
DestroyPool ==
    /\ phase \in {"open", "failed", "closed"}
    /\ Idle
    /\ phase' = "destroying"
    /\ dying' = connections
    /\ connections' = <<>>
    /\ stopStep' = "token"
    /\ CancelQueue
    /\ UNCHANGED <<attempt, error, creating, threadVars, procVars, enqueued, runs>>

(* ~DatabaseWorker, for the connection that is next: set the token, cancel *)
(* the queue all workers share, join the thread; then its statements and   *)
(* its handle are freed.                                                   *)
SetCancelationToken ==
    /\ dying # <<>>
    /\ stopStep = "token"
    /\ token' = [token EXCEPT ![Head(dying)] = TRUE]
    /\ stopStep' = "cancel"
    /\ UNCHANGED <<phase, attempt, error, connections, creating, dying, queue, shutdown,
                   worker, operation, promise, procVars, historyVars>>

CancelSharedQueue ==
    /\ dying # <<>>
    /\ stopStep = "cancel"
    /\ CancelQueue
    /\ stopStep' = "join"
    /\ UNCHANGED <<phase, attempt, error, connections, creating, dying, threadVars,
                   procVars, enqueued, runs>>

Mutant_Joinable(w) == token[w]                \* the thread is not waited for

Joinable(w) == worker[w] = "exited"

JoinWorker ==
    /\ dying # <<>>
    /\ stopStep = "join"
    /\ Joinable(Head(dying))
    /\ dying' = Tail(dying)
    /\ stopStep' = "token"
    /\ UNCHANGED <<phase, attempt, error, connections, creating, queue, shutdown,
                   threadVars, promise, procVars, historyVars>>

Closed ==
    /\ phase \in {"closing", "destroying"}
    /\ dying = <<>>
    /\ phase' = IF phase = "closing" THEN "closed" ELSE "destroyed"
    /\ UNCHANGED <<attempt, error, connections, creating, dying, stopStep, queue,
                   shutdown, threadVars, promise, procVars, historyVars>>

-----------------------------------------------------------------------------
(* The worker threads.                                                     *)
WaitAndPop(w) ==
    /\ worker[w] = "waiting"
    /\ worker' = [worker EXCEPT ![w] = "popped"]
    /\ \/ /\ shutdown
          /\ UNCHANGED <<queue, operation>>
       \/ /\ ~shutdown
          /\ queue # <<>>
          /\ operation' = [operation EXCEPT ![w] = Head(queue)]
          /\ queue' = Tail(queue)
    /\ UNCHANGED <<poolVars, shutdown, token, promise, procVars, historyVars>>

(* The token is read once per round; an operation popped by a worker that  *)
(* then sees its token set is neither executed nor deleted.                *)
MustReturn(w) == token[w] \/ operation[w] = NoOp

ReturnFromThread(w) ==
    /\ worker[w] = "popped"
    /\ MustReturn(w)
    /\ worker' = [worker EXCEPT ![w] = "exited"]
    /\ UNCHANGED <<poolVars, queue, shutdown, token, operation, promise, procVars,
                   historyVars>>

StartOperation(w) ==
    /\ worker[w] = "popped"
    /\ ~MustReturn(w)
    /\ worker' = [worker EXCEPT ![w] = "executing"]
    /\ UNCHANGED <<poolVars, queue, shutdown, token, operation, promise, procVars,
                   historyVars>>

(* What a finished operation leaves in its promise.  A query always stores *)
(* a result, an empty one when it failed; a transaction that failed, or    *)
(* that succeeded only on a retry, is deleted with its promise unset.      *)
PromiseAfter(o) ==
    IF o \in Writes THEN {"none"}
    ELSE IF o[1] \in Transactions THEN {"set", "broken"} ELSE {"set"}

(* Execute(), delete, and the next round with a null operation.            *)
Mutant_NextRound(w) ==                        \* a failed operation is kept
    \/ /\ worker' = [worker EXCEPT ![w] = "waiting"]
       /\ operation' = [operation EXCEPT ![w] = NoOp]
    \/ /\ runs[operation[w]] = 0
       /\ UNCHANGED <<worker, operation>>

Mutant_OnlyRound(w) ==                        \* the loop is left
    /\ worker' = [worker EXCEPT ![w] = "exited"]
    /\ operation' = [operation EXCEPT ![w] = NoOp]

NextRound(w) ==
    /\ worker' = [worker EXCEPT ![w] = "waiting"]
    /\ operation' = [operation EXCEPT ![w] = NoOp]

ExecuteOperation(w) ==
    /\ worker[w] = "executing"
    /\ LET o == operation[w] IN
       /\ runs' = [runs EXCEPT ![o] = @ + 1]
       /\ \E p \in PromiseAfter(o) : promise' = [promise EXCEPT ![o] = p]
    /\ NextRound(w)
    /\ UNCHANGED <<poolVars, queue, shutdown, token, procVars, enqueued, deleted>>

-----------------------------------------------------------------------------
(* The thread that uses the pool.                                          *)
Mutant_Enqueue(o) ==                          \* the newest goes first
    /\ queue' = <<o>> \o queue
    /\ enqueued' = Append(enqueued, o)
    /\ UNCHANGED <<runs, deleted, shutdown, threadVars, poolVars>>

Enqueue(o) ==
    /\ queue' = Append(queue, o)
    /\ enqueued' = Append(enqueued, o)
    /\ UNCHANGED <<runs, deleted, shutdown, threadVars, poolVars>>

Execute(o) ==
    /\ phase = "open"
    /\ o \notin Range(enqueued)
    /\ Enqueue(o)
    /\ UNCHANGED <<promise, procVars>>

Unused(c) == links[c] = 0 /\ c \notin done

(* AsyncQuery or CommitTransaction, its callbacks, and AddQuery.           *)
AddQuery(c, n) ==
    /\ phase = "open"
    /\ Unused(c)
    /\ c \in Transactions => n = 1
    /\ Enqueue(<<c, 1>>)
    /\ promise' = [promise EXCEPT ![<<c, 1>>] = "pending"]
    /\ future' = [future EXCEPT ![c] = <<c, 1>>]
    /\ links' = [links EXCEPT ![c] = n]
    /\ callbacks' = Append(callbacks, c)
    /\ UNCHANGED <<updating, kept, done, answered>>

(* CommitTransaction of a transaction without statements.                  *)
AddEmptyTransaction(c) ==
    /\ phase = "open"
    /\ Unused(c)
    /\ c \in Transactions
    /\ links' = [links EXCEPT ![c] = 1]
    /\ callbacks' = Append(callbacks, c)
    /\ UNCHANGED <<poolVars, queue, shutdown, threadVars, promise, updating, kept,
                   future, done, answered, historyVars>>

(* ProcessReadyQueries: take the vector, try each entry in turn, and put   *)
(* the ones that remain behind the ones that were added meanwhile.         *)
TakeCallbacks ==
    /\ phase = "open"
    /\ Idle
    /\ callbacks # <<>>
    /\ updating' = callbacks
    /\ callbacks' = <<>>
    /\ UNCHANGED <<poolVars, queue, shutdown, threadVars, promise, kept, links, future,
                   done, answered, historyVars>>

Mutant_Ready(c) == future[c] # NoOp           \* the future is not polled

Ready(c) == future[c] # NoOp /\ promise[future[c]] \in {"set", "broken"}

NotReady ==
    /\ updating # <<>>
    /\ ~Ready(Head(updating))
    /\ kept' = Append(kept, Head(updating))
    /\ updating' = Tail(updating)
    /\ UNCHANGED <<poolVars, queue, shutdown, threadVars, promise, callbacks, links,
                   future, done, answered, historyVars>>

Answer(c) == answered' = [answered EXCEPT ![future[c]] = @ + 1]

(* The callback ran and set no next query: whatever was chained is dropped.*)
InvokeLast ==
    /\ updating # <<>>
    /\ LET c == Head(updating) IN
       /\ Ready(c)
       /\ Answer(c)
       /\ future' = [future EXCEPT ![c] = NoOp]
       /\ links' = [links EXCEPT ![c] = 0]
       /\ done' = done \cup {c}
    /\ updating' = Tail(updating)
    /\ UNCHANGED <<poolVars, queue, shutdown, threadVars, promise, callbacks, kept,
                   historyVars>>

(* A next query without a callback left to take it is an ASSERT.           *)
MayChain(c) == links[c] > 1

(* The callback ran and called SetNextQuery: the object is kept and waits  *)
(* for the next answer.                                                    *)
Mutant_KeepChained(c) == UNCHANGED kept       \* NextStep taken for Completed

KeepChained(c) == kept' = Append(kept, c)

InvokeNextStep ==
    /\ updating # <<>>
    /\ LET c == Head(updating)
           n == <<c, future[c][2] + 1>>
       IN
       /\ Ready(c)
       /\ MayChain(c)
       /\ Answer(c)
       /\ Enqueue(n)
       /\ promise' = [promise EXCEPT ![n] = "pending"]
       /\ future' = [future EXCEPT ![c] = n]
       /\ links' = [links EXCEPT ![c] = @ - 1]
       /\ KeepChained(c)
    /\ updating' = Tail(updating)
    /\ UNCHANGED <<callbacks, done>>

PutBack ==
    /\ updating = <<>>
    /\ kept # <<>>
    /\ callbacks' = callbacks \o kept
    /\ kept' = <<>>
    /\ UNCHANGED <<poolVars, queue, shutdown, threadVars, promise, updating, links,
                   future, done, answered, historyVars>>

-----------------------------------------------------------------------------
Init ==
    /\ phase = "new" /\ attempt = 0 /\ error = "none"
    /\ connections = <<>> /\ creating = 0 /\ dying = <<>> /\ stopStep = "token"
    /\ queue = <<>> /\ shutdown = FALSE
    /\ worker = [w \in Workers |-> "none"]
    /\ token = [w \in Workers |-> FALSE]
    /\ operation = [w \in Workers |-> NoOp]
    /\ promise = [o \in Ops |-> "none"]
    /\ callbacks = <<>> /\ updating = <<>> /\ kept = <<>>
    /\ links = [c \in Callbacks |-> 0]
    /\ future = [c \in Callbacks |-> NoOp]
    /\ done = {}
    /\ enqueued = <<>>
    /\ runs = [o \in Ops |-> 0]
    /\ deleted = {}
    /\ answered = [o \in Queries |-> 0]

PoolStep ==
    \/ Open \/ CreateConnection \/ ConnectionOpened
    \/ \E code \in {"bad_db", "other", "too_old"} : ConnectionFailed(code)
    \/ ConnectionErrorReadAsZero
    \/ OpenFailed \/ OpenSynchConnections
    \/ Close \/ DestroyPool

StopStep == SetCancelationToken \/ CancelSharedQueue \/ JoinWorker \/ Closed

WorkerThread(w) ==
    /\ phase # "crashed"
    /\ \/ WaitAndPop(w)
       \/ ReturnFromThread(w)
       \/ StartOperation(w)
       \/ ExecuteOperation(w)

ProcessReadyQueries ==
    TakeCallbacks \/ NotReady \/ InvokeLast \/ InvokeNextStep \/ PutBack

Request ==
    \/ \E o \in Writes : Execute(o)
    \/ \E c \in Callbacks, n \in 1 .. MaxLinks : AddQuery(c, n)
    \/ \E c \in Callbacks : AddEmptyTransaction(c)

Next ==
    \/ PoolStep
    \/ StopStep
    \/ \E w \in Workers : WorkerThread(w)
    \/ ProcessReadyQueries
    \/ Request

Spec == Init /\ [][Next]_vars

(* Threads that can run do run, a statement ends (the server answers or    *)
(* the connection fails), and the thread that owns the processor polls it  *)
(* on each of its updates.  Nobody has to ask for anything or to close.    *)
Fairness ==
    /\ \A w \in Workers : WF_vars(WorkerThread(w))
    /\ WF_vars(ProcessReadyQueries)
    /\ WF_vars(StopStep)

FairSpec == Spec /\ Fairness

-----------------------------------------------------------------------------
(* Operations an executing operation may have overtaken.                   *)
Overtaken(k) == {i \in 1 .. (k - 1) : runs[enqueued[i]] = 0}

(* With N workers an operation overtakes at most N - 1 of those enqueued   *)
(* before it, also while the pool is being closed; with one worker the     *)
(* statements reach the server in the order of the calls.                  *)
BoundedReordering ==
    \A k \in 1 .. Len(enqueued) :
        runs[enqueued[k]] > 0 => Cardinality(Overtaken(k)) < AsyncThreads

(* An operation has one fate: it is executed once, or Cancel deleted it.   *)
(* What is queued or held by a worker has met neither yet.                 *)
OneFate ==
    /\ \A o \in Ops : runs[o] + (IF o \in deleted THEN 1 ELSE 0) <= 1
    /\ \A o \in Range(queue) \cup {operation[w] : w \in Workers} :
           o # NoOp => runs[o] = 0 /\ o \notin deleted

(* A worker thread runs only while its connection exists: the connection's *)
(* statements and handle are freed after the thread was joined, and the    *)
(* queue after all of them.                                                *)
ConnectionOutlivesWorker ==
    \A w \in Workers :
        worker[w] \in {"waiting", "popped", "executing"} =>
            w \in Range(connections) \cup Range(dying) \cup {creating}

(* A QueryCallback that was added stays with the processor until it is     *)
(* completed, in one place only, whatever is added or chained while the    *)
(* vector is being worked on.                                              *)
NoCallbackLost ==
    \A c \in Callbacks :
        Cardinality({i \in 1 .. Len(callbacks \o updating \o kept) :
                       (callbacks \o updating \o kept)[i] = c})
            = IF links[c] > 0 THEN 1 ELSE 0

(* An answer is handed out once, after its query ran, and a callback that  *)
(* takes a result never finds a broken promise (f.get() would throw).      *)
AnswersAreReal ==
    \A q \in Queries :
        answered[q] > 0 =>
            /\ answered[q] = 1
            /\ runs[q] = 1
            /\ q[1] \notin Transactions => promise[q] = "set"

-----------------------------------------------------------------------------
(* A pool opened after auto setup has a queue that was cancelled for good. *)
StaysOpen == phase = "open" /\ attempt = 1

(* While a pool whose first Open succeeded stays open, an enqueued         *)
(* operation is executed, whoever else the worker serves meanwhile.        *)
ExecutedIfOpenedOnce ==
    \A o \in Ops : o \in Range(enqueued) ~> runs[o] > 0 \/ ~StaysOpen

(* A QueryCallback that holds a future is completed, through all the       *)
(* queries chained on it, while such a pool stays open.                    *)
CallbackCompletes ==
    \A c \in Callbacks : future[c] # NoOp ~> c \in done \/ ~StaysOpen

(* Closing and destroying a pool end: every worker can be joined, the busy *)
(* ones too.                                                               *)
ShutdownEnds == phase \in {"closing", "destroying"} ~> phase \in {"closed", "destroyed"}
=============================================================================
