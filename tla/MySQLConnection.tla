--------------------------- MODULE MySQLConnection ---------------------------
(***************************************************************************)
(* How a transaction is executed on a connection of the database pool:     *)
(* MySQLConnection::ExecuteTransaction and Execute, the reconnection in    *)
(* _HandleMySQLErrno, the retries after a deadlock in                      *)
(* TransactionTask::Execute (worker threads) and in DirectCommit-          *)
(* Transaction (threads that wait for the result).  The MySQL server is    *)
(* external: each session has an open transaction or is in autocommit      *)
(* mode; it may answer a statement with an error, choose a transaction as  *)
(* the victim of a deadlock, or lose the connection before or after it     *)
(* has executed the statement in flight.                                   *)
(***************************************************************************)
EXTENDS Naturals, FiniteSets

CONSTANTS
    AsyncConns,      \* connections with a DatabaseWorker
    SyncConns,       \* connections used by DirectCommitTransaction
    Transactions,    \* what is committed, each transaction once
    NoTx,            \* no transaction
    NoConn,          \* _deadlockLock is free
    TxSize,          \* statements in m_queries
    ReconnectAttempts,    \* 5 in _HandleMySQLErrno
    LoopBreaker,          \* 5 in DirectCommitTransaction
    MaxLost, MaxDeadlocks, MaxErrors    \* bounds on what the server does

Conns == AsyncConns \cup SyncConns
Stmts == 1 .. TxSize

ASSUME ConnectionsAssumption ==
    /\ AsyncConns \cap SyncConns = {}
    /\ NoTx \notin Transactions
    /\ NoConn \notin Conns
    /\ TxSize \in Nat \ {0}
    /\ ReconnectAttempts \in Nat \ {0}
    /\ LoopBreaker \in Nat

VARIABLES
    pc,            \* what the thread of each connection does
    tx,            \* the transaction it executes
    next,          \* the statement of m_queries it has come to
    lastError,     \* mysql_errno after the failed statement, "none" for 0
    m_Mysql,       \* the handle is open (TRUE) or null (FALSE)
    attempts,      \* attempts left in _HandleMySQLErrno
    resume,        \* the Execute call to try again after a reconnection
    retries,       \* executions after the first (a worker's: 0 or more)
    deadlockLock,  \* owner of TransactionTask::_deadlockLock
    outcome,       \* per transaction: pending, or what its execution returned
    aborted,       \* std::abort() was called
    open, work,    \* server: session has a transaction open; its statements
    committed,     \* server: durable statements
    lost, deadlocks, errors,    \* how often the server did so
    interrupted    \* history: transactions that met a lost connection or a null handle

clientVars == <<tx, lastError, retries, deadlockLock, outcome>>
serverVars == <<open, work, committed>>
faultVars  == <<lost, deadlocks, errors, interrupted>>
reconVars  == <<m_Mysql, attempts, resume, aborted>>
vars       == <<pc, next, clientVars, serverVars, faultVars, reconVars>>

Executing == {"begin", "stmt", "rollback", "commit"}
Pcs == Executing \cup {"idle", "reconnect", "lock", "succeeded", "failed"}

(* The thread of c is at one of the labels ls of a running process.        *)
At(c, ls) == ~aborted /\ pc[c] \in ls

Goto(c, l) == pc' = [pc EXCEPT ![c] = l]

-----------------------------------------------------------------------------
(* The server's side of a session.  A transaction that is still open when  *)
(* another one begins is committed by START TRANSACTION.                   *)
CommitWork(c) ==
    /\ committed' = [t \in Transactions |->
                        committed[t] \cup {n \in Stmts : <<t, n>> \in work[c]}]
    /\ work' = [work EXCEPT ![c] = {}]

DiscardWork(c) ==
    /\ work' = [work EXCEPT ![c] = {}]
    /\ open' = [open EXCEPT ![c] = FALSE]
    /\ UNCHANGED committed

ApplyStatement(c) ==
    IF open[c]
    THEN /\ work' = [work EXCEPT ![c] = @ \cup {<<tx[c], next[c]>>}]
         /\ UNCHANGED committed
    ELSE /\ committed' = [committed EXCEPT ![tx[c]] = @ \cup {next[c]}]
         /\ UNCHANGED work

-----------------------------------------------------------------------------
(* ExecuteTransaction, one call of Execute per step.                       *)

(* A worker pops a TransactionTask, or a thread locks a free connection    *)
(* and calls DirectCommitTransaction.                                      *)
Start(c, t) ==
    /\ At(c, {"idle"})
    /\ outcome[t] = "pending"
    /\ \A d \in Conns : tx[d] # t
    /\ Goto(c, "begin")
    /\ tx' = [tx EXCEPT ![c] = t]
    /\ next' = [next EXCEPT ![c] = 1]
    /\ UNCHANGED <<lastError, retries, deadlockLock, outcome, serverVars, faultVars, reconVars>>

BeginTransaction(c) ==
    /\ At(c, {"begin"})
    /\ m_Mysql[c]
    /\ CommitWork(c)
    /\ open' = [open EXCEPT ![c] = TRUE]
    /\ Goto(c, "stmt")
    /\ UNCHANGED <<next, clientVars, faultVars, reconVars>>

(* After the last statement the loop over m_queries ends.                  *)
Mutant_AfterStatement(c) ==
    IF next[c] >= TxSize - 1 THEN "commit" ELSE "stmt"

AfterStatement(c) == IF next[c] = TxSize THEN "commit" ELSE "stmt"

ExecuteStatement(c) ==
    /\ At(c, {"stmt"})
    /\ m_Mysql[c]
    /\ ApplyStatement(c)
    /\ Goto(c, AfterStatement(c))
    /\ next' = [next EXCEPT ![c] = @ + 1]
    /\ UNCHANGED <<open, clientVars, faultVars, reconVars>>

(* The statement fails: a deadlock rolls the open transaction back on the  *)
(* server, any other error only undoes the statement.  _HandleMySQLErrno   *)
(* returns false for both, but ends the process when the table, the field  *)
(* or the syntax is wrong.                                                 *)
StatementFails(c) ==
    /\ At(c, {"stmt"})
    /\ m_Mysql[c]
    /\ \/ /\ deadlocks < MaxDeadlocks
          /\ deadlocks' = deadlocks + 1
          /\ lastError' = [lastError EXCEPT ![c] = "deadlock"]
          /\ DiscardWork(c)
          /\ UNCHANGED <<errors, aborted>>
       \/ /\ errors < MaxErrors
          /\ errors' = errors + 1
          /\ lastError' = [lastError EXCEPT ![c] = "other"]
          /\ aborted' \in BOOLEAN
          /\ UNCHANGED <<deadlocks, serverVars>>
    /\ Goto(c, "rollback")
    /\ UNCHANGED <<next, tx, retries, deadlockLock, outcome, lost, interrupted,
                   m_Mysql, attempts, resume>>

(* ExecuteTransaction returns the error code it read before the rollback,  *)
(* and its callers take 0 for success.                                     *)
AfterRollback(c) == IF lastError[c] = "none" THEN "succeeded" ELSE "failed"

RollbackTransaction(c) ==
    /\ At(c, {"rollback"})
    /\ m_Mysql[c]
    /\ DiscardWork(c)
    /\ Goto(c, AfterRollback(c))
    /\ UNCHANGED <<next, clientVars, faultVars, reconVars>>

CommitTransaction(c) ==
    /\ At(c, {"commit"})
    /\ m_Mysql[c]
    /\ CommitWork(c)
    /\ open' = [open EXCEPT ![c] = FALSE]
    /\ Goto(c, "succeeded")
    /\ UNCHANGED <<next, clientVars, faultVars, reconVars>>

(* Execute returned false with a null handle.  The results of START        *)
(* TRANSACTION, ROLLBACK and COMMIT are not looked at.  After a statement  *)
(* GetLastError asks the client library for the error of a null handle,    *)
(* which is 0 or an earlier global error.                                  *)
ReturnFalse(c, l) ==
    /\ Goto(c, CASE l = "begin"    -> "stmt"
                 [] l = "stmt"     -> "rollback"
                 [] l = "rollback" -> AfterRollback(c)
                 [] l = "commit"   -> "succeeded")
    /\ \/ l # "stmt" /\ UNCHANGED lastError
       \/ l = "stmt" /\ \E e \in {"none", "other"} :
                            lastError' = [lastError EXCEPT ![c] = e]

ExecuteOnNull(c) ==
    /\ At(c, Executing)
    /\ ~m_Mysql[c]
    /\ ReturnFalse(c, pc[c])
    /\ interrupted' = interrupted \cup {tx[c]}
    /\ UNCHANGED <<next, tx, retries, deadlockLock, outcome, serverVars, lost, deadlocks,
                   errors, reconVars>>

-----------------------------------------------------------------------------
(* CR_SERVER_GONE_ERROR, CR_SERVER_LOST and the like.  The server may have *)
(* executed the statement before the connection broke; what is left of the *)
(* session's open transaction is rolled back.                              *)
LoseConnection(c) ==
    /\ At(c, Executing)
    /\ m_Mysql[c]
    /\ lost < MaxLost
    /\ lost' = lost + 1
    /\ interrupted' = interrupted \cup {tx[c]}
    /\ \/ /\ pc[c] \in {"begin", "commit"}      \* both commit what is open
          /\ CommitWork(c)
       \/ /\ pc[c] = "stmt" /\ ~open[c]
          /\ ApplyStatement(c)
       \/ /\ work' = [work EXCEPT ![c] = {}]
          /\ UNCHANGED committed
    /\ open' = [open EXCEPT ![c] = FALSE]
    /\ m_Mysql' = [m_Mysql EXCEPT ![c] = FALSE]
    /\ attempts' = [attempts EXCEPT ![c] = ReconnectAttempts]
    /\ resume' = [resume EXCEPT ![c] = pc[c]]
    /\ Goto(c, "reconnect")
    /\ UNCHANGED <<next, clientVars, deadlocks, errors, aborted>>

(* Open() succeeds: a new session in autocommit mode.  The same statement  *)
(* is executed again, on the new session, unless the prepared statements   *)
(* cannot be prepared again: then the process ends, as it does when Open   *)
(* failed but read 0 out of the handle it had closed.                      *)
Reconnect(c) ==
    /\ At(c, {"reconnect"})
    /\ m_Mysql' = [m_Mysql EXCEPT ![c] = TRUE]
    /\ Goto(c, resume[c])
    /\ aborted' \in BOOLEAN
    /\ UNCHANGED <<next, clientVars, serverVars, faultVars, attempts, resume>>

(* Open() fails.  A lost server or CR_CONN_HOST_ERROR is tried again until *)
(* the attempts are used up; any other error falls to the default case,    *)
(* and Execute returns false with a null handle.                           *)
ReconnectFails(c) ==
    /\ At(c, {"reconnect"})
    /\ attempts' = [attempts EXCEPT ![c] = @ - 1]
    /\ aborted' = (attempts[c] = 1)
    /\ UNCHANGED <<pc, next, clientVars, serverVars, faultVars, m_Mysql, resume>>

ReconnectGivesUp(c) ==
    /\ At(c, {"reconnect"})
    /\ attempts[c] < ReconnectAttempts
    /\ ReturnFalse(c, resume[c])
    /\ UNCHANGED <<next, tx, retries, deadlockLock, outcome, serverVars, faultVars, reconVars>>
-----------------------------------------------------------------------------
(* The callers of ExecuteTransaction.                                      *)

(* The call of TransactionTask::Execute or DirectCommitTransaction ends;   *)
(* a worker leaves the scope of its lock_guard.                            *)
Mutant_ReleaseLock(c) == UNCHANGED deadlockLock

ReleaseLock(c) == deadlockLock' = IF deadlockLock = c THEN NoConn ELSE deadlockLock

End(c, result) ==
    /\ outcome' = [outcome EXCEPT ![tx[c]] = result]
    /\ tx' = [tx EXCEPT ![c] = NoTx]
    /\ ReleaseLock(c)
    /\ Goto(c, "idle")
    /\ retries' = [retries EXCEPT ![c] = 0]
    /\ UNCHANGED <<next, lastError, serverVars, faultVars, reconVars>>

(* Whether a caller executes the failed transaction once more: the first   *)
(* time only after a deadlock, then whatever the error was, a worker for   *)
(* DEADLOCK_MAX_RETRY_TIME_MS, DirectCommitTransaction loopBreaker times.  *)
MayRetry(c) ==
    IF retries[c] = 0 THEN lastError[c] = "deadlock"
    ELSE c \in SyncConns => retries[c] < LoopBreaker

(* The time a worker may go on retrying has run out.                       *)
MayGiveUp(c) == ~MayRetry(c) \/ (c \in AsyncConns /\ retries[c] > 0)

Succeed(c) ==
    /\ At(c, {"succeeded"})
    /\ End(c, "true")

GiveUp(c) ==
    /\ At(c, {"failed"})
    /\ MayGiveUp(c)
    /\ End(c, "false")

(* The first retry of a worker waits for _deadlockLock, which it keeps     *)
(* while it goes on retrying.                                              *)
RetryLock(c) ==
    /\ At(c, {"failed"})
    /\ MayRetry(c)
    /\ c \in AsyncConns /\ deadlockLock # c
    /\ Goto(c, "lock")
    /\ UNCHANGED <<next, clientVars, serverVars, faultVars, reconVars>>

Again(c) ==
    /\ Goto(c, "begin")
    /\ next' = [next EXCEPT ![c] = 1]
    /\ retries' = [retries EXCEPT ![c] = IF c \in SyncConns THEN @ + 1 ELSE 1]
    /\ UNCHANGED <<tx, lastError, outcome, serverVars, faultVars, reconVars>>

AcquireDeadlockLock(c) ==
    /\ At(c, {"lock"})
    /\ deadlockLock = NoConn
    /\ deadlockLock' = c
    /\ Again(c)

Retry(c) ==
    /\ At(c, {"failed"})
    /\ MayRetry(c)
    /\ c \in SyncConns \/ deadlockLock = c
    /\ Again(c)
    /\ UNCHANGED deadlockLock

-----------------------------------------------------------------------------
Init ==
    /\ pc = [c \in Conns |-> "idle"]
    /\ tx = [c \in Conns |-> NoTx]
    /\ next = [c \in Conns |-> 1]
    /\ lastError = [c \in Conns |-> "none"]
    /\ m_Mysql = [c \in Conns |-> TRUE]
    /\ attempts = [c \in Conns |-> ReconnectAttempts]
    /\ resume = [c \in Conns |-> "begin"]
    /\ retries = [c \in Conns |-> 0]
    /\ deadlockLock = NoConn
    /\ outcome = [t \in Transactions |-> "pending"]
    /\ aborted = FALSE
    /\ open = [c \in Conns |-> FALSE]
    /\ work = [c \in Conns |-> {}]
    /\ committed = [t \in Transactions |-> {}]
    /\ lost = 0 /\ deadlocks = 0 /\ errors = 0
    /\ interrupted = {}

(* What the thread does by itself, whatever the server answers.            *)
Proceed(c) ==
    \/ BeginTransaction(c)
    \/ ExecuteStatement(c)
    \/ RollbackTransaction(c)
    \/ CommitTransaction(c)
    \/ ExecuteOnNull(c)
    \/ Reconnect(c)
    \/ ReconnectFails(c)
    \/ ReconnectGivesUp(c)
    \/ Succeed(c)
    \/ GiveUp(c)
    \/ RetryLock(c)
    \/ AcquireDeadlockLock(c)
    \/ Retry(c)

Next ==
    \E c \in Conns :
        \/ \E t \in Transactions : Start(c, t)
        \/ StatementFails(c)
        \/ LoseConnection(c)
        \/ Proceed(c)

Spec == Init /\ [][Next]_vars

(* Every thread goes on, the calls to the client library return, and a     *)
(* worker that keeps retrying comes to the end of its time.                *)
Fairness ==
    \A c \in Conns : WF_vars(Proceed(c)) /\ SF_vars(GiveUp(c))

FairSpec == Spec /\ Fairness

-----------------------------------------------------------------------------
(* Types; a deadlock may be retried any number of times.                 *)
TypeOK ==
    /\ pc \in [Conns -> Pcs]
    /\ tx \in [Conns -> Transactions \cup {NoTx}]
    /\ next \in [Conns -> 1 .. TxSize + 1]
    /\ lastError \in [Conns -> {"none", "deadlock", "other"}]
    /\ m_Mysql \in [Conns -> BOOLEAN]
    /\ attempts \in [Conns -> 0 .. ReconnectAttempts]
    /\ resume \in [Conns -> Executing]
    /\ retries \in [Conns -> Nat]
    /\ deadlockLock \in AsyncConns \cup {NoConn}
    /\ outcome \in [Transactions -> {"pending", "true", "false"}]
    /\ aborted \in BOOLEAN
    /\ open \in [Conns -> BOOLEAN]
    /\ work \in [Conns -> SUBSET (Transactions \X Stmts)]
    /\ committed \in [Transactions -> SUBSET Stmts]
    /\ lost \in Nat /\ deadlocks \in Nat /\ errors \in Nat
    /\ interrupted \in SUBSET Transactions

(* A transaction whose connection stays alive is atomic, however often     *)
(* it is rolled back and retried after deadlocks and errors, and whatever  *)
(* happens on the other connections: all of its statements are durable or  *)
(* none is, and all of them exactly when its execution is reported as      *)
(* successful.                                                             *)
AtomicUnlessInterrupted ==
    \A t \in Transactions \ interrupted :
        /\ committed[t] \in {{}, Stmts}
        /\ outcome[t] = "true" => committed[t] = Stmts
        /\ outcome[t] = "false" => committed[t] = {}

(* Every transaction that was started ends, unless the server process is   *)
(* aborted: no deadlock on _deadlockLock, no endless retry.                *)
TransactionEnds ==
    \A c \in Conns : pc[c] # "idle" ~> (pc[c] = "idle" \/ aborted)

(* "Begins an automanaged transaction pointer that will automatically      *)
(* rollback if not commited. (Autocommit=0)" (DatabaseWorkerPool.h).  When *)
(* the connection is lost inside a transaction the code reconnects and     *)
(* executes the rest in autocommit mode: violated.                         *)
AllOrNothing ==
    \A t \in Transactions : outcome[t] # "pending" => committed[t] \in {{}, Stmts}
=============================================================================
