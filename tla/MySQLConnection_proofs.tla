----------------------- MODULE MySQLConnection_proofs -----------------------
(***************************************************************************)
(* Theorems about MySQLConnection, for any number of connections and       *)
(* transactions of any size, and for any number of faults.                 *)
(***************************************************************************)
EXTENDS MySQLConnection, TLAPS

(* A transaction runs on one connection at a time, and a connection that   *)
(* is not idle has one, whose outcome is open.                             *)
OneConnectionEach ==
    /\ \A c, d \in Conns : tx[c] = tx[d] /\ tx[c] # NoTx => c = d
    /\ \A c \in Conns : pc[c] = "idle" <=> tx[c] = NoTx
    /\ \A c \in Conns : tx[c] # NoTx => outcome[tx[c]] = "pending"

(* Which call of Execute a thread is in, also while it reconnects.         *)
InCall(c, l) == pc[c] = l \/ (pc[c] = "reconnect" /\ resume[c] = l)

(* A session holds statements of the transaction on its connection only,   *)
(* and only while a transaction is open, which none is without a handle or *)
(* outside of ExecuteTransaction.                                          *)
SessionInv(c) ==
    /\ \A e \in work[c] : e[1] = tx[c]
    /\ ~m_Mysql[c] \/ pc[c] \in {"idle", "begin", "succeeded", "failed", "lock"} =>
           ~open[c]
    /\ ~open[c] => work[c] = {}
    /\ pc[c] = "reconnect" => ~m_Mysql[c] /\ (~aborted => attempts[c] > 0)
    /\ InCall(c, "begin") => next[c] = 1
    /\ InCall(c, "stmt") => next[c] <= TxSize
    /\ pc[c] = "lock" => c \in AsyncConns

(* How far the execution of a transaction has got that has met neither a   *)
(* lost connection nor a null handle: until the commit nothing is durable, *)
(* and the open transaction of the session holds what was executed.        *)
Progress(c) ==
    /\ pc[c] # "reconnect"
    /\ m_Mysql[c] \/ pc[c] = "begin"
    /\ pc[c] = "rollback" => lastError[c] # "none"
    /\ pc[c] \in {"stmt", "commit"} =>
           /\ open[c]
           /\ \A n \in Stmts : <<tx[c], n>> \in work[c] <=> n < next[c]
    /\ pc[c] = "commit" => next[c] = TxSize + 1
    /\ committed[tx[c]] = IF pc[c] = "succeeded" THEN Stmts ELSE {}

(* What the outcome of such a transaction says once it is not running.     *)
Settled(t) == committed[t] = IF outcome[t] = "true" THEN Stmts ELSE {}

SessionsInv == \A c \in Conns : SessionInv(c)

ProgressInv == \A c \in Conns : tx[c] \notin interrupted \cup {NoTx} => Progress(c)

SettledInv ==
    \A t \in Transactions \ interrupted : (\A c \in Conns : tx[c] # t) => Settled(t)

IndInv == TypeOK /\ OneConnectionEach /\ SessionsInv /\ ProgressInv /\ SettledInv

USE ConnectionsAssumption DEF At, Goto, clientVars, serverVars, faultVars, reconVars

-----------------------------------------------------------------------------
(* START TRANSACTION and COMMIT make durable what the session holds, which *)
(* belongs to its own transaction.                                         *)
LEMMA CommitWorkEffect ==
    ASSUME IndInv, NEW c \in Conns, CommitWork(c)
    PROVE  /\ committed' \in [Transactions -> SUBSET Stmts]
           /\ \A t \in Transactions : t # tx[c] => committed'[t] = committed[t]
           /\ \A t \in Transactions :
                 committed'[t] = committed[t] \cup {n \in Stmts : <<t, n>> \in work[c]}
           /\ work[c] = {} => committed' = committed
<1>1. committed \in [Transactions -> SUBSET Stmts]
  BY DEF IndInv, TypeOK
<1>2. \A t \in Transactions :
         committed'[t] = committed[t] \cup {n \in Stmts : <<t, n>> \in work[c]}
  BY DEF CommitWork
<1>3. committed' = [t \in Transactions |->
                       committed[t] \cup {n \in Stmts : <<t, n>> \in work[c]}]
  BY DEF CommitWork
<1>4. committed' \in [Transactions -> SUBSET Stmts]
  BY <1>1, <1>3
<1>5. \A t \in Transactions : t # tx[c] => committed'[t] = committed[t]
  <2>1. \A t \in Transactions, n \in Stmts : <<t, n>> \in work[c] => t = tx[c]
    BY DEF IndInv, SessionsInv, SessionInv
  <2> QED
    BY <1>2, <2>1, <1>1
<1>6. work[c] = {} => committed' = committed
  BY <1>1, <1>3
<1> QED
  BY <1>2, <1>4, <1>5, <1>6

(* A lost connection leaves nothing in the session; other connections and  *)
(* other transactions do not notice.                                       *)
LEMMA LoseConnectionEffect ==
    ASSUME IndInv, NEW c \in Conns, LoseConnection(c)
    PROVE  /\ committed' \in [Transactions -> SUBSET Stmts]
           /\ work' \in [Conns -> SUBSET (Transactions \X Stmts)]
           /\ work'[c] = {}
           /\ \A d \in Conns : d # c => work'[d] = work[d]
           /\ \A t \in Transactions : t # tx[c] => committed'[t] = committed[t]
<1>1. tx[c] \in Transactions /\ work \in [Conns -> SUBSET (Transactions \X Stmts)]
      /\ committed \in [Transactions -> SUBSET Stmts]
  BY DEF IndInv, TypeOK, OneConnectionEach, LoseConnection, Executing
<1>2. CASE CommitWork(c)
  BY <1>1, <1>2, CommitWorkEffect DEF CommitWork
<1>3. CASE pc[c] = "stmt" /\ ~open[c] /\ ApplyStatement(c)
  <2>1. next[c] \in Stmts
    BY <1>3 DEF IndInv, TypeOK, SessionsInv, SessionInv, InCall, Stmts
  <2>2. /\ committed' = [committed EXCEPT ![tx[c]] = @ \cup {next[c]}]
        /\ work' = work
    BY <1>3 DEF ApplyStatement
  <2>3. work[c] = {}
    BY <1>3 DEF IndInv, SessionsInv, SessionInv
  <2> QED
    BY <1>1, <2>1, <2>2, <2>3
<1>4. CASE work' = [work EXCEPT ![c] = {}] /\ UNCHANGED committed
  BY <1>1, <1>4
<1> QED
  BY <1>2, <1>3, <1>4 DEF LoseConnection

-----------------------------------------------------------------------------
(* Each step preserves the invariant: one lemma per action, one step of    *)
(* its proof per conjunct.                                                 *)
LEMMA StartStep ==
    ASSUME IndInv, NEW c \in Conns, NEW t \in Transactions, Start(c, t)
    PROVE  IndInv'
<1>1. TypeOK'
  BY DEF IndInv, TypeOK, Pcs, Executing, Start
<1>2. OneConnectionEach'
  BY DEF IndInv, TypeOK, OneConnectionEach, Start
<1>3. SessionsInv'
  BY DEF IndInv, TypeOK, SessionsInv, SessionInv, InCall, Start
<1>4. ProgressInv'
  BY DEF IndInv, TypeOK, OneConnectionEach, SessionsInv, SessionInv, InCall,
      ProgressInv, Progress, SettledInv, Settled, Conns, Stmts, Start
<1>5. SettledInv'
  BY DEF IndInv, TypeOK, OneConnectionEach, ProgressInv, Progress, SettledInv,
      Settled, Start
<1> QED
  BY <1>1, <1>2, <1>3, <1>4, <1>5 DEF IndInv

LEMMA BeginTransactionStep ==
    ASSUME IndInv, NEW c \in Conns, BeginTransaction(c)
    PROVE  IndInv'
<1>1. TypeOK'
  BY DEF IndInv, TypeOK, Pcs, Executing, BeginTransaction, CommitWork
<1>2. OneConnectionEach'
  BY DEF IndInv, OneConnectionEach, BeginTransaction, CommitWork
<1>3. SessionsInv'
  BY DEF IndInv, TypeOK, SessionsInv, SessionInv, InCall, BeginTransaction,
      CommitWork
<1>4. ProgressInv'
  <2>1. committed' = committed
    BY CommitWorkEffect DEF BeginTransaction, IndInv, SessionsInv, SessionInv
  <2>2. SUFFICES ASSUME NEW d \in Conns, (tx[d] \notin interrupted \cup {NoTx})'
                 PROVE  Progress(d)'
    BY DEF ProgressInv
  <2>3. Progress(d) /\ SessionInv(d)
    BY <2>2 DEF IndInv, ProgressInv, SessionsInv, BeginTransaction
  <2>4. CASE d = c
    <3>1. /\ pc'[c] = "stmt" /\ open'[c] /\ work'[c] = {}
          /\ UNCHANGED <<m_Mysql, next, tx, lastError>> /\ m_Mysql[c]
      BY DEF IndInv, TypeOK, BeginTransaction, CommitWork
    <3>2. next[c] = 1 /\ committed[tx[c]] = {}
      BY <2>3, <2>4 DEF SessionInv, InCall, Progress, BeginTransaction
    <3> QED
      BY <2>1, <2>4, <3>1, <3>2 DEF Progress, Stmts
  <2>5. CASE d # c
    BY <2>1, <2>3, <2>5 DEF IndInv, TypeOK, Progress, BeginTransaction, CommitWork
  <2> QED
    BY <2>4, <2>5
<1>5. SettledInv'
  <2>1. committed' = committed
    BY CommitWorkEffect DEF BeginTransaction, IndInv, SessionsInv, SessionInv
  <2> QED
    BY <2>1 DEF IndInv, SettledInv, Settled, BeginTransaction
<1> QED
  BY <1>1, <1>2, <1>3, <1>4, <1>5 DEF IndInv

LEMMA ExecuteStatementStep ==
    ASSUME IndInv, NEW c \in Conns, ExecuteStatement(c)
    PROVE  IndInv'
<1>1. TypeOK'
  BY DEF IndInv, TypeOK, OneConnectionEach, SessionsInv, SessionInv, InCall,
      Stmts, Pcs, Executing, ExecuteStatement, ApplyStatement, AfterStatement
<1>2. OneConnectionEach'
  BY DEF IndInv, OneConnectionEach, ExecuteStatement, ApplyStatement,
      AfterStatement
<1>3. SessionsInv'
  BY DEF IndInv, TypeOK, SessionsInv, SessionInv, InCall, ExecuteStatement,
      ApplyStatement, AfterStatement
<1>4. ProgressInv'
  BY DEF IndInv, TypeOK, OneConnectionEach, SessionsInv, SessionInv, InCall,
      ProgressInv, Progress, Stmts, ExecuteStatement, ApplyStatement,
      AfterStatement
<1>5. SettledInv'
  <2>1. \A t \in Transactions : t # tx[c] => committed'[t] = committed[t]
    BY DEF IndInv, TypeOK, ExecuteStatement, ApplyStatement
  <2> QED
    BY <2>1 DEF IndInv, SettledInv, Settled, ExecuteStatement
<1> QED
  BY <1>1, <1>2, <1>3, <1>4, <1>5 DEF IndInv

LEMMA StatementFailsStep ==
    ASSUME IndInv, NEW c \in Conns, StatementFails(c)
    PROVE  IndInv'
<1>1. TypeOK'
  <2>1. /\ errors' \in Nat /\ deadlocks' \in Nat
        /\ lastError' \in [Conns -> {"none", "deadlock", "other"}]
    BY DEF IndInv, TypeOK, StatementFails
  <2>2. UNCHANGED <<committed, next, tx, retries, deadlockLock, outcome, lost,
                    interrupted, m_Mysql, attempts, resume>>
    BY DEF StatementFails, DiscardWork
  <2>3. pc' \in [Conns -> Pcs]
    BY DEF IndInv, TypeOK, StatementFails, Pcs, Executing
  <2>4. /\ work' \in [Conns -> SUBSET (Transactions \X Stmts)]
        /\ open' \in [Conns -> BOOLEAN]
    BY DEF IndInv, TypeOK, StatementFails, DiscardWork
  <2>5. aborted' \in BOOLEAN
    BY DEF IndInv, TypeOK, StatementFails
  <2> QED
    BY <2>1, <2>2, <2>3, <2>4, <2>5 DEF IndInv, TypeOK
<1>2. OneConnectionEach'
  BY DEF IndInv, OneConnectionEach, StatementFails, DiscardWork
<1>3. SessionsInv'
  BY DEF IndInv, TypeOK, SessionsInv, SessionInv, InCall, StatementFails,
      DiscardWork
<1>4. ProgressInv'
  BY DEF IndInv, TypeOK, ProgressInv, Progress, StatementFails, DiscardWork
<1>5. SettledInv'
  <2>1. UNCHANGED <<committed, outcome, tx, interrupted>>
    BY DEF StatementFails, DiscardWork
  <2> QED
    BY <2>1 DEF IndInv, SettledInv, Settled
<1> QED
  BY <1>1, <1>2, <1>3, <1>4, <1>5 DEF IndInv

LEMMA RollbackTransactionStep ==
    ASSUME IndInv, NEW c \in Conns, RollbackTransaction(c)
    PROVE  IndInv'
<1>1. TypeOK'
  BY DEF IndInv, TypeOK, Pcs, Executing, RollbackTransaction, DiscardWork,
      AfterRollback
<1>2. OneConnectionEach'
  BY DEF IndInv, OneConnectionEach, RollbackTransaction, DiscardWork,
      AfterRollback
<1>3. SessionsInv'
  BY DEF IndInv, TypeOK, SessionsInv, SessionInv, InCall, RollbackTransaction,
      DiscardWork, AfterRollback
<1>4. ProgressInv'
  BY DEF IndInv, TypeOK, ProgressInv, Progress, RollbackTransaction,
      DiscardWork, AfterRollback
<1>5. SettledInv'
  BY DEF IndInv, SettledInv, Settled, RollbackTransaction, DiscardWork,
      AfterRollback
<1> QED
  BY <1>1, <1>2, <1>3, <1>4, <1>5 DEF IndInv

LEMMA CommitTransactionStep ==
    ASSUME IndInv, NEW c \in Conns, CommitTransaction(c)
    PROVE  IndInv'
<1>1. TypeOK'
  BY DEF IndInv, TypeOK, Pcs, Executing, CommitTransaction, CommitWork
<1>2. OneConnectionEach'
  BY DEF IndInv, OneConnectionEach, CommitTransaction, CommitWork
<1>3. SessionsInv'
  BY DEF IndInv, TypeOK, SessionsInv, SessionInv, InCall, CommitTransaction,
      CommitWork
<1>4. ProgressInv'
  <2>1. SUFFICES ASSUME NEW d \in Conns, (tx[d] \notin interrupted \cup {NoTx})'
                 PROVE  Progress(d)'
    BY DEF ProgressInv
  <2>2. Progress(d) /\ tx[d] \in Transactions
    BY <2>1 DEF IndInv, TypeOK, ProgressInv, CommitTransaction
  <2>3. CASE d = c
    <3>1. committed'[tx[c]] =
              committed[tx[c]] \cup {n \in Stmts : <<tx[c], n>> \in work[c]}
      BY <2>2, <2>3, CommitWorkEffect DEF CommitTransaction
    <3>2. \A n \in Stmts : <<tx[c], n>> \in work[c]
      BY <2>2, <2>3 DEF Progress, CommitTransaction, Stmts
    <3>3. committed[tx[c]] = {}
      BY <2>2, <2>3 DEF Progress, CommitTransaction
    <3>4. committed'[tx[c]] = Stmts
      BY <3>1, <3>2, <3>3
    <3> QED
      BY <2>2, <2>3, <3>4 DEF IndInv, TypeOK, Progress, CommitTransaction
  <2>4. CASE d # c
    <3>1. committed'[tx[d]] = committed[tx[d]]
      BY <2>2, <2>4, CommitWorkEffect
         DEF IndInv, OneConnectionEach, CommitTransaction
    <3> QED
      BY <2>2, <2>4, <3>1
         DEF IndInv, TypeOK, Progress, CommitTransaction, CommitWork
  <2> QED
    BY <2>3, <2>4
<1>5. SettledInv'
  <2>1. \A t \in Transactions : t # tx[c] => committed'[t] = committed[t]
    BY CommitWorkEffect DEF CommitTransaction
  <2> QED
    BY <2>1 DEF IndInv, SettledInv, Settled, CommitTransaction
<1> QED
  BY <1>1, <1>2, <1>3, <1>4, <1>5 DEF IndInv

LEMMA ExecuteOnNullStep ==
    ASSUME IndInv, NEW c \in Conns, ExecuteOnNull(c)
    PROVE  IndInv'
<1>1. TypeOK'
  BY DEF IndInv, TypeOK, OneConnectionEach, Pcs, Executing, ExecuteOnNull,
      ReturnFalse, AfterRollback
<1>2. OneConnectionEach'
  BY DEF IndInv, OneConnectionEach, ExecuteOnNull, ReturnFalse, AfterRollback,
      Executing
<1>3. SessionsInv'
  BY DEF IndInv, SessionsInv, SessionInv, InCall, ExecuteOnNull, ReturnFalse,
      AfterRollback, Executing
<1>4. ProgressInv'
  BY DEF IndInv, TypeOK, ProgressInv, Progress, ExecuteOnNull, ReturnFalse,
      AfterRollback, Executing
<1>5. SettledInv'
  BY DEF IndInv, SettledInv, Settled, ExecuteOnNull, ReturnFalse,
      AfterRollback, Executing
<1> QED
  BY <1>1, <1>2, <1>3, <1>4, <1>5 DEF IndInv

LEMMA LoseConnectionStep ==
    ASSUME IndInv, NEW c \in Conns, LoseConnection(c)
    PROVE  IndInv'
<1>1. TypeOK'
  <2>1. committed' \in [Transactions -> SUBSET Stmts]
    BY LoseConnectionEffect
  <2>2. work' \in [Conns -> SUBSET (Transactions \X Stmts)]
    BY LoseConnectionEffect
  <2>3. /\ lost' \in Nat
        /\ interrupted' \in SUBSET Transactions
    BY DEF IndInv, TypeOK, OneConnectionEach, LoseConnection, Executing
  <2>4. /\ pc' \in [Conns -> Pcs]
        /\ resume' \in [Conns -> Executing]
    BY DEF IndInv, TypeOK, LoseConnection, Pcs
  <2>5. /\ open' \in [Conns -> BOOLEAN] /\ m_Mysql' \in [Conns -> BOOLEAN]
        /\ attempts' \in [Conns -> 0 .. ReconnectAttempts]
    BY DEF IndInv, TypeOK, LoseConnection
  <2> QED
    BY <2>1, <2>2, <2>3, <2>4, <2>5 DEF IndInv, TypeOK, LoseConnection
<1>2. OneConnectionEach'
  BY DEF IndInv, OneConnectionEach, LoseConnection, CommitWork, ApplyStatement,
      Executing
<1>3. SessionsInv'
  <2>1. SUFFICES ASSUME NEW d \in Conns PROVE SessionInv(d)'
    BY DEF SessionsInv
  <2>2. SessionInv(d)
    BY DEF IndInv, SessionsInv
  <2>3. CASE d = c
    <3>1. work'[d] = {}
      BY <2>3, LoseConnectionEffect
    <3> QED
      BY <2>2, <2>3, <3>1
         DEF IndInv, TypeOK, SessionInv, InCall, LoseConnection, Executing
  <2>4. CASE d # c
    <3>1. work'[d] = work[d]
      BY <2>4, LoseConnectionEffect
    <3> QED
      BY <2>2, <2>4, <3>1 DEF IndInv, TypeOK, SessionInv, InCall, LoseConnection
  <2> QED
    BY <2>3, <2>4
<1>4. ProgressInv'
  <2>1. SUFFICES ASSUME NEW d \in Conns, (tx[d] \notin interrupted \cup {NoTx})'
                 PROVE  Progress(d)'
    BY DEF ProgressInv
  <2>2. d # c /\ Progress(d) /\ tx[d] \in Transactions /\ tx[d] # tx[c]
    BY <2>1 DEF IndInv, TypeOK, OneConnectionEach, ProgressInv, LoseConnection
  <2>3. committed'[tx[d]] = committed[tx[d]] /\ work'[d] = work[d]
    BY <2>2, LoseConnectionEffect
  <2> QED
    BY <2>2, <2>3 DEF IndInv, TypeOK, Progress, LoseConnection
<1>5. SettledInv'
  <2>1. \A t \in Transactions : t # tx[c] => committed'[t] = committed[t]
    BY LoseConnectionEffect
  <2> QED
    BY <2>1 DEF IndInv, SettledInv, Settled, LoseConnection
<1> QED
  BY <1>1, <1>2, <1>3, <1>4, <1>5 DEF IndInv

LEMMA ReconnectStep ==
    ASSUME IndInv, NEW c \in Conns, Reconnect(c)
    PROVE  IndInv'
<1>1. TypeOK'
  BY DEF IndInv, TypeOK, Pcs, Executing, Reconnect
<1>2. OneConnectionEach'
  BY DEF IndInv, TypeOK, OneConnectionEach, Reconnect, Executing
<1>3. SessionsInv'
  BY DEF IndInv, TypeOK, SessionsInv, SessionInv, InCall, Reconnect, Executing
<1>4. ProgressInv'
  BY DEF IndInv, TypeOK, ProgressInv, Progress, Reconnect, Executing
<1>5. SettledInv'
  BY DEF IndInv, SettledInv, Settled, Reconnect, Executing
<1> QED
  BY <1>1, <1>2, <1>3, <1>4, <1>5 DEF IndInv

LEMMA ReconnectFailsStep ==
    ASSUME IndInv, NEW c \in Conns, ReconnectFails(c)
    PROVE  IndInv'
<1>1. TypeOK'
  BY DEF IndInv, TypeOK, OneConnectionEach, SessionsInv, SessionInv, InCall,
      Stmts, Pcs, Executing, ReconnectFails
<1>2. OneConnectionEach'
  BY DEF IndInv, OneConnectionEach, ReconnectFails
<1>3. SessionsInv'
  <2>1. SUFFICES ASSUME NEW d \in Conns PROVE SessionInv(d)'
    BY DEF SessionsInv
  <2>2. SessionInv(d) /\ attempts[d] \in 0 .. ReconnectAttempts
    BY DEF IndInv, TypeOK, SessionsInv
  <2>3. d = c => (~aborted' => attempts'[d] > 0)
    <3>1. attempts[c] > 0 /\ attempts[c] \in Nat /\ attempts'[c] = attempts[c] - 1
      BY DEF IndInv, TypeOK, SessionsInv, SessionInv, ReconnectFails
    <3>2. attempts[c] = 1 => aborted'
      BY DEF ReconnectFails
    <3> QED
      BY <3>1, <3>2
  <2>4. d # c => attempts'[d] = attempts[d]
    BY DEF IndInv, TypeOK, ReconnectFails
  <2> QED
    BY <2>2, <2>3, <2>4 DEF SessionInv, InCall, ReconnectFails
<1>4. ProgressInv'
  BY DEF IndInv, TypeOK, ProgressInv, Progress, ReconnectFails
<1>5. SettledInv'
  BY DEF IndInv, SettledInv, Settled, ReconnectFails
<1> QED
  BY <1>1, <1>2, <1>3, <1>4, <1>5 DEF IndInv

LEMMA ReconnectGivesUpStep ==
    ASSUME IndInv, NEW c \in Conns, ReconnectGivesUp(c)
    PROVE  IndInv'
<1>1. TypeOK'
  BY DEF IndInv, TypeOK, Pcs, Executing, ReconnectGivesUp, ReturnFalse,
      AfterRollback
<1>2. OneConnectionEach'
  BY DEF IndInv, TypeOK, OneConnectionEach, ReconnectGivesUp, ReturnFalse,
      AfterRollback, Executing
<1>3. SessionsInv'
  BY DEF IndInv, TypeOK, SessionsInv, SessionInv, InCall, ReconnectGivesUp,
      ReturnFalse, AfterRollback, Executing
<1>4. ProgressInv'
  BY DEF IndInv, TypeOK, ProgressInv, Progress, ReconnectGivesUp, ReturnFalse,
      AfterRollback, Executing
<1>5. SettledInv'
  BY DEF IndInv, SettledInv, Settled, ReconnectGivesUp, ReturnFalse,
      AfterRollback, Executing
<1> QED
  BY <1>1, <1>2, <1>3, <1>4, <1>5 DEF IndInv

LEMMA SucceedStep ==
    ASSUME IndInv, NEW c \in Conns, Succeed(c)
    PROVE  IndInv'
<1>1. TypeOK'
  BY DEF IndInv, TypeOK, Pcs, Executing, Succeed, End, ReleaseLock
<1>2. OneConnectionEach'
  BY DEF IndInv, TypeOK, OneConnectionEach, Succeed, End, ReleaseLock
<1>3. SessionsInv'
  BY DEF IndInv, SessionsInv, SessionInv, InCall, Succeed, End, ReleaseLock
<1>4. ProgressInv'
  BY DEF IndInv, TypeOK, ProgressInv, Progress, Succeed, End, ReleaseLock
<1>5. SettledInv'
  BY DEF IndInv, TypeOK, OneConnectionEach, ProgressInv, Progress, SettledInv,
      Settled, Succeed, End, ReleaseLock
<1> QED
  BY <1>1, <1>2, <1>3, <1>4, <1>5 DEF IndInv

LEMMA GiveUpStep ==
    ASSUME IndInv, NEW c \in Conns, GiveUp(c)
    PROVE  IndInv'
<1>1. TypeOK'
  BY DEF IndInv, TypeOK, Pcs, Executing, GiveUp, End, ReleaseLock
<1>2. OneConnectionEach'
  BY DEF IndInv, TypeOK, OneConnectionEach, GiveUp, End, ReleaseLock
<1>3. SessionsInv'
  BY DEF IndInv, SessionsInv, SessionInv, InCall, GiveUp, End, ReleaseLock
<1>4. ProgressInv'
  BY DEF IndInv, TypeOK, ProgressInv, Progress, GiveUp, End, ReleaseLock
<1>5. SettledInv'
  <2>1. SUFFICES ASSUME NEW t \in Transactions \ interrupted,
                        \A d \in Conns : tx'[d] # t
                 PROVE  Settled(t)'
    BY DEF SettledInv, GiveUp, End
  <2>2. CASE t = tx[c]
    <3>1. committed[t] = {}
      BY <2>1, <2>2 DEF IndInv, ProgressInv, Progress, GiveUp
    <3> QED
      BY <2>2, <3>1 DEF IndInv, TypeOK, Settled, GiveUp, End
  <2>3. CASE t # tx[c]
    BY <2>1, <2>3 DEF IndInv, TypeOK, SettledInv, Settled, GiveUp, End
  <2> QED
    BY <2>2, <2>3
<1> QED
  BY <1>1, <1>2, <1>3, <1>4, <1>5 DEF IndInv

LEMMA RetryLockStep ==
    ASSUME IndInv, NEW c \in Conns, RetryLock(c)
    PROVE  IndInv'
<1>1. TypeOK'
  BY DEF IndInv, TypeOK, Pcs, Executing, RetryLock
<1>2. OneConnectionEach'
  BY DEF IndInv, OneConnectionEach, RetryLock
<1>3. SessionsInv'
  BY DEF IndInv, SessionsInv, SessionInv, InCall, RetryLock
<1>4. ProgressInv'
  BY DEF IndInv, TypeOK, ProgressInv, Progress, RetryLock
<1>5. SettledInv'
  BY DEF IndInv, SettledInv, Settled, RetryLock
<1> QED
  BY <1>1, <1>2, <1>3, <1>4, <1>5 DEF IndInv

LEMMA AcquireDeadlockLockStep ==
    ASSUME IndInv, NEW c \in Conns, AcquireDeadlockLock(c)
    PROVE  IndInv'
<1>1. TypeOK'
  BY DEF IndInv, TypeOK, OneConnectionEach, SessionsInv, SessionInv, InCall,
      Stmts, Pcs, Executing, AcquireDeadlockLock, Again
<1>2. OneConnectionEach'
  BY DEF IndInv, OneConnectionEach, AcquireDeadlockLock, Again
<1>3. SessionsInv'
  BY DEF IndInv, TypeOK, SessionsInv, SessionInv, InCall, AcquireDeadlockLock,
      Again
<1>4. ProgressInv'
  BY DEF IndInv, TypeOK, ProgressInv, Progress, AcquireDeadlockLock, Again
<1>5. SettledInv'
  BY DEF IndInv, SettledInv, Settled, AcquireDeadlockLock, Again
<1> QED
  BY <1>1, <1>2, <1>3, <1>4, <1>5 DEF IndInv

LEMMA RetryStep ==
    ASSUME IndInv, NEW c \in Conns, Retry(c)
    PROVE  IndInv'
<1>1. TypeOK'
  BY DEF IndInv, TypeOK, Pcs, Executing, Retry, Again
<1>2. OneConnectionEach'
  BY DEF IndInv, OneConnectionEach, Retry, Again
<1>3. SessionsInv'
  BY DEF IndInv, TypeOK, SessionsInv, SessionInv, InCall, Retry, Again
<1>4. ProgressInv'
  BY DEF IndInv, TypeOK, ProgressInv, Progress, Retry, Again
<1>5. SettledInv'
  BY DEF IndInv, SettledInv, Settled, Retry, Again
<1> QED
  BY <1>1, <1>2, <1>3, <1>4, <1>5 DEF IndInv

-----------------------------------------------------------------------------
(* The invariant holds initially and is preserved by every step.           *)
LEMMA IndInvInit == Init => IndInv
<1> SUFFICES ASSUME Init PROVE IndInv
  OBVIOUS
<1>1. TypeOK
  <2>1. /\ pc \in [Conns -> Pcs] /\ resume \in [Conns -> Executing]
        /\ m_Mysql \in [Conns -> BOOLEAN] /\ open \in [Conns -> BOOLEAN]
    BY DEF Init, Pcs, Executing
  <2>2. /\ tx \in [Conns -> Transactions \cup {NoTx}]
        /\ next \in [Conns -> 1 .. TxSize + 1]
        /\ attempts \in [Conns -> 0 .. ReconnectAttempts]
        /\ retries \in [Conns -> Nat]
    BY DEF Init
  <2>3. /\ work \in [Conns -> SUBSET (Transactions \X Stmts)]
        /\ committed \in [Transactions -> SUBSET Stmts]
    BY DEF Init
  <2> QED
    BY <2>1, <2>2, <2>3 DEF Init, TypeOK
<1>2. OneConnectionEach /\ SessionsInv
  BY DEF Init, OneConnectionEach, SessionsInv, SessionInv, InCall, Conns
<1>3. ProgressInv
  BY DEF Init, ProgressInv
<1>4. SettledInv
  BY DEF Init, SettledInv, Settled
<1> QED
  BY <1>1, <1>2, <1>3, <1>4 DEF IndInv

LEMMA IndInvStep == IndInv /\ [Next]_vars => IndInv'
<1> SUFFICES ASSUME IndInv, [Next]_vars PROVE IndInv'
  OBVIOUS
<1>1. CASE UNCHANGED vars
  BY <1>1 DEF vars, IndInv, TypeOK, OneConnectionEach, SessionsInv, SessionInv,
     InCall, ProgressInv, Progress, SettledInv, Settled
<1>2. ASSUME NEW c \in Conns, NEW t \in Transactions, Start(c, t) PROVE IndInv'
  BY <1>2, StartStep
<1>3. ASSUME NEW c \in Conns, StatementFails(c) \/ LoseConnection(c) PROVE IndInv'
  BY <1>3, StatementFailsStep, LoseConnectionStep
<1>4. ASSUME NEW c \in Conns, Proceed(c) PROVE IndInv'
  BY <1>4, BeginTransactionStep, ExecuteStatementStep, RollbackTransactionStep,
     CommitTransactionStep, ExecuteOnNullStep, ReconnectStep, ReconnectFailsStep,
     ReconnectGivesUpStep, SucceedStep, GiveUpStep, RetryLockStep,
     AcquireDeadlockLockStep, RetryStep DEF Proceed
<1> QED
  BY <1>1, <1>2, <1>3, <1>4 DEF Next

LEMMA Invariance == Spec => []IndInv
BY IndInvInit, IndInvStep, PTL DEF Spec

-----------------------------------------------------------------------------
(* Every variable keeps its type: among others, a reconnection never goes  *)
(* on with a negative number of attempts, and only workers own             *)
(* _deadlockLock.                                                          *)
THEOREM TypeCorrect == Spec => []TypeOK
BY Invariance, PTL DEF IndInv

(* What the invariant says of a transaction that was never interrupted.    *)
LEMMA WholeOrNothing ==
    ASSUME IndInv, NEW t \in Transactions \ interrupted
    PROVE  /\ committed[t] \in {{}, Stmts}
           /\ outcome[t] = "true" => committed[t] = Stmts
           /\ outcome[t] = "false" => committed[t] = {}
<1>1. CASE \E c \in Conns : tx[c] = t
  BY <1>1 DEF IndInv, OneConnectionEach, ProgressInv, Progress
<1>2. CASE \A c \in Conns : tx[c] # t
  BY <1>2 DEF IndInv, SettledInv, Settled
<1> QED
  BY <1>1, <1>2

(* A transaction that met no lost connection and no null handle is atomic: *)
(* through every rollback and retry of ExecuteTransaction's callers, all   *)
(* its statements are durable or none is, and all of them exactly when its *)
(* execution is reported as successful.                                    *)
THEOREM Atomicity == Spec => []AtomicUnlessInterrupted
<1>1. IndInv => AtomicUnlessInterrupted
  BY WholeOrNothing DEF AtomicUnlessInterrupted
<1> QED
  BY <1>1, Invariance, PTL

(* Nothing that is durable is taken back.                                  *)
LEMMA DurableStays ==
    ASSUME IndInv, Next, NEW t \in Transactions
    PROVE  committed[t] \subseteq committed'[t]
<1>1. ASSUME NEW c \in Conns, CommitWork(c)
      PROVE  committed[t] \subseteq committed'[t]
  BY <1>1 DEF CommitWork
<1>2. ASSUME NEW c \in Conns, ApplyStatement(c)
      PROVE  committed[t] \subseteq committed'[t]
  BY <1>2 DEF IndInv, TypeOK, ApplyStatement
<1> QED
  BY <1>1, <1>2 DEF Next, Proceed, Start, BeginTransaction, ExecuteStatement,
     StatementFails, RollbackTransaction, CommitTransaction, ExecuteOnNull,
     LoseConnection, Reconnect, ReconnectFails, ReconnectGivesUp, Succeed, GiveUp,
     End, RetryLock, AcquireDeadlockLock, Retry, Again, DiscardWork

(* As long as its connection stays up, an execution that has not come to   *)
(* its COMMIT has made nothing durable: MySQLConnection implements a       *)
(* transaction whose statements take effect in one step.                   *)
THEOREM DurableInOneStep ==
    Spec => [][\A t \in Transactions \ interrupted' :
                  \/ committed'[t] = committed[t]
                  \/ committed[t] = {} /\ committed'[t] = Stmts]_vars
<1>1. ASSUME IndInv, AtomicUnlessInterrupted, AtomicUnlessInterrupted', Next
      PROVE  \A t \in Transactions \ interrupted' :
                \/ committed'[t] = committed[t]
                \/ committed[t] = {} /\ committed'[t] = Stmts
  <2>1. interrupted \subseteq interrupted'
    BY <1>1 DEF Next, Proceed, Start, BeginTransaction, ExecuteStatement,
       StatementFails, RollbackTransaction, CommitTransaction, ExecuteOnNull,
       LoseConnection, Reconnect, ReconnectFails, ReconnectGivesUp, Succeed, GiveUp,
       End, RetryLock, AcquireDeadlockLock, Retry, Again
  <2>2. ASSUME NEW t \in Transactions \ interrupted'
        PROVE  /\ committed[t] \in {{}, Stmts} /\ committed'[t] \in {{}, Stmts}
               /\ committed[t] \subseteq committed'[t]
    BY <1>1, <2>1, <2>2, DurableStays DEF AtomicUnlessInterrupted
  <2> QED
    BY <2>2
<1> QED
  BY <1>1, Invariance, Atomicity, PTL DEF Spec

=============================================================================
