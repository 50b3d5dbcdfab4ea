# TLA+ verification of the TBC server core

This directory holds TLA+ models of the concurrent and stateful core of the
server in `src/`: how the world thread and the map threads share the update of
the maps, how instance ids are given out, how SQL statements travel from the
game to the database and their answers back, who gets a session and who waits in
the login queue, how the packets of a session reach their handlers, how what is
sent to a client reaches its connection, and to which saved instance players and
groups are bound. TLC checks the models on
small instances; TLAPS proves the most important properties for every instance.
File names below are relative to `src/server/`, or to `src/common/` for
`Threading/`.

Contents: [the system](#the-system), [modules](#modules-and-how-they-correspond-to-the-code),
[runs](#runs), [bounds](#bounds), [fairness](#fairness), [proofs](#proofs),
[disagreements found](#disagreements-between-the-code-and-what-it-says-of-itself),
[open questions](#open-questions),
[what is not modelled](#what-is-not-modelled), [plan](#plan).

## The system

`worldserver` runs one **world thread**. Each pass of its loop processes the
sessions' packets, the answers of asynchronous queries, and then calls
`MapManager::Update`, which updates every map. The database layer and the map
updater own thread pools; the network has threads of its own. `authserver` is a
second process that shares the database layer and the network library.

| Component | State it keeps | Operations | Talks to |
|---|---|---|---|
| `MapManager` (`game/Maps`) | `i_maps`, `_nextInstanceId`, `_instanceIds`, the `MapUpdater` | `Update`, `CreateBaseMap`, `GenerateInstanceId`, `FreeInstanceId`, `InitInstanceIds`, `UnloadAll` | called by the world thread, `FreeInstanceId` also by map threads |
| `MapUpdater` (`game/Maps`) | two request queues, two vectors of threads, two pending counters, the loop flag, the cancelation token | `schedule_update`, `waitUpdateOnces`, `enableUpdateLoop`, `waitUpdateLoops`, `deactivate`, two thread functions | `MapManager`, `MapInstanced`, the queues |
| `MapInstanced` (`game/Maps`) | `m_InstancedMaps` | `Update` (schedules or destroys its instances), `CreateInstance`, `CreateBattleground`, `DestroyInstance`, `UnloadAll` | runs on a map thread, schedules to the `MapUpdater` |
| `InstanceSaveManager` (`game/Instances`) | saves by id, player and group binds, the reset schedule, the table `instance` | `LoadInstances`, `LoadResetTimes`, `AddInstanceSave`, `_ResetInstance`, `Update` | `MapManager`, the database |
| `ProducerConsumerQueue` (`Threading`) | a `std::queue`, a mutex, a condition variable, `_shutdown` | `Push`, `Pop`, `WaitAndPop`, `Cancel` | used by `MapUpdater` and `DatabaseWorkerPool` |
| `DatabaseWorkerPool`, `DatabaseWorker` (`database/Database`) | asynchronous and synchronous connections, the shared queue, one thread per asynchronous connection | `Open`, `Close`, `Execute`, `AsyncQuery`, `CommitTransaction`, `DirectCommitTransaction` | every part of the game that reads or writes |
| `DatabaseLoader` | what is to be opened and closed | opens each pool, once more after auto setup | the pools |
| `MySQLConnection`, `TransactionTask` | the handle, prepared statements, `_deadlockLock` | `Execute`, `ExecuteTransaction`, `_HandleMySQLErrno` | the MySQL server |
| `QueryCallback`, `QueryCallbackProcessor` | futures and queues of callbacks | `AddQuery`, `ProcessReadyQueries`, `SetNextQuery` | owned by `World`, sessions, sockets |
| `World` (`game/World.cpp`) | `addSessQueue`, `m_sessions`, `m_QueuedPlayer`, `m_disconnects`, `m_playerLimit` | `AddSession_`, `RemoveSession`, `AddQueuedPlayer`, `RemoveQueuedPlayer`, `UpdateSessions`, `KickAll`, `SetPlayerLimit` | sessions handed over by network threads, the login and character databases |
| `WorldSession` (`game/Server`) | `_recvQueue`, `m_inQueue`, `_player`, `m_playerLoading`, `m_playerRecentlyLogout`, `forceExit`, `expireTime` | `Update` with two filters, `QueuePacket`, `InitializeSession`, `KickPlayer`, `LogoutPlayer`, the opcode handlers | updated by the world thread and by the threads of the player's map |
| `WorldSocket` (`game/Server`) | `_worldSession`, `_worldSessionLock`, `_closed` | `ReadDataHandler`, `HandleAuthSessionCallback`, `CloseSocket`, `OnClose` | its network thread, closed by any thread |
| `Socket`, `NetworkThread` (`shared/Networking`), `MPSCQueue` (`Threading`) | `_bufferQueue`, `_writeQueue`, `_isWritingAsync`, `_closed`, `_closing`; the list of nodes | `SendPacket`, `Update`, `QueuePacket`, `HandleQueue`, `CloseSocket`, `DelayedCloseSocket`; `Enqueue`, `Dequeue` | any thread sends, the socket's network thread writes |
| Instance binds: `Player`, `Group`, `InstanceMap` | `m_boundInstances` of players and groups, who is linked to which map, the tables `character_instance` and `instance` | `BindToInstance`, `UnbindInstance`, `ResetInstances`, `AddPlayerToMap`, `PermBindAllPlayers`, `_LoadBoundInstances`, the group's handlers | `InstanceSaveManager`, `MapInstanced`; world thread and map threads |
| `AuthSession` | the status of a login | challenge, proof, realm list | the login database |
| Battleground queues, groups, loot rolls, auctions, mail, pools, game events | game state, mostly also in the database | their handlers and `Update`s | world thread or one map thread |

### What is hard here, and what makes each part correct

*Map update.* A tick is a protocol between the world thread, the *once* workers
(one per continent or `MapInstanced`) and the *loop* workers, which update
instances again and again until the slowest continent is done. The end of a
tick is decided by two counters and a flag that are read and written without a
common lock. Correct means: no two threads are in the same map, no thread is in
a destroyed map, every map gets its update, the world thread is alone with the
maps outside a tick, and a tick and the shutdown end.

*The queue.* `Push` wakes one consumer, another one may overtake it, and
`Cancel` notifies after it has unlocked. Correct means that it behaves as an
atomic queue and that no wakeup is lost.

*Database.* Connections break at any moment, a statement may or may not have
been executed then; deadlock victims are retried; several workers overtake each
other; pools are closed with operations queued; callbacks add callbacks.
Correct means that transactions are atomic and reported truthfully, that each
operation has one fate, that answers reach their callback once, and that a
thread does not outlive what it uses.

*Sessions.* The login queue is shifted by everyone who leaves, reconnects or is
kicked, in functions that call each other and compute the number of active
sessions before, between and after their changes; the old and the new session of
an account write the same rows. Correct means that the queue holds living
sessions that know their place, that no slot stays free while somebody waits,
that nobody overtakes, that the database says who is online, and that the
shutdown saves everybody.

*Packets.* A packet is read by a network thread, waits in the session, may be
refused by the filter of one update and taken by another, or be set aside while
a character loads; meanwhile the player logs out, plays another character or
changes maps. Correct means that it is handled in order, for the character and
the map it was meant for, by a session that still exists, or dropped, and that
none stays for ever.

*Sending.* Any thread sends through a lock-free list that is broken for a moment
in each `Enqueue` and whose nodes are freed by its consumer; the network thread
packs packets into buffers, whose writes may be partial; a refused client must be
told so before its socket is closed. Correct means that nobody touches a freed
node, that the connection carries whole packets in the order in which they were
accepted, and that none stays behind.

*Instance ids.* The vector that records ids in use is resized by hand, ids
survive a restart in a table, and map threads free ids concurrently. Correct
means that no access is out of range and no two instances share an id.

*Instance saves.* A bind is recorded in the player or group, in two lists of the
save and in two tables, and is changed by entering, leaving groups, resets,
boss kills, logins and logouts, in functions that delete the save when its lists
become empty. Correct means that the records agree, that nobody is put into
another instance than the one he is bound to, which aborts the server, that
lockouts hold and last, and that an instance keeps its save while it is played.

The complete list of hazards, at their lines and with the properties that would
catch them, is `hazards` in `PROJECT.json`.

## Modules and how they correspond to the code

### `MapUpdater`

Threads are program counters: `mainPc` is the world thread in
`MapManager::Update` and `MapManager::UnloadAll`, `oncePc[w]` and `loopPc[w]`
are the two thread functions. The other variables carry the names of the
members. `once_maps_workerThreads` is the size of that vector: thread *n* is its
*n*-th element and exists once the size has reached *n*.

* `schedule_update` is `ScheduleOnce` and `ScheduleLoop`, each with the call of
  `spawnMissingOnceUpdateThreads`; it is used by the world thread
  (`ScheduleBaseMap`) and by once workers (`ScheduleInstance`).
* `waitUpdateOnces` and `waitUpdateLoops` are one action per evaluation of
  their loop condition; a sleeping world thread is a program counter of its
  own, from which `onceMapFinished`, `loopMapFinished` or a spurious wakeup
  take it.
* A loop worker's read of the flag (`LoopReadFlag`) and what it does about it
  (`LoopRepush`, `LoopFinish`) are separate steps.
* `MapInstanced::Update` on a once worker goes through the instances it owns
  one per step and destroys, skips or schedules each: whether
  `CanUnload` and `HavePlayers` hold is the players' choice. Instances are
  created on the world thread between ticks only (`CreateInstance`), which is
  where `CreateInstanceForPlayer` and `CreateBattleground` are called.
* `deactivate` is one step per call: the token, the two `Cancel`s, the two
  waits, the joins.

What a map does inside its update is left out, except that it takes time. The
history variables `updates` and `scheduled` record what a tick has done.
`MapCrashed` and the crash handling in `MapInstanced::Update` have no caller
and are left out.

### `BlockingQueue` and `ProducerConsumerQueue`

`ProducerConsumerQueue` is the template class. Each critical section is one
action; a consumer is outside, entered, asleep in `wait`, or woken.
`CancelLocked` and `NotifyAll` are separate because the lock is released in
between; several `Cancel`s may be in this gap, as the pool and each of its
workers call it. Values are distinct so that the history variables tell where
each went.

`BlockingQueue` is what users rely on: atomic operations, a consumer that may
return when there is a value or the queue was cancelled, and liveness.
`ProducerConsumerQueue` is shown to implement it, with
`blocked <- {c : pc[c] # "outside"}`. `MapUpdater` and `DatabaseWorkerPool` use
the queue through these atomic operations.

### `MySQLConnection`

One thread per connection, asynchronous (a worker's `TransactionTask`) or
synchronous (`DirectCommitTransaction` with the connection locked). One call of
`Execute` is one action: `BeginTransaction`, `ExecuteStatement`,
`RollbackTransaction`, `CommitTransaction`, or `ExecuteOnNull` when there is no
handle. `LoseConnection` is `mysql_query` or `mysql_stmt_execute` failing with
a lost connection, before or after the server did its part; `Reconnect`,
`ReconnectFails` and `ReconnectGivesUp` are the recursion in
`_HandleMySQLErrno`. `RetryLock`, `AcquireDeadlockLock`, `Retry` and `GiveUp`
are the retry loops of the two callers.

The server is external: a session has an open transaction (`open`, `work`) or
commits each statement (`committed`). It is assumed that the server answers
`START TRANSACTION`, `ROLLBACK` and `COMMIT` without an error as long as the
connection stays up, that statements undo nothing but themselves when they fail
other than by a deadlock, and that statements of different transactions do not
interfere except by deadlocks, which may hit any statement.

### `DatabaseWorkerPool`

The pool from `Open` to its destruction, as `DatabaseLoader`, `main()` and
`exit()` drive it: connections are created one after the other, each with its
worker running before the connection is opened; opening may fail at any of them
and is tried again after auto setup; `Close` and the destructor destroy
connections front first, each in the three steps of `~DatabaseWorker`. Workers
pop, look at their token, execute and delete. `Execute`, `AddQuery` and
`AddEmptyTransaction` are what users call; the processor's
`ProcessReadyQueries` is a loop whose iterations are steps, so that other
queries are added and answered meanwhile. A `QueryCallback` is a model value
with the number of callbacks left in its chain (`links`) and the operation
whose future it holds (`future`).

`PromiseAfter` is what the `Execute` of the operation classes leaves in the
promise: a query always stores a result; a transaction that failed, or that
succeeded on a retry, is deleted with its promise unset
(`TransactionTask::Execute`), which breaks the promise and makes the future
ready.

### `InstanceIds`

`_nextInstanceId` and the `vector<bool>` with its size and capacity; per id, how
many dungeons and battlegrounds own it. `GenerateInstanceId` is one action of
the world thread. `FreeInstanceId` is one action when the world thread calls it
(`ResetInstance`); on a map thread it is the four steps
`DestroyBattleground` (the test), `SetNextInstanceId`, `LoadBits` and
`StoreBits`, because only the lock of the thread's own map is held and a
`vector<bool>` is written a word at a time. A restart keeps some of the rows of
the table `instance`, the others being deleted as nobody is bound to them.

`ResetInstance` ends the ownership of the id, although the map that was reset
may still be loaded; `InstanceSaves` has the map and the saves. Test maps, which
exist in builds with tests only (`MapManager::CreateTestMap`), take ids as
dungeons do and are left out.

### `WorldSessions`

The world thread is in `rest`, in the loop of `UpdateSessions` that adds
sessions (`AddSession_`, one action per session handed over) or in the one that
updates them (`UpdateSession`, one per account, in any order, as `m_sessions` is
a hash map). A session object is created by a network thread (`Handshake`),
handed over, registered, and deleted; its fields are the members that decide
whether it waits, stays or leaves. `told` is what the client was last told of its
place in the queue. `Refuse` and `Admit` are the two outcomes of
`RemoveSession` in `AddSession_`; `RemoveQueuedPlayer` is one function of the
queue and the sessions, used by `Admit` for the session that is replaced and
twice by `Drop`, as `UpdateSessions` and `RemoveQueuedPlayer`'s other caller do.
`SocketCloses` and `DbAnswersInit` happen at any time; a login's answer is seen
by `UpdateSession`, where its character may fail to load.

`Kick` and `SetPlayerLimit` are the console's and the game masters' commands,
executed between updates or in the middle of one. `Shutdown` is `KickAll` and
`UpdateSessions` after the end of the main loop. The rows `online` are what they
become when the statements issued so far have been executed in this order, which
one asynchronous connection per pool (the default) ensures; with more of them,
`BoundedReordering` of `DatabaseWorkerPool` says what may change.

### `SessionPackets`

One connection. The network thread (`net`) reads a packet, takes
`_worldSessionLock`, queues the packet, and reads on, or finds the socket closed
(`OnClose`, which takes the lock too). The server's threads are one program
counter, because a session is updated by the world thread outside and by the
thread of the player's map inside the update of the maps, never by both
(`WorldThreadAlone` and `ExclusiveUpdate` of `MapUpdater`). `HandlePacket` is one
round of the loop of `WorldSession::Update`: the filter, the switch over the
status, the handler or the requeuing, and the packet limit. `FinishUpdate` is
`readd` and the query callbacks, `EndUpdate` the logout timer, the countdown and
the return value.

Packets are told apart by status and processing place only: `enum` and `login`
(`STATUS_AUTHED`), `safe`, `inplace` and `unsafe` (`STATUS_LOGGEDIN` with the
three `PacketProcessing`s; the unsafe one is the logout request), `cancel`
(`STATUS_LOGGEDIN_OR_RECENTLY_LOGGOUT`), `ack` (`STATUS_TRANSFER`). The client
follows the protocol: it sends what belongs to a character from the login on
until it has read that the character has left, and reads what the server sends
arbitrarily late. Every packet carries the character and the map it was sent
for, which the server does not see. `Teleport` may take the player to another
map in every phase in which spells, triggers or delayed teleports are executed.

Waiting in the login queue (`m_inQueue`), the limits of `AntiDOS` and opcodes
that are refused in every state are left out. Without a session,
`ReadDataHandler` calls `CloseSocket` while it holds the lock that `OnClose`
takes: that is the state `stuck`, and `SessionOutlivesUse` says that it is not
reached.

### `MPSCQueue`

The queue of `Threading/MPSCQueue.h`. `Enqueue` is two actions, `Exchange` (the
new node becomes `_head`) and `Link` (the one before it points to it), because
another thread may run between the two atomic operations. `Dequeue` is one:
only the consumer writes `_tail`, and a `Next` that is set stays. Memory is a set
of numbered nodes; a freed one is given out again at once, which is the case in
which a stale pointer does the most harm. `place`, `enqueued` and `dequeued` are
history variables. The destructor, which runs when nobody else has the queue, is
left out.

### `SocketWrites` and `OrderedStream`

`SocketWrites` is a `WorldSocket` as far as it sends, in the build without
`TC_SOCKET_USE_IOCP`; it uses the actions of `MPSCQueue` for `_bufferQueue`.
`SendPacket`, `Enqueue`, `EnqueueEnds` are `WorldSocket::SendPacket` of a thread
of the game or of the network thread itself. The network thread is a program
counter: `UpdateStarts`, `Drain` and `DrainEnds` are `WorldSocket::Update`, which
packs packets into a buffer of `_sendBufferSize` bytes and gives a larger packet
one of its own; `Flush` is `Socket::Update`, and `NothingToWrite`, `WriteFails`,
`WriteSome` and `WriteAll` are the outcomes of one call of `HandleQueue`, from the
loop of `Update` or from `WriteHandlerWrapper`. An empty buffer, which `Update`
does queue in front of a packet that is larger than the buffer, takes the exit of
a write of zero bytes. The handshake (`phase`) decides whether a client is
answered and closed later (`DelayedCloseSocket`), goes on reading, or gets its
session. `KickPlayer` closes the socket on another thread in two steps.

A packet is its bytes, each labelled with the packet and its place: `Size` is the
length with the header. Headers are encrypted by a stream cipher in the order in
which packets are drained, so the order on the wire is what lets the client read
them at all. The connection takes as many bytes as `Window` allows, the client
reads or does not, and may vanish (`broken`).

`OrderedStream` is what a socket promises: packets are accepted in some order,
delivered as a growing prefix of the stream they make, and the stream is closed
early only if the connection is given up. `SocketWrites` is shown to implement it
with its liveness: `accepted` is the order of the exchanges, `delivered` what has
left, `closed` and `closing` are the flags, and a session's socket may be closed
at any time (`broken` in the abstract sense).

### `InstanceSaves`

One dungeon in one difficulty, normal or heroic (`heroic`), some players and one
group. Everything that binds, unbinds or resets runs on the world thread or with
a map thread alone in the map, so a handler is one action. As in the code, a
handler is a chain of calls that each change the same state and depend on what
the former have changed: that state is one record `g`, and each function of the
code (`BindPlayer`, `RemoveGroup`, `SetResetSchedule`, `AddPlayerToMap`,
`ResetGroup`, `ChangeLeader`, ...) is a function from it to the next one. A save
is `g.save[i]` with the players on its list, whether the group is on the other
one, and `canReset`; `g.bind` and `g.gbind` are `m_boundInstances`; `charRow`
and `instRow` are the tables a login reads. The rows of `group_instance` are read
at a restart only and left out, as are restarts.

`Enter` is the arrival by `HandleMoveWorldportAck`; a player in a transfer counts
as being where he is linked (`Player::SetMap`). `Leave` stands for every reason
to leave, among them the homebind timer and `RemoveAllPlayers` after a reset.
`Login` loads the binds, chooses the instance (`InstanceAtLogin`, `LoginTarget`)
and enters it or is sent out. Refusals that depend on the number of players or
on a fight may or may not happen. `HandleSetDungeonDifficultyOpcode` switches to
the other difficulty, in which nothing happens, and back. `_ResetInstance` is an
event of type 0; whether another event for the same id is left is not recorded.
The rows of a login are read in no particular order, so `LoadBoundInstances` folds
over the ids. `GlobalReset` is `_ResetOrWarnAll`; nothing schedules it as long as
`LoadResetTimes` returns in its first line, and the invariants hold with and
without it. An assertion that fails sets `aborted`.

## Runs

Passing runs:

| Run | States | Shows |
|---|---|---|
| `map_updater` | 55,737 | the update protocol through any number of ticks and the shutdown is safe, and ticks and shutdowns end |
| `queue` | 43,014 | no lost wakeup; the queue implements `BlockingQueue` (each value once and in order, nothing after a `Cancel`, liveness included) |
| `mysql` | 311,399 | atomicity on connections that stay up, bounded and serialised retries, every execution ends or the process aborts |
| `pool` | 186,722 | bounded overtaking, one fate, no callback lost or answered twice, no orphaned thread; operations execute, callbacks complete, closing ends |
| `instance_ids` | 1.26 million | no access out of range, lowest free id unless frees raced, only survivors of a restart shared |
| `sessions` | 1.28 million | the login queue, reconnects, online flags and the shutdown |
| `packets` | 839,283 | order, addressee and lifetime of packets, and that each leaves the queue |
| `socket` | 124,567 | no freed node is used, a refused client is told, and the socket implements `OrderedStream`, liveness included |
| `saves` | 1.90 million | binds and saves agree, no assertion fails, lockouts hold, occupied instances keep their save |

Properties worth a comment:

* `PendingCountsRequests` ties the atomic counters to the queues and to what the
  threads hold; the assertions `pending > 0` in `onceMapFinished` and
  `loopMapFinished` follow from it.
* `NoDanglingRequest` is what makes it safe that `MapInstanced::Update` deletes
  a map while loop workers run: an instance it looks at is in no queue and no
  thread's hands, because its own `MapInstanced` is the only one to schedule it
  and does so once per tick, after the look.
* `TickCoversMaps` holds although a loop worker may see the flag switched off
  before it has popped: a popped request is always called once.
* `BoundedReordering`: with *N* workers an executed operation has overtaken at
  most *N* - 1 earlier ones. With one worker per pool (the default) it is FIFO.
* `AtomicUnlessInterrupted` excludes exactly the transactions that met a lost
  connection or a missing handle; what happens to those is `AllOrNothing`.
* `NoIdleSlot` and the order in `LetInInTurn` are stated for queues under which
  the limit was not moved (`limitMoved`): raising it lets nobody in until
  somebody leaves. `MayPass` is what the code lets pass: game masters and
  accounts that were disconnected before.
* `HandledInOrder` is about packets of one status: a packet that waits for its
  player is overtaken by those that need none, by design.
* `HandledAsMeant` is why a logout sets `m_playerRecentlyLogout` and why only a
  new list of characters resets it: without it, packets of the old character
  would be set aside and handled for the next one.
* `OnlySurvivorsShared` holds with racing frees: a lost update can leave the bit
  of a free id set (an id leaks) but not clear the bit of an id in use.
* `RejectionTold` holds although `DelayedCloseSocket` looks at the write queue
  only, while the answer is still in the other queue: the next `Update` drains
  that one first, and no write handler is pending then, because the client has
  answered the challenge after reading all of it.
* `SavesAndBindsAgree` is what the code relies on when it deletes a save whose
  lists are empty and when `_ResetSave` follows the lists to the binds.
* `NeverAborts` is about four assertions whose truth depends on choices made
  earlier: at the login for the map, in `CreateInstanceForPlayer` for the bind.

Type invariants are proved and not run: those of `MapUpdater`,
`ProducerConsumerQueue`, `InstanceIds`, `MySQLConnection`, `DatabaseWorkerPool`,
`MPSCQueue` and `SocketWrites`, `SessionPackets`, `WorldSessions` and
`InstanceSaves` (`SavesTypeCorrect`).

Violation runs, one property each: see
[below](#disagreements-between-the-code-and-what-it-says-of-itself).

Deadlock is checked in the runs of `MapUpdater` (its end state has an explicit
stuttering step), `ProducerConsumerQueue`, `InstanceIds`, `InstanceSaves` and
`WorldSessions` (`Finished`). The database models really stop: the process aborts, all
transactions are done, or the pool is destroyed, and so does a connection, when
its session is deleted or its socket is closed; their configurations switch the check off, and
`TransactionEnds`, `CallbackCompletes`, `ShutdownEnds`, `EveryPacketLeaves`,
`ClosedIsDeleted` and `ImplementsOrderedStream` say that nobody stays blocked.

## Bounds

* `MapUpdater`: one continent, one `MapInstanced` with two instances, two loop
  workers; ticks are unbounded. Two once maps make two once workers, the
  smallest case in which one finishes before the other; two instances and two
  loop workers let requests overtake each other. The history counts updates as
  0, 1 or more.
* `ProducerConsumerQueue`: three values and three consumers, two `Cancel`s. Two
  consumers suffice for a stolen value; the third sleeps while this happens. The
  theorems cover every size.
* `MySQLConnection`: two workers, one synchronous connection, two transactions
  of two statements, one lost connection, two deadlocks, one other error: both
  workers can be deadlock victims at once, and a synchronous caller can use up
  its retries. 2 reconnection attempts and 2 retries stand for 5 and 5
  (`ReconnectAttempts`, `LoopBreaker`), so that both limits are reached. A
  worker's retries are limited by time in the code: in the model it may stop
  after any retry. `MaxLost`, `MaxDeadlocks`, `MaxErrors` bound the server.
* `DatabaseWorkerPool`: two workers, two writes, two callbacks of which one may
  chain a second query (`MaxLinks` = 2). An operation is enqueued at most once.
* `WorldSessions`: one slot; an account that connects twice, one that connects
  once, and a game master's, so that up to two sessions wait, the one that is
  replaced may be first, last, or past the queue, and a privileged session takes
  the only slot beside it. One command (`MaxCommands`): a kick or a new limit, up
  to 2 or none (-1). The clock stands still (`MaxTime` = 0): because of the first
  open question below a disconnect is recent for ever, so time changes nothing.
  `ExpireTicks` = 2 keeps a lost session for one more tick.
* `SessionPackets`: five packets for two characters (`MaxPackets`, `MaxChars`)
  and one transfer per character (`MaxTransfers`). The limit of packets per update
  is 2 (`MaxProcessed` = 1, the code tests with `>`) instead of 101, so that it is
  reached; a map is updated once per tick and the countdown is one tick.
* `SocketWrites`: one thread of the game beside the network thread, each of the
  five packets sent at most once; four nodes (`MaxNodes`), so that memory is used
  again; packets of 1 and 3 bytes with buffers of 2 (`BufferSize`, 4096 in the
  code), so that a buffer holds one packet, two packets, or less than one; two
  bytes on their way (`Window`), so that writes are partial and block.
* `InstanceIds`: blocks of 2 instead of 32 bits and words of 4, ids up to
  `MaxU32` = 6, at most `MaxInstance` = 4 as the largest next id for which one is
  generated, two updating threads, one restart (`MaxRestarts`). The vector then
  grows by a block, by its capacity, and is sized from a table.
* `InstanceSaves`: two players, two ids (`MaxId`), the difficulty chosen at
  the start. Two ids let a player be bound elsewhere than the group; two players
  let one be offline, locked or in another instance while the other enters,
  resets, leaves the group or leads it. What needs a third member (a group that
  goes on when its leader leaves) is in the module and takes the same steps as
  `SetLeader`.

## Fairness

Every thread that can take a step takes one eventually (weak fairness per
thread): the operating system schedules all threads, mutexes are held for
bounded times, and map updates and SQL calls return. Nothing else is assumed:
the world thread need not begin a tick, nobody need push, enqueue, close or
cancel, and spurious wakeups are possible but never relied upon. In
`MySQLConnection` a worker that retries for `DEADLOCK_MAX_RETRY_TIME_MS` comes
to the end of its time, which is strong fairness of `GiveUp`, because each
further retry disables it for a while. In `DatabaseWorkerPool` the owner of the
processor polls it in each of its updates, so `ProcessReadyQueries` is fair. In
`SessionPackets` the network thread, the server's threads and the answer to a
login are fair; the client may fall silent for ever, and no read need fail. In
`SocketWrites` a handler whose time has come waits in the network thread's
`io_context`, which serves handlers in order, so it is not passed over for ever
(strong fairness of `WriteHandlerWrapper`, of the answers of queries, and of the
failing read of a broken connection); the client need not read, and
`OrderedStream` promises delivery only while it does (`stalled`).

## Proofs

`tlapm` checks all proofs; each module of theorems extends its component.

**`MapUpdater_proofs`**, for all finite sets of maps and workers (named
assumptions `MapsAssumption`, `WorkersAssumption`): `TypeOK`,
`PendingCountsRequests`, `RequestHeld`, `ThreadPerOnceMap`, `WorldThreadAlone`.
None is inductive alone. The invariant `IndInv` adds that waiting threads hold
nothing, that a queue is shut down only after the token is set and null is
popped only then (`TokenBeforeCancel`), that the world thread's position bounds
the counters (`PendingByPhase`), and that threads beyond the vector's size were
never spawned. The counting part is split: `OnceCountsStep` and
`LoopCountsStep` follow how a thread's request changes the cardinality of the
set of busy threads. `WorldThreadAlone` then follows from the counters being
zero in those phases.

In the same module and with the same assumptions: `ExclusiveUpdate`, `NoDanglingRequest`, `TickCoversMaps`. A request is in one place
only, a queue or the hands of one worker (`OncePlaces`, `LoopPlaces`), and a base map
is updated in one tick by one thread. Until a `MapInstanced` has updated and
scheduled an instance, no loop worker can come to it, so what it destroys there is
referred to by nobody (`InstancesInv`). During a tick the maps exist and the token is
clear (`ShutdownInv`), so a base map was updated once or is still to come, and an
instance that was scheduled was updated or will be by a loop worker (`CoverInv`).

**`ProducerConsumerQueue_proofs`**, for all values and finitely many consumers:
`TypeOK`, `NoLostWakeup`, `Refinement` (the queue implements the safety part of
`BlockingQueue`), and, beyond what the run states, `CancelWillWake` (whoever
sleeps after a `Cancel` will be notified), `EachValueOnce` and
`NothingAfterCancel`. `NoLostWakeup` is inductive with the types: a push adds a
value and a woken thread, and a woken thread that goes back to sleep does so only
with the queue empty. `EachValueOnce` needs that nothing is delivered after
something was deleted, which the flag ensures.

**`Instances_proofs`** has two parts, each about a module of its own. First
`InstanceIds`, for every width, block and word size and any number of updating threads, as long as ids stay below the 32-bit limit (`BelowLimit`: the
code's own test for that limit, `game/Maps/MapManager.cpp` line 418, compares
after the increment and can never hold): `TypeOK`, `IdsInBounds`,
`LowestUnlessRaced`, `OnlySurvivorsShared`. The invariant says what the words
loaded by threads in the middle of `FreeInstanceId` may contain (`LoadedOwned`:
the bits of all owned ids), that a freed id has lost its owner, that the next id
is at most the vector's size and owned by nobody, and how far a thread that is
alone has got (`LowestInProgress`). Division with remainder is used through one
lemma (`DivMod`).

Then `InstanceSaves`, for any finite set of players and any number of ids:
`SavesAndBindsAgree`, `NeverAborts`, `LockoutHolds`, `SaveWhileOccupied` and the
types. The four invariants need one another and together are inductive (`Good`),
because a handler reads what they say: `UnloadIfEmpty` deletes a save by its lists,
`_ResetSave` unbinds by them, and who is inside an instance decides whether a save
may go. The handlers are chains of functions of the state, so the proof is about
those functions and not about steps: one lemma for each function says what it keeps.
Most only free players or bind a player to the instance he is in, and keep the saves
of occupied instances (`Keeps`); that relation goes from one call to the next
(`KeepsOn`) and implies the invariants at the end of a handler (`KeepsGood`), though
not always in the middle of one. A reset frees whoever is not bound for good and may
take the save from under the players inside (`Eases`); then the map has to be spent.
No assertion fails because a player is only ever put into an instance that fits him
(`Fits`): `CreateInstanceForPlayer` and a login lead to one (`CreateGood`,
`LoginGood`), and `AddPlayerToMap` binds him to nothing else (`AddPlayerGood`). The
folds over players, rows and saves go by the least-number principle (`FoldExists`,
`FoldStays`), the induction theorems of the library not being available.

**`MySQLConnection_proofs`**, for any number of connections, transactions of any
size, and any number of lost connections, deadlocks and errors: `TypeOK`,
`AtomicUnlessInterrupted`, and `DurableInOneStep`, that what is stored of a
transaction whose connection stays up goes from nothing to everything in one step,
as an abstract atomic transaction would. `AtomicUnlessInterrupted` speaks of
finished executions and is not inductive. The invariant follows an execution: a
transaction is on one connection (`OneConnectionEach`), a session holds statements
of its own transaction only and has none open between two executions
(`SessionsInv`), before the commit nothing is durable and the open transaction
holds exactly what was executed (`ProgressInv`), and an execution that is over left
what its outcome says (`SettledInv`).

**`DatabaseWorkerPool_proofs`**, for up to 32 workers (the loader's limit), any
statements, callbacks and transactions, and chains of any length: `TypeOK`, `OneFate`,
`BoundedReordering`, `ConnectionOutlivesWorker`, `AnswersAreReal`, `NoCallbackLost`. An
operation is
enqueued once and then is in one place (`FateInv`). Operations are taken from the
queue in their order and whoever has executed one holds nothing from before it
(`OrderInv`), so what an operation overtook is in the hands of the other workers, and
`BoundedReordering` follows by counting them (the pigeonhole principle). The queries of
a `QueryCallback` are enqueued one after the other (`ChainInv`), so an answer is never
one that was handed out before, and while the pool is open a promise is broken only
by a worker that ran a transaction (`AnswerInv`). `NoCallbackLost` counts positions in
the three vectors joined; inductive is that they hold no entry twice, share none, and
together are the callbacks that have links left (`CallbacksInv`).

**`SocketWrites_proofs`** begins with `MPSCQueue`, for any producers, values and
number of nodes, freed and given out again: its types, `NoFreedNode`,
`FirstInFirstOut` (what was taken out is the beginning of what was put in) and
`NothingIsHidden` (a queue that looks empty has nothing in it or a producer between
its two steps). The invariant numbers the nodes: those allocated have the places
from the tail's to the head's, once each, a `Next` leads from one place to the next,
and where it is missing there is exactly one producer that will set it. Then the
socket, for any threads, packets, packet sizes and buffer sizes. `SendsThroughQueue`
shows that `SocketWrites` implements the queue's specification, so the invariant
above holds in it and with it `NoFreedNode`. `StreamInOrder` is the safety half of
`ImplementsOrderedStream`: until the connection fails, what has left, the write
queue and the buffer are together the bytes of the packets taken out (`WireInv`), and
afterwards what has left is still the beginning of them. `RejectionTold` follows the answer
through both queues (`AnswerInv`): when a client is refused it has read the
challenge, so nothing else is under way (`HandshakeInv`), the answer is the last
packet ever sent, and the socket closes only when the write queue is empty after it.
The lemmas about flattened sequences are proved with the least-number principle,
because the induction theorems of the library cannot be instantiated.

**`SessionPackets_proofs`**, for any number of packets, characters and transfers:
`SessionOutlivesUse`, `HandledInOrder`, `HandledAsMeant`. The first one's invariant
says how the socket's pointer follows the
session's life: it is set from the handshake until the socket is closed, whoever
has closed it is on the way to reset it under the lock, and who deletes the session
has closed the socket before; so a network thread that has found the pointer under
the lock keeps the session alive until it lets go. The packets that are set aside,
queued and in the network thread's hands rise in this order (`OrderInv`), and only
packets that need a player in the world are ever set aside. `HandledAsMeant` needs
to know what the client knows: it and the session are in one of four states
(`Playing`, `Entering`, `Left`, `Idle`), each of which says what may be on its way in
both directions, for instance that after a logout the client's next packet of
another character comes behind its request for the list of characters.

**`WorldSessions_proofs`**, for finitely many accounts and any sessions, limits and
commands (`SessionsAssumption`): `QueueSound`, `OnlineFlags`, `AllSavedAtShutdown`,
`NoIdleSlot` and the action property `LetInInTurn`. The invariant `SessionsInv` says
where a session is in each part of its life (`LifeInv`), that
those who wait were told the place they have (`PlaceInv`: `RemoveQueuedPlayer`
renumbers from the first place that moved, which is enough because those before it
were right), and that after `KickAll` a registered session either has its last update
to come and will not survive it or has no player (`ShutdownInv`). It is preserved by
lemmas about `RemoveQueuedPlayer` as a function (`Removed`), applied twice to a session that
leaves and once to one that is replaced. `NoIdleSlot` and `LetInInTurn` count: the
sessions past the queue are the registered ones less the length of the queue
(`Slots`, by a bijection between a queue's places and its members), and while
anybody waits they are at least as many as the limit (`SlotsHeld`). How the two calls
of `RemoveQueuedPlayer`, with the session that leaves still in the map, move these
numbers is `DropCounts` and `AdmitCounts`; what is left is arithmetic.

Every safety property of a passing run is proved. Only model-checked are liveness
under fairness and the liveness halves of the refinements, which are beyond the
prover.

## Disagreements between the code and what it says of itself

Each is shown by a run whose only property is what the text says; the quotations
are in `findings`.

1. `mysql_lost`: a transaction interrupted by a lost connection is continued in
   autocommit mode on the new session, so a part of it becomes durable.
2. `instance_ids_restart`: ids of saved dungeons are not registered after a
   restart, because `LoadResetTimes` returns in its first line.
3. `saves_lockout`: a save that is loaded again at the login of a player with a
   soft bind may be reset although another player, offline, is locked to it; the
   reset deletes his lockout.

## Open questions

Seen while modelling and not given a run of their own. Database and ids:

* what the final "save and kick all players" (`worldserver/Main.cpp` line 320) has
  enqueued, or a worker has popped and not begun, when the pool is closed is deleted
  without being executed, unless the workers were fast enough
  (`Threading/ProducerConsumerQueue.h` line 89, `database/Database/DatabaseWorker.cpp`
  line 50);
* the failed first `Open` of a pool cancels its queue for good
  (`database/Database/DatabaseWorker.cpp` line 34), so after auto setup the pool
  opens with workers that return at once, and what is enqueued is not executed
  before the next start; `ExecutedIfOpenedOnce` and `CallbackCompletes` exclude it;
* a reconnection that fails with an error code that the switch does not list
  returns to its caller with a null handle, and the connection stays in use
  (`database/Database/MySQLConnection.cpp` line 589; the text logged at line 552
  speaks of terminating). `ExecuteOnNull` models what follows;
* a lost `COMMIT` that the server did not apply is repeated on an empty session
  and reported as done; a transaction's callback runs whether or not it was
  committed; the callback of an empty transaction never runs;
* two map threads in `FreeInstanceId` may leave `_nextInstanceId` above the lowest
  free id (`game/Maps/MapManager.cpp` line 470, against the comment at 408), which
  is why `LowestUnlessRaced` excludes them; the test for the end of the ids cannot
  succeed; test maps are said to be updated once per world update
  (`game/Maps/MapUpdater.cpp` line 116) and are pushed to the loop queue, which the
  model follows (they are `Instances`).

Sessions (`game/World.cpp` unless named otherwise):

* line 353 tests `difftime(then, now) < tolerance`, which is true for ever, so
  whoever was disconnected once passes the queue (`worldserver.conf.dist` line 275
  speaks of seconds); and a session that a reconnect replaces records none;
* after a reconnect `account.online` is 0 until a character enters the world,
  because the old session's destructor writes after the new one's constructor;
* `KickAll` clears the queue without resetting `m_inQueue`; sessions still in
  `addSessQueue` at the shutdown are never deleted;
* "not process packets if socket already closed" (`game/Server/WorldSession.cpp`)
  tests the pointer, which is kept until the session leaves.

Packets (`game/Server`):

* packets still in `_bufferQueue` when a `WorldSocket` is destroyed are not deleted
  (`Threading/MPSCQueue.h` frees the nodes only);
* `DelayedCloseSocket` called with a write handler pending would let that handler
  close the socket before the answer is drained; a client that answers the
  challenge before it has read it could get there;
* `WorldSocket.cpp` lines 318 and 344 use `_worldSession` for a log text without
  the lock and without a test;
* `WorldSession.cpp` line 341 speaks of the bottom of the queue where `readd` puts
  packets at its front, and `Opcodes.h` line 2417 says of `STATUS_AUTHED` that
  there is no player, which is not tested.

Instances (`game/`):

* `SetResetSchedule` (`Maps/Map.cpp` line 3412) does nothing while `HavePlayers()`,
  but the player who enters is already linked and the one who leaves still is. The
  event that `AddInstanceSave` schedules, expecting that it "will be removed soon
  after", is therefore never removed, and leaving schedules none: a normal instance
  is reset two hours after its creation, also with players inside, against the
  comment in line 3415;
* the reset frees the id while the map may still be loaded, and the next new
  instance may get it, with the map and the players that are in it (the assertion
  in `Maps/MapInstanced.cpp` that would notice is commented out);
* a player who logs in enters the map that has the id he was saved with, also if
  it has been given to strangers since;
* the global reset deletes the rows of permanent binds and leaves those of online
  players in memory (`Instances/InstanceSaveMgr.cpp` line 533); nothing schedules it;
* a heroic save whose last bind goes while the player is still linked, as at a
  logout, is not unloaded before somebody binds to it again, and ids of heroic
  instances are not freed before a restart;
* `ConvertLeaderInstancesToGroup` binds and unbinds without writing rows
  (`Groups/Group.cpp` line 721), so a solo bind comes back at the next login;
* `m_resetTimeQueue` is changed by map threads without a lock.

## What is not modelled

Game rules (entities, spells, AI, scripts, combat formulas) work on very large
data inside one thread; movement, vmaps and mmaps are geometry. The handshake of
`AuthSession`, loot rolls, battleground queues, auctions, mail, pools and events
are candidates of the plan. Of the network library, accepting connections, the
balancing between network threads, the build with I/O completion ports and the
cipher are left out. Of the instance
binds, raids, other difficulties, the tables that only a restart reads, and the
homebind timer are left out. Of the modelled components, `KeepAlive` (its pings are operations like
any other), the direct queries, schema updates, `Query` and result sets, and
grid loading are left out because they touch none of the modelled state.
`GetFreeConnection` spins until a synchronous connection is free; in
`MySQLConnection` a synchronous connection that is busy cannot be started.

## Plan

Done: `BlockingQueue`, `ProducerConsumerQueue`, `MapUpdater`, `InstanceIds`,
`MySQLConnection`, `DatabaseWorkerPool`, `WorldSessions`, `SessionPackets`,
`InstanceSaves`, `MPSCQueue`, `SocketWrites` against `OrderedStream`, and the
theorems above.

Next modules, in this order:

1. `AuthSession`: the handshake automaton with its asynchronous steps.
2. `BattlegroundQueue`, `GroupLoot`, `AuctionHouse`: protocols over persistent
   state, with crash and restart.

Next theorems: those of the modules to come; of `InstanceSaves`, that a save which
somebody loaded is locked to never has `canReset`, which is the part of
`LockoutsNotReset` that holds.
