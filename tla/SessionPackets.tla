---------------------------- MODULE SessionPackets ----------------------------
(***************************************************************************)
(* One client's connection: the network thread that reads its WorldSocket, *)
(* the WorldSession whose packets the world thread and the threads of the  *)
(* maps take in turns, and the client.  The server's threads never update  *)
(* a session at the same time (MapUpdater: WorldThreadAlone), so they are  *)
(* one program counter; the network thread and the client run beside it.   *)
(***************************************************************************)
EXTENDS Naturals, Sequences

CONSTANTS
    MaxPackets, MaxChars, MaxTransfers,   \* bounds on what the client sends and lives through
    MaxProcessed,    \* MAX_PROCESSED_PACKETS_IN_SAME_WORLDSESSION_UPDATE
    MaxMapUpdates,   \* bound: updates of the player's map in a tick
    ExpireTicks,     \* expireTime in ticks
    NoOwner, NoPacket

ASSUME PacketsAssumption ==
    /\ MaxPackets \in Nat /\ MaxChars \in Nat /\ MaxTransfers \in Nat
    /\ MaxProcessed \in Nat \ {0} /\ MaxMapUpdates \in Nat \ {0} /\ ExpireTicks \in Nat \ {0}
    /\ NoOwner # "net"

VARIABLES
    client,          \* what the client believes, and how many packets it has sent
    notes,           \* messages of the server that the client has not read
    net, incoming,   \* the network thread and the packet it holds
    closed,          \* Socket::_closed
    worldSession,    \* _worldSession is set
    sessionLock,     \* who holds _worldSessionLock
    life,            \* of the WorldSession
    pc, next,        \* the server's threads, and where CloseSocket returns to
    filter,          \* which filter Update was called with
    mapUpdates,      \* in this tick
    processedPackets, _recvQueue, requeuePackets,
    ses              \* the members of WorldSession that decide about packets

clientVars == <<client, notes>>
netVars    == <<net, incoming>>
socketVars == <<closed, worldSession, sessionLock>>
updateVars == <<filter, mapUpdates, processedPackets, requeuePackets>>
vars == <<clientVars, netVars, socketVars, life, pc, next, updateVars, _recvQueue, ses>>

-----------------------------------------------------------------------------
(* Packets, and the parts of the handlers that are told apart *)

Kinds == {"enum", "login", "safe", "inplace", "unsafe", "cancel", "ack"}

\* unsafe is CMSG_LOGOUT_REQUEST, cancel CMSG_LOGOUT_CANCEL, ack MSG_MOVE_WORLDPORT_ACK
Status(p) == CASE p.kind \in {"enum", "login"} -> "authed"
               [] p.kind \in {"safe", "inplace", "unsafe"} -> "loggedin"
               [] p.kind = "cancel" -> "recently"
               [] p.kind = "ack" -> "transfer"

InPlace(p)    == p.kind = "inplace"
ThreadSafe(p) == p.kind = "safe"

NoPlayer(r) == r.player = 0

WorldFilter(p, r) == ~ThreadSafe(p) \/ NoPlayer(r) \/ ~r.inWorld
Mutant_MapFilter(p, r) == InPlace(p)          \* nothing else is safe
MapFilter(p, r) == InPlace(p) \/ (ThreadSafe(p) /\ ~NoPlayer(r) /\ r.inWorld)
Process(p, r)     == IF filter = "world" THEN WorldFilter(p, r) ELSE MapFilter(p, r)

\* The switch over the status of a packet in Update
Accepts(p, r) ==
    CASE Status(p) = "authed"   -> TRUE
      [] Status(p) = "loggedin" -> ~NoPlayer(r) /\ r.inWorld
      [] Status(p) = "recently" -> ~NoPlayer(r) \/ r.recentlyLogout
      [] Status(p) = "transfer" -> ~NoPlayer(r) /\ ~r.inWorld

Requeued(p, r) == Status(p) = "loggedin" /\ NoPlayer(r) /\ ~r.recentlyLogout

Mutant_LogoutPlayer(r) ==                     \* m_playerRecentlyLogout is not set
    IF NoPlayer(r) THEN r
    ELSE [r EXCEPT !.player = 0, !.inWorld = FALSE, !.logoutTime = FALSE, !.tell = "complete"]
LogoutPlayer(r) ==
    [r EXCEPT !.player = 0, !.inWorld = FALSE, !.logoutTime = FALSE, !.recentlyLogout = TRUE,
              !.tell = IF NoPlayer(r) THEN @ ELSE "complete"]

\* TeleportTo another map: the player is in none until the client acknowledges
TeleportFar(r) ==
    IF r.map < MaxTransfers THEN {[r EXCEPT !.inWorld = FALSE, !.map = @ + 1, !.tell = "newworld"]}
    ELSE {}

\* What a handler may leave behind; an acknowledged transfer may fail and lead home
Handle(p, r) ==
    CASE p.kind = "enum"   -> {[r EXCEPT !.recentlyLogout = FALSE]}
      [] p.kind = "login"  -> IF r.loading # 0 \/ ~NoPlayer(r) THEN {r}
                              ELSE {[r EXCEPT !.loading = p.char]}
      [] p.kind \in {"safe", "inplace"} -> {r}
      [] p.kind = "unsafe" -> {[r EXCEPT !.logoutTime = later] : later \in BOOLEAN} \cup {LogoutPlayer(r)}
      [] p.kind = "cancel" -> {IF NoPlayer(r) THEN r ELSE [r EXCEPT !.logoutTime = FALSE]}
      [] p.kind = "ack"    -> {[r EXCEPT !.inWorld = TRUE], LogoutPlayer(r)} \cup TeleportFar(r)

\* SMSG_LOGOUT_COMPLETE or SMSG_NEW_WORLD, if the step sends one
Tell(r) == /\ ses' = [r EXCEPT !.tell = "none"]
           /\ notes' = IF r.tell = "none" THEN notes ELSE Append(notes, r.tell)

-----------------------------------------------------------------------------
(* The client: it sends packets for a character from its login on, until   *)
(* it is told that the character has left.  A packet counts as sent when   *)
(* the network thread has read it: as the client may read what the server  *)
(* told it arbitrarily late, no behaviour is lost.                         *)

Packet(kind, c, m) == [kind |-> kind, char |-> c, map |-> m, n |-> client.sent + 1]

ClientSends(p) ==
    /\ client.sent < MaxPackets
    /\ net = "reading"
    /\ net' = "locking" /\ incoming' = p

Login ==
    /\ client.state = "list" /\ client.char < MaxChars /\ life = "live"
    /\ ClientSends(Packet("login", client.char + 1, 0))
    /\ client' = [state |-> "play", char |-> client.char + 1, map |-> 0, sent |-> client.sent + 1]
    /\ UNCHANGED <<notes, socketVars, life, pc, next, updateVars, _recvQueue, ses>>

Play(kind) ==
    /\ client.state = "play"
    /\ ClientSends(Packet(kind, client.char, client.map))
    /\ client' = [client EXCEPT !.sent = @ + 1]
    /\ UNCHANGED <<notes, socketVars, life, pc, next, updateVars, _recvQueue, ses>>

ClientReads ==
    /\ notes # <<>> /\ notes' = Tail(notes)
    /\ IF Head(notes) = "complete"
       THEN /\ ClientSends(Packet("enum", client.char, 0))
            /\ client' = [client EXCEPT !.state = "list", !.sent = @ + 1]
       ELSE /\ ClientSends(Packet("ack", client.char, client.map + 1))
            /\ client' = [client EXCEPT !.map = @ + 1, !.sent = @ + 1]
    /\ UNCHANGED <<socketVars, life, pc, next, updateVars, _recvQueue, ses>>

-----------------------------------------------------------------------------
(* The network thread of the socket *)

\* HandleAuthSessionCallback, up to AddSession
CreateSession ==
    /\ net = "auth"
    /\ net' = "created"
    /\ life' = "handed" /\ worldSession' = TRUE
    /\ UNCHANGED <<clientVars, incoming, closed, sessionLock, pc, next, updateVars, _recvQueue, ses>>

\* AsyncRead
StartReading ==
    /\ net = "created"
    /\ net' = IF closed THEN "done" ELSE "reading"
    /\ UNCHANGED <<clientVars, incoming, socketVars, life, pc, next, updateVars, _recvQueue, ses>>

\* Without a session CloseSocket is called with the lock held: its OnClose would wait for ever
LockSession ==
    /\ net = "locking" /\ sessionLock = NoOwner
    /\ IF worldSession THEN net' = "locked" /\ sessionLock' = "net"
       ELSE IF closed THEN net' = "done" /\ UNCHANGED sessionLock
       ELSE net' = "stuck" /\ sessionLock' = "net"
    /\ UNCHANGED <<clientVars, incoming, closed, worldSession, life, pc, next, updateVars, _recvQueue, ses>>

QueuePacket ==
    /\ net = "locked"
    /\ _recvQueue' = Append(_recvQueue, incoming) /\ incoming' = NoPacket
    /\ net' = "reading" /\ sessionLock' = NoOwner
    /\ UNCHANGED <<clientVars, closed, worldSession, life, pc, next, updateVars, ses>>

\* The read fails, or the socket is found closed: CloseSocket
ReadFails ==
    /\ net = "reading"
    /\ closed' = TRUE /\ net' = IF closed THEN "done" ELSE "closing"
    /\ UNCHANGED <<clientVars, incoming, worldSession, sessionLock, life, pc, next, updateVars, _recvQueue, ses>>

NetOnClose ==
    /\ net = "closing" /\ sessionLock = NoOwner
    /\ worldSession' = FALSE /\ net' = "done"
    /\ UNCHANGED <<clientVars, incoming, closed, sessionLock, life, pc, next, updateVars, _recvQueue, ses>>

-----------------------------------------------------------------------------
(* The server's threads *)

\* CloseSocket, which goes on at step if another thread has closed it before
CloseSocket(step) ==
    /\ closed' = TRUE
    /\ IF closed THEN pc' = step /\ UNCHANGED next ELSE pc' = "onclose" /\ next' = step

Mutant_Lockable == TRUE                       \* OnClose does not lock
Lockable == sessionLock = NoOwner

OnClose ==
    /\ pc = "onclose" /\ Lockable
    /\ worldSession' = FALSE /\ pc' = next
    /\ UNCHANGED <<clientVars, netVars, closed, sessionLock, life, next, updateVars, _recvQueue, ses>>

AddSession_ ==
    /\ pc = "rest" /\ life = "handed"
    /\ life' = "live"
    /\ UNCHANGED <<clientVars, netVars, socketVars, pc, next, updateVars, _recvQueue, ses>>

\* The session is refused, or replaced by another one of its account: KickPlayer, delete
Remove ==
    /\ pc = "rest" /\ life \in {"handed", "live"}
    /\ ses' = [ses EXCEPT !.forceExit = TRUE]
    /\ CloseSocket("delete")
    /\ UNCHANGED <<clientVars, netVars, worldSession, sessionLock, life, updateVars, _recvQueue>>

\* By a command or by a handler
KickPlayer ==
    /\ pc \in {"rest", "update"} /\ life = "live" /\ ~ses.forceExit
    /\ ses' = [ses EXCEPT !.forceExit = TRUE]
    /\ CloseSocket(pc)
    /\ UNCHANGED <<clientVars, netVars, worldSession, sessionLock, life, updateVars, _recvQueue>>

\* Update by the world thread, which closes the socket first if the connection is idle
WorldUpdate ==
    /\ pc = "rest" /\ life = "live"
    /\ filter' = "world" /\ mapUpdates' = 0 /\ processedPackets' = 0
    /\ \/ CloseSocket("update")
       \/ pc' = "update" /\ UNCHANGED <<closed, next>>
    /\ UNCHANGED <<clientVars, netVars, worldSession, sessionLock, life, requeuePackets, _recvQueue, ses>>

\* Update by the thread that updates the player's map
MapUpdate ==
    /\ pc = "maps" /\ ses.inWorld /\ mapUpdates < MaxMapUpdates
    /\ filter' = "map" /\ mapUpdates' = mapUpdates + 1 /\ processedPackets' = 0
    /\ pc' = "update"
    /\ UNCHANGED <<clientVars, netVars, socketVars, life, next, requeuePackets, _recvQueue, ses>>

EndTick ==
    /\ pc = "maps" /\ (mapUpdates > 0 \/ ~ses.inWorld)
    /\ pc' = "rest"
    /\ UNCHANGED <<clientVars, netVars, socketVars, life, next, updateVars, _recvQueue, ses>>

MayProcess(q) == q # <<>> /\ Process(Head(q), ses)

LoopEnds(k) == k > MaxProcessed

\* One round of the loop
HandlePacket ==
    /\ pc = "update" /\ MayProcess(_recvQueue)
    /\ processedPackets' = processedPackets + 1
    /\ pc' = IF LoopEnds(processedPackets') THEN "finish" ELSE "update"
    /\ _recvQueue' = Tail(_recvQueue)
    /\ LET p == Head(_recvQueue) IN
       \/ /\ Accepts(p, ses)
          /\ \E r \in Handle(p, ses) : Tell(r)
          /\ UNCHANGED requeuePackets
       \/ /\ ~Accepts(p, ses)
          /\ requeuePackets' = IF Requeued(p, ses) THEN Append(requeuePackets, p) ELSE requeuePackets
          /\ UNCHANGED <<ses, notes>>
    /\ UNCHANGED <<client, netVars, socketVars, life, next, filter, mapUpdates>>

NoMorePackets ==
    /\ pc = "update" /\ ~MayProcess(_recvQueue)
    /\ pc' = "finish"
    /\ UNCHANGED <<clientVars, netVars, socketVars, life, next, updateVars, _recvQueue, ses>>

\* A spell, a trigger or a delayed teleport moves the player to another map
Teleport ==
    /\ pc \in {"update", "maps", "end"} /\ ses.inWorld
    /\ \E r \in TeleportFar(ses) : Tell(r)
    /\ UNCHANGED <<client, netVars, socketVars, life, pc, next, updateVars, _recvQueue>>

Mutant_Readd(q, again) == q \o again          \* "to the bottom of the queue"
Readd(q, again) == again \o q

\* After the loop: readd, and ProcessQueryCallbacks with the answer for a login
FinishUpdate ==
    /\ pc = "finish"
    /\ _recvQueue' = Readd(_recvQueue, requeuePackets) /\ requeuePackets' = <<>>
    /\ \/ /\ ~ses.ready
          /\ pc' = "end" /\ UNCHANGED <<ses, closed, next>>
       \/ /\ ses.ready
          /\ ses' = [ses EXCEPT !.ready = FALSE, !.loading = 0, !.player = ses.loading, !.inWorld = TRUE, !.map = 0]
          /\ pc' = "end" /\ UNCHANGED <<closed, next>>
       \/ /\ ses.ready
          /\ ses' = [ses EXCEPT !.ready = FALSE, !.loading = 0, !.forceExit = TRUE]
          /\ CloseSocket("end")
    /\ UNCHANGED <<clientVars, netVars, worldSession, sessionLock, life, filter, mapUpdates, processedPackets>>

\* The end of Update by the world thread: log out, count down, give up the socket
Mutant_Expired(r) == r
Expired(r) == [r EXCEPT !.expireTime = IF @ > 1 THEN @ - 1 ELSE 0]

Leaves(r) == r.expireTime < 1 \/ r.forceExit \/ NoPlayer(r)

EndUpdate ==
    /\ pc = "end"
    /\ \E r \in IF filter = "world" /\ ses.logoutTime /\ ses.loading = 0 THEN {ses, LogoutPlayer(ses)} ELSE {ses} :
         LET e == IF filter = "world" /\ closed THEN Expired(r) ELSE r
         IN  /\ Tell(e)
             /\ pc' = IF filter = "world" /\ closed /\ Leaves(e) THEN "delete" ELSE "maps"
    /\ UNCHANGED <<client, netVars, socketVars, life, next, updateVars, _recvQueue>>

\* ~WorldSession; the socket was closed before
DeleteSession ==
    /\ pc = "delete"
    /\ life' = "deleted" /\ pc' = "over"
    /\ ses' = [LogoutPlayer(ses) EXCEPT !.tell = "none"]
    /\ _recvQueue' = <<>>
    /\ UNCHANGED <<clientVars, netVars, socketVars, next, updateVars>>

DbAnswersLogin ==
    /\ ses.loading # 0 /\ ~ses.ready /\ life = "live"
    /\ ses' = [ses EXCEPT !.ready = TRUE]
    /\ UNCHANGED <<clientVars, netVars, socketVars, life, pc, next, updateVars, _recvQueue>>

-----------------------------------------------------------------------------
Init ==
    /\ client = [state |-> "list", char |-> 0, map |-> 0, sent |-> 0]
    /\ notes = <<>>
    /\ net = "auth" /\ incoming = NoPacket
    /\ closed = FALSE /\ worldSession = FALSE /\ sessionLock = NoOwner
    /\ life = "none" /\ pc = "rest" /\ next = "rest"
    /\ filter = "world" /\ mapUpdates = 0 /\ processedPackets = 0
    /\ _recvQueue = <<>> /\ requeuePackets = <<>>
    /\ ses = [player |-> 0, inWorld |-> FALSE, map |-> 0, loading |-> 0, ready |-> FALSE,
              recentlyLogout |-> FALSE, logoutTime |-> FALSE, forceExit |-> FALSE,
              expireTime |-> ExpireTicks, tell |-> "none"]

Client == Login \/ ClientReads \/ \E kind \in {"safe", "inplace", "unsafe", "cancel"} : Play(kind)

NetworkThread ==
    CreateSession \/ StartReading \/ LockSession \/ QueuePacket \/ NetOnClose

Server ==
    \/ OnClose \/ AddSession_ \/ WorldUpdate \/ MapUpdate \/ EndTick \/ HandlePacket
    \/ NoMorePackets \/ FinishUpdate \/ EndUpdate \/ DeleteSession

Next == Client \/ NetworkThread \/ ReadFails \/ Server \/ Remove \/ KickPlayer \/ Teleport \/ DbAnswersLogin

Spec == Init /\ [][Next]_vars

\* Both threads run and the database answers; the client may fall silent for ever
FairSpec == Spec /\ WF_vars(NetworkThread) /\ WF_vars(Server) /\ WF_vars(DbAnswersLogin)

-----------------------------------------------------------------------------
(* Properties *)

\* The next round calls the handler of p
Handles(p) == pc = "update" /\ MayProcess(_recvQueue) /\ p = Head(_recvQueue) /\ Accepts(p, ses)

\* Packets of one status are handled once each and in the order in which they were sent,
\* through all requeuing and whichever thread takes them: none is overtaken in the queue,
\* and none while it is set aside for the next update (WorldSession.cpp:345).
HandledInOrder ==
    LET q == requeuePackets \o _recvQueue
    IN  /\ \A i, j \in DOMAIN q : i < j /\ Status(q[i]) = Status(q[j]) => q[i].n < q[j].n
        /\ \A i \in DOMAIN requeuePackets, p \in {_recvQueue[k] : k \in DOMAIN _recvQueue} :
              Handles(p) => Status(requeuePackets[i]) # Status(p)

\* Whom and where the client meant the packet for
Meant(p, r) ==
    CASE Status(p) = "loggedin" -> r.player = p.char /\ r.map = p.map
      [] p.kind = "ack"         -> r.player = p.char /\ r.map = p.map
      [] p.kind = "cancel"      -> r.player \in {0, p.char}
      [] OTHER                  -> TRUE

\* What a client sends for one character, and in one map, is never handled for another
\* character or in another map, however late it arrives: it is dropped after a logout
\* and during a transfer, and kept only while a login is pending (WorldSession.cpp:342).
HandledAsMeant ==
    \A p \in {_recvQueue[i] : i \in DOMAIN _recvQueue} : Handles(p) => Meant(p, ses)

\* The network thread uses the session only while it exists, and never locks out itself
\* or the others for ever: a thread that deletes the session has closed its socket,
\* and OnClose waits for the lock (WorldSocket.cpp:160, WorldSession.cpp:153).
SessionOutlivesUse == (net = "locked" => life \in {"handed", "live"}) /\ net # "stuck"

Queued == {_recvQueue[i].n : i \in DOMAIN _recvQueue} \cup {requeuePackets[i].n : i \in DOMAIN requeuePackets}

\* "Any leftover will be processed in next update": whatever the client has sent is
\* handled or dropped in the end, although more packets than one update takes may be
\* requeued in front of it.
EveryPacketLeaves == Queued # {} ~> Queued = {}

\* A session whose socket has closed is deleted in the end.
ClosedIsDeleted == closed ~> life = "deleted"
=============================================================================
