------------------------ MODULE SessionPackets_proofs ------------------------
(***************************************************************************)
(* The lifetime of a session and the conversation of its client with it,   *)
(* for any number of packets, characters and transfers between maps.       *)
(***************************************************************************)
EXTENDS SessionPackets, SequenceTheorems, TLAPS

(* The variables of the connection's life.                                 *)
ControlType ==
    /\ net \in {"auth", "created", "reading", "locking", "locked", "closing", "done", "stuck"}
    /\ closed \in BOOLEAN /\ worldSession \in BOOLEAN /\ sessionLock \in {NoOwner, "net"}
    /\ life \in {"none", "handed", "live", "deleted"}
    /\ pc \in {"rest", "update", "finish", "end", "maps", "onclose", "delete", "over"}
    /\ next \in {"rest", "update", "end", "delete"}

(* The session pointer of the socket follows the life of the session: it   *)
(* is set from the handshake until somebody closes the socket, and whoever *)
(* has closed it is on the way to reset the pointer.                       *)
PointerInv ==
    /\ net = "auth" <=> life = "none"
    /\ net = "auth" => closed = FALSE /\ worldSession = FALSE /\ pc = "rest"
    /\ worldSession = FALSE /\ net # "auth" => closed = TRUE
    /\ closed = TRUE /\ worldSession = TRUE => net = "closing" \/ pc = "onclose"
    /\ net = "closing" \/ pc = "onclose" => closed = TRUE

(* Whoever deletes the session has closed its socket before.               *)
DeletionInv ==
    /\ pc \in {"delete", "over"} => closed = TRUE
    /\ life = "deleted" <=> pc = "over"

(* The lock is held from the check of the pointer to the queuing.          *)
LockInv ==
    /\ sessionLock = "net" <=> net = "locked"
    /\ net = "locked" => worldSession = TRUE
    /\ net # "stuck"

IndInv == ControlType /\ PointerInv /\ DeletionInv /\ LockInv

USE PacketsAssumption DEF netVars, socketVars

-----------------------------------------------------------------------------
(* Each step preserves the invariant.                                      *)
LEMMA LoginStep ==
    ASSUME IndInv, Login
    PROVE  IndInv'
<1>1. ControlType'
  BY DEF IndInv, ControlType, Login, ClientSends
<1>2. PointerInv'
  BY DEF IndInv, ControlType, PointerInv, DeletionInv, LockInv, Login, ClientSends
<1>3. DeletionInv'
  BY DEF IndInv, ControlType, PointerInv, DeletionInv, Login, ClientSends
<1>4. LockInv'
  BY DEF IndInv, ControlType, PointerInv, LockInv, Login, ClientSends
<1> QED
  BY <1>1, <1>2, <1>3, <1>4 DEF IndInv

LEMMA ClientReadsStep ==
    ASSUME IndInv, ClientReads
    PROVE  IndInv'
<1>1. ControlType'
  BY DEF IndInv, ControlType, ClientReads, ClientSends
<1>2. PointerInv'
  BY DEF IndInv, ControlType, PointerInv, DeletionInv, LockInv, ClientReads, ClientSends
<1>3. DeletionInv'
  BY DEF IndInv, ControlType, PointerInv, DeletionInv, ClientReads, ClientSends
<1>4. LockInv'
  BY DEF IndInv, ControlType, PointerInv, LockInv, ClientReads, ClientSends
<1> QED
  BY <1>1, <1>2, <1>3, <1>4 DEF IndInv

LEMMA PlayStep ==
    ASSUME IndInv, NEW kind \in {"safe", "inplace", "unsafe", "cancel"}, Play(kind)
    PROVE  IndInv'
<1>1. ControlType'
  BY DEF IndInv, ControlType, Play, ClientSends
<1>2. PointerInv'
  BY DEF IndInv, ControlType, PointerInv, DeletionInv, LockInv, Play, ClientSends
<1>3. DeletionInv'
  BY DEF IndInv, ControlType, PointerInv, DeletionInv, Play, ClientSends
<1>4. LockInv'
  BY DEF IndInv, ControlType, PointerInv, LockInv, Play, ClientSends
<1> QED
  BY <1>1, <1>2, <1>3, <1>4 DEF IndInv

LEMMA CreateSessionStep ==
    ASSUME IndInv, CreateSession
    PROVE  IndInv'
<1>1. ControlType'
  BY DEF IndInv, ControlType, CreateSession
<1>2. PointerInv'
  BY DEF IndInv, ControlType, PointerInv, DeletionInv, LockInv, CreateSession
<1>3. DeletionInv'
  BY DEF IndInv, ControlType, PointerInv, DeletionInv, CreateSession
<1>4. LockInv'
  BY DEF IndInv, ControlType, PointerInv, LockInv, CreateSession
<1> QED
  BY <1>1, <1>2, <1>3, <1>4 DEF IndInv

LEMMA StartReadingStep ==
    ASSUME IndInv, StartReading
    PROVE  IndInv'
<1>1. ControlType'
  BY DEF IndInv, ControlType, StartReading
<1>2. PointerInv'
  BY DEF IndInv, ControlType, PointerInv, DeletionInv, LockInv, StartReading
<1>3. DeletionInv'
  BY DEF IndInv, ControlType, PointerInv, DeletionInv, StartReading
<1>4. LockInv'
  BY DEF IndInv, ControlType, PointerInv, LockInv, StartReading
<1> QED
  BY <1>1, <1>2, <1>3, <1>4 DEF IndInv

LEMMA LockSessionStep ==
    ASSUME IndInv, LockSession
    PROVE  IndInv'
<1>1. ControlType'
  BY DEF IndInv, ControlType, LockSession
<1>2. PointerInv'
  BY DEF IndInv, ControlType, PointerInv, DeletionInv, LockInv, LockSession
<1>3. DeletionInv'
  BY DEF IndInv, ControlType, PointerInv, DeletionInv, LockSession
<1>4. LockInv'
  BY DEF IndInv, ControlType, PointerInv, LockInv, LockSession
<1> QED
  BY <1>1, <1>2, <1>3, <1>4 DEF IndInv

LEMMA QueuePacketStep ==
    ASSUME IndInv, QueuePacket
    PROVE  IndInv'
<1>1. ControlType'
  BY DEF IndInv, ControlType, QueuePacket
<1>2. PointerInv'
  BY DEF IndInv, ControlType, PointerInv, DeletionInv, LockInv, QueuePacket
<1>3. DeletionInv'
  BY DEF IndInv, ControlType, PointerInv, DeletionInv, QueuePacket
<1>4. LockInv'
  BY DEF IndInv, ControlType, PointerInv, LockInv, QueuePacket
<1> QED
  BY <1>1, <1>2, <1>3, <1>4 DEF IndInv

LEMMA NetOnCloseStep ==
    ASSUME IndInv, NetOnClose
    PROVE  IndInv'
<1>1. ControlType'
  BY DEF IndInv, ControlType, NetOnClose
<1>2. PointerInv'
  BY DEF IndInv, ControlType, PointerInv, DeletionInv, LockInv, NetOnClose
<1>3. DeletionInv'
  BY DEF IndInv, ControlType, PointerInv, DeletionInv, NetOnClose
<1>4. LockInv'
  BY DEF IndInv, ControlType, PointerInv, LockInv, NetOnClose
<1> QED
  BY <1>1, <1>2, <1>3, <1>4 DEF IndInv

LEMMA ReadFailsStep ==
    ASSUME IndInv, ReadFails
    PROVE  IndInv'
<1>1. ControlType'
  BY DEF IndInv, ControlType, ReadFails
<1>2. PointerInv'
  BY DEF IndInv, ControlType, PointerInv, DeletionInv, LockInv, ReadFails
<1>3. DeletionInv'
  BY DEF IndInv, ControlType, PointerInv, DeletionInv, ReadFails
<1>4. LockInv'
  BY DEF IndInv, ControlType, PointerInv, LockInv, ReadFails
<1> QED
  BY <1>1, <1>2, <1>3, <1>4 DEF IndInv

LEMMA OnCloseStep ==
    ASSUME IndInv, OnClose
    PROVE  IndInv'
<1>1. ControlType'
  BY DEF IndInv, ControlType, OnClose, Lockable
<1>2. PointerInv'
  BY DEF IndInv, ControlType, PointerInv, DeletionInv, LockInv, OnClose, Lockable
<1>3. DeletionInv'
  BY DEF IndInv, ControlType, PointerInv, DeletionInv, OnClose, Lockable
<1>4. LockInv'
  BY DEF IndInv, ControlType, PointerInv, LockInv, OnClose, Lockable
<1> QED
  BY <1>1, <1>2, <1>3, <1>4 DEF IndInv

LEMMA AddSessionStep ==
    ASSUME IndInv, AddSession_
    PROVE  IndInv'
<1>1. ControlType'
  BY DEF IndInv, ControlType, AddSession_
<1>2. PointerInv'
  BY DEF IndInv, ControlType, PointerInv, DeletionInv, LockInv, AddSession_
<1>3. DeletionInv'
  BY DEF IndInv, ControlType, PointerInv, DeletionInv, AddSession_
<1>4. LockInv'
  BY DEF IndInv, ControlType, PointerInv, LockInv, AddSession_
<1> QED
  BY <1>1, <1>2, <1>3, <1>4 DEF IndInv

LEMMA RemoveStep ==
    ASSUME IndInv, Remove
    PROVE  IndInv'
<1>1. ControlType'
  BY DEF IndInv, ControlType, Remove, CloseSocket
<1>2. PointerInv'
  BY DEF IndInv, ControlType, PointerInv, DeletionInv, LockInv, Remove, CloseSocket
<1>3. DeletionInv'
  BY DEF IndInv, ControlType, PointerInv, DeletionInv, Remove, CloseSocket
<1>4. LockInv'
  BY DEF IndInv, ControlType, PointerInv, LockInv, Remove, CloseSocket
<1> QED
  BY <1>1, <1>2, <1>3, <1>4 DEF IndInv

LEMMA KickPlayerStep ==
    ASSUME IndInv, KickPlayer
    PROVE  IndInv'
<1>1. ControlType'
  BY DEF IndInv, ControlType, KickPlayer, CloseSocket
<1>2. PointerInv'
  BY DEF IndInv, ControlType, PointerInv, DeletionInv, LockInv, KickPlayer, CloseSocket
<1>3. DeletionInv'
  BY DEF IndInv, ControlType, PointerInv, DeletionInv, KickPlayer, CloseSocket
<1>4. LockInv'
  BY DEF IndInv, ControlType, PointerInv, LockInv, KickPlayer, CloseSocket
<1> QED
  BY <1>1, <1>2, <1>3, <1>4 DEF IndInv

LEMMA WorldUpdateStep ==
    ASSUME IndInv, WorldUpdate
    PROVE  IndInv'
<1>1. ControlType'
  BY DEF IndInv, ControlType, WorldUpdate, CloseSocket
<1>2. PointerInv'
  BY DEF IndInv, ControlType, PointerInv, DeletionInv, LockInv, WorldUpdate, CloseSocket
<1>3. DeletionInv'
  BY DEF IndInv, ControlType, PointerInv, DeletionInv, WorldUpdate, CloseSocket
<1>4. LockInv'
  BY DEF IndInv, ControlType, PointerInv, LockInv, WorldUpdate, CloseSocket
<1> QED
  BY <1>1, <1>2, <1>3, <1>4 DEF IndInv

LEMMA MapUpdateStep ==
    ASSUME IndInv, MapUpdate
    PROVE  IndInv'
<1>1. ControlType'
  BY DEF IndInv, ControlType, MapUpdate
<1>2. PointerInv'
  BY DEF IndInv, ControlType, PointerInv, DeletionInv, LockInv, MapUpdate
<1>3. DeletionInv'
  BY DEF IndInv, ControlType, PointerInv, DeletionInv, MapUpdate
<1>4. LockInv'
  BY DEF IndInv, ControlType, PointerInv, LockInv, MapUpdate
<1> QED
  BY <1>1, <1>2, <1>3, <1>4 DEF IndInv

LEMMA EndTickStep ==
    ASSUME IndInv, EndTick
    PROVE  IndInv'
<1>1. ControlType'
  BY DEF IndInv, ControlType, EndTick
<1>2. PointerInv'
  BY DEF IndInv, ControlType, PointerInv, DeletionInv, LockInv, EndTick
<1>3. DeletionInv'
  BY DEF IndInv, ControlType, PointerInv, DeletionInv, EndTick
<1>4. LockInv'
  BY DEF IndInv, ControlType, PointerInv, LockInv, EndTick
<1> QED
  BY <1>1, <1>2, <1>3, <1>4 DEF IndInv

LEMMA HandlePacketStep ==
    ASSUME IndInv, HandlePacket
    PROVE  IndInv'
<1>1. ControlType'
  BY DEF IndInv, ControlType, HandlePacket, LoopEnds
<1>2. PointerInv'
  BY DEF IndInv, ControlType, PointerInv, DeletionInv, LockInv, HandlePacket, LoopEnds
<1>3. DeletionInv'
  BY DEF IndInv, ControlType, PointerInv, DeletionInv, HandlePacket, LoopEnds
<1>4. LockInv'
  BY DEF IndInv, ControlType, PointerInv, LockInv, HandlePacket, LoopEnds
<1> QED
  BY <1>1, <1>2, <1>3, <1>4 DEF IndInv

LEMMA NoMorePacketsStep ==
    ASSUME IndInv, NoMorePackets
    PROVE  IndInv'
<1>1. ControlType'
  BY DEF IndInv, ControlType, NoMorePackets
<1>2. PointerInv'
  BY DEF IndInv, ControlType, PointerInv, DeletionInv, LockInv, NoMorePackets
<1>3. DeletionInv'
  BY DEF IndInv, ControlType, PointerInv, DeletionInv, NoMorePackets
<1>4. LockInv'
  BY DEF IndInv, ControlType, PointerInv, LockInv, NoMorePackets
<1> QED
  BY <1>1, <1>2, <1>3, <1>4 DEF IndInv

LEMMA TeleportStep ==
    ASSUME IndInv, Teleport
    PROVE  IndInv'
<1>1. ControlType'
  BY DEF IndInv, ControlType, Teleport
<1>2. PointerInv'
  BY DEF IndInv, ControlType, PointerInv, DeletionInv, LockInv, Teleport
<1>3. DeletionInv'
  BY DEF IndInv, ControlType, PointerInv, DeletionInv, Teleport
<1>4. LockInv'
  BY DEF IndInv, ControlType, PointerInv, LockInv, Teleport
<1> QED
  BY <1>1, <1>2, <1>3, <1>4 DEF IndInv

LEMMA FinishUpdateStep ==
    ASSUME IndInv, FinishUpdate
    PROVE  IndInv'
<1>1. ControlType'
  BY DEF IndInv, ControlType, FinishUpdate, CloseSocket
<1>2. PointerInv'
  BY DEF IndInv, ControlType, PointerInv, DeletionInv, LockInv, FinishUpdate, CloseSocket
<1>3. DeletionInv'
  BY DEF IndInv, ControlType, PointerInv, DeletionInv, FinishUpdate, CloseSocket
<1>4. LockInv'
  BY DEF IndInv, ControlType, PointerInv, LockInv, FinishUpdate, CloseSocket
<1> QED
  BY <1>1, <1>2, <1>3, <1>4 DEF IndInv

LEMMA EndUpdateStep ==
    ASSUME IndInv, EndUpdate
    PROVE  IndInv'
<1>1. ControlType'
  BY DEF IndInv, ControlType, EndUpdate
<1>2. PointerInv'
  BY DEF IndInv, ControlType, PointerInv, DeletionInv, LockInv, EndUpdate
<1>3. DeletionInv'
  BY DEF IndInv, ControlType, PointerInv, DeletionInv, EndUpdate
<1>4. LockInv'
  BY DEF IndInv, ControlType, PointerInv, LockInv, EndUpdate
<1> QED
  BY <1>1, <1>2, <1>3, <1>4 DEF IndInv

LEMMA DeleteSessionStep ==
    ASSUME IndInv, DeleteSession
    PROVE  IndInv'
<1>1. ControlType'
  BY DEF IndInv, ControlType, DeleteSession
<1>2. PointerInv'
  BY DEF IndInv, ControlType, PointerInv, DeletionInv, LockInv, DeleteSession
<1>3. DeletionInv'
  BY DEF IndInv, ControlType, PointerInv, DeletionInv, DeleteSession
<1>4. LockInv'
  BY DEF IndInv, ControlType, PointerInv, LockInv, DeleteSession
<1> QED
  BY <1>1, <1>2, <1>3, <1>4 DEF IndInv

LEMMA DbAnswersLoginStep ==
    ASSUME IndInv, DbAnswersLogin
    PROVE  IndInv'
<1>1. ControlType'
  BY DEF IndInv, ControlType, DbAnswersLogin
<1>2. PointerInv'
  BY DEF IndInv, ControlType, PointerInv, DeletionInv, LockInv, DbAnswersLogin
<1>3. DeletionInv'
  BY DEF IndInv, ControlType, PointerInv, DeletionInv, DbAnswersLogin
<1>4. LockInv'
  BY DEF IndInv, ControlType, PointerInv, LockInv, DbAnswersLogin
<1> QED
  BY <1>1, <1>2, <1>3, <1>4 DEF IndInv

-----------------------------------------------------------------------------
(* The invariant holds initially and is preserved by every step.           *)
LEMMA Invariance == Spec => []IndInv
<1>1. Init => IndInv
  <2> SUFFICES ASSUME Init PROVE IndInv
    OBVIOUS
  <2> QED
    BY DEF Init, IndInv, ControlType, PointerInv, DeletionInv, LockInv
<1>2. IndInv /\ [Next]_vars => IndInv'
  <2> SUFFICES ASSUME IndInv, [Next]_vars PROVE IndInv'
    OBVIOUS
  <2>1. CASE UNCHANGED vars
    BY <2>1 DEF vars, IndInv, ControlType, PointerInv, DeletionInv, LockInv
  <2>2. CASE Client
    BY <2>2, LoginStep, ClientReadsStep, PlayStep DEF Client
  <2>3. CASE NetworkThread
    BY <2>3, CreateSessionStep, StartReadingStep, LockSessionStep, QueuePacketStep,
       NetOnCloseStep DEF NetworkThread
  <2>4. CASE Server
    BY <2>4, OnCloseStep, AddSessionStep, WorldUpdateStep, MapUpdateStep, EndTickStep,
       HandlePacketStep, NoMorePacketsStep, FinishUpdateStep, EndUpdateStep,
       DeleteSessionStep DEF Server
  <2> QED
    BY <2>1, <2>2, <2>3, <2>4, ReadFailsStep, RemoveStep, KickPlayerStep, TeleportStep,
       DbAnswersLoginStep DEF Next
<1> QED
  BY <1>1, <1>2, PTL DEF Spec

(* The network thread never uses a session that was deleted, and never     *)
(* comes to call CloseSocket with the lock that OnClose takes              *)
(* (WorldSocket.cpp:160, WorldSession.cpp:153).                            *)
THEOREM SessionIsThere == Spec => []SessionOutlivesUse
<1>1. IndInv => SessionOutlivesUse
  BY DEF IndInv, ControlType, PointerInv, DeletionInv, LockInv, SessionOutlivesUse
<1> QED
  BY <1>1, Invariance, PTL

-----------------------------------------------------------------------------
(* What the client and the session say to each other.  The packets that    *)
(* are on their way to a handler are those set aside, those queued and the *)
(* one the network thread holds, in the order in which they were sent.     *)

Packets  == [kind : Kinds, char : Nat, map : Nat, n : Nat]
Notes    == {"complete", "newworld"}
Clients  == [state : {"list", "play"}, char : Nat, map : Nat, sent : Nat]
Sessions == [player : Nat, inWorld : BOOLEAN, map : Nat, loading : Nat, ready : BOOLEAN,
             recentlyLogout : BOOLEAN, logoutTime : BOOLEAN, forceExit : BOOLEAN,
             expireTime : Nat, tell : Notes \cup {"none"}]

Elements(q) == {q[i] : i \in DOMAIN q}
Waiting     == IF net \in {"locking", "locked"} THEN {incoming} ELSE {}
Pending     == Elements(requeuePackets) \cup Elements(_recvQueue) \cup Waiting

DataType ==
    /\ client \in Clients /\ notes \in Seq(Notes) /\ ses \in Sessions
    /\ requeuePackets \in Seq(Packets) /\ _recvQueue \in Seq(Packets) /\ Waiting \subseteq Packets

Rising(q)  == \A i, j \in DOMAIN q : i < j => q[i].n < q[j].n
Before(P, Q) == \A p \in P, q \in Q : p.n < q.n

(* The packets rise through the three places, and only packets that need a *)
(* player in the world are ever set aside.                                 *)
OrderInv ==
    /\ Rising(requeuePackets) /\ Rising(_recvQueue)
    /\ Before(Elements(requeuePackets), Elements(_recvQueue))
    /\ Before(Elements(requeuePackets), Waiting) /\ Before(Elements(_recvQueue), Waiting)
    /\ \A p \in Pending : p.n <= client.sent
    /\ \A p \in Elements(requeuePackets) : Status(p) = "loggedin"

(* Which members of the session may be set together.                       *)
Sound(s) ==
    /\ s.tell = "none"
    /\ s.ready => s.loading # 0
    /\ s.logoutTime \/ s.inWorld => s.player # 0
    /\ s.player # 0 => s.loading = 0
    /\ s.player # 0 \/ s.loading # 0 => ~s.recentlyLogout

(* A packet that was sent for the character that is about to enter.        *)
Fresh(p, c) == p.kind \notin {"enum", "ack"} /\ p.char = c.char /\ p.map = 0

(* The player is loaded: everything on its way is for this character, and  *)
(* while it is in a map for this map.  During a transfer either the client *)
(* has yet to read of it, or what follows its acknowledgement is for the   *)
(* new map.                                                                *)
Playing(P, c, m, s) ==
    /\ c.state = "play" /\ c.char = s.player
    /\ \A p \in P : p.kind \notin {"enum", "login"} /\ p.char = s.player
    /\ s.inWorld => m = <<>> /\ c.map = s.map /\ \A p \in P : p.kind # "ack" /\ p.map = s.map
    /\ \/ s.inWorld
       \/ m = <<"newworld">> /\ c.map + 1 = s.map /\ \A p \in P : p.kind # "ack"
       \/ /\ m = <<>> /\ c.map = s.map
          /\ \A a \in P : a.kind = "ack" => a.map = s.map
          /\ \A a, p \in P : a.kind = "ack" /\ a.n < p.n => p.kind # "ack" /\ p.map = s.map

(* The database is asked for the player.                                   *)
Entering(P, c, m, s) ==
    /\ c.state = "play" /\ c.char = s.loading /\ c.map = 0 /\ m = <<>>
    /\ \A p \in P : Fresh(p, c) /\ p.kind # "login"

LoginOnce(P) == \A p, q \in P : p.kind = "login" /\ q.kind = "login" => p = q

(* The player has left: the client has yet to read it, or has answered it  *)
(* with an enum packet, and only after this one comes another login.       *)
Left(P, c, m, n) ==
    \/ /\ m \in {<<"complete">>, <<"newworld", "complete">>} /\ c.state = "play"
       /\ \A p \in P : p.kind \notin {"enum", "login"}
    \/ /\ m = <<>> /\ (c.state = "play" => c.map = 0) /\ LoginOnce(P)
       /\ n = "done" \/ \E e \in P : e.kind = "enum"
       /\ \A p \in P : p.kind = "login" => c.state = "play" /\ \E e \in P : e.kind = "enum" /\ e.n < p.n
       /\ \A e, p \in P : e.kind = "enum" /\ e.n < p.n => Fresh(p, c) /\ c.state = "play"

(* No player, and none is coming unless a login is on its way.             *)
Idle(P, c, m) ==
    /\ m = <<>> /\ LoginOnce(P)
    /\ c.state = "list" => P = {}
    /\ c.state = "play" => c.map = 0
    /\ \A p \in P : Fresh(p, c)

Talk(P, c, m, s, n) ==
    /\ c.state = "play" => c.char # 0
    /\ s.player # 0 => Playing(P, c, m, s)
    /\ s.loading # 0 => Entering(P, c, m, s)
    /\ s.recentlyLogout => Left(P, c, m, n)
    /\ s.player = 0 /\ s.loading = 0 /\ ~s.recentlyLogout => Idle(P, c, m)

(* The session that is deleted leaves packets and messages unanswered.     *)
TalkInv ==
    \/ pc = "over"
    \/ /\ Sound(ses)
       /\ requeuePackets # <<>> => ses.player = 0 /\ ~ses.recentlyLogout
       /\ Talk(Pending, client, notes, ses, net)

ConversationInv == DataType /\ OrderInv /\ TalkInv

-----------------------------------------------------------------------------
(* What the ends of a queue mean for its contents and their order.         *)
LEMMA EmptyQueue == Elements(<<>>) = {} /\ Rising(<<>>)
BY DEF Elements, Rising

LEMMA AppendQueue ==
    ASSUME NEW q \in Seq(Packets), NEW x \in Packets
    PROVE  /\ Append(q, x) \in Seq(Packets) /\ Elements(Append(q, x)) = Elements(q) \cup {x}
           /\ Rising(q) /\ Before(Elements(q), {x}) => Rising(Append(q, x))
<1>1. /\ Append(q, x) \in Seq(Packets) /\ DOMAIN Append(q, x) = 1 .. Len(q) + 1 /\ Len(q) \in Nat
      /\ DOMAIN q = 1 .. Len(q) /\ Append(q, x)[Len(q) + 1] = x
      /\ \A k \in 1 .. Len(q) : Append(q, x)[k] = q[k]
  OBVIOUS
<1>2. 1 .. Len(q) + 1 = (1 .. Len(q)) \cup {Len(q) + 1}
  BY <1>1
<1>3. Elements(Append(q, x)) = Elements(q) \cup {x}
  BY <1>1, <1>2 DEF Elements
<1>4. ASSUME Rising(q), Before(Elements(q), {x}) PROVE Rising(Append(q, x))
  <2> SUFFICES ASSUME NEW i \in 1 .. Len(q) + 1, NEW j \in 1 .. Len(q) + 1, i < j
               PROVE  Append(q, x)[i].n < Append(q, x)[j].n
    BY <1>1 DEF Rising
  <2>1. i \in 1 .. Len(q) /\ Append(q, x)[i] = q[i]
    BY <1>1
  <2>2. CASE j \in 1 .. Len(q)
    BY <1>1, <1>4, <2>1, <2>2 DEF Rising
  <2>3. CASE j = Len(q) + 1
    BY <1>1, <1>4, <2>1, <2>3 DEF Before, Elements
  <2> QED
    BY <1>2, <2>2, <2>3
<1> QED
  BY <1>1, <1>3, <1>4

LEMMA TailQueue ==
    ASSUME NEW q \in Seq(Packets), q # <<>>
    PROVE  /\ Head(q) \in Packets /\ Tail(q) \in Seq(Packets)
           /\ Elements(q) = {Head(q)} \cup Elements(Tail(q))
           /\ Rising(q) => Rising(Tail(q)) /\ Before({Head(q)}, Elements(Tail(q)))
<1>1. /\ Len(q) \in Nat \ {0} /\ Head(q) = q[1] /\ Head(q) \in Packets
      /\ Tail(q) \in Seq(Packets) /\ DOMAIN Tail(q) = 1 .. Len(q) - 1 /\ DOMAIN q = 1 .. Len(q)
      /\ \A k \in 1 .. Len(q) - 1 : Tail(q)[k] = q[k + 1]
  OBVIOUS
<1>2. \A x \in Elements(Tail(q)) : x \in Elements(q)
  BY <1>1 DEF Elements
<1>3. ASSUME NEW x \in Elements(q), x # Head(q) PROVE x \in Elements(Tail(q))
  <2>1. PICK k \in 1 .. Len(q) : q[k] = x
    BY <1>1 DEF Elements
  <2>2. k # 1 /\ k - 1 \in 1 .. Len(q) - 1 /\ k - 1 + 1 = k
    BY <1>1, <1>3, <2>1
  <2>3. Tail(q)[k - 1] = x
    BY <1>1, <2>1, <2>2
  <2> QED
    BY <1>1, <2>2, <2>3 DEF Elements
<1>4. Head(q) \in Elements(q)
  BY <1>1 DEF Elements
<1>5. ASSUME Rising(q) PROVE Rising(Tail(q)) /\ Before({Head(q)}, Elements(Tail(q)))
  BY <1>1, <1>5 DEF Rising, Before, Elements
<1> QED
  BY <1>1, <1>2, <1>3, <1>4, <1>5

LEMMA ConcatQueue ==
    ASSUME NEW q \in Seq(Packets), NEW r \in Seq(Packets)
    PROVE  /\ q \o r \in Seq(Packets) /\ Elements(q \o r) = Elements(q) \cup Elements(r)
           /\ Rising(q) /\ Rising(r) /\ Before(Elements(q), Elements(r)) => Rising(q \o r)
<1>1. /\ q \o r \in Seq(Packets) /\ DOMAIN (q \o r) = 1 .. Len(q) + Len(r)
      /\ DOMAIN q = 1 .. Len(q) /\ DOMAIN r = 1 .. Len(r) /\ Len(q) \in Nat /\ Len(r) \in Nat
      /\ \A k \in 1 .. Len(q) : (q \o r)[k] = q[k]
      /\ \A k \in 1 .. Len(q) + Len(r) : k > Len(q) => (q \o r)[k] = r[k - Len(q)]
  OBVIOUS
<1>2. \A x \in Elements(q \o r) : x \in Elements(q) \cup Elements(r)
  <2> SUFFICES ASSUME NEW k \in 1 .. Len(q) + Len(r)
               PROVE  (q \o r)[k] \in Elements(q) \cup Elements(r)
    BY <1>1 DEF Elements
  <2>1. CASE k \in 1 .. Len(q)
    BY <1>1, <2>1 DEF Elements
  <2>2. CASE k > Len(q)
    <3>1. k - Len(q) \in 1 .. Len(r)
      BY <1>1, <2>2
    <3> QED
      BY <1>1, <2>2, <3>1 DEF Elements
  <2> QED
    BY <1>1, <2>1, <2>2
<1>3. \A x \in Elements(q) : x \in Elements(q \o r)
  BY <1>1 DEF Elements
<1>4. ASSUME NEW k \in 1 .. Len(r) PROVE r[k] \in Elements(q \o r)
  <2>1. /\ Len(q) + k \in 1 .. Len(q) + Len(r) /\ Len(q) + k > Len(q)
        /\ Len(q) + k - Len(q) = k
    BY <1>1
  <2>2. (q \o r)[Len(q) + k] = r[k]
    BY <1>1, <2>1
  <2> QED
    BY <1>1, <2>1, <2>2 DEF Elements
<1>5. \A x \in Elements(r) : x \in Elements(q \o r)
  BY <1>1, <1>4 DEF Elements
<1>6. ASSUME Rising(q), Rising(r), Before(Elements(q), Elements(r)) PROVE Rising(q \o r)
  <2> SUFFICES ASSUME NEW i \in 1 .. Len(q) + Len(r), NEW j \in 1 .. Len(q) + Len(r), i < j
               PROVE  (q \o r)[i].n < (q \o r)[j].n
    BY <1>1 DEF Rising
  <2>1. CASE j \in 1 .. Len(q)
    <3>1. i \in 1 .. Len(q)
      BY <1>1, <2>1
    <3> QED
      BY <1>1, <1>6, <2>1, <3>1 DEF Rising
  <2>2. CASE i \in 1 .. Len(q) /\ j > Len(q)
    <3>1. j - Len(q) \in 1 .. Len(r)
      BY <1>1, <2>2
    <3>2. q[i] \in Elements(q) /\ r[j - Len(q)] \in Elements(r)
      BY <1>1, <2>2, <3>1 DEF Elements
    <3> QED
      BY <1>1, <1>6, <2>2, <3>2 DEF Before
  <2>3. CASE i > Len(q)
    <3>1. i - Len(q) \in 1 .. Len(r) /\ j - Len(q) \in 1 .. Len(r) /\ i - Len(q) < j - Len(q) /\ j > Len(q)
      BY <1>1, <2>3
    <3>2. r[i - Len(q)].n < r[j - Len(q)].n
      BY <1>1, <1>6, <3>1 DEF Rising
    <3> QED
      BY <1>1, <2>3, <3>1, <3>2
  <2> QED
    BY <1>1, <2>1, <2>2, <2>3
<1> QED
  BY <1>1, <1>2, <1>3, <1>5, <1>6

(* What an operator is given in a state of the invariant.                  *)
LEMMA PendingType ==
    ASSUME DataType
    PROVE  /\ Elements(requeuePackets) \subseteq Packets /\ Elements(_recvQueue) \subseteq Packets
           /\ Pending \subseteq Packets
<1>1. ASSUME NEW q \in Seq(Packets) PROVE Elements(q) \subseteq Packets
  BY DEF Elements
<1> QED
  BY <1>1 DEF DataType, Pending

-----------------------------------------------------------------------------
(* The client sends a packet: it joins the others behind all of them.      *)
LEMMA SendStep ==
    ASSUME DataType, OrderInv, NEW p \in Packets, ClientSends(p),
           p.n = client.sent + 1, client' \in Clients, client'.sent = client.sent + 1,
           UNCHANGED <<requeuePackets, _recvQueue>>
    PROVE  /\ Pending' = Pending \cup {p} /\ Before(Pending, {p}) /\ OrderInv'
           /\ Waiting' \subseteq Packets /\ net = "reading" /\ net' # "done" /\ Pending \subseteq Packets
<1>1. Waiting = {} /\ Waiting' = {p} /\ net = "reading" /\ net' # "done"
  BY DEF ClientSends, Waiting
<1>2. Pending' = Pending \cup {p}
  BY <1>1 DEF Pending
<1>3. /\ \A q \in Pending : q \in Packets /\ q.n <= client.sent /\ q.n < p.n
      /\ client.sent \in Nat
  BY PendingType DEF OrderInv, DataType, Clients, Packets
<1>4. \A q \in Pending' : q.n <= client'.sent
  BY <1>2, <1>3 DEF Packets
<1>5. Before(Elements(requeuePackets), {p}) /\ Before(Elements(_recvQueue), {p})
  BY <1>3 DEF Before, Pending
<1>6. OrderInv'
  BY <1>1, <1>4, <1>5 DEF OrderInv
<1> QED
  BY <1>1, <1>2, <1>3, <1>6 DEF Before

(* What the client's own steps change of it.                               *)
LEMMA ClientMoves ==
    ASSUME NEW c \in Clients
    PROVE  /\ c.state \in {"list", "play"} /\ c.char \in Nat /\ c.map \in Nat /\ c.sent \in Nat
           /\ LET d == [c EXCEPT !.sent = @ + 1]
              IN  /\ d \in Clients /\ d.sent = c.sent + 1
                  /\ d.state = c.state /\ d.char = c.char /\ d.map = c.map
           /\ LET d == [c EXCEPT !.state = "list", !.sent = @ + 1]
              IN  /\ d \in Clients /\ d.sent = c.sent + 1
                  /\ d.state = "list" /\ d.char = c.char /\ d.map = c.map
           /\ LET d == [c EXCEPT !.map = @ + 1, !.sent = @ + 1]
              IN  /\ d \in Clients /\ d.sent = c.sent + 1
                  /\ d.state = c.state /\ d.char = c.char /\ d.map = c.map + 1
<1> DEFINE b == [c EXCEPT !.state = "list"]
           m == [c EXCEPT !.map = @ + 1]
<1>1. c.state \in {"list", "play"} /\ c.char \in Nat /\ c.map \in Nat /\ c.sent \in Nat
  BY DEF Clients
<1>2. /\ b \in Clients /\ b.state = "list" /\ b.char = c.char /\ b.map = c.map /\ b.sent = c.sent
      /\ [c EXCEPT !.state = "list", !.sent = @ + 1] = [b EXCEPT !.sent = @ + 1]
  BY DEF Clients
<1>3. /\ m \in Clients /\ m.state = c.state /\ m.char = c.char /\ m.map = c.map + 1 /\ m.sent = c.sent
      /\ [c EXCEPT !.map = @ + 1, !.sent = @ + 1] = [m EXCEPT !.sent = @ + 1]
  BY DEF Clients
<1> HIDE DEF b, m
<1>4. ASSUME NEW e \in Clients
      PROVE  LET d == [e EXCEPT !.sent = @ + 1]
             IN  /\ d \in Clients /\ d.sent = e.sent + 1
                 /\ d.state = e.state /\ d.char = e.char /\ d.map = e.map
  BY DEF Clients
<1> QED
  BY <1>1, <1>2, <1>3, <1>4

LEMMA LoginTalk ==
    ASSUME ConversationInv, Login
    PROVE  ConversationInv'
<1> DEFINE p == Packet("login", client.char + 1, 0)
<1>1. /\ p \in Packets /\ p.kind = "login" /\ p.char = client.char + 1 /\ p.map = 0 /\ p.n = client.sent + 1
      /\ client' \in Clients /\ client'.sent = client.sent + 1 /\ client'.char = client.char + 1
      /\ client'.state = "play" /\ client'.map = 0 /\ client.state = "list" /\ ClientSends(p)
  BY DEF ConversationInv, DataType, Login, Packet, Packets, Kinds, Clients
<1> HIDE DEF p
<1>2. /\ UNCHANGED <<notes, requeuePackets, _recvQueue, ses, pc>>
  BY DEF Login, updateVars
<1>3. /\ Pending' = Pending \cup {p} /\ Before(Pending, {p}) /\ OrderInv'
      /\ Waiting' \subseteq Packets /\ net = "reading" /\ net' # "done" /\ Pending \subseteq Packets
  BY <1>1, <1>2, SendStep DEF ConversationInv
<1>4. DataType'
  BY <1>1, <1>2, <1>3 DEF ConversationInv, DataType
<1>5. ASSUME pc # "over", Talk(Pending, client, notes, ses, net)
      PROVE  Talk(Pending', client', notes', ses', net')
  <2>1. client'.state = "play" => client'.char # 0
    BY <1>1 DEF ConversationInv, DataType, Clients
  <2>2. ses.player = 0 /\ ses.loading = 0
    BY <1>1, <1>5 DEF Talk, Playing, Entering
  <2>3. CASE ses.recentlyLogout
    <3>1. Left(Pending, client, notes, net)
      BY <1>5, <2>3 DEF Talk
    <3>2. /\ notes = <<>> /\ \A q \in Pending : q.kind # "login"
          /\ \E e \in Pending : e.kind = "enum"
          /\ \A e, q \in Pending : ~(e.kind = "enum" /\ e.n < q.n)
      BY <1>1, <1>3, <3>1 DEF Left
    <3>3. Left(Pending', client', notes, net')
      BY <1>1, <1>3, <3>2 DEF Left, LoginOnce, Fresh, Before, Packets
    <3> QED
      BY <1>2, <2>1, <2>2, <2>3, <3>3 DEF Talk
  <2>4. CASE ~ses.recentlyLogout
    <3>1. notes = <<>> /\ Pending = {}
      BY <1>1, <1>5, <2>2, <2>4 DEF Talk, Idle
    <3>2. Idle(Pending', client', notes)
      BY <1>1, <1>3, <3>1 DEF Idle, LoginOnce, Fresh
    <3> QED
      BY <1>2, <2>1, <2>2, <2>4, <3>2 DEF Talk
  <2> QED
    BY <2>3, <2>4
<1>6. TalkInv'
  BY <1>2, <1>5 DEF ConversationInv, TalkInv
<1> QED
  BY <1>3, <1>4, <1>6 DEF ConversationInv

LEMMA PlayTalk ==
    ASSUME ConversationInv, NEW kind \in {"safe", "inplace", "unsafe", "cancel"}, Play(kind)
    PROVE  ConversationInv'
<1> DEFINE p == Packet(kind, client.char, client.map)
<1>1. /\ p \in Packets /\ p.kind \notin {"enum", "login", "ack"} /\ p.char = client.char
      /\ p.map = client.map /\ p.n = client.sent + 1
      /\ client' \in Clients /\ client'.sent = client.sent + 1 /\ client'.char = client.char
      /\ client'.state = client.state /\ client'.map = client.map /\ client.state = "play" /\ ClientSends(p)
  <2>1. /\ client \in Clients /\ client.char \in Nat /\ client.map \in Nat /\ client.sent \in Nat
        /\ client.state = "play" /\ ClientSends(p) /\ client' = [client EXCEPT !.sent = @ + 1]
    BY ClientMoves DEF ConversationInv, DataType, Play
  <2>2. /\ p \in Packets /\ p.kind = kind /\ p.char = client.char /\ p.map = client.map
        /\ p.n = client.sent + 1
    BY <2>1 DEF Packet, Packets, Kinds
  <2>3. /\ client' \in Clients /\ client'.sent = client.sent + 1 /\ client'.char = client.char
        /\ client'.state = client.state /\ client'.map = client.map
    BY <2>1, ClientMoves
  <2> QED
    BY <2>1, <2>2, <2>3
<1> HIDE DEF p
<1>2. /\ UNCHANGED <<notes, requeuePackets, _recvQueue, ses, pc>>
  BY DEF Play, updateVars
<1>3. /\ Pending' = Pending \cup {p} /\ Before(Pending, {p}) /\ OrderInv'
      /\ Waiting' \subseteq Packets /\ net = "reading" /\ net' # "done" /\ Pending \subseteq Packets
  BY <1>1, <1>2, SendStep DEF ConversationInv
<1>4. DataType'
  BY <1>1, <1>2, <1>3 DEF ConversationInv, DataType
<1>5. ASSUME Talk(Pending, client, notes, ses, net)
      PROVE  Talk(Pending', client', notes', ses', net')
  <2>1. client'.state = "play" => client'.char # 0
    BY <1>1, <1>5 DEF Talk
  <2>2. ASSUME ses.player # 0, Playing(Pending, client, notes, ses)
        PROVE  Playing(Pending', client', notes, ses)
    <3>1. \A q \in Pending : q.n < p.n /\ q.n \in Nat
      BY <1>3 DEF Before, Packets
    <3>2. p.n \in Nat
      BY <1>1 DEF Packets
    <3> QED
      BY <1>1, <1>3, <2>2, <3>1, <3>2 DEF Playing
  <2>3. ASSUME Entering(Pending, client, notes, ses)
        PROVE  Entering(Pending', client', notes, ses)
    BY <1>1, <1>3, <2>3 DEF Entering, Fresh
  <2>4. ASSUME Left(Pending, client, notes, net)
        PROVE  Left(Pending', client', notes, net')
    <3>1. \A q \in Pending : q.n < p.n /\ q.n \in Nat
      BY <1>3 DEF Before, Packets
    <3>2. p.n \in Nat
      BY <1>1 DEF Packets
    <3> QED
      BY <1>1, <1>3, <2>4, <3>1, <3>2 DEF Left, LoginOnce, Fresh
  <2>5. ASSUME Idle(Pending, client, notes)
        PROVE  Idle(Pending', client', notes)
    BY <1>1, <1>3, <2>5 DEF Idle, LoginOnce, Fresh
  <2> QED
    BY <1>2, <1>5, <2>1, <2>2, <2>3, <2>4, <2>5 DEF Talk
<1>6. TalkInv'
  BY <1>2, <1>5 DEF ConversationInv, TalkInv
<1> QED
  BY <1>3, <1>4, <1>6 DEF ConversationInv

(* Messages are read from the front and written at the back.              *)
LEMMA NotesRead ==
    /\ Head(<<"complete">>) = "complete" /\ Tail(<<"complete">>) = <<>>
    /\ Head(<<"newworld">>) = "newworld" /\ Tail(<<"newworld">>) = <<>>
    /\ Head(<<"newworld", "complete">>) = "newworld"
    /\ Tail(<<"newworld", "complete">>) = <<"complete">>
    /\ <<"complete">> # <<>> /\ <<"newworld">> # <<>> /\ <<"newworld", "complete">> # <<>>
    /\ <<"complete">> # <<"newworld">>
OBVIOUS

LEMMA NotesWritten ==
    /\ Append(<<>>, "complete") = <<"complete">> /\ Append(<<>>, "newworld") = <<"newworld">>
    /\ Append(<<"newworld">>, "complete") = <<"newworld", "complete">>
<1> DEFINE a == Append(<<"newworld">>, "complete")
           b == <<"newworld", "complete">>
<1>1. a \in Seq(Notes) /\ b \in Seq(Notes) /\ Len(a) = 2 /\ Len(b) = 2 /\ \A i \in 1 .. 2 : a[i] = b[i]
  BY DEF Notes
<1>2. a = b
  BY <1>1, SeqEqual
<1> QED
  BY <1>2

(* The client reads that its character has left and asks for the list.     *)
LEMMA ReadsComplete ==
    ASSUME ConversationInv, ClientReads, Head(notes) = "complete"
    PROVE  ConversationInv'
<1> DEFINE p == Packet("enum", client.char, 0)
<1>1. /\ p \in Packets /\ p.kind = "enum" /\ p.n = client.sent + 1
      /\ client' \in Clients /\ client'.sent = client.sent + 1 /\ client'.char = client.char
      /\ client'.state = "list" /\ ClientSends(p)
  <2>1. /\ client \in Clients /\ client.char \in Nat /\ client.sent \in Nat
        /\ ClientSends(p) /\ client' = [client EXCEPT !.state = "list", !.sent = @ + 1]
    BY ClientMoves DEF ConversationInv, DataType, ClientReads
  <2>2. p \in Packets /\ p.kind = "enum" /\ p.n = client.sent + 1
    BY <2>1 DEF Packet, Packets, Kinds
  <2>3. /\ client' \in Clients /\ client'.sent = client.sent + 1 /\ client'.char = client.char
        /\ client'.state = "list"
    BY <2>1, ClientMoves
  <2> QED
    BY <2>1, <2>2, <2>3
<1> HIDE DEF p
<1>2. /\ UNCHANGED <<requeuePackets, _recvQueue, ses, pc>> /\ notes' = Tail(notes) /\ notes # <<>>
      /\ notes' \in Seq(Notes)
  BY DEF ClientReads, updateVars, ConversationInv, DataType
<1>3. /\ Pending' = Pending \cup {p} /\ Before(Pending, {p}) /\ OrderInv'
      /\ Waiting' \subseteq Packets /\ net = "reading" /\ net' # "done" /\ Pending \subseteq Packets
  BY <1>1, <1>2, SendStep DEF ConversationInv
<1>4. DataType'
  BY <1>1, <1>2, <1>3 DEF ConversationInv, DataType
<1>5. ASSUME Sound(ses), Talk(Pending, client, notes, ses, net)
      PROVE  Talk(Pending', client', notes', ses', net')
  <2>1. notes # <<"newworld">> /\ notes # <<"newworld", "complete">> /\ notes # <<>>
    BY <1>2, NotesRead, ClientReads
  <2>2. ses.player = 0
    BY <1>5, <2>1 DEF Talk, Playing, Sound
  <2>3. ses.loading = 0 /\ ses.recentlyLogout
    BY <1>5, <2>1, <2>2 DEF Talk, Entering, Idle
  <2>4. notes = <<"complete">> /\ \A q \in Pending : q.kind \notin {"enum", "login"}
    BY <1>5, <2>1, <2>3 DEF Talk, Left
  <2>5. \A q \in Pending : q.n < p.n /\ q.n \in Nat
    BY <1>3 DEF Before, Packets
  <2>6. p.n \in Nat
    BY <1>1 DEF Packets
  <2>7. Left(Pending', client', notes', net')
    BY <1>1, <1>2, <1>3, <2>4, <2>5, <2>6, NotesRead DEF Left, LoginOnce
  <2> QED
    BY <1>1, <1>2, <2>2, <2>3, <2>7 DEF Talk
<1>6. TalkInv'
  BY <1>2, <1>5 DEF ConversationInv, TalkInv
<1> QED
  BY <1>3, <1>4, <1>6 DEF ConversationInv

(* The client reads that it is moved and acknowledges.                     *)
LEMMA ReadsTransfer ==
    ASSUME ConversationInv, ClientReads, Head(notes) # "complete"
    PROVE  ConversationInv'
<1> DEFINE p == Packet("ack", client.char, client.map + 1)
<1>1. /\ p \in Packets /\ p.kind = "ack" /\ p.n = client.sent + 1 /\ p.char = client.char
      /\ p.map = client.map + 1
      /\ client' \in Clients /\ client'.sent = client.sent + 1 /\ client'.char = client.char
      /\ client'.state = client.state /\ client'.map = client.map + 1 /\ ClientSends(p)
  <2>1. /\ client \in Clients /\ client.char \in Nat /\ client.map \in Nat /\ client.sent \in Nat
        /\ ClientSends(p) /\ client' = [client EXCEPT !.map = @ + 1, !.sent = @ + 1]
    BY ClientMoves DEF ConversationInv, DataType, ClientReads
  <2>2. /\ p \in Packets /\ p.kind = "ack" /\ p.char = client.char /\ p.map = client.map + 1
        /\ p.n = client.sent + 1
    BY <2>1 DEF Packet, Packets, Kinds
  <2>3. /\ client' \in Clients /\ client'.sent = client.sent + 1 /\ client'.char = client.char
        /\ client'.state = client.state /\ client'.map = client.map + 1
    BY <2>1, ClientMoves
  <2> QED
    BY <2>1, <2>2, <2>3
<1> HIDE DEF p
<1>2. /\ UNCHANGED <<requeuePackets, _recvQueue, ses, pc>> /\ notes' = Tail(notes) /\ notes # <<>>
      /\ notes' \in Seq(Notes)
  BY DEF ClientReads, updateVars, ConversationInv, DataType
<1>3. /\ Pending' = Pending \cup {p} /\ Before(Pending, {p}) /\ OrderInv'
      /\ Waiting' \subseteq Packets /\ net = "reading" /\ net' # "done" /\ Pending \subseteq Packets
  BY <1>1, <1>2, SendStep DEF ConversationInv
<1>4. DataType'
  BY <1>1, <1>2, <1>3 DEF ConversationInv, DataType
<1>5. ASSUME Sound(ses), Talk(Pending, client, notes, ses, net)
      PROVE  Talk(Pending', client', notes', ses', net')
  <2>1. notes # <<"complete">> /\ notes # <<>>
    BY <1>2, NotesRead, ClientReads
  <2>2. \A q \in Pending : q.n < p.n /\ q.n \in Nat
    BY <1>3 DEF Before, Packets
  <2>3. p.n \in Nat
    BY <1>1 DEF Packets
  <2>4. client'.state = "play" => client'.char # 0
    BY <1>1, <1>5 DEF Talk
  <2>5. ASSUME ses.player # 0 PROVE Playing(Pending', client', notes', ses')
    <3>1. Playing(Pending, client, notes, ses) /\ notes = <<"newworld">> /\ ~ses.inWorld
      BY <1>5, <2>1, <2>5 DEF Talk, Playing
    <3>2. notes' = <<>>
      BY <1>2, <3>1, NotesRead
    <3>3. client.map + 1 = ses.map /\ \A q \in Pending : q.kind # "ack"
      BY <3>1, NotesRead DEF Playing
    <3>4. \A q \in Pending' : q.kind = "ack" => q = p
      BY <1>3, <3>3
    <3> QED
      BY <1>1, <1>2, <1>3, <2>2, <2>3, <3>1, <3>2, <3>3, <3>4 DEF Playing
  <2>6. ses.loading = 0
    BY <1>5, <2>1 DEF Talk, Entering
  <2>7. ses.player # 0 \/ ses.recentlyLogout
    BY <1>5, <2>1, <2>6 DEF Talk, Idle
  <2>8. ASSUME ses.recentlyLogout PROVE Left(Pending', client', notes', net')
    <3>1. /\ Left(Pending, client, notes, net) /\ notes = <<"newworld", "complete">>
          /\ notes' = <<"complete">>
      BY <1>2, <1>5, <2>1, <2>8, NotesRead DEF Talk, Left
    <3> QED
      BY <1>1, <1>3, <2>1, <3>1 DEF Left
  <2> QED
    BY <1>2, <2>4, <2>5, <2>6, <2>7, <2>8 DEF Talk
<1>6. TalkInv'
  BY <1>2, <1>5 DEF ConversationInv, TalkInv
<1> QED
  BY <1>3, <1>4, <1>6 DEF ConversationInv

-----------------------------------------------------------------------------
(* A step that leaves the messages, the queues and the session as they are *)
(* may lose the packet that the network thread holds, with the connection. *)
LEMMA QuietStep ==
    ASSUME ConversationInv, UNCHANGED <<client, notes, requeuePackets, _recvQueue>>,
           Waiting' = Waiting \/ (Waiting' = {} /\ net' = "done"), net = "done" => net' = "done",
           pc = "over" => pc' = "over",
           ses' \in Sessions, Sound(ses) => Sound(ses'),
           ses'.player = ses.player, ses'.inWorld = ses.inWorld, ses'.map = ses.map,
           ses'.loading = ses.loading, ses'.recentlyLogout = ses.recentlyLogout
    PROVE  ConversationInv'
<1>1. DataType'
  BY DEF ConversationInv, DataType
<1>2. Pending' \subseteq Pending
  BY DEF Pending
<1>3. OrderInv'
  BY <1>2 DEF ConversationInv, OrderInv, Before
<1>4. ASSUME Talk(Pending, client, notes, ses, net)
      PROVE  Talk(Pending', client', notes', ses', net')
  <2>1. ASSUME ses.player # 0, Playing(Pending, client, notes, ses)
        PROVE  Playing(Pending', client, notes, ses')
    BY <1>2, <2>1 DEF Playing
  <2>2. ASSUME Entering(Pending, client, notes, ses)
        PROVE  Entering(Pending', client, notes, ses')
    BY <1>2, <2>2 DEF Entering
  <2>3. ASSUME Left(Pending, client, notes, net)
        PROVE  Left(Pending', client, notes, net')
    <3>1. CASE Pending' = Pending
      BY <2>3, <3>1 DEF Left
    <3>2. CASE Waiting' = {} /\ net' = "done"
      <4>1. ASSUME NEW p \in Pending', NEW e \in Pending, e.n < p.n PROVE e \in Pending'
        <5>1. CASE e \in Elements(requeuePackets) \cup Elements(_recvQueue)
          BY <5>1 DEF Pending
        <5>2. CASE e \in Waiting
          <6>1. p \in Elements(requeuePackets) \cup Elements(_recvQueue)
            BY <3>2 DEF Pending
          <6>2. p.n < e.n /\ p.n \in Nat /\ e.n \in Nat
            BY <5>2, <6>1, PendingType DEF ConversationInv, OrderInv, Before, Packets, Pending
          <6> QED
            BY <4>1, <6>2
        <5> QED
          BY <5>1, <5>2 DEF Pending
      <4> QED
        BY <1>2, <2>3, <3>2, <4>1 DEF Left, LoginOnce
    <3> QED
      BY <3>1, <3>2 DEF Pending
  <2>4. ASSUME Idle(Pending, client, notes) PROVE Idle(Pending', client, notes)
    BY <1>2, <2>4 DEF Idle, LoginOnce
  <2> QED
    BY <1>4, <2>1, <2>2, <2>3, <2>4 DEF Talk
<1>5. TalkInv'
  BY <1>4 DEF ConversationInv, TalkInv
<1> QED
  BY <1>1, <1>3, <1>5 DEF ConversationInv

LEMMA QuietNetwork ==
    ASSUME ConversationInv, IndInv, CreateSession \/ StartReading \/ LockSession \/ NetOnClose \/ ReadFails
    PROVE  ConversationInv'
<1>1. Waiting' = Waiting \/ (Waiting' = {} /\ net' = "done")
  BY DEF CreateSession, StartReading, LockSession, NetOnClose, ReadFails, Waiting, IndInv, LockInv, ControlType, PointerInv
<1>2. net = "done" => net' = "done"
  BY DEF CreateSession, StartReading, LockSession, NetOnClose, ReadFails
<1>3. UNCHANGED <<client, notes, requeuePackets, _recvQueue, pc, ses>>
  BY DEF CreateSession, StartReading, LockSession, NetOnClose, ReadFails, clientVars, updateVars
<1> QED
  BY <1>1, <1>2, <1>3, QuietStep DEF ConversationInv, DataType

LEMMA QuietServer ==
    ASSUME ConversationInv, IndInv,
           \/ OnClose \/ AddSession_ \/ WorldUpdate \/ MapUpdate \/ EndTick \/ NoMorePackets
           \/ Remove \/ KickPlayer \/ DbAnswersLogin
    PROVE  ConversationInv'
<1>1. /\ UNCHANGED <<client, notes, requeuePackets, _recvQueue, net, incoming>>
      /\ pc = "over" => pc' = "over"
  BY DEF OnClose, AddSession_, WorldUpdate, MapUpdate, EndTick, NoMorePackets, Remove, KickPlayer,
         DbAnswersLogin, clientVars, updateVars, IndInv, DeletionInv
<1>2. Waiting' = Waiting
  BY <1>1 DEF Waiting
<1>3. /\ ses' \in Sessions /\ (Sound(ses) => Sound(ses'))
      /\ ses'.player = ses.player /\ ses'.inWorld = ses.inWorld /\ ses'.map = ses.map
      /\ ses'.loading = ses.loading /\ ses'.recentlyLogout = ses.recentlyLogout
  <2>1. CASE UNCHANGED ses
    BY <2>1 DEF ConversationInv, DataType
  <2>2. CASE Remove \/ KickPlayer
    BY <2>2 DEF Remove, KickPlayer, ConversationInv, DataType, Sessions, Sound
  <2>3. CASE DbAnswersLogin
    BY <2>3 DEF DbAnswersLogin, ConversationInv, DataType, Sessions, Sound
  <2> QED
    BY <2>1, <2>2, <2>3 DEF OnClose, AddSession_, WorldUpdate, MapUpdate, EndTick, NoMorePackets
<1> QED
  BY <1>1, <1>2, <1>3, QuietStep

-----------------------------------------------------------------------------
(* What the server's steps change of the session.                          *)
LEMMA FieldSet ==
    ASSUME NEW r \in Sessions
    PROVE  /\ r.player \in Nat /\ r.map \in Nat /\ r.loading \in Nat /\ r.expireTime \in Nat
           /\ r.tell \in Notes \cup {"none"}
           /\ r.inWorld \in BOOLEAN /\ r.ready \in BOOLEAN /\ r.recentlyLogout \in BOOLEAN
           /\ r.logoutTime \in BOOLEAN /\ r.forceExit \in BOOLEAN
BY DEF Sessions

(* Two sessions agree on what the client is told about.                    *)
Alike(r, s) ==
    /\ r.player = s.player /\ r.inWorld = s.inWorld /\ r.map = s.map
    /\ r.loading = s.loading /\ r.recentlyLogout = s.recentlyLogout

LEMMA LogoutMoves ==
    ASSUME NEW r \in Sessions
    PROVE  LET d == LogoutPlayer(r)
           IN  /\ d \in Sessions /\ d.player = 0 /\ ~d.inWorld /\ d.map = r.map /\ d.loading = r.loading
               /\ d.ready = r.ready /\ d.recentlyLogout /\ ~d.logoutTime
               /\ d.tell = IF r.player = 0 THEN r.tell ELSE "complete"
<1> DEFINE a == [r EXCEPT !.player = 0]
           b == [a EXCEPT !.inWorld = FALSE]
           c == [b EXCEPT !.logoutTime = FALSE]
           d == [c EXCEPT !.recentlyLogout = TRUE]
           t == IF r.player = 0 THEN r.tell ELSE "complete"
<1>1. t \in Notes \cup {"none"}
  BY FieldSet DEF Notes
<1>2. /\ a \in Sessions /\ a.player = 0 /\ a.map = r.map /\ a.loading = r.loading /\ a.ready = r.ready /\ a.tell = r.tell
  BY DEF Sessions
<1>3. LogoutPlayer(r) = [d EXCEPT !.tell = t]
  BY <1>2 DEF LogoutPlayer, NoPlayer, Sessions
<1> HIDE DEF a, t
<1>4. /\ b \in Sessions /\ b.player = 0 /\ b.inWorld = FALSE /\ b.map = a.map /\ b.loading = a.loading
      /\ b.ready = a.ready /\ b.tell = a.tell
  BY <1>2 DEF Sessions
<1> HIDE DEF b
<1>5. /\ c \in Sessions /\ c.player = 0 /\ c.inWorld = FALSE /\ c.map = b.map /\ c.loading = b.loading
      /\ c.ready = b.ready /\ c.tell = b.tell /\ c.logoutTime = FALSE
  BY <1>4 DEF Sessions
<1> HIDE DEF c
<1>6. /\ d \in Sessions /\ d.player = 0 /\ d.inWorld = FALSE /\ d.map = c.map /\ d.loading = c.loading
      /\ d.ready = c.ready /\ d.tell = c.tell /\ d.logoutTime = FALSE /\ d.recentlyLogout = TRUE
  BY <1>5 DEF Sessions
<1> HIDE DEF d
<1>7. LET e == [d EXCEPT !.tell = t]
      IN  /\ e \in Sessions /\ e.player = 0 /\ e.inWorld = FALSE /\ e.map = d.map /\ e.loading = d.loading
          /\ e.ready = d.ready /\ e.tell = t /\ e.logoutTime = FALSE /\ e.recentlyLogout = TRUE
  BY <1>1, <1>6 DEF Sessions
<1> QED
  BY <1>2, <1>3, <1>4, <1>5, <1>6, <1>7 DEF t

LEMMA TeleportMoves ==
    ASSUME NEW r \in Sessions, NEW d \in TeleportFar(r)
    PROVE  /\ d \in Sessions /\ d.player = r.player /\ ~d.inWorld /\ d.map = r.map + 1 /\ d.loading = r.loading
           /\ d.ready = r.ready /\ d.recentlyLogout = r.recentlyLogout /\ d.logoutTime = r.logoutTime
           /\ d.tell = "newworld"
<1> DEFINE a == [r EXCEPT !.inWorld = FALSE]
           b == [a EXCEPT !.map = @ + 1]
<1>1. /\ a \in Sessions /\ a.inWorld = FALSE /\ a.player = r.player /\ a.map = r.map /\ a.loading = r.loading
      /\ a.ready = r.ready /\ a.recentlyLogout = r.recentlyLogout /\ a.logoutTime = r.logoutTime
  BY DEF Sessions
<1>2. d = [b EXCEPT !.tell = "newworld"]
  BY <1>1 DEF TeleportFar, Sessions
<1> HIDE DEF a
<1>3. /\ b \in Sessions /\ b.inWorld = FALSE /\ b.player = a.player /\ b.map = a.map + 1 /\ b.loading = a.loading
      /\ b.ready = a.ready /\ b.recentlyLogout = a.recentlyLogout /\ b.logoutTime = a.logoutTime
  BY <1>1 DEF Sessions
<1> HIDE DEF b
<1>4. /\ d \in Sessions /\ d.inWorld = FALSE /\ d.player = b.player /\ d.map = b.map /\ d.loading = b.loading
      /\ d.ready = b.ready /\ d.recentlyLogout = b.recentlyLogout /\ d.logoutTime = b.logoutTime
      /\ d.tell = "newworld"
  BY <1>2, <1>3 DEF Sessions, Notes
<1> QED
  BY <1>1, <1>3, <1>4

LEMMA TellMoves ==
    ASSUME NEW r \in Sessions, Tell(r), notes \in Seq(Notes)
    PROVE  /\ ses' \in Sessions /\ Alike(ses', r) /\ ses'.ready = r.ready
           /\ ses'.logoutTime = r.logoutTime /\ ses'.tell = "none" /\ notes' \in Seq(Notes)
           /\ r.tell = "none" => notes' = notes
           /\ r.tell # "none" => notes' = Append(notes, r.tell)
<1>1. /\ ses' \in Sessions /\ Alike(ses', r) /\ ses'.ready = r.ready
      /\ ses'.logoutTime = r.logoutTime /\ ses'.tell = "none"
  BY DEF Tell, Sessions, Alike
<1>2. r.tell \in Notes \cup {"none"}
  BY FieldSet
<1> QED
  BY <1>1, <1>2 DEF Tell

(* The network thread queues the packet it holds.                          *)
LEMMA QueuePacketTalk ==
    ASSUME ConversationInv, QueuePacket
    PROVE  ConversationInv'
<1>1. /\ UNCHANGED <<client, notes, requeuePackets, ses, pc>> /\ _recvQueue' = Append(_recvQueue, incoming)
      /\ Waiting = {incoming} /\ Waiting' = {} /\ net # "done" /\ net' # "done"
  BY DEF QueuePacket, Waiting, clientVars, updateVars
<1>2. incoming \in Packets
  BY <1>1 DEF ConversationInv, DataType
<1>3. /\ _recvQueue' \in Seq(Packets) /\ Elements(_recvQueue)' = Elements(_recvQueue) \cup {incoming}
      /\ Rising(_recvQueue)'
  BY <1>1, <1>2, AppendQueue DEF ConversationInv, DataType, OrderInv
<1>4. Elements(requeuePackets)' = Elements(requeuePackets) /\ Rising(requeuePackets)' = Rising(requeuePackets)
  BY <1>1
<1>5. Pending' = Pending
  BY <1>1, <1>3, <1>4 DEF Pending
<1>6. DataType'
  BY <1>1, <1>3 DEF ConversationInv, DataType
<1>7. OrderInv'
  BY <1>1, <1>3, <1>4, <1>5 DEF ConversationInv, OrderInv, Before
<1>8. Talk(Pending, client, notes, ses, net) => Talk(Pending', client', notes', ses', net')
  BY <1>1, <1>5 DEF Talk, Left
<1>9. TalkInv'
  BY <1>1, <1>8 DEF ConversationInv, TalkInv
<1> QED
  BY <1>6, <1>7, <1>9 DEF ConversationInv

(* Everything sent to a player in the world may be followed by a transfer, *)
(* and everything sent to a player by a logout.                            *)
LEMMA TransferBegins ==
    ASSUME NEW P, NEW c, NEW s \in Sessions, NEW d \in Sessions, s.player # 0,
           c.state = "play" /\ c.char = s.player /\ c.map = s.map,
           \A p \in P : p.kind \notin {"enum", "login", "ack"} /\ p.char = s.player,
           d.player = s.player, ~d.inWorld, d.map = s.map + 1
    PROVE  Playing(P, c, Append(<<>>, "newworld"), d)
BY NotesWritten DEF Playing

LEMMA LogoutBegins ==
    ASSUME NEW P, NEW c, NEW m, NEW s, NEW n, Playing(P, c, m, s)
    PROVE  Left(P, c, Append(m, "complete"), n)
<1>1. m \in {<<>>, <<"newworld">>}
  BY DEF Playing
<1>2. Append(m, "complete") \in {<<"complete">>, <<"newworld", "complete">>}
  BY <1>1, NotesWritten
<1> QED
  BY <1>2 DEF Playing, Left

LEMMA TeleportTalk ==
    ASSUME ConversationInv, Teleport
    PROVE  ConversationInv'
<1>1. /\ UNCHANGED <<client, requeuePackets, _recvQueue, net, incoming, pc>> /\ pc # "over" /\ ses.inWorld
      /\ \E r \in TeleportFar(ses) : Tell(r)
  BY DEF Teleport, updateVars
<1>2. PICK r \in TeleportFar(ses) : Tell(r)
  BY <1>1
<1>3. /\ ses \in Sessions /\ notes \in Seq(Notes) /\ Sound(ses) /\ ses.player # 0
      /\ Talk(Pending, client, notes, ses, net)
      /\ requeuePackets = <<>>
  BY <1>1 DEF ConversationInv, DataType, TalkInv, Sound
<1>4. /\ r \in Sessions /\ r.player = ses.player /\ ~r.inWorld /\ r.map = ses.map + 1 /\ r.loading = ses.loading
      /\ r.ready = ses.ready /\ r.recentlyLogout = ses.recentlyLogout /\ r.logoutTime = ses.logoutTime
      /\ r.tell = "newworld"
  BY <1>3, TeleportMoves
<1>5. /\ ses' \in Sessions /\ Alike(ses', r) /\ ses'.ready = r.ready
      /\ ses'.logoutTime = r.logoutTime /\ ses'.tell = "none" /\ notes' \in Seq(Notes)
      /\ notes' = Append(notes, "newworld")
  BY <1>2, <1>3, <1>4, TellMoves
<1>6. Waiting' = Waiting /\ Pending' = Pending /\ DataType' /\ OrderInv'
  BY <1>1, <1>5 DEF ConversationInv, DataType, Waiting, Pending, OrderInv
<1>7. Playing(Pending, client, notes, ses) /\ notes = <<>>
  BY <1>1, <1>3 DEF Talk, Playing
<1>8. Playing(Pending', client', notes', ses')
  BY <1>1, <1>3, <1>4, <1>5, <1>6, <1>7, TransferBegins DEF Alike, Playing
<1>9. Sound(ses')
  BY <1>3, <1>4, <1>5 DEF Sound, Alike
<1>10. Talk(Pending', client', notes', ses', net')
  BY <1>1, <1>3, <1>4, <1>5, <1>8, <1>9 DEF Talk, Alike, Sound
<1> QED
  BY <1>1, <1>3, <1>6, <1>9, <1>10 DEF ConversationInv, TalkInv

LEMMA DeleteSessionTalk ==
    ASSUME ConversationInv, DeleteSession
    PROVE  ConversationInv'
<1>1. /\ UNCHANGED <<client, notes, requeuePackets, net, incoming>> /\ pc' = "over"
      /\ _recvQueue' = <<>> /\ ses' = [LogoutPlayer(ses) EXCEPT !.tell = "none"]
  BY DEF DeleteSession, clientVars, updateVars
<1>2. LogoutPlayer(ses) \in Sessions
  BY LogoutMoves DEF ConversationInv, DataType
<1>3. ses' \in Sessions
  BY <1>1, <1>2 DEF Sessions
<1>4. _recvQueue' \in Seq(Packets) /\ Elements(_recvQueue)' = {} /\ Rising(_recvQueue)'
  BY <1>1, EmptyQueue
<1>5. Waiting' = Waiting /\ Pending' \subseteq Pending
  BY <1>1, <1>4 DEF Waiting, Pending
<1> QED
  BY <1>1, <1>3, <1>4, <1>5 DEF ConversationInv, DataType, OrderInv, TalkInv, Before

LEMMA FinishUpdateTalk ==
    ASSUME ConversationInv, FinishUpdate
    PROVE  ConversationInv'
<1>1. /\ UNCHANGED <<client, notes, net, incoming>> /\ pc = "finish"
      /\ _recvQueue' = requeuePackets \o _recvQueue /\ requeuePackets' = <<>>
  BY DEF FinishUpdate, clientVars, Readd
<1>2. /\ ses \in Sessions /\ Sound(ses) /\ Talk(Pending, client, notes, ses, net)
  BY <1>1 DEF ConversationInv, DataType, TalkInv
<1>3. /\ _recvQueue' \in Seq(Packets) /\ requeuePackets' \in Seq(Packets)
      /\ Elements(_recvQueue)' = Elements(requeuePackets) \cup Elements(_recvQueue)
      /\ Rising(_recvQueue)' /\ Elements(requeuePackets)' = {} /\ Rising(requeuePackets)'
  BY <1>1, ConcatQueue, EmptyQueue DEF ConversationInv, DataType, OrderInv
<1>4. Waiting' = Waiting /\ Pending' = Pending
  BY <1>1, <1>3 DEF Waiting, Pending
<1>5. OrderInv'
  BY <1>1, <1>3, <1>4 DEF ConversationInv, OrderInv, Before
<1> SUFFICES ses' \in Sessions /\ Sound(ses') /\ Talk(Pending, client, notes, ses', net)
  BY <1>1, <1>3, <1>4, <1>5 DEF ConversationInv, DataType, TalkInv
<1>6. CASE UNCHANGED ses
  BY <1>2, <1>6
<1>7. CASE ses.ready /\ ses' = [ses EXCEPT !.ready = FALSE, !.loading = 0, !.player = ses.loading, !.inWorld = TRUE, !.map = 0]
  <2> DEFINE a == [ses EXCEPT !.ready = FALSE]
             b == [a EXCEPT !.loading = 0]
             c == [b EXCEPT !.player = ses.loading]
             d == [c EXCEPT !.inWorld = TRUE]
  <2>1. /\ a \in Sessions /\ a.ready = FALSE /\ a.recentlyLogout = ses.recentlyLogout /\ a.logoutTime = ses.logoutTime
        /\ a.tell = ses.tell
        /\ ses.loading \in Nat
    BY <1>2 DEF Sessions
  <2>2. ses' = [d EXCEPT !.map = 0]
    BY <1>2, <1>7, <2>1 DEF Sessions
  <2> HIDE DEF a
  <2>3. /\ b \in Sessions /\ b.ready = FALSE /\ b.recentlyLogout = a.recentlyLogout /\ b.logoutTime = a.logoutTime
        /\ b.loading = 0 /\ b.tell = a.tell
    BY <2>1 DEF Sessions
  <2> HIDE DEF b
  <2>4. /\ c \in Sessions /\ c.ready = FALSE /\ c.recentlyLogout = b.recentlyLogout /\ c.logoutTime = b.logoutTime
        /\ c.loading = 0 /\ c.player = ses.loading /\ c.tell = b.tell
    BY <2>1, <2>3 DEF Sessions
  <2> HIDE DEF c
  <2>5. /\ d \in Sessions /\ d.ready = FALSE /\ d.recentlyLogout = c.recentlyLogout /\ d.logoutTime = c.logoutTime
        /\ d.loading = 0 /\ d.player = ses.loading /\ d.inWorld = TRUE /\ d.tell = c.tell
    BY <2>4 DEF Sessions
  <2> HIDE DEF d
  <2>6. /\ ses' \in Sessions /\ ses'.ready = FALSE /\ ses'.recentlyLogout = ses.recentlyLogout
        /\ ses'.loading = 0 /\ ses'.player = ses.loading /\ ses'.inWorld = TRUE /\ ses'.map = 0
        /\ ses'.tell = ses.tell
    BY <2>1, <2>2, <2>3, <2>4, <2>5 DEF Sessions
  <2>7. ses.loading # 0 /\ ~ses.recentlyLogout /\ Entering(Pending, client, notes, ses)
    BY <1>2, <1>7 DEF Sound, Talk
  <2>8. Playing(Pending, client, notes, ses')
    BY <2>6, <2>7 DEF Entering, Playing, Fresh
  <2> QED
    BY <1>2, <2>6, <2>7, <2>8 DEF Sound, Talk
<1>8. CASE ses.ready /\ ses' = [ses EXCEPT !.ready = FALSE, !.loading = 0, !.forceExit = TRUE]
  <2> DEFINE a == [ses EXCEPT !.ready = FALSE]
             b == [a EXCEPT !.loading = 0]
  <2>1. /\ a \in Sessions /\ a.ready = FALSE /\ Alike(a, ses) /\ a.logoutTime = ses.logoutTime /\ a.tell = ses.tell
    BY <1>2 DEF Sessions, Alike
  <2>2. ses' = [b EXCEPT !.forceExit = TRUE]
    BY <1>2, <1>8, <2>1 DEF Sessions
  <2> HIDE DEF a
  <2>3. /\ b \in Sessions /\ b.ready = FALSE /\ b.recentlyLogout = a.recentlyLogout /\ b.logoutTime = a.logoutTime
        /\ b.loading = 0 /\ b.player = a.player /\ b.inWorld = a.inWorld /\ b.tell = a.tell
    BY <2>1 DEF Sessions
  <2> HIDE DEF b
  <2>4. /\ ses' \in Sessions /\ ses'.ready = FALSE /\ ses'.recentlyLogout = ses.recentlyLogout
        /\ ses'.loading = 0 /\ ses'.player = ses.player /\ ses'.inWorld = ses.inWorld
        /\ ses'.tell = ses.tell /\ ses'.logoutTime = ses.logoutTime
    BY <2>1, <2>2, <2>3 DEF Sessions, Alike
  <2>5. ses.loading # 0 /\ ses.player = 0 /\ ~ses.recentlyLogout /\ Entering(Pending, client, notes, ses)
    BY <1>2, <1>8 DEF Sound, Talk
  <2>6. Idle(Pending, client, notes)
    BY <2>5 DEF Entering, Idle, LoginOnce
  <2> QED
    BY <1>2, <2>4, <2>5, <2>6 DEF Sound, Talk
<1> QED
  BY <1>6, <1>7, <1>8 DEF FinishUpdate

LEMMA EndUpdateTalk ==
    ASSUME ConversationInv, EndUpdate
    PROVE  ConversationInv'
<1>1. /\ UNCHANGED <<client, net, incoming, requeuePackets, _recvQueue>> /\ pc = "end" /\ pc' # "over"
  BY DEF EndUpdate, updateVars
<1>2. /\ ses \in Sessions /\ notes \in Seq(Notes) /\ Sound(ses) /\ Talk(Pending, client, notes, ses, net)
      /\ requeuePackets # <<>> => ses.player = 0 /\ ~ses.recentlyLogout
  BY <1>1 DEF ConversationInv, DataType, TalkInv
<1>3. PICK r \in Sessions, e \in Sessions :
        /\ r = ses \/ (ses.logoutTime /\ r = LogoutPlayer(ses))
        /\ e = r \/ e = Expired(r)
        /\ Tell(e)
  <2>1. PICK r \in {ses, LogoutPlayer(ses)} :
          /\ r = ses \/ (ses.logoutTime /\ r = LogoutPlayer(ses))
          /\ Tell(r) \/ Tell(Expired(r))
    BY DEF EndUpdate
  <2>2. r \in Sessions
    BY <1>2, <2>1, LogoutMoves
  <2>3. Expired(r) \in Sessions
    BY <2>2 DEF Expired, Sessions
  <2> QED
    BY <2>1, <2>2, <2>3
<1>4. Alike(e, r) /\ e.ready = r.ready /\ e.logoutTime = r.logoutTime /\ e.tell = r.tell
  BY <1>3 DEF Expired, Sessions, Alike
<1>5. /\ ses' \in Sessions /\ Alike(ses', r) /\ ses'.ready = r.ready
      /\ ses'.logoutTime = r.logoutTime /\ ses'.tell = "none" /\ notes' \in Seq(Notes)
      /\ r.tell = "none" => notes' = notes
      /\ r.tell # "none" => notes' = Append(notes, r.tell)
  BY <1>2, <1>3, <1>4, TellMoves DEF Alike
<1>6. Waiting' = Waiting /\ Pending' = Pending /\ DataType' /\ OrderInv'
  BY <1>1, <1>5 DEF ConversationInv, DataType, Waiting, Pending, OrderInv
<1>7. CASE r = ses
  <2>1. notes' = notes
    BY <1>2, <1>5, <1>7 DEF Sound
  <2>2. Sound(ses')
    BY <1>2, <1>5, <1>7 DEF Sound, Alike
  <2>3. Talk(Pending', client', notes', ses', net')
    BY <1>1, <1>2, <1>5, <1>6, <1>7, <2>1 DEF Talk, Alike, Playing, Entering
  <2> QED
    BY <1>1, <1>2, <1>5, <1>6, <1>7, <2>2, <2>3 DEF ConversationInv, TalkInv, Alike
<1>8. CASE ses.logoutTime /\ r = LogoutPlayer(ses)
  <2>1. ses.player # 0 /\ ses.loading = 0 /\ requeuePackets = <<>> /\ ~ses.ready
    BY <1>2, <1>8 DEF Sound
  <2>2. /\ r.player = 0 /\ ~r.inWorld /\ r.loading = 0 /\ r.recentlyLogout /\ ~r.logoutTime /\ r.tell = "complete"
        /\ ~r.ready
    BY <1>2, <1>8, <2>1, LogoutMoves
  <2>3. notes' = Append(notes, "complete")
    BY <1>5, <2>2
  <2>4. Left(Pending', client', notes', net')
    BY <1>1, <1>2, <1>6, <2>1, <2>3, LogoutBegins DEF Talk
  <2>5. Sound(ses')
    BY <1>5, <2>2 DEF Sound, Alike
  <2>6. Talk(Pending', client', notes', ses', net')
    BY <1>1, <1>2, <1>5, <2>2, <2>4 DEF Talk, Alike
  <2> QED
    BY <1>1, <1>6, <2>1, <2>5, <2>6 DEF ConversationInv, TalkInv
<1> QED
  BY <1>3, <1>7, <1>8

-----------------------------------------------------------------------------
(* One round of the loop.  The packet leaves the front of the queue ...    *)
LEMMA HeadLeaves ==
    ASSUME ConversationInv, _recvQueue # <<>>, _recvQueue' = Tail(_recvQueue),
           UNCHANGED <<client, requeuePackets, net, incoming>>
    PROVE  /\ Head(_recvQueue) \in Pending /\ Head(_recvQueue) \in Packets
           /\ Pending' \subseteq Pending /\ Head(_recvQueue) \notin Pending'
           /\ \A q \in Pending : q = Head(_recvQueue) \/ q \in Pending'
           /\ requeuePackets = <<>> => \A q \in Pending' : Head(_recvQueue).n < q.n
           /\ _recvQueue' \in Seq(Packets) /\ OrderInv' /\ Waiting' = Waiting
<1> DEFINE p == Head(_recvQueue)
<1>1. /\ p \in Packets /\ Tail(_recvQueue) \in Seq(Packets)
      /\ Elements(_recvQueue) = {p} \cup Elements(Tail(_recvQueue))
      /\ Rising(Tail(_recvQueue)) /\ Before({p}, Elements(Tail(_recvQueue)))
  BY TailQueue DEF ConversationInv, DataType, OrderInv
<1> HIDE DEF p
<1>2. Waiting' = Waiting
  BY DEF Waiting
<1>3. /\ \A q \in Elements(requeuePackets) : q.n < p.n
      /\ \A q \in Elements(Tail(_recvQueue)) \cup Waiting : p.n < q.n
  BY <1>1 DEF ConversationInv, OrderInv, Before
<1>4. p.n \in Nat
  BY <1>1 DEF Packets
<1>5. p \notin Elements(requeuePackets) \cup Elements(Tail(_recvQueue)) \cup Waiting
  BY <1>3, <1>4
<1>6. Pending' = Elements(requeuePackets) \cup Elements(Tail(_recvQueue)) \cup Waiting
  BY <1>2 DEF Pending
<1>7. requeuePackets = <<>> => Elements(requeuePackets) = {}
  BY EmptyQueue
<1>8. OrderInv'
  BY <1>1, <1>2, <1>6 DEF ConversationInv, OrderInv, Before, Pending
<1> QED
  BY <1>1, <1>2, <1>3, <1>5, <1>6, <1>7, <1>8 DEF p, Pending

(* ... or is set aside behind the others that were.                        *)
LEMMA HeadSetAside ==
    ASSUME ConversationInv, _recvQueue # <<>>, _recvQueue' = Tail(_recvQueue),
           requeuePackets' = Append(requeuePackets, Head(_recvQueue)), Status(Head(_recvQueue)) = "loggedin",
           UNCHANGED <<client, net, incoming>>
    PROVE  /\ Pending' = Pending /\ requeuePackets' \in Seq(Packets) /\ _recvQueue' \in Seq(Packets)
           /\ OrderInv' /\ Waiting' = Waiting
<1> DEFINE p == Head(_recvQueue)
<1>1. /\ p \in Packets /\ Tail(_recvQueue) \in Seq(Packets)
      /\ Elements(_recvQueue) = {p} \cup Elements(Tail(_recvQueue))
      /\ Rising(Tail(_recvQueue)) /\ Before({p}, Elements(Tail(_recvQueue)))
  BY TailQueue DEF ConversationInv, DataType, OrderInv
<1>2. requeuePackets' = Append(requeuePackets, p) /\ _recvQueue' = Tail(_recvQueue) /\ Status(p) = "loggedin"
  OBVIOUS
<1> HIDE DEF p
<1>3. Waiting' = Waiting
  BY DEF Waiting
<1>4. Before(Elements(requeuePackets), {p})
  BY <1>1 DEF ConversationInv, OrderInv, Before
<1>5. /\ requeuePackets' \in Seq(Packets) /\ Elements(requeuePackets)' = Elements(requeuePackets) \cup {p}
      /\ Rising(requeuePackets)'
  BY <1>1, <1>2, <1>4, AppendQueue DEF ConversationInv, DataType, OrderInv
<1>6. Pending' = Pending
  BY <1>1, <1>2, <1>3, <1>5 DEF Pending
<1>7. OrderInv'
  BY <1>1, <1>2, <1>3, <1>5, <1>6 DEF ConversationInv, OrderInv, Before
<1> QED
  BY <1>1, <1>2, <1>3, <1>5, <1>6, <1>7

(* A packet less, unless it is the client's answer to a logout, changes    *)
(* nothing in the conversation.                                            *)
LEMMA TalkGoesOn ==
    ASSUME NEW P, NEW Q \in SUBSET P, NEW c, NEW m, NEW s, NEW d, NEW n, Alike(d, s), Talk(P, c, m, s, n),
           \A q \in P : q.kind = "enum" => q \in Q
    PROVE  Talk(Q, c, m, d, n)
<1>1. Playing(P, c, m, s) => Playing(Q, c, m, d)
  BY DEF Playing, Alike
<1>2. Entering(P, c, m, s) => Entering(Q, c, m, d)
  BY DEF Entering, Alike
<1>3. Left(P, c, m, n) => Left(Q, c, m, n)
  BY DEF Left, LoginOnce
<1>4. Idle(P, c, m) => Idle(Q, c, m)
  BY DEF Idle, LoginOnce
<1> QED
  BY <1>1, <1>2, <1>3, <1>4 DEF Talk, Alike

(* The packet that asks for the list of characters ends the logout.        *)
LEMMA EnumTalk ==
    ASSUME NEW P, NEW Q \in SUBSET P, NEW c \in Clients, NEW m, NEW s \in Sessions, NEW n, NEW p \in P,
           Sound(s), Talk(P, c, m, s, n), p.kind = "enum",
           s.recentlyLogout => \A q \in Q : p.n < q.n
    PROVE  s.player = 0 /\ s.loading = 0 /\ s.recentlyLogout /\ Idle(Q, c, m)
<1>1. s.player = 0 /\ s.loading = 0 /\ s.recentlyLogout
  BY DEF Talk, Playing, Entering, Idle, Fresh
<1>2. /\ Left(P, c, m, n) /\ m = <<>> /\ (c.state = "play" => c.map = 0) /\ LoginOnce(P)
      /\ \A q \in Q : Fresh(q, c) /\ c.state = "play"
  BY <1>1 DEF Talk, Left
<1>3. c.state \in {"list", "play"}
  BY DEF Clients
<1> QED
  BY <1>1, <1>2, <1>3 DEF Idle, LoginOnce

(* A login is handled when nobody is there, and everything that follows it *)
(* is for its character.                                                   *)
LEMMA LoginHandled ==
    ASSUME NEW P \in SUBSET Packets, NEW Q \in SUBSET P, NEW c \in Clients, NEW m, NEW s \in Sessions, NEW n,
           NEW p \in P, Sound(s), Talk(P, c, m, s, n), p.kind = "login", p \notin Q,
           \A q \in P : q = p \/ q \in Q,
           s.recentlyLogout => \A q \in Q : p.n < q.n
    PROVE  /\ s.player = 0 /\ s.loading = 0 /\ ~s.recentlyLogout /\ p.char # 0 /\ p.char = c.char
           /\ c.state = "play" /\ c.map = 0 /\ m = <<>> /\ \A q \in Q : Fresh(q, c) /\ q.kind # "login"
<1>1. s.player = 0 /\ s.loading = 0
  BY DEF Talk, Playing, Entering
<1>2. ASSUME s.recentlyLogout PROVE FALSE
  <2>1. PICK e \in P : e.kind = "enum" /\ e.n < p.n
    BY <1>2 DEF Talk, Left
  <2>2. e \in Q /\ p.n < e.n /\ p.n \in Nat /\ e.n \in Nat
    BY <1>2, <2>1 DEF Packets
  <2> QED
    BY <2>1, <2>2
<1>3. Idle(P, c, m)
  BY <1>1, <1>2 DEF Talk
<1>4. c.state = "play"
  BY <1>3 DEF Idle, Clients
<1> QED
  BY <1>1, <1>2, <1>3, <1>4 DEF Idle, Fresh, LoginOnce, Talk

(* A packet that is handled: what the handler leaves behind.               *)
LEMMA HandledTalk ==
    ASSUME ConversationInv, HandlePacket, Accepts(Head(_recvQueue), ses), UNCHANGED requeuePackets,
           NEW r \in Handle(Head(_recvQueue), ses), Tell(r)
    PROVE  ConversationInv'
<1> DEFINE p == Head(_recvQueue)
<1>1. /\ _recvQueue # <<>> /\ _recvQueue' = Tail(_recvQueue) /\ pc = "update" /\ pc' # "over"
      /\ UNCHANGED <<client, net, incoming>>
  BY DEF HandlePacket, MayProcess, netVars
<1>2. /\ p \in Pending /\ p \in Packets /\ Pending' \subseteq Pending /\ p \notin Pending'
      /\ \A q \in Pending : q = p \/ q \in Pending'
      /\ requeuePackets = <<>> => \A q \in Pending' : p.n < q.n
      /\ _recvQueue' \in Seq(Packets) /\ OrderInv' /\ Waiting' = Waiting
  BY <1>1, HeadLeaves
<1>3. /\ ses \in Sessions /\ notes \in Seq(Notes) /\ client \in Clients /\ Sound(ses)
      /\ Talk(Pending, client, notes, ses, net)
      /\ requeuePackets # <<>> => ses.player = 0 /\ ~ses.recentlyLogout
      /\ Pending \subseteq Packets
  BY <1>1, PendingType DEF ConversationInv, DataType, TalkInv
<1>4. Accepts(p, ses) /\ r \in Handle(p, ses)
  OBVIOUS
<1> HIDE DEF p
<1>5. ses.recentlyLogout \/ ses.player # 0 => \A q \in Pending' : p.n < q.n
  BY <1>2, <1>3
<1> SUFFICES /\ r \in Sessions /\ ses' \in Sessions /\ notes' \in Seq(Notes) /\ Sound(ses')
             /\ Talk(Pending', client, notes', ses', net)
             /\ requeuePackets # <<>> => ses'.player = 0 /\ ~ses'.recentlyLogout
  BY <1>1, <1>2, <1>3 DEF ConversationInv, DataType, TalkInv
<1>6. p.kind \in Kinds
  BY <1>2 DEF Packets
<1>7. ASSUME r \in Sessions, Alike(r, ses), r.tell = "none", p.kind # "enum",
             r.ready = ses.ready, r.logoutTime => ses.player # 0
      PROVE  /\ r \in Sessions /\ ses' \in Sessions /\ notes' \in Seq(Notes) /\ Sound(ses')
             /\ Talk(Pending', client, notes', ses', net)
             /\ requeuePackets # <<>> => ses'.player = 0 /\ ~ses'.recentlyLogout
  <2>1. /\ ses' \in Sessions /\ Alike(ses', ses) /\ ses'.ready = ses.ready /\ ses'.logoutTime = r.logoutTime
        /\ ses'.tell = "none" /\ notes' = notes
    BY <1>3, <1>7, TellMoves DEF Alike
  <2>2. Sound(ses')
    BY <1>3, <1>7, <2>1 DEF Sound, Alike
  <2>3. \A q \in Pending : q.kind = "enum" => q \in Pending'
    BY <1>2, <1>7
  <2>4. Talk(Pending', client, notes', ses', net)
    BY <1>2, <1>3, <2>1, <2>3, TalkGoesOn
  <2> QED
    BY <1>3, <1>7, <2>1, <2>2, <2>4 DEF Alike
<1>8. ASSUME ses.player # 0, r = LogoutPlayer(ses), p.kind # "enum"
      PROVE  /\ r \in Sessions /\ ses' \in Sessions /\ notes' \in Seq(Notes) /\ Sound(ses')
             /\ Talk(Pending', client, notes', ses', net)
             /\ requeuePackets # <<>> => ses'.player = 0 /\ ~ses'.recentlyLogout
  <2>1. /\ r \in Sessions /\ r.player = 0 /\ ~r.inWorld /\ r.loading = 0 /\ ~r.ready
        /\ r.recentlyLogout /\ ~r.logoutTime /\ r.tell = "complete"
    BY <1>3, <1>8, LogoutMoves DEF Sound
  <2>2. /\ ses' \in Sessions /\ Alike(ses', r) /\ ses'.ready = r.ready /\ ses'.logoutTime = r.logoutTime
        /\ ses'.tell = "none" /\ notes' \in Seq(Notes) /\ notes' = Append(notes, "complete")
    BY <1>3, <2>1, TellMoves
  <2>3. Alike(ses, ses) /\ \A q \in Pending : q.kind = "enum" => q \in Pending'
    BY <1>2, <1>8 DEF Alike
  <2>4. Talk(Pending', client, notes, ses, net)
    BY <1>2, <1>3, <2>3, TalkGoesOn
  <2>5. Left(Pending', client, notes', net)
    BY <1>8, <2>2, <2>4, LogoutBegins DEF Talk
  <2>6. Talk(Pending', client, notes', ses', net)
    BY <2>1, <2>2, <2>4, <2>5 DEF Talk, Alike
  <2> QED
    BY <1>3, <1>8, <2>1, <2>2, <2>6 DEF Sound, Alike
<1>9. CASE p.kind = "enum"
  <2>1. r = [ses EXCEPT !.recentlyLogout = FALSE]
    BY <1>4, <1>9 DEF Handle
  <2>2. ses.player = 0 /\ ses.loading = 0 /\ ses.recentlyLogout /\ Idle(Pending', client, notes)
    BY <1>2, <1>3, <1>5, <1>9, EnumTalk
  <2>3. /\ r \in Sessions /\ r.player = 0 /\ r.loading = 0 /\ r.recentlyLogout = FALSE
        /\ r.inWorld = ses.inWorld /\ r.ready = ses.ready /\ r.logoutTime = ses.logoutTime /\ r.tell = "none"
    BY <1>3, <2>1, <2>2 DEF Sessions, Sound
  <2>4. /\ ses' \in Sessions /\ Alike(ses', r) /\ ses'.ready = r.ready /\ ses'.logoutTime = r.logoutTime
        /\ ses'.tell = "none" /\ notes' = notes
    BY <1>3, <2>3, TellMoves
  <2>5. Talk(Pending', client, notes', ses', net)
    BY <1>3, <2>2, <2>3, <2>4 DEF Talk, Alike
  <2> QED
    BY <1>3, <2>2, <2>3, <2>4, <2>5 DEF Sound, Alike
<1>10. CASE p.kind = "login"
  <2>1. /\ ses.player = 0 /\ ses.loading = 0 /\ ~ses.recentlyLogout /\ p.char # 0 /\ p.char = client.char
        /\ client.state = "play" /\ client.map = 0 /\ notes = <<>>
        /\ \A q \in Pending' : Fresh(q, client) /\ q.kind # "login"
    BY <1>2, <1>3, <1>5, <1>10, LoginHandled
  <2>2. r = [ses EXCEPT !.loading = p.char] /\ p.char \in Nat
    BY <1>2, <1>4, <1>10, <2>1 DEF Handle, NoPlayer, Packets
  <2>3. /\ r \in Sessions /\ r.player = 0 /\ r.loading = p.char /\ ~r.recentlyLogout
        /\ r.inWorld = ses.inWorld /\ r.ready = ses.ready /\ r.logoutTime = ses.logoutTime /\ r.tell = "none"
    BY <1>3, <2>1, <2>2 DEF Sessions, Sound
  <2>4. /\ ses' \in Sessions /\ Alike(ses', r) /\ ses'.ready = r.ready /\ ses'.logoutTime = r.logoutTime
        /\ ses'.tell = "none" /\ notes' = notes
    BY <1>3, <2>3, TellMoves
  <2>5. Entering(Pending', client, notes', ses')
    BY <2>1, <2>3, <2>4 DEF Entering, Alike
  <2>6. Talk(Pending', client, notes', ses', net)
    BY <2>1, <2>3, <2>4, <2>5 DEF Talk, Alike
  <2> QED
    BY <1>3, <2>1, <2>3, <2>4, <2>6 DEF Sound, Alike
<1>11. CASE p.kind \in {"safe", "inplace"}
  <2>1. r = ses
    BY <1>4, <1>11 DEF Handle
  <2> QED
    BY <1>3, <1>7, <1>11, <2>1 DEF Alike, Sound
<1>12. CASE p.kind = "unsafe"
  <2>1. ses.player # 0
    BY <1>4, <1>12 DEF Accepts, Status, NoPlayer
  <2>2. r = LogoutPlayer(ses) \/ \E later \in BOOLEAN : r = [ses EXCEPT !.logoutTime = later]
    BY <1>4, <1>12 DEF Handle
  <2>3. CASE \E later \in BOOLEAN : r = [ses EXCEPT !.logoutTime = later]
    <3>1. r \in Sessions /\ Alike(r, ses) /\ r.tell = ses.tell /\ r.ready = ses.ready
      BY <1>3, <2>3 DEF Sessions, Alike
    <3> QED
      BY <1>3, <1>7, <1>12, <2>1, <3>1 DEF Sound
  <2> QED
    BY <1>8, <1>12, <2>1, <2>2, <2>3
<1>13. CASE p.kind = "cancel"
  <2>1. r = ses \/ r = [ses EXCEPT !.logoutTime = FALSE]
    BY <1>4, <1>13 DEF Handle
  <2>2. r \in Sessions /\ Alike(r, ses) /\ r.tell = ses.tell /\ r.ready = ses.ready /\ (r.logoutTime => ses.logoutTime)
    BY <1>3, <2>1 DEF Sessions, Alike
  <2> QED
    BY <1>3, <1>7, <1>13, <2>2 DEF Sound
<1>14. CASE p.kind = "ack"
  <2>1. ses.player # 0 /\ ~ses.inWorld
    BY <1>4, <1>14 DEF Accepts, Status, NoPlayer
  <2>2. /\ Playing(Pending, client, notes, ses) /\ notes = <<>> /\ client.map = ses.map
        /\ \A q \in Pending' : q.kind # "ack" /\ q.map = ses.map
    BY <1>2, <1>3, <1>5, <1>14, <2>1 DEF Talk, Playing
  <2>3. /\ client.state = "play" /\ client.char = ses.player /\ client.char # 0
        /\ \A q \in Pending' : q.kind \notin {"enum", "login", "ack"} /\ q.char = ses.player
    BY <1>2, <2>1, <2>2 DEF Playing
  <2>4. r = [ses EXCEPT !.inWorld = TRUE] \/ r = LogoutPlayer(ses) \/ r \in TeleportFar(ses)
    BY <1>4, <1>14 DEF Handle
  <2>5. CASE r = [ses EXCEPT !.inWorld = TRUE]
    <3>1. /\ r \in Sessions /\ r.player = ses.player /\ r.inWorld /\ r.map = ses.map /\ r.loading = ses.loading
          /\ r.recentlyLogout = ses.recentlyLogout /\ r.ready = ses.ready
          /\ r.logoutTime = ses.logoutTime /\ r.tell = "none"
      BY <1>3, <2>5 DEF Sessions, Sound
    <3>2. /\ ses' \in Sessions /\ Alike(ses', r) /\ ses'.ready = r.ready /\ ses'.logoutTime = r.logoutTime
          /\ ses'.tell = "none" /\ notes' = notes
      BY <1>3, <3>1, TellMoves
    <3>3. Playing(Pending', client, notes', ses')
      BY <2>2, <2>3, <3>1, <3>2 DEF Playing, Alike
    <3>4. Sound(ses')
      BY <1>3, <2>1, <3>1, <3>2 DEF Sound, Alike
    <3>5. Talk(Pending', client, notes', ses', net)
      BY <1>3, <2>1, <2>3, <3>1, <3>2, <3>3, <3>4 DEF Talk, Alike, Sound
    <3> QED
      BY <1>3, <2>1, <3>1, <3>2, <3>4, <3>5
  <2>6. CASE r \in TeleportFar(ses)
    <3>1. /\ r \in Sessions /\ r.player = ses.player /\ ~r.inWorld /\ r.map = ses.map + 1 /\ r.loading = ses.loading
          /\ r.ready = ses.ready /\ r.recentlyLogout = ses.recentlyLogout /\ r.logoutTime = ses.logoutTime
          /\ r.tell = "newworld"
      BY <1>3, <2>6, TeleportMoves
    <3>2. /\ ses' \in Sessions /\ Alike(ses', r) /\ ses'.ready = r.ready /\ ses'.logoutTime = r.logoutTime
          /\ ses'.tell = "none" /\ notes' \in Seq(Notes) /\ notes' = Append(notes, "newworld")
      BY <1>3, <3>1, TellMoves
    <3>3. Playing(Pending', client, notes', ses')
      BY <1>3, <2>1, <2>2, <2>3, <3>1, <3>2, TransferBegins DEF Alike
    <3>4. Sound(ses')
      BY <1>3, <2>1, <3>1, <3>2 DEF Sound, Alike
    <3>5. Talk(Pending', client, notes', ses', net)
      BY <1>3, <2>1, <2>3, <3>1, <3>2, <3>3, <3>4 DEF Talk, Alike, Sound
    <3> QED
      BY <1>3, <2>1, <3>1, <3>2, <3>4, <3>5
  <2> QED
    BY <1>8, <1>14, <2>1, <2>4, <2>5, <2>6
<1> QED
  BY <1>6, <1>9, <1>10, <1>11, <1>12, <1>13, <1>14 DEF Kinds

(* A packet that is not handled: it is dropped, or set aside for a player  *)
(* who may still come.                                                     *)
LEMMA RefusedTalk ==
    ASSUME ConversationInv, HandlePacket, ~Accepts(Head(_recvQueue), ses), UNCHANGED <<ses, notes>>,
           requeuePackets' = IF Requeued(Head(_recvQueue), ses) THEN Append(requeuePackets, Head(_recvQueue))
                                                                ELSE requeuePackets
    PROVE  ConversationInv'
<1>1. /\ _recvQueue # <<>> /\ _recvQueue' = Tail(_recvQueue) /\ pc = "update" /\ pc' # "over"
      /\ UNCHANGED <<client, net, incoming>>
  BY DEF HandlePacket, MayProcess, netVars
<1>2. /\ Sound(ses) /\ Talk(Pending, client, notes, ses, net)
      /\ requeuePackets # <<>> => ses.player = 0 /\ ~ses.recentlyLogout
  BY <1>1 DEF ConversationInv, TalkInv
<1>3. CASE Requeued(Head(_recvQueue), ses)
  <2>1. /\ Pending' = Pending /\ requeuePackets' \in Seq(Packets) /\ _recvQueue' \in Seq(Packets)
        /\ OrderInv' /\ Waiting' = Waiting
    BY <1>1, <1>3, HeadSetAside DEF Requeued
  <2>2. ses.player = 0 /\ ~ses.recentlyLogout
    BY <1>3 DEF Requeued, NoPlayer
  <2> QED
    BY <1>1, <1>2, <2>1, <2>2 DEF ConversationInv, DataType, TalkInv
<1>4. CASE ~Requeued(Head(_recvQueue), ses)
  <2>1. /\ Head(_recvQueue) \in Pending /\ Head(_recvQueue) \in Packets /\ Pending' \subseteq Pending
        /\ \A q \in Pending : q = Head(_recvQueue) \/ q \in Pending'
        /\ _recvQueue' \in Seq(Packets) /\ OrderInv' /\ Waiting' = Waiting
    BY <1>1, <1>4, HeadLeaves
  <2>2. Head(_recvQueue).kind # "enum"
    BY DEF Accepts, Status
  <2>3. Alike(ses, ses) /\ \A q \in Pending : q.kind = "enum" => q \in Pending'
    BY <2>1, <2>2 DEF Alike
  <2>4. Talk(Pending', client, notes, ses, net)
    BY <1>2, <2>1, <2>3, TalkGoesOn
  <2> QED
    BY <1>1, <1>2, <1>4, <2>1, <2>4 DEF ConversationInv, DataType, TalkInv
<1> QED
  BY <1>3, <1>4

LEMMA HandlePacketTalk ==
    ASSUME ConversationInv, HandlePacket
    PROVE  ConversationInv'
<1>1. CASE Accepts(Head(_recvQueue), ses) /\ UNCHANGED requeuePackets /\ \E r \in Handle(Head(_recvQueue), ses) : Tell(r)
  BY <1>1, HandledTalk
<1>2. CASE /\ ~Accepts(Head(_recvQueue), ses) /\ UNCHANGED <<ses, notes>>
           /\ requeuePackets' = IF Requeued(Head(_recvQueue), ses) THEN Append(requeuePackets, Head(_recvQueue))
                                                                   ELSE requeuePackets
  BY <1>2, RefusedTalk
<1> QED
  BY <1>1, <1>2 DEF HandlePacket

-----------------------------------------------------------------------------
LEMMA Conversation == Spec => []ConversationInv
<1>1. Init => ConversationInv
  <2> SUFFICES ASSUME Init PROVE ConversationInv
    OBVIOUS
  <2>1. Waiting = {} /\ Pending = {}
    BY EmptyQueue DEF Init, Waiting, Pending
  <2>2. DataType
    BY <2>1 DEF Init, DataType, Clients, Sessions, Notes
  <2>3. OrderInv
    BY <2>1, EmptyQueue DEF Init, OrderInv, Before
  <2>4. Sound(ses) /\ Talk(Pending, client, notes, ses, net)
    BY <2>1 DEF Init, Sound, Talk, Idle, LoginOnce
  <2> QED
    BY <2>2, <2>3, <2>4 DEF Init, ConversationInv, TalkInv
<1>2. ConversationInv /\ IndInv /\ [Next]_vars => ConversationInv'
  <2> SUFFICES ASSUME ConversationInv, IndInv, [Next]_vars PROVE ConversationInv'
    OBVIOUS
  <2>1. CASE UNCHANGED vars
    <3>1. Waiting' = Waiting /\ ses \in Sessions
      BY <2>1 DEF vars, Waiting, ConversationInv, DataType
    <3> QED
      BY <2>1, <3>1, QuietStep DEF vars, clientVars, updateVars
  <2>2. CASE Client
    BY <2>2, LoginTalk, PlayTalk, ReadsComplete, ReadsTransfer DEF Client
  <2>3. CASE NetworkThread
    BY <2>3, QuietNetwork, QueuePacketTalk DEF NetworkThread
  <2>4. CASE Server
    BY <2>4, QuietServer, HandlePacketTalk, FinishUpdateTalk, EndUpdateTalk, DeleteSessionTalk DEF Server
  <2> QED
    BY <2>1, <2>2, <2>3, <2>4, QuietNetwork, QuietServer, TeleportTalk DEF Next
<1> QED
  BY <1>1, <1>2, Invariance, PTL DEF Spec

(* Packets of one status are handled in the order in which they were sent, *)
(* and none while another of its status is set aside                       *)
(* (WorldSession.cpp:345).                                                 *)
THEOREM InOrder == Spec => []HandledInOrder
<1>1. ConversationInv => HandledInOrder
  <2> SUFFICES ASSUME ConversationInv PROVE HandledInOrder
    OBVIOUS
  <2>1. Rising(requeuePackets \o _recvQueue)
    BY ConcatQueue DEF ConversationInv, DataType, OrderInv
  <2>2. ASSUME NEW i \in DOMAIN requeuePackets, NEW p, Handles(p)
        PROVE  Status(requeuePackets[i]) # Status(p)
    <3>1. pc = "update" /\ requeuePackets # <<>> /\ Accepts(p, ses)
      BY <2>2 DEF Handles
    <3>2. ses.player = 0
      BY <3>1 DEF ConversationInv, TalkInv
    <3>3. Status(p) # "loggedin"
      BY <3>1, <3>2 DEF Accepts, NoPlayer
    <3>4. Status(requeuePackets[i]) = "loggedin"
      BY <2>2 DEF ConversationInv, OrderInv, Elements
    <3> QED
      BY <3>3, <3>4
  <2> QED
    BY <2>1, <2>2 DEF HandledInOrder, Rising
<1> QED
  BY <1>1, Conversation, PTL

(* What a client sends for one character, and in one map, is never handled *)
(* for another character or in another map (WorldSession.cpp:342).         *)
THEOREM AsMeant == Spec => []HandledAsMeant
<1>1. ConversationInv => HandledAsMeant
  <2> SUFFICES ASSUME ConversationInv, NEW p, Handles(p) PROVE Meant(p, ses)
    BY DEF HandledAsMeant
  <2>1. pc = "update" /\ _recvQueue # <<>> /\ p = Head(_recvQueue) /\ Accepts(p, ses)
    BY DEF Handles, MayProcess
  <2>2. p \in Pending /\ p \in Packets
    BY <2>1, TailQueue DEF ConversationInv, DataType, Pending
  <2>3. Sound(ses) /\ Talk(Pending, client, notes, ses, net) /\ ses \in Sessions
    BY <2>1 DEF ConversationInv, TalkInv, DataType
  <2>4. p.kind \in Kinds
    BY <2>2 DEF Packets
  <2>5. CASE p.kind \in {"safe", "inplace", "unsafe"}
    <3>1. Status(p) = "loggedin"
      BY <2>5 DEF Status
    <3>2. ses.player # 0 /\ ses.inWorld
      BY <2>1, <3>1 DEF Accepts, NoPlayer
    <3>3. ses.player = p.char /\ ses.map = p.map
      BY <2>2, <2>3, <3>2 DEF Talk, Playing
    <3> QED
      BY <3>1, <3>3 DEF Meant
  <2>6. CASE p.kind = "ack"
    <3>1. Status(p) = "transfer"
      BY <2>6 DEF Status
    <3>2. ses.player # 0 /\ ~ses.inWorld
      BY <2>1, <3>1 DEF Accepts, NoPlayer
    <3>3. ses.player = p.char /\ ses.map = p.map
      BY <2>2, <2>3, <2>6, <3>2 DEF Talk, Playing
    <3> QED
      BY <2>6, <3>1, <3>3 DEF Meant
  <2>7. CASE p.kind = "cancel"
    <3>1. Status(p) = "recently"
      BY <2>7 DEF Status
    <3>2. ses.player \in {0, p.char}
      BY <2>2, <2>3 DEF Talk, Playing
    <3> QED
      BY <2>7, <3>1, <3>2 DEF Meant
  <2>8. CASE p.kind \in {"enum", "login"}
    <3>1. Status(p) = "authed"
      BY <2>8 DEF Status
    <3> QED
      BY <2>8, <3>1 DEF Meant
  <2> QED
    BY <2>4, <2>5, <2>6, <2>7, <2>8 DEF Kinds
<1> QED
  BY <1>1, Conversation, PTL

=============================================================================
