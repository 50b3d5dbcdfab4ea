---------------------------- MODULE WorldSessions ----------------------------
(***************************************************************************)
(* The sessions of the world server: AddSession_, the login queue and      *)
(* UpdateSessions of World, with the parts of WorldSession that decide     *)
(* when a session is let in, kicked, logged out and deleted.  The world    *)
(* thread runs one tick after another; between any two of its steps a      *)
(* network thread may hand over a new session or close a socket, and the   *)
(* database may answer the queries of InitializeSession and of a login.    *)
(* The rows `account`.online and `characters`.online are what they become  *)
(* when the statements issued so far have been executed in this order.     *)
(***************************************************************************)
EXTENDS Integers, FiniteSets, SequencesExt

CONSTANTS
    Accounts,
    Sessions,        \* WorldSession objects, each created at most once
    AccountOf,       \* the account a session is for
    Privileged,      \* accounts above SEC_PLAYER
    NoSession,
    InitialLimit, Limits,    \* m_playerLimit at first, and what commands set it to
    Tolerance,       \* CONFIG_INTERVAL_DISCONNECT_TOLERANCE, 0: off
    ExpireTicks,     \* expireTime in ticks
    MaxTime, MaxCommands    \* bounds on the clock and on commands

Never == -1

ASSUME SessionsAssumption ==
    /\ IsFiniteSet(Accounts) /\ NoSession \notin Sessions
    /\ AccountOf \in [Sessions -> Accounts]
    /\ Privileged \subseteq Accounts
    /\ InitialLimit \in Int /\ Limits \subseteq Int
    /\ Tolerance \in Nat /\ ExpireTicks \in Nat /\ MaxTime \in Nat

VARIABLES
    tick,            \* where World::Update is: rest, add, update; over at the end
    stopped,         \* the loop has ended and KickAll was called
    todo,            \* accounts UpdateSessions has still to update
    now,             \* WorldGameTime
    addSessQueue, m_sessions, m_QueuedPlayer, m_disconnects, m_playerLimit,
    session,         \* the WorldSession objects
    online,          \* accounts marked online in the database
    charOnline,      \* accounts with a character marked online
    commands,        \* how many there were
    limitMoved       \* history: the limit was changed while the queue was not empty

limitVars == <<m_playerLimit, limitMoved>>
dbVars    == <<online, charOnline>>
worldVars == <<addSessQueue, m_sessions, m_QueuedPlayer, m_disconnects>>
tickVars  == <<tick, stopped, todo, now>>
vars      == <<tickVars, worldVars, session, dbVars, commands, limitVars>>

-----------------------------------------------------------------------------
(* What is read off the state *)

Registered == {m_sessions[a] : a \in Accounts} \ {NoSession}
Size       == Cardinality(Registered)
Waiting    == ToSet(m_QueuedPlayer)

\* m_player while it is loaded or loading
PlayerLoading(r) == r.player = "loading"

\* told: the queue position of the last SMSG_AUTH_RESPONSE, 0 for AUTH_OK
NewSession == [life |-> "unborn", open |-> FALSE, m_inQueue |-> FALSE, forceExit |-> FALSE,
               player |-> "none", init |-> "no", expireTime |-> ExpireTicks, told |-> -1]

Alive(s) == session[s].life \in {"handed", "registered"}

GetPlayerAmountLimit == IF m_playerLimit >= 0 THEN m_playerLimit ELSE 0

\* difftime(then, now) of World.cpp:353 is never positive
HasRecentlyDisconnected(a) ==
    /\ Tolerance > 0
    /\ m_disconnects[a] # Never
    /\ m_disconnects[a] - now < Tolerance

GetQueuePos(q, s) == IF s \in ToSet(q) THEN CHOOSE i \in DOMAIN q : q[i] = s ELSE 0

-----------------------------------------------------------------------------
(* Parts of the handlers, as functions of session objects and of the queue *)

KickPlayer(r) == [r EXCEPT !.open = FALSE, !.forceExit = TRUE]

\* ~WorldSession, with LogoutPlayer
Deleted(r) == [NewSession EXCEPT !.life = "dead"]

InitializeSession(r) == [r EXCEPT !.init = "asked"]

\* Every session of q from position k on is told its place
SendPositions(ses, q, k) ==
    [s \in Sessions |-> IF GetQueuePos(q, s) >= k /\ s \in ToSet(q)
                        THEN [ses[s] EXCEPT !.told = GetQueuePos(q, s)] ELSE ses[s]]

\* GetActiveSessionCount without the session that leaves, unless it was queued
Mutant_ActiveWithout(active, found) == active
ActiveWithout(active, found) == IF found \/ active = 0 THEN active ELSE active - 1

\* A negative limit is converted to a large unsigned number
Mutant_MayAccept(sessions) == m_playerLimit <= 0 \/ sessions <= m_playerLimit
MayAccept(sessions) == m_playerLimit <= 0 \/ sessions < m_playerLimit

\* The first position that has changed
FirstMoved(accept, pos) == IF accept THEN 1 ELSE pos

RemoveQueuedPlayer(q, ses, size, s) ==
    LET pos    == GetQueuePos(q, s)
        found  == pos > 0
        rest   == IF found THEN RemoveAt(q, pos) ELSE q
        out    == IF found THEN [ses EXCEPT ![s].m_inQueue = FALSE] ELSE ses
        accept == MayAccept(ActiveWithout(size - Len(q), found)) /\ rest # <<>>
        queue  == IF accept THEN Tail(rest) ELSE rest
        let_in == IF accept THEN [out EXCEPT ![Head(rest)] = InitializeSession(@)] ELSE out
    IN  [queue |-> queue, found |-> found,
         session |-> IF accept \/ found
                     THEN SendPositions(let_in, queue, FirstMoved(accept, pos)) ELSE let_in]

\* Handlers of WorldSession::Update: the client has read AUTH_OK and asks for a character
HandlePlayerLoginOpcode(r) ==
    IF r.told = 0 /\ ~r.m_inQueue /\ r.player = "none" THEN [r EXCEPT !.player = "loading"] ELSE r

InitializeSessionCallback(r) ==
    IF r.init = "ready" THEN [r EXCEPT !.init = "done", !.told = 0, !.m_inQueue = FALSE] ELSE r

HandlePlayerLogin(r, loads) ==
    IF ~PlayerLoading(r) THEN r
    ELSE IF loads THEN [r EXCEPT !.player = "world"]
    ELSE [KickPlayer(r) EXCEPT !.player = "none"]

LogoutPlayer(r) == IF r.player = "world" THEN [r EXCEPT !.player = "none"] ELSE r

\* The end of Update: without a socket for too long, kicked, or without a player
Countdown(r) == IF r.open THEN r ELSE [r EXCEPT !.expireTime = IF @ > 1 THEN @ - 1 ELSE 0]

Leaves(r) == ~r.open /\ (r.expireTime < 1 \/ r.forceExit \/ r.player # "world")

-----------------------------------------------------------------------------
(* The network threads and the database *)

\* HandleAuthSessionCallback: the constructor issues its UPDATE, AddSession queues
Handshake(s) ==
    /\ session[s].life = "unborn" /\ tick # "over"
    /\ session' = [session EXCEPT ![s] = [@ EXCEPT !.life = "handed", !.open = TRUE]]
    /\ addSessQueue' = Append(addSessQueue, s)
    /\ online' = online \cup {AccountOf[s]}
    /\ UNCHANGED <<tickVars, m_sessions, m_QueuedPlayer, m_disconnects, charOnline, commands, limitVars>>

\* Socket::CloseSocket by the network thread
SocketCloses(s) ==
    /\ Alive(s) /\ session[s].open
    /\ session' = [session EXCEPT ![s].open = FALSE]
    /\ UNCHANGED <<tickVars, worldVars, dbVars, commands, limitVars>>

\* The query holder of InitializeSession has been executed
DbAnswersInit(s) ==
    /\ Alive(s) /\ session[s].init = "asked"
    /\ session' = [session EXCEPT ![s].init = "ready"]
    /\ UNCHANGED <<tickVars, worldVars, dbVars, commands, limitVars>>

-----------------------------------------------------------------------------
(* The world thread *)

\* _UpdateGameTime, at the start of World::Update
BeginUpdate ==
    /\ tick = "rest" /\ ~stopped
    /\ tick' = "add"
    /\ now' \in {t \in {now, now + 1} : t <= MaxTime}
    /\ UNCHANGED <<stopped, todo, worldVars, session, dbVars, commands, limitVars>>

AddSession_RemovesOld(q, ses, size, old) == RemoveQueuedPlayer(q, ses, size, old)

\* The statements of ~WorldSession
Mutant_Offline(flags, a) == flags
Offline(flags, a) == flags \ {a}

\* AddSession_ of a session whose account still loads a character: it is deleted at once
Refuse(s) ==
    /\ session' = [session EXCEPT ![s] = Deleted(KickPlayer(@))]
    /\ UNCHANGED <<m_sessions, m_QueuedPlayer, limitMoved>>

CountedSessions(size, found) == IF found THEN size ELSE size - 1

\* AddSession_ that replaces the account's session, if any, and then lets s in or queues it
Admit(s) ==
    LET a     == AccountOf[s]
        old   == m_sessions[a]
        none  == [queue |-> m_QueuedPlayer, session |-> session, found |-> FALSE]
        st    == IF old = NoSession THEN none
                 ELSE AddSession_RemovesOld(m_QueuedPlayer, [session EXCEPT ![old] = KickPlayer(@)],
                                            Size, old)
        size  == IF old = NoSession THEN Size + 1 ELSE Size
        gone  == [t \in Sessions |-> IF t = old THEN Deleted(st.session[t])
                                     ELSE IF t = s THEN [session[s] EXCEPT !.life = "registered"]
                                     ELSE st.session[t]]
        wait  == /\ GetPlayerAmountLimit > 0
                 /\ CountedSessions(size, st.found) >= GetPlayerAmountLimit
                 /\ a \notin Privileged
                 /\ ~HasRecentlyDisconnected(a)
    IN  /\ m_sessions' = [m_sessions EXCEPT ![a] = s]
        /\ m_QueuedPlayer' = IF wait THEN Append(st.queue, s) ELSE st.queue
        /\ session' = [gone EXCEPT ![s] =
                           IF wait THEN [@ EXCEPT !.m_inQueue = TRUE, !.told = Len(st.queue) + 1]
                           ELSE InitializeSession(@)]
        /\ limitMoved' = (limitMoved /\ m_QueuedPlayer' # <<>>)

AddSession_ ==
    /\ tick = "add" /\ addSessQueue # <<>>
    /\ LET s   == Head(addSessQueue)
           a   == AccountOf[s]
           old == m_sessions[a]
       IN  /\ IF old # NoSession /\ PlayerLoading(session[old]) THEN Refuse(s) ELSE Admit(s)
           /\ IF old # NoSession
              THEN online' = Offline(online, a) /\ charOnline' = Offline(charOnline, a)
              ELSE UNCHANGED dbVars
    /\ addSessQueue' = Tail(addSessQueue)
    /\ UNCHANGED <<tickVars, m_disconnects, commands, m_playerLimit>>

NothingToAdd ==
    /\ tick = "add" /\ addSessQueue = <<>>
    /\ tick' = "update"
    /\ todo' = {a \in Accounts : m_sessions[a] # NoSession}
    /\ UNCHANGED <<stopped, now, worldVars, session, dbVars, commands, limitVars>>

\* One session of UpdateSessions that stays
Stay(a, s, r) ==
    /\ session' = [session EXCEPT ![s] = r]
    /\ UNCHANGED <<m_sessions, m_QueuedPlayer, m_disconnects, limitMoved>>

\* One whose Update returned false: it is taken out of the queue twice, then deleted
Mutant_Drop(a, s, r) ==
    /\ session' = [session EXCEPT ![s] = Deleted(r)]
    /\ m_sessions' = [m_sessions EXCEPT ![a] = NoSession]
    /\ UNCHANGED <<m_QueuedPlayer, m_disconnects, limitMoved>>
Drop(a, s, r) ==
    LET first  == RemoveQueuedPlayer(m_QueuedPlayer, [session EXCEPT ![s] = r], Size, s)
        second == RemoveQueuedPlayer(first.queue, first.session, Size, s)
    IN  /\ m_QueuedPlayer' = second.queue
        /\ session' = [second.session EXCEPT ![s] = Deleted(@)]
        /\ m_sessions' = [m_sessions EXCEPT ![a] = NoSession]
        /\ m_disconnects' = IF ~first.found /\ Tolerance > 0
                            THEN [m_disconnects EXCEPT ![a] = now] ELSE m_disconnects
        /\ limitMoved' = (limitMoved /\ m_QueuedPlayer' # <<>>)

\* What UpdateSessions does with one account's session: the client may have been idle
\* for too long, asked for a character or logged out, and a login's queries may be
\* answered, whose character may not load.
UpdateSession(a) ==
    /\ tick = "update" /\ a \in todo
    /\ todo' = todo \ {a}
    /\ \E idle, login, answered, loads, logout \in BOOLEAN :
         LET s == m_sessions[a]
             r0 == session[s]
             r1 == IF idle THEN [r0 EXCEPT !.open = FALSE] ELSE r0
             r2 == IF login THEN HandlePlayerLoginOpcode(r1) ELSE r1
             r3 == InitializeSessionCallback(r2)
             r4 == IF answered THEN HandlePlayerLogin(r3, loads) ELSE r3
             r5 == IF logout THEN LogoutPlayer(r4) ELSE r4
             r6 == Countdown(r5)
             in == r4.player = "world" /\ r0.player # "world"
         IN  /\ idle => r0.open /\ ~r0.m_inQueue
             /\ login => r2 # r1
             /\ answered => r3.player = "loading"
             /\ loads => answered
             /\ logout => r4.player = "world"
             /\ IF Leaves(r6) THEN Drop(a, s, r6) ELSE Stay(a, s, r6)
             /\ online' = IF Leaves(r6) THEN Offline(online, a)
                          ELSE IF in THEN online \cup {a} ELSE online
             /\ charOnline' = IF Leaves(r6) \/ (logout /\ r4.player = "world") THEN Offline(charOnline, a)
                              ELSE IF in THEN charOnline \cup {a} ELSE charOnline
    /\ UNCHANGED <<tick, stopped, now, addSessQueue, commands, m_playerLimit>>

\* UpdateSessions returns, in the loop or for the last time
EndUpdate ==
    /\ tick = "update" /\ todo = {}
    /\ tick' = IF stopped THEN "over" ELSE "rest"
    /\ UNCHANGED <<stopped, todo, now, worldVars, session, dbVars, commands, limitVars>>

\* A command, a ban or a check of the packets' rate kicks a session
Kick(a) ==
    /\ tick \in {"rest", "update"} /\ ~stopped
    /\ m_sessions[a] # NoSession /\ commands < MaxCommands
    /\ session' = [session EXCEPT ![m_sessions[a]] = KickPlayer(@)]
    /\ commands' = commands + 1
    /\ UNCHANGED <<tickVars, worldVars, dbVars, limitVars>>

\* The command plimit
SetPlayerLimit(limit) ==
    /\ tick \in {"rest", "update"} /\ ~stopped
    /\ limit # m_playerLimit /\ commands < MaxCommands
    /\ m_playerLimit' = limit
    /\ commands' = commands + 1
    /\ limitMoved' = (limitMoved \/ m_QueuedPlayer # <<>>)
    /\ UNCHANGED <<tickVars, worldVars, session, dbVars>>

\* The end of main: KickAll, then the last UpdateSessions
Mutant_KickAll(ses) == ses
KickAll(ses) == [s \in Sessions |-> IF s \in Registered THEN KickPlayer(ses[s]) ELSE ses[s]]

Shutdown ==
    /\ tick = "rest" /\ ~stopped
    /\ stopped' = TRUE /\ tick' = "add"
    /\ session' = KickAll(session)
    /\ m_QueuedPlayer' = <<>> /\ limitMoved' = FALSE
    /\ UNCHANGED <<todo, now, addSessQueue, m_sessions, m_disconnects, dbVars, commands, m_playerLimit>>

-----------------------------------------------------------------------------
Init ==
    /\ tick = "rest" /\ stopped = FALSE /\ todo = {} /\ now = 0
    /\ addSessQueue = <<>> /\ m_QueuedPlayer = <<>>
    /\ m_sessions = [a \in Accounts |-> NoSession]
    /\ m_disconnects = [a \in Accounts |-> Never]
    /\ session = [s \in Sessions |-> NewSession]
    /\ online = {} /\ charOnline = {}
    /\ m_playerLimit = InitialLimit
    /\ commands = 0 /\ limitMoved = FALSE

WorldThread ==
    \/ BeginUpdate \/ AddSession_ \/ NothingToAdd \/ EndUpdate
    \/ \E a \in Accounts : UpdateSession(a)

\* After the last UpdateSessions only what the network threads still do is left
Finished == tick = "over" /\ UNCHANGED vars

Next ==
    \/ WorldThread
    \/ \E s \in Sessions : Handshake(s) \/ SocketCloses(s) \/ DbAnswersInit(s)
    \/ \E a \in Accounts : Kick(a)
    \/ \E limit \in Limits : SetPlayerLimit(limit)
    \/ Shutdown
    \/ Finished

Spec == Init /\ [][Next]_vars

-----------------------------------------------------------------------------
(* Properties *)

\* No pointer dangles: the map and the login queue hold living sessions only, each
\* waiting session is the one its account is registered with and waits once, and it
\* was last told the place it has (World.cpp:386, whatever leaves or reconnects).
QueueSound ==
    /\ \A a \in Accounts : m_sessions[a] # NoSession =>
         session[m_sessions[a]].life = "registered" /\ AccountOf[m_sessions[a]] = a
    /\ \A i \in DOMAIN m_QueuedPlayer : LET s == m_QueuedPlayer[i] IN
         /\ m_sessions[AccountOf[s]] = s
         /\ session[s].told = i /\ session[s].m_inQueue /\ session[s].init = "no"
         /\ \A j \in DOMAIN m_QueuedPlayer : m_QueuedPlayer[j] = s => j = i

Active == Registered \ Waiting

\* No slot stays free while sessions wait, as long as the limit was not moved under
\* them: RemoveQueuedPlayer lets the next one in for everyone who leaves, although it
\* is called twice for a session that is removed (World.cpp:2762).
NoIdleSlot ==
    m_QueuedPlayer # <<>> /\ ~limitMoved => Cardinality(Active) >= GetPlayerAmountLimit

\* The session is past the login queue now and was not before
LetIn(s) == session[s].init = "no" /\ session'[s].init = "asked"

\* It need not wait: a game master, or an account that was disconnected before
MayPass(s) == AccountOf[s] \in Privileged \/ HasRecentlyDisconnected(AccountOf[s])

\* Whoever is let in takes a free slot, and does so before everyone behind him in the
\* queue only, also when a session is replaced and another one pops in the same call.
LetInInTurn ==
    [][\A s \in Sessions : LetIn(s) /\ ~MayPass(s) =>
          /\ m_playerLimit > 0 =>
               Cardinality(Active' \ {t \in Sessions : LetIn(t) /\ MayPass(t)}) <= m_playerLimit
          /\ limitMoved \/ \A w \in Waiting \cap Waiting' :
               s \in Waiting /\ GetQueuePos(m_QueuedPlayer, s) < GetQueuePos(m_QueuedPlayer, w)
      ]_vars

\* The database shows every character in the world as online, although statements for
\* one account are issued by an old session's destructor and a new one's constructor,
\* and shows nobody as online who has no session (WorldSession.cpp:137 and 165).
OnlineFlags ==
    \A a \in Accounts :
        /\ m_sessions[a] # NoSession /\ session[m_sessions[a]].player = "world" =>
             a \in online /\ a \in charOnline
        /\ (\A s \in Sessions : AccountOf[s] = a => ~Alive(s)) => a \notin online \cup charOnline

\* When main has called KickAll and UpdateSessions for the last time, no character is
\* left in the world: all were logged out, and so saved (Main.cpp:320).
AllSavedAtShutdown ==
    tick = "over" => \A s \in Sessions : session[s].player # "world"
=============================================================================
