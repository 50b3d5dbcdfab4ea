----------------------------- MODULE InstanceSaves -----------------------------
(***************************************************************************)
(* The saves of the instances of one dungeon in one difficulty, and what    *)
(* is bound to them: InstanceSaveManager, InstanceMap, MapInstanced, and    *)
(* the parts of Player, Group and the handlers that bind, unbind and reset. *)
(* Everything happens on the world thread or with a map thread alone in the *)
(* map, one handler after another, so a handler is one action; its calls    *)
(* are functions of the state g, in the order of the code.                  *)
(***************************************************************************)
EXTENDS Integers, FiniteSets, FiniteSetsExt, SequencesExt

CONSTANTS
    Players,
    MaxId,     \* bound: instance ids are 1 .. MaxId
    NoPlayer

ASSUME SavesAssumption == IsFiniteSet(Players) /\ MaxId \in Nat /\ NoPlayer \notin Players

SaveIds == 1 .. MaxId
Outside == 0         \* everywhere but in this dungeon

VARIABLES
    heroic,          \* the difficulty
    g                \* the state that the functions of the code are handed on

\* g.save[i]: the InstanceSave of id i with its two lists, if alive; g.bind[p] and
\* g.gbind: m_boundInstances of a player and of the group; g.loaded: m_InstancedMaps;
\* g.spent: maps with m_resetAfterUnload; g.events: ids with a type 0 event in
\* m_resetTimeQueue; g.at[p]: where p is, or was saved; g.members, g.leader: the group;
\* g.used: ids generated and not freed; g.charRow, g.instRow: the tables
\* character_instance and instance; g.aborted: an assertion has failed.
savesVars == <<heroic, g>>

NoSave == [alive |-> FALSE, players |-> {}, group |-> FALSE, canReset |-> TRUE]
NoBind == [save |-> 0, perm |-> FALSE]

-----------------------------------------------------------------------------
(* Saves and binds *)

\* m_mapRefManager: a player is linked from SetMap to ResetMap, transfers included
Inside(s, i)      == {p \in s.online : s.at[p] = i}
HavePlayers(s, i) == Inside(s, i) # {}

Grouped(s, p) == p \in s.members

\* Wrong: the save is deleted while players are inside
Mutant_UnloadIfEmpty(s, i) ==
    IF s.save[i].players = {} /\ ~s.save[i].group THEN [s EXCEPT !.save[i] = NoSave] ELSE s

UnloadIfEmpty(s, i) ==
    IF s.save[i].players = {} /\ ~s.save[i].group /\ ~HavePlayers(s, i)
    THEN [s EXCEPT !.save[i] = NoSave] ELSE s

RemovePlayer(s, p, i) == UnloadIfEmpty([s EXCEPT !.save[i].players = @ \ {p}], i)
RemoveGroup(s, i)     == UnloadIfEmpty([s EXCEPT !.save[i].group = FALSE], i)

DeleteFromDB(s, i) ==
    [s EXCEPT !.instRow = @ \ {i}, !.charRow = [p \in Players |-> [@[p] EXCEPT ![i] = "none"]]]

\* A save that is not loaded from its row is written, and scheduled if it is new
AddInstanceSave(s, i, canReset, load) ==
    IF s.save[i].alive THEN s
    ELSE [s EXCEPT !.save[i] = [NoSave EXCEPT !.alive = TRUE, !.canReset = canReset],
                   !.instRow = IF load THEN @ ELSE @ \cup {i},
                   !.events  = IF load \/ heroic THEN @ ELSE @ \cup {i}]

UnbindPlayer(s, p, unload) ==
    LET i    == s.bind[p].save
        rows == IF unload THEN s ELSE [s EXCEPT !.charRow[p][i] = "none"]
    IN  IF s.bind[p] = NoBind THEN s
        ELSE [RemovePlayer(rows, p, i) EXCEPT !.bind[p] = NoBind]

RowKind(perm) == IF perm THEN "perm" ELSE "soft"

\* UPDATE of the row of the old bind; it fails if there is a row for the new one
MoveRow(rows, from, to, perm) ==
    IF rows[from] = "none" \/ (from # to /\ rows[to] # "none") THEN rows
    ELSE [rows EXCEPT ![from] = "none", ![to] = RowKind(perm)]

BindPlayer(s, p, i, perm, load) ==
    LET old  == s.bind[p]
        rows == IF load THEN s
                ELSE IF old = NoBind THEN [s EXCEPT !.charRow[p][i] = RowKind(perm)]
                ELSE [s EXCEPT !.charRow[p] = MoveRow(@, old.save, i, perm)]
        left == IF old = NoBind \/ old.save = i THEN rows ELSE RemovePlayer(rows, p, old.save)
    IN  [left EXCEPT !.save[i].players = @ \cup {p},
                     !.save[i].canReset = @ /\ ~perm,
                     !.bind[p] = [save |-> i, perm |-> perm]]

\* Wrong: the group stays on the list of the save it was bound to before
Mutant_BindGroup(s, i, perm) ==
    [s EXCEPT !.save[i].group = TRUE, !.gbind = [save |-> i, perm |-> perm]]

BindGroup(s, i, perm) ==
    LET old  == s.gbind
        left == IF old = NoBind \/ old.save = i THEN s ELSE RemoveGroup(s, old.save)
    IN  [left EXCEPT !.save[i].group = TRUE, !.gbind = [save |-> i, perm |-> perm]]

UnbindGroup(s) ==
    IF s.gbind = NoBind THEN s ELSE [RemoveGroup(s, s.gbind.save) EXCEPT !.gbind = NoBind]

-----------------------------------------------------------------------------
(* Maps *)

SetResetSchedule(s, i, on) ==
    IF heroic \/ HavePlayers(s, i) \/ ~s.save[i].alive THEN s
    ELSE [s EXCEPT !.events = IF on THEN @ \cup {i} ELSE @ \ {i}]

\* InstanceMap::Reset of a loaded map, and whether it is empty
Reset(s, i, method) ==
    IF i \in s.loaded /\ (method # "all" \/ ~HavePlayers(s, i))
    THEN [s EXCEPT !.spent = @ \cup {i}] ELSE s
Empty(s, i) == i \notin s.loaded \/ ~HavePlayers(s, i)

\* FindInstanceMap, CreateInstance
LoadMap(s, i) ==
    IF i \in s.loaded THEN s ELSE [s EXCEPT !.loaded = @ \cup {i}, !.spent = @ \ {i}]

GenerateId(s) == CHOOSE i \in SaveIds \ s.used : \A j \in SaveIds \ s.used : i <= j

\* Wrong: the bind of the group goes before a lockout
Mutant_GetInstanceSave(s, p) ==
    IF Grouped(s, p) /\ s.gbind # NoBind THEN s.gbind.save ELSE s.bind[p].save

\* Player::GetInstanceSave, as an id
GetInstanceSave(s, p) ==
    IF ~s.bind[p].perm /\ Grouped(s, p) /\ s.gbind # NoBind THEN s.gbind.save
    ELSE s.bind[p].save

\* Where CreateInstanceForPlayer leads at a login: nowhere, if it would need a new id
LoginTarget(s, p, i) ==
    IF s.bind[p].perm THEN s.bind[p].save
    ELSE IF i \in s.loaded \/ i = s.bind[p].save \/ (Grouped(s, p) /\ i = s.gbind.save) THEN i
    ELSE Outside

\* CreateInstanceForPlayer otherwise: solo binds end where the group's bind leads
Target(s, p) == IF GetInstanceSave(s, p) # 0 THEN GetInstanceSave(s, p) ELSE GenerateId(s)
CreateInstanceForPlayer(s, p) ==
    LET i     == Target(s, p)
        alone == IF ~s.bind[p].perm /\ Grouped(s, p) /\ s.gbind # NoBind
                 THEN UnbindPlayer(s, p, FALSE) ELSE s
    IN  LoadMap([alone EXCEPT !.used = @ \cup {i}], i)

Abort(s) == [s EXCEPT !.aborted = TRUE]

SetMap(s, p, i) == [s EXCEPT !.online = @ \cup {p}, !.at[p] = i]

\* The player has been linked to map i.  The binds of InstanceMap::AddPlayerToMap:
BindOnEntry(s, p, i) ==
    IF s.bind[p].perm THEN (IF s.bind[p].save # i THEN Abort(s) ELSE s)
    ELSE IF ~Grouped(s, p)
    THEN (IF s.bind[p] = NoBind THEN BindPlayer(s, p, i, FALSE, FALSE)
          ELSE IF s.bind[p].save # i THEN Abort(s) ELSE s)
    ELSE IF s.gbind = NoBind THEN BindGroup(s, i, FALSE)
    ELSE IF s.gbind.save # i THEN Abort(s)
    ELSE IF s.gbind.perm THEN BindPlayer(s, p, i, TRUE, FALSE)
    ELSE s

\* It returns false for a member with a solo bind elsewhere
Refused(s, p, i) == Grouped(s, p) /\ ~s.bind[p].perm /\ s.bind[p].save \notin {0, i}

AddPlayerToMap(s, p, i) ==
    LET saved == AddInstanceSave(s, i, TRUE, FALSE)
        bound == SetResetSchedule(BindOnEntry(saved, p, i), i, FALSE)
    IN  IF Refused(s, p, i) THEN SetMap(saved, p, Outside)
        ELSE [bound EXCEPT !.spent = @ \ {i}]

RemovePlayerFromMap(s, p) == SetResetSchedule(s, s.at[p], TRUE)

-----------------------------------------------------------------------------
(* Resets *)

\* Player::ResetInstances
ResetSolo(s, p, method) ==
    LET i    == s.bind[p].save
        done == Reset(s, i, method)
    IN  IF s.bind[p] = NoBind \/ ~s.save[i].canReset \/ (method = "all" /\ heroic) THEN s
        ELSE IF ~Empty(s, i) THEN done
        ELSE RemovePlayer([DeleteFromDB(done, i) EXCEPT !.bind[p] = NoBind], p, i)

\* Group::ResetInstances
ResetGroup(s, method) ==
    LET i     == s.gbind.save
        free  == s.save[i].canReset
        empty == ~free \/ Empty(s, i)
        done  == IF free THEN Reset(s, i, method) ELSE s
        rows  == IF empty /\ free THEN DeleteFromDB(done, i) ELSE done
    IN  IF \/ s.gbind = NoBind
           \/ ~free /\ method # "disband"
           \/ method = "all" /\ heroic
        THEN s
        ELSE IF ~empty /\ method = "all" THEN done
        ELSE RemoveGroup([rows EXCEPT !.gbind = NoBind], i)

\* _ResetSave: who is bound for good keeps his bind, and the save stays for him
ResetSave(s, i) ==
    LET stay  == {p \in s.save[i].players : s.bind[p].perm}
        gone  == s.save[i].players \ stay
        wrong == \E p \in s.save[i].players : s.bind[p] # NoBind /\ s.bind[p].save # i
    IN  IF ~s.save[i].alive THEN s
        ELSE [s EXCEPT !.save[i] = IF stay = {} THEN NoSave
                                   ELSE [@ EXCEPT !.players = stay, !.group = FALSE],
                       !.bind  = [p \in Players |-> IF p \in gone THEN NoBind ELSE @[p]],
                       !.gbind = IF s.save[i].group THEN NoBind ELSE @,
                       !.aborted = @ \/ wrong]

-----------------------------------------------------------------------------
(* Groups *)

\* ConvertLeaderInstancesToGroup
TakeOver(s, p) ==
    LET i == s.at[p]
    IN  IF /\ i # Outside /\ ~heroic
           /\ s.save[i].alive /\ ~s.save[i].group /\ s.save[i].players = {}
        THEN BindGroup(s, i, FALSE) ELSE s

Convert(s, p, switch) ==
    LET b     == s.bind[p]
        bound == IF b # NoBind /\ (~switch \/ s.gbind = NoBind)
                 THEN BindGroup(s, b.save, b.perm) ELSE s
    IN  IF switch THEN (IF b.perm THEN bound ELSE UnbindPlayer(bound, p, TRUE))
        ELSE TakeOver(bound, p)

JoinGroup(s, p) == ResetSolo([s EXCEPT !.members = @ \cup {p}], p, "join")

ChangeLeader(s, p) ==
    LET loose == s.gbind.perm /\ s.gbind.save \notin s.loaded
        free  == IF loose THEN UnbindGroup(s) ELSE s
    IN  [Convert(free, p, TRUE) EXCEPT !.leader = p]

Disband(s) == ResetGroup([s EXCEPT !.members = {}, !.leader = NoPlayer], "disband")

\* The rest of the group after p was taken out; m_memberMgr counts those who are online
AfterRemoval(s, p) ==
    LET rest == [s EXCEPT !.members = @ \ {p}]
        heirs == IF s.leader = p THEN rest.members \cap s.online ELSE {}
        led  == IF heirs = {} THEN {rest} ELSE {ChangeLeader(rest, q) : q \in heirs}
    IN  IF Cardinality(rest.members \cap s.online) < 2 THEN {Disband(r) : r \in led} ELSE led

RemoveMember(s, p) == IF Cardinality(s.members) > 2 THEN AfterRemoval(s, p) ELSE {Disband(s)}

-----------------------------------------------------------------------------
(* Players come and go *)

CanLoad(p) == g.bind[p] # NoBind \/ (Grouped(g, p) /\ g.gbind # NoBind) \/ SaveIds \ g.used # {}

\* TeleportTo and HandleMoveWorldportAck to the dungeon; the new map may be full or fighting
Enter(p) ==
    /\ p \in g.online /\ g.at[p] = Outside /\ CanLoad(p)
    /\ LET i == Target(g, p)
           s == CreateInstanceForPlayer(g, p)
       IN  g' \in {s, AddPlayerToMap(SetMap(s, p, i), p, i)}
    /\ UNCHANGED heroic

\* By himself, dead, sent home by the homebind timer or by RemoveAllPlayers
Leave(p) ==
    /\ p \in g.online /\ g.at[p] # Outside
    /\ g' = SetMap(RemovePlayerFromMap(g, p), p, Outside)
    /\ UNCHANGED heroic

\* LogoutPlayer, which first sends home whoever is in an invalid instance; the object
\* is unbound while it is still linked to the map
Logout(p) ==
    /\ p \in g.online
    /\ \E s \in {g, SetMap(RemovePlayerFromMap(g, p), p, Outside)} :
         LET left    == IF s.at[p] = Outside THEN s ELSE RemovePlayerFromMap(s, p)
             unbound == UnbindPlayer(left, p, TRUE)
         IN  g' = [unbound EXCEPT !.online = @ \ {p}]
    /\ UNCHANGED heroic

\* One row of _LoadBoundInstances; without its row in instance it names no dungeon.
\* The rows come in no particular order
LoadBind(s, p, i) ==
    LET kind == s.charRow[p][i]
        perm == kind = "perm"
    IN  IF kind = "none" \/ i \notin s.instRow THEN s
        ELSE IF ~perm /\ Grouped(s, p) THEN [s EXCEPT !.charRow[p][i] = "none"]
        ELSE BindPlayer(AddInstanceSave(s, i, ~perm, TRUE), p, i, perm, TRUE)

LoadBoundInstances(s, p) == FoldSet(LAMBDA i, t : LoadBind(t, p, i), s, SaveIds)

\* Wrong: always to the instance the player was saved in
Mutant_InstanceAtLogin(s, p) == s.at[p]

InstanceAtLogin(s, p) == IF GetInstanceSave(s, p) # 0 THEN GetInstanceSave(s, p) ELSE s.at[p]

\* LoadFromDB and the end of HandlePlayerLogin
Login(p) ==
    /\ p \notin g.online
    /\ LET s     == LoadBoundInstances(g, p)
           i     == LoginTarget(s, p, InstanceAtLogin(s, p))
           in    == LoadMap(s, i)
       IN  IF g.at[p] = Outside \/ i = Outside THEN g' = SetMap(s, p, Outside)
           ELSE g' \in {SetMap(in, p, Outside), AddPlayerToMap(SetMap(in, p, i), p, i)}
    /\ UNCHANGED heroic

-----------------------------------------------------------------------------
(* Handlers and the world's updates *)

\* The group has a place; it is created by the first who accepts
HandleGroupAcceptOpcode(p, leader) ==
    /\ p \in g.online /\ p # leader /\ ~Grouped(g, p)
    /\ leader = g.leader \/ (g.members = {} /\ leader \in g.online)
    /\ LET s == IF g.members # {} THEN g
                ELSE [Convert(g, leader, FALSE) EXCEPT !.members = {leader}, !.leader = leader]
       IN  g' = JoinGroup(s, p)
    /\ UNCHANGED heroic

\* Left, or uninvited by the leader, who may do so when p is offline
LeaveGroup(p) ==
    /\ Grouped(g, p)
    /\ g' \in RemoveMember(g, p)
    /\ UNCHANGED heroic

\* HandleGroupSetLeaderOpcode, or Group::Update when the leader is away for too long
SetLeader(p) ==
    /\ Grouped(g, p) /\ p \in g.online /\ p # g.leader
    /\ g' = ChangeLeader(g, p)
    /\ UNCHANGED heroic

ResetAllowed(p) == p \in g.online /\ (Grouped(g, p) => p = g.leader)

HandleResetInstancesOpcode(p) ==
    /\ ResetAllowed(p)
    /\ g' = IF Grouped(g, p) THEN ResetGroup(g, "all") ELSE ResetSolo(g, p, "all")
    /\ UNCHANGED heroic

\* To the other difficulty, and sooner or later back
HandleSetDungeonDifficultyOpcode(p) ==
    /\ ResetAllowed(p)
    /\ \A q \in {p} \cup (IF Grouped(g, p) THEN g.members \cap g.online ELSE {}) :
         g.at[q] = Outside
    /\ g' = IF Grouped(g, p) THEN ResetGroup(g, "change") ELSE ResetSolo(g, p, "change")
    /\ UNCHANGED heroic

\* A boss dies in a heroic instance
PermBind(s, p, i) ==
    LET bound == BindPlayer(s, p, i, TRUE, FALSE)
    IN  IF s.bind[p].perm THEN s
        ELSE IF Grouped(s, p) /\ s.leader = p THEN BindGroup(bound, i, TRUE) ELSE bound

PermBindAllPlayers(i) ==
    /\ heroic /\ HavePlayers(g, i) /\ g.save[i].alive
    /\ g' = FoldSet(LAMBDA p, s : PermBind(s, p, i), g, Inside(g, i))
    /\ UNCHANGED heroic

\* InstanceSaveManager::Update with an event of type 0, of which there may be another
_ResetInstance(i) ==
    /\ i \in g.events
    /\ \E rest \in {g.events, g.events \ {i}} :
         g' = [Reset(DeleteFromDB(ResetSave(g, i), i), i, "delay")
                 EXCEPT !.used = @ \ {i}, !.events = rest]
    /\ UNCHANGED heroic

\* _ResetOrWarnAll, through ForceGlobalReset or an event of type 4: the rows of the
\* dungeon, the loaded saves, the loaded maps.  While LoadResetTimes returns at once,
\* nothing schedules such an event
GlobalReset ==
    /\ heroic
    /\ LET rows  == FoldSet(LAMBDA i, s : DeleteFromDB(s, i), g, g.instRow)
           saves == FoldSet(LAMBDA i, s : ResetSave(s, i), rows, SaveIds)
       IN  g' = [saves EXCEPT !.spent = g.loaded]
    /\ UNCHANGED heroic

\* MapInstanced::Update destroys a map whose unload timer has run out
DestroyInstance(i) ==
    /\ i \in g.loaded /\ ~HavePlayers(g, i)
    /\ g' = [g EXCEPT !.loaded = @ \ {i}, !.spent = @ \ {i}]
    /\ UNCHANGED heroic

-----------------------------------------------------------------------------
SavesInit ==
    /\ heroic \in BOOLEAN
    /\ g = [save |-> [i \in SaveIds |-> NoSave],
            bind |-> [p \in Players |-> NoBind], gbind |-> NoBind,
            loaded |-> {}, spent |-> {}, events |-> {}, at |-> [p \in Players |-> Outside],
            online |-> {}, members |-> {}, leader |-> NoPlayer, used |-> {},
            charRow |-> [p \in Players |-> [i \in SaveIds |-> "none"]], instRow |-> {},
            aborted |-> FALSE]

SavesNext ==
    \/ \E p \in Players :
         \/ Enter(p) \/ Leave(p) \/ Logout(p) \/ Login(p)
         \/ LeaveGroup(p) \/ SetLeader(p)
         \/ HandleResetInstancesOpcode(p) \/ HandleSetDungeonDifficultyOpcode(p)
         \/ \E q \in Players : HandleGroupAcceptOpcode(p, q)
    \/ \E i \in SaveIds : PermBindAllPlayers(i) \/ _ResetInstance(i) \/ DestroyInstance(i)
    \/ GlobalReset

SavesSpec == SavesInit /\ [][SavesNext]_savesVars

-----------------------------------------------------------------------------
(* Properties *)

\* The two sides of a bind agree: a save that somebody is bound to is alive and lists
\* him, and lists nobody else, so that it is deleted with nobody left on its lists
\* (InstanceSaveMgr.cpp:161) and a reset unbinds exactly those who are bound (537).
SavesAndBindsAgree ==
    \A i \in SaveIds :
        /\ \A p \in Players : p \in g.save[i].players <=> g.bind[p].save = i
        /\ g.save[i].group <=> g.gbind.save = i
        /\ g.save[i].players # {} \/ g.save[i].group => g.save[i].alive

\* No assertion of AddPlayerToMap or _ResetSave fails: nobody is ever put into another
\* instance than the one he, or his group, is bound to (Map.cpp:2973, 3013, 3042).
NeverAborts == ~g.aborted

\* Whoever is locked to an instance is in no other one.
LockoutHolds ==
    \A p \in g.online : g.bind[p].perm => g.at[p] \in {Outside, g.bind[p].save}

\* While players are inside, the instance has a save unless it was reset under them
\* ("don't remove the save if there are still players inside the map").
SaveWhileOccupied ==
    \A i \in SaveIds : HavePlayers(g, i) => i \in g.loaded /\ (g.save[i].alive \/ i \in g.spent)

\* "instances cannot be reset (except at the global reset time) if there are players
\* permanently bound to it" (InstanceSaveMgr.h:94), also when they are offline.
LockoutsNotReset ==
    [][\/ GlobalReset
       \/ \A i \in g.instRow \ g'.instRow, p \in Players : g.charRow[p][i] # "perm"]_savesVars
=============================================================================
