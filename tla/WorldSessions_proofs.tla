------------------------- MODULE WorldSessions_proofs -------------------------
(***************************************************************************)
(* Theorems about WorldSessions, for any accounts, sessions and limits.    *)
(***************************************************************************)
EXTENDS WorldSessions, SequenceTheorems, FiniteSetTheorems, TLAPS

Object == [life : {"unborn", "handed", "registered", "dead"}, open : BOOLEAN, m_inQueue : BOOLEAN,
           forceExit : BOOLEAN, player : {"none", "loading", "world"},
           init : {"no", "asked", "ready", "done"}, expireTime : Nat, told : Int]

SessionsType ==
    /\ tick \in {"rest", "add", "update", "over"} /\ stopped \in BOOLEAN /\ limitMoved \in BOOLEAN
    /\ todo \subseteq Accounts /\ now \in Nat /\ m_playerLimit \in Int
    /\ addSessQueue \in Seq(Sessions) /\ m_QueuedPlayer \in Seq(Sessions)
    /\ m_sessions \in [Accounts -> Sessions \cup {NoSession}]
    /\ m_disconnects \in [Accounts -> Int]
    /\ session \in [Sessions -> Object]
    /\ online \subseteq Accounts /\ charOnline \subseteq Accounts

(* A session is handed over once and then waits in addSessQueue; it is     *)
(* registered as long as the map holds it for its account.  Before and     *)
(* after it has no player and was never let in.                            *)
LifeInv ==
    /\ IsInjective(addSessQueue)
    /\ \A s \in Sessions : session[s].life = "handed" <=> s \in ToSet(addSessQueue)
    /\ \A s \in Sessions : session[s].life = "registered" <=> m_sessions[AccountOf[s]] = s
    /\ \A a \in Accounts : m_sessions[a] # NoSession => AccountOf[m_sessions[a]] = a
    /\ \A s \in Sessions : session[s].life # "registered" =>
           session[s].player = "none" /\ session[s].told = -1 /\ session[s].init = "no"

(* The sessions of a queue know the places they have in it.                *)
InPlace(q, ses) ==
    /\ IsInjective(q)
    /\ \A i \in DOMAIN q : ses[q[i]].told = i /\ ses[q[i]].m_inQueue /\ ses[q[i]].init = "no"

PlaceInv ==
    /\ InPlace(m_QueuedPlayer, session)
    /\ \A s \in Waiting : m_sessions[AccountOf[s]] = s

(* Once main has called KickAll, a session with a player, or one that could *)
(* still log one in, is kicked and has its last update before it.           *)
Doomed(r) == (r.forceExit /\ ~r.open) \/ (r.player = "none" /\ r.told # 0)

ShutdownInv ==
    stopped => /\ tick \in {"add", "update", "over"}
               /\ \A a \in Accounts : m_sessions[a] # NoSession =>
                     IF tick = "add" \/ a \in todo THEN Doomed(session[m_sessions[a]])
                     ELSE session[m_sessions[a]].player = "none"

TodoInv ==
    /\ tick = "update" => \A a \in todo : m_sessions[a] # NoSession
    /\ tick # "update" => todo = {}
    /\ tick = "over" => stopped

SessionsInv == SessionsType /\ LifeInv /\ PlaceInv /\ ShutdownInv /\ TodoInv /\ OnlineFlags

-----------------------------------------------------------------------------
(* Sequences without repetition                                            *)

LEMMA Members ==
    ASSUME NEW q \in Seq(Sessions)
    PROVE  /\ DOMAIN q = 1 .. Len(q) /\ Len(q) \in Nat
           /\ \A i \in 1 .. Len(q) : q[i] \in Sessions /\ q[i] \in ToSet(q)
           /\ ToSet(q) \subseteq Sessions
           /\ \A s \in ToSet(q) : \E i \in 1 .. Len(q) : q[i] = s
           /\ q # <<>> <=> Len(q) > 0
<1>1. DOMAIN q = 1 .. Len(q) /\ Len(q) \in Nat /\ q \in [1 .. Len(q) -> Sessions]
  BY LenProperties
<1>2. ToSet(q) = {q[i] : i \in 1 .. Len(q)}
  BY <1>1 DEF ToSet
<1>3. q # <<>> <=> Len(q) > 0
  BY <1>1, EmptySeq
<1>4. QED
  BY <1>1, <1>2, <1>3

LEMMA Place ==
    ASSUME NEW q \in Seq(Sessions), IsInjective(q)
    PROVE  /\ \A i \in 1 .. Len(q) : GetQueuePos(q, q[i]) = i
           /\ \A s : s \notin ToSet(q) => GetQueuePos(q, s) = 0
           /\ \A s \in ToSet(q) : GetQueuePos(q, s) \in 1 .. Len(q) /\ q[GetQueuePos(q, s)] = s
<1>1. ASSUME NEW s \in ToSet(q)
      PROVE  GetQueuePos(q, s) \in 1 .. Len(q) /\ q[GetQueuePos(q, s)] = s
  <2>1. \E i \in DOMAIN q : q[i] = s
    BY Members
  <2>2. GetQueuePos(q, s) \in DOMAIN q /\ q[GetQueuePos(q, s)] = s
    BY <2>1 DEF GetQueuePos
  <2>3. QED
    BY <2>2, Members
<1>2. ASSUME NEW i \in 1 .. Len(q)
      PROVE  GetQueuePos(q, q[i]) = i
  <2>1. q[i] \in ToSet(q) /\ i \in DOMAIN q
    BY Members
  <2>2. GetQueuePos(q, q[i]) \in DOMAIN q /\ q[GetQueuePos(q, q[i])] = q[i]
    BY <1>1, <2>1, Members
  <2>3. QED
    BY <2>1, <2>2 DEF IsInjective
<1>3. \A s : s \notin ToSet(q) => GetQueuePos(q, s) = 0
  BY DEF GetQueuePos
<1>4. QED
  BY <1>1, <1>2, <1>3

(* The sequence q without its k-th element                                 *)
Closed(q, k, p) ==
    /\ p \in Seq(Sessions) /\ Len(p) = Len(q) - 1
    /\ \A i \in 1 .. Len(p) : p[i] = q[IF i < k THEN i ELSE i + 1]

LEMMA RemovesOne ==
    ASSUME NEW q \in Seq(Sessions), NEW k \in 1 .. Len(q)
    PROVE  Closed(q, k, RemoveAt(q, k))
<1> DEFINE a == SubSeq(q, 1, k - 1)
           b == SubSeq(q, k + 1, Len(q))
<1>1. Len(q) \in Nat /\ \A i \in 1 .. Len(q) : q[i] \in Sessions
  BY Members
<1>2. k - 1 \in Int /\ k + 1 \in Int /\ 1 \in Int /\ Len(q) \in Int
  BY <1>1
<1>3. a \in Seq(Sessions) /\ Len(a) = k - 1 /\ \A i \in 1 .. k - 1 : a[i] = q[i]
  <2>1. \A i \in 1 .. k - 1 : q[i] \in Sessions
    BY <1>1
  <2>2. /\ a \in Seq(Sessions) /\ Len(a) = (IF 1 <= k - 1 THEN k - 1 - 1 + 1 ELSE 0)
        /\ \A i \in 1 .. k - 1 - 1 + 1 : a[i] = q[1 + i - 1]
    BY <1>2, <2>1, SubSeqProperties
  <2> HIDE DEF a
  <2>3. QED
    BY <2>2, <1>1
<1>4. b \in Seq(Sessions) /\ Len(b) = Len(q) - k /\ \A i \in 1 .. Len(q) - k : b[i] = q[k + i]
  <2>1. \A i \in k + 1 .. Len(q) : q[i] \in Sessions
    BY <1>1
  <2>2. /\ b \in Seq(Sessions)
        /\ Len(b) = (IF k + 1 <= Len(q) THEN Len(q) - (k + 1) + 1 ELSE 0)
        /\ \A i \in 1 .. Len(q) - (k + 1) + 1 : b[i] = q[k + 1 + i - 1]
    BY <1>2, <2>1, SubSeqProperties
  <2> HIDE DEF b
  <2>3. QED
    BY <2>2, <1>1
<1>5. RemoveAt(q, k) = a \o b
  BY DEF RemoveAt
<1> HIDE DEF a, b
<1>6. /\ a \o b \in Seq(Sessions) /\ Len(a \o b) = Len(a) + Len(b)
      /\ \A i \in 1 .. Len(a) + Len(b) : (a \o b)[i] = IF i <= Len(a) THEN a[i] ELSE b[i - Len(a)]
  BY <1>3, <1>4, ConcatProperties
<1> DEFINE p == a \o b
<1> HIDE DEF p
<1>7. /\ p \in Seq(Sessions) /\ Len(p) = Len(q) - 1
      /\ \A i \in 1 .. Len(q) - 1 : p[i] = IF i <= k - 1 THEN a[i] ELSE b[i - (k - 1)]
  BY <1>1, <1>3, <1>4, <1>6 DEF p
<1>8. ASSUME NEW i \in 1 .. Len(q) - 1
      PROVE  p[i] = q[IF i < k THEN i ELSE i + 1]
  <2>1. CASE i < k
    BY <1>1, <1>3, <1>7, <2>1
  <2>2. CASE i >= k
    <3>1. i - (k - 1) \in 1 .. Len(q) - k /\ k + (i - (k - 1)) = i + 1
      BY <1>1, <2>2
    <3>2. p[i] = b[i - (k - 1)]
      BY <1>1, <1>7, <2>2
    <3>3. QED
      BY <1>4, <3>1, <3>2, <2>2
  <2>3. QED
    BY <1>1, <2>1, <2>2
<1>9. QED
  BY <1>5, <1>7, <1>8 DEF Closed, p

LEMMA TailCloses ==
    ASSUME NEW q \in Seq(Sessions), q # <<>>
    PROVE  /\ Closed(q, 1, Tail(q)) /\ Head(q) = q[1] /\ 1 \in 1 .. Len(q)
           /\ Head(q) \in Sessions /\ Head(q) \in ToSet(q)
<1>1. Len(q) \in Nat /\ Len(q) > 0
  BY Members
<1>2. Tail(q) \in Seq(Sessions) /\ Len(Tail(q)) = Len(q) - 1
  BY HeadTailProperties
<1>3. \A i \in 1 .. Len(Tail(q)) : Tail(q)[i] = q[i + 1]
  BY HeadTailProperties
<1>4. Head(q) = q[1]
  OBVIOUS
<1>5. Closed(q, 1, Tail(q))
  BY <1>1, <1>2, <1>3 DEF Closed
<1>6. QED
  BY <1>1, <1>4, <1>5, Members

LEMMA ClosedFacts ==
    ASSUME NEW q \in Seq(Sessions), IsInjective(q), NEW k \in 1 .. Len(q), NEW p, Closed(q, k, p)
    PROVE  /\ IsInjective(p) /\ ToSet(p) = ToSet(q) \ {q[k]}
           /\ \A i \in 1 .. Len(p) : GetQueuePos(q, p[i]) = IF i < k THEN i ELSE i + 1
           /\ \A i \in 1 .. Len(p) : p[i] # q[k]
<1>1. Len(q) \in Nat /\ DOMAIN q = 1 .. Len(q)
  BY Members
<1>2. p \in Seq(Sessions) /\ Len(p) = Len(q) - 1 /\ DOMAIN p = 1 .. Len(p)
  BY Members DEF Closed
<1> DEFINE old(i) == IF i < k THEN i ELSE i + 1
<1>3. \A i \in 1 .. Len(p) : old(i) \in 1 .. Len(q) /\ old(i) # k /\ p[i] = q[old(i)]
  BY <1>1, <1>2 DEF Closed
<1>4. \A i, j \in 1 .. Len(p) : old(i) = old(j) => i = j
  BY <1>1, <1>2
<1>5. \A j \in 1 .. Len(q) : j # k => \E i \in 1 .. Len(p) : old(i) = j
  <2>1. SUFFICES ASSUME NEW j \in 1 .. Len(q), j # k PROVE \E i \in 1 .. Len(p) : old(i) = j
    OBVIOUS
  <2>2. CASE j < k
    <3>1. j \in 1 .. Len(p) /\ old(j) = j
      BY <1>1, <1>2, <2>2
    <3>2. QED
      BY <3>1
  <2>3. CASE j > k
    <3>1. j - 1 \in 1 .. Len(p) /\ old(j - 1) = j
      BY <1>1, <1>2, <2>3
    <3>2. QED
      BY <3>1
  <2>4. QED
    BY <1>1, <2>1, <2>2, <2>3
<1>6. \A i \in 1 .. Len(p) : GetQueuePos(q, p[i]) = old(i)
  BY <1>3, Place
<1> HIDE DEF old
<1>7. \A i \in 1 .. Len(p) : p[i] # q[k]
  BY <1>1, <1>3 DEF IsInjective
<1>8. IsInjective(p)
  BY <1>1, <1>2, <1>3, <1>4 DEF IsInjective
<1>9. ToSet(p) = ToSet(q) \ {q[k]}
  <2>1. ASSUME NEW s \in ToSet(p) PROVE s \in ToSet(q) \ {q[k]}
    <3>1. PICK i \in 1 .. Len(p) : p[i] = s
      BY <1>2, Members
    <3>2. QED
      BY <3>1, <1>3, <1>7, Members
  <2>2. ASSUME NEW s \in ToSet(q) \ {q[k]} PROVE s \in ToSet(p)
    <3>1. PICK j \in 1 .. Len(q) : q[j] = s
      BY Members
    <3>2. PICK i \in 1 .. Len(p) : old(i) = j
      BY <1>5, <3>1, <2>2
    <3>3. QED
      BY <1>2, <1>3, <3>1, <3>2, Members
  <2>3. QED
    BY <2>1, <2>2
<1>10. QED
  BY <1>6, <1>7, <1>8, <1>9 DEF old

LEMMA QueuesLast ==
    ASSUME NEW q \in Seq(Sessions), IsInjective(q), NEW s \in Sessions, s \notin ToSet(q)
    PROVE  /\ Append(q, s) \in Seq(Sessions) /\ IsInjective(Append(q, s))
           /\ Len(Append(q, s)) = Len(q) + 1
           /\ \A i \in 1 .. Len(q) : Append(q, s)[i] = q[i]
           /\ Append(q, s)[Len(q) + 1] = s
           /\ ToSet(Append(q, s)) = ToSet(q) \cup {s}
<1> DEFINE p == Append(q, s)
<1>1. /\ p \in Seq(Sessions) /\ Len(p) = Len(q) + 1
      /\ \A i \in 1 .. Len(q) : p[i] = q[i]
      /\ p[Len(q) + 1] = s
  BY AppendProperties
<1> HIDE DEF p
<1>2. /\ Len(q) \in Nat /\ DOMAIN q = 1 .. Len(q) /\ DOMAIN p = 1 .. Len(p)
      /\ \A i \in 1 .. Len(q) : q[i] # s
  BY <1>1, Members
<1>3. IsInjective(p)
  BY <1>1, <1>2 DEF IsInjective
<1>4. ToSet(p) = ToSet(q) \cup {s}
  BY <1>1, <1>2 DEF ToSet
<1>5. QED
  BY <1>1, <1>3, <1>4 DEF p
-----------------------------------------------------------------------------
(* What the parts of the handlers do to a session object                   *)

LEMMA Kicked ==
    ASSUME NEW r \in Object
    PROVE  /\ KickPlayer(r) \in Object
           /\ KickPlayer(r).forceExit /\ ~KickPlayer(r).open
           /\ KickPlayer(r).life = r.life /\ KickPlayer(r).player = r.player
           /\ KickPlayer(r).told = r.told /\ KickPlayer(r).init = r.init
           /\ KickPlayer(r).m_inQueue = r.m_inQueue
<1> DEFINE a == [r EXCEPT !.open = FALSE]
           b == [a EXCEPT !.forceExit = TRUE]
<1>1. KickPlayer(r) = b
  BY DEF KickPlayer
<1>2. /\ a \in Object /\ ~a.open /\ a.life = r.life /\ a.player = r.player
      /\ a.told = r.told /\ a.init = r.init /\ a.m_inQueue = r.m_inQueue
  BY DEF Object
<1> HIDE DEF a
<1>3. /\ b \in Object /\ b.forceExit /\ b.open = a.open /\ b.life = a.life /\ b.player = a.player
      /\ b.told = a.told /\ b.init = a.init /\ b.m_inQueue = a.m_inQueue
  BY <1>2 DEF Object
<1> HIDE DEF b
<1>4. QED
  BY <1>1, <1>2, <1>3

LEMMA Gone ==
    ASSUME NEW r
    PROVE  /\ Deleted(r) \in Object /\ Deleted(r).life = "dead" /\ ~Deleted(r).open
           /\ Deleted(r).player = "none" /\ Deleted(r).told = -1 /\ Deleted(r).init = "no"
<1> DEFINE n == NewSession
           d == [n EXCEPT !.life = "dead"]
<1>1. ExpireTicks \in Nat /\ -1 \in Int
  BY SessionsAssumption
<1>2. n \in Object /\ ~n.open /\ n.player = "none" /\ n.told = -1 /\ n.init = "no"
  BY <1>1 DEF NewSession, Object
<1> HIDE DEF n
<1>3. d \in Object /\ d.life = "dead" /\ d.open = n.open /\ d.player = n.player
      /\ d.told = n.told /\ d.init = n.init
  BY <1>2 DEF Object
<1>4. Deleted(r) = d
  BY DEF Deleted, n
<1> HIDE DEF d
<1>5. QED
  BY <1>2, <1>3, <1>4

LEMMA Initializes ==
    ASSUME NEW r \in Object
    PROVE  /\ InitializeSession(r) \in Object /\ InitializeSession(r).init = "asked"
           /\ InitializeSession(r).life = r.life /\ InitializeSession(r).player = r.player
           /\ InitializeSession(r).open = r.open /\ InitializeSession(r).forceExit = r.forceExit
           /\ InitializeSession(r).told = r.told /\ InitializeSession(r).m_inQueue = r.m_inQueue
  BY DEF InitializeSession, Object

LEMMA Registers ==
    ASSUME NEW r \in Object
    PROVE  LET x == [r EXCEPT !.life = "registered"] IN
           /\ x \in Object /\ x.life = "registered" /\ x.player = r.player /\ x.told = r.told
           /\ x.init = r.init /\ x.open = r.open /\ x.forceExit = r.forceExit
  BY DEF Object

LEMMA Waits ==
    ASSUME NEW r \in Object, NEW k \in Nat
    PROVE  LET x == [r EXCEPT !.m_inQueue = TRUE, !.told = k] IN
           /\ x \in Object /\ x.life = r.life /\ x.player = r.player /\ x.told = k
           /\ x.init = r.init /\ x.open = r.open /\ x.forceExit = r.forceExit /\ x.m_inQueue
<1> DEFINE a == [r EXCEPT !.m_inQueue = TRUE]
           b == [a EXCEPT !.told = k]
<1>1. [r EXCEPT !.m_inQueue = TRUE, !.told = k] = b
  OBVIOUS
<1>2. /\ a \in Object /\ a.life = r.life /\ a.player = r.player /\ a.told = r.told
      /\ a.init = r.init /\ a.open = r.open /\ a.forceExit = r.forceExit /\ a.m_inQueue
  BY DEF Object
<1> HIDE DEF a
<1>3. k \in Int
  OBVIOUS
<1>4. /\ b \in Object /\ b.life = a.life /\ b.player = a.player /\ b.told = k
      /\ b.init = a.init /\ b.open = a.open /\ b.forceExit = a.forceExit
  BY <1>2, <1>3 DEF Object
<1>5. b.m_inQueue = a.m_inQueue
  BY <1>2, <1>3 DEF Object
<1> HIDE DEF b
<1>6. QED
  BY <1>1, <1>2, <1>4, <1>5

LEMMA HandsOver ==
    ASSUME NEW r \in Object
    PROVE  LET x == [r EXCEPT !.life = "handed", !.open = TRUE] IN
           /\ x \in Object /\ x.life = "handed" /\ x.player = r.player /\ x.told = r.told
           /\ x.init = r.init
<1> DEFINE a == [r EXCEPT !.life = "handed"]
           b == [a EXCEPT !.open = TRUE]
<1>1. [r EXCEPT !.life = "handed", !.open = TRUE] = b
  OBVIOUS
<1>2. /\ a \in Object /\ a.life = "handed" /\ a.player = r.player /\ a.told = r.told
      /\ a.init = r.init
  BY DEF Object
<1> HIDE DEF a
<1>3. /\ b \in Object /\ b.life = a.life /\ b.player = a.player /\ b.told = a.told
      /\ b.init = a.init
  BY <1>2 DEF Object
<1> HIDE DEF b
<1>4. QED
  BY <1>1, <1>2, <1>3

LEMMA Expires ==
    ASSUME NEW r \in Object
    PROVE  /\ Countdown(r) \in Object
           /\ Countdown(r).life = r.life /\ Countdown(r).player = r.player
           /\ Countdown(r).told = r.told /\ Countdown(r).init = r.init
           /\ Countdown(r).open = r.open /\ Countdown(r).forceExit = r.forceExit
           /\ Countdown(r).m_inQueue = r.m_inQueue
<1>1. r.expireTime \in Nat
  BY DEF Object
<1> DEFINE e == IF r.expireTime > 1 THEN r.expireTime - 1 ELSE 0
<1>2. e \in Nat
  BY <1>1
<1>3. Countdown(r) = IF r.open THEN r ELSE [r EXCEPT !.expireTime = e]
  BY DEF Countdown
<1> HIDE DEF e
<1>4. QED
  BY <1>2, <1>3 DEF Object

LEMMA Initialized ==
    ASSUME NEW r \in Object
    PROVE  LET x == InitializeSessionCallback(r) IN
           /\ x \in Object /\ x.life = r.life /\ x.player = r.player
           /\ x.open = r.open /\ x.forceExit = r.forceExit
           /\ r.init # "ready" => x = r
           /\ r.init = "ready" => x.init = "done"
<1>1. CASE r.init # "ready"
  BY <1>1 DEF InitializeSessionCallback
<1>2. CASE r.init = "ready"
  <2> DEFINE a == [r EXCEPT !.init = "done"]
             b == [a EXCEPT !.told = 0]
             c == [b EXCEPT !.m_inQueue = FALSE]
  <2>1. InitializeSessionCallback(r) = c
    BY <1>2 DEF InitializeSessionCallback
  <2>2. /\ a \in Object /\ a.life = r.life /\ a.player = r.player
        /\ a.open = r.open /\ a.forceExit = r.forceExit /\ a.init = "done"
    BY DEF Object
  <2> HIDE DEF a
  <2>3. /\ b \in Object /\ b.life = a.life /\ b.player = a.player
        /\ b.open = a.open /\ b.forceExit = a.forceExit /\ b.init = a.init
    BY <2>2 DEF Object
  <2> HIDE DEF b
  <2>4. /\ c \in Object /\ c.life = b.life /\ c.player = b.player
        /\ c.open = b.open /\ c.forceExit = b.forceExit /\ c.init = b.init
    BY <2>3 DEF Object
  <2> HIDE DEF c
  <2>5. QED
    BY <1>2, <2>1, <2>2, <2>3, <2>4
<1>3. QED
  BY <1>1, <1>2

LEMMA LogsIn ==
    ASSUME NEW r \in Object
    PROVE  LET x == HandlePlayerLoginOpcode(r) IN
           /\ x \in Object /\ x.life = r.life /\ x.told = r.told /\ x.init = r.init
           /\ x.open = r.open /\ x.forceExit = r.forceExit /\ x.m_inQueue = r.m_inQueue
           /\ x.player = r.player \/ (x.player = "loading" /\ r.told = 0)
           /\ r.player = "world" => x.player = "world"
  BY DEF HandlePlayerLoginOpcode, Object

LEMMA Loads ==
    ASSUME NEW r \in Object, NEW loads \in BOOLEAN
    PROVE  LET x == HandlePlayerLogin(r, loads) IN
           /\ x \in Object /\ x.life = r.life /\ x.told = r.told /\ x.init = r.init
           /\ x.m_inQueue = r.m_inQueue
           /\ r.forceExit => x.forceExit
           /\ ~r.open => ~x.open
           /\ r.player # "loading" => x = r
<1>1. CASE r.player # "loading"
  BY <1>1 DEF HandlePlayerLogin, PlayerLoading
<1>2. CASE r.player = "loading" /\ loads
  BY <1>2 DEF HandlePlayerLogin, PlayerLoading, Object
<1>3. CASE r.player = "loading" /\ ~loads
  <2> DEFINE a == KickPlayer(r)
             b == [a EXCEPT !.player = "none"]
  <2>1. HandlePlayerLogin(r, loads) = b
    BY <1>3 DEF HandlePlayerLogin, PlayerLoading
  <2>2. /\ a \in Object /\ a.life = r.life /\ a.told = r.told /\ a.init = r.init
        /\ a.m_inQueue = r.m_inQueue /\ a.forceExit /\ ~a.open
    BY Kicked
  <2> HIDE DEF a
  <2>3. /\ b \in Object /\ b.life = a.life /\ b.told = a.told /\ b.init = a.init
        /\ b.m_inQueue = a.m_inQueue /\ b.forceExit = a.forceExit /\ b.open = a.open
    BY <2>2 DEF Object
  <2> HIDE DEF b
  <2>4. QED
    BY <1>3, <2>1, <2>2, <2>3
<1>4. QED
  BY <1>1, <1>2, <1>3

LEMMA LogsOut ==
    ASSUME NEW r \in Object
    PROVE  LET x == LogoutPlayer(r) IN
           /\ x \in Object /\ x.life = r.life /\ x.told = r.told /\ x.init = r.init
           /\ x.open = r.open /\ x.forceExit = r.forceExit /\ x.m_inQueue = r.m_inQueue
           /\ x.player = IF r.player = "world" THEN "none" ELSE r.player
  BY DEF LogoutPlayer, Object

(* A change of no consequence: the session is told its place, and may leave *)
(* the queue or be let in.                                                  *)
Alike(r, x) ==
    /\ x \in Object /\ x.life = r.life /\ x.player = r.player
    /\ x.open = r.open /\ x.forceExit = r.forceExit
    /\ x.told = r.told \/ x.told >= 1

LEMMA SendsPositions ==
    ASSUME NEW q \in Seq(Sessions), IsInjective(q), NEW ses \in [Sessions -> Object], NEW k \in Nat
    PROVE  LET x == SendPositions(ses, q, k) IN
           /\ x \in [Sessions -> Object]
           /\ \A s \in Sessions : /\ Alike(ses[s], x[s]) /\ x[s].init = ses[s].init
                                  /\ x[s].m_inQueue = ses[s].m_inQueue
                                  /\ s \notin ToSet(q) => x[s] = ses[s]
           /\ \A i \in 1 .. Len(q) : x[q[i]].told = IF i >= k THEN i ELSE ses[q[i]].told
<1> DEFINE x == SendPositions(ses, q, k)
<1>1. \A s \in Sessions : x[s] = IF GetQueuePos(q, s) >= k /\ s \in ToSet(q)
                                 THEN [ses[s] EXCEPT !.told = GetQueuePos(q, s)] ELSE ses[s]
  BY DEF SendPositions
<1>2. x = [s \in Sessions |-> x[s]]
  BY DEF SendPositions
<1> HIDE DEF x
<1>3. ASSUME NEW s \in Sessions
      PROVE  /\ x[s] \in Object /\ Alike(ses[s], x[s]) /\ x[s].init = ses[s].init
             /\ x[s].m_inQueue = ses[s].m_inQueue
             /\ s \notin ToSet(q) => x[s] = ses[s]
             /\ GetQueuePos(q, s) >= k /\ s \in ToSet(q) => x[s].told = GetQueuePos(q, s)
             /\ ~(GetQueuePos(q, s) >= k) => x[s] = ses[s]
  <2> DEFINE n == GetQueuePos(q, s)
             r == ses[s]
             y == [r EXCEPT !.told = n]
  <2>1. r \in Object
    OBVIOUS
  <2>2. s \in ToSet(q) => n \in 1 .. Len(q)
    BY Place
  <2>3. Len(q) \in Nat
    BY Members
  <2>4. x[s] = IF n >= k /\ s \in ToSet(q) THEN y ELSE r
    BY <1>1
  <2> HIDE DEF n, r
  <2>5. n \in Int => /\ y \in Object /\ y.told = n /\ y.life = r.life /\ y.player = r.player
                     /\ y.open = r.open /\ y.forceExit = r.forceExit
                     /\ y.init = r.init /\ y.m_inQueue = r.m_inQueue
    BY <2>1 DEF Object
  <2> HIDE DEF y
  <2>6. QED
    BY <2>1, <2>2, <2>3, <2>4, <2>5 DEF Alike, n, r
<1>4. \A i \in 1 .. Len(q) : q[i] \in Sessions /\ q[i] \in ToSet(q) /\ GetQueuePos(q, q[i]) = i
  BY Members, Place
<1>5. x \in [Sessions -> Object]
  BY <1>2, <1>3
<1>6. \A i \in 1 .. Len(q) : x[q[i]].told = IF i >= k THEN i ELSE ses[q[i]].told
  BY <1>3, <1>4
<1>7. QED
  BY <1>3, <1>5, <1>6 DEF x
-----------------------------------------------------------------------------
(* RemoveQueuedPlayer: the queue without s, and without the one it lets in  *)

Rest(q, s) == IF s \in ToSet(q) THEN RemoveAt(q, GetQueuePos(q, s)) ELSE q

Accepts(q, size, s) ==
    MayAccept(ActiveWithout(size - Len(q), s \in ToSet(q))) /\ Rest(q, s) # <<>>

NextQueue(q, size, s) == IF Accepts(q, size, s) THEN Tail(Rest(q, s)) ELSE Rest(q, s)

TakesTurn(q, size, s, t) == Accepts(q, size, s) /\ t = Head(Rest(q, s))

TakenOut(q, ses, s) ==
    IF s \in ToSet(q) THEN [ses EXCEPT ![s] = [ses[s] EXCEPT !.m_inQueue = FALSE]] ELSE ses

OneLetIn(q, ses, size, s) ==
    IF Accepts(q, size, s)
    THEN [TakenOut(q, ses, s) EXCEPT ![Head(Rest(q, s))] =
              InitializeSession(TakenOut(q, ses, s)[Head(Rest(q, s))])]
    ELSE TakenOut(q, ses, s)

LEMMA RestFacts ==
    ASSUME NEW q \in Seq(Sessions), IsInjective(q), NEW s
    PROVE  LET p == Rest(q, s) IN
           /\ p \in Seq(Sessions) /\ IsInjective(p) /\ ToSet(p) = ToSet(q) \ {s}
           /\ Len(p) = IF s \in ToSet(q) THEN Len(q) - 1 ELSE Len(q)
           /\ \A i \in 1 .. Len(p) :
                GetQueuePos(q, p[i]) = IF s \in ToSet(q) /\ i >= GetQueuePos(q, s) THEN i + 1 ELSE i
<1>1. CASE s \in ToSet(q)
  <2> DEFINE k == GetQueuePos(q, s)
             p == RemoveAt(q, k)
  <2>1. k \in 1 .. Len(q) /\ q[k] = s
    BY <1>1, Place
  <2>2. Closed(q, k, p)
    BY <2>1, RemovesOne
  <2>3. Rest(q, s) = p
    BY <1>1 DEF Rest
  <2>4. Len(q) \in Nat
    BY Members
  <2> HIDE DEF p, k
  <2>5. p \in Seq(Sessions) /\ Len(p) = Len(q) - 1
    BY <2>2 DEF Closed
  <2>6. /\ IsInjective(p) /\ ToSet(p) = ToSet(q) \ {s}
        /\ \A i \in 1 .. Len(p) : GetQueuePos(q, p[i]) = IF i < k THEN i ELSE i + 1
    BY <2>1, <2>2, ClosedFacts
  <2>7. \A i \in 1 .. Len(p) : GetQueuePos(q, p[i]) = IF i >= k THEN i + 1 ELSE i
    BY <2>1, <2>4, <2>5, <2>6
  <2>8. QED
    BY <1>1, <2>3, <2>5, <2>6, <2>7 DEF k
<1>2. CASE s \notin ToSet(q)
  BY <1>2, Place DEF Rest
<1>3. QED
  BY <1>1, <1>2

LEMMA Steps ==
    ASSUME NEW q \in Seq(Sessions), NEW ses \in [Sessions -> Object], InPlace(q, ses),
           NEW s \in Sessions, NEW size
    PROVE  LET r == RemoveQueuedPlayer(q, ses, size, s)
           IN  /\ r.found = (s \in ToSet(q))
               /\ r.queue = NextQueue(q, size, s)
               /\ r.session = IF Accepts(q, size, s) \/ s \in ToSet(q)
                              THEN SendPositions(OneLetIn(q, ses, size, s), NextQueue(q, size, s),
                                       FirstMoved(Accepts(q, size, s), GetQueuePos(q, s)))
                              ELSE OneLetIn(q, ses, size, s)
<1>1. IsInjective(q) /\ Len(q) \in Nat
  BY Members DEF InPlace
<1>2. (GetQueuePos(q, s) > 0) = (s \in ToSet(q))
  BY <1>1, Place, Members
<1> DEFINE pos    == GetQueuePos(q, s)
           found  == pos > 0
           rest   == IF found THEN RemoveAt(q, pos) ELSE q
           out    == IF found THEN [ses EXCEPT ![s].m_inQueue = FALSE] ELSE ses
           accept == MayAccept(ActiveWithout(size - Len(q), found)) /\ rest # <<>>
           queue  == IF accept THEN Tail(rest) ELSE rest
           let_in == IF accept THEN [out EXCEPT ![Head(rest)] = InitializeSession(@)] ELSE out
           new    == IF accept \/ found
                     THEN SendPositions(let_in, queue, FirstMoved(accept, pos)) ELSE let_in
<1>3. RemoveQueuedPlayer(q, ses, size, s) = [queue |-> queue, found |-> found, session |-> new]
  BY DEF RemoveQueuedPlayer
<1>4. found = (s \in ToSet(q))
  BY <1>2
<1>5. rest = Rest(q, s) /\ accept = Accepts(q, size, s)
  <2> HIDE DEF found, pos
  <2>1. rest = Rest(q, s)
    BY <1>4 DEF Rest, pos
  <2>2. QED
    BY <1>4, <2>1 DEF Accepts
<1> HIDE DEF found, rest, accept
<1>6. /\ RemoveQueuedPlayer(q, ses, size, s).queue = queue
      /\ RemoveQueuedPlayer(q, ses, size, s).found = found
      /\ RemoveQueuedPlayer(q, ses, size, s).session = new
  <2> HIDE DEF queue, new
  <2>1. QED
    BY <1>3
<1>7. queue = NextQueue(q, size, s)
  BY <1>5 DEF NextQueue
<1>8. out = TakenOut(q, ses, s)
  BY <1>4 DEF TakenOut
<1> HIDE DEF out, queue
<1>9. let_in = OneLetIn(q, ses, size, s)
  BY <1>5, <1>8 DEF OneLetIn
<1> HIDE DEF let_in
<1>10. QED
  BY <1>4, <1>5, <1>6, <1>7, <1>9

LEMMA Removed ==
    ASSUME NEW q \in Seq(Sessions), NEW ses \in [Sessions -> Object], InPlace(q, ses),
           NEW s \in Sessions, NEW size
    PROVE  LET r == RemoveQueuedPlayer(q, ses, size, s)
           IN  /\ r.found = (s \in ToSet(q))
               /\ r.queue = NextQueue(q, size, s)
               /\ r.queue \in Seq(Sessions) /\ ToSet(r.queue) \subseteq ToSet(q) \ {s}
               /\ r.session \in [Sessions -> Object]
               /\ InPlace(r.queue, r.session)
               /\ \A t \in Sessions :
                    /\ Alike(ses[t], r.session[t])
                    /\ t \notin ToSet(q) => r.session[t] = ses[t]
                    /\ r.session[t].init = IF TakesTurn(q, size, s, t) THEN "asked" ELSE ses[t].init
<1> DEFINE r      == RemoveQueuedPlayer(q, ses, size, s)
           found  == s \in ToSet(q)
           pos    == GetQueuePos(q, s)
           rest   == Rest(q, s)
           accept == Accepts(q, size, s)
           x      == [ses[s] EXCEPT !.m_inQueue = FALSE]
           out    == IF found THEN [ses EXCEPT ![s] = x] ELSE ses
           h      == Head(rest)
           y      == InitializeSession(out[h])
           let_in == IF accept THEN [out EXCEPT ![h] = y] ELSE out
           queue  == IF accept THEN Tail(rest) ELSE rest
           k      == FirstMoved(accept, pos)
           new    == IF accept \/ found THEN SendPositions(let_in, queue, k) ELSE let_in
<1>1. r.found = found /\ r.queue = queue /\ r.session = new
  <2>1. out = TakenOut(q, ses, s) /\ queue = NextQueue(q, size, s)
    BY DEF TakenOut, NextQueue
  <2>2. let_in = OneLetIn(q, ses, size, s)
    <3> HIDE DEF rest, accept, found
    <3>1. TakenOut(q, ses, s) = out
      BY DEF TakenOut, found
    <3> HIDE DEF out
    <3>2. QED
      BY <3>1 DEF OneLetIn, rest, accept
  <2>3. /\ r.found = (s \in ToSet(q))
        /\ r.queue = NextQueue(q, size, s)
        /\ r.session = IF Accepts(q, size, s) \/ s \in ToSet(q)
                       THEN SendPositions(OneLetIn(q, ses, size, s), NextQueue(q, size, s),
                                FirstMoved(Accepts(q, size, s), GetQueuePos(q, s)))
                       ELSE OneLetIn(q, ses, size, s)
    <3> HIDE DEF r
    <3>1. QED
      BY Steps DEF r
  <2> HIDE DEF out, queue, let_in, r
  <2>4. QED
    BY <2>1, <2>2, <2>3
<1>2. /\ IsInjective(q) /\ Len(q) \in Nat /\ DOMAIN q = 1 .. Len(q)
      /\ \A i \in 1 .. Len(q) : q[i] \in Sessions /\ q[i] \in ToSet(q)
      /\ \A i \in 1 .. Len(q) : ses[q[i]].told = i /\ ses[q[i]].m_inQueue /\ ses[q[i]].init = "no"
  BY Members DEF InPlace
<1>3. /\ rest \in Seq(Sessions) /\ IsInjective(rest) /\ ToSet(rest) = ToSet(q) \ {s}
      /\ Len(rest) = IF found THEN Len(q) - 1 ELSE Len(q)
      /\ \A i \in 1 .. Len(rest) : GetQueuePos(q, rest[i]) = IF found /\ i >= pos THEN i + 1 ELSE i
  BY <1>2, RestFacts
<1>4. found => pos \in 1 .. Len(q)
  BY <1>2, Place
<1>5. /\ ses[s] \in Object /\ x \in Object /\ Alike(ses[s], x) /\ x.init = ses[s].init
  BY DEF Object, Alike
<1>6. accept => rest # <<>>
  BY DEF Accepts
<1> HIDE DEF r, x, rest, accept, pos, found
<1>7. accept => /\ h \in Sessions /\ h \in ToSet(rest) /\ Closed(rest, 1, Tail(rest)) /\ h = rest[1]
                /\ 1 \in 1 .. Len(rest)
  BY <1>3, <1>6, TailCloses
<1> HIDE DEF h
<1>8. /\ out \in [Sessions -> Object]
      /\ \A t \in Sessions : /\ Alike(ses[t], out[t]) /\ out[t].init = ses[t].init
                             /\ out[t].told = ses[t].told
                             /\ t # s => out[t] = ses[t]
                             /\ t \notin ToSet(q) => out[t] = ses[t]
  <2>1. x.told = ses[s].told
    BY DEF x, Object
  <2>2. CASE found
    <3>1. out = [ses EXCEPT ![s] = x]
      BY <2>2
    <3> HIDE DEF out
    <3>2. /\ out \in [Sessions -> Object] /\ out[s] = x
          /\ \A t \in Sessions : t # s => out[t] = ses[t]
      BY <1>5, <3>1
    <3>3. s \in ToSet(q)
      BY <2>2 DEF found
    <3>4. \A t \in Sessions : ses[t] \in Object /\ Alike(ses[t], ses[t])
      BY DEF Alike
    <3>5. QED
      BY <2>1, <3>2, <3>3, <3>4, <1>5
  <2>3. CASE ~found
    BY <2>3 DEF Alike
  <2>4. QED
    BY <2>2, <2>3
<1> HIDE DEF out
<1>9. accept => /\ y \in Object /\ y.init = "asked" /\ y.told = out[h].told /\ Alike(out[h], y)
                /\ y.m_inQueue = out[h].m_inQueue
  BY <1>7, <1>8, Initializes DEF Alike
<1> HIDE DEF y
<1>10. /\ let_in \in [Sessions -> Object]
       /\ \A t \in Sessions :
            /\ Alike(ses[t], let_in[t])
            /\ let_in[t].told = ses[t].told
            /\ let_in[t].init = IF accept /\ t = h THEN "asked" ELSE ses[t].init
            /\ t # s /\ ~(accept /\ t = h) => let_in[t] = ses[t]
            /\ t \notin ToSet(q) => let_in[t] = ses[t]
  <2>1. CASE accept
    <3>1. let_in = [out EXCEPT ![h] = y]
      BY <2>1
    <3> HIDE DEF let_in
    <3>2. /\ let_in \in [Sessions -> Object] /\ let_in[h] = y
          /\ \A t \in Sessions : t # h => let_in[t] = out[t]
      BY <1>7, <1>8, <1>9, <2>1, <3>1
    <3>3. h \in ToSet(q)
      BY <1>3, <1>7, <2>1
    <3>4. Alike(ses[h], y) /\ y.told = ses[h].told
      BY <1>7, <1>8, <1>9, <2>1 DEF Alike
    <3>5. QED
      BY <1>7, <1>8, <1>9, <2>1, <3>2, <3>3, <3>4
  <2>2. CASE ~accept
    BY <1>8, <2>2
  <2>3. QED
    BY <2>1, <2>2
<1> HIDE DEF let_in
<1>11. /\ queue \in Seq(Sessions) /\ IsInjective(queue) /\ ToSet(queue) \subseteq ToSet(q) \ {s}
       /\ ToSet(queue) \subseteq ToSet(rest)
       /\ accept => h \notin ToSet(queue)
  <2>1. CASE accept
    <3>1. Closed(rest, 1, queue)
      BY <1>7, <2>1
    <3> HIDE DEF queue
    <3>2. IsInjective(queue) /\ ToSet(queue) = ToSet(rest) \ {rest[1]}
      BY <1>3, <1>7, <2>1, <3>1, ClosedFacts
    <3>3. queue \in Seq(Sessions)
      BY <3>1 DEF Closed
    <3>4. QED
      BY <1>3, <1>7, <2>1, <3>2, <3>3
  <2>2. CASE ~accept
    BY <1>3, <2>2
  <2>3. QED
    BY <2>1, <2>2
<1>12. \A i \in 1 .. Len(queue) : ~accept /\ ~(found /\ i >= pos) => ses[queue[i]].told = i
  <2>1. SUFFICES ASSUME NEW i \in 1 .. Len(queue), ~accept, ~(found /\ i >= pos)
                 PROVE  ses[queue[i]].told = i
    OBVIOUS
  <2>2. queue = rest
    BY <2>1
  <2> HIDE DEF queue
  <2>3. GetQueuePos(q, queue[i]) = i /\ queue[i] \in ToSet(q)
    BY <1>3, <2>1, <2>2, Members
  <2>4. q[i] = queue[i] /\ i \in 1 .. Len(q)
    BY <1>2, <2>3, Place
  <2>5. QED
    BY <1>2, <2>4
<1> HIDE DEF queue
<1>13. Len(queue) \in Nat /\ DOMAIN queue = 1 .. Len(queue)
       /\ \A i \in 1 .. Len(queue) : queue[i] \in Sessions /\ queue[i] \in ToSet(queue)
  BY <1>11, Members
<1>14. \A i \in 1 .. Len(queue) : let_in[queue[i]] = ses[queue[i]] /\ queue[i] \in ToSet(q)
  BY <1>10, <1>11, <1>13
<1>15. accept \/ found => k \in Nat /\ (accept => k = 1) /\ (~accept => k = pos)
  BY <1>2, <1>4 DEF FirstMoved
<1> HIDE DEF k
<1>16. /\ new \in [Sessions -> Object]
       /\ \A t \in Sessions : /\ Alike(let_in[t], new[t]) /\ new[t].init = let_in[t].init
                              /\ new[t].m_inQueue = let_in[t].m_inQueue
                              /\ t \notin ToSet(queue) => new[t] = let_in[t]
       /\ \A i \in 1 .. Len(queue) : new[queue[i]].told = i
  <2>1. CASE accept \/ found
    <3> DEFINE p == SendPositions(let_in, queue, k)
    <3>1. /\ p \in [Sessions -> Object]
          /\ \A t \in Sessions : /\ Alike(let_in[t], p[t]) /\ p[t].init = let_in[t].init
                                 /\ p[t].m_inQueue = let_in[t].m_inQueue
                                 /\ t \notin ToSet(queue) => p[t] = let_in[t]
          /\ \A i \in 1 .. Len(queue) : p[queue[i]].told = IF i >= k THEN i ELSE let_in[queue[i]].told
      BY <1>10, <1>11, <1>15, <2>1, SendsPositions
    <3>2. new = p
      BY <2>1
    <3> HIDE DEF p, new
    <3>3. \A i \in 1 .. Len(queue) : p[queue[i]].told = i
      BY <1>12, <1>13, <1>14, <1>15, <2>1, <3>1
    <3>4. QED
      BY <3>1, <3>2, <3>3
  <2>2. CASE ~accept /\ ~found
    <3>1. new = let_in
      BY <2>2
    <3> HIDE DEF new
    <3>2. \A t \in Sessions : let_in[t] \in Object /\ Alike(let_in[t], let_in[t])
      BY <1>10 DEF Alike
    <3>3. \A i \in 1 .. Len(queue) : ses[queue[i]].told = i
      BY <1>12, <2>2
    <3>4. QED
      BY <1>10, <1>14, <2>2, <3>1, <3>2, <3>3
  <2>3. QED
    BY <2>1, <2>2
<1> HIDE DEF new
<1>17. ASSUME NEW t \in Sessions
       PROVE  /\ Alike(ses[t], new[t])
              /\ t \notin ToSet(q) => new[t] = ses[t]
              /\ new[t].init = IF accept /\ t = h THEN "asked" ELSE ses[t].init
  <2>1. Alike(ses[t], new[t])
    BY <1>10, <1>16 DEF Alike
  <2>2. QED
    BY <2>1, <1>10, <1>11, <1>16
<1>18. InPlace(queue, new)
  <2>1. ASSUME NEW i \in DOMAIN queue
        PROVE  new[queue[i]].told = i /\ new[queue[i]].m_inQueue /\ new[queue[i]].init = "no"
    <3>1. i \in 1 .. Len(queue) /\ queue[i] \in Sessions
      BY <1>13, <2>1
    <3>2. let_in[queue[i]] = ses[queue[i]] /\ queue[i] \in ToSet(q)
      BY <1>14, <3>1
    <3>3. PICK j \in 1 .. Len(q) : q[j] = queue[i]
      BY <3>2, Members
    <3>4. ses[queue[i]].m_inQueue /\ ses[queue[i]].init = "no"
      BY <1>2, <3>3
    <3>5. QED
      BY <1>16, <3>1, <3>2, <3>4
  <2>2. QED
    BY <1>11, <2>1 DEF InPlace
<1>19. QED
  BY <1>1, <1>11, <1>16, <1>17, <1>18 DEF r, found, accept, rest, h, queue, NextQueue, TakesTurn
-----------------------------------------------------------------------------
(* The steps of the network threads and of the database                    *)

USE DEF limitVars, dbVars, worldVars, tickVars, vars, Waiting

LEMMA Accounted ==
    ASSUME NEW s \in Sessions
    PROVE  AccountOf[s] \in Accounts /\ s # NoSession
  BY SessionsAssumption

LEMMA HandshakeStep ==
    ASSUME SessionsInv, NEW s \in Sessions, Handshake(s)
    PROVE  SessionsInv'
<1> DEFINE x == [session[s] EXCEPT !.life = "handed", !.open = TRUE]
<1>1. /\ session[s].life = "unborn" /\ session[s] \in Object /\ session \in [Sessions -> Object]
      /\ session' = [session EXCEPT ![s] = x]
      /\ addSessQueue' = Append(addSessQueue, s) /\ addSessQueue \in Seq(Sessions)
      /\ online' = online \cup {AccountOf[s]}
      /\ UNCHANGED <<tickVars, m_sessions, m_QueuedPlayer, m_disconnects, charOnline, commands, limitVars>>
  BY DEF Handshake, SessionsInv, SessionsType
<1>2. /\ x \in Object /\ x.life = "handed" /\ x.player = session[s].player
      /\ x.told = session[s].told /\ x.init = session[s].init
  BY <1>1, HandsOver
<1> HIDE DEF x
<1>3. /\ session' \in [Sessions -> Object] /\ session'[s] = x
      /\ \A t \in Sessions : t # s => session'[t] = session[t]
  BY <1>1, <1>2
<1>4. s \notin ToSet(addSessQueue) /\ m_sessions[AccountOf[s]] # s
  BY <1>1 DEF SessionsInv, LifeInv
<1>5. /\ addSessQueue' \in Seq(Sessions) /\ IsInjective(addSessQueue')
      /\ ToSet(addSessQueue') = ToSet(addSessQueue) \cup {s}
  BY <1>1, <1>4, QueuesLast DEF SessionsInv, LifeInv
<1>6. AccountOf[s] \in Accounts
  BY Accounted
<1>7. SessionsType'
  BY <1>1, <1>3, <1>5, <1>6 DEF SessionsInv, SessionsType
<1>8. LifeInv'
  <2>1. \A t \in Sessions : session'[t].life = "handed" <=> t \in ToSet(addSessQueue')
    BY <1>1, <1>2, <1>3, <1>5 DEF SessionsInv, LifeInv
  <2>2. \A t \in Sessions : session'[t].life = "registered" <=> m_sessions'[AccountOf[t]] = t
    BY <1>1, <1>2, <1>3, <1>4 DEF SessionsInv, LifeInv
  <2>3. \A t \in Sessions : session'[t].life # "registered" =>
           session'[t].player = "none" /\ session'[t].told = -1 /\ session'[t].init = "no"
    BY <1>1, <1>2, <1>3 DEF SessionsInv, LifeInv
  <2>4. \A a \in Accounts : m_sessions'[a] # NoSession => AccountOf[m_sessions'[a]] = a
    BY <1>1 DEF SessionsInv, LifeInv
  <2>5. QED
    BY <1>5, <2>1, <2>2, <2>3, <2>4 DEF LifeInv
<1>9. s \notin Waiting
  BY <1>4 DEF SessionsInv, PlaceInv
<1>10. PlaceInv'
  <2>1. \A i \in DOMAIN m_QueuedPlayer : session'[m_QueuedPlayer[i]] = session[m_QueuedPlayer[i]]
    BY <1>3, <1>9, Members DEF SessionsInv, SessionsType
  <2>2. InPlace(m_QueuedPlayer, session')
    BY <2>1 DEF InPlace, SessionsInv, PlaceInv
  <2>3. QED
    BY <1>1, <2>2 DEF SessionsInv, PlaceInv
<1>11. \A a \in Accounts : m_sessions[a] # NoSession =>
          m_sessions[a] \in Sessions /\ session'[m_sessions[a]] = session[m_sessions[a]]
  <2>1. SUFFICES ASSUME NEW a \in Accounts, m_sessions[a] # NoSession
                 PROVE  m_sessions[a] \in Sessions /\ m_sessions[a] # s
    BY <1>3
  <2>2. m_sessions[a] \in Sessions /\ AccountOf[m_sessions[a]] = a
    BY <2>1 DEF SessionsInv, SessionsType, LifeInv
  <2>3. QED
    BY <1>4, <2>2
<1>12. ShutdownInv'
  BY <1>1, <1>11 DEF SessionsInv, ShutdownInv
<1>13. OnlineFlags'
  <2>1. \A t \in Sessions : Alive(t)' <=> Alive(t) \/ t = s
    BY <1>1, <1>2, <1>3 DEF Alive
  <2>2. \A a \in Accounts : m_sessions'[a] # NoSession /\ session'[m_sessions'[a]].player = "world" =>
             a \in online' /\ a \in charOnline'
    BY <1>1, <1>11 DEF SessionsInv, OnlineFlags
  <2>3. \A a \in Accounts : (\A t \in Sessions : AccountOf[t] = a => ~Alive(t)') =>
                              a \notin online' \cup charOnline'
    BY <1>1, <2>1 DEF SessionsInv, OnlineFlags
  <2>4. QED
    BY <2>2, <2>3 DEF OnlineFlags
<1>14. TodoInv'
  BY <1>1 DEF SessionsInv, TodoInv
<1>15. QED
  BY <1>7, <1>8, <1>10, <1>12, <1>13, <1>14 DEF SessionsInv

(* A step that touches sessions only, and neither lets one in nor pardons one *)
Touches(r, x) ==
    /\ x \in Object /\ x.life = r.life /\ x.player = r.player
    /\ x.told = r.told /\ x.m_inQueue = r.m_inQueue
    /\ r.init = "no" => x.init = "no"
    /\ r.forceExit => x.forceExit
    /\ ~r.open => ~x.open

LEMMA TouchStep ==
    ASSUME SessionsInv, session' \in [Sessions -> Object],
           \A t \in Sessions : Touches(session[t], session'[t]),
           UNCHANGED <<tickVars, worldVars, dbVars>>,
           m_playerLimit' \in Int, limitMoved' \in BOOLEAN
    PROVE  SessionsInv'
<1>1. SessionsType'
  BY DEF SessionsInv, SessionsType
<1>2. LifeInv'
  BY DEF SessionsInv, LifeInv, Touches
<1>3. \A i \in DOMAIN m_QueuedPlayer : m_QueuedPlayer[i] \in Sessions
  BY Members DEF SessionsInv, SessionsType
<1>4. PlaceInv'
  <2>1. InPlace(m_QueuedPlayer, session')
    BY <1>3 DEF InPlace, SessionsInv, PlaceInv, Touches
  <2>2. QED
    BY <2>1 DEF SessionsInv, PlaceInv
<1>5. \A a \in Accounts : m_sessions[a] # NoSession => m_sessions[a] \in Sessions
  BY DEF SessionsInv, SessionsType
<1>6. ShutdownInv'
  <2>1. \A t \in Sessions : Doomed(session[t]) => Doomed(session'[t])
    BY DEF Doomed, Touches
  <2>2. QED
    BY <1>5, <2>1 DEF SessionsInv, ShutdownInv, Touches
<1>7. OnlineFlags'
  <2>1. \A t \in Sessions : Alive(t)' <=> Alive(t)
    BY DEF Alive, Touches
  <2>2. QED
    BY <1>5, <2>1 DEF SessionsInv, OnlineFlags, Touches
<1>8. TodoInv'
  BY DEF SessionsInv, TodoInv
<1>9. QED
  BY <1>1, <1>2, <1>4, <1>6, <1>7, <1>8 DEF SessionsInv

LEMMA TouchOne ==
    ASSUME SessionsInv, NEW s \in Sessions, NEW x, Touches(session[s], x),
           session' = [session EXCEPT ![s] = x]
    PROVE  /\ session' \in [Sessions -> Object]
           /\ \A t \in Sessions : Touches(session[t], session'[t])
<1>1. session \in [Sessions -> Object] /\ x \in Object
  BY DEF SessionsInv, SessionsType, Touches
<1>2. session' \in [Sessions -> Object] /\ session'[s] = x
      /\ \A t \in Sessions : t # s => session'[t] = session[t]
  BY <1>1
<1>3. \A t \in Sessions : Touches(session[t], session[t])
  BY <1>1 DEF Touches
<1>4. QED
  BY <1>2, <1>3

LEMMA SocketClosesStep ==
    ASSUME SessionsInv, NEW s \in Sessions, SocketCloses(s)
    PROVE  SessionsInv'
<1> DEFINE r == session[s]
           x == [r EXCEPT !.open = FALSE]
<1>1. session \in [Sessions -> Object] /\ session' = [session EXCEPT ![s] = x]
  BY DEF SessionsInv, SessionsType, SocketCloses
<1>2. r \in Object
  BY <1>1
<1>3. Touches(r, x)
  <2> HIDE DEF r
  <2>1. QED
    BY <1>2 DEF Touches, Object
<1> HIDE DEF x
<1>4. UNCHANGED <<tickVars, worldVars, dbVars>> /\ m_playerLimit' \in Int /\ limitMoved' \in BOOLEAN
  BY DEF SessionsInv, SessionsType, SocketCloses
<1>5. QED
  BY <1>1, <1>3, <1>4, TouchOne, TouchStep

LEMMA DbAnswersInitStep ==
    ASSUME SessionsInv, NEW s \in Sessions, DbAnswersInit(s)
    PROVE  SessionsInv'
<1> DEFINE r == session[s]
           x == [r EXCEPT !.init = "ready"]
<1>1. session \in [Sessions -> Object] /\ session' = [session EXCEPT ![s] = x] /\ r.init = "asked"
  BY DEF SessionsInv, SessionsType, DbAnswersInit
<1>2. r \in Object
  BY <1>1
<1>3. Touches(r, x)
  <2> HIDE DEF r
  <2>1. QED
    BY <1>1, <1>2 DEF Touches, Object
<1> HIDE DEF x
<1>4. UNCHANGED <<tickVars, worldVars, dbVars>> /\ m_playerLimit' \in Int /\ limitMoved' \in BOOLEAN
  BY DEF SessionsInv, SessionsType, DbAnswersInit
<1>5. QED
  BY <1>1, <1>3, <1>4, TouchOne, TouchStep

LEMMA KickStep ==
    ASSUME SessionsInv, NEW a \in Accounts, Kick(a)
    PROVE  SessionsInv'
<1> DEFINE s == m_sessions[a]
           r == session[s]
           x == KickPlayer(r)
<1>1. session \in [Sessions -> Object] /\ session' = [session EXCEPT ![s] = x] /\ s \in Sessions
  BY DEF SessionsInv, SessionsType, Kick
<1>2. r \in Object
  BY <1>1
<1>3. Touches(r, x)
  BY <1>2, Kicked DEF Touches
<1> HIDE DEF x, r, s
<1>4. UNCHANGED <<tickVars, worldVars, dbVars>> /\ m_playerLimit' \in Int /\ limitMoved' \in BOOLEAN
  BY DEF SessionsInv, SessionsType, Kick
<1>5. Touches(session[s], x)
  BY <1>3 DEF r
<1>6. QED
  BY <1>1, <1>4, <1>5, TouchOne, TouchStep

LEMMA ShutdownStep ==
    ASSUME SessionsInv, Shutdown
    PROVE  SessionsInv'
<1>1. /\ session \in [Sessions -> Object] /\ session' = KickAll(session)
      /\ stopped' = TRUE /\ tick' = "add" /\ m_QueuedPlayer' = <<>> /\ limitMoved' = FALSE
      /\ tick = "rest" /\ todo = {}
      /\ UNCHANGED <<todo, now, addSessQueue, m_sessions, m_disconnects, dbVars, commands, m_playerLimit>>
  BY DEF Shutdown, SessionsInv, SessionsType, TodoInv
<1>2. \A t \in Sessions : session'[t] = IF t \in Registered THEN KickPlayer(session[t]) ELSE session[t]
  BY <1>1 DEF KickAll
<1>3. \A t \in Sessions : session[t] \in Object
  BY <1>1
<1>4. \A t \in Sessions : Touches(session[t], session'[t])
  <2>1. SUFFICES ASSUME NEW t \in Sessions PROVE Touches(session[t], session'[t])
    OBVIOUS
  <2> DEFINE r == session[t]
  <2>2. r \in Object /\ session'[t] = IF t \in Registered THEN KickPlayer(r) ELSE r
    BY <1>2, <1>3
  <2> HIDE DEF r
  <2>3. Touches(r, KickPlayer(r)) /\ Touches(r, r)
    BY <2>2, Kicked DEF Touches
  <2>4. QED
    BY <2>2, <2>3 DEF r
<1>5. session' \in [Sessions -> Object]
  <2>1. session' = [t \in Sessions |-> session'[t]]
    BY <1>1 DEF KickAll
  <2>2. QED
    BY <1>4, <2>1 DEF Touches
<1>6. SessionsType'
  BY <1>1, <1>5, EmptySeq DEF SessionsInv, SessionsType
<1>7. LifeInv'
  BY <1>1, <1>4 DEF SessionsInv, LifeInv, Touches
<1>8. PlaceInv'
  <2>1. Len(<<>>) = 0 /\ <<>> \in Seq(Sessions)
    BY EmptySeq
  <2>2. DOMAIN <<>> = {} /\ ToSet(<<>>) = {}
    BY DEF ToSet
  <2>3. InPlace(<<>>, session')
    BY <2>2 DEF InPlace, IsInjective
  <2>4. QED
    BY <1>1, <2>2, <2>3 DEF PlaceInv
<1>9. \A a \in Accounts : m_sessions[a] # NoSession =>
         m_sessions[a] \in Sessions /\ m_sessions[a] \in Registered
  BY DEF SessionsInv, SessionsType, Registered
<1>10. ShutdownInv'
  <2>1. \A a \in Accounts : m_sessions[a] # NoSession => Doomed(session'[m_sessions[a]])
    <3>1. SUFFICES ASSUME NEW a \in Accounts, m_sessions[a] # NoSession
                   PROVE  Doomed(session'[m_sessions[a]])
      OBVIOUS
    <3> DEFINE s == m_sessions[a]
               r == session[s]
    <3>2. s \in Sessions /\ s \in Registered
      BY <1>9, <3>1
    <3>3. session'[s] = KickPlayer(r) /\ r \in Object
      BY <1>2, <1>3, <3>2
    <3> HIDE DEF r, s
    <3>4. Doomed(session'[s])
      BY <3>3, Kicked DEF Doomed
    <3>5. QED
      BY <3>4 DEF s
  <2>2. QED
    BY <1>1, <2>1 DEF ShutdownInv
<1>11. OnlineFlags'
  <2>1. \A t \in Sessions : Alive(t)' <=> Alive(t)
    BY <1>4 DEF Alive, Touches
  <2>2. QED
    BY <1>1, <1>4, <1>9, <2>1 DEF SessionsInv, OnlineFlags, Touches
<1>12. TodoInv'
  BY <1>1 DEF SessionsInv, TodoInv
<1>13. QED
  BY <1>6, <1>7, <1>8, <1>10, <1>11, <1>12 DEF SessionsInv

LEMMA QuietStep ==
    ASSUME SessionsInv,
           \/ BeginUpdate \/ NothingToAdd \/ EndUpdate
           \/ \E limit \in Limits : SetPlayerLimit(limit)
           \/ UNCHANGED vars
    PROVE  SessionsInv'
<1>1. CASE BeginUpdate
  <2>1. /\ UNCHANGED <<stopped, todo, worldVars, session, dbVars, commands, limitVars>>
        /\ tick' = "add" /\ tick = "rest" /\ ~stopped /\ now' \in Nat
    <3>1. now \in Nat
      BY DEF SessionsInv, SessionsType
    <3>2. QED
      BY <1>1, <3>1 DEF BeginUpdate
  <2>2. SessionsType'
    BY <2>1 DEF SessionsInv, SessionsType
  <2>3. LifeInv' /\ PlaceInv' /\ OnlineFlags'
    BY <2>1 DEF SessionsInv, LifeInv, PlaceInv, OnlineFlags, Alive
  <2>4. ShutdownInv' /\ TodoInv'
    BY <2>1 DEF SessionsInv, ShutdownInv, TodoInv
  <2>5. QED
    BY <2>2, <2>3, <2>4 DEF SessionsInv
<1>2. CASE NothingToAdd
  <2>1. /\ UNCHANGED <<stopped, now, worldVars, session, dbVars, commands, limitVars>>
        /\ tick' = "update" /\ tick = "add" /\ todo' = {a \in Accounts : m_sessions[a] # NoSession}
    BY <1>2 DEF NothingToAdd
  <2>2. SessionsType'
    BY <2>1 DEF SessionsInv, SessionsType
  <2>3. LifeInv' /\ PlaceInv' /\ OnlineFlags'
    BY <2>1 DEF SessionsInv, LifeInv, PlaceInv, OnlineFlags, Alive
  <2>4. ShutdownInv' /\ TodoInv'
    BY <2>1 DEF SessionsInv, ShutdownInv, TodoInv
  <2>5. QED
    BY <2>2, <2>3, <2>4 DEF SessionsInv
<1>3. CASE EndUpdate
  <2>1. /\ UNCHANGED <<stopped, todo, now, worldVars, session, dbVars, commands, limitVars>>
        /\ tick' = (IF stopped THEN "over" ELSE "rest") /\ tick = "update" /\ todo = {}
    BY <1>3 DEF EndUpdate
  <2>2. SessionsType'
    BY <2>1 DEF SessionsInv, SessionsType
  <2>3. LifeInv' /\ PlaceInv' /\ OnlineFlags'
    BY <2>1 DEF SessionsInv, LifeInv, PlaceInv, OnlineFlags, Alive
  <2>4. ShutdownInv' /\ TodoInv'
    BY <2>1 DEF SessionsInv, ShutdownInv, TodoInv
  <2>5. QED
    BY <2>2, <2>3, <2>4 DEF SessionsInv
<1>4. CASE \E limit \in Limits : SetPlayerLimit(limit)
  <2>1. /\ UNCHANGED <<tickVars, worldVars, session, dbVars>>
        /\ m_playerLimit' \in Int /\ limitMoved' \in BOOLEAN
    BY <1>4, SessionsAssumption DEF SetPlayerLimit, SessionsInv, SessionsType
  <2>2. session' \in [Sessions -> Object] /\ \A t \in Sessions : Touches(session[t], session'[t])
    BY <2>1 DEF Touches, SessionsInv, SessionsType
  <2>3. QED
    BY <2>1, <2>2, TouchStep
<1>5. CASE UNCHANGED vars
  <2>1. SessionsType' /\ LifeInv'
    BY <1>5 DEF SessionsInv, SessionsType, LifeInv
  <2>2. PlaceInv' /\ ShutdownInv' /\ TodoInv' /\ OnlineFlags'
    BY <1>5 DEF SessionsInv, PlaceInv, ShutdownInv, TodoInv, OnlineFlags, Alive
  <2>3. QED
    BY <2>1, <2>2 DEF SessionsInv
<1>6. QED
  BY <1>1, <1>2, <1>3, <1>4, <1>5
-----------------------------------------------------------------------------
(* UpdateSessions                                                          *)

(* The session after its queries have been answered, and at the end        *)
Loaded(r0, idle, login, answered, loads) ==
    LET r1 == IF idle THEN [r0 EXCEPT !.open = FALSE] ELSE r0
        r2 == IF login THEN HandlePlayerLoginOpcode(r1) ELSE r1
        r3 == InitializeSessionCallback(r2)
    IN  IF answered THEN HandlePlayerLogin(r3, loads) ELSE r3

AtEnd(r4, logout) == Countdown(IF logout THEN LogoutPlayer(r4) ELSE r4)

Ended(r0, r4, r6, logout) ==
    /\ r6 \in Object /\ r6.life = r0.life
    /\ r0.init # "ready" => r6.told = r0.told /\ r6.m_inQueue = r0.m_inQueue /\ r6.init = r0.init
    /\ r0.init = "ready" => r6.init = "done"
    /\ Doomed(r0) => Leaves(r6) \/ r6.player = "none"
    /\ r6.player = "world" => r4.player = "world" /\ ~logout

(* What the update of a session object comes to: a kicked one leaves, and   *)
(* one that was not answered keeps its place in the queue.                  *)
LEMMA Updated ==
    ASSUME NEW r0 \in Object, NEW idle \in BOOLEAN, NEW login \in BOOLEAN, NEW answered \in BOOLEAN,
           NEW loads \in BOOLEAN, NEW logout \in BOOLEAN
    PROVE  Ended(r0, Loaded(r0, idle, login, answered, loads),
                 AtEnd(Loaded(r0, idle, login, answered, loads), logout), logout)
<1> DEFINE r1 == IF idle THEN [r0 EXCEPT !.open = FALSE] ELSE r0
           r2 == IF login THEN HandlePlayerLoginOpcode(r1) ELSE r1
           r3 == InitializeSessionCallback(r2)
           r4 == IF answered THEN HandlePlayerLogin(r3, loads) ELSE r3
           r5 == IF logout THEN LogoutPlayer(r4) ELSE r4
           r6 == Countdown(r5)
<1> DEFINE x4 == Loaded(r0, idle, login, answered, loads)
           x6 == AtEnd(x4, logout)
<1>0. x4 = r4 /\ x6 = r6
  BY Zenon DEF Loaded, AtEnd
<1>1. /\ r1 \in Object /\ r1.life = r0.life /\ r1.player = r0.player /\ r1.told = r0.told
      /\ r1.init = r0.init /\ r1.m_inQueue = r0.m_inQueue /\ r1.forceExit = r0.forceExit
      /\ ~r0.open => ~r1.open
  BY DEF Object
<1> HIDE DEF r1
<1>2. /\ r2 \in Object /\ r2.life = r1.life /\ r2.told = r1.told /\ r2.init = r1.init
      /\ r2.open = r1.open /\ r2.forceExit = r1.forceExit /\ r2.m_inQueue = r1.m_inQueue
      /\ r2.player = r1.player \/ (r2.player = "loading" /\ r1.told = 0)
  BY <1>1, LogsIn
<1> HIDE DEF r2
<1>3. /\ r3 \in Object /\ r3.life = r2.life /\ r3.player = r2.player
      /\ r3.open = r2.open /\ r3.forceExit = r2.forceExit
      /\ r2.init # "ready" => r3 = r2
      /\ r2.init = "ready" => r3.init = "done"
  BY <1>2, Initialized
<1> HIDE DEF r3
<1>4. /\ r4 \in Object /\ r4.life = r3.life /\ r4.told = r3.told /\ r4.init = r3.init
      /\ r4.m_inQueue = r3.m_inQueue
      /\ r3.forceExit => r4.forceExit
      /\ ~r3.open => ~r4.open
      /\ r3.player # "loading" => r4 = r3
  BY <1>3, Loads
<1> HIDE DEF r4
<1>5. /\ r5 \in Object /\ r5.life = r4.life /\ r5.told = r4.told /\ r5.init = r4.init
      /\ r5.open = r4.open /\ r5.forceExit = r4.forceExit /\ r5.m_inQueue = r4.m_inQueue
      /\ r5.player = "world" => r4.player = "world" /\ ~logout
      /\ r4.player = "none" => r5.player = "none"
  BY <1>4, LogsOut
<1> HIDE DEF r5
<1>6. /\ r6 \in Object /\ r6.life = r5.life /\ r6.told = r5.told /\ r6.init = r5.init
      /\ r6.open = r5.open /\ r6.forceExit = r5.forceExit /\ r6.m_inQueue = r5.m_inQueue
      /\ r6.player = r5.player
  BY <1>5, Expires
<1> HIDE DEF r6
<1>7. ASSUME Doomed(r0) PROVE Leaves(r6) \/ r6.player = "none"
  <2>1. CASE r0.forceExit /\ ~r0.open
    <3>1. r6.forceExit /\ ~r6.open
      BY <1>1, <1>2, <1>3, <1>4, <1>5, <1>6, <2>1
    <3>2. QED
      BY <3>1 DEF Leaves
  <2>2. CASE r0.player = "none" /\ r0.told # 0
    BY <1>1, <1>2, <1>3, <1>4, <1>5, <1>6, <2>2
  <2>3. QED
    BY <1>7, <2>1, <2>2 DEF Doomed
<1>8. r6 \in Object /\ r6.life = r0.life
  BY <1>1, <1>2, <1>3, <1>4, <1>5, <1>6
<1>9. r0.init # "ready" => r6.told = r0.told /\ r6.m_inQueue = r0.m_inQueue /\ r6.init = r0.init
  BY <1>1, <1>2, <1>3, <1>4, <1>5, <1>6
<1>10. r0.init = "ready" => r6.init = "done"
  BY <1>1, <1>2, <1>3, <1>4, <1>5, <1>6
<1>11. r6.player = "world" => r4.player = "world" /\ ~logout
  BY <1>5, <1>6
<1>12. Ended(r0, r4, r6, logout)
  BY <1>7, <1>8, <1>9, <1>10, <1>11 DEF Ended
<1>13. QED
  <2> HIDE DEF x4, x6
  <2>1. Ended(r0, x4, x6, logout)
    BY <1>0, <1>12
  <2>2. QED
    BY <2>1 DEF x4, x6

LEMMA Replaced ==
    ASSUME NEW q \in Seq(Sessions), NEW ses \in [Sessions -> Object], InPlace(q, ses),
           NEW s \in Sessions, NEW x \in Object,
           s \in ToSet(q) => x.told = ses[s].told /\ x.m_inQueue = ses[s].m_inQueue
                             /\ x.init = ses[s].init
    PROVE  /\ [ses EXCEPT ![s] = x] \in [Sessions -> Object]
           /\ InPlace(q, [ses EXCEPT ![s] = x])
           /\ [ses EXCEPT ![s] = x][s] = x
           /\ \A t \in Sessions : t # s => [ses EXCEPT ![s] = x][t] = ses[t]
<1> DEFINE y == [ses EXCEPT ![s] = x]
<1>1. /\ y \in [Sessions -> Object] /\ y[s] = x
      /\ \A t \in Sessions : t # s => y[t] = ses[t]
  OBVIOUS
<1> HIDE DEF y
<1>2. \A i \in DOMAIN q : q[i] \in Sessions /\ q[i] \in ToSet(q)
  BY Members
<1>3. InPlace(q, y)
  BY <1>1, <1>2 DEF InPlace
<1>4. QED
  BY <1>1, <1>3 DEF y

LEMMA Dropped ==
    ASSUME SessionsInv, NEW a \in Accounts, NEW s \in Sessions, NEW r \in Object,
           InPlace(m_QueuedPlayer, [session EXCEPT ![s] = r]),
           Drop(a, s, r)
    PROVE  /\ m_QueuedPlayer' \in Seq(Sessions) /\ ToSet(m_QueuedPlayer') \subseteq Waiting \ {s}
           /\ session' \in [Sessions -> Object] /\ session'[s] = Deleted(r)
           /\ InPlace(m_QueuedPlayer', session')
           /\ \A t \in Sessions : t # s => /\ Alike(session[t], session'[t])
                                           /\ t \notin Waiting => session'[t] = session[t]
           /\ m_sessions' = [m_sessions EXCEPT ![a] = NoSession]
           /\ m_disconnects' \in [Accounts -> Int] /\ limitMoved' \in BOOLEAN
           /\ m_QueuedPlayer' = NextQueue(NextQueue(m_QueuedPlayer, Size, s), Size, s)
           /\ limitMoved' = (limitMoved /\ m_QueuedPlayer' # <<>>)
           /\ \A t \in Sessions : LetIn(t) =>
                \/ TakesTurn(m_QueuedPlayer, Size, s, t)
                \/ TakesTurn(NextQueue(m_QueuedPlayer, Size, s), Size, s, t)
<1> DEFINE q      == m_QueuedPlayer
           ses    == [session EXCEPT ![s] = r]
           first  == RemoveQueuedPlayer(q, ses, Size, s)
           second == RemoveQueuedPlayer(first.queue, first.session, Size, s)
           d      == Deleted(second.session[s])
<1>1. /\ m_QueuedPlayer' = second.queue
      /\ session' = [second.session EXCEPT ![s] = d]
      /\ m_sessions' = [m_sessions EXCEPT ![a] = NoSession]
      /\ m_disconnects' = IF ~first.found /\ Tolerance > 0
                          THEN [m_disconnects EXCEPT ![a] = now] ELSE m_disconnects
      /\ limitMoved' = (limitMoved /\ m_QueuedPlayer' # <<>>)
  BY DEF Drop
<1>2. /\ q \in Seq(Sessions) /\ session \in [Sessions -> Object]
      /\ m_disconnects \in [Accounts -> Int] /\ now \in Nat
  BY DEF SessionsInv, SessionsType
<1>3. /\ ses \in [Sessions -> Object] /\ InPlace(q, ses)
      /\ \A t \in Sessions : t # s => ses[t] = session[t]
  BY <1>2
<1> HIDE DEF ses, q
<1>4. /\ first.queue \in Seq(Sessions) /\ ToSet(first.queue) \subseteq ToSet(q) \ {s}
      /\ first.session \in [Sessions -> Object] /\ InPlace(first.queue, first.session)
      /\ \A t \in Sessions : /\ Alike(ses[t], first.session[t])
                             /\ t \notin ToSet(q) => first.session[t] = ses[t]
                             /\ first.session[t].init = IF TakesTurn(q, Size, s, t) THEN "asked"
                                                        ELSE ses[t].init
      /\ first.queue = NextQueue(q, Size, s)
  BY <1>2, <1>3, Removed DEF q
<1> HIDE DEF first
<1>5. /\ second.queue \in Seq(Sessions) /\ ToSet(second.queue) \subseteq ToSet(first.queue) \ {s}
      /\ second.session \in [Sessions -> Object] /\ InPlace(second.queue, second.session)
      /\ \A t \in Sessions : /\ Alike(first.session[t], second.session[t])
                             /\ t \notin ToSet(first.queue) => second.session[t] = first.session[t]
                             /\ second.session[t].init = IF TakesTurn(first.queue, Size, s, t) THEN "asked"
                                                         ELSE first.session[t].init
      /\ second.queue = NextQueue(first.queue, Size, s)
  BY <1>4, Removed
<1> HIDE DEF second
<1>6. d \in Object /\ d = Deleted(r)
  BY Gone DEF Deleted
<1>7. s \notin ToSet(second.queue)
  BY <1>5
<1> DEFINE new == [second.session EXCEPT ![s] = d]
<1>8. /\ new \in [Sessions -> Object] /\ InPlace(second.queue, new) /\ new[s] = d
      /\ \A t \in Sessions : t # s => new[t] = second.session[t]
  <2> HIDE DEF d
  <2>1. QED
    BY <1>5, <1>6, <1>7, Replaced
<1>9. session' = new
  BY <1>1
<1> HIDE DEF new, d
<1>10. ASSUME NEW t \in Sessions, t # s
       PROVE  Alike(session[t], session'[t]) /\ (t \notin Waiting => session'[t] = session[t])
  <2>1. ses[t] = session[t] /\ session'[t] = second.session[t]
    BY <1>3, <1>8, <1>9, <1>10
  <2>2. Alike(ses[t], first.session[t]) /\ Alike(first.session[t], second.session[t])
    BY <1>4, <1>5
  <2>3. Alike(ses[t], second.session[t])
    BY <2>2 DEF Alike
  <2>4. t \notin ToSet(q) => second.session[t] = ses[t]
    BY <1>4, <1>5
  <2>5. QED
    BY <2>1, <2>3, <2>4 DEF q
<1>11. m_disconnects' \in [Accounts -> Int]
  BY <1>1, <1>2
<1>12. limitMoved' \in BOOLEAN
  BY <1>1
<1>13. m_QueuedPlayer' \in Seq(Sessions) /\ ToSet(m_QueuedPlayer') \subseteq Waiting \ {s}
  <2>1. ToSet(second.queue) \subseteq ToSet(q) \ {s} /\ second.queue \in Seq(Sessions)
    BY <1>4, <1>5
  <2>2. QED
    BY <1>1, <2>1 DEF q
<1>14. /\ session' \in [Sessions -> Object] /\ session'[s] = Deleted(r)
       /\ InPlace(m_QueuedPlayer', session')
  BY <1>1, <1>6, <1>8, <1>9
<1>15. m_QueuedPlayer' = NextQueue(NextQueue(m_QueuedPlayer, Size, s), Size, s)
  BY <1>1, <1>4, <1>5 DEF q
<1>16. ASSUME NEW t \in Sessions, LetIn(t)
       PROVE  \/ TakesTurn(m_QueuedPlayer, Size, s, t)
              \/ TakesTurn(NextQueue(m_QueuedPlayer, Size, s), Size, s, t)
  <2>1. session[t].init = "no" /\ session'[t].init = "asked"
    BY <1>16 DEF LetIn
  <2>2. t # s
    BY <1>14, <2>1, Gone
  <2>3. ses[t].init = "no" /\ second.session[t].init = "asked"
    BY <1>3, <1>8, <1>9, <2>1, <2>2
  <2>4. TakesTurn(q, Size, s, t) \/ TakesTurn(first.queue, Size, s, t)
    BY <1>4, <1>5, <2>3
  <2>5. QED
    BY <1>4, <2>4 DEF q
<1>17. QED
  BY <1>1, <1>10, <1>11, <1>12, <1>13, <1>14, <1>15, <1>16

LEMMA DropStep ==
    ASSUME SessionsInv, NEW a \in todo, NEW r \in Object, tick = "update",
           InPlace(m_QueuedPlayer, [session EXCEPT ![m_sessions[a]] = r]),
           Drop(a, m_sessions[a], r),
           online' = Offline(online, a), charOnline' = Offline(charOnline, a), todo' = todo \ {a},
           UNCHANGED <<tick, stopped, now, addSessQueue, commands, m_playerLimit>>
    PROVE  SessionsInv'
<1> DEFINE s == m_sessions[a]
<1>1. /\ a \in Accounts /\ s \in Sessions /\ s # NoSession /\ AccountOf[s] = a
      /\ session[s].life = "registered"
  <2>1. a \in Accounts /\ s # NoSession
    BY DEF SessionsInv, SessionsType, TodoInv
  <2>2. s \in Sessions /\ AccountOf[s] = a
    BY <2>1 DEF SessionsInv, SessionsType, LifeInv
  <2>3. QED
    BY <2>1, <2>2 DEF SessionsInv, LifeInv
<1>2. /\ m_QueuedPlayer' \in Seq(Sessions) /\ ToSet(m_QueuedPlayer') \subseteq Waiting \ {s}
      /\ session' \in [Sessions -> Object] /\ session'[s] = Deleted(r)
      /\ InPlace(m_QueuedPlayer', session')
      /\ \A t \in Sessions : t # s => /\ Alike(session[t], session'[t])
                                      /\ t \notin Waiting => session'[t] = session[t]
      /\ m_sessions' = [m_sessions EXCEPT ![a] = NoSession]
      /\ m_disconnects' \in [Accounts -> Int] /\ limitMoved' \in BOOLEAN
  BY <1>1, Dropped
<1>3. /\ session'[s].life = "dead" /\ session'[s].player = "none"
      /\ session'[s].told = -1 /\ session'[s].init = "no"
  BY <1>2, Gone
<1> HIDE DEF s
<1>4. /\ m_sessions \in [Accounts -> Sessions \cup {NoSession}]
      /\ m_sessions'[a] = NoSession
      /\ \A b \in Accounts : b # a => m_sessions'[b] = m_sessions[b]
      /\ m_sessions' \in [Accounts -> Sessions \cup {NoSession}]
  BY <1>1, <1>2 DEF SessionsInv, SessionsType
<1>5. SessionsType'
  BY <1>2, <1>4 DEF SessionsInv, SessionsType, Offline
<1>6. \A t \in Sessions : t # s /\ session[t].life # "registered" => session'[t] = session[t]
  <2>1. \A t \in Waiting : t \in Sessions /\ session[t].life = "registered"
    BY Members DEF SessionsInv, SessionsType, LifeInv, PlaceInv
  <2>2. QED
    BY <1>2, <2>1
<1>7. LifeInv'
  <2>1. IsInjective(addSessQueue')
    BY DEF SessionsInv, LifeInv
  <2>2. s \notin ToSet(addSessQueue)
    BY <1>1 DEF SessionsInv, LifeInv, s
  <2>3. \A t \in Sessions : session'[t].life = "handed" <=> t \in ToSet(addSessQueue')
    BY <1>1, <1>2, <1>3, <2>2 DEF SessionsInv, LifeInv, Alike
  <2>4. \A t \in Sessions : session'[t].life = "registered" <=> m_sessions'[AccountOf[t]] = t
    <3>1. SUFFICES ASSUME NEW t \in Sessions
                   PROVE  session'[t].life = "registered" <=> m_sessions'[AccountOf[t]] = t
      OBVIOUS
    <3>2. AccountOf[t] \in Accounts /\ t # NoSession
      BY Accounted
    <3>3. CASE t = s
      BY <1>1, <1>3, <1>4, <3>2, <3>3
    <3>4. CASE t # s /\ AccountOf[t] = a
      <4>1. session[t].life # "registered"
        BY <3>4 DEF SessionsInv, LifeInv, s
      <4>2. QED
        BY <1>2, <1>4, <3>2, <3>4, <4>1 DEF Alike
    <3>5. CASE t # s /\ AccountOf[t] # a
      BY <1>2, <1>4, <3>2, <3>5 DEF SessionsInv, LifeInv, Alike
    <3>6. QED
      BY <3>3, <3>4, <3>5
  <2>5. \A b \in Accounts : m_sessions'[b] # NoSession => AccountOf[m_sessions'[b]] = b
    BY <1>4 DEF SessionsInv, LifeInv
  <2>6. \A t \in Sessions : session'[t].life # "registered" =>
           session'[t].player = "none" /\ session'[t].told = -1 /\ session'[t].init = "no"
    BY <1>2, <1>3, <1>6 DEF SessionsInv, LifeInv, Alike
  <2>7. QED
    BY <2>1, <2>3, <2>4, <2>5, <2>6 DEF LifeInv
<1>8. \A b \in Accounts : m_sessions'[b] # NoSession =>
         /\ b # a /\ m_sessions'[b] = m_sessions[b] /\ m_sessions[b] \in Sessions
         /\ m_sessions[b] # s /\ Alike(session[m_sessions[b]], session'[m_sessions[b]])
  <2>1. SUFFICES ASSUME NEW b \in Accounts, m_sessions'[b] # NoSession
                 PROVE  /\ b # a /\ m_sessions'[b] = m_sessions[b] /\ m_sessions[b] \in Sessions
                        /\ m_sessions[b] # s
    BY <1>2
  <2>2. b # a /\ m_sessions'[b] = m_sessions[b] /\ m_sessions[b] \in Sessions
    BY <1>4, <2>1
  <2>3. m_sessions[b] # s
    BY <1>1, <2>1, <2>2 DEF SessionsInv, LifeInv
  <2>4. QED
    BY <2>2, <2>3
<1>9. PlaceInv'
  <2>1. \A t \in ToSet(m_QueuedPlayer') : m_sessions'[AccountOf[t]] = t
    <3>1. SUFFICES ASSUME NEW t \in ToSet(m_QueuedPlayer') PROVE m_sessions'[AccountOf[t]] = t
      OBVIOUS
    <3>2. t \in Sessions /\ t # s /\ m_sessions[AccountOf[t]] = t
      BY <1>2, Members DEF SessionsInv, PlaceInv
    <3>3. AccountOf[t] \in Accounts /\ AccountOf[t] # a
      BY <3>2, Accounted DEF s
    <3>4. QED
      BY <1>4, <3>2, <3>3
  <2>2. QED
    BY <1>2, <2>1 DEF PlaceInv
<1>10. ShutdownInv'
  <2>1. \A x, y : Alike(x, y) /\ Doomed(x) => Doomed(y)
    BY DEF Alike, Doomed
  <2>2. QED
    BY <1>8, <2>1 DEF SessionsInv, ShutdownInv, Alike
<1>11. OnlineFlags'
  <2>1. \A t \in Sessions : Alive(t)' => Alive(t)
    BY <1>2, <1>3 DEF Alive, Alike
  <2>2. \A t \in Sessions : AccountOf[t] # a => (Alive(t)' <=> Alive(t))
    BY <1>1, <1>2 DEF Alive, Alike
  <2>3. \A b \in Accounts : b # a => (b \in online' <=> b \in online)
                                  /\ (b \in charOnline' <=> b \in charOnline)
    BY DEF Offline
  <2>4. a \notin online' /\ a \notin charOnline'
    BY DEF Offline
  <2>5. \A b \in Accounts : m_sessions'[b] # NoSession /\ session'[m_sessions'[b]].player = "world" =>
           b \in online' /\ b \in charOnline'
    BY <1>8, <2>3 DEF SessionsInv, OnlineFlags, Alike
  <2>6. \A b \in Accounts : (\A t \in Sessions : AccountOf[t] = b => ~Alive(t)') =>
           b \notin online' \cup charOnline'
    BY <2>2, <2>3, <2>4 DEF SessionsInv, OnlineFlags
  <2>7. QED
    BY <2>5, <2>6 DEF OnlineFlags
<1>12. TodoInv'
  <2>1. \A b \in todo' : b \in todo /\ b \in Accounts /\ b # a
    BY DEF SessionsInv, SessionsType
  <2>2. QED
    BY <1>4, <2>1 DEF SessionsInv, TodoInv
<1>13. QED
  BY <1>5, <1>7, <1>9, <1>10, <1>11, <1>12 DEF SessionsInv

LEMMA StayStep ==
    ASSUME SessionsInv, NEW a \in todo, NEW r \in Object, tick = "update",
           InPlace(m_QueuedPlayer, [session EXCEPT ![m_sessions[a]] = r]),
           Stay(a, m_sessions[a], r), r.life = session[m_sessions[a]].life,
           Doomed(session[m_sessions[a]]) => r.player = "none",
           r.player = "world" => a \in online' /\ a \in charOnline',
           online' \in {online, online \cup {a}},
           charOnline' \in {charOnline, charOnline \cup {a}, charOnline \ {a}},
           todo' = todo \ {a},
           UNCHANGED <<tick, stopped, now, addSessQueue, commands, m_playerLimit>>
    PROVE  SessionsInv'
<1> DEFINE s == m_sessions[a]
<1>1. /\ a \in Accounts /\ s \in Sessions /\ s # NoSession /\ AccountOf[s] = a
      /\ session[s].life = "registered"
  <2>1. a \in Accounts /\ s # NoSession
    BY DEF SessionsInv, SessionsType, TodoInv
  <2>2. s \in Sessions /\ AccountOf[s] = a
    BY <2>1 DEF SessionsInv, SessionsType, LifeInv
  <2>3. QED
    BY <2>1, <2>2 DEF SessionsInv, LifeInv
<1>2. /\ session' = [session EXCEPT ![s] = r] /\ session \in [Sessions -> Object]
      /\ UNCHANGED <<m_sessions, m_QueuedPlayer, m_disconnects, limitMoved>>
  BY DEF Stay, SessionsInv, SessionsType
<1>3. /\ session' \in [Sessions -> Object] /\ session'[s] = r
      /\ \A t \in Sessions : t # s => session'[t] = session[t]
  BY <1>1, <1>2
<1>4. InPlace(m_QueuedPlayer', session')
  BY <1>2
<1>5. r.life = session[s].life /\ (Doomed(session[s]) => r.player = "none")
  OBVIOUS
<1>6. \A b \in Accounts : m_sessions[b] # NoSession =>
         m_sessions[b] \in Sessions /\ (b # a => m_sessions[b] # s)
  BY <1>1 DEF SessionsInv, SessionsType, LifeInv
<1>7. m_sessions[a] = s
  OBVIOUS
<1> HIDE DEF s
<1>8. SessionsType'
  BY <1>1, <1>2, <1>3 DEF SessionsInv, SessionsType
<1>9. LifeInv'
  BY <1>1, <1>2, <1>3, <1>5 DEF SessionsInv, LifeInv
<1>10. PlaceInv'
  BY <1>2, <1>4 DEF SessionsInv, PlaceInv
<1>11. ShutdownInv'
  BY <1>1, <1>2, <1>3, <1>5, <1>6, <1>7 DEF SessionsInv, ShutdownInv
<1>12. OnlineFlags'
  <2>1. \A t \in Sessions : Alive(t)' <=> Alive(t)
    BY <1>3, <1>5 DEF Alive
  <2>2. Alive(s)
    BY <1>1 DEF Alive
  <2>3. \A b \in Accounts : b # a => (b \in online' <=> b \in online)
                                  /\ (b \in charOnline' <=> b \in charOnline)
    OBVIOUS
  <2>4. \A b \in Accounts : m_sessions'[b] # NoSession /\ session'[m_sessions'[b]].player = "world" =>
           b \in online' /\ b \in charOnline'
    BY <1>2, <1>3, <1>6, <1>7, <2>3 DEF SessionsInv, OnlineFlags
  <2>5. \A b \in Accounts : (\A t \in Sessions : AccountOf[t] = b => ~Alive(t)') =>
           b \notin online' \cup charOnline'
    BY <1>1, <2>1, <2>2, <2>3 DEF SessionsInv, OnlineFlags
  <2>6. QED
    BY <2>4, <2>5 DEF OnlineFlags
<1>13. TodoInv'
  BY <1>2 DEF SessionsInv, TodoInv
<1>14. QED
  BY <1>8, <1>9, <1>10, <1>11, <1>12, <1>13 DEF SessionsInv

LEMMA UpdateSessionStep ==
    ASSUME SessionsInv, NEW a \in Accounts, UpdateSession(a)
    PROVE  SessionsInv'
<1> DEFINE s  == m_sessions[a]
           r0 == session[s]
<1>1. /\ tick = "update" /\ a \in todo /\ todo' = todo \ {a}
      /\ UNCHANGED <<tick, stopped, now, addSessQueue, commands, m_playerLimit>>
  BY DEF UpdateSession
<1>2. PICK idle, login, answered, loads, logout \in BOOLEAN :
         LET r1 == IF idle THEN [r0 EXCEPT !.open = FALSE] ELSE r0
             r2 == IF login THEN HandlePlayerLoginOpcode(r1) ELSE r1
             r3 == InitializeSessionCallback(r2)
             r4 == IF answered THEN HandlePlayerLogin(r3, loads) ELSE r3
             r5 == IF logout THEN LogoutPlayer(r4) ELSE r4
             r6 == Countdown(r5)
             in == r4.player = "world" /\ r0.player # "world"
         IN  /\ idle => r0.open /\ ~r0.m_inQueue
             /\ login => r2 # r1
             /\ answered => r3.player = "loading"
             /\ loads => answered
             /\ logout => r4.player = "world"
             /\ IF Leaves(r6) THEN Drop(a, s, r6) ELSE Stay(a, s, r6)
             /\ online' = IF Leaves(r6) THEN Offline(online, a)
                          ELSE IF in THEN online \cup {a} ELSE online
             /\ charOnline' = IF Leaves(r6) \/ (logout /\ r4.player = "world") THEN Offline(charOnline, a)
                              ELSE IF in THEN charOnline \cup {a} ELSE charOnline
  BY Zenon DEF UpdateSession
<1> DEFINE r1 == IF idle THEN [r0 EXCEPT !.open = FALSE] ELSE r0
           r2 == IF login THEN HandlePlayerLoginOpcode(r1) ELSE r1
           r3 == InitializeSessionCallback(r2)
           r4 == IF answered THEN HandlePlayerLogin(r3, loads) ELSE r3
           r5 == IF logout THEN LogoutPlayer(r4) ELSE r4
           r6 == Countdown(r5)
           in == r4.player = "world" /\ r0.player # "world"
<1>3. s \in Sessions /\ s # NoSession /\ r0 \in Object /\ session \in [Sessions -> Object]
  BY <1>1 DEF SessionsInv, SessionsType, TodoInv
<1>4. /\ r6 \in Object /\ r6.life = r0.life
      /\ r0.init # "ready" => r6.told = r0.told /\ r6.m_inQueue = r0.m_inQueue /\ r6.init = r0.init
      /\ r0.init = "ready" => r6.init = "done"
      /\ Doomed(r0) => Leaves(r6) \/ r6.player = "none"
      /\ r6.player = "world" => r4.player = "world" /\ ~logout
  <2>0. /\ idle \in BOOLEAN /\ login \in BOOLEAN /\ answered \in BOOLEAN
        /\ loads \in BOOLEAN /\ logout \in BOOLEAN
    OBVIOUS
  <2>1. r4 = Loaded(r0, idle, login, answered, loads) /\ r6 = AtEnd(r4, logout)
    BY Zenon DEF Loaded, AtEnd
  <2> HIDE DEF r0, r4, r6
  <2>2. Ended(r0, Loaded(r0, idle, login, answered, loads),
              AtEnd(Loaded(r0, idle, login, answered, loads), logout), logout)
    BY <1>3, <2>0, Updated, Zenon
  <2>3. Ended(r0, r4, r6, logout)
    BY <2>1, <2>2, Zenon
  <2>4. QED
    BY <2>3, Zenon DEF Ended
<1>5. /\ IF Leaves(r6) THEN Drop(a, s, r6) ELSE Stay(a, s, r6)
      /\ online' = IF Leaves(r6) THEN Offline(online, a)
                   ELSE IF in THEN online \cup {a} ELSE online
      /\ charOnline' = IF Leaves(r6) \/ (logout /\ r4.player = "world") THEN Offline(charOnline, a)
                       ELSE IF in THEN charOnline \cup {a} ELSE charOnline
  BY <1>2
<1> HIDE DEF r6, r4
<1>6. InPlace(m_QueuedPlayer, [session EXCEPT ![s] = r6])
  <2>1. m_QueuedPlayer \in Seq(Sessions) /\ InPlace(m_QueuedPlayer, session)
    BY DEF SessionsInv, SessionsType, PlaceInv
  <2>2. s \in ToSet(m_QueuedPlayer) => r0.init = "no"
    BY <2>1, Members DEF InPlace
  <2>3. QED
    BY <1>3, <1>4, <2>1, <2>2, Replaced
<1>7. r0.player = "world" => a \in online /\ a \in charOnline
  BY <1>3 DEF SessionsInv, OnlineFlags
<1>8. CASE Leaves(r6)
  BY <1>1, <1>3, <1>4, <1>5, <1>6, <1>8, DropStep
<1>9. CASE ~Leaves(r6)
  <2>1. r6.player = "world" => a \in online' /\ a \in charOnline'
    BY <1>4, <1>5, <1>7, <1>9
  <2>2. /\ online' \in {online, online \cup {a}}
        /\ charOnline' \in {charOnline, charOnline \cup {a}, charOnline \ {a}}
    BY <1>5, <1>9 DEF Offline
  <2>3. Stay(a, s, r6) /\ (Doomed(r0) => r6.player = "none")
    BY <1>4, <1>5, <1>9
  <2> HIDE DEF in
  <2>4. QED
    BY <1>1, <1>3, <1>4, <1>6, <2>1, <2>2, <2>3, StayStep
<1>10. QED
  BY <1>8, <1>9
-----------------------------------------------------------------------------
(* AddSession_                                                             *)

(* The queue and the sessions after the account's old session was removed   *)
Replacing(a, old) ==
    IF old = NoSession THEN [queue |-> m_QueuedPlayer, session |-> session, found |-> FALSE]
    ELSE AddSession_RemovesOld(m_QueuedPlayer, [session EXCEPT ![old] = KickPlayer(@)], Size, old)

QueueWithout(old) == IF old = NoSession THEN m_QueuedPlayer ELSE NextQueue(m_QueuedPlayer, Size, old)

MustWait(a, old) ==
    /\ GetPlayerAmountLimit > 0
    /\ CountedSessions(IF old = NoSession THEN Size + 1 ELSE Size, old \in Waiting) >= GetPlayerAmountLimit
    /\ a \notin Privileged
    /\ ~HasRecentlyDisconnected(a)

LEMMA NewcomerFacts ==
    ASSUME SessionsInv, addSessQueue # <<>>
    PROVE  LET s == Head(addSessQueue) IN
           /\ s \in Sessions /\ AccountOf[s] \in Accounts /\ s # NoSession
           /\ s \in ToSet(addSessQueue) /\ session[s].life = "handed" /\ session[s] \in Object
           /\ session[s].player = "none" /\ session[s].told = -1 /\ session[s].init = "no"
           /\ s \notin Waiting /\ \A b \in Accounts : m_sessions[b] # s
           /\ Tail(addSessQueue) \in Seq(Sessions) /\ IsInjective(Tail(addSessQueue))
           /\ ToSet(Tail(addSessQueue)) = ToSet(addSessQueue) \ {s}
<1> DEFINE s == Head(addSessQueue)
           p == Tail(addSessQueue)
<1>1. addSessQueue \in Seq(Sessions) /\ IsInjective(addSessQueue)
  BY DEF SessionsInv, SessionsType, LifeInv
<1>2. /\ Closed(addSessQueue, 1, p) /\ s = addSessQueue[1] /\ 1 \in 1 .. Len(addSessQueue)
      /\ s \in Sessions /\ s \in ToSet(addSessQueue)
  BY <1>1, TailCloses
<1> HIDE DEF s, p
<1>3. p \in Seq(Sessions) /\ IsInjective(p) /\ ToSet(p) = ToSet(addSessQueue) \ {s}
  <2>1. IsInjective(p) /\ ToSet(p) = ToSet(addSessQueue) \ {addSessQueue[1]}
    BY <1>1, <1>2, ClosedFacts
  <2>2. QED
    BY <1>2, <2>1 DEF Closed
<1>4. AccountOf[s] \in Accounts /\ s # NoSession
  BY <1>2, Accounted
<1>5. session[s].life = "handed" /\ session[s] \in Object
  BY <1>2 DEF SessionsInv, SessionsType, LifeInv
<1>6. session[s].player = "none" /\ session[s].told = -1 /\ session[s].init = "no"
  BY <1>2, <1>5 DEF SessionsInv, LifeInv
<1>7. m_sessions[AccountOf[s]] # s
  BY <1>2, <1>5 DEF SessionsInv, LifeInv
<1>8. s \notin Waiting
  BY <1>7 DEF SessionsInv, PlaceInv
<1>9. \A b \in Accounts : m_sessions[b] # s
  BY <1>4, <1>7 DEF SessionsInv, LifeInv
<1>10. QED
  BY <1>2, <1>3, <1>4, <1>5, <1>6, <1>8, <1>9 DEF s, p

LEMMA OldRemoved ==
    ASSUME SessionsInv, NEW a \in Accounts
    PROVE  LET old == m_sessions[a]
               st  == Replacing(a, old)
           IN  /\ st.queue \in Seq(Sessions) /\ ToSet(st.queue) \subseteq Waiting \ {old}
               /\ st.session \in [Sessions -> Object] /\ InPlace(st.queue, st.session)
               /\ \A t \in Sessions : t # old => /\ Alike(session[t], st.session[t])
                                                 /\ t \notin Waiting => st.session[t] = session[t]
               /\ (st.found <=> old \in Waiting) /\ st.queue = QueueWithout(old)
               /\ \A t \in Sessions : t # old =>
                    st.session[t].init = IF old # NoSession /\ TakesTurn(m_QueuedPlayer, Size, old, t)
                                         THEN "asked" ELSE session[t].init
<1> DEFINE old == m_sessions[a]
           st  == Replacing(a, old)
<1>1. /\ m_QueuedPlayer \in Seq(Sessions) /\ session \in [Sessions -> Object]
      /\ InPlace(m_QueuedPlayer, session) /\ (old = NoSession \/ old \in Sessions)
  BY DEF SessionsInv, SessionsType, PlaceInv
<1>2. CASE old = NoSession
  <2>1. st.queue = m_QueuedPlayer /\ st.session = session /\ st.found = FALSE
        /\ QueueWithout(old) = m_QueuedPlayer
    BY <1>2 DEF Replacing, QueueWithout
  <2>2. ToSet(m_QueuedPlayer) \subseteq Sessions /\ NoSession \notin Sessions
    BY <1>1, Members, SessionsAssumption
  <2> HIDE DEF st
  <2>3. \A t \in Sessions : Alike(session[t], session[t])
    BY <1>1 DEF Alike
  <2>4. old \notin Waiting
    BY <1>2, <2>2
  <2> HIDE DEF old
  <2>5. (st.found <=> old \in Waiting)
    BY <2>1, <2>4
  <2>6. QED
    BY <1>1, <1>2, <2>1, <2>2, <2>3, <2>4, <2>5 DEF st, old
<1>3. CASE old # NoSession
  <2> DEFINE x   == KickPlayer(session[old])
             ses == [session EXCEPT ![old] = x]
  <2>1. old \in Sessions
    BY <1>1, <1>3
  <2>2. st = RemoveQueuedPlayer(m_QueuedPlayer, ses, Size, old)
    BY <1>3 DEF Replacing, AddSession_RemovesOld
  <2>3. /\ x \in Object /\ x.told = session[old].told /\ x.m_inQueue = session[old].m_inQueue
        /\ x.init = session[old].init
    BY <1>1, <2>1, Kicked
  <2> HIDE DEF x, st
  <2>4. /\ ses \in [Sessions -> Object] /\ InPlace(m_QueuedPlayer, ses)
        /\ \A t \in Sessions : t # old => ses[t] = session[t]
    BY <1>1, <2>1, <2>3, Replaced
  <2> HIDE DEF ses
  <2>5. /\ st.queue \in Seq(Sessions) /\ ToSet(st.queue) \subseteq ToSet(m_QueuedPlayer) \ {old}
        /\ st.session \in [Sessions -> Object] /\ InPlace(st.queue, st.session)
        /\ \A t \in Sessions : /\ Alike(ses[t], st.session[t])
                               /\ t \notin ToSet(m_QueuedPlayer) => st.session[t] = ses[t]
                               /\ st.session[t].init = IF TakesTurn(m_QueuedPlayer, Size, old, t)
                                                       THEN "asked" ELSE ses[t].init
        /\ st.found = (old \in ToSet(m_QueuedPlayer)) /\ st.queue = NextQueue(m_QueuedPlayer, Size, old)
    <3> HIDE DEF old
    <3>1. QED
      BY <1>1, <2>1, <2>2, <2>4, Removed
  <2>6. QueueWithout(old) = NextQueue(m_QueuedPlayer, Size, old)
    BY <1>3 DEF QueueWithout
  <2>7. QED
    BY <1>3, <2>4, <2>5, <2>6 DEF st
<1>4. QED
  BY <1>2, <1>3

LEMMA Admitted ==
    ASSUME SessionsInv, addSessQueue # <<>>, NEW s, s = Head(addSessQueue), Admit(s),
           NEW a, a = AccountOf[s], NEW old, old = m_sessions[a]
    PROVE  /\ m_sessions' = [m_sessions EXCEPT ![a] = s]
           /\ m_QueuedPlayer' \in Seq(Sessions)
           /\ ToSet(m_QueuedPlayer') \subseteq (Waiting \ {old}) \cup {s}
           /\ session' \in [Sessions -> Object] /\ InPlace(m_QueuedPlayer', session')
           /\ old \in Sessions => session'[old] = Deleted(session[old])
           /\ session'[s].life = "registered" /\ session'[s].player = "none" /\ session'[s].told # 0
           /\ \A t \in Sessions : t # s /\ t # old =>
                /\ Alike(session[t], session'[t])
                /\ t \notin Waiting => session'[t] = session[t]
           /\ limitMoved' \in BOOLEAN
           /\ m_QueuedPlayer' = IF MustWait(a, old) THEN Append(QueueWithout(old), s) ELSE QueueWithout(old)
           /\ limitMoved' = (limitMoved /\ m_QueuedPlayer' # <<>>)
           /\ session'[s].init = IF MustWait(a, old) THEN "no" ELSE "asked"
           /\ \A t \in Sessions : LetIn(t) /\ t # s =>
                old # NoSession /\ TakesTurn(m_QueuedPlayer, Size, old, t)
           /\ s \notin ToSet(QueueWithout(old))
<1> DEFINE st   == Replacing(a, old)
           size == IF old = NoSession THEN Size + 1 ELSE Size
           x    == [session[s] EXCEPT !.life = "registered"]
           gone == [t \in Sessions |-> IF t = old THEN Deleted(st.session[t])
                                       ELSE IF t = s THEN x ELSE st.session[t]]
           wait == /\ GetPlayerAmountLimit > 0
                   /\ CountedSessions(size, st.found) >= GetPlayerAmountLimit
                   /\ a \notin Privileged
                   /\ ~HasRecentlyDisconnected(a)
           k    == Len(st.queue) + 1
           y    == IF wait THEN [gone[s] EXCEPT !.m_inQueue = TRUE, !.told = k]
                   ELSE InitializeSession(gone[s])
           q    == IF wait THEN Append(st.queue, s) ELSE st.queue
<1>1. /\ m_sessions' = [m_sessions EXCEPT ![a] = s]
      /\ m_QueuedPlayer' = q
      /\ session' = [gone EXCEPT ![s] = y]
      /\ limitMoved' = (limitMoved /\ m_QueuedPlayer' # <<>>)
  BY DEF Admit, Replacing
<1>2. /\ s \in Sessions /\ a \in Accounts /\ session[s] \in Object /\ s \notin Waiting /\ s # old
      /\ session[s].player = "none" /\ session[s].told = -1 /\ session[s].init = "no"
  BY NewcomerFacts
<1>3. /\ st.queue \in Seq(Sessions) /\ ToSet(st.queue) \subseteq Waiting \ {old}
      /\ st.session \in [Sessions -> Object] /\ InPlace(st.queue, st.session)
      /\ \A t \in Sessions : t # old => /\ Alike(session[t], st.session[t])
                                        /\ t \notin Waiting => st.session[t] = session[t]
      /\ (st.found <=> old \in Waiting) /\ st.queue = QueueWithout(old)
      /\ \A t \in Sessions : t # old =>
           st.session[t].init = IF old # NoSession /\ TakesTurn(m_QueuedPlayer, Size, old, t)
                                THEN "asked" ELSE session[t].init
  BY <1>2, OldRemoved
<1>a. wait = MustWait(a, old)
  BY <1>3 DEF MustWait, CountedSessions
<1> HIDE DEF st
<1>4. /\ x \in Object /\ x.life = "registered" /\ x.player = "none" /\ x.told = -1 /\ x.init = "no"
  BY <1>2, Registers
<1> HIDE DEF x, wait
<1>5. \A t \in Sessions : gone[t] = IF t = old THEN Deleted(st.session[t])
                                    ELSE IF t = s THEN x ELSE st.session[t]
  OBVIOUS
<1>6. gone = [t \in Sessions |-> gone[t]]
  OBVIOUS
<1> HIDE DEF gone
<1>7. gone \in [Sessions -> Object] /\ gone[s] = x
  <2>1. \A t \in Sessions : gone[t] \in Object
    BY <1>3, <1>4, <1>5, Gone
  <2>2. QED
    BY <1>2, <1>5, <1>6, <2>1
<1>8. s \notin ToSet(st.queue) /\ old \notin ToSet(st.queue)
  BY <1>2, <1>3
<1>9. InPlace(st.queue, gone)
  <2> DEFINE p == st.queue
  <2>1. p \in Seq(Sessions) /\ s \notin ToSet(p) /\ old \notin ToSet(p) /\ InPlace(p, st.session)
    BY <1>3, <1>8
  <2> HIDE DEF p
  <2>2. \A i \in DOMAIN p : p[i] \in Sessions /\ p[i] # s /\ p[i] # old
    BY <2>1, Members
  <2>3. \A i \in DOMAIN p : gone[p[i]] = st.session[p[i]]
    BY <1>5, <2>2
  <2>4. InPlace(p, gone)
    BY <2>1, <2>3 DEF InPlace
  <2>5. QED
    BY <2>4 DEF p
<1>10. k \in Nat /\ k >= 1
  BY <1>3, Members
<1>11. /\ y \in Object /\ y.life = "registered" /\ y.player = "none" /\ y.told # 0
       /\ wait => y.told = k /\ y.m_inQueue /\ y.init = "no"
       /\ ~wait => y.init = "asked"
  <2>1. CASE wait
    <3> HIDE DEF k
    <3> DEFINE z == [x EXCEPT !.m_inQueue = TRUE, !.told = k]
    <3>1. /\ z \in Object /\ z.life = x.life /\ z.player = x.player /\ z.told = k
          /\ z.init = x.init /\ z.m_inQueue
      BY <1>4, <1>10, Waits
    <3>2. y = z
      BY <1>7, <2>1
    <3> HIDE DEF z, y
    <3>3. QED
      BY <1>4, <1>7, <1>10, <2>1, <3>1, <3>2
  <2>2. CASE ~wait
    <3>1. y = InitializeSession(x)
      BY <1>7, <2>2
    <3> HIDE DEF y
    <3>2. QED
      BY <1>4, <2>2, <3>1, Initializes
  <2>3. QED
    BY <2>1, <2>2
<1> HIDE DEF y
<1> DEFINE new == [gone EXCEPT ![s] = y]
<1>12. /\ new \in [Sessions -> Object] /\ InPlace(st.queue, new) /\ new[s] = y
       /\ \A t \in Sessions : t # s => new[t] = gone[t]
  <2> DEFINE p == st.queue
  <2>1. p \in Seq(Sessions) /\ s \notin ToSet(p) /\ InPlace(p, gone)
    BY <1>3, <1>8, <1>9
  <2> HIDE DEF p
  <2>2. /\ new \in [Sessions -> Object] /\ InPlace(p, new) /\ new[s] = y
        /\ \A t \in Sessions : t # s => new[t] = gone[t]
    BY <1>2, <1>7, <1>11, <2>1, Replaced
  <2>3. QED
    BY <2>2 DEF p
<1> HIDE DEF new
<1>b. q = IF wait THEN Append(QueueWithout(old), s) ELSE QueueWithout(old)
  BY <1>3
<1>13. /\ q \in Seq(Sessions) /\ ToSet(q) \subseteq (Waiting \ {old}) \cup {s} /\ InPlace(q, new)
  <2>1. CASE wait
    <3>1. q = Append(st.queue, s)
      BY <2>1
    <3> HIDE DEF q
    <3>2. /\ q \in Seq(Sessions) /\ IsInjective(q) /\ Len(q) = k
          /\ \A i \in 1 .. Len(st.queue) : q[i] = st.queue[i]
          /\ q[k] = s
          /\ ToSet(q) = ToSet(st.queue) \cup {s}
      BY <1>2, <1>3, <1>8, <3>1, QueuesLast DEF InPlace
    <3>3. /\ Len(st.queue) \in Nat /\ DOMAIN st.queue = 1 .. Len(st.queue)
          /\ DOMAIN q = 1 .. Len(st.queue) + 1 /\ k = Len(st.queue) + 1
      BY <1>3, <3>2, Members
    <3>4. ASSUME NEW i \in DOMAIN q
          PROVE  new[q[i]].told = i /\ new[q[i]].m_inQueue /\ new[q[i]].init = "no"
      <4>1. CASE i \in 1 .. Len(st.queue)
        BY <1>12, <3>2, <3>3, <4>1 DEF InPlace
      <4>2. CASE i = k
        BY <1>11, <1>12, <2>1, <3>2, <4>2
      <4>3. QED
        BY <3>3, <3>4, <4>1, <4>2
    <3>5. QED
      BY <1>3, <3>2, <3>4 DEF InPlace
  <2>2. CASE ~wait
    BY <1>3, <1>12, <2>2
  <2>3. QED
    BY <2>1, <2>2
<1> HIDE DEF q
<1>14. session' = new
  BY <1>1 DEF new
<1>15. ASSUME NEW t \in Sessions, t # s, t # old
       PROVE  Alike(session[t], session'[t]) /\ (t \notin Waiting => session'[t] = session[t])
  BY <1>3, <1>5, <1>12, <1>14, <1>15
<1>16. old \in Sessions => session'[old] = Deleted(session[old])
  BY <1>2, <1>5, <1>12, <1>14 DEF Deleted
<1>17. m_QueuedPlayer' = IF MustWait(a, old) THEN Append(QueueWithout(old), s) ELSE QueueWithout(old)
  BY <1>1, <1>a, <1>b
<1>18. session'[s].init = IF MustWait(a, old) THEN "no" ELSE "asked"
  BY <1>11, <1>12, <1>14, <1>a
<1>19. ASSUME NEW t \in Sessions, LetIn(t), t # s
       PROVE  old # NoSession /\ TakesTurn(m_QueuedPlayer, Size, old, t)
  <2>1. session[t].init = "no" /\ session'[t].init = "asked"
    BY <1>19 DEF LetIn
  <2>2. t # old
    BY <1>16, <2>1, Gone
  <2>3. session'[t] = st.session[t]
    BY <1>5, <1>12, <1>14, <1>19, <2>2
  <2>4. QED
    BY <1>3, <2>1, <2>2, <2>3
<1>20. s \notin ToSet(QueueWithout(old))
  BY <1>3, <1>8
<1>21. QED
  BY <1>1, <1>11, <1>12, <1>13, <1>14, <1>15, <1>16, <1>17, <1>18, <1>19, <1>20

LEMMA RefuseStep ==
    ASSUME SessionsInv, tick = "add", addSessQueue # <<>>,
           NEW s, s = Head(addSessQueue), NEW a, a = AccountOf[s], Refuse(s),
           m_sessions[a] # NoSession, PlayerLoading(session[m_sessions[a]]),
           online' = Offline(online, a), charOnline' = Offline(charOnline, a),
           addSessQueue' = Tail(addSessQueue),
           UNCHANGED <<tickVars, m_disconnects, commands, m_playerLimit>>
    PROVE  SessionsInv'
<1> DEFINE d == Deleted(KickPlayer(session[s]))
<1>1. /\ s \in Sessions /\ a \in Accounts /\ s \in ToSet(addSessQueue)
      /\ session[s].life = "handed"
      /\ s \notin Waiting /\ \A b \in Accounts : m_sessions[b] # s
      /\ addSessQueue' \in Seq(Sessions) /\ IsInjective(addSessQueue')
      /\ ToSet(addSessQueue') = ToSet(addSessQueue) \ {s}
  BY NewcomerFacts
<1>2. /\ session' = [session EXCEPT ![s] = d] /\ session \in [Sessions -> Object]
      /\ UNCHANGED <<m_sessions, m_QueuedPlayer, limitMoved>>
  BY DEF Refuse, SessionsInv, SessionsType
<1>3. d \in Object /\ d.life = "dead" /\ d.player = "none" /\ d.told = -1 /\ d.init = "no"
  BY Gone
<1> HIDE DEF d
<1>4. /\ session' \in [Sessions -> Object] /\ session'[s] = d
      /\ \A t \in Sessions : t # s => session'[t] = session[t]
  BY <1>1, <1>2, <1>3
<1>5. SessionsType'
  BY <1>1, <1>2, <1>4 DEF SessionsInv, SessionsType, Offline
<1>6. LifeInv'
  <2>1. \A t \in Sessions : session'[t].life = "handed" <=> t \in ToSet(addSessQueue')
    BY <1>1, <1>3, <1>4 DEF SessionsInv, LifeInv
  <2>2. \A t \in Sessions : session'[t].life = "registered" <=> m_sessions'[AccountOf[t]] = t
    <3>1. AccountOf[s] \in Accounts
      BY <1>1
    <3>2. m_sessions'[AccountOf[s]] # s /\ session'[s].life # "registered"
      BY <1>1, <1>2, <1>3, <1>4, <3>1
    <3>3. QED
      BY <1>2, <1>4, <3>2 DEF SessionsInv, LifeInv
  <2>3. \A t \in Sessions : session'[t].life # "registered" =>
           session'[t].player = "none" /\ session'[t].told = -1 /\ session'[t].init = "no"
    BY <1>3, <1>4 DEF SessionsInv, LifeInv
  <2>4. QED
    BY <1>1, <1>2, <2>1, <2>2, <2>3 DEF SessionsInv, LifeInv
<1>7. PlaceInv'
  <2>1. \A i \in DOMAIN m_QueuedPlayer : session'[m_QueuedPlayer[i]] = session[m_QueuedPlayer[i]]
    BY <1>1, <1>4, Members DEF SessionsInv, SessionsType
  <2>2. InPlace(m_QueuedPlayer, session')
    BY <2>1 DEF InPlace, SessionsInv, PlaceInv
  <2>3. QED
    BY <1>2, <2>2 DEF SessionsInv, PlaceInv
<1>8. \A b \in Accounts : m_sessions[b] # NoSession =>
         m_sessions[b] \in Sessions /\ session'[m_sessions[b]] = session[m_sessions[b]]
  BY <1>1, <1>4 DEF SessionsInv, SessionsType
<1>9. ShutdownInv'
  BY <1>2, <1>8 DEF SessionsInv, ShutdownInv
<1>10. OnlineFlags'
  <2>1. \A t \in Sessions : AccountOf[t] # a => (Alive(t)' <=> Alive(t))
    BY <1>1, <1>4 DEF Alive
  <2>2. \A b \in Accounts : b # a => (b \in online' <=> b \in online)
                                  /\ (b \in charOnline' <=> b \in charOnline)
    BY DEF Offline
  <2>3. a \notin online' /\ a \notin charOnline'
    BY DEF Offline
  <2>4. session'[m_sessions'[a]].player # "world"
    BY <1>1, <1>2, <1>8 DEF PlayerLoading
  <2>5. \A b \in Accounts : m_sessions'[b] # NoSession /\ session'[m_sessions'[b]].player = "world" =>
           b \in online' /\ b \in charOnline'
    BY <1>2, <1>8, <2>2, <2>4 DEF SessionsInv, OnlineFlags
  <2>6. \A b \in Accounts : (\A t \in Sessions : AccountOf[t] = b => ~Alive(t)') =>
           b \notin online' \cup charOnline'
    BY <2>1, <2>2, <2>3 DEF SessionsInv, OnlineFlags
  <2>7. QED
    BY <2>5, <2>6 DEF OnlineFlags
<1>11. TodoInv'
  BY DEF SessionsInv, TodoInv
<1>12. QED
  BY <1>5, <1>6, <1>7, <1>9, <1>10, <1>11 DEF SessionsInv

LEMMA AdmitStep ==
    ASSUME SessionsInv, tick = "add", addSessQueue # <<>>,
           NEW s, s = Head(addSessQueue), NEW a, a = AccountOf[s], Admit(s),
           NEW old, old = m_sessions[a],
           IF old # NoSession
           THEN online' = Offline(online, a) /\ charOnline' = Offline(charOnline, a)
           ELSE UNCHANGED dbVars,
           addSessQueue' = Tail(addSessQueue),
           UNCHANGED <<tickVars, m_disconnects, commands, m_playerLimit>>
    PROVE  SessionsInv'
<1>1. /\ s \in Sessions /\ a \in Accounts /\ s # NoSession /\ s \in ToSet(addSessQueue)
      /\ session[s].life = "handed"
      /\ s \notin Waiting /\ \A b \in Accounts : m_sessions[b] # s
      /\ addSessQueue' \in Seq(Sessions) /\ IsInjective(addSessQueue')
      /\ ToSet(addSessQueue') = ToSet(addSessQueue) \ {s}
  BY NewcomerFacts
<1>2. /\ m_sessions' = [m_sessions EXCEPT ![a] = s]
      /\ m_QueuedPlayer' \in Seq(Sessions)
      /\ ToSet(m_QueuedPlayer') \subseteq (Waiting \ {old}) \cup {s}
      /\ session' \in [Sessions -> Object] /\ InPlace(m_QueuedPlayer', session')
      /\ old \in Sessions => session'[old] = Deleted(session[old])
      /\ session'[s].life = "registered" /\ session'[s].player = "none" /\ session'[s].told # 0
      /\ \A t \in Sessions : t # s /\ t # old =>
           /\ Alike(session[t], session'[t])
           /\ t \notin Waiting => session'[t] = session[t]
      /\ limitMoved' \in BOOLEAN
  BY Admitted
<1>3. old \in Sessions => /\ session'[old].life = "dead" /\ session'[old].player = "none"
                          /\ session'[old].told = -1 /\ session'[old].init = "no"
  BY <1>2, Gone
<1>4. /\ m_sessions \in [Accounts -> Sessions \cup {NoSession}]
      /\ m_sessions'[a] = s
      /\ \A b \in Accounts : b # a => m_sessions'[b] = m_sessions[b]
      /\ m_sessions' \in [Accounts -> Sessions \cup {NoSession}]
  BY <1>1, <1>2 DEF SessionsInv, SessionsType
<1>5. /\ old # s /\ (old # NoSession => old \in Sessions)
      /\ old # NoSession => AccountOf[old] = a /\ session[old].life = "registered"
  <2>1. old # s /\ (old # NoSession => old \in Sessions /\ AccountOf[old] = a)
    BY <1>1, <1>4 DEF SessionsInv, LifeInv
  <2>2. old # NoSession => session[old].life = "registered"
    BY <2>1 DEF SessionsInv, LifeInv
  <2>3. QED
    BY <2>1, <2>2
<1>6. \A t \in Sessions : session[t].life = "registered" /\ t # old => AccountOf[t] # a
  BY DEF SessionsInv, LifeInv
<1>7. \A t \in Sessions : t # s /\ t # old /\ session[t].life # "registered" => session'[t] = session[t]
  <2>1. \A t \in Waiting : t \in Sessions /\ session[t].life = "registered"
    BY Members DEF SessionsInv, SessionsType, LifeInv, PlaceInv
  <2>2. QED
    BY <1>2, <2>1
<1>8. SessionsType'
  BY <1>1, <1>2, <1>4 DEF SessionsInv, SessionsType, Offline
<1>9. LifeInv'
  <2>1. \A t \in Sessions : session'[t].life = "handed" <=> t \in ToSet(addSessQueue')
    <3>1. SUFFICES ASSUME NEW t \in Sessions
                   PROVE  session'[t].life = "handed" <=> t \in ToSet(addSessQueue')
      OBVIOUS
    <3>2. CASE t = s
      BY <1>1, <1>2, <3>2
    <3>3. CASE t = old
      <4>1. session[t].life = "registered"
        BY <1>5, <3>3, SessionsAssumption
      <4>2. t \notin ToSet(addSessQueue)
        BY <4>1 DEF SessionsInv, LifeInv
      <4>3. QED
        BY <1>1, <1>3, <3>3, <4>2
    <3>4. CASE t # s /\ t # old
      BY <1>1, <1>2, <3>4 DEF SessionsInv, LifeInv, Alike
    <3>5. QED
      BY <3>2, <3>3, <3>4
  <2>2. \A t \in Sessions : session'[t].life = "registered" <=> m_sessions'[AccountOf[t]] = t
    <3>1. SUFFICES ASSUME NEW t \in Sessions
                   PROVE  session'[t].life = "registered" <=> m_sessions'[AccountOf[t]] = t
      OBVIOUS
    <3>2. AccountOf[t] \in Accounts
      BY Accounted
    <3>3. CASE t = s
      BY <1>2, <1>4, <3>3
    <3>4. CASE t = old
      BY <1>3, <1>4, <1>5, <3>4, SessionsAssumption
    <3>5. CASE t # s /\ t # old
      <4>1. session'[t].life = session[t].life
        BY <1>2, <3>5 DEF Alike
      <4>2. CASE AccountOf[t] = a
        BY <1>4, <1>6, <3>5, <4>1, <4>2
      <4>3. CASE AccountOf[t] # a
        BY <1>4, <3>2, <4>1, <4>3 DEF SessionsInv, LifeInv
      <4>4. QED
        BY <4>2, <4>3
    <3>6. QED
      BY <3>3, <3>4, <3>5
  <2>3. \A b \in Accounts : m_sessions'[b] # NoSession => AccountOf[m_sessions'[b]] = b
    BY <1>4 DEF SessionsInv, LifeInv
  <2>4. \A t \in Sessions : session'[t].life # "registered" =>
           session'[t].player = "none" /\ session'[t].told = -1 /\ session'[t].init = "no"
    BY <1>2, <1>3, <1>7 DEF SessionsInv, LifeInv, Alike
  <2>5. QED
    BY <1>1, <2>1, <2>2, <2>3, <2>4 DEF LifeInv
<1>10. PlaceInv'
  <2>1. \A t \in ToSet(m_QueuedPlayer') : m_sessions'[AccountOf[t]] = t
    <3>1. SUFFICES ASSUME NEW t \in ToSet(m_QueuedPlayer'), t # s PROVE m_sessions'[AccountOf[t]] = t
      BY <1>4
    <3>2. t \in Sessions /\ t \in Waiting /\ t # old
      BY <1>2, <3>1, Members
    <3>3. m_sessions[AccountOf[t]] = t /\ AccountOf[t] \in Accounts
      BY <3>2, Accounted DEF SessionsInv, PlaceInv
    <3>4. AccountOf[t] # a
      BY <3>2, <3>3
    <3>5. QED
      BY <1>4, <3>3, <3>4
  <2>2. QED
    BY <1>2, <2>1 DEF PlaceInv
<1>11. \A b \in Accounts : b # a /\ m_sessions[b] # NoSession =>
         /\ m_sessions[b] \in Sessions /\ m_sessions[b] # s /\ m_sessions[b] # old
         /\ Alike(session[m_sessions[b]], session'[m_sessions[b]])
  <2>1. SUFFICES ASSUME NEW b \in Accounts, b # a, m_sessions[b] # NoSession
                 PROVE  m_sessions[b] \in Sessions /\ m_sessions[b] # s /\ m_sessions[b] # old
    BY <1>2
  <2>2. m_sessions[b] \in Sessions /\ AccountOf[m_sessions[b]] = b
    BY <1>4, <2>1 DEF SessionsInv, LifeInv
  <2>3. QED
    BY <1>1, <1>5, <2>1, <2>2
<1>12. ShutdownInv'
  <2>1. \A x, y : Alike(x, y) /\ Doomed(x) => Doomed(y)
    BY DEF Alike, Doomed
  <2>2. Doomed(session'[s])
    BY <1>2 DEF Doomed
  <2>3. \A b \in Accounts : stopped /\ m_sessions'[b] # NoSession => Doomed(session'[m_sessions'[b]])
    BY <1>4, <1>11, <2>1, <2>2 DEF SessionsInv, ShutdownInv
  <2>4. QED
    BY <2>3 DEF ShutdownInv
<1>13. OnlineFlags'
  <2>1. \A t \in Sessions : AccountOf[t] # a => (Alive(t)' <=> Alive(t))
    <3>1. SUFFICES ASSUME NEW t \in Sessions, AccountOf[t] # a PROVE Alive(t)' <=> Alive(t)
      OBVIOUS
    <3>2. t # s /\ t # old
      BY <1>5, <3>1, SessionsAssumption
    <3>3. QED
      BY <1>2, <3>2 DEF Alive, Alike
  <2>2. \A b \in Accounts : b # a => (b \in online' <=> b \in online)
                                  /\ (b \in charOnline' <=> b \in charOnline)
    BY DEF Offline
  <2>3. Alive(s)'
    BY <1>2 DEF Alive
  <2>4. \A b \in Accounts : m_sessions'[b] # NoSession /\ session'[m_sessions'[b]].player = "world" =>
           b \in online' /\ b \in charOnline'
    BY <1>2, <1>4, <1>11, <2>2 DEF SessionsInv, OnlineFlags, Alike
  <2>5. \A b \in Accounts : (\A t \in Sessions : AccountOf[t] = b => ~Alive(t)') =>
           b \notin online' \cup charOnline'
    BY <1>1, <2>1, <2>2, <2>3 DEF SessionsInv, OnlineFlags
  <2>6. QED
    BY <2>4, <2>5 DEF OnlineFlags
<1>14. TodoInv'
  BY DEF SessionsInv, TodoInv
<1>15. QED
  BY <1>8, <1>9, <1>10, <1>12, <1>13, <1>14 DEF SessionsInv

LEMMA AddSessionStep ==
    ASSUME SessionsInv, AddSession_
    PROVE  SessionsInv'
<1> DEFINE s   == Head(addSessQueue)
           a   == AccountOf[s]
           old == m_sessions[a]
<1>1. /\ tick = "add" /\ addSessQueue # <<>>
      /\ IF old # NoSession /\ PlayerLoading(session[old]) THEN Refuse(s) ELSE Admit(s)
      /\ IF old # NoSession
         THEN online' = Offline(online, a) /\ charOnline' = Offline(charOnline, a)
         ELSE UNCHANGED dbVars
      /\ addSessQueue' = Tail(addSessQueue)
      /\ UNCHANGED <<tickVars, m_disconnects, commands, m_playerLimit>>
  BY DEF AddSession_
<1>2. CASE old # NoSession /\ PlayerLoading(session[old])
  BY <1>1, <1>2, RefuseStep
<1>3. CASE ~(old # NoSession /\ PlayerLoading(session[old]))
  BY <1>1, <1>3, AdmitStep
<1>4. QED
  BY <1>2, <1>3

-----------------------------------------------------------------------------
LEMMA SessionsInit ==
    Init => SessionsInv
<1> SUFFICES ASSUME Init PROVE SessionsInv
  OBVIOUS
<1> USE DEF Init
<1>1. /\ NewSession \in Object /\ NewSession.life = "unborn" /\ NewSession.player = "none"
      /\ NewSession.told = -1 /\ NewSession.init = "no"
  BY SessionsAssumption DEF NewSession, Object
<1>2. <<>> \in Seq(Sessions) /\ DOMAIN <<>> = {} /\ ToSet(<<>>) = {}
  BY EmptySeq DEF ToSet
<1>3. session \in [Sessions -> Object] /\ \A s \in Sessions : session[s] = NewSession
  BY <1>1
<1>4. SessionsType
  <2>1. Never \in Int
    BY DEF Never
  <2>2. m_disconnects \in [Accounts -> Int]
    BY <2>1
  <2>3. m_playerLimit \in Int /\ m_sessions \in [Accounts -> Sessions \cup {NoSession}]
    BY SessionsAssumption
  <2>4. QED
    BY <1>2, <1>3, <2>2, <2>3 DEF SessionsType
<1>5. LifeInv
  BY <1>1, <1>2, <1>3, Accounted DEF LifeInv, IsInjective
<1>6. PlaceInv
  BY <1>2 DEF PlaceInv, InPlace, IsInjective
<1>7. OnlineFlags
  BY DEF OnlineFlags
<1>8. QED
  BY <1>4, <1>5, <1>6, <1>7 DEF SessionsInv, ShutdownInv, TodoInv

LEMMA SessionsInvariance ==
    Spec => []SessionsInv
<1>1. ASSUME SessionsInv, [Next]_vars PROVE SessionsInv'
  <2>1. CASE BeginUpdate \/ NothingToAdd \/ EndUpdate
    BY <1>1, <2>1, QuietStep
  <2>2. CASE AddSession_
    BY <1>1, <2>2, AddSessionStep
  <2>3. CASE \E a \in Accounts : UpdateSession(a)
    BY <1>1, <2>3, UpdateSessionStep
  <2>4. CASE \E s \in Sessions : Handshake(s) \/ SocketCloses(s) \/ DbAnswersInit(s)
    BY <1>1, <2>4, HandshakeStep, SocketClosesStep, DbAnswersInitStep
  <2>5. CASE \E a \in Accounts : Kick(a)
    BY <1>1, <2>5, KickStep
  <2>6. CASE \E limit \in Limits : SetPlayerLimit(limit)
    BY <1>1, <2>6, QuietStep
  <2>7. CASE Shutdown
    BY <1>1, <2>7, ShutdownStep
  <2>8. CASE Finished \/ UNCHANGED vars
    BY <1>1, <2>8, QuietStep DEF Finished
  <2>9. QED
    BY <1>1, <2>1, <2>2, <2>3, <2>4, <2>5, <2>6, <2>7, <2>8 DEF Next, WorldThread
<1>2. QED
  BY SessionsInit, <1>1, PTL DEF Spec

(* What the state consists of.                                             *)
THEOREM SessionsTypeCorrect == Spec => []SessionsType
<1>1. SessionsInv => SessionsType
  BY DEF SessionsInv
<1>2. QED
  BY <1>1, SessionsInvariance, PTL

(* No pointer dangles, neither in the map of the sessions nor in the login *)
(* queue, and whoever waits was last told the place he has, however the    *)
(* queue is left and joined while RemoveQueuedPlayer counts and lets in.   *)
THEOREM QueueStaysSound == Spec => []QueueSound
<1>1. SessionsInv => QueueSound
  <2>1. SUFFICES ASSUME SessionsInv PROVE QueueSound
    OBVIOUS
  <2>2. \A a \in Accounts : m_sessions[a] # NoSession =>
          session[m_sessions[a]].life = "registered" /\ AccountOf[m_sessions[a]] = a
    BY <2>1 DEF SessionsInv, SessionsType, LifeInv
  <2>3. \A i \in DOMAIN m_QueuedPlayer : m_QueuedPlayer[i] \in Waiting
    BY <2>1, Members DEF SessionsInv, SessionsType
  <2>4. \A i \in DOMAIN m_QueuedPlayer : LET s == m_QueuedPlayer[i] IN
         /\ m_sessions[AccountOf[s]] = s
         /\ session[s].told = i /\ session[s].m_inQueue /\ session[s].init = "no"
         /\ \A j \in DOMAIN m_QueuedPlayer : m_QueuedPlayer[j] = s => j = i
    BY <2>1, <2>3 DEF SessionsInv, PlaceInv, InPlace, IsInjective
  <2>5. QED
    BY <2>2, <2>4 DEF QueueSound
<1>2. QED
  BY <1>1, SessionsInvariance, PTL

(* The database shows who is in the world as online, and nobody who has no *)
(* session: the statements of a destructor that runs after the constructor *)
(* of the account's next session do not lose a mark that is needed.        *)
THEOREM FlagsRight == Spec => []OnlineFlags
<1>1. SessionsInv => OnlineFlags
  BY DEF SessionsInv
<1>2. QED
  BY <1>1, SessionsInvariance, PTL

(* After KickAll and the last UpdateSessions no character is in the world. *)
THEOREM AllSaved == Spec => []AllSavedAtShutdown
<1>1. SessionsInv => AllSavedAtShutdown
  <2>1. SUFFICES ASSUME SessionsInv, tick = "over", NEW s \in Sessions
                 PROVE  session[s].player # "world"
    BY DEF AllSavedAtShutdown
  <2>2. CASE session[s].life # "registered"
    BY <2>1, <2>2 DEF SessionsInv, LifeInv
  <2>3. CASE session[s].life = "registered"
    <3>1. m_sessions[AccountOf[s]] = s /\ AccountOf[s] \in Accounts /\ s # NoSession
      BY <2>1, <2>3, Accounted DEF SessionsInv, LifeInv
    <3>2. stopped /\ todo = {}
      BY <2>1 DEF SessionsInv, TodoInv
    <3>3. session[s].player = "none"
      BY <2>1, <3>1, <3>2 DEF SessionsInv, ShutdownInv
    <3>4. QED
      BY <3>3
  <2>4. QED
    BY <2>2, <2>3
<1>2. QED
  BY <1>1, SessionsInvariance, PTL
-----------------------------------------------------------------------------
(* Slots: the registered sessions that do not wait are counted by          *)
(* subtracting the length of the queue.                                    *)

RegisteredIn(m) == {m[a] : a \in Accounts} \ {NoSession}

SessionMap == [Accounts -> Sessions \cup {NoSession}]

LEMMA RegisteredFinite ==
    ASSUME NEW m \in SessionMap
    PROVE  IsFiniteSet(RegisteredIn(m)) /\ Cardinality(RegisteredIn(m)) \in Nat
<1> DEFINE T == {m[a] : a \in Accounts}
<1>1. m \in Surjection(Accounts, T)
  BY DEF Surjection, SessionMap
<1>2. IsFiniteSet(Accounts)
  BY SessionsAssumption
<1>3. IsFiniteSet(T)
  <2> HIDE DEF T
  <2>1. QED
    BY <1>1, <1>2, FS_Surjection
<1>4. RegisteredIn(m) \in SUBSET T
  BY DEF RegisteredIn
<1> HIDE DEF T
<1>5. QED
  BY <1>3, <1>4, FS_Subset, FS_CardinalityType

LEMMA RegisteredOnly ==
    ASSUME NEW m \in SessionMap, \A b \in Accounts : m[b] # NoSession => AccountOf[m[b]] = b,
           NEW a \in Accounts
    PROVE  /\ RegisteredIn([m EXCEPT ![a] = NoSession]) = RegisteredIn(m) \ {m[a]}
           /\ [m EXCEPT ![a] = NoSession] \in SessionMap
           /\ m[a] # NoSession => m[a] \in RegisteredIn(m)
           /\ Cardinality(RegisteredIn([m EXCEPT ![a] = NoSession])) =
                Cardinality(RegisteredIn(m)) - (IF m[a] = NoSession THEN 0 ELSE 1)
<1> DEFINE n == [m EXCEPT ![a] = NoSession]
           R == RegisteredIn(m)
<1>1. /\ n \in SessionMap /\ n[a] = NoSession
      /\ \A b \in Accounts : b # a => n[b] = m[b]
  BY DEF SessionMap
<1> HIDE DEF n
<1>2. RegisteredIn(n) = RegisteredIn(m) \ {m[a]}
  <2>1. \A b \in Accounts : b # a /\ m[b] # NoSession => m[b] # m[a]
    OBVIOUS
  <2>2. QED
    BY <1>1, <2>1 DEF RegisteredIn
<1>3. m[a] # NoSession => m[a] \in RegisteredIn(m)
  BY DEF RegisteredIn
<1>4. NoSession \notin RegisteredIn(m)
  BY DEF RegisteredIn
<1>5. IsFiniteSet(R) /\ Cardinality(R) \in Nat
  BY RegisteredFinite
<1> HIDE DEF R
<1>6. Cardinality(R \ {m[a]}) = IF m[a] \in R THEN Cardinality(R) - 1 ELSE Cardinality(R)
  BY <1>5, FS_RemoveElement
<1>7. m[a] \in R <=> m[a] # NoSession
  BY <1>3, <1>4 DEF R
<1>8. Cardinality(RegisteredIn(n)) = Cardinality(R) - (IF m[a] = NoSession THEN 0 ELSE 1)
  BY <1>2, <1>5, <1>6, <1>7 DEF R
<1>9. QED
  BY <1>1, <1>2, <1>3, <1>8 DEF n, R

LEMMA RegisteredNext ==
    ASSUME NEW m \in SessionMap, \A b \in Accounts : m[b] # NoSession => AccountOf[m[b]] = b,
           NEW a \in Accounts, NEW s \in Sessions, s \notin RegisteredIn(m)
    PROVE  /\ [m EXCEPT ![a] = s] \in SessionMap
           /\ RegisteredIn([m EXCEPT ![a] = s]) = (RegisteredIn(m) \ {m[a]}) \cup {s}
           /\ Cardinality(RegisteredIn([m EXCEPT ![a] = s])) =
                Cardinality(RegisteredIn(m)) + (IF m[a] = NoSession THEN 1 ELSE 0)
<1> DEFINE n == [m EXCEPT ![a] = NoSession]
           p == [m EXCEPT ![a] = s]
<1>1. /\ RegisteredIn(n) = RegisteredIn(m) \ {m[a]} /\ n \in SessionMap
      /\ Cardinality(RegisteredIn(n)) = Cardinality(RegisteredIn(m)) - (IF m[a] = NoSession THEN 0 ELSE 1)
  BY RegisteredOnly
<1>2. /\ p \in SessionMap /\ p[a] = s /\ n[a] = NoSession
      /\ \A b \in Accounts : b # a => p[b] = n[b]
  BY DEF SessionMap
<1> HIDE DEF n, p
<1>3. s # NoSession
  BY Accounted
<1>4. RegisteredIn(p) = RegisteredIn(n) \cup {s}
  BY <1>2, <1>3 DEF RegisteredIn
<1>5. s \notin RegisteredIn(n) /\ IsFiniteSet(RegisteredIn(n)) /\ Cardinality(RegisteredIn(n)) \in Nat
      /\ Cardinality(RegisteredIn(m)) \in Nat
  BY <1>1, RegisteredFinite
<1>6. Cardinality(RegisteredIn(n) \cup {s}) = Cardinality(RegisteredIn(n)) + 1
  BY <1>5, FS_AddElement
<1>7. Cardinality(RegisteredIn(p)) = Cardinality(RegisteredIn(m)) + (IF m[a] = NoSession THEN 1 ELSE 0)
  BY <1>1, <1>4, <1>5, <1>6
<1>8. QED
  BY <1>1, <1>2, <1>4, <1>7 DEF p

LEMMA QueueCounted ==
    ASSUME NEW q \in Seq(Sessions), IsInjective(q)
    PROVE  IsFiniteSet(ToSet(q)) /\ Cardinality(ToSet(q)) = Len(q)
<1>1. /\ DOMAIN q = 1 .. Len(q) /\ Len(q) \in Nat /\ q \in [1 .. Len(q) -> Sessions]
  BY LenProperties
<1>2. ToSet(q) = {q[i] : i \in 1 .. Len(q)}
  BY <1>1 DEF ToSet
<1>3. q \in [1 .. Len(q) -> ToSet(q)]
  BY <1>1, <1>2
<1>4. q \in Bijection(1 .. Len(q), ToSet(q))
  <2>1. \A i, j \in 1 .. Len(q) : q[i] = q[j] => i = j
    BY <1>1 DEF IsInjective
  <2>2. \A t \in ToSet(q) : \E i \in 1 .. Len(q) : q[i] = t
    BY <1>2
  <2>3. q \in Injection(1 .. Len(q), ToSet(q))
    BY <1>3, <2>1 DEF Injection, IsInjective
  <2>4. q \in Surjection(1 .. Len(q), ToSet(q))
    BY <1>3, <2>2 DEF Surjection
  <2>5. QED
    BY <2>3, <2>4 DEF Bijection
<1>5. ExistsBijection(1 .. Len(q), ToSet(q))
  BY <1>4 DEF ExistsBijection
<1>6. IsFiniteSet(1 .. Len(q)) /\ Cardinality(1 .. Len(q)) = Len(q)
  <2>1. 1 \in Int /\ Len(q) \in Int
    BY <1>1
  <2>2. /\ IsFiniteSet(1 .. Len(q))
        /\ Cardinality(1 .. Len(q)) = IF 1 > Len(q) THEN 0 ELSE Len(q) - 1 + 1
    BY <2>1, FS_Interval
  <2>3. QED
    BY <1>1, <2>2
<1>7. QED
  BY <1>5, <1>6, FS_Bijection

LEMMA SlotsCounted ==
    ASSUME NEW m \in SessionMap, NEW q \in Seq(Sessions), IsInjective(q), ToSet(q) \subseteq RegisteredIn(m)
    PROVE  /\ IsFiniteSet(RegisteredIn(m) \ ToSet(q))
           /\ Cardinality(RegisteredIn(m) \ ToSet(q)) = Cardinality(RegisteredIn(m)) - Len(q)
           /\ Cardinality(RegisteredIn(m) \ ToSet(q)) \in Nat /\ Len(q) \in Nat
<1> DEFINE R == RegisteredIn(m)
           W == ToSet(q)
           A == R \ W
<1>1. IsFiniteSet(R) /\ Cardinality(R) \in Nat
  BY RegisteredFinite
<1>2. IsFiniteSet(W) /\ Cardinality(W) = Len(q) /\ Len(q) \in Nat
  BY QueueCounted, Members
<1>3. W \subseteq R
  OBVIOUS
<1> HIDE DEF R, W
<1>4. A \in SUBSET R
  OBVIOUS
<1>5. IsFiniteSet(A)
  BY <1>1, <1>4, FS_Subset
<1>6. Cardinality(A) \in Nat
  BY <1>5, FS_CardinalityType
<1>7. A \cup W = R /\ A \cap W = {}
  BY <1>3
<1> HIDE DEF A
<1>8. Cardinality(A \cup W) = Cardinality(A) + Cardinality(W) - Cardinality(A \cap W)
  BY <1>2, <1>5, FS_Union
<1>9. Cardinality(A) = Cardinality(R) - Len(q)
  <2>1. Cardinality(A \cap W) = 0
    BY <1>7, FS_EmptySet
  <2>2. Cardinality(R) = Cardinality(A) + Len(q) - 0
    BY <1>2, <1>7, <1>8, <2>1
  <2>3. QED
    BY <1>1, <1>2, <1>6, <2>2
<1>10. QED
  BY <1>2, <1>5, <1>6, <1>9 DEF A, R, W

(* What is left keeps its order.                                           *)
Ordered(p, q) ==
    /\ ToSet(p) \subseteq ToSet(q)
    /\ \A v, w \in ToSet(p) : GetQueuePos(p, v) < GetQueuePos(p, w) => GetQueuePos(q, v) < GetQueuePos(q, w)

LEMMA HeadFirst ==
    ASSUME NEW q \in Seq(Sessions), IsInjective(q), q # <<>>, NEW w \in ToSet(q), w # Head(q)
    PROVE  Head(q) \in ToSet(q) /\ GetQueuePos(q, Head(q)) < GetQueuePos(q, w)
<1>1. Head(q) = q[1] /\ 1 \in 1 .. Len(q) /\ Head(q) \in ToSet(q)
  BY TailCloses
<1>2. GetQueuePos(q, Head(q)) = 1
  BY <1>1, Place
<1>3. GetQueuePos(q, w) \in 1 .. Len(q) /\ q[GetQueuePos(q, w)] = w
  BY Place
<1>4. GetQueuePos(q, w) # 1
  BY <1>1, <1>3
<1>5. Len(q) \in Nat
  BY Members
<1>6. QED
  BY <1>1, <1>2, <1>3, <1>4, <1>5

LEMMA ClosedOrdered ==
    ASSUME NEW q \in Seq(Sessions), IsInjective(q), NEW k \in 1 .. Len(q), NEW p, Closed(q, k, p)
    PROVE  Ordered(p, q)
<1>1. /\ IsInjective(p) /\ ToSet(p) = ToSet(q) \ {q[k]}
      /\ \A i \in 1 .. Len(p) : GetQueuePos(q, p[i]) = IF i < k THEN i ELSE i + 1
  BY ClosedFacts
<1>2. p \in Seq(Sessions)
  BY DEF Closed
<1>3. Len(p) \in Nat /\ Len(q) \in Nat
  BY <1>2, Members
<1>4. ASSUME NEW v \in ToSet(p), NEW w \in ToSet(p), GetQueuePos(p, v) < GetQueuePos(p, w)
      PROVE  GetQueuePos(q, v) < GetQueuePos(q, w)
  <2> DEFINE i == GetQueuePos(p, v)
             j == GetQueuePos(p, w)
  <2>1. i \in 1 .. Len(p) /\ j \in 1 .. Len(p) /\ p[i] = v /\ p[j] = w /\ i < j
    BY <1>1, <1>2, <1>4, Place
  <2> HIDE DEF i, j
  <2>2. GetQueuePos(q, v) = (IF i < k THEN i ELSE i + 1) /\ GetQueuePos(q, w) = (IF j < k THEN j ELSE j + 1)
    BY <1>1, <2>1
  <2>3. QED
    BY <1>3, <2>1, <2>2
<1>5. QED
  BY <1>1, <1>4 DEF Ordered

LEMMA NextQueueFacts ==
    ASSUME NEW q \in Seq(Sessions), IsInjective(q), NEW s, NEW size \in Nat
    PROVE  LET p == NextQueue(q, size, s)
               f == IF s \in ToSet(q) THEN 1 ELSE 0
           IN  /\ p \in Seq(Sessions) /\ IsInjective(p) /\ ToSet(p) \subseteq ToSet(q) \ {s}
               /\ Len(p) = Len(q) - f - (IF Accepts(q, size, s) THEN 1 ELSE 0)
               /\ Len(p) \in Nat /\ Len(q) \in Nat /\ Len(q) - f \in Nat
               /\ Accepts(q, size, s) <=>
                    MayAccept(ActiveWithout(size - Len(q), s \in ToSet(q))) /\ Len(q) - f > 0
               /\ Ordered(p, q)
               /\ \A t \in Sessions : TakesTurn(q, size, s, t) =>
                    t \in ToSet(q) /\ \A w \in ToSet(p) : GetQueuePos(q, t) < GetQueuePos(q, w)
<1> DEFINE p == NextQueue(q, size, s)
           f == IF s \in ToSet(q) THEN 1 ELSE 0
           r == Rest(q, s)
           c == Accepts(q, size, s)
<1>1. /\ r \in Seq(Sessions) /\ IsInjective(r) /\ ToSet(r) = ToSet(q) \ {s}
      /\ Len(r) = Len(q) - f
      /\ Len(q) \in Nat /\ Len(r) \in Nat
      /\ r # <<>> <=> Len(r) > 0
  <2>1. /\ r \in Seq(Sessions) /\ IsInjective(r) /\ ToSet(r) = ToSet(q) \ {s}
        /\ Len(r) = IF s \in ToSet(q) THEN Len(q) - 1 ELSE Len(q)
    BY RestFacts
  <2>2. Len(q) \in Nat /\ Len(r) \in Nat /\ (r # <<>> <=> Len(r) > 0)
    BY <2>1, Members
  <2> HIDE DEF r
  <2>3. Len(r) = Len(q) - f
    BY <2>1, <2>2
  <2>4. QED
    BY <2>1, <2>2, <2>3
<1>2. Ordered(r, q)
  <2>1. CASE s \in ToSet(q)
    <3>1. GetQueuePos(q, s) \in 1 .. Len(q)
      BY <2>1, Place
    <3>2. Closed(q, GetQueuePos(q, s), r)
      BY <2>1, <3>1, RemovesOne DEF Rest
    <3>3. QED
      BY <3>1, <3>2, ClosedOrdered
  <2>2. CASE s \notin ToSet(q)
    BY <2>2 DEF Rest, Ordered
  <2>3. QED
    BY <2>1, <2>2
<1>3. c <=> MayAccept(ActiveWithout(size - Len(q), s \in ToSet(q))) /\ r # <<>>
  BY DEF Accepts
<1>4. p = IF c THEN Tail(r) ELSE r
  BY DEF NextQueue
<1>5. \A t \in Sessions : TakesTurn(q, size, s, t) => c /\ t = Head(r)
  BY DEF TakesTurn
<1> HIDE DEF r, c, p, f
<1>6. CASE c
  <2>1. /\ Closed(r, 1, p) /\ Head(r) = r[1] /\ 1 \in 1 .. Len(r) /\ r # <<>>
    BY <1>1, <1>3, <1>4, <1>6, TailCloses
  <2>2. IsInjective(p) /\ ToSet(p) = ToSet(r) \ {r[1]} /\ Ordered(p, r)
    BY <1>1, <2>1, ClosedFacts, ClosedOrdered
  <2>3. p \in Seq(Sessions) /\ Len(p) = Len(r) - 1 /\ Len(p) \in Nat
    <3>1. p \in Seq(Sessions) /\ Len(p) = Len(r) - 1
      BY <2>1 DEF Closed
    <3>2. QED
      BY <3>1, Members
  <2>4. Ordered(p, q)
    BY <1>2, <2>2 DEF Ordered
  <2>5. \A w \in ToSet(p) : Head(r) \in ToSet(r) /\ GetQueuePos(r, Head(r)) < GetQueuePos(r, w)
    BY <1>1, <2>1, <2>2, HeadFirst
  <2>6. Head(r) \in ToSet(q)
    BY <1>1, <2>1, Members
  <2>7. \A w \in ToSet(p) : GetQueuePos(q, Head(r)) < GetQueuePos(q, w)
    BY <1>2, <2>2, <2>5 DEF Ordered
  <2>8. QED
    BY <1>1, <1>3, <1>5, <1>6, <2>1, <2>2, <2>3, <2>4, <2>6, <2>7 DEF p, r, c, f
<1>7. CASE ~c
  BY <1>1, <1>2, <1>3, <1>4, <1>5, <1>7 DEF p, r, c, f
<1>8. QED
  BY <1>6, <1>7
-----------------------------------------------------------------------------
(* While sessions wait, the slots are taken, unless the limit was moved.   *)

SlotsHeld ==
    m_QueuedPlayer # <<>> /\ ~limitMoved =>
        m_playerLimit > 0 /\ Size - Len(m_QueuedPlayer) >= m_playerLimit

LEMMA Slots ==
    ASSUME SessionsInv
    PROVE  /\ m_sessions \in SessionMap /\ m_QueuedPlayer \in Seq(Sessions) /\ IsInjective(m_QueuedPlayer)
           /\ Waiting \subseteq Registered /\ Registered \subseteq Sessions
           /\ Registered = RegisteredIn(m_sessions) /\ Size = Cardinality(RegisteredIn(m_sessions))
           /\ Size \in Nat /\ Len(m_QueuedPlayer) \in Nat
           /\ IsFiniteSet(Active) /\ Cardinality(Active) = Size - Len(m_QueuedPlayer)
           /\ Cardinality(Active) \in Nat
           /\ \A b \in Accounts : m_sessions[b] # NoSession => AccountOf[m_sessions[b]] = b
<1>1. /\ m_sessions \in SessionMap /\ m_QueuedPlayer \in Seq(Sessions) /\ IsInjective(m_QueuedPlayer)
      /\ \A b \in Accounts : m_sessions[b] # NoSession => AccountOf[m_sessions[b]] = b
  BY DEF SessionsInv, SessionsType, LifeInv, PlaceInv, InPlace, SessionMap
<1>2. Registered = RegisteredIn(m_sessions)
  BY DEF Registered, RegisteredIn
<1>3. Registered \subseteq Sessions
  BY <1>1 DEF Registered, SessionMap
<1>4. Waiting \subseteq Registered
  <2>1. SUFFICES ASSUME NEW s \in Waiting PROVE s \in Registered
    OBVIOUS
  <2>2. s \in Sessions /\ m_sessions[AccountOf[s]] = s
    BY <1>1, Members DEF SessionsInv, PlaceInv
  <2>3. AccountOf[s] \in Accounts /\ s # NoSession
    BY <2>2, Accounted
  <2>4. QED
    BY <2>2, <2>3 DEF Registered
<1>5. /\ IsFiniteSet(RegisteredIn(m_sessions) \ ToSet(m_QueuedPlayer))
      /\ Cardinality(RegisteredIn(m_sessions) \ ToSet(m_QueuedPlayer))
           = Cardinality(RegisteredIn(m_sessions)) - Len(m_QueuedPlayer)
      /\ Cardinality(RegisteredIn(m_sessions) \ ToSet(m_QueuedPlayer)) \in Nat
      /\ Len(m_QueuedPlayer) \in Nat
  BY <1>1, <1>2, <1>4, SlotsCounted
<1>6. Cardinality(RegisteredIn(m_sessions)) \in Nat
  BY <1>1, RegisteredFinite
<1>7. QED
  BY <1>1, <1>2, <1>3, <1>4, <1>5, <1>6 DEF Active, Size

LEMMA SlotsAfter ==
    ASSUME SessionsInv'
    PROVE  /\ Waiting' \subseteq Registered' /\ Registered' \subseteq Sessions
           /\ Registered' = RegisteredIn(m_sessions')
           /\ IsFiniteSet(Active') /\ Cardinality(Active') = Cardinality(RegisteredIn(m_sessions')) - Len(m_QueuedPlayer')
           /\ Cardinality(Active') \in Nat
           /\ Active' = Registered' \ Waiting'
<1>1. /\ m_sessions' \in SessionMap /\ m_QueuedPlayer' \in Seq(Sessions) /\ IsInjective(m_QueuedPlayer')
  BY DEF SessionsInv, SessionsType, LifeInv, PlaceInv, InPlace, SessionMap
<1>2. Registered' = RegisteredIn(m_sessions')
  BY DEF Registered, RegisteredIn
<1>3. Registered' \subseteq Sessions
  BY <1>1 DEF Registered, SessionMap
<1>4. Waiting' \subseteq Registered'
  <2>1. SUFFICES ASSUME NEW s \in Waiting' PROVE s \in Registered'
    OBVIOUS
  <2>2. s \in Sessions /\ m_sessions'[AccountOf[s]] = s
    BY <1>1, Members DEF SessionsInv, PlaceInv
  <2>3. AccountOf[s] \in Accounts /\ s # NoSession
    BY <2>2, Accounted
  <2>4. QED
    BY <2>2, <2>3 DEF Registered
<1>5. /\ IsFiniteSet(RegisteredIn(m_sessions') \ ToSet(m_QueuedPlayer'))
      /\ Cardinality(RegisteredIn(m_sessions') \ ToSet(m_QueuedPlayer'))
           = Cardinality(RegisteredIn(m_sessions')) - Len(m_QueuedPlayer')
      /\ Cardinality(RegisteredIn(m_sessions') \ ToSet(m_QueuedPlayer')) \in Nat
  BY <1>1, <1>2, <1>4, SlotsCounted
<1>6. QED
  BY <1>2, <1>3, <1>4, <1>5 DEF Active

(* How the numbers move when the session of an account is removed.         *)
LEMMA DropCounts ==
    ASSUME SessionsInv, NEW a \in Accounts, NEW s \in Sessions, s = m_sessions[a],
           m_QueuedPlayer' = NextQueue(NextQueue(m_QueuedPlayer, Size, s), Size, s),
           m_sessions' = [m_sessions EXCEPT ![a] = NoSession]
    PROVE  LET n  == Size - Len(m_QueuedPlayer)
               l  == Len(m_QueuedPlayer)
               f  == IF s \in Waiting THEN 1 ELSE 0
               c1 == IF Accepts(m_QueuedPlayer, Size, s) THEN 1 ELSE 0
               c2 == IF Accepts(NextQueue(m_QueuedPlayer, Size, s), Size, s) THEN 1 ELSE 0
           IN  /\ n \in Nat /\ l \in Nat /\ f \in {0, 1} /\ c1 \in {0, 1} /\ c2 \in {0, 1}
               /\ f = 0 => n >= 1
               /\ l >= f
               /\ c1 = 1 <=> MayAccept(n - (1 - f)) /\ l - f > 0
               /\ c2 = 1 <=> MayAccept(n + f + c1 - 1) /\ l - f - c1 > 0
               /\ Len(m_QueuedPlayer') = l - f - c1 - c2
               /\ Cardinality(RegisteredIn(m_sessions')) = n + l - 1
<1> DEFINE n  == Size - Len(m_QueuedPlayer)
           l  == Len(m_QueuedPlayer)
           f  == IF s \in Waiting THEN 1 ELSE 0
           c1 == IF Accepts(m_QueuedPlayer, Size, s) THEN 1 ELSE 0
           c2 == IF Accepts(NextQueue(m_QueuedPlayer, Size, s), Size, s) THEN 1 ELSE 0
<1>0. /\ n = Size - Len(m_QueuedPlayer) /\ l = Len(m_QueuedPlayer)
      /\ f = (IF s \in Waiting THEN 1 ELSE 0)
      /\ c1 = (IF Accepts(m_QueuedPlayer, Size, s) THEN 1 ELSE 0)
      /\ c2 = (IF Accepts(NextQueue(m_QueuedPlayer, Size, s), Size, s) THEN 1 ELSE 0)
  OBVIOUS
<1> HIDE DEF n, l, f, c1, c2
<1> USE <1>0
<1> DEFINE q == m_QueuedPlayer
           p == NextQueue(q, Size, s)
           z == NextQueue(p, Size, s)
           u == Len(p)
<1>1. /\ q \in Seq(Sessions) /\ IsInjective(q) /\ Size \in Nat /\ l \in Nat /\ n \in Nat
      /\ Size = Cardinality(RegisteredIn(m_sessions)) /\ m_sessions \in SessionMap
      /\ \A b \in Accounts : m_sessions[b] # NoSession => AccountOf[m_sessions[b]] = b
  <2>1. Cardinality(Active) \in Nat /\ Cardinality(Active) = n
    BY Slots
  <2>2. QED
    BY <2>1, Slots
<1>2. s # NoSession
  BY Accounted
<1>3. f = 0 => n >= 1
  <2>1. SUFFICES ASSUME s \notin ToSet(q) PROVE n >= 1
    OBVIOUS
  <2>2. s \in Registered
    BY <1>2 DEF Registered
  <2>3. s \in Active
    BY <2>1, <2>2 DEF Active
  <2>4. IsFiniteSet(Active) /\ Cardinality(Active) = n
    BY Slots
  <2>5. n # 0
    BY <2>3, <2>4, FS_EmptySet
  <2>6. QED
    BY <1>1, <2>5
<1>4. /\ f \in {0, 1} /\ (f = 1 <=> s \in ToSet(q))
      /\ c1 \in {0, 1} /\ (c1 = 1 <=> Accepts(q, Size, s))
      /\ c2 \in {0, 1} /\ (c2 = 1 <=> Accepts(p, Size, s))
  OBVIOUS
<1>5. /\ p \in Seq(Sessions) /\ IsInjective(p) /\ s \notin ToSet(p)
      /\ u = l - f - c1 /\ u \in Nat /\ l - f \in Nat
      /\ Accepts(q, Size, s) <=> MayAccept(ActiveWithout(Size - Len(q), s \in ToSet(q))) /\ l - f > 0
  <2> DEFINE g == IF s \in ToSet(q) THEN 1 ELSE 0
             d == IF Accepts(q, Size, s) THEN 1 ELSE 0
  <2>1. /\ p \in Seq(Sessions) /\ IsInjective(p) /\ ToSet(p) \subseteq ToSet(q) \ {s}
        /\ Len(p) = Len(q) - g - d
        /\ Len(p) \in Nat /\ Len(q) - g \in Nat
        /\ Accepts(q, Size, s) <=> MayAccept(ActiveWithout(Size - Len(q), s \in ToSet(q))) /\ Len(q) - g > 0
    BY <1>1, NextQueueFacts
  <2>2. g = f /\ d = c1 /\ Len(q) = l
    OBVIOUS
  <2> HIDE DEF g, d, p, q
  <2>3. QED
    BY <2>1, <2>2
<1> HIDE DEF p
<1>6. /\ Len(z) = u - 0 - c2
      /\ Accepts(p, Size, s) <=> MayAccept(ActiveWithout(Size - u, s \in ToSet(p))) /\ u - 0 > 0
  <2> DEFINE g == IF s \in ToSet(p) THEN 1 ELSE 0
             d == IF Accepts(p, Size, s) THEN 1 ELSE 0
  <2>1. /\ Len(z) = Len(p) - g - d
        /\ Accepts(p, Size, s) <=> MayAccept(ActiveWithout(Size - Len(p), s \in ToSet(p))) /\ Len(p) - g > 0
    BY <1>1, <1>5, NextQueueFacts
  <2>2. g = 0 /\ d = c2
    BY <1>5 DEF p
  <2> HIDE DEF g, d, z
  <2>3. QED
    BY <2>1, <2>2
<1>7. m_QueuedPlayer' = z
  BY DEF p
<1>8. Cardinality(RegisteredIn(m_sessions')) = Size - 1
  BY <1>1, <1>2, RegisteredOnly
<1>9. Size - Len(q) = n /\ n + l = Size
  BY <1>1
<1> HIDE DEF z, u, q
<1>10. ActiveWithout(n, s \in ToSet(q)) = n - (1 - f)
  BY <1>1, <1>3, <1>4 DEF ActiveWithout
<1>11. Size - u = n + f + c1 /\ n + f + c1 # 0
  <2>1. (f = 0 \/ f = 1) /\ (c1 = 0 \/ c1 = 1) /\ n \in Nat /\ l \in Nat /\ Size = n + l
    BY <1>1, <1>4, <1>9
  <2>2. u = l - f - c1
    BY <1>5
  <2>3. QED
    BY <1>3, <2>1, <2>2
<1>12. ActiveWithout(Size - u, s \in ToSet(p)) = n + f + c1 - 1
  <2> DEFINE w == Size - u
  <2>1. w # 0 /\ w = n + f + c1 /\ s \notin ToSet(p)
    BY <1>5, <1>11
  <2> HIDE DEF w
  <2>2. ActiveWithout(w, s \in ToSet(p)) = w - 1
    BY <2>1 DEF ActiveWithout
  <2>3. QED
    BY <2>1, <2>2 DEF w
<1>13. c1 = 1 <=> MayAccept(n - (1 - f)) /\ l - f > 0
  BY <1>4, <1>5, <1>9, <1>10
<1>14. c2 = 1 <=> MayAccept(n + f + c1 - 1) /\ l - f - c1 > 0
  <2>1. /\ c2 = 1 <=> Accepts(p, Size, s)
        /\ Accepts(p, Size, s) <=> MayAccept(n + f + c1 - 1) /\ u - 0 > 0
    BY <1>4, <1>6, <1>12
  <2>2. u - 0 = l - f - c1
    BY <1>1, <1>4, <1>5
  <2>3. QED
    BY <2>1, <2>2
<1>15. Len(z) = l - f - c1 - c2
  BY <1>1, <1>4, <1>5, <1>6
<1>16. Cardinality(RegisteredIn(m_sessions')) = n + l - 1
  BY <1>8, <1>9
<1>17. l >= f
  BY <1>1, <1>4, <1>5
<1>18. QED
  BY <1>1, <1>3, <1>4, <1>7, <1>13, <1>14, <1>15, <1>16, <1>17 DEF n, l, f, c1, c2

(* What LetInInTurn says of one step                                       *)
InTurn ==
    \A s \in Sessions : LetIn(s) /\ ~MayPass(s) =>
        /\ m_playerLimit > 0 =>
             Cardinality(Active' \ {t \in Sessions : LetIn(t) /\ MayPass(t)}) <= m_playerLimit
        /\ limitMoved \/ \A w \in Waiting \cap Waiting' :
             s \in Waiting /\ GetQueuePos(m_QueuedPlayer, s) < GetQueuePos(m_QueuedPlayer, w)

LEMMA DropArithmetic ==
    ASSUME NEW n \in Nat, NEW l \in Nat, NEW lim \in Int,
           NEW f \in {0, 1}, NEW c1 \in {0, 1}, NEW c2 \in {0, 1},
           f = 0 => n >= 1, l >= f,
           c1 = 1 <=> (lim <= 0 \/ n - (1 - f) < lim) /\ l - f > 0,
           c2 = 1 <=> (lim <= 0 \/ n + f + c1 - 1 < lim) /\ l - f - c1 > 0
    PROVE  LET left == n + l - 1 - (l - f - c1 - c2) IN
           /\ (l > 0 => lim > 0 /\ n >= lim) /\ l - f - c1 - c2 > 0 => lim > 0 /\ left >= lim
           /\ lim > 0 /\ (c1 = 1 \/ c2 = 1) => left <= lim
  BY SMTT(30)

(* e: the account had no session, w: the new one waits, c: another is let in *)
LEMMA AdmitArithmetic ==
    ASSUME NEW n \in Nat, NEW l \in Nat, NEW lim \in Int,
           NEW e \in {0, 1}, NEW f \in {0, 1}, NEW c \in {0, 1}, NEW w \in {0, 1},
           NEW counted \in Int, counted = n + l - (IF e = 0 /\ f = 0 THEN 1 ELSE 0),
           e = 1 => f = 0 /\ c = 0, e = 0 /\ f = 0 => n >= 1, l >= f,
           e = 0 => (c = 1 <=> (lim <= 0 \/ n - (1 - f) < lim) /\ l - f > 0),
           w = 1 => lim > 0 /\ counted >= lim
    PROVE  LET left == n + l + e - (l - f - c + w) IN
           /\ (l > 0 => lim > 0 /\ n >= lim) /\ l - f - c + w > 0 => lim > 0 /\ left >= lim
           /\ lim > 0 /\ c = 1 => left + w <= lim + 1
           /\ lim > 0 /\ w = 0 /\ counted < lim => left <= lim
           /\ (l > 0 => lim > 0 /\ n >= lim) /\ (lim <= 0 \/ counted < lim) => l = 0
  BY SMTT(30)

LEMMA DropTurn ==
    ASSUME SessionsInv, SlotsHeld, SessionsInv',
           NEW a \in Accounts, NEW s \in Sessions, s = m_sessions[a],
           m_QueuedPlayer' = NextQueue(NextQueue(m_QueuedPlayer, Size, s), Size, s),
           m_sessions' = [m_sessions EXCEPT ![a] = NoSession],
           limitMoved' = (limitMoved /\ m_QueuedPlayer' # <<>>),
           m_playerLimit' = m_playerLimit,
           \A t \in Sessions : LetIn(t) =>
                \/ TakesTurn(m_QueuedPlayer, Size, s, t)
                \/ TakesTurn(NextQueue(m_QueuedPlayer, Size, s), Size, s, t)
    PROVE  SlotsHeld' /\ InTurn
<1> DEFINE q   == m_QueuedPlayer
           p   == NextQueue(q, Size, s)
           z   == NextQueue(p, Size, s)
           n   == Size - Len(q)
           l   == Len(q)
           f   == IF s \in Waiting THEN 1 ELSE 0
           c1  == IF Accepts(q, Size, s) THEN 1 ELSE 0
           c2  == IF Accepts(p, Size, s) THEN 1 ELSE 0
           lim == m_playerLimit
           new == Cardinality(RegisteredIn(m_sessions'))
<1>1. /\ n \in Nat /\ l \in Nat /\ f \in {0, 1} /\ c1 \in {0, 1} /\ c2 \in {0, 1}
      /\ f = 0 => n >= 1
      /\ l >= f
      /\ c1 = 1 <=> MayAccept(n - (1 - f)) /\ l - f > 0
      /\ c2 = 1 <=> MayAccept(n + f + c1 - 1) /\ l - f - c1 > 0
      /\ Len(m_QueuedPlayer') = l - f - c1 - c2
      /\ new = n + l - 1
  BY DropCounts
<1>2. lim \in Int /\ q \in Seq(Sessions) /\ IsInjective(q) /\ Size \in Nat
  BY Slots DEF SessionsInv, SessionsType
<1>3. m_QueuedPlayer' # <<>> <=> Len(m_QueuedPlayer') > 0
  BY Members DEF SessionsInv, SessionsType
<1>4. l > 0 /\ ~limitMoved => lim > 0 /\ n >= lim
  BY <1>2, Members DEF SlotsHeld
<1>5. /\ p \in Seq(Sessions) /\ IsInjective(p) /\ Ordered(p, q)
      /\ \A t \in Sessions : TakesTurn(q, Size, s, t) =>
           t \in ToSet(q) /\ \A w \in ToSet(p) : GetQueuePos(q, t) < GetQueuePos(q, w)
  BY <1>2, NextQueueFacts
<1> HIDE DEF p
<1>6. /\ Ordered(z, p)
      /\ \A t \in Sessions : TakesTurn(p, Size, s, t) =>
           t \in ToSet(p) /\ \A w \in ToSet(z) : GetQueuePos(p, t) < GetQueuePos(p, w)
  BY <1>2, <1>5, NextQueueFacts
<1>7. m_QueuedPlayer' = z
  BY DEF p
<1>8. \A t \in Sessions : LetIn(t) => TakesTurn(q, Size, s, t) \/ TakesTurn(p, Size, s, t)
  BY DEF p
<1>9. /\ \A t \in Sessions : TakesTurn(q, Size, s, t) => c1 = 1
      /\ \A t \in Sessions : TakesTurn(p, Size, s, t) => c2 = 1
  BY DEF TakesTurn
<1>10. (Size - Len(m_QueuedPlayer))' = new - Len(m_QueuedPlayer')
  BY SlotsAfter DEF Size
<1> HIDE DEF n, l, f, c1, c2, lim, new, z
<1>11. /\ c1 = 1 <=> (lim <= 0 \/ n - (1 - f) < lim) /\ l - f > 0
       /\ c2 = 1 <=> (lim <= 0 \/ n + f + c1 - 1 < lim) /\ l - f - c1 > 0
  BY <1>1 DEF MayAccept, lim
<1> DEFINE left == n + l - 1 - (l - f - c1 - c2)
<1>12. /\ (l > 0 => lim > 0 /\ n >= lim) /\ l - f - c1 - c2 > 0 => lim > 0 /\ left >= lim
       /\ lim > 0 /\ (c1 = 1 \/ c2 = 1) => left <= lim
  BY <1>1, <1>2, <1>11, DropArithmetic
<1>13. new - Len(m_QueuedPlayer') = left
  BY <1>1
<1> HIDE DEF left
<1>14. SlotsHeld'
  BY <1>1, <1>3, <1>4, <1>10, <1>12, <1>13 DEF SlotsHeld, lim
<1>15. Cardinality(Active') = left /\ IsFiniteSet(Active') /\ left \in Nat
  BY <1>13, SlotsAfter DEF new
<1>16. ASSUME NEW t \in Sessions, LetIn(t), lim > 0,
              NEW X
       PROVE  Cardinality(Active' \ X) <= lim
  <2>1. left <= lim
    BY <1>8, <1>9, <1>12, <1>16
  <2>2. (Active' \ X) \in SUBSET Active'
    OBVIOUS
  <2>3. IsFiniteSet(Active' \ X) /\ Cardinality(Active' \ X) <= Cardinality(Active')
    BY <1>15, <2>2, FS_Subset
  <2>4. Cardinality(Active' \ X) \in Nat
    BY <2>3, FS_CardinalityType
  <2>5. QED
    BY <1>2, <1>15, <2>1, <2>3, <2>4
<1>17. ASSUME NEW t \in Sessions, LetIn(t), NEW w \in Waiting'
       PROVE  t \in Waiting /\ GetQueuePos(q, t) < GetQueuePos(q, w)
  <2>1. w \in ToSet(z) /\ w \in ToSet(p)
    BY <1>6, <1>7 DEF Ordered
  <2>2. CASE TakesTurn(q, Size, s, t)
    BY <1>5, <2>1, <2>2
  <2>3. CASE TakesTurn(p, Size, s, t)
    <3>1. t \in ToSet(p) /\ GetQueuePos(p, t) < GetQueuePos(p, w)
      BY <1>6, <2>1, <2>3
    <3>2. QED
      BY <1>5, <2>1, <3>1 DEF Ordered
  <2>4. QED
    BY <1>8, <1>17, <2>2, <2>3
<1>18. InTurn
  BY <1>16, <1>17 DEF InTurn, lim, q
<1>19. QED
  BY <1>14, <1>18

(* How the numbers move when a session takes its account's place.          *)
LEMMA AdmitCounts ==
    ASSUME SessionsInv, NEW a \in Accounts, NEW s \in Sessions, NEW old, old = m_sessions[a],
           s \notin Registered, s \notin ToSet(QueueWithout(old)),
           m_QueuedPlayer' = IF MustWait(a, old) THEN Append(QueueWithout(old), s) ELSE QueueWithout(old),
           m_sessions' = [m_sessions EXCEPT ![a] = s]
    PROVE  LET n == Size - Len(m_QueuedPlayer)
               l == Len(m_QueuedPlayer)
               e == IF old = NoSession THEN 1 ELSE 0
               f == IF old \in Waiting THEN 1 ELSE 0
               c == IF old # NoSession /\ Accepts(m_QueuedPlayer, Size, old) THEN 1 ELSE 0
               w == IF MustWait(a, old) THEN 1 ELSE 0
           IN  /\ n \in Nat /\ l \in Nat
               /\ e \in {0, 1} /\ f \in {0, 1} /\ c \in {0, 1} /\ w \in {0, 1}
               /\ e = 1 => f = 0 /\ c = 0
               /\ e = 0 /\ f = 0 => n >= 1
               /\ l >= f
               /\ e = 0 => (c = 1 <=> MayAccept(n - (1 - f)) /\ l - f > 0)
               /\ Len(m_QueuedPlayer') = l - f - c + w
               /\ Cardinality(RegisteredIn(m_sessions')) = n + l + e
<1> DEFINE n == Size - Len(m_QueuedPlayer)
           l == Len(m_QueuedPlayer)
           e == IF old = NoSession THEN 1 ELSE 0
           f == IF old \in Waiting THEN 1 ELSE 0
           c == IF old # NoSession /\ Accepts(m_QueuedPlayer, Size, old) THEN 1 ELSE 0
           w == IF MustWait(a, old) THEN 1 ELSE 0
<1>0. /\ n = Size - Len(m_QueuedPlayer) /\ l = Len(m_QueuedPlayer)
      /\ e = (IF old = NoSession THEN 1 ELSE 0)
      /\ f = (IF old \in Waiting THEN 1 ELSE 0)
      /\ c = (IF old # NoSession /\ Accepts(m_QueuedPlayer, Size, old) THEN 1 ELSE 0)
      /\ w = (IF MustWait(a, old) THEN 1 ELSE 0)
  OBVIOUS
<1> HIDE DEF n, l, e, f, c, w
<1> USE <1>0
<1> DEFINE q == m_QueuedPlayer
           p == QueueWithout(old)
<1>1. /\ q \in Seq(Sessions) /\ IsInjective(q) /\ Size \in Nat /\ l \in Nat /\ n \in Nat
      /\ Size = Cardinality(RegisteredIn(m_sessions)) /\ m_sessions \in SessionMap
      /\ \A b \in Accounts : m_sessions[b] # NoSession => AccountOf[m_sessions[b]] = b
  <2>1. Cardinality(Active) \in Nat /\ Cardinality(Active) = n
    BY Slots
  <2>2. QED
    BY <2>1, Slots
<1>2. NoSession \notin Waiting
  <2>1. ToSet(q) \subseteq Sessions
    BY <1>1, Members
  <2>2. QED
    BY <2>1, SessionsAssumption
<1>3. /\ e \in {0, 1} /\ f \in {0, 1} /\ c \in {0, 1} /\ w \in {0, 1}
      /\ e = 1 => f = 0 /\ c = 0
  BY <1>2
<1>4. e = 0 /\ f = 0 => n >= 1
  <2>1. SUFFICES ASSUME old # NoSession, old \notin ToSet(q) PROVE n >= 1
    OBVIOUS
  <2>2. old \in Registered
    BY <2>1 DEF Registered
  <2>3. old \in Active
    BY <2>1, <2>2 DEF Active
  <2>4. IsFiniteSet(Active) /\ Cardinality(Active) = n
    BY Slots
  <2>5. n # 0
    BY <2>3, <2>4, FS_EmptySet
  <2>6. QED
    BY <1>1, <2>5
<1>5. /\ p \in Seq(Sessions) /\ IsInjective(p) /\ Len(p) = l - f - c /\ Len(p) \in Nat /\ l >= f
      /\ e = 0 => (c = 1 <=> MayAccept(n - (1 - f)) /\ l - f > 0)
  <2>1. CASE old = NoSession
    <3>1. p = q
      BY <2>1 DEF QueueWithout
    <3>2. e = 1 /\ f = 0 /\ c = 0
      BY <1>2, <2>1
    <3> HIDE DEF p
    <3>3. Len(p) = l
      BY <3>1
    <3> HIDE <1>0 DEF q
    <3>4. QED
      BY <1>1, <3>1, <3>2, <3>3
  <2>2. CASE old # NoSession
    <3> DEFINE g == IF old \in ToSet(q) THEN 1 ELSE 0
               d == IF Accepts(q, Size, old) THEN 1 ELSE 0
               z == NextQueue(q, Size, old)
    <3>1. p = z
      BY <2>2 DEF QueueWithout
    <3> HIDE DEF p
    <3>0. /\ z \in Seq(Sessions) /\ IsInjective(z)
          /\ Len(z) = Len(q) - g - d
          /\ Len(z) \in Nat /\ Len(q) - g \in Nat
          /\ Accepts(q, Size, old) <=>
               MayAccept(ActiveWithout(Size - Len(q), old \in ToSet(q))) /\ Len(q) - g > 0
      BY <1>1, NextQueueFacts
    <3> HIDE DEF z
    <3>2. /\ p \in Seq(Sessions) /\ IsInjective(p)
          /\ Len(p) = Len(q) - g - d
          /\ Len(p) \in Nat /\ Len(q) - g \in Nat
          /\ Accepts(q, Size, old) <=>
               MayAccept(ActiveWithout(Size - Len(q), old \in ToSet(q))) /\ Len(q) - g > 0
      BY <3>0, <3>1
    <3>3. g = f /\ d = c /\ Len(q) = l /\ Size - Len(q) = n /\ (c = 1 <=> Accepts(q, Size, old))
          /\ (f = 1 <=> old \in ToSet(q))
      BY <2>2
    <3>4. e = 0
      BY <2>2
    <3> HIDE DEF g, d, p, q
    <3> HIDE <1>0
    <3>5. ActiveWithout(n, old \in ToSet(q)) = n - (1 - f)
      BY <1>1, <1>3, <1>4, <3>3, <3>4 DEF ActiveWithout
    <3>6. l >= f
      BY <1>1, <1>3, <3>2, <3>3
    <3>7. QED
      BY <3>2, <3>3, <3>5, <3>6
  <2>3. QED
    BY <2>1, <2>2
<1>6. Len(m_QueuedPlayer') = l - f - c + w
  <2>1. CASE MustWait(a, old)
    <3>1. m_QueuedPlayer' = Append(p, s) /\ w = 1
      BY <2>1
    <3>2. Len(Append(p, s)) = Len(p) + 1
      BY <1>5, AppendProperties
    <3> HIDE DEF p
    <3> HIDE <1>0
    <3>3. QED
      BY <1>5, <3>1, <3>2
  <2>2. CASE ~MustWait(a, old)
    <3>1. m_QueuedPlayer' = p /\ w = 0
      BY <2>2
    <3> HIDE DEF p
    <3> HIDE <1>0
    <3>2. QED
      BY <1>1, <1>3, <1>5, <3>1
  <2>3. QED
    BY <2>1, <2>2
<1>7. Cardinality(RegisteredIn(m_sessions')) = n + l + e
  <2>1. s \notin RegisteredIn(m_sessions)
    BY Slots
  <2>2. Cardinality(RegisteredIn(m_sessions')) = Size + (IF old = NoSession THEN 1 ELSE 0)
    BY <1>1, <2>1, RegisteredNext
  <2>3. QED
    BY <1>1, <2>2
<1>8. QED
  <2> HIDE <1>0
  <2>1. QED
    BY <1>1, <1>3, <1>4, <1>5, <1>6, <1>7 DEF n, l, e, f, c, w

LEMMA AdmitTurn ==
    ASSUME SessionsInv, SlotsHeld, SessionsInv',
           NEW a \in Accounts, NEW s \in Sessions, a = AccountOf[s], NEW old, old = m_sessions[a],
           s \notin Registered, s \notin Waiting, s \notin ToSet(QueueWithout(old)),
           m_QueuedPlayer' = IF MustWait(a, old) THEN Append(QueueWithout(old), s) ELSE QueueWithout(old),
           m_sessions' = [m_sessions EXCEPT ![a] = s],
           limitMoved' = (limitMoved /\ m_QueuedPlayer' # <<>>),
           m_playerLimit' = m_playerLimit,
           session[s].init = "no",
           session'[s].init = IF MustWait(a, old) THEN "no" ELSE "asked",
           \A t \in Sessions : LetIn(t) /\ t # s =>
                old # NoSession /\ TakesTurn(m_QueuedPlayer, Size, old, t)
    PROVE  SlotsHeld' /\ InTurn
<1> DEFINE q   == m_QueuedPlayer
           p   == QueueWithout(old)
           n   == Size - Len(q)
           l   == Len(q)
           e   == IF old = NoSession THEN 1 ELSE 0
           f   == IF old \in Waiting THEN 1 ELSE 0
           c   == IF old # NoSession /\ Accepts(q, Size, old) THEN 1 ELSE 0
           w   == IF MustWait(a, old) THEN 1 ELSE 0
           lim == m_playerLimit
           new == Cardinality(RegisteredIn(m_sessions'))
           counted == n + l - (IF e = 0 /\ f = 0 THEN 1 ELSE 0)
<1>1. /\ n \in Nat /\ l \in Nat
      /\ e \in {0, 1} /\ f \in {0, 1} /\ c \in {0, 1} /\ w \in {0, 1}
      /\ e = 1 => f = 0 /\ c = 0
      /\ e = 0 /\ f = 0 => n >= 1
      /\ l >= f
      /\ e = 0 => (c = 1 <=> MayAccept(n - (1 - f)) /\ l - f > 0)
      /\ Len(m_QueuedPlayer') = l - f - c + w
      /\ new = n + l + e
  BY AdmitCounts
<1>2. lim \in Int /\ q \in Seq(Sessions) /\ IsInjective(q) /\ Size \in Nat
  BY Slots DEF SessionsInv, SessionsType
<1>3. m_QueuedPlayer' # <<>> <=> Len(m_QueuedPlayer') > 0
  BY Members DEF SessionsInv, SessionsType
<1>4. l > 0 /\ ~limitMoved => lim > 0 /\ n >= lim
  BY <1>2, Members DEF SlotsHeld
<1>5. \A t \in Sessions : LetIn(t) /\ t # s => c = 1 /\ TakesTurn(q, Size, old, t) /\ old # NoSession
  BY DEF TakesTurn
<1>6. old # NoSession => \A t \in Sessions : TakesTurn(q, Size, old, t) =>
         t \in ToSet(q) /\ \A v \in ToSet(p) : GetQueuePos(q, t) < GetQueuePos(q, v)
  BY <1>2, NextQueueFacts DEF QueueWithout
<1>7. \A v \in Waiting \cap Waiting' : v \in ToSet(p)
  <2>1. CASE ~MustWait(a, old)
    BY <2>1
  <2>2. CASE MustWait(a, old)
    <3>1. p \in Seq(Sessions) /\ IsInjective(p)
      BY <1>2, NextQueueFacts DEF QueueWithout
    <3>2. ToSet(Append(p, s)) = ToSet(p) \cup {s}
      BY <3>1, QueuesLast
    <3>3. QED
      BY <2>2, <3>2
  <2>3. QED
    BY <2>1, <2>2
<1>8. (Size - Len(m_QueuedPlayer))' = new - Len(m_QueuedPlayer')
  BY SlotsAfter DEF Size
<1>9. LetIn(s) <=> w = 0
  BY DEF LetIn
<1>10. w = 1 <=> MustWait(a, old)
  OBVIOUS
<1>11. CountedSessions(IF old = NoSession THEN Size + 1 ELSE Size, old \in Waiting) = counted
  <2>1. NoSession \notin Waiting
    BY <1>2, Members, SessionsAssumption
  <2>2. n + l = Size /\ n \in Nat /\ l \in Nat
    BY <1>1, <1>2
  <2>3. CASE old = NoSession
    <3>1. e = 1 /\ old \notin Waiting
      BY <2>1, <2>3
    <3> HIDE DEF n, l, e
    <3>2. counted = Size
      BY <2>2, <3>1
    <3> HIDE DEF counted
    <3>3. QED
      BY <1>2, <2>3, <3>1, <3>2 DEF CountedSessions
  <2>4. CASE old # NoSession /\ old \in Waiting
    <3>1. e = 0 /\ f = 1
      BY <2>4
    <3> HIDE DEF n, l, e, f
    <3>2. counted = Size
      BY <2>2, <3>1
    <3> HIDE DEF counted
    <3>3. QED
      BY <1>2, <2>4, <3>1, <3>2 DEF CountedSessions
  <2>5. CASE old # NoSession /\ old \notin Waiting
    <3>1. e = 0 /\ f = 0
      BY <2>5
    <3> HIDE DEF n, l, e, f
    <3>2. counted = Size - 1
      BY <2>2, <3>1
    <3> HIDE DEF counted
    <3>3. QED
      BY <1>2, <2>5, <3>1, <3>2 DEF CountedSessions
  <2>6. QED
    BY <2>3, <2>4, <2>5
<1> HIDE DEF n, l, e, f, c, w, lim, new
<1>12. counted \in Int /\ counted = n + l - (IF e = 0 /\ f = 0 THEN 1 ELSE 0)
  BY <1>1
<1> HIDE DEF counted
<1>13. MustWait(a, old) <=> lim > 0 /\ counted >= lim /\ a \notin Privileged /\ ~HasRecentlyDisconnected(a)
  BY <1>2, <1>11, <1>12 DEF MustWait, GetPlayerAmountLimit, lim
<1>14. e = 0 => (c = 1 <=> (lim <= 0 \/ n - (1 - f) < lim) /\ l - f > 0)
  BY <1>1 DEF MayAccept, lim
<1>15. w = 1 => lim > 0 /\ counted >= lim
  BY <1>10, <1>13
<1>27. /\ n \in Nat /\ l \in Nat /\ lim \in Int
       /\ e \in {0, 1} /\ f \in {0, 1} /\ c \in {0, 1} /\ w \in {0, 1}
       /\ e = 1 => f = 0 /\ c = 0
       /\ e = 0 /\ f = 0 => n >= 1
       /\ l >= f
  BY <1>1, <1>2
<1> DEFINE y == Len(m_QueuedPlayer')
<1>28. new = n + l + e /\ y = l - f - c + w
  BY <1>1
<1> DEFINE left == n + l + e - (l - f - c + w)
<1>16. /\ (l > 0 => lim > 0 /\ n >= lim) /\ l - f - c + w > 0 => lim > 0 /\ left >= lim
       /\ lim > 0 /\ c = 1 => left + w <= lim + 1
       /\ lim > 0 /\ w = 0 /\ counted < lim => left <= lim
       /\ (l > 0 => lim > 0 /\ n >= lim) /\ (lim <= 0 \/ counted < lim) => l = 0
  BY <1>12, <1>14, <1>15, <1>27, AdmitArithmetic
<1>17. new - Len(m_QueuedPlayer') = left
  <2> HIDE DEF y
  <2>1. new - y = left
    BY <1>27, <1>28
  <2>2. QED
    BY <2>1 DEF y
<1> HIDE DEF left, y
<1>18. SlotsHeld'
  BY <1>1, <1>3, <1>4, <1>8, <1>16, <1>17 DEF SlotsHeld, lim
<1>19. Cardinality(Active') = left /\ IsFiniteSet(Active') /\ left \in Nat
  BY <1>17, SlotsAfter DEF new
<1>20. MayPass(s) <=> a \in Privileged \/ HasRecentlyDisconnected(a)
  BY DEF MayPass
<1>21. w = 0 => MayPass(s) \/ lim <= 0 \/ counted < lim
  BY <1>2, <1>10, <1>12, <1>13, <1>20
<1>22. s \in Active' \/ w = 1
  <2>1. SUFFICES ASSUME w = 0 PROVE s \in Active'
    BY <1>1
  <2>2. m_QueuedPlayer' = p
    BY <1>10, <2>1
  <2>3. s \notin Waiting'
    BY <2>2
  <2>4. s \in RegisteredIn(m_sessions')
    <3>1. m_sessions \in SessionMap
      BY Slots
    <3>2. m_sessions'[a] = s /\ s # NoSession
      BY <3>1, Accounted DEF SessionMap
    <3>3. QED
      BY <3>2 DEF RegisteredIn
  <2>5. QED
    BY <2>3, <2>4, SlotsAfter
<1> DEFINE X == {t \in Sessions : LetIn(t) /\ MayPass(t)}
<1>23. ASSUME NEW t \in Sessions, LetIn(t), ~MayPass(t), lim > 0
       PROVE  Cardinality(Active' \ X) <= lim
  <2>1. (Active' \ X) \in SUBSET Active'
    OBVIOUS
  <2>2. IsFiniteSet(Active' \ X) /\ Cardinality(Active' \ X) <= left
    BY <1>19, <2>1, FS_Subset
  <2>3. Cardinality(Active' \ X) \in Nat
    BY <2>2, FS_CardinalityType
  <2>4. CASE left <= lim
    BY <1>2, <1>19, <2>2, <2>3, <2>4
  <2>5. CASE ~(left <= lim)
    <3>1. c = 1 => w = 0 /\ MayPass(s)
      BY <1>1, <1>2, <1>16, <1>19, <1>21, <1>23, <2>5
    <3>2. t # s
      BY <1>1, <1>2, <1>9, <1>16, <1>21, <1>23, <2>5
    <3>3. c = 1
      BY <1>5, <1>23, <3>2
    <3>4. s \in X /\ s \in Active'
      BY <1>1, <1>9, <1>22, <3>1, <3>3
    <3>5. left <= lim + 1
      BY <1>1, <1>2, <1>16, <1>19, <1>23, <3>1, <3>3
    <3>6. IsFiniteSet(Active' \ {s}) /\ Cardinality(Active' \ {s}) = left - 1
      BY <1>19, <3>4, FS_RemoveElement
    <3>7. (Active' \ X) \in SUBSET (Active' \ {s})
      BY <3>4
    <3>8. Cardinality(Active' \ X) <= Cardinality(Active' \ {s})
      BY <3>6, <3>7, FS_Subset
    <3>9. QED
      BY <1>2, <1>19, <2>3, <3>5, <3>6, <3>8
  <2>6. QED
    BY <2>4, <2>5
<1>24. ASSUME NEW t \in Sessions, LetIn(t), ~MayPass(t), ~limitMoved, NEW v \in Waiting \cap Waiting'
       PROVE  t \in Waiting /\ GetQueuePos(q, t) < GetQueuePos(q, v)
  <2>1. CASE t = s
    <3>1. lim <= 0 \/ counted < lim
      BY <1>9, <1>21, <1>24, <2>1
    <3>2. l = 0
      BY <1>4, <1>16, <1>24, <3>1
    <3>3. Waiting = {}
      <4>1. Len(q) = 0
        BY <3>2 DEF l
      <4> HIDE DEF q
      <4>2. \A u \in ToSet(q) : \E i \in 1 .. Len(q) : q[i] = u
        BY <1>2, Members
      <4>3. 1 .. Len(q) = {}
        BY <4>1
      <4>4. ToSet(q) = {}
        BY <4>2, <4>3
      <4>5. QED
        BY <4>4 DEF q
    <3>4. QED
      BY <1>24, <3>3
  <2>2. CASE t # s
    BY <1>5, <1>6, <1>7, <1>24, <2>2
  <2>3. QED
    BY <2>1, <2>2
<1>25. InTurn
  BY <1>23, <1>24 DEF InTurn, lim, q
<1>26. QED
  BY <1>18, <1>25

-----------------------------------------------------------------------------
(* Every step keeps SlotsHeld and lets sessions in as InTurn says.         *)

LEMMA NobodyLetIn ==
    ASSUME \A s \in Sessions : ~LetIn(s)
    PROVE  InTurn
  BY DEF InTurn

(* What SlotsHeld is about does not change, or the queue is emptied        *)
LEMMA SlotsUnmoved ==
    ASSUME SlotsHeld, UNCHANGED <<m_sessions, m_QueuedPlayer, m_playerLimit, limitMoved>>
    PROVE  SlotsHeld'
<1>1. Size' = Size
  BY DEF Size, Registered
<1>2. QED
  BY <1>1 DEF SlotsHeld

LEMMA HandshakeTurn ==
    ASSUME SessionsInv, SlotsHeld, NEW s \in Sessions,
           Handshake(s) \/ SocketCloses(s) \/ DbAnswersInit(s)
    PROVE  SlotsHeld' /\ InTurn
<1>1. UNCHANGED <<m_sessions, m_QueuedPlayer, m_playerLimit, limitMoved>>
  BY DEF Handshake, SocketCloses, DbAnswersInit, worldVars, limitVars
<1>2. session \in [Sessions -> Object]
  BY DEF SessionsInv, SessionsType
<1>3. \A t \in Sessions : session[t].init = "no" => session'[t].init = "no"
  <2>1. CASE Handshake(s)
    BY <1>2, <2>1 DEF Handshake, Object
  <2>2. CASE SocketCloses(s)
    BY <1>2, <2>2 DEF SocketCloses, Object
  <2>3. CASE DbAnswersInit(s)
    BY <1>2, <2>3 DEF DbAnswersInit, Object
  <2>4. QED
    BY <2>1, <2>2, <2>3
<1>4. \A t \in Sessions : ~LetIn(t)
  BY <1>3 DEF LetIn
<1>5. QED
  BY <1>1, <1>4, NobodyLetIn, SlotsUnmoved

LEMMA KickTurn ==
    ASSUME SessionsInv, SlotsHeld, NEW a \in Accounts, Kick(a)
    PROVE  SlotsHeld' /\ InTurn
<1>1. /\ UNCHANGED <<m_sessions, m_QueuedPlayer, m_playerLimit, limitMoved>>
      /\ session' = [session EXCEPT ![m_sessions[a]] = KickPlayer(@)]
  BY DEF Kick, worldVars, limitVars
<1>2. session \in [Sessions -> Object]
  BY DEF SessionsInv, SessionsType
<1>3. \A r \in Object : KickPlayer(r).init = r.init
  BY Kicked
<1>4. \A t \in Sessions : session'[t].init = session[t].init
  BY <1>1, <1>2, <1>3
<1>5. \A t \in Sessions : ~LetIn(t)
  BY <1>4 DEF LetIn
<1>6. QED
  BY <1>1, <1>5, NobodyLetIn, SlotsUnmoved

LEMMA ShutdownTurn ==
    ASSUME SessionsInv, SlotsHeld, Shutdown
    PROVE  SlotsHeld' /\ InTurn
<1>1. session \in [Sessions -> Object] /\ \A r \in Object : KickPlayer(r).init = r.init
  BY Kicked DEF SessionsInv, SessionsType
<1>2. session' = [t \in Sessions |-> IF t \in Registered THEN KickPlayer(session[t]) ELSE session[t]]
  BY DEF Shutdown, KickAll
<1>3. \A t \in Sessions : session'[t].init = session[t].init
  BY <1>1, <1>2
<1>4. \A t \in Sessions : ~LetIn(t)
  BY <1>3 DEF LetIn
<1>5. SlotsHeld'
  BY DEF Shutdown, SlotsHeld
<1>6. QED
  BY <1>4, <1>5, NobodyLetIn

LEMMA QuietTurn ==
    ASSUME SessionsInv, SlotsHeld,
           \/ BeginUpdate \/ NothingToAdd \/ EndUpdate
           \/ \E limit \in Limits : SetPlayerLimit(limit)
           \/ UNCHANGED vars
    PROVE  SlotsHeld' /\ InTurn
<1>1. UNCHANGED <<m_sessions, m_QueuedPlayer, session>>
  BY DEF BeginUpdate, NothingToAdd, EndUpdate, SetPlayerLimit, vars, worldVars
<1>2. \A t \in Sessions : ~LetIn(t)
  BY <1>1 DEF LetIn
<1>3. \/ UNCHANGED <<m_playerLimit, limitMoved>>
      \/ limitMoved' = (limitMoved \/ m_QueuedPlayer # <<>>)
  BY DEF BeginUpdate, NothingToAdd, EndUpdate, SetPlayerLimit, vars, limitVars
<1>4. CASE UNCHANGED <<m_playerLimit, limitMoved>>
  BY <1>1, <1>2, <1>4, NobodyLetIn, SlotsUnmoved
<1>5. CASE limitMoved' = (limitMoved \/ m_QueuedPlayer # <<>>)
  <2>1. SlotsHeld'
    BY <1>1, <1>5 DEF SlotsHeld
  <2>2. QED
    BY <1>2, <2>1, NobodyLetIn
<1>6. QED
  BY <1>3, <1>4, <1>5

LEMMA AddSessionTurn ==
    ASSUME SessionsInv, SlotsHeld, SessionsInv', AddSession_
    PROVE  SlotsHeld' /\ InTurn
<1> DEFINE s   == Head(addSessQueue)
           a   == AccountOf[s]
           old == m_sessions[a]
<1>1. /\ addSessQueue # <<>> /\ m_playerLimit' = m_playerLimit
      /\ IF old # NoSession /\ PlayerLoading(session[old]) THEN Refuse(s) ELSE Admit(s)
  BY DEF AddSession_
<1>2. /\ s \in Sessions /\ a \in Accounts
      /\ session[s].init = "no" /\ s \notin Waiting /\ \A b \in Accounts : m_sessions[b] # s
  BY <1>1, NewcomerFacts
<1>3. s \notin Registered
  BY <1>2 DEF Registered
<1> HIDE DEF s
<1>4. CASE Refuse(s)
  <2>1. /\ UNCHANGED <<m_sessions, m_QueuedPlayer, m_playerLimit, limitMoved>>
        /\ session' = [session EXCEPT ![s] = Deleted(KickPlayer(@))]
    BY <1>1, <1>4 DEF Refuse
  <2>2. session \in [Sessions -> Object]
    BY DEF SessionsInv, SessionsType
  <2>3. \A r : Deleted(r).init = "no"
    BY Gone
  <2>4. \A t \in Sessions : session[t].init = "no" => session'[t].init = "no"
    BY <2>1, <2>2, <2>3
  <2>5. \A t \in Sessions : ~LetIn(t)
    BY <2>4 DEF LetIn
  <2>6. QED
    BY <2>1, <2>5, NobodyLetIn, SlotsUnmoved
<1>5. CASE Admit(s)
  <2>1. /\ m_sessions' = [m_sessions EXCEPT ![a] = s]
        /\ m_QueuedPlayer' = IF MustWait(a, old) THEN Append(QueueWithout(old), s) ELSE QueueWithout(old)
        /\ limitMoved' = (limitMoved /\ m_QueuedPlayer' # <<>>)
        /\ session'[s].init = IF MustWait(a, old) THEN "no" ELSE "asked"
        /\ \A t \in Sessions : LetIn(t) /\ t # s =>
             old # NoSession /\ TakesTurn(m_QueuedPlayer, Size, old, t)
        /\ s \notin ToSet(QueueWithout(old))
    BY <1>1, <1>5, Admitted DEF s
  <2> HIDE DEF old
  <2>2. old = m_sessions[a]
    BY DEF old
  <2> HIDE DEF a
  <2>3. a = AccountOf[s]
    BY DEF a
  <2>4. QED
    BY <1>1, <1>2, <1>3, <2>1, <2>2, <2>3, AdmitTurn
<1>6. QED
  BY <1>1, <1>4, <1>5

LEMMA UpdateSessionTurn ==
    ASSUME SessionsInv, SlotsHeld, SessionsInv', NEW a \in Accounts, UpdateSession(a)
    PROVE  SlotsHeld' /\ InTurn
<1> DEFINE s  == m_sessions[a]
           r0 == session[s]
<1>1. a \in todo /\ tick = "update" /\ m_playerLimit' = m_playerLimit
  BY DEF UpdateSession
<1>2. s \in Sessions /\ s # NoSession /\ r0 \in Object /\ session \in [Sessions -> Object]
  BY <1>1 DEF SessionsInv, SessionsType, TodoInv
<1>3. PICK r6 \in Object :
        /\ r0.init # "ready" => r6.told = r0.told /\ r6.m_inQueue = r0.m_inQueue /\ r6.init = r0.init
        /\ r0.init = "ready" => r6.init = "done"
        /\ Drop(a, s, r6) \/ Stay(a, s, r6)
  <2>1. PICK idle, login, answered, loads, logout \in BOOLEAN :
         LET r1 == IF idle THEN [r0 EXCEPT !.open = FALSE] ELSE r0
             r2 == IF login THEN HandlePlayerLoginOpcode(r1) ELSE r1
             r3 == InitializeSessionCallback(r2)
             r4 == IF answered THEN HandlePlayerLogin(r3, loads) ELSE r3
             r5 == IF logout THEN LogoutPlayer(r4) ELSE r4
             r6 == Countdown(r5)
             in == r4.player = "world" /\ r0.player # "world"
         IN  /\ idle => r0.open /\ ~r0.m_inQueue
             /\ login => r2 # r1
             /\ answered => r3.player = "loading"
             /\ loads => answered
             /\ logout => r4.player = "world"
             /\ IF Leaves(r6) THEN Drop(a, s, r6) ELSE Stay(a, s, r6)
             /\ online' = IF Leaves(r6) THEN Offline(online, a)
                          ELSE IF in THEN online \cup {a} ELSE online
             /\ charOnline' = IF Leaves(r6) \/ (logout /\ r4.player = "world") THEN Offline(charOnline, a)
                              ELSE IF in THEN charOnline \cup {a} ELSE charOnline
    BY Zenon DEF UpdateSession
  <2>2. /\ idle \in BOOLEAN /\ login \in BOOLEAN /\ answered \in BOOLEAN
        /\ loads \in BOOLEAN /\ logout \in BOOLEAN
    OBVIOUS
  <2> DEFINE r4 == Loaded(r0, idle, login, answered, loads)
             r6 == AtEnd(r4, logout)
  <2>3. IF Leaves(r6) THEN Drop(a, s, r6) ELSE Stay(a, s, r6)
    BY <2>1, Zenon DEF Loaded, AtEnd
  <2> HIDE DEF r0
  <2>4. Ended(r0, r4, r6, logout)
    BY <1>2, <2>2, Updated, Zenon
  <2> HIDE DEF r4, r6
  <2>5. /\ r6 \in Object
        /\ r0.init # "ready" => r6.told = r0.told /\ r6.m_inQueue = r0.m_inQueue /\ r6.init = r0.init
        /\ r0.init = "ready" => r6.init = "done"
    BY <2>4, Zenon DEF Ended
  <2>6. Drop(a, s, r6) \/ Stay(a, s, r6)
    BY <2>3
  <2>7. QED
    BY <2>5, <2>6
<1>4. CASE Stay(a, s, r6)
  <2>1. /\ UNCHANGED <<m_sessions, m_QueuedPlayer, m_playerLimit, limitMoved>>
        /\ session' = [session EXCEPT ![s] = r6]
    BY <1>1, <1>4 DEF Stay
  <2>2. r0.init = "no" => r6.init = "no"
    BY <1>3
  <2>3. \A t \in Sessions : session[t].init = "no" => session'[t].init = "no"
    BY <1>2, <2>1, <2>2
  <2>4. \A t \in Sessions : ~LetIn(t)
    BY <2>3 DEF LetIn
  <2>5. QED
    BY <2>1, <2>4, NobodyLetIn, SlotsUnmoved
<1>5. CASE Drop(a, s, r6)
  <2>1. InPlace(m_QueuedPlayer, [session EXCEPT ![s] = r6])
    <3>1. m_QueuedPlayer \in Seq(Sessions) /\ InPlace(m_QueuedPlayer, session)
      BY DEF SessionsInv, SessionsType, PlaceInv
    <3>2. s \in ToSet(m_QueuedPlayer) => r0.init = "no"
      BY <3>1, Members DEF InPlace
    <3>3. QED
      BY <1>2, <1>3, <3>1, <3>2, Replaced
  <2>2. /\ m_sessions' = [m_sessions EXCEPT ![a] = NoSession]
        /\ m_QueuedPlayer' = NextQueue(NextQueue(m_QueuedPlayer, Size, s), Size, s)
        /\ limitMoved' = (limitMoved /\ m_QueuedPlayer' # <<>>)
        /\ \A t \in Sessions : LetIn(t) =>
             \/ TakesTurn(m_QueuedPlayer, Size, s, t)
             \/ TakesTurn(NextQueue(m_QueuedPlayer, Size, s), Size, s, t)
    <3> HIDE DEF s
    <3>1. QED
      BY <1>2, <1>5, <2>1, Dropped
  <2>3. QED
    BY <1>1, <1>2, <2>2, DropTurn
<1>6. QED
  BY <1>3, <1>4, <1>5

LEMMA StepInTurn ==
    ASSUME SessionsInv, SlotsHeld, SessionsInv', [Next]_vars
    PROVE  SlotsHeld' /\ InTurn
<1>1. CASE AddSession_
  BY <1>1, AddSessionTurn
<1>2. CASE \E a \in Accounts : UpdateSession(a)
  BY <1>2, UpdateSessionTurn
<1>3. CASE \E s \in Sessions : Handshake(s) \/ SocketCloses(s) \/ DbAnswersInit(s)
  BY <1>3, HandshakeTurn
<1>4. CASE \E a \in Accounts : Kick(a)
  BY <1>4, KickTurn
<1>5. CASE Shutdown
  BY <1>5, ShutdownTurn
<1>6. CASE \/ BeginUpdate \/ NothingToAdd \/ EndUpdate
           \/ \E limit \in Limits : SetPlayerLimit(limit)
           \/ Finished \/ UNCHANGED vars
  BY <1>6, QuietTurn DEF Finished
<1>7. QED
  BY <1>1, <1>2, <1>3, <1>4, <1>5, <1>6 DEF Next, WorldThread

LEMMA SlotsInvariance ==
    Spec => [](SessionsInv /\ SlotsHeld)
<1>1. Init => SlotsHeld
  BY DEF Init, SlotsHeld
<1>2. SlotsHeld /\ SessionsInv /\ SessionsInv' /\ [Next]_vars => SlotsHeld'
  BY StepInTurn
<1>3. QED
  BY <1>1, <1>2, SessionsInvariance, PTL DEF Spec

(* No slot is idle while a session waits, unless the limit was moved: that *)
(* RemoveQueuedPlayer runs twice for a session that leaves, each time with *)
(* the session still counted, lets nobody wait who should not.             *)
THEOREM NoIdleSlotEver == Spec => []NoIdleSlot
<1>1. SessionsInv /\ SlotsHeld => NoIdleSlot
  <2>1. SUFFICES ASSUME SessionsInv, SlotsHeld, m_QueuedPlayer # <<>>, ~limitMoved
                 PROVE  Cardinality(Active) >= GetPlayerAmountLimit
    BY DEF NoIdleSlot
  <2>2. Cardinality(Active) = Size - Len(m_QueuedPlayer)
    BY <2>1, Slots
  <2>3. m_playerLimit > 0 /\ Size - Len(m_QueuedPlayer) >= m_playerLimit /\ m_playerLimit \in Int
    BY <2>1 DEF SlotsHeld, SessionsInv, SessionsType
  <2>4. GetPlayerAmountLimit = m_playerLimit
    BY <2>3 DEF GetPlayerAmountLimit
  <2>5. QED
    BY <2>2, <2>3, <2>4
<1>2. QED
  BY <1>1, SlotsInvariance, PTL

(* Nobody is let in beyond the limit or before one who waits ahead of him, *)
(* also where one call removes a session, lets a second in and decides     *)
(* about a third.                                                          *)
THEOREM TurnKept == Spec => LetInInTurn
<1>1. SessionsInv /\ SlotsHeld /\ SessionsInv' /\ [Next]_vars => InTurn
  BY StepInTurn
<1>2. LetInInTurn <=> [][InTurn]_vars
  BY DEF LetInInTurn, InTurn
<1>3. QED
  BY <1>1, <1>2, SlotsInvariance, PTL DEF Spec
=============================================================================
