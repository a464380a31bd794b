------------------------------- MODULE World -------------------------------
(***************************************************************************)
(* The session registry of game/World/World.cpp: which sessions exist,     *)
(* which of them wait in the login queue, and how World::UpdateSessions    *)
(* admits, initialises and removes them.                                   *)
(*                                                                         *)
(* All of it runs on the world thread except AddSession, which a network   *)
(* thread calls.  What makes a session end (its sockets, its player) is    *)
(* the business of WorldSession.tla; here Update may return false at any   *)
(* time, because a client may drop at any time.                            *)
(***************************************************************************)
EXTENDS Integers, FiniteSets, Sequences, SequencesExt

CONSTANTS
  Accounts,
  Logins,        \* numbers the logins of one account
  NoSession,     \* a null WorldSession*
  PlayerLimit,   \* m_playerLimit, 0 means no limit
  SkipQueue,     \* accounts with RBAC_PERM_SKIP_QUEUE
  Tolerance,     \* CONFIG_INTERVAL_DISCONNECT_TOLERANCE, 0 means disabled
  RepeatedAck,   \* TRUE: a client may acknowledge encryption more than once on
                 \* a connection; it is asked to once
  MaxTime        \* bound of the game clock

Sessions == Accounts \X Logins

AccountOf(s) == s[1]

ASSUME WorldAssumption ==
  /\ IsFiniteSet(Accounts)
  /\ NoSession \notin Sessions
  /\ PlayerLimit \in Nat /\ Tolerance \in Nat /\ MaxTime \in Nat
  /\ RepeatedAck \in BOOLEAN
  /\ SkipQueue \subseteq Accounts

VARIABLES
  world,             \* what the world thread is doing in UpdateSessions
  toUpdate,          \* accounts this pass has still to update
  current,           \* the session in WorldSession::Update, or NoSession
  addSessQueue,      \* sessions handed over by the network threads
  m_sessions,        \* the session of each account, NoSession if none
  m_QueuedPlayer,    \* the login queue
  m_inQueue,         \* m_inQueue of each session
  initState,         \* "none", "loading" (InitializeSession waits for the
                     \* database) or "done", for each session
  m_playerLoading,   \* sessions whose m_playerLoading is set
  handed,            \* sessions AddSession was called for
  deleted,           \* sessions whose destructor ran
  m_disconnects,     \* when each account last lost an admitted session, -1 never
  gameTime           \* GameTime::GetGameTime()

threadVars == <<world, toUpdate, current>>
queueVars == <<m_QueuedPlayer, m_inQueue, initState>>
clockVars == <<m_disconnects, gameTime>>
worldVars == <<threadVars, queueVars, clockVars, addSessQueue, m_sessions,
               m_playerLoading, handed, deleted>>

WorldInit ==
  /\ world = "add" /\ toUpdate = {} /\ current = NoSession
  /\ addSessQueue = <<>>
  /\ m_sessions = [a \in Accounts |-> NoSession]
  /\ m_QueuedPlayer = <<>>
  /\ m_inQueue = [s \in Sessions |-> FALSE]
  /\ initState = [s \in Sessions |-> "none"]
  /\ m_playerLoading = {}
  /\ handed = {} /\ deleted = {}
  /\ m_disconnects = [a \in Accounts |-> -1]
  /\ gameTime = 0

Registered == {a \in Accounts : m_sessions[a] # NoSession}

Queued(s) == \E i \in DOMAIN m_QueuedPlayer : m_QueuedPlayer[i] = s

ActiveSessionCount == Cardinality(Registered) - Len(m_QueuedPlayer)

-----------------------------------------------------------------------------
(* World::RemoveQueuedPlayer as a function of the queue: whether the session
   was found, the queue it leaves, and the session it admits, if any.  `total`
   is m_sessions.size().                                                    *)

Without(queue, s) ==
  IF \E i \in DOMAIN queue : queue[i] = s
  THEN RemoveAt(queue, CHOOSE i \in DOMAIN queue : queue[i] = s)
  ELSE queue

\* Defect: the departing active session keeps its slot in the count.
RemoveQueuedPlayerKeepsSlot(queue, s, total) ==
  LET found    == \E i \in DOMAIN queue : queue[i] = s
      rest     == Without(queue, s)
      active   == total - Len(queue)
      admits   == (PlayerLimit = 0 \/ active < PlayerLimit) /\ rest # <<>>
  IN [found    |-> found,
      queue    |-> IF admits THEN Tail(rest) ELSE rest,
      admitted |-> IF admits THEN {Head(rest)} ELSE {}]

\* Defect: the active sessions are counted after the erase, not before.
RemoveQueuedPlayerCountsLate(queue, s, total) ==
  LET found    == \E i \in DOMAIN queue : queue[i] = s
      rest     == Without(queue, s)
      active   == total - Len(rest)
      sessions == IF active # 0 THEN active - 1 ELSE active
      admits   == (PlayerLimit = 0 \/ sessions <= PlayerLimit) /\ rest # <<>>
  IN [found    |-> found,
      queue    |-> IF admits THEN Tail(rest) ELSE rest,
      admitted |-> IF admits THEN {Head(rest)} ELSE {}]

\* Defect: the session admitted is the last one in the queue.
RemoveQueuedPlayerTakesLast(queue, s, total) ==
  LET found    == \E i \in DOMAIN queue : queue[i] = s
      rest     == Without(queue, s)
      active   == total - Len(queue)
      sessions == IF ~found /\ active # 0 THEN active - 1 ELSE active
      admits   == (PlayerLimit = 0 \/ sessions < PlayerLimit) /\ rest # <<>>
  IN [found    |-> found,
      queue    |-> IF admits THEN Front(rest) ELSE rest,
      admitted |-> IF admits THEN {Last(rest)} ELSE {}]

\* Defect: the first in the queue is popped but not initialised.
RemoveQueuedPlayerForgets(queue, s, total) ==
  LET r == RemoveQueuedPlayerTakesLast(queue, s, total)
      rest == Without(queue, s)
  IN [r EXCEPT !.queue = IF @ = rest THEN @ ELSE Tail(rest), !.admitted = {}]

RemoveQueuedPlayer(queue, s, total) ==
  LET found    == \E i \in DOMAIN queue : queue[i] = s
      rest     == Without(queue, s)
      active   == total - Len(queue)
      sessions == IF ~found /\ active # 0 THEN active - 1 ELSE active
      admits   == (PlayerLimit = 0 \/ sessions < PlayerLimit) /\ rest # <<>>
  IN [found    |-> found,
      queue    |-> IF admits THEN Tail(rest) ELSE rest,
      admitted |-> IF admits THEN {Head(rest)} ELSE {}]

\* InitializeSession: the two query holders are sent to the databases.
Initialized(states, ss) ==
  [s \in Sessions |-> IF s \in ss THEN "loading" ELSE states[s]]

-----------------------------------------------------------------------------
(* Network threads. *)

\* World::AddSession, called whenever the client acknowledges encryption.  The
\* code has no guard: that a session comes once is the client's doing.
AddSession(s) ==
  /\ s \in handed => RepeatedAck
  /\ handed' = handed \union {s}
  /\ addSessQueue' = Append(addSessQueue, s)
  /\ UNCHANGED <<threadVars, queueVars, clockVars, m_sessions, m_playerLoading, deleted>>

-----------------------------------------------------------------------------
(* World::AddSession_ *)

\* HasRecentlyDisconnected: difftime(i->second, now) is the past minus the
\* present, never positive, so an entry that exists is always young enough.
HasRecentlyDisconnected(a) ==
  /\ Tolerance # 0
  /\ m_disconnects[a] # -1
  /\ m_disconnects[a] - gameTime < Tolerance

\* The old session of the account is on its loading screen: RemoveSession
\* fails and the new session is kicked and deleted instead.
AddSessionRefused ==
  /\ world = "add" /\ addSessQueue # <<>>
  /\ LET s   == Head(addSessQueue)
         old == m_sessions[AccountOf(s)]
     IN /\ old # NoSession /\ old \in m_playerLoading
        /\ deleted' = deleted \union {s}
  /\ addSessQueue' = Tail(addSessQueue)
  /\ UNCHANGED <<threadVars, queueVars, clockVars, m_sessions, m_playerLoading, handed>>

\* The old session of the account, if any, is kicked, taken out of the queue
\* and deleted; the new one replaces it and is queued or initialised.
AddSessionAccepted ==
  /\ world = "add" /\ addSessQueue # <<>>
  /\ addSessQueue' = Tail(addSessQueue)
  /\ LET s        == Head(addSessQueue)
         a        == AccountOf(s)
         old      == m_sessions[a]
         isNew    == old = NoSession
         total    == Cardinality(Registered)
         removal  == IF isNew
                     THEN [found |-> FALSE, queue |-> m_QueuedPlayer, admitted |-> {}]
                     ELSE RemoveQueuedPlayer(m_QueuedPlayer, old, total)
         \* GetActiveAndQueuedSessionCount, less one unless the old was queued
         count    == (IF isNew THEN total + 1 ELSE total) - (IF removal.found THEN 0 ELSE 1)
         waits    == /\ PlayerLimit > 0 /\ count >= PlayerLimit
                     /\ a \notin SkipQueue
                     /\ ~HasRecentlyDisconnected(a)
     IN /\ isNew \/ old \notin m_playerLoading
        /\ m_sessions' = [m_sessions EXCEPT ![a] = s]
        /\ deleted' = IF isNew THEN deleted ELSE deleted \union {old}
        /\ m_QueuedPlayer' = IF waits THEN Append(removal.queue, s) ELSE removal.queue
        /\ m_inQueue' = [t \in Sessions |->
                           CASE t = s -> waits
                             [] t = old /\ removal.found -> FALSE
                             [] OTHER -> m_inQueue[t]]
        /\ initState' = Initialized(initState, removal.admitted \union (IF waits THEN {} ELSE {s}))
  /\ UNCHANGED <<threadVars, clockVars, m_playerLoading, handed>>

-----------------------------------------------------------------------------
(* World::UpdateSessions *)

AddDone ==
  /\ world = "add" /\ addSessQueue = <<>>
  /\ world' = "link"
  /\ UNCHANGED <<toUpdate, current, queueVars, clockVars, addSessQueue, m_sessions,
                 m_playerLoading, handed, deleted>>

\* The queue of instance sockets is drained between the two: WorldSession.tla.
LinkDone ==
  /\ world = "link"
  /\ world' = "loop" /\ toUpdate' = Registered
  /\ UNCHANGED <<current, queueVars, clockVars, addSessQueue, m_sessions,
                 m_playerLoading, handed, deleted>>

\* The loop enters WorldSession::Update of the next session.
UpdateBegin(a) ==
  /\ world = "loop" /\ a \in toUpdate
  /\ world' = "packets" /\ toUpdate' = toUpdate \ {a} /\ current' = m_sessions[a]
  /\ UNCHANGED <<queueVars, clockVars, addSessQueue, m_sessions,
                 m_playerLoading, handed, deleted>>

PacketsDone ==
  /\ world = "packets"
  /\ world' = "callbacks"
  /\ UNCHANGED <<toUpdate, current, queueVars, clockVars, addSessQueue, m_sessions,
                 m_playerLoading, handed, deleted>>

\* Defect: the popped session keeps its queue flag.
InitializeSessionCallbackKeepsFlag ==
  /\ world = "callbacks" /\ initState[current] = "loading"
  /\ initState' = [initState EXCEPT ![current] = "done"]
  /\ UNCHANGED <<threadVars, clockVars, m_QueuedPlayer, m_inQueue, addSessQueue,
                 m_sessions, m_playerLoading, handed, deleted>>

\* ProcessQueryCallbacks finds both answers of InitializeSession.
InitializeSessionCallback ==
  /\ world = "callbacks" /\ initState[current] = "loading"
  /\ initState' = [initState EXCEPT ![current] = "done"]
  /\ m_inQueue' = [m_inQueue EXCEPT ![current] = FALSE]
  /\ UNCHANGED <<threadVars, clockVars, m_QueuedPlayer, addSessQueue, m_sessions,
                 m_playerLoading, handed, deleted>>

CallbacksDone ==
  /\ world = "callbacks"
  /\ world' = "cleanup"
  /\ UNCHANGED <<toUpdate, current, queueVars, clockVars, addSessQueue, m_sessions,
                 m_playerLoading, handed, deleted>>

\* WorldSession::Update returns true.
SessionStays ==
  /\ world = "cleanup"
  /\ world' = "loop" /\ current' = NoSession
  /\ UNCHANGED <<toUpdate, queueVars, clockVars, addSessQueue, m_sessions,
                 m_playerLoading, handed, deleted>>

\* Defect: the dropped session is not taken out of the login queue.
SessionRemovedStillQueued ==
  /\ world = "cleanup"
  /\ world' = "loop" /\ current' = NoSession
  /\ m_sessions' = [m_sessions EXCEPT ![AccountOf(current)] = NoSession]
  /\ deleted' = deleted \union {current}
  /\ UNCHANGED <<toUpdate, queueVars, clockVars, addSessQueue, m_playerLoading, handed>>

\* WorldSession::Update returns false: the queue is told twice, the account's
\* disconnect is noted unless the session was still waiting, then it goes.
SessionRemoved ==
  /\ world = "cleanup"
  /\ world' = "loop" /\ current' = NoSession
  /\ LET a      == AccountOf(current)
         total  == Cardinality(Registered)
         first  == RemoveQueuedPlayer(m_QueuedPlayer, current, total)
         second == RemoveQueuedPlayer(first.queue, current, total)
     IN /\ m_sessions' = [m_sessions EXCEPT ![a] = NoSession]
        /\ m_QueuedPlayer' = second.queue
        /\ m_inQueue' = [m_inQueue EXCEPT ![current] = IF first.found THEN FALSE ELSE @]
        /\ initState' = Initialized(initState, first.admitted \union second.admitted)
        /\ m_disconnects' = IF ~first.found /\ Tolerance # 0
                            THEN [m_disconnects EXCEPT ![a] = gameTime]
                            ELSE m_disconnects
  /\ deleted' = deleted \union {current}
  /\ m_playerLoading' = m_playerLoading \ {current}
  /\ UNCHANGED <<toUpdate, gameTime, addSessQueue, handed>>

\* The pass is over; the game clock may have moved on before the next one.
LoopDone ==
  /\ world = "loop" /\ toUpdate = {}
  /\ world' = "add"
  /\ gameTime' \in {gameTime, gameTime + 1} \intersect 0..MaxTime
  /\ UNCHANGED <<toUpdate, current, queueVars, m_disconnects, addSessQueue, m_sessions,
                 m_playerLoading, handed, deleted>>

-----------------------------------------------------------------------------
(* The loading screen, as far as AddSession_ looks at it. *)

\* HandlePlayerLoginOpcode sets m_playerLoading; the packet is let through to
\* it as soon as the session is not in the login queue.
LoadingBegins ==
  /\ world = "packets" /\ ~m_inQueue[current]
  /\ current \notin m_playerLoading
  /\ m_playerLoading' = m_playerLoading \union {current}
  /\ UNCHANGED <<threadVars, queueVars, clockVars, addSessQueue, m_sessions, handed, deleted>>

\* HandlePlayerLogin and AbortLogin clear it.
LoadingEnds(s) ==
  /\ s \in m_playerLoading
  /\ m_playerLoading' = m_playerLoading \ {s}
  /\ UNCHANGED <<threadVars, queueVars, clockVars, addSessQueue, m_sessions, handed, deleted>>

-----------------------------------------------------------------------------
UpdateSessionsStep ==
  \/ AddSessionRefused \/ AddSessionAccepted \/ AddDone \/ LinkDone
  \/ \E a \in Accounts : UpdateBegin(a)
  \/ PacketsDone \/ CallbacksDone
  \/ SessionStays \/ SessionRemoved \/ LoopDone

WorldNext ==
  \/ \E s \in Sessions : AddSession(s) \/ LoadingEnds(s)
  \/ UpdateSessionsStep
  \/ InitializeSessionCallback
  \/ LoadingBegins

(***************************************************************************)
(* The world thread never stops, and the databases answer: an answer that  *)
(* is there is processed at the latest when its session is updated again   *)
(* and again.                                                              *)
(***************************************************************************)
WorldSpec ==
  /\ WorldInit /\ [][WorldNext]_worldVars
  /\ WF_worldVars(UpdateSessionsStep)
  /\ \A s \in Sessions : SF_worldVars(InitializeSessionCallback /\ current = s)

-----------------------------------------------------------------------------
(* Properties. *)

\* Every variable has its type.
TypeOK ==
  /\ world \in {"add", "link", "loop", "packets", "callbacks", "cleanup"}
  /\ toUpdate \subseteq Accounts
  /\ current \in Sessions \union {NoSession}
  /\ addSessQueue \in Seq(Sessions)
  /\ m_sessions \in [Accounts -> Sessions \union {NoSession}]
  /\ m_QueuedPlayer \in Seq(Sessions)
  /\ m_inQueue \in [Sessions -> BOOLEAN]
  /\ initState \in [Sessions -> {"none", "loading", "done"}]
  /\ m_playerLoading \subseteq Sessions
  /\ handed \subseteq Sessions
  /\ deleted \subseteq Sessions
  /\ m_disconnects \in [Accounts -> Int]
  /\ gameTime \in Nat

\* A pointer World keeps (in the registry, in the login queue, in the queue of
\* new sessions, in the loop of UpdateSessions) is never one it has deleted,
\* and no session is queued twice: as long as clients acknowledge once.
NoDanglingSession ==
  /\ \A a \in Registered : m_sessions[a] \notin deleted
  /\ \A i \in DOMAIN m_QueuedPlayer :
       /\ m_sessions[AccountOf(m_QueuedPlayer[i])] = m_QueuedPlayer[i]
       /\ \A j \in DOMAIN m_QueuedPlayer : m_QueuedPlayer[i] = m_QueuedPlayer[j] => i = j
  /\ \A i \in DOMAIN addSessQueue : addSessQueue[i] \notin deleted
  /\ world \in {"packets", "callbacks", "cleanup"} =>
       current # NoSession /\ m_sessions[AccountOf(current)] = current

\* A registered session waits in the login queue or has been initialised, and
\* never both: no session is forgotten with neither a place nor an answer, and
\* the flag that answers "wait" and disarms the idle kick is set exactly while
\* it waits and until its initialisation answers.
NobodyForgotten ==
  \A a \in Registered : LET s == m_sessions[a] IN
    /\ Queued(s) <=> initState[s] = "none"
    /\ Queued(s) => m_inQueue[s]
    /\ initState[s] = "done" => ~m_inQueue[s]

\* With nobody privileged, no more sessions are active than PlayerLimit.
CapacityRespected ==
  PlayerLimit > 0 /\ Tolerance = 0 /\ SkipQueue = {} => ActiveSessionCount <= PlayerLimit

\* Nobody waits while there is room.
NoIdleSlot ==
  m_QueuedPlayer # <<>> => ActiveSessionCount >= PlayerLimit

Privileged(s) == AccountOf(s) \in SkipQueue \/ HasRecentlyDisconnected(AccountOf(s))

Ahead(t, s) ==
  \E i, j \in DOMAIN m_QueuedPlayer : i < j /\ m_QueuedPlayer[i] = t /\ m_QueuedPlayer[j] = s

\* The queue is fair: nobody is admitted while somebody who queued earlier
\* still waits, except by privilege.
NoOvertaking ==
  [][\A s \in Sessions : initState[s] = "none" /\ initState'[s] = "loading" =>
       IF Queued(s)
       THEN \A t \in Sessions : Ahead(t, s) => ~Queued(t)'
       ELSE Privileged(s) \/ m_QueuedPlayer' = <<>>]_worldVars

\* worldserver.conf: a player is let past the queue after a disconnect only
\* within DisconnectToleranceInterval seconds of it.
ToleranceExpires ==
  [][\A s \in Sessions :
       /\ initState[s] = "none" /\ initState'[s] = "loading" /\ ~Queued(s)
       /\ PlayerLimit > 0 /\ ActiveSessionCount' > PlayerLimit
       /\ AccountOf(s) \notin SkipQueue
       => gameTime - m_disconnects[AccountOf(s)] < Tolerance]_worldVars

\* Every session handed to the world is answered: it is deleted, placed in the
\* queue, or its initialisation completes.
EverySessionAnswered ==
  \A s \in Sessions : s \in handed ~> (s \in deleted \/ Queued(s) \/ initState[s] = "done")
=============================================================================
