---------------------------- MODULE WorldSession ----------------------------
(***************************************************************************)
(* The sockets of a session: game/Server/WorldSocket.cpp, the part of      *)
(* WorldSession.cpp that holds them, and the login handshake that adds the *)
(* second one.  A client logs in on its realm socket, is told to open an   *)
(* instance socket with a fresh key (SendConnectToInstance), and its       *)
(* character is loaded once the world thread has linked that socket to the *)
(* session that gave out the key.                                          *)
(*                                                                         *)
(* Two sides share the sockets: the network thread a socket belongs to,    *)
(* which reads, fails and closes it, and the world thread of World.tla,    *)
(* which links, kicks and deletes.  A WorldSession is reached from a       *)
(* socket through a raw pointer guarded by _worldSessionLock.              *)
(***************************************************************************)
EXTENDS World

CONSTANTS
  Attempts,     \* how many ConnectToSerials there are, 5 in the protocol
  MaxKeys,      \* bound: instance keys one session gives out
  ExpirePasses, \* how many passes expireTime lasts
  LateFailure,  \* TRUE: a client may report an attempt as failed after its
                \* socket finished the handshake
  NoSocket

RealmSocket(s) == <<s, 0>>
Sockets == Sessions \X (0..MaxKeys)
InstanceSockets == Sessions \X (1..MaxKeys)
SessionOf(k) == k[1]
KeyOf(k) == k[2]

ASSUME SessionAssumption ==
  /\ Attempts \in Nat \ {0} /\ MaxKeys \in Nat \ {0}
  /\ ExpirePasses \in Nat /\ LateFailure \in BOOLEAN
  /\ NoSocket \notin Sockets

VARIABLES
  net,           \* what the network thread does for each socket: "none" (not
                 \* connected), "reading", "handling" (in a handler, holding
                 \* _worldSessionLock), "closing" (between the two halves of
                 \* CloseSocket), "stopped" or "stuck"
  isOpen,        \* _openState == OpenState_Open, of each socket
  worldSession,  \* _worldSession of each socket
  realm,         \* sessions whose m_Socket[CONNECTION_TYPE_REALM] is set
  instance,      \* key of m_Socket[CONNECTION_TYPE_INSTANCE], 0 if none
  connectKey,    \* _instanceConnectKey, numbered in the order given out
  serial,        \* the ConnectToSerial that went out with it
  gaveUp,        \* instance sockets the client reported as failed
  linkQueue,     \* _linkSocketQueue
  linking,       \* the socket AddInstanceConnection has found open
  forceExit,     \* sessions whose forceExit is set
  expireTime,    \* passes a player outlives its socket, of each session
  holders,       \* login query holders in flight, of each session
  hasPlayer,     \* sessions whose _player is set
  online,        \* Player objects of each session that are in the world
  loggingIn      \* HandlePlayerLogin is between SetPlayer and its end

socketVars == <<net, isOpen, worldSession>>
holdVars == <<realm, instance, forceExit>>
keyVars == <<connectKey, serial, gaveUp>>
linkVars == <<linkQueue, linking>>
playerVars == <<holders, hasPlayer, online, loggingIn>>
vars == <<worldVars, socketVars, holdVars, expireTime, keyVars, linkVars, playerVars>>

Init ==
  /\ WorldInit
  /\ net = [k \in Sockets |-> "none"]
  /\ isOpen = [k \in Sockets |-> FALSE]
  /\ worldSession = [k \in Sockets |-> NoSession]
  /\ realm = {} /\ instance = [s \in Sessions |-> 0] /\ forceExit = {}
  /\ expireTime = [s \in Sessions |-> ExpirePasses]
  /\ connectKey = [s \in Sessions |-> 0] /\ serial = [s \in Sessions |-> 0]
  /\ gaveUp = {}
  /\ linkQueue = <<>> /\ linking = NoSocket
  /\ holders = [s \in Sessions |-> 0]
  /\ hasPlayer = {} /\ online = [s \in Sessions |-> 0] /\ loggingIn = FALSE

-----------------------------------------------------------------------------
(* Closing sockets from the world thread. *)

SocketsOf(s) ==
  (IF s \in realm THEN {RealmSocket(s)} ELSE {})
  \union (IF instance[s] # 0 THEN {<<s, instance[s]>>} ELSE {})

\* Socket::CloseSocket of each of the sockets: of those still open, wait for
\* the handler that holds the lock and clear the pointer; leave the others to
\* whoever closed them.
WorldCloses(ks) ==
  /\ \A k \in ks : isOpen[k] => net[k] # "handling"
  /\ isOpen' = [k \in Sockets |-> isOpen[k] /\ k \notin ks]
  /\ worldSession' = [k \in Sockets |->
                        IF k \in ks /\ isOpen[k] THEN NoSession ELSE worldSession[k]]
  /\ UNCHANGED net

\* WorldSession::KickPlayer
KickPlayer(s) ==
  /\ WorldCloses(SocketsOf(s))
  /\ forceExit' = IF SocketsOf(s) = {} THEN forceExit ELSE forceExit \union {s}
  /\ UNCHANGED <<realm, instance>>

\* Defect: the destructor does not log the player out.
DestroyWithoutLogout(s) ==
  /\ WorldCloses(SocketsOf(s))
  /\ realm' = realm \ {s} /\ instance' = [instance EXCEPT ![s] = 0]
  /\ UNCHANGED <<forceExit, holders, hasPlayer, online, loggingIn>>

\* Defect: the destructor only drops the sockets.
DestroyWithoutClosing(s) ==
  /\ realm' = realm \ {s} /\ instance' = [instance EXCEPT ![s] = 0]
  /\ hasPlayer' = hasPlayer \ {s}
  /\ online' = [online EXCEPT ![s] = IF s \in hasPlayer THEN @ - 1 ELSE @]
  /\ holders' = [holders EXCEPT ![s] = 0]
  /\ UNCHANGED <<socketVars, forceExit, loggingIn>>

\* The destructor: the player is logged out, the sockets closed and let go,
\* and the callbacks in flight are dropped with the session.
Destroy(s) ==
  /\ WorldCloses(SocketsOf(s))
  /\ realm' = realm \ {s} /\ instance' = [instance EXCEPT ![s] = 0]
  /\ hasPlayer' = hasPlayer \ {s}
  /\ online' = [online EXCEPT ![s] = IF s \in hasPlayer THEN @ - 1 ELSE @]
  /\ holders' = [holders EXCEPT ![s] = 0]
  /\ UNCHANGED <<forceExit, loggingIn>>

-----------------------------------------------------------------------------
(* Network threads. *)

\* HandleAuthSessionCallback: the session is created and pointed to.
AuthSession(s) ==
  /\ net[RealmSocket(s)] = "none"
  /\ net' = [net EXCEPT ![RealmSocket(s)] = "reading"]
  /\ isOpen' = [isOpen EXCEPT ![RealmSocket(s)] = TRUE]
  /\ worldSession' = [worldSession EXCEPT ![RealmSocket(s)] = s]
  /\ realm' = realm \union {s}
  /\ UNCHANGED <<expireTime, worldVars, instance, forceExit, keyVars, linkVars, playerVars>>

\* HandleEnterEncryptedModeAck on the realm socket.  It reads _worldSession
\* without the lock; until the first acknowledgement nobody else changes it.
RealmAck(s) ==
  /\ net[RealmSocket(s)] = "reading" /\ worldSession[RealmSocket(s)] = s
  /\ AddSession(s)
  /\ UNCHANGED <<expireTime, socketVars, holdVars, keyVars, linkVars, playerVars>>

\* The key a client authenticates an instance socket with: the last one it was
\* given, or one it has since given up.
Authenticates(k) ==
  \/ KeyOf(k) = connectKey[SessionOf(k)] /\ k \notin gaveUp
  \/ LateFailure /\ k \in gaveUp

\* The same on an instance socket, when it has authenticated or once more: the
\* link is queued every time.
InstanceAck(k) ==
  /\ KeyOf(k) # 0
  /\ IF net[k] = "none" THEN Authenticates(k) ELSE net[k] = "reading" /\ RepeatedAck
  /\ net' = [net EXCEPT ![k] = "reading"]
  /\ isOpen' = [isOpen EXCEPT ![k] = @ \/ net[k] = "none"]
  /\ linkQueue' = Append(linkQueue, k)
  /\ UNCHANGED <<expireTime, worldVars, worldSession, holdVars, keyVars, linking, playerVars>>

\* ReadDataHandler takes _worldSessionLock.  A packet already in the buffer is
\* handled even if the socket was closed meanwhile.
PacketBegin(k) ==
  /\ net[k] = "reading" /\ k \notin gaveUp
  /\ net' = [net EXCEPT ![k] = "handling"]
  /\ UNCHANGED <<expireTime, worldVars, isOpen, worldSession, holdVars, keyVars, linkVars, playerVars>>

\* It queues the packet with the session and lets the lock go.
PacketQueued(k) ==
  /\ net[k] = "handling" /\ worldSession[k] # NoSession
  /\ net' = [net EXCEPT ![k] = "reading"]
  /\ UNCHANGED <<expireTime, worldVars, isOpen, worldSession, holdVars, keyVars, linkVars, playerVars>>

\* CloseSocket by the network thread: OnClose follows unless someone else
\* closed the socket first.
NetCloses(k) ==
  /\ isOpen' = [isOpen EXCEPT ![k] = FALSE]
  /\ net' = [net EXCEPT ![k] = IF isOpen[k] THEN "closing" ELSE "stopped"]
  /\ UNCHANGED <<expireTime, worldVars, worldSession, holdVars, keyVars, linkVars, playerVars>>

\* There is no session: the packet is an error and the socket is closed.
PacketRefused(k) ==
  /\ net[k] = "handling" /\ worldSession[k] = NoSession
  /\ NetCloses(k)

\* The connection breaks, or the client closes it.
Dropped(k) ==
  /\ net[k] = "reading"
  /\ NetCloses(k)

\* WorldSocket::OnClose
OnClose(k) ==
  /\ net[k] = "closing"
  /\ net' = [net EXCEPT ![k] = "stopped"]
  /\ worldSession' = [worldSession EXCEPT ![k] = NoSession]
  /\ UNCHANGED <<expireTime, worldVars, isOpen, holdVars, keyVars, linkVars, playerVars>>

\* The last instance socket of s, whose failure its client now reports.
FailureReported(s) ==
  LET k == <<s, connectKey[s]>> IN
    /\ net[RealmSocket(s)] = "reading" /\ connectKey[s] # 0
    /\ k \notin gaveUp
    /\ LateFailure \/ net[k] = "none"
    /\ gaveUp' = gaveUp \union {k}

\* HandleConnectToFailed outside a login, or on a socket closed meanwhile.
ConnectToFailedIgnored(s) ==
  /\ FailureReported(s)
  /\ worldSession[RealmSocket(s)] = NoSession \/ s \notin m_playerLoading
  /\ UNCHANGED <<expireTime, worldVars, socketVars, holdVars, connectKey, serial, linkVars, playerVars>>

\* HandleConnectToFailed with attempts left: SendConnectToInstance again.
ConnectToRetried(s) ==
  /\ FailureReported(s)
  /\ worldSession[RealmSocket(s)] # NoSession /\ s \in m_playerLoading
  /\ serial[s] < Attempts /\ connectKey[s] < MaxKeys
  /\ connectKey' = [connectKey EXCEPT ![s] = @ + 1]
  /\ serial' = [serial EXCEPT ![s] = @ + 1]
  /\ UNCHANGED <<expireTime, worldVars, socketVars, holdVars, linkVars, playerVars>>

\* The last attempt failed: AbortLogin, unless a player is there already.
LoginAborted(s) ==
  /\ FailureReported(s)
  /\ worldSession[RealmSocket(s)] # NoSession
  /\ serial[s] = Attempts /\ s \notin hasPlayer
  /\ LoadingEnds(s)
  /\ UNCHANGED <<expireTime, socketVars, holdVars, connectKey, serial, linkVars, playerVars>>

\* AbortLogin finds a player and kicks it: CloseSocket of this very socket
\* runs OnClose, which locks the mutex this handler holds.
LoginAbortedLate(s) ==
  /\ FailureReported(s)
  /\ worldSession[RealmSocket(s)] # NoSession
  /\ serial[s] = Attempts /\ s \in m_playerLoading /\ s \in hasPlayer
  /\ isOpen[RealmSocket(s)]
  /\ isOpen' = [isOpen EXCEPT ![RealmSocket(s)] = FALSE]
  /\ net' = [net EXCEPT ![RealmSocket(s)] = "stuck"]
  /\ UNCHANGED <<expireTime, worldVars, worldSession, holdVars, connectKey, serial, linkVars, playerVars>>

-----------------------------------------------------------------------------
(* The world thread: new sessions. *)

\* AddSession_ refuses the session: it is kicked and deleted.
RefuseSession ==
  /\ AddSessionRefused
  /\ Destroy(Head(addSessQueue))
  /\ UNCHANGED <<expireTime, keyVars, linkVars>>

\* Defect: the session it replaces is left alone.
RegisterWithoutKick ==
  /\ AddSessionAccepted
  /\ UNCHANGED <<expireTime, socketVars, holdVars, keyVars, linkVars, playerVars>>

\* AddSession_ kicks and deletes the session the new one replaces.
RegisterSession ==
  /\ AddSessionAccepted
  /\ LET old == m_sessions[AccountOf(Head(addSessQueue))] IN
       IF old = NoSession
       THEN UNCHANGED <<socketVars, holdVars, playerVars>>
       ELSE Destroy(old)
  /\ UNCHANGED <<expireTime, keyVars, linkVars>>

AddingDone == AddDone /\ UNCHANGED <<expireTime, socketVars, holdVars, keyVars, linkVars, playerVars>>

-----------------------------------------------------------------------------
(* The world thread: instance sockets, WorldSession::AddInstanceConnection. *)

NextLink == world = "link" /\ linking = NoSocket /\ linkQueue # <<>>

\* The socket is gone or no longer open.
LinkIgnored ==
  /\ NextLink /\ ~isOpen[Head(linkQueue)]
  /\ linkQueue' = Tail(linkQueue)
  /\ UNCHANGED <<expireTime, worldVars, socketVars, holdVars, keyVars, linking, playerVars>>

\* The registered session of the account gave out this key, and no later one.
Expected(k) ==
  /\ m_sessions[AccountOf(SessionOf(k))] = SessionOf(k)
  /\ connectKey[SessionOf(k)] = KeyOf(k)

\* No session, or another key by now: the socket is closed.
LinkRejected ==
  /\ NextLink /\ isOpen[Head(linkQueue)] /\ ~Expected(Head(linkQueue))
  /\ WorldCloses({Head(linkQueue)})
  /\ linkQueue' = Tail(linkQueue)
  /\ UNCHANGED <<expireTime, worldVars, holdVars, keyVars, linking, playerVars>>

LinkBegins ==
  /\ NextLink /\ isOpen[Head(linkQueue)] /\ Expected(Head(linkQueue))
  /\ linking' = Head(linkQueue) /\ linkQueue' = Tail(linkQueue)
  /\ UNCHANGED <<expireTime, worldVars, socketVars, holdVars, keyVars, playerVars>>

\* SetWorldSession, whatever became of the socket meanwhile, then
\* HandleContinuePlayerLogin sends the login queries (Initialize of the holder
\* does not fail).
LinkLogsIn ==
  /\ linking # NoSocket
  /\ LET s == SessionOf(linking) IN
       /\ s \in m_playerLoading /\ s \notin hasPlayer
       /\ net[linking] # "handling"
       /\ worldSession' = [worldSession EXCEPT ![linking] = s]
       /\ instance' = [instance EXCEPT ![s] = KeyOf(linking)]
       /\ holders' = [holders EXCEPT ![s] = @ + 1]
  /\ linking' = NoSocket
  /\ UNCHANGED <<expireTime, worldVars, net, isOpen, realm, forceExit, keyVars, linkQueue,
                 hasPlayer, online, loggingIn>>

\* HandleContinuePlayerLogin finds the login aborted or done, and kicks: the
\* realm socket and the instance socket that was set just before.
LinkKicks ==
  /\ linking # NoSocket
  /\ LET s  == SessionOf(linking)
         ks == {RealmSocket(s), linking}
     IN /\ s \notin m_playerLoading \/ s \in hasPlayer
        /\ \A k \in ks : net[k] # "handling"
        /\ isOpen' = [k \in Sockets |-> isOpen[k] /\ k \notin ks]
        /\ worldSession' = [k \in Sockets |->
             CASE k \in ks /\ isOpen[k] -> NoSession
               [] k = linking           -> s
               [] OTHER                 -> worldSession[k]]
        /\ instance' = [instance EXCEPT ![s] = KeyOf(linking)]
        /\ forceExit' = forceExit \union {s}
  /\ linking' = NoSocket
  /\ UNCHANGED <<expireTime, worldVars, net, realm, keyVars, linkQueue, playerVars>>

LinkingDone ==
  /\ linking = NoSocket /\ linkQueue = <<>>
  /\ LinkDone
  /\ UNCHANGED <<expireTime, socketVars, holdVars, keyVars, linkVars, playerVars>>

-----------------------------------------------------------------------------
(* The world thread: WorldSession::Update, packets. *)

UpdatingBegins ==
  /\ \E a \in Accounts : UpdateBegin(a)
  /\ UNCHANGED <<expireTime, socketVars, holdVars, keyVars, linkVars, playerVars>>

\* IsConnectionIdle: the client did not send anything for too long.
IdleKick ==
  /\ world = "packets" /\ ~m_inQueue[current] /\ isOpen[RealmSocket(current)]
  /\ WorldCloses({RealmSocket(current)})
  /\ UNCHANGED <<expireTime, worldVars, holdVars, keyVars, linkVars, playerVars>>

\* HandlePlayerLoginOpcode: the first ConnectTo goes out.
PlayerLogin ==
  /\ LoadingBegins /\ current \notin hasPlayer
  /\ connectKey[current] < MaxKeys
  /\ connectKey' = [connectKey EXCEPT ![current] = @ + 1]
  /\ serial' = [serial EXCEPT ![current] = 1]
  /\ UNCHANGED <<expireTime, socketVars, holdVars, gaveUp, linkVars, playerVars>>

\* It names a character of another account, with m_playerLoading set already.
PlayerLoginNotLegit ==
  /\ LoadingBegins /\ current \notin hasPlayer
  /\ KickPlayer(current)
  /\ UNCHANGED <<expireTime, keyVars, linkVars, playerVars>>

\* It comes again during a login or from a session in the world.
PlayerLoginAgain ==
  /\ world = "packets" /\ current \in m_playerLoading \union hasPlayer
  /\ KickPlayer(current)
  /\ UNCHANGED <<expireTime, worldVars, keyVars, linkVars, playerVars>>

PacketLoopEnds ==
  PacketsDone /\ UNCHANGED <<expireTime, socketVars, holdVars, keyVars, linkVars, playerVars>>

-----------------------------------------------------------------------------
(* The world thread: WorldSession::Update, ProcessQueryCallbacks. *)

SessionInitialized ==
  /\ ~loggingIn
  /\ InitializeSessionCallback
  /\ UNCHANGED <<expireTime, socketVars, holdVars, keyVars, linkVars, playerVars>>

\* m_playerLoading.Clear(), which an aborted login has done before.
ClearLoading(s) ==
  IF s \in m_playerLoading THEN LoadingEnds(s) ELSE UNCHANGED worldVars

LoginAnswered ==
  /\ world = "callbacks" /\ ~loggingIn /\ holders[current] > 0
  /\ holders' = [holders EXCEPT ![current] = @ - 1]

\* Defect: the session is deleted on the spot, from within its own Update.
LoginFailsDeletesSession ==
  /\ LoginAnswered
  /\ m_sessions' = [m_sessions EXCEPT ![AccountOf(current)] = NoSession]
  /\ m_playerLoading' = m_playerLoading \ {current}
  /\ deleted' = deleted \union {current} /\ forceExit' = forceExit \union {current}
  /\ realm' = realm \ {current} /\ instance' = [instance EXCEPT ![current] = 0]
  /\ world' = "loop" /\ current' = NoSession
  /\ WorldCloses(SocketsOf(current))
  /\ UNCHANGED <<toUpdate, queueVars, clockVars, addSessQueue, handed, expireTime,
                 keyVars, linkVars, hasPlayer, online, loggingIn>>

\* HandlePlayerLogin: LoadFromDB fails.
LoginFails ==
  /\ LoginAnswered
  /\ hasPlayer' = hasPlayer \ {current}
  /\ KickPlayer(current)
  /\ ClearLoading(current)
  /\ UNCHANGED <<expireTime, keyVars, linkVars, online, loggingIn>>

\* HandlePlayerLogin: LoadFromDB sets _player, and the player enters the world.
LoginSetsPlayer ==
  /\ LoginAnswered
  /\ hasPlayer' = hasPlayer \union {current}
  /\ online' = [online EXCEPT ![current] = @ + 1]
  /\ loggingIn' = TRUE
  /\ UNCHANGED <<expireTime, worldVars, socketVars, holdVars, keyVars, linkVars>>

\* HandlePlayerLogin ends.
LoginDone ==
  /\ loggingIn
  /\ loggingIn' = FALSE
  /\ ClearLoading(current)
  /\ UNCHANGED <<expireTime, socketVars, holdVars, keyVars, linkVars, holders, hasPlayer, online>>

CallbacksEnd ==
  /\ ~loggingIn
  /\ CallbacksDone
  /\ UNCHANGED <<expireTime, socketVars, holdVars, keyVars, linkVars, playerVars>>

-----------------------------------------------------------------------------
(* The world thread: WorldSession::Update, logout and clean-up. *)

\* The logout timer of a player has run out: the session goes back to the
\* character screen, without its instance socket.
LogoutPlayer ==
  /\ world = "cleanup" /\ current \in hasPlayer /\ current \notin m_playerLoading
  /\ hasPlayer' = hasPlayer \ {current}
  /\ online' = [online EXCEPT ![current] = @ - 1]
  /\ WorldCloses(SocketsOf(current) \intersect InstanceSockets)
  /\ instance' = [instance EXCEPT ![current] = 0]
  /\ UNCHANGED <<expireTime, worldVars, realm, forceExit, keyVars, linkVars, holders, loggingIn>>

\* Defect: only the instance socket is looked at.
HasClosedSocketInstanceOnly(s) == \E k \in SocketsOf(s) \intersect InstanceSockets : ~isOpen[k]

HasClosedSocket(s) == \E k \in SocketsOf(s) : ~isOpen[k]

\* Update returns true: the sockets are open, or the player stays in the world
\* until expireTime has elapsed.
KeepSession ==
  /\ SessionStays
  /\ HasClosedSocket(current) => current \in hasPlayer \ forceExit /\ expireTime[current] > 0
  /\ expireTime' = [expireTime EXCEPT ![current] = IF HasClosedSocket(current) THEN @ - 1 ELSE @]
  /\ UNCHANGED <<socketVars, holdVars, keyVars, linkVars, playerVars>>

\* Update returns false: a socket is closed, both are let go, and World
\* deletes the session.
RemoveSession ==
  /\ SessionRemoved
  /\ HasClosedSocket(current)
  /\ current \notin hasPlayer \/ current \in forceExit \/ expireTime[current] = 0
  /\ Destroy(current)
  /\ UNCHANGED <<expireTime, keyVars, linkVars>>

PassDone == LoopDone /\ UNCHANGED <<expireTime, socketVars, holdVars, keyVars, linkVars, playerVars>>

-----------------------------------------------------------------------------
NetStep(k) ==
  \/ InstanceAck(k) \/ PacketBegin(k) \/ PacketQueued(k) \/ PacketRefused(k)
  \/ Dropped(k) \/ OnClose(k)

RealmStep(s) ==
  \/ AuthSession(s) \/ RealmAck(s)
  \/ ConnectToFailedIgnored(s) \/ ConnectToRetried(s)
  \/ LoginAborted(s) \/ LoginAbortedLate(s)

\* What the world thread does of itself in World::UpdateSessions.
WorldStep ==
  \/ RefuseSession \/ RegisterSession \/ AddingDone
  \/ LinkIgnored \/ LinkRejected \/ LinkBegins \/ LinkLogsIn \/ LinkKicks \/ LinkingDone
  \/ UpdatingBegins \/ PacketLoopEnds \/ LoginDone \/ CallbacksEnd
  \/ KeepSession \/ RemoveSession \/ PassDone

\* What it does because a packet, an answer or a timer is there.
WorldInput ==
  \/ IdleKick \/ PlayerLogin \/ PlayerLoginNotLegit \/ PlayerLoginAgain
  \/ SessionInitialized \/ LoginFails \/ LoginSetsPlayer \/ LogoutPlayer

Next ==
  \/ \E k \in Sockets : NetStep(k)
  \/ \E s \in Sessions : RealmStep(s)
  \/ WorldStep \/ WorldInput

(***************************************************************************)
(* A handler that was entered ends, and OnClose follows.  The world thread *)
(* never stops.  It gets the locks although packets keep coming: the code  *)
(* marks one socket after the other closed, and only then waits for its    *)
(* lock, and a closed socket reads no more; here they are closed in one    *)
(* step, so a session has moments with no packet in a handler.             *)
(***************************************************************************)
SessionFairness ==
  /\ \A k \in Sockets : WF_vars(PacketQueued(k) \/ PacketRefused(k) \/ OnClose(k))
  /\ \A s \in Sessions : []<>(\A i \in 0..MaxKeys : net[<<s, i>>] # "handling")
  /\ SF_vars(WorldStep)

Spec == Init /\ [][Next]_vars /\ SessionFairness

-----------------------------------------------------------------------------
(* Properties. *)

\* Every variable has its type; a session never has two login queries in flight.
SessionTypeOK ==
  /\ TypeOK
  /\ net \in [Sockets -> {"none", "reading", "handling", "closing", "stopped", "stuck"}]
  /\ isOpen \in [Sockets -> BOOLEAN]
  /\ worldSession \in [Sockets -> Sessions \union {NoSession}]
  /\ realm \subseteq Sessions /\ forceExit \subseteq Sessions
  /\ instance \in [Sessions -> 0..MaxKeys]
  /\ connectKey \in [Sessions -> 0..MaxKeys] /\ serial \in [Sessions -> 0..Attempts]
  /\ gaveUp \subseteq InstanceSockets
  /\ linkQueue \in Seq(InstanceSockets) /\ linking \in InstanceSockets \union {NoSocket}
  /\ expireTime \in [Sessions -> 0..ExpirePasses]
  /\ holders \in [Sessions -> 0..1]
  /\ hasPlayer \subseteq Sessions /\ online \in [Sessions -> Nat]
  /\ loggingIn \in BOOLEAN

\* No socket points to a deleted session while it is open or a handler of it
\* runs under _worldSessionLock: what still points to one is a closed socket,
\* which reads nothing any more.
ClosedBeforeFreed ==
  \A k \in Sockets : isOpen[k] \/ net[k] = "handling" => worldSession[k] \notin deleted

\* A deleted session leaves no player behind in the world.
NoGhostPlayer == \A s \in deleted : online[s] = 0

\* WorldSession.cpp:761: "each account can only have one online character at
\* any given time", across the sessions that follow one another.
OneCharacterOnline ==
  \A s, t \in Sessions :
    AccountOf(s) = AccountOf(t) =>
      IF s = t THEN online[s] <= 1 ELSE online[s] + online[t] <= 1

\* A session handed to the world whose realm socket closes is deleted in the
\* end, whatever its login and its instance sockets were doing.
DroppedSessionRemoved ==
  \A s \in Sessions :
    (s \in handed /\ ~isOpen[RealmSocket(s)]) ~> s \in deleted

\* The sockets leave the registry of World.tla as it is: every step here is a
\* step of World, or touches nothing of it.
ImplementsWorld == WorldInit /\ [][WorldNext]_worldVars
=============================================================================
