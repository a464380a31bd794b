--------------------------- MODULE SessionPackets ---------------------------
(***************************************************************************)
(* The packets of one session: _recvQueue, the two filters and the packet  *)
(* loop of WorldSession::Update (game/Server/WorldSession.cpp) over        *)
(* common/Threading/LockedQueue.h.                                         *)
(*                                                                         *)
(* Network threads add packets; World::UpdateSessions and then, while the  *)
(* player is in a map, Map::Update take them.  The two passes follow one   *)
(* another and never overlap.  A packet for a player who is not there yet  *)
(* is kept aside and put back when the pass ends.                          *)
(***************************************************************************)
EXTENDS Integers, Sequences, SequencesExt

CONSTANTS
  Kinds,       \* the kinds of packet the client sends, of those below
  PassLimit,   \* MAX_PROCESSED_PACKETS_IN_SAME_WORLDSESSION_UPDATE
  MaxPackets   \* bound: packets the client sends

\* One opcode of each kind the loop tells apart, by its ClientOpcodeHandler.
Status ==
  [enum   |-> "AUTHED",      login  |-> "AUTHED",
   move   |-> "LOGGEDIN",    query  |-> "LOGGEDIN",     logout |-> "LOGGEDIN",
   cancel |-> "LOGGEDIN_OR_RECENTLY_LOGGOUT",           ack    |-> "TRANSFER"]

Place ==
  [enum   |-> "THREADUNSAFE", login |-> "THREADUNSAFE",
   move   |-> "THREADSAFE",   query |-> "INPLACE",      logout |-> "THREADUNSAFE",
   cancel |-> "THREADUNSAFE",                           ack    |-> "THREADUNSAFE"]

ASSUME PacketsAssumption ==
  /\ Kinds \subseteq DOMAIN Status
  /\ PassLimit \in Nat /\ MaxPackets \in Nat

VARIABLES
  recvQueue,      \* _recvQueue: packets by the number they arrived under
  requeue,        \* requeuePackets of the pass
  processed,      \* processedPackets of the pass
  phase,          \* "idle", "world", "callbacks", "maps" (before the maps are
                  \* updated) or "map"
  kind,           \* the kind of each packet received so far
  fate,           \* "waiting", "called" or "dropped", of each of them
  stayOf,         \* the stay in the world each arrived in, 0 if in none
  stay,           \* the login packet the last stay began with
  player,         \* _player: "none", "world" or "transfer" (not IsInWorld)
  loading,        \* m_playerLoading, as the login packet that set it, or 0
  recentlyLogout, \* m_playerRecentlyLogout
  inQueue         \* m_inQueue

packetVars == <<recvQueue, requeue, kind, fate, stayOf>>
playerVars == <<player, stay, loading, recentlyLogout, inQueue>>
vars == <<packetVars, processed, phase, playerVars>>

Init ==
  /\ recvQueue = <<>> /\ requeue = <<>> /\ processed = 0 /\ phase = "idle"
  /\ kind = <<>> /\ fate = <<>> /\ stayOf = <<>>
  /\ player = "none" /\ stay = 0 /\ loading = 0 /\ recentlyLogout = FALSE
  /\ inQueue \in BOOLEAN

-----------------------------------------------------------------------------
\* MapSessionFilter::Process and WorldSessionFilter::Process
Accepts(k) ==
  \/ Place[k] = "INPLACE"
  \/ Place[k] = "THREADUNSAFE" /\ phase = "world"
  \/ Place[k] = "THREADSAFE" /\ (phase = "world" <=> player # "world")

AtCharacterScreen ==
  /\ player = "none" /\ loading = 0
  /\ \A p \in DOMAIN kind : kind[p] = "login" => fate[p] # "waiting"

\* WorldSession::QueuePacket.  The client asks for its characters and logs in from
\* its character screen only.
QueuePacket(k) ==
  /\ Len(kind) < MaxPackets
  /\ k \notin {"enum", "login"} \/ AtCharacterScreen
  /\ kind' = Append(kind, k) /\ fate' = Append(fate, "waiting")
  /\ stayOf' = Append(stayOf, IF player = "none" THEN 0 ELSE stay)
  /\ recvQueue' = Append(recvQueue, Len(kind) + 1)
  /\ UNCHANGED <<requeue, processed, phase, playerVars>>

PassBegins(where) ==
  /\ phase' = where
  /\ processed' = 0
  /\ UNCHANGED <<packetVars, playerVars>>

\* World::UpdateSessions comes to this session.
WorldPass == phase = "idle" /\ PassBegins("world")

\* Map::Update comes to its player.
MapPass == phase = "maps" /\ player = "world" /\ PassBegins("map")

\* The maps are not due, or the player is in none.
MapPassSkipped ==
  /\ phase = "maps" /\ phase' = "idle"
  /\ UNCHANGED <<packetVars, processed, playerVars>>

-----------------------------------------------------------------------------
(* The loop: one packet is taken off the queue and dealt with. *)

Front1 == kind[Head(recvQueue)]

\* Defect: the limit is tested one packet late.
InPassOneMore == phase \in {"world", "map"} /\ processed <= PassLimit + 1

InPass == phase \in {"world", "map"} /\ processed <= PassLimit

\* LockedQueue::next with a filter
Takes == InPass /\ recvQueue # <<>> /\ Accepts(Front1)

\* The opcode is not for the state the session is in.
Unexpected(k) ==
  CASE Status[k] = "AUTHED"   -> inQueue
    [] Status[k] = "LOGGEDIN" -> player = "transfer" \/ (player = "none" /\ recentlyLogout)
    [] Status[k] = "TRANSFER" -> player # "transfer"
    [] OTHER                  -> player = "none" /\ ~recentlyLogout

TooEarly(k) == Status[k] = "LOGGEDIN" /\ player = "none" /\ ~recentlyLogout

\* The packet is deleted, called or not.
Consumes(outcome) ==
  /\ recvQueue' = Tail(recvQueue)
  /\ fate' = [fate EXCEPT ![Head(recvQueue)] = outcome]
  /\ UNCHANGED <<requeue, kind, stayOf, phase>>

PacketDropped ==
  /\ Takes /\ Unexpected(Front1)
  /\ Consumes("dropped")
  /\ processed' = processed + 1
  /\ UNCHANGED playerVars

\* The player is not there yet: the packet is kept for later.
PacketRequeued ==
  /\ Takes /\ TooEarly(Front1)
  /\ requeue' = Append(requeue, Head(recvQueue)) /\ recvQueue' = Tail(recvQueue)
  /\ processed' = processed + 1
  /\ UNCHANGED <<kind, fate, stayOf, phase, playerVars>>

\* A list of characters is asked for: the logout is over.
LogoutForgotten(k) == recentlyLogout' = (recentlyLogout /\ k # "enum")

\* AntiDOS refuses the packet, and the pass ends.
PacketRefused ==
  /\ Takes /\ ~Unexpected(Front1) /\ ~TooEarly(Front1)
  /\ Consumes("dropped")
  /\ processed' = PassLimit + 1
  /\ LogoutForgotten(Front1)
  /\ UNCHANGED <<player, stay, loading, inQueue>>

\* Defect: nothing tells the next packets that the player has just gone.
LogoutPlayerForgets ==
  /\ player' = "none"
  /\ UNCHANGED <<recentlyLogout, stay>>

\* LogoutPlayer
LogoutPlayer ==
  /\ player' = "none" /\ recentlyLogout' = TRUE
  /\ UNCHANGED stay

Handles(k) == Takes /\ Front1 = k /\ ~Unexpected(k) /\ ~TooEarly(k)

Calls(k) ==
  /\ Handles(k)
  /\ Consumes("called")
  /\ processed' = processed + 1

\* The handlers, as far as the loop depends on what they do.
HandleCharEnum ==
  /\ Calls("enum") /\ LogoutForgotten("enum")
  /\ UNCHANGED <<player, stay, loading, inQueue>>

\* A second login only gets the client kicked.
HandlePlayerLogin ==
  /\ Calls("login")
  /\ loading' = IF loading = 0 /\ player = "none" THEN Head(recvQueue) ELSE loading
  /\ UNCHANGED <<player, stay, recentlyLogout, inQueue>>

\* An opcode that may send the player to another map.
HandleMove ==
  /\ Calls("move")
  /\ player' \in {"world", "transfer"}
  /\ UNCHANGED <<stay, loading, recentlyLogout, inQueue>>

\* An opcode that changes nothing here.
HandleOther ==
  /\ Calls("query") \/ Calls("cancel")
  /\ UNCHANGED playerVars

\* A logout request that is granted at once.
HandleLogoutRequest ==
  /\ Calls("logout") /\ LogoutPlayer
  /\ UNCHANGED <<loading, inQueue>>

\* The client has loaded the other map.
HandleMoveWorldportAck ==
  /\ Calls("ack") /\ player' = "world"
  /\ UNCHANGED <<stay, loading, recentlyLogout, inQueue>>

PassOver ==
  /\ phase \in {"world", "map"} /\ ~Takes
  /\ phase' = IF phase = "world" THEN "callbacks" ELSE "idle"
  /\ UNCHANGED <<kind, fate, stayOf, processed, playerVars>>

\* Defect: the packets kept for later go behind those that came meanwhile.
PassEndsReaddsAtBack ==
  PassOver /\ recvQueue' = recvQueue \o requeue /\ requeue' = <<>>

\* Defect: they are put back only if the pass took all it could.
PassEndsForgets ==
  /\ PassOver /\ requeue' = <<>>
  /\ recvQueue' = IF InPass THEN requeue \o recvQueue ELSE recvQueue

\* LockedQueue::readd
PassEnds ==
  PassOver /\ recvQueue' = requeue \o recvQueue /\ requeue' = <<>>

-----------------------------------------------------------------------------
(* After the loop: answers from the databases, and the logout timer. *)

\* HandlePlayerLogin, the answer: the character is in the world, or failed.
LoginAnswered ==
  /\ phase = "callbacks" /\ loading # 0 /\ loading' = 0
  /\ \/ player' = "world" /\ stay' = loading
     \/ UNCHANGED <<player, stay>>
  /\ UNCHANGED <<packetVars, processed, phase, recentlyLogout, inQueue>>

\* InitializeSessionCallback
QueueLeft ==
  /\ phase = "callbacks" /\ inQueue /\ inQueue' = FALSE
  /\ UNCHANGED <<packetVars, processed, phase, player, stay, loading, recentlyLogout>>

LogoutTimer ==
  /\ phase = "callbacks" /\ player # "none" /\ loading = 0
  /\ LogoutPlayer
  /\ UNCHANGED <<packetVars, processed, phase, loading, inQueue>>

UpdateEnds ==
  /\ phase = "callbacks" /\ phase' = "maps"
  /\ UNCHANGED <<packetVars, processed, playerVars>>

-----------------------------------------------------------------------------
LoopStep ==
  \/ PacketDropped \/ PacketRequeued \/ PacketRefused
  \/ HandleCharEnum \/ HandlePlayerLogin \/ HandleMove \/ HandleOther
  \/ HandleLogoutRequest \/ HandleMoveWorldportAck
  \/ WorldPass \/ MapPassSkipped \/ PassEnds \/ UpdateEnds

Next ==
  \/ \E k \in Kinds : QueuePacket(k)
  \/ LoopStep \/ MapPass
  \/ LoginAnswered \/ QueueLeft \/ LogoutTimer

Spec == Init /\ [][Next]_vars

-----------------------------------------------------------------------------
(* Properties. *)

\* Every variable has its type; a pass takes at most PassLimit + 1 packets.
TypeOK ==
  /\ recvQueue \in Seq(DOMAIN kind) /\ requeue \in Seq(DOMAIN kind)
  /\ processed \in 0..PassLimit + 1
  /\ phase \in {"idle", "world", "callbacks", "maps", "map"}
  /\ kind \in Seq(Kinds)
  /\ fate \in [DOMAIN kind -> {"waiting", "called", "dropped"}]
  /\ stayOf \in [DOMAIN kind -> 0..MaxPackets] /\ stay \in 0..MaxPackets
  /\ player \in {"none", "world", "transfer"}
  /\ loading \in 0..MaxPackets /\ recentlyLogout \in BOOLEAN /\ inQueue \in BOOLEAN

\* No packet is lost or doubled: what waits is in the queue or kept for later,
\* exactly once.
NoPacketLost ==
  LET held == requeue \o recvQueue IN
    /\ IsInjective(held)
    /\ ToSet(held) = {p \in DOMAIN kind : fate[p] = "waiting"}

\* Packets for a character in the world are handled in the order they came,
\* though they go back and forth between two queues, two passes and a player
\* who comes and goes.
InOrder ==
  [][\A p, q \in DOMAIN kind :
       /\ p < q /\ Status[kind[p]] = "LOGGEDIN" /\ Status[kind[q]] = "LOGGEDIN"
       /\ fate[q] = "waiting" /\ fate'[q] = "called"
       => fate[p] # "waiting"]_vars

\* A packet sent during one stay in the world is never handled in a later one,
\* unless the client had sent the login for that one before it.
NoStalePacket ==
  [][\A p \in DOMAIN kind :
       /\ Status[kind[p]] = "LOGGEDIN"
       /\ fate[p] = "waiting" /\ fate'[p] = "called"
       => stayOf[p] \in {0, stay} \/ p > stay]_vars
=============================================================================
