------------------------- MODULE BattlegroundQueue -------------------------
(***************************************************************************)
(* The queues for battlegrounds (game/Battlegrounds/BattlegroundQueue.cpp),*)
(* the battlegrounds they invite to (Battleground.cpp), the handlers with  *)
(* which players join, answer, leave, log out and return                   *)
(* (BattleGroundHandler.cpp, MovementHandler.cpp, WorldSession.cpp,        *)
(* Player.cpp), and the update of all of them (BattlegroundMgr.cpp).       *)
(*                                                                         *)
(* Unrated queues of players that come alone, of one team and one bracket. *)
(* Everything runs on the world thread: a handler is one step, and no      *)
(* handler runs while `updating'.                                          *)
(***************************************************************************)
EXTENDS Integers, FiniteSets, SequencesExt

CONSTANTS
  Fighters,        \* the players
  Queues,          \* one for each kind of battleground
  MaxPlayers,      \* GetMaxPlayersPerTeam
  InviteWait,      \* INVITE_ACCEPT_WAIT_TIME
  OfflineTime,     \* MAX_OFFLINE_TIME
  MaxBattlegrounds,\* bound: battlegrounds created
  MaxClock,         \* bound: the clock
  MaxAway          \* bound: entries in a battleground's m_OfflineQueue

ASSUME QueueAssumption ==
  /\ IsFiniteSet(Fighters) /\ IsFiniteSet(Queues)
  /\ MaxPlayers \in Nat \ {0} /\ MaxBattlegrounds \in Nat
  /\ InviteWait \in Nat \ {0} /\ OfflineTime \in Nat \ {0}
  /\ MaxClock \in Nat /\ MaxAway \in Nat

VARIABLES
  place,        \* "world", "transit" (loading screen), "inside" or "offline"
  bgInstanceID, \* m_bgData.bgInstanceID, 0 outside; saved with the player
  slot,         \* invitedToInstance of the player's slot for each queue
  entry,        \* m_QueuedPlayers of each queue, with the group of one
  removals,     \* the BGQueueRemoveEvents that have not run
  bg,           \* the battlegrounds created, by instance id
  deserters,    \* players with the Deserter aura
  scheduled,    \* m_QueueUpdateScheduler
  now, updating,
  todo          \* battlegrounds this update has still to look at

bgVars == <<place, bgInstanceID, slot, entry, removals, bg, deserters, scheduled,
            now, updating, todo>>

NoSlot == -1
NotQueued == [bg |-> -1, removeTime |-> 0]
Waiting == [bg |-> 0, removeTime |-> 0]

\* GetBattleground finds it.
Exists(b) == b \in 1..Len(bg) /\ bg[b].status # "deleted"

\* m_Players is a function: the OfflineRemoveTime of everybody inside.
Created(q) == [status |-> "join", queue |-> q, invited |-> 0, players |-> <<>>,
               offline |-> <<>>]
Deleted == [status |-> "deleted", players |-> <<>>]

Participants(b) == DOMAIN bg[b].players

BgInit ==
  /\ place = [p \in Fighters |-> "world"] /\ bgInstanceID = [p \in Fighters |-> 0]
  /\ slot = [p \in Fighters |-> [q \in Queues |-> NoSlot]]
  /\ entry = [q \in Queues |-> [p \in Fighters |-> NotQueued]]
  /\ removals = {} /\ deserters = {} /\ scheduled = {} /\ bg = <<>>
  /\ now = 0 /\ updating = FALSE /\ todo = {}

-----------------------------------------------------------------------------
(* Calls that several handlers make. *)

\* The queues whose invitation of p is for battleground b.
InvitingTo(p, b) == {q \in Queues : entry[q][p].bg = b}

\* Defect: whoever accepts an invitation is no longer counted as invited.
UncountedAlways(p, queues, decreaseInvitedCount) ==
  [b \in DOMAIN bg |->
     IF Exists(b)
     THEN [bg[b] EXCEPT !.invited = @ - Cardinality(queues \intersect InvitingTo(p, b))]
     ELSE bg[b]]

\* The battlegrounds after BattlegroundQueue::RemovePlayer on the queues.
Uncounted(p, queues, decreaseInvitedCount) ==
  [b \in DOMAIN bg |->
     IF decreaseInvitedCount /\ Exists(b)
     THEN [bg[b] EXCEPT !.invited = @ - Cardinality(queues \intersect InvitingTo(p, b))]
     ELSE bg[b]]

EntriesWithout(p, queues) ==
  [q \in Queues |->
     IF q \in queues THEN [entry[q] EXCEPT ![p] = NotQueued] ELSE entry[q]]

\* Battleground::RemovePlayerAtLeave of each of the players: the battlegrounds,
\* the slots of those that are found in the world, the updates it schedules.
WithoutPlayers(bgs, b, players) ==
  [bgs EXCEPT ![b].players = Restrict(@, DOMAIN @ \ players),
              ![b].invited = @ - Cardinality(players \intersect DOMAIN bgs[b].players)]

SlotsLeft(b, players) ==
  [p \in Fighters |->
     IF p \in players \intersect Participants(b) /\ place[p] # "offline"
     THEN [slot[p] EXCEPT ![bg[b].queue] = NoSlot] ELSE slot[p]]

ScheduledAfter(b, players) ==
  IF players \intersect Participants(b) # {} /\ bg[b].status # "leave"
  THEN scheduled \union {bg[b].queue} ELSE scheduled

\* All of it, with the players sent out of the battleground.
RemovePlayersAtLeave(b, players) ==
  LET found == {p \in players : place[p] # "offline"} IN
  /\ bg' = WithoutPlayers(bg, b, players)
  /\ slot' = SlotsLeft(b, players)
  /\ scheduled' = ScheduledAfter(b, players)
  /\ place' = [p \in Fighters |-> IF p \in found THEN "world" ELSE place[p]]
  /\ bgInstanceID' = [p \in Fighters |-> IF p \in found THEN 0 ELSE bgInstanceID[p]]

-----------------------------------------------------------------------------
(* The handlers; they need a player that is logged in and in a map. *)

MayAct(p) == ~updating /\ place[p] \in {"world", "inside"}

\* HandleBattlemasterJoinOpcode.
JoinQueue(p, q) ==
  /\ MayAct(p) /\ bgInstanceID[p] = 0 /\ p \notin deserters /\ slot[p][q] = NoSlot
  /\ entry' = [entry EXCEPT ![q][p] = Waiting]
  /\ slot' = [slot EXCEPT ![p][q] = 0]
  /\ scheduled' = scheduled \union {q}
  /\ UNCHANGED <<place, bgInstanceID, removals, bg, deserters, now, updating, todo>>

\* HandleBattleFieldPortOpcode with AcceptedInvite.  A player that is in
\* another battleground leaves that one first.
AcceptInvite(p, q) ==
  LET b == entry[q][p].bg
      old == bgInstanceID[p]
      answered == Uncounted(p, {q}, FALSE) IN
  /\ MayAct(p) /\ p \notin deserters
  /\ slot[p][q] \notin {NoSlot, 0} /\ Exists(b)
  /\ entry' = EntriesWithout(p, {q})
  /\ IF Exists(old)
     THEN /\ bg' = WithoutPlayers(answered, old, {p})
          /\ slot' = SlotsLeft(old, {p})
          /\ scheduled' = ScheduledAfter(old, {p})
     ELSE bg' = answered /\ UNCHANGED <<slot, scheduled>>
  /\ place' = [place EXCEPT ![p] = "transit"]
  /\ bgInstanceID' = [bgInstanceID EXCEPT ![p] = b]
  /\ UNCHANGED <<removals, deserters, now, updating, todo>>

\* The same handler without it, or of a deserter, whose acceptance it undoes.
LeaveQueue(p, q) ==
  /\ MayAct(p) /\ slot[p][q] # NoSlot /\ entry[q][p] # NotQueued
  /\ slot' = [slot EXCEPT ![p][q] = NoSlot]
  /\ entry' = EntriesWithout(p, {q})
  /\ bg' = Uncounted(p, {q}, TRUE)
  /\ scheduled' = scheduled \union {q}
  /\ UNCHANGED <<place, bgInstanceID, removals, deserters, now, updating, todo>>

\* Battleground::AddPlayer: m_Players with one more, who is not offline.
Joined(players, p) ==
  [r \in DOMAIN players \union {p} |-> IF r = p THEN 0 ELSE players[r]]

\* HandleMoveWorldportAck: the loading screen ends.  AddPlayer only if a slot
\* still invites to this battleground.
Arrive(p) ==
  LET b == bgInstanceID[p]
      invited == \E q \in Queues : slot[p][q] = b IN
  /\ ~updating /\ place[p] = "transit" /\ Exists(b)
  /\ place' = [place EXCEPT ![p] = "inside"]
  /\ bg' = IF invited THEN [bg EXCEPT ![b].players = Joined(@, p)] ELSE bg
  /\ UNCHANGED <<bgInstanceID, slot, entry, removals, deserters, scheduled,
                 now, updating, todo>>

\* Player::LeaveBattleground, by its opcode or by a far teleport.
LeaveBattleground(p) ==
  LET b == bgInstanceID[p] IN
  /\ MayAct(p) /\ Exists(b)
  /\ RemovePlayersAtLeave(b, {p})
  /\ deserters' = IF bg[b].status \in {"join", "progress"}
                  THEN deserters \union {p} ELSE deserters
  /\ UNCHANGED <<entry, removals, now, updating, todo>>

\* The aura expires.
DeserterEnds(p) ==
  /\ ~updating /\ p \in deserters
  /\ deserters' = deserters \ {p}
  /\ UNCHANGED <<place, bgInstanceID, slot, entry, removals, bg, scheduled,
                 now, updating, todo>>

\* WorldSession::LogoutPlayer.  It finishes a loading screen first: Arrive.
\* EventPlayerLoggedOut notes when the player is to be removed; then the
\* player leaves every queue it has a slot for.
Logout(p) ==
  LET b == bgInstanceID[p]
      queues == {q \in Queues : slot[p][q] # NoSlot /\ entry[q][p] # NotQueued}
      left == Uncounted(p, queues, TRUE) IN
  /\ MayAct(p)
  /\ IF Exists(b) /\ p \in Participants(b)
     THEN /\ Len(bg[b].offline) < MaxAway
          /\ bg' = [left EXCEPT ![b].offline = Append(@, p),
                                ![b].players[p] = now + OfflineTime]
     ELSE bg' = left
  /\ place' = [place EXCEPT ![p] = "offline"]
  /\ slot' = [slot EXCEPT ![p] = [q \in Queues |-> NoSlot]]
  /\ entry' = EntriesWithout(p, queues)
  /\ UNCHANGED <<bgInstanceID, removals, deserters, scheduled, now, updating, todo>>

\* Player::LoadFromDB: back into the battleground the player was saved in.
\* EventPlayerLoggedIn only for one that is in the queue.
ReturnsTo(p, b) ==
  LET q == bg[b].queue IN
  /\ place' = [place EXCEPT ![p] = "inside"]
  /\ IF entry[q][p] # NotQueued
     THEN /\ bg' = [bg EXCEPT ![b].offline = RemoveFirst(@, p), ![b].players[p] = 0]
          /\ slot' = [slot EXCEPT ![p][q] = b]
     ELSE UNCHANGED <<bg, slot>>
  /\ UNCHANGED bgInstanceID

\* Or to where the player came from, if it is over; RemovePlayerAtLeave does
\* not find the player, who is not in the world yet.
ReturnsElsewhere(p, b) ==
  /\ place' = [place EXCEPT ![p] = "world"]
  /\ bgInstanceID' = [bgInstanceID EXCEPT ![p] = 0]
  /\ bg' = IF Exists(b) /\ p \in Participants(b) THEN WithoutPlayers(bg, b, {p}) ELSE bg
  /\ UNCHANGED slot

Login(p) ==
  LET b == bgInstanceID[p]
      welcome == Exists(b) /\ p \in Participants(b) /\ bg[b].status # "leave" IN
  /\ ~updating /\ place[p] = "offline"
  /\ IF welcome THEN ReturnsTo(p, b) ELSE ReturnsElsewhere(p, b)
  /\ UNCHANGED <<entry, removals, deserters, scheduled, now, updating, todo>>

\* Battleground::EndBattleground, by the script of its map or prematurely.
EndBattleground(b) ==
  /\ ~updating /\ Exists(b) /\ bg[b].status = "progress"
  /\ bg' = [bg EXCEPT ![b].status = "leave"]
  /\ UNCHANGED <<place, bgInstanceID, slot, entry, removals, deserters, scheduled,
                 now, updating, todo>>

-----------------------------------------------------------------------------
(* BattlegroundMgr::Update: the battlegrounds, if their interval is over,   *)
(* then the events that are due, then the queues that are scheduled.        *)

StartUpdate ==
  /\ ~updating
  /\ updating' = TRUE
  /\ now' \in {now, now + 1} /\ now' =< MaxClock
  /\ todo' \in {{}, {b \in DOMAIN bg : Exists(b)}}
  /\ UNCHANGED <<place, bgInstanceID, slot, entry, removals, bg, deserters, scheduled>>

OfflineDue(b) ==
  /\ bg[b].status = "progress" /\ bg[b].offline # <<>>
  /\ LET p == Head(bg[b].offline) IN
     p \in Participants(b) /\ bg[b].players[p] =< now

\* _ProcessOfflineQueue: the first of the queue, if its time is up.
ProcessOfflineQueue(b) ==
  LET p == Head(bg[b].offline)
      found == place[p] # "offline" IN
  /\ OfflineDue(b)
  /\ bg' = [WithoutPlayers(bg, b, {p}) EXCEPT ![b].offline = Tail(@)]
  /\ slot' = SlotsLeft(b, {p})
  /\ scheduled' = ScheduledAfter(b, {p})
  /\ place' = IF found THEN [place EXCEPT ![p] = "world"] ELSE place
  /\ bgInstanceID' = IF found THEN [bgInstanceID EXCEPT ![p] = 0] ELSE bgInstanceID

\* Battleground::Update of one without players, nor any invited.
DeleteEmpty(b) ==
  /\ Participants(b) = {} /\ bg[b].invited = 0
  /\ bg' = [bg EXCEPT ![b] = Deleted]
  /\ UNCHANGED <<place, bgInstanceID, slot, scheduled>>

\* _ProcessJoin, when the time to prepare is over.
StartProgress(b) ==
  /\ Participants(b) # {} /\ bg[b].status = "join"
  /\ bg' = [bg EXCEPT ![b].status = "progress"]
  /\ UNCHANGED <<place, bgInstanceID, slot, scheduled>>

\* _ProcessLeave, two minutes after the end.
ProcessLeave(b) ==
  /\ Participants(b) # {} /\ bg[b].status = "leave"
  /\ RemovePlayersAtLeave(b, Participants(b))

NothingToDo(b) ==
  /\ Participants(b) = {} => bg[b].invited # 0
  /\ ~OfflineDue(b)
  /\ UNCHANGED <<place, bgInstanceID, slot, bg, scheduled>>

UpdateBattleground(b) ==
  /\ updating /\ b \in todo /\ (\A c \in todo : b =< c) /\ todo' = todo \ {b}
  /\ \/ DeleteEmpty(b)
     \/ StartProgress(b)
     \/ ProcessOfflineQueue(b)
     \/ ProcessLeave(b)
     \/ NothingToDo(b)
  /\ UNCHANGED <<entry, removals, deserters, now, updating>>

Due == {e \in removals : e.removeTime =< now}

\* Defect: an event removes a later invitation to the same battleground.
InvitedAtAnyTime(e) == entry[e.queue][e.player].bg = e.bg

IsPlayerInvited(e) == entry[e.queue][e.player] = [bg |-> e.bg, removeTime |-> e.removeTime]

\* BGQueueRemoveEvent::Execute.
ExecuteRemoval(e) ==
  LET p == e.player
      q == e.queue IN
  /\ updating /\ todo = {} /\ e \in Due
  /\ removals' = removals \ {e}
  /\ IF place[p] # "offline" /\ slot[p][q] # NoSlot /\ IsPlayerInvited(e)
     THEN /\ slot' = [slot EXCEPT ![p][q] = NoSlot]
          /\ entry' = EntriesWithout(p, {q})
          /\ bg' = Uncounted(p, {q}, TRUE)
          /\ scheduled' = IF Exists(e.bg) /\ bg[e.bg].status # "leave"
                          THEN scheduled \union {q} ELSE scheduled
     ELSE UNCHANGED <<slot, entry, bg, scheduled>>
  /\ UNCHANGED <<place, bgInstanceID, deserters, now, updating, todo>>

\* Whom BattlegroundQueueUpdate may invite where: battlegrounds of the queue
\* that have not ended take up to MaxPlayers, a new one is created if somebody
\* is left to start it.  Which players the selection pools take is left open.
Selections(q) ==
  LET waiting == {p \in Fighters : entry[q][p] = Waiting}
      open == {b \in DOMAIN bg : Exists(b) /\ bg[b].queue = q /\ bg[b].status # "leave"}
      new == {Len(bg) + 1} \intersect 1..MaxBattlegrounds
      count(b) == IF b \in open THEN bg[b].invited ELSE 0 IN
  {s \in [waiting -> open \union new \union {0}] :
     \A b \in open \union new :
       LET chosen == {p \in waiting : s[p] = b} IN
       chosen # {} => count(b) + Cardinality(chosen) =< MaxPlayers}

\* InviteGroupToBG for each of the players; it skips those offline but for
\* the invitation of their group.
Invite(q, s) ==
  LET chosen == {p \in DOMAIN s : s[p] # 0}
      present == {p \in chosen : place[p] # "offline"}
      created == IF Len(bg) + 1 \in Range(s) THEN Append(bg, Created(q)) ELSE bg
      removeTime == now + InviteWait IN
  /\ entry' = [entry EXCEPT ![q] = [p \in Fighters |->
       IF p \in chosen THEN [bg |-> s[p], removeTime |-> removeTime] ELSE @[p]]]
  /\ slot' = [p \in Fighters |->
       IF p \in present /\ slot[p][q] # NoSlot
       THEN [slot[p] EXCEPT ![q] = s[p]] ELSE slot[p]]
  /\ removals' = removals \union
       {[player |-> p, queue |-> q, bg |-> s[p], removeTime |-> removeTime] : p \in present}
  /\ bg' = [b \in DOMAIN created |->
       LET invited == {p \in present : s[p] = b} IN
       IF invited = {} THEN created[b]
       ELSE [created[b] EXCEPT !.invited = @ + Cardinality(invited)]]

\* BattlegroundQueue::BattlegroundQueueUpdate of a queue that is scheduled.
UpdateQueue(q) ==
  /\ updating /\ todo = {} /\ Due = {} /\ q \in scheduled
  /\ scheduled' = scheduled \ {q}
  /\ \E s \in Selections(q) : Invite(q, s)
  /\ UNCHANGED <<place, bgInstanceID, deserters, now, updating, todo>>

EndUpdate ==
  /\ updating /\ todo = {} /\ Due = {} /\ scheduled = {}
  /\ updating' = FALSE
  /\ UNCHANGED <<place, bgInstanceID, slot, entry, removals, bg, deserters, scheduled,
                 now, todo>>

BgNext ==
  \/ \E p \in Fighters :
       \/ \E q \in Queues : JoinQueue(p, q) \/ AcceptInvite(p, q) \/ LeaveQueue(p, q)
       \/ Arrive(p) \/ LeaveBattleground(p) \/ DeserterEnds(p)
       \/ Logout(p) \/ Login(p)
  \/ \E b \in DOMAIN bg : EndBattleground(b) \/ UpdateBattleground(b)
  \/ StartUpdate \/ EndUpdate
  \/ \E e \in removals : ExecuteRemoval(e)
  \/ \E q \in Queues : UpdateQueue(q)

BgSpec == BgInit /\ [][BgNext]_bgVars

-----------------------------------------------------------------------------
(* Properties. *)

\* Types; the unsigned count of invited players neither wraps nor exceeds the
\* team, a player is in one battleground at most, in a queue only with a slot
\* that says the same, and has a slot of its own for an invitation it follows.
BgTypeOK ==
  /\ \A p \in Fighters :
       /\ place[p] \in {"world", "transit", "inside", "offline"}
       /\ bgInstanceID[p] \in 0..Len(bg)
       /\ Cardinality({b \in DOMAIN bg : p \in Participants(b)}) =< 1
       /\ \A q \in Queues :
            /\ slot[p][q] \in {NoSlot} \union 0..Len(bg)
            /\ entry[q][p] # NotQueued =>
                 place[p] # "offline" /\ slot[p][q] = entry[q][p].bg
       /\ place[p] = "transit" => \E q \in Queues : slot[p][q] = bgInstanceID[p]
  /\ \A b \in DOMAIN bg : Exists(b) =>
       bg[b].invited \in 0..MaxPlayers /\ Participants(b) \subseteq Fighters
  /\ scheduled \subseteq Queues /\ deserters \subseteq Fighters
  /\ now \in 0..MaxClock

InvitedTo(b) == {p \in Fighters : InvitingTo(p, b) # {}}
InTransitTo(b) == {p \in Fighters : place[p] = "transit" /\ bgInstanceID[p] = b}

\* A battleground counts exactly those who have an invitation to it that is
\* not answered, are on their way or are in it: it keeps their places and is not
\* deleted under them, and takes back the places of everybody else.
InvitationsCounted ==
  /\ \A b \in DOMAIN bg : Exists(b) =>
       bg[b].invited = Cardinality(InvitedTo(b)) + Cardinality(InTransitTo(b))
                       + Cardinality(Participants(b))
  /\ \A b \in DOMAIN bg : ~Exists(b) => InvitedTo(b) \union InTransitTo(b) = {}

\* The update withdraws an invitation only when its own time is up, and when it
\* is done no invitation is left whose time is up.  (Removal events of
\* invitations that were declined and given again run in between.)
RemovedInTime ==
  [][/\ updating => \A q \in Queues, p \in Fighters :
          entry[q][p].bg > 0 /\ entry[q][p].removeTime > now => entry'[q][p] = entry[q][p]
     /\ updating /\ ~updating' => \A q \in Queues, p \in Fighters :
          entry[q][p].bg > 0 => entry[q][p].removeTime > now]_bgVars

\* "remove offline players from bg after 5 minutes" (Battleground.cpp:263): the
\* offline queue removes nobody who is back.  The code calls EventPlayerLoggedIn,
\* which would take a player out of that queue, only for players that are in the
\* queue for the battleground, which nobody inside is.
OnlyOfflineRemoved ==
  \A b \in todo : OfflineDue(b) => place[Head(bg[b].offline)] = "offline"
=============================================================================
