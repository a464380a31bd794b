---------------------------- MODULE InstanceLocks ----------------------------
(***************************************************************************)
(* Instance locks of one dungeon: InstanceLockMgr (game/Instances), with   *)
(* MapManager::CreateMap and InstanceMap (game/Maps) as far as they use it.*)
(*                                                                         *)
(* A lock is temporary until a boss is killed and permanent until the next *)
(* reset.  Maps point to the lock they were created with, which belongs to *)
(* a player and is deleted with no regard to maps.  Locks bound to an      *)
(* instance id share the state of the instance.                            *)
(*                                                                         *)
(* Teleports, map updates and commands do not overlap for one player; each *)
(* is one action.  Groups are left out: which player's lock an entering    *)
(* player uses is open.  Time is counted in reset periods.                 *)
(*                                                                         *)
(* Locks are written by the asynchronous pool, later: one worker thread    *)
(* (CharacterDatabase.WorkerThreads) runs the queued writes in order, and  *)
(* a crash or the end of the server loses those that did not run.          *)
(***************************************************************************)
EXTENDS Integers, FiniteSets, Sequences, SequencesExt

CONSTANTS
  Players,
  Kinds,         \* of the dungeon: a subset of {"idBound", "flex", "encounter"}
  Encounters,
  Absent,
  Deleted,
  MaxInstanceId, \* bound: instance ids that are generated
  MaxPeriod,     \* bound: resets
  MaxInterventions, \* bound for each kind: commands, extensions and restarts
  MaxUnwritten   \* bound: a handler that writes waits until fewer are queued

ASSUME InstanceAssumption ==
  /\ IsFiniteSet(Players) /\ IsFiniteSet(Encounters)
  /\ Kinds \subseteq {"idBound", "flex", "encounter"}
  /\ MaxInstanceId \in Nat /\ MaxPeriod \in Nat /\ MaxInterventions \in [Kinds -> Nat]
  /\ MaxUnwritten \in Nat

Ids == 1 .. MaxInstanceId

\* InstanceLock, SharedInstanceLockData, the place of a lock in the manager, and
\* what is modelled of InstanceMap.
LockTypes ==
  [instanceId : Ids, expiryTime : -1 .. MaxPeriod, extended : BOOLEAN, isNew : BOOLEAN,
   isInUse : BOOLEAN, CompletedEncountersMask : SUBSET Encounters, Data : SUBSET Encounters]
SharedTypes ==
  [saved : BOOLEAN, CompletedEncountersMask : SUBSET Encounters, Data : SUBSET Encounters]
Places == [player : Players, temporary : BOOLEAN]
MapTypes == [i_instanceExpireEvent : -1 .. MaxPeriod, done : SUBSET Encounters]

ASSUME AbsentAssumption ==
  /\ Absent # Deleted
  /\ \A none \in {Absent, Deleted} :
       none \notin LockTypes /\ none \notin SharedTypes /\ none \notin Places /\ none \notin MapTypes

VARIABLES
  kind,          \* IsInstanceIdBound, IsFlexLocking or IsUsingEncounterLocks
  period,
  mgr,           \* the state of InstanceLockMgr, see below
  unwritten,     \* the tables before each write that is queued, oldest first
  i_maps,        \* per instance id: the InstanceMap or Absent
  usedIds,       \* the ids that GenerateInstanceId gives no more
  at,            \* the instance each player is in, or 0
  _pendingBindId,
  interventions

instanceVars == <<kind, period, mgr, unwritten, i_maps, usedIds, at, _pendingBindId, interventions>>

\* permanent and temporary are _instanceLocksByPlayer and
\* _temporaryInstanceLocksByPlayer, shared is _instanceLockDataById, whose
\* entries are weak; lockRows and instanceRows are what the tables
\* character_instance_lock and instance hold once all queued writes have run.
\* mapLock is the i_instanceLock of each map: the place that owns the lock, or
\* Deleted.
InstancesInit ==
  /\ kind \in Kinds
  /\ period = 0
  /\ mgr = [permanent |-> [p \in Players |-> Absent], temporary |-> [p \in Players |-> Absent],
            shared |-> [id \in Ids |-> Absent], mapLock |-> [id \in Ids |-> Absent],
            lockRows |-> [p \in Players |-> Absent], instanceRows |-> [id \in Ids |-> Absent]]
  /\ unwritten = <<>>
  /\ i_maps = [id \in Ids |-> Absent]
  /\ usedIds = {}
  /\ at = [p \in Players |-> 0] /\ _pendingBindId = [p \in Players |-> 0]
  /\ interventions = 0

IsInstanceIdBound == kind = "idBound"
Loaded == {id \in Ids : i_maps[id] # Absent}
Inside(id) == {p \in Players : at[p] = id}

Perm(p) == [player |-> p, temporary |-> FALSE]
Temp(p) == [player |-> p, temporary |-> TRUE]
LockAt(g, l) == IF l.temporary THEN g.temporary[l.player] ELSE g.permanent[l.player]
Placed(g, l, lock) == IF l.temporary THEN [g EXCEPT !.temporary[l.player] = lock]
                      ELSE [g EXCEPT !.permanent[l.player] = lock]
MapLock(id) == LockAt(mgr, mgr.mapLock[id])

\* The map's lock exists; beyond that the behaviour of the program is undefined.
LockExists(id) == mgr.mapLock[id] # Deleted

IsExpired(lock) == lock.expiryTime < period

-----------------------------------------------------------------------------
(* InstanceLockMgr: operators from a state of the manager to the next.      *)

Active(lock) == ~IsExpired(lock) \/ lock.extended

\* Defect: an extended lock that expired is not found.
FindUnexpired(g, p, ignoreTemporary) ==
  CASE g.permanent[p] # Absent /\ ~IsExpired(g.permanent[p]) -> Perm(p)
    [] OTHER -> IF ignoreTemporary \/ g.temporary[p] = Absent THEN Absent ELSE Temp(p)

\* FindActiveInstanceLock, with ignoreExpired.
FindActive(g, p, ignoreTemporary) ==
  IF g.permanent[p] # Absent /\ Active(g.permanent[p]) THEN Perm(p)
  ELSE IF ignoreTemporary \/ g.temporary[p] = Absent THEN Absent ELSE Temp(p)

LocksTo(g, id) ==
  {p \in Players : g.permanent[p] # Absent /\ g.permanent[p].instanceId = id}
    \union {p \in Players : g.temporary[p] # Absent /\ g.temporary[p].instanceId = id}

\* The instances whose last lock goes from g to h; those without an id yet
\* (InstanceId 0) are not cleaned up.
Unreferenced(g, h) ==
  {id \in Ids : g.shared[id] # Absent /\ g.shared[id].saved
                  /\ LocksTo(g, id) # {} /\ LocksTo(h, id) = {}}

\* The permanent lock of p becomes lock: the one before it is destroyed, and
\* shared data with the last lock to it (OnSharedInstanceLockDataDelete).
Replaced(g, p, h) ==
  LET gone == Unreferenced(g, h)
  IN  [h EXCEPT
        !.mapLock = [id \in Ids |-> CASE @[id] = Perm(p) -> Deleted
                                      [] @[id] = Temp(p) -> Perm(p)
                                      [] OTHER -> @[id]],
        !.shared = [id \in Ids |-> IF id \in gone THEN Absent ELSE @[id]],
        !.instanceRows = [id \in Ids |-> IF id \in gone THEN Absent ELSE @[id]]]

NewLock(id, isNew) ==
  [instanceId |-> id, expiryTime |-> period, extended |-> FALSE, isNew |-> isNew,
   isInUse |-> FALSE, CompletedEncountersMask |-> {}, Data |-> {}]

\* CreateInstanceLockForNewInstance; p has no temporary lock.
CreateForNewInstance(g, p, id) ==
  [g EXCEPT !.temporary[p] = NewLock(id, TRUE),
            !.shared[id] = IF IsInstanceIdBound
                           THEN [saved |-> FALSE, CompletedEncountersMask |-> {}, Data |-> {}]
                           ELSE @]

\* UpdateInstanceLockForPlayer begins: an expired lock that is not extended is
\* replaced by the temporary one or else by a new one.
WithLock(g, p, id) ==
  CASE FindActive(g, p, TRUE) # Absent -> g
    [] FindActive(g, p, TRUE) = Absent /\ g.temporary[p] # Absent ->
         Replaced(g, p, [g EXCEPT !.permanent[p] = g.temporary[p], !.temporary[p] = Absent])
    [] OTHER ->
         Replaced(g, p, [g EXCEPT !.permanent[p] = NewLock(id, FALSE)])

\* Its assertions: a lock that existed names this instance; a lock made now finds
\* the shared state of the instance saved under its id.
ExistingLock(g, p) == FindActive(g, p, FALSE)
AssertionsHold(g, p, id) ==
  IsInstanceIdBound =>
    IF ExistingLock(g, p) # Absent THEN LockAt(g, ExistingLock(g, p)).instanceId = id
    ELSE g.shared[id] # Absent /\ g.shared[id].saved

Row(lock) == [lock EXCEPT !.isNew = FALSE, !.isInUse = FALSE]

\* Defect: the lock loses what it had.
UpdatedOnly(g, p, event) ==
  LET h == WithLock(g, p, event.InstanceId)
      updated == [h.permanent[p] EXCEPT
        !.instanceId = event.InstanceId, !.isNew = FALSE, !.Data = event.NewData,
        !.CompletedEncountersMask = event.Completed]
  IN  [h EXCEPT !.permanent[p] = updated, !.lockRows[p] = Row(updated)]

\* UpdateInstanceLockForPlayer
Updated(g, p, event) ==
  LET h == WithLock(g, p, event.InstanceId)
      revived == IsExpired(h.permanent[p])
      updated == [h.permanent[p] EXCEPT
        !.instanceId = event.InstanceId, !.isNew = FALSE, !.Data = event.NewData,
        !.CompletedEncountersMask = @ \union event.Completed \union
          (IF kind = "encounter" THEN {} ELSE event.InstanceCompleted),
        !.expiryTime = IF revived THEN period ELSE @,
        !.extended = @ /\ ~revived]
  IN  [h EXCEPT !.permanent[p] = updated, !.lockRows[p] = Row(updated)]

\* Defect: the instance remembers the last encounter only.
UpdatedSharedAnew(g, id, data, completed) ==
  LET shared == [saved |-> TRUE, Data |-> data, CompletedEncountersMask |-> completed]
  IN  [g EXCEPT !.shared[id] = shared, !.instanceRows[id] = shared]

\* UpdateSharedInstanceLock
UpdatedShared(g, id, data, completed) ==
  LET shared == [saved |-> TRUE, Data |-> data,
                 CompletedEncountersMask |-> g.shared[id].CompletedEncountersMask \union completed]
  IN  [g EXCEPT !.shared[id] = shared, !.instanceRows[id] = shared]

-----------------------------------------------------------------------------
(* The asynchronous writes. *)

Rows(g) == [locks |-> g.lockRows, instances |-> g.instanceRows]

\* What the database holds now.
Tables == IF unwritten = <<>> THEN Rows(mgr) ELSE Head(unwritten)

\* The rows of instances that lose their last lock from g to h are deleted one by
\* one, before the transaction with all the rest is committed; each is a write.
RowsBetween(g, h) ==
  LET deletes == SetToSeq({id \in Ids : g.instanceRows[id] # Absent /\ h.instanceRows[id] = Absent})
  IN  [n \in 1 .. Len(deletes) + 1 |->
         [Rows(g) EXCEPT !.instances =
            [id \in Ids |-> IF \E i \in 1 .. n - 1 : deletes[i] = id THEN Absent ELSE @[id]]]]

\* A handler queues what makes the tables show the locks; a write that changes
\* nothing is left out.
QueuesWrites ==
  IF Rows(mgr') = Rows(mgr) THEN UNCHANGED unwritten
  ELSE /\ Len(unwritten) < MaxUnwritten
       /\ unwritten' = unwritten \o RowsBetween(mgr, mgr')

\* The worker thread runs the oldest one.
WriteExecuted ==
  /\ unwritten # <<>>
  /\ unwritten' = Tail(unwritten)
  /\ UNCHANGED <<kind, period, mgr, i_maps, usedIds, at, _pendingBindId, interventions>>

-----------------------------------------------------------------------------
(* MapManager::CreateMap and InstanceMap. *)

GenerateInstanceId == CHOOSE id \in Ids \ usedIds : \A other \in Ids \ usedIds : id <= other

\* The state of the manager in which owner has a lock.
WithOwnersLock(owner) ==
  IF FindActive(mgr, owner, FALSE) # Absent THEN mgr
  ELSE CreateForNewInstance(mgr, owner, GenerateInstanceId)

\* Without an instance id of its own the lock may name an instance that others
\* have loaded meanwhile.
UsedByOthers(g, l) ==
  LET id == LockAt(g, l).instanceId
  IN  ~IsInstanceIdBound /\ id \in Loaded /\ g.mapLock[id] # l

NeedsNewId(owner) ==
  FindActive(mgr, owner, FALSE) = Absent \/ UsedByOthers(mgr, FindActive(mgr, owner, FALSE))

\* InstanceMap::InstanceMap and CreateInstanceData.
NewMap(g, lock) ==
  [i_instanceExpireEvent |-> lock.expiryTime,
   done |-> IF lock.isNew THEN {}
            ELSE IF IsInstanceIdBound THEN g.shared[lock.instanceId].Data ELSE lock.Data]

\* Defect: locks are only compared for flexible locking.
JoinsUnlessFlex(g, p, lock) ==
  kind = "flex" /\ FindActive(g, p, FALSE) # Absent =>
    LockAt(g, FindActive(g, p, FALSE)).CompletedEncountersMask \subseteq lock.CompletedEncountersMask

\* CanJoinInstanceLock
CanJoin(g, p, lock) ==
  FindActive(g, p, FALSE) # Absent =>
    LET own == LockAt(g, FindActive(g, p, FALSE))
    IN  CASE kind = "flex" -> own.CompletedEncountersMask \subseteq lock.CompletedEncountersMask
          [] kind = "idBound" -> own.isNew \/ own.instanceId = lock.instanceId
          [] OTHER -> TRUE

\* AddPlayerToMap: who is not bound to what was done there is asked.
AsksToBind(g, p, lock) ==
  /\ IsInstanceIdBound /\ ~lock.isNew
  /\ FindActive(g, p, FALSE) # Absent =>
       LET own == LockAt(g, FindActive(g, p, FALSE))
       IN  \/ IsExpired(own) /\ own.extended
           \/ own.CompletedEncountersMask # lock.CompletedEncountersMask

\* A player teleports into the dungeon, with the lock of owner: its own, the
\* group leader's, or that of whom the group last entered with.
EnterInstance(p, owner) ==
  /\ at[p] = 0
  /\ NeedsNewId(owner) => usedIds # Ids
  /\ \E g \in {WithOwnersLock(owner)} :
     LET l == FindActive(g, owner, FALSE)
         id == IF UsedByOthers(g, l) THEN GenerateInstanceId ELSE LockAt(g, l).instanceId
         lock == [LockAt(g, l) EXCEPT !.instanceId = id]
     IN
     \E h \in {IF id \in Loaded THEN Placed(g, l, lock)
               ELSE [Placed(g, l, [lock EXCEPT !.isInUse = TRUE]) EXCEPT !.mapLock[id] = l]} :
     LET joins == CanJoin(h, p, LockAt(h, h.mapLock[id]))
     IN  /\ h.mapLock[id] # Deleted
         /\ mgr' = h
         /\ i_maps' = [i_maps EXCEPT ![id] = IF id \in Loaded THEN @ ELSE NewMap(g, lock)]
         /\ usedIds' = usedIds \union {id}
         /\ at' = [at EXCEPT ![p] = IF joins THEN id ELSE 0]
         /\ _pendingBindId' = [_pendingBindId EXCEPT
              ![p] = IF joins /\ AsksToBind(h, p, LockAt(h, h.mapLock[id])) THEN id ELSE @]
  /\ UNCHANGED <<kind, period, unwritten, interventions>>

LeaveInstance(p) ==
  /\ at[p] # 0
  /\ at' = [at EXCEPT ![p] = 0]
  /\ UNCHANGED <<kind, period, mgr, unwritten, i_maps, usedIds, _pendingBindId, interventions>>

\* What an event leaves in the lock of p: with encounter locks the player's own
\* data go on, otherwise they are those of the map.
NewDataFor(g, p, id, completed) ==
  IF kind # "encounter" THEN i_maps[id].done \union completed
  ELSE completed \union (IF FindActive(g, p, FALSE) = Absent THEN {}
                         ELSE LockAt(g, FindActive(g, p, FALSE)).Data)

\* UpdateInstanceLock: an encounter is done, or a value is saved and nothing
\* completed.  An assertion that fails ends the server, see Restart.
UpdateInstanceLock(id, completed) ==
  /\ LockExists(id) /\ Inside(id) # {}
  /\ LET all == MapLock(id).CompletedEncountersMask \union completed
         g == IF IsInstanceIdBound
              THEN UpdatedShared(mgr, id, i_maps[id].done \union completed, completed)
              ELSE mgr
     IN  /\ \A p \in Inside(id) : AssertionsHold(g, p, id)
         /\ mgr' = FoldLeft(LAMBDA h, p :
              Updated(h, p, [InstanceId |-> id, NewData |-> NewDataFor(h, p, id, completed),
                             InstanceCompleted |-> all, Completed |-> completed]),
              g, SetToSeq(Inside(id)))
  /\ QueuesWrites
  /\ i_maps' = [i_maps EXCEPT ![id].done = @ \union completed]
  /\ UNCHANGED <<kind, period, usedIds, at, _pendingBindId, interventions>>

EncounterDone(id, e) == e \notin i_maps[id].done /\ UpdateInstanceLock(id, {e})
ValueSaved(id) == UpdateInstanceLock(id, {})

\* ConfirmPendingBind, by the player or when the minute is over.
ConfirmPendingBind(p) ==
  /\ _pendingBindId[p] # 0
  /\ IF at[p] = _pendingBindId[p]
     THEN LET id == at[p] IN
          /\ LockExists(id) /\ AssertionsHold(mgr, p, id)
          /\ mgr' = Updated(mgr, p,
               [InstanceId |-> id, NewData |-> i_maps[id].done, Completed |-> {},
                InstanceCompleted |-> MapLock(id).CompletedEncountersMask])
     ELSE UNCHANGED mgr
  /\ QueuesWrites
  /\ _pendingBindId' = [_pendingBindId EXCEPT ![p] = 0]
  /\ UNCHANGED <<kind, period, i_maps, usedIds, at, interventions>>

DeclinePendingBind(p) ==
  /\ _pendingBindId[p] # 0
  /\ _pendingBindId' = [_pendingBindId EXCEPT ![p] = 0]
  /\ at' = [at EXCEPT ![p] = 0]
  /\ UNCHANGED <<kind, period, mgr, unwritten, i_maps, usedIds, interventions>>

\* InstanceMap::Update finds the expiry of its lock passed; Reset(Expire) asks
\* the players inside.
InstanceExpires(id) ==
  /\ id \in Loaded /\ i_maps[id].i_instanceExpireEvent < period
  /\ Inside(id) # {} => LockExists(id)
  /\ i_maps' = [i_maps EXCEPT ![id].i_instanceExpireEvent = period]
  /\ _pendingBindId' = [p \in Players |-> IF at[p] = id /\ kind # "flex" THEN id
                                           ELSE _pendingBindId[p]]
  /\ UNCHANGED <<kind, period, mgr, unwritten, usedIds, at, interventions>>

\* Defect: a map is unloaded with players inside.
UnloadAtOnce(id) ==
  /\ id \in Loaded /\ LockExists(id)
  /\ i_maps' = [i_maps EXCEPT ![id] = Absent]
  /\ mgr' = [Placed(mgr, mgr.mapLock[id], [MapLock(id) EXCEPT !.isInUse = FALSE])
               EXCEPT !.mapLock[id] = Absent]
  /\ UNCHANGED <<kind, period, unwritten, usedIds, at, _pendingBindId, interventions>>

\* The map is unloaded some time after the last player left or after a reset.
UnloadInstance(id) ==
  /\ id \in Loaded /\ Inside(id) = {}
  /\ LockExists(id)
  /\ i_maps' = [i_maps EXCEPT ![id] = Absent]
  /\ mgr' = [Placed(mgr, mgr.mapLock[id], [MapLock(id) EXCEPT !.isInUse = FALSE])
               EXCEPT !.mapLock[id] = Absent]
  /\ UNCHANGED <<kind, period, unwritten, usedIds, at, _pendingBindId, interventions>>

-----------------------------------------------------------------------------
ResetTimePasses ==
  /\ period < MaxPeriod
  /\ period' = period + 1
  /\ UNCHANGED <<kind, mgr, unwritten, i_maps, usedIds, at, _pendingBindId, interventions>>

Intervention == interventions < MaxInterventions[kind] /\ interventions' = interventions + 1

\* UpdateInstanceLockExtensionForPlayer, by the calendar of a player elsewhere;
\* expired locks are extended too.
ExtendLock(p, extended) ==
  /\ Intervention
  /\ at[p] = 0 /\ mgr.permanent[p] # Absent
  /\ mgr' = [mgr EXCEPT !.permanent[p].extended = extended, !.lockRows[p].extended = extended]
  /\ QueuesWrites
  /\ UNCHANGED <<kind, period, i_maps, usedIds, at, _pendingBindId>>

ForceExpired(lock) == [lock EXCEPT !.expiryTime = period - 1, !.extended = FALSE]

\* ResetInstanceLocksForPlayer, a command.
ResetLock(p) ==
  /\ Intervention
  /\ mgr.permanent[p] # Absent
  /\ ~mgr.permanent[p].isInUse /\ ~IsExpired(mgr.permanent[p])
  /\ mgr' = [mgr EXCEPT !.permanent[p] = ForceExpired(@), !.lockRows[p] = ForceExpired(@)]
  /\ QueuesWrites
  /\ UNCHANGED <<kind, period, i_maps, usedIds, at, _pendingBindId>>

\* The server ends at any point, the queued writes are lost, and the tables are
\* loaded again; a lock whose instance is missing is dropped, which is a write.
RegisteredIds == {Tables.locks[p].instanceId : p \in {q \in Players : Tables.locks[q] # Absent}}
Loadable(p) ==
  /\ Tables.locks[p] # Absent
  /\ IsInstanceIdBound => Tables.instances[Tables.locks[p].instanceId] # Absent

Restart ==
  /\ Intervention
  /\ \E rows \in {[p \in Players |-> IF Loadable(p) THEN Tables.locks[p] ELSE Absent]} :
       /\ mgr' = [mgr EXCEPT
            !.permanent = rows, !.lockRows = rows, !.instanceRows = Tables.instances,
            !.temporary = [p \in Players |-> Absent],
            !.mapLock = [id \in Ids |-> Absent],
            !.shared = [id \in Ids |-> IF IsInstanceIdBound /\ id \in RegisteredIds
                                       THEN Tables.instances[id] ELSE Absent]]
       /\ unwritten' = IF rows = Tables.locks THEN <<>> ELSE <<Tables>>
  /\ i_maps' = [id \in Ids |-> Absent]
  /\ usedIds' = RegisteredIds
  /\ at' = [p \in Players |-> 0] /\ _pendingBindId' = [p \in Players |-> 0]
  /\ UNCHANGED <<kind, period>>

InstancesNext ==
  \/ \E p \in Players :
       \/ \E owner \in Players : EnterInstance(p, owner)
       \/ LeaveInstance(p)
       \/ ConfirmPendingBind(p) \/ DeclinePendingBind(p)
       \/ \E extended \in BOOLEAN : ExtendLock(p, extended)
       \/ ResetLock(p)
  \/ \E id \in Loaded :
       \/ \E e \in Encounters : EncounterDone(id, e)
       \/ ValueSaved(id) \/ InstanceExpires(id) \/ UnloadInstance(id)
  \/ ResetTimePasses
  \/ WriteExecuted
  \/ Restart

InstancesSpec == InstancesInit /\ [][InstancesNext]_instanceVars

-----------------------------------------------------------------------------
\* Types; temporary locks are new and permanent ones are not, players are in
\* maps that exist, and once the queued writes have run the rows show what the
\* permanent locks show.
InstancesTypeOK ==
  /\ \A p \in Players :
       /\ mgr.permanent[p] # Absent => mgr.permanent[p] \in LockTypes /\ ~mgr.permanent[p].isNew
       /\ mgr.temporary[p] # Absent => mgr.temporary[p] \in LockTypes /\ mgr.temporary[p].isNew
       /\ mgr.lockRows[p] # Absent <=> mgr.permanent[p] # Absent
       /\ mgr.lockRows[p] # Absent =>
            mgr.lockRows[p].CompletedEncountersMask = mgr.permanent[p].CompletedEncountersMask
       /\ at[p] # 0 => at[p] \in Loaded
  /\ \A id \in Ids : mgr.mapLock[id] = Absent <=> id \notin Loaded

\* The lock of a loaded map is deleted only when it counts no more.
LocksOutliveMaps ==
  [][\A id \in Ids : mgr.mapLock[id] \notin {Absent, Deleted} /\ mgr'.mapLock[id] = Deleted =>
       ~Active(MapLock(id))]_instanceVars

\* With locks bound to instance ids a map, the lock it was created with, which is
\* in use, and the locks that count of the players inside name one instance; and
\* the shared state of every lock is found under that id, as UpdateInstance-
\* LockForPlayer asserts, with at least the encounters the players' locks show.
InstanceIdsAgree ==
  IsInstanceIdBound =>
    /\ \A id \in Loaded : LockExists(id) => MapLock(id).instanceId = id /\ MapLock(id).isInUse
    /\ \A p \in Players : at[p] # 0 /\ FindActive(mgr, p, TRUE) # Absent =>
         mgr.permanent[p].instanceId = at[p]
    /\ \A lock \in (Range(mgr.permanent) \union Range(mgr.temporary)) \ {Absent} :
         /\ mgr.shared[lock.instanceId] # Absent
         /\ lock.CompletedEncountersMask \subseteq mgr.shared[lock.instanceId].CompletedEncountersMask

\* What the lock of p shows in the database, as long as it counts there.
Written(p) ==
  IF Tables.locks[p] # Absent /\ Active(Tables.locks[p])
  THEN Tables.locks[p].CompletedEncountersMask ELSE {}

\* As long as a lock counts no encounter it shows is forgotten: not by another
\* lock of the player, nor by the deeds of others; and by a crash or a shutdown
\* only if the encounter was not written yet, whatever other writes, deletions of
\* instances among them, were executed or lost.
NoEncounterForgotten ==
  [][\A p \in Players : FindActive(mgr, p, TRUE) # Absent =>
       \A e \in mgr.permanent[p].CompletedEncountersMask :
         \/ mgr'.permanent[p] # Absent /\ e \in mgr'.permanent[p].CompletedEncountersMask
         \/ Restart /\ e \notin Written(p)
    ]_instanceVars

\* "ASSERT(instanceLock->GetInstanceId() == updateEvent.InstanceId)": the lock
\* that the next event in an instance updates names this instance.
InstanceIdAsserted ==
  IsInstanceIdBound =>
    \A id \in Loaded : \A p \in Inside(id) :
      ExistingLock(mgr, p) # Absent => LockAt(mgr, ExistingLock(mgr, p)).instanceId = id
=============================================================================
