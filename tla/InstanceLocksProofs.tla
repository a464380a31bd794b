------------------------- MODULE InstanceLocksProofs -------------------------
(***************************************************************************)
(* Theorems about InstanceLocks for every finite set of players and of     *)
(* encounters, any number of instances and of resets, and every kind of    *)
(* lock.  The invariant of the manager (MgrInv) is about a state of the    *)
(* manager and not about the variable, because UpdateInstanceLock takes    *)
(* the manager through one such state for each player inside.              *)
(***************************************************************************)
EXTENDS MCSessionAndInstances, WorldSessionProofs, FoldLemmas, FiniteSetTheorems

-----------------------------------------------------------------------------
(* The invariant of the manager. *)

Managers ==
  [permanent : [Players -> LockTypes \union {Absent}],
   temporary : [Players -> LockTypes \union {Absent}],
   shared : [Ids -> SharedTypes \union {Absent}],
   mapLock : [Ids -> Places \union {Absent, Deleted}],
   lockRows : [Players -> LockTypes \union {Absent}],
   instanceRows : [Ids -> SharedTypes \union {Absent}]]

\* The map of the instance has a lock that exists.
Owned(g, id) == g.mapLock[id] \notin {Absent, Deleted}

\* The row of a lock counts as long as the lock counts.
SameTime(row, lock) == row.expiryTime = lock.expiryTime /\ row.extended = lock.extended

\* Temporary locks are new and permanent ones are not, the rows show what the
\* permanent locks show, and maps point to locks that are there.
LocksInv(g) ==
  /\ \A p \in Players :
       /\ g.permanent[p] # Absent => ~g.permanent[p].isNew
       /\ g.temporary[p] # Absent => g.temporary[p].isNew
       /\ g.lockRows[p] # Absent <=> g.permanent[p] # Absent
       /\ g.lockRows[p] # Absent => ~g.lockRows[p].isNew
       /\ g.lockRows[p] # Absent =>
            /\ g.lockRows[p].CompletedEncountersMask = g.permanent[p].CompletedEncountersMask
            /\ SameTime(g.lockRows[p], g.permanent[p])
  /\ \A id \in Ids : Owned(g, id) => LockAt(g, g.mapLock[id]) # Absent

\* The ids of locks are not given to others.
UsedInv(g, used) ==
  \A p \in Players :
    /\ g.permanent[p] # Absent => g.permanent[p].instanceId \in used
    /\ g.temporary[p] # Absent => g.temporary[p].instanceId \in used

Shown(g, lock) ==
  /\ g.shared[lock.instanceId] # Absent
  /\ lock.CompletedEncountersMask \subseteq g.shared[lock.instanceId].CompletedEncountersMask

\* With locks bound to instance ids: what a lock shows its instance shows; what
\* an instance shows is in its row; a map and its lock name one instance.
BoundInv(g) ==
  /\ \A p \in Players :
       /\ g.permanent[p] # Absent => Shown(g, g.permanent[p])
       /\ g.temporary[p] # Absent => Shown(g, g.temporary[p])
       /\ g.lockRows[p] # Absent => g.lockRows[p].instanceId = g.permanent[p].instanceId
  /\ \A id \in Ids :
       /\ g.instanceRows[id] # Absent => g.instanceRows[id].saved
       /\ g.shared[id] # Absent =>
            IF g.shared[id].saved THEN g.instanceRows[id] = g.shared[id]
            ELSE g.shared[id].CompletedEncountersMask = {}
       /\ Owned(g, id) =>
            LockAt(g, g.mapLock[id]).instanceId = id /\ LockAt(g, g.mapLock[id]).isInUse

MgrInv(g, used, bound) ==
  g \in Managers /\ LocksInv(g) /\ UsedInv(g, used) /\ (bound => BoundInv(g))

-----------------------------------------------------------------------------
(* What the manager finds. *)

\* The permanent lock of p counts.
Counts(g, p) == g.permanent[p] # Absent /\ Active(g.permanent[p])

\* The two places a player has are different, and neither Absent nor Deleted.
LEMMA PlacesAreThere ==
  ASSUME NEW p \in Players
  PROVE  /\ Perm(p) \in Places /\ Temp(p) \in Places /\ Perm(p) # Temp(p)
         /\ Perm(p) \notin {Absent, Deleted} /\ Temp(p) \notin {Absent, Deleted}
         /\ \A g : LockAt(g, Perm(p)) = g.permanent[p] /\ LockAt(g, Temp(p)) = g.temporary[p]
         /\ \A q \in Players : q # p => Perm(q) # Perm(p) /\ Temp(q) # Temp(p)
<1>1. Perm(p) \in Places /\ Temp(p) \in Places /\ Perm(p) # Temp(p)
  BY DEF Perm, Temp, Places
<1>2. Perm(p) \notin {Absent, Deleted} /\ Temp(p) \notin {Absent, Deleted}
  BY <1>1, AbsentAssumption
<1> QED
  BY <1>1, <1>2 DEF Perm, Temp, LockAt

\* Every place is the permanent or the temporary one of a player.
LEMMA PlaceOfSomebody ==
  ASSUME NEW l \in Places
  PROVE  \E p \in Players : l = Perm(p) \/ l = Temp(p)
<1>1. l.player \in Players /\ l.temporary \in BOOLEAN /\ l = [player |-> l.player, temporary |-> l.temporary]
  BY DEF Places
<1> QED
  BY <1>1 DEF Perm, Temp

\* FindActive is the permanent lock that counts, or else the temporary one.
LEMMA WhatIsFound ==
  ASSUME NEW g, NEW p \in Players
  PROVE  /\ FindActive(g, p, TRUE) = IF Counts(g, p) THEN Perm(p) ELSE Absent
         /\ FindActive(g, p, TRUE) # Absent <=> Counts(g, p)
         /\ FindActive(g, p, FALSE) = IF Counts(g, p) THEN Perm(p)
                                      ELSE IF g.temporary[p] = Absent THEN Absent ELSE Temp(p)
         /\ FindActive(g, p, FALSE) # Absent <=> Counts(g, p) \/ g.temporary[p] # Absent
BY PlacesAreThere DEF FindActive, Counts

\* A lock that is found is one.
LEMMA FoundLock ==
  ASSUME NEW g \in Managers, NEW p \in Players, FindActive(g, p, FALSE) # Absent
  PROVE  /\ FindActive(g, p, FALSE) \in Places
         /\ LockAt(g, FindActive(g, p, FALSE)) \in LockTypes
         /\ LockAt(g, FindActive(g, p, FALSE)) # Absent
<1>1. g.permanent[p] \in LockTypes \union {Absent} /\ g.temporary[p] \in LockTypes \union {Absent}
  BY DEF Managers
<1>2. CASE Counts(g, p)
  <2>1. FindActive(g, p, FALSE) = Perm(p) /\ LockAt(g, Perm(p)) = g.permanent[p] /\ Perm(p) \in Places
    BY <1>2, WhatIsFound, PlacesAreThere
  <2> QED
    BY <1>1, <1>2, <2>1 DEF Counts
<1>3. CASE ~Counts(g, p)
  <2>1. /\ g.temporary[p] # Absent
        /\ FindActive(g, p, FALSE) = Temp(p) /\ LockAt(g, Temp(p)) = g.temporary[p] /\ Temp(p) \in Places
    BY <1>3, WhatIsFound, PlacesAreThere
  <2> QED
    BY <1>1, <2>1
<1> QED
  BY <1>2, <1>3

\* A set of ids that is not empty has a least one.
LEMMA LeastId ==
  ASSUME NEW n \in Nat, NEW s \in SUBSET (1..n), s # {}
  PROVE  \E x \in s : \A y \in s : x <= y
<1> DEFINE HasLeast(m) == \A u \in SUBSET (1..m) : u # {} => \E x \in u : \A y \in u : x <= y
           S == {m \in Nat : HasLeast(m)}
<1>1. 0 \in S
  <2>1. SUBSET (1..0) = {{}}
    OBVIOUS
  <2> QED
    BY <2>1
<1>2. ASSUME NEW m \in Nat, m \in S PROVE m + 1 \in S
  <2> SUFFICES ASSUME NEW u \in SUBSET (1..(m + 1)), u # {}
               PROVE  \E x \in u : \A y \in u : x <= y
    OBVIOUS
  <2>1. u \ {m + 1} \in SUBSET (1..m)
    OBVIOUS
  <2>2. CASE u \ {m + 1} = {}
    <3>1. \A y \in u : y = m + 1
      BY <2>2
    <3>2. m + 1 <= m + 1
      OBVIOUS
    <3> QED
      BY <3>1, <3>2
  <2>3. CASE u \ {m + 1} # {}
    <3>1. PICK x \in u \ {m + 1} : \A y \in u \ {m + 1} : x <= y
      BY <1>2, <2>1, <2>3
    <3>2. x <= m + 1
      BY <2>1
    <3> QED
      BY <3>1, <3>2
  <2> QED
    BY <2>2, <2>3
<1>3. n \in S
  <2> HIDE DEF S
  <2> QED
    BY <1>1, <1>2, InductionOverNat
<1> QED
  BY <1>3

\* GenerateInstanceId gives an id that was not given.
LEMMA FreshId ==
  ASSUME usedIds \subseteq Ids, usedIds # Ids
  PROVE  GenerateInstanceId \in Ids \ usedIds
<1>1. Ids \ usedIds \in SUBSET (1..MaxInstanceId) /\ Ids \ usedIds # {} /\ MaxInstanceId \in Nat
  BY InstanceAssumption DEF Ids
<1>2. \E id \in Ids \ usedIds : \A other \in Ids \ usedIds : id <= other
  BY <1>1, LeastId
<1> QED
  BY <1>2 DEF GenerateInstanceId

-----------------------------------------------------------------------------
(* UpdateInstanceLockForPlayer. *)

Events ==
  [InstanceId : Ids, NewData : SUBSET Encounters, InstanceCompleted : SUBSET Encounters,
   Completed : SUBSET Encounters]

\* The lock that is updated: the permanent one as long as it counts, or else the
\* temporary one, or a new one.
Taken(g, p, id) ==
  IF Counts(g, p) THEN g.permanent[p]
  ELSE IF g.temporary[p] # Absent THEN g.temporary[p] ELSE NewLock(id, FALSE)

\* What it is updated to.
UpdatedLock(lock, event) ==
  [lock EXCEPT
     !.instanceId = event.InstanceId, !.isNew = FALSE, !.Data = event.NewData,
     !.CompletedEncountersMask = lock.CompletedEncountersMask \union event.Completed \union
       (IF kind = "encounter" THEN {} ELSE event.InstanceCompleted),
     !.expiryTime = IF IsExpired(lock) THEN period ELSE lock.expiryTime,
     !.extended = lock.extended /\ ~IsExpired(lock)]

\* The locks are put into their places, those that no lock names any more go.
UpdatedParts(g, p, event, h, gone) ==
  /\ h.permanent = [g.permanent EXCEPT ![p] = UpdatedLock(Taken(g, p, event.InstanceId), event)]
  /\ h.temporary = IF Counts(g, p) THEN g.temporary ELSE [g.temporary EXCEPT ![p] = Absent]
  /\ h.lockRows = [g.lockRows EXCEPT ![p] = Row(UpdatedLock(Taken(g, p, event.InstanceId), event))]
  /\ h.mapLock = IF Counts(g, p) THEN g.mapLock
                 ELSE [id \in Ids |-> CASE g.mapLock[id] = Perm(p) -> Deleted
                                        [] g.mapLock[id] = Temp(p) -> Perm(p)
                                        [] OTHER -> g.mapLock[id]]
  /\ h.shared = [id \in Ids |-> IF id \in gone THEN Absent ELSE g.shared[id]]
  /\ h.instanceRows = [id \in Ids |-> IF id \in gone THEN Absent ELSE g.instanceRows[id]]

Unnamed(g, p, event, gone) ==
  \A id \in gone :
    /\ ~Counts(g, p)
    /\ Taken(g, p, event.InstanceId).instanceId # id
    /\ \A q \in Players \ {p} :
         /\ g.permanent[q] # Absent => g.permanent[q].instanceId # id
         /\ g.temporary[q] # Absent => g.temporary[q].instanceId # id

\* A new lock is one.
LEMMA NewLockType ==
  ASSUME NEW id \in Ids, NEW isNew \in BOOLEAN, period \in 0..MaxPeriod
  PROVE  NewLock(id, isNew) \in LockTypes
<1>1. period \in -1 .. MaxPeriod
  BY InstanceAssumption
<1> QED
  BY <1>1 DEF NewLock, LockTypes

\* The lock that is updated is one.
LEMMA TakenType ==
  ASSUME NEW g \in Managers, NEW p \in Players, NEW id \in Ids, period \in 0..MaxPeriod
  PROVE  Taken(g, p, id) \in LockTypes /\ Taken(g, p, id) # Absent
<1>1. /\ g.permanent[p] \in LockTypes \union {Absent}
      /\ g.temporary[p] \in LockTypes \union {Absent}
  BY DEF Managers
<1>2. NewLock(id, FALSE) \in LockTypes
  BY NewLockType
<1> QED
  BY <1>1, <1>2, AbsentAssumption DEF Taken, Counts

\* What the end of a lock changes, field by field.
LEMMA ReplacedParts ==
  ASSUME NEW g, NEW h \in Managers, NEW p \in Players
  PROVE  /\ Replaced(g, p, h).permanent = h.permanent
         /\ Replaced(g, p, h).temporary = h.temporary
         /\ Replaced(g, p, h).lockRows = h.lockRows
         /\ Replaced(g, p, h).mapLock =
              [x \in Ids |-> CASE h.mapLock[x] = Perm(p) -> Deleted
                               [] h.mapLock[x] = Temp(p) -> Perm(p)
                               [] OTHER -> h.mapLock[x]]
         /\ Replaced(g, p, h).shared =
              [x \in Ids |-> IF x \in Unreferenced(g, h) THEN Absent ELSE h.shared[x]]
         /\ Replaced(g, p, h).instanceRows =
              [x \in Ids |-> IF x \in Unreferenced(g, h) THEN Absent ELSE h.instanceRows[x]]
         /\ Replaced(g, p, h) \in Managers
<1>1. \A x \in Ids : (CASE h.mapLock[x] = Perm(p) -> Deleted
                       [] h.mapLock[x] = Temp(p) -> Perm(p)
                       [] OTHER -> h.mapLock[x]) \in Places \union {Absent, Deleted}
  BY PlacesAreThere DEF Managers
<1> QED
  BY <1>1 DEF Replaced, Managers

\* What the update makes of a lock: it shows more, is not new and counts.
LEMMA UpdatedLockType ==
  ASSUME NEW lock \in LockTypes, NEW event \in Events, period \in 0..MaxPeriod
  PROVE  /\ UpdatedLock(lock, event) \in LockTypes /\ Row(UpdatedLock(lock, event)) \in LockTypes
         /\ UpdatedLock(lock, event).instanceId = event.InstanceId
         /\ ~UpdatedLock(lock, event).isNew
         /\ UpdatedLock(lock, event).isInUse = lock.isInUse
         /\ UpdatedLock(lock, event).CompletedEncountersMask \subseteq
              lock.CompletedEncountersMask \union event.Completed \union event.InstanceCompleted
         /\ lock.CompletedEncountersMask \subseteq UpdatedLock(lock, event).CompletedEncountersMask
         /\ Active(UpdatedLock(lock, event))
         /\ Row(UpdatedLock(lock, event)).instanceId = event.InstanceId
         /\ ~Row(UpdatedLock(lock, event)).isNew
         /\ Row(UpdatedLock(lock, event)).CompletedEncountersMask =
              UpdatedLock(lock, event).CompletedEncountersMask
         /\ SameTime(Row(UpdatedLock(lock, event)), UpdatedLock(lock, event))
<1>1. period \in -1 .. MaxPeriod /\ period \in Int /\ lock.expiryTime \in Int
  BY InstanceAssumption DEF LockTypes
<1>2. UpdatedLock(lock, event) \in LockTypes
  BY <1>1 DEF UpdatedLock, LockTypes, Events
<1>3. /\ UpdatedLock(lock, event).instanceId = event.InstanceId
      /\ ~UpdatedLock(lock, event).isNew
      /\ UpdatedLock(lock, event).isInUse = lock.isInUse
      /\ UpdatedLock(lock, event).CompletedEncountersMask =
           lock.CompletedEncountersMask \union event.Completed \union
             (IF kind = "encounter" THEN {} ELSE event.InstanceCompleted)
      /\ UpdatedLock(lock, event).expiryTime = IF IsExpired(lock) THEN period ELSE lock.expiryTime
  BY DEF UpdatedLock, LockTypes
<1>4. Active(UpdatedLock(lock, event))
  BY <1>1, <1>3 DEF Active, IsExpired
<1> HIDE DEF UpdatedLock
<1>5. /\ Row(UpdatedLock(lock, event)) \in LockTypes
      /\ Row(UpdatedLock(lock, event)).instanceId = UpdatedLock(lock, event).instanceId
      /\ ~Row(UpdatedLock(lock, event)).isNew
      /\ Row(UpdatedLock(lock, event)).CompletedEncountersMask =
              UpdatedLock(lock, event).CompletedEncountersMask
      /\ SameTime(Row(UpdatedLock(lock, event)), UpdatedLock(lock, event))
  BY <1>2 DEF Row, LockTypes, SameTime
<1> QED
  BY <1>2, <1>3, <1>4, <1>5

\* UpdateInstanceLockForPlayer, field by field; gone are the instances that lose
\* their last lock.
LEMMA WhatUpdatedDoes ==
  ASSUME NEW g \in Managers, NEW p \in Players, NEW event \in Events, period \in 0..MaxPeriod
  PROVE  \E gone \in SUBSET Ids :
           /\ UpdatedParts(g, p, event, Updated(g, p, event), gone)
           /\ Unnamed(g, p, event, gone)
           /\ Updated(g, p, event) \in Managers
<1> DEFINE id == event.InstanceId
           h == WithLock(g, p, id)
           taken == Taken(g, p, id)
<1>0. /\ id \in Ids
      /\ g.permanent \in [Players -> LockTypes \union {Absent}]
      /\ g.temporary \in [Players -> LockTypes \union {Absent}]
      /\ g.shared \in [Ids -> SharedTypes \union {Absent}]
      /\ g.instanceRows \in [Ids -> SharedTypes \union {Absent}]
      /\ g.lockRows \in [Players -> LockTypes \union {Absent}]
      /\ g.mapLock \in [Ids -> Places \union {Absent, Deleted}]
  BY DEF Events, Managers
<1> DEFINE h0 == IF g.temporary[p] # Absent
                  THEN [g EXCEPT !.permanent[p] = g.temporary[p], !.temporary[p] = Absent]
                  ELSE [g EXCEPT !.permanent[p] = NewLock(id, FALSE)]
           gone == IF Counts(g, p) THEN {} ELSE Unreferenced(g, h0)
           moved == [x \in Ids |-> CASE g.mapLock[x] = Perm(p) -> Deleted
                                     [] g.mapLock[x] = Temp(p) -> Perm(p)
                                     [] OTHER -> g.mapLock[x]]
<1>1. gone \in SUBSET Ids
  BY DEF Unreferenced
<1>2. h = IF Counts(g, p) THEN g ELSE Replaced(g, p, h0)
  <2>1. CASE Counts(g, p)
    BY <2>1, WhatIsFound DEF WithLock
  <2>2. CASE ~Counts(g, p) /\ g.temporary[p] # Absent
    <3> DEFINE moves == [g EXCEPT !.permanent[p] = g.temporary[p], !.temporary[p] = Absent]
    <3>1. FindActive(g, p, TRUE) = Absent
      BY <2>2, WhatIsFound
    <3>2. h = Replaced(g, p, moves)
      BY <2>2, <3>1 DEF WithLock
    <3>3. h0 = moves
      BY <2>2
    <3> HIDE DEF h0, moves, h
    <3> QED
      BY <2>2, <3>2, <3>3
  <2>3. CASE ~Counts(g, p) /\ g.temporary[p] = Absent
    <3> DEFINE new == [g EXCEPT !.permanent[p] = NewLock(id, FALSE)]
    <3>1. FindActive(g, p, TRUE) = Absent
      BY <2>3, WhatIsFound
    <3>2. h = Replaced(g, p, new)
      BY <2>3, <3>1 DEF WithLock
    <3>3. h0 = new
      BY <2>3
    <3> HIDE DEF h0, new, h
    <3> QED
      BY <2>3, <3>2, <3>3
  <2> QED
    BY <2>1, <2>2, <2>3
<1>3. h0 = [g EXCEPT !.permanent = [g.permanent EXCEPT ![p] = IF g.temporary[p] # Absent
                                                   THEN g.temporary[p] ELSE NewLock(id, FALSE)],
                     !.temporary = [g.temporary EXCEPT ![p] = Absent]]
  BY <1>0 DEF Managers
<1>4. ASSUME ~Counts(g, p)
      PROVE  /\ h0.permanent = [g.permanent EXCEPT ![p] = taken]
             /\ h0.temporary = [g.temporary EXCEPT ![p] = Absent]
             /\ h0.lockRows = g.lockRows /\ h0.mapLock = g.mapLock
             /\ h0.shared = g.shared /\ h0.instanceRows = g.instanceRows
             /\ h0 \in Managers
  <2>1. taken \in LockTypes
    BY TakenType, <1>0
  <2> QED
    BY <1>0, <1>3, <1>4, <2>1 DEF Managers, Taken
<1>5. ASSUME ~Counts(g, p)
      PROVE  /\ h.permanent = h0.permanent /\ h.temporary = h0.temporary /\ h.lockRows = h0.lockRows
             /\ h.mapLock = moved
             /\ h.shared = [x \in Ids |-> IF x \in gone THEN Absent ELSE g.shared[x]]
             /\ h.instanceRows = [x \in Ids |-> IF x \in gone THEN Absent ELSE g.instanceRows[x]]
             /\ h \in Managers
  <2> HIDE DEF h0, h
  <2>1. h = Replaced(g, p, h0)
    BY <1>2, <1>5
  <2>2. h0 \in Managers /\ h0.mapLock = g.mapLock /\ h0.shared = g.shared
        /\ h0.instanceRows = g.instanceRows
    BY <1>4, <1>5
  <2>3. /\ h.permanent = h0.permanent /\ h.temporary = h0.temporary /\ h.lockRows = h0.lockRows
        /\ h.mapLock = [x \in Ids |-> CASE h0.mapLock[x] = Perm(p) -> Deleted
                                        [] h0.mapLock[x] = Temp(p) -> Perm(p)
                                        [] OTHER -> h0.mapLock[x]]
        /\ h.shared = [x \in Ids |-> IF x \in Unreferenced(g, h0) THEN Absent ELSE h0.shared[x]]
        /\ h.instanceRows =
             [x \in Ids |-> IF x \in Unreferenced(g, h0) THEN Absent ELSE h0.instanceRows[x]]
        /\ h \in Managers
    BY <2>1, <2>2, ReplacedParts
  <2> QED
    BY <1>5, <2>2, <2>3
<1>6. Updated(g, p, event) =
        [h EXCEPT !.permanent[p] = UpdatedLock(h.permanent[p], event),
                  !.lockRows[p] = Row(UpdatedLock(h.permanent[p], event))]
  BY DEF Updated, UpdatedLock
<1>7. /\ h.permanent = [g.permanent EXCEPT ![p] = taken]
      /\ h.temporary = IF Counts(g, p) THEN g.temporary ELSE [g.temporary EXCEPT ![p] = Absent]
      /\ h.lockRows = g.lockRows
      /\ h.mapLock = IF Counts(g, p) THEN g.mapLock ELSE moved
      /\ h.shared = [x \in Ids |-> IF x \in gone THEN Absent ELSE g.shared[x]]
      /\ h.instanceRows = [x \in Ids |-> IF x \in gone THEN Absent ELSE g.instanceRows[x]]
      /\ h \in Managers
  <2>1. CASE Counts(g, p)
    <3>1. h = g /\ gone = {} /\ taken = g.permanent[p]
      BY <1>2, <2>1 DEF Taken
    <3> HIDE DEF h, gone, taken
    <3> QED
      BY <1>0, <2>1, <3>1
  <2>2. CASE ~Counts(g, p)
    <3>1. h0.permanent = [g.permanent EXCEPT ![p] = taken] /\ h0.temporary = [g.temporary EXCEPT ![p] = Absent]
          /\ h0.lockRows = g.lockRows
      BY <1>4, <2>2
    <3> HIDE DEF h, h0, gone, taken
    <3> QED
      BY <1>5, <2>2, <3>1
  <2> QED
    BY <2>1, <2>2
<1>8. Unnamed(g, p, event, gone)
  <2> SUFFICES ASSUME NEW x \in gone
               PROVE  /\ ~Counts(g, p)
                      /\ taken.instanceId # x
                      /\ \A q \in Players \ {p} :
                           /\ g.permanent[q] # Absent => g.permanent[q].instanceId # x
                           /\ g.temporary[q] # Absent => g.temporary[q].instanceId # x
    BY DEF Unnamed
  <2>1. ~Counts(g, p) /\ LocksTo(h0, x) = {}
    BY DEF Unreferenced
  <2>2. /\ h0.permanent = [g.permanent EXCEPT ![p] = taken] /\ h0.temporary = [g.temporary EXCEPT ![p] = Absent]
    BY <1>4, <2>1
  <2>3. taken # Absent
    BY TakenType, <1>0
  <2> HIDE DEF h0, gone, taken
  <2>4. \A q \in Players : /\ h0.permanent[q] = Absent \/ h0.permanent[q].instanceId # x
                           /\ h0.temporary[q] = Absent \/ h0.temporary[q].instanceId # x
    BY <2>1 DEF LocksTo
  <2>5. h0.permanent[p] = taken
    BY <1>0, <2>2
  <2>6. \A q \in Players \ {p} : h0.permanent[q] = g.permanent[q] /\ h0.temporary[q] = g.temporary[q]
    BY <1>0, <2>2
  <2> QED
    BY <2>1, <2>3, <2>4, <2>5, <2>6
<1>9. UpdatedParts(g, p, event, Updated(g, p, event), gone) /\ Updated(g, p, event) \in Managers
  <2> DEFINE new == UpdatedLock(taken, event)
             u == Updated(g, p, event)
  <2>1. h.permanent[p] = taken
    BY <1>0, <1>7
  <2>2. u = [h EXCEPT !.permanent = [h.permanent EXCEPT ![p] = new], !.lockRows = [h.lockRows EXCEPT ![p] = Row(new)]]
    BY <1>6, <1>7, <2>1, <1>0 DEF Managers
  <2>3. DOMAIN h = {"permanent", "temporary", "shared", "mapLock", "lockRows", "instanceRows"}
    BY <1>7 DEF Managers
  <2>3a. new \in LockTypes /\ Row(new) \in LockTypes
    BY <1>0, TakenType, UpdatedLockType
  <2> HIDE DEF h, gone, new
  <2>4. /\ u.permanent = [h.permanent EXCEPT ![p] = new] /\ u.lockRows = [h.lockRows EXCEPT ![p] = Row(new)]
        /\ u.temporary = h.temporary /\ u.mapLock = h.mapLock /\ u.shared = h.shared
        /\ u.instanceRows = h.instanceRows
    BY <2>2, <2>3
  <2>5. u.permanent = [g.permanent EXCEPT ![p] = new]
    BY <1>0, <1>7, <2>4
  <2>6. u \in Managers
    <3>1. h \in Managers
      BY <1>7
    <3>2. /\ [h.permanent EXCEPT ![p] = new] \in [Players -> LockTypes \union {Absent}]
          /\ [h.lockRows EXCEPT ![p] = Row(new)] \in [Players -> LockTypes \union {Absent}]
      BY <2>3a, <3>1 DEF Managers
    <3> HIDE DEF u
    <3> QED
      BY <2>2, <3>1, <3>2 DEF Managers
  <2> HIDE DEF u, taken
  <2> QED
    BY <1>7, <2>4, <2>5, <2>6 DEF UpdatedParts, new, taken, u
<1> QED
  BY <1>1, <1>8, <1>9

\* What the update of the lock of p for the instance leaves as it is.
UpdateEffect(g, h, p, id, bound) ==
  /\ \A q \in Players \ {p} : h.permanent[q] = g.permanent[q] /\ h.temporary[q] = g.temporary[q]
  /\ h.permanent[p] # Absent /\ h.permanent[p].instanceId = id
  /\ Active(h.permanent[p])
  /\ Counts(g, p) => g.permanent[p].CompletedEncountersMask \subseteq h.permanent[p].CompletedEncountersMask
  /\ \A x \in Ids :
       \/ h.mapLock[x] = g.mapLock[x]
       \/ g.mapLock[x] = Temp(p) /\ h.mapLock[x] = Perm(p)
       \/ g.mapLock[x] = Perm(p) /\ ~Counts(g, p) /\ h.mapLock[x] = Deleted
  /\ bound => h.shared[id] = g.shared[id]

\* The event is about an instance whose assertions hold for p.
Fits(g, p, event) ==
  /\ AssertionsHold(g, p, event.InstanceId)
  /\ IsInstanceIdBound =>
       /\ g.shared[event.InstanceId] # Absent
       /\ event.Completed \union event.InstanceCompleted
            \subseteq g.shared[event.InstanceId].CompletedEncountersMask

\* UpdateInstanceLockForPlayer keeps the invariant if its assertions hold.
LEMMA UpdatedKeeps ==
  ASSUME NEW g, NEW used, NEW p \in Players, NEW event \in Events, period \in 0..MaxPeriod,
         event.InstanceId \in used, MgrInv(g, used, IsInstanceIdBound), Fits(g, p, event)
  PROVE  /\ MgrInv(Updated(g, p, event), used, IsInstanceIdBound)
         /\ UpdateEffect(g, Updated(g, p, event), p, event.InstanceId, IsInstanceIdBound)
<1> DEFINE h == Updated(g, p, event)
           id == event.InstanceId
           taken == Taken(g, p, id)
           new == UpdatedLock(taken, event)
<1>0. id \in Ids /\ g \in Managers /\ LocksInv(g) /\ UsedInv(g, used)
  BY DEF Events, MgrInv
<1>1. PICK gone \in SUBSET Ids :
        /\ UpdatedParts(g, p, event, h, gone)
        /\ Unnamed(g, p, event, gone)
        /\ h \in Managers
  BY <1>0, WhatUpdatedDoes
<1>2. taken \in LockTypes /\ taken # Absent
  BY <1>0, TakenType
<1>3. /\ new \in LockTypes /\ Row(new) \in LockTypes /\ new # Absent /\ Row(new) # Absent
      /\ new.instanceId = id /\ ~new.isNew /\ new.isInUse = taken.isInUse
      /\ new.CompletedEncountersMask \subseteq
           taken.CompletedEncountersMask \union event.Completed \union event.InstanceCompleted
      /\ taken.CompletedEncountersMask \subseteq new.CompletedEncountersMask
      /\ Active(new) /\ Row(new).instanceId = id /\ ~Row(new).isNew
      /\ Row(new).CompletedEncountersMask = new.CompletedEncountersMask /\ SameTime(Row(new), new)
  BY <1>2, UpdatedLockType, AbsentAssumption
<1>4. /\ h.permanent[p] = new /\ h.lockRows[p] = Row(new)
      /\ \A q \in Players \ {p} : /\ h.permanent[q] = g.permanent[q] /\ h.temporary[q] = g.temporary[q]
                                  /\ h.lockRows[q] = g.lockRows[q]
      /\ h.temporary[p] = IF Counts(g, p) THEN g.temporary[p] ELSE Absent
  BY <1>0, <1>1 DEF UpdatedParts, Managers
<1>5. \A x \in Ids :
        h.mapLock[x] = IF Counts(g, p) THEN g.mapLock[x]
                       ELSE CASE g.mapLock[x] = Perm(p) -> Deleted
                              [] g.mapLock[x] = Temp(p) -> Perm(p)
                              [] OTHER -> g.mapLock[x]
  BY <1>1 DEF UpdatedParts
<1>6. \A x \in Ids : /\ h.shared[x] = IF x \in gone THEN Absent ELSE g.shared[x]
                     /\ h.instanceRows[x] = IF x \in gone THEN Absent ELSE g.instanceRows[x]
  BY <1>1 DEF UpdatedParts
<1>7. \A x \in gone :
        /\ ~Counts(g, p)
        /\ taken.instanceId # x
        /\ \A q \in Players \ {p} :
             /\ g.permanent[q] # Absent => g.permanent[q].instanceId # x
             /\ g.temporary[q] # Absent => g.temporary[q].instanceId # x
  BY <1>1 DEF Unnamed
<1>8. h \in Managers
  BY <1>1
<1>9. /\ Counts(g, p) => taken = g.permanent[p] /\ taken # Absent
      /\ ~Counts(g, p) /\ g.temporary[p] # Absent => taken = g.temporary[p]
      /\ ~Counts(g, p) /\ g.temporary[p] = Absent => taken = NewLock(id, FALSE)
  BY <1>2 DEF Taken, Counts
<1> HIDE DEF h, new, taken, id
\* Where the locks of maps are after the update.
<1>10. ASSUME NEW x \in Ids, Owned(h, x)
       PROVE  \/ /\ h.mapLock[x] = Perm(p) /\ LockAt(h, h.mapLock[x]) = new /\ Owned(g, x)
                 /\ taken = LockAt(g, g.mapLock[x])
              \/ /\ LockAt(h, h.mapLock[x]) = LockAt(g, g.mapLock[x]) /\ Owned(g, x)
  <2>1. Owned(g, x)
    BY <1>5, <1>10, PlacesAreThere DEF Owned
  <2>2. g.mapLock[x] \in Places
    BY <1>0, <2>1 DEF Owned, Managers
  <2>3. PICK q \in Players : g.mapLock[x] = Perm(q) \/ g.mapLock[x] = Temp(q)
    BY <2>2, PlaceOfSomebody
  <2>4. LockAt(g, g.mapLock[x]) # Absent
    BY <1>0, <2>1 DEF LocksInv
  <2>5. CASE g.mapLock[x] = Perm(q) /\ q # p
    <3>1. Perm(q) # Perm(p) /\ Perm(q) # Temp(p)
      BY <2>5, PlacesAreThere DEF Perm, Temp
    <3>2. h.mapLock[x] = Perm(q)
      BY <1>5, <2>5, <3>1
    <3> QED
      BY <1>4, <2>1, <2>5, <3>2, PlacesAreThere
  <2>6. CASE g.mapLock[x] = Temp(q) /\ q # p
    <3>1. Temp(q) # Perm(p) /\ Temp(q) # Temp(p)
      BY <2>6, PlacesAreThere DEF Perm, Temp
    <3>2. h.mapLock[x] = Temp(q)
      BY <1>5, <2>6, <3>1
    <3> QED
      BY <1>4, <2>1, <2>6, <3>2, PlacesAreThere
  <2>7. CASE g.mapLock[x] = Perm(p)
    <3>1. ~Counts(g, p) => h.mapLock[x] = Deleted
      BY <1>5, <2>7, PlacesAreThere
    <3>2. Counts(g, p)
      BY <1>10, <3>1 DEF Owned
    <3>3. h.mapLock[x] = Perm(p)
      BY <1>5, <2>7, <3>2
    <3> QED
      BY <1>4, <1>9, <2>1, <2>7, <3>2, <3>3, PlacesAreThere
  <2>8. CASE g.mapLock[x] = Temp(p)
    <3>1. CASE Counts(g, p)
      <4>1. h.mapLock[x] = Temp(p) /\ h.temporary[p] = g.temporary[p]
        BY <1>4, <1>5, <2>8, <3>1
      <4> QED
        BY <2>1, <2>8, <4>1, PlacesAreThere
    <3>2. CASE ~Counts(g, p)
      <4>1. h.mapLock[x] = Perm(p) /\ g.temporary[p] # Absent
        BY <1>5, <2>4, <2>8, <3>2, PlacesAreThere
      <4> QED
        BY <1>4, <1>9, <2>1, <2>8, <3>2, <4>1, PlacesAreThere
    <3> QED
      BY <3>1, <3>2
  <2> QED
    BY <2>3, <2>5, <2>6, <2>7, <2>8
<1>11. LocksInv(h)
  <2>1. ASSUME NEW q \in Players
        PROVE  /\ h.permanent[q] # Absent => ~h.permanent[q].isNew
               /\ h.temporary[q] # Absent => h.temporary[q].isNew
               /\ h.lockRows[q] # Absent <=> h.permanent[q] # Absent
               /\ h.lockRows[q] # Absent => ~h.lockRows[q].isNew
               /\ h.lockRows[q] # Absent =>
                    /\ h.lockRows[q].CompletedEncountersMask = h.permanent[q].CompletedEncountersMask
                    /\ SameTime(h.lockRows[q], h.permanent[q])
    <3>1. CASE q = p
      BY <1>0, <1>3, <1>4, <3>1 DEF LocksInv
    <3>2. CASE q # p
      BY <1>0, <1>4, <3>2 DEF LocksInv
    <3> QED
      BY <3>1, <3>2
  <2>2. ASSUME NEW x \in Ids, Owned(h, x) PROVE LockAt(h, h.mapLock[x]) # Absent
    <3>1. Owned(g, x) => LockAt(g, g.mapLock[x]) # Absent
      BY <1>0 DEF LocksInv
    <3> QED
      BY <1>3, <1>10, <2>2, <3>1
  <2> QED
    BY <2>1, <2>2 DEF LocksInv
<1>12. UsedInv(h, used)
  <2>1. ASSUME NEW q \in Players
        PROVE  /\ h.permanent[q] # Absent => h.permanent[q].instanceId \in used
               /\ h.temporary[q] # Absent => h.temporary[q].instanceId \in used
    <3>1. CASE q = p
      BY <1>0, <1>3, <1>4, <3>1 DEF UsedInv, id
    <3>2. CASE q # p
      BY <1>0, <1>4, <3>2 DEF UsedInv
    <3> QED
      BY <3>1, <3>2
  <2> QED
    BY <2>1 DEF UsedInv
<1>13. ASSUME IsInstanceIdBound
       PROVE  /\ taken.instanceId = id /\ g.shared[id] # Absent
              /\ event.Completed \union event.InstanceCompleted \subseteq g.shared[id].CompletedEncountersMask
              /\ taken.CompletedEncountersMask \subseteq g.shared[id].CompletedEncountersMask
              /\ h.shared[id] = g.shared[id]
  <2>1. /\ g.shared[id] # Absent
        /\ event.Completed \union event.InstanceCompleted \subseteq g.shared[id].CompletedEncountersMask
        /\ AssertionsHold(g, p, id)
    BY <1>13 DEF Fits, id
  <2>2. BoundInv(g)
    BY <1>13 DEF MgrInv
  <2>3. taken.instanceId = id
    <3>1. CASE Counts(g, p)
      <4>1. FindActive(g, p, FALSE) = Perm(p) /\ Perm(p) # Absent /\ LockAt(g, Perm(p)) = g.permanent[p]
        BY <3>1, WhatIsFound, PlacesAreThere
      <4> QED
        BY <1>9, <1>13, <2>1, <3>1, <4>1 DEF AssertionsHold, ExistingLock
    <3>2. CASE ~Counts(g, p) /\ g.temporary[p] # Absent
      <4>1. FindActive(g, p, FALSE) = Temp(p) /\ Temp(p) # Absent /\ LockAt(g, Temp(p)) = g.temporary[p]
        BY <3>2, WhatIsFound, PlacesAreThere
      <4> QED
        BY <1>9, <1>13, <2>1, <3>2, <4>1 DEF AssertionsHold, ExistingLock
    <3>3. CASE ~Counts(g, p) /\ g.temporary[p] = Absent
      BY <1>9, <3>3 DEF NewLock
    <3> QED
      BY <3>1, <3>2, <3>3
  <2>4. taken.CompletedEncountersMask \subseteq g.shared[id].CompletedEncountersMask
    <3>1. CASE Counts(g, p)
      BY <1>9, <2>2, <2>3, <3>1 DEF BoundInv, Shown
    <3>2. CASE ~Counts(g, p) /\ g.temporary[p] # Absent
      BY <1>9, <2>2, <2>3, <3>2 DEF BoundInv, Shown
    <3>3. CASE ~Counts(g, p) /\ g.temporary[p] = Absent
      BY <1>9, <3>3 DEF NewLock
    <3> QED
      BY <3>1, <3>2, <3>3
  <2>5. id \notin gone
    BY <1>7, <2>3
  <2> QED
    BY <1>0, <1>6, <2>1, <2>3, <2>4, <2>5
<1>14. ASSUME IsInstanceIdBound PROVE BoundInv(h)
  <2>0. BoundInv(g)
    BY <1>14 DEF MgrInv
  <2>1. ASSUME NEW q \in Players
        PROVE  /\ h.permanent[q] # Absent => Shown(h, h.permanent[q])
               /\ h.temporary[q] # Absent => Shown(h, h.temporary[q])
               /\ h.lockRows[q] # Absent => h.lockRows[q].instanceId = h.permanent[q].instanceId
    <3>0. /\ g.permanent[q] # Absent => g.permanent[q].instanceId \in Ids
          /\ g.temporary[q] # Absent => g.temporary[q].instanceId \in Ids
      BY <1>0 DEF Managers, LockTypes
    <3>1. CASE q = p
      <4>1. Shown(h, new)
        BY <1>3, <1>13, <1>14 DEF Shown
      <4>2. h.temporary[p] # Absent => Shown(h, h.temporary[p])
        <5> SUFFICES ASSUME h.temporary[p] # Absent PROVE Shown(h, h.temporary[p])
          OBVIOUS
        <5>1. Counts(g, p) /\ h.temporary[p] = g.temporary[p]
          BY <1>4
        <5>2. Shown(g, g.temporary[p]) /\ g.temporary[p].instanceId \in Ids
          BY <2>0, <3>0, <3>1, <5>1 DEF BoundInv
        <5>3. g.temporary[p].instanceId \notin gone
          BY <1>7, <5>1
        <5> QED
          BY <1>6, <5>1, <5>2, <5>3 DEF Shown
      <4> QED
        BY <1>3, <1>4, <3>1, <4>1, <4>2
    <3>2. CASE q # p
      BY <1>4, <1>6, <1>7, <2>0, <3>0, <3>2 DEF BoundInv, Shown
    <3> QED
      BY <3>1, <3>2
  <2>2. ASSUME NEW x \in Ids
        PROVE  /\ h.instanceRows[x] # Absent => h.instanceRows[x].saved
               /\ h.shared[x] # Absent =>
                    IF h.shared[x].saved THEN h.instanceRows[x] = h.shared[x]
                    ELSE h.shared[x].CompletedEncountersMask = {}
    BY <1>6, <2>0 DEF BoundInv
  <2>3. ASSUME NEW x \in Ids, Owned(h, x)
        PROVE  LockAt(h, h.mapLock[x]).instanceId = x /\ LockAt(h, h.mapLock[x]).isInUse
    <3>1. Owned(g, x) => LockAt(g, g.mapLock[x]).instanceId = x /\ LockAt(g, g.mapLock[x]).isInUse
      BY <2>0 DEF BoundInv
    <3> QED
      BY <1>3, <1>10, <1>13, <1>14, <2>3, <3>1
  <2> QED
    BY <2>1, <2>2, <2>3 DEF BoundInv
<1>15. UpdateEffect(g, h, p, id, IsInstanceIdBound)
  <2>1. \A x \in Ids :
          \/ h.mapLock[x] = g.mapLock[x]
          \/ g.mapLock[x] = Temp(p) /\ h.mapLock[x] = Perm(p)
          \/ g.mapLock[x] = Perm(p) /\ ~Counts(g, p) /\ h.mapLock[x] = Deleted
    BY <1>5
  <2> QED
    BY <1>3, <1>4, <1>9, <1>13, <2>1 DEF UpdateEffect
<1>16. MgrInv(h, used, IsInstanceIdBound)
  BY <1>8, <1>11, <1>12, <1>14 DEF MgrInv
<1> QED
  BY <1>15, <1>16 DEF h, id

-----------------------------------------------------------------------------
(* UpdateInstanceLock: all players inside are served, one after the other. *)

\* SetToSeq puts every element of a finite set at one place.
LEMMA SetInSequence ==
  ASSUME NEW S, IsFiniteSet(S)
  PROVE  /\ Cardinality(S) \in Nat /\ SetToSeq(S) \in [1..Cardinality(S) -> S]
         /\ \A j, k \in 1..Cardinality(S) : SetToSeq(S)[j] = SetToSeq(S)[k] => j = k
         /\ \A x \in S : \E k \in 1..Cardinality(S) : SetToSeq(S)[k] = x
<1> DEFINE n == Cardinality(S)
<1>1. n \in Nat /\ ExistsBijection(1..n, S)
  BY FS_CardinalityType
<1>2. \E f \in [1..n -> S] : IsInjective(f)
  BY <1>1 DEF ExistsBijection, Bijection, Injection
<1>3. SetToSeq(S) \in [1..n -> S] /\ IsInjective(SetToSeq(S))
  BY <1>2 DEF SetToSeq
<1>4. SetToSeq(S) \in Injection(1..n, S)
  BY <1>3 DEF Injection
<1>5. Cardinality(1..n) = n
  BY <1>1, FS_Interval
<1>6. SetToSeq(S) \in Surjection(1..n, S)
  BY <1>1, <1>4, <1>5, FS_Injection
<1> QED
  BY <1>1, <1>3, <1>6 DEF IsInjective, Surjection

EventFor(h, p, id, completed) ==
  [InstanceId |-> id, NewData |-> NewDataFor(h, p, id, completed),
   InstanceCompleted |-> MapLock(id).CompletedEncountersMask \union completed,
   Completed |-> completed]

\* The players are served in that order.
Served(g, id, completed, order) ==
  FoldLeft(LAMBDA h, p : Updated(h, p, EventFor(h, p, id, completed)), g, order)

\* What an event says is well-typed.
EventsTyped(id, completed) ==
  /\ id \in Ids /\ completed \subseteq Encounters /\ i_maps[id].done \subseteq Encounters
  /\ MapLock(id).CompletedEncountersMask \subseteq Encounters

\* An event about an instance is one.
LEMMA EventType ==
  ASSUME NEW h \in Managers, NEW p \in Players, NEW id, NEW completed, EventsTyped(id, completed)
  PROVE  EventFor(h, p, id, completed) \in Events
<1>1. h.permanent[p] \in LockTypes \union {Absent} /\ h.temporary[p] \in LockTypes \union {Absent}
  BY DEF Managers
<1>2. FindActive(h, p, FALSE) # Absent => LockAt(h, FindActive(h, p, FALSE)) \in LockTypes
  BY FoundLock
<1>3. FindActive(h, p, FALSE) # Absent => LockAt(h, FindActive(h, p, FALSE)).Data \subseteq Encounters
  BY <1>2 DEF LockTypes
<1>4. NewDataFor(h, p, id, completed) \subseteq Encounters
  BY <1>3 DEF NewDataFor, EventsTyped
<1> QED
  BY <1>4 DEF EventFor, Events, EventsTyped

\* s are the states of the manager on the way.
ServedSteps(s, g, id, completed, order, n) ==
  /\ s \in [0..n -> Managers] /\ s[0] = g
  /\ \A k \in 1..n :
       s[k] = Updated(s[k - 1], order[k], EventFor(s[k - 1], order[k], id, completed))

\* The fold over the players is a sequence of states of the manager.
LEMMA ServedInSteps ==
  ASSUME NEW g \in Managers, NEW id, NEW completed, EventsTyped(id, completed),
         NEW n \in Nat, NEW order \in [1..n -> Players], period \in 0..MaxPeriod
  PROVE  \E s : ServedSteps(s, g, id, completed, order, n) /\ s[n] = Served(g, id, completed, order)
<1> DEFINE T == Managers
           Next1(h, p) == Updated(h, p, EventFor(h, p, id, completed))
           F == [x \in T \X (Nat \ {0}) |-> IF x[2] \in 1..n THEN Next1(x[1], order[x[2]]) ELSE x[1]]
           Step(h) == [s \in SUBSET (1..n) |->
                         IF s = {} THEN g ELSE Next1(h[s \ {Max(s)}], order[Max(s)])]
           iter == CHOOSE h : h = Step(h)
<1>1. DOMAIN order = 1..n
  OBVIOUS
<1>2. Served(g, id, completed, order) = iter[1..n]
  BY <1>1 DEF Served, FoldLeft, MapThenFoldSet
<1>2a. \A h \in Managers, p \in Players : Next1(h, p) \in Managers
  BY EventType, WhatUpdatedDoes
<1> HIDE DEF Next1
<1>3. F \in [T \X (Nat \ {0}) -> T]
  <2> SUFFICES ASSUME NEW x \in T \X (Nat \ {0}), x[2] \in 1..n PROVE Next1(x[1], order[x[2]]) \in T
    OBVIOUS
  <2>1. x[1] \in T /\ order[x[2]] \in Players
    OBVIOUS
  <2> QED
    BY <1>2a, <2>1
<1> HIDE DEF T
<1>0. g \in T
  BY DEF T
<1>4. PICK f : Folds(f, n, T, g, F)
  <2> HIDE DEF F
  <2> QED
    BY <1>0, <1>3, FoldExists
<1>5. \A s \in SUBSET (1..n) : f[s] = IF s = {} THEN g ELSE Next1(f[s \ {Max(s)}], order[Max(s)])
  <2> TAKE s \in SUBSET (1..n)
  <2>1. CASE s = {}
    <3> HIDE DEF F
    <3> QED
      BY <1>4, <2>1 DEF Folds
  <2>2. CASE s # {}
    <3>1. Max(s) \in s
      BY <2>2, MaxIsElement
    <3>2. s \ {Max(s)} \in SUBSET (1..n) /\ Max(s) \in 1..n /\ Max(s) \in Nat \ {0}
      <4>1. s \ {Max(s)} \in SUBSET (1..n) /\ Max(s) \in 1..n
        BY <3>1
      <4>2. \A k \in 1..n : k \in Nat \ {0}
        OBVIOUS
      <4> QED
        BY <4>1, <4>2
    <3>3. f[s] = F[<<f[s \ {Max(s)}], Max(s)>>] /\ f[s \ {Max(s)}] \in T
      <4> HIDE DEF F
      <4> QED
        BY <1>4, <2>2, <3>2 DEF Folds
    <3>4. <<f[s \ {Max(s)}], Max(s)>> \in T \X (Nat \ {0})
      BY <3>2, <3>3
    <3> QED
      BY <2>2, <3>2, <3>3, <3>4
  <2> QED
    BY <2>1, <2>2
<1>6. f = Step(f)
  <2>1. f = [s \in SUBSET (1..n) |-> f[s]]
    <3> HIDE DEF F
    <3> QED
      BY <1>4 DEF Folds
  <2> HIDE DEF F
  <2> QED
    BY <1>5, <2>1
<1>7. iter = Step(iter)
  <2> HIDE DEF Step
  <2> QED
    BY <1>6
<1> HIDE DEF iter
<1> DEFINE states == [k \in 0..n |-> iter[1..k]]
<1>8. states[0] = g
  <2>1. 1..0 = {} /\ {} \in SUBSET (1..n) /\ 0 \in 0..n
    OBVIOUS
  <2> QED
    BY <1>7, <2>1
<1>9. ASSUME NEW k \in 1..n PROVE states[k] = Next1(states[k - 1], order[k])
  <2>1. /\ 1..k \in SUBSET (1..n) /\ 1..k # {} /\ Max(1..k) = k /\ (1..k) \ {k} = 1..(k - 1)
        /\ k \in 0..n /\ k - 1 \in 0..n
    BY IntervalTop
  <2>2. iter[1..k] = Next1(iter[(1..k) \ {Max(1..k)}], order[Max(1..k)])
    BY <1>7, <2>1
  <2> QED
    BY <2>1, <2>2
<1>10. \A k \in 0..n : states[k] \in T
  <2> DEFINE S == {k \in 0..n : states[k] \in T}
  <2>1. 0 \in S
    BY <1>0, <1>8
  <2>2. ASSUME NEW k \in 1..n, k - 1 \in S PROVE k \in S
    <3>1. states[k - 1] \in Managers /\ order[k] \in Players /\ k \in 0..n
      BY <2>2 DEF T
    <3>2. states[k] = Next1(states[k - 1], order[k])
      BY <1>9
    <3> HIDE DEF states
    <3> QED
      BY <1>2a, <3>1, <3>2 DEF T
  <2> HIDE DEF S
  <2>3. \A k \in 0..n : k \in S
    BY <2>1, <2>2, InductionUpTo
  <2> QED
    BY <2>3 DEF S
<1>11. ServedSteps(states, g, id, completed, order, n)
  <2>1. states \in [0..n -> Managers]
    BY <1>10 DEF T
  <2> QED
    BY <1>8, <1>9, <2>1 DEF ServedSteps, Next1
<1>12. states[n] = Served(g, id, completed, order)
  <2>1. n \in 0..n
    OBVIOUS
  <2> QED
    BY <1>2, <2>1
<1> QED
  BY <1>11, <1>12

\* What has been done when the players in s have been served.
ServedSoFar(g, h, used, id, s) ==
  /\ MgrInv(h, used, IsInstanceIdBound)
  /\ IsInstanceIdBound => h.shared[id] = g.shared[id]
  /\ \A q \in Players \ s : h.permanent[q] = g.permanent[q] /\ h.temporary[q] = g.temporary[q]
  /\ \A q \in s :
       /\ h.permanent[q] # Absent /\ h.permanent[q].instanceId = id
       /\ Counts(g, q) =>
            g.permanent[q].CompletedEncountersMask \subseteq h.permanent[q].CompletedEncountersMask
  /\ \A x \in Ids :
       \/ h.mapLock[x] = g.mapLock[x]
       \/ \E q \in s : g.mapLock[x] = Temp(q) /\ h.mapLock[x] = Perm(q)
       \/ \E q \in s : g.mapLock[x] = Perm(q) /\ ~Counts(g, q) /\ h.mapLock[x] = Deleted

\* The manager when the instance has saved what was done.
Ready(g, used, id, completed) ==
  /\ MgrInv(g, used, IsInstanceIdBound) /\ id \in used /\ EventsTyped(id, completed)
  /\ IsInstanceIdBound =>
       /\ g.shared[id] # Absent
       /\ completed \union MapLock(id).CompletedEncountersMask
            \subseteq g.shared[id].CompletedEncountersMask

\* The next player is served; the others' locks are as they were.
LEMMA OneMoreServed ==
  ASSUME NEW g, NEW used, NEW id, NEW completed, Ready(g, used, id, completed),
         NEW s \in SUBSET Players, NEW p \in Players, p \notin s, AssertionsHold(g, p, id),
         NEW h, ServedSoFar(g, h, used, id, s), period \in 0..MaxPeriod
  PROVE  ServedSoFar(g, Updated(h, p, EventFor(h, p, id, completed)), used, id, s \union {p})
<1> DEFINE event == EventFor(h, p, id, completed)
           u == Updated(h, p, event)
<1>1. MgrInv(h, used, IsInstanceIdBound) /\ h \in Managers
  BY DEF ServedSoFar, MgrInv
<1>2. event \in Events /\ event.InstanceId = id /\ event.Completed = completed
      /\ event.InstanceCompleted = MapLock(id).CompletedEncountersMask \union completed
  BY <1>1, EventType DEF Ready, EventFor
<1>3. h.permanent[p] = g.permanent[p] /\ h.temporary[p] = g.temporary[p]
  BY DEF ServedSoFar
<1>4. Counts(h, p) <=> Counts(g, p)
  BY <1>3 DEF Counts
<1>5. AssertionsHold(h, p, id)
  <2> SUFFICES ASSUME IsInstanceIdBound PROVE AssertionsHold(h, p, id)
    BY DEF AssertionsHold
  <2>1. h.shared[id] = g.shared[id]
    BY DEF ServedSoFar
  <2>2. ExistingLock(h, p) = ExistingLock(g, p)
    BY <1>3, <1>4, WhatIsFound DEF ExistingLock
  <2>3. ExistingLock(g, p) \in {Perm(p), Temp(p), Absent}
    BY WhatIsFound DEF ExistingLock
  <2>4. ExistingLock(g, p) # Absent => LockAt(h, ExistingLock(h, p)) = LockAt(g, ExistingLock(g, p))
    BY <1>3, <2>2, <2>3, PlacesAreThere
  <2> QED
    BY <2>1, <2>2, <2>4 DEF AssertionsHold
<1>6. Fits(h, p, event)
  <2>1. IsInstanceIdBound =>
          /\ h.shared[id] = g.shared[id] /\ g.shared[id] # Absent
          /\ completed \union MapLock(id).CompletedEncountersMask \subseteq g.shared[id].CompletedEncountersMask
    BY DEF ServedSoFar, Ready
  <2> HIDE DEF event
  <2> QED
    BY <1>2, <1>5, <2>1 DEF Fits
<1>7. id \in used
  BY DEF Ready
<1>8. MgrInv(u, used, IsInstanceIdBound) /\ UpdateEffect(h, u, p, id, IsInstanceIdBound)
  <2> HIDE DEF event
  <2> QED
    BY <1>1, <1>2, <1>6, <1>7, UpdatedKeeps
<1> HIDE DEF u
<1>9. /\ \A q \in Players \ {p} : u.permanent[q] = h.permanent[q] /\ u.temporary[q] = h.temporary[q]
      /\ u.permanent[p] # Absent /\ u.permanent[p].instanceId = id
      /\ Counts(h, p) => h.permanent[p].CompletedEncountersMask \subseteq u.permanent[p].CompletedEncountersMask
      /\ IsInstanceIdBound => u.shared[id] = h.shared[id]
  BY <1>8 DEF UpdateEffect
<1>10. \A q \in Players \ (s \union {p}) : u.permanent[q] = g.permanent[q] /\ u.temporary[q] = g.temporary[q]
  BY <1>9 DEF ServedSoFar
<1>11. ASSUME NEW q \in s \union {p}
       PROVE  /\ u.permanent[q] # Absent /\ u.permanent[q].instanceId = id
              /\ Counts(g, q) =>
                   g.permanent[q].CompletedEncountersMask \subseteq u.permanent[q].CompletedEncountersMask
  <2>1. CASE q = p
    BY <1>3, <1>4, <1>9, <2>1
  <2>2. CASE q # p
    BY <1>9, <2>2 DEF ServedSoFar
  <2> QED
    BY <2>1, <2>2
<1>12. ASSUME NEW x \in Ids
       PROVE  \/ u.mapLock[x] = g.mapLock[x]
              \/ \E q \in s \union {p} : g.mapLock[x] = Temp(q) /\ u.mapLock[x] = Perm(q)
              \/ \E q \in s \union {p} : g.mapLock[x] = Perm(q) /\ ~Counts(g, q) /\ u.mapLock[x] = Deleted
  <2>1. \/ h.mapLock[x] = g.mapLock[x]
        \/ \E q \in s : g.mapLock[x] = Temp(q) /\ h.mapLock[x] = Perm(q)
        \/ \E q \in s : g.mapLock[x] = Perm(q) /\ ~Counts(g, q) /\ h.mapLock[x] = Deleted
    BY DEF ServedSoFar
  <2>2. CASE u.mapLock[x] = h.mapLock[x]
    BY <2>1, <2>2
  <2>3. CASE h.mapLock[x] = Temp(p) /\ u.mapLock[x] = Perm(p)
    <3>0. Temp(p) # Deleted /\ \A q \in s : Temp(p) # Perm(q)
      <4>1. \A q \in s : Temp(p).temporary # Perm(q).temporary
        BY DEF Temp, Perm
      <4> QED
        BY <4>1, PlacesAreThere
    <3>1. \A q \in s : h.mapLock[x] # Perm(q) /\ h.mapLock[x] # Deleted
      BY <2>3, <3>0
    <3> QED
      BY <2>1, <2>3, <3>1
  <2>4. CASE h.mapLock[x] = Perm(p) /\ ~Counts(h, p) /\ u.mapLock[x] = Deleted
    <3>0. \A q \in s : q \in Players /\ q # p
      OBVIOUS
    <3>1. \A q \in s : h.mapLock[x] # Perm(q) /\ h.mapLock[x] # Deleted
      BY <2>4, <3>0, PlacesAreThere
    <3> QED
      BY <1>4, <2>1, <2>4, <3>1
  <2> QED
    BY <1>8, <2>2, <2>3, <2>4 DEF UpdateEffect
<1>13. IsInstanceIdBound => u.shared[id] = g.shared[id]
  BY <1>9 DEF ServedSoFar
<1> QED
  BY <1>8, <1>10, <1>11, <1>12, <1>13 DEF ServedSoFar, u

\* UpdateInstanceLock keeps the invariant through every player inside.
LEMMA AllServed ==
  ASSUME NEW g, NEW used, NEW id, NEW completed, Ready(g, used, id, completed),
         NEW s \in SUBSET Players, \A p \in s : AssertionsHold(g, p, id), period \in 0..MaxPeriod
  PROVE  ServedSoFar(g, Served(g, id, completed, SetToSeq(s)), used, id, s)
<1> DEFINE n == Cardinality(s)
           order == SetToSeq(s)
<1>0. IsFiniteSet(s)
  BY InstanceAssumption, FS_Subset
<1>1. /\ n \in Nat /\ order \in [1..n -> s] /\ \A j, k \in 1..n : order[j] = order[k] => j = k
      /\ \A x \in s : \E k \in 1..n : order[k] = x
  BY <1>0, SetInSequence
<1>2. g \in Managers /\ MgrInv(g, used, IsInstanceIdBound) /\ EventsTyped(id, completed)
  BY DEF Ready, MgrInv
<1> HIDE DEF n, order
<1>3. PICK st : ServedSteps(st, g, id, completed, order, n) /\ st[n] = Served(g, id, completed, order)
  <2>1. order \in [1..n -> Players]
    BY <1>1
  <2> QED
    BY <1>1, <1>2, <2>1, ServedInSteps
<1> DEFINE seen(k) == {order[j] : j \in 1..k}
           S == {k \in 0..n : ServedSoFar(g, st[k], used, id, seen(k))}
<1>4. 0 \in S
  <2>1. seen(0) = {} /\ st[0] = g
    BY <1>3 DEF ServedSteps
  <2> QED
    BY <1>1, <1>2, <2>1 DEF ServedSoFar
<1>5. ASSUME NEW k \in 1..n, k - 1 \in S PROVE k \in S
  <2>1. k \in 0..n /\ k \in 1..k /\ (\A j \in 1..k : j \in 1..(k - 1) \/ j = k)
        /\ (\A j \in 1..(k - 1) : j \in 1..k /\ j # k) /\ 1..k \subseteq 1..n
    BY <1>1
  <2>2. seen(k) = seen(k - 1) \union {order[k]} /\ seen(k - 1) \in SUBSET Players
        /\ order[k] \in Players /\ order[k] \in s
    BY <1>1, <2>1
  <2>3. order[k] \notin seen(k - 1)
    BY <1>1, <2>1
  <2>4. ServedSoFar(g, st[k - 1], used, id, seen(k - 1))
    BY <1>5
  <2>5. st[k] = Updated(st[k - 1], order[k], EventFor(st[k - 1], order[k], id, completed))
    BY <1>3 DEF ServedSteps
  <2> HIDE DEF seen
  <2>6. ServedSoFar(g, Updated(st[k - 1], order[k], EventFor(st[k - 1], order[k], id, completed)),
                    used, id, seen(k - 1) \union {order[k]})
    BY <2>2, <2>3, <2>4, OneMoreServed
  <2> QED
    BY <2>1, <2>2, <2>5, <2>6
<1>6. ServedSoFar(g, st[n], used, id, seen(n))
  <2> HIDE DEF S
  <2>1. \A k \in 0..n : k \in S
    BY <1>1, <1>4, <1>5, InductionUpTo
  <2>2. n \in 0..n
    BY <1>1
  <2> QED
    BY <2>1, <2>2 DEF S
<1>7. seen(n) = s
  BY <1>1
<1> HIDE DEF seen
<1> QED
  BY <1>3, <1>6, <1>7 DEF order

-----------------------------------------------------------------------------
(* The invariant of the steps. *)

\* Maps, ids and players.  A player's lock that counts names the instance the
\* player is in.
StateInv ==
  /\ kind \in Kinds /\ period \in 0..MaxPeriod /\ usedIds \subseteq Ids
  /\ i_maps \in [Ids -> MapTypes \union {Absent}]
  /\ at \in [Players -> Ids \union {0}] /\ _pendingBindId \in [Players -> Ids \union {0}]
  /\ Loaded \subseteq usedIds
  /\ \A id \in Ids : mgr.mapLock[id] = Absent <=> id \notin Loaded
  /\ \A p \in Players : at[p] # 0 => at[p] \in Loaded
  /\ IsInstanceIdBound =>
       \A p \in Players : at[p] # 0 /\ Counts(mgr, p) => mgr.permanent[p].instanceId = at[p]

InstancesInv == MgrInv(mgr, usedIds, IsInstanceIdBound) /\ StateInv

\* There are neither locks nor maps.
LEMMA InstancesInitKeeps == InstancesInit => InstancesInv
<1> SUFFICES ASSUME InstancesInit PROVE InstancesInv
  OBVIOUS
<1>1. /\ mgr \in Managers
      /\ \A p \in Players : mgr.permanent[p] = Absent /\ mgr.temporary[p] = Absent /\ mgr.lockRows[p] = Absent
      /\ \A id \in Ids : mgr.shared[id] = Absent /\ mgr.instanceRows[id] = Absent /\ mgr.mapLock[id] = Absent
  BY DEF InstancesInit, Managers
<1>2. MgrInv(mgr, usedIds, IsInstanceIdBound)
  BY <1>1 DEF MgrInv, LocksInv, UsedInv, BoundInv, Owned
<1>3. StateInv
  BY <1>1, InstanceAssumption DEF StateInv, InstancesInit, Loaded
<1> QED
  BY <1>2, <1>3 DEF InstancesInv

\* The invariant says what the runs check of types.
LEMMA InstancesTyped == InstancesInv => InstancesTypeOK
<1> SUFFICES ASSUME InstancesInv PROVE InstancesTypeOK
  OBVIOUS
<1>1. mgr \in Managers /\ LocksInv(mgr) /\ StateInv
  BY DEF InstancesInv, MgrInv
<1> QED
  BY <1>1 DEF InstancesTypeOK, LocksInv, StateInv, Managers

\* The invariant says that ids agree.
LEMMA InstancesAgree == InstancesInv => InstanceIdsAgree
<1> SUFFICES ASSUME InstancesInv, IsInstanceIdBound PROVE InstanceIdsAgree
  BY DEF InstanceIdsAgree
<1>1. mgr \in Managers /\ BoundInv(mgr) /\ StateInv
  BY DEF InstancesInv, MgrInv
<1>2. \A id \in Loaded : LockExists(id) => MapLock(id).instanceId = id /\ MapLock(id).isInUse
  BY <1>1 DEF StateInv, BoundInv, Owned, LockExists, MapLock, Loaded
<1>3. \A p \in Players : at[p] # 0 /\ FindActive(mgr, p, TRUE) # Absent =>
        mgr.permanent[p].instanceId = at[p]
  BY <1>1, WhatIsFound DEF StateInv
<1>4. \A lock \in (Range(mgr.permanent) \union Range(mgr.temporary)) \ {Absent} :
         /\ mgr.shared[lock.instanceId] # Absent
         /\ lock.CompletedEncountersMask \subseteq mgr.shared[lock.instanceId].CompletedEncountersMask
  <2> SUFFICES ASSUME NEW lock \in (Range(mgr.permanent) \union Range(mgr.temporary)) \ {Absent}
               PROVE  Shown(mgr, lock)
    BY DEF Shown
  <2>1. DOMAIN mgr.permanent = Players /\ DOMAIN mgr.temporary = Players
    BY <1>1 DEF Managers
  <2>2. PICK p \in Players : lock = mgr.permanent[p] \/ lock = mgr.temporary[p]
    BY <2>1 DEF Range
  <2> QED
    BY <1>1, <2>2 DEF BoundInv
<1> QED
  BY <1>2, <1>3, <1>4 DEF InstanceIdsAgree

\* What may not happen to a lock that counts, and to the lock of a map.
NothingForgotten(g, h) ==
  \A p \in Players : Counts(g, p) =>
    /\ IsInstanceIdBound => h.permanent[p].instanceId = g.permanent[p].instanceId
    /\ \A e \in g.permanent[p].CompletedEncountersMask :
         h.permanent[p] # Absent /\ e \in h.permanent[p].CompletedEncountersMask

LocksOutlive(g, h) ==
  \A id \in Ids : Owned(g, id) /\ h.mapLock[id] = Deleted => ~Active(LockAt(g, g.mapLock[id]))

StepKeeps ==
  InstancesInv' /\ NothingForgotten(mgr, mgr') /\ LocksOutlive(mgr, mgr')

\* A lock that stays where it is, or shows what it showed, is neither forgotten
\* nor deleted.
LEMMA SameLocks ==
  ASSUME NEW g, NEW h, g \in Managers, h.mapLock = g.mapLock,
         \A p \in Players : g.permanent[p] # Absent =>
           /\ h.permanent[p] # Absent
           /\ h.permanent[p].CompletedEncountersMask = g.permanent[p].CompletedEncountersMask
           /\ IsInstanceIdBound => h.permanent[p].instanceId = g.permanent[p].instanceId
  PROVE  NothingForgotten(g, h) /\ LocksOutlive(g, h)
BY DEF NothingForgotten, LocksOutlive, Counts, Owned

\* Steps of players and of time, which leave the locks as they are.
LEMMA LeaveKeeps == ASSUME InstancesInv, NEW p \in Players, LeaveInstance(p) PROVE InstancesInv'
<1>1. /\ at' = [at EXCEPT ![p] = 0]
      /\ UNCHANGED <<kind, period, mgr, i_maps, usedIds, _pendingBindId>>
  BY DEF LeaveInstance
<1>2. IsInstanceIdBound' = IsInstanceIdBound /\ Loaded' = Loaded
      /\ (\A q \in Players : Counts(mgr, q)' <=> Counts(mgr, q))
  BY <1>1 DEF IsInstanceIdBound, Loaded, Counts, Active, IsExpired
<1>3. MgrInv(mgr, usedIds, IsInstanceIdBound)'
  BY <1>1, <1>2 DEF InstancesInv
<1>4. StateInv'
  BY <1>1, <1>2 DEF InstancesInv, StateInv
<1> QED
  BY <1>3, <1>4 DEF InstancesInv

\* A player does not bind, and leaves.
LEMMA DeclineKeeps == ASSUME InstancesInv, NEW p \in Players, DeclinePendingBind(p) PROVE InstancesInv'
<1>1. /\ at' = [at EXCEPT ![p] = 0] /\ _pendingBindId' = [_pendingBindId EXCEPT ![p] = 0]
      /\ UNCHANGED <<kind, period, mgr, i_maps, usedIds>>
  BY DEF DeclinePendingBind
<1>2. IsInstanceIdBound' = IsInstanceIdBound /\ Loaded' = Loaded
      /\ (\A q \in Players : Counts(mgr, q)' <=> Counts(mgr, q))
  BY <1>1 DEF IsInstanceIdBound, Loaded, Counts, Active, IsExpired
<1>3. MgrInv(mgr, usedIds, IsInstanceIdBound)'
  BY <1>1, <1>2 DEF InstancesInv
<1>4. StateInv'
  BY <1>1, <1>2 DEF InstancesInv, StateInv
<1> QED
  BY <1>3, <1>4 DEF InstancesInv

\* A map finds its lock expired.
LEMMA ExpireKeeps == ASSUME InstancesInv, NEW id \in Loaded, InstanceExpires(id) PROVE InstancesInv'
<1>1. /\ i_maps' = [i_maps EXCEPT ![id].i_instanceExpireEvent = period]
      /\ _pendingBindId' = [q \in Players |-> IF at[q] = id /\ kind # "flex" THEN id ELSE _pendingBindId[q]]
      /\ UNCHANGED <<kind, period, mgr, usedIds, at>>
  BY DEF InstanceExpires
<1>2. id \in Ids /\ i_maps[id] \in MapTypes /\ i_maps \in [Ids -> MapTypes \union {Absent}]
  BY DEF InstancesInv, StateInv, Loaded
<1>3. period \in -1 .. MaxPeriod
  BY InstanceAssumption DEF InstancesInv, StateInv
<1>4. [i_maps[id] EXCEPT !.i_instanceExpireEvent = period] \in MapTypes
  BY <1>2, <1>3 DEF MapTypes
<1>5. i_maps' \in [Ids -> MapTypes \union {Absent}] /\ Loaded' = Loaded
  BY <1>1, <1>2, <1>4, AbsentAssumption DEF Loaded
<1>6. IsInstanceIdBound' = IsInstanceIdBound
      /\ (\A q \in Players : Counts(mgr, q)' <=> Counts(mgr, q))
  BY <1>1 DEF IsInstanceIdBound, Counts, Active, IsExpired
<1>7. MgrInv(mgr, usedIds, IsInstanceIdBound)'
  BY <1>1, <1>6 DEF InstancesInv
<1>8. _pendingBindId' \in [Players -> Ids \union {0}]
  BY <1>1, <1>2 DEF InstancesInv, StateInv
<1>9. StateInv'
  BY <1>1, <1>5, <1>6, <1>8 DEF InstancesInv, StateInv
<1> QED
  BY <1>7, <1>9 DEF InstancesInv

\* A queued write is executed.
LEMMA WriteKeeps == ASSUME InstancesInv, WriteExecuted PROVE InstancesInv'
<1>1. UNCHANGED <<kind, period, mgr, i_maps, usedIds, at, _pendingBindId>>
  BY DEF WriteExecuted
<1>2. IsInstanceIdBound' = IsInstanceIdBound /\ Loaded' = Loaded
      /\ (\A q \in Players : Counts(mgr, q)' <=> Counts(mgr, q))
  BY <1>1 DEF IsInstanceIdBound, Loaded, Counts, Active, IsExpired
<1>3. MgrInv(mgr, usedIds, IsInstanceIdBound)'
  BY <1>1, <1>2 DEF InstancesInv
<1>4. StateInv'
  BY <1>1, <1>2 DEF InstancesInv, StateInv
<1> QED
  BY <1>3, <1>4 DEF InstancesInv

\* Another reset period begins: no lock counts that did not count.
LEMMA TimeKeeps == ASSUME InstancesInv, ResetTimePasses PROVE InstancesInv'
<1>1. /\ period' = period + 1 /\ period < MaxPeriod
      /\ UNCHANGED <<kind, mgr, i_maps, usedIds, at, _pendingBindId>>
  BY DEF ResetTimePasses
<1>2. period \in 0..MaxPeriod /\ period' \in 0..MaxPeriod
  BY <1>1, InstanceAssumption DEF InstancesInv, StateInv
<1>3. IsInstanceIdBound' = IsInstanceIdBound /\ Loaded' = Loaded
  BY <1>1 DEF IsInstanceIdBound, Loaded
<1>4. ASSUME NEW q \in Players, Counts(mgr, q)' PROVE Counts(mgr, q)
  <2>1. mgr.permanent[q] \in LockTypes
    BY <1>1, <1>4 DEF InstancesInv, MgrInv, Managers, Counts
  <2>2. mgr.permanent[q].expiryTime \in -1 .. MaxPeriod
    BY <2>1 DEF LockTypes
  <2>3. mgr.permanent[q].expiryTime < period => mgr.permanent[q].expiryTime < period'
    BY <1>1, <1>2, <2>2, InstanceAssumption
  <2> QED
    BY <1>1, <1>4, <2>3 DEF Counts, Active, IsExpired
<1>5. MgrInv(mgr, usedIds, IsInstanceIdBound)'
  BY <1>1, <1>3 DEF InstancesInv
<1>6. StateInv'
  BY <1>1, <1>2, <1>3, <1>4 DEF InstancesInv, StateInv
<1> QED
  BY <1>5, <1>6 DEF InstancesInv

\* Nothing happens.
LEMMA InstancesStutter == ASSUME InstancesInv, UNCHANGED instanceVars PROVE InstancesInv'
<1>1. UNCHANGED <<kind, period, mgr, i_maps, usedIds, at, _pendingBindId>>
  BY DEF instanceVars
<1>2. IsInstanceIdBound' = IsInstanceIdBound /\ Loaded' = Loaded
      /\ (\A q \in Players : Counts(mgr, q)' <=> Counts(mgr, q))
  BY <1>1 DEF IsInstanceIdBound, Loaded, Counts, Active, IsExpired
<1>3. MgrInv(mgr, usedIds, IsInstanceIdBound)'
  BY <1>1, <1>2 DEF InstancesInv
<1>4. StateInv'
  BY <1>1, <1>2 DEF InstancesInv, StateInv
<1> QED
  BY <1>3, <1>4 DEF InstancesInv

-----------------------------------------------------------------------------
(* The steps that change locks. *)

\* h differs from g in what locks do not show.
SameShow(g, h, bound) ==
  /\ \A l \in Places :
       /\ LockAt(h, l) # Absent <=> LockAt(g, l) # Absent
       /\ LockAt(g, l) # Absent =>
            /\ LockAt(h, l).isNew = LockAt(g, l).isNew
            /\ LockAt(h, l).CompletedEncountersMask = LockAt(g, l).CompletedEncountersMask
            /\ bound => LockAt(h, l).instanceId = LockAt(g, l).instanceId
  /\ \A p \in Players :
       /\ h.lockRows[p] # Absent <=> g.lockRows[p] # Absent
       /\ g.lockRows[p] # Absent =>
            /\ h.lockRows[p].isNew = g.lockRows[p].isNew
            /\ h.lockRows[p].CompletedEncountersMask = g.lockRows[p].CompletedEncountersMask
            /\ h.lockRows[p].instanceId = g.lockRows[p].instanceId
            /\ SameTime(h.lockRows[p], h.permanent[p])
  /\ h.shared = g.shared /\ h.instanceRows = g.instanceRows

MapsHaveLocks(h, bound) ==
  \A id \in Ids : Owned(h, id) =>
    /\ LockAt(h, h.mapLock[id]) # Absent
    /\ bound => LockAt(h, h.mapLock[id]).instanceId = id /\ LockAt(h, h.mapLock[id]).isInUse

\* The invariant of the manager is about what locks show, but for where the locks
\* of the maps are.
LEMMA ShowsTheSame ==
  ASSUME NEW g, NEW h \in Managers, NEW used, NEW used2, NEW bound, MgrInv(g, used, bound),
         SameShow(g, h, bound), UsedInv(h, used2), MapsHaveLocks(h, bound)
  PROVE  MgrInv(h, used2, bound)
<1>1. LocksInv(g) /\ (bound => BoundInv(g))
  BY DEF MgrInv
<1>2. ASSUME NEW p \in Players
      PROVE  /\ h.permanent[p] # Absent <=> g.permanent[p] # Absent
             /\ g.permanent[p] # Absent =>
                  /\ h.permanent[p].isNew = g.permanent[p].isNew
                  /\ h.permanent[p].CompletedEncountersMask = g.permanent[p].CompletedEncountersMask
                  /\ bound => h.permanent[p].instanceId = g.permanent[p].instanceId
             /\ h.temporary[p] # Absent <=> g.temporary[p] # Absent
             /\ g.temporary[p] # Absent =>
                  /\ h.temporary[p].isNew = g.temporary[p].isNew
                  /\ h.temporary[p].CompletedEncountersMask = g.temporary[p].CompletedEncountersMask
                  /\ bound => h.temporary[p].instanceId = g.temporary[p].instanceId
  <2>1. Perm(p) \in Places /\ Temp(p) \in Places
        /\ LockAt(g, Perm(p)) = g.permanent[p] /\ LockAt(g, Temp(p)) = g.temporary[p]
        /\ LockAt(h, Perm(p)) = h.permanent[p] /\ LockAt(h, Temp(p)) = h.temporary[p]
    BY PlacesAreThere
  <2> QED
    BY <2>1 DEF SameShow
<1>3. LocksInv(h)
  BY <1>1, <1>2 DEF LocksInv, SameShow, MapsHaveLocks
<1>4. ASSUME bound PROVE BoundInv(h)
  <2>1. BoundInv(g)
    BY <1>1, <1>4
  <2>2. h.shared = g.shared /\ h.instanceRows = g.instanceRows
    BY DEF SameShow
  <2>3. ASSUME NEW p \in Players
        PROVE  /\ h.permanent[p] # Absent => Shown(h, h.permanent[p])
               /\ h.temporary[p] # Absent => Shown(h, h.temporary[p])
    BY <1>2, <1>4, <2>1, <2>2 DEF BoundInv, Shown
  <2>4. ASSUME NEW p \in Players, h.lockRows[p] # Absent
        PROVE  h.lockRows[p].instanceId = h.permanent[p].instanceId
    <3>1. g.lockRows[p] # Absent /\ h.lockRows[p].instanceId = g.lockRows[p].instanceId
      BY <2>4 DEF SameShow
    <3>2. g.permanent[p] # Absent /\ g.lockRows[p].instanceId = g.permanent[p].instanceId
      BY <1>1, <2>1, <3>1 DEF LocksInv, BoundInv
    <3> QED
      BY <1>2, <1>4, <3>1, <3>2
  <2> QED
    BY <1>4, <2>1, <2>2, <2>3, <2>4 DEF BoundInv, MapsHaveLocks
<1> QED
  BY <1>3, <1>4 DEF MgrInv

\* A lock is put into its place.
LEMMA WhatPlacedDoes ==
  ASSUME NEW g \in Managers, NEW l \in Places, NEW lock \in LockTypes
  PROVE  /\ Placed(g, l, lock) \in Managers
         /\ LockAt(Placed(g, l, lock), l) = lock
         /\ \A l2 \in Places : l2 # l => LockAt(Placed(g, l, lock), l2) = LockAt(g, l2)
         /\ Placed(g, l, lock).lockRows = g.lockRows /\ Placed(g, l, lock).mapLock = g.mapLock
         /\ Placed(g, l, lock).shared = g.shared /\ Placed(g, l, lock).instanceRows = g.instanceRows
<1> DEFINE h == Placed(g, l, lock)
<1>1. PICK p \in Players : l = Perm(p) \/ l = Temp(p)
  BY PlaceOfSomebody
<1>2. /\ g.permanent \in [Players -> LockTypes \union {Absent}]
      /\ g.temporary \in [Players -> LockTypes \union {Absent}]
  BY DEF Managers
<1>3. ASSUME NEW l2 \in Places, l2 # l
      PROVE  \E q \in Players : \/ l2 = Perm(q) /\ (l = Perm(p) => q # p)
                                \/ l2 = Temp(q) /\ (l = Temp(p) => q # p)
  BY <1>1, <1>3, PlaceOfSomebody
<1>4. CASE l = Perm(p)
  <2>1. h = [g EXCEPT !.permanent[p] = lock]
    BY <1>4 DEF Placed, Perm
  <2>2. /\ h.permanent = [g.permanent EXCEPT ![p] = lock] /\ h.temporary = g.temporary
        /\ h.lockRows = g.lockRows /\ h.mapLock = g.mapLock
        /\ h.shared = g.shared /\ h.instanceRows = g.instanceRows /\ h \in Managers
    BY <2>1 DEF Managers
  <2>3. LockAt(h, l) = lock
    BY <1>2, <1>4, <2>2, PlacesAreThere
  <2>4. ASSUME NEW l2 \in Places, l2 # l PROVE LockAt(h, l2) = LockAt(g, l2)
    BY <1>2, <1>3, <1>4, <2>2, <2>4, PlacesAreThere
  <2> QED
    BY <2>2, <2>3, <2>4
<1>5. CASE l = Temp(p)
  <2>1. h = [g EXCEPT !.temporary[p] = lock]
    BY <1>5 DEF Placed, Temp
  <2>2. /\ h.temporary = [g.temporary EXCEPT ![p] = lock] /\ h.permanent = g.permanent
        /\ h.lockRows = g.lockRows /\ h.mapLock = g.mapLock
        /\ h.shared = g.shared /\ h.instanceRows = g.instanceRows /\ h \in Managers
    BY <2>1 DEF Managers
  <2>3. LockAt(h, l) = lock
    BY <1>2, <1>5, <2>2, PlacesAreThere
  <2>4. ASSUME NEW l2 \in Places, l2 # l PROVE LockAt(h, l2) = LockAt(g, l2)
    BY <1>2, <1>3, <1>5, <2>2, <2>4, PlacesAreThere
  <2> QED
    BY <2>2, <2>3, <2>4
<1> QED
  BY <1>1, <1>4, <1>5

\* UsedInv by places.
LEMMA UsedByPlaces ==
  ASSUME NEW h, NEW used
  PROVE  UsedInv(h, used) <=>
           \A l \in Places : LockAt(h, l) # Absent => LockAt(h, l).instanceId \in used
<1>1. \A p \in Players : /\ Perm(p) \in Places /\ Temp(p) \in Places
                         /\ LockAt(h, Perm(p)) = h.permanent[p] /\ LockAt(h, Temp(p)) = h.temporary[p]
  BY PlacesAreThere
<1>2. \A l \in Places : \E p \in Players : l = Perm(p) \/ l = Temp(p)
  BY PlaceOfSomebody
<1> QED
  BY <1>1, <1>2 DEF UsedInv

\* A permanent lock and its row change in what they do not show.
Unshown(g, h, p, perm, row) ==
  /\ g.permanent[p] # Absent /\ perm \in LockTypes /\ row \in LockTypes
  /\ perm.instanceId = g.permanent[p].instanceId /\ row.instanceId = g.lockRows[p].instanceId
  /\ perm.isNew = g.permanent[p].isNew /\ row.isNew = g.lockRows[p].isNew
  /\ perm.isInUse = g.permanent[p].isInUse
  /\ perm.CompletedEncountersMask = g.permanent[p].CompletedEncountersMask
  /\ row.CompletedEncountersMask = g.lockRows[p].CompletedEncountersMask
  /\ SameTime(row, perm)
  /\ h = [g EXCEPT !.permanent = [g.permanent EXCEPT ![p] = perm],
                   !.lockRows = [g.lockRows EXCEPT ![p] = row]]

\* Such a change of a lock and its row keeps the invariant.
LEMMA LockAndRow ==
  ASSUME NEW g, NEW h, NEW used, NEW bound, MgrInv(g, used, bound), NEW p \in Players,
         NEW perm, NEW row, Unshown(g, h, p, perm, row)
  PROVE  MgrInv(h, used, bound)
<1>0. /\ g.permanent[p] # Absent /\ perm \in LockTypes /\ row \in LockTypes
      /\ perm.instanceId = g.permanent[p].instanceId /\ row.instanceId = g.lockRows[p].instanceId
      /\ perm.isNew = g.permanent[p].isNew /\ row.isNew = g.lockRows[p].isNew
      /\ perm.isInUse = g.permanent[p].isInUse
      /\ perm.CompletedEncountersMask = g.permanent[p].CompletedEncountersMask
      /\ row.CompletedEncountersMask = g.lockRows[p].CompletedEncountersMask
      /\ SameTime(row, perm)
      /\ h = [g EXCEPT !.permanent = [g.permanent EXCEPT ![p] = perm],
                       !.lockRows = [g.lockRows EXCEPT ![p] = row]]
  BY DEF Unshown
<1>1. g \in Managers /\ LocksInv(g) /\ UsedInv(g, used) /\ (bound => BoundInv(g))
  BY DEF MgrInv
<1>2. /\ g.permanent \in [Players -> LockTypes \union {Absent}]
      /\ g.lockRows \in [Players -> LockTypes \union {Absent}]
  BY <1>1 DEF Managers
<1>3. h \in Managers
  BY <1>0, <1>1, <1>2 DEF Managers
<1>4. /\ h.permanent = [g.permanent EXCEPT ![p] = perm] /\ h.lockRows = [g.lockRows EXCEPT ![p] = row]
      /\ h.temporary = g.temporary /\ h.shared = g.shared /\ h.mapLock = g.mapLock
      /\ h.instanceRows = g.instanceRows
  BY <1>0, <1>1 DEF Managers
<1>5. perm # Absent /\ row # Absent /\ g.lockRows[p] # Absent
  BY <1>0, <1>1, AbsentAssumption DEF LocksInv
<1>6. \A l \in Places :
        /\ LockAt(h, l) # Absent <=> LockAt(g, l) # Absent
        /\ LockAt(g, l) # Absent =>
             /\ LockAt(h, l).isNew = LockAt(g, l).isNew
             /\ LockAt(h, l).CompletedEncountersMask = LockAt(g, l).CompletedEncountersMask
             /\ LockAt(h, l).instanceId = LockAt(g, l).instanceId
             /\ LockAt(h, l).isInUse = LockAt(g, l).isInUse
  <2> TAKE l \in Places
  <2>1. PICK q \in Players : l = Perm(q) \/ l = Temp(q)
    BY PlaceOfSomebody
  <2>2. CASE l = Perm(p)
    <3>1. LockAt(g, l) = g.permanent[p] /\ LockAt(h, l) = perm
      <4>1. LockAt(g, l) = g.permanent[p] /\ LockAt(h, l) = h.permanent[p]
        BY <2>2, PlacesAreThere
      <4> QED
        BY <1>2, <1>4, <4>1
    <3> QED
      BY <1>0, <1>5, <3>1
  <2>3. CASE l # Perm(p)
    <3>1. LockAt(h, l) = LockAt(g, l)
      <4>1. CASE l = Perm(q) /\ q # p
        <5>1. LockAt(g, l) = g.permanent[q] /\ LockAt(h, l) = h.permanent[q]
          BY <4>1, PlacesAreThere
        <5> QED
          BY <1>2, <1>4, <4>1, <5>1
      <4>2. CASE l = Temp(q)
        <5>1. LockAt(g, l) = g.temporary[q] /\ LockAt(h, l) = h.temporary[q]
          BY <4>2, PlacesAreThere
        <5> QED
          BY <1>4, <5>1
      <4> QED
        BY <2>1, <2>3, <4>1, <4>2
    <3> QED
      BY <3>1
  <2> QED
    BY <2>2, <2>3
<1>7. \A q \in Players :
       /\ h.lockRows[q] # Absent <=> g.lockRows[q] # Absent
       /\ g.lockRows[q] # Absent =>
            /\ h.lockRows[q].isNew = g.lockRows[q].isNew
            /\ h.lockRows[q].CompletedEncountersMask = g.lockRows[q].CompletedEncountersMask
            /\ h.lockRows[q].instanceId = g.lockRows[q].instanceId
            /\ SameTime(h.lockRows[q], h.permanent[q])
  <2>1. ASSUME NEW q \in Players, g.lockRows[q] # Absent PROVE SameTime(h.lockRows[q], h.permanent[q])
    <3>1. CASE q = p
      BY <1>0, <1>2, <1>4, <3>1
    <3>2. CASE q # p
      BY <1>1, <1>2, <1>4, <2>1, <3>2 DEF LocksInv
    <3> QED
      BY <3>1, <3>2
  <2> QED
    BY <1>0, <1>2, <1>4, <1>5, <2>1
<1>8. SameShow(g, h, bound)
  BY <1>4, <1>6, <1>7 DEF SameShow
<1>9. UsedInv(h, used)
  BY <1>1, <1>6, UsedByPlaces
<1>10. MapsHaveLocks(h, bound)
  <2>1. ASSUME NEW id \in Ids, Owned(h, id)
        PROVE  /\ LockAt(h, h.mapLock[id]) # Absent
               /\ bound => LockAt(h, h.mapLock[id]).instanceId = id /\ LockAt(h, h.mapLock[id]).isInUse
    <3>1. h.mapLock[id] = g.mapLock[id] /\ Owned(g, id) /\ g.mapLock[id] \in Places
      BY <1>1, <1>4, <2>1 DEF Owned, Managers
    <3>2. LockAt(g, g.mapLock[id]) # Absent
          /\ (bound => LockAt(g, g.mapLock[id]).instanceId = id /\ LockAt(g, g.mapLock[id]).isInUse)
      BY <1>1, <3>1 DEF LocksInv, BoundInv
    <3> QED
      BY <1>6, <3>1, <3>2
  <2> QED
    BY <2>1 DEF MapsHaveLocks
<1> QED
  BY <1>3, <1>8, <1>9, <1>10, ShowsTheSame

\* A lock is extended, or no longer.
LEMMA ExtendKeeps ==
  ASSUME InstancesInv, NEW p \in Players, NEW extended \in BOOLEAN, ExtendLock(p, extended)
  PROVE  StepKeeps
<1>1. /\ at[p] = 0 /\ mgr.permanent[p] # Absent
      /\ mgr' = [mgr EXCEPT !.permanent[p].extended = extended, !.lockRows[p].extended = extended]
      /\ UNCHANGED <<kind, period, i_maps, usedIds, at, _pendingBindId>>
  BY DEF ExtendLock
<1>2. mgr \in Managers /\ LocksInv(mgr) /\ MgrInv(mgr, usedIds, IsInstanceIdBound)
  BY DEF InstancesInv, MgrInv
<1>3. mgr.permanent[p] \in LockTypes /\ mgr.lockRows[p] \in LockTypes
  BY <1>1, <1>2 DEF Managers, LocksInv
<1> DEFINE perm == [mgr.permanent[p] EXCEPT !.extended = extended]
           row == [mgr.lockRows[p] EXCEPT !.extended = extended]
<1>4. /\ perm \in LockTypes /\ row \in LockTypes
      /\ perm.instanceId = mgr.permanent[p].instanceId /\ row.instanceId = mgr.lockRows[p].instanceId
      /\ perm.isNew = mgr.permanent[p].isNew /\ row.isNew = mgr.lockRows[p].isNew
      /\ perm.isInUse = mgr.permanent[p].isInUse
      /\ perm.CompletedEncountersMask = mgr.permanent[p].CompletedEncountersMask
      /\ row.CompletedEncountersMask = mgr.lockRows[p].CompletedEncountersMask
      /\ SameTime(row, perm)
  <2>1. SameTime(mgr.lockRows[p], mgr.permanent[p])
    BY <1>1, <1>2 DEF LocksInv
  <2> QED
    BY <1>3, <2>1 DEF LockTypes, SameTime
<1>5. mgr' = [mgr EXCEPT !.permanent = [mgr.permanent EXCEPT ![p] = perm],
                         !.lockRows = [mgr.lockRows EXCEPT ![p] = row]]
  BY <1>1, <1>2 DEF Managers
<1> HIDE DEF perm, row
<1>6. MgrInv(mgr', usedIds, IsInstanceIdBound)
  <2>1. Unshown(mgr, mgr', p, perm, row)
    BY <1>1, <1>4, <1>5 DEF Unshown
  <2> QED
    BY <1>2, <2>1, LockAndRow
<1>7. MgrInv(mgr, usedIds, IsInstanceIdBound)'
  BY <1>1, <1>6 DEF IsInstanceIdBound
<1>8. /\ mgr'.mapLock = mgr.mapLock /\ \A q \in Players \ {p} : mgr'.permanent[q] = mgr.permanent[q]
  BY <1>2, <1>5 DEF Managers
<1>9. ASSUME NEW q \in Players, at[q] # 0, Counts(mgr, q)'
      PROVE  Counts(mgr, q) /\ mgr'.permanent[q] = mgr.permanent[q]
  BY <1>1, <1>8, <1>9 DEF Counts, Active, IsExpired
<1>10. StateInv'
  BY <1>1, <1>8, <1>9 DEF InstancesInv, StateInv, IsInstanceIdBound, Loaded
<1>11. ASSUME NEW q \in Players, mgr.permanent[q] # Absent
       PROVE  /\ mgr'.permanent[q] # Absent
              /\ mgr'.permanent[q].CompletedEncountersMask = mgr.permanent[q].CompletedEncountersMask
              /\ mgr'.permanent[q].instanceId = mgr.permanent[q].instanceId
  <2>1. mgr'.permanent[p] = perm /\ perm # Absent
    BY <1>2, <1>4, <1>5, AbsentAssumption DEF Managers
  <2> QED
    BY <1>4, <1>8, <1>11, <2>1
<1>12. NothingForgotten(mgr, mgr') /\ LocksOutlive(mgr, mgr')
  <2>1. PICK h : h = mgr'
    OBVIOUS
  <2>2. NothingForgotten(mgr, h) /\ LocksOutlive(mgr, h)
    BY <1>2, <1>8, <1>11, <2>1, SameLocks
  <2> QED
    BY <2>1, <2>2
<1> QED
  BY <1>7, <1>10, <1>12 DEF InstancesInv, StepKeeps

\* A lock that is not in use expires by command.
LEMMA ResetLockKeeps ==
  ASSUME InstancesInv, NEW p \in Players, ResetLock(p)
  PROVE  StepKeeps
<1>1. /\ mgr.permanent[p] # Absent
      /\ mgr' = [mgr EXCEPT !.permanent[p] = ForceExpired(@), !.lockRows[p] = ForceExpired(@)]
      /\ UNCHANGED <<kind, period, i_maps, usedIds, at, _pendingBindId>>
  BY DEF ResetLock
<1>2. mgr \in Managers /\ LocksInv(mgr) /\ MgrInv(mgr, usedIds, IsInstanceIdBound)
  BY DEF InstancesInv, MgrInv
<1>3. mgr.permanent[p] \in LockTypes /\ mgr.lockRows[p] \in LockTypes
  BY <1>1, <1>2 DEF Managers, LocksInv
<1> DEFINE perm == ForceExpired(mgr.permanent[p])
           row == ForceExpired(mgr.lockRows[p])
<1>4. /\ perm \in LockTypes /\ row \in LockTypes
      /\ perm.instanceId = mgr.permanent[p].instanceId /\ row.instanceId = mgr.lockRows[p].instanceId
      /\ perm.isNew = mgr.permanent[p].isNew /\ row.isNew = mgr.lockRows[p].isNew
      /\ perm.isInUse = mgr.permanent[p].isInUse
      /\ perm.CompletedEncountersMask = mgr.permanent[p].CompletedEncountersMask
      /\ row.CompletedEncountersMask = mgr.lockRows[p].CompletedEncountersMask
      /\ ~Active(perm) /\ SameTime(row, perm)
  <2>1. period \in Int /\ period - 1 \in -1 .. MaxPeriod /\ period - 1 < period
    BY InstanceAssumption DEF InstancesInv, StateInv
  <2> QED
    BY <1>3, <2>1 DEF LockTypes, ForceExpired, Active, IsExpired, SameTime
<1>5. mgr' = [mgr EXCEPT !.permanent = [mgr.permanent EXCEPT ![p] = perm],
                         !.lockRows = [mgr.lockRows EXCEPT ![p] = row]]
  BY <1>1, <1>2 DEF Managers
<1> HIDE DEF perm, row
<1>6. MgrInv(mgr', usedIds, IsInstanceIdBound)
  <2>1. Unshown(mgr, mgr', p, perm, row)
    BY <1>1, <1>4, <1>5 DEF Unshown
  <2> QED
    BY <1>2, <2>1, LockAndRow
<1>7. MgrInv(mgr, usedIds, IsInstanceIdBound)'
  BY <1>1, <1>6 DEF IsInstanceIdBound
<1>8. /\ mgr'.mapLock = mgr.mapLock /\ mgr'.permanent[p] = perm
      /\ \A q \in Players \ {p} : mgr'.permanent[q] = mgr.permanent[q]
  BY <1>2, <1>5 DEF Managers
<1>9. ASSUME NEW q \in Players, Counts(mgr, q)'
      PROVE  Counts(mgr, q) /\ mgr'.permanent[q] = mgr.permanent[q]
  <2>1. CASE q = p
    BY <1>1, <1>4, <1>8, <1>9, <2>1 DEF Counts, Active, IsExpired
  <2>2. CASE q # p
    BY <1>1, <1>8, <1>9, <2>2 DEF Counts, Active, IsExpired
  <2> QED
    BY <2>1, <2>2
<1>10. StateInv'
  BY <1>1, <1>8, <1>9 DEF InstancesInv, StateInv, IsInstanceIdBound, Loaded
<1>11. ASSUME NEW q \in Players, mgr.permanent[q] # Absent
       PROVE  /\ mgr'.permanent[q] # Absent
              /\ mgr'.permanent[q].CompletedEncountersMask = mgr.permanent[q].CompletedEncountersMask
              /\ mgr'.permanent[q].instanceId = mgr.permanent[q].instanceId
  <2>1. mgr'.permanent[p] = perm /\ perm # Absent
    BY <1>2, <1>4, <1>5, AbsentAssumption DEF Managers
  <2> QED
    BY <1>4, <1>8, <1>11, <2>1
<1>12. NothingForgotten(mgr, mgr') /\ LocksOutlive(mgr, mgr')
  <2>1. PICK h : h = mgr'
    OBVIOUS
  <2>2. NothingForgotten(mgr, h) /\ LocksOutlive(mgr, h)
    BY <1>2, <1>8, <1>11, <2>1, SameLocks
  <2> QED
    BY <2>1, <2>2
<1> QED
  BY <1>7, <1>10, <1>12 DEF InstancesInv, StepKeeps

\* The lock of a map that has one, and what it shows.
LEMMA LockOfMap ==
  ASSUME InstancesInv, NEW id \in Loaded, LockExists(id)
  PROVE  /\ id \in Ids /\ id \in usedIds /\ i_maps[id] \in MapTypes
         /\ Owned(mgr, id) /\ mgr.mapLock[id] \in Places
         /\ MapLock(id) \in LockTypes /\ MapLock(id) # Absent
         /\ IsInstanceIdBound =>
              /\ MapLock(id).instanceId = id /\ MapLock(id).isInUse
              /\ mgr.shared[id] # Absent
              /\ MapLock(id).CompletedEncountersMask \subseteq mgr.shared[id].CompletedEncountersMask
<1>1. mgr \in Managers /\ LocksInv(mgr) /\ (IsInstanceIdBound => BoundInv(mgr)) /\ StateInv
  BY DEF InstancesInv, MgrInv
<1>2. id \in Ids /\ id \in usedIds /\ i_maps[id] \in MapTypes
  BY <1>1 DEF StateInv, Loaded
<1>3. Owned(mgr, id) /\ mgr.mapLock[id] \in Places
  BY <1>1, <1>2 DEF StateInv, Owned, LockExists, Managers
<1>4. MapLock(id) # Absent
  BY <1>1, <1>2, <1>3 DEF LocksInv, MapLock
<1>5. PICK p \in Players : mgr.mapLock[id] = Perm(p) \/ mgr.mapLock[id] = Temp(p)
  BY <1>3, PlaceOfSomebody
<1>6. MapLock(id) = mgr.permanent[p] \/ MapLock(id) = mgr.temporary[p]
  BY <1>5, PlacesAreThere DEF MapLock
<1>7. MapLock(id) \in LockTypes
  BY <1>1, <1>4, <1>6 DEF Managers
<1>8. ASSUME IsInstanceIdBound
      PROVE  /\ MapLock(id).instanceId = id /\ MapLock(id).isInUse
             /\ mgr.shared[id] # Absent
             /\ MapLock(id).CompletedEncountersMask \subseteq mgr.shared[id].CompletedEncountersMask
  <2>1. MapLock(id).instanceId = id /\ MapLock(id).isInUse
    BY <1>1, <1>2, <1>3, <1>8 DEF BoundInv, MapLock
  <2>2. Shown(mgr, MapLock(id))
    BY <1>1, <1>4, <1>6, <1>8 DEF BoundInv
  <2> QED
    BY <2>1, <2>2 DEF Shown
<1> QED
  BY <1>2, <1>3, <1>4, <1>7, <1>8

\* A map without players goes, and its lock is in use no more.
LEMMA UnloadKeeps == ASSUME InstancesInv, NEW id \in Loaded, UnloadInstance(id) PROVE StepKeeps
<1> DEFINE l == mgr.mapLock[id]
           lock == [MapLock(id) EXCEPT !.isInUse = FALSE]
           h == Placed(mgr, l, lock)
<1>1. /\ Inside(id) = {} /\ LockExists(id)
      /\ i_maps' = [i_maps EXCEPT ![id] = Absent]
      /\ mgr' = [h EXCEPT !.mapLock[id] = Absent]
      /\ UNCHANGED <<kind, period, usedIds, at, _pendingBindId>>
  BY DEF UnloadInstance
<1>2. mgr \in Managers /\ MgrInv(mgr, usedIds, IsInstanceIdBound) /\ LocksInv(mgr) /\ StateInv
      /\ UsedInv(mgr, usedIds) /\ (IsInstanceIdBound => BoundInv(mgr))
  BY DEF InstancesInv, MgrInv
<1>3. id \in Ids /\ l \in Places /\ MapLock(id) \in LockTypes /\ MapLock(id) = LockAt(mgr, l) /\ MapLock(id) # Absent
  BY <1>1, LockOfMap DEF MapLock
<1>4. /\ lock \in LockTypes /\ lock # Absent
      /\ lock.instanceId = MapLock(id).instanceId /\ lock.isNew = MapLock(id).isNew
      /\ lock.CompletedEncountersMask = MapLock(id).CompletedEncountersMask
      /\ lock.expiryTime = MapLock(id).expiryTime /\ lock.extended = MapLock(id).extended
  BY <1>3, AbsentAssumption DEF LockTypes
<1> HIDE DEF l, lock
<1>5. /\ h \in Managers /\ LockAt(h, l) = lock
      /\ \A l2 \in Places : l2 # l => LockAt(h, l2) = LockAt(mgr, l2)
      /\ h.lockRows = mgr.lockRows /\ h.mapLock = mgr.mapLock
      /\ h.shared = mgr.shared /\ h.instanceRows = mgr.instanceRows
  BY <1>2, <1>3, <1>4, WhatPlacedDoes
<1> HIDE DEF h
<1>6. /\ mgr' \in Managers /\ mgr'.permanent = h.permanent /\ mgr'.temporary = h.temporary
      /\ mgr'.lockRows = h.lockRows /\ mgr'.shared = h.shared /\ mgr'.instanceRows = h.instanceRows
      /\ mgr'.mapLock = [mgr.mapLock EXCEPT ![id] = Absent]
  BY <1>1, <1>5 DEF Managers
<1>7. \A l2 : LockAt(mgr', l2) = LockAt(h, l2)
  BY <1>6 DEF LockAt
<1>8. SameShow(mgr, mgr', IsInstanceIdBound)
  <2>1. \A l2 \in Places :
          /\ LockAt(mgr', l2) # Absent <=> LockAt(mgr, l2) # Absent
          /\ LockAt(mgr, l2) # Absent =>
               /\ LockAt(mgr', l2).isNew = LockAt(mgr, l2).isNew
               /\ LockAt(mgr', l2).CompletedEncountersMask = LockAt(mgr, l2).CompletedEncountersMask
               /\ LockAt(mgr', l2).instanceId = LockAt(mgr, l2).instanceId
               /\ LockAt(mgr', l2).expiryTime = LockAt(mgr, l2).expiryTime
               /\ LockAt(mgr', l2).extended = LockAt(mgr, l2).extended
    BY <1>3, <1>4, <1>5, <1>7
  <2>2. ASSUME NEW p \in Players, mgr.lockRows[p] # Absent
        PROVE  SameTime(mgr'.lockRows[p], mgr'.permanent[p])
    <3>1. Perm(p) \in Places /\ LockAt(mgr, Perm(p)) = mgr.permanent[p]
          /\ LockAt(mgr', Perm(p)) = mgr'.permanent[p]
      BY PlacesAreThere
    <3>2. mgr.permanent[p] # Absent /\ SameTime(mgr.lockRows[p], mgr.permanent[p])
      BY <1>2, <2>2 DEF LocksInv
    <3> QED
      BY <1>5, <1>6, <2>1, <3>1, <3>2 DEF SameTime
  <2> QED
    BY <1>5, <1>6, <2>1, <2>2 DEF SameShow
<1>9. UsedInv(mgr', usedIds)
  <2>1. \A l2 \in Places : LockAt(mgr', l2) # Absent =>
          LockAt(mgr, l2) # Absent /\ LockAt(mgr', l2).instanceId = LockAt(mgr, l2).instanceId
    BY <1>3, <1>4, <1>5, <1>7
  <2> QED
    BY <1>2, <2>1, UsedByPlaces
<1>10. MapsHaveLocks(mgr', IsInstanceIdBound)
  <2> SUFFICES ASSUME NEW x \in Ids, Owned(mgr', x)
        PROVE  /\ LockAt(mgr', mgr'.mapLock[x]) # Absent
               /\ IsInstanceIdBound =>
                    LockAt(mgr', mgr'.mapLock[x]).instanceId = x /\ LockAt(mgr', mgr'.mapLock[x]).isInUse
    BY DEF MapsHaveLocks
  <2>1. x # id /\ mgr'.mapLock[x] = mgr.mapLock[x] /\ Owned(mgr, x) /\ mgr.mapLock[x] \in Places
    BY <1>2, <1>3, <1>6 DEF Owned, Managers
  <2>2. LockAt(mgr, mgr.mapLock[x]) # Absent
        /\ (IsInstanceIdBound => LockAt(mgr, mgr.mapLock[x]).instanceId = x /\ LockAt(mgr, mgr.mapLock[x]).isInUse)
    BY <1>2, <2>1 DEF LocksInv, BoundInv
  <2>3. IsInstanceIdBound => MapLock(id).instanceId = id
    BY <1>1, LockOfMap
  <2>4. IsInstanceIdBound => mgr.mapLock[x] # l
    BY <1>3, <2>1, <2>2, <2>3
  <2>5. CASE mgr.mapLock[x] = l
    BY <1>4, <1>5, <1>7, <2>1, <2>4, <2>5
  <2>6. CASE mgr.mapLock[x] # l
    BY <1>5, <1>7, <2>1, <2>2, <2>6
  <2> QED
    BY <2>5, <2>6
<1>11. MgrInv(mgr', usedIds, IsInstanceIdBound)
  BY <1>2, <1>6, <1>8, <1>9, <1>10, ShowsTheSame
<1>12. MgrInv(mgr, usedIds, IsInstanceIdBound)'
  BY <1>1, <1>11 DEF IsInstanceIdBound
<1>13. ASSUME NEW p \in Players
       PROVE  /\ mgr'.permanent[p] # Absent <=> mgr.permanent[p] # Absent
              /\ mgr.permanent[p] # Absent =>
                   /\ mgr'.permanent[p].CompletedEncountersMask = mgr.permanent[p].CompletedEncountersMask
                   /\ mgr'.permanent[p].instanceId = mgr.permanent[p].instanceId
              /\ Counts(mgr, p)' <=> Counts(mgr, p)
  <2>1. Perm(p) \in Places /\ LockAt(mgr, Perm(p)) = mgr.permanent[p]
        /\ LockAt(mgr', Perm(p)) = mgr'.permanent[p]
    BY PlacesAreThere
  <2>2. CASE Perm(p) = l
    <3>1. mgr'.permanent[p] = lock /\ mgr.permanent[p] = MapLock(id)
      BY <1>3, <1>5, <1>7, <2>1, <2>2
    <3> QED
      BY <1>1, <1>3, <1>4, <3>1 DEF Counts, Active, IsExpired
  <2>3. CASE Perm(p) # l
    <3>1. mgr'.permanent[p] = mgr.permanent[p]
      BY <1>5, <1>7, <2>1, <2>3
    <3> QED
      BY <1>1, <3>1 DEF Counts, Active, IsExpired
  <2> QED
    BY <2>2, <2>3
<1>14. StateInv'
  <2>1. Loaded' = Loaded \ {id} /\ i_maps' \in [Ids -> MapTypes \union {Absent}]
    BY <1>1, <1>2, <1>3 DEF StateInv, Loaded
  <2>2. \A x \in Ids : mgr'.mapLock[x] = Absent <=> x \notin Loaded'
    BY <1>2, <1>3, <1>6, <2>1 DEF StateInv, Managers
  <2>3. \A p \in Players : at[p] # 0 => at[p] \in Loaded'
    BY <1>1, <1>2, <2>1 DEF StateInv, Inside
  <2>4. IsInstanceIdBound =>
          \A p \in Players : at[p] # 0 /\ Counts(mgr, p)' => mgr'.permanent[p].instanceId = at[p]
    BY <1>2, <1>13 DEF StateInv, Counts
  <2> QED
    BY <1>1, <1>2, <2>1, <2>2, <2>3, <2>4 DEF StateInv, IsInstanceIdBound
<1>15. NothingForgotten(mgr, mgr')
  BY <1>13 DEF NothingForgotten, Counts
<1>16. LocksOutlive(mgr, mgr')
  <2>1. \A x \in Ids : mgr'.mapLock[x] = Deleted => mgr.mapLock[x] = Deleted
    BY <1>2, <1>3, <1>6, AbsentAssumption DEF Managers
  <2> QED
    BY <2>1 DEF LocksOutlive, Owned
<1> QED
  BY <1>12, <1>14, <1>15, <1>16 DEF StepKeeps, InstancesInv

-----------------------------------------------------------------------------
(* The steps that update locks. *)

\* The manager becomes what it is when the players in s, all of them in the
\* instance, have been served, with g to begin with.
ServingStep(g, id, s) ==
  /\ g.permanent = mgr.permanent /\ g.temporary = mgr.temporary /\ g.mapLock = mgr.mapLock
  /\ ServedSoFar(g, mgr', usedIds, id, s)
  /\ \A p \in s : at[p] = id
  /\ UNCHANGED <<kind, period, usedIds, at>>
  /\ i_maps' \in [Ids -> MapTypes \union {Absent}] /\ Loaded' = Loaded
  /\ _pendingBindId' \in [Players -> Ids \union {0}]

\* A step that serves players inside an instance.
LEMMA ServingKeeps ==
  ASSUME InstancesInv, NEW id \in Loaded, NEW s \in SUBSET Players, NEW g, ServingStep(g, id, s)
  PROVE  StepKeeps
<1>1. /\ g.permanent = mgr.permanent /\ g.temporary = mgr.temporary /\ g.mapLock = mgr.mapLock
      /\ \A p \in s : at[p] = id
      /\ UNCHANGED <<kind, period, usedIds, at>>
      /\ i_maps' \in [Ids -> MapTypes \union {Absent}] /\ Loaded' = Loaded
      /\ _pendingBindId' \in [Players -> Ids \union {0}]
  BY DEF ServingStep
<1>2. PICK h : h = mgr'
  OBVIOUS
<1>3. ServedSoFar(g, h, usedIds, id, s)
  BY <1>2 DEF ServingStep
<1>4. /\ MgrInv(h, usedIds, IsInstanceIdBound)
      /\ \A q \in Players \ s : h.permanent[q] = mgr.permanent[q]
      /\ \A q \in s :
           /\ h.permanent[q] # Absent /\ h.permanent[q].instanceId = id
           /\ Counts(mgr, q) =>
                mgr.permanent[q].CompletedEncountersMask \subseteq h.permanent[q].CompletedEncountersMask
      /\ \A x \in Ids :
           \/ h.mapLock[x] = mgr.mapLock[x]
           \/ \E q \in s : mgr.mapLock[x] = Temp(q) /\ h.mapLock[x] = Perm(q)
           \/ \E q \in s : mgr.mapLock[x] = Perm(q) /\ ~Counts(mgr, q) /\ h.mapLock[x] = Deleted
  BY <1>1, <1>3 DEF ServedSoFar, Counts
<1>5. MgrInv(mgr, usedIds, IsInstanceIdBound)'
  BY <1>1, <1>2, <1>4 DEF IsInstanceIdBound
<1>6. StateInv /\ LocksInv(mgr)
  BY DEF InstancesInv, MgrInv
<1>7. \A x \in Ids : h.mapLock[x] = Absent <=> mgr.mapLock[x] = Absent
  BY <1>4, PlacesAreThere, AbsentAssumption
<1>8. ASSUME IsInstanceIdBound, NEW p \in Players, at[p] # 0, Counts(mgr, p)'
      PROVE  mgr'.permanent[p].instanceId = at[p]
  <2>1. CASE p \in s
    BY <1>1, <1>2, <1>4, <2>1
  <2>2. CASE p \notin s
    <3>1. mgr'.permanent[p] = mgr.permanent[p]
      BY <1>2, <1>4, <2>2
    <3>2. Counts(mgr, p)
      BY <1>1, <1>8, <3>1 DEF Counts, Active, IsExpired
    <3> QED
      BY <1>6, <1>8, <3>1, <3>2 DEF StateInv
  <2> QED
    BY <2>1, <2>2
<1>9. StateInv'
  BY <1>1, <1>2, <1>6, <1>7, <1>8 DEF StateInv, IsInstanceIdBound, Counts
<1>10. NothingForgotten(mgr, h)
  <2>1. ASSUME IsInstanceIdBound, NEW p \in Players, Counts(mgr, p)
        PROVE  h.permanent[p].instanceId = mgr.permanent[p].instanceId
    <3>1. CASE p \in s
      <4>1. at[p] = id /\ id # 0
        BY <1>1, <1>6, <3>1 DEF StateInv, Loaded, Ids
      <4> QED
        BY <1>4, <1>6, <2>1, <3>1, <4>1 DEF StateInv
    <3>2. CASE p \notin s
      BY <1>4, <3>2
    <3> QED
      BY <3>1, <3>2
  <2> QED
    BY <1>4, <2>1 DEF NothingForgotten, Counts
<1>11. ASSUME NEW x \in Ids, Owned(mgr, x), h.mapLock[x] = Deleted
       PROVE  ~Active(LockAt(mgr, mgr.mapLock[x]))
  <2>1. LockAt(mgr, mgr.mapLock[x]) # Absent
    BY <1>6, <1>11 DEF LocksInv
  <2>2. PICK q \in s : mgr.mapLock[x] = Perm(q) /\ ~Counts(mgr, q)
    BY <1>4, <1>11, PlacesAreThere DEF Owned
  <2>3. LockAt(mgr, mgr.mapLock[x]) = mgr.permanent[q]
    BY <2>2, PlacesAreThere
  <2> QED
    BY <2>1, <2>2, <2>3 DEF Counts
<1>12. LocksOutlive(mgr, h)
  BY <1>11 DEF LocksOutlive
<1> QED
  BY <1>2, <1>5, <1>9, <1>10, <1>12 DEF InstancesInv, StepKeeps

\* A player binds to the instance.
LEMMA ConfirmKeeps ==
  ASSUME InstancesInv, NEW p \in Players, ConfirmPendingBind(p)
  PROVE  StepKeeps
<1> DEFINE id == at[p]
           event == [InstanceId |-> id, NewData |-> i_maps[id].done, Completed |-> {},
                     InstanceCompleted |-> MapLock(id).CompletedEncountersMask]
<1>1. /\ _pendingBindId[p] # 0
      /\ _pendingBindId' = [_pendingBindId EXCEPT ![p] = 0]
      /\ UNCHANGED <<kind, period, i_maps, usedIds, at>>
      /\ id = _pendingBindId[p] =>
           LockExists(id) /\ AssertionsHold(mgr, p, id) /\ mgr' = Updated(mgr, p, event)
      /\ id # _pendingBindId[p] => mgr' = mgr
  BY DEF ConfirmPendingBind
<1>2. mgr \in Managers /\ MgrInv(mgr, usedIds, IsInstanceIdBound) /\ StateInv /\ period \in 0..MaxPeriod
  BY DEF InstancesInv, MgrInv, StateInv
<1>3. _pendingBindId' \in [Players -> Ids \union {0}] /\ Loaded' = Loaded
      /\ i_maps' \in [Ids -> MapTypes \union {Absent}]
  BY <1>1, <1>2 DEF StateInv, Loaded
<1>4. CASE id = _pendingBindId[p]
  <2>1. id \in Loaded
    BY <1>1, <1>2, <1>4 DEF StateInv
  <2>2. /\ id \in Ids /\ id \in usedIds /\ i_maps[id] \in MapTypes /\ MapLock(id) \in LockTypes
        /\ IsInstanceIdBound =>
             /\ mgr.shared[id] # Absent
             /\ MapLock(id).CompletedEncountersMask \subseteq mgr.shared[id].CompletedEncountersMask
    BY <1>1, <1>4, <2>1, LockOfMap
  <2>3. event \in Events
    BY <2>2 DEF Events, MapTypes, LockTypes
  <2>4. Fits(mgr, p, event)
    BY <1>1, <1>4, <2>2 DEF Fits
  <2>5. event.InstanceId = id
    OBVIOUS
  <2> HIDE DEF event
  <2>6. PICK h : h = mgr'
    OBVIOUS
  <2>7. MgrInv(h, usedIds, IsInstanceIdBound) /\ UpdateEffect(mgr, h, p, id, IsInstanceIdBound)
    BY <1>1, <1>2, <1>4, <2>2, <2>3, <2>4, <2>5, <2>6, UpdatedKeeps
  <2>8. ServedSoFar(mgr, h, usedIds, id, {p})
    BY <2>7 DEF ServedSoFar, UpdateEffect
  <2>9. ServingStep(mgr, id, {p})
    BY <1>1, <1>3, <2>6, <2>8 DEF ServingStep
  <2> HIDE DEF id
  <2> QED
    BY <2>1, <2>9, ServingKeeps
<1>5. CASE id # _pendingBindId[p]
  <2>1. mgr' = mgr /\ IsInstanceIdBound' = IsInstanceIdBound
        /\ (\A q \in Players : Counts(mgr, q)' <=> Counts(mgr, q))
    BY <1>1, <1>5 DEF IsInstanceIdBound, Counts, Active, IsExpired
  <2>2. MgrInv(mgr, usedIds, IsInstanceIdBound)'
    BY <1>1, <1>2, <2>1
  <2>3. StateInv'
    BY <1>1, <1>2, <1>3, <2>1 DEF StateInv
  <2>4. NothingForgotten(mgr, mgr) /\ LocksOutlive(mgr, mgr)
    BY <1>2, SameLocks
  <2> QED
    BY <2>1, <2>2, <2>3, <2>4 DEF StepKeeps, InstancesInv
<1> QED
  BY <1>4, <1>5

\* The shared state of an instance takes in what was done; more is shown then.
SharedTakesIn(g, h, used, id, completed) ==
  /\ MgrInv(h, used, TRUE)
  /\ h.permanent = g.permanent /\ h.temporary = g.temporary /\ h.mapLock = g.mapLock
  /\ h.shared[id] # Absent
  /\ g.shared[id].CompletedEncountersMask \union completed
       \subseteq h.shared[id].CompletedEncountersMask

\* UpdateSharedInstanceLock.
LEMMA UpdatedSharedKeeps ==
  ASSUME NEW g, NEW used, NEW id \in Ids, NEW data \in SUBSET Encounters,
         NEW completed \in SUBSET Encounters,
         MgrInv(g, used, TRUE), g.shared[id] # Absent,
         NEW h, h = UpdatedShared(g, id, data, completed)
  PROVE  SharedTakesIn(g, h, used, id, completed)
<1> DEFINE new == [saved |-> TRUE, Data |-> data,
                   CompletedEncountersMask |-> g.shared[id].CompletedEncountersMask \union completed]
<1>1. g \in Managers /\ LocksInv(g) /\ UsedInv(g, used) /\ BoundInv(g)
  BY DEF MgrInv
<1>2. g.shared[id] \in SharedTypes /\ g.shared \in [Ids -> SharedTypes \union {Absent}]
      /\ g.instanceRows \in [Ids -> SharedTypes \union {Absent}]
  BY <1>1 DEF Managers
<1>3. new \in SharedTypes /\ new # Absent /\ new.saved
      /\ new.CompletedEncountersMask = g.shared[id].CompletedEncountersMask \union completed
  <2>1. g.shared[id].CompletedEncountersMask \subseteq Encounters
    BY <1>2 DEF SharedTypes
  <2>2. new \in SharedTypes
    BY <2>1 DEF SharedTypes
  <2> QED
    BY <2>2, AbsentAssumption
<1>4. h = [g EXCEPT !.shared = [g.shared EXCEPT ![id] = new],
                    !.instanceRows = [g.instanceRows EXCEPT ![id] = new]]
  BY <1>1 DEF UpdatedShared, Managers
<1> HIDE DEF new
<1>5. /\ h.shared = [g.shared EXCEPT ![id] = new] /\ h.instanceRows = [g.instanceRows EXCEPT ![id] = new]
      /\ h.permanent = g.permanent /\ h.temporary = g.temporary /\ h.mapLock = g.mapLock
      /\ h.lockRows = g.lockRows /\ h \in Managers
  <2>1. /\ [g.shared EXCEPT ![id] = new] \in [Ids -> SharedTypes \union {Absent}]
        /\ [g.instanceRows EXCEPT ![id] = new] \in [Ids -> SharedTypes \union {Absent}]
    BY <1>2, <1>3
  <2>2. h \in Managers
    BY <1>1, <1>4, <2>1 DEF Managers
  <2> QED
    BY <1>1, <1>4, <2>2 DEF Managers
<1>6. /\ \A x \in Ids \ {id} : h.shared[x] = g.shared[x] /\ h.instanceRows[x] = g.instanceRows[x]
      /\ h.shared[id] = new /\ h.instanceRows[id] = new
  BY <1>2, <1>5
<1>7. LocksInv(h) /\ UsedInv(h, used)
  BY <1>1, <1>5 DEF LocksInv, UsedInv, Owned, LockAt
<1>8. \A lock \in LockTypes : Shown(g, lock) => Shown(h, lock)
  <2> SUFFICES ASSUME NEW lock \in LockTypes, Shown(g, lock) PROVE Shown(h, lock)
    OBVIOUS
  <2>1. lock.instanceId \in Ids
    BY DEF LockTypes
  <2>2. CASE lock.instanceId = id
    BY <1>3, <1>6, <2>2 DEF Shown
  <2>3. CASE lock.instanceId # id
    BY <1>6, <2>1, <2>3 DEF Shown
  <2> QED
    BY <2>2, <2>3
<1>9. BoundInv(h)
  <2>1. \A p \in Players : /\ h.permanent[p] # Absent => Shown(h, h.permanent[p])
                           /\ h.temporary[p] # Absent => Shown(h, h.temporary[p])
                           /\ h.lockRows[p] # Absent => h.lockRows[p].instanceId = h.permanent[p].instanceId
    BY <1>1, <1>5, <1>8 DEF BoundInv, Managers
  <2>2. \A x \in Ids : /\ h.instanceRows[x] # Absent => h.instanceRows[x].saved
                       /\ h.shared[x] # Absent =>
                            IF h.shared[x].saved THEN h.instanceRows[x] = h.shared[x]
                            ELSE h.shared[x].CompletedEncountersMask = {}
    <3> TAKE x \in Ids
    <3>1. CASE x = id
      BY <1>3, <1>6, <3>1
    <3>2. CASE x # id
      BY <1>1, <1>6, <3>2 DEF BoundInv
    <3> QED
      BY <3>1, <3>2
  <2>3. \A x \in Ids : Owned(h, x) =>
          LockAt(h, h.mapLock[x]).instanceId = x /\ LockAt(h, h.mapLock[x]).isInUse
    BY <1>1, <1>5 DEF BoundInv, Owned, LockAt
  <2> QED
    BY <2>1, <2>2, <2>3 DEF BoundInv
<1>10. MgrInv(h, used, TRUE)
  BY <1>5, <1>7, <1>9 DEF MgrInv
<1> QED
  BY <1>3, <1>5, <1>6, <1>10 DEF SharedTakesIn

\* UpdateInstanceLock.
LEMMA UpdateInstanceLockKeeps ==
  ASSUME InstancesInv, NEW id \in Loaded, NEW completed \in SUBSET Encounters,
         UpdateInstanceLock(id, completed)
  PROVE  StepKeeps
<1> DEFINE data == i_maps[id].done \union completed
           g == IF IsInstanceIdBound THEN UpdatedShared(mgr, id, data, completed) ELSE mgr
           s == Inside(id)
<1>1. /\ LockExists(id)
      /\ \A p \in s : AssertionsHold(g, p, id)
      /\ mgr' = Served(g, id, completed, SetToSeq(s))
      /\ i_maps' = [i_maps EXCEPT ![id].done = i_maps[id].done \union completed]
      /\ UNCHANGED <<kind, period, usedIds, at, _pendingBindId>>
  BY DEF UpdateInstanceLock, Served, EventFor
<1>2. mgr \in Managers /\ MgrInv(mgr, usedIds, IsInstanceIdBound) /\ StateInv /\ period \in 0..MaxPeriod
      /\ i_maps \in [Ids -> MapTypes \union {Absent}]
  BY DEF InstancesInv, MgrInv, StateInv
<1>3. /\ id \in Ids /\ id \in usedIds /\ i_maps[id] \in MapTypes /\ MapLock(id) \in LockTypes
      /\ IsInstanceIdBound =>
           /\ mgr.shared[id] # Absent
           /\ MapLock(id).CompletedEncountersMask \subseteq mgr.shared[id].CompletedEncountersMask
  BY <1>1, LockOfMap
<1>4. /\ data \in SUBSET Encounters /\ MapLock(id).CompletedEncountersMask \subseteq Encounters
      /\ i_maps[id].done \subseteq Encounters
      /\ [i_maps[id] EXCEPT !.done = data] \in MapTypes
  BY <1>3 DEF MapTypes, LockTypes
<1>5. /\ i_maps' \in [Ids -> MapTypes \union {Absent}] /\ Loaded' = Loaded
  <2>1. i_maps' = [i_maps EXCEPT ![id] = [i_maps[id] EXCEPT !.done = data]]
    BY <1>1, <1>2
  <2> HIDE DEF data
  <2> QED
    BY <1>2, <1>3, <1>4, <2>1, AbsentAssumption DEF Loaded
<1>6. EventsTyped(id, completed)
  BY <1>3, <1>4 DEF EventsTyped
<1> HIDE DEF data
<1>7. /\ g.permanent = mgr.permanent /\ g.temporary = mgr.temporary /\ g.mapLock = mgr.mapLock
      /\ Ready(g, usedIds, id, completed)
  <2>1. CASE IsInstanceIdBound
    <3>1. MgrInv(mgr, usedIds, TRUE)
      BY <1>2, <2>1 DEF MgrInv
    <3>2. PICK h : h = UpdatedShared(mgr, id, data, completed)
      OBVIOUS
    <3>3. SharedTakesIn(mgr, h, usedIds, id, completed)
      BY <1>3, <1>4, <2>1, <3>1, <3>2, UpdatedSharedKeeps
    <3>4. MgrInv(h, usedIds, IsInstanceIdBound) /\ g = h
      BY <2>1, <3>2, <3>3 DEF SharedTakesIn, MgrInv
    <3> QED
      BY <1>3, <1>6, <2>1, <3>3, <3>4 DEF Ready, SharedTakesIn
  <2>2. CASE ~IsInstanceIdBound
    BY <1>2, <1>3, <1>6, <2>2 DEF Ready
  <2> QED
    BY <2>1, <2>2
<1> HIDE DEF g
<1>8. s \in SUBSET Players /\ \A p \in s : at[p] = id
  BY DEF Inside
<1> HIDE DEF s
<1>9. PICK h : h = mgr'
  OBVIOUS
<1>10. ServedSoFar(g, h, usedIds, id, s)
  BY <1>1, <1>2, <1>7, <1>8, <1>9, AllServed
<1>11. _pendingBindId' \in [Players -> Ids \union {0}]
  BY <1>1, <1>2 DEF StateInv
<1>12. ServingStep(g, id, s)
  BY <1>1, <1>5, <1>7, <1>8, <1>9, <1>10, <1>11 DEF ServingStep
<1> QED
  BY <1>8, <1>12, ServingKeeps

-----------------------------------------------------------------------------
(* Entering an instance. *)

\* A lock is made for an instance whose id no lock has.
LEMMA CreateKeeps ==
  ASSUME InstancesInv, NEW owner \in Players, FindActive(mgr, owner, FALSE) = Absent,
         NEW id \in Ids \ usedIds, NEW g, g = CreateForNewInstance(mgr, owner, id)
  PROVE  /\ MgrInv(g, usedIds \union {id}, IsInstanceIdBound)
         /\ g.permanent = mgr.permanent /\ g.mapLock = mgr.mapLock
         /\ FindActive(g, owner, FALSE) = Temp(owner)
         /\ LockAt(g, Temp(owner)) = NewLock(id, TRUE)
<1> DEFINE new == NewLock(id, TRUE)
           data == [saved |-> FALSE, CompletedEncountersMask |-> {}, Data |-> {}]
<1>1. mgr \in Managers /\ LocksInv(mgr) /\ UsedInv(mgr, usedIds) /\ (IsInstanceIdBound => BoundInv(mgr))
      /\ StateInv
  BY DEF InstancesInv, MgrInv
<1>2. ~Counts(mgr, owner) /\ mgr.temporary[owner] = Absent
  BY WhatIsFound
<1>3. new \in LockTypes /\ new # Absent /\ new.isNew /\ new.instanceId = id
      /\ new.CompletedEncountersMask = {}
  <2>1. period \in 0..MaxPeriod
    BY <1>1 DEF StateInv
  <2>2. new \in LockTypes
    BY <2>1, NewLockType
  <2> QED
    BY <2>2, AbsentAssumption DEF NewLock
<1>4. data \in SharedTypes /\ data # Absent /\ ~data.saved /\ data.CompletedEncountersMask = {}
  <2>1. data \in SharedTypes
    BY DEF SharedTypes
  <2> QED
    BY <2>1, AbsentAssumption
<1>5. g = [mgr EXCEPT !.temporary = [mgr.temporary EXCEPT ![owner] = new],
                      !.shared = [mgr.shared EXCEPT ![id] = IF IsInstanceIdBound THEN data
                                                            ELSE mgr.shared[id]]]
  BY <1>1 DEF CreateForNewInstance, Managers
<1> HIDE DEF new, data
<1>6. /\ g.permanent = mgr.permanent /\ g.mapLock = mgr.mapLock /\ g.lockRows = mgr.lockRows
      /\ g.instanceRows = mgr.instanceRows
      /\ g.temporary = [mgr.temporary EXCEPT ![owner] = new]
      /\ g.shared = [mgr.shared EXCEPT ![id] = IF IsInstanceIdBound THEN data ELSE mgr.shared[id]]
      /\ g \in Managers
  <2>1. /\ [mgr.temporary EXCEPT ![owner] = new] \in [Players -> LockTypes \union {Absent}]
        /\ [mgr.shared EXCEPT ![id] = IF IsInstanceIdBound THEN data ELSE mgr.shared[id]]
             \in [Ids -> SharedTypes \union {Absent}]
    BY <1>1, <1>3, <1>4 DEF Managers
  <2>2. g \in Managers
    BY <1>1, <1>5, <2>1 DEF Managers
  <2> QED
    BY <1>1, <1>5, <2>2 DEF Managers
<1>7. /\ g.temporary[owner] = new
      /\ \A q \in Players \ {owner} : g.temporary[q] = mgr.temporary[q]
      /\ \A x \in Ids \ {id} : g.shared[x] = mgr.shared[x]
      /\ IsInstanceIdBound => g.shared[id] = data
  BY <1>1, <1>6 DEF Managers
\* No map has the temporary lock of the owner: there was none.
<1>8. ASSUME NEW x \in Ids, Owned(g, x)
      PROVE  Owned(mgr, x) /\ LockAt(g, g.mapLock[x]) = LockAt(mgr, mgr.mapLock[x])
  <2>1. Owned(mgr, x) /\ mgr.mapLock[x] \in Places /\ LockAt(mgr, mgr.mapLock[x]) # Absent
    BY <1>1, <1>6, <1>8 DEF Owned, Managers, LocksInv
  <2>2. PICK q \in Players : mgr.mapLock[x] = Perm(q) \/ mgr.mapLock[x] = Temp(q)
    BY <2>1, PlaceOfSomebody
  <2>3. CASE mgr.mapLock[x] = Perm(q)
    BY <1>6, <2>1, <2>3, PlacesAreThere
  <2>4. CASE mgr.mapLock[x] = Temp(q)
    <3>1. q # owner
      BY <1>2, <2>1, <2>4, PlacesAreThere
    <3>2. /\ LockAt(mgr, mgr.mapLock[x]) = mgr.temporary[q] /\ LockAt(g, mgr.mapLock[x]) = g.temporary[q]
          /\ g.temporary[q] = mgr.temporary[q]
      BY <1>7, <2>4, <3>1, PlacesAreThere
    <3> QED
      BY <1>6, <2>1, <3>2
  <2> QED
    BY <2>2, <2>3, <2>4
<1>9. LocksInv(g)
  <2>1. \A x \in Ids : Owned(g, x) => LockAt(g, g.mapLock[x]) # Absent
    BY <1>1, <1>8 DEF LocksInv
  <2>2. \A q \in Players : g.temporary[q] # Absent => g.temporary[q].isNew
    BY <1>1, <1>3, <1>7 DEF LocksInv
  <2> QED
    BY <1>1, <1>6, <2>1, <2>2 DEF LocksInv
<1>10. UsedInv(g, usedIds \union {id})
  BY <1>1, <1>3, <1>6, <1>7 DEF UsedInv
<1>11. ASSUME IsInstanceIdBound PROVE BoundInv(g)
  <2>1. BoundInv(mgr)
    BY <1>1, <1>11
  <2>2. ASSUME NEW lock \in LockTypes, lock.instanceId \in usedIds, Shown(mgr, lock) PROVE Shown(g, lock)
    <3>1. lock.instanceId \in Ids \ {id}
      BY <2>2 DEF LockTypes
    <3> QED
      BY <1>7, <2>2, <3>1 DEF Shown
  <2>3. \A q \in Players : g.permanent[q] # Absent => Shown(g, g.permanent[q])
    BY <1>1, <1>6, <2>1, <2>2 DEF BoundInv, Managers, UsedInv
  <2>4. ASSUME NEW q \in Players, g.temporary[q] # Absent PROVE Shown(g, g.temporary[q])
    <3>1. CASE q = owner
      BY <1>3, <1>4, <1>7, <1>11, <3>1 DEF Shown
    <3>2. CASE q # owner
      BY <1>1, <1>7, <2>1, <2>2, <2>4, <3>2 DEF BoundInv, Managers, UsedInv
    <3> QED
      BY <3>1, <3>2
  <2>5. ASSUME NEW x \in Ids, g.shared[x] # Absent
        PROVE  IF g.shared[x].saved THEN g.instanceRows[x] = g.shared[x]
               ELSE g.shared[x].CompletedEncountersMask = {}
    <3>1. CASE x = id
      BY <1>4, <1>7, <1>11, <3>1
    <3>2. CASE x # id
      BY <1>6, <1>7, <2>1, <2>5, <3>2 DEF BoundInv
    <3> QED
      BY <3>1, <3>2
  <2>6. \A x \in Ids : Owned(g, x) =>
          LockAt(g, g.mapLock[x]).instanceId = x /\ LockAt(g, g.mapLock[x]).isInUse
    BY <1>8, <2>1 DEF BoundInv
  <2> QED
    BY <1>6, <2>1, <2>3, <2>4, <2>5, <2>6 DEF BoundInv
<1>12. MgrInv(g, usedIds \union {id}, IsInstanceIdBound)
  BY <1>6, <1>9, <1>10, <1>11 DEF MgrInv
<1>13. FindActive(g, owner, FALSE) = Temp(owner)
  <2>1. ~Counts(g, owner) /\ g.temporary[owner] # Absent
    BY <1>2, <1>3, <1>6, <1>7 DEF Counts
  <2> QED
    BY <2>1, WhatIsFound
<1>14. LockAt(g, Temp(owner)) = new
  BY <1>7, PlacesAreThere
<1> QED
  BY <1>6, <1>12, <1>13, <1>14 DEF new

\* The lock found is given the id of the instance; a map made for it has it.
Puts(g, h, used, bound, l, id, loaded) ==
  /\ MgrInv(g, used, bound) /\ id \in used /\ LockAt(g, l) \in LockTypes
  /\ bound => LockAt(g, l).instanceId = id
  /\ h = IF loaded THEN Placed(g, l, [LockAt(g, l) EXCEPT !.instanceId = id])
         ELSE [Placed(g, l, [[LockAt(g, l) EXCEPT !.instanceId = id] EXCEPT !.isInUse = TRUE])
                 EXCEPT !.mapLock[id] = l]

PutEffect(g, h, l, id, loaded, bound) ==
  /\ h.mapLock = IF loaded THEN g.mapLock ELSE [g.mapLock EXCEPT ![id] = l]
  /\ \A p \in Players :
       /\ h.permanent[p] # Absent <=> g.permanent[p] # Absent
       /\ g.permanent[p] # Absent =>
            /\ h.permanent[p].CompletedEncountersMask = g.permanent[p].CompletedEncountersMask
            /\ h.permanent[p].expiryTime = g.permanent[p].expiryTime
            /\ h.permanent[p].extended = g.permanent[p].extended
            /\ bound => h.permanent[p].instanceId = g.permanent[p].instanceId

\* Neither the new id nor the new map change what locks show.
LEMMA PutKeeps ==
  ASSUME NEW g, NEW h, NEW used, NEW bound, NEW l \in Places, NEW id \in Ids, NEW loaded \in BOOLEAN,
         Puts(g, h, used, bound, l, id, loaded)
  PROVE  MgrInv(h, used, bound) /\ PutEffect(g, h, l, id, loaded, bound)
<1> DEFINE old == LockAt(g, l)
           lock == IF loaded THEN [old EXCEPT !.instanceId = id]
                   ELSE [[old EXCEPT !.instanceId = id] EXCEPT !.isInUse = TRUE]
           f == Placed(g, l, lock)
<1>1. /\ MgrInv(g, used, bound) /\ id \in used /\ old \in LockTypes /\ (bound => old.instanceId = id)
      /\ h = IF loaded THEN f ELSE [f EXCEPT !.mapLock[id] = l]
  BY DEF Puts
<1>2. g \in Managers /\ LocksInv(g) /\ UsedInv(g, used) /\ (bound => BoundInv(g))
  BY <1>1 DEF MgrInv
<1>3. /\ lock \in LockTypes
      /\ lock.instanceId = id /\ lock.isNew = old.isNew
      /\ lock.CompletedEncountersMask = old.CompletedEncountersMask
      /\ lock.expiryTime = old.expiryTime /\ lock.extended = old.extended
      /\ loaded => lock.isInUse = old.isInUse
      /\ ~loaded => lock.isInUse
  BY <1>1 DEF LockTypes
<1>4. lock # Absent /\ old # Absent
  BY <1>1, <1>3, AbsentAssumption
<1>5. old = LockAt(g, l)
  OBVIOUS
<1> HIDE DEF lock, old
<1>6. /\ f \in Managers /\ LockAt(f, l) = lock
      /\ \A l2 \in Places : l2 # l => LockAt(f, l2) = LockAt(g, l2)
      /\ f.lockRows = g.lockRows /\ f.mapLock = g.mapLock
      /\ f.shared = g.shared /\ f.instanceRows = g.instanceRows
  BY <1>2, <1>3, WhatPlacedDoes
<1> HIDE DEF f
<1>7. /\ h \in Managers /\ h.permanent = f.permanent /\ h.temporary = f.temporary
      /\ h.lockRows = g.lockRows /\ h.shared = g.shared /\ h.instanceRows = g.instanceRows
      /\ h.mapLock = IF loaded THEN g.mapLock ELSE [g.mapLock EXCEPT ![id] = l]
  BY <1>1, <1>6 DEF Managers
<1>8. \A l2 : LockAt(h, l2) = LockAt(f, l2)
  BY <1>7 DEF LockAt
<1>9. SameShow(g, h, bound)
  <2>1. \A l2 \in Places :
          /\ LockAt(h, l2) # Absent <=> LockAt(g, l2) # Absent
          /\ LockAt(g, l2) # Absent =>
               /\ LockAt(h, l2).isNew = LockAt(g, l2).isNew
               /\ LockAt(h, l2).CompletedEncountersMask = LockAt(g, l2).CompletedEncountersMask
               /\ LockAt(h, l2).expiryTime = LockAt(g, l2).expiryTime
               /\ LockAt(h, l2).extended = LockAt(g, l2).extended
               /\ bound => LockAt(h, l2).instanceId = LockAt(g, l2).instanceId
    BY <1>1, <1>3, <1>4, <1>5, <1>6, <1>8
  <2>2. ASSUME NEW p \in Players, g.lockRows[p] # Absent
        PROVE  SameTime(h.lockRows[p], h.permanent[p])
    <3>1. Perm(p) \in Places /\ LockAt(g, Perm(p)) = g.permanent[p] /\ LockAt(h, Perm(p)) = h.permanent[p]
      BY PlacesAreThere
    <3>2. g.permanent[p] # Absent /\ SameTime(g.lockRows[p], g.permanent[p])
      BY <1>2, <2>2 DEF LocksInv
    <3> QED
      BY <1>7, <2>1, <3>1, <3>2 DEF SameTime
  <2> QED
    BY <1>7, <2>1, <2>2 DEF SameShow
<1>10. UsedInv(h, used)
  <2>1. \A l2 \in Places : LockAt(g, l2) # Absent => LockAt(g, l2).instanceId \in used
    BY <1>2, UsedByPlaces
  <2>2. \A l2 \in Places : LockAt(h, l2) # Absent => LockAt(h, l2).instanceId \in used
    BY <1>1, <1>3, <1>6, <1>8, <2>1
  <2> QED
    BY <2>2, UsedByPlaces
<1>11. MapsHaveLocks(h, bound)
  <2> SUFFICES ASSUME NEW x \in Ids, Owned(h, x)
               PROVE  /\ LockAt(h, h.mapLock[x]) # Absent
                      /\ bound => /\ LockAt(h, h.mapLock[x]).instanceId = x
                                  /\ LockAt(h, h.mapLock[x]).isInUse
    BY DEF MapsHaveLocks
  <2>1. CASE ~loaded /\ x = id
    <3>1. h.mapLock[x] = l
      BY <1>2, <1>7, <2>1 DEF Managers
    <3> QED
      BY <1>3, <1>4, <1>6, <1>8, <2>1, <3>1
  <2>2. CASE loaded \/ x # id
    <3>1. h.mapLock[x] = g.mapLock[x] /\ Owned(g, x) /\ g.mapLock[x] \in Places
      BY <1>2, <1>7, <2>2 DEF Owned, Managers
    <3>2. /\ LockAt(g, g.mapLock[x]) # Absent
          /\ bound => LockAt(g, g.mapLock[x]).instanceId = x /\ LockAt(g, g.mapLock[x]).isInUse
      BY <1>2, <3>1 DEF LocksInv, BoundInv
    <3>3. CASE g.mapLock[x] = l
      BY <1>1, <1>3, <1>4, <1>5, <1>6, <1>8, <2>2, <3>1, <3>2, <3>3
    <3>4. CASE g.mapLock[x] # l
      BY <1>6, <1>8, <3>1, <3>2, <3>4
    <3> QED
      BY <3>3, <3>4
  <2> QED
    BY <2>1, <2>2
<1>12. MgrInv(h, used, bound)
  BY <1>1, <1>7, <1>9, <1>10, <1>11, ShowsTheSame
<1>13. ASSUME NEW p \in Players
       PROVE  /\ h.permanent[p] # Absent <=> g.permanent[p] # Absent
              /\ g.permanent[p] # Absent =>
                   /\ h.permanent[p].CompletedEncountersMask = g.permanent[p].CompletedEncountersMask
                   /\ h.permanent[p].expiryTime = g.permanent[p].expiryTime
                   /\ h.permanent[p].extended = g.permanent[p].extended
                   /\ bound => h.permanent[p].instanceId = g.permanent[p].instanceId
  <2>1. Perm(p) \in Places /\ LockAt(g, Perm(p)) = g.permanent[p] /\ LockAt(h, Perm(p)) = h.permanent[p]
    BY PlacesAreThere
  <2>2. CASE Perm(p) = l
    BY <1>1, <1>3, <1>4, <1>5, <1>6, <1>8, <2>1, <2>2
  <2>3. CASE Perm(p) # l
    <3>1. h.permanent[p] = g.permanent[p]
      BY <1>6, <1>8, <2>1, <2>3
    <3> QED
      BY <3>1
  <2> QED
    BY <2>2, <2>3
<1>14. PutEffect(g, h, l, id, loaded, bound)
  BY <1>7, <1>13 DEF PutEffect
<1> QED
  BY <1>12, <1>14

\* What a player who enters finds: the lock of the owner, made before if there
\* was none, and the instance it is used for.
Entered(g, l, id, used, bound) ==
  /\ MgrInv(g, used, bound) /\ used = usedIds \union {id} /\ id \in Ids
  /\ g.permanent = mgr.permanent /\ g.mapLock = mgr.mapLock
  /\ l \in Places /\ LockAt(g, l) \in LockTypes
  /\ bound => LockAt(g, l).instanceId = id

\* The lock the player enters with, and the invariant of the manager then.
LEMMA OwnersLock ==
  ASSUME InstancesInv, NEW owner \in Players, NeedsNewId(owner) => usedIds # Ids,
         NEW g, g = WithOwnersLock(owner), NEW l, l = FindActive(g, owner, FALSE),
         NEW id, id = IF UsedByOthers(g, l) THEN GenerateInstanceId ELSE LockAt(g, l).instanceId
  PROVE  Entered(g, l, id, usedIds \union {id}, IsInstanceIdBound)
<1>1. mgr \in Managers /\ UsedInv(mgr, usedIds) /\ StateInv /\ MgrInv(mgr, usedIds, IsInstanceIdBound)
  BY DEF InstancesInv, MgrInv
<1>2. CASE FindActive(mgr, owner, FALSE) # Absent
  <2>1. g = mgr
    BY <1>2 DEF WithOwnersLock
  <2>2. l \in Places /\ LockAt(g, l) \in LockTypes /\ LockAt(g, l) # Absent
    BY <1>1, <1>2, <2>1, FoundLock
  <2>3. LockAt(g, l).instanceId \in usedIds /\ LockAt(g, l).instanceId \in Ids
    BY <1>1, <2>1, <2>2, UsedByPlaces DEF LockTypes
  <2>4. CASE UsedByOthers(g, l)
    <3>1. NeedsNewId(owner)
      BY <2>1, <2>4 DEF NeedsNewId
    <3>2. id \in Ids \ usedIds
      BY <1>1, <2>4, <3>1, FreshId DEF StateInv
    <3>3. ~IsInstanceIdBound
      BY <2>4 DEF UsedByOthers
    <3>4. MgrInv(g, usedIds \union {id}, IsInstanceIdBound)
      BY <1>1, <2>1 DEF MgrInv, UsedInv
    <3> QED
      BY <2>1, <2>2, <3>2, <3>3, <3>4 DEF Entered
  <2>5. CASE ~UsedByOthers(g, l)
    <3>1. id = LockAt(g, l).instanceId
      BY <2>5
    <3>2. usedIds \union {id} = usedIds
      BY <2>3, <3>1
    <3> QED
      BY <1>1, <2>1, <2>2, <2>3, <3>1, <3>2 DEF Entered
  <2> QED
    BY <2>4, <2>5
<1>3. CASE FindActive(mgr, owner, FALSE) = Absent
  <2>1. PICK new : new = GenerateInstanceId
    OBVIOUS
  <2>2. new \in Ids \ usedIds
    BY <1>1, <1>3, <2>1, FreshId DEF NeedsNewId, StateInv
  <2>3. g = CreateForNewInstance(mgr, owner, new)
    BY <1>3, <2>1 DEF WithOwnersLock
  <2>4. /\ MgrInv(g, usedIds \union {new}, IsInstanceIdBound)
        /\ g.permanent = mgr.permanent /\ g.mapLock = mgr.mapLock
        /\ FindActive(g, owner, FALSE) = Temp(owner)
        /\ LockAt(g, Temp(owner)) = NewLock(new, TRUE)
    BY <1>3, <2>2, <2>3, CreateKeeps
  <2>5. NewLock(new, TRUE) \in LockTypes /\ NewLock(new, TRUE).instanceId = new
    <3>1. period \in 0..MaxPeriod
      BY <1>1 DEF StateInv
    <3>2. NewLock(new, TRUE) \in LockTypes
      BY <2>2, <3>1, NewLockType
    <3> QED
      BY <3>2 DEF NewLock
  <2>6. new \notin Loaded
    BY <1>1, <2>2 DEF StateInv
  <2>7. l = Temp(owner) /\ LockAt(g, l).instanceId = new
    BY <2>4, <2>5
  <2>8. id = new
    BY <2>6, <2>7 DEF UsedByOthers
  <2>9. Temp(owner) \in Places
    BY PlacesAreThere
  <2> QED
    BY <2>2, <2>4, <2>5, <2>7, <2>8, <2>9 DEF Entered
<1> QED
  BY <1>2, <1>3

\* A player enters: who joins is bound to no other instance.
LEMMA EnterKeeps ==
  ASSUME InstancesInv, NEW p \in Players, NEW owner \in Players, EnterInstance(p, owner)
  PROVE  StepKeeps
<1>1. PICK g \in {WithOwnersLock(owner)} :
        LET l == FindActive(g, owner, FALSE)
            id == IF UsedByOthers(g, l) THEN GenerateInstanceId ELSE LockAt(g, l).instanceId
            lock == [LockAt(g, l) EXCEPT !.instanceId = id]
        IN
        \E h \in {IF id \in Loaded THEN Placed(g, l, lock)
                  ELSE [Placed(g, l, [lock EXCEPT !.isInUse = TRUE]) EXCEPT !.mapLock[id] = l]} :
        LET joins == CanJoin(h, p, LockAt(h, h.mapLock[id]))
        IN  /\ h.mapLock[id] # Deleted
            /\ mgr' = h
            /\ i_maps' = [i_maps EXCEPT ![id] = IF id \in Loaded THEN @ ELSE NewMap(g, lock)]
            /\ usedIds' = usedIds \union {id}
            /\ at' = [at EXCEPT ![p] = IF joins THEN id ELSE 0]
            /\ _pendingBindId' = [_pendingBindId EXCEPT
                 ![p] = IF joins /\ AsksToBind(h, p, LockAt(h, h.mapLock[id])) THEN id ELSE @]
  BY DEF EnterInstance
<1>2. at[p] = 0 /\ (NeedsNewId(owner) => usedIds # Ids) /\ UNCHANGED <<kind, period>>
  BY DEF EnterInstance
<1>3. PICK l : l = FindActive(g, owner, FALSE)
  OBVIOUS
<1>4. PICK id : id = IF UsedByOthers(g, l) THEN GenerateInstanceId ELSE LockAt(g, l).instanceId
  OBVIOUS
<1> DEFINE lock == [LockAt(g, l) EXCEPT !.instanceId = id]
<1>5. PICK h : /\ h = IF id \in Loaded THEN Placed(g, l, lock)
                      ELSE [Placed(g, l, [lock EXCEPT !.isInUse = TRUE]) EXCEPT !.mapLock[id] = l]
               /\ h.mapLock[id] # Deleted
               /\ mgr' = h
               /\ i_maps' = [i_maps EXCEPT ![id] = IF id \in Loaded THEN @ ELSE NewMap(g, lock)]
               /\ usedIds' = usedIds \union {id}
               /\ at' = [at EXCEPT ![p] = IF CanJoin(h, p, LockAt(h, h.mapLock[id])) THEN id ELSE 0]
               /\ _pendingBindId' = [_pendingBindId EXCEPT
                    ![p] = IF CanJoin(h, p, LockAt(h, h.mapLock[id]))
                              /\ AsksToBind(h, p, LockAt(h, h.mapLock[id])) THEN id ELSE @]
  BY <1>1, <1>3, <1>4
<1>6. /\ MgrInv(g, usedIds \union {id}, IsInstanceIdBound) /\ id \in Ids
      /\ g.permanent = mgr.permanent /\ g.mapLock = mgr.mapLock
      /\ l \in Places /\ LockAt(g, l) \in LockTypes
      /\ IsInstanceIdBound => LockAt(g, l).instanceId = id
  <2>1. Entered(g, l, id, usedIds \union {id}, IsInstanceIdBound)
    BY <1>1, <1>2, <1>3, <1>4, OwnersLock
  <2> QED
    BY <2>1 DEF Entered
<1>7. MgrInv(h, usedIds \union {id}, IsInstanceIdBound)
      /\ PutEffect(g, h, l, id, id \in Loaded, IsInstanceIdBound)
  <2>1. Puts(g, h, usedIds \union {id}, IsInstanceIdBound, l, id, id \in Loaded)
    BY <1>5, <1>6 DEF Puts
  <2>2. (id \in Loaded) \in BOOLEAN
    OBVIOUS
  <2> QED
    BY <1>6, <2>1, <2>2, PutKeeps
<1>8. MgrInv(mgr, usedIds, IsInstanceIdBound)'
  BY <1>2, <1>5, <1>7 DEF IsInstanceIdBound
<1>9. mgr \in Managers /\ LocksInv(mgr) /\ StateInv
  BY DEF InstancesInv, MgrInv
<1>10. /\ h.mapLock = IF id \in Loaded THEN mgr.mapLock ELSE [mgr.mapLock EXCEPT ![id] = l]
       /\ \A q \in Players :
            /\ h.permanent[q] # Absent <=> mgr.permanent[q] # Absent
            /\ mgr.permanent[q] # Absent =>
                 /\ h.permanent[q].CompletedEncountersMask = mgr.permanent[q].CompletedEncountersMask
                 /\ h.permanent[q].expiryTime = mgr.permanent[q].expiryTime
                 /\ h.permanent[q].extended = mgr.permanent[q].extended
                 /\ IsInstanceIdBound => h.permanent[q].instanceId = mgr.permanent[q].instanceId
  BY <1>6, <1>7 DEF PutEffect
<1>11. \A q \in Players : Counts(mgr, q)' <=> Counts(mgr, q)
  BY <1>2, <1>5, <1>10 DEF Counts, Active, IsExpired
<1>12. l \notin {Absent, Deleted}
  BY <1>6, AbsentAssumption
<1>13. NewMap(g, lock) \in MapTypes
  <2>1. lock \in LockTypes /\ lock.instanceId = id
    BY <1>6 DEF LockTypes
  <2>2. ASSUME IsInstanceIdBound PROVE g.shared[id] \in SharedTypes
    <3>1. LockAt(g, l) # Absent /\ g \in Managers /\ BoundInv(g)
      BY <1>6, <2>2, AbsentAssumption DEF MgrInv
    <3>2. PICK q \in Players : l = Perm(q) \/ l = Temp(q)
      BY <1>6, PlaceOfSomebody
    <3>3. LockAt(g, l) = g.permanent[q] \/ LockAt(g, l) = g.temporary[q]
      BY <3>2, PlacesAreThere
    <3>4. Shown(g, LockAt(g, l))
      BY <3>1, <3>3 DEF BoundInv
    <3> QED
      BY <1>6, <2>2, <3>1, <3>4 DEF Shown, Managers
  <2> HIDE DEF lock
  <2>3. lock.Data \subseteq Encounters /\ lock.expiryTime \in -1 .. MaxPeriod
    BY <2>1 DEF LockTypes
  <2>4. IsInstanceIdBound => g.shared[lock.instanceId].Data \subseteq Encounters
    BY <2>1, <2>2 DEF SharedTypes
  <2> QED
    BY <2>3, <2>4 DEF NewMap, MapTypes
<1> HIDE DEF lock
<1>14. Loaded' = Loaded \union {id} /\ i_maps' \in [Ids -> MapTypes \union {Absent}]
  BY <1>5, <1>6, <1>9, <1>13, AbsentAssumption DEF StateInv, Loaded
<1>15. \A x \in Ids : h.mapLock[x] = Absent <=> x \notin Loaded'
  BY <1>6, <1>9, <1>10, <1>12, <1>14 DEF StateInv, Managers
<1>16. at' \in [Players -> Ids \union {0}] /\ _pendingBindId' \in [Players -> Ids \union {0}]
       /\ \A q \in Players : at'[q] # 0 => at'[q] \in Loaded'
  BY <1>5, <1>6, <1>9, <1>14 DEF StateInv
\* Who joins has no other lock that counts.
<1>17. ASSUME IsInstanceIdBound, CanJoin(h, p, LockAt(h, h.mapLock[id])), Counts(h, p)
       PROVE  h.permanent[p].instanceId = id
  <2>1. LocksInv(h) /\ BoundInv(h)
    BY <1>7, <1>17 DEF MgrInv
  <2>2. Owned(h, id)
    BY <1>5, <1>6, <1>14, <1>15 DEF Owned
  <2>3. LockAt(h, h.mapLock[id]).instanceId = id
    BY <1>6, <2>1, <2>2 DEF BoundInv
  <2>4. FindActive(h, p, FALSE) = Perm(p) /\ Perm(p) # Absent /\ LockAt(h, Perm(p)) = h.permanent[p]
    BY <1>17, WhatIsFound, PlacesAreThere
  <2>5. ~h.permanent[p].isNew
    BY <1>17, <2>1 DEF LocksInv, Counts
  <2>6. kind = "idBound" /\ kind # "flex"
    BY <1>17 DEF IsInstanceIdBound
  <2> QED
    BY <1>17, <2>3, <2>4, <2>5, <2>6 DEF CanJoin
<1>18. ASSUME IsInstanceIdBound, NEW q \in Players, at'[q] # 0, Counts(h, q)'
       PROVE  h.permanent[q].instanceId = at'[q]
  <2>0. Counts(h, q) /\ Counts(mgr, q)
    BY <1>2, <1>5, <1>11, <1>18 DEF Counts, Active, IsExpired
  <2>1. CASE q = p
    BY <1>5, <1>9, <1>17, <1>18, <2>0, <2>1 DEF StateInv
  <2>2. CASE q # p
    <3>1. at'[q] = at[q]
      BY <1>5, <1>9, <2>2 DEF StateInv
    <3> QED
      BY <1>9, <1>10, <1>18, <2>0, <3>1 DEF StateInv, Counts
  <2> QED
    BY <2>1, <2>2
<1>19. StateInv'
  <2>1. usedIds' \subseteq Ids /\ Loaded' \subseteq usedIds'
    BY <1>5, <1>6, <1>9, <1>14 DEF StateInv
  <2>2. kind' \in Kinds /\ period' \in 0..MaxPeriod /\ IsInstanceIdBound' = IsInstanceIdBound
    BY <1>2, <1>9 DEF StateInv, IsInstanceIdBound
  <2>3. \A q \in Players : Counts(mgr, q)' <=> Counts(h, q)'
    BY <1>5 DEF Counts
  <2> QED
    BY <1>5, <1>14, <1>15, <1>16, <1>18, <2>1, <2>2, <2>3 DEF StateInv
<1>20. NothingForgotten(mgr, h)
  BY <1>10 DEF NothingForgotten, Counts
<1>21. LocksOutlive(mgr, h)
  <2>1. \A x \in Ids : h.mapLock[x] = Deleted => mgr.mapLock[x] = Deleted
    <3> TAKE x \in Ids
    <3>1. DOMAIN mgr.mapLock = Ids
      BY <1>9 DEF Managers
    <3>2. h.mapLock[x] \in {mgr.mapLock[x], l}
      BY <1>10, <3>1
    <3> QED
      BY <1>12, <3>2
  <2> QED
    BY <2>1 DEF LocksOutlive, Owned
<1> QED
  BY <1>5, <1>8, <1>19, <1>20, <1>21 DEF StepKeeps, InstancesInv

-----------------------------------------------------------------------------
(* The writes that are queued, and the tables between them. *)

TableTypes ==
  [locks : [Players -> LockTypes \union {Absent}], instances : [Ids -> SharedTypes \union {Absent}]]

\* The tables can be loaded: an instance shows what the locks bound to it show, and
\* a lock that counts and shows an encounter has its instance.
Loads(t) ==
  /\ \A p \in Players : t.locks[p] # Absent => ~t.locks[p].isNew
  /\ IsInstanceIdBound =>
       /\ \A id \in Ids : t.instances[id] # Absent => t.instances[id].saved
       /\ \A p \in Players : t.locks[p] # Absent =>
            IF t.instances[t.locks[p].instanceId] # Absent
            THEN t.locks[p].CompletedEncountersMask
                   \subseteq t.instances[t.locks[p].instanceId].CompletedEncountersMask
            ELSE Active(t.locks[p]) => t.locks[p].CompletedEncountersMask = {}

LoadableTables == {t \in TableTypes : Loads(t)}

WritesInv == unwritten \in Seq(LoadableTables)

DungeonInv == InstancesInv /\ WritesInv

\* What a row shows is in the row of its instance.
LEMMA RowOfInstance ==
  ASSUME NEW g, NEW used, MgrInv(g, used, IsInstanceIdBound), IsInstanceIdBound,
         NEW p \in Players, g.lockRows[p] # Absent, NEW e \in g.lockRows[p].CompletedEncountersMask
  PROVE  /\ g.instanceRows[g.lockRows[p].instanceId] # Absent
         /\ e \in g.instanceRows[g.lockRows[p].instanceId].CompletedEncountersMask
<1>1. g \in Managers /\ LocksInv(g) /\ BoundInv(g)
  BY DEF MgrInv
<1>2. g.permanent[p] # Absent /\ e \in g.permanent[p].CompletedEncountersMask
      /\ g.lockRows[p].instanceId = g.permanent[p].instanceId
  BY <1>1 DEF LocksInv, BoundInv
<1>3. g.lockRows[p] \in LockTypes
  BY <1>1 DEF Managers
<1>4. PICK id \in Ids : id = g.lockRows[p].instanceId
  BY <1>3 DEF LockTypes
<1>5. g.shared[id] # Absent /\ e \in g.shared[id].CompletedEncountersMask
  BY <1>1, <1>2, <1>4 DEF BoundInv, Shown
<1> QED
  BY <1>1, <1>4, <1>5 DEF BoundInv

\* What the tables hold when the rows of some instances are deleted.
WithoutRows(g, gone) ==
  [Rows(g) EXCEPT !.instances = [id \in Ids |-> IF id \in gone THEN Absent ELSE @[id]]]

\* It can be loaded, if no lock names those instances that counts and shows an
\* encounter.
LEMMA WithoutRowsLoads ==
  ASSUME NEW g, NEW used, MgrInv(g, used, IsInstanceIdBound), NEW gone \in SUBSET Ids,
         IsInstanceIdBound =>
           \A p \in Players : Counts(g, p) /\ g.permanent[p].CompletedEncountersMask # {} =>
             g.permanent[p].instanceId \notin gone
  PROVE  WithoutRows(g, gone) \in LoadableTables
<1>1. g \in Managers /\ LocksInv(g) /\ (IsInstanceIdBound => BoundInv(g))
  BY DEF MgrInv
<1>2. /\ g.lockRows \in [Players -> LockTypes \union {Absent}]
      /\ g.instanceRows \in [Ids -> SharedTypes \union {Absent}]
  BY <1>1 DEF Managers
<1>3. PICK t : t = WithoutRows(g, gone)
  OBVIOUS
<1>4. /\ t = [locks |-> t.locks, instances |-> t.instances] /\ t.locks = g.lockRows
      /\ t.instances = [id \in Ids |-> IF id \in gone THEN Absent ELSE g.instanceRows[id]]
  BY <1>3 DEF WithoutRows, Rows
<1>5. t \in TableTypes
  <2>1. t.instances \in [Ids -> SharedTypes \union {Absent}]
    BY <1>2, <1>4
  <2> QED
    BY <1>2, <1>4, <2>1 DEF TableTypes
<1>6. \A p \in Players : t.locks[p] # Absent => ~t.locks[p].isNew
  BY <1>1, <1>4 DEF LocksInv
<1>7. ASSUME IsInstanceIdBound, NEW id \in Ids, t.instances[id] # Absent PROVE t.instances[id].saved
  BY <1>1, <1>4, <1>7 DEF BoundInv
<1>8. ASSUME IsInstanceIdBound, NEW p \in Players, t.locks[p] # Absent
      PROVE  IF t.instances[t.locks[p].instanceId] # Absent
             THEN t.locks[p].CompletedEncountersMask
                    \subseteq t.instances[t.locks[p].instanceId].CompletedEncountersMask
             ELSE Active(t.locks[p]) => t.locks[p].CompletedEncountersMask = {}
  <2>1. t.locks[p] = g.lockRows[p] /\ g.lockRows[p] # Absent /\ g.lockRows[p] \in LockTypes
    BY <1>2, <1>4, <1>8
  <2>2. PICK id \in Ids : id = g.lockRows[p].instanceId
    BY <2>1 DEF LockTypes
  <2>3. \A e \in g.lockRows[p].CompletedEncountersMask :
          g.instanceRows[id] # Absent /\ e \in g.instanceRows[id].CompletedEncountersMask
    BY <1>8, <2>1, <2>2, RowOfInstance
  <2>4. CASE id \notin gone
    <3>1. t.instances[id] = g.instanceRows[id]
      BY <1>4, <2>4
    <3> QED
      BY <2>1, <2>2, <2>3, <3>1
  <2>5. CASE id \in gone
    <3>1. t.instances[id] = Absent
      BY <1>4, <2>5
    <3>2. ASSUME Active(g.lockRows[p]) PROVE g.lockRows[p].CompletedEncountersMask = {}
      <4>1. /\ g.permanent[p] # Absent /\ SameTime(g.lockRows[p], g.permanent[p])
            /\ g.lockRows[p].CompletedEncountersMask = g.permanent[p].CompletedEncountersMask
            /\ g.permanent[p].instanceId = id
        BY <1>1, <1>8, <2>1, <2>2 DEF LocksInv, BoundInv
      <4>2. Counts(g, p)
        BY <3>2, <4>1 DEF Counts, Active, IsExpired, SameTime
      <4> QED
        BY <1>8, <2>5, <4>1, <4>2
    <3> QED
      BY <2>1, <2>2, <3>1, <3>2
  <2> QED
    BY <2>4, <2>5
<1>9. Loads(t)
  BY <1>6, <1>7, <1>8 DEF Loads
<1> QED
  BY <1>3, <1>5, <1>9 DEF LoadableTables

\* What the tables hold when all writes have run can be loaded.
LEMMA RowsLoad ==
  ASSUME NEW g, NEW used, MgrInv(g, used, IsInstanceIdBound)
  PROVE  Rows(g) \in LoadableTables
<1>1. WithoutRows(g, {}) \in LoadableTables
  BY WithoutRowsLoads
<1>2. WithoutRows(g, {}) = Rows(g)
  <2>1. g.instanceRows = [id \in Ids |-> g.instanceRows[id]]
    BY DEF MgrInv, Managers
  <2> QED
    BY <2>1 DEF WithoutRows, Rows
<1> QED
  BY <1>1, <1>2

\* So can what they hold now.
LEMMA TablesLoad == DungeonInv => Tables \in LoadableTables
<1> SUFFICES ASSUME DungeonInv PROVE Tables \in LoadableTables
  OBVIOUS
<1>1. Rows(mgr) \in LoadableTables
  BY RowsLoad DEF DungeonInv, InstancesInv
<1>2. unwritten # <<>> => Head(unwritten) \in LoadableTables
  BY HeadTailProperties DEF DungeonInv, WritesInv
<1> QED
  BY <1>1, <1>2 DEF Tables

\* The rows that a step deletes are not those of an instance which a lock names
\* that counts and shows an encounter; so can what the tables hold in between.
LEMMA RowsBetweenLoad ==
  ASSUME NEW g, NEW h, NEW used, NEW used2, MgrInv(g, used, IsInstanceIdBound),
         MgrInv(h, used2, IsInstanceIdBound), NothingForgotten(g, h)
  PROVE  RowsBetween(g, h) \in Seq(LoadableTables)
<1> DEFINE S == {id \in Ids : g.instanceRows[id] # Absent /\ h.instanceRows[id] = Absent}
           deletes == SetToSeq(S)
           before(n) == {id \in Ids : \E i \in 1 .. n - 1 : deletes[i] = id}
<1>1. IsFiniteSet(S) /\ S \subseteq Ids
  <2>1. IsFiniteSet(Ids)
    BY InstanceAssumption, FS_Interval DEF Ids
  <2> QED
    BY <2>1, FS_Subset
<1>2. /\ Cardinality(S) \in Nat /\ deletes \in [1..Cardinality(S) -> S]
  BY <1>1, SetInSequence
<1>3. deletes \in Seq(S) /\ Len(deletes) \in Nat /\ deletes \in [1..Len(deletes) -> S]
  <2> HIDE DEF S, deletes
  <2>1. deletes \in Seq(S)
    BY <1>2, SeqDef
  <2> QED
    BY <2>1, LenProperties
<1>4. ASSUME IsInstanceIdBound, NEW p \in Players, Counts(g, p), g.permanent[p].CompletedEncountersMask # {}
      PROVE  g.permanent[p].instanceId \notin S
  <2>1. PICK e \in g.permanent[p].CompletedEncountersMask : TRUE
    BY <1>4
  <2>2. h.permanent[p] # Absent /\ e \in h.permanent[p].CompletedEncountersMask
        /\ h.permanent[p].instanceId = g.permanent[p].instanceId
    BY <1>4, <2>1 DEF NothingForgotten
  <2>3. LocksInv(h) /\ BoundInv(h)
    BY <1>4 DEF MgrInv
  <2>4. h.lockRows[p] # Absent /\ e \in h.lockRows[p].CompletedEncountersMask
        /\ h.lockRows[p].instanceId = g.permanent[p].instanceId
    BY <2>2, <2>3 DEF LocksInv, BoundInv
  <2>5. h.instanceRows[g.permanent[p].instanceId] # Absent
    BY <1>4, <2>4, RowOfInstance
  <2> QED
    BY <2>5
<1>5. ASSUME NEW n \in 1 .. Len(deletes) + 1 PROVE RowsBetween(g, h)[n] \in LoadableTables
  <2>1. before(n) \in SUBSET Ids /\ before(n) \subseteq S
    <3>1. \A i \in 1 .. n - 1 : deletes[i] \in S
      <4> HIDE DEF S, deletes
      <4> QED
        BY <1>3
    <3> QED
      BY <1>1, <3>1
  <2>2. WithoutRows(g, before(n)) \in LoadableTables
    <3> HIDE DEF S, before
    <3> QED
      BY <1>4, <2>1, WithoutRowsLoads
  <2>3. RowsBetween(g, h)[n] = WithoutRows(g, before(n))
    BY DEF RowsBetween, WithoutRows
  <2> QED
    BY <2>2, <2>3
<1>6. RowsBetween(g, h) = [n \in 1 .. Len(deletes) + 1 |-> RowsBetween(g, h)[n]]
  BY DEF RowsBetween
<1>7. RowsBetween(g, h) \in [1 .. Len(deletes) + 1 -> LoadableTables]
  <2> HIDE DEF deletes
  <2> QED
    BY <1>5, <1>6
<1>8. Len(deletes) + 1 \in Nat
  BY <1>3
<1> HIDE DEF deletes
<1> QED
  BY <1>7, <1>8, SeqDef

\* There are no writes.
LEMMA WritesInitKeeps == InstancesInit => WritesInv
BY DEF InstancesInit, WritesInv

\* What can be loaded now can be loaded when locks have expired.
LEMMA UnwrittenKeeps ==
  ASSUME InstancesInv, WritesInv, UNCHANGED <<kind, unwritten>>, period' \in {period, period + 1}
  PROVE  WritesInv'
<1>1. period \in Int /\ period <= period'
  BY InstanceAssumption DEF InstancesInv, StateInv
<1>2. ASSUME NEW lock \in LockTypes, Active(lock)' PROVE Active(lock)
  <2>1. lock.expiryTime \in Int
    BY InstanceAssumption DEF LockTypes
  <2> QED
    BY <1>1, <1>2, <2>1 DEF Active, IsExpired
<1>3. ASSUME NEW t \in LoadableTables PROVE t \in LoadableTables'
  <2>1. t \in TableTypes /\ Loads(t)
    BY DEF LoadableTables
  <2>2. \A p \in Players : t.locks[p] # Absent => t.locks[p] \in LockTypes
    BY <2>1 DEF TableTypes
  <2>3. IsInstanceIdBound' = IsInstanceIdBound
    BY DEF IsInstanceIdBound
  <2>4. Loads(t)'
    BY <1>2, <2>1, <2>2, <2>3 DEF Loads
  <2> QED
    BY <2>1, <2>4 DEF LoadableTables
<1>4. \A S, T : \A q \in Seq(S) : S \subseteq T => q \in Seq(T)
  OBVIOUS
<1> QED
  BY <1>3, <1>4 DEF WritesInv

\* A step queues what it writes.
LEMMA QueuesKeeps ==
  ASSUME InstancesInv, WritesInv, StepKeeps, QueuesWrites, UNCHANGED <<kind, period>>
  PROVE  WritesInv'
<1>1. LoadableTables' = LoadableTables
  BY DEF LoadableTables, Loads, IsInstanceIdBound, Active, IsExpired
<1>2. CASE UNCHANGED unwritten
  BY <1>1, <1>2 DEF WritesInv
<1>3. CASE unwritten' = unwritten \o RowsBetween(mgr, mgr')
  <2>1. PICK h, used2 : h = mgr' /\ used2 = usedIds'
    OBVIOUS
  <2>2. MgrInv(h, used2, IsInstanceIdBound) /\ NothingForgotten(mgr, h)
    BY <2>1 DEF StepKeeps, InstancesInv, IsInstanceIdBound
  <2>3. RowsBetween(mgr, h) \in Seq(LoadableTables)
    BY <2>2, RowsBetweenLoad DEF InstancesInv
  <2> QED
    BY <1>1, <1>3, <2>1, <2>3, ConcatProperties DEF WritesInv
<1> QED
  BY <1>2, <1>3 DEF QueuesWrites

\* What a lock that counts in the tables shows there is shown then.
RestartLoads ==
  /\ DungeonInv' /\ LocksOutlive(mgr, mgr')
  /\ \A p \in Players : \A e \in Written(p) :
       mgr'.permanent[p] # Absent /\ e \in mgr'.permanent[p].CompletedEncountersMask

\* The server loads the tables, whatever they hold.
LEMMA RestartKeeps == ASSUME DungeonInv, Restart PROVE RestartLoads
<1> DEFINE t == Tables
           rows == [p \in Players |-> IF Loadable(p) THEN t.locks[p] ELSE Absent]
           known == [id \in Ids |-> IF IsInstanceIdBound /\ id \in RegisteredIds
                                    THEN t.instances[id] ELSE Absent]
<1>1. /\ mgr' = [mgr EXCEPT
           !.permanent = rows, !.lockRows = rows, !.instanceRows = t.instances,
           !.temporary = [p \in Players |-> Absent],
           !.mapLock = [id \in Ids |-> Absent],
           !.shared = known]
      /\ unwritten' = IF rows = t.locks THEN <<>> ELSE <<t>>
      /\ i_maps' = [id \in Ids |-> Absent] /\ usedIds' = RegisteredIds
      /\ at' = [p \in Players |-> 0] /\ _pendingBindId' = [p \in Players |-> 0]
      /\ UNCHANGED <<kind, period>>
  BY DEF Restart
<1>2. mgr \in Managers /\ StateInv
  BY DEF DungeonInv, InstancesInv, MgrInv
<1>2a. t \in LoadableTables /\ t \in TableTypes /\ Loads(t)
  BY TablesLoad DEF LoadableTables
<1>2b. RegisteredIds = {t.locks[p].instanceId : p \in {q \in Players : t.locks[q] # Absent}}
       /\ \A p \in Players : Loadable(p) <=>
            /\ t.locks[p] # Absent
            /\ IsInstanceIdBound => t.instances[t.locks[p].instanceId] # Absent
  BY DEF RegisteredIds, Loadable
<1>2c. \A p \in Players :
         Written(p) = IF t.locks[p] # Absent /\ Active(t.locks[p])
                      THEN t.locks[p].CompletedEncountersMask ELSE {}
  BY DEF Written
<1> HIDE DEF t
<1>3. /\ \A p \in Players : t.locks[p] \in LockTypes \union {Absent}
      /\ t.instances \in [Ids -> SharedTypes \union {Absent}]
  BY <1>2a DEF TableTypes
<1>4. \A p \in Players : t.locks[p] # Absent =>
        t.locks[p].instanceId \in Ids /\ t.locks[p].instanceId \in RegisteredIds
  BY <1>2b, <1>3 DEF LockTypes
<1>5. RegisteredIds \subseteq Ids
  BY <1>2b, <1>4
<1>6. rows \in [Players -> LockTypes \union {Absent}] /\ known \in [Ids -> SharedTypes \union {Absent}]
  BY <1>3
<1>7. /\ \A p \in Players : rows[p] # Absent => Loadable(p) /\ rows[p] = t.locks[p]
      /\ \A p \in Players : Loadable(p) => rows[p] = t.locks[p]
  OBVIOUS
<1>8. \A id \in Ids : known[id] = IF IsInstanceIdBound /\ id \in RegisteredIds
                                  THEN t.instances[id] ELSE Absent
  OBVIOUS
<1> HIDE DEF rows, known
<1>9. PICK h : h = mgr'
  OBVIOUS
<1>10. /\ h.permanent = rows /\ h.lockRows = rows /\ h.temporary = [p \in Players |-> Absent]
       /\ h.mapLock = [id \in Ids |-> Absent] /\ h.shared = known
       /\ h.instanceRows = t.instances /\ h \in Managers
  BY <1>1, <1>2, <1>3, <1>6, <1>9 DEF Managers
<1>11. LocksInv(h)
  <2>1. \A p \in Players : rows[p] # Absent => ~rows[p].isNew
    BY <1>2a, <1>2b, <1>7 DEF Loads
  <2> QED
    BY <1>10, <2>1 DEF LocksInv, Owned, SameTime
<1>12. UsedInv(h, RegisteredIds)
  BY <1>2b, <1>4, <1>7, <1>10 DEF UsedInv
<1>13. ASSUME IsInstanceIdBound PROVE BoundInv(h)
  <2>1. ASSUME NEW p \in Players, rows[p] # Absent
        PROVE  Shown(h, rows[p])
    <3>1. rows[p] = t.locks[p] /\ t.locks[p] # Absent
          /\ t.instances[t.locks[p].instanceId] # Absent
      BY <1>2b, <1>7, <1>13, <2>1
    <3>2. h.shared[t.locks[p].instanceId] = t.instances[t.locks[p].instanceId]
      BY <1>4, <1>8, <1>10, <1>13, <3>1
    <3>3. t.locks[p].CompletedEncountersMask
            \subseteq t.instances[t.locks[p].instanceId].CompletedEncountersMask
      BY <1>2a, <1>13, <3>1 DEF Loads
    <3> QED
      BY <3>1, <3>2, <3>3 DEF Shown
  <2>2. \A id \in Ids : t.instances[id] # Absent => t.instances[id].saved
    BY <1>2a, <1>13 DEF Loads
  <2> QED
    BY <1>8, <1>10, <2>1, <2>2 DEF BoundInv, Owned
<1>14. MgrInv(mgr, usedIds, IsInstanceIdBound)'
  BY <1>1, <1>9, <1>10, <1>11, <1>12, <1>13 DEF MgrInv, IsInstanceIdBound
<1>15. StateInv'
  <2>1. Loaded' = {}
    BY <1>1 DEF Loaded
  <2> QED
    BY <1>1, <1>2, <1>5, <1>9, <1>10, <2>1 DEF StateInv
<1>16. WritesInv'
  <2>1. LoadableTables' = LoadableTables
    BY <1>1 DEF LoadableTables, Loads, IsInstanceIdBound, Active, IsExpired
  <2> QED
    BY <1>1, <1>2a, <2>1 DEF WritesInv
<1>17. ASSUME NEW p \in Players, NEW e \in Written(p)
       PROVE  h.permanent[p] # Absent /\ e \in h.permanent[p].CompletedEncountersMask
  <2>1. t.locks[p] # Absent /\ Active(t.locks[p]) /\ e \in t.locks[p].CompletedEncountersMask
    BY <1>2c, <1>17
  <2>2. Loadable(p)
    BY <1>2a, <1>2b, <2>1 DEF Loads
  <2> QED
    BY <1>7, <1>10, <2>1, <2>2
<1>18. LocksOutlive(mgr, h)
  BY <1>10, AbsentAssumption DEF LocksOutlive
<1> QED
  BY <1>9, <1>14, <1>15, <1>16, <1>17, <1>18 DEF RestartLoads, DungeonInv, InstancesInv

-----------------------------------------------------------------------------
(* The theorems. *)

\* A step that leaves the locks alone neither forgets nor deletes any.
LEMMA QuietKeeps ==
  ASSUME InstancesInv, UNCHANGED mgr
  PROVE  NothingForgotten(mgr, mgr') /\ LocksOutlive(mgr, mgr')
<1>1. mgr \in Managers
  BY DEF InstancesInv, MgrInv
<1>2. NothingForgotten(mgr, mgr) /\ LocksOutlive(mgr, mgr)
  BY <1>1, SameLocks
<1> QED
  BY <1>2

\* A restart apart.
StepIsKept == Restart \/ (StepKeeps /\ WritesInv')

\* Every step but a restart keeps the invariant, forgets no encounter and deletes
\* no lock that a map needs.
LEMMA InstancesStepKeeps == ASSUME DungeonInv, InstancesNext PROVE StepIsKept
<1>0. InstancesInv /\ WritesInv /\ period \in Int
  BY InstanceAssumption DEF DungeonInv, InstancesInv, StateInv
<1>a. ASSUME UNCHANGED <<kind, unwritten>>, period' \in {period, period + 1} PROVE WritesInv'
  BY <1>0, <1>a, UnwrittenKeeps
<1>b. ASSUME StepKeeps, QueuesWrites, UNCHANGED <<kind, period>> PROVE StepIsKept
  BY <1>0, <1>b, QueuesKeeps DEF StepIsKept
<1>1. ASSUME NEW p \in Players, NEW owner \in Players, EnterInstance(p, owner) PROVE StepIsKept
  <2>1. UNCHANGED <<kind, period, unwritten>>
    BY <1>1 DEF EnterInstance
  <2> QED
    BY <1>0, <1>a, <1>1, <2>1, EnterKeeps DEF StepIsKept
<1>2. ASSUME NEW p \in Players, LeaveInstance(p) PROVE StepIsKept
  <2>1. InstancesInv' /\ UNCHANGED <<kind, period, mgr, unwritten>>
    BY <1>0, <1>2, LeaveKeeps DEF LeaveInstance
  <2> QED
    BY <1>0, <1>a, <2>1, QuietKeeps DEF StepKeeps, StepIsKept
<1>3. ASSUME NEW p \in Players, ConfirmPendingBind(p) PROVE StepIsKept
  <2>1. QueuesWrites /\ UNCHANGED <<kind, period>>
    BY <1>3 DEF ConfirmPendingBind
  <2> QED
    BY <1>0, <1>b, <1>3, <2>1, ConfirmKeeps
<1>4. ASSUME NEW p \in Players, DeclinePendingBind(p) PROVE StepIsKept
  <2>1. InstancesInv' /\ UNCHANGED <<kind, period, mgr, unwritten>>
    BY <1>0, <1>4, DeclineKeeps DEF DeclinePendingBind
  <2> QED
    BY <1>0, <1>a, <2>1, QuietKeeps DEF StepKeeps, StepIsKept
<1>5. ASSUME NEW p \in Players, NEW extended \in BOOLEAN, ExtendLock(p, extended) PROVE StepIsKept
  <2>1. QueuesWrites /\ UNCHANGED <<kind, period>>
    BY <1>5 DEF ExtendLock
  <2> QED
    BY <1>0, <1>b, <1>5, <2>1, ExtendKeeps
<1>6. ASSUME NEW p \in Players, ResetLock(p) PROVE StepIsKept
  <2>1. QueuesWrites /\ UNCHANGED <<kind, period>>
    BY <1>6 DEF ResetLock
  <2> QED
    BY <1>0, <1>b, <1>6, <2>1, ResetLockKeeps
<1>c. ASSUME NEW id \in Loaded, NEW completed \in SUBSET Encounters, UpdateInstanceLock(id, completed)
      PROVE  StepIsKept
  <2>1. QueuesWrites /\ UNCHANGED <<kind, period>>
    BY <1>c DEF UpdateInstanceLock
  <2> QED
    BY <1>0, <1>b, <1>c, <2>1, UpdateInstanceLockKeeps
<1>7. ASSUME NEW id \in Loaded, NEW e \in Encounters, EncounterDone(id, e) PROVE StepIsKept
  <2>1. {e} \in SUBSET Encounters /\ UpdateInstanceLock(id, {e})
    BY <1>7 DEF EncounterDone
  <2> QED
    BY <1>c, <2>1
<1>8. ASSUME NEW id \in Loaded, ValueSaved(id) PROVE StepIsKept
  <2>1. {} \in SUBSET Encounters /\ UpdateInstanceLock(id, {})
    BY <1>8 DEF ValueSaved
  <2> QED
    BY <1>c, <2>1
<1>9. ASSUME NEW id \in Loaded, InstanceExpires(id) PROVE StepIsKept
  <2>1. InstancesInv' /\ UNCHANGED <<kind, period, mgr, unwritten>>
    BY <1>0, <1>9, ExpireKeeps DEF InstanceExpires
  <2> QED
    BY <1>0, <1>a, <2>1, QuietKeeps DEF StepKeeps, StepIsKept
<1>10. ASSUME NEW id \in Loaded, UnloadInstance(id) PROVE StepIsKept
  <2>1. UNCHANGED <<kind, period, unwritten>>
    BY <1>10 DEF UnloadInstance
  <2> QED
    BY <1>0, <1>a, <1>10, <2>1, UnloadKeeps DEF StepIsKept
<1>11. CASE ResetTimePasses
  <2>1. InstancesInv' /\ period' = period + 1 /\ UNCHANGED <<kind, mgr, unwritten>>
    BY <1>0, <1>11, TimeKeeps DEF ResetTimePasses
  <2> QED
    BY <1>0, <1>a, <2>1, QuietKeeps DEF StepKeeps, StepIsKept
<1>12. CASE WriteExecuted
  <2>1. /\ InstancesInv' /\ UNCHANGED <<kind, period, mgr>>
        /\ unwritten # <<>> /\ unwritten' = Tail(unwritten)
    BY <1>0, <1>12, WriteKeeps DEF WriteExecuted
  <2>2. LoadableTables' = LoadableTables
    BY <2>1 DEF LoadableTables, Loads, IsInstanceIdBound, Active, IsExpired
  <2>3. WritesInv'
    BY <1>0, <2>1, <2>2, HeadTailProperties DEF WritesInv
  <2> QED
    BY <1>0, <2>1, <2>3, QuietKeeps DEF StepKeeps, StepIsKept
<1>13. CASE Restart
  BY <1>13 DEF StepIsKept
<1> QED
  BY <1>1, <1>2, <1>3, <1>4, <1>5, <1>6, <1>7, <1>8, <1>9, <1>10, <1>11, <1>12, <1>13
  DEF InstancesNext

\* So does a restart, but for what was not written.
LEMMA DungeonStepKeeps ==
  ASSUME DungeonInv, [InstancesNext]_instanceVars
  PROVE  DungeonInv'
<1>1. CASE Restart
  BY <1>1, RestartKeeps DEF RestartLoads
<1>2. CASE InstancesNext /\ ~Restart
  BY <1>2, InstancesStepKeeps DEF StepIsKept, StepKeeps, DungeonInv
<1>3. CASE UNCHANGED instanceVars
  <2>1. InstancesInv /\ WritesInv /\ period \in Int /\ UNCHANGED <<kind, period, unwritten>>
    BY <1>3, InstanceAssumption DEF DungeonInv, InstancesInv, StateInv, instanceVars
  <2> QED
    BY <1>3, <2>1, InstancesStutter, UnwrittenKeeps DEF DungeonInv
<1> QED
  BY <1>1, <1>2, <1>3

\* The invariant of the locks, maps, players and tables of a dungeon.
THEOREM InstancesInvariant == InstancesSpec => []DungeonInv
<1>1. InstancesInit => DungeonInv
  BY InstancesInitKeeps, WritesInitKeeps DEF DungeonInv
<1>2. DungeonInv /\ [InstancesNext]_instanceVars => DungeonInv'
  BY DungeonStepKeeps
<1> QED
  BY <1>1, <1>2, PTL DEF InstancesSpec

\* Temporary locks are new and permanent ones are not, players are in maps that
\* exist, and the rows of the database, once the queued writes have run, show what
\* the locks of the players show: also when a restart lost some of those writes.
THEOREM InstanceTypes == InstancesSpec => []InstancesTypeOK
<1>1. DungeonInv => InstancesTypeOK
  BY InstancesTyped DEF DungeonInv
<1> QED
  BY InstancesInvariant, <1>1, PTL

\* With locks bound to instance ids, a map, its lock and the locks of the players
\* inside name one instance, whose shared state shows what those locks show:
\* what the assertions of UpdateInstanceLockForPlayer rely on.
THEOREM LocksNameOneInstance == InstancesSpec => []InstanceIdsAgree
<1>1. DungeonInv => InstanceIdsAgree
  BY InstancesAgree DEF DungeonInv
<1> QED
  BY InstancesInvariant, <1>1, PTL

\* An encounter that a lock that counts shows is shown after every step, other
\* players' deeds and a new lock included; a restart, which loses the writes that
\* did not run, forgets it only if none of those that did run wrote it.
THEOREM EncountersKept == InstancesSpec => NoEncounterForgotten
<1>1. ASSUME DungeonInv, InstancesNext
      PROVE  \A p \in Players : FindActive(mgr, p, TRUE) # Absent =>
               \A e \in mgr.permanent[p].CompletedEncountersMask :
                 \/ mgr'.permanent[p] # Absent /\ e \in mgr'.permanent[p].CompletedEncountersMask
                 \/ Restart /\ e \notin Written(p)
  <2>1. CASE Restart
    <3>1. \A p \in Players : \A e \in Written(p) :
            mgr'.permanent[p] # Absent /\ e \in mgr'.permanent[p].CompletedEncountersMask
      BY <1>1, <2>1, RestartKeeps DEF RestartLoads
    <3> HIDE DEF Restart
    <3> QED
      BY <2>1, <3>1
  <2>2. CASE ~Restart
    <3>1. NothingForgotten(mgr, mgr')
      BY <1>1, <2>2, InstancesStepKeeps DEF StepIsKept, StepKeeps
    <3> QED
      BY <3>1, WhatIsFound DEF NothingForgotten
  <2> QED
    BY <2>1, <2>2
<1> QED
  BY InstancesInvariant, <1>1, PTL DEF InstancesSpec, NoEncounterForgotten

\* The lock that a loaded map points to is deleted only when it counts no more.
THEOREM MapLocksLast == InstancesSpec => LocksOutliveMaps
<1>1. ASSUME DungeonInv, InstancesNext
      PROVE  \A id \in Ids : mgr.mapLock[id] \notin {Absent, Deleted} /\ mgr'.mapLock[id] = Deleted =>
               ~Active(MapLock(id))
  <2>1. LocksOutlive(mgr, mgr')
    BY <1>1, InstancesStepKeeps, RestartKeeps DEF StepIsKept, StepKeeps, RestartLoads
  <2> QED
    BY <2>1 DEF LocksOutlive, Owned, MapLock
<1> QED
  BY InstancesInvariant, <1>1, PTL DEF InstancesSpec, LocksOutliveMaps
-----------------------------------------------------------------------------
(* The two components of MCSessionAndInstances together: a step of the
   composition is a step of one and leaves the other as it is.  *)

PartsInv == SessionInv /\ DungeonInv

\* No step of the composition disturbs an invariant of a component.
LEMMA PartsStep == PartsInv /\ [PartsNext]_<<part, vars, instanceVars>> => PartsInv'
<1> SUFFICES ASSUME PartsInv, [PartsNext]_<<part, vars, instanceVars>> PROVE PartsInv'
  OBVIOUS
<1>1. [Next]_vars /\ [InstancesNext]_instanceVars
  BY DEF PartsNext, Moves
<1>2. SessionInv'
  BY <1>1, SessionStepKeeps DEF PartsInv
<1>3. DungeonInv'
  BY <1>1, DungeonStepKeeps DEF PartsInv
<1> QED
  BY <1>2, <1>3 DEF PartsInv

\* Whichever moves, the sockets of the sessions and the locks, maps and rows of the
\* instances keep their types, if clients keep to the protocol.
THEOREM PartsTypes ==
  /\ PartsInit /\ [][PartsNext]_<<part, vars, instanceVars>>
  /\ LateFailure = FALSE /\ RepeatedAck = FALSE
  => []TypesOK
<1>1. PartsInit /\ LateFailure = FALSE /\ RepeatedAck = FALSE => PartsInv
  BY SessionInitInv, InstancesInitKeeps, WritesInitKeeps DEF PartsInit, PartsInv, DungeonInv
<1>2. PartsInv => TypesOK
  <2>1. SessionInv => SessionTypeOK
    BY DEF SessionInv
  <2> QED
    BY <2>1, InstancesTyped DEF PartsInv, DungeonInv, TypesOK
<1> QED
  BY <1>1, <1>2, PartsStep, PTL
=============================================================================
