------------------------- MODULE WorldSessionProofs -------------------------
(***************************************************************************)
(* Theorems about World, for every set of accounts and logins, every       *)
(* player limit and every tolerance; and about WorldSession, for every set *)
(* of accounts, any number of logins, attempts and keys.  All of them are  *)
(* about clients that acknowledge encryption once on a socket: past a      *)
(* second one (RepeatedAck) the code uses a session it has freed.  The     *)
(* sockets and players of the sessions need also that no client reports an *)
(* attempt as failed after its socket finished the handshake               *)
(* (LateFailure).                                                          *)
(***************************************************************************)
EXTENDS WorldSession, FiniteSetTheorems, TLAPS

-----------------------------------------------------------------------------
(* Queues without repetitions. *)

\* A queue of sessions without repetitions.
IsQueue(q) == q \in Seq(Sessions) /\ IsInjective(q)

\* Past its first part a concatenation is its second part.
LEMMA ConcatRight ==
  ASSUME NEW a \in Seq(Sessions), NEW b \in Seq(Sessions),
         NEW k \in 1..(Len(a) + Len(b)), ~(k <= Len(a))
  PROVE  (a \o b)[k] = b[k - Len(a)]
OBVIOUS

\* Erasing the i-th entry shifts the later ones.
LEMMA RemoveAtShifts ==
  ASSUME NEW q \in Seq(Sessions), NEW i \in DOMAIN q
  PROVE  /\ RemoveAt(q, i) \in Seq(Sessions)
         /\ Len(RemoveAt(q, i)) = Len(q) - 1
         /\ \A k \in 1..(Len(q) - 1) :
              RemoveAt(q, i)[k] = IF k < i THEN q[k] ELSE q[k + 1]
<1> DEFINE l == SubSeq(q, 1, i - 1)
           r == SubSeq(q, i + 1, Len(q))
<1>1. i \in 1..Len(q) /\ Len(q) \in Nat
  OBVIOUS
<1>2. l \in Seq(Sessions) /\ Len(l) = i - 1 /\ \A k \in 1..(i - 1) : l[k] = q[k]
  BY <1>1
<1>3. /\ r \in Seq(Sessions) /\ Len(r) = Len(q) - i
      /\ \A k \in 1..(Len(q) - i) : r[k] = q[k + i]
  BY <1>1
<1> HIDE DEF l, r
<1>4. l \o r \in Seq(Sessions) /\ Len(l \o r) = Len(q) - 1
  BY <1>1, <1>2, <1>3
<1>5. ASSUME NEW k \in 1..(Len(q) - 1)
      PROVE  (l \o r)[k] = IF k < i THEN q[k] ELSE q[k + 1]
  <2>1. CASE k < i
    BY <1>1, <1>2, <1>3, <2>1
  <2>2. CASE ~(k < i)
    <3>1. k - (i - 1) \in 1..(Len(q) - i) /\ (k - (i - 1)) + i = k + 1 /\ k >= i
      BY <1>1, <2>2
    <3>3. k \in 1..(Len(l) + Len(r)) /\ ~(k <= Len(l)) /\ k - Len(l) = k - (i - 1)
      BY <1>1, <1>2, <1>3, <3>1
    <3>4. (l \o r)[k] = r[k - Len(l)]
      BY <1>2, <1>3, <3>3, ConcatRight
    <3>2. (l \o r)[k] = r[k - (i - 1)]
      BY <3>3, <3>4
    <3> QED
      BY <1>1, <1>3, <2>2, <3>1, <3>2
  <2> QED
    BY <1>1, <2>1, <2>2
<1> QED
  BY <1>4, <1>5 DEF RemoveAt, l, r

\* Without takes out that session, nothing else, and keeps a queue a queue.
LEMMA WithoutRemoves ==
  ASSUME NEW q, IsQueue(q), NEW s \in Sessions
  PROVE  /\ IsQueue(Without(q, s))
         /\ ToSet(Without(q, s)) = ToSet(q) \ {s}
         /\ Len(Without(q, s)) = IF s \in ToSet(q) THEN Len(q) - 1 ELSE Len(q)
<1> DEFINE w == Without(q, s)
<1>0. q \in Seq(Sessions) /\ IsInjective(q) /\ DOMAIN q = 1..Len(q) /\ Len(q) \in Nat
  BY DEF IsQueue
<1>1. CASE s \notin ToSet(q)
  <2>1. w = q
    BY <1>1 DEF Without, ToSet
  <2> QED
    BY <1>1, <2>1
<1>2. CASE s \in ToSet(q)
  <2>1. PICK i \in DOMAIN q : q[i] = s /\ w = RemoveAt(q, i)
    BY <1>2 DEF Without, ToSet
  <2> HIDE DEF w
  <2>7. /\ w \in Seq(Sessions) /\ Len(w) = Len(q) - 1
        /\ \A k \in 1..(Len(q) - 1) : w[k] = IF k < i THEN q[k] ELSE q[k + 1]
    BY <1>0, <2>1, RemoveAtShifts
  <2>2. /\ w \in Seq(Sessions) /\ Len(w) = Len(q) - 1 /\ DOMAIN w = 1..(Len(q) - 1)
        /\ \A k \in 1..(Len(q) - 1) : w[k] = IF k < i THEN q[k] ELSE q[k + 1]
    BY <2>7
  <2> DEFINE at(k) == IF k < i THEN k ELSE k + 1
  <2>3. \A k \in 1..(Len(q) - 1) : at(k) \in 1..Len(q) /\ at(k) # i /\ w[k] = q[at(k)]
    BY <1>0, <2>1, <2>2
  <2>6. \A k, m \in 1..(Len(q) - 1) : at(k) = at(m) => k = m
    BY <1>0, <2>1
  <2> HIDE DEF at
  <2>8. IsInjective(w)
    BY <1>0, <2>2, <2>3, <2>6 DEF IsInjective
  <2>4. ToSet(w) \subseteq ToSet(q) \ {s}
    BY <1>0, <2>1, <2>2, <2>3 DEF IsInjective, ToSet
  <2>5. ToSet(q) \ {s} \subseteq ToSet(w)
    <3> SUFFICES ASSUME NEW k \in DOMAIN q, k # i PROVE q[k] \in ToSet(w)
      BY <2>1 DEF ToSet
    <3>1. CASE k < i
      BY <1>0, <2>1, <2>2, <3>1 DEF ToSet
    <3>2. CASE k > i
      <4>1. k - 1 \in 1..(Len(q) - 1) /\ ~(k - 1 < i) /\ (k - 1) + 1 = k
        BY <1>0, <2>1, <3>2
      <4>2. w[k - 1] = q[k]
        BY <2>2, <4>1
      <4> QED
        BY <2>2, <4>1, <4>2 DEF ToSet
    <3> QED
      BY <1>0, <2>1, <3>1, <3>2
  <2> QED
    BY <1>2, <2>2, <2>4, <2>5, <2>8 DEF IsQueue, w
<1> QED
  BY <1>1, <1>2

\* A queue is empty exactly when it has no length, and no members.
LEMMA EmptyQueue ==
  ASSUME NEW q, IsQueue(q)
  PROVE  /\ Len(q) \in Nat /\ ToSet(q) \subseteq Sessions
         /\ Len(q) > 0 <=> q # <<>>
         /\ ToSet(q) = {} <=> q = <<>>
<1>1. q \in Seq(Sessions) /\ DOMAIN q = 1..Len(q) /\ Len(q) \in Nat
  BY DEF IsQueue
<1>2. Len(q) > 0 <=> q # <<>>
  BY <1>1
<1>3. ToSet(q) = {} <=> Len(q) = 0
  <2>1. Len(q) > 0 => q[1] \in ToSet(q)
    BY <1>1 DEF ToSet
  <2>2. Len(q) = 0 => DOMAIN q = {}
    BY <1>1
  <2>3. DOMAIN q = {} => ToSet(q) = {}
    BY Zenon DEF ToSet
  <2> QED
    BY <1>1, <2>1, <2>2, <2>3
<1>4. ToSet(q) \subseteq Sessions
  BY <1>1 DEF ToSet
<1> QED
  BY <1>1, <1>2, <1>3, <1>4

\* Taking the head off takes out exactly the head.
LEMMA TailRemoves ==
  ASSUME NEW q, IsQueue(q), q # <<>>
  PROVE  /\ Head(q) \in ToSet(q)
         /\ IsQueue(Tail(q))
         /\ ToSet(Tail(q)) = ToSet(q) \ {Head(q)}
         /\ Len(Tail(q)) = Len(q) - 1
<1>0. /\ q \in Seq(Sessions) /\ IsInjective(q) /\ DOMAIN q = 1..Len(q)
      /\ Len(q) \in Nat /\ Len(q) > 0
  BY DEF IsQueue
<1>1. Head(q) = q[1] /\ Head(q) \in ToSet(q)
  BY <1>0 DEF ToSet
<1>2. /\ Tail(q) \in Seq(Sessions) /\ Len(Tail(q)) = Len(q) - 1
      /\ DOMAIN Tail(q) = 1..(Len(q) - 1)
      /\ \A k \in 1..(Len(q) - 1) : Tail(q)[k] = q[k + 1]
  BY <1>0
<1>3. IsInjective(Tail(q))
  BY <1>0, <1>2 DEF IsInjective
<1>4. ToSet(Tail(q)) \subseteq ToSet(q) \ {Head(q)}
  BY <1>0, <1>1, <1>2 DEF IsInjective, ToSet
<1>5. ToSet(q) \ {Head(q)} \subseteq ToSet(Tail(q))
  <2> SUFFICES ASSUME NEW k \in 2..Len(q) PROVE q[k] \in ToSet(Tail(q))
    BY <1>0, <1>1 DEF ToSet
  <2>1. k - 1 \in 1..(Len(q) - 1) /\ Tail(q)[k - 1] = q[k]
    BY <1>0, <1>2
  <2> QED
    BY <1>2, <2>1 DEF ToSet
<1> QED
  BY <1>1, <1>2, <1>3, <1>4, <1>5 DEF IsQueue

\* Appending a session that is not there keeps a queue a queue.
LEMMA AppendAdds ==
  ASSUME NEW q, IsQueue(q), NEW s \in Sessions
  PROVE  /\ s \notin ToSet(q) => IsQueue(Append(q, s))
         /\ ToSet(Append(q, s)) = ToSet(q) \union {s}
         /\ Len(Append(q, s)) = Len(q) + 1
<1>0. q \in Seq(Sessions) /\ IsInjective(q) /\ DOMAIN q = 1..Len(q) /\ Len(q) \in Nat
  BY DEF IsQueue
<1>1. /\ Append(q, s) \in Seq(Sessions) /\ Len(Append(q, s)) = Len(q) + 1
      /\ DOMAIN Append(q, s) = 1..(Len(q) + 1)
      /\ Append(q, s)[Len(q) + 1] = s
      /\ \A k \in 1..Len(q) : Append(q, s)[k] = q[k]
  BY <1>0
<1>2. ToSet(Append(q, s)) = ToSet(q) \union {s}
  BY <1>0, <1>1 DEF ToSet
<1>3. s \notin ToSet(q) => IsInjective(Append(q, s))
  BY <1>0, <1>1 DEF ToSet, IsInjective
<1> QED
  BY <1>1, <1>2, <1>3 DEF IsQueue

\* What RemoveQueuedPlayer counts: the active sessions without the one that
\* leaves, when that one is active.
OthersActive(q, s, total) ==
  IF s \notin ToSet(q) /\ total - Len(q) # 0 THEN total - Len(q) - 1 ELSE total - Len(q)

Gone(q, s) == IF s \in ToSet(q) THEN 1 ELSE 0

Admits(q, s, total) ==
  (PlayerLimit = 0 \/ OthersActive(q, s, total) < PlayerLimit) /\ Len(q) - Gone(q, s) > 0

\* RemoveQueuedPlayer takes out the session and at most one other, which it
\* admits, and does so exactly when there is room.
LEMMA RemovalFacts ==
  ASSUME NEW q, IsQueue(q), NEW s \in Sessions, NEW total \in Int,
         NEW r, r = RemoveQueuedPlayer(q, s, total)
  PROVE  /\ r.found \in BOOLEAN /\ (r.found <=> s \in ToSet(q))
         /\ IsQueue(r.queue)
         /\ r.admitted \subseteq ToSet(q) \ {s}
         /\ ToSet(r.queue) = ToSet(q) \ ({s} \union r.admitted)
         /\ Len(r.queue) = Len(q) - Gone(q, s) - (IF Admits(q, s, total) THEN 1 ELSE 0)
         /\ ~Admits(q, s, total) => r.admitted = {}
<1> DEFINE rest == Without(q, s)
<1>0. /\ IsQueue(rest) /\ ToSet(rest) = ToSet(q) \ {s}
      /\ Len(rest) = Len(q) - Gone(q, s) /\ Len(rest) \in Nat /\ Len(q) \in Nat
      /\ (rest = <<>> <=> Len(rest) = 0)
  BY WithoutRemoves DEF Gone, IsQueue
<1>1. (\E i \in DOMAIN q : q[i] = s) <=> s \in ToSet(q)
  BY DEF ToSet
<1> HIDE DEF rest
<1>2. /\ r.found \in BOOLEAN /\ (r.found <=> s \in ToSet(q))
      /\ r.queue = IF Admits(q, s, total) THEN Tail(rest) ELSE rest
      /\ r.admitted = IF Admits(q, s, total) THEN {Head(rest)} ELSE {}
  <2> DEFINE found    == \E i \in DOMAIN q : q[i] = s
             sessions == IF ~found /\ total - Len(q) # 0
                         THEN total - Len(q) - 1 ELSE total - Len(q)
             admits   == (PlayerLimit = 0 \/ sessions < PlayerLimit) /\ rest # <<>>
  <2>1. /\ r.found = found
        /\ r.queue = IF admits THEN Tail(rest) ELSE rest
        /\ r.admitted = IF admits THEN {Head(rest)} ELSE {}
    BY DEF RemoveQueuedPlayer, rest
  <2>2. sessions = OthersActive(q, s, total)
    BY <1>1 DEF OthersActive
  <2>3. (rest # <<>>) <=> (Len(q) - Gone(q, s) > 0)
    BY <1>0
  <2> HIDE DEF sessions
  <2>4. admits <=> Admits(q, s, total)
    BY <2>2, <2>3 DEF Admits
  <2> HIDE DEF admits
  <2> QED
    BY <1>1, <2>1, <2>4
<1>3. CASE Admits(q, s, total)
  <2>1. rest # <<>>
    BY <1>0, <1>3 DEF Admits
  <2>2. /\ Head(rest) \in ToSet(rest) /\ IsQueue(Tail(rest))
        /\ ToSet(Tail(rest)) = ToSet(rest) \ {Head(rest)}
        /\ Len(Tail(rest)) = Len(rest) - 1
    BY <1>0, <2>1, TailRemoves
  <2>3. r.queue = Tail(rest) /\ r.admitted = {Head(rest)}
    BY <1>2, <1>3
  <2>4. Len(r.queue) = Len(q) - Gone(q, s) - 1
    BY <1>0, <2>2, <2>3
  <2> QED
    BY <1>0, <1>2, <1>3, <2>2, <2>3, <2>4
<1>4. CASE ~Admits(q, s, total)
  <2>1. r.queue = rest /\ r.admitted = {}
    BY <1>2, <1>4
  <2>2. Len(r.queue) = Len(q) - Gone(q, s) - 0
    BY <1>0, <2>1 DEF Gone
  <2> QED
    BY <1>0, <1>2, <1>4, <2>1, <2>2
<1> QED
  BY <1>3, <1>4

-----------------------------------------------------------------------------
(* The inductive invariant. *)

\* The sessions of the registry are alive and under their own account.
RegistryInv ==
  /\ deleted \subseteq handed
  /\ \A a \in Registered :
       AccountOf(m_sessions[a]) = a /\ m_sessions[a] \in handed \ deleted

\* A session that is not registered yet is alive, is handed over once, and
\* nothing was done with it.
NewInv ==
  /\ IsQueue(addSessQueue)
  /\ \A s \in ToSet(addSessQueue) :
       s \in handed \ deleted /\ m_sessions[AccountOf(s)] # s /\ initState[s] = "none"
  /\ \A s \in Sessions \ handed : initState[s] = "none"

\* The login queue holds registered sessions, each once.
QueueInv ==
  /\ IsQueue(m_QueuedPlayer)
  /\ \A s \in ToSet(m_QueuedPlayer) : m_sessions[AccountOf(s)] = s
  /\ PlayerLimit = 0 => m_QueuedPlayer = <<>>

\* The loop of UpdateSessions visits registered sessions.
LoopInv ==
  /\ toUpdate \subseteq Registered
  /\ world \in {"add", "link"} => toUpdate = {}
  /\ world \in {"packets", "callbacks", "cleanup"} =>
       /\ current # NoSession /\ m_sessions[AccountOf(current)] = current
       /\ AccountOf(current) \notin toUpdate

SlotsInv == CapacityRespected /\ NoIdleSlot

\* Clients acknowledge encryption once.
WorldInv ==
  /\ RepeatedAck = FALSE
  /\ TypeOK /\ RegistryInv /\ NewInv /\ QueueInv /\ LoopInv /\ NobodyForgotten /\ SlotsInv

\* The invariant gives the properties the runs check.
LEMMA WorldInvImplies ==
  WorldInv => NoDanglingSession
<1> SUFFICES ASSUME WorldInv PROVE NoDanglingSession
  OBVIOUS
<1>1. \A a \in Registered : m_sessions[a] \notin deleted
  BY DEF WorldInv, RegistryInv
<1>2. ASSUME NEW i \in DOMAIN m_QueuedPlayer
      PROVE  /\ m_sessions[AccountOf(m_QueuedPlayer[i])] = m_QueuedPlayer[i]
             /\ \A j \in DOMAIN m_QueuedPlayer : m_QueuedPlayer[i] = m_QueuedPlayer[j] => i = j
  BY DEF WorldInv, QueueInv, IsQueue, IsInjective, ToSet
<1>3. \A i \in DOMAIN addSessQueue : addSessQueue[i] \notin deleted
  BY DEF WorldInv, NewInv, ToSet
<1>4. world \in {"packets", "callbacks", "cleanup"} =>
        current # NoSession /\ m_sessions[AccountOf(current)] = current
  BY DEF WorldInv, LoopInv
<1> QED
  BY <1>1, <1>2, <1>3, <1>4 DEF NoDanglingSession

\* Counting the registry is counting a finite set.
LEMMA RegisteredIsFinite == IsFiniteSet(Registered) /\ Cardinality(Registered) \in Nat
BY WorldAssumption, FS_Subset, FS_CardinalityType DEF Registered

\* No session was ever made.
LEMMA WorldInitInv == WorldInit /\ RepeatedAck = FALSE => WorldInv
<1> SUFFICES ASSUME WorldInit, RepeatedAck = FALSE PROVE WorldInv
  OBVIOUS
<1> USE DEF WorldInit
<1>1. Registered = {} /\ ToSet(addSessQueue) = {} /\ ToSet(m_QueuedPlayer) = {}
  BY DEF Registered, ToSet
<1>2. IsQueue(<<>>)
  BY DEF IsQueue, IsInjective
<1>3. TypeOK
  BY DEF TypeOK
<1>4. RegistryInv /\ NewInv /\ QueueInv /\ LoopInv /\ NobodyForgotten
  BY <1>1, <1>2 DEF RegistryInv, NewInv, QueueInv, LoopInv, NobodyForgotten
<1>5. Cardinality(Registered) = 0
  BY <1>1, FS_EmptySet
<1>6. SlotsInv
  BY <1>5, WorldAssumption DEF SlotsInv, CapacityRespected, NoIdleSlot, ActiveSessionCount
<1> QED
  BY <1>3, <1>4, <1>6 DEF WorldInv

-----------------------------------------------------------------------------
(* Steps that keep WorldInv. *)

\* A step that leaves the registry, the queues and the history of the sessions
\* alone keeps everything but the type and the loop.
LEMMA QuietStep ==
  ASSUME WorldInv, TypeOK', LoopInv',
         UNCHANGED <<m_sessions, addSessQueue, m_QueuedPlayer, m_inQueue, initState, deleted>>,
         handed' = handed
  PROVE  WorldInv'
<1>1. Registered' = Registered
  BY DEF Registered
<1>2. Cardinality(Registered') = Cardinality(Registered) /\ (\A s : Queued(s)' <=> Queued(s))
  BY <1>1 DEF Queued
<1>3. RegistryInv' /\ NewInv' /\ QueueInv'
  BY <1>1 DEF WorldInv, RegistryInv, NewInv, QueueInv
<1>4. NobodyForgotten' /\ SlotsInv'
  BY <1>1, <1>2 DEF WorldInv, NobodyForgotten, SlotsInv, CapacityRespected, NoIdleSlot,
                    ActiveSessionCount
<1> QED
  BY <1>3, <1>4 DEF WorldInv

\* Handing a session over: it joins the queue of new sessions only.
LEMMA AddSessionStep ==
  ASSUME WorldInv, NEW s \in Sessions, AddSession(s)
  PROVE  WorldInv'
<1> USE DEF AddSession, threadVars, queueVars, clockVars
<1>0. TypeOK /\ RegistryInv /\ NewInv /\ QueueInv /\ LoopInv
  BY DEF WorldInv
<1>1. Registered' = Registered
  BY DEF Registered
<1>2. s \notin ToSet(addSessQueue) /\ initState[s] = "none" /\ s \notin handed
  BY <1>0 DEF NewInv, WorldInv
<1>3. /\ IsQueue(addSessQueue') /\ ToSet(addSessQueue') = ToSet(addSessQueue) \union {s}
  BY <1>0, <1>2, AppendAdds DEF NewInv
<1>4. s \notin deleted /\ m_sessions[AccountOf(s)] # s
  <2>1. m_sessions[AccountOf(s)] = s => AccountOf(s) \in Registered
    BY WorldAssumption DEF Registered, Sessions, AccountOf
  <2> QED
    BY <1>0, <1>2, <2>1 DEF RegistryInv
<1>5. TypeOK'
  <2>1. addSessQueue' \in Seq(Sessions)
    BY <1>3 DEF IsQueue
  <2> QED
    BY <1>0, <2>1 DEF TypeOK
<1>6. RegistryInv' /\ NewInv'
  BY <1>0, <1>1, <1>2, <1>3, <1>4 DEF RegistryInv, NewInv
<1>7. QueueInv' /\ LoopInv'
  BY <1>0, <1>1 DEF QueueInv, LoopInv
<1>8. Cardinality(Registered') = Cardinality(Registered) /\ (\A t : Queued(t)' <=> Queued(t))
  BY <1>1 DEF Queued
<1>9. NobodyForgotten' /\ SlotsInv'
  BY <1>1, <1>8 DEF WorldInv, NobodyForgotten, SlotsInv, CapacityRespected, NoIdleSlot,
                    ActiveSessionCount
<1> QED
  BY <1>5, <1>6, <1>7, <1>9 DEF WorldInv

\* The head of the queue of new sessions, when it is taken off.
LEMMA NewSession ==
  ASSUME WorldInv, addSessQueue # <<>>, NEW s, s = Head(addSessQueue)
  PROVE  /\ s \in Sessions /\ s # NoSession /\ AccountOf(s) \in Accounts
         /\ s \in handed \ deleted /\ m_sessions[AccountOf(s)] # s /\ initState[s] = "none"
         /\ IsQueue(Tail(addSessQueue))
         /\ ToSet(Tail(addSessQueue)) = ToSet(addSessQueue) \ {s}
         /\ s \notin ToSet(m_QueuedPlayer)
<1>1. /\ s \in ToSet(addSessQueue) /\ IsQueue(Tail(addSessQueue))
      /\ ToSet(Tail(addSessQueue)) = ToSet(addSessQueue) \ {s}
  BY TailRemoves DEF WorldInv, NewInv
<1>2. s \in handed \ deleted /\ m_sessions[AccountOf(s)] # s /\ initState[s] = "none"
  BY <1>1 DEF WorldInv, NewInv
<1>3. s \in Sessions
  BY <1>2 DEF WorldInv, TypeOK
<1>4. s \notin ToSet(m_QueuedPlayer)
  BY <1>2 DEF WorldInv, QueueInv
<1> QED
  BY <1>1, <1>2, <1>3, <1>4, WorldAssumption DEF Sessions, AccountOf

\* Refusing a session deletes one nothing refers to.
LEMMA AddSessionRefusedStep ==
  ASSUME WorldInv, AddSessionRefused
  PROVE  WorldInv'
<1> USE DEF AddSessionRefused, threadVars, queueVars, clockVars
<1> DEFINE s == Head(addSessQueue)
<1>0. TypeOK /\ RegistryInv /\ NewInv /\ QueueInv /\ LoopInv
  BY DEF WorldInv
<1>1. Registered' = Registered
  BY DEF Registered
<1>2. /\ s \in Sessions /\ s \in handed \ deleted /\ m_sessions[AccountOf(s)] # s
      /\ IsQueue(addSessQueue') /\ ToSet(addSessQueue') = ToSet(addSessQueue) \ {s}
      /\ deleted' = deleted \union {s}
  BY NewSession
<1> HIDE DEF s
<1>3. TypeOK'
  <2>1. addSessQueue' \in Seq(Sessions) /\ deleted' \subseteq Sessions
    BY <1>0, <1>2 DEF IsQueue, TypeOK
  <2> QED
    BY <1>0, <2>1 DEF TypeOK
<1>4. RegistryInv'
  BY <1>0, <1>1, <1>2 DEF RegistryInv
<1>5. NewInv' /\ QueueInv' /\ LoopInv'
  BY <1>0, <1>1, <1>2 DEF NewInv, QueueInv, LoopInv
<1>6. Cardinality(Registered') = Cardinality(Registered) /\ (\A t : Queued(t)' <=> Queued(t))
  BY <1>1 DEF Queued
<1>7. NobodyForgotten' /\ SlotsInv'
  BY <1>1, <1>6 DEF WorldInv, NobodyForgotten, SlotsInv, CapacityRespected, NoIdleSlot,
                    ActiveSessionCount
<1> QED
  BY <1>3, <1>4, <1>5, <1>7 DEF WorldInv

\* The removal AddSession_ makes before it registers a session: none for a new
\* account, the old session's otherwise.
LEMMA ReplacedRemoval ==
  ASSUME WorldInv, NEW old \in Sessions \union {NoSession}, NEW removal,
         removal = IF old = NoSession
                   THEN [found |-> FALSE, queue |-> m_QueuedPlayer, admitted |-> {}]
                   ELSE RemoveQueuedPlayer(m_QueuedPlayer, old, Cardinality(Registered))
  PROVE  /\ removal.found \in BOOLEAN /\ (removal.found <=> old \in ToSet(m_QueuedPlayer))
         /\ IsQueue(removal.queue)
         /\ removal.admitted \subseteq ToSet(m_QueuedPlayer) \ {old}
         /\ ToSet(removal.queue) = ToSet(m_QueuedPlayer) \ ({old} \union removal.admitted)
         /\ Len(removal.queue) =
              Len(m_QueuedPlayer) - Gone(m_QueuedPlayer, old)
              - (IF old # NoSession /\ Admits(m_QueuedPlayer, old, Cardinality(Registered))
                 THEN 1 ELSE 0)
<1>1. IsQueue(m_QueuedPlayer)
  BY DEF WorldInv, QueueInv
<1>2. CASE old = NoSession
  <2>1. /\ removal.found = FALSE /\ removal.queue = m_QueuedPlayer /\ removal.admitted = {}
    BY <1>2
  <2>2. NoSession \notin ToSet(m_QueuedPlayer) /\ Len(m_QueuedPlayer) \in Nat
    BY <1>1, WorldAssumption DEF IsQueue, ToSet
  <2>3. Len(removal.queue) = Len(m_QueuedPlayer) - 0 - 0
    BY <2>1, <2>2
  <2>4. Gone(m_QueuedPlayer, old) = 0
    BY <1>2, <2>2 DEF Gone
  <2> QED
    BY <1>1, <1>2, <2>1, <2>2, <2>3, <2>4
<1>3. CASE old # NoSession
  <2>1. old \in Sessions /\ Cardinality(Registered) \in Int
    BY <1>3, RegisteredIsFinite
  <2>2. removal = RemoveQueuedPlayer(m_QueuedPlayer, old, Cardinality(Registered))
    BY <1>3
  <2> QED
    BY <1>1, <1>3, <2>1, <2>2, RemovalFacts
<1> QED
  BY <1>2, <1>3

\* Registering a session: the old one goes, the new one is queued or initialised.
LEMMA AddSessionAcceptedStep ==
  ASSUME WorldInv, AddSessionAccepted
  PROVE  WorldInv'
<1> DEFINE s       == Head(addSessQueue)
           a       == AccountOf(s)
           old     == m_sessions[a]
           isNew   == old = NoSession
           total   == Cardinality(Registered)
           removal == IF isNew
                      THEN [found |-> FALSE, queue |-> m_QueuedPlayer, admitted |-> {}]
                      ELSE RemoveQueuedPlayer(m_QueuedPlayer, old, total)
           count   == (IF isNew THEN total + 1 ELSE total) - (IF removal.found THEN 0 ELSE 1)
           waits   == /\ PlayerLimit > 0 /\ count >= PlayerLimit
                      /\ a \notin SkipQueue
                      /\ ~HasRecentlyDisconnected(a)
           q       == m_QueuedPlayer
<1>0. TypeOK /\ RegistryInv /\ NewInv /\ QueueInv /\ LoopInv /\ NobodyForgotten /\ SlotsInv
  BY DEF WorldInv
<1>1. /\ s \in Sessions /\ s # NoSession /\ a \in Accounts
      /\ s \in handed \ deleted /\ old # s /\ initState[s] = "none"
      /\ IsQueue(Tail(addSessQueue))
      /\ ToSet(Tail(addSessQueue)) = ToSet(addSessQueue) \ {s}
      /\ s \notin ToSet(q)
  BY NewSession DEF AddSessionAccepted
<1>2. old \in Sessions \union {NoSession}
  BY <1>0, <1>1 DEF TypeOK
<1>3. /\ removal.found \in BOOLEAN /\ (removal.found <=> old \in ToSet(q))
      /\ IsQueue(removal.queue)
      /\ removal.admitted \subseteq ToSet(q) \ {old}
      /\ ToSet(removal.queue) = ToSet(q) \ ({old} \union removal.admitted)
      /\ Len(removal.queue) = Len(q) - Gone(q, old) - (IF old # NoSession /\ Admits(q, old, total) THEN 1 ELSE 0)
  <2>1. removal = IF old = NoSession
                  THEN [found |-> FALSE, queue |-> m_QueuedPlayer, admitted |-> {}]
                  ELSE RemoveQueuedPlayer(m_QueuedPlayer, old, Cardinality(Registered))
    OBVIOUS
  <2> HIDE DEF removal, old, count, waits, total
  <2>2. /\ removal.found \in BOOLEAN /\ (removal.found <=> old \in ToSet(m_QueuedPlayer))
        /\ IsQueue(removal.queue)
        /\ removal.admitted \subseteq ToSet(m_QueuedPlayer) \ {old}
        /\ ToSet(removal.queue) = ToSet(m_QueuedPlayer) \ ({old} \union removal.admitted)
        /\ Len(removal.queue) =
             Len(m_QueuedPlayer) - Gone(m_QueuedPlayer, old)
             - (IF old # NoSession /\ Admits(m_QueuedPlayer, old, Cardinality(Registered))
                THEN 1 ELSE 0)
    BY <1>2, <2>1, ReplacedRemoval
  <2> QED
    BY <2>2 DEF total
<1>4. /\ addSessQueue' = Tail(addSessQueue)
      /\ m_sessions' = [m_sessions EXCEPT ![a] = s]
      /\ deleted' = IF isNew THEN deleted ELSE deleted \union {old}
      /\ m_QueuedPlayer' = IF waits THEN Append(removal.queue, s) ELSE removal.queue
      /\ m_inQueue' = [t \in Sessions |->
                         CASE t = s -> waits
                           [] t = old /\ removal.found -> FALSE
                           [] OTHER -> m_inQueue[t]]
      /\ initState' = Initialized(initState, removal.admitted \union (IF waits THEN {} ELSE {s}))
  BY DEF AddSessionAccepted
<1>5. /\ world = "add" /\ world' = "add" /\ toUpdate' = toUpdate /\ current' = current
      /\ m_disconnects' = m_disconnects /\ gameTime' = gameTime
      /\ m_playerLoading' = m_playerLoading /\ handed' = handed
  BY DEF AddSessionAccepted, threadVars, clockVars
<1>6. total \in Nat /\ Cardinality(Registered') = IF isNew THEN total + 1 ELSE total
  <2>1. Registered' = Registered \union {a}
    BY <1>0, <1>1, <1>4 DEF Registered, TypeOK
  <2>2. a \in Registered <=> ~isNew
    BY <1>1 DEF Registered
  <2> QED
    BY <2>1, <2>2, RegisteredIsFinite, FS_AddElement
<1>7. /\ q \in Seq(Sessions) /\ ToSet(q) \subseteq Sessions
      /\ \A t \in ToSet(q) : m_sessions[AccountOf(t)] = t
      /\ PlayerLimit = 0 => q = <<>>
  BY <1>0 DEF QueueInv, IsQueue, ToSet
<1>8. waits \in BOOLEAN /\ (waits => PlayerLimit > 0)
  BY WorldAssumption, Zenon DEF HasRecentlyDisconnected
<1>9. /\ IsQueue(m_QueuedPlayer')
      /\ ToSet(m_QueuedPlayer') = IF waits THEN ToSet(removal.queue) \union {s}
                                           ELSE ToSet(removal.queue)
      /\ Len(m_QueuedPlayer') = Len(removal.queue) + (IF waits THEN 1 ELSE 0)
  <2>1. Len(removal.queue) \in Nat /\ s \notin ToSet(removal.queue)
    BY <1>1, <1>3 DEF IsQueue
  <2> HIDE DEF removal, waits
  <2>2. CASE waits
    BY <1>1, <1>3, <1>4, <2>1, <2>2, AppendAdds
  <2>3. CASE ~waits
    BY <1>3, <1>4, <2>1, <2>3
  <2> QED
    BY <2>2, <2>3
<1>10. count = Cardinality(Registered') - (IF removal.found THEN 0 ELSE 1)
  BY <1>6
<1>11. waits => count >= PlayerLimit
  OBVIOUS
<1>12. SkipQueue = {} /\ Tolerance = 0 /\ PlayerLimit > 0 /\ ~waits => ~(count >= PlayerLimit)
  BY DEF HasRecentlyDisconnected
<1> HIDE DEF removal, waits, count, total, q
<1>13. TypeOK'
  <2>1. addSessQueue' \in Seq(Sessions) /\ m_QueuedPlayer' \in Seq(Sessions)
    BY <1>1, <1>4, <1>9 DEF IsQueue
  <2>2. /\ m_sessions' \in [Accounts -> Sessions \union {NoSession}]
        /\ deleted' \subseteq Sessions
        /\ initState' \in [Sessions -> {"none", "loading", "done"}]
    BY <1>0, <1>1, <1>2, <1>4 DEF TypeOK, Initialized
  <2>3. m_inQueue' \in [Sessions -> BOOLEAN]
    BY <1>0, <1>4, <1>8 DEF TypeOK
  <2> QED
    BY <1>0, <1>5, <2>1, <2>2, <2>3 DEF TypeOK
<1>14. \A b \in Accounts : b # a => m_sessions'[b] = m_sessions[b]
  BY <1>0, <1>4 DEF TypeOK
<1>15. m_sessions'[a] = s
  BY <1>0, <1>1, <1>4 DEF TypeOK
<1>16. RegistryInv'
  <2>1. deleted' \subseteq handed'
    BY <1>0, <1>1, <1>4, <1>5 DEF RegistryInv, Registered
  <2>2. ASSUME NEW b \in Registered' 
        PROVE  AccountOf(m_sessions'[b]) = b /\ m_sessions'[b] \in handed' \ deleted'
    <3>1. CASE b = a
      BY <1>1, <1>4, <1>5, <1>15, <3>1
    <3>2. CASE b # a
      <4>1. b \in Registered /\ m_sessions'[b] = m_sessions[b]
        BY <1>14, <3>2 DEF Registered
      <4>2. m_sessions[b] # old
        BY <1>0, <1>1, <3>2, <4>1 DEF RegistryInv, Registered
      <4> QED
        BY <1>0, <1>4, <1>5, <4>1, <4>2 DEF RegistryInv
    <3> QED
      BY <3>1, <3>2
  <2> QED
    BY <2>1, <2>2 DEF RegistryInv
<1>17. ASSUME NEW t \in Sessions PROVE
         initState'[t] = IF t \in removal.admitted \/ (~waits /\ t = s)
                         THEN "loading" ELSE initState[t]
  BY <1>4 DEF Initialized
<1>18. NewInv'
  <2>1. ASSUME NEW t \in ToSet(addSessQueue) \ {s}
        PROVE  t \in handed' \ deleted' /\ m_sessions'[AccountOf(t)] # t /\ initState'[t] = "none"
    <3>1. /\ t \in handed \ deleted /\ m_sessions[AccountOf(t)] # t /\ initState[t] = "none"
          /\ t \in Sessions /\ AccountOf(t) \in Accounts
      BY <1>0, WorldAssumption DEF NewInv, TypeOK, Sessions, AccountOf
    <3>2. t # old
      BY <1>0, <1>1, <3>1, WorldAssumption DEF RegistryInv, Registered
    <3>3. t \notin removal.admitted
      BY <1>3, <1>7, <3>1 DEF q
    <3> QED
      BY <1>4, <1>5, <1>14, <1>15, <1>17, <3>1, <3>2, <3>3
  <2>2. ASSUME NEW t \in Sessions \ handed PROVE initState'[t] = "none"
    <3>1. t # s /\ initState[t] = "none"
      BY <1>0, <1>1 DEF NewInv
    <3>2. t \notin ToSet(q)
      <4>1. AccountOf(t) \in Accounts /\ t # NoSession
        BY WorldAssumption DEF Sessions, AccountOf
      <4>2. m_sessions[AccountOf(t)] = t => t \in handed
        BY <1>0, <4>1 DEF RegistryInv, Registered
      <4> QED
        BY <1>7, <4>2 DEF q
    <3> QED
      BY <1>3, <1>17, <3>1, <3>2
  <2> QED
    BY <1>1, <1>4, <1>5, <2>1, <2>2 DEF NewInv
<1>19. QueueInv'
  <2>1. ASSUME NEW t \in ToSet(m_QueuedPlayer') PROVE m_sessions'[AccountOf(t)] = t
    <3>1. CASE t = s
      BY <1>15, <3>1
    <3>2. CASE t # s
      <4>1. t \in ToSet(q) /\ t # old /\ t \in Sessions /\ AccountOf(t) \in Accounts
        BY <1>3, <1>7, <1>9, <3>2 DEF q, Sessions, AccountOf
      <4>2. m_sessions[AccountOf(t)] = t
        BY <1>7, <4>1 DEF q
      <4> QED
        BY <1>14, <4>1, <4>2
    <3> QED
      BY <3>1, <3>2
  <2>2. PlayerLimit = 0 => m_QueuedPlayer' = <<>>
    <3> SUFFICES ASSUME PlayerLimit = 0 PROVE m_QueuedPlayer' = <<>>
      OBVIOUS
    <3>1. q = <<>> /\ ~waits
      BY <1>7, <1>8 DEF q
    <3>2. ToSet(q) = {}
      BY <3>1 DEF ToSet
    <3>3. ToSet(m_QueuedPlayer') = {}
      BY <1>3, <1>9, <3>1, <3>2
    <3> QED
      BY <1>9, <3>3, EmptyQueue
  <2> QED
    BY <1>9, <2>1, <2>2 DEF QueueInv
<1>20. LoopInv'
  <2>1. Registered \subseteq Registered'
    BY <1>1, <1>14, <1>15 DEF Registered
  <2> QED
    BY <1>0, <1>5, <2>1 DEF LoopInv
<1>21. NobodyForgotten'
  <2> SUFFICES ASSUME NEW b \in Registered', NEW t, t = m_sessions'[b]
      PROVE  /\ t \in ToSet(m_QueuedPlayer') <=> initState'[t] = "none"
             /\ t \in ToSet(m_QueuedPlayer') => m_inQueue'[t]
             /\ initState'[t] = "done" => ~m_inQueue'[t]
    BY DEF NobodyForgotten, Queued, ToSet
  <2>1. CASE b = a
    <3>1. t = s
      BY <1>15, <2>1
    <3>2. s \in ToSet(m_QueuedPlayer') <=> waits
      BY <1>1, <1>3, <1>9 DEF q
    <3>3. initState'[s] = IF waits THEN "none" ELSE "loading"
      BY <1>1, <1>3, <1>17 DEF q
    <3>4. m_inQueue'[s] = waits
      BY <1>1, <1>4
    <3> QED
      BY <3>1, <3>2, <3>3, <3>4
  <2>2. CASE b # a
    <3>1. /\ b \in Registered /\ t = m_sessions[b] /\ t \in Sessions /\ AccountOf(t) = b
          /\ t # s /\ t # old
      BY <1>0, <1>1, <1>14, <2>2, WorldAssumption DEF TypeOK, RegistryInv, Registered
    <3>2. /\ t \in ToSet(q) <=> initState[t] = "none"
          /\ t \in ToSet(q) => m_inQueue[t]
          /\ initState[t] = "done" => ~m_inQueue[t]
      BY <1>0, <3>1 DEF NobodyForgotten, Queued, ToSet, q
    <3>3. t \in ToSet(m_QueuedPlayer') <=> t \in ToSet(q) /\ t \notin removal.admitted
      BY <1>3, <1>9, <3>1
    <3>4. m_inQueue'[t] = m_inQueue[t]
      BY <1>4, <3>1
    <3>5. initState'[t] = IF t \in removal.admitted THEN "loading" ELSE initState[t]
      BY <1>17, <3>1
    <3> QED
      BY <3>2, <3>3, <3>4, <3>5, <1>3
  <2> QED
    BY <2>1, <2>2
<1>22. SlotsInv'
  <2> DEFINE n == Len(q)
             m == Len(m_QueuedPlayer')
             R == Cardinality(Registered')
  <2>1. /\ n \in Nat /\ m \in Nat /\ total \in Nat /\ PlayerLimit \in Nat
        /\ R = IF isNew THEN total + 1 ELSE total
        /\ m = n - Gone(q, old)
               - (IF old # NoSession /\ Admits(q, old, total) THEN 1 ELSE 0)
               + (IF waits THEN 1 ELSE 0)
    <3>1. n \in Nat /\ m \in Nat /\ Len(removal.queue) \in Nat
      BY <1>3, <1>7, <1>9 DEF q, IsQueue
    <3>2. m = Len(removal.queue) + (IF waits THEN 1 ELSE 0)
      BY <1>9
    <3>3. Len(removal.queue) = n - Gone(q, old)
             - (IF old # NoSession /\ Admits(q, old, total) THEN 1 ELSE 0)
      BY <1>3
    <3>4. R = IF isNew THEN total + 1 ELSE total
      BY <1>6
    <3> HIDE DEF n, m, R
    <3> QED
      BY <1>6, <3>1, <3>2, <3>3, <3>4, WorldAssumption
  <2>2. Gone(q, old) = IF removal.found THEN 1 ELSE 0
    BY <1>3 DEF Gone
  <2>3. /\ Gone(q, old) \in {0, 1} /\ (isNew => Gone(q, old) = 0)
        /\ (Gone(q, old) = 1 => n > 0)
        /\ count = R - 1 + Gone(q, old)
    <3>1. isNew => old \notin ToSet(q)
      BY <1>7, WorldAssumption DEF q
    <3>2. removal.found => n > 0
      BY <1>3, <1>7 DEF q, ToSet
    <3> QED
      BY <1>3, <1>6, <1>10, <2>2, <3>1, <3>2 DEF Gone
  <2>4. OthersActive(q, old, total) =
          IF Gone(q, old) = 0 /\ total - n # 0 THEN total - n - 1 ELSE total - n
    BY DEF OthersActive, Gone
  <2>5. Admits(q, old, total) <=>
          (PlayerLimit = 0 \/ OthersActive(q, old, total) < PlayerLimit) /\ n - Gone(q, old) > 0
    BY DEF Admits
  <2>6. /\ n > 0 => total - n >= PlayerLimit
        /\ PlayerLimit > 0 /\ Tolerance = 0 /\ SkipQueue = {} => total - n <= PlayerLimit
        /\ PlayerLimit = 0 => n = 0
    BY <1>0, <1>7 DEF SlotsInv, CapacityRespected, NoIdleSlot, ActiveSessionCount, total, q
  <2>7. m > 0 <=> m_QueuedPlayer' # <<>>
    BY <1>9, EmptyQueue
  <2> HIDE DEF n, m, R
  <2>8. m > 0 => R - m >= PlayerLimit
    BY <1>8, <1>11, <2>1, <2>3, <2>4, <2>5, <2>6
  <2>9. PlayerLimit > 0 /\ Tolerance = 0 /\ SkipQueue = {} => R - m <= PlayerLimit
    BY <1>8, <1>12, <2>1, <2>3, <2>4, <2>5, <2>6
  <2> QED
    BY <2>7, <2>8, <2>9 DEF SlotsInv, CapacityRespected, NoIdleSlot, ActiveSessionCount, m, R
<1> QED
  BY <1>13, <1>16, <1>18, <1>19, <1>20, <1>21, <1>22 DEF WorldInv

\* Removing a session: out of the registry and the queue, and the queue may
\* move up.
LEMMA SessionRemovedStep ==
  ASSUME WorldInv, SessionRemoved
  PROVE  WorldInv'
<1> DEFINE s      == current
           a      == AccountOf(s)
           total  == Cardinality(Registered)
           q      == m_QueuedPlayer
           first  == RemoveQueuedPlayer(m_QueuedPlayer, current, total)
           second == RemoveQueuedPlayer(first.queue, current, total)
<1>0. TypeOK /\ RegistryInv /\ NewInv /\ QueueInv /\ LoopInv /\ NobodyForgotten /\ SlotsInv
  BY DEF WorldInv
<1>1. /\ world = "cleanup" /\ world' = "loop" /\ current' = NoSession
      /\ m_sessions' = [m_sessions EXCEPT ![a] = NoSession]
      /\ m_QueuedPlayer' = second.queue
      /\ m_inQueue' = [m_inQueue EXCEPT ![s] = IF first.found THEN FALSE ELSE @]
      /\ initState' = Initialized(initState, first.admitted \union second.admitted)
      /\ m_disconnects' = IF ~first.found /\ Tolerance # 0
                          THEN [m_disconnects EXCEPT ![a] = gameTime]
                          ELSE m_disconnects
      /\ deleted' = deleted \union {s}
      /\ m_playerLoading' = m_playerLoading \ {s}
      /\ toUpdate' = toUpdate /\ gameTime' = gameTime
      /\ addSessQueue' = addSessQueue /\ handed' = handed
  BY DEF SessionRemoved
<1>2. /\ s \in Sessions /\ s # NoSession /\ a \in Accounts /\ m_sessions[a] = s
      /\ a \notin toUpdate /\ a \in Registered
  BY <1>0, <1>1, WorldAssumption DEF LoopInv, TypeOK, Sessions, AccountOf, Registered
<1>3. /\ q \in Seq(Sessions) /\ ToSet(q) \subseteq Sessions /\ IsQueue(q) /\ Len(q) \in Nat
      /\ \A t \in ToSet(q) : m_sessions[AccountOf(t)] = t
      /\ PlayerLimit = 0 => q = <<>>
  BY <1>0 DEF QueueInv, IsQueue, ToSet
<1>4. total \in Nat
  BY RegisteredIsFinite
<1>5. Cardinality(Registered') = total - 1
  <2>1. Registered' = Registered \ {a}
    BY <1>0, <1>1, <1>2 DEF Registered, TypeOK
  <2> QED
    BY <1>2, <2>1, RegisteredIsFinite, FS_RemoveElement
<1> HIDE DEF total
<1>6. /\ first.found \in BOOLEAN /\ (first.found <=> s \in ToSet(q))
      /\ IsQueue(first.queue) /\ first.admitted \subseteq ToSet(q) \ {s}
      /\ ToSet(first.queue) = ToSet(q) \ ({s} \union first.admitted)
      /\ Len(first.queue) = Len(q) - Gone(q, s) - (IF Admits(q, s, total) THEN 1 ELSE 0)
  BY <1>2, <1>3, <1>4, RemovalFacts
<1> HIDE DEF first
<1>7. /\ IsQueue(second.queue) /\ second.admitted \subseteq ToSet(first.queue) \ {s}
      /\ ToSet(second.queue) = ToSet(first.queue) \ ({s} \union second.admitted)
      /\ Len(second.queue) = Len(first.queue) - Gone(first.queue, s)
                             - (IF Admits(first.queue, s, total) THEN 1 ELSE 0)
  BY <1>2, <1>4, <1>6, RemovalFacts
<1> HIDE DEF second, q
<1> DEFINE admitted == first.admitted \union second.admitted
<1>9. /\ admitted \subseteq ToSet(q) \ {s}
      /\ ToSet(m_QueuedPlayer') = ToSet(q) \ ({s} \union admitted)
      /\ \A t \in Sessions : initState'[t] = IF t \in admitted THEN "loading" ELSE initState[t]
  BY <1>1, <1>6, <1>7 DEF Initialized
<1> HIDE DEF admitted
<1>10. TypeOK'
  <2>1. /\ m_QueuedPlayer' \in Seq(Sessions) /\ deleted' \subseteq Sessions
        /\ m_playerLoading' \subseteq Sessions
        /\ m_sessions' \in [Accounts -> Sessions \union {NoSession}]
    BY <1>0, <1>1, <1>2, <1>7 DEF IsQueue, TypeOK
  <2>2. m_inQueue' \in [Sessions -> BOOLEAN]
    BY <1>0, <1>1 DEF TypeOK
  <2>3. initState' \in [Sessions -> {"none", "loading", "done"}]
    BY <1>0, <1>1 DEF TypeOK, Initialized
  <2>4. m_disconnects' \in [Accounts -> Int]
    <3>1. gameTime \in Int /\ m_disconnects \in [Accounts -> Int]
      BY <1>0 DEF TypeOK
    <3> QED
      BY <1>1, <3>1
  <2> QED
    BY <1>0, <1>1, <2>1, <2>2, <2>3, <2>4 DEF TypeOK
<1>11. /\ \A b \in Accounts : b # a => m_sessions'[b] = m_sessions[b]
       /\ m_sessions'[a] = NoSession
       /\ Registered' = Registered \ {a}
  BY <1>0, <1>1, <1>2 DEF Registered, TypeOK
<1>12. ASSUME NEW b \in Registered'
       PROVE  /\ b \in Registered /\ b # a /\ m_sessions'[b] = m_sessions[b]
              /\ m_sessions[b] \in Sessions /\ m_sessions[b] # s
  BY <1>0, <1>2, <1>11 DEF RegistryInv, TypeOK, Registered
<1>13. RegistryInv'
  <2>1. s \in handed
    BY <1>0, <1>2 DEF RegistryInv
  <2> QED
    BY <1>0, <1>1, <1>12, <2>1 DEF RegistryInv
<1>14. NewInv'
  <2>1. ASSUME NEW t \in ToSet(addSessQueue)
        PROVE  /\ t \in handed' \ deleted' /\ m_sessions'[AccountOf(t)] # t
               /\ initState'[t] = "none"
    <3>1. /\ t \in handed \ deleted /\ m_sessions[AccountOf(t)] # t /\ initState[t] = "none"
          /\ t \in Sessions /\ AccountOf(t) \in Accounts /\ t # NoSession
      BY <1>0, WorldAssumption DEF NewInv, TypeOK, Sessions, AccountOf
    <3>2. t # s /\ t \notin admitted
      BY <1>2, <1>3, <1>9, <3>1 DEF q
    <3> QED
      BY <1>1, <1>9, <1>11, <3>1, <3>2
  <2>2. ASSUME NEW t \in Sessions \ handed PROVE initState'[t] = "none"
    <3>1. AccountOf(t) \in Accounts /\ t # NoSession /\ initState[t] = "none"
      BY <1>0, WorldAssumption DEF NewInv, Sessions, AccountOf
    <3>2. m_sessions[AccountOf(t)] # t
      BY <1>0, <3>1 DEF RegistryInv, Registered
    <3>3. t \notin admitted
      BY <1>3, <1>9, <3>2 DEF q
    <3> QED
      BY <1>9, <3>1, <3>3
  <2> QED
    BY <1>0, <1>1, <2>1, <2>2 DEF NewInv
<1>15. QueueInv'
  <2>1. ASSUME NEW t \in ToSet(m_QueuedPlayer') PROVE m_sessions'[AccountOf(t)] = t
    <3>1. t \in ToSet(q) /\ t # s /\ AccountOf(t) \in Accounts /\ m_sessions[AccountOf(t)] = t
      BY <1>3, <1>9 DEF q, Sessions, AccountOf
    <3> QED
      BY <1>2, <1>11, <3>1
  <2>2. PlayerLimit = 0 => m_QueuedPlayer' = <<>>
    <3> SUFFICES ASSUME PlayerLimit = 0 PROVE m_QueuedPlayer' = <<>>
      OBVIOUS
    <3>1. ToSet(q) = {}
      BY <1>3 DEF ToSet
    <3> QED
      BY <1>1, <1>7, <1>9, <3>1, EmptyQueue
  <2> QED
    BY <1>1, <1>7, <2>1, <2>2 DEF QueueInv
<1>16. LoopInv'
  BY <1>0, <1>1, <1>2, <1>11 DEF LoopInv
<1>17. NobodyForgotten'
  <2> SUFFICES ASSUME NEW b \in Registered', NEW t, t = m_sessions'[b]
      PROVE  /\ t \in ToSet(m_QueuedPlayer') <=> initState'[t] = "none"
             /\ t \in ToSet(m_QueuedPlayer') => m_inQueue'[t]
             /\ initState'[t] = "done" => ~m_inQueue'[t]
    BY DEF NobodyForgotten, Queued, ToSet
  <2>1. b \in Registered /\ t = m_sessions[b] /\ t \in Sessions /\ t # s
    BY <1>12
  <2>2. /\ t \in ToSet(q) <=> initState[t] = "none"
        /\ t \in ToSet(q) => m_inQueue[t]
        /\ initState[t] = "done" => ~m_inQueue[t]
    BY <1>0, <2>1 DEF NobodyForgotten, Queued, ToSet, q
  <2>3. m_inQueue'[t] = m_inQueue[t]
    BY <1>0, <1>1, <2>1 DEF TypeOK
  <2> QED
    BY <1>9, <2>1, <2>2, <2>3
<1>18. SlotsInv'
  <2> DEFINE n == Len(q)
             k == Len(first.queue)
             m == Len(m_QueuedPlayer')
             R == Cardinality(Registered')
  <2>1. /\ n \in Nat /\ k \in Nat /\ m \in Nat /\ PlayerLimit \in Nat
        /\ (n > 0 <=> q # <<>>) /\ (m > 0 <=> m_QueuedPlayer' # <<>>)
    BY <1>1, <1>3, <1>6, <1>7, EmptyQueue, WorldAssumption DEF q
  <2>2. k = n - Gone(q, s) - (IF Admits(q, s, total) THEN 1 ELSE 0)
    BY <1>6
  <2>3. Gone(first.queue, s) = 0 /\ Gone(q, s) \in {0, 1}
    BY <1>6 DEF Gone
  <2>4. m = k - 0 - (IF Admits(first.queue, s, total) THEN 1 ELSE 0)
    BY <1>1, <1>7, <2>3
  <2>5. Admits(q, s, total) <=>
          /\ PlayerLimit = 0 \/ (IF Gone(q, s) = 0 /\ total - n # 0
                                 THEN total - n - 1 ELSE total - n) < PlayerLimit
          /\ n - Gone(q, s) > 0
    BY DEF Admits, OthersActive, Gone
  <2>6. Admits(first.queue, s, total) <=>
          /\ PlayerLimit = 0 \/ (IF total - k # 0 THEN total - k - 1 ELSE total - k) < PlayerLimit
          /\ k - 0 > 0
    BY <2>3, <1>6 DEF Admits, OthersActive
  <2>7. /\ n > 0 => total - n >= PlayerLimit
        /\ PlayerLimit > 0 /\ Tolerance = 0 /\ SkipQueue = {} => total - n <= PlayerLimit
        /\ PlayerLimit = 0 => n = 0
    BY <1>0, <1>3, <2>1 DEF SlotsInv, CapacityRespected, NoIdleSlot, ActiveSessionCount, total, q
  <2>8. R = total - 1
    BY <1>5
  <2> HIDE DEF n, k, m, R
  <2>9. m > 0 => R - m >= PlayerLimit
    BY <1>4, <2>1, <2>2, <2>3, <2>4, <2>5, <2>6, <2>7, <2>8
  <2>10. PlayerLimit > 0 /\ Tolerance = 0 /\ SkipQueue = {} => R - m <= PlayerLimit
    BY <1>4, <2>1, <2>2, <2>3, <2>4, <2>5, <2>6, <2>7, <2>8
  <2> QED
    BY <2>1, <2>9, <2>10 DEF SlotsInv, CapacityRespected, NoIdleSlot, ActiveSessionCount, m, R
<1> QED
  BY <1>10, <1>13, <1>14, <1>15, <1>16, <1>17, <1>18 DEF WorldInv

\* The answer to InitializeSession finds a session that is not queued.
LEMMA InitializeSessionCallbackStep ==
  ASSUME WorldInv, InitializeSessionCallback
  PROVE  WorldInv'
<1> USE DEF InitializeSessionCallback, threadVars, clockVars
<1>0. TypeOK /\ RegistryInv /\ NewInv /\ QueueInv /\ LoopInv /\ NobodyForgotten
  BY DEF WorldInv
<1>1. /\ current \in Sessions /\ initState[current] = "loading"
      /\ AccountOf(current) \in Accounts /\ m_sessions[AccountOf(current)] = current
  BY <1>0 DEF LoopInv, TypeOK, Sessions, AccountOf
<1>2. TypeOK'
  BY <1>0 DEF TypeOK
<1>3. ASSUME NEW t \in Sessions, t # current
      PROVE  initState'[t] = initState[t] /\ m_inQueue'[t] = m_inQueue[t]
  BY <1>0, <1>3 DEF TypeOK
<1>4. initState'[current] = "done" /\ m_inQueue'[current] = FALSE
  BY <1>0, <1>1 DEF TypeOK
<1>5. Registered' = Registered
  BY DEF Registered
<1>6. RegistryInv' /\ QueueInv' /\ LoopInv'
  BY <1>0, <1>5 DEF RegistryInv, QueueInv, LoopInv
<1>7. NewInv'
  BY <1>0, <1>1, <1>3 DEF NewInv, TypeOK
<1>8. (\A t : Queued(t)' <=> Queued(t)) /\ Cardinality(Registered') = Cardinality(Registered)
  BY <1>5 DEF Queued
<1>9. NobodyForgotten'
  <2> SUFFICES ASSUME NEW b \in Registered, NEW t, t = m_sessions[b]
      PROVE  /\ Queued(t) <=> initState'[t] = "none"
             /\ Queued(t) => m_inQueue'[t]
             /\ initState'[t] = "done" => ~m_inQueue'[t]
    BY <1>5, <1>8 DEF NobodyForgotten
  <2>1. /\ t \in Sessions
        /\ Queued(t) <=> initState[t] = "none"
        /\ Queued(t) => m_inQueue[t]
        /\ initState[t] = "done" => ~m_inQueue[t]
    BY <1>0 DEF NobodyForgotten, TypeOK, Registered
  <2> QED
    BY <1>1, <1>3, <1>4, <2>1
<1>10. SlotsInv'
  BY <1>8 DEF WorldInv, SlotsInv, CapacityRespected, NoIdleSlot, ActiveSessionCount
<1> QED
  BY <1>2, <1>6, <1>7, <1>9, <1>10 DEF WorldInv

\* No step of the world thread or of a network thread disturbs WorldInv.
LEMMA WorldStepKeeps == WorldInv /\ [WorldNext]_worldVars => WorldInv'
<1> SUFFICES ASSUME WorldInv, [WorldNext]_worldVars PROVE WorldInv'
  OBVIOUS
<1> USE DEF threadVars, queueVars, clockVars
<1>0. TypeOK /\ RegistryInv /\ LoopInv
  BY DEF WorldInv
<1>1. CASE UNCHANGED worldVars
  <2>1. TypeOK' /\ LoopInv'
    BY <1>0, <1>1 DEF worldVars, TypeOK, LoopInv, Registered
  <2> QED
    BY <1>1, <2>1, QuietStep DEF worldVars
<1>2. ASSUME NEW s \in Sessions, AddSession(s) PROVE WorldInv'
  BY <1>2, AddSessionStep
<1>3. ASSUME NEW s \in Sessions, LoadingEnds(s) PROVE WorldInv'
  <2>1. TypeOK' /\ LoopInv'
    BY <1>0, <1>3 DEF LoadingEnds, TypeOK, LoopInv, Registered
  <2> QED
    BY <1>3, <2>1, QuietStep DEF LoadingEnds
<1>4. CASE LoadingBegins
  <2>1. current \in Sessions
    BY <1>0, <1>4 DEF LoadingBegins, TypeOK, LoopInv
  <2>2. TypeOK' /\ LoopInv'
    BY <1>0, <1>4, <2>1 DEF LoadingBegins, TypeOK, LoopInv, Registered
  <2> QED
    BY <1>4, <2>2, QuietStep DEF LoadingBegins
<1>5. CASE AddSessionRefused
  BY <1>5, AddSessionRefusedStep
<1>6. CASE AddSessionAccepted
  BY <1>6, AddSessionAcceptedStep
<1>7. CASE AddDone
  <2>1. TypeOK' /\ LoopInv'
    BY <1>0, <1>7 DEF AddDone, TypeOK, LoopInv, Registered
  <2> QED
    BY <1>7, <2>1, QuietStep DEF AddDone
<1>8. CASE LinkDone
  <2>1. TypeOK' /\ LoopInv'
    BY <1>0, <1>8 DEF LinkDone, TypeOK, LoopInv, Registered
  <2> QED
    BY <1>8, <2>1, QuietStep DEF LinkDone
<1>9. ASSUME NEW a \in Accounts, UpdateBegin(a) PROVE WorldInv'
  <2>1. a \in Registered /\ AccountOf(m_sessions[a]) = a /\ m_sessions[a] # NoSession
    BY <1>0, <1>9 DEF UpdateBegin, LoopInv, RegistryInv, Registered
  <2>2. TypeOK' /\ LoopInv'
    BY <1>0, <1>9, <2>1 DEF UpdateBegin, TypeOK, LoopInv, Registered
  <2> QED
    BY <1>9, <2>2, QuietStep DEF UpdateBegin
<1>10. CASE PacketsDone
  <2>1. TypeOK' /\ LoopInv'
    BY <1>0, <1>10 DEF PacketsDone, TypeOK, LoopInv, Registered
  <2> QED
    BY <1>10, <2>1, QuietStep DEF PacketsDone
<1>11. CASE CallbacksDone
  <2>1. TypeOK' /\ LoopInv'
    BY <1>0, <1>11 DEF CallbacksDone, TypeOK, LoopInv, Registered
  <2> QED
    BY <1>11, <2>1, QuietStep DEF CallbacksDone
<1>12. CASE SessionStays
  <2>1. TypeOK' /\ LoopInv'
    BY <1>0, <1>12 DEF SessionStays, TypeOK, LoopInv, Registered
  <2> QED
    BY <1>12, <2>1, QuietStep DEF SessionStays
<1>13. CASE SessionRemoved
  BY <1>13, SessionRemovedStep
<1>14. CASE LoopDone
  <2>1. gameTime' \in Nat
    BY <1>0, <1>14 DEF LoopDone, TypeOK
  <2>2. TypeOK' /\ LoopInv'
    BY <1>0, <1>14, <2>1 DEF LoopDone, TypeOK, LoopInv, Registered
  <2> QED
    BY <1>14, <2>2, QuietStep DEF LoopDone
<1>15. CASE InitializeSessionCallback
  BY <1>15, InitializeSessionCallbackStep
<1> QED
  BY <1>1, <1>2, <1>3, <1>4, <1>5, <1>6, <1>7, <1>8, <1>9, <1>10, <1>11, <1>12, <1>13,
     <1>14, <1>15 DEF WorldNext, UpdateSessionsStep

\* The invariant of the registry and of the login queue: World deletes no session
\* that something still points to, and forgets none.
LEMMA WorldInvariant == WorldSpec /\ RepeatedAck = FALSE => []WorldInv
<1>1. WorldInit /\ RepeatedAck = FALSE => WorldInv
  BY WorldInitInv
<1>2. WorldInv /\ [WorldNext]_worldVars => WorldInv'
  BY WorldStepKeeps
<1> QED
  BY <1>1, <1>2, PTL DEF WorldSpec

-----------------------------------------------------------------------------
(* The theorems. *)

\* Every variable of World has its type.
THEOREM TypeCorrect == WorldSpec /\ RepeatedAck = FALSE => []TypeOK
<1>1. WorldInv => TypeOK
  BY DEF WorldInv
<1> QED
  BY <1>1, WorldInvariant, PTL

\* Neither the registry nor the login queue nor the queue of new sessions ever
\* holds a deleted session, whatever order sessions reconnect and drop in, as
\* long as clients acknowledge encryption once: the code does not see to it.
THEOREM PointersCorrect == WorldSpec /\ RepeatedAck = FALSE => []NoDanglingSession
BY WorldInvariant, WorldInvImplies, PTL

\* A registered session waits in the queue or was initialised, never neither
\* and never both.
THEOREM QueueCorrect == WorldSpec /\ RepeatedAck = FALSE => []NobodyForgotten
<1>1. WorldInv => NobodyForgotten
  BY DEF WorldInv
<1> QED
  BY <1>1, WorldInvariant, PTL

\* With nobody privileged the player limit is never exceeded, for every limit
\* and any number of accounts.
THEOREM CapacityCorrect == WorldSpec /\ RepeatedAck = FALSE => []CapacityRespected
<1>1. WorldInv => CapacityRespected
  BY DEF WorldInv, SlotsInv
<1> QED
  BY <1>1, WorldInvariant, PTL

\* The queue is empty unless the server is full: no order of departures leaves
\* a slot idle behind a waiting session.
THEOREM SlotsUsed == WorldSpec /\ RepeatedAck = FALSE => []NoIdleSlot
<1>1. WorldInv => NoIdleSlot
  BY DEF WorldInv, SlotsInv
<1> QED
  BY <1>1, WorldInvariant, PTL

-----------------------------------------------------------------------------
(* The queue is fair. *)

\* The session RemoveQueuedPlayer admits has nobody before it but the one that
\* leaves.
LEMMA AdmittedIsFirst ==
  ASSUME NEW q, IsQueue(q), NEW s \in Sessions, NEW total \in Int,
         NEW t \in RemoveQueuedPlayer(q, s, total).admitted,
         NEW i \in DOMAIN q, NEW j \in DOMAIN q, i < j, q[j] = t
  PROVE  q[i] = s
<1> DEFINE rest == Without(q, s)
<1>0. /\ q \in Seq(Sessions) /\ IsInjective(q) /\ DOMAIN q = 1..Len(q) /\ Len(q) \in Nat
      /\ IsQueue(rest)
  BY WithoutRemoves DEF IsQueue
<1>1. rest # <<>> /\ t = Head(rest)
  BY DEF RemoveQueuedPlayer
<1>2. t = rest[1] /\ Len(rest) > 0
  BY <1>0, <1>1, EmptyQueue DEF IsQueue
<1>3. CASE s \notin ToSet(q)
  <2>1. rest = q
    BY <1>3 DEF Without, ToSet
  <2>2. q[1] = q[j] /\ 1 \in DOMAIN q
    BY <1>0, <1>2, <2>1
  <2>3. j = 1
    BY <1>0, <2>2 DEF IsInjective
  <2> QED
    BY <1>0, <2>3
<1>4. CASE s \in ToSet(q)
  <2>1. PICK k \in DOMAIN q : q[k] = s /\ rest = RemoveAt(q, k)
    BY <1>4 DEF Without, ToSet
  <2> HIDE DEF rest
  <2>2. /\ Len(rest) = Len(q) - 1
        /\ \A m \in 1..(Len(q) - 1) : rest[m] = IF m < k THEN q[m] ELSE q[m + 1]
    BY <1>0, <2>1, RemoveAtShifts
  <2>3. rest[1] = IF 1 < k THEN q[1] ELSE q[2]
    BY <1>0, <1>2, <2>2
  <2>4. CASE 1 < k
    <3>1. q[1] = q[j] /\ 1 \in DOMAIN q
      BY <1>0, <1>2, <2>3, <2>4
    <3>2. j = 1
      BY <1>0, <3>1 DEF IsInjective
    <3> QED
      BY <1>0, <3>2
  <2>5. CASE ~(1 < k)
    <3>1. k = 1 /\ q[2] = q[j] /\ 2 \in DOMAIN q
      BY <1>0, <1>2, <2>1, <2>2, <2>3, <2>5
    <3>2. j = 2
      BY <1>0, <3>1 DEF IsInjective
    <3> QED
      BY <1>0, <2>1, <3>1, <3>2
  <2> QED
    BY <2>4, <2>5
<1> QED
  BY <1>3, <1>4

\* The two calls that go with a removed session admit at most one: after the
\* first there is no room left for the second.
LEMMA SecondAdmitsNobody ==
  ASSUME WorldInv, NEW s \in Sessions, NEW first, NEW second,
         first = RemoveQueuedPlayer(m_QueuedPlayer, s, Cardinality(Registered)),
         second = RemoveQueuedPlayer(first.queue, s, Cardinality(Registered))
  PROVE  second.admitted = {}
<1> DEFINE total == Cardinality(Registered)
           n     == Len(m_QueuedPlayer)
           k     == Len(first.queue)
<1>1. total \in Nat /\ IsQueue(m_QueuedPlayer)
  BY RegisteredIsFinite DEF WorldInv, QueueInv
<1>2. /\ IsQueue(first.queue)
      /\ ToSet(first.queue) = ToSet(m_QueuedPlayer) \ ({s} \union first.admitted)
      /\ k = n - Gone(m_QueuedPlayer, s) - (IF Admits(m_QueuedPlayer, s, total) THEN 1 ELSE 0)
  BY <1>1, RemovalFacts
<1>3. Gone(first.queue, s) = 0 /\ Gone(m_QueuedPlayer, s) \in {0, 1}
  BY <1>2 DEF Gone
<1>4. n \in Nat /\ k \in Nat /\ PlayerLimit \in Nat /\ (n > 0 <=> m_QueuedPlayer # <<>>)
  BY <1>1, <1>2, EmptyQueue, WorldAssumption
<1>5. (n > 0 => total - n >= PlayerLimit) /\ (PlayerLimit = 0 => n = 0)
  <2>1. n > 0 => total - n >= PlayerLimit
    BY <1>4 DEF WorldInv, SlotsInv, NoIdleSlot, ActiveSessionCount
  <2>2. PlayerLimit = 0 => m_QueuedPlayer = <<>>
    BY DEF WorldInv, QueueInv
  <2> QED
    BY <1>4, <2>1, <2>2
<1>6. Admits(m_QueuedPlayer, s, total) <=>
        /\ PlayerLimit = 0 \/ (IF Gone(m_QueuedPlayer, s) = 0 /\ total - n # 0
                               THEN total - n - 1 ELSE total - n) < PlayerLimit
        /\ n - Gone(m_QueuedPlayer, s) > 0
  BY DEF Admits, OthersActive, Gone
<1>7. Admits(first.queue, s, total) <=>
        /\ PlayerLimit = 0 \/ (IF total - k # 0 THEN total - k - 1 ELSE total - k) < PlayerLimit
        /\ k - 0 > 0
  BY <1>2, <1>3 DEF Admits, OthersActive
<1>8. ~Admits(first.queue, s, total)
  <2> HIDE DEF n, k, total
  <2> QED
    BY <1>1, <1>2, <1>3, <1>4, <1>5, <1>6, <1>7
<1> QED
  BY <1>1, <1>2, <1>8, RemovalFacts

\* A session that is initialised in a step was first in the queue but for the
\* one that leaves it, or was never in it.
Fair ==
  \A s \in Sessions : initState[s] = "none" /\ initState'[s] = "loading" =>
    IF Queued(s)
    THEN \A t \in Sessions : Ahead(t, s) => ~Queued(t)'
    ELSE Privileged(s) \/ m_QueuedPlayer' = <<>>

\* AddSession_ is fair to those in the queue, and lets the new session past it
\* only by privilege.
LEMMA AddSessionIsFair == ASSUME WorldInv, WorldInv', AddSessionAccepted PROVE Fair
<1> DEFINE s       == Head(addSessQueue)
           a       == AccountOf(s)
           old     == m_sessions[a]
           isNew   == old = NoSession
           total   == Cardinality(Registered)
           removal == IF isNew
                      THEN [found |-> FALSE, queue |-> m_QueuedPlayer, admitted |-> {}]
                      ELSE RemoveQueuedPlayer(m_QueuedPlayer, old, total)
           count   == (IF isNew THEN total + 1 ELSE total) - (IF removal.found THEN 0 ELSE 1)
           waits   == /\ PlayerLimit > 0 /\ count >= PlayerLimit
                      /\ a \notin SkipQueue
                      /\ ~HasRecentlyDisconnected(a)
           q       == m_QueuedPlayer
<1>1. /\ s \in Sessions /\ a \in Accounts /\ old # s /\ s \notin ToSet(q)
      /\ m_sessions' = [m_sessions EXCEPT ![a] = s]
      /\ m_QueuedPlayer' = IF waits THEN Append(removal.queue, s) ELSE removal.queue
      /\ initState' = Initialized(initState, removal.admitted \union (IF waits THEN {} ELSE {s}))
  BY NewSession DEF AddSessionAccepted
<1>2. TypeOK /\ IsQueue(q) /\ old \in Sessions \union {NoSession} /\ total \in Nat
  BY <1>1, RegisteredIsFinite DEF WorldInv, QueueInv, TypeOK
<1>3. Cardinality(Registered') = IF isNew THEN total + 1 ELSE total
  <2>1. Registered' = Registered \union {a}
    BY <1>1, <1>2, WorldAssumption DEF Registered, TypeOK
  <2>2. a \in Registered <=> ~isNew
    BY <1>1 DEF Registered
  <2> QED
    BY <2>1, <2>2, RegisteredIsFinite, FS_AddElement
<1>4. removal = IF old = NoSession
                THEN [found |-> FALSE, queue |-> m_QueuedPlayer, admitted |-> {}]
                ELSE RemoveQueuedPlayer(m_QueuedPlayer, old, Cardinality(Registered))
  OBVIOUS
<1>5. ~waits => Privileged(s) \/ PlayerLimit = 0 \/ ~(count >= PlayerLimit)
  BY WorldAssumption DEF Privileged
<1>6. count = Cardinality(Registered') - (IF removal.found THEN 0 ELSE 1)
  BY <1>3
<1> HIDE DEF removal, waits, count, total, old, s
<1>7. /\ removal.found \in BOOLEAN /\ (removal.found <=> old \in ToSet(m_QueuedPlayer))
      /\ removal.admitted \subseteq ToSet(m_QueuedPlayer) \ {old}
      /\ ToSet(removal.queue) = ToSet(m_QueuedPlayer) \ ({old} \union removal.admitted)
      /\ IsQueue(removal.queue)
  BY <1>2, <1>4, ReplacedRemoval
<1>8. ASSUME NEW t \in Sessions, initState[t] = "none", initState'[t] = "loading", Queued(t),
             NEW u \in Sessions, Ahead(u, t)
      PROVE  ~Queued(u)'
  <2>1. t \in removal.admitted /\ t # s
    BY <1>1, <1>8 DEF Initialized, ToSet, Queued
  <2>2. old # NoSession /\ removal = RemoveQueuedPlayer(q, old, Cardinality(Registered))
    BY <1>4, <2>1
  <2>3. u = old
    <3>1. PICK i \in DOMAIN q, j \in DOMAIN q : i < j /\ q[i] = u /\ q[j] = t
      BY <1>8 DEF Ahead
    <3> QED
      BY <1>2, <2>1, <2>2, <3>1, AdmittedIsFirst DEF total
  <2>4. ToSet(m_QueuedPlayer') \subseteq ToSet(removal.queue) \union {s}
    BY <1>1, <1>7, AppendAdds
  <2>5. old \notin ToSet(m_QueuedPlayer')
    BY <1>1, <1>7, <2>4
  <2> QED
    BY <2>3, <2>5 DEF Queued, ToSet
<1>9. ASSUME NEW t \in Sessions, initState[t] = "none", initState'[t] = "loading", ~Queued(t)
      PROVE  Privileged(t) \/ m_QueuedPlayer' = <<>>
  <2>1. t \notin removal.admitted
    BY <1>7, <1>9 DEF Queued, ToSet
  <2>2. t = s /\ ~waits
    BY <1>1, <1>9, <2>1 DEF Initialized
  <2>3. CASE PlayerLimit = 0
    BY <2>3 DEF WorldInv, QueueInv
  <2>4. CASE PlayerLimit # 0 /\ ~(count >= PlayerLimit)
    <3>1. Cardinality(Registered') \in Nat /\ PlayerLimit \in Nat
      BY <1>2, <1>3, WorldAssumption
    <3>2. Cardinality(Registered') <= PlayerLimit
      BY <1>6, <2>4, <3>1
    <3>3. IsQueue(m_QueuedPlayer') /\ Len(m_QueuedPlayer') \in Nat
      BY EmptyQueue DEF WorldInv, QueueInv
    <3>4. m_QueuedPlayer' # <<>> => Cardinality(Registered') - Len(m_QueuedPlayer') >= PlayerLimit
      BY DEF WorldInv, SlotsInv, NoIdleSlot, ActiveSessionCount
    <3>5. Len(m_QueuedPlayer') > 0 <=> m_QueuedPlayer' # <<>>
      BY <3>3, EmptyQueue
    <3> QED
      BY <3>1, <3>2, <3>3, <3>4, <3>5
  <2> QED
    BY <1>5, <2>2, <2>3, <2>4
<1> QED
  BY <1>8, <1>9 DEF Fair, q

\* Removing a session lets only the next in the queue move up.
LEMMA RemovalIsFair == ASSUME WorldInv, SessionRemoved PROVE Fair
<1> DEFINE s      == current
           first  == RemoveQueuedPlayer(m_QueuedPlayer, s, Cardinality(Registered))
           second == RemoveQueuedPlayer(first.queue, s, Cardinality(Registered))
           q      == m_QueuedPlayer
<1>1. /\ s \in Sessions /\ IsQueue(q) /\ Cardinality(Registered) \in Int
  BY RegisteredIsFinite DEF SessionRemoved, WorldInv, LoopInv, QueueInv, TypeOK
<1>2. /\ m_QueuedPlayer' = second.queue
      /\ initState' = Initialized(initState, first.admitted \union second.admitted)
  BY DEF SessionRemoved
<1>3. second.admitted = {}
  BY <1>1, SecondAdmitsNobody
<1>4. /\ first.admitted \subseteq ToSet(q) \ {s}
      /\ IsQueue(first.queue)
      /\ ToSet(first.queue) = ToSet(q) \ ({s} \union first.admitted)
  BY <1>1, RemovalFacts
<1>5. \A i, j \in DOMAIN q : i < j /\ q[j] \in first.admitted => q[i] = s
  BY <1>1, AdmittedIsFirst
<1> HIDE DEF first
<1>6. ToSet(second.queue) = ToSet(first.queue) \ ({s} \union second.admitted)
  BY <1>1, <1>4, RemovalFacts
<1> HIDE DEF second
<1>7. s \notin ToSet(m_QueuedPlayer')
  BY <1>2, <1>6
<1>8. ASSUME NEW t \in Sessions, initState[t] = "none", initState'[t] = "loading"
      PROVE  t \in first.admitted /\ t \in ToSet(q)
  BY <1>2, <1>3, <1>4, <1>8 DEF Initialized
<1>9. ASSUME NEW t \in Sessions, initState[t] = "none", initState'[t] = "loading",
             NEW u \in Sessions, Ahead(u, t)
      PROVE  ~Queued(u)'
  <2>1. u = s
    BY <1>5, <1>8, <1>9 DEF Ahead
  <2> QED
    BY <1>7, <2>1 DEF Queued, ToSet
<1> QED
  BY <1>8, <1>9 DEF Fair, Queued, ToSet

\* Every step is fair.
LEMMA StepIsFair == WorldInv /\ WorldInv' /\ [WorldNext]_worldVars => [Fair]_worldVars
<1> SUFFICES ASSUME WorldInv, WorldInv', WorldNext PROVE Fair
  OBVIOUS
<1>1. CASE AddSessionAccepted
  BY <1>1, AddSessionIsFair
<1>2. CASE SessionRemoved
  BY <1>2, RemovalIsFair
<1>3. CASE InitializeSessionCallback
  <2>1. \A s \in Sessions : initState'[s] # initState[s] => initState'[s] = "done"
    BY <1>3 DEF InitializeSessionCallback, WorldInv, TypeOK
  <2> QED
    BY <2>1 DEF Fair
<1>4. CASE UNCHANGED initState
  BY <1>4 DEF Fair
<1> QED
  BY <1>1, <1>2, <1>3, <1>4
     DEF WorldNext, UpdateSessionsStep, AddSession, LoadingEnds, LoadingBegins,
         AddSessionRefused, AddDone, LinkDone, UpdateBegin, PacketsDone, CallbacksDone,
         SessionStays, LoopDone, queueVars

\* The login queue is fair, for every limit: nobody is admitted past somebody
\* who queued earlier and still waits, except by privilege.
THEOREM QueueIsFair == WorldSpec /\ RepeatedAck = FALSE => NoOvertaking
<1>1. WorldInv /\ WorldInv' /\ [WorldNext]_worldVars => [Fair]_worldVars
  BY StepIsFair
<1>2. WorldSpec /\ RepeatedAck = FALSE => [][Fair]_worldVars
  BY <1>1, WorldInvariant, PTL DEF WorldSpec
<1> QED
  BY <1>2 DEF NoOvertaking, Fair

-----------------------------------------------------------------------------
(* The registry. *)

\* The loop updates a registered session.
LEMMA CurrentHere ==
  ASSUME WorldInv, world \in {"packets", "callbacks", "cleanup"}
  PROVE  /\ current \in Sessions /\ current # NoSession
         /\ m_sessions[AccountOf(current)] = current
         /\ current \in handed \ deleted
<1>1. /\ current \in Sessions /\ current # NoSession
      /\ m_sessions[AccountOf(current)] = current
  BY DEF WorldInv, TypeOK, LoopInv
<1>2. AccountOf(current) \in Registered
  BY <1>1 DEF Registered, AccountOf, Sessions
<1> QED
  BY <1>1, <1>2 DEF WorldInv, RegistryInv

\* Clearing a flag is a step of World if it was set, and none if not.
LEMMA ClearingIsWorldStep ==
  ASSUME WorldInv, NEW s, ClearLoading(s) PROVE [WorldNext]_worldVars
<1>1. CASE s \in m_playerLoading
  <2>1. s \in Sessions /\ LoadingEnds(s)
    BY <1>1 DEF WorldInv, TypeOK, ClearLoading
  <2> QED
    BY <2>1 DEF WorldNext
<1>2. CASE s \notin m_playerLoading
  BY <1>2 DEF ClearLoading
<1> QED
  BY <1>1, <1>2

\* Every step of the sockets and of the world thread is a step of World.
LEMMA StepIsWorldStep == WorldInv /\ [Next]_vars => [WorldNext]_worldVars
<1> SUFFICES ASSUME WorldInv, [Next]_vars PROVE [WorldNext]_worldVars
  OBVIOUS
<1>1. ASSUME NEW k \in Sockets, NetStep(k) PROVE UNCHANGED worldVars
  BY <1>1 DEF NetStep, InstanceAck, PacketBegin, PacketQueued, PacketRefused, Dropped, OnClose, NetCloses
<1>2. ASSUME NEW s \in Sessions, RealmStep(s) PROVE [WorldNext]_worldVars
  <2>1. CASE RealmAck(s)
    BY <2>1 DEF RealmAck, WorldNext
  <2>2. CASE LoginAborted(s)
    BY <2>2 DEF LoginAborted, WorldNext
  <2> QED
    BY <1>2, <2>1, <2>2 DEF RealmStep, AuthSession, ConnectToFailedIgnored, ConnectToRetried, LoginAbortedLate
<1>3. CASE RefuseSession \/ RegisterSession \/ AddingDone \/ LinkingDone
  BY <1>3 DEF RefuseSession, RegisterSession, AddingDone, LinkingDone, WorldNext, UpdateSessionsStep
<1>4. CASE LinkIgnored \/ LinkRejected \/ LinkBegins \/ LinkLogsIn \/ LinkKicks
  BY <1>4 DEF LinkIgnored, LinkRejected, LinkBegins, LinkLogsIn, LinkKicks
<1>5. CASE UpdatingBegins \/ PacketLoopEnds \/ CallbacksEnd \/ KeepSession \/ RemoveSession \/ PassDone
  BY <1>5 DEF UpdatingBegins, PacketLoopEnds, CallbacksEnd, KeepSession, RemoveSession, PassDone,
              WorldNext, UpdateSessionsStep
<1>6. CASE LoginDone
  BY <1>6, ClearingIsWorldStep DEF LoginDone
<1>7. CASE LoginFails
  BY <1>7, ClearingIsWorldStep DEF LoginFails
<1>8. CASE PlayerLogin \/ PlayerLoginNotLegit \/ SessionInitialized
  BY <1>8 DEF PlayerLogin, PlayerLoginNotLegit, SessionInitialized, WorldNext
<1>9. CASE IdleKick \/ PlayerLoginAgain \/ LoginSetsPlayer \/ LogoutPlayer
  BY <1>9 DEF IdleKick, PlayerLoginAgain, LoginSetsPlayer, LogoutPlayer
<1>10. CASE UNCHANGED vars
  BY <1>10 DEF vars
<1> QED
  BY <1>1, <1>2, <1>3, <1>4, <1>5, <1>6, <1>7, <1>8, <1>9, <1>10 DEF Next, WorldStep, WorldInput

\* The invariant of the registry holds under everything the sockets do.
LEMMA RegistryInvariant == Spec /\ RepeatedAck = FALSE => []WorldInv
<1>1. Init /\ RepeatedAck = FALSE => WorldInv
  BY WorldInitInv DEF Init
<1>2. WorldInv /\ [Next]_vars => WorldInv'
  BY StepIsWorldStep, WorldStepKeeps
<1> QED
  BY <1>1, <1>2, PTL DEF Spec

\* WorldSession implements the registry of World: every step of a socket, of a
\* login or of the world thread is a step of World or leaves it alone.
THEOREM RegistryImplemented == Spec /\ RepeatedAck = FALSE => ImplementsWorld
<1>1. Init => WorldInit
  BY DEF Init
<1>2. WorldInv /\ [Next]_vars => [WorldNext]_worldVars
  BY StepIsWorldStep
<1> QED
  BY <1>1, <1>2, RegistryInvariant, PTL DEF Spec, ImplementsWorld

-----------------------------------------------------------------------------
(* The inductive invariant of the sockets and the players. *)

\* OnClose runs or ran, and the socket reads nothing any more.
Closing == {"closing", "stopped", "stuck"}

\* The login waits for the socket of the last key.
Pending(s) == s \in m_playerLoading /\ s \notin hasPlayer /\ instance[s] = 0

\* The update that is running will end with the session removed.
Doomed(s) ==
  /\ world \in {"callbacks", "cleanup"} /\ current = s
  /\ s \notin hasPlayer /\ HasClosedSocket(s)

\* A socket points to its own session only, and while it is open or a handler
\* of it runs, the session holds it in turn.
SocketInv ==
  \A k \in Sockets :
    /\ worldSession[k] \in {NoSession, SessionOf(k)}
    /\ net[k] = "none" => ~isOpen[k] /\ worldSession[k] = NoSession
    /\ isOpen[k] => net[k] \in {"reading", "handling"}
    /\ worldSession[k] # NoSession /\ ~isOpen[k] => net[k] \in Closing
    /\ (isOpen[k] \/ net[k] = "handling") /\ worldSession[k] # NoSession =>
         k \in SocketsOf(SessionOf(k))

\* An instance socket connects with a key that was given out, and one that was
\* reported as failed never does.
KeyInv ==
  /\ \A k \in Sockets : net[k] # "none" => KeyOf(k) <= connectKey[SessionOf(k)]
  /\ \A k \in gaveUp : net[k] = "none" /\ KeyOf(k) <= connectKey[SessionOf(k)]
  /\ \A s \in handed : net[RealmSocket(s)] # "none"

\* Nothing is left of a session that was deleted.
DeletedInv ==
  \A s \in deleted : s \notin realm /\ instance[s] = 0 /\ holders[s] = 0 /\ s \notin hasPlayer

\* A socket is linked once, with the key its session still expects.
LinkInv ==
  /\ IsInjective(linkQueue)
  /\ \A k \in ToSet(linkQueue) : net[k] # "none"
  /\ linking # NoSocket =>
       /\ world = "link" /\ linking \notin ToSet(linkQueue)
       /\ m_sessions[AccountOf(SessionOf(linking))] = SessionOf(linking)
       /\ KeyOf(linking) = connectKey[SessionOf(linking)]
       /\ isOpen[linking] \/ net[linking] \in Closing

\* The socket of the last key has yet to come, to be linked, or is linked now.
Awaited(s) ==
  LET k == <<s, connectKey[s]>> IN
    /\ connectKey[s] # 0 /\ k \notin gaveUp
    /\ net[k] = "none" \/ k \in ToSet(linkQueue) \/ linking = k

\* While a socket is awaited the login is pending; a session has one login query
\* in flight at most, for a login; and it holds an instance socket only during
\* a login, with a player, or to be removed.
LoginInv ==
  \A s \in Sessions \ deleted :
    /\ Awaited(s) => Pending(s)
    /\ holders[s] \in {0, 1}
    /\ holders[s] # 0 => s \in m_playerLoading /\ s \notin hasPlayer /\ instance[s] # 0
    /\ instance[s] # 0 => s \in m_playerLoading \union hasPlayer \/ Doomed(s)

\* A session has one Player in the world while _player is set, and none else,
\* and it is the registered session of its account.
PlayerInv ==
  /\ loggingIn => world = "callbacks" /\ current \in hasPlayer
  /\ \A s \in Sessions : online[s] = IF s \in hasPlayer THEN 1 ELSE 0
  /\ \A s \in hasPlayer : m_sessions[AccountOf(s)] = s

SessionInv ==
  /\ LateFailure = FALSE
  /\ WorldInv /\ SessionTypeOK
  /\ SocketInv /\ KeyInv /\ DeletedInv /\ LinkInv /\ LoginInv /\ PlayerInv

-----------------------------------------------------------------------------
(* Sockets and queues of them. *)

\* A socket is a session and a key, 0 for the realm socket.
LEMMA SocketParts ==
  /\ \A k \in Sockets : /\ SessionOf(k) \in Sessions /\ KeyOf(k) \in 0..MaxKeys
                         /\ k = <<SessionOf(k), KeyOf(k)>>
                         /\ (KeyOf(k) # 0 => k \in InstanceSockets)
  /\ \A s \in Sessions, i \in 0..MaxKeys :
       <<s, i>> \in Sockets /\ SessionOf(<<s, i>>) = s /\ KeyOf(<<s, i>>) = i
  /\ \A k \in InstanceSockets : k \in Sockets /\ KeyOf(k) # 0
  /\ \A s \in Sessions : RealmSocket(s) \in Sockets /\ SessionOf(RealmSocket(s)) = s
                         /\ KeyOf(RealmSocket(s)) = 0 /\ RealmSocket(s) = <<s, 0>>
  BY SessionAssumption DEF Sockets, InstanceSockets, SessionOf, KeyOf, RealmSocket

\* A session holds its own sockets.
LEMMA HeldSockets ==
  ASSUME SessionTypeOK, NEW s \in Sessions
  PROVE  /\ SocketsOf(s) \subseteq Sockets
         /\ \A k \in Sockets : k \in SocketsOf(s) <=>
              /\ SessionOf(k) = s
              /\ IF KeyOf(k) = 0 THEN s \in realm ELSE instance[s] = KeyOf(k)
<1>1. instance[s] \in 0..MaxKeys
  BY DEF SessionTypeOK
<1>2. SocketsOf(s) \subseteq Sockets
  BY <1>1, SocketParts DEF SocketsOf
<1>3. ASSUME NEW k \in Sockets
      PROVE  k \in SocketsOf(s) <=>
               /\ SessionOf(k) = s
               /\ IF KeyOf(k) = 0 THEN s \in realm ELSE instance[s] = KeyOf(k)
  <2>1. k = <<SessionOf(k), KeyOf(k)>>
    BY SocketParts
  <2>2. k = RealmSocket(s) <=> SessionOf(k) = s /\ KeyOf(k) = 0
    BY <2>1, SocketParts DEF RealmSocket
  <2>3. k = <<s, instance[s]>> <=> SessionOf(k) = s /\ KeyOf(k) = instance[s]
    BY <1>1, <2>1, SocketParts
  <2> QED
    BY <2>2, <2>3 DEF SocketsOf
<1> QED
  BY <1>2, <1>3

\* What is put behind the queue of sockets to link is there, once.
LEMMA LinkAppended ==
  ASSUME NEW q \in Seq(InstanceSockets), IsInjective(q), NEW k \in InstanceSockets, k \notin ToSet(q)
  PROVE  /\ Append(q, k) \in Seq(InstanceSockets) /\ IsInjective(Append(q, k))
         /\ ToSet(Append(q, k)) = ToSet(q) \union {k}
<1>1. /\ Append(q, k) \in Seq(InstanceSockets) /\ Len(q) \in Nat /\ DOMAIN q = 1..Len(q)
      /\ DOMAIN Append(q, k) = 1..(Len(q) + 1) /\ Append(q, k)[Len(q) + 1] = k
      /\ \A i \in 1..Len(q) : Append(q, k)[i] = q[i]
  OBVIOUS
<1>2. \A i \in 1..(Len(q) + 1) : i \in 1..Len(q) \/ i = Len(q) + 1
  BY <1>1
<1>3. Len(q) + 1 \in 1..(Len(q) + 1) /\ \A i \in 1..Len(q) : i \in 1..(Len(q) + 1)
  BY <1>1
<1>4. ToSet(q) = {q[i] : i \in 1..Len(q)} /\ ToSet(Append(q, k)) = {Append(q, k)[i] : i \in 1..(Len(q) + 1)}
  BY <1>1 DEF ToSet
<1>5. ToSet(Append(q, k)) = ToSet(q) \union {k}
  BY <1>1, <1>2, <1>3, <1>4
<1>6. \A i \in 1..Len(q) : q[i] # k
  BY <1>4
<1>7. \A i, j \in 1..Len(q) : q[i] = q[j] => i = j
  BY <1>1 DEF IsInjective
<1>8. IsInjective(Append(q, k))
  <2> SUFFICES ASSUME NEW i \in 1..(Len(q) + 1), NEW j \in 1..(Len(q) + 1), Append(q, k)[i] = Append(q, k)[j]
               PROVE  i = j
    BY <1>1 DEF IsInjective
  <2> QED
    BY <1>1, <1>2, <1>6, <1>7
<1> QED
  BY <1>1, <1>5, <1>8

\* The front of the queue of sockets to link leaves it.
LEMMA LinkTaken ==
  ASSUME NEW q \in Seq(InstanceSockets), IsInjective(q), q # <<>>
  PROVE  /\ Tail(q) \in Seq(InstanceSockets) /\ IsInjective(Tail(q))
         /\ Head(q) \in InstanceSockets /\ Head(q) \in ToSet(q)
         /\ ToSet(Tail(q)) \subseteq ToSet(q) /\ Head(q) \notin ToSet(Tail(q))
<1>1. /\ Len(q) \in Nat \ {0} /\ DOMAIN q = 1..Len(q) /\ q[1] = Head(q)
      /\ Tail(q) \in Seq(InstanceSockets) /\ DOMAIN Tail(q) = 1..(Len(q) - 1)
      /\ \A i \in 1..(Len(q) - 1) : Tail(q)[i] = q[i + 1]
  OBVIOUS
<1>2. \A i \in 1..(Len(q) - 1) : i + 1 \in 1..Len(q) /\ i + 1 # 1
  BY <1>1
<1>3. 1 \in 1..Len(q) /\ Head(q) \in InstanceSockets
  BY <1>1
<1>4. \A i, j \in 1..Len(q) : q[i] = q[j] => i = j
  BY <1>1 DEF IsInjective
<1>5. ToSet(q) = {q[i] : i \in 1..Len(q)} /\ ToSet(Tail(q)) = {Tail(q)[i] : i \in 1..(Len(q) - 1)}
  BY <1>1 DEF ToSet
<1>6. ToSet(Tail(q)) \subseteq ToSet(q) /\ Head(q) \notin ToSet(Tail(q)) /\ Head(q) \in ToSet(q)
  BY <1>1, <1>2, <1>3, <1>4, <1>5
<1>7. IsInjective(Tail(q))
  <2> SUFFICES ASSUME NEW i \in 1..(Len(q) - 1), NEW j \in 1..(Len(q) - 1), Tail(q)[i] = Tail(q)[j]
               PROVE  i = j
    BY <1>1 DEF IsInjective
  <2>1. i + 1 = j + 1
    BY <1>1, <1>2, <1>4
  <2> QED
    BY <2>1
<1> QED
  BY <1>1, <1>3, <1>6, <1>7

-----------------------------------------------------------------------------
(* Steps that keep the invariant. *)

\* A session with a closed socket keeps one, as long as it holds it.
LEMMA StaysClosed ==
  ASSUME NEW s, HasClosedSocket(s), SocketsOf(s)' = SocketsOf(s),
         \A k \in SocketsOf(s) : isOpen'[k] => isOpen[k]
  PROVE  HasClosedSocket(s)'
  BY DEF HasClosedSocket

\* One socket moves, and nothing else: it reads, is closed, or lets go.
LEMMA SocketMoves ==
  ASSUME SessionInv, WorldInv', NEW k \in Sockets, net[k] # "none",
         UNCHANGED <<expireTime, worldVars, holdVars, keyVars, linkVars, playerVars>>,
         NEW n \in {"reading", "handling", "closing", "stopped"}, net' = [net EXCEPT ![k] = n],
         NEW o \in BOOLEAN, isOpen' = [isOpen EXCEPT ![k] = o], o => isOpen[k] /\ n \in {"reading", "handling"},
         NEW w \in {worldSession[k], NoSession}, worldSession' = [worldSession EXCEPT ![k] = w],
         w # NoSession /\ ~o => n \in Closing,
         w # NoSession /\ n = "handling" => isOpen[k] \/ net[k] = "handling",
         isOpen[k] \/ net[k] \in Closing => o \/ n \in Closing
  PROVE  SessionInv'
<1> USE DEF worldVars, threadVars, queueVars, clockVars, holdVars, keyVars, linkVars, playerVars
<1>1. SessionTypeOK /\ SocketInv /\ KeyInv /\ DeletedInv /\ LinkInv /\ LoginInv /\ PlayerInv
  BY DEF SessionInv
<1>2. /\ net \in [Sockets -> {"none", "reading", "handling", "closing", "stopped", "stuck"}]
      /\ isOpen \in [Sockets -> BOOLEAN]
      /\ worldSession \in [Sockets -> Sessions \union {NoSession}]
  BY <1>1 DEF SessionTypeOK
<1>3. /\ \A j \in Sockets : net'[j] = IF j = k THEN n ELSE net[j]
      /\ \A j \in Sockets : isOpen'[j] = IF j = k THEN o ELSE isOpen[j]
      /\ \A j \in Sockets : worldSession'[j] = IF j = k THEN w ELSE worldSession[j]
  BY <1>2
<1>4. SessionTypeOK'
  <2>1. /\ net' \in [Sockets -> {"none", "reading", "handling", "closing", "stopped", "stuck"}]
        /\ isOpen' \in [Sockets -> BOOLEAN]
        /\ worldSession' \in [Sockets -> Sessions \union {NoSession}]
    BY <1>2
  <2> QED
    BY <1>1, <2>1 DEF SessionTypeOK, WorldInv
<1>5. \A s : SocketsOf(s)' = SocketsOf(s)
  BY DEF SocketsOf
<1>6. SocketInv'
  BY <1>1, <1>3, <1>5 DEF SocketInv
<1>7. KeyInv'
  <2>1. gaveUp \subseteq Sockets /\ \A s \in handed : RealmSocket(s) \in Sockets
    BY <1>1, SocketParts DEF SessionTypeOK, TypeOK
  <2> QED
    BY <1>1, <1>3, <2>1 DEF KeyInv
<1>8. DeletedInv' /\ PlayerInv'
  BY <1>1 DEF DeletedInv, PlayerInv
<1>9. LinkInv'
  <2>1. ToSet(linkQueue) \subseteq Sockets /\ (linking # NoSocket => linking \in Sockets)
    BY <1>1, SocketParts DEF SessionTypeOK, ToSet
  <2> QED
    BY <1>1, <1>3, <2>1 DEF LinkInv
<1>10. LoginInv'
  <2>1. \A s \in Sessions : <<s, connectKey[s]>> \in Sockets
    BY <1>1, SocketParts DEF SessionTypeOK
  <2>2. \A s \in Sessions : Awaited(s)' => Awaited(s)
    BY <1>3, <2>1 DEF Awaited
  <2>3. \A s \in Sessions : Doomed(s) => Doomed(s)'
    <3>1. ASSUME NEW s \in Sessions, HasClosedSocket(s) PROVE HasClosedSocket(s)'
      BY <1>1, <1>3, <1>5, <3>1, HeldSockets, StaysClosed
    <3> QED
      BY <3>1 DEF Doomed
  <2>4. \A s \in Sessions : Pending(s)' <=> Pending(s)
    BY DEF Pending
  <2> QED
    BY <1>1, <2>2, <2>3, <2>4 DEF LoginInv
<1> QED
  BY <1>4, <1>6, <1>7, <1>8, <1>9, <1>10 DEF SessionInv

\* A network thread reads, fails or closes a socket.
LEMMA NetStepKeeps ==
  ASSUME SessionInv, WorldInv', NEW k \in Sockets,
         PacketBegin(k) \/ PacketQueued(k) \/ PacketRefused(k) \/ Dropped(k) \/ OnClose(k)
  PROVE  SessionInv'
<1>1. /\ net[k] \in {"none", "reading", "handling", "closing", "stopped", "stuck"}
      /\ isOpen \in [Sockets -> BOOLEAN]
      /\ worldSession \in [Sockets -> Sessions \union {NoSession}]
      /\ isOpen[k] \in BOOLEAN
  BY DEF SessionInv, SessionTypeOK
<1>2. /\ isOpen[k] => net[k] \in {"reading", "handling"}
      /\ worldSession[k] # NoSession /\ ~isOpen[k] => net[k] \in Closing
  BY DEF SessionInv, SocketInv
<1>3. isOpen = [isOpen EXCEPT ![k] = isOpen[k]] /\ worldSession = [worldSession EXCEPT ![k] = worldSession[k]]
  BY <1>1
<1> USE DEF holdVars, keyVars, linkVars, playerVars
<1>4. CASE PacketBegin(k)
  <2>1. /\ net[k] = "reading" /\ net' = [net EXCEPT ![k] = "handling"]
        /\ isOpen' = [isOpen EXCEPT ![k] = isOpen[k]]
        /\ worldSession' = [worldSession EXCEPT ![k] = worldSession[k]]
        /\ UNCHANGED <<expireTime, worldVars, holdVars, keyVars, linkVars, playerVars>>
    BY <1>3, <1>4 DEF PacketBegin
  <2> QED
    BY <1>1, <1>2, <2>1, SocketMoves DEF Closing
<1>5. CASE PacketQueued(k)
  <2>1. /\ net[k] = "handling" /\ net' = [net EXCEPT ![k] = "reading"]
        /\ isOpen' = [isOpen EXCEPT ![k] = isOpen[k]]
        /\ worldSession' = [worldSession EXCEPT ![k] = worldSession[k]]
        /\ UNCHANGED <<expireTime, worldVars, holdVars, keyVars, linkVars, playerVars>>
    BY <1>3, <1>5 DEF PacketQueued
  <2> QED
    BY <1>1, <1>2, <2>1, SocketMoves DEF Closing
<1>6. CASE PacketRefused(k) \/ Dropped(k)
  <2> DEFINE n == IF isOpen[k] THEN "closing" ELSE "stopped"
  <2>1. /\ net[k] \in {"reading", "handling"} /\ net' = [net EXCEPT ![k] = n]
        /\ isOpen' = [isOpen EXCEPT ![k] = FALSE]
        /\ worldSession' = [worldSession EXCEPT ![k] = worldSession[k]]
        /\ UNCHANGED <<expireTime, worldVars, holdVars, keyVars, linkVars, playerVars>>
    BY <1>3, <1>6 DEF PacketRefused, Dropped, NetCloses
  <2>2. n \in {"closing", "stopped"}
    OBVIOUS
  <2> HIDE DEF n
  <2> QED
    BY <1>1, <1>2, <2>1, <2>2, SocketMoves DEF Closing
<1>7. CASE OnClose(k)
  <2>1. /\ net[k] = "closing" /\ net' = [net EXCEPT ![k] = "stopped"]
        /\ isOpen' = [isOpen EXCEPT ![k] = isOpen[k]]
        /\ worldSession' = [worldSession EXCEPT ![k] = NoSession]
        /\ UNCHANGED <<expireTime, worldVars, holdVars, keyVars, linkVars, playerVars>>
    BY <1>3, <1>7 DEF OnClose
  <2> QED
    BY <1>1, <1>2, <2>1, SocketMoves DEF Closing
<1> QED
  BY <1>4, <1>5, <1>6, <1>7

\* The world thread goes on without touching a socket, a login or a player.
LEMMA WorldMoves ==
  ASSUME SessionInv, WorldInv',
         UNCHANGED <<socketVars, holdVars, keyVars, linkVars, playerVars>>,
         UNCHANGED <<deleted, m_playerLoading>>,
         expireTime' \in [Sessions -> 0..ExpirePasses],
         \A s \in handed' : net[RealmSocket(s)] # "none",
         linking # NoSocket => world' = world /\ m_sessions' = m_sessions,
         loggingIn => world' = "callbacks" /\ current' = current,
         \A s \in hasPlayer : m_sessions'[AccountOf(s)] = s,
         \A s \in Sessions : Doomed(s) => world' \in {"callbacks", "cleanup"} /\ current' = s
  PROVE  SessionInv'
<1> USE DEF socketVars, holdVars, keyVars, linkVars, playerVars
<1>1. SessionTypeOK /\ SocketInv /\ KeyInv /\ DeletedInv /\ LinkInv /\ LoginInv /\ PlayerInv
  BY DEF SessionInv
<1>2. SessionTypeOK'
  BY <1>1 DEF SessionTypeOK, WorldInv
<1>3. \A s : SocketsOf(s)' = SocketsOf(s)
  BY DEF SocketsOf
<1>4. SocketInv' /\ KeyInv' /\ DeletedInv'
  BY <1>1, <1>3 DEF SocketInv, KeyInv, DeletedInv
<1>5. LinkInv' /\ PlayerInv'
  BY <1>1 DEF LinkInv, PlayerInv
<1>6. LoginInv'
  <2>1. \A s \in Sessions : Doomed(s) => Doomed(s)'
    BY <1>3 DEF Doomed, HasClosedSocket
  <2> QED
    BY <1>1, <2>1 DEF LoginInv, Awaited, Pending
<1> QED
  BY <1>2, <1>4, <1>5, <1>6 DEF SessionInv

\* The phases of World::UpdateSessions; a session that stays was not doomed.
LEMMA WorldMovesKeeps ==
  ASSUME SessionInv, WorldInv',
         AddingDone \/ LinkingDone \/ UpdatingBegins \/ PacketLoopEnds \/ SessionInitialized
           \/ CallbacksEnd \/ KeepSession \/ PassDone
  PROVE  SessionInv'
<1> USE DEF threadVars
<1>1. SessionTypeOK /\ KeyInv /\ LinkInv /\ PlayerInv /\ WorldInv
  BY DEF SessionInv
<1>2. /\ UNCHANGED <<socketVars, holdVars, keyVars, linkVars, playerVars>>
      /\ UNCHANGED <<deleted, m_playerLoading, handed, m_sessions>>
  BY DEF AddingDone, AddDone, LinkingDone, LinkDone, UpdatingBegins, UpdateBegin, PacketLoopEnds, PacketsDone,
         SessionInitialized, InitializeSessionCallback, CallbacksEnd, CallbacksDone,
         KeepSession, SessionStays, PassDone, LoopDone
<1>3. expireTime' \in [Sessions -> 0..ExpirePasses]
  <2>1. expireTime \in [Sessions -> 0..ExpirePasses] /\ ExpirePasses \in Nat
    BY <1>1, SessionAssumption DEF SessionTypeOK
  <2>2. CASE KeepSession
    <3>1. current \in Sessions
      BY <1>1, <2>2, CurrentHere DEF KeepSession, SessionStays
    <3>2. HasClosedSocket(current) => expireTime[current] - 1 \in 0..ExpirePasses
      BY <2>1, <2>2, <3>1 DEF KeepSession
    <3> QED
      BY <2>1, <2>2, <3>1, <3>2 DEF KeepSession
  <2>3. CASE UNCHANGED expireTime
    BY <2>1, <2>3
  <2> QED
    BY <2>2, <2>3 DEF AddingDone, LinkingDone, UpdatingBegins, PacketLoopEnds, SessionInitialized,
                      CallbacksEnd, PassDone
<1>4. linking # NoSocket => world' = world
  BY <1>1 DEF LinkInv, AddingDone, AddDone, LinkingDone, LinkDone, UpdatingBegins, UpdateBegin,
              PacketLoopEnds, PacketsDone, SessionInitialized, InitializeSessionCallback,
              CallbacksEnd, CallbacksDone, KeepSession, SessionStays, PassDone, LoopDone
<1>5. loggingIn => world' = "callbacks" /\ current' = current
  BY <1>1 DEF PlayerInv, AddingDone, AddDone, LinkingDone, LinkDone, UpdatingBegins, UpdateBegin,
              PacketLoopEnds, PacketsDone, SessionInitialized, InitializeSessionCallback,
              CallbacksEnd, CallbacksDone, KeepSession, SessionStays, PassDone, LoopDone
<1>6. \A s \in Sessions : Doomed(s) => world' \in {"callbacks", "cleanup"} /\ current' = s
  BY DEF Doomed, AddingDone, AddDone, LinkingDone, LinkDone, UpdatingBegins, UpdateBegin,
         PacketLoopEnds, PacketsDone, SessionInitialized, InitializeSessionCallback,
         CallbacksEnd, CallbacksDone, KeepSession, SessionStays, PassDone, LoopDone
<1>7. /\ \A s \in handed' : net[RealmSocket(s)] # "none"
      /\ \A s \in hasPlayer : m_sessions'[AccountOf(s)] = s
  BY <1>1, <1>2 DEF KeyInv, PlayerInv
<1> QED
  BY <1>2, <1>3, <1>4, <1>5, <1>6, <1>7, WorldMoves

\* The client acknowledges encryption on its realm socket.
LEMMA RealmAckKeeps ==
  ASSUME SessionInv, WorldInv', NEW s \in Sessions, RealmAck(s) PROVE SessionInv'
<1>1. /\ UNCHANGED <<socketVars, holdVars, keyVars, linkVars, playerVars, expireTime>>
      /\ UNCHANGED <<deleted, m_playerLoading, world, current, m_sessions>>
      /\ handed' = handed \union {s} /\ net[RealmSocket(s)] = "reading"
  BY DEF RealmAck, AddSession, threadVars
<1>2. SessionTypeOK /\ KeyInv /\ LinkInv /\ PlayerInv
  BY DEF SessionInv
<1>3. expireTime' \in [Sessions -> 0..ExpirePasses] /\ \A u \in handed' : net[RealmSocket(u)] # "none"
  BY <1>1, <1>2 DEF SessionTypeOK, KeyInv
<1>4. /\ loggingIn => world' = "callbacks" /\ current' = current
      /\ \A u \in hasPlayer : m_sessions'[AccountOf(u)] = u
      /\ \A u \in Sessions : Doomed(u) => world' \in {"callbacks", "cleanup"} /\ current' = u
  BY <1>1, <1>2 DEF PlayerInv, Doomed
<1> QED
  BY <1>1, <1>3, <1>4, WorldMoves

\* What CloseSocket from the world thread does to each socket.
LEMMA ClosedSockets ==
  ASSUME SessionInv, NEW ks, WorldCloses(ks)
  PROVE  /\ net' = net
         /\ isOpen' \in [Sockets -> BOOLEAN]
         /\ worldSession' \in [Sockets -> Sessions \union {NoSession}]
         /\ \A k \in Sockets : isOpen'[k] = (isOpen[k] /\ k \notin ks)
         /\ \A k \in Sockets : /\ worldSession'[k] \in {NoSession, SessionOf(k)}
                               /\ net[k] = "none" => ~isOpen'[k] /\ worldSession'[k] = NoSession
                               /\ isOpen'[k] => net[k] \in {"reading", "handling"}
                               /\ worldSession'[k] # NoSession /\ ~isOpen'[k] => net[k] \in Closing
         /\ \A k \in Sockets : (isOpen'[k] \/ net[k] = "handling") /\ worldSession'[k] # NoSession =>
              k \notin ks /\ k \in SocketsOf(SessionOf(k))
<1>1. SessionTypeOK /\ SocketInv
  BY DEF SessionInv
<1>2. /\ net' = net /\ \A k \in Sockets : k \in ks /\ isOpen[k] => net[k] # "handling"
      /\ isOpen' = [k \in Sockets |-> isOpen[k] /\ k \notin ks]
      /\ worldSession' = [k \in Sockets |-> IF k \in ks /\ isOpen[k] THEN NoSession ELSE worldSession[k]]
  BY DEF WorldCloses
<1>3. isOpen' \in [Sockets -> BOOLEAN] /\ worldSession' \in [Sockets -> Sessions \union {NoSession}]
  BY <1>1, <1>2 DEF SessionTypeOK
<1>4. /\ \A k \in Sockets : isOpen'[k] = (isOpen[k] /\ k \notin ks)
      /\ \A k \in Sockets : worldSession'[k] = IF k \in ks /\ isOpen[k] THEN NoSession ELSE worldSession[k]
  BY <1>2
<1>5. ASSUME NEW k \in Sockets
      PROVE  /\ worldSession'[k] \in {NoSession, SessionOf(k)}
             /\ net[k] = "none" => ~isOpen'[k] /\ worldSession'[k] = NoSession
             /\ isOpen'[k] => net[k] \in {"reading", "handling"}
             /\ worldSession'[k] # NoSession /\ ~isOpen'[k] => net[k] \in Closing
             /\ (isOpen'[k] \/ net[k] = "handling") /\ worldSession'[k] # NoSession =>
                  k \notin ks /\ k \in SocketsOf(SessionOf(k))
  BY <1>1, <1>2, <1>4 DEF SocketInv, Closing
<1> QED
  BY <1>2, <1>3, <1>4, <1>5

\* With no socket being linked, closing sockets keeps what their sessions hold.
LEMMA ClosingKeeps ==
  ASSUME SessionInv, NEW ks, WorldCloses(ks), linking = NoSocket,
         UNCHANGED <<keyVars, realm, instance, handed>>, linking' = NoSocket,
         IsInjective(linkQueue'), ToSet(linkQueue') \subseteq ToSet(linkQueue)
  PROVE  /\ SocketInv' /\ KeyInv' /\ LinkInv'
         /\ net' \in [Sockets -> {"none", "reading", "handling", "closing", "stopped", "stuck"}]
         /\ isOpen' \in [Sockets -> BOOLEAN]
         /\ worldSession' \in [Sockets -> Sessions \union {NoSession}]
         /\ \A s : SocketsOf(s)' = SocketsOf(s)
         /\ \A s \in Sessions : HasClosedSocket(s) => HasClosedSocket(s)'
         /\ \A s \in Sessions : ks \intersect SocketsOf(s) # {} => HasClosedSocket(s)'
<1> USE DEF keyVars
<1>1. SessionTypeOK /\ SocketInv /\ KeyInv /\ LinkInv
  BY DEF SessionInv
<1>2. /\ net' = net
      /\ isOpen' \in [Sockets -> BOOLEAN]
      /\ worldSession' \in [Sockets -> Sessions \union {NoSession}]
      /\ \A k \in Sockets : isOpen'[k] = (isOpen[k] /\ k \notin ks)
      /\ \A k \in Sockets : /\ worldSession'[k] \in {NoSession, SessionOf(k)}
                            /\ net[k] = "none" => ~isOpen'[k] /\ worldSession'[k] = NoSession
                            /\ isOpen'[k] => net[k] \in {"reading", "handling"}
                            /\ worldSession'[k] # NoSession /\ ~isOpen'[k] => net[k] \in Closing
      /\ \A k \in Sockets : (isOpen'[k] \/ net[k] = "handling") /\ worldSession'[k] # NoSession =>
           k \notin ks /\ k \in SocketsOf(SessionOf(k))
  BY ClosedSockets
<1>3. \A s : SocketsOf(s)' = SocketsOf(s)
  BY DEF SocketsOf
<1>4. SocketInv'
  BY <1>2, <1>3 DEF SocketInv
<1>5. KeyInv' /\ LinkInv'
  BY <1>1, <1>2 DEF KeyInv, LinkInv
<1>6. net' \in [Sockets -> {"none", "reading", "handling", "closing", "stopped", "stuck"}]
  BY <1>1, <1>2 DEF SessionTypeOK
<1>7. ASSUME NEW s \in Sessions, HasClosedSocket(s) PROVE HasClosedSocket(s)'
  BY <1>1, <1>2, <1>3, <1>7, HeldSockets DEF HasClosedSocket
<1>8. ASSUME NEW s \in Sessions, ks \intersect SocketsOf(s) # {} PROVE HasClosedSocket(s)'
  BY <1>1, <1>2, <1>3, <1>8, HeldSockets DEF HasClosedSocket
<1> QED
  BY <1>2, <1>3, <1>4, <1>5, <1>6, <1>7, <1>8

\* A session is destroyed, with everything it holds.
LEMMA DestroyKeeps ==
  ASSUME SessionInv, WorldInv', NEW s \in Sessions, Destroy(s), s \in handed,
         UNCHANGED <<expireTime, keyVars, linkVars, handed>>,
         deleted' = deleted \union {s},
         linking = NoSocket, loggingIn = FALSE,
         \A u \in Sessions : u # s => (u \in m_playerLoading' <=> u \in m_playerLoading),
         \A u \in hasPlayer : u # s => m_sessions'[AccountOf(u)] = u,
         \A u \in Sessions : u # s => ~Doomed(u)
  PROVE  SessionInv'
<1> USE DEF keyVars, linkVars
<1>1. SessionTypeOK /\ SocketInv /\ KeyInv /\ DeletedInv /\ LinkInv /\ LoginInv /\ PlayerInv
  BY DEF SessionInv
<1>2. /\ WorldCloses(SocketsOf(s))
      /\ realm' = realm \ {s} /\ instance' = [instance EXCEPT ![s] = 0]
      /\ hasPlayer' = hasPlayer \ {s}
      /\ online' = [online EXCEPT ![s] = IF s \in hasPlayer THEN online[s] - 1 ELSE online[s]]
      /\ holders' = [holders EXCEPT ![s] = 0] /\ forceExit' = forceExit /\ loggingIn' = loggingIn
  BY DEF Destroy
<1>3. /\ net' = net
      /\ isOpen' \in [Sockets -> BOOLEAN]
      /\ worldSession' \in [Sockets -> Sessions \union {NoSession}]
      /\ \A k \in Sockets : isOpen'[k] = (isOpen[k] /\ k \notin SocketsOf(s))
      /\ \A k \in Sockets : /\ worldSession'[k] \in {NoSession, SessionOf(k)}
                            /\ net[k] = "none" => ~isOpen'[k] /\ worldSession'[k] = NoSession
                            /\ isOpen'[k] => net[k] \in {"reading", "handling"}
                            /\ worldSession'[k] # NoSession /\ ~isOpen'[k] => net[k] \in Closing
      /\ \A k \in Sockets : (isOpen'[k] \/ net[k] = "handling") /\ worldSession'[k] # NoSession =>
           k \notin SocketsOf(s) /\ k \in SocketsOf(SessionOf(k))
  BY <1>2, ClosedSockets
<1>4. /\ instance \in [Sessions -> 0..MaxKeys] /\ holders \in [Sessions -> 0..1]
      /\ online \in [Sessions -> Nat] /\ MaxKeys \in Nat
  BY <1>1, SessionAssumption DEF SessionTypeOK
<1>5. /\ \A u \in Sessions : instance'[u] = IF u = s THEN 0 ELSE instance[u]
      /\ \A u \in Sessions : holders'[u] = IF u = s THEN 0 ELSE holders[u]
      /\ \A u \in Sessions : online'[u] = IF u \in hasPlayer' THEN 1 ELSE 0
  <2>1. \A u \in Sessions : online[u] = IF u \in hasPlayer THEN 1 ELSE 0
    BY <1>1 DEF PlayerInv
  <2> QED
    BY <1>2, <1>4, <2>1
<1>6. SessionTypeOK'
  <2>1. /\ instance' \in [Sessions -> 0..MaxKeys] /\ holders' \in [Sessions -> 0..1]
    BY <1>2, <1>4
  <2>2. online' \in [Sessions -> Nat]
    BY <1>2, <1>4, <1>5
  <2> QED
    BY <1>1, <1>2, <1>3, <2>1, <2>2 DEF SessionTypeOK, WorldInv
<1>7. \A u : u # s => SocketsOf(u)' = SocketsOf(u)
  BY <1>2, <1>4 DEF SocketsOf
<1>8. SocketInv'
  <2>1. ASSUME NEW k \in Sockets, isOpen'[k] \/ net[k] = "handling", worldSession'[k] # NoSession
        PROVE  k \in SocketsOf(SessionOf(k))'
    <3>1. k \notin SocketsOf(s) /\ k \in SocketsOf(SessionOf(k))
      BY <1>3, <2>1
    <3>2. PICK u : u = SessionOf(k)
      OBVIOUS
    <3>3. SocketsOf(u)' = SocketsOf(u)
      BY <1>7, <3>1, <3>2
    <3> QED
      BY <3>1, <3>2, <3>3 DEF SessionOf
  <2> QED
    BY <1>3, <2>1 DEF SocketInv
<1>9. KeyInv' /\ LinkInv'
  BY <1>1, <1>3 DEF KeyInv, LinkInv
<1>10. DeletedInv'
  <2>1. deleted \subseteq Sessions
    BY <1>1 DEF SessionTypeOK, TypeOK
  <2> QED
    BY <1>1, <1>2, <1>5, <2>1 DEF DeletedInv
<1>11. PlayerInv'
  BY <1>1, <1>2, <1>5 DEF PlayerInv
<1>12. LoginInv'
  <2> SUFFICES ASSUME NEW u \in Sessions, u \notin deleted, u # s
               PROVE  /\ Awaited(u)' => Pending(u)'
                      /\ holders'[u] \in {0, 1}
                      /\ holders'[u] # 0 => u \in m_playerLoading' /\ u \notin hasPlayer' /\ instance'[u] # 0
                      /\ instance'[u] # 0 => u \in m_playerLoading' \union hasPlayer'
    BY DEF LoginInv
  <2>1. Awaited(u)' = Awaited(u) /\ Pending(u)' = Pending(u)
    BY <1>2, <1>3, <1>5 DEF Awaited, Pending
  <2> QED
    BY <1>1, <1>2, <1>5, <2>1 DEF LoginInv
<1> QED
  BY <1>6, <1>8, <1>9, <1>10, <1>11, <1>12 DEF SessionInv

\* A session is refused, replaced by a new one, or removed after its update.
LEMMA RemovalKeeps ==
  ASSUME SessionInv, WorldInv', RefuseSession \/ RegisterSession \/ RemoveSession
  PROVE  SessionInv'
<1> USE DEF keyVars, linkVars
<1>1. SessionTypeOK /\ LinkInv /\ PlayerInv /\ WorldInv /\ KeyInv
  BY DEF SessionInv
<1>2. world \in {"add", "cleanup"}
  BY DEF RefuseSession, AddSessionRefused, RegisterSession, AddSessionAccepted, RemoveSession, SessionRemoved
<1>3. linking = NoSocket /\ loggingIn = FALSE
  BY <1>1, <1>2 DEF LinkInv, PlayerInv, SessionTypeOK
<1>4. CASE RefuseSession
  <2>1. PICK s : s = Head(addSessQueue)
    OBVIOUS
  <2>2. /\ s \in Sessions /\ s \in handed
    BY <1>1, <1>4, <2>1, NewSession DEF RefuseSession, AddSessionRefused
  <2>3. /\ Destroy(s) /\ deleted' = deleted \union {s} /\ world = "add"
        /\ UNCHANGED <<expireTime, keyVars, linkVars, handed, m_playerLoading, m_sessions>>
    BY <1>4, <2>1 DEF RefuseSession, AddSessionRefused
  <2>4. /\ \A u \in hasPlayer : u # s => m_sessions'[AccountOf(u)] = u
        /\ \A u \in Sessions : u # s => ~Doomed(u)
    BY <1>1, <2>3 DEF PlayerInv, Doomed
  <2> QED
    BY <1>3, <2>2, <2>3, <2>4, DestroyKeeps
<1>5. CASE RegisterSession
  <2>1. PICK s, old : s = Head(addSessQueue) /\ old = m_sessions[AccountOf(s)]
    OBVIOUS
  <2>2. /\ s \in Sessions /\ AccountOf(s) \in Accounts /\ old # s
    BY <1>1, <1>5, <2>1, NewSession DEF RegisterSession, AddSessionAccepted
  <2>3. /\ m_sessions' = [m_sessions EXCEPT ![AccountOf(s)] = s] /\ world = "add"
        /\ UNCHANGED <<expireTime, keyVars, linkVars, handed, m_playerLoading, world, current>>
        /\ deleted' = IF old = NoSession THEN deleted ELSE deleted \union {old}
    BY <1>5, <2>1 DEF RegisterSession, AddSessionAccepted, threadVars
  <2>4. m_sessions \in [Accounts -> Sessions \union {NoSession}] /\ NoSession \notin Sessions
    BY <1>1, WorldAssumption DEF SessionTypeOK, TypeOK
  <2>5. \A u \in Sessions : AccountOf(u) \in Accounts /\ ~Doomed(u)
    BY <2>3 DEF Sessions, AccountOf, Doomed
  <2>6. \A u \in hasPlayer : u # old => m_sessions'[AccountOf(u)] = u
    BY <1>1, <2>1, <2>2, <2>3, <2>4, <2>5 DEF PlayerInv, SessionTypeOK
  <2>7. CASE old = NoSession
    <3>1. UNCHANGED <<socketVars, holdVars, playerVars>>
      BY <1>5, <2>1, <2>7 DEF RegisterSession
    <3>2. /\ \A u \in handed' : net[RealmSocket(u)] # "none"
          /\ expireTime' \in [Sessions -> 0..ExpirePasses]
      BY <1>1, <2>3 DEF KeyInv, SessionTypeOK
    <3>3. \A u \in hasPlayer : m_sessions'[AccountOf(u)] = u
      BY <1>1, <2>4, <2>6, <2>7 DEF SessionTypeOK
    <3> QED
      BY <1>3, <2>3, <2>5, <2>7, <3>1, <3>2, <3>3, WorldMoves
  <2>8. CASE old # NoSession
    <3>1. Destroy(old)
      BY <1>5, <2>1, <2>8 DEF RegisterSession
    <3>2. old \in Sessions /\ old \in handed
      <4>1. AccountOf(s) \in Registered
        BY <2>1, <2>2, <2>8 DEF Registered
      <4> QED
        BY <1>1, <2>1, <2>2, <2>4, <2>8, <4>1 DEF WorldInv, RegistryInv
    <3> QED
      BY <1>3, <2>3, <2>5, <2>6, <2>8, <3>1, <3>2, DestroyKeeps
  <2> QED
    BY <2>7, <2>8
<1>6. CASE RemoveSession
  <2>1. PICK s : s = current
    OBVIOUS
  <2>2. /\ Destroy(s) /\ world = "cleanup" /\ deleted' = deleted \union {s}
        /\ UNCHANGED <<expireTime, keyVars, linkVars, handed>>
        /\ m_playerLoading' = m_playerLoading \ {s}
        /\ m_sessions' = [m_sessions EXCEPT ![AccountOf(s)] = NoSession]
    BY <1>6, <2>1 DEF RemoveSession, SessionRemoved
  <2>3. s \in Sessions /\ m_sessions[AccountOf(s)] = s /\ s \in handed
    BY <1>1, <2>1, <2>2, CurrentHere
  <2>4. m_sessions \in [Accounts -> Sessions \union {NoSession}]
    BY <1>1 DEF SessionTypeOK, TypeOK
  <2>5. \A u \in hasPlayer : u # s => m_sessions'[AccountOf(u)] = u
    <3>1. \A u \in Sessions : AccountOf(u) \in Accounts
      BY DEF Sessions, AccountOf
    <3> QED
      BY <1>1, <2>2, <2>3, <2>4, <3>1 DEF PlayerInv, SessionTypeOK
  <2>6. \A u \in Sessions : u # s => ~Doomed(u)
    BY <2>1 DEF Doomed
  <2>7. \A u \in Sessions : u # s => (u \in m_playerLoading' <=> u \in m_playerLoading)
    BY <2>2
  <2> QED
    BY <1>3, <2>2, <2>3, <2>5, <2>6, <2>7, DestroyKeeps
<1> QED
  BY <1>4, <1>5, <1>6

\* Sockets are closed, and logins and players go on as before: the client is
\* idle, or sends what gets it kicked, or its socket is no longer expected.
LEMMA KickKeeps ==
  ASSUME SessionInv, WorldInv', IdleKick \/ PlayerLoginAgain \/ PlayerLoginNotLegit \/ LinkRejected
  PROVE  SessionInv'
<1> USE DEF keyVars, playerVars, threadVars, worldVars, holdVars
<1>1. SessionTypeOK /\ KeyInv /\ DeletedInv /\ LinkInv /\ LoginInv /\ PlayerInv /\ WorldInv
  BY DEF SessionInv
<1>2. \E ks : WorldCloses(ks)
  BY DEF IdleKick, PlayerLoginAgain, PlayerLoginNotLegit, KickPlayer, LinkRejected
<1>3. PICK ks : WorldCloses(ks)
  BY <1>2
<1>4. /\ UNCHANGED <<keyVars, realm, instance, handed, deleted, playerVars, expireTime>>
      /\ UNCHANGED <<world, current, m_sessions>>
      /\ linking' = linking /\ world \in {"packets", "link"}
      /\ m_playerLoading \subseteq m_playerLoading'
  <2>1. CASE IdleKick
    BY <2>1 DEF IdleKick, linkVars
  <2>2. CASE PlayerLoginAgain
    BY <2>2 DEF PlayerLoginAgain, KickPlayer, linkVars
  <2>3. CASE PlayerLoginNotLegit
    BY <2>3 DEF PlayerLoginNotLegit, KickPlayer, LoadingBegins, linkVars
  <2>4. CASE LinkRejected
    BY <2>4 DEF LinkRejected, NextLink
  <2> QED
    BY <2>1, <2>2, <2>3, <2>4
<1>5. linking = NoSocket
  BY <1>1 DEF LinkInv, IdleKick, PlayerLoginAgain, PlayerLoginNotLegit, LoadingBegins, LinkRejected, NextLink
<1>6. linkQueue' \in Seq(InstanceSockets) /\ IsInjective(linkQueue') /\ ToSet(linkQueue') \subseteq ToSet(linkQueue)
  <2>1. linkQueue \in Seq(InstanceSockets) /\ IsInjective(linkQueue)
    BY <1>1 DEF SessionTypeOK, LinkInv
  <2>2. CASE linkQueue' = linkQueue
    BY <2>1, <2>2
  <2>3. CASE LinkRejected
    BY <2>1, <2>3, LinkTaken DEF LinkRejected, NextLink
  <2> QED
    BY <2>2, <2>3 DEF IdleKick, PlayerLoginAgain, PlayerLoginNotLegit, linkVars
<1>7. forceExit' \subseteq Sessions
  <2>1. forceExit \subseteq Sessions
    BY <1>1 DEF SessionTypeOK
  <2>2. world = "packets" => current \in Sessions
    BY <1>1, CurrentHere
  <2>3. CASE IdleKick \/ LinkRejected
    BY <2>1, <2>3 DEF IdleKick, LinkRejected
  <2>4. CASE PlayerLoginAgain \/ PlayerLoginNotLegit
    BY <2>1, <2>2, <2>4 DEF PlayerLoginAgain, PlayerLoginNotLegit, KickPlayer, LoadingBegins
  <2> QED
    BY <2>3, <2>4
<1>8. /\ SocketInv' /\ KeyInv' /\ LinkInv'
      /\ net' \in [Sockets -> {"none", "reading", "handling", "closing", "stopped", "stuck"}]
      /\ isOpen' \in [Sockets -> BOOLEAN]
      /\ worldSession' \in [Sockets -> Sessions \union {NoSession}]
  BY <1>3, <1>4, <1>5, <1>6, ClosingKeeps
<1>9. SessionTypeOK'
  BY <1>1, <1>4, <1>6, <1>7, <1>8 DEF SessionTypeOK, WorldInv
<1>10. DeletedInv' /\ PlayerInv'
  BY <1>1, <1>4 DEF DeletedInv, PlayerInv
<1>11. LoginInv'
  <2>1. \A s \in Sessions : Awaited(s)' => Awaited(s)
    BY <1>3, <1>4, <1>5, <1>6 DEF Awaited, WorldCloses
  <2>2. \A s \in Sessions : (Pending(s) => Pending(s)') /\ ~Doomed(s)
    BY <1>4 DEF Pending, Doomed
  <2> QED
    BY <1>1, <1>4, <2>1, <2>2 DEF LoginInv
<1> QED
  BY <1>1, <1>8, <1>9, <1>10, <1>11 DEF SessionInv

\* The character could not be loaded: the session is kicked and removed in the
\* clean-up of the same update.
LEMMA FailedLoginKeeps == ASSUME SessionInv, WorldInv', LoginFails PROVE SessionInv'
<1> USE DEF keyVars, threadVars, linkVars
<1>1. SessionTypeOK /\ KeyInv /\ DeletedInv /\ LinkInv /\ LoginInv /\ PlayerInv /\ WorldInv
  BY DEF SessionInv
<1>2. PICK s : s = current
  OBVIOUS
<1>3. /\ world = "callbacks" /\ loggingIn = FALSE /\ holders[s] > 0
      /\ holders' = [holders EXCEPT ![s] = holders[s] - 1]
      /\ hasPlayer' = hasPlayer \ {s}
      /\ WorldCloses(SocketsOf(s))
      /\ forceExit' = IF SocketsOf(s) = {} THEN forceExit ELSE forceExit \union {s}
      /\ UNCHANGED <<realm, instance, expireTime, keyVars, linkVars, online, loggingIn>>
      /\ ClearLoading(s)
  BY <1>1, <1>2 DEF LoginFails, LoginAnswered, KickPlayer, SessionTypeOK
<1>4. s \in Sessions /\ s \notin deleted
  BY <1>1, <1>2, <1>3, CurrentHere
<1>5. /\ holders \in [Sessions -> 0..1] /\ holders[s] \in {0, 1} /\ holders[s] = 1
      /\ s \in m_playerLoading /\ s \notin hasPlayer /\ instance[s] # 0
  BY <1>1, <1>3, <1>4 DEF LoginInv, SessionTypeOK
<1>6. /\ m_playerLoading' = m_playerLoading \ {s} /\ hasPlayer' = hasPlayer
      /\ UNCHANGED <<handed, deleted, world, current, m_sessions>>
  BY <1>3, <1>5 DEF ClearLoading, LoadingEnds
<1>7. linking = NoSocket
  BY <1>1, <1>3 DEF LinkInv
<1>8. /\ SocketInv' /\ KeyInv' /\ LinkInv'
      /\ net' \in [Sockets -> {"none", "reading", "handling", "closing", "stopped", "stuck"}]
      /\ isOpen' \in [Sockets -> BOOLEAN]
      /\ worldSession' \in [Sockets -> Sessions \union {NoSession}]
      /\ \A u \in Sessions : HasClosedSocket(u) => HasClosedSocket(u)'
      /\ \A u \in Sessions : SocketsOf(s) \intersect SocketsOf(u) # {} => HasClosedSocket(u)'
  <2>1. IsInjective(linkQueue') /\ ToSet(linkQueue') \subseteq ToSet(linkQueue)
    BY <1>1, <1>3 DEF LinkInv
  <2>2. linking' = NoSocket /\ UNCHANGED <<keyVars, realm, instance, handed>>
    BY <1>3, <1>6, <1>7
  <2> QED
    BY <1>3, <1>7, <2>1, <2>2, ClosingKeeps
<1>9. 0 \in 0..1 /\ \A u \in Sessions : holders'[u] = IF u = s THEN 0 ELSE holders[u]
  BY <1>3, <1>4, <1>5, SessionAssumption
<1>10. holders' \in [Sessions -> 0..1]
  BY <1>3, <1>5, <1>9
<1>11. SessionTypeOK'
  BY <1>1, <1>3, <1>4, <1>6, <1>8, <1>10 DEF SessionTypeOK, WorldInv
<1>12. deleted \subseteq Sessions
  BY <1>1 DEF SessionTypeOK, TypeOK
<1>13. DeletedInv' /\ PlayerInv'
  BY <1>1, <1>3, <1>4, <1>6, <1>9, <1>12 DEF DeletedInv, PlayerInv
<1>14. Doomed(s)'
  <2>1. SocketsOf(s) # {}
    BY <1>5 DEF SocketsOf
  <2> QED
    BY <1>2, <1>3, <1>4, <1>5, <1>6, <1>8, <2>1 DEF Doomed
<1>15. LoginInv'
  <2>1. net' = net
    BY <1>3 DEF WorldCloses
  <2>2. \A u \in Sessions : Awaited(u)' = Awaited(u)
    BY <1>3, <2>1 DEF Awaited
  <2>3. \A u \in Sessions : u # s => Pending(u)' = Pending(u) /\ ~Doomed(u)
    BY <1>2, <1>3, <1>6 DEF Pending, Doomed
  <2>4. ~Awaited(s)
    BY <1>1, <1>4, <1>5 DEF LoginInv, Pending
  <2> QED
    BY <1>1, <1>3, <1>5, <1>6, <1>9, <1>14, <2>2, <2>3, <2>4 DEF LoginInv
<1> QED
  BY <1>1, <1>8, <1>11, <1>13, <1>15 DEF SessionInv

\* The logout timer: the player goes, and the instance socket with it.
LEMMA LogoutKeeps == ASSUME SessionInv, WorldInv', LogoutPlayer PROVE SessionInv'
<1> USE DEF keyVars, linkVars
<1>1. SessionTypeOK /\ KeyInv /\ DeletedInv /\ LinkInv /\ LoginInv /\ PlayerInv /\ WorldInv
  BY DEF SessionInv
<1>2. PICK s : s = current
  OBVIOUS
<1> DEFINE ks == SocketsOf(s) \intersect InstanceSockets
<1>3. /\ world = "cleanup" /\ s \in hasPlayer /\ hasPlayer' = hasPlayer \ {s}
      /\ online' = [online EXCEPT ![s] = online[s] - 1]
      /\ WorldCloses(ks) /\ instance' = [instance EXCEPT ![s] = 0]
      /\ UNCHANGED <<expireTime, worldVars, realm, forceExit, keyVars, linkVars, holders, loggingIn>>
  BY <1>2 DEF LogoutPlayer
<1>4. UNCHANGED <<handed, deleted, world, current, m_sessions, m_playerLoading>>
  BY <1>3 DEF worldVars, threadVars
<1>5. s \in Sessions /\ s \notin deleted
  BY <1>1, <1>2, <1>3, CurrentHere
<1>6. linking = NoSocket /\ loggingIn = FALSE
  BY <1>1, <1>3 DEF LinkInv, PlayerInv, SessionTypeOK
<1>7. /\ instance \in [Sessions -> 0..MaxKeys] /\ 0 \in 0..MaxKeys
      /\ online \in [Sessions -> Nat] /\ online[s] = 1
  BY <1>1, <1>3, <1>5, SessionAssumption DEF SessionTypeOK, PlayerInv
<1>8. /\ net' = net
      /\ isOpen' \in [Sockets -> BOOLEAN]
      /\ worldSession' \in [Sockets -> Sessions \union {NoSession}]
      /\ \A k \in Sockets : isOpen'[k] = (isOpen[k] /\ k \notin ks)
      /\ \A k \in Sockets : /\ worldSession'[k] \in {NoSession, SessionOf(k)}
                            /\ net[k] = "none" => ~isOpen'[k] /\ worldSession'[k] = NoSession
                            /\ isOpen'[k] => net[k] \in {"reading", "handling"}
                            /\ worldSession'[k] # NoSession /\ ~isOpen'[k] => net[k] \in Closing
      /\ \A k \in Sockets : (isOpen'[k] \/ net[k] = "handling") /\ worldSession'[k] # NoSession =>
           k \notin ks /\ k \in SocketsOf(SessionOf(k))
  <2> HIDE DEF ks
  <2> QED
    BY <1>3, ClosedSockets
<1>9. /\ \A u \in Sessions : instance'[u] = IF u = s THEN 0 ELSE instance[u]
      /\ \A u \in Sessions : online'[u] = IF u = s THEN 0 ELSE online[u]
  BY <1>3, <1>7
<1>10. SessionTypeOK'
  <2>1. instance' \in [Sessions -> 0..MaxKeys]
    BY <1>3, <1>7
  <2>2. online' \in [Sessions -> Nat]
    <3>1. online[s] - 1 \in Nat
      BY <1>7
    <3> QED
      BY <1>3, <1>7, <3>1
  <2> QED
    BY <1>1, <1>3, <1>8, <2>1, <2>2 DEF SessionTypeOK, WorldInv
<1>11. SocketInv'
  <2>1. ASSUME NEW k \in Sockets, isOpen'[k] \/ net[k] = "handling", worldSession'[k] # NoSession
        PROVE  k \in SocketsOf(SessionOf(k))'
    <3>1. k \notin ks /\ k \in SocketsOf(SessionOf(k)) /\ SessionOf(k) \in Sessions
      BY <1>8, <2>1, SocketParts
    <3>2. CASE SessionOf(k) = s
      <4>1. k \notin InstanceSockets
        BY <3>1, <3>2
      <4>2. KeyOf(k) = 0 /\ s \in realm /\ k = RealmSocket(s)
        BY <1>1, <1>5, <3>1, <3>2, <4>1, HeldSockets, SocketParts
      <4> QED
        BY <1>3, <3>2, <4>2 DEF SocketsOf, SessionOf
    <3>3. CASE SessionOf(k) # s
      BY <1>3, <1>9, <3>1, <3>3 DEF SocketsOf, SessionOf
    <3> QED
      BY <3>2, <3>3
  <2> QED
    BY <1>8, <2>1 DEF SocketInv
<1>12. KeyInv' /\ LinkInv'
  BY <1>1, <1>3, <1>4, <1>6, <1>8 DEF KeyInv, LinkInv
<1>13. deleted \subseteq Sessions
  BY <1>1 DEF SessionTypeOK, TypeOK
<1>14. DeletedInv' /\ PlayerInv'
  BY <1>1, <1>3, <1>4, <1>5, <1>6, <1>9, <1>13 DEF DeletedInv, PlayerInv
<1>15. LoginInv'
  <2>1. \A u \in Sessions : Awaited(u)' = Awaited(u)
    BY <1>3, <1>8 DEF Awaited
  <2>2. \A u \in Sessions : u # s => Pending(u)' = Pending(u) /\ ~Doomed(u)
    BY <1>2, <1>3, <1>4, <1>9 DEF Pending, Doomed
  <2>3. ~Awaited(s) /\ holders[s] = 0
    BY <1>1, <1>3, <1>5 DEF LoginInv, Pending
  <2> QED
    BY <1>1, <1>3, <1>4, <1>9, <2>1, <2>2, <2>3 DEF LoginInv
<1> QED
  BY <1>1, <1>10, <1>11, <1>12, <1>14, <1>15 DEF SessionInv

\* The steps below leave the registry alone, and the types of what they do not
\* change.
LEMMA RegistryStays ==
  ASSUME UNCHANGED worldVars
  PROVE  /\ UNCHANGED <<handed, deleted, world, current, m_sessions, m_playerLoading, addSessQueue>>
         /\ \A s : SocketsOf(s)' = SocketsOf(s) /\ UNCHANGED isOpen /\ UNCHANGED hasPlayer =>
              (Doomed(s) => Doomed(s)')
<1>1. UNCHANGED <<handed, deleted, world, current, m_sessions, m_playerLoading, addSessQueue>>
  BY DEF worldVars, threadVars
<1> QED
  BY <1>1 DEF Doomed, HasClosedSocket

\* A client authenticates on a realm socket.
LEMMA AuthKeeps ==
  ASSUME SessionInv, WorldInv', NEW s \in Sessions, AuthSession(s) PROVE SessionInv'
<1> USE DEF keyVars, linkVars, playerVars
<1> DEFINE k == RealmSocket(s)
<1>1. SessionTypeOK /\ SocketInv /\ KeyInv /\ DeletedInv /\ LinkInv /\ LoginInv /\ PlayerInv /\ WorldInv
  BY DEF SessionInv
<1>2. /\ net[k] = "none" /\ net' = [net EXCEPT ![k] = "reading"]
      /\ isOpen' = [isOpen EXCEPT ![k] = TRUE]
      /\ worldSession' = [worldSession EXCEPT ![k] = s]
      /\ realm' = realm \union {s}
      /\ UNCHANGED <<expireTime, worldVars, instance, forceExit, keyVars, linkVars, playerVars>>
  BY DEF AuthSession
<1>3. UNCHANGED <<handed, deleted, world, current, m_sessions, m_playerLoading>>
  BY <1>2, RegistryStays
<1>4. k \in Sockets /\ SessionOf(k) = s /\ KeyOf(k) = 0
  BY SocketParts
<1>5. s \notin deleted
  BY <1>1, <1>2 DEF KeyInv, WorldInv, RegistryInv
<1>6. /\ net \in [Sockets -> {"none", "reading", "handling", "closing", "stopped", "stuck"}]
      /\ isOpen \in [Sockets -> BOOLEAN]
      /\ worldSession \in [Sockets -> Sessions \union {NoSession}]
      /\ connectKey \in [Sessions -> 0..MaxKeys] /\ MaxKeys \in Nat
  BY <1>1, SessionAssumption DEF SessionTypeOK
<1> HIDE DEF k
<1>7. /\ \A j \in Sockets : net'[j] = IF j = k THEN "reading" ELSE net[j]
      /\ \A j \in Sockets : isOpen'[j] = IF j = k THEN TRUE ELSE isOpen[j]
      /\ \A j \in Sockets : worldSession'[j] = IF j = k THEN s ELSE worldSession[j]
  BY <1>2, <1>6
<1>8. SessionTypeOK'
  <2>1. /\ net' \in [Sockets -> {"none", "reading", "handling", "closing", "stopped", "stuck"}]
        /\ isOpen' \in [Sockets -> BOOLEAN]
        /\ worldSession' \in [Sockets -> Sessions \union {NoSession}]
    BY <1>2, <1>6
  <2> QED
    BY <1>1, <1>2, <2>1 DEF SessionTypeOK, WorldInv
<1>9. \A u : /\ SocketsOf(u) \subseteq SocketsOf(u)'
             /\ u # s => SocketsOf(u)' = SocketsOf(u)
  BY <1>2 DEF SocketsOf
<1>10. SocketInv'
  <2>1. k \in SocketsOf(SessionOf(k))'
    BY <1>2, <1>4 DEF SocketsOf, SessionOf, k
  <2>2. ASSUME NEW j \in Sockets, j # k, isOpen'[j] \/ net'[j] = "handling", worldSession'[j] # NoSession
        PROVE  j \in SocketsOf(SessionOf(j))'
    <3>1. PICK u : u = SessionOf(j)
      OBVIOUS
    <3>2. j \in SocketsOf(u)
      BY <1>1, <1>7, <2>2, <3>1 DEF SocketInv
    <3>3. j \in SocketsOf(u)'
      BY <1>9, <3>2
    <3> QED
      BY <3>1, <3>3 DEF SessionOf
  <2>3. /\ worldSession'[k] = SessionOf(k) /\ net'[k] = "reading" /\ isOpen'[k]
        /\ \A j \in Sockets : j # k => net'[j] = net[j] /\ isOpen'[j] = isOpen[j]
                                       /\ worldSession'[j] = worldSession[j]
    BY <1>4, <1>7
  <2> QED
    BY <1>1, <2>1, <2>2, <2>3 DEF SocketInv
<1>11. KeyInv'
  <2>1. gaveUp \subseteq Sockets /\ (\A u \in handed : RealmSocket(u) \in Sockets) /\ k \notin gaveUp
    BY <1>1, <1>4, SocketParts DEF SessionTypeOK, TypeOK
  <2>2. KeyOf(k) <= connectKey[SessionOf(k)]
    BY <1>4, <1>6
  <2> QED
    BY <1>1, <1>2, <1>3, <1>7, <2>1, <2>2 DEF KeyInv
<1>12. DeletedInv' /\ PlayerInv'
  BY <1>1, <1>2, <1>3, <1>5 DEF DeletedInv, PlayerInv
<1>13. LinkInv'
  <2>1. ToSet(linkQueue) \subseteq Sockets /\ (linking # NoSocket => linking \in Sockets)
    BY <1>1, SocketParts DEF SessionTypeOK, ToSet
  <2> QED
    BY <1>1, <1>2, <1>3, <1>7, <2>1 DEF LinkInv
<1>14. LoginInv'
  <2>1. \A u \in Sessions : <<u, connectKey[u]>> \in Sockets
    BY <1>1, SocketParts DEF SessionTypeOK
  <2>2. \A u \in Sessions : Awaited(u)' => Awaited(u)
    BY <1>2, <1>7, <2>1 DEF Awaited
  <2>3. ASSUME NEW u \in Sessions, Doomed(u) PROVE Doomed(u)'
    <3>1. PICK j \in SocketsOf(u) : ~isOpen[j]
      BY <2>3 DEF Doomed, HasClosedSocket
    <3>2. u # s
      <4>1. world \in {"packets", "callbacks", "cleanup"} /\ u = current
        BY <2>3 DEF Doomed
      <4>2. u \in handed
        BY <1>1, <4>1, CurrentHere
      <4> QED
        BY <1>1, <1>2, <4>2 DEF KeyInv, k
    <3>3. j \in Sockets /\ SessionOf(j) = u
      BY <1>1, <3>1, HeldSockets
    <3>4. j \in SocketsOf(u)' /\ ~isOpen'[j]
      BY <1>4, <1>7, <1>9, <3>1, <3>2, <3>3
    <3>5. HasClosedSocket(u)'
      BY <3>4 DEF HasClosedSocket
    <3> QED
      BY <1>2, <1>3, <2>3, <3>5 DEF Doomed
  <2> QED
    BY <1>1, <1>2, <1>3, <2>2, <2>3 DEF LoginInv, Pending
<1> QED
  BY <1>1, <1>8, <1>10, <1>11, <1>12, <1>13, <1>14 DEF SessionInv

\* An instance socket finishes the handshake and goes to the world thread.
LEMMA InstanceAckKeeps ==
  ASSUME SessionInv, WorldInv', NEW k \in Sockets, InstanceAck(k) PROVE SessionInv'
<1> USE DEF holdVars, keyVars, playerVars
<1> DEFINE s == SessionOf(k)
<1>1. SessionTypeOK /\ SocketInv /\ KeyInv /\ DeletedInv /\ LinkInv /\ LoginInv /\ PlayerInv /\ WorldInv
  BY DEF SessionInv
<1>2. /\ net[k] = "none" /\ net' = [net EXCEPT ![k] = "reading"]
      /\ KeyOf(k) # 0 /\ KeyOf(k) = connectKey[s] /\ k \notin gaveUp
      /\ isOpen' = [isOpen EXCEPT ![k] = TRUE]
      /\ linkQueue' = Append(linkQueue, k)
      /\ UNCHANGED <<expireTime, worldVars, worldSession, holdVars, keyVars, linking, playerVars>>
  BY <1>1 DEF InstanceAck, Authenticates, SessionInv, WorldInv, SocketInv
<1>3. UNCHANGED <<handed, deleted, world, current, m_sessions, m_playerLoading>>
  BY <1>2, RegistryStays
<1>4. s \in Sessions /\ k = <<s, connectKey[s]>> /\ k \in InstanceSockets
  BY <1>2, SocketParts
<1>5. /\ net \in [Sockets -> {"none", "reading", "handling", "closing", "stopped", "stuck"}]
      /\ isOpen \in [Sockets -> BOOLEAN]
      /\ connectKey \in [Sessions -> 0..MaxKeys] /\ MaxKeys \in Nat
      /\ linkQueue \in Seq(InstanceSockets) /\ IsInjective(linkQueue)
  BY <1>1, SessionAssumption DEF SessionTypeOK, LinkInv
<1> HIDE DEF s
<1>6. /\ \A j \in Sockets : net'[j] = IF j = k THEN "reading" ELSE net[j]
      /\ \A j \in Sockets : isOpen'[j] = IF j = k THEN TRUE ELSE isOpen[j]
  BY <1>2, <1>5
<1>7. /\ linkQueue' \in Seq(InstanceSockets) /\ IsInjective(linkQueue')
      /\ ToSet(linkQueue') = ToSet(linkQueue) \union {k} /\ k \notin ToSet(linkQueue)
  <2>1. k \notin ToSet(linkQueue)
    BY <1>1, <1>2 DEF LinkInv
  <2> QED
    BY <1>2, <1>4, <1>5, <2>1, LinkAppended
<1>8. SessionTypeOK'
  <2>1. /\ net' \in [Sockets -> {"none", "reading", "handling", "closing", "stopped", "stuck"}]
        /\ isOpen' \in [Sockets -> BOOLEAN]
    BY <1>2, <1>5
  <2> QED
    BY <1>1, <1>2, <1>7, <2>1 DEF SessionTypeOK, WorldInv
<1>9. \A u : SocketsOf(u)' = SocketsOf(u)
  BY <1>2 DEF SocketsOf
<1>10. SocketInv'
  BY <1>1, <1>2, <1>6, <1>9 DEF SocketInv
<1>11. KeyInv'
  <2>1. gaveUp \subseteq Sockets /\ (\A u \in handed : RealmSocket(u) \in Sockets)
    BY <1>1, SocketParts DEF SessionTypeOK, TypeOK
  <2>2. KeyOf(k) <= connectKey[SessionOf(k)]
    BY <1>2, <1>4, <1>5 DEF s
  <2> QED
    BY <1>1, <1>2, <1>3, <1>6, <2>1, <2>2 DEF KeyInv
<1>12. DeletedInv' /\ PlayerInv'
  BY <1>1, <1>2, <1>3 DEF DeletedInv, PlayerInv
<1>13. LinkInv'
  <2>1. ToSet(linkQueue) \subseteq Sockets /\ (linking # NoSocket => linking \in Sockets)
    BY <1>1, SocketParts DEF SessionTypeOK, ToSet
  <2>2. linking # NoSocket => linking # k
    BY <1>1, <1>2 DEF LinkInv, SocketInv, Closing
  <2> QED
    BY <1>1, <1>2, <1>3, <1>6, <1>7, <2>1, <2>2 DEF LinkInv
<1>14. LoginInv'
  <2>1. \A u \in Sessions : <<u, connectKey[u]>> \in Sockets
    BY <1>1, SocketParts DEF SessionTypeOK
  <2>2. \A u \in Sessions : Awaited(u)' => Awaited(u)
    BY <1>2, <1>6, <1>7, <2>1 DEF Awaited
  <2>3. ASSUME NEW u \in Sessions, HasClosedSocket(u) PROVE HasClosedSocket(u)'
    <3>1. PICK j \in SocketsOf(u) : ~isOpen[j]
      BY <2>3 DEF HasClosedSocket
    <3>2. j \in Sockets /\ SessionOf(j) = u /\ (KeyOf(j) # 0 => instance[u] = KeyOf(j))
      BY <1>1, <3>1, HeldSockets
    <3>3. j # k \/ u \in deleted \/ instance[u] = 0
      BY <1>1, <1>2, <1>4, <3>2 DEF LoginInv, Awaited, Pending, s
    <3>4. u \in deleted => instance[u] = 0
      BY <1>1 DEF DeletedInv
    <3>5. j # k
      BY <1>2, <3>2, <3>3, <3>4
    <3> QED
      BY <1>6, <1>9, <3>1, <3>2, <3>5 DEF HasClosedSocket
  <2> QED
    BY <1>1, <1>2, <1>3, <2>2, <2>3 DEF LoginInv, Pending, Doomed
<1> QED
  BY <1>1, <1>8, <1>10, <1>11, <1>12, <1>13, <1>14 DEF SessionInv

\* The client reports that the socket of the last key did not connect: the login
\* was pending, and there is no player to be kicked from within a handler.
LEMMA ReportFacts ==
  ASSUME SessionInv, NEW s \in Sessions, FailureReported(s)
  PROVE  /\ connectKey[s] # 0 /\ <<s, connectKey[s]>> \in InstanceSockets
         /\ net[<<s, connectKey[s]>>] = "none" /\ gaveUp' = gaveUp \union {<<s, connectKey[s]>>}
         /\ s \notin deleted => Pending(s)
         /\ s \notin hasPlayer
         /\ SessionOf(linking) = s /\ linking # NoSocket => KeyOf(linking) # connectKey[s]
<1> DEFINE k == <<s, connectKey[s]>>
<1>1. SessionTypeOK /\ SocketInv /\ DeletedInv /\ LinkInv /\ LoginInv
  BY DEF SessionInv
<1>2. connectKey[s] # 0 /\ k \notin gaveUp /\ net[k] = "none" /\ gaveUp' = gaveUp \union {k}
  BY DEF FailureReported, SessionInv
<1>3. k \in Sockets /\ SessionOf(k) = s /\ KeyOf(k) = connectKey[s] /\ k \in InstanceSockets
  <2>1. connectKey[s] \in 0..MaxKeys
    BY <1>1 DEF SessionTypeOK
  <2>2. k \in Sockets /\ SessionOf(k) = s /\ KeyOf(k) = connectKey[s]
    BY <2>1, SocketParts
  <2> QED
    BY <1>2, <2>2, SocketParts
<1>4. s \notin deleted => Pending(s)
  BY <1>1, <1>2 DEF LoginInv, Awaited
<1>5. s \notin hasPlayer
  BY <1>1, <1>4 DEF DeletedInv, Pending
<1>6. ASSUME linking # NoSocket, SessionOf(linking) = s, KeyOf(linking) = connectKey[s] PROVE FALSE
  <2>1. linking \in Sockets
    BY <1>1, <1>6, SocketParts DEF SessionTypeOK
  <2>2. linking = k
    BY <1>6, <2>1, SocketParts
  <2> QED
    BY <1>1, <1>2, <1>3, <1>6, <2>2 DEF LinkInv, SocketInv, Closing
<1> QED
  BY <1>2, <1>3, <1>4, <1>5, <1>6

\* HandleConnectToFailed: nothing, another key, or the login is aborted.
LEMMA ReportKeeps ==
  ASSUME SessionInv, WorldInv', NEW s \in Sessions,
         ConnectToFailedIgnored(s) \/ ConnectToRetried(s) \/ LoginAborted(s) \/ LoginAbortedLate(s)
  PROVE  SessionInv'
<1> USE DEF socketVars, holdVars, linkVars, playerVars
<1> DEFINE k == <<s, connectKey[s]>>
<1>1. SessionTypeOK /\ SocketInv /\ KeyInv /\ DeletedInv /\ LinkInv /\ LoginInv /\ PlayerInv /\ WorldInv
  BY DEF SessionInv
<1>2. FailureReported(s) /\ ~LoginAbortedLate(s)
  BY ReportFacts DEF ConnectToFailedIgnored, ConnectToRetried, LoginAborted, LoginAbortedLate
<1>3. /\ connectKey[s] # 0 /\ k \in InstanceSockets
      /\ net[k] = "none" /\ gaveUp' = gaveUp \union {k}
      /\ s \notin deleted => Pending(s)
      /\ s \notin hasPlayer
      /\ SessionOf(linking) = s /\ linking # NoSocket => KeyOf(linking) # connectKey[s]
  BY <1>2, ReportFacts
<1>4. /\ UNCHANGED <<expireTime, socketVars, holdVars, linkVars, playerVars>>
      /\ UNCHANGED <<handed, deleted, world, current, m_sessions>>
      /\ m_playerLoading' \in {m_playerLoading, m_playerLoading \ {s}}
  BY <1>2 DEF ConnectToFailedIgnored, ConnectToRetried, LoginAborted, LoadingEnds, worldVars, threadVars
<1>5. /\ connectKey \in [Sessions -> 0..MaxKeys] /\ serial \in [Sessions -> 0..Attempts]
      /\ MaxKeys \in Nat /\ Attempts \in Nat
      /\ SessionOf(k) = s /\ KeyOf(k) = connectKey[s]
  BY <1>1, SessionAssumption, SocketParts DEF SessionTypeOK
<1>6. gaveUp \subseteq Sockets /\ gaveUp' \subseteq InstanceSockets /\ ToSet(linkQueue) \subseteq Sockets
  BY <1>1, <1>3, SocketParts DEF SessionTypeOK, ToSet
<1> HIDE DEF k
<1>7. \A u : SocketsOf(u)' = SocketsOf(u) /\ (Doomed(u)' <=> Doomed(u))
  BY <1>4 DEF SocketsOf, Doomed, HasClosedSocket
<1>8. SocketInv' /\ DeletedInv' /\ PlayerInv'
  BY <1>1, <1>4, <1>7 DEF SocketInv, DeletedInv, PlayerInv
<1>9. CASE UNCHANGED <<connectKey, serial>>
  <2>1. SessionTypeOK'
    BY <1>1, <1>4, <1>6, <1>9 DEF SessionTypeOK, WorldInv
  <2>2. KeyInv' /\ LinkInv'
    BY <1>1, <1>3, <1>4, <1>5, <1>9 DEF KeyInv, LinkInv
  <2>3. \A u \in Sessions : Awaited(u)' => Awaited(u) /\ u # s
    BY <1>3, <1>4, <1>9 DEF Awaited, k
  <2>4. \A u \in Sessions : u # s => Pending(u)' = Pending(u)
    BY <1>4 DEF Pending
  <2>5. s \notin deleted => instance[s] = 0 /\ holders[s] = 0
    BY <1>1, <1>3 DEF LoginInv, Pending
  <2>6. LoginInv'
    BY <1>1, <1>4, <1>7, <2>3, <2>4, <2>5 DEF LoginInv
  <2> QED
    BY <1>1, <1>8, <2>1, <2>2, <2>6 DEF SessionInv
<1>10. CASE ConnectToRetried(s)
  <2>1. /\ connectKey' = [connectKey EXCEPT ![s] = connectKey[s] + 1]
        /\ serial' = [serial EXCEPT ![s] = serial[s] + 1]
        /\ serial[s] < Attempts /\ connectKey[s] < MaxKeys
        /\ m_playerLoading' = m_playerLoading
    BY <1>10 DEF ConnectToRetried, worldVars
  <2>2. connectKey[s] + 1 \in 0..MaxKeys /\ serial[s] + 1 \in 0..Attempts
    BY <1>5, <2>1
  <2>3. /\ \A u \in Sessions : connectKey'[u] = IF u = s THEN connectKey[s] + 1 ELSE connectKey[u]
        /\ connectKey' \in [Sessions -> 0..MaxKeys] /\ serial' \in [Sessions -> 0..Attempts]
    BY <1>5, <2>1, <2>2
  <2>4. SessionTypeOK'
    BY <1>1, <1>4, <1>6, <2>3 DEF SessionTypeOK, WorldInv
  <2>5. \A j \in Sockets : KeyOf(j) <= connectKey[SessionOf(j)] => KeyOf(j) <= connectKey'[SessionOf(j)]
    <3> SUFFICES ASSUME NEW j \in Sockets, KeyOf(j) <= connectKey[SessionOf(j)]
                 PROVE  KeyOf(j) <= connectKey'[SessionOf(j)]
      OBVIOUS
    <3>1. SessionOf(j) \in Sessions /\ KeyOf(j) \in Nat /\ connectKey[SessionOf(j)] \in Nat
      BY <1>5, SocketParts
    <3> QED
      BY <2>3, <3>1
  <2>6. KeyInv'
    <3>1. \A j \in gaveUp' : net[j] = "none" /\ KeyOf(j) <= connectKey'[SessionOf(j)] /\ j \in Sockets
      <4>1. KeyOf(k) <= connectKey[SessionOf(k)] /\ k \in Sockets
        BY <1>3, <1>5, SocketParts
      <4> QED
        BY <1>1, <1>3, <1>6, <2>5, <4>1 DEF KeyInv
    <3> QED
      BY <1>1, <1>4, <2>5, <3>1 DEF KeyInv
  <2>7. LinkInv'
    <3>1. ASSUME linking # NoSocket
          PROVE  /\ SessionOf(linking) \in Sessions
                 /\ SessionOf(linking) # s
      BY <1>1, <1>3, <3>1, SocketParts DEF LinkInv, SessionTypeOK
    <3> QED
      BY <1>1, <1>4, <2>3, <3>1 DEF LinkInv
  <2>8. \A u \in Sessions : u # s => (Awaited(u)' => Awaited(u))
    BY <1>3, <1>4, <2>3 DEF Awaited
  <2>9. \A u \in Sessions : Pending(u)' = Pending(u)
    BY <1>4, <2>1 DEF Pending
  <2>10. LoginInv'
    BY <1>1, <1>3, <1>4, <1>7, <2>1, <2>8, <2>9 DEF LoginInv
  <2> QED
    BY <1>1, <1>8, <2>4, <2>6, <2>7, <2>10 DEF SessionInv
<1> QED
  BY <1>2, <1>9, <1>10 DEF ConnectToFailedIgnored, LoginAborted

\* The front of the queue of sockets to link is dropped, or found to be open and
\* expected.
LEMMA LinkTakenKeeps ==
  ASSUME SessionInv, WorldInv', LinkIgnored \/ LinkBegins PROVE SessionInv'
<1> USE DEF socketVars, holdVars, keyVars, playerVars
<1>1. SessionTypeOK /\ SocketInv /\ KeyInv /\ DeletedInv /\ LinkInv /\ LoginInv /\ PlayerInv /\ WorldInv
  BY DEF SessionInv
<1>2. /\ world = "link" /\ linking = NoSocket /\ linkQueue # <<>> /\ linkQueue' = Tail(linkQueue)
      /\ linking' # NoSocket => linking' = Head(linkQueue) /\ isOpen[linking'] /\ Expected(linking')
      /\ UNCHANGED <<expireTime, worldVars, socketVars, holdVars, keyVars, playerVars>>
  BY DEF LinkIgnored, LinkBegins, NextLink
<1>3. UNCHANGED <<handed, deleted, world, current, m_sessions, m_playerLoading>>
  BY <1>2, RegistryStays
<1>4. /\ linkQueue' \in Seq(InstanceSockets) /\ IsInjective(linkQueue')
      /\ Head(linkQueue) \in InstanceSockets /\ Head(linkQueue) \in ToSet(linkQueue)
      /\ ToSet(linkQueue') \subseteq ToSet(linkQueue) /\ Head(linkQueue) \notin ToSet(linkQueue')
  BY <1>1, <1>2, LinkTaken DEF SessionTypeOK, LinkInv
<1>5. linking' = NoSocket \/ linking' = Head(linkQueue)
  BY <1>2
<1>6. SessionTypeOK'
  BY <1>1, <1>2, <1>4, <1>5 DEF SessionTypeOK, WorldInv
<1>7. \A u : SocketsOf(u)' = SocketsOf(u)
  BY <1>2 DEF SocketsOf
<1>8. SocketInv' /\ KeyInv' /\ DeletedInv' /\ PlayerInv'
  BY <1>1, <1>2, <1>3, <1>7 DEF SocketInv, KeyInv, DeletedInv, PlayerInv
<1>9. LinkInv'
  <2>1. PICK k : k = linking'
    OBVIOUS
  <2>2. k # NoSocket => /\ isOpen[k] /\ m_sessions[AccountOf(SessionOf(k))] = SessionOf(k)
                        /\ connectKey[SessionOf(k)] = KeyOf(k)
    BY <1>2, <2>1 DEF Expected
  <2> QED
    BY <1>1, <1>2, <1>3, <1>4, <1>5, <2>1, <2>2 DEF LinkInv
<1>10. LoginInv'
  <2>1. \A u \in Sessions : <<u, connectKey[u]>> \in Sockets /\ <<u, connectKey[u]>> # NoSocket
    BY <1>1, SocketParts, SessionAssumption DEF SessionTypeOK
  <2>2. \A u \in Sessions : Awaited(u)' => Awaited(u)
    BY <1>2, <1>4, <1>5, <2>1 DEF Awaited
  <2>3. \A u \in Sessions : Pending(u)' = Pending(u) /\ ~Doomed(u)
    BY <1>2, <1>3 DEF Pending, Doomed
  <2> QED
    BY <1>1, <1>2, <1>3, <2>2, <2>3 DEF LoginInv
<1> QED
  BY <1>1, <1>6, <1>8, <1>9, <1>10 DEF SessionInv

\* The socket being linked is the one its session's pending login waits for.
LEMMA LinkingFacts ==
  ASSUME SessionInv, linking # NoSocket, NEW s, s = SessionOf(linking)
  PROVE  /\ s \in Sessions \ deleted /\ linking \in InstanceSockets /\ linking = <<s, connectKey[s]>>
         /\ linking \notin gaveUp /\ net[linking] # "none" /\ linking \notin ToSet(linkQueue)
         /\ isOpen[linking] \/ net[linking] \in Closing
         /\ Pending(s) /\ holders[s] = 0 /\ world = "link"
<1>1. SessionTypeOK /\ SocketInv /\ KeyInv /\ LinkInv /\ LoginInv /\ WorldInv
  BY DEF SessionInv
<1>2. linking \in InstanceSockets /\ linking \in Sockets /\ KeyOf(linking) # 0 /\ s \in Sessions
  BY <1>1, SocketParts DEF SessionTypeOK
<1>3. /\ world = "link" /\ linking \notin ToSet(linkQueue) /\ m_sessions[AccountOf(s)] = s
      /\ KeyOf(linking) = connectKey[s]
      /\ isOpen[linking] \/ net[linking] \in Closing
  BY <1>1 DEF LinkInv
<1>4. linking = <<s, connectKey[s]>>
  BY <1>2, <1>3, SocketParts
<1>5. net[linking] # "none"
  BY <1>1, <1>2, <1>3 DEF SocketInv, Closing
<1>6. linking \notin gaveUp
  BY <1>1, <1>5 DEF KeyInv
<1>7. s \notin deleted
  <2>1. AccountOf(s) \in Registered
    <3>1. AccountOf(s) \in Accounts /\ s # NoSession
      BY <1>2, WorldAssumption DEF Sessions, AccountOf
    <3> QED
      BY <1>3, <3>1 DEF Registered
  <2> QED
    BY <1>1, <1>3, <2>1 DEF WorldInv, RegistryInv
<1>8. Awaited(s)
  BY <1>2, <1>3, <1>4, <1>6 DEF Awaited
<1>9. Pending(s) /\ holders[s] = 0
  BY <1>1, <1>2, <1>7, <1>8 DEF LoginInv, Pending
<1> QED
  BY <1>2, <1>3, <1>4, <1>5, <1>6, <1>7, <1>9

\* The socket is linked, and the login queries are sent.
LEMMA LinkLogsInKeeps == ASSUME SessionInv, WorldInv', LinkLogsIn PROVE SessionInv'
<1> USE DEF keyVars
<1>1. SessionTypeOK /\ SocketInv /\ KeyInv /\ DeletedInv /\ LinkInv /\ LoginInv /\ PlayerInv /\ WorldInv
  BY DEF SessionInv
<1>2. PICK k, s : k = linking /\ s = SessionOf(linking)
  OBVIOUS
<1>3. /\ k # NoSocket /\ s \in m_playerLoading /\ s \notin hasPlayer /\ net[k] # "handling"
      /\ worldSession' = [worldSession EXCEPT ![k] = s]
      /\ instance' = [instance EXCEPT ![s] = KeyOf(k)]
      /\ holders' = [holders EXCEPT ![s] = holders[s] + 1]
      /\ linking' = NoSocket
      /\ UNCHANGED <<expireTime, worldVars, net, isOpen, realm, forceExit, keyVars, linkQueue,
                     hasPlayer, online, loggingIn>>
  BY <1>2 DEF LinkLogsIn
<1>4. /\ s \in Sessions /\ s \notin deleted /\ k \in InstanceSockets /\ k = <<s, connectKey[s]>>
      /\ k \notin gaveUp /\ net[k] # "none" /\ k \notin ToSet(linkQueue)
      /\ isOpen[k] \/ net[k] \in Closing
      /\ instance[s] = 0 /\ holders[s] = 0 /\ world = "link"
  BY <1>2, <1>3, LinkingFacts DEF Pending
<1>5. UNCHANGED <<handed, deleted, world, current, m_sessions, m_playerLoading>>
  BY <1>3, RegistryStays
<1>6. k \in Sockets /\ KeyOf(k) \in 1..MaxKeys /\ SessionOf(k) = s /\ MaxKeys \in Nat \ {0}
  <2>1. k \in Sockets /\ KeyOf(k) # 0 /\ KeyOf(k) \in 0..MaxKeys
    BY <1>4, SocketParts
  <2> QED
    BY <1>2, <2>1, SessionAssumption
<1>7. /\ worldSession \in [Sockets -> Sessions \union {NoSession}]
      /\ instance \in [Sessions -> 0..MaxKeys] /\ holders \in [Sessions -> 0..1]
  BY <1>1 DEF SessionTypeOK
<1>8. /\ \A j \in Sockets : worldSession'[j] = IF j = k THEN s ELSE worldSession[j]
      /\ \A u \in Sessions : instance'[u] = IF u = s THEN KeyOf(k) ELSE instance[u]
      /\ \A u \in Sessions : holders'[u] = IF u = s THEN 1 ELSE holders[u]
  <2>1. holders[s] + 1 = 1
    BY <1>4
  <2> QED
    BY <1>3, <1>6, <1>7, <2>1
<1>9. SessionTypeOK'
  <2>1. holders[s] + 1 \in 0..1 /\ KeyOf(k) \in 0..MaxKeys
    BY <1>4, <1>6
  <2>2. /\ worldSession' \in [Sockets -> Sessions \union {NoSession}]
        /\ instance' \in [Sessions -> 0..MaxKeys] /\ holders' \in [Sessions -> 0..1]
    BY <1>3, <1>4, <1>7, <2>1
  <2> QED
    BY <1>1, <1>3, <2>2 DEF SessionTypeOK, WorldInv
<1>10. SocketInv'
  <2>1. k \in SocketsOf(s)'
    BY <1>4, <1>6, <1>7, <1>8 DEF SocketsOf, KeyOf
  <2>2. ASSUME NEW j \in Sockets, j # k, isOpen[j] \/ net[j] = "handling", worldSession[j] # NoSession
        PROVE  j \in SocketsOf(SessionOf(j))'
    <3>1. PICK u : u = SessionOf(j)
      OBVIOUS
    <3>2. j \in SocketsOf(u) /\ u \in Sessions
      BY <1>1, <2>2, <3>1, SocketParts DEF SocketInv
    <3>3. CASE u = s
      <4>1. j = RealmSocket(s) /\ s \in realm
        BY <1>4, <3>2, <3>3 DEF SocketsOf
      <4> QED
        BY <1>3, <3>1, <3>3, <4>1 DEF SocketsOf, SessionOf
    <3>4. CASE u # s
      <4>1. j \in SocketsOf(u)'
        BY <1>3, <1>8, <3>2, <3>4 DEF SocketsOf
      <4> QED
        BY <3>1, <4>1 DEF SessionOf
    <3> QED
      BY <3>3, <3>4
  <2>3. k \in SocketsOf(SessionOf(k))'
    BY <1>6, <2>1 DEF SessionOf
  <2> QED
    BY <1>1, <1>3, <1>4, <1>6, <1>8, <2>2, <2>3 DEF SocketInv
<1>11. KeyInv' /\ LinkInv'
  BY <1>1, <1>3, <1>5 DEF KeyInv, LinkInv
<1>12. DeletedInv' /\ PlayerInv'
  <2>1. deleted \subseteq Sessions
    BY <1>1 DEF SessionTypeOK, TypeOK
  <2> QED
    BY <1>1, <1>3, <1>4, <1>5, <1>8, <2>1 DEF DeletedInv, PlayerInv
<1>13. LoginInv'
  <2>1. \A u \in Sessions : <<u, connectKey[u]>> \in Sockets /\ <<u, connectKey[u]>> # NoSocket
    BY <1>1, SocketParts, SessionAssumption DEF SessionTypeOK
  <2>2. \A u \in Sessions : Awaited(u)' => Awaited(u) /\ u # s
    BY <1>3, <1>4, <2>1 DEF Awaited
  <2>3. \A u \in Sessions : u # s => Pending(u)' = Pending(u)
    BY <1>3, <1>5, <1>8 DEF Pending
  <2>4. \A u \in Sessions : ~Doomed(u)
    BY <1>4 DEF Doomed
  <2> QED
    BY <1>1, <1>3, <1>5, <1>6, <1>8, <2>2, <2>3, <2>4 DEF LoginInv
<1> QED
  BY <1>1, <1>9, <1>10, <1>11, <1>12, <1>13 DEF SessionInv

\* HandlePlayerLoginOpcode gives out a new key, and the login waits for it.
LEMMA PlayerLoginKeeps == ASSUME SessionInv, WorldInv', PlayerLogin PROVE SessionInv'
<1> USE DEF socketVars, holdVars, linkVars, playerVars
<1>1. SessionTypeOK /\ SocketInv /\ KeyInv /\ DeletedInv /\ LinkInv /\ LoginInv /\ PlayerInv /\ WorldInv
  BY DEF SessionInv
<1>2. PICK s : s = current
  OBVIOUS
<1>3. /\ world = "packets" /\ s \notin m_playerLoading /\ s \notin hasPlayer
      /\ m_playerLoading' = m_playerLoading \union {s}
      /\ connectKey[s] < MaxKeys
      /\ connectKey' = [connectKey EXCEPT ![s] = connectKey[s] + 1]
      /\ serial' = [serial EXCEPT ![s] = 1]
      /\ UNCHANGED <<expireTime, socketVars, holdVars, gaveUp, linkVars, playerVars>>
      /\ UNCHANGED <<handed, deleted, world, current, m_sessions>>
  BY <1>2 DEF PlayerLogin, LoadingBegins, threadVars
<1>4. s \in Sessions /\ s \notin deleted
  BY <1>1, <1>2, <1>3, CurrentHere
<1>5. linking = NoSocket /\ \A u \in Sessions : ~Doomed(u)
  BY <1>1, <1>3 DEF LinkInv, Doomed
<1>6. instance[s] = 0 /\ holders[s] = 0
  BY <1>1, <1>3, <1>4, <1>5 DEF LoginInv
<1>7. /\ connectKey \in [Sessions -> 0..MaxKeys] /\ serial \in [Sessions -> 0..Attempts]
      /\ MaxKeys \in Nat /\ connectKey[s] + 1 \in 0..MaxKeys /\ 1 \in 0..Attempts
  BY <1>1, <1>3, <1>4, SessionAssumption DEF SessionTypeOK
<1>8. /\ \A u \in Sessions : connectKey'[u] = IF u = s THEN connectKey[s] + 1 ELSE connectKey[u]
      /\ connectKey' \in [Sessions -> 0..MaxKeys] /\ serial' \in [Sessions -> 0..Attempts]
  BY <1>3, <1>4, <1>7
<1>9. SessionTypeOK'
  BY <1>1, <1>3, <1>8 DEF SessionTypeOK, WorldInv
<1>10. \A u : SocketsOf(u)' = SocketsOf(u)
  BY <1>3 DEF SocketsOf
<1>11. SocketInv' /\ DeletedInv' /\ LinkInv' /\ PlayerInv'
  BY <1>1, <1>3, <1>5, <1>10 DEF SocketInv, DeletedInv, LinkInv, PlayerInv
<1>12. KeyInv'
  <2>1. ASSUME NEW j \in Sockets, KeyOf(j) <= connectKey[SessionOf(j)]
        PROVE  KeyOf(j) <= connectKey'[SessionOf(j)]
    <3>1. SessionOf(j) \in Sessions /\ KeyOf(j) \in Nat /\ connectKey[SessionOf(j)] \in Nat
      BY <1>7, SocketParts
    <3> QED
      BY <1>8, <2>1, <3>1
  <2>2. gaveUp \subseteq Sockets
    BY <1>1, SocketParts DEF SessionTypeOK
  <2> QED
    BY <1>1, <1>3, <2>1, <2>2 DEF KeyInv
<1>13. LoginInv'
  <2>1. \A u \in Sessions : u # s => (Awaited(u)' => Awaited(u)) /\ Pending(u)' = Pending(u)
    BY <1>3, <1>8 DEF Awaited, Pending
  <2>2. Pending(s)'
    BY <1>3, <1>6 DEF Pending
  <2> QED
    BY <1>1, <1>3, <1>4, <1>5, <1>6, <2>1, <2>2 DEF LoginInv
<1> QED
  BY <1>1, <1>9, <1>11, <1>12, <1>13 DEF SessionInv

\* The character is loaded: the session has its player.
LEMMA LoginSetsPlayerKeeps == ASSUME SessionInv, WorldInv', LoginSetsPlayer PROVE SessionInv'
<1> USE DEF socketVars, holdVars, keyVars, linkVars
<1>1. SessionTypeOK /\ SocketInv /\ KeyInv /\ DeletedInv /\ LinkInv /\ LoginInv /\ PlayerInv /\ WorldInv
  BY DEF SessionInv
<1>2. PICK s : s = current
  OBVIOUS
<1>3. /\ world = "callbacks" /\ holders[s] > 0
      /\ holders' = [holders EXCEPT ![s] = holders[s] - 1]
      /\ hasPlayer' = hasPlayer \union {s}
      /\ online' = [online EXCEPT ![s] = online[s] + 1]
      /\ loggingIn' = TRUE
      /\ UNCHANGED <<expireTime, worldVars, socketVars, holdVars, keyVars, linkVars>>
  BY <1>2 DEF LoginSetsPlayer, LoginAnswered
<1>4. UNCHANGED <<handed, deleted, world, current, m_sessions, m_playerLoading>>
  BY <1>3, RegistryStays
<1>5. s \in Sessions /\ s \notin deleted /\ m_sessions[AccountOf(s)] = s
  BY <1>1, <1>2, <1>3, CurrentHere
<1>6. /\ holders \in [Sessions -> 0..1] /\ online \in [Sessions -> Nat] /\ MaxKeys \in Nat
      /\ holders[s] = 1 /\ s \in m_playerLoading /\ s \notin hasPlayer /\ instance[s] # 0 /\ online[s] = 0
      /\ linking = NoSocket
  BY <1>1, <1>3, <1>5, SessionAssumption DEF LoginInv, PlayerInv, LinkInv, SessionTypeOK
<1>7. /\ \A u \in Sessions : holders'[u] = IF u = s THEN 0 ELSE holders[u]
      /\ \A u \in Sessions : online'[u] = IF u = s THEN 1 ELSE online[u]
  BY <1>3, <1>5, <1>6
<1>8. SessionTypeOK'
  <2>1. holders[s] - 1 \in 0..1 /\ online[s] + 1 \in Nat
    BY <1>6
  <2>2. holders' \in [Sessions -> 0..1] /\ online' \in [Sessions -> Nat]
    BY <1>3, <1>5, <1>6, <2>1
  <2> QED
    BY <1>1, <1>3, <1>5, <2>2 DEF SessionTypeOK, WorldInv
<1>9. \A u : SocketsOf(u)' = SocketsOf(u)
  BY <1>3 DEF SocketsOf
<1>10. SocketInv' /\ KeyInv' /\ LinkInv'
  BY <1>1, <1>3, <1>4, <1>9 DEF SocketInv, KeyInv, LinkInv
<1>11. DeletedInv' /\ PlayerInv'
  <2>1. deleted \subseteq Sessions
    BY <1>1 DEF SessionTypeOK, TypeOK
  <2> QED
    BY <1>1, <1>2, <1>3, <1>4, <1>5, <1>6, <1>7, <2>1 DEF DeletedInv, PlayerInv
<1>12. LoginInv'
  <2>1. ~Awaited(s)
    BY <1>1, <1>5, <1>6 DEF LoginInv, Pending
  <2>2. \A u \in Sessions : Awaited(u)' = Awaited(u) /\ (u # s => Pending(u)' = Pending(u) /\ ~Doomed(u))
    BY <1>2, <1>3, <1>4 DEF Awaited, Pending, Doomed
  <2> QED
    BY <1>1, <1>3, <1>4, <1>6, <1>7, <2>1, <2>2 DEF LoginInv
<1> QED
  BY <1>1, <1>8, <1>10, <1>11, <1>12 DEF SessionInv

\* The login ends, with the player in the world.
LEMMA LoginDoneKeeps == ASSUME SessionInv, WorldInv', LoginDone PROVE SessionInv'
<1> USE DEF socketVars, holdVars, keyVars, linkVars
<1>1. SessionTypeOK /\ SocketInv /\ KeyInv /\ DeletedInv /\ LinkInv /\ LoginInv /\ PlayerInv /\ WorldInv
  BY DEF SessionInv
<1>2. PICK s : s = current
  OBVIOUS
<1>3. /\ world = "callbacks" /\ s \in hasPlayer /\ loggingIn' = FALSE
      /\ UNCHANGED <<expireTime, socketVars, holdVars, keyVars, linkVars, holders, hasPlayer, online>>
      /\ ClearLoading(s)
  BY <1>1, <1>2 DEF LoginDone, PlayerInv
<1>4. /\ UNCHANGED <<handed, deleted, world, current, m_sessions>>
      /\ \A u \in Sessions : u # s => (u \in m_playerLoading' <=> u \in m_playerLoading)
  <2>1. CASE UNCHANGED worldVars
    BY <2>1, RegistryStays
  <2>2. CASE LoadingEnds(s)
    BY <2>2 DEF LoadingEnds, threadVars
  <2> QED
    BY <1>3, <2>1, <2>2 DEF ClearLoading
<1>5. s \in Sessions /\ s \notin deleted
  BY <1>1, <1>2, <1>3, CurrentHere
<1>6. SessionTypeOK'
  BY <1>1, <1>3 DEF SessionTypeOK, WorldInv
<1>7. \A u : SocketsOf(u)' = SocketsOf(u)
  BY <1>3 DEF SocketsOf
<1>8. SocketInv' /\ KeyInv' /\ DeletedInv' /\ LinkInv' /\ PlayerInv'
  BY <1>1, <1>3, <1>4, <1>7 DEF SocketInv, KeyInv, DeletedInv, LinkInv, PlayerInv
<1>9. LoginInv'
  <2>1. ~Awaited(s) /\ holders[s] = 0
    BY <1>1, <1>3, <1>5 DEF LoginInv, Pending
  <2>2. \A u \in Sessions : Awaited(u)' = Awaited(u) /\ (u # s => Pending(u)' = Pending(u) /\ ~Doomed(u))
    BY <1>2, <1>3, <1>4 DEF Awaited, Pending, Doomed
  <2> QED
    BY <1>1, <1>3, <1>4, <2>1, <2>2 DEF LoginInv
<1> QED
  BY <1>1, <1>6, <1>8, <1>9 DEF SessionInv

\* Nothing happens.
LEMMA StutterKeeps == ASSUME SessionInv, WorldInv', UNCHANGED vars PROVE SessionInv'
<1>1. UNCHANGED <<socketVars, holdVars, keyVars, linkVars, playerVars, expireTime, worldVars>>
  BY DEF vars
<1>2. UNCHANGED <<handed, deleted, world, current, m_sessions, m_playerLoading>>
  BY <1>1, RegistryStays
<1>3. SessionTypeOK /\ KeyInv /\ PlayerInv
  BY DEF SessionInv
<1>4. /\ expireTime' \in [Sessions -> 0..ExpirePasses]
      /\ \A u \in handed' : net[RealmSocket(u)] # "none"
      /\ loggingIn => world' = "callbacks" /\ current' = current
      /\ \A u \in hasPlayer : m_sessions'[AccountOf(u)] = u
      /\ \A u \in Sessions : Doomed(u) => world' \in {"callbacks", "cleanup"} /\ current' = u
  BY <1>1, <1>2, <1>3 DEF SessionTypeOK, KeyInv, PlayerInv, Doomed
<1> QED
  BY <1>1, <1>2, <1>4, WorldMoves

\* Before the first client authenticates.
LEMMA SessionInitInv == Init /\ LateFailure = FALSE /\ RepeatedAck = FALSE => SessionInv
<1> SUFFICES ASSUME Init, LateFailure = FALSE, RepeatedAck = FALSE PROVE SessionInv
  OBVIOUS
<1>1. WorldInv
  BY WorldInitInv DEF Init
<1>2. /\ linkQueue \in Seq(InstanceSockets) /\ DOMAIN linkQueue = {} /\ linkQueue = <<>>
      /\ 0 \in 0..MaxKeys /\ 0 \in 0..1 /\ 0 \in 0..Attempts /\ ExpirePasses \in 0..ExpirePasses
  BY SessionAssumption DEF Init
<1>3. SessionTypeOK
  BY <1>1, <1>2 DEF Init, SessionTypeOK, WorldInv
<1>4. handed = {} /\ deleted = {}
  BY DEF Init, WorldInit
<1>5. SocketInv
  BY DEF Init, SocketInv
<1>6. KeyInv /\ DeletedInv /\ PlayerInv
  BY <1>4 DEF Init, KeyInv, DeletedInv, PlayerInv
<1>7. LinkInv
  BY <1>2 DEF Init, LinkInv, IsInjective, ToSet
<1>8. LoginInv
  BY DEF Init, LoginInv, Awaited
<1> QED
  BY <1>1, <1>3, <1>5, <1>6, <1>7, <1>8 DEF SessionInv

\* Every step keeps the invariant.
LEMMA SessionStepKeeps == SessionInv /\ [Next]_vars => SessionInv'
<1> SUFFICES ASSUME SessionInv, [Next]_vars PROVE SessionInv'
  OBVIOUS
<1>1. WorldInv'
  BY StepIsWorldStep, WorldStepKeeps DEF SessionInv
<1>2. ASSUME NEW k \in Sockets, NetStep(k) PROVE SessionInv'
  BY <1>1, <1>2, InstanceAckKeeps, NetStepKeeps DEF NetStep
<1>3. ASSUME NEW s \in Sessions, RealmStep(s) PROVE SessionInv'
  BY <1>1, <1>3, AuthKeeps, RealmAckKeeps, ReportKeeps DEF RealmStep
<1>4. CASE WorldStep
  <2>1. ~LinkKicks
    <3>1. ASSUME LinkKicks PROVE FALSE
      <4>1. PICK s : s = SessionOf(linking)
        OBVIOUS
      <4> QED
        BY <3>1, <4>1, LinkingFacts DEF LinkKicks, Pending
    <3> QED
      BY <3>1
  <2> QED
    BY <1>1, <1>4, <2>1, RemovalKeeps, WorldMovesKeeps, LinkTakenKeeps, KickKeeps, LinkLogsInKeeps,
       LoginDoneKeeps DEF WorldStep
<1>5. CASE WorldInput
  BY <1>1, <1>5, KickKeeps, PlayerLoginKeeps, WorldMovesKeeps, FailedLoginKeeps, LoginSetsPlayerKeeps,
     LogoutKeeps DEF WorldInput
<1>6. CASE UNCHANGED vars
  BY <1>1, <1>6, StutterKeeps
<1> QED
  BY <1>2, <1>3, <1>4, <1>5, <1>6 DEF Next

-----------------------------------------------------------------------------
(* The theorems. *)

\* The sockets, keys, logins and players of the sessions agree, whatever the
\* clients do, as long as each acknowledges once on a socket and none reports
\* a socket as failed that connected.
THEOREM SessionInvariant == Spec /\ LateFailure = FALSE /\ RepeatedAck = FALSE => []SessionInv
  BY SessionInitInv, SessionStepKeeps, PTL DEF Spec

\* Every variable of WorldSession has its type: two login queries of a session
\* in flight or a serial past the last attempt are type errors.
THEOREM SessionTypes == Spec /\ LateFailure = FALSE /\ RepeatedAck = FALSE => []SessionTypeOK
<1>1. SessionInv => SessionTypeOK
  BY DEF SessionInv
<1> QED
  BY <1>1, SessionInvariant, PTL

\* The destructor of a session closes every socket that points to it first:
\* no open socket, and no handler under _worldSessionLock, sees freed memory.
THEOREM SocketsCloseFirst == Spec /\ LateFailure = FALSE /\ RepeatedAck = FALSE => []ClosedBeforeFreed
<1>1. SessionInv => ClosedBeforeFreed
  <2> SUFFICES ASSUME SessionInv, NEW k \in Sockets, isOpen[k] \/ net[k] = "handling",
                      worldSession[k] \in deleted
               PROVE  FALSE
    BY DEF ClosedBeforeFreed
  <2>1. SessionTypeOK /\ SocketInv /\ DeletedInv /\ deleted \subseteq Sessions
    BY DEF SessionInv, SessionTypeOK, TypeOK
  <2>2. worldSession[k] # NoSession
    BY <2>1, WorldAssumption
  <2>3. worldSession[k] = SessionOf(k) /\ k \in SocketsOf(SessionOf(k))
    BY <2>1, <2>2 DEF SocketInv
  <2> QED
    BY <2>1, <2>3 DEF SocketsOf, DeletedInv
<1> QED
  BY <1>1, SessionInvariant, PTL

\* A deleted session has no player left in the world, whichever way it went.
THEOREM NoPlayerLeftBehind == Spec /\ LateFailure = FALSE /\ RepeatedAck = FALSE => []NoGhostPlayer
<1>1. SessionInv => NoGhostPlayer
  BY DEF SessionInv, SessionTypeOK, TypeOK, DeletedInv, PlayerInv, NoGhostPlayer
<1> QED
  BY <1>1, SessionInvariant, PTL

\* An account has one character in the world at most, across all the sessions
\* that follow one another, because only its registered session has a player.
THEOREM OneCharacterEach == Spec /\ LateFailure = FALSE /\ RepeatedAck = FALSE => []OneCharacterOnline
<1>1. SessionInv => OneCharacterOnline
  <2> SUFFICES ASSUME SessionInv, NEW s \in Sessions, NEW t \in Sessions, AccountOf(s) = AccountOf(t)
               PROVE  IF s = t THEN online[s] <= 1 ELSE online[s] + online[t] <= 1
    BY DEF OneCharacterOnline
  <2>1. /\ online[s] = IF s \in hasPlayer THEN 1 ELSE 0
        /\ online[t] = IF t \in hasPlayer THEN 1 ELSE 0
        /\ s \in hasPlayer /\ t \in hasPlayer => s = t
    BY DEF SessionInv, PlayerInv
  <2> QED
    BY <2>1
<1> QED
  BY <1>1, SessionInvariant, PTL
=============================================================================
