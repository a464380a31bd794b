---------------------- MODULE DatabaseWorkerPoolProofs ----------------------
(***************************************************************************)
(* Theorems about DatabaseWorkerPool for every number of tasks, statements *)
(* and connections, and every bound on retries and faults; and, with the   *)
(* registry, the trades and the battlegrounds, about the composition of    *)
(* MCServices.                                                             *)
(***************************************************************************)
EXTENDS MCServices, WorldSessionProofs, TradeAndLootProofs, BattlegroundQueueProofs,
        FiniteSetTheorems, SequenceTheorems, TLAPS

-----------------------------------------------------------------------------
(* The inductive invariant. *)

Commands == {"none", "begin", "query", "rollback", "commit", "lock"}

ConnStates ==
  [task : Tasks \union {None}, command : Commands, next : 1 .. Length + 1,
   attempt : Nat, error : {"none", "deadlock", "error"}]

SessionStates == [open : BOOLEAN, executed : SUBSET (Tasks \X (1 .. Length))]

PoolTypes ==
  /\ _connections \in SUBSET Workers
  /\ pool \in {"open", "closing", "closed", "aborted"}
  /\ queue \in Seq(Tasks) /\ unsettled \in Seq(Tasks)
  /\ conn \in [Conns -> ConnStates]
  /\ \A c \in Conns : conn[c].attempt <= Limit(c)
  /\ session \in [Conns -> SessionStates]
  /\ _deadlockLock \in Workers \union {None}
  /\ outcome \in [Tasks -> {"new", "pending", "done", "failed"}]
  /\ DOMAIN applied = Tasks /\ \A t \in Tasks : applied[t] \in [Statements(t) -> Nat]
  /\ interrupted \subseteq Tasks /\ refused \subseteq Tasks /\ faults \in 0 .. MaxFaults

\* What a connection does fits the task it has: k is conn[c].
Fits(k) ==
  /\ k.task = None <=> k = Idle
  /\ k.task # None => k.command # "none"
  /\ k.task \in Single => k.command = "query" /\ k.next = 1
  /\ k.task \in Empty => k.command = "begin"
  /\ k.command = "query" => k.next \in Statements(k.task)
  /\ k.command = "begin" => k.next = 1
  /\ k.command = "commit" => k.next = Length + 1
  /\ k.command = "rollback" => k.error \in {"deadlock", "error"}

\* How far the server is with it: s is session[c].  A lost connection has lost
\* its transaction, and what follows is executed outside of any.
Follows(k, s, lost) ==
  /\ ~s.open => s.executed = {}
  /\ \A e \in s.executed : e[1] = k.task
  /\ k.command \in {"none", "begin", "lock"} \/ k.task \in Single => ~s.open
  /\ k.command \in {"query", "commit"} /\ k.task \notin Single \union lost
       => s.open /\ s.executed = {k.task} \X (1 .. k.next - 1)

\* A task is executed by one connection, of its kind, and not settled meanwhile.
HasTask(c, k, results) ==
  k.task # None => results[k.task] = "pending" /\ (k.task \in Direct <=> c \in Synch)

ConnsOK ==
  /\ \A c \in Conns : Fits(conn[c]) /\ Follows(conn[c], session[c], interrupted)
                      /\ HasTask(c, conn[c], outcome)
  /\ \A c \in Workers \ _connections : conn[c] = Idle
  /\ \A c \in Synch : conn[c].command # "lock"
  /\ \A c, d \in Conns : conn[c].task = conn[d].task /\ conn[c].task # None => c = d
  /\ _deadlockLock # None => conn[_deadlockLock] # Idle

\* What is queued has not been begun and is not queued twice.
QueueOK ==
  /\ \A i \in 1 .. Len(queue) :
       /\ outcome[queue[i]] = "pending" /\ queue[i] \notin Direct
       /\ \A c \in Conns : conn[c].task # queue[i]
  /\ \A i, j \in 1 .. Len(queue) : queue[i] = queue[j] => i = j

\* What is reported of a task, and what there is of it.
TellsTruth(t) ==
  /\ t \in refused => outcome[t] = "done"
  /\ IF outcome[t] = "done" /\ t \notin refused THEN Whole(t) ELSE Untouched(t)

\* What the outcomes say, also of those whose connection was lost.
OutcomesOK ==
  \A t \in Tasks :
    /\ t \notin interrupted => TellsTruth(t)
    /\ t \in interrupted =>
         \/ outcome[t] \in {"done", "failed"} \/ pool = "aborted"
         \/ \E c \in Conns : conn[c].task = t

PoolOK ==
  /\ pool \in {"closing", "closed"} => \A c \in Synch : conn[c] = Idle
  /\ pool \in {"closed", "aborted"} => queue = <<>> /\ \A c \in Conns : conn[c] = Idle

\* With one worker, what is not settled is what it executes and then the queue.
OrderOK ==
  \A w \in Workers :
    _connections = {w} /\ pool \in {"open", "closing"} =>
      unsettled = (IF conn[w].task = None THEN <<>> ELSE <<conn[w].task>>) \o queue

PoolInv == PoolTypes /\ ConnsOK /\ QueueOK /\ OutcomesOK /\ PoolOK /\ OrderOK

-----------------------------------------------------------------------------
(* What happens to the database, and to one connection. *)

\* Only t's statements may have changed.
OnlyOf(t) ==
  /\ DOMAIN applied' = Tasks /\ \A u \in Tasks : applied'[u] \in [Statements(u) -> Nat]
  /\ \A u \in Tasks \ {t} : applied'[u] = applied[u]

\* What the assumption says of tasks, workers and statements.
LEMMA Constants ==
  /\ None \notin Tasks /\ None \notin Workers /\ Workers \intersect Synch = {}
  /\ Length \in Nat \ {0} /\ MaxAttempts \in Nat \ {0} /\ LoopBreaker \in Nat \ {0}
  /\ Single \subseteq Tasks /\ Direct \subseteq Tasks /\ Empty \subseteq Tasks \ Single
  /\ \A t \in Tasks : /\ t \in Single => Statements(t) = 1 .. 1
                      /\ t \in Empty => Statements(t) = 1 .. 0
                      /\ t \notin Single \union Empty => Statements(t) = 1 .. Length
                      /\ Statements(t) \subseteq 1 .. Length
BY PoolAssumption DEF Statements, Transactions

\* A commit of one task applies to that task only.
LEMMA CommittedOnly ==
  ASSUME PoolTypes, NEW t, NEW E, \A e \in E : e[1] = t, applied' = Committed(E)
  PROVE  OnlyOf(t)
<1>1. DOMAIN applied' = Tasks
  BY DEF Committed
<1>2. ASSUME NEW u \in Tasks
      PROVE  applied'[u] \in [Statements(u) -> Nat] /\ (u # t => applied'[u] = applied[u])
  <2>1. applied[u] \in [Statements(u) -> Nat]
    BY DEF PoolTypes
  <2>2. applied'[u] = [i \in Statements(u) |-> applied[u][i] + IF <<u, i>> \in E THEN 1 ELSE 0]
    BY DEF Committed
  <2>3. \A i \in Statements(u) : applied[u][i] + (IF <<u, i>> \in E THEN 1 ELSE 0) \in Nat
    BY <2>1
  <2>4. applied'[u] \in [Statements(u) -> Nat]
    BY <2>2, <2>3
  <2>5. ASSUME u # t PROVE applied'[u] = applied[u]
    <3>1. \A i \in Statements(u) : <<u, i>> \notin E
      BY <2>5
    <3>2. \A i \in Statements(u) : applied'[u][i] = applied[u][i]
      BY <2>1, <2>2, <3>1
    <3> QED
      BY <2>1, <2>4, <3>2
  <2> QED
    BY <2>4, <2>5
<1> QED
  BY <1>1, <1>2 DEF OnlyOf

\* A commit of nothing, and of everything a task has.
LEMMA CommittedNothing ==
  ASSUME PoolTypes, applied' = Committed({})
  PROVE  \A u \in Tasks : applied'[u] = applied[u]
<1> TAKE u \in Tasks
<1>1. applied[u] \in [Statements(u) -> Nat]
  BY DEF PoolTypes
<1>2. applied'[u] = [i \in Statements(u) |-> applied[u][i] + 0]
  BY DEF Committed
<1> QED
  BY <1>1, <1>2

\* A commit of every statement of a task applies each of them once.
LEMMA CommittedWhole ==
  ASSUME PoolTypes, NEW t \in Tasks, NEW E, applied' = Committed(E),
         \A i \in Statements(t) : <<t, i>> \in E, Untouched(t)
  PROVE  Whole(t)'
<1>1. \A i \in Statements(t) : applied'[t][i] = 1
  BY DEF Committed, Untouched
<1> QED
  BY <1>1 DEF Whole

\* What can be said of a connection that has a task.
LEMMA Connection ==
  ASSUME PoolInv, NEW c \in Conns, conn[c].task # None
  PROVE  /\ conn[c] \in ConnStates /\ session[c] \in SessionStates
         /\ Fits(conn[c]) /\ Follows(conn[c], session[c], interrupted)
         /\ conn[c].task \in Tasks /\ outcome[conn[c].task] = "pending"
         /\ conn[c].task \in Direct <=> c \in Synch
         /\ conn[c].attempt <= Limit(c) /\ pool \in {"open", "closing"}
         /\ c \in Workers => c \in _connections
         /\ \A d \in Conns \ {c} : conn[d].task # conn[c].task
         /\ \A i \in 1 .. Len(queue) : queue[i] # conn[c].task
         /\ conn[c].task \notin interrupted => Untouched(conn[c].task)
<1>1. conn[c] \in ConnStates /\ session[c] \in SessionStates /\ conn[c].attempt <= Limit(c)
  BY DEF PoolInv, PoolTypes
<1>2. conn[c].task \in Tasks
  BY <1>1 DEF ConnStates
<1>3. /\ Fits(conn[c]) /\ Follows(conn[c], session[c], interrupted)
      /\ outcome[conn[c].task] = "pending" /\ (conn[c].task \in Direct <=> c \in Synch)
      /\ conn[c] # Idle
      /\ \A d \in Conns \ {c} : conn[d].task # conn[c].task
  BY DEF PoolInv, ConnsOK, HasTask, Fits
<1>4. pool \in {"open", "closing"} /\ (c \in Workers => c \in _connections)
  BY <1>3 DEF PoolInv, PoolTypes, PoolOK, ConnsOK
<1>5. \A i \in 1 .. Len(queue) : queue[i] # conn[c].task
  BY DEF PoolInv, QueueOK
<1>6. conn[c].task \notin interrupted => Untouched(conn[c].task)
  BY <1>2, <1>3 DEF PoolInv, OutcomesOK, TellsTruth
<1> QED
  BY <1>1, <1>2, <1>3, <1>4, <1>5, <1>6

\* The connection goes on with its task, which may have been interrupted.
LEMMA GoesOnInterrupted ==
  ASSUME PoolInv, NEW c \in Conns, NEW k \in ConnStates, NEW s \in SessionStates,
         conn' = [conn EXCEPT ![c] = k], session' = [session EXCEPT ![c] = s],
         k.task = conn[c].task, conn[c].task # None,
         Fits(k), Follows(k, s, interrupted'), k.attempt <= Limit(c),
         c \in Synch => k.command # "lock",
         _deadlockLock' = _deadlockLock \/ (c \in Workers /\ _deadlockLock' = c),
         OnlyOf(conn[c].task),
         conn[c].task \in interrupted' \/ applied'[conn[c].task] = applied[conn[c].task],
         interrupted' \in {interrupted, interrupted \union {conn[c].task}},
         faults' \in 0 .. MaxFaults,
         UNCHANGED <<_connections, pool, queue, unsettled, outcome, refused>>
  PROVE  PoolInv'
<1>1. /\ conn[c].task \in Tasks /\ outcome[conn[c].task] = "pending" /\ k # Idle
      /\ conn[c].task \in Direct <=> c \in Synch
      /\ pool \in {"open", "closing"}
      /\ c \in Workers => c \in _connections
  BY Connection DEF Fits
<1>2. /\ conn'[c] = k /\ session'[c] = s
      /\ \A d \in Conns \ {c} : conn'[d] = conn[d] /\ session'[d] = session[d]
      /\ \A d \in Conns : conn'[d].task = conn[d].task
  BY DEF PoolInv, PoolTypes
<1>3. PoolTypes'
  <2>1. conn' \in [Conns -> ConnStates] /\ session' \in [Conns -> SessionStates]
    BY DEF PoolInv, PoolTypes
  <2>2. \A d \in Conns : conn'[d].attempt <= Limit(d)
    BY <1>2 DEF PoolInv, PoolTypes
  <2>3. \A d \in Conns : Limit(d)' = Limit(d)
    BY DEF Limit
  <2> QED
    <3>1. interrupted' \subseteq Tasks /\ _deadlockLock' \in Workers \union {None}
      BY <1>1 DEF PoolInv, PoolTypes
    <3> QED
      BY <2>1, <2>2, <2>3, <3>1 DEF PoolInv, PoolTypes, OnlyOf
<1>4. ConnsOK'
  <2>1. ASSUME NEW d \in Conns
        PROVE  /\ Fits(conn'[d]) /\ Follows(conn'[d], session'[d], interrupted')
               /\ HasTask(d, conn'[d], outcome')
    <3>1. CASE d = c
      BY <3>1, <1>1, <1>2 DEF HasTask
    <3>2. CASE d # c
      <4>1. Fits(conn[d]) /\ Follows(conn[d], session[d], interrupted) /\ HasTask(d, conn[d], outcome)
        BY DEF PoolInv, ConnsOK
      <4>2. Follows(conn[d], session[d], interrupted')
        BY <4>1 DEF Follows
      <4> QED
        BY <3>2, <4>1, <4>2, <1>2
    <3> QED
      BY <3>1, <3>2
  <2>2. \A d \in Workers \ _connections' : conn'[d] = Idle
    BY <1>1, <1>2 DEF PoolInv, ConnsOK, Conns
  <2>3. \A d \in Synch : conn'[d].command # "lock"
    BY <1>2 DEF PoolInv, ConnsOK, Conns
  <2>4. \A d, e \in Conns : conn'[d].task = conn'[e].task /\ conn'[d].task # None => d = e
    BY <1>2 DEF PoolInv, ConnsOK
  <2>5. _deadlockLock' # None => conn'[_deadlockLock'] # Idle
    BY <1>1, <1>2 DEF PoolInv, ConnsOK, PoolTypes, Conns
  <2> QED
    BY <2>1, <2>2, <2>3, <2>4, <2>5 DEF ConnsOK
<1>5. QueueOK'
  BY <1>2 DEF PoolInv, QueueOK
<1>6. OutcomesOK'
  <2> SUFFICES ASSUME NEW t \in Tasks
               PROVE  /\ t \notin interrupted' => TellsTruth(t)'
                      /\ t \in interrupted' =>
                           \/ outcome[t] \in {"done", "failed"} \/ pool = "aborted"
                           \/ \E d \in Conns : conn'[d].task = t
    BY DEF OutcomesOK
  <2>1. t \notin interrupted' => applied'[t] = applied[t]
    BY DEF OnlyOf
  <2>2. t \notin interrupted' => TellsTruth(t)'
    BY <2>1 DEF PoolInv, OutcomesOK, TellsTruth, Whole, Untouched
  <2>3. t \in interrupted' => \/ outcome[t] \in {"done", "failed"} \/ pool = "aborted"
                              \/ \E d \in Conns : conn'[d].task = t
    BY <1>2 DEF PoolInv, OutcomesOK
  <2> QED
    BY <2>2, <2>3
<1>7. PoolOK'
  <2>1. pool = "closing" => c \notin Synch
    BY DEF PoolInv, PoolOK, Idle
  <2>2. pool \in {"closing", "closed"} => \A d \in Synch : conn'[d] = Idle
    BY <2>1, <1>1, <1>2 DEF PoolInv, PoolOK, Conns
  <2> QED
    BY <2>2, <1>1 DEF PoolOK
<1>8. OrderOK'
  BY <1>2 DEF PoolInv, OrderOK, Conns
<1> QED
  BY <1>3, <1>4, <1>5, <1>6, <1>7, <1>8 DEF PoolInv

\* It was not interrupted.
LEMMA GoesOn ==
  ASSUME PoolInv, NEW c \in Conns, NEW k \in ConnStates, NEW s \in SessionStates,
         conn' = [conn EXCEPT ![c] = k], session' = [session EXCEPT ![c] = s],
         k.task = conn[c].task, conn[c].task # None,
         Fits(k), Follows(k, s, interrupted), k.attempt <= Limit(c),
         c \in Synch => k.command # "lock",
         _deadlockLock' = _deadlockLock \/ (c \in Workers /\ _deadlockLock' = c),
         OnlyOf(conn[c].task),
         conn[c].task \in interrupted \/ applied'[conn[c].task] = applied[conn[c].task],
         UNCHANGED <<_connections, pool, queue, unsettled, outcome, interrupted, refused, faults>>
  PROVE  PoolInv'
<1>1. faults' \in 0 .. MaxFaults
  BY DEF PoolInv, PoolTypes
<1>2. /\ Follows(k, s, interrupted')
      /\ conn[c].task \in interrupted' \/ applied'[conn[c].task] = applied[conn[c].task]
      /\ interrupted' \in {interrupted, interrupted \union {conn[c].task}}
  OBVIOUS
<1> QED
  BY <1>1, <1>2, GoesOnInterrupted

WithoutAt(u, i) == SubSeq(u, 1, i - 1) \o SubSeq(u, i + 1, Len(u))

\* What remains of a list without its first element, if that is t.
LEMMA SettledFirst ==
  ASSUME NEW q \in Seq(Tasks), NEW u, NEW t \in Tasks, u = <<t>> \o q,
         \A i \in 1 .. Len(q) : q[i] # t, NEW i \in DOMAIN u, u[i] = t
  PROVE  WithoutAt(u, i) = q
<1> DEFINE n == Len(q)
<1>1. n \in Nat
  OBVIOUS
<1>2. u \in Seq(Tasks) /\ Len(u) = n + 1 /\ \A j \in 1 .. n : u[j + 1] = q[j]
  OBVIOUS
<1> HIDE DEF n
<1>3. i = 1
  <2>1. i \in 1 .. n + 1
    BY <1>2
  <2> SUFFICES ASSUME i # 1 PROVE FALSE
    OBVIOUS
  <2>2. i - 1 \in 1 .. n /\ (i - 1) + 1 = i
    BY <2>1, <1>1
  <2>3. u[(i - 1) + 1] = q[i - 1]
    BY <2>2, <1>2
  <2> QED
    BY <2>2, <2>3 DEF n
<1>4. SubSeq(u, 1, i - 1) = <<>>
  BY <1>2, <1>3
<1>5. SubSeq(u, 2, Len(u)) = q
  <2> DEFINE v == SubSeq(u, 2, Len(u))
  <2>1. v \in Seq(Tasks) /\ Len(v) = n /\ \A j \in 1 .. n : v[j] = u[j + 1]
    BY <1>1, <1>2
  <2> HIDE DEF v
  <2>2. v = q
    BY <2>1, <1>2, SeqEqual DEF n
  <2> QED
    BY <2>2 DEF v
<1> QED
  BY <1>3, <1>4, <1>5, ConcatEmptySeq DEF WithoutAt

\* The connection is done with its task, whose COMMIT may have been refused.
LEMMA EndsRefused ==
  ASSUME PoolInv, NEW c \in Conns, NEW result \in {"done", "failed"},
         NEW t, t = conn[c].task, t # None,
         Returns(c, result), session' = [session EXCEPT ![c] = NoTransaction], OnlyOf(t),
         t \notin interrupted =>
           /\ t \in refused' => result = "done"
           /\ IF result = "done" /\ t \notin refused' THEN Whole(t)' ELSE Untouched(t)',
         refused' \in {refused, refused \union {t}}, faults' \in 0 .. MaxFaults,
         UNCHANGED <<_connections, pool, queue, interrupted>>
  PROVE  PoolInv'
<1>0. /\ conn' = [conn EXCEPT ![c] = Idle] /\ outcome' = [outcome EXCEPT ![t] = result]
      /\ _deadlockLock' = IF _deadlockLock = c THEN None ELSE _deadlockLock
      /\ \/ t \in Direct /\ UNCHANGED unsettled
         \/ /\ t \notin Direct
            /\ \E i \in DOMAIN unsettled :
                 /\ unsettled[i] = t
                 /\ unsettled' = SubSeq(unsettled, 1, i - 1) \o
                                   SubSeq(unsettled, i + 1, Len(unsettled))
  BY DEF Returns, Settles
<1>1. /\ t \in Tasks
      /\ t \in Direct <=> c \in Synch
      /\ pool \in {"open", "closing"}
      /\ c \in Workers => c \in _connections
      /\ \A d \in Conns \ {c} : conn[d].task # t
      /\ \A i \in 1 .. Len(queue) : queue[i] # t
  BY Connection
<1>2. /\ conn'[c] = Idle /\ session'[c] = NoTransaction
      /\ \A d \in Conns \ {c} : conn'[d] = conn[d] /\ session'[d] = session[d]
      /\ outcome'[t] = result /\ \A u \in Tasks \ {t} : outcome'[u] = outcome[u]
      /\ Idle.task = None /\ Idle.command = "none"
  <2>1. Idle.task = None /\ Idle.command = "none"
    BY DEF Idle
  <2> QED
    BY <2>1, <1>0, <1>1 DEF PoolInv, PoolTypes
<1>3. PoolTypes'
  <2>1. Idle \in ConnStates /\ NoTransaction \in SessionStates /\ Idle.attempt = 0
    BY Constants DEF Idle, NoTransaction, ConnStates, SessionStates, Commands
  <2>2. conn' \in [Conns -> ConnStates] /\ session' \in [Conns -> SessionStates]
    BY <2>1, <1>0 DEF PoolInv, PoolTypes
  <2>3. \A d \in Conns : conn'[d].attempt <= Limit(d)
    <3>1. Limit(c) \in Nat
      BY Constants DEF Limit
    <3>2. conn'[c].attempt <= Limit(c)
      BY <2>1, <1>2, <3>1
    <3> QED
      BY <3>2, <1>2 DEF PoolInv, PoolTypes
  <2>4. unsettled' \in Seq(Tasks)
    <3>1. unsettled \in Seq(Tasks)
      BY DEF PoolInv, PoolTypes
    <3>2. \A i \in DOMAIN unsettled :
            SubSeq(unsettled, 1, i - 1) \o SubSeq(unsettled, i + 1, Len(unsettled)) \in Seq(Tasks)
      BY <3>1
    <3> QED
      BY <3>1, <3>2, <1>0
  <2>5. outcome' \in [Tasks -> {"new", "pending", "done", "failed"}]
    BY <1>0 DEF PoolInv, PoolTypes
  <2>6. _deadlockLock' \in Workers \union {None}
    BY <1>0 DEF PoolInv, PoolTypes
  <2> QED
    BY <2>2, <2>3, <2>4, <2>5, <2>6, <1>1 DEF PoolInv, PoolTypes, OnlyOf, Limit
<1>4. ConnsOK'
  <2>1. ASSUME NEW d \in Conns
        PROVE  /\ Fits(conn'[d]) /\ Follows(conn'[d], session'[d], interrupted')
               /\ HasTask(d, conn'[d], outcome')
    <3>1. CASE d = c
      <4>1. Fits(Idle)
        BY Constants DEF Fits, Idle
      <4>2. Follows(Idle, NoTransaction, interrupted')
        BY DEF Follows, Idle, NoTransaction
      <4> QED
        BY <3>1, <4>1, <4>2, <1>2 DEF HasTask
    <3>2. CASE d # c
      <4>1. Fits(conn[d]) /\ Follows(conn[d], session[d], interrupted) /\ HasTask(d, conn[d], outcome)
        BY DEF PoolInv, ConnsOK
      <4>2. conn[d].task # None => conn[d].task \in Tasks \ {t}
        BY <3>2, <1>1 DEF PoolInv, PoolTypes, ConnStates
      <4> QED
        BY <3>2, <4>1, <4>2, <1>2 DEF HasTask
    <3> QED
      BY <3>1, <3>2
  <2>2. \A d \in Workers \ _connections' : conn'[d] = Idle
    BY <1>1, <1>2 DEF PoolInv, ConnsOK, Conns
  <2>3. \A d \in Synch : conn'[d].command # "lock"
    BY <1>2 DEF PoolInv, ConnsOK, Conns
  <2>4. \A d, e \in Conns : conn'[d].task = conn'[e].task /\ conn'[d].task # None => d = e
    BY <1>2 DEF PoolInv, ConnsOK
  <2>5. _deadlockLock' # None => conn'[_deadlockLock'] # Idle
    <3>1. _deadlockLock \in Conns \union {None}
      BY DEF PoolInv, PoolTypes, Conns
    <3> QED
      BY <3>1, <1>0, <1>2 DEF PoolInv, ConnsOK
  <2> QED
    BY <2>1, <2>2, <2>3, <2>4, <2>5 DEF ConnsOK
<1>5. QueueOK'
  <2>1. \A i \in 1 .. Len(queue) : queue[i] \in Tasks \ {t} /\ queue[i] # None
    BY <1>1, Constants DEF PoolInv, PoolTypes
  <2>2. \A i \in 1 .. Len(queue) : outcome'[queue[i]] = "pending" /\ queue[i] \notin Direct
    BY <2>1, <1>2 DEF PoolInv, QueueOK
  <2>3. \A i \in 1 .. Len(queue) : \A d \in Conns : conn'[d].task # queue[i]
    BY <2>1, <1>2 DEF PoolInv, QueueOK
  <2> QED
    BY <2>2, <2>3 DEF PoolInv, QueueOK
<1>6. OutcomesOK'
  <2> SUFFICES ASSUME NEW u \in Tasks
               PROVE  /\ u \notin interrupted => TellsTruth(u)'
                      /\ u \in interrupted =>
                           \/ outcome'[u] \in {"done", "failed"} \/ pool = "aborted"
                           \/ \E d \in Conns : conn'[d].task = u
    BY DEF OutcomesOK
  <2>1. CASE u = t
    BY <2>1, <1>2 DEF TellsTruth
  <2>2. CASE u # t
    <3>1. applied'[u] = applied[u] /\ outcome'[u] = outcome[u]
      BY <2>2, <1>2 DEF OnlyOf
    <3>2. \A d \in Conns : conn[d].task = u => conn'[d].task = u
      BY <2>2, <1>2
    <3> QED
      BY <2>2, <3>1, <3>2 DEF PoolInv, OutcomesOK, TellsTruth, Whole, Untouched
  <2> QED
    BY <2>1, <2>2
<1>7. PoolOK'
  <2>1. pool = "closing" => c \notin Synch
    BY DEF PoolInv, PoolOK, Idle
  <2>2. pool \in {"closing", "closed"} => \A d \in Synch : conn'[d] = Idle
    BY <2>1, <1>1, <1>2 DEF PoolInv, PoolOK, Conns
  <2> QED
    BY <2>2, <1>1 DEF PoolOK
<1>8. OrderOK'
  <2> SUFFICES ASSUME NEW w \in Workers, _connections = {w}
               PROVE  unsettled' = (IF conn'[w].task = None THEN <<>> ELSE <<conn'[w].task>>) \o queue
    BY DEF OrderOK
  <2>1. unsettled = (IF conn[w].task = None THEN <<>> ELSE <<conn[w].task>>) \o queue
    BY <1>1 DEF PoolInv, OrderOK
  <2>2. CASE c = w
    <3>1. t \notin Direct
      BY <2>2, <1>1, Constants
    <3>2. unsettled = <<t>> \o queue /\ queue \in Seq(Tasks)
      BY <2>1, <2>2 DEF PoolInv, PoolTypes
    <3>3. PICK i \in DOMAIN unsettled :
            /\ unsettled[i] = t
            /\ unsettled' = SubSeq(unsettled, 1, i - 1) \o SubSeq(unsettled, i + 1, Len(unsettled))
      BY <3>1, <1>0
    <3>4. unsettled' = queue
      <4>1. t \in Tasks /\ \A j \in 1 .. Len(queue) : queue[j] # t
        BY <1>1
      <4>2. \A q \in Seq(Tasks) : \A u : \A j \in DOMAIN u :
              u = <<t>> \o q /\ (\A h \in 1 .. Len(q) : q[h] # t) /\ u[j] = t => WithoutAt(u, j) = q
        BY <4>1, SettledFirst
      <4>3. WithoutAt(unsettled, i) = queue
        BY <3>2, <3>3, <4>1, <4>2
      <4> QED
        BY <3>3, <4>3 DEF WithoutAt
    <3> QED
      BY <3>4, <3>2, <2>2, <1>2, ConcatEmptySeq
  <2>3. CASE c # w
    <3>1. c \in Synch
      BY <2>3, <1>1 DEF Conns
    <3> QED
      BY <3>1, <2>1, <2>3, <1>0, <1>1, <1>2 DEF Conns
  <2> QED
    BY <2>2, <2>3
<1> QED
  BY <1>3, <1>4, <1>5, <1>6, <1>7, <1>8 DEF PoolInv

\* No COMMIT was refused.
LEMMA Ends ==
  ASSUME PoolInv, NEW c \in Conns, NEW result \in {"done", "failed"},
         NEW t, t = conn[c].task, t # None,
         Returns(c, result), session' = [session EXCEPT ![c] = NoTransaction], OnlyOf(t),
         t \in interrupted \/ IF result = "done" THEN Whole(t)' ELSE Untouched(t)',
         UNCHANGED <<_connections, pool, queue, interrupted, refused, faults>>
  PROVE  PoolInv'
<1>1. faults' \in 0 .. MaxFaults
  BY DEF PoolInv, PoolTypes
<1>2. t \in Tasks /\ outcome[t] = "pending"
  BY Connection
<1>3. t \notin interrupted => t \notin refused
  BY <1>2 DEF PoolInv, OutcomesOK, TellsTruth
<1>4. t \notin interrupted =>
        /\ t \in refused' => result = "done"
        /\ IF result = "done" /\ t \notin refused' THEN Whole(t)' ELSE Untouched(t)'
  BY <1>3
<1>5. refused' \in {refused, refused \union {t}}
  OBVIOUS
<1> QED
  BY <1>1, <1>4, <1>5, EndsRefused

\* Where nothing is applied, nothing of another task is.
LEMMA OnlyOfNothing ==
  ASSUME PoolTypes, NEW t, \A u \in Tasks : applied'[u] = applied[u], DOMAIN applied' = Tasks
  PROVE  OnlyOf(t)
BY DEF PoolTypes, OnlyOf

-----------------------------------------------------------------------------
(* The steps. *)

\* A statement or a commit fails: the task fails as a whole or begins again.
LEMMA FailedKeeps ==
  ASSUME PoolInv, NEW c \in Conns, NEW error, conn[c].task # None, conn[c].task \notin Single,
         Failed(c, error), conn[c].task \in Empty => error # "deadlock",
         session' = [session EXCEPT ![c] = NoTransaction], applied' = applied,
         UNCHANGED <<_connections, pool, queue, interrupted, refused, faults>>
  PROVE  PoolInv'
<1> DEFINE t == conn[c].task
<1>1. /\ conn[c] \in ConnStates /\ Fits(conn[c]) /\ t \in Tasks /\ conn[c].attempt <= Limit(c)
      /\ t \notin interrupted => Untouched(t)
  BY Connection
<1>2. PoolTypes /\ DOMAIN applied = Tasks
  BY DEF PoolInv, PoolTypes
<1>3. NoTransaction \in SessionStates /\ NoTransaction.open = FALSE /\ NoTransaction.executed = {}
  BY DEF NoTransaction, SessionStates
<1>4. \A u : OnlyOf(u)
  BY <1>2, OnlyOfNothing
<1>5. CASE Returns(c, "failed")
  <2>1. PICK u : u = t
    OBVIOUS
  <2>2. u \in interrupted \/ Untouched(u)'
    BY <2>1, <1>1 DEF Untouched
  <2> QED
    BY <2>1, <2>2, <1>4, <1>5, Ends
<1>6. CASE /\ error = "deadlock" /\ c \in Workers
           /\ conn' = [conn EXCEPT ![c].command = "lock"] /\ UNCHANGED resultVars
  <2> DEFINE k == [conn[c] EXCEPT !.command = "lock"]
  <2>1. /\ k \in ConnStates /\ k.task = t /\ k.command = "lock" /\ k.attempt = conn[c].attempt
    BY <1>1 DEF ConnStates, Commands
  <2>2. conn' = [conn EXCEPT ![c] = k]
    BY <1>6
  <2> HIDE DEF k
  <2>3. k # Idle /\ t \notin Empty
    BY <2>1, <1>6 DEF Idle
  <2>4. Fits(k)
    BY <2>1, <2>3 DEF Fits
  <2>5. Follows(k, NoTransaction, interrupted)
    BY <2>1, <1>3 DEF Follows
  <2>6. c \notin Synch
    BY <1>6, Constants
  <2> QED
    BY <2>1, <2>2, <2>4, <2>5, <2>6, <1>1, <1>3, <1>4, <1>6, GoesOn DEF resultVars
<1>7. CASE MayRetry(c) /\ Again(c)
  <2> DEFINE k == [conn[c] EXCEPT !.command = "begin", !.next = 1,
                             !.attempt = conn[c].attempt + 1]
  <2>0. 1 \in 1 .. Length + 1 /\ conn[c].attempt + 1 \in Nat
    BY <1>1, Constants DEF ConnStates
  <2>1. /\ k \in ConnStates /\ k.task = t /\ k.command = "begin" /\ k.next = 1
        /\ k.attempt = conn[c].attempt + 1
    BY <1>1, <2>0 DEF ConnStates, Commands
  <2>2. conn' = [conn EXCEPT ![c] = k]
    BY <1>7 DEF Again
  <2> HIDE DEF k
  <2>3. k # Idle
    BY <2>1 DEF Idle
  <2>4. Fits(k)
    BY <2>1, <2>3 DEF Fits
  <2>5. Follows(k, NoTransaction, interrupted)
    BY <2>1, <1>3 DEF Follows
  <2>6. k.attempt <= Limit(c)
    BY <2>1, <1>1, <1>7, Constants DEF MayRetry, Limit, ConnStates
  <2> QED
    BY <2>1, <2>2, <2>4, <2>5, <2>6, <1>1, <1>3, <1>4, <1>7, GoesOn DEF Again, resultVars
<1> QED
  BY <1>5, <1>6, <1>7 DEF Failed

\* What the steps that send a command have in common.
LEMMA Sending ==
  ASSUME PoolInv, NEW c \in Conns, NEW command, command # "none", Sends(c, command)
  PROVE  /\ conn[c].task # None /\ conn[c].task \in Tasks /\ conn[c].command = command
         /\ UNCHANGED <<_connections, pool, queue>>
<1>1. conn[c].command = command /\ UNCHANGED <<_connections, pool, queue>>
  BY DEF Sends, At
<1>2. conn[c].task # None
  BY <1>1 DEF PoolInv, ConnsOK, Fits, Idle
<1> QED
  BY <1>1, <1>2, Connection

\* A transaction without statements ends before it begins.
LEMMA NothingToExecuteStep ==
  ASSUME PoolInv, NEW c \in Conns, NothingToExecute(c)
  PROVE  PoolInv'
<1>1. /\ conn[c].task # None /\ conn[c].task \in Tasks /\ conn[c].command = "begin"
      /\ UNCHANGED <<_connections, pool, queue, interrupted, refused, faults>>
      /\ conn[c].task \in Empty /\ Failed(c, "empty") /\ UNCHANGED <<session, applied>>
  BY Sending DEF NothingToExecute, serverVars, NoFault
<1>2. session[c] = NoTransaction
  <2>1. session[c] \in SessionStates /\ Follows(conn[c], session[c], interrupted)
    BY <1>1, Connection
  <2>2. ~session[c].open /\ session[c].executed = {}
    BY <2>1, <1>1 DEF Follows
  <2> QED
    BY <2>1, <2>2 DEF SessionStates, NoTransaction
<1>3. session' = [session EXCEPT ![c] = NoTransaction]
  BY <1>1, <1>2 DEF PoolInv, PoolTypes
<1>4. conn[c].task \notin Single
  BY <1>1, Constants
<1> QED
  BY <1>1, <1>3, <1>4, FailedKeeps

\* BEGIN, sent by a worker or by a direct caller.
LEMMA BeginStep ==
  ASSUME PoolInv, NEW c \in Conns, BeginTransaction(c)
  PROVE  PoolInv'
<1> DEFINE t == conn[c].task
<1>1. /\ t # None /\ t \in Tasks /\ conn[c].command = "begin" /\ t \notin Empty
      /\ UNCHANGED <<_connections, pool, queue, interrupted, refused, faults>>
      /\ StartsTransaction(c) /\ Continues(c, "query")
  BY Sending DEF BeginTransaction, NoFault
<1>2. /\ conn[c] \in ConnStates /\ Fits(conn[c]) /\ Follows(conn[c], session[c], interrupted)
      /\ conn[c].attempt <= Limit(c)
  BY <1>1, Connection
<1> DEFINE k == [conn[c] EXCEPT !.command = "query"]
           s == [open |-> TRUE, executed |-> {}]
<1>3. /\ k \in ConnStates /\ k.task = t /\ k.command = "query" /\ k.next = conn[c].next
      /\ k.attempt = conn[c].attempt
  BY <1>2 DEF ConnStates, Commands
<1>4. s \in SessionStates /\ s.open = TRUE /\ s.executed = {}
  BY DEF SessionStates
<1>5. conn' = [conn EXCEPT ![c] = k] /\ session' = [session EXCEPT ![c] = s]
      /\ UNCHANGED <<_deadlockLock, outcome, unsettled>>
  BY <1>1 DEF StartsTransaction, Continues, resultVars
<1>6. session[c].executed = {}
  BY <1>1, <1>2 DEF Follows
<1>7. PoolTypes
  BY DEF PoolInv
<1>8. applied' = Committed({})
  BY <1>1, <1>6 DEF StartsTransaction
<1>9. OnlyOf(t) /\ applied'[t] = applied[t]
  <2>1. \A u \in Tasks : applied'[u] = applied[u]
    BY <1>7, <1>8, CommittedNothing
  <2>2. DOMAIN applied' = Tasks
    BY <1>8 DEF Committed
  <2> QED
    BY <2>1, <2>2, <1>1, <1>7, OnlyOfNothing
<1>10. t \notin Single /\ k.next = 1
  BY <1>1, <1>2, <1>3 DEF Fits
<1> HIDE DEF k, s
<1>11. Fits(k)
  <2>1. k # Idle
    BY <1>3 DEF Idle
  <2>2. 1 \in Statements(t)
    BY <1>1, <1>10, Constants
  <2> QED
    BY <2>1, <2>2, <1>1, <1>3, <1>10 DEF Fits
<1>12. Follows(k, s, interrupted)
  BY <1>1, <1>3, <1>4, <1>10 DEF Follows
<1> QED
  BY <1>1, <1>2, <1>3, <1>4, <1>5, <1>9, <1>11, <1>12, GoesOn

\* BEGIN is refused: the statements are executed outside a transaction.
LEMMA BeginRefusedStep ==
  ASSUME PoolInv, NEW c \in Conns, BeginRefused(c)
  PROVE  PoolInv'
<1> DEFINE t == conn[c].task
<1>1. /\ t # None /\ t \in Tasks /\ conn[c].command = "begin" /\ t \notin Empty
      /\ UNCHANGED <<_connections, pool, queue, session, applied, refused>>
      /\ interrupted' = interrupted \union {t}
      /\ faults < MaxFaults /\ faults' = faults + 1 /\ Continues(c, "query")
  BY Sending DEF BeginRefused, Fault, serverVars
<1>2. /\ conn[c] \in ConnStates /\ Fits(conn[c]) /\ Follows(conn[c], session[c], interrupted)
      /\ conn[c].attempt <= Limit(c) /\ session[c] \in SessionStates
  BY <1>1, Connection
<1> DEFINE k == [conn[c] EXCEPT !.command = "query"]
<1>3. /\ k \in ConnStates /\ k.task = t /\ k.command = "query" /\ k.next = conn[c].next
      /\ k.attempt = conn[c].attempt
  BY <1>2 DEF ConnStates, Commands
<1>4. /\ conn' = [conn EXCEPT ![c] = k] /\ session' = [session EXCEPT ![c] = session[c]]
      /\ UNCHANGED <<_deadlockLock, outcome, unsettled>>
  BY <1>1 DEF Continues, resultVars, PoolInv, PoolTypes
<1>5. OnlyOf(t)
  BY <1>1, OnlyOfNothing DEF PoolInv, PoolTypes
<1>6. faults' \in 0 .. MaxFaults
  BY <1>1, PoolAssumption DEF PoolInv, PoolTypes
<1>7. t \notin Single /\ k.next = 1
  BY <1>1, <1>2, <1>3 DEF Fits
<1> HIDE DEF k
<1>8. Fits(k)
  <2>1. k # Idle
    BY <1>3 DEF Idle
  <2>2. 1 \in Statements(t)
    BY <1>1, <1>7, Constants
  <2> QED
    BY <2>1, <2>2, <1>1, <1>3, <1>7 DEF Fits
<1>9. Follows(k, session[c], interrupted')
  BY <1>1, <1>2, <1>3, <1>7 DEF Follows
<1>10. t \in interrupted' /\ interrupted' \in {interrupted, interrupted \union {t}}
  BY <1>1
<1>11. c \in Synch => k.command # "lock"
  BY <1>3
<1> QED
  BY <1>1, <1>2, <1>3, <1>4, <1>5, <1>6, <1>8, <1>9, <1>10, <1>11, GoesOnInterrupted

\* The server refuses a statement.
LEMMA QueryFailsStep ==
  ASSUME PoolInv, NEW c \in Conns, NEW error \in {"deadlock", "error"}, QueryFails(c, error)
  PROVE  PoolInv'
<1> DEFINE t == conn[c].task
<1>1. /\ t # None /\ t \in Tasks /\ conn[c].command = "query"
      /\ UNCHANGED <<_connections, pool, queue, interrupted, refused, faults>>
      /\ applied' = applied
      /\ IF error = "deadlock" THEN session' = [session EXCEPT ![c] = NoTransaction]
                               ELSE session' = session
      /\ IF t \in Single
         THEN Returns(c, "failed")
         ELSE /\ conn' = [conn EXCEPT ![c] = [@ EXCEPT !.command = "rollback", !.error = error]]
              /\ UNCHANGED <<_deadlockLock, outcome, unsettled>>
  BY Sending DEF QueryFails, RollsBack, serverVars, resultVars, NoFault
<1>2. /\ conn[c] \in ConnStates /\ Fits(conn[c]) /\ Follows(conn[c], session[c], interrupted)
      /\ conn[c].attempt <= Limit(c) /\ session[c] \in SessionStates
      /\ t \notin interrupted => Untouched(t)
  BY <1>1, Connection
<1>3. PoolTypes /\ DOMAIN applied = Tasks
  BY DEF PoolInv, PoolTypes
<1>4. \A u : OnlyOf(u)
  BY <1>1, <1>3, OnlyOfNothing
<1>5. NoTransaction \in SessionStates /\ NoTransaction.open = FALSE /\ NoTransaction.executed = {}
  BY DEF NoTransaction, SessionStates
<1>6. CASE t \in Single
  <2>1. session[c] = NoTransaction
    <3>1. ~session[c].open /\ session[c].executed = {}
      BY <1>2, <1>6 DEF Follows
    <3> QED
      BY <3>1, <1>2 DEF SessionStates, NoTransaction
  <2>2. session' = [session EXCEPT ![c] = NoTransaction]
    BY <2>1, <1>1 DEF PoolInv, PoolTypes
  <2>3. PICK u : u = t
    OBVIOUS
  <2>4. u \in interrupted \/ Untouched(u)'
    BY <2>3, <1>1, <1>2 DEF Untouched
  <2> QED
    BY <2>2, <2>3, <2>4, <1>1, <1>4, <1>6, Ends
<1>7. CASE t \notin Single
  <2> DEFINE k == [conn[c] EXCEPT !.command = "rollback", !.error = error]
             s == IF error = "deadlock" THEN NoTransaction ELSE session[c]
  <2>1. /\ k \in ConnStates /\ k.task = t /\ k.command = "rollback" /\ k.error = error
        /\ k.attempt = conn[c].attempt
    BY <1>2 DEF ConnStates, Commands
  <2>2. conn' = [conn EXCEPT ![c] = k] /\ session' = [session EXCEPT ![c] = s]
    BY <1>1, <1>7 DEF PoolInv, PoolTypes
  <2>3. /\ s \in SessionStates /\ (~s.open => s.executed = {})
        /\ \A e \in s.executed : e[1] = t
    BY <1>2, <1>5 DEF Follows
  <2> HIDE DEF k, s
  <2>4. Fits(k)
    <3>1. k # Idle /\ t \notin Empty
      BY <2>1, <1>1, <1>2 DEF Idle, Fits
    <3> QED
      BY <3>1, <2>1, <1>1, <1>7 DEF Fits
  <2>5. Follows(k, s, interrupted)
    BY <2>1, <2>3, <1>7 DEF Follows
  <2> QED
    BY <2>1, <2>2, <2>3, <2>4, <2>5, <1>1, <1>2, <1>4, <1>7, GoesOn
<1> QED
  BY <1>6, <1>7

\* ROLLBACK, after which the task is tried again or given up.
LEMMA RollbackStep ==
  ASSUME PoolInv, NEW c \in Conns, RollbackTransaction(c)
  PROVE  PoolInv'
<1>1. /\ conn[c].task # None /\ conn[c].command = "rollback"
      /\ UNCHANGED <<_connections, pool, queue, interrupted, refused, faults>>
      /\ session' = [session EXCEPT ![c] = NoTransaction] /\ applied' = applied
      /\ Failed(c, conn[c].error)
  BY Sending DEF RollbackTransaction, RollsBack, NoFault
<1>2. conn[c].task \notin Single /\ conn[c].task \notin Empty
  BY <1>1, Connection DEF Fits
<1> QED
  BY <1>1, <1>2, FailedKeeps

\* COMMIT, the only step by which a transaction is applied.
LEMMA CommitStep ==
  ASSUME PoolInv, NEW c \in Conns, CommitTransaction(c)
  PROVE  PoolInv'
<1>0. PICK t : t = conn[c].task
  OBVIOUS
<1>1. /\ t # None /\ t \in Tasks /\ conn[c].command = "commit"
      /\ UNCHANGED <<_connections, pool, queue, interrupted, refused, faults>>
      /\ session' = [session EXCEPT ![c] = NoTransaction]
      /\ applied' = Committed(session[c].executed) /\ Returns(c, "done")
  BY <1>0, Sending DEF CommitTransaction, Commits, NoFault
<1>2. /\ conn[c] \in ConnStates /\ Fits(conn[c]) /\ Follows(conn[c], session[c], interrupted)
      /\ t \notin interrupted => Untouched(t)
  BY <1>0, <1>1, Connection
<1>3. PoolTypes
  BY DEF PoolInv
<1>4. OnlyOf(t)
  <2>1. \A e \in session[c].executed : e[1] = t
    BY <1>0, <1>2 DEF Follows
  <2> QED
    BY <2>1, <1>1, <1>3, CommittedOnly
<1>5. t \notin interrupted => Whole(t)'
  <2> SUFFICES ASSUME t \notin interrupted PROVE Whole(t)'
    OBVIOUS
  <2>1. t \notin Single /\ t \notin Empty /\ conn[c].next = Length + 1
    BY <1>0, <1>1, <1>2 DEF Fits
  <2>2. session[c].executed = {t} \X (1 .. Length)
    BY <2>1, <1>0, <1>1, <1>2, Constants DEF Follows
  <2>3. \A i \in Statements(t) : <<t, i>> \in session[c].executed
    BY <2>1, <2>2, <1>1, Constants
  <2> QED
    BY <2>3, <1>1, <1>2, <1>3, CommittedWhole
<1> QED
  BY <1>0, <1>1, <1>4, <1>5, Ends

\* COMMIT is refused: the transaction is gone, and reported as done.
LEMMA CommitRefusedStep ==
  ASSUME PoolInv, NEW c \in Conns, CommitRefused(c)
  PROVE  PoolInv'
<1>0. PICK t : t = conn[c].task
  OBVIOUS
<1>1. /\ t # None /\ t \in Tasks
      /\ UNCHANGED <<_connections, pool, queue, interrupted, applied>>
      /\ session' = [session EXCEPT ![c] = NoTransaction]
      /\ refused' = refused \union {t} /\ faults < MaxFaults /\ faults' = faults + 1
      /\ Returns(c, "done")
  BY <1>0, Sending DEF CommitRefused, Fault, RollsBack
<1>2. t \notin interrupted => Untouched(t)
  BY <1>0, <1>1, Connection
<1>3. OnlyOf(t)
  BY <1>1, OnlyOfNothing DEF PoolInv, PoolTypes
<1>4. faults' \in 0 .. MaxFaults
  BY <1>1, PoolAssumption DEF PoolInv, PoolTypes
<1>5. t \in refused' /\ refused' \in {refused, refused \union {t}}
  BY <1>1
<1>6. t \notin interrupted => Untouched(t)'
  BY <1>1, <1>2 DEF Untouched
<1> QED
  BY <1>0, <1>1, <1>3, <1>4, <1>5, <1>6, EndsRefused

\* A statement is executed, in the transaction or on its own.
LEMMA QueryDoneStep ==
  ASSUME PoolInv, NEW c \in Conns, QueryDone(c)
  PROVE  PoolInv'
<1>0. PICK t : t = conn[c].task
  OBVIOUS
<1>1. /\ t # None /\ t \in Tasks /\ conn[c].command = "query"
      /\ UNCHANGED <<_connections, pool, queue, interrupted, refused, faults>>
      /\ Executes(c, <<t, conn[c].next>>)
      /\ IF t \in Single
         THEN Returns(c, "done")
         ELSE /\ conn' = [conn EXCEPT ![c] =
                          [@ EXCEPT !.next = conn[c].next + 1,
                                    !.command = IF conn[c].next = Length THEN "commit" ELSE "query"]]
              /\ UNCHANGED <<_deadlockLock, outcome, unsettled>>
  BY <1>0, Sending DEF QueryDone, resultVars, NoFault
<1>2. /\ conn[c] \in ConnStates /\ Fits(conn[c]) /\ Follows(conn[c], session[c], interrupted)
      /\ conn[c].attempt <= Limit(c) /\ session[c] \in SessionStates
      /\ t \notin interrupted => Untouched(t)
  BY <1>0, <1>1, Connection
<1>3. PoolTypes /\ DOMAIN applied = Tasks
  BY DEF PoolInv, PoolTypes
<1> DEFINE n == conn[c].next
<1>4. n \in Statements(t) /\ t \notin Empty /\ n \in 1 .. Length
  BY <1>0, <1>1, <1>2, Constants DEF Fits
<1>5. CASE t \in Single
  <2>1. session[c] = NoTransaction /\ ~session[c].open
    <3>1. ~session[c].open /\ session[c].executed = {}
      BY <1>0, <1>2, <1>5 DEF Follows
    <3> QED
      BY <3>1, <1>2 DEF SessionStates, NoTransaction
  <2>2. applied' = Committed({<<t, n>>}) /\ session' = [session EXCEPT ![c] = NoTransaction]
    BY <2>1, <1>1, <1>3 DEF Executes, PoolTypes
  <2>3. OnlyOf(t)
    BY <2>2, <1>3, CommittedOnly
  <2>4. t \notin interrupted => Whole(t)'
    <3>1. \A i \in Statements(t) : <<t, i>> \in {<<t, n>>}
      BY <1>1, <1>4, <1>5, Constants
    <3> QED
      BY <3>1, <2>2, <1>1, <1>2, <1>3, CommittedWhole
  <2> QED
    BY <2>2, <2>3, <2>4, <1>0, <1>1, <1>5, Ends
<1>6. CASE t \notin Single
  <2>0. n + 1 \in 1 .. Length + 1
    BY <1>4, Constants
  <2> DEFINE k == [conn[c] EXCEPT !.next = conn[c].next + 1,
                                  !.command = IF conn[c].next = Length THEN "commit" ELSE "query"]
             s == IF session[c].open
                  THEN [session[c] EXCEPT !.executed = @ \union {<<t, n>>}] ELSE session[c]
  <2>1. /\ k \in ConnStates /\ k.task = t /\ k.next = n + 1 /\ k.attempt = conn[c].attempt
        /\ k.command = IF n = Length THEN "commit" ELSE "query"
    BY <2>0, <1>0, <1>2 DEF ConnStates, Commands
  <2>2. conn' = [conn EXCEPT ![c] = k]
    BY <1>1, <1>6
  <2>3. /\ session' = [session EXCEPT ![c] = s]
        /\ applied' = IF session[c].open THEN applied ELSE Committed({<<t, n>>})
    BY <1>1, <1>3 DEF Executes, PoolTypes
  <2>4. /\ s \in SessionStates /\ s.open = session[c].open
        /\ s.executed = IF s.open THEN session[c].executed \union {<<t, n>>}
                                  ELSE session[c].executed
    BY <1>1, <1>2, <1>4 DEF SessionStates
  <2>5. OnlyOf(t)
    <3>1. CASE session[c].open
      BY <3>1, <2>3, <1>3, OnlyOfNothing
    <3>2. CASE ~session[c].open
      BY <3>2, <2>3, <1>3, CommittedOnly
    <3> QED
      BY <3>1, <3>2
  <2>6. t \notin interrupted =>
          session[c].open /\ session[c].executed = {t} \X (1 .. n - 1)
    BY <1>0, <1>1, <1>2, <1>6 DEF Follows
  <2> HIDE DEF k, s, n
  <2>7. Fits(k)
    <3>1. k # Idle
      BY <2>1, <1>1 DEF Idle
    <3>2. n # Length => n + 1 \in Statements(t)
      BY <1>1, <1>4, <1>6, Constants
    <3>3. n = Length => k.next = Length + 1
      BY <2>1
    <3> QED
      BY <3>1, <3>2, <3>3, <2>1, <1>1, <1>4, <1>6 DEF Fits
  <2>8. Follows(k, s, interrupted)
    <3>1. ~s.open => s.executed = {}
      BY <2>4, <1>2 DEF Follows
    <3>2. \A e \in s.executed : e[1] = t
      BY <2>4, <1>0, <1>2 DEF Follows
    <3>3. t \notin interrupted => s.open /\ s.executed = {t} \X (1 .. k.next - 1)
      <4> SUFFICES ASSUME t \notin interrupted
                   PROVE  s.open /\ s.executed = {t} \X (1 .. k.next - 1)
        OBVIOUS
      <4>1. s.open /\ s.executed = ({t} \X (1 .. n - 1)) \union {<<t, n>>}
        BY <2>4, <2>6
      <4>2. n \in Nat \ {0} /\ (n + 1) - 1 = n
        BY <1>4, Constants
      <4>3. 1 .. n = (1 .. n - 1) \union {n}
        BY <4>2
      <4>4. ({t} \X (1 .. n - 1)) \union {<<t, n>>} = {t} \X (1 .. n)
        BY <4>3
      <4> QED
        BY <4>1, <4>2, <4>4, <2>1
    <3> QED
      BY <3>1, <3>2, <3>3, <2>1, <1>1, <1>6 DEF Follows
  <2>9. t \in interrupted \/ applied'[t] = applied[t]
    BY <2>3, <2>6
  <2>10. c \in Synch => k.command # "lock"
    BY <2>1
  <2> QED
    BY <2>1, <2>2, <2>3, <2>4, <2>5, <2>7, <2>8, <2>9, <2>10, <1>0, <1>1, <1>2, <1>6, GoesOn
<1> QED
  BY <1>5, <1>6

\* A worker takes the lock of deadlocked transactions.
LEMMA LockStep ==
  ASSUME PoolInv, NEW c \in Workers, LockDeadlock(c)
  PROVE  PoolInv'
<1> DEFINE t == conn[c].task
<1>1. /\ conn[c].command = "lock" /\ _deadlockLock' = c
      /\ conn' = [conn EXCEPT ![c] = [@ EXCEPT !.command = "begin", !.next = 1, !.attempt = 1]]
      /\ UNCHANGED <<_connections, pool, queue, unsettled, outcome, session, applied,
                     interrupted, refused, faults>>
  BY DEF LockDeadlock, serverVars
<1>2. c \in Conns /\ t # None
  BY <1>1 DEF PoolInv, ConnsOK, Fits, Idle, Conns
<1>3. /\ conn[c] \in ConnStates /\ Fits(conn[c]) /\ Follows(conn[c], session[c], interrupted)
      /\ session[c] \in SessionStates
  BY <1>2, Connection
<1> DEFINE k == [conn[c] EXCEPT !.command = "begin", !.next = 1, !.attempt = 1]
<1>4. 1 \in 1 .. Length + 1
  BY Constants
<1>5. /\ k \in ConnStates /\ k.task = t /\ k.command = "begin" /\ k.next = 1 /\ k.attempt = 1
  BY <1>3, <1>4 DEF ConnStates, Commands
<1>6. conn' = [conn EXCEPT ![c] = k] /\ session' = [session EXCEPT ![c] = session[c]]
  BY <1>1 DEF PoolInv, PoolTypes
<1>7. t \notin Single
  BY <1>1, <1>3 DEF Fits
<1> HIDE DEF k
<1>8. Fits(k)
  <2>1. k # Idle
    BY <1>5 DEF Idle
  <2> QED
    BY <2>1, <1>2, <1>5, <1>7 DEF Fits
<1>9. Follows(k, session[c], interrupted)
  BY <1>1, <1>3, <1>5 DEF Follows
<1>10. k.attempt <= Limit(c)
  BY <1>5, Constants DEF Limit
<1>11. OnlyOf(t)
  BY <1>1, OnlyOfNothing DEF PoolInv, PoolTypes
<1>12. c \in Synch => k.command # "lock"
  BY <1>5
<1> QED
  BY <1>1, <1>2, <1>3, <1>5, <1>6, <1>8, <1>9, <1>10, <1>11, <1>12, GoesOn

\* The connection is lost: the server's transaction is gone.
LEMMA LostStep ==
  ASSUME PoolInv, NEW c \in Conns, ConnectionLost(c)
  PROVE  PoolInv'
<1>0. PICK t : t = conn[c].task
  OBVIOUS
<1>1. /\ faults < MaxFaults /\ faults' = faults + 1
      /\ session' = [session EXCEPT ![c] = NoTransaction]
      /\ interrupted' = interrupted \union {t}
      /\ UNCHANGED <<_connections, pool, queue, unsettled, conn, _deadlockLock, outcome, refused>>
      /\ conn[c].command # "none"
  BY <1>0 DEF ConnectionLost, InFlight, Fault
<1>2. t # None
  BY <1>0, <1>1 DEF PoolInv, ConnsOK, Fits, Idle
<1>3. /\ t \in Tasks /\ pool \in {"open", "closing"} /\ Follows(conn[c], session[c], interrupted)
      /\ \A d \in Conns \ {c} : conn[d].task # t
  BY <1>0, <1>2, Connection
<1>4. PoolTypes
  BY DEF PoolInv
<1>5. OnlyOf(t)
  <2>1. CASE UNCHANGED applied
    BY <2>1, <1>4, OnlyOfNothing DEF PoolTypes
  <2>2. CASE applied' = Committed(session[c].executed)
    <3>1. \A e \in session[c].executed : e[1] = t
      BY <1>0, <1>3 DEF Follows
    <3> QED
      BY <3>1, <2>2, <1>4, CommittedOnly
  <2>3. CASE applied' = Committed({<<t, conn[c].next>>})
    BY <2>3, <1>4, CommittedOnly
  <2> QED
    BY <2>1, <2>2, <2>3, <1>0 DEF ConnectionLost
<1>6. /\ session'[c] = NoTransaction /\ \A d \in Conns \ {c} : session'[d] = session[d]
  BY <1>1, <1>4 DEF PoolTypes
<1>7. PoolTypes'
  <2>1. NoTransaction \in SessionStates
    BY DEF NoTransaction, SessionStates
  <2>2. session' \in [Conns -> SessionStates]
    BY <2>1, <1>1, <1>4 DEF PoolTypes
  <2>3. faults' \in 0 .. MaxFaults
    BY <1>1, <1>4, PoolAssumption DEF PoolTypes
  <2> QED
    BY <2>2, <2>3, <1>1, <1>3, <1>4, <1>5 DEF PoolTypes, OnlyOf, Limit
<1>8. ConnsOK'
  <2>1. ASSUME NEW d \in Conns
        PROVE  /\ Fits(conn'[d]) /\ Follows(conn'[d], session'[d], interrupted')
               /\ HasTask(d, conn'[d], outcome')
    <3>1. CASE d = c
      <4>1. Fits(conn[c]) /\ HasTask(c, conn[c], outcome)
        BY DEF PoolInv, ConnsOK
      <4>2. Follows(conn[c], NoTransaction, interrupted')
        BY <1>0, <1>1 DEF Follows, NoTransaction
      <4> QED
        BY <3>1, <4>1, <4>2, <1>1, <1>6
    <3>2. CASE d # c
      <4>1. Fits(conn[d]) /\ Follows(conn[d], session[d], interrupted) /\ HasTask(d, conn[d], outcome)
        BY DEF PoolInv, ConnsOK
      <4>2. Follows(conn[d], session[d], interrupted')
        BY <4>1, <1>1 DEF Follows
      <4> QED
        BY <3>2, <4>1, <4>2, <1>1, <1>6
    <3> QED
      BY <3>1, <3>2
  <2> QED
    BY <2>1, <1>1 DEF PoolInv, ConnsOK
<1>9. QueueOK'
  BY <1>1 DEF PoolInv, QueueOK
<1>10. OutcomesOK'
  <2> SUFFICES ASSUME NEW u \in Tasks
               PROVE  /\ u \notin interrupted' => TellsTruth(u)'
                      /\ u \in interrupted' =>
                           \/ outcome'[u] \in {"done", "failed"} \/ pool' = "aborted"
                           \/ \E d \in Conns : conn'[d].task = u
    BY DEF OutcomesOK
  <2>1. CASE u = t
    BY <2>1, <1>0, <1>1
  <2>2. CASE u # t
    BY <2>2, <1>1, <1>5 DEF PoolInv, OutcomesOK, TellsTruth, OnlyOf, Whole, Untouched
  <2> QED
    BY <2>1, <2>2
<1>11. PoolOK' /\ OrderOK'
  BY <1>1 DEF PoolInv, PoolOK, OrderOK
<1> QED
  BY <1>7, <1>8, <1>9, <1>10, <1>11 DEF PoolInv

\* The process ends, with whatever was under way.
LEMMA AbortStep ==
  ASSUME PoolInv, NEW c \in Conns, Abort(c)
  PROVE  PoolInv'
<1>1. /\ pool' = "aborted"
      /\ session' = [d \in Conns |-> NoTransaction]
      /\ conn' = [d \in Conns |-> Idle] /\ queue' = <<>> /\ _deadlockLock' = None
      /\ UNCHANGED <<_connections, unsettled, outcome, applied, interrupted, refused, faults>>
  BY DEF Abort
<1>2. /\ Idle.task = None /\ Idle.command = "none" /\ Idle.attempt = 0
      /\ NoTransaction.open = FALSE /\ NoTransaction.executed = {}
  BY DEF Idle, NoTransaction
<1>3. PoolTypes'
  <2>1. Idle \in ConnStates /\ NoTransaction \in SessionStates
    BY Constants DEF Idle, NoTransaction, ConnStates, SessionStates, Commands
  <2>2. conn' \in [Conns -> ConnStates] /\ session' \in [Conns -> SessionStates]
    BY <2>1, <1>1
  <2>3. \A d \in Conns : conn'[d].attempt <= Limit(d)
    BY <1>1, <1>2, Constants DEF Limit
  <2>4. queue' \in Seq(Tasks)
    BY <1>1
  <2> QED
    BY <2>2, <2>3, <2>4, <1>1 DEF PoolInv, PoolTypes, Limit
<1>4. ConnsOK'
  <2>1. Fits(Idle)
    BY Constants DEF Fits, Idle
  <2>2. Follows(Idle, NoTransaction, interrupted')
    BY <1>2 DEF Follows
  <2>3. \A d \in Conns : HasTask(d, Idle, outcome')
    BY <1>2 DEF HasTask
  <2>4. \A d \in Conns : conn'[d] = Idle /\ session'[d] = NoTransaction
    BY <1>1
  <2> QED
    BY <2>1, <2>2, <2>3, <2>4, <1>1, <1>2 DEF ConnsOK, Conns
<1>5. QueueOK' /\ PoolOK' /\ OrderOK'
  BY <1>1 DEF QueueOK, PoolOK, OrderOK
<1>6. OutcomesOK'
  BY <1>1 DEF PoolInv, OutcomesOK, TellsTruth, Whole, Untouched
<1> QED
  BY <1>3, <1>4, <1>5, <1>6 DEF PoolInv

\* A connection that was free begins with a task nobody else has.
LEMMA Begun ==
  ASSUME PoolInv, NEW c \in Conns, NEW t \in Tasks, Starts(c, t), conn[c] = Idle,
         \A d \in Conns : conn[d].task # t,
         outcome'[t] = "pending", \A u \in Tasks \ {t} : outcome'[u] = outcome[u],
         t \in Direct <=> c \in Synch, c \in Workers => c \in _connections,
         UNCHANGED <<_connections, _deadlockLock, session, interrupted>>
  PROVE  /\ ConnsOK' /\ conn' \in [Conns -> ConnStates]
         /\ \A d \in Conns : conn'[d].attempt <= Limit(d)
         /\ conn'[c].task = t /\ \A d \in Conns \ {c} : conn'[d] = conn[d]
<1> DEFINE k == [Idle EXCEPT !.task = t, !.command = IF t \in Single THEN "query" ELSE "begin"]
<1>1. conn' = [conn EXCEPT ![c] = k]
  BY DEF Starts
<1>2. /\ k \in ConnStates /\ k.task = t /\ k.next = 1 /\ k.attempt = 0
      /\ k.command = IF t \in Single THEN "query" ELSE "begin"
  <2>1. Idle \in ConnStates
    BY Constants DEF Idle, ConnStates, Commands
  <2>2. Idle.next = 1 /\ Idle.attempt = 0
    BY DEF Idle
  <2> QED
    BY <2>1, <2>2 DEF ConnStates, Commands
<1> HIDE DEF k
<1>3. conn'[c] = k /\ \A d \in Conns \ {c} : conn'[d] = conn[d]
  BY <1>1 DEF PoolInv, PoolTypes
<1>4. t # None /\ Idle.task = None /\ Idle.command = "none"
  BY Constants DEF Idle
<1>5. k # Idle
  BY <1>2, <1>4
<1>6. conn' \in [Conns -> ConnStates] /\ \A d \in Conns : conn'[d].attempt <= Limit(d)
  <2>1. conn' \in [Conns -> ConnStates]
    BY <1>1, <1>2 DEF PoolInv, PoolTypes
  <2>2. \A d \in Conns : conn'[d].attempt <= Limit(d)
    BY <1>2, <1>3, Constants DEF PoolInv, PoolTypes, Limit
  <2> QED
    BY <2>1, <2>2
<1>7. ASSUME NEW d \in Conns
      PROVE  /\ Fits(conn'[d]) /\ Follows(conn'[d], session'[d], interrupted')
             /\ HasTask(d, conn'[d], outcome')
  <2>1. CASE d = c
    <3>1. Follows(Idle, session[c], interrupted)
      BY DEF PoolInv, ConnsOK
    <3>2. ~session[c].open /\ session[c].executed = {}
      BY <3>1, <1>4 DEF Follows
    <3>3. Fits(k)
      BY <1>2, <1>4, <1>5, Constants DEF Fits
    <3>4. Follows(k, session[c], interrupted)
      BY <3>2, <1>2 DEF Follows
    <3>5. HasTask(c, k, outcome')
      BY <1>2 DEF HasTask
    <3> QED
      BY <2>1, <3>3, <3>4, <3>5, <1>3
  <2>2. CASE d # c
    <3>1. /\ Fits(conn[d]) /\ Follows(conn[d], session[d], interrupted)
          /\ HasTask(d, conn[d], outcome)
      BY DEF PoolInv, ConnsOK
    <3>2. conn[d].task # None => conn[d].task \in Tasks \ {t}
      BY DEF PoolInv, PoolTypes, ConnStates
    <3>3. HasTask(d, conn[d], outcome')
      BY <3>1, <3>2 DEF HasTask
    <3> QED
      BY <2>2, <3>1, <3>3, <1>3
  <2> QED
    BY <2>1, <2>2
<1>8. \A d \in Workers \ _connections' : conn'[d] = Idle
  BY <1>3 DEF PoolInv, ConnsOK, Conns
<1>9. \A d \in Synch : conn'[d].command # "lock"
  BY <1>2, <1>3 DEF PoolInv, ConnsOK, Conns
<1>10. \A d, e \in Conns : conn'[d].task = conn'[e].task /\ conn'[d].task # None => d = e
  BY <1>2, <1>3 DEF PoolInv, ConnsOK
<1>11. _deadlockLock' # None => conn'[_deadlockLock'] # Idle
  BY <1>3, <1>5 DEF PoolInv, ConnsOK, PoolTypes, Conns
<1>12. ConnsOK'
  BY <1>7, <1>8, <1>9, <1>10, <1>11 DEF ConnsOK
<1> QED
  BY <1>2, <1>3, <1>6, <1>12

\* A synchronous connection is given a task.
LEMMA DirectStep ==
  ASSUME PoolInv, NEW c \in Synch, NEW t \in Tasks, DirectStart(c, t)
  PROVE  PoolInv'
<1>1. /\ pool = "open" /\ outcome[t] = "new" /\ t \in Direct /\ conn[c] = Idle /\ Starts(c, t)
      /\ outcome' = [outcome EXCEPT ![t] = "pending"]
      /\ UNCHANGED <<_connections, pool, queue, unsettled, _deadlockLock, session, applied,
                     interrupted, refused, faults>>
  BY DEF DirectStart, serverVars
<1>2. c \in Conns /\ c \notin Workers
  BY Constants DEF Conns
<1>3. outcome'[t] = "pending" /\ \A u \in Tasks \ {t} : outcome'[u] = outcome[u]
  BY <1>1 DEF PoolInv, PoolTypes
<1>4. \A d \in Conns : conn[d].task # t
  BY <1>1, Constants DEF PoolInv, ConnsOK, HasTask
<1>5. /\ ConnsOK' /\ conn' \in [Conns -> ConnStates]
      /\ \A d \in Conns : conn'[d].attempt <= Limit(d)
      /\ conn'[c].task = t /\ \A d \in Conns \ {c} : conn'[d] = conn[d]
  BY <1>1, <1>2, <1>3, <1>4, Begun
<1>6. PoolTypes'
  BY <1>1, <1>5 DEF PoolInv, PoolTypes, Limit
<1>7. QueueOK'
  <2>1. \A i \in 1 .. Len(queue) : queue[i] \in Tasks \ {t}
    BY <1>1 DEF PoolInv, PoolTypes, QueueOK
  <2> QED
    BY <2>1, <1>1, <1>3, <1>5 DEF PoolInv, QueueOK
<1>8. OutcomesOK'
  <2>1. \A u \in Tasks : outcome'[u] = "done" <=> outcome[u] = "done"
    BY <1>1, <1>3
  <2>2. \A u \in Tasks : outcome[u] \in {"done", "failed"} => outcome'[u] = outcome[u]
    BY <1>1, <1>3
  <2>3. \A u \in Tasks, d \in Conns : conn[d].task = u => conn'[d].task = u
    <3>1. Idle.task \notin Tasks
      BY Constants DEF Idle
    <3> QED
      BY <3>1, <1>1, <1>5
  <2> QED
    BY <2>1, <2>2, <2>3, <1>1, <1>2 DEF PoolInv, OutcomesOK, TellsTruth, Whole, Untouched
<1>9. PoolOK'
  BY <1>1 DEF PoolOK
<1>10. OrderOK'
  <2>1. \A w \in Workers : conn'[w] = conn[w]
    BY <1>2, <1>5 DEF Conns
  <2> QED
    BY <2>1, <1>1 DEF PoolInv, OrderOK
<1> QED
  BY <1>5, <1>6, <1>7, <1>8, <1>9, <1>10 DEF PoolInv

\* A worker takes the first task of the queue.
LEMMA HandlerStep ==
  ASSUME PoolInv, NEW c \in Workers, RunHandler(c)
  PROVE  PoolInv'
<1> DEFINE n == Len(queue)
<1>0. PICK t : t = Head(queue)
  OBVIOUS
<1>1. /\ pool = "open" /\ c \in _connections /\ conn[c] = Idle /\ queue # <<>>
      /\ queue' = Tail(queue) /\ Starts(c, t)
      /\ UNCHANGED <<_connections, pool, unsettled, _deadlockLock, outcome, session, applied,
                     interrupted, refused, faults>>
  BY <1>0 DEF RunHandler, serverVars
<1>2. c \in Conns /\ c \notin Synch
  BY Constants DEF Conns
<1>3. /\ queue \in Seq(Tasks) /\ n \in Nat \ {0} /\ t = queue[1] /\ t \in Tasks
      /\ queue' \in Seq(Tasks) /\ Len(queue') = n - 1
      /\ \A i \in 1 .. n - 1 : queue'[i] = queue[i + 1]
      /\ queue = <<t>> \o queue'
  <2>1. queue \in Seq(Tasks) /\ queue # <<>>
    BY <1>1 DEF PoolInv, PoolTypes
  <2>2. queue = <<Head(queue)>> \o Tail(queue)
    BY <2>1
  <2> QED
    BY <2>1, <2>2, <1>0, <1>1
<1> HIDE DEF n
<1>4. /\ \A i \in 1 .. n : outcome[queue[i]] = "pending" /\ queue[i] \notin Direct
      /\ \A i \in 1 .. n : \A d \in Conns : conn[d].task # queue[i]
      /\ \A i, j \in 1 .. n : queue[i] = queue[j] => i = j
  BY DEF PoolInv, QueueOK, n
<1>5. /\ outcome[t] = "pending" /\ t \notin Direct /\ \A d \in Conns : conn[d].task # t
  BY <1>3, <1>4
<1>6. outcome'[t] = "pending" /\ \A u \in Tasks \ {t} : outcome'[u] = outcome[u]
  BY <1>1, <1>5
<1>7. /\ ConnsOK' /\ conn' \in [Conns -> ConnStates]
      /\ \A d \in Conns : conn'[d].attempt <= Limit(d)
      /\ conn'[c].task = t /\ \A d \in Conns \ {c} : conn'[d] = conn[d]
  BY <1>1, <1>2, <1>3, <1>5, <1>6, Begun
<1>8. PoolTypes'
  BY <1>1, <1>3, <1>7 DEF PoolInv, PoolTypes, Limit
<1>9. QueueOK'
  <2>1. ASSUME NEW i \in 1 .. n - 1
        PROVE  /\ i + 1 \in 1 .. n /\ queue'[i] = queue[i + 1] /\ queue'[i] # t
    <3>1. i + 1 \in 1 .. n /\ 1 \in 1 .. n /\ i + 1 # 1
      BY <1>3
    <3> QED
      BY <3>1, <1>3, <1>4
  <2>2. \A i \in 1 .. n - 1 : outcome'[queue'[i]] = "pending" /\ queue'[i] \notin Direct
    <3> TAKE i \in 1 .. n - 1
    <3>1. i + 1 \in 1 .. n /\ queue'[i] = queue[i + 1]
      BY <2>1
    <3>2. outcome[queue[i + 1]] = "pending" /\ queue[i + 1] \notin Direct
      BY <3>1, <1>4
    <3> QED
      BY <3>1, <3>2, <1>1
  <2>3. \A i \in 1 .. n - 1 : \A d \in Conns : conn'[d].task # queue'[i]
    BY <2>1, <1>4, <1>7
  <2>4. ASSUME NEW i \in 1 .. n - 1, NEW j \in 1 .. n - 1, queue'[i] = queue'[j] PROVE i = j
    <3>1. i + 1 = j + 1
      BY <2>1, <2>4, <1>4
    <3> QED
      BY <3>1, <1>3
  <2> QED
    BY <2>2, <2>3, <2>4, <1>3 DEF QueueOK
<1>10. OutcomesOK'
  <2>1. \A u \in Tasks, d \in Conns : conn[d].task = u => conn'[d].task = u
    <3>1. Idle.task \notin Tasks
      BY Constants DEF Idle
    <3> QED
      BY <3>1, <1>1, <1>7
  <2> QED
    BY <2>1, <1>1 DEF PoolInv, OutcomesOK, TellsTruth, Whole, Untouched
<1>11. PoolOK'
  BY <1>1 DEF PoolOK
<1>12. OrderOK'
  <2> SUFFICES ASSUME NEW w \in Workers, _connections = {w}
               PROVE  unsettled = (IF conn'[w].task = None THEN <<>> ELSE <<conn'[w].task>>) \o queue'
    BY <1>1 DEF OrderOK
  <2>1. unsettled = (IF conn[w].task = None THEN <<>> ELSE <<conn[w].task>>) \o queue
    BY <1>1 DEF PoolInv, OrderOK
  <2>2. w = c /\ conn[w].task = None /\ t # None
    BY <1>1, <1>3, Constants DEF Idle
  <2>3. unsettled = queue
    BY <2>1, <2>2, <1>3, ConcatEmptySeq
  <2> QED
    BY <2>2, <2>3, <1>3, <1>7
<1> QED
  BY <1>7, <1>8, <1>9, <1>10, <1>11, <1>12 DEF PoolInv

\* A task is queued.
LEMMA PostStep ==
  ASSUME PoolInv, NEW t \in Tasks, Post(t)
  PROVE  PoolInv'
<1> DEFINE n == Len(queue)
<1>1. /\ pool = "open" /\ outcome[t] = "new" /\ t \notin Direct
      /\ queue' = Append(queue, t) /\ unsettled' = Append(unsettled, t)
      /\ outcome' = [outcome EXCEPT ![t] = "pending"]
      /\ UNCHANGED <<_connections, pool, conn, _deadlockLock, session, applied,
                     interrupted, refused, faults>>
  BY DEF Post, serverVars
<1>2. outcome'[t] = "pending" /\ \A u \in Tasks \ {t} : outcome'[u] = outcome[u]
  BY <1>1 DEF PoolInv, PoolTypes
<1>3. /\ queue \in Seq(Tasks) /\ n \in Nat /\ \A i \in 1 .. n : queue[i] \in Tasks
      /\ queue' \in Seq(Tasks) /\ Len(queue') = n + 1
      /\ queue'[n + 1] = t /\ \A i \in 1 .. n : queue'[i] = queue[i]
      /\ unsettled \in Seq(Tasks) /\ unsettled' \in Seq(Tasks)
  BY <1>1 DEF PoolInv, PoolTypes
<1> HIDE DEF n
<1>4. /\ \A i \in 1 .. n : outcome[queue[i]] = "pending" /\ queue[i] \notin Direct
      /\ \A i \in 1 .. n : \A d \in Conns : conn[d].task # queue[i]
      /\ \A i, j \in 1 .. n : queue[i] = queue[j] => i = j
  BY DEF PoolInv, QueueOK, n
<1>5. \A d \in Conns : conn[d].task # t
  BY <1>1, Constants DEF PoolInv, ConnsOK, HasTask
<1>6. PoolTypes'
  BY <1>1, <1>3 DEF PoolInv, PoolTypes, Limit
<1>7. ConnsOK'
  <2>1. \A d \in Conns : HasTask(d, conn[d], outcome')
    <3>1. \A d \in Conns : conn[d].task # None => conn[d].task \in Tasks \ {t}
      BY <1>5 DEF PoolInv, PoolTypes, ConnStates
    <3> QED
      BY <3>1, <1>2 DEF PoolInv, ConnsOK, HasTask
  <2> QED
    BY <2>1, <1>1 DEF PoolInv, ConnsOK
<1>8. QueueOK'
  <2>1. \A i \in 1 .. n : queue[i] # t
    BY <1>1, <1>4
  <2>2. \A i \in 1 .. n + 1 : i \in 1 .. n \/ i = n + 1
    BY <1>3
  <2>3. \A i \in 1 .. n + 1 :
          /\ outcome'[queue'[i]] = "pending" /\ queue'[i] \notin Direct
          /\ \A d \in Conns : conn'[d].task # queue'[i]
    BY <2>1, <2>2, <1>1, <1>2, <1>3, <1>4, <1>5
  <2>4. \A i, j \in 1 .. n + 1 : queue'[i] = queue'[j] => i = j
    BY <2>1, <2>2, <1>3, <1>4
  <2> QED
    BY <2>3, <2>4, <1>3 DEF QueueOK
<1>9. OutcomesOK'
  <2>1. \A u \in Tasks : outcome'[u] = "done" <=> outcome[u] = "done"
    BY <1>1, <1>2
  <2>2. \A u \in Tasks : outcome[u] \in {"done", "failed"} => outcome'[u] = outcome[u]
    BY <1>1, <1>2
  <2> QED
    BY <2>1, <2>2, <1>1 DEF PoolInv, OutcomesOK, TellsTruth, Whole, Untouched
<1>10. PoolOK'
  BY <1>1 DEF PoolOK
<1>11. OrderOK'
  <2> SUFFICES ASSUME NEW w \in Workers, _connections = {w}
               PROVE  unsettled' = (IF conn[w].task = None THEN <<>> ELSE <<conn[w].task>>) \o queue'
    BY <1>1 DEF OrderOK
  <2> DEFINE first == IF conn[w].task = None THEN <<>> ELSE <<conn[w].task>>
  <2>1. unsettled = first \o queue
    BY <1>1 DEF PoolInv, OrderOK
  <2>2. first \in Seq(Tasks)
    BY DEF PoolInv, PoolTypes, ConnStates, Conns
  <2> HIDE DEF first
  <2>3. Append(first \o queue, t) = first \o Append(queue, t)
    <3> DEFINE one == <<t>>
               both == first \o queue
    <3>1. one \in Seq(Tasks) /\ both \in Seq(Tasks)
      BY <2>1, <1>3
    <3>2. Append(both, t) = both \o one
      BY <3>1, AppendIsConcat
    <3>3. Append(queue, t) = queue \o one
      BY <1>3, AppendIsConcat
    <3>4. (first \o queue) \o one = first \o (queue \o one)
      <4> HIDE DEF one
      <4> QED
        BY <3>1, <2>2, <1>3, ConcatAssociative
    <3> QED
      BY <3>2, <3>3, <3>4
  <2>4. unsettled' = first \o queue'
    BY <2>1, <2>3, <1>1
  <2> QED
    BY <2>4 DEF first
<1> QED
  BY <1>6, <1>7, <1>8, <1>9, <1>10, <1>11 DEF PoolInv

\* The pool is closed, or a worker sees that it was.
LEMMA CloseStep ==
  ASSUME PoolInv, Close \/ WorkersJoined
  PROVE  PoolInv'
<1>1. UNCHANGED <<_connections, unsettled, conn, _deadlockLock, outcome, session, applied,
                  interrupted, refused, faults>>
  BY DEF Close, WorkersJoined, serverVars
<1>2. \/ pool' = "closing" /\ queue' = queue /\ pool = "open"
         /\ \A c \in Synch : conn[c] = Idle
      \/ pool' = "closed" /\ queue' = <<>> /\ pool = "closing"
         /\ \A w \in _connections : conn[w] = Idle
  BY DEF Close, WorkersJoined
<1>3. PoolTypes'
  <2>1. queue' \in Seq(Tasks) /\ pool' \in {"open", "closing", "closed", "aborted"}
    <3>1. queue \in Seq(Tasks) /\ <<>> \in Seq(Tasks)
      BY DEF PoolInv, PoolTypes
    <3> QED
      BY <3>1, <1>2
  <2> QED
    BY <2>1, <1>1 DEF PoolInv, PoolTypes, Limit
<1>4. ConnsOK'
  BY <1>1 DEF PoolInv, ConnsOK
<1>5. QueueOK'
  BY <1>1, <1>2 DEF PoolInv, QueueOK
<1>6. OutcomesOK'
  BY <1>1, <1>2 DEF PoolInv, OutcomesOK, TellsTruth, Whole, Untouched
<1>7. PoolOK'
  BY <1>1, <1>2 DEF PoolInv, PoolOK, ConnsOK, Conns
<1>8. OrderOK'
  BY <1>1, <1>2 DEF PoolInv, OrderOK
<1> QED
  BY <1>3, <1>4, <1>5, <1>6, <1>7, <1>8 DEF PoolInv

\* No task was begun.
LEMMA PoolStart == PoolInit => PoolInv
<1> SUFFICES ASSUME PoolInit PROVE PoolInv
  OBVIOUS
<1>0. Idle.task = None /\ Idle.command = "none" /\ Idle.attempt = 0
      /\ NoTransaction.open = FALSE /\ NoTransaction.executed = {}
  BY DEF Idle, NoTransaction
<1>1. PoolTypes
  <2>1. Idle \in ConnStates /\ NoTransaction \in SessionStates
    BY Constants DEF Idle, NoTransaction, ConnStates, SessionStates, Commands
  <2>2. conn \in [Conns -> ConnStates] /\ session \in [Conns -> SessionStates]
    BY <2>1 DEF PoolInit
  <2>3. \A d \in Conns : conn[d].attempt <= Limit(d)
    BY <1>0, Constants DEF Limit, PoolInit
  <2>4. faults \in 0 .. MaxFaults
    BY PoolAssumption DEF PoolInit
  <2>5. queue \in Seq(Tasks) /\ unsettled \in Seq(Tasks)
    BY DEF PoolInit
  <2> QED
    BY <2>2, <2>3, <2>4, <2>5 DEF PoolTypes, PoolInit
<1>2. ConnsOK
  <2>1. Fits(Idle)
    BY Constants DEF Fits, Idle
  <2>2. Follows(Idle, NoTransaction, interrupted)
    BY <1>0 DEF Follows
  <2>3. \A d \in Conns : HasTask(d, Idle, outcome)
    BY <1>0 DEF HasTask
  <2>4. \A d \in Conns : conn[d] = Idle /\ session[d] = NoTransaction
    BY DEF PoolInit
  <2>5. _deadlockLock = None
    BY DEF PoolInit
  <2> QED
    BY <2>1, <2>2, <2>3, <2>4, <2>5, <1>0 DEF ConnsOK, Conns
<1>3. QueueOK /\ PoolOK
  BY DEF PoolInit, QueueOK, PoolOK
<1>4. OutcomesOK
  BY DEF PoolInit, OutcomesOK, TellsTruth, Untouched
<1>5. OrderOK
  <2>1. \A w \in Workers : conn[w].task = None
    BY <1>0 DEF PoolInit, Conns
  <2>2. unsettled = <<>> /\ queue = <<>>
    BY DEF PoolInit
  <2> QED
    BY <2>1, <2>2, ConcatEmptySeq DEF OrderOK
<1> QED
  BY <1>1, <1>2, <1>3, <1>4, <1>5 DEF PoolInv

\* Every step keeps the invariant.
LEMMA PoolKept == PoolInv /\ [PoolNext]_poolVars => PoolInv'
<1> SUFFICES ASSUME PoolInv, [PoolNext]_poolVars PROVE PoolInv'
  OBVIOUS
<1>1. ASSUME NEW c \in Conns, Executing(c) PROVE PoolInv'
  BY <1>1, NothingToExecuteStep, BeginStep, BeginRefusedStep, QueryDoneStep, QueryFailsStep,
     RollbackStep, CommitStep, CommitRefusedStep DEF Executing
<1>2. ASSUME NEW w \in Workers, Working(w) PROVE PoolInv'
  BY <1>1, <1>2, HandlerStep, LockStep DEF Working, Conns
<1>3. CASE UNCHANGED poolVars
  <2>1. UNCHANGED <<_connections, pool, queue, unsettled, conn, _deadlockLock, outcome, session,
                    applied, interrupted, refused, faults>>
    BY <1>3 DEF poolVars, resultVars, serverVars
  <2>2. PoolTypes' /\ ConnsOK' /\ QueueOK'
    BY <2>1 DEF PoolInv, PoolTypes, ConnsOK, QueueOK, Limit
  <2>3. OutcomesOK' /\ PoolOK' /\ OrderOK'
    BY <2>1 DEF PoolInv, OutcomesOK, TellsTruth, PoolOK, OrderOK, Whole, Untouched
  <2> QED
    BY <2>2, <2>3 DEF PoolInv
<1>4. CASE \E t \in Tasks : Post(t)
  BY <1>4, PostStep
<1>5. CASE \E c \in Synch, t \in Tasks : DirectStart(c, t)
  BY <1>5, DirectStep
<1>6. CASE \E c \in Synch : Executing(c)
  BY <1>1, <1>6 DEF Conns
<1>7. CASE \E c \in Conns : ConnectionLost(c) \/ Abort(c)
  BY <1>7, LostStep, AbortStep
<1>8. CASE Close \/ WorkersJoined
  BY <1>8, CloseStep
<1> QED
  BY <1>2, <1>3, <1>4, <1>5, <1>6, <1>7, <1>8 DEF PoolNext, Ended

-----------------------------------------------------------------------------
(* The theorems. *)

\* In every state each connection has a task of its own or none, its session on
\* the server is as far as the commands that were sent, and what the database
\* holds of a task is what its outcome says, or nothing after a refused COMMIT.
THEOREM PoolInvariant == PoolSpec => []PoolInv
<1>1. PoolInit => PoolInv
  BY PoolStart
<1>2. PoolInv /\ [PoolNext]_poolVars => PoolInv'
  BY PoolKept
<1> QED
  BY <1>1, <1>2, PTL DEF PoolSpec

\* The invariant bounds the attempts of every connection by its limit.
LEMMA PoolInvTypes == PoolInv => PoolTypeOK
<1> SUFFICES ASSUME PoolInv PROVE PoolTypeOK
  OBVIOUS
<1>1. PoolTypes
  BY DEF PoolInv
<1>2. ASSUME NEW c \in Conns
      PROVE  /\ conn[c].task \in Tasks \union {None} /\ conn[c].command \in Commands
             /\ conn[c].next \in 1 .. Length + 1 /\ conn[c].attempt \in 0 .. Limit(c)
             /\ conn[c].error \in {"none", "deadlock", "error"}
             /\ session[c].open \in BOOLEAN
             /\ session[c].executed \subseteq {<<t, i>> : t \in Tasks, i \in 1 .. Length}
  <2>1. conn[c] \in ConnStates /\ session[c] \in SessionStates /\ conn[c].attempt <= Limit(c)
    BY <1>1 DEF PoolTypes
  <2>2. Limit(c) \in Nat
    BY Constants DEF Limit
  <2>3. conn[c].attempt \in 0 .. Limit(c)
    BY <2>1, <2>2 DEF ConnStates
  <2>4. session[c].executed \subseteq {<<t, i>> : t \in Tasks, i \in 1 .. Length}
    BY <2>1 DEF SessionStates
  <2> QED
    BY <2>1, <2>3, <2>4 DEF ConnStates, SessionStates
<1> QED
  BY <1>1, <1>2 DEF PoolTypes, PoolTypeOK, Commands

\* Every variable of the pool keeps its type; in particular no transaction is
\* retried more often than its kind allows.
THEOREM PoolTypesHold == PoolSpec => []PoolTypeOK
BY PoolInvTypes, PoolInvariant, PTL

\* Through errors, deadlocks, retries, a shutdown and a crash: a transaction
\* that began, and whose connection was not lost, is in the database as a whole
\* exactly if its end was reported as a success and its COMMIT was not refused;
\* otherwise nothing of it is there, also where the refused COMMIT was reported
\* as a success.
THEOREM OutcomesAreTrue == PoolSpec => []ReportsTruth
<1>1. PoolInv => ReportsTruth
  BY DEF PoolInv, OutcomesOK, TellsTruth, ReportsTruth
<1> QED
  BY <1>1, PoolInvariant, PTL

\* Close waits for what is being executed: when the pool is closed no
\* transaction is open, the lock is free, and what is without an end has left
\* no trace.
THEOREM ClosesCleanly == PoolSpec => []ShutdownIsClean
<1>1. ASSUME PoolInv, pool = "closed"
      PROVE  /\ _deadlockLock = None
             /\ \A c \in Conns : conn[c] = Idle /\ ~session[c].open
             /\ \A t \in Tasks : outcome[t] = "pending" => Untouched(t)
  <2>1. \A c \in Conns : conn[c] = Idle
    BY <1>1 DEF PoolInv, PoolOK
  <2>2. Idle.task = None /\ Idle.command = "none"
    BY DEF Idle
  <2>3. _deadlockLock = None
    BY <2>1, <1>1 DEF PoolInv, ConnsOK, PoolTypes, Conns
  <2>4. \A c \in Conns : ~session[c].open
    BY <2>1, <2>2, <1>1 DEF PoolInv, ConnsOK, Follows
  <2>5. \A t \in Tasks : outcome[t] = "pending" => Untouched(t)
    BY <2>1, <2>2, <1>1, Constants DEF PoolInv, OutcomesOK, TellsTruth
  <2> QED
    BY <2>1, <2>3, <2>4, <2>5
<1>2. PoolInv => ShutdownIsClean
  BY <1>1 DEF ShutdownIsClean
<1> QED
  BY <1>2, PoolInvariant, PTL

\* Only the task of a connection changes in the database.
LEMMA OnlyTasksOfConnections ==
  ASSUME PoolInv, NEW t \in Tasks, PoolNext, applied'[t] # applied[t]
  PROVE  \E c \in Conns : conn[c].task = t
<1>1. PoolTypes
  BY DEF PoolInv
<1>2. PICK c \in Conns : \/ BeginTransaction(c) \/ QueryDone(c) \/ CommitTransaction(c)
                         \/ ConnectionLost(c)
  BY DEF PoolNext, Working, Executing, Post, RunHandler, DirectStart, LockDeadlock, NothingToExecute,
         BeginRefused, CommitRefused, QueryFails, RollsBack, RollbackTransaction, Abort, Close,
         WorkersJoined, Ended, poolVars,
         serverVars, Conns
<1>3. PICK u : u = conn[c].task
  OBVIOUS
<1>4. \A e \in session[c].executed : e[1] = u
  BY <1>3 DEF PoolInv, ConnsOK, Follows
<1>5. \/ applied' = applied \/ applied' = Committed(session[c].executed)
      \/ applied' = Committed({<<u, conn[c].next>>})
  BY <1>2, <1>3 DEF BeginTransaction, StartsTransaction, QueryDone, Executes, CommitTransaction,
                    Commits, ConnectionLost
<1>6. OnlyOf(u) \/ applied' = applied
  BY <1>1, <1>4, <1>5, CommittedOnly
<1> QED
  BY <1>3, <1>6 DEF OnlyOf

\* With one worker thread, writes reach the database in the order in which they
\* were posted: a retry does not let a later one pass.
THEOREM OneWorkerKeepsOrder == PoolSpec => InOrder
<1>1. ASSUME PoolInv, [PoolNext]_poolVars
      PROVE  [Cardinality(_connections) = 1 =>
                \A i \in DOMAIN unsettled :
                  applied'[unsettled[i]] # applied[unsettled[i]] => i = 1]_poolVars
  <2> SUFFICES ASSUME PoolNext, Cardinality(_connections) = 1, NEW i \in DOMAIN unsettled,
                      applied'[unsettled[i]] # applied[unsettled[i]]
               PROVE  i = 1
    BY <1>1
  <2> DEFINE t == unsettled[i]
  <2>1. PoolTypes /\ unsettled \in Seq(Tasks) /\ queue \in Seq(Tasks)
    BY <1>1 DEF PoolInv, PoolTypes
  <2>2. PICK w \in Workers : _connections = {w}
    <3>1. IsFiniteSet(_connections)
      BY <2>1, PoolAssumption, FS_Subset DEF PoolTypes
    <3>2. \E w : _connections = {w}
      BY <3>1, FS_Singleton
    <3> QED
      BY <3>2, <2>1 DEF PoolTypes
  <2>3. PICK c \in Conns : conn[c].task = t
    <3>1. t \in Tasks
      BY <2>1
    <3> HIDE DEF t
    <3>2. applied'[t] # applied[t]
      BY DEF t
    <3> QED
      BY <3>1, <3>2, <1>1, OnlyTasksOfConnections
  <2>4. t \in Tasks /\ t # None
    BY <2>1, Constants
  <2>5. /\ t \in Direct <=> c \in Synch
        /\ pool \in {"open", "closing"} /\ (c \in Workers => c = w)
        /\ \A j \in 1 .. Len(queue) : queue[j] # t /\ queue[j] \notin Direct
    <3>1. /\ conn[c].task \in Direct <=> c \in Synch
          /\ pool \in {"open", "closing"}
          /\ c \in Workers => c \in _connections
          /\ \A j \in 1 .. Len(queue) : queue[j] # conn[c].task
      BY <2>3, <2>4, <1>1, Connection
    <3>2. \A j \in 1 .. Len(queue) : queue[j] \notin Direct
      BY <1>1 DEF PoolInv, QueueOK
    <3> QED
      BY <3>1, <3>2, <2>2, <2>3
  <2>6. unsettled = (IF conn[w].task = None THEN <<>> ELSE <<conn[w].task>>) \o queue
    BY <2>2, <2>5, <1>1 DEF PoolInv, OrderOK
  <2>7. CASE conn[w].task = None
    <3>1. unsettled = queue
      BY <2>1, <2>6, <2>7, ConcatEmptySeq
    <3> QED
      BY <3>1, <2>1, <2>5
  <2>8. CASE conn[w].task # None
    <3>1. i # 1 => i - 1 \in 1 .. Len(queue) /\ unsettled[i] = queue[i - 1]
      BY <2>1, <2>6, <2>8
    <3> QED
      BY <3>1, <2>5
  <2> QED
    BY <2>7, <2>8
<1> QED
  BY <1>1, PoolInvariant, PTL DEF PoolSpec, InOrder

-----------------------------------------------------------------------------
(* The components of MCServices together: a step of the composition is a step
   or a stutter of each of them, so it keeps the invariants of them all.  *)

ServicesVars == <<part, worldVars, tradeVars, poolVars, bgVars>>

ServicesInv == WorldInv /\ TradeInv /\ PoolInv /\ BgInv

\* No step of the composition disturbs an invariant of a component.
LEMMA ServicesStep == ServicesInv /\ [PartsNext]_ServicesVars => ServicesInv'
<1> SUFFICES ASSUME ServicesInv, [PartsNext]_ServicesVars PROVE ServicesInv'
  OBVIOUS
<1>1. /\ [WorldNext]_worldVars /\ [TradeNext]_tradeVars
      /\ [PoolNext]_poolVars /\ [BgNext]_bgVars
  BY DEF PartsNext, Moves, ServicesVars
<1>2. WorldInv' /\ TradeInv'
  BY <1>1, WorldStepKeeps, TradeNextInv, TradeStutterInv DEF ServicesInv
<1>3. PoolInv' /\ BgInv'
  BY <1>1, PoolKept, BgStepKeeps DEF ServicesInv
<1> QED
  BY <1>2, <1>3 DEF ServicesInv

\* Whichever of them moves, the registry of sessions, the trades, the pool of
\* database connections and the battlegrounds keep their types, if clients
\* acknowledge the encryption of a connection once.
THEOREM ServicesTypes ==
  PartsInit /\ RepeatedAck = FALSE /\ [][PartsNext]_ServicesVars => []TypesOK
<1>1. PartsInit /\ RepeatedAck = FALSE => ServicesInv
  BY WorldInitInv, TradeInitInv, PoolStart, BgInitInv DEF PartsInit, ServicesInv
<1>2. ServicesInv => TypesOK
  <2>1. WorldInv => TypeOK
    BY DEF WorldInv
  <2> QED
    BY <2>1, TradeInvTypes, PoolInvTypes, BgInvTypes DEF ServicesInv, TypesOK
<1> QED
  BY <1>1, <1>2, ServicesStep, PTL
=============================================================================
