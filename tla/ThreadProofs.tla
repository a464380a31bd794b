---------------------------- MODULE ThreadProofs ----------------------------
(***************************************************************************)
(* Theorems about what threads share: the MapUpdater, for every set of     *)
(* maps and of workers, the MPSCQueue, for every number of producers, and  *)
(* the Socket that sends what it delivers, for every number of packets;    *)
(* and, with the rolls of TradeAndLootProofs, about the composition of     *)
(* MCProtocols.                                                            *)
(***************************************************************************)
EXTENDS MCProtocols, TradeAndLootProofs, FoldLemmas, FiniteSetTheorems, SequenceTheorems

-----------------------------------------------------------------------------
(* The barrier.  PendingIsExact is not inductive: a worker that leaves with a
   request in its hands breaks it, so it needs that deactivate runs only when
   nothing is pending, and that a null request is only ever seen after it.  *)

\* The types that do not depend on the count.
TypeBase ==
  /\ queue \in Seq(Maps)
  /\ shutdown \in BOOLEAN
  /\ waiters \subseteq Workers
  /\ i_maps \subseteq Maps
  /\ mgr \in ManagerStates
  /\ toVisit \subseteq Maps
  /\ cancelationToken \in BOOLEAN
  /\ pending_requests \in Int
  /\ worker \in [Workers -> {"popping", "popped", "updating", "exited"}]
  /\ request \in [Workers -> Maps \union {NoRequest}]

RequestShape ==
  \A w \in Workers :
    /\ worker[w] \in {"popping", "exited"} => request[w] = NoRequest
    /\ worker[w] = "updating" => request[w] # NoRequest
    /\ worker[w] = "popped" /\ request[w] = NoRequest => cancelationToken

ShutdownShape ==
  /\ shutdown => cancelationToken
  /\ (cancelationToken <=> mgr \in {"shutdownWait", "join", "stopped"})

NothingPending ==
  mgr \notin {"scan", "wait", "waitBlocked"} => pending_requests = 0

BarrierInv ==
  TypeBase /\ RequestShape /\ ShutdownShape /\ PendingIsExact /\ NothingPending

\* The set of busy workers is finite, so its cardinality is a number, zero
\* only for the empty set.
LEMMA BusyIsFinite ==
  /\ IsFiniteSet(Busy)
  /\ Cardinality(Busy) \in Nat
  /\ Cardinality(Busy) = 0 => Busy = {}
<1>1. IsFiniteSet(Busy)
  BY WorkersAssumption, FS_Subset DEF Busy
<1> QED
  BY <1>1, FS_CardinalityType, FS_EmptySet

\* Taking a request out of the queue adds one busy worker.
LEMMA BusyAfterPop ==
  ASSUME NEW w \in Workers, w \notin Busy, Busy' = Busy \union {w}
  PROVE  Cardinality(Busy') = Cardinality(Busy) + 1
BY BusyIsFinite, FS_AddElement

\* Finishing a request removes one busy worker.
LEMMA BusyAfterFinish ==
  ASSUME NEW w \in Workers, w \in Busy, Busy' = Busy \ {w}
  PROVE  Cardinality(Busy') = Cardinality(Busy) - 1
BY BusyIsFinite, FS_RemoveElement

\* No step disturbs BarrierInv.
LEMMA BarrierStep == BarrierInv /\ [Next]_vars => BarrierInv'
<1> SUFFICES ASSUME BarrierInv, [Next]_vars PROVE BarrierInv'
  OBVIOUS
<1> USE DEF TypeBase, ManagerStates, pcqVars, mgrVars, workerVars
<1>0. /\ TypeBase /\ RequestShape /\ ShutdownShape /\ PendingIsExact /\ NothingPending
      /\ Cardinality(Busy) \in Nat
      /\ Cardinality(Busy) = 0 => Busy = {}
  BY BusyIsFinite DEF BarrierInv
\* Steps that leave the queue, the count and the workers alone.
<1>1. ASSUME UNCHANGED <<pcqVars, pending_requests, workerVars>>, TypeBase',
             ShutdownShape', NothingPending',
             cancelationToken => cancelationToken'
      PROVE  BarrierInv'
  <2>1. Busy' = Busy
    BY <1>1 DEF Busy
  <2> QED
    BY <1>0, <1>1, <2>1 DEF BarrierInv, RequestShape, PendingIsExact
<1>2. CASE ManagerStep
  <2>1. CASE MapUpdateBegin
    BY <2>1, <1>0, <1>1 DEF MapUpdateBegin, ShutdownShape, NothingPending
  <2>2. ASSUME NEW m \in Maps, UnloadMap(m) \/ KeepMap(m) \/ DelayedUpdate(m)
        PROVE  BarrierInv'
    BY <2>2, <1>0, <1>1 DEF UnloadMap, KeepMap, DelayedUpdate, ShutdownShape, NothingPending
  <2>3. ASSUME NEW m \in Maps, ScheduleUpdate(m) PROVE BarrierInv'
    <3>1. TypeBase' /\ RequestShape' /\ ShutdownShape' /\ NothingPending'
      BY <2>3, <1>0 DEF ScheduleUpdate, Push, NotifyOne, RequestShape, ShutdownShape, NothingPending
    <3>2. Busy' = Busy /\ Len(queue') = Len(queue) + 1
      BY <2>3, <1>0 DEF ScheduleUpdate, Push, Busy
    <3> QED
      BY <2>3, <1>0, <3>1, <3>2 DEF ScheduleUpdate, BarrierInv, PendingIsExact
  <2>4. CASE ScanEnd \/ WaitBlocks \/ WaitReturns \/ UpdateEnd
    BY <2>4, <1>0, <1>1 DEF ScanEnd, WaitBlocks, WaitReturns, UpdateEnd, ShutdownShape, NothingPending
  <2>5. CASE DeactivateJoin
    BY <2>5, <1>0, <1>1 DEF DeactivateJoin, ShutdownShape, NothingPending
  <2>6. CASE DeactivateCancel
    <3>1. TypeBase' /\ RequestShape' /\ NothingPending' /\ Busy' = Busy
      BY <2>6, <1>0 DEF DeactivateCancel, Cancel, RequestShape, NothingPending, Busy
    <3>2. cancelationToken
      BY <2>6, <1>0 DEF DeactivateCancel, ShutdownShape
    <3>3. Len(queue) = 0 /\ Len(queue') = 0
      BY <2>6, <1>0 DEF DeactivateCancel, Cancel, PendingIsExact
    <3> QED
      BY <2>6, <1>0, <3>1, <3>2, <3>3 DEF DeactivateCancel, BarrierInv, ShutdownShape, PendingIsExact
  <2> QED
    BY <1>2, <2>1, <2>2, <2>3, <2>4, <2>5, <2>6 DEF ManagerStep
<1>3. ASSUME NEW m \in Maps, CreateMap(m) PROVE BarrierInv'
  BY <1>3, <1>0, <1>1 DEF CreateMap, ShutdownShape, NothingPending
<1>4. CASE UnloadAll
  BY <1>4, <1>0, <1>1 DEF UnloadAll, ShutdownShape, NothingPending
<1>5. ASSUME NEW w \in Workers, WorkerStep(w) PROVE BarrierInv'
  <2>1. CASE WorkerBlocks(w) \/ WorkerCalls(w)
    <3>1. TypeBase' /\ ShutdownShape' /\ NothingPending'
      BY <2>1, <1>0 DEF WorkerBlocks, WaitAndPopBlocks, WorkerCalls, ShutdownShape, NothingPending
    <3>3. RequestShape'
      BY <2>1, <1>0 DEF WorkerBlocks, WaitAndPopBlocks, WorkerCalls, RequestShape
    <3>2. Busy' = Busy /\ UNCHANGED <<queue, pending_requests>>
      BY <2>1, <1>0 DEF WorkerBlocks, WaitAndPopBlocks, WorkerCalls, Busy
    <3> QED
      BY <1>0, <3>1, <3>2, <3>3 DEF BarrierInv, PendingIsExact
  <2>2. CASE WorkerPops(w)
    <3>1. Head(queue) \in Maps /\ Tail(queue) \in Seq(Maps) /\ Len(Tail(queue)) = Len(queue) - 1
      BY <2>2, <1>0 DEF WorkerPops, WaitAndPopReturns
    <3>2. TypeBase' /\ RequestShape' /\ ShutdownShape' /\ NothingPending'
      BY <2>2, <1>0, <3>1, MapsAssumption
      DEF WorkerPops, WaitAndPopReturns, RequestShape, ShutdownShape, NothingPending
    <3>3. w \notin Busy /\ Busy' = Busy \union {w}
      BY <2>2, <1>0, <3>1, MapsAssumption DEF WorkerPops, WaitAndPopReturns, Busy
    <3>4. queue' = Tail(queue) /\ pending_requests' = pending_requests
      BY <2>2 DEF WorkerPops, WaitAndPopReturns
    <3>5. Len(queue) \in Nat
      BY <1>0
    <3>6. Cardinality(Busy') = Cardinality(Busy) + 1
      BY <3>3, BusyAfterPop
    <3> QED
      BY <1>0, <3>1, <3>2, <3>4, <3>5, <3>6 DEF BarrierInv, PendingIsExact
  <2>3. CASE WorkerCancelled(w)
    <3>1. TypeBase' /\ RequestShape' /\ ShutdownShape' /\ NothingPending'
      BY <2>3, <1>0 DEF WorkerCancelled, WaitAndPopCancelled, RequestShape, ShutdownShape, NothingPending
    <3>2. Busy' = Busy
      BY <2>3, <1>0 DEF WorkerCancelled, RequestShape, Busy
    <3> QED
      BY <2>3, <1>0, <3>1, <3>2 DEF BarrierInv, PendingIsExact, WorkerCancelled, WaitAndPopCancelled
  <2>4. CASE WorkerExits(w)
    <3>1. Busy = {}
      BY <2>4, <1>0 DEF WorkerExits, ShutdownShape, NothingPending, PendingIsExact
    <3>2. request[w] = NoRequest
      BY <2>4, <1>0, <3>1 DEF WorkerExits, Busy
    <3>3. TypeBase' /\ RequestShape' /\ ShutdownShape' /\ NothingPending'
      BY <2>4, <1>0, <3>2 DEF WorkerExits, RequestShape, ShutdownShape, NothingPending
    <3>4. Busy' = Busy
      BY <2>4, <1>0, <3>2 DEF WorkerExits, Busy
    <3> QED
      BY <2>4, <1>0, <3>3, <3>4 DEF BarrierInv, PendingIsExact, WorkerExits
  <2>5. CASE UpdateFinished(w)
    <3>1. w \in Busy
      BY <2>5, <1>0 DEF UpdateFinished, RequestShape, Busy
    <3>2. Busy' = Busy \ {w}
      BY <2>5, <1>0 DEF UpdateFinished, Busy
    <3>3. pending_requests # 0
      BY <1>0, <3>1 DEF PendingIsExact
    <3>4. TypeBase' /\ RequestShape' /\ ShutdownShape'
      BY <2>5, <1>0 DEF UpdateFinished, NotifyManager, RequestShape, ShutdownShape
    <3>5. NothingPending'
      BY <2>5, <1>0, <3>3 DEF UpdateFinished, NotifyManager, NothingPending
    <3>6. Cardinality(Busy') = Cardinality(Busy) - 1
      BY <3>1, <3>2, BusyAfterFinish
    <3>7. Len(queue) \in Nat /\ queue' = queue /\ pending_requests' = pending_requests - 1
      BY <2>5, <1>0 DEF UpdateFinished
    <3> QED
      BY <1>0, <3>4, <3>5, <3>6, <3>7 DEF BarrierInv, PendingIsExact
  <2> QED
    BY <1>5, <2>1, <2>2, <2>3, <2>4, <2>5 DEF WorkerStep
<1>6. ASSUME NEW w \in Workers, WorkerSpuriousWakeup(w) PROVE BarrierInv'
  <2>1. TypeBase' /\ RequestShape' /\ ShutdownShape' /\ NothingPending'
    BY <1>6, <1>0 DEF WorkerSpuriousWakeup, SpuriousWakeup, RequestShape, ShutdownShape, NothingPending
  <2>2. Busy' = Busy /\ UNCHANGED <<queue, pending_requests>>
    BY <1>6 DEF WorkerSpuriousWakeup, SpuriousWakeup, Busy
  <2> QED
    BY <1>0, <2>1, <2>2 DEF BarrierInv, PendingIsExact
<1>7. CASE Stopped \/ UNCHANGED vars
  BY <1>7, <1>0, <1>1 DEF Stopped, vars, ShutdownShape, NothingPending
<1> QED
  BY <1>2, <1>3, <1>4, <1>5, <1>6, <1>7 DEF Next

\* BarrierInv holds of the pool when its threads start.
LEMMA BarrierInit == Init => BarrierInv
<1> SUFFICES ASSUME Init PROVE BarrierInv
  OBVIOUS
<1>1. Busy = {}
  BY DEF Init, Busy
<1>2. Cardinality(Busy) = 0 /\ Len(queue) = 0
  BY <1>1, FS_EmptySet DEF Init, QueueInit
<1>3. TypeBase
  <2>1. shutdown \in BOOLEAN /\ cancelationToken \in BOOLEAN
    BY Zenon DEF Init, QueueInit
  <2>2. queue \in Seq(Maps) /\ waiters \subseteq Workers
    BY DEF Init, QueueInit
  <2>3. worker \in [Workers -> {"popping", "popped", "updating", "exited"}]
    BY DEF Init
  <2>4. request \in [Workers -> Maps \union {NoRequest}]
    BY DEF Init
  <2> QED
    BY <2>1, <2>2, <2>3, <2>4 DEF Init, TypeBase, ManagerStates
<1>4. RequestShape /\ ShutdownShape /\ NothingPending
  BY DEF Init, QueueInit, RequestShape, ShutdownShape, NothingPending
<1> QED
  BY <1>2, <1>3, <1>4 DEF Init, BarrierInv, PendingIsExact

\* pending_requests counts the requests that are queued or being updated: the
\* barrier that wait() is.
THEOREM BarrierCorrect == Spec => []BarrierInv
BY BarrierInit, BarrierStep, PTL DEF Spec

\* The exact counter is a number: it never goes below zero.
LEMMA BarrierTypes == BarrierInv => MapsTypeOK
<1> SUFFICES ASSUME BarrierInv PROVE MapsTypeOK
  OBVIOUS
<1>1. pending_requests \in Nat
  BY BusyIsFinite DEF BarrierInv, TypeBase, PendingIsExact
<1> QED
  BY <1>1 DEF BarrierInv, TypeBase, MapsTypeOK

\* Every variable of the tick has its type, and the unsigned counter
\* pending_requests never goes below zero.
THEOREM TypeCorrect == Spec => []MapsTypeOK
BY BarrierTypes, BarrierCorrect, PTL

\* pending_requests is the number of requests queued or in hand.
THEOREM PendingCorrect == Spec => []PendingIsExact
BY BarrierCorrect, PTL DEF BarrierInv

\* A worker never dereferences the null request of a cancelled queue.
THEOREM NullRequestCorrect == Spec => []NoNullRequestCalled
<1>1. BarrierInv => NoNullRequestCalled
  BY DEF BarrierInv, RequestShape, NoNullRequestCalled
<1> QED
  BY <1>1, BarrierCorrect, PTL

\* While the world thread runs map code of its own no worker runs any.
THEOREM BarrierSeparates == Spec => []WorldThreadIsAlone
<1>1. BarrierInv => WorldThreadIsAlone
  <2> SUFFICES ASSUME BarrierInv, mgr \notin {"scan", "wait", "waitBlocked"}
      PROVE  queue = <<>> /\ \A w \in Workers : worker[w] # "updating"
    BY DEF WorldThreadIsAlone
  <2>1. Len(queue) = 0 /\ Busy = {}
    BY BusyIsFinite DEF BarrierInv, TypeBase, NothingPending, PendingIsExact
  <2> QED
    BY <2>1 DEF BarrierInv, TypeBase, RequestShape, Busy
<1> QED
  BY <1>1, BarrierCorrect, PTL
-----------------------------------------------------------------------------
(* One worker to a map.  Nothing in Map or MapUpdater says that a map is
   handed out once: that follows from the loop over i_maps, which visits a map
   once a tick, and from the barrier, which leaves nothing over from the tick
   before.  *)

\* A map is requested once, be the request queued or in a worker's hands.
EachMapOnce ==
  /\ \A i, j \in 1..Len(queue) : queue[i] = queue[j] => i = j
  /\ \A v, w \in Busy : request[v] = request[w] => v = w
  /\ \A i \in 1..Len(queue) : \A w \in Busy : queue[i] # request[w]

\* A map in a request is loaded, and the loop has passed it.
Requestable(m) == m \in i_maps /\ (mgr = "scan" => m \notin toVisit)

RequestedFromMaps ==
  /\ mgr = "scan" => toVisit \subseteq i_maps
  /\ \A i \in 1..Len(queue) : Requestable(queue[i])
  /\ \A w \in Busy : Requestable(request[w])

ExclusiveInv == EachMapOnce /\ RequestedFromMaps

\* Outside the parallel phase no request exists at all.
LEMMA NoRequestOutsideTick ==
  ASSUME BarrierInv, pending_requests = 0
  PROVE  Len(queue) = 0 /\ Busy = {}
BY BusyIsFinite DEF BarrierInv, TypeBase, PendingIsExact

\* A step that adds no request to the queue or to a worker, and under which the
\* requested maps stay requestable, keeps ExclusiveInv.
LEMMA NoNewRequest ==
  ASSUME ExclusiveInv, queue' = queue, Busy' \subseteq Busy,
         \A w \in Busy' : request'[w] = request[w],
         \A m : Requestable(m) => Requestable(m)',
         mgr' = "scan" => toVisit' \subseteq i_maps'
  PROVE  ExclusiveInv'
BY DEF ExclusiveInv, EachMapOnce, RequestedFromMaps

\* With nothing requested only the loop's own set is left to look at.
LEMMA NothingRequested ==
  ASSUME Len(queue') = 0, Busy' = {}, mgr' = "scan" => toVisit' \subseteq i_maps'
  PROVE  ExclusiveInv'
BY DEF ExclusiveInv, EachMapOnce, RequestedFromMaps

\* No step disturbs ExclusiveInv.
LEMMA ExclusiveStep == BarrierInv /\ ExclusiveInv /\ [Next]_vars => ExclusiveInv'
<1> SUFFICES ASSUME BarrierInv, ExclusiveInv, [Next]_vars PROVE ExclusiveInv'
  OBVIOUS
<1> USE DEF TypeBase, ManagerStates, pcqVars, mgrVars, workerVars
<1>0. TypeBase /\ RequestShape /\ ShutdownShape /\ NothingPending
  BY DEF BarrierInv
<1>1. ASSUME UNCHANGED <<queue, workerVars>>,
             \A m : Requestable(m) => Requestable(m)',
             mgr' = "scan" => toVisit' \subseteq i_maps'
      PROVE  ExclusiveInv'
  BY <1>1, NoNewRequest DEF Busy
<1>2. CASE ManagerStep
  <2>1. CASE MapUpdateBegin
    <3>1. Len(queue) = 0 /\ Busy = {}
      BY <2>1, <1>0, NoRequestOutsideTick DEF MapUpdateBegin, NothingPending
    <3> QED
      BY <2>1, <3>1, NothingRequested DEF MapUpdateBegin, Busy
  <2>2. ASSUME NEW m \in Maps, UnloadMap(m) PROVE ExclusiveInv'
    BY <2>2, <1>0, <1>1 DEF UnloadMap, ExclusiveInv, RequestedFromMaps, Requestable
  <2>3. ASSUME NEW m \in Maps, KeepMap(m) \/ DelayedUpdate(m) PROVE ExclusiveInv'
    BY <2>3, <1>0, <1>1 DEF KeepMap, DelayedUpdate, ExclusiveInv, RequestedFromMaps, Requestable
  <2>4. ASSUME NEW m \in Maps, ScheduleUpdate(m) PROVE ExclusiveInv'
    <3>1. /\ queue' = Append(queue, m) /\ mgr = "scan" /\ mgr' = mgr /\ i_maps' = i_maps
          /\ m \in toVisit /\ toVisit' = toVisit \ {m} /\ Busy' = Busy /\ request' = request
      BY <2>4 DEF ScheduleUpdate, Push, Busy
    <3>2. /\ Len(queue) \in Nat /\ Len(queue') = Len(queue) + 1
          /\ queue'[Len(queue) + 1] = m
          /\ \A i \in 1..Len(queue) : queue'[i] = queue[i]
      BY <3>1, <1>0
    <3>3. /\ \A i \in 1..Len(queue) : queue[i] # m
          /\ \A w \in Busy : request[w] # m
      BY <3>1 DEF ExclusiveInv, RequestedFromMaps, Requestable
    <3>4. EachMapOnce'
      <4>1. ASSUME NEW i \in 1..Len(queue'), NEW j \in 1..Len(queue'), queue'[i] = queue'[j]
            PROVE  i = j
        BY <4>1, <3>2, <3>3 DEF ExclusiveInv, EachMapOnce
      <4>2. \A i \in 1..Len(queue') : \A w \in Busy : queue'[i] # request[w]
        BY <3>2, <3>3 DEF ExclusiveInv, EachMapOnce
      <4> QED
        BY <4>1, <4>2, <3>1 DEF ExclusiveInv, EachMapOnce
    <3>5. RequestedFromMaps'
      <4>1. m \in i_maps /\ toVisit' \subseteq i_maps'
        BY <3>1 DEF ExclusiveInv, RequestedFromMaps
      <4>2. (\A i \in 1..Len(queue) : Requestable(queue[i]))'
        BY <3>1, <3>2, <4>1 DEF ExclusiveInv, RequestedFromMaps, Requestable
      <4>3. (\A w \in Busy : Requestable(request[w]))'
        BY <3>1 DEF ExclusiveInv, RequestedFromMaps, Requestable
      <4> QED
        BY <4>1, <4>2, <4>3 DEF RequestedFromMaps
    <3> QED
      BY <3>4, <3>5 DEF ExclusiveInv
  <2>5. CASE ScanEnd \/ WaitBlocks \/ WaitReturns \/ UpdateEnd \/ DeactivateJoin
    BY <2>5, <1>1 DEF ScanEnd, WaitBlocks, WaitReturns, UpdateEnd, DeactivateJoin, Requestable
  <2>6. CASE DeactivateCancel
    <3>1. Busy = {}
      BY <2>6, NoRequestOutsideTick DEF DeactivateCancel
    <3> QED
      BY <2>6, <3>1, NothingRequested DEF DeactivateCancel, Cancel, Busy
  <2> QED
    BY <1>2, <2>1, <2>2, <2>3, <2>4, <2>5, <2>6 DEF ManagerStep
<1>3. ASSUME NEW m \in Maps, CreateMap(m) PROVE ExclusiveInv'
  BY <1>3, <1>1 DEF CreateMap, Requestable
<1>4. CASE UnloadAll
  <2>1. Len(queue) = 0 /\ Busy = {}
    BY <1>4, <1>0, NoRequestOutsideTick DEF UnloadAll, NothingPending
  <2> QED
    BY <1>4, <2>1, NothingRequested DEF UnloadAll, Busy
<1>5. ASSUME NEW w \in Workers, WorkerStep(w) PROVE ExclusiveInv'
  <2>1. CASE WorkerBlocks(w) \/ WorkerCancelled(w) \/ WorkerExits(w) \/ WorkerCalls(w)
    <3>1. queue' = queue /\ request' = request /\ UNCHANGED mgrVars
      BY <2>1 DEF WorkerBlocks, WaitAndPopBlocks, WorkerCancelled, WaitAndPopCancelled,
                  WorkerExits, WorkerCalls
    <3>2. Busy' \subseteq Busy
      BY <2>1, <1>0 DEF WorkerBlocks, WorkerCancelled, WorkerExits, WorkerCalls, RequestShape, Busy
    <3>3. mgr' = "scan" => toVisit' \subseteq i_maps'
      BY <3>1 DEF ExclusiveInv, RequestedFromMaps
    <3> QED
      BY <3>1, <3>2, <3>3, NoNewRequest DEF Requestable
  <2>2. CASE WorkerPops(w)
    <3>1. /\ queue # <<>> /\ queue' = Tail(queue) /\ UNCHANGED mgrVars
          /\ request'[w] = Head(queue) /\ \A v \in Workers \ {w} : request'[v] = request[v]
      BY <2>2, <1>0 DEF WorkerPops, WaitAndPopReturns
    <3>2. Busy' = Busy \union {w} /\ w \notin Busy /\ Busy \subseteq Workers
      BY <2>2, <1>0, MapsAssumption DEF WorkerPops, WaitAndPopReturns, Busy
    <3>3. /\ Len(queue) \in Nat /\ Len(queue) > 0 /\ Len(queue') = Len(queue) - 1
          /\ Head(queue) = queue[1]
          /\ \A i \in 1..Len(queue') : queue'[i] = queue[i + 1]
      BY <3>1, <1>0
    <3>4. EachMapOnce'
      <4>1. \A i, j \in 1..Len(queue') : queue'[i] = queue'[j] => i = j
        BY <3>3 DEF ExclusiveInv, EachMapOnce
      <4>2. \A u, v \in Busy' : request'[u] = request'[v] => u = v
        BY <3>1, <3>2, <3>3 DEF ExclusiveInv, EachMapOnce
      <4>3. \A i \in 1..Len(queue') : \A v \in Busy' : queue'[i] # request'[v]
        BY <3>1, <3>2, <3>3 DEF ExclusiveInv, EachMapOnce
      <4> QED
        BY <4>1, <4>2, <4>3 DEF EachMapOnce
    <3>5. RequestedFromMaps'
      <4>1. (\A i \in 1..Len(queue) : Requestable(queue[i]))'
        BY <3>1, <3>3 DEF ExclusiveInv, RequestedFromMaps, Requestable
      <4>2. (\A v \in Busy : Requestable(request[v]))'
        BY <3>1, <3>2, <3>3 DEF ExclusiveInv, RequestedFromMaps, Requestable
      <4> QED
        BY <3>1, <4>1, <4>2 DEF ExclusiveInv, RequestedFromMaps
    <3> QED
      BY <3>4, <3>5 DEF ExclusiveInv
  <2>3. CASE UpdateFinished(w)
    <3>1. queue' = queue /\ UNCHANGED <<i_maps, toVisit>> /\ (mgr' = "scan" <=> mgr = "scan")
      BY <2>3 DEF UpdateFinished, NotifyManager
    <3>2. Busy' \subseteq Busy /\ \A v \in Busy' : request'[v] = request[v]
      BY <2>3, <1>0 DEF UpdateFinished, Busy
    <3>3. mgr' = "scan" => toVisit' \subseteq i_maps'
      BY <3>1 DEF ExclusiveInv, RequestedFromMaps
    <3> QED
      BY <3>1, <3>2, <3>3, NoNewRequest DEF Requestable
  <2> QED
    BY <1>5, <2>1, <2>2, <2>3 DEF WorkerStep
<1>6. ASSUME NEW w \in Workers, WorkerSpuriousWakeup(w) PROVE ExclusiveInv'
  BY <1>6, <1>1 DEF WorkerSpuriousWakeup, SpuriousWakeup, ExclusiveInv, RequestedFromMaps, Requestable
<1>7. CASE Stopped \/ UNCHANGED vars
  BY <1>7, <1>1 DEF Stopped, vars, ExclusiveInv, RequestedFromMaps, Requestable
<1> QED
  BY <1>2, <1>3, <1>4, <1>5, <1>6, <1>7 DEF Next

\* No map is loaded when the threads start.
LEMMA ExclusiveInit == Init => ExclusiveInv
BY DEF Init, QueueInit, ExclusiveInv, EachMapOnce, RequestedFromMaps, Busy

\* Map::Update never runs on two workers at once for one map, nor for a map the
\* world thread has erased from i_maps: what stands in for a lock on a map.
THEOREM UpdateCorrect == Spec => []MapUpdateIsExclusive
<1>1. BarrierInv /\ ExclusiveInv => MapUpdateIsExclusive
  <2> SUFFICES ASSUME BarrierInv, ExclusiveInv, NEW w \in Workers, worker[w] = "updating"
      PROVE  /\ request[w] \in i_maps
             /\ \A v \in Workers \ {w} : worker[v] = "updating" => request[v] # request[w]
    BY DEF MapUpdateIsExclusive
  <2>1. \A v \in Workers : worker[v] = "updating" => v \in Busy
    BY DEF BarrierInv, RequestShape, Busy
  <2> QED
    BY <2>1 DEF ExclusiveInv, EachMapOnce, RequestedFromMaps, Requestable
<1>2. Spec => [](BarrierInv /\ ExclusiveInv)
  BY BarrierInit, BarrierStep, ExclusiveInit, ExclusiveStep, PTL DEF Spec
<1> QED
  BY <1>1, <1>2, PTL

-----------------------------------------------------------------------------
(* The threads implement the tick that MapTick promises.  Every request is
   for a loaded map the loop has passed and exists once (ExclusiveInv), so the
   requests, queued or in hand, are sets that a step moves one map between; and
   wait() returns when both are empty (PendingIsExact).  The second loop needs
   an invariant of its own: it visits loaded maps only.  *)

DelayedLoaded == mgr = "delayed" => toVisit \subseteq i_maps

\* No map is unloaded while the second loop runs.
LEMMA DelayedStep == DelayedLoaded /\ [Next]_vars => DelayedLoaded'
<1> SUFFICES ASSUME DelayedLoaded, [Next]_vars PROVE DelayedLoaded'
  OBVIOUS
<1> USE DEF DelayedLoaded, pcqVars, mgrVars, workerVars
<1>1. CASE ManagerStep
  BY <1>1 DEF ManagerStep, MapUpdateBegin, UnloadMap, KeepMap, ScheduleUpdate, DelayedUpdate,
              ScanEnd, WaitBlocks, WaitReturns, UpdateEnd, DeactivateCancel, DeactivateJoin
<1>2. ASSUME NEW w \in Workers, WorkerStep(w) \/ WorkerSpuriousWakeup(w) PROVE DelayedLoaded'
  BY <1>2 DEF WorkerStep, WorkerBlocks, WorkerPops, WorkerCancelled, WorkerExits, WorkerCalls,
              UpdateFinished, NotifyManager, WorkerSpuriousWakeup
<1>3. CASE UnloadAll \/ Stopped \/ UNCHANGED vars \/ \E m \in Maps : CreateMap(m)
  BY <1>3 DEF UnloadAll, Stopped, vars, CreateMap
<1> QED
  BY <1>1, <1>2, <1>3 DEF Next

\* A map in a request is handed over or being updated, never both.
LEMMA RequestsApart ==
  ASSUME BarrierInv, ExclusiveInv
  PROVE  /\ Handed \intersect Updating = {}
         /\ \A m \in Handed \union Updating : Requestable(m)
         /\ \A v \in Workers : worker[v] = "updating" => v \in Busy
<1>1. \A v \in Busy : v \in Workers
  BY DEF Busy
<1> QED
  BY <1>1 DEF BarrierInv, RequestShape, ExclusiveInv, EachMapOnce, RequestedFromMaps,
              Handed, Updating, Busy

\* With nothing pending no map is handed over or being updated.
LEMMA NothingHanded ==
  ASSUME BarrierInv, pending_requests = 0
  PROVE  Handed = {} /\ Updating = {}
BY NoRequestOutsideTick DEF Handed, Updating

\* What a step of the world thread that leaves requests alone keeps.
LEMMA SameRequests ==
  ASSUME UNCHANGED <<queue, workerVars>>
  PROVE  Handed' = Handed /\ Updating' = Updating
BY DEF workerVars, Handed, Updating, Busy

\* Each step of the world thread is one of the tick, or one it does not see.
LEMMA TickManager ==
  ASSUME BarrierInv, ExclusiveInv, DelayedLoaded, ManagerStep
  PROVE  [Tick!Next]_Tick!vars
<1> USE DEF pcqVars, mgrVars, TickPhase, InParallel, Due
<1>0. TypeBase /\ NothingPending
  BY DEF BarrierInv
<1>1. CASE MapUpdateBegin
  <2>1. UNCHANGED <<queue, workerVars>>
    BY <1>1 DEF MapUpdateBegin
  <2> QED
    BY <1>1, <2>1, SameRequests DEF MapUpdateBegin, Tick!Next, Tick!Begin
<1>2. ASSUME NEW m \in Maps, UnloadMap(m) PROVE Tick!Next
  <2>1. UNCHANGED <<queue, workerVars>>
    BY <1>2 DEF UnloadMap
  <2>2. m \notin Handed \union Updating
    BY <1>2, RequestsApart DEF UnloadMap, Requestable
  <2>3. Tick!Unload(m)
    BY <1>2, <2>1, <2>2, SameRequests DEF UnloadMap, Tick!Unload
  <2> QED
    BY <2>3 DEF Tick!Next
<1>3. ASSUME NEW m \in Maps, KeepMap(m) PROVE Tick!Next
  <2>1. UNCHANGED <<queue, workerVars>>
    BY <1>3 DEF KeepMap
  <2>2. Tick!Skip(m)
    BY <1>3, <2>1, SameRequests DEF KeepMap, Tick!Skip
  <2> QED
    BY <2>2 DEF Tick!Next
<1>4. ASSUME NEW m \in Maps, ScheduleUpdate(m) PROVE Tick!Next
  <2>1. /\ queue' = Append(queue, m) /\ mgr = "scan" /\ mgr' = mgr /\ i_maps' = i_maps
        /\ m \in toVisit /\ toVisit' = toVisit \ {m} /\ UNCHANGED workerVars
    BY <1>4 DEF ScheduleUpdate, Push
  <2>2. m \in i_maps /\ m \notin Handed \union Updating
    BY <2>1, RequestsApart DEF ExclusiveInv, RequestedFromMaps, Requestable
  <2>3. /\ Len(queue) \in Nat /\ Len(queue') = Len(queue) + 1
        /\ queue'[Len(queue) + 1] = m
        /\ \A i \in 1..Len(queue) : queue'[i] = queue[i]
    BY <2>1, <1>0 DEF TypeBase
  <2>4. {queue'[i] : i \in 1..Len(queue')} = {queue[i] : i \in 1..Len(queue)} \union {m}
    BY <2>3
  <2>5. Handed' = Handed \union {m} /\ Updating' = Updating
    BY <2>1, <2>4 DEF workerVars, Handed, Updating, Busy
  <2>6. Tick!HandOver(m)
    BY <2>1, <2>2, <2>5 DEF Tick!HandOver
  <2> QED
    BY <2>6 DEF Tick!Next
<1>5. ASSUME NEW m \in Maps, DelayedUpdate(m) PROVE Tick!Next
  <2>1. UNCHANGED <<queue, workerVars>>
    BY <1>5 DEF DelayedUpdate
  <2>2. Tick!DelayedUpdate(m)
    BY <1>5, <2>1, SameRequests DEF DelayedUpdate, DelayedLoaded, Tick!DelayedUpdate
  <2> QED
    BY <2>2 DEF Tick!Next
<1>6. CASE ScanEnd \/ WaitBlocks \/ DeactivateJoin
  <2>1. UNCHANGED <<queue, workerVars>>
    BY <1>6 DEF ScanEnd, WaitBlocks, DeactivateJoin
  <2> QED
    BY <1>6, <2>1, SameRequests DEF ScanEnd, WaitBlocks, DeactivateJoin, Tick!vars
<1>7. CASE WaitReturns
  <2>1. UNCHANGED <<queue, workerVars>>
    BY <1>7 DEF WaitReturns
  <2> QED
    BY <1>7, <2>1, SameRequests, NothingHanded DEF WaitReturns, Tick!BeginDelayed, Tick!Next
<1>8. CASE UpdateEnd
  <2>1. UNCHANGED <<queue, workerVars>>
    BY <1>8 DEF UpdateEnd
  <2> QED
    BY <1>8, <2>1, SameRequests DEF UpdateEnd, Tick!End, Tick!Next
<1>9. CASE DeactivateCancel
  <2>1. Len(queue) = 0 /\ Busy = {}
    BY <1>9, NoRequestOutsideTick DEF DeactivateCancel
  <2>2. Len(queue') = 0 /\ Busy' = {}
    BY <1>9, <2>1 DEF DeactivateCancel, Cancel, workerVars, Busy
  <2>3. Handed' = Handed /\ Updating' = Updating
    BY <2>1, <2>2 DEF Handed, Updating
  <2> QED
    BY <1>9, <2>3 DEF DeactivateCancel, Tick!vars
<1> QED
  BY <1>1, <1>2, <1>3, <1>4, <1>5, <1>6, <1>7, <1>8, <1>9 DEF ManagerStep

\* Each step of a worker is one of the tick, or one it does not see.
LEMMA TickWorker ==
  ASSUME BarrierInv, ExclusiveInv, NEW w \in Workers, WorkerStep(w)
  PROVE  [Tick!Next]_Tick!vars
<1> USE DEF TypeBase, pcqVars, mgrVars, workerVars, TickPhase, InParallel, Due
<1>0. TypeBase /\ RequestShape /\ ShutdownShape /\ NothingPending
  BY DEF BarrierInv
<1>1. CASE WorkerBlocks(w)
  <2>1. UNCHANGED <<queue, workerVars, mgrVars>>
    BY <1>1 DEF WorkerBlocks, WaitAndPopBlocks
  <2> QED
    BY <2>1, SameRequests DEF Tick!vars
<1>2. CASE WorkerPops(w)
  <2>1. /\ queue # <<>> /\ queue' = Tail(queue) /\ UNCHANGED mgrVars
        /\ worker'[w] = "popped" /\ request'[w] = Head(queue)
        /\ \A v \in Workers \ {w} : request'[v] = request[v] /\ worker'[v] = worker[v]
    BY <1>2, <1>0 DEF WorkerPops, WaitAndPopReturns
  <2>2. Busy' = Busy \union {w} /\ w \notin Busy /\ Busy \subseteq Workers
    BY <1>2, <1>0, MapsAssumption DEF WorkerPops, WaitAndPopReturns, Busy
  <2>3. /\ Len(queue) \in Nat /\ Len(queue) > 0 /\ Len(queue') = Len(queue) - 1
        /\ Head(queue) = queue[1]
        /\ \A i \in 1..Len(queue') : queue'[i] = queue[i + 1]
    BY <2>1, <1>0
  <2>4. {queue[i] : i \in 1..Len(queue)} = {queue'[i] : i \in 1..Len(queue')} \union {request'[w]}
    <3>1. \A i \in 1..Len(queue) : i = 1 \/ (i - 1 \in 1..Len(queue') /\ queue'[i - 1] = queue[i])
      BY <2>3
    <3>2. \A i \in 1..Len(queue') : i + 1 \in 1..Len(queue) /\ queue[i + 1] = queue'[i]
      BY <2>3
    <3> QED
      BY <2>1, <2>3, <3>1, <3>2
  <2>5. Handed' = Handed /\ Updating' = Updating
    BY <2>1, <2>2, <2>4 DEF Handed, Updating
  <2> QED
    BY <2>1, <2>5 DEF Tick!vars
<1>3. CASE WorkerCancelled(w) \/ WorkerExits(w)
  <2>1. /\ UNCHANGED <<queue, request, mgrVars>> /\ request[w] = NoRequest
        /\ \A v \in Workers \ {w} : worker'[v] = worker[v]
    <3>1. request[w] = NoRequest
      <4>1. CASE WorkerCancelled(w)
        BY <4>1, <1>0 DEF WorkerCancelled, RequestShape
      <4>2. CASE WorkerExits(w)
        <5>1. Busy = {}
          BY <4>2, <1>0, NoRequestOutsideTick DEF WorkerExits, ShutdownShape, NothingPending
        <5> QED
          BY <4>2, <5>1 DEF WorkerExits, Busy
      <4> QED
        BY <1>3, <4>1, <4>2
    <3> QED
      BY <1>3, <1>0, <3>1 DEF WorkerCancelled, WaitAndPopCancelled, WorkerExits
  <2>2. Busy' = Busy /\ w \notin Busy
    BY <2>1 DEF Busy
  <2>3. Handed' = Handed /\ Updating' = Updating
    BY <2>1, <2>2 DEF Handed, Updating, Busy
  <2> QED
    BY <2>1, <2>3 DEF Tick!vars
<1>4. CASE WorkerCalls(w)
  <2> DEFINE m == request[w]
  <2>1. /\ worker[w] = "popped" /\ worker'[w] = "updating" /\ UNCHANGED <<queue, request, mgrVars>>
        /\ \A v \in Workers \ {w} : worker'[v] = worker[v]
    BY <1>4, <1>0 DEF WorkerCalls
  <2>2. w \in Busy /\ Busy' = Busy /\ Busy \subseteq Workers
    BY <1>4, <1>0 DEF WorkerCalls, RequestShape, Busy
  <2>3. m \in Maps /\ m \in Handed /\ m \notin Updating /\ m \in i_maps
    BY <2>1, <2>2, <1>0, RequestsApart DEF Handed, Requestable, Busy
  <2>4. Handed' = Handed \ {m} /\ Updating' = Updating \union {m}
    BY <2>1, <2>2 DEF Handed, Updating, ExclusiveInv, EachMapOnce
  <2>5. InParallel
    BY <2>2, <1>0, NoRequestOutsideTick DEF NothingPending
  <2>6. Tick!StartUpdate(m)
    BY <2>1, <2>3, <2>4, <2>5 DEF Tick!StartUpdate
  <2> QED
    BY <2>3, <2>6 DEF Tick!Next
<1>5. CASE UpdateFinished(w)
  <2> DEFINE m == request[w]
  <2>1. /\ worker[w] = "updating" /\ worker'[w] = "popping" /\ UNCHANGED <<queue, i_maps, toVisit>>
        /\ \A v \in Workers \ {w} : worker'[v] = worker[v] /\ request'[v] = request[v]
    BY <1>5, <1>0 DEF UpdateFinished
  <2>2. w \in Busy /\ Busy' = Busy \ {w} /\ Busy \subseteq Workers
    BY <1>5, <1>0 DEF UpdateFinished, RequestShape, Busy
  <2>3. m \in Maps /\ m \in Updating
    BY <2>1, <2>2, <1>0 DEF Updating, Busy
  <2>4. Handed' = Handed /\ Updating' = Updating \ {m}
    BY <2>1, <2>2 DEF Handed, Updating, ExclusiveInv, EachMapOnce
  <2>5. InParallel /\ InParallel' /\ Due' = Due
    BY <1>5, <2>2, <1>0, NoRequestOutsideTick DEF NothingPending, UpdateFinished, NotifyManager
  <2>6. Tick!FinishUpdate(m)
    BY <2>1, <2>3, <2>4, <2>5 DEF Tick!FinishUpdate
  <2> QED
    BY <2>3, <2>6 DEF Tick!Next
<1> QED
  BY <1>1, <1>2, <1>3, <1>4, <1>5 DEF WorkerStep

\* Every step of the pool is a step of the tick or leaves what it sees alone.
LEMMA TickStep ==
  BarrierInv /\ ExclusiveInv /\ DelayedLoaded /\ [Next]_vars => [Tick!Next]_Tick!vars
<1> SUFFICES ASSUME BarrierInv, ExclusiveInv, DelayedLoaded, [Next]_vars
    PROVE  [Tick!Next]_Tick!vars
  OBVIOUS
<1>1. CASE ManagerStep
  BY <1>1, TickManager
<1>2. ASSUME NEW w \in Workers, WorkerStep(w) PROVE [Tick!Next]_Tick!vars
  BY <1>2, TickWorker
<1>3. ASSUME NEW w \in Workers, WorkerSpuriousWakeup(w) PROVE [Tick!Next]_Tick!vars
  <2>1. UNCHANGED <<queue, workerVars, mgrVars>>
    BY <1>3 DEF WorkerSpuriousWakeup, SpuriousWakeup
  <2> QED
    BY <2>1, SameRequests DEF mgrVars, TickPhase, InParallel, Due, Tick!vars
<1>4. ASSUME NEW m \in Maps, CreateMap(m) PROVE [Tick!Next]_Tick!vars
  <2>1. UNCHANGED <<queue, workerVars, mgr, toVisit>>
    BY <1>4 DEF CreateMap, pcqVars
  <2>2. Tick!Create(m)
    BY <1>4, <2>1, SameRequests DEF CreateMap, TickPhase, InParallel, Due, Tick!Create
  <2> QED
    BY <2>2 DEF Tick!Next
<1>5. CASE UnloadAll
  <2>1. UNCHANGED <<queue, workerVars>>
    BY <1>5 DEF UnloadAll, pcqVars
  <2> QED
    BY <1>5, <2>1, SameRequests DEF UnloadAll, TickPhase, InParallel, Due, Tick!UnloadAll, Tick!Next
<1>6. CASE Stopped \/ UNCHANGED vars
  <2>1. UNCHANGED <<queue, workerVars, mgrVars>>
    BY <1>6 DEF Stopped, vars, pcqVars
  <2> QED
    BY <2>1, SameRequests DEF mgrVars, TickPhase, InParallel, Due, Tick!vars
<1> QED
  BY <1>1, <1>2, <1>3, <1>4, <1>5, <1>6 DEF Next

\* For every set of maps and of workers the pool, its queue and its counter
\* implement the tick of MapTick: each loaded map is visited once, a map handed
\* over is updated once and by one worker, no update touches an unloaded map,
\* and the delayed updates begin when the last update is over.
THEOREM TickImplemented == Spec => ImplementsTick
<1>1. Init => Tick!Init /\ DelayedLoaded
  <2> SUFFICES ASSUME Init PROVE Tick!Init /\ DelayedLoaded
    OBVIOUS
  <2>1. Handed = {} /\ Updating = {}
    BY DEF Init, QueueInit, Handed, Updating, Busy
  <2> QED
    BY <2>1 DEF Init, TickPhase, InParallel, Due, Tick!Init, DelayedLoaded
<1>2. Spec => [](BarrierInv /\ ExclusiveInv /\ DelayedLoaded)
  BY <1>1, BarrierInit, BarrierStep, ExclusiveInit, ExclusiveStep, DelayedStep, PTL DEF Spec
<1> QED
  BY <1>1, <1>2, TickStep, PTL DEF Spec, ImplementsTick, Tick!Spec

-----------------------------------------------------------------------------
(* The inductive invariant of MPSCQueue: the nodes of the queue in the order of their
   exchanges, from _tail to _head, whether or not they are linked yet.  The
   dummy is among them or outside; outside, its link means nothing. *)

\* q is such a list of nodes.
Lists(q, first, last, links, states, prevs) ==
  /\ q \in Seq(Nodes) /\ Len(q) > 0
  /\ q[1] = first /\ q[Len(q)] = last
  /\ \A i, j \in 1 .. Len(q) : q[i] = q[j] => i = j
  /\ states[q[1]] = "in" /\ links[q[Len(q)]] = Null
  /\ \A i \in 1 .. Len(q) - 1 :
       \/ states[q[i + 1]] = "in" /\ links[q[i]] = q[i + 1]
       \/ states[q[i + 1]] = "entering" /\ prevs[q[i + 1]] = q[i] /\ links[q[i]] = Null
  /\ \A i \in 1 .. Len(q) : states[q[i]] \in {"entering", "in"}
  /\ \A n \in Nodes :
       (\A i \in 1 .. Len(q) : q[i] # n)
         => states[n] \in (IF n = Dummy THEN {"in"} ELSE {"new", "freed"})

\* Where the consumer is: it holds the first node and perhaps the second, and
\* puts the dummy in when the first was the only one.
Stands(q, step, first, second, links, states) ==
  /\ step \in {"tailNext", "enqueueDummy", "linkDummy", "again"} => second = Null
  /\ step = "skipDummy" => first = Dummy /\ second = links[first] /\ second # Null
  /\ step = "found" => first # Dummy /\ (second = Null \/ second = links[first])
  /\ step = "enqueueDummy" => first # Dummy /\ \A i \in 1 .. Len(q) : q[i] # Dummy
  /\ step = "linkDummy" <=> states[Dummy] = "entering"
  /\ step \in {"linkDummy", "again"} => first # Dummy /\ \E i \in 1 .. Len(q) : q[i] = Dummy
  /\ step = "take" => first # Dummy /\ second = links[first] /\ second # Null

\* What is not excused: no Enqueue is under way, and there is something to take.
Unexcused(q, step, second, states) ==
  /\ \A i \in 1 .. Len(q) : q[i] # Dummy => states[q[i]] = "in"
  /\ \E i \in 1 .. Len(q) : q[i] # Dummy
  /\ step = "found" /\ second = Null => Len(q) = 1

\* What a node is to the abstract queue.
Own(n) == IF n = Dummy THEN <<>> ELSE <<n>>

\* w[i] is what the nodes from q[i] on are to the abstract queue.
Shows(w, q) ==
  /\ w \in [1 .. Len(q) + 1 -> Seq(Items)]
  /\ w[Len(q) + 1] = <<>>
  /\ \A i \in 1 .. Len(q) : w[i] = Own(q[i]) \o w[i + 1]

\* All of it, for one state of the variables.
At(q, w, first, last, links, states, prevs, step, found, second, excused) ==
  /\ Lists(q, first, last, links, states, prevs)
  /\ Shows(w, q)
  /\ found \in Nodes \union {Null} /\ (step # "idle" => found = first)
  /\ Stands(q, step, found, second, links, states)
  /\ step # "idle" /\ ~excused => Unexcused(q, step, second, states)

Now(q, w) == At(q, w, _tail, _head, link, state, prev, consumer, tail, next, overlapped)

QueueInv == QueueTypeOK /\ \E q, w : Now(q, w)

-----------------------------------------------------------------------------
(* What the steps do to the list. *)

\* The functions of a state of the queue.
Fields(links, states, prevs) ==
  /\ links \in [Nodes -> Nodes \union {Null}]
  /\ states \in [Nodes -> {"new", "entering", "in", "freed"}]
  /\ prevs \in [Nodes -> Nodes \union {Null}]

\* The exchange of a node puts it last.
LEMMA ListsExchange ==
  ASSUME NEW q, NEW first, NEW last, NEW links, NEW states, NEW prevs,
         Fields(links, states, prevs), Lists(q, first, last, links, states, prevs),
         NEW n \in Nodes, \A i \in 1 .. Len(q) : q[i] # n
  PROVE  Lists(Append(q, n), first, n, [links EXCEPT ![n] = Null],
               [states EXCEPT ![n] = "entering"], [prevs EXCEPT ![n] = last])
<1> DEFINE r == Append(q, n)
           ls == [links EXCEPT ![n] = Null]
           ss == [states EXCEPT ![n] = "entering"]
           ps == [prevs EXCEPT ![n] = last]
           k == Len(q)
<1>1. /\ k \in Nat \ {0} /\ q \in Seq(Nodes) /\ \A i \in 1 .. k : q[i] \in Nodes /\ q[i] # n
      /\ r \in Seq(Nodes) /\ Len(r) = k + 1 /\ r[k + 1] = n /\ \A i \in 1 .. k : r[i] = q[i]
  BY DEF Lists
<1>2. /\ ls[n] = Null /\ ss[n] = "entering" /\ ps[n] = last
      /\ \A m \in Nodes \ {n} : ls[m] = links[m] /\ ss[m] = states[m] /\ ps[m] = prevs[m]
  BY DEF Fields
<1> HIDE DEF r, ls, ss, ps, k
<1>3. \A i \in 1 .. k : ls[r[i]] = links[q[i]] /\ ss[r[i]] = states[q[i]] /\ ps[r[i]] = prevs[q[i]]
  BY <1>1, <1>2
<1>4. /\ q[1] = first /\ q[k] = last /\ states[q[1]] = "in" /\ links[q[k]] = Null
      /\ \A i, j \in 1 .. k : q[i] = q[j] => i = j
      /\ \A i \in 1 .. k - 1 :
           \/ states[q[i + 1]] = "in" /\ links[q[i]] = q[i + 1]
           \/ states[q[i + 1]] = "entering" /\ prevs[q[i + 1]] = q[i] /\ links[q[i]] = Null
      /\ \A i \in 1 .. k : states[q[i]] \in {"entering", "in"}
      /\ \A m \in Nodes :
           (\A i \in 1 .. k : q[i] # m)
             => states[m] \in (IF m = Dummy THEN {"in"} ELSE {"new", "freed"})
  BY DEF Lists, k
<1>5. r[1] = first /\ r[Len(r)] = n /\ ss[r[1]] = "in" /\ ls[r[Len(r)]] = Null
  BY <1>1, <1>2, <1>3, <1>4
<1>6. \A i, j \in 1 .. Len(r) : r[i] = r[j] => i = j
  <2> TAKE i, j \in 1 .. Len(r)
  <2> HAVE r[i] = r[j]
  <2>1. i \in 1 .. k \/ i = k + 1
    BY <1>1
  <2>2. j \in 1 .. k \/ j = k + 1
    BY <1>1
  <2> QED
    BY <2>1, <2>2, <1>1, <1>4
<1>7. ASSUME NEW i \in 1 .. Len(r) - 1
      PROVE  \/ ss[r[i + 1]] = "in" /\ ls[r[i]] = r[i + 1]
             \/ ss[r[i + 1]] = "entering" /\ ps[r[i + 1]] = r[i] /\ ls[r[i]] = Null
  <2>1. CASE i = k
    <3>1. k \in 1 .. k /\ r[k] = last /\ r[k + 1] = n /\ ls[r[k]] = Null
      BY <1>1, <1>3, <1>4
    <3> QED
      BY <3>1, <2>1, <1>2
  <2>2. CASE i # k
    <3>1. i \in 1 .. k /\ i + 1 \in 1 .. k /\ i \in 1 .. k - 1
      BY <2>2, <1>1
    <3>2. /\ r[i] = q[i] /\ r[i + 1] = q[i + 1] /\ ls[r[i]] = links[q[i]]
          /\ ss[r[i + 1]] = states[q[i + 1]] /\ ps[r[i + 1]] = prevs[q[i + 1]]
      BY <3>1, <1>1, <1>3
    <3> QED
      BY <3>1, <3>2, <1>4
  <2> QED
    BY <2>1, <2>2
<1>8. \A i \in 1 .. Len(r) : ss[r[i]] \in {"entering", "in"}
  <2> TAKE i \in 1 .. Len(r)
  <2>1. i \in 1 .. k \/ i = k + 1
    BY <1>1
  <2> QED
    BY <2>1, <1>1, <1>2, <1>3, <1>4
<1>9. ASSUME NEW m \in Nodes, \A i \in 1 .. Len(r) : r[i] # m
      PROVE  ss[m] \in (IF m = Dummy THEN {"in"} ELSE {"new", "freed"})
  <2>1. m # n /\ \A i \in 1 .. k : q[i] # m
    <3>1. k + 1 \in 1 .. Len(r) /\ \A i \in 1 .. k : i \in 1 .. Len(r)
      BY <1>1
    <3>2. r[k + 1] # m /\ \A i \in 1 .. k : r[i] # m
      BY <3>1, <1>9
    <3> QED
      BY <3>2, <1>1
  <2> QED
    BY <2>1, <1>2, <1>4
<1>10. Lists(r, first, n, ls, ss, ps)
  BY <1>1, <1>5, <1>6, <1>7, <1>8, <1>9 DEF Lists
<1> QED
  BY <1>10 DEF r, ls, ss, ps, k

\* The node an Enqueue has to link from is in the list, and has no link yet.
LEMMA EnteringHasPrev ==
  ASSUME NEW q, NEW first, NEW last, NEW links, NEW states, NEW prevs,
         Lists(q, first, last, links, states, prevs),
         NEW n \in Nodes, states[n] = "entering"
  PROVE  prevs[n] \in Nodes /\ links[prevs[n]] = Null
<1> DEFINE k == Len(q)
<1>1. /\ k \in Nat \ {0} /\ \A i \in 1 .. k : q[i] \in Nodes
      /\ states[q[1]] = "in"
      /\ \A i \in 1 .. k - 1 :
           \/ states[q[i + 1]] = "in" /\ links[q[i]] = q[i + 1]
           \/ states[q[i + 1]] = "entering" /\ prevs[q[i + 1]] = q[i] /\ links[q[i]] = Null
      /\ (\A i \in 1 .. k : q[i] # n) => states[n] \in {"in", "new", "freed"}
  BY DEF Lists
<1> HIDE DEF k
<1>2. PICK at \in 1 .. k : q[at] = n
  BY <1>1
<1>3. at # 1 /\ at - 1 \in 1 .. k - 1 /\ at - 1 \in 1 .. k /\ (at - 1) + 1 = at
  BY <1>1, <1>2
<1>4. q[at - 1] = prevs[n] /\ links[q[at - 1]] = Null
  BY <1>1, <1>2, <1>3
<1> QED
  BY <1>1, <1>3, <1>4

\* A node that is linked stays where it is.
LEMMA ListsLink ==
  ASSUME NEW q, NEW first, NEW last, NEW links, NEW states, NEW prevs,
         Fields(links, states, prevs), Lists(q, first, last, links, states, prevs),
         NEW n \in Nodes, states[n] = "entering"
  PROVE  /\ Lists(q, first, last, [links EXCEPT ![prevs[n]] = n],
                  [states EXCEPT ![n] = "in"], prevs)
         /\ prevs[n] \in Nodes /\ links[prevs[n]] = Null
<1> DEFINE ls == [links EXCEPT ![prevs[n]] = n]
           ss == [states EXCEPT ![n] = "in"]
           k == Len(q)
<1>1. /\ k \in Nat \ {0} /\ q \in Seq(Nodes) /\ \A i \in 1 .. k : q[i] \in Nodes
      /\ q[1] = first /\ q[k] = last /\ states[q[1]] = "in" /\ links[q[k]] = Null
      /\ \A i, j \in 1 .. k : q[i] = q[j] => i = j
      /\ \A i \in 1 .. k - 1 :
           \/ states[q[i + 1]] = "in" /\ links[q[i]] = q[i + 1]
           \/ states[q[i + 1]] = "entering" /\ prevs[q[i + 1]] = q[i] /\ links[q[i]] = Null
      /\ \A i \in 1 .. k : states[q[i]] \in {"entering", "in"}
      /\ \A m \in Nodes :
           (\A i \in 1 .. k : q[i] # m)
             => states[m] \in (IF m = Dummy THEN {"in"} ELSE {"new", "freed"})
  BY DEF Lists
<1> HIDE DEF k
<1>2. PICK at \in 1 .. k : q[at] = n
  BY <1>1
<1>3. at # 1 /\ at - 1 \in 1 .. k - 1
  BY <1>1, <1>2
<1>4. q[at - 1] = prevs[n] /\ links[q[at - 1]] = Null /\ q[(at - 1) + 1] = n
  <2>1. (at - 1) + 1 = at
    BY <1>1
  <2> QED
    BY <2>1, <1>1, <1>2, <1>3
<1>5. /\ prevs[n] \in Nodes /\ ls[prevs[n]] = n /\ ss[n] = "in"
      /\ \A m \in Nodes \ {prevs[n]} : ls[m] = links[m]
      /\ \A m \in Nodes \ {n} : ss[m] = states[m]
  <2>1. prevs[n] \in Nodes
    BY <1>1, <1>3, <1>4
  <2> QED
    BY <2>1 DEF Fields
<1> HIDE DEF ls, ss
<1>6. q[1] # n /\ q[k] # prevs[n]
  BY <1>1, <1>2, <1>3, <1>4
<1>7. ss[q[1]] = "in" /\ ls[q[k]] = Null
  BY <1>1, <1>5, <1>6
<1>8. ASSUME NEW i \in 1 .. k - 1
      PROVE  \/ ss[q[i + 1]] = "in" /\ ls[q[i]] = q[i + 1]
             \/ ss[q[i + 1]] = "entering" /\ prevs[q[i + 1]] = q[i] /\ ls[q[i]] = Null
  <2>0. i \in 1 .. k /\ i + 1 \in 1 .. k /\ at - 1 \in 1 .. k
    BY <1>1, <1>3
  <2>1. CASE i = at - 1
    BY <2>1, <1>4, <1>5
  <2>2. CASE i # at - 1
    <3>1. q[i] # prevs[n]
      BY <2>0, <2>2, <1>1, <1>4
    <3>2. q[i + 1] # n
      <4>1. i + 1 # at
        BY <2>0, <2>2, <1>1
      <4> QED
        BY <4>1, <2>0, <1>1, <1>2
    <3> QED
      BY <3>1, <3>2, <2>0, <1>1, <1>5
  <2> QED
    BY <2>1, <2>2
<1>9. \A i \in 1 .. k : ss[q[i]] \in {"entering", "in"}
  BY <1>1, <1>5
<1>10. ASSUME NEW m \in Nodes, \A i \in 1 .. k : q[i] # m
       PROVE  ss[m] \in (IF m = Dummy THEN {"in"} ELSE {"new", "freed"})
  BY <1>1, <1>2, <1>5, <1>10
<1>11. Lists(q, first, last, ls, ss, prevs)
  BY <1>1, <1>7, <1>8, <1>9, <1>10 DEF Lists, k
<1> QED
  BY <1>4, <1>5, <1>11 DEF ls, ss, k

\* Moving _tail on takes the first node out of the list.
LEMMA ListsTail ==
  ASSUME NEW q, NEW first, NEW last, NEW links, NEW states, NEW prevs,
         Fields(links, states, prevs), Lists(q, first, last, links, states, prevs),
         links[first] # Null,
         NEW ss, ss = IF first = Dummy THEN states ELSE [states EXCEPT ![first] = "freed"]
  PROVE  /\ Lists(Tail(q), links[first], last, links, ss, prevs)
         /\ Len(q) > 1 /\ links[first] = q[2] /\ states[q[2]] = "in"
<1> DEFINE r == Tail(q)
           k == Len(q)
<1>1. /\ k \in Nat \ {0} /\ q \in Seq(Nodes) /\ \A i \in 1 .. k : q[i] \in Nodes
      /\ q[1] = first /\ q[k] = last /\ states[q[1]] = "in" /\ links[q[k]] = Null
      /\ \A i, j \in 1 .. k : q[i] = q[j] => i = j
      /\ \A i \in 1 .. k - 1 :
           \/ states[q[i + 1]] = "in" /\ links[q[i]] = q[i + 1]
           \/ states[q[i + 1]] = "entering" /\ prevs[q[i + 1]] = q[i] /\ links[q[i]] = Null
      /\ \A i \in 1 .. k : states[q[i]] \in {"entering", "in"}
      /\ \A m \in Nodes :
           (\A i \in 1 .. k : q[i] # m)
             => states[m] \in (IF m = Dummy THEN {"in"} ELSE {"new", "freed"})
  BY DEF Lists
<1>2. /\ r \in Seq(Nodes) /\ Len(r) = k - 1 /\ \A i \in 1 .. k - 1 : r[i] = q[i + 1]
  BY <1>1
<1> HIDE DEF r, k
<1>3. k > 1 /\ 1 \in 1 .. k - 1
  BY <1>1
<1>4. links[first] = q[2] /\ states[q[2]] = "in"
  <2>1. q[1 + 1] = q[2]
    OBVIOUS
  <2> QED
    BY <2>1, <1>1, <1>3
<1>5. /\ first \in Nodes /\ \A m \in Nodes \ {first} : ss[m] = states[m]
      /\ ss[first] = IF first = Dummy THEN "in" ELSE "freed"
  BY <1>1 DEF Fields
<1>6. \A i \in 1 .. k - 1 : ss[r[i]] = states[q[i + 1]]
  <2> TAKE i \in 1 .. k - 1
  <2>1. i + 1 \in 1 .. k /\ i + 1 # 1 /\ 1 \in 1 .. k
    BY <1>1
  <2>2. q[i + 1] # first /\ q[i + 1] \in Nodes
    BY <2>1, <1>1
  <2> QED
    BY <2>2, <1>2, <1>5
<1>7. r[1] = q[2] /\ r[Len(r)] = last /\ ss[r[1]] = "in" /\ links[r[Len(r)]] = Null
  <2>1. k - 1 \in 1 .. k - 1 /\ (k - 1) + 1 = k /\ 1 + 1 = 2
    BY <1>1, <1>3
  <2> QED
    BY <2>1, <1>1, <1>2, <1>3, <1>4, <1>6
<1>8. \A i, j \in 1 .. Len(r) : r[i] = r[j] => i = j
  <2> TAKE i, j \in 1 .. Len(r)
  <2>1. i \in 1 .. k - 1 /\ j \in 1 .. k - 1 /\ i + 1 \in 1 .. k /\ j + 1 \in 1 .. k
    BY <1>1, <1>2
  <2>2. q[i + 1] = q[j + 1] => i + 1 = j + 1
    BY <2>1, <1>1
  <2> QED
    BY <2>1, <2>2, <1>2
<1>9. ASSUME NEW i \in 1 .. Len(r) - 1
      PROVE  \/ ss[r[i + 1]] = "in" /\ links[r[i]] = r[i + 1]
             \/ ss[r[i + 1]] = "entering" /\ prevs[r[i + 1]] = r[i] /\ links[r[i]] = Null
  <2>1. i \in 1 .. k - 1 /\ i + 1 \in 1 .. k - 1
    BY <1>1, <1>2
  <2>2. r[i] = q[i + 1] /\ r[i + 1] = q[(i + 1) + 1] /\ ss[r[i + 1]] = states[q[(i + 1) + 1]]
    BY <2>1, <1>2, <1>6
  <2> QED
    BY <2>1, <2>2, <1>1
<1>10. \A i \in 1 .. Len(r) : ss[r[i]] \in {"entering", "in"}
  <2> TAKE i \in 1 .. Len(r)
  <2>1. i \in 1 .. k - 1 /\ i + 1 \in 1 .. k
    BY <1>1, <1>2
  <2> QED
    BY <2>1, <1>1, <1>6
<1>11. ASSUME NEW m \in Nodes, \A i \in 1 .. Len(r) : r[i] # m
       PROVE  ss[m] \in (IF m = Dummy THEN {"in"} ELSE {"new", "freed"})
  <2>1. CASE m = first
    BY <2>1, <1>5
  <2>2. CASE m # first
    <3>1. ASSUME NEW i \in 1 .. k PROVE q[i] # m
      <4>1. CASE i = 1
        BY <4>1, <2>2, <1>1
      <4>2. CASE i # 1
        <5>1. i - 1 \in 1 .. k - 1 /\ (i - 1) + 1 = i
          BY <4>2, <1>1
        <5> QED
          BY <5>1, <1>2, <1>11
      <4> QED
        BY <4>1, <4>2
    <3> QED
      BY <3>1, <2>2, <1>1, <1>5
  <2> QED
    BY <2>1, <2>2
<1>12. Len(r) > 0
  BY <1>1, <1>2, <1>3
<1>13. Lists(r, links[first], last, links, ss, prevs)
  BY <1>2, <1>4, <1>7, <1>8, <1>9, <1>10, <1>11, <1>12 DEF Lists
<1> QED
  BY <1>3, <1>4, <1>13 DEF r, k

-----------------------------------------------------------------------------
(* What the steps do to what is shown. *)

\* The items a node has by itself.
LEMMA OwnType ==
  ASSUME NEW n \in Nodes
  PROVE  Own(n) \in Seq(Items)
BY DEF Own, Nodes

\* A node put last is shown last.
LEMMA ShowsAppend ==
  ASSUME NEW q \in Seq(Nodes), NEW w, Shows(w, q), NEW n \in Nodes
  PROVE  \E x : Shows(x, Append(q, n)) /\ x[1] = w[1] \o Own(n)
<1> DEFINE k == Len(q)
           r == Append(q, n)
           x == [i \in 1 .. k + 2 |-> IF i = k + 2 THEN <<>> ELSE w[i] \o Own(n)]
<1>1. /\ k \in Nat /\ r \in Seq(Nodes) /\ Len(r) = k + 1 /\ r[k + 1] = n
      /\ \A i \in 1 .. k : r[i] = q[i] /\ q[i] \in Nodes
  OBVIOUS
<1>2. /\ w \in [1 .. k + 1 -> Seq(Items)] /\ w[k + 1] = <<>>
      /\ \A i \in 1 .. k : w[i] = Own(q[i]) \o w[i + 1]
  BY DEF Shows
<1>3. Own(n) \in Seq(Items) /\ \A i \in 1 .. k : Own(q[i]) \in Seq(Items)
  BY <1>1, OwnType
<1> HIDE DEF k, r
<1>4. x \in [1 .. Len(r) + 1 -> Seq(Items)] /\ x[Len(r) + 1] = <<>>
  <2>1. \A i \in 1 .. k + 1 : w[i] \o Own(n) \in Seq(Items)
    BY <1>2, <1>3, ConcatProperties
  <2> QED
    BY <2>1, <1>1
<1>5. ASSUME NEW i \in 1 .. Len(r) PROVE x[i] = Own(r[i]) \o x[i + 1]
  <2>1. CASE i = k + 1
    <3>1. x[k + 1] = w[k + 1] \o Own(n) /\ x[k + 1 + 1] = <<>>
      BY <1>1
    <3>2. <<>> \o Own(n) = Own(n) /\ Own(n) \o <<>> = Own(n)
      BY <1>3, ConcatEmptySeq
    <3> QED
      BY <3>1, <3>2, <2>1, <1>1, <1>2
  <2>2. CASE i # k + 1
    <3>1. i \in 1 .. k /\ i + 1 \in 1 .. k + 1
      BY <2>2, <1>1
    <3>2. x[i] = w[i] \o Own(n) /\ x[i + 1] = w[i + 1] \o Own(n)
      BY <3>1, <1>1
    <3> DEFINE a == Own(q[i])
               b == w[i + 1]
               c == Own(n)
    <3>3. w[i] = a \o b /\ a \in Seq(Items) /\ b \in Seq(Items) /\ c \in Seq(Items) /\ r[i] = q[i]
      BY <3>1, <1>1, <1>2, <1>3
    <3> HIDE DEF a, b, c
    <3>4. (a \o b) \o c = a \o (b \o c)
      BY <3>3, ConcatAssociative
    <3>5. x[i] = a \o (b \o c)
      BY <3>2, <3>3, <3>4 DEF c
    <3> QED
      BY <3>2, <3>3, <3>5 DEF a, b, c
  <2> QED
    BY <2>1, <2>2
<1>6. x[1] = w[1] \o Own(n)
  BY <1>1
<1>7. Shows(x, r)
  BY <1>4, <1>5 DEF Shows
<1> QED
  BY <1>6, <1>7 DEF r

\* Without the first node, what it is to the abstract queue is missing.
LEMMA ShowsTail ==
  ASSUME NEW q \in Seq(Nodes), Len(q) > 0, NEW w, Shows(w, q)
  PROVE  \E x : Shows(x, Tail(q)) /\ w[1] = Own(q[1]) \o x[1] /\ x[1] \in Seq(Items)
<1> DEFINE k == Len(q)
           r == Tail(q)
           x == [i \in 1 .. k |-> w[i + 1]]
<1>1. /\ k \in Nat \ {0} /\ r \in Seq(Nodes) /\ Len(r) = k - 1
      /\ \A i \in 1 .. k - 1 : r[i] = q[i + 1]
  OBVIOUS
<1>2. /\ w \in [1 .. k + 1 -> Seq(Items)] /\ w[k + 1] = <<>>
      /\ \A i \in 1 .. k : w[i] = Own(q[i]) \o w[i + 1]
  BY DEF Shows
<1> HIDE DEF k, r
<1>3. x \in [1 .. Len(r) + 1 -> Seq(Items)] /\ x[Len(r) + 1] = <<>>
  BY <1>1, <1>2
<1>4. ASSUME NEW i \in 1 .. Len(r) PROVE x[i] = Own(r[i]) \o x[i + 1]
  <2>1. i \in 1 .. k - 1 /\ i \in 1 .. k /\ i + 1 \in 1 .. k
    BY <1>1
  <2> QED
    BY <2>1, <1>1, <1>2
<1>5. w[1] = Own(q[1]) \o x[1] /\ x[1] \in Seq(Items)
  <2>1. 1 \in 1 .. k /\ 1 + 1 \in 1 .. k + 1 /\ x[1] = w[1 + 1]
    BY <1>1
  <2> QED
    BY <2>1, <1>2
<1>6. Shows(x, r)
  BY <1>3, <1>4 DEF Shows
<1> QED
  BY <1>5, <1>6 DEF r

\* Nothing is shown only of the dummy alone.
LEMMA ShowsNothing ==
  ASSUME NEW q \in Seq(Nodes), NEW w, Shows(w, q), Len(q) > 0,
         \A i, j \in 1 .. Len(q) : q[i] = q[j] => i = j
  PROVE  w[1] # <<>> <=> \E i \in 1 .. Len(q) : q[i] # Dummy
<1> DEFINE k == Len(q)
<1>1. /\ k \in Nat \ {0} /\ \A i \in 1 .. k : q[i] \in Nodes
  OBVIOUS
<1>0. /\ w \in [1 .. k + 1 -> Seq(Items)] /\ w[k + 1] = <<>>
      /\ \A i \in 1 .. k : w[i] = Own(q[i]) \o w[i + 1]
      /\ \A i, j \in 1 .. k : q[i] = q[j] => i = j
  BY DEF Shows
<1> HIDE DEF k
<1>2. ASSUME NEW i \in 1 .. k, q[i] # Dummy PROVE w[i] # <<>>
  <2> DEFINE own == <<q[i]>>
             rest == w[i + 1]
  <2>1. own \in Seq(Items) /\ Own(q[i]) = own
    BY <1>1, <1>2 DEF Own, Nodes
  <2>2. w[i] = Own(q[i]) \o rest
    BY <1>0
  <2>3. own # <<>>
    OBVIOUS
  <2>4. rest \in Seq(Items)
    <3>1. i + 1 \in 1 .. k + 1
      BY <1>1
    <3> QED
      BY <3>1, <1>0
  <2> HIDE DEF own, rest
  <2> QED
    BY <2>1, <2>2, <2>3, <2>4, ConcatEqualIffEmpty
<1>6. k = Len(q)
  BY DEF k
<1>3. CASE q[1] # Dummy
  BY <1>1, <1>2, <1>3, <1>6
<1>4. CASE q[1] = Dummy /\ k = 1
  <2>1. Own(q[1]) = <<>> /\ w[1 + 1] = <<>> /\ 1 \in 1 .. k
    BY <1>0, <1>4 DEF Own
  <2>2. <<>> \in Seq(Items) /\ <<>> \o <<>> = <<>>
    BY ConcatEmptySeq
  <2>3. w[1] = <<>>
    BY <2>1, <2>2, <1>0
  <2> QED
    <3>1. \A i \in 1 .. 1 : i = 1
      OBVIOUS
    <3>2. Len(q) = 1
      BY <1>4, <1>6
    <3> QED
      BY <3>1, <3>2, <2>3, <1>4
<1>5. CASE q[1] = Dummy /\ k # 1
  <2>1. 1 \in 1 .. k /\ 2 \in 1 .. k /\ 1 + 1 = 2 /\ 2 \in 1 .. k + 1
    BY <1>1, <1>5
  <2>2. q[2] # Dummy
    BY <2>1, <1>0, <1>5
  <2>3. Own(q[1]) = <<>> /\ w[2] \in Seq(Items)
    BY <2>1, <1>0, <1>5 DEF Own
  <2>4. <<>> \o w[2] = w[2]
    BY <2>3, ConcatEmptySeq
  <2>5. w[1] = w[2]
    BY <2>1, <2>3, <2>4, <1>0
  <2> QED
    BY <2>1, <2>2, <2>5, <1>2, <1>6
<1> QED
  BY <1>3, <1>4, <1>5

-----------------------------------------------------------------------------
(* The steps, each with the step of the abstract queue it is: c is what is
   shown before it, and d after it. *)

Begins(c, d) ==
  \E n \in Items :
    /\ n \notin Entering /\ Entering' = Entering \union {n}
    /\ d = Append(c, n) /\ overlapped' = (consumer # "idle")
    /\ (consumer' # "idle") = (consumer # "idle") /\ result' = result

Ends(c, d) ==
  \E n \in Items :
    /\ n \in Entering /\ Entering' = Entering \ {n}
    /\ d = c /\ overlapped' = overlapped
    /\ (consumer' # "idle") = (consumer # "idle") /\ result' = result

Calls(c, d) ==
  /\ consumer = "idle" /\ consumer' # "idle"
  /\ overlapped' = (c = <<>> \/ Entering # {}) /\ result' = Null
  /\ d = c /\ Entering' = Entering

Takes1(c, d) ==
  /\ consumer # "idle" /\ consumer' = "idle" /\ overlapped' = FALSE
  /\ c # <<>> /\ result' = Head(c) /\ d = Tail(c) /\ Entering' = Entering

Fails1(c, d) ==
  /\ consumer # "idle" /\ consumer' = "idle" /\ overlapped' = FALSE
  /\ overlapped /\ d = c /\ Entering' = Entering /\ result' = result

Inner(c, d) ==
  /\ (consumer' # "idle") = (consumer # "idle") /\ overlapped' = overlapped
  /\ d = c /\ Entering' = Entering /\ result' = result

Simulates(c, d) ==
  Begins(c, d) \/ Ends(c, d) \/ Calls(c, d) \/ Takes1(c, d) \/ Fails1(c, d) \/ Inner(c, d)

\* What every step can use.
LEMMA Basics ==
  ASSUME QueueTypeOK, NEW q, NEW w, Now(q, w)
  PROVE  /\ Fields(link, state, prev)
         /\ Lists(q, _tail, _head, link, state, prev) /\ Shows(w, q)
         /\ q \in Seq(Nodes) /\ Len(q) \in Nat \ {0} /\ \A i \in 1 .. Len(q) : q[i] \in Nodes
         /\ q[1] = _tail /\ q[Len(q)] = _head /\ 1 \in 1 .. Len(q)
         /\ \A i, j \in 1 .. Len(q) : q[i] = q[j] => i = j
         /\ \A i \in 1 .. Len(q) : state[q[i]] \in {"entering", "in"}
         /\ \A n \in Nodes : state[n] \in {"entering", "in"} /\ n # Dummy =>
              \E i \in 1 .. Len(q) : q[i] = n
         /\ Dummy \notin Items /\ Dummy \in Nodes /\ Null \notin Nodes
         /\ w[1] \in Seq(Items)
<1>1. /\ Lists(q, _tail, _head, link, state, prev) /\ Shows(w, q)
      /\ q \in Seq(Nodes) /\ Len(q) \in Nat \ {0}
  BY DEF Now, At, Lists
<1>2. w[1] \in Seq(Items)
  <2>1. 1 \in 1 .. Len(q) + 1
    BY <1>1
  <2> QED
    BY <2>1, <1>1 DEF Shows
<1>3. Fields(link, state, prev)
  BY DEF QueueTypeOK, Fields
<1>4. Dummy \notin Items /\ Dummy \in Nodes /\ Null \notin Nodes
  BY QueueAssumption DEF Nodes
<1>5. \A i \in 1 .. Len(q) : q[i] \in Nodes
  BY <1>1
<1>6. /\ q[1] = _tail /\ q[Len(q)] = _head /\ 1 \in 1 .. Len(q)
      /\ \A i, j \in 1 .. Len(q) : q[i] = q[j] => i = j
      /\ \A i \in 1 .. Len(q) : state[q[i]] \in {"entering", "in"}
  BY <1>1 DEF Lists
<1>7. \A n \in Nodes : state[n] \in {"entering", "in"} /\ n # Dummy =>
        \E i \in 1 .. Len(q) : q[i] = n
  BY <1>1 DEF Lists
<1> QED
  BY <1>1, <1>2, <1>3, <1>4, <1>5, <1>6, <1>7

\* If no Enqueue is under way, a node without a successor is the last.
LEMMA NoSuccessor ==
  ASSUME NEW q, NEW first, NEW last, NEW links, NEW states, NEW prevs, NEW step, NEW second,
         Lists(q, first, last, links, states, prevs), Unexcused(q, step, second, states),
         states[Dummy] # "entering", links[first] = Null
  PROVE  Len(q) = 1
<1>1. /\ q \in Seq(Nodes) /\ Len(q) \in Nat \ {0} /\ q[1] = first
      /\ \A i \in 1 .. Len(q) - 1 :
           \/ states[q[i + 1]] = "in" /\ links[q[i]] = q[i + 1]
           \/ states[q[i + 1]] = "entering" /\ prevs[q[i + 1]] = q[i] /\ links[q[i]] = Null
  BY DEF Lists
<1> SUFFICES ASSUME Len(q) # 1 PROVE FALSE
  OBVIOUS
<1>2. 1 \in 1 .. Len(q) - 1 /\ 1 + 1 = 2 /\ 2 \in 1 .. Len(q)
  <2> DEFINE k == Len(q)
  <2>1. k \in Nat \ {0} /\ k # 1
    BY <1>1
  <2> HIDE DEF k
  <2>2. 1 \in 1 .. k - 1 /\ 1 + 1 = 2 /\ 2 \in 1 .. k
    BY <2>1
  <2> QED
    BY <2>2 DEF k
<1>3. q[2] \in Nodes /\ Null \notin Nodes
  BY <1>1, <1>2, QueueAssumption
<1>4. states[q[2]] # "entering"
  BY <1>2 DEF Unexcused
<1> QED
  BY <1>1, <1>2, <1>3, <1>4

\* The exchange in Enqueue.
LEMMA ExchangeStep ==
  ASSUME QueueTypeOK, NEW q, NEW w, Now(q, w), NEW n \in Items, EnqueueExchange(n)
  PROVE  QueueTypeOK' /\ \E r, x : Now(r, x)' /\ Simulates(w[1], x[1])
<1>0. /\ Fields(link, state, prev)
      /\ Lists(q, _tail, _head, link, state, prev) /\ Shows(w, q)
      /\ q \in Seq(Nodes) /\ Len(q) \in Nat \ {0} /\ \A i \in 1 .. Len(q) : q[i] \in Nodes
      /\ q[1] = _tail /\ 1 \in 1 .. Len(q)
      /\ \A i \in 1 .. Len(q) : state[q[i]] \in {"entering", "in"}
      /\ Dummy \notin Items /\ Dummy \in Nodes /\ w[1] \in Seq(Items)
  BY Basics
<1>1. /\ state[n] = "new" /\ link' = [link EXCEPT ![n] = Null]
      /\ prev' = [prev EXCEPT ![n] = _head] /\ _head' = n
      /\ state' = [state EXCEPT ![n] = "entering"]
      /\ overlapped' = (consumer # "idle")
      /\ UNCHANGED <<_tail, consumer, tail, next, result>>
  BY DEF EnqueueExchange, Exchange
<1>2. n \in Nodes /\ n # Dummy /\ \A i \in 1 .. Len(q) : q[i] # n
  BY <1>0, <1>1 DEF Nodes
<1>3. QueueTypeOK'
  BY <1>1, <1>2 DEF QueueTypeOK
<1> DEFINE r == Append(q, n)
<1>4. Lists(r, _tail', _head', link', state', prev')
  BY <1>0, <1>1, <1>2, ListsExchange
<1>5. PICK x : Shows(x, r) /\ x[1] = w[1] \o Own(n)
  BY <1>0, <1>2, ShowsAppend
<1>6. Len(r) = Len(q) + 1 /\ r[Len(q) + 1] = n /\ \A i \in 1 .. Len(q) : r[i] = q[i]
  BY <1>0, <1>2
<1>7. Stands(r, consumer', tail', next', link', state')
  <2>1. Stands(q, consumer, tail, next, link, state) /\ (consumer # "idle" => tail = q[1])
    BY <1>0 DEF Now, At
  <2>2. consumer # "idle" => link'[tail] = link[tail]
    BY <2>1, <1>0, <1>1, <1>2 DEF Fields
  <2>3. state'[Dummy] = state[Dummy]
    BY <1>0, <1>1, <1>2 DEF Fields
  <2>4. (\E i \in 1 .. Len(q) : q[i] = Dummy) => \E i \in 1 .. Len(r) : r[i] = Dummy
    BY <1>0, <1>6
  <2>5. (\A i \in 1 .. Len(q) : q[i] # Dummy) => \A i \in 1 .. Len(r) : r[i] # Dummy
    BY <1>0, <1>2, <1>6
  <2> HIDE DEF r
  <2> QED
    BY <2>1, <2>2, <2>3, <2>4, <2>5, <1>1 DEF Stands
<1>8. Now(r, x)'
  <2> HIDE DEF r
  <2>1. tail' \in Nodes \union {Null} /\ (consumer' # "idle" => tail' = _tail' /\ overlapped')
    BY <1>0, <1>1 DEF Now, At
  <2> QED
    BY <2>1, <1>4, <1>5, <1>7 DEF Now, At
<1>9. Begins(w[1], x[1])
  <2>1. Entering' = Entering \union {n} /\ n \notin Entering
    BY <1>0, <1>1 DEF Entering, Fields, Nodes
  <2>2. w[1] \o Own(n) = Append(w[1], n)
    <3>1. Append(w[1], n) = w[1] \o <<n>>
      BY <1>0, AppendIsConcat
    <3>2. Own(n) = <<n>>
      BY <1>2 DEF Own
    <3> QED
      BY <3>1, <3>2
  <2> QED
    BY <2>1, <2>2, <1>1, <1>5 DEF Begins
<1> QED
  BY <1>3, <1>8, <1>9 DEF Simulates

\* The store to the predecessor's link in Enqueue.
LEMMA LinkStep ==
  ASSUME QueueTypeOK, NEW q, NEW w, Now(q, w), NEW n \in Items, EnqueueLink(n)
  PROVE  QueueTypeOK' /\ \E r, x : Now(r, x)' /\ Simulates(w[1], x[1])
<1>0. /\ Fields(link, state, prev)
      /\ Lists(q, _tail, _head, link, state, prev) /\ Shows(w, q)
      /\ Dummy \notin Items /\ Dummy \in Nodes /\ 1 \in 1 .. Len(q)
      /\ \A i \in 1 .. Len(q) : q[i] \in Nodes
  BY Basics
<1>1. /\ state[n] = "entering" /\ link' = [link EXCEPT ![prev[n]] = n]
      /\ state' = [state EXCEPT ![n] = "in"]
      /\ UNCHANGED <<_head, _tail, prev, consumer, tail, next, result, overlapped>>
  BY DEF EnqueueLink, Link, callVars
<1>2. n \in Nodes /\ n # Dummy
  BY <1>0 DEF Nodes
<1>3. Lists(q, _tail', _head', link', state', prev')
  BY <1>0, <1>1, <1>2, ListsLink
<1>4. prev[n] \in Nodes /\ link[prev[n]] = Null
  BY <1>0, <1>1, <1>2, ListsLink
<1>5. QueueTypeOK'
  BY <1>1, <1>2 DEF QueueTypeOK
<1>6. Stands(q, consumer', tail', next', link', state')
  <2>1. Stands(q, consumer, tail, next, link, state) /\ tail \in Nodes \union {Null}
    BY DEF Now, At
  <2>2. \A m : link[m] # Null /\ m \in Nodes => link'[m] = link[m]
    BY <1>0, <1>1, <1>4 DEF Fields
  <2>3. state'[Dummy] = state[Dummy]
    BY <1>0, <1>1, <1>2 DEF Fields
  <2>4. consumer \in {"skipDummy", "found", "take"} => tail \in Nodes
    BY <1>0 DEF Now, At, Lists
  <2> QED
    BY <2>1, <2>2, <2>3, <2>4, <1>1 DEF Stands
<1>7. consumer' # "idle" /\ ~overlapped' => Unexcused(q, consumer', next', state')
  <2>1. consumer # "idle" /\ ~overlapped => Unexcused(q, consumer, next, state)
    BY DEF Now, At
  <2>2. \A m \in Nodes : state[m] = "in" => state'[m] = "in"
    BY <1>0, <1>1, <1>2 DEF Fields
  <2> QED
    BY <2>1, <2>2, <1>0, <1>1 DEF Unexcused
<1>8. Now(q, w)'
  <2>1. tail' \in Nodes \union {Null} /\ (consumer' # "idle" => tail' = _tail')
    BY <1>1 DEF Now, At
  <2> QED
    BY <2>1, <1>0, <1>3, <1>6, <1>7 DEF Now, At
<1>9. Ends(w[1], w[1])
  <2>1. Entering' = Entering \ {n} /\ n \in Entering
    BY <1>0, <1>1, <1>2 DEF Entering, Fields, Nodes
  <2> QED
    BY <2>1, <1>1 DEF Ends
<1> QED
  BY <1>5, <1>8, <1>9 DEF Simulates

\* The steps of Dequeue that change neither the list nor the nodes.
LEMMA LoadSteps ==
  ASSUME QueueTypeOK, NEW q, NEW w, Now(q, w), Chain = w[1],
         LoadTail \/ LoadTailNext \/ LoadHead \/ LoadAgain
  PROVE  QueueTypeOK' /\ \E r, x : Now(r, x)' /\ Simulates(w[1], x[1])
<1>0. /\ Fields(link, state, prev)
      /\ Lists(q, _tail, _head, link, state, prev) /\ Shows(w, q)
      /\ q \in Seq(Nodes) /\ Len(q) \in Nat \ {0} /\ \A i \in 1 .. Len(q) : q[i] \in Nodes
      /\ q[1] = _tail /\ q[Len(q)] = _head /\ 1 \in 1 .. Len(q)
      /\ \A i, j \in 1 .. Len(q) : q[i] = q[j] => i = j
      /\ \A i \in 1 .. Len(q) : state[q[i]] \in {"entering", "in"}
      /\ Dummy \notin Items /\ Dummy \in Nodes /\ Null \notin Nodes /\ w[1] \in Seq(Items)
  BY Basics
<1>1. /\ tail \in Nodes \union {Null} /\ (consumer # "idle" => tail = _tail)
      /\ Stands(q, consumer, tail, next, link, state)
      /\ consumer # "idle" /\ ~overlapped => Unexcused(q, consumer, next, state)
  BY DEF Now, At
<1>2. UNCHANGED <<linkVars, state, prev>>
  BY DEF LoadTail, LoadTailNext, LoadHead, LoadAgain
<1>3. /\ UNCHANGED <<_head, _tail, link, state, prev>>
      /\ Lists(q, _tail', _head', link', state', prev') /\ Entering' = Entering
  BY <1>0, <1>2 DEF linkVars, Entering
<1>4. consumer # "linkDummy" => state[Dummy] # "entering"
  BY <1>1 DEF Stands
<1>5. CASE LoadTail
  <2>1. /\ consumer = "idle" /\ consumer' = "tailNext" /\ tail' = _tail /\ next' = Null
        /\ result' = Null /\ overlapped' = (Chain = <<>> \/ Entering # {})
    BY <1>5 DEF LoadTail
  <2>2. QueueTypeOK'
    BY <2>1, <1>0, <1>3 DEF QueueTypeOK
  <2>3. Stands(q, consumer', tail', next', link', state')
    BY <2>1, <1>3, <1>4 DEF Stands
  <2>4. ~overlapped' => Unexcused(q, consumer', next', state')
    <3> SUFFICES ASSUME ~overlapped' PROVE Unexcused(q, consumer', next', state')
      OBVIOUS
    <3>1. w[1] # <<>> /\ Entering = {}
      BY <2>1
    <3>2. \E i \in 1 .. Len(q) : q[i] # Dummy
      BY <3>1, <1>0, ShowsNothing
    <3>3. \A i \in 1 .. Len(q) : q[i] # Dummy => state'[q[i]] = "in"
      BY <3>1, <1>0, <1>3 DEF Entering, Nodes
    <3> QED
      BY <3>2, <3>3, <2>1 DEF Unexcused
  <2>5. Now(q, w)'
    BY <2>1, <2>3, <2>4, <1>0, <1>3 DEF Now, At
  <2>6. Calls(w[1], w[1])
    BY <2>1, <1>3 DEF Calls
  <2> QED
    BY <2>2, <2>5, <2>6 DEF Simulates
<1>6. CASE LoadTailNext
  <2>1. /\ consumer = "tailNext" /\ next' = link[tail] /\ tail' = tail /\ tail = q[1]
        /\ UNCHANGED result
        /\ \/ tail = Dummy /\ next' = Null /\ consumer' = "idle" /\ overlapped' = FALSE
           \/ tail = Dummy /\ next' # Null /\ consumer' = "skipDummy" /\ UNCHANGED overlapped
           \/ tail # Dummy /\ consumer' = "found" /\ UNCHANGED overlapped
    BY <1>0, <1>1, <1>6 DEF LoadTailNext, Fails, Goes
  <2>2. QueueTypeOK'
    BY <2>1, <1>0, <1>3 DEF QueueTypeOK
  <2>3. Stands(q, consumer', tail', next', link', state')
    BY <2>1, <1>3, <1>4 DEF Stands
  <2>4. ~overlapped /\ next' = Null => Len(q) = 1
    BY <2>1, <1>0, <1>1, <1>4, NoSuccessor
  <2>5. consumer' # "idle" /\ ~overlapped' => Unexcused(q, consumer', next', state')
    BY <2>1, <2>4, <1>1, <1>3 DEF Unexcused
  <2>6. Now(q, w)'
    BY <2>1, <2>3, <2>5, <1>0, <1>1, <1>3 DEF Now, At
  <2>7. CASE consumer' = "idle"
    <3>1. overlapped
      <4> SUFFICES ASSUME ~overlapped PROVE FALSE
        BY DEF QueueTypeOK
      <4>1. PICK i \in 1 .. Len(q) : q[i] # Dummy
        BY <2>1, <1>1 DEF Unexcused
      <4>2. Len(q) = 1
        BY <2>1, <2>4, <2>7
      <4>3. \A j \in 1 .. 1 : j = 1
        OBVIOUS
      <4>4. i = 1
        BY <4>2, <4>3
      <4> QED
        BY <4>1, <4>4, <2>1, <2>7
    <3> QED
      BY <3>1, <2>1, <2>2, <2>6, <2>7, <1>3 DEF Simulates, Fails1
  <2>8. CASE consumer' # "idle"
    BY <2>1, <2>2, <2>6, <2>8, <1>3 DEF Simulates, Inner
  <2> QED
    BY <2>7, <2>8
<1>7. CASE LoadHead
  <2>1. /\ consumer = "found" /\ next = Null /\ UNCHANGED <<tail, next, result>> /\ tail = q[1]
        /\ \/ tail # _head /\ consumer' = "idle" /\ overlapped' = FALSE
           \/ tail = _head /\ consumer' = "enqueueDummy" /\ UNCHANGED overlapped
    BY <1>0, <1>1, <1>7 DEF LoadHead, Fails, Goes
  <2>2. QueueTypeOK'
    BY <2>1, <1>3 DEF QueueTypeOK
  <2>3. tail = _head => \A i \in 1 .. Len(q) : q[i] = tail
    <3> SUFFICES ASSUME tail = _head PROVE \A i \in 1 .. Len(q) : q[i] = tail
      OBVIOUS
    <3> DEFINE k == Len(q)
    <3>1. /\ k \in Nat \ {0} /\ q[1] = tail /\ q[k] = tail
          /\ \A i, j \in 1 .. k : q[i] = q[j] => i = j
      BY <2>1, <1>0
    <3> HIDE DEF k
    <3>2. k \in 1 .. k /\ 1 \in 1 .. k
      BY <3>1
    <3>4. k = 1
      BY <3>1, <3>2
    <3>3. \A i \in 1 .. 1 : i = 1
      OBVIOUS
    <3> QED
      BY <3>1, <3>4, <3>3 DEF k
  <2>4. Stands(q, consumer', tail', next', link', state')
    BY <2>1, <2>3, <1>1, <1>3 DEF Stands
  <2>5. consumer' # "idle" /\ ~overlapped' => Unexcused(q, consumer', next', state')
    BY <2>1, <1>1, <1>3 DEF Unexcused
  <2>6. Now(q, w)'
    BY <2>1, <2>4, <2>5, <1>0, <1>1, <1>3 DEF Now, At
  <2>7. CASE consumer' = "idle"
    <3>1. overlapped
      <4> SUFFICES ASSUME ~overlapped PROVE FALSE
        BY DEF QueueTypeOK
      <4>1. Len(q) = 1
        BY <2>1, <1>1 DEF Unexcused
      <4> QED
        BY <4>1, <2>1, <2>7, <1>0
    <3> QED
      BY <3>1, <2>1, <2>2, <2>6, <2>7, <1>3 DEF Simulates, Fails1
  <2>8. CASE consumer' # "idle"
    BY <2>1, <2>2, <2>6, <2>8, <1>3 DEF Simulates, Inner
  <2> QED
    BY <2>7, <2>8
<1>8. CASE LoadAgain
  <2>1. /\ consumer = "again" /\ next' = link[tail] /\ tail' = tail /\ tail = q[1]
        /\ UNCHANGED result
        /\ \/ next' = Null /\ consumer' = "idle" /\ overlapped' = FALSE
           \/ next' # Null /\ consumer' = "take" /\ UNCHANGED overlapped
    BY <1>0, <1>1, <1>8 DEF LoadAgain, Fails, Goes
  <2>2. QueueTypeOK'
    BY <2>1, <1>0, <1>3 DEF QueueTypeOK
  <2>3. Stands(q, consumer', tail', next', link', state')
    BY <2>1, <1>1, <1>3 DEF Stands
  <2>5. consumer' # "idle" /\ ~overlapped' => Unexcused(q, consumer', next', state')
    BY <2>1, <1>1, <1>3 DEF Unexcused
  <2>6. Now(q, w)'
    BY <2>1, <2>3, <2>5, <1>0, <1>1, <1>3 DEF Now, At
  <2>7. CASE consumer' = "idle"
    <3>1. overlapped
      <4> SUFFICES ASSUME ~overlapped PROVE FALSE
        BY DEF QueueTypeOK
      <4>1. Len(q) = 1
        BY <2>1, <2>7, <1>0, <1>1, <1>4, NoSuccessor
      <4>2. tail # Dummy /\ \E i \in 1 .. Len(q) : q[i] = Dummy
        BY <2>1, <1>1 DEF Stands
      <4>3. \A i \in 1 .. 1 : i = 1
        OBVIOUS
      <4> QED
        BY <4>1, <4>2, <4>3, <2>1
    <3> QED
      BY <3>1, <2>1, <2>2, <2>6, <2>7, <1>3 DEF Simulates, Fails1
  <2>8. CASE consumer' # "idle"
    BY <2>1, <2>2, <2>6, <2>8, <1>3 DEF Simulates, Inner
  <2> QED
    BY <2>7, <2>8
<1> QED
  BY <1>5, <1>6, <1>7, <1>8

\* The dummy is skipped: it leaves the list, and nothing is missing.
LEMMA SkipDummyStep ==
  ASSUME QueueTypeOK, NEW q, NEW w, Now(q, w), SkipDummy
  PROVE  QueueTypeOK' /\ \E r, x : Now(r, x)' /\ Simulates(w[1], x[1])
<1>0. /\ Fields(link, state, prev)
      /\ Lists(q, _tail, _head, link, state, prev) /\ Shows(w, q)
      /\ q \in Seq(Nodes) /\ Len(q) \in Nat \ {0} /\ \A i \in 1 .. Len(q) : q[i] \in Nodes
      /\ q[1] = _tail /\ 1 \in 1 .. Len(q)
      /\ \A i, j \in 1 .. Len(q) : q[i] = q[j] => i = j
      /\ Dummy \notin Items /\ Dummy \in Nodes /\ Null \notin Nodes /\ w[1] \in Seq(Items)
  BY Basics
<1>1. /\ Stands(q, consumer, tail, next, link, state)
      /\ consumer = "skipDummy" /\ tail = _tail /\ tail = Dummy /\ next = link[tail] /\ next # Null
      /\ ~overlapped => Unexcused(q, consumer, next, state)
      /\ _tail' = next /\ tail' = next /\ next' = link[next] /\ consumer' = "found"
      /\ UNCHANGED <<_head, link, state, prev, result, overlapped>>
  BY DEF Now, At, SkipDummy, Goes, Stands
<1>2. next \in Nodes
  BY <1>1 DEF QueueTypeOK
<1>3. QueueTypeOK'
  BY <1>1, <1>2 DEF QueueTypeOK
<1> DEFINE r == Tail(q)
<1>4. /\ Lists(r, _tail', _head', link', state', prev')
      /\ Len(q) > 1 /\ next = q[2]
  BY <1>0, <1>1, ListsTail
<1>5. PICK x : Shows(x, r) /\ w[1] = Own(q[1]) \o x[1] /\ x[1] \in Seq(Items)
  <2>1. q \in Seq(Nodes) /\ Len(q) > 0 /\ Shows(w, q)
    BY <1>0
  <2> QED
    BY <2>1, ShowsTail
<1>6. w[1] = x[1]
  <2>1. Own(q[1]) = <<>>
    BY <1>0, <1>1 DEF Own
  <2> QED
    BY <2>1, <1>5, ConcatEmptySeq
<1>7. next # Dummy /\ state[Dummy] # "entering"
  <2>1. 2 \in 1 .. Len(q)
    BY <1>0, <1>4
  <2> QED
    BY <2>1, <1>0, <1>1, <1>4 DEF Stands
<1>8. Len(r) = Len(q) - 1 /\ (\A i \in 1 .. Len(r) : r[i] = q[i + 1]) /\ r[1] = next
      /\ 1 \in 1 .. Len(r)
  <2>1. Len(r) = Len(q) - 1 /\ (\A i \in 1 .. Len(r) : r[i] = q[i + 1])
    BY <1>0
  <2>2. 1 + 1 = 2 /\ 1 \in 1 .. Len(r)
    BY <2>1, <1>0, <1>4
  <2> QED
    BY <2>1, <2>2, <1>4
<1> HIDE DEF r
<1>9. Stands(r, consumer', tail', next', link', state')
  BY <1>1, <1>7 DEF Stands
<1>10. ~overlapped' => Unexcused(r, consumer', next', state')
  <2> SUFFICES ASSUME ~overlapped PROVE Unexcused(r, consumer', next', state')
    BY <1>1
  <2>1. \A i \in 1 .. Len(q) : q[i] # Dummy => state[q[i]] = "in"
    BY <1>1 DEF Unexcused
  <2>2. \A i \in 1 .. Len(r) : r[i] # Dummy => state'[r[i]] = "in"
    <3> SUFFICES ASSUME NEW i \in 1 .. Len(r), r[i] # Dummy PROVE state'[r[i]] = "in"
      OBVIOUS
    <3>1. i + 1 \in 1 .. Len(q) /\ r[i] = q[i + 1]
      BY <1>0, <1>8
    <3> QED
      BY <3>1, <2>1, <1>1
  <2>3. \E i \in 1 .. Len(r) : r[i] # Dummy
    BY <1>7, <1>8
  <2>4. next' = Null => Len(r) = 1
    <3> SUFFICES ASSUME next' = Null PROVE Len(r) = 1
      OBVIOUS
    <3>1. Unexcused(r, "idle", next', state')
      BY <2>2, <2>3 DEF Unexcused
    <3>2. link'[_tail'] = Null /\ state'[Dummy] # "entering"
      BY <1>1, <1>7
    <3> QED
      BY <3>1, <3>2, <1>4, NoSuccessor
  <2> QED
    BY <2>2, <2>3, <2>4 DEF Unexcused
<1>11. Now(r, x)'
  BY <1>1, <1>2, <1>4, <1>5, <1>9, <1>10 DEF Now, At
<1>12. Inner(w[1], x[1])
  BY <1>1, <1>6 DEF Inner, Entering
<1> QED
  BY <1>3, <1>11, <1>12 DEF Simulates

\* The first node is taken.
LEMMA TakeStep ==
  ASSUME QueueTypeOK, NEW q, NEW w, Now(q, w), TakeFound \/ TakeLast
  PROVE  QueueTypeOK' /\ \E r, x : Now(r, x)' /\ Simulates(w[1], x[1])
<1>0. /\ Fields(link, state, prev)
      /\ Lists(q, _tail, _head, link, state, prev) /\ Shows(w, q)
      /\ q \in Seq(Nodes) /\ Len(q) \in Nat \ {0} /\ \A i \in 1 .. Len(q) : q[i] \in Nodes
      /\ q[1] = _tail /\ 1 \in 1 .. Len(q)
      /\ \A i \in 1 .. Len(q) : state[q[i]] \in {"entering", "in"}
      /\ Dummy \notin Items /\ Dummy \in Nodes /\ Null \notin Nodes /\ w[1] \in Seq(Items)
  BY Basics
<1>1. /\ consumer \in {"found", "take"} /\ tail = _tail /\ tail # Dummy
      /\ next = link[tail] /\ next # Null /\ state[Dummy] # "entering"
  BY DEF Now, At, TakeFound, TakeLast, Stands
<1>2. /\ consumer' = "idle" /\ overlapped' = FALSE /\ _tail' = next /\ result' = tail
      /\ state' = [state EXCEPT ![tail] = "freed"]
      /\ UNCHANGED <<_head, link, prev, tail, next>>
  BY DEF TakeFound, TakeLast, Takes
<1>3. tail \in Items /\ tail \in Nodes /\ next \in Nodes /\ state[tail] = "in"
  BY <1>0, <1>1 DEF Nodes, QueueTypeOK, Lists
<1>4. QueueTypeOK'
  BY <1>2, <1>3 DEF QueueTypeOK
<1>5. Lists(Tail(q), _tail', _head', link', state', prev')
  BY <1>0, <1>1, <1>2, ListsTail
<1>6. PICK x : Shows(x, Tail(q)) /\ w[1] = Own(q[1]) \o x[1] /\ x[1] \in Seq(Items)
  <2>1. q \in Seq(Nodes) /\ Len(q) > 0 /\ Shows(w, q)
    BY <1>0, <1>4, <1>5
  <2> QED
    BY <2>1, ShowsTail
<1>7. w[1] # <<>> /\ Head(w[1]) = tail /\ Tail(w[1]) = x[1]
  <2>1. w[1] = <<tail>> \o x[1]
    BY <1>0, <1>1, <1>6 DEF Own
  <2>2. <<tail>> \in Seq(Items) /\ Len(<<tail>>) = 1 /\ <<tail>>[1] = tail
    BY <1>3
  <2> DEFINE c == w[1]
             d == x[1]
             one == <<tail>>
  <2>3. /\ c \in Seq(Items) /\ d \in Seq(Items) /\ c = one \o d
        /\ one \in Seq(Items) /\ Len(one) = 1 /\ one[1] = tail
    BY <2>1, <2>2, <1>0, <1>6
  <2> HIDE DEF c, d, one
  <2>4. /\ Len(c) = 1 + Len(d)
        /\ \A i \in 1 .. 1 + Len(d) : c[i] = IF i <= 1 THEN one[i] ELSE d[i - 1]
    <3>1. Len(one \o d) = Len(one) + Len(d)
      BY <2>3, ConcatProperties
    <3>2. \A i \in 1 .. Len(one) + Len(d) :
            (one \o d)[i] = IF i <= Len(one) THEN one[i] ELSE d[i - Len(one)]
      BY <2>3, ConcatProperties
    <3> QED
      BY <3>1, <3>2, <2>3
  <2>5. c # <<>> /\ Head(c) = tail
    BY <2>3, <2>4
  <2>6. Tail(c) = d
    <3>1. Tail(c) \in Seq(Items) /\ Len(Tail(c)) = Len(d)
      BY <2>3, <2>4, <2>5
    <3>2. \A i \in 1 .. Len(d) : Tail(c)[i] = d[i]
      BY <2>3, <2>4, <2>5
    <3> QED
      BY <3>1, <3>2, <2>3, SeqEqual
  <2> QED
    BY <2>5, <2>6 DEF c, d
<1>8. Stands(Tail(q), consumer', tail', next', link', state')
  <2>1. state'[Dummy] # "entering"
    BY <1>0, <1>1, <1>2, <1>3 DEF Fields
  <2> QED
    BY <2>1, <1>2 DEF Stands
<1>9. Now(Tail(q), x)'
  BY <1>2, <1>3, <1>5, <1>6, <1>8 DEF Now, At
<1>10. Takes1(w[1], x[1])
  <2>1. Entering' = Entering
    BY <1>0, <1>2, <1>3 DEF Entering, Fields
  <2> QED
    BY <2>1, <1>1, <1>2, <1>7 DEF Takes1
<1> QED
  BY <1>4, <1>9, <1>10 DEF Simulates

\* The dummy is put in, behind the only node.
LEMMA DummyStep ==
  ASSUME QueueTypeOK, NEW q, NEW w, Now(q, w), EnqueueDummy \/ LinkDummy
  PROVE  QueueTypeOK' /\ \E r, x : Now(r, x)' /\ Simulates(w[1], x[1])
<1>0. /\ Fields(link, state, prev)
      /\ Lists(q, _tail, _head, link, state, prev) /\ Shows(w, q)
      /\ q \in Seq(Nodes) /\ Len(q) \in Nat \ {0} /\ \A i \in 1 .. Len(q) : q[i] \in Nodes
      /\ q[1] = _tail /\ 1 \in 1 .. Len(q)
      /\ Dummy \notin Items /\ Dummy \in Nodes /\ Null \notin Nodes /\ w[1] \in Seq(Items)
  BY Basics
<1>1. /\ Stands(q, consumer, tail, next, link, state)
      /\ consumer # "idle" => tail = _tail
      /\ consumer # "idle" /\ ~overlapped => Unexcused(q, consumer, next, state)
  BY DEF Now, At
<1>2. CASE EnqueueDummy
  <2>1. /\ consumer = "enqueueDummy" /\ link' = [link EXCEPT ![Dummy] = Null]
        /\ prev' = [prev EXCEPT ![Dummy] = _head] /\ _head' = Dummy
        /\ state' = [state EXCEPT ![Dummy] = "entering"]
        /\ consumer' = "linkDummy" /\ UNCHANGED <<_tail, tail, next, result, overlapped>>
    BY <1>2 DEF EnqueueDummy, Exchange, Goes
  <2>2. /\ tail = q[1] /\ tail # Dummy /\ next = Null /\ \A i \in 1 .. Len(q) : q[i] # Dummy
    BY <2>1, <1>0, <1>1 DEF Stands, Now, At
  <2>3. QueueTypeOK'
    BY <2>1, <1>0 DEF QueueTypeOK
  <2> DEFINE r == Append(q, Dummy)
  <2>4. Lists(r, _tail', _head', link', state', prev')
    BY <2>1, <2>2, <1>0, ListsExchange
  <2>5. PICK x : Shows(x, r) /\ x[1] = w[1] \o Own(Dummy)
    BY <1>0, ShowsAppend
  <2>6. x[1] = w[1]
    <3>1. Own(Dummy) = <<>>
      BY DEF Own
    <3> QED
      BY <3>1, <2>5, <1>0, ConcatEmptySeq
  <2>7. Len(r) = Len(q) + 1 /\ r[Len(q) + 1] = Dummy /\ \A i \in 1 .. Len(q) : r[i] = q[i]
    BY <1>0
  <2> HIDE DEF r
  <2>8. Stands(r, consumer', tail', next', link', state')
    <3>1. \E i \in 1 .. Len(r) : r[i] = Dummy
      BY <2>7, <1>0
    <3>2. state'[Dummy] = "entering"
      BY <2>1, <1>0 DEF Fields
    <3> QED
      BY <3>1, <3>2, <2>1, <2>2 DEF Stands
  <2>9. ~overlapped' => Unexcused(r, consumer', next', state')
    <3> SUFFICES ASSUME ~overlapped PROVE Unexcused(r, consumer', next', state')
      BY <2>1
    <3>1. \A i \in 1 .. Len(q) : state[q[i]] = "in"
      BY <2>1, <2>2, <1>1 DEF Unexcused
    <3>2. \A i \in 1 .. Len(r) : r[i] # Dummy => state'[r[i]] = "in"
      <4> SUFFICES ASSUME NEW i \in 1 .. Len(r), r[i] # Dummy PROVE state'[r[i]] = "in"
        OBVIOUS
      <4>1. i \in 1 .. Len(q)
        BY <2>7, <1>0
      <4> QED
        BY <4>1, <3>1, <2>1, <2>7, <1>0 DEF Fields
    <3>3. r[1] # Dummy /\ 1 \in 1 .. Len(r)
      BY <2>2, <2>7, <1>0
    <3> QED
      BY <3>2, <3>3, <2>1 DEF Unexcused
  <2>10. Now(r, x)'
    BY <2>1, <2>2, <2>4, <2>5, <2>8, <2>9, <1>0 DEF Now, At
  <2>11. Inner(w[1], x[1])
    <3>1. Entering' = Entering
      BY <2>1, <1>0 DEF Entering, Fields, Nodes
    <3> QED
      BY <3>1, <2>1, <2>6 DEF Inner
  <2> QED
    BY <2>3, <2>10, <2>11 DEF Simulates
<1>3. CASE LinkDummy
  <2>1. /\ consumer = "linkDummy" /\ state[Dummy] = "entering"
        /\ link' = [link EXCEPT ![prev[Dummy]] = Dummy]
        /\ state' = [state EXCEPT ![Dummy] = "in"]
        /\ consumer' = "again"
        /\ UNCHANGED <<_head, _tail, prev, tail, next, result, overlapped>>
    BY <1>3 DEF LinkDummy, Link, Goes
  <2>9. Lists(q, _tail, _head, link', state', prev)
    BY <2>1, <1>0, ListsLink
  <2>10. prev[Dummy] \in Nodes /\ link[prev[Dummy]] = Null
    <3>1. state[Dummy] = "entering" /\ Dummy \in Nodes
          /\ Lists(q, _tail, _head, link, state, prev)
      BY <2>1, <1>0
    <3> QED
      BY <3>1, EnteringHasPrev
  <2>2. Lists(q, _tail', _head', link', state', prev') /\ prev[Dummy] \in Nodes
    BY <2>1, <2>9, <2>10
  <2>3. QueueTypeOK'
    BY <2>1, <2>2, <1>0 DEF QueueTypeOK
  <2>4. state'[Dummy] = "in" /\ \A n \in Nodes \ {Dummy} : state'[n] = state[n]
    BY <2>1, <1>0 DEF Fields
  <2>5. Stands(q, consumer', tail', next', link', state')
    <3>1. next = Null
      BY <2>1, <1>1 DEF Stands
    <3>2. tail # Dummy
      BY <2>1, <1>1 DEF Stands
    <3>3. \E i \in 1 .. Len(q) : q[i] = Dummy
      BY <2>1, <1>1 DEF Stands
    <3> QED
      BY <3>1, <3>2, <3>3, <2>1, <2>4 DEF Stands
  <2>6. ~overlapped' => Unexcused(q, consumer', next', state')
    BY <2>1, <2>4, <1>0, <1>1 DEF Unexcused
  <2>7. Now(q, w)'
    <3>1. tail' \in Nodes \union {Null} /\ tail' = _tail'
      BY <2>1 DEF Now, At
    <3> QED
      BY <3>1, <2>1, <2>2, <2>5, <2>6, <1>0 DEF Now, At
  <2>8. Inner(w[1], w[1])
    <3>1. Entering' = Entering
      BY <2>1, <2>4, <1>0 DEF Entering, Nodes
    <3> QED
      BY <3>1, <2>1 DEF Inner
  <2> QED
    BY <2>3, <2>7, <2>8 DEF Simulates
<1> QED
  BY <1>2, <1>3

-----------------------------------------------------------------------------
(* What Chain is: the items of the list. *)

\* ChainFrom is the function its recursion describes.
LEMMA ChainSteps ==
  ASSUME QueueTypeOK
  PROVE  /\ Cardinality(Nodes) \in Nat
         /\ \A most \in 1 .. Cardinality(Nodes), n \in Nodes :
              ChainFrom[most][n] =
                Own(n) \o (IF Successors(n) = {} THEN <<>>
                           ELSE ChainFrom[most - 1][CHOOSE m \in Successors(n) : TRUE])
<1> DEFINE C == Cardinality(Nodes)
           T == [Nodes -> Seq(Items)]
           Rest(c, n) == IF Successors(n) = {} THEN <<>> ELSE c[CHOOSE m \in Successors(n) : TRUE]
           b == [n \in Nodes |-> <<>>]
           F == [p \in T \X (Nat \ {0}) |-> [n \in Nodes |-> Own(n) \o Rest(p[1], n)]]
           Body(g) == [most \in 0 .. C |->
                        [n \in Nodes |->
                          IF most = 0 THEN <<>>
                          ELSE (IF n = Dummy THEN <<>> ELSE <<n>>) \o
                               (IF Successors(n) = {} THEN <<>>
                                ELSE g[most - 1][CHOOSE m \in Successors(n) : TRUE])]]
<1>1. C \in Nat
  BY QueueAssumption, FS_AddElement, FS_CardinalityType DEF Nodes
<1>2. \A n \in Nodes : Successors(n) # {} => (CHOOSE m \in Successors(n) : TRUE) \in Nodes
  <2>1. \A n \in Nodes : Successors(n) # {} => (CHOOSE m \in Successors(n) : TRUE) \in Successors(n)
    OBVIOUS
  <2> QED
    BY <2>1 DEF Successors
<1>3. \A c \in T, n \in Nodes : Own(n) \o Rest(c, n) \in Seq(Items)
  <2> TAKE c \in T, n \in Nodes
  <2>1. Rest(c, n) \in Seq(Items)
    BY <1>2
  <2>2. Own(n) \in Seq(Items)
    BY OwnType
  <2> HIDE DEF Rest
  <2> QED
    BY <2>1, <2>2, ConcatProperties
<1>4. b \in T
  OBVIOUS
<1>5. F \in [T \X (Nat \ {0}) -> T]
  <2> HIDE DEF Rest
  <2> SUFFICES ASSUME NEW p \in T \X (Nat \ {0})
               PROVE  [n \in Nodes |-> Own(n) \o Rest(p[1], n)] \in T
    OBVIOUS
  <2>1. p[1] \in T
    OBVIOUS
  <2> QED
    BY <2>1, <1>3
<1>6. PICK g \in [0 .. C -> T] : g[0] = b /\ \A i \in 1 .. C : g[i] = F[<<g[i - 1], i>>]
  <2>1. \E g : Recursion(g, C, T, b, F)
    <3> HIDE DEF T, b, F, C
    <3> QED
      BY <1>1, <1>4, <1>5, RecursionExists
  <2> QED
    BY <2>1 DEF Recursion
<1>7. g = Body(g)
  <2>1. ASSUME NEW i \in 0 .. C PROVE g[i] = Body(g)[i]
    <3>1. CASE i = 0
      BY <3>1, <1>6
    <3>2. CASE i # 0
      <4>1. i \in 1 .. C /\ i - 1 \in 0 .. C /\ i \in Nat \ {0}
        BY <3>2, <1>1
      <4>2. <<g[i - 1], i>> \in T \X (Nat \ {0})
        BY <4>1, <1>6
      <4>5. g[i] = F[<<g[i - 1], i>>]
        BY <4>1, <1>6
      <4>6. <<g[i - 1], i>>[1] = g[i - 1]
        OBVIOUS
      <4>3. g[i] = [n \in Nodes |-> Own(n) \o Rest(g[i - 1], n)]
        <5> HIDE DEF T, Rest
        <5> QED
          BY <4>2, <4>5, <4>6
      <4>4. Body(g)[i] = [n \in Nodes |-> (IF n = Dummy THEN <<>> ELSE <<n>>) \o Rest(g[i - 1], n)]
        BY <3>2, <4>1
      <4> QED
        BY <4>3, <4>4 DEF Own
    <3> QED
      BY <3>1, <3>2
  <2> HIDE DEF C, T
  <2> QED
    BY <2>1, <1>6
<1>8. ChainFrom = CHOOSE f : f = Body(f)
  BY DEF ChainFrom
<1>9. ChainFrom = Body(ChainFrom)
  <2> HIDE DEF Body
  <2> QED
    BY <1>7, <1>8
<1>10. ASSUME NEW most \in 1 .. C, NEW n \in Nodes
       PROVE  ChainFrom[most][n] = Own(n) \o Rest(ChainFrom[most - 1], n)
  <2>1. most \in 0 .. C /\ most # 0
    BY <1>1
  <2>2. Body(ChainFrom)[most][n] = Own(n) \o Rest(ChainFrom[most - 1], n)
    BY <2>1 DEF Own
  <2> QED
    BY <2>2, <1>9
<1> QED
  BY <1>1, <1>10

\* The only node that follows one of the list is the next of the list.
LEMMA OneSuccessor ==
  ASSUME QueueTypeOK, NEW q, Lists(q, _tail, _head, link, state, prev)
  PROVE  /\ Successors(q[Len(q)]) = {}
         /\ \A i \in 1 .. Len(q) - 1 : Successors(q[i]) = {q[i + 1]}
<1> DEFINE k == Len(q)
<1>1. /\ k \in Nat \ {0} /\ q \in Seq(Nodes) /\ \A i \in 1 .. k : q[i] \in Nodes
      /\ state[q[1]] = "in" /\ link[q[k]] = Null
      /\ \A i, j \in 1 .. k : q[i] = q[j] => i = j
      /\ \A i \in 1 .. k - 1 :
           \/ state[q[i + 1]] = "in" /\ link[q[i]] = q[i + 1]
           \/ state[q[i + 1]] = "entering" /\ prev[q[i + 1]] = q[i] /\ link[q[i]] = Null
      /\ \A m \in Nodes :
           (\A i \in 1 .. k : q[i] # m)
             => state[m] \in (IF m = Dummy THEN {"in"} ELSE {"new", "freed"})
  BY DEF Lists
<1> HIDE DEF k
<1>2. \A m \in Nodes : m # Null
  BY QueueAssumption DEF Nodes
<1>3. ASSUME NEW m \in Nodes, state[m] = "entering"
      PROVE  \E j \in 1 .. k - 1 : m = q[j + 1] /\ prev[m] = q[j]
  <2>1. PICK i \in 1 .. k : q[i] = m
    BY <1>1, <1>3
  <2>2. i # 1 /\ i - 1 \in 1 .. k - 1 /\ (i - 1) + 1 = i
    BY <2>1, <1>1, <1>3
  <2>3. q[(i - 1) + 1] = m
    BY <2>1, <2>2
  <2>4. prev[m] = q[i - 1]
    BY <2>2, <2>3, <1>1, <1>3
  <2> QED
    BY <2>2, <2>3, <2>4
<1>4. Successors(q[k]) = {}
  <2> SUFFICES ASSUME NEW m \in Successors(q[k]) PROVE FALSE
    OBVIOUS
  <2>1. m \in Nodes /\ state[m] = "entering" /\ prev[m] = q[k]
    BY <1>1, <1>2 DEF Successors
  <2>2. PICK j \in 1 .. k - 1 : prev[m] = q[j]
    BY <2>1, <1>3
  <2>3. j \in 1 .. k /\ k \in 1 .. k /\ j # k
    BY <1>1
  <2>4. q[j] = q[k]
    BY <2>1, <2>2
  <2>5. j = k
    BY <2>3, <2>4, <1>1
  <2> QED
    BY <2>3, <2>5
<1>5. ASSUME NEW i \in 1 .. k - 1 PROVE Successors(q[i]) = {q[i + 1]}
  <2>1. i \in 1 .. k /\ i + 1 \in 1 .. k
    BY <1>1
  <2>2. q[i + 1] \in Successors(q[i])
    BY <2>1, <1>1 DEF Successors
  <2>3. ASSUME NEW m \in Successors(q[i]) PROVE m = q[i + 1]
    <3>1. m \in Nodes /\ (link[q[i]] = m \/ (state[m] = "entering" /\ prev[m] = q[i]))
      BY DEF Successors
    <3>2. CASE link[q[i]] = m
      BY <3>1, <3>2, <1>1, <1>2
    <3>3. CASE state[m] = "entering" /\ prev[m] = q[i]
      <4>1. PICK j \in 1 .. k - 1 : m = q[j + 1] /\ prev[m] = q[j]
        BY <3>1, <3>3, <1>3
      <4>2. j \in 1 .. k
        BY <1>1
      <4>4. q[i] = q[j]
        BY <4>1, <3>3
      <4>3. i = j
        BY <4>2, <4>4, <2>1, <1>1
      <4> QED
        BY <4>1, <4>3
    <3> QED
      BY <3>1, <3>2, <3>3
  <2> QED
    BY <2>2, <2>3
<1> QED
  BY <1>4, <1>5 DEF k

\* Chain is what is shown of the list.
ChainShown ==
  \A q, w : Lists(q, _tail, _head, link, state, prev) /\ Shows(w, q) => Chain = w[1]

\* What Dequeue can reach is the list of the invariant.
LEMMA ChainIs == QueueTypeOK => ChainShown
<1> SUFFICES ASSUME QueueTypeOK, NEW q, NEW w,
                    Lists(q, _tail, _head, link, state, prev), Shows(w, q)
             PROVE  Chain = w[1]
  BY DEF ChainShown
<1> DEFINE k == Len(q)
           C == Cardinality(Nodes)
           S == {i \in 0 .. k : i # 0 =>
                   \A most \in i .. C : ChainFrom[most][q[k + 1 - i]] = w[k + 1 - i]}
<1>1. /\ k \in Nat \ {0} /\ q \in Seq(Nodes) /\ \A i \in 1 .. k : q[i] \in Nodes
      /\ q[1] = _tail /\ \A i, j \in 1 .. k : q[i] = q[j] => i = j
  BY DEF Lists
<1>2. /\ w \in [1 .. k + 1 -> Seq(Items)] /\ w[k + 1] = <<>>
      /\ \A i \in 1 .. k : w[i] = Own(q[i]) \o w[i + 1]
  BY DEF Shows
<1>3. Successors(q[k]) = {} /\ \A i \in 1 .. k - 1 : Successors(q[i]) = {q[i + 1]}
  BY OneSuccessor
<1>4. /\ C \in Nat
      /\ \A most \in 1 .. C, n \in Nodes :
              ChainFrom[most][n] =
                Own(n) \o (IF Successors(n) = {} THEN <<>>
                           ELSE ChainFrom[most - 1][CHOOSE m \in Successors(n) : TRUE])
  BY ChainSteps
<1>5. k <= C
  <2> DEFINE f == [i \in 1 .. k |-> q[i]]
  <2>1. f \in Injection(1 .. k, Nodes)
    BY <1>1 DEF Injection, IsInjective
  <2>2. IsFiniteSet(Nodes)
    BY QueueAssumption, FS_AddElement DEF Nodes
  <2>3. Cardinality(1 .. k) <= C
    BY <2>1, <2>2, FS_Injection
  <2>4. Cardinality(1 .. k) = k
    <3>1. 1 \in Int /\ k \in Int /\ ~(1 > k) /\ k - 1 + 1 = k
      BY <1>1
    <3> HIDE DEF k
    <3> QED
      BY <3>1, FS_Interval
  <2> QED
    BY <2>3, <2>4
<1> HIDE DEF k, C
<1>6. ASSUME NEW i \in 1 .. k, i - 1 \in S PROVE i \in S
  <2> SUFFICES ASSUME NEW most \in i .. C
               PROVE  ChainFrom[most][q[k + 1 - i]] = w[k + 1 - i]
    BY <1>1
  <2> DEFINE j == k + 1 - i
  <2>1. j \in 1 .. k /\ most \in 1 .. C /\ j + 1 = k + 1 - (i - 1)
    BY <1>1, <1>4
  <2>2. q[j] \in Nodes /\ w[j] = Own(q[j]) \o w[j + 1]
    BY <2>1, <1>1, <1>2
  <2>3. ChainFrom[most][q[j]] =
          Own(q[j]) \o (IF Successors(q[j]) = {} THEN <<>>
                        ELSE ChainFrom[most - 1][CHOOSE m \in Successors(q[j]) : TRUE])
    BY <2>1, <2>2, <1>4
  <2>4. CASE i = 1
    <3>1. j = k
      BY <2>4, <1>1
    <3> QED
      BY <3>1, <2>2, <2>3, <1>2, <1>3
  <2>5. CASE i # 1
    <3>0. (CHOOSE m \in Successors(q[j]) : TRUE) \in Successors(q[j]) \/ Successors(q[j]) = {}
      OBVIOUS
    <3>1. j \in 1 .. k - 1 /\ i - 1 # 0 /\ most - 1 \in i - 1 .. C
      BY <2>5, <1>1, <1>4
    <3>2. Successors(q[j]) = {q[j + 1]}
      BY <3>1, <1>3
    <3>3. ChainFrom[most - 1][q[k + 1 - (i - 1)]] = w[k + 1 - (i - 1)]
      BY <3>1, <1>6
    <3>4. ChainFrom[most - 1][q[j + 1]] = w[j + 1]
      BY <3>3, <2>1
    <3>5. (CHOOSE m \in Successors(q[j]) : TRUE) = q[j + 1] /\ Successors(q[j]) # {}
      BY <3>0, <3>2
    <3>6. ChainFrom[most][q[j]] = w[j]
      <4> HIDE DEF j
      <4> QED
        BY <3>4, <3>5, <2>2, <2>3
    <3> QED
      BY <3>6
  <2> QED
    BY <2>4, <2>5
<1>7. 0 \in S
  BY <1>1
<1>8. k \in S
  <2>1. \A i \in 0 .. k : i \in S
    <3> HIDE DEF S
    <3> QED
      BY <1>1, <1>6, <1>7, InductionUpTo
  <2> QED
    BY <2>1, <1>1
<1>9. ChainFrom[C][q[1]] = w[1]
  <2>1. k # 0 /\ C \in k .. C /\ k + 1 - k = 1
    BY <1>1, <1>4, <1>5
  <2>2. ChainFrom[C][q[k + 1 - k]] = w[k + 1 - k]
    BY <2>1, <1>8
  <2> QED
    BY <2>1, <2>2
<1> QED
  BY <1>1, <1>9 DEF Chain, C

\* The same of the next state.
LEMMA ChainIsNext == QueueTypeOK' => ChainShown'
BY ChainIs, PTL

-----------------------------------------------------------------------------
(* The invariant, and what follows from it. *)

\* The queue is the stub node alone.
LEMMA QueueStart == MpscInit => QueueInv
<1> SUFFICES ASSUME MpscInit PROVE QueueInv
  OBVIOUS
<1> DEFINE q == <<Dummy>>
           w == [i \in 1 .. 2 |-> <<>>]
<1>1. Dummy \notin Items /\ Dummy \in Nodes /\ Null \notin Nodes
  BY QueueAssumption DEF Nodes
<1>2. QueueTypeOK
  BY <1>1 DEF MpscInit, QueueTypeOK
<1>3. /\ q \in Seq(Nodes) /\ Len(q) = 1 /\ q[1] = Dummy
      /\ \A i \in 1 .. 1 : i = 1
  BY <1>1
<1> HIDE DEF q
<1>4. Lists(q, _tail, _head, link, state, prev)
  <2>1. state[Dummy] = "in" /\ link[Dummy] = Null
    BY <1>1 DEF MpscInit
  <2>2. \A n \in Nodes : n # Dummy => state[n] = "new"
    BY DEF MpscInit
  <2>3. q[1] = _tail /\ q[Len(q)] = _head
    BY <1>3 DEF MpscInit
  <2> QED
    BY <2>1, <2>2, <2>3, <1>3 DEF Lists
<1>5. Shows(w, q)
  <2>1. Own(Dummy) = <<>> /\ <<>> \in Seq(Items) /\ <<>> \o <<>> = <<>>
    BY ConcatEmptySeq DEF Own
  <2>2. Len(q) + 1 = 2 /\ w \in [1 .. 2 -> Seq(Items)] /\ w[1] = <<>> /\ w[2] = <<>> /\ 1 + 1 = 2
    BY <1>3
  <2> HIDE DEF w
  <2> QED
    BY <2>1, <2>2, <1>3 DEF Shows
<1>6. Stands(q, consumer, tail, next, link, state)
  BY <1>1 DEF Stands, MpscInit
<1>7. Now(q, w)
  BY <1>4, <1>5, <1>6 DEF Now, At, MpscInit
<1> QED
  BY <1>2, <1>7 DEF QueueInv

\* Every step keeps the invariant and is a step of the abstract queue on what is shown.
LEMMA QueueStep ==
  ASSUME QueueTypeOK, NEW q, NEW w, Now(q, w), MpscNext
  PROVE  QueueTypeOK' /\ \E r, x : Now(r, x)' /\ Simulates(w[1], x[1])
<1>1. CASE \E n \in Items : EnqueueExchange(n)
  BY <1>1, ExchangeStep
<1>2. CASE \E n \in Items : EnqueueLink(n)
  BY <1>2, LinkStep
<1>3. CASE LoadTail \/ LoadTailNext \/ LoadHead \/ LoadAgain
  <2>1. Chain = w[1]
    BY ChainIs DEF ChainShown, Now, At
  <2> QED
    BY <2>1, <1>3, LoadSteps
<1>4. CASE SkipDummy
  BY <1>4, SkipDummyStep
<1>5. CASE TakeFound \/ TakeLast
  BY <1>5, TakeStep
<1>6. CASE EnqueueDummy \/ LinkDummy
  BY <1>6, DummyStep
<1> QED
  BY <1>1, <1>2, <1>3, <1>4, <1>5, <1>6 DEF MpscNext, Dequeue

\* Every step keeps the invariant.
LEMMA QueueKept == QueueInv /\ [MpscNext]_mpscVars => QueueInv'
<1> SUFFICES ASSUME QueueInv, [MpscNext]_mpscVars PROVE QueueInv'
  OBVIOUS
<1>1. PICK q, w : Now(q, w)
  BY DEF QueueInv
<1>2. CASE MpscNext
  BY <1>1, <1>2, QueueStep DEF QueueInv
<1>3. CASE UNCHANGED mpscVars
  <2>1. UNCHANGED <<_head, _tail, link, state, prev, consumer, tail, next, result, overlapped>>
    BY <1>3 DEF mpscVars, linkVars, callVars
  <2>2. QueueTypeOK'
    BY <2>1 DEF QueueTypeOK, QueueInv
  <2>3. Now(q, w)'
    BY <2>1, <1>1 DEF Now
  <2> QED
    BY <2>2, <2>3 DEF QueueInv
<1> QED
  BY <1>2, <1>3

\* In every state the nodes form one list from _tail to _head, each linked or
\* on its way to being linked behind the one before it, with the consumer at
\* the first of them.
THEOREM QueueInvariant == MpscSpec => []QueueInv
<1>1. MpscInit => QueueInv
  BY QueueStart
<1>2. QueueInv /\ [MpscNext]_mpscVars => QueueInv'
  BY QueueKept
<1> QED
  BY <1>1, <1>2, PTL DEF MpscSpec

\* Every variable of the queue keeps its type.
THEOREM QueueTypes == MpscSpec => []QueueTypeOK
<1>1. QueueInv => QueueTypeOK
  BY DEF QueueInv
<1> QED
  BY <1>1, QueueInvariant, PTL

\* A node the consumer has deleted is reached neither by an Enqueue that has
\* still to link nor by the queue nor by a Dequeue under way.
THEOREM FreedIsUntouched == MpscSpec => []FreedUntouched
<1>1. ASSUME QueueInv PROVE FreedUntouched
  <2>1. PICK q, w : Now(q, w)
    BY <1>1 DEF QueueInv
  <2>2. QueueTypeOK
    BY <1>1 DEF QueueInv
  <2> DEFINE k == Len(q)
  <2>3. /\ k \in Nat \ {0} /\ \A i \in 1 .. k : q[i] \in Nodes /\ state[q[i]] # "freed"
        /\ q[1] = _tail /\ q[k] = _head /\ state[q[1]] = "in" /\ link[q[k]] = Null
        /\ \A i \in 1 .. k - 1 :
             \/ state[q[i + 1]] = "in" /\ link[q[i]] = q[i + 1]
             \/ state[q[i + 1]] = "entering" /\ prev[q[i + 1]] = q[i] /\ link[q[i]] = Null
        /\ \A m \in Nodes :
             (\A i \in 1 .. k : q[i] # m)
               => state[m] \in (IF m = Dummy THEN {"in"} ELSE {"new", "freed"})
    BY <2>1 DEF Now, At, Lists
  <2>4. Dummy \notin Items /\ \A n \in Items : n \in Nodes /\ n # Null
    BY QueueAssumption DEF Nodes
  <2>5. /\ Stands(q, consumer, tail, next, link, state)
        /\ consumer # "idle" => tail = _tail
    BY <2>1 DEF Now, At
  <2> HIDE DEF k
  <2> SUFFICES ASSUME NEW n \in Items, state[n] = "freed"
               PROVE  /\ n \notin {_head, _tail}
                      /\ consumer # "idle" => n \notin {tail, next}
                      /\ \A m \in Items : state[m] = "in" => link[m] # n
                      /\ \A m \in Nodes : state[m] = "entering" => prev[m] # n
    BY DEF FreedUntouched
  <2>6. 1 \in 1 .. k /\ k \in 1 .. k
    BY <2>3
  <2>7. n # _head /\ n # _tail
    BY <2>3, <2>6
  <2>8. ASSUME NEW i \in 1 .. k PROVE link[q[i]] # n
    <3>1. CASE i = k
      BY <3>1, <2>3, <2>4
    <3>2. CASE i # k
      <4>1. i \in 1 .. k - 1 /\ i + 1 \in 1 .. k
        BY <3>2, <2>3
      <4> QED
        BY <4>1, <2>3, <2>4
    <3> QED
      BY <3>1, <3>2
  <2>9. consumer # "idle" => n # tail /\ n # next
    <3>1. link[_tail] # n
      BY <2>3, <2>6, <2>8
    <3>2. consumer # "idle" => next = Null \/ next = link[tail]
      <4>1. consumer # "idle" => consumer \in {"tailNext", "skipDummy", "found", "enqueueDummy",
                                               "linkDummy", "again", "take"}
        BY <2>2 DEF QueueTypeOK
      <4> QED
        BY <4>1, <2>5 DEF Stands
    <3> QED
      BY <3>1, <3>2, <2>4, <2>5, <2>7
  <2>10. ASSUME NEW m \in Items, state[m] = "in" PROVE link[m] # n
    <3>1. \E i \in 1 .. k : q[i] = m
      BY <2>3, <2>4, <2>10
    <3> QED
      BY <3>1, <2>8
  <2>11. ASSUME NEW m \in Nodes, state[m] = "entering" PROVE prev[m] # n
    <3>1. PICK i \in 1 .. k : q[i] = m
      BY <2>3, <2>11
    <3>2. i - 1 \in 1 .. k - 1 /\ (i - 1) + 1 = i /\ i - 1 \in 1 .. k
      BY <3>1, <2>3, <2>11
    <3>3. state[q[(i - 1) + 1]] = "entering" /\ q[(i - 1) + 1] = m
      BY <3>1, <3>2, <2>11
    <3>4. prev[m] = q[i - 1]
      BY <3>2, <3>3, <2>3
    <3> QED
      BY <3>2, <3>4, <2>3
  <2> QED
    BY <2>7, <2>9, <2>10, <2>11
<1> QED
  BY <1>1, QueueInvariant, PTL

-----------------------------------------------------------------------------
(* The queue implements the abstract one. *)

\* The queue is the empty queue of MPSCFifo.
LEMMA FifoStart == MpscInit => Fifo!Init
<1> SUFFICES ASSUME MpscInit PROVE Fifo!Init
  OBVIOUS
<1>1. QueueTypeOK
  BY QueueStart DEF QueueInv
<1> DEFINE q == <<Dummy>>
           w == [i \in 1 .. 2 |-> <<>>]
<1>2. Chain = <<>>
  <2>1. PICK r, x : Now(r, x)
    BY QueueStart DEF QueueInv
  <2>2. /\ Chain = x[1] /\ Shows(x, r) /\ r \in Seq(Nodes) /\ Len(r) \in Nat \ {0}
        /\ \A i, j \in 1 .. Len(r) : r[i] = r[j] => i = j
        /\ \A i \in 1 .. Len(r) : r[i] \in Nodes /\ state[r[i]] \in {"entering", "in"}
    BY <2>1, <1>1, ChainIs DEF ChainShown, Now, At, Lists
  <2>3. \A i \in 1 .. Len(r) : r[i] = Dummy
    BY <2>2 DEF MpscInit
  <2>4. x[1] = <<>>
    BY <2>2, <2>3, ShowsNothing
  <2> QED
    BY <2>2, <2>4
<1>3. Entering = {}
  BY DEF MpscInit, Entering, Nodes
<1> QED
  BY <1>2, <1>3 DEF MpscInit, Fifo!Init

\* Every step is one of MPSCFifo or leaves what it sees alone.
LEMMA FifoStep == QueueInv /\ [MpscNext]_mpscVars => [Fifo!Next]_Fifo!vars
<1> SUFFICES ASSUME QueueInv, [MpscNext]_mpscVars PROVE [Fifo!Next]_Fifo!vars
  OBVIOUS
<1>1. PICK q, w : Now(q, w)
  BY DEF QueueInv
<1>2. QueueTypeOK
  BY DEF QueueInv
<1>3. CASE MpscNext
  <2>1. QueueTypeOK' /\ \E r, x : Now(r, x)' /\ Simulates(w[1], x[1])
    BY <1>1, <1>2, <1>3, QueueStep
  <2>2. PICK r, x : Now(r, x)' /\ Simulates(w[1], x[1])
    BY <2>1
  <2>3. Chain = w[1]
    BY <1>1, <1>2, ChainIs DEF ChainShown, Now, At
  <2>4. Chain' = x[1]
    <3>1. ChainShown'
      BY <2>1, ChainIsNext
    <3>2. Lists(r, _tail', _head', link', state', prev') /\ Shows(x, r)
      BY <2>2 DEF Now, At
    <3> QED
      BY <3>1, <3>2 DEF ChainShown
  <2>5. Simulates(Chain, Chain')
    BY <2>2, <2>3, <2>4
  <2>6. CASE Begins(Chain, Chain')
    <3>1. PICK n \in Items : Fifo!EnqueueBegins(n)
      BY <2>6 DEF Begins, Fifo!EnqueueBegins
    <3> QED
      BY <3>1 DEF Fifo!Next
  <2>7. CASE Ends(Chain, Chain')
    <3>1. PICK n \in Items : Fifo!EnqueueEnds(n)
      BY <2>7 DEF Ends, Fifo!EnqueueEnds
    <3> QED
      BY <3>1 DEF Fifo!Next
  <2>8. CASE Calls(Chain, Chain')
    BY <2>8 DEF Calls, Fifo!DequeueBegins, Fifo!Next
  <2>9. CASE Takes1(Chain, Chain')
    BY <2>9 DEF Takes1, Fifo!DequeueTakes, Fifo!Next
  <2>10. CASE Fails1(Chain, Chain')
    BY <2>10 DEF Fails1, Fifo!DequeueFails, Fifo!Next
  <2>11. CASE Inner(Chain, Chain')
    BY <2>11 DEF Inner, Fifo!vars
  <2> QED
    BY <2>5, <2>6, <2>7, <2>8, <2>9, <2>10, <2>11 DEF Simulates
<1>4. CASE UNCHANGED mpscVars
  <2>1. UNCHANGED <<_head, _tail, link, state, prev, consumer, tail, next, result, overlapped>>
    BY <1>4 DEF mpscVars, linkVars, callVars
  <2>2. Lists(q, _tail', _head', link', state', prev') /\ Shows(w, q)
    BY <2>1, <1>1 DEF Now, At
  <2>3. QueueTypeOK'
    BY <2>1, <1>2 DEF QueueTypeOK
  <2>4. Chain = w[1] /\ Chain' = w[1]
    BY <2>2, <2>3, <1>1, <1>2, ChainIs, ChainIsNext DEF ChainShown, Now, At
  <2>5. Entering' = Entering
    BY <2>1 DEF Entering
  <2> QED
    BY <2>1, <2>4, <2>5 DEF Fifo!vars
<1> QED
  BY <1>3, <1>4

\* The linked nodes, the dummy that comes and goes and producers stopped
\* between the exchange and the link make a first-in first-out queue: what is
\* enqueued is taken in the order of the exchanges and once, and a Dequeue
\* comes back empty-handed only when the queue was empty or an Enqueue under way.
THEOREM QueueImplementsFifo == MpscSpec => ImplementsFifo
<1>1. MpscInit => Fifo!Init
  BY FifoStart
<1>2. QueueInv /\ [MpscNext]_mpscVars => [Fifo!Next]_Fifo!vars
  BY FifoStep
<1> QED
  BY <1>1, <1>2, QueueInvariant, PTL DEF MpscSpec, ImplementsFifo, Fifo!Spec

-----------------------------------------------------------------------------
(* Socket: packing. *)

\* Buffers of packets.
Buffers == {x \in Seq(1..MaxPackets) : Len(x) \in 1..BufferSize}

\* As many buffers as it takes, the last not empty.
LEMMA BufferCount ==
  ASSUME NEW l \in Nat, NEW k, k = (l + BufferSize - 1) \div BufferSize
  PROVE  /\ k \in Nat /\ l =< k * BufferSize
         /\ \A b \in 1..k : (b - 1) * BufferSize < l
<1>1. BufferSize \in Nat \ {0}
  BY SocketAssumption
<1> DEFINE B == BufferSize
<1> HIDE DEF B
<1>2. B \in Nat /\ B > 0
  BY <1>1 DEF B
<1>3. k = (l + B - 1) \div B
  BY DEF B
<1>4. k \in Int /\ B * k =< l + B - 1 /\ l + B - 1 < B * k + B
  <2>1. l + B - 1 \in Int
    BY <1>2
  <2> QED
    BY <1>2, <1>3, <2>1
<1>5. k >= 0
  BY <1>2, <1>4
<1>6. l =< k * B
  BY <1>2, <1>4
<1>7. ASSUME NEW b \in 1..k PROVE (b - 1) * B < l
  <2>1. b - 1 \in Int /\ b - 1 =< k - 1
    BY <1>4
  <2>2. (b - 1) * B =< (k - 1) * B
    BY <1>2, <1>4, <2>1
  <2>3. (k - 1) * B = B * k - B
    BY <1>2, <1>4
  <2> QED
    BY <1>2, <1>4, <2>1, <2>2, <2>3
<1> QED
  BY <1>4, <1>5, <1>6, <1>7 DEF B

\* Where buffer b ends, of l packets.
Upto(b, l) == IF b * BufferSize < l THEN b * BufferSize ELSE l

\* The buffers: where each begins and ends.
LEMMA PackedBuffers ==
  ASSUME NEW q \in Seq(1..MaxPackets)
  PROVE  /\ Packed(q) \in Seq(Buffers)
         /\ Upto(0, Len(q)) = 0 /\ Upto(Len(Packed(q)), Len(q)) = Len(q)
         /\ \A b \in 1..Len(Packed(q)) :
              /\ Packed(q)[b] = SubSeq(q, Upto(b - 1, Len(q)) + 1, Upto(b, Len(q)))
              /\ Upto(b - 1, Len(q)) \in 0..Upto(b, Len(q)) /\ Upto(b, Len(q)) \in 0..Len(q)
<1> DEFINE l == Len(q)
           k == (l + BufferSize - 1) \div BufferSize
           Bounds(b) == /\ Upto(b - 1, l) = (b - 1) * BufferSize
                        /\ Upto(b - 1, l) \in 0..Upto(b, l) /\ Upto(b, l) \in 0..l
                        /\ Upto(b, l) - Upto(b - 1, l) \in 1..BufferSize
<1>1. l \in Nat /\ BufferSize \in Nat \ {0}
  BY SocketAssumption
<1>2. /\ k \in Nat /\ l =< k * BufferSize
      /\ \A b \in 1..k : (b - 1) * BufferSize < l
  <2> HIDE DEF l
  <2> QED
    BY <1>1, BufferCount
<1>3. Packed(q) = [b \in 1..k |->
        SubSeq(q, (b - 1) * BufferSize + 1, IF b * BufferSize < l THEN b * BufferSize ELSE l)]
  BY DEF Packed
<1> HIDE DEF k, l
<1>4. Upto(0, l) = 0 /\ Upto(k, l) = l
  BY <1>1, <1>2 DEF Upto
<1>5. ASSUME NEW b \in 1..k PROVE Bounds(b)
  <2>1. b \in Nat /\ b - 1 \in Nat /\ (b - 1) * BufferSize < l
    BY <1>2
  <2>2. (b - 1) * BufferSize \in Nat /\ b * BufferSize = (b - 1) * BufferSize + BufferSize
    BY <1>1, <2>1
  <2>3. Upto(b - 1, l) = (b - 1) * BufferSize
    BY <2>1 DEF Upto
  <2> QED
    BY <1>1, <2>1, <2>2, <2>3 DEF Upto
<1>6. \A b \in 1..k : Packed(q)[b] = SubSeq(q, Upto(b - 1, l) + 1, Upto(b, l))
  BY <1>3, <1>5 DEF Upto
<1>7. ASSUME NEW b \in 1..k PROVE Packed(q)[b] \in Buffers
  <2>1. Bounds(b)
    BY <1>5
  <2> DEFINE from == Upto(b - 1, l)
             to == Upto(b, l)
  <2> HIDE DEF from, to
  <2>2. from \in 0..to /\ to \in 0..l /\ to - from \in 1..BufferSize
    BY <2>1 DEF from, to
  <2>3. \A i \in (from + 1)..to : q[i] \in 1..MaxPackets
    <3>1. \A i \in (from + 1)..to : i \in 1..l
      BY <1>1, <2>2
    <3> QED
      BY <3>1, ElementOfSeq DEF l
  <2>4. from + 1 \in Int /\ to \in Int /\ from + 1 =< to /\ to - (from + 1) + 1 = to - from
    BY <1>1, <2>2
  <2>5. SubSeq(q, from + 1, to) \in Buffers
    BY <2>2, <2>3, <2>4, SubSeqProperties DEF Buffers
  <2> QED
    BY <2>5, <1>6 DEF from, to
<1>8. Packed(q) \in [1..k -> Buffers]
  BY <1>3, <1>7
<1>9. Packed(q) \in Seq(Buffers) /\ Len(Packed(q)) = k
  BY <1>2, <1>8
<1> QED
  BY <1>4, <1>5, <1>6, <1>9 DEF l

\* Packing neither loses nor reorders packets.
LEMMA PackedFlat ==
  ASSUME NEW q \in Seq(1..MaxPackets)
  PROVE  FlattenSeq(Packed(q)) = q
<1> DEFINE E == 1..MaxPackets
           k == Len(Packed(q))
           First(i) == SubSeq(Packed(q), 1, i)
           S == {i \in Nat : i =< k => FlattenSeq(First(i)) = SubSeq(q, 1, Upto(i, Len(q)))}
<1>1. /\ Packed(q) \in Seq(Buffers) /\ Packed(q) \in Seq(Seq(E)) /\ k \in Nat
      /\ Upto(0, Len(q)) = 0 /\ Upto(k, Len(q)) = Len(q)
      /\ \A b \in 1..k :
           /\ Packed(q)[b] = SubSeq(q, Upto(b - 1, Len(q)) + 1, Upto(b, Len(q)))
           /\ Upto(b - 1, Len(q)) \in 0..Upto(b, Len(q)) /\ Upto(b, Len(q)) \in 0..Len(q)
  <2>1. Packed(q) \in Seq(Buffers) /\ Buffers \subseteq Seq(E)
    BY PackedBuffers DEF Buffers
  <2>2. Packed(q) \in Seq(Seq(E))
    BY <2>1, SeqMonotonic
  <2> QED
    BY <2>1, <2>2, PackedBuffers
<1> DEFINE p == Packed(q)
<1> HIDE DEF p
<1>2. 0 \in S
  <2>1. SubSeq(p, 1, 0) = <<>> /\ SubSeq(q, 1, 0) = <<>>
    BY SubSeqEmpty
  <2> QED
    BY <1>1, <2>1, FlattenEmpty DEF p
<1>3. ASSUME NEW i \in 1..k, i - 1 \in S PROVE i \in S
  <2> DEFINE from == Upto(i - 1, Len(q))
             to == Upto(i, Len(q))
  <2>1. p[i] = SubSeq(q, from + 1, to) /\ from \in 0..to /\ to \in 0..Len(q)
    BY <1>1 DEF p
  <2>2. FlattenSeq(SubSeq(p, 1, i - 1)) = SubSeq(q, 1, from)
    BY <1>1, <1>3 DEF p
  <2> HIDE DEF from, to
  <2>3. /\ SubSeq(p, 1, i - 1) \in Seq(Seq(E)) /\ p[i] \in Seq(E)
        /\ SubSeq(p, 1, i) = Append(SubSeq(p, 1, i - 1), p[i])
    <3>1. p \in Seq(Seq(E)) /\ k = Len(p)
      BY <1>1 DEF p
    <3> HIDE DEF k, E
    <3>2. /\ 1 \in 1..Len(p) /\ i \in 1..Len(p) /\ i - 1 \in Int
          /\ \A j \in 1..(i-1) : p[j] \in Seq(E)
      BY <1>1, <3>1, ElementOfSeq
    <3>3. SubSeq(p, 1, i) = SubSeq(p, 1, i-1) \o <<p[i]>>
      BY <3>1, <3>2, SubSeqRecursiveSecond
    <3>4. SubSeq(p, 1, i-1) \in Seq(Seq(E)) /\ p[i] \in Seq(E)
      BY <3>1, <3>2, ElementOfSeq, SubSeqProperties
    <3> QED
      BY <3>3, <3>4, AppendIsConcat
  <2>4. FlattenSeq(SubSeq(p, 1, i)) = SubSeq(q, 1, from) \o SubSeq(q, from + 1, to)
    BY <2>1, <2>2, <2>3, FlattenAppend
  <2>5. SubSeq(q, 1, from) \o SubSeq(q, from + 1, to) = SubSeq(q, 1, to)
    <3>1. 1 \in 1..Len(q)+1 /\ from \in (1-1)..Len(q) /\ to \in from..Len(q)
      BY <2>1
    <3> QED
      BY <3>1, ConcatAdjacentSubSeq
  <2>6. FlattenSeq(First(i)) = SubSeq(q, 1, Upto(i, Len(q)))
    BY <2>4, <2>5 DEF p, to
  <2> HIDE DEF First
  <2> QED
    BY <2>6, <1>1
<1>4. \A i \in 0..k : i \in S
  <2> HIDE DEF S
  <2> QED
    BY <1>1, <1>2, <1>3, InductionUpTo
<1>5. k \in S
  BY <1>1, <1>4
<1>6. First(k) = Packed(q) /\ SubSeq(q, 1, Len(q)) = q
  BY <1>1, SubSeqFull
<1>7. FlattenSeq(First(k)) = SubSeq(q, 1, Upto(k, Len(q)))
  <2> HIDE DEF First
  <2> QED
    BY <1>1, <1>5
<1> QED
  BY <1>1, <1>6, <1>7

-----------------------------------------------------------------------------
(* The inductive invariant of Socket. *)

\* The types, with the buffers; what is popped next is there, and the socket
\* that Update looks at is on the thread.
SocketInv ==
  /\ SocketTypeOK
  /\ _writeQueue \in Seq(Buffers)
  /\ net \in {"loopDone", "lastDone", "loopLate", "lastLate"} => _writeQueue # <<>>
  /\ net = "update" => place = "added"
  /\ NothingLost

\* A socket that has been accepted has nothing to send.
LEMMA SocketInitInv == SocketInit => SocketInv
<1> SUFFICES ASSUME SocketInit PROVE SocketInv
  OBVIOUS
<1>1. <<>> \in Seq(1..MaxPackets) /\ <<>> \in Seq(Buffers) /\ Len(<<>>) = 0
  BY EmptySeq
<1>2. SocketTypeOK
  <2>1. \A b \in 1..Len(_writeQueue) : Len(_writeQueue[b]) \in 1..BufferSize
    BY <1>1 DEF SocketInit
  <2>2. {_isWritingAsync, reading, broken} \subseteq BOOLEAN
    BY DEF SocketInit
  <2>3. sent \in 0..MaxPackets /\ bufferQueue \in Seq(1..MaxPackets) /\ wire \in Seq(1..MaxPackets)
    BY <1>1, SocketAssumption DEF SocketInit
  <2> QED
    BY <2>1, <2>2, <2>3 DEF SocketInit, SocketTypeOK, NetPlaces
<1>3. [i \in 1..0 |-> i] = <<>>
  OBVIOUS
<1>4. Unwritten = <<>>
  BY DEF SocketInit, Unwritten
<1>5. wire \o FlattenSeq(<<>>) \o bufferQueue = <<>>
  BY <1>1, FlattenEmpty, ConcatEmptySeq DEF SocketInit
<1>6. NothingLost
  BY <1>3, <1>4, <1>5 DEF SocketInit, NothingLost
<1> QED
  BY <1>1, <1>2, <1>6 DEF SocketInit, SocketInv

\* The numbers of the packets sent, when one more is.
LEMMA SentAppend ==
  ASSUME NEW n \in Nat
  PROVE  [i \in 1..(n + 1) |-> i] = Append([i \in 1..n |-> i], n + 1)
<1>1. [i \in 1..n |-> i] \in Seq(Nat) /\ [i \in 1..(n + 1) |-> i] \in Seq(Nat)
  OBVIOUS
<1>2. Append([i \in 1..n |-> i], n + 1) \in Seq(Nat)
  BY <1>1
<1> QED
  BY <1>1, <1>2, SeqEqual

\* A packet is sent.
LEMMA EnqueueKeeps ==
  ASSUME SocketInv, Enqueue, UNCHANGED <<wire, _writeQueue>>,
         NEW u, u \in Seq(Buffers),
         wire \o FlattenSeq(u) \o bufferQueue = [i \in 1..sent |-> i]
  PROVE  /\ bufferQueue' \in Seq(1..MaxPackets) /\ sent' \in 0..MaxPackets
         /\ wire' \o FlattenSeq(u) \o bufferQueue' = [i \in 1..sent' |-> i]
<1> DEFINE E == 1..MaxPackets
<1>1. /\ wire \in Seq(E) /\ bufferQueue \in Seq(E) /\ sent \in 0..MaxPackets /\ sent + 1 \in E
      /\ sent \in Nat
  BY SocketAssumption DEF SocketInv, SocketTypeOK, Enqueue
<1>2. FlattenSeq(u) \in Seq(E)
  <2>1. u \in Seq(Seq(E))
    BY SeqMonotonic DEF Buffers
  <2> QED
    BY <2>1, FlattenType
<1> DEFINE w == wire \o FlattenSeq(u)
<1>3. w \in Seq(E)
  BY <1>1, <1>2, ConcatProperties
<1>4. w \o bufferQueue = [i \in 1..sent |-> i]
  OBVIOUS
<1> HIDE DEF w, E
<1>5. w \o Append(bufferQueue, sent + 1) = Append(w \o bufferQueue, sent + 1)
  BY <1>1, <1>3
<1>6. w \o bufferQueue' = [i \in 1..(sent + 1) |-> i]
  BY <1>1, <1>4, <1>5, SentAppend DEF Enqueue
<1>7. wire' \o FlattenSeq(u) \o bufferQueue' = [i \in 1..sent' |-> i]
  BY <1>6 DEF Enqueue, w
<1>8. Append(bufferQueue, sent + 1) \in Seq(E) /\ sent + 1 \in 0..MaxPackets
  BY <1>1, AppendProperties DEF E
<1> QED
  BY <1>7, <1>8 DEF Enqueue, E

\* A step that leaves the packets alone.
LEMMA SamePackets ==
  ASSUME NothingLost, UNCHANGED <<bufferQueue, _writeQueue, wire, sent>>,
         _openState' # "Closed" /\ ~broken' =>
           _openState # "Closed" /\ ~broken /\ Unwritten' = Unwritten
  PROVE  NothingLost'
  BY DEF NothingLost

\* A step that sends one.
LEMMA SendingKeeps ==
  ASSUME SocketInv, Enqueue, UNCHANGED <<wire, _writeQueue, net, broken>>,
         _openState' # "Closed" => _openState # "Closed"
  PROVE  /\ bufferQueue' \in Seq(1..MaxPackets) /\ sent' \in 0..MaxPackets
         /\ NothingLost'
<1> DEFINE u == Unwritten
<1>1. u \in Seq(Buffers)
  BY HeadTailProperties DEF SocketInv, Unwritten
<1>2. /\ bufferQueue' \in Seq(1..MaxPackets) /\ sent' \in 0..MaxPackets
  <2>1. sent + 1 \in 1..MaxPackets
    BY SocketAssumption DEF SocketInv, SocketTypeOK, Enqueue
  <2> QED
    BY <2>1 DEF SocketInv, SocketTypeOK, Enqueue
<1>3. ASSUME _openState' # "Closed", ~broken'
      PROVE  wire' \o FlattenSeq(Unwritten') \o bufferQueue' = [i \in 1..sent' |-> i]
  <2>1. Unwritten' = u
    BY <1>3 DEF Unwritten, StreamFails
  <2>2. wire \o FlattenSeq(u) \o bufferQueue = [i \in 1..sent |-> i]
    BY <1>3 DEF SocketInv, NothingLost
  <2> HIDE DEF u
  <2> QED
    BY <1>1, <2>1, <2>2, EnqueueKeeps
<1> QED
  BY <1>2, <1>3 DEF NothingLost

\* The network thread takes what was sent into buffers.
LEMMA UpdateTakesKeeps ==
  ASSUME SocketInv, UpdateTakesPackets
  PROVE  SocketInv'
<1> DEFINE E == 1..MaxPackets
<1>1. PICK n \in 0..Len(bufferQueue) :
        /\ _writeQueue' = _writeQueue \o Packed(SubSeq(bufferQueue, 1, n))
        /\ bufferQueue' = SubSeq(bufferQueue, n + 1, Len(bufferQueue))
  BY DEF UpdateTakesPackets
<1> DEFINE taken == SubSeq(bufferQueue, 1, n)
           left == SubSeq(bufferQueue, n + 1, Len(bufferQueue))
<1>2. bufferQueue \in Seq(E) /\ wire \in Seq(E) /\ _writeQueue \in Seq(Buffers)
  BY DEF SocketInv, SocketTypeOK
<1>3. taken \in Seq(E) /\ left \in Seq(E) /\ taken \o left = bufferQueue
  <2>1. Len(bufferQueue) \in Nat /\ \A i \in 1..Len(bufferQueue) : bufferQueue[i] \in E
    <3> HIDE DEF E
    <3> QED
      BY <1>2, ElementOfSeq
  <2>2. taken \in Seq(E) /\ left \in Seq(E)
    <3>1. /\ \A i \in 1..n : bufferQueue[i] \in E
          /\ \A i \in (n+1)..Len(bufferQueue) : bufferQueue[i] \in E
      BY <2>1
    <3> HIDE DEF E
    <3> QED
      BY <2>1, <3>1, SubSeqProperties
  <2>3. taken \o left = SubSeq(bufferQueue, 1, Len(bufferQueue))
    <3>1. /\ 1 \in 1..Len(bufferQueue) + 1 /\ n \in (1-1)..Len(bufferQueue)
          /\ Len(bufferQueue) \in n..Len(bufferQueue)
      BY <2>1
    <3> HIDE DEF E
    <3> QED
      BY <1>2, <3>1, ConcatAdjacentSubSeq
  <2> QED
    BY <1>2, <2>2, <2>3, SubSeqFull
<1> HIDE DEF taken, left
<1>4. Packed(taken) \in Seq(Buffers) /\ FlattenSeq(Packed(taken)) = taken
  BY <1>3, PackedBuffers, PackedFlat
<1>5. _writeQueue' \in Seq(Buffers)
  BY <1>1, <1>2, <1>4, ConcatProperties DEF taken
<1>6. \A b \in 1..Len(_writeQueue') : Len(_writeQueue'[b]) \in 1..BufferSize
  BY <1>5, ElementOfSeq DEF Buffers
<1>7. SocketTypeOK'
  BY <1>1, <1>3, <1>6 DEF SocketInv, SocketTypeOK, UpdateTakesPackets, NotClosed, NetPlaces, left
<1>8. ASSUME _openState' # "Closed", ~broken'
      PROVE  wire' \o FlattenSeq(Unwritten') \o bufferQueue' = [i \in 1..sent' |-> i]
  <2>1. Unwritten' = _writeQueue' /\ Unwritten = _writeQueue
    BY DEF UpdateTakesPackets, Unwritten
  <2>2. wire \o FlattenSeq(_writeQueue) \o bufferQueue = [i \in 1..sent |-> i]
    BY <1>8, <2>1 DEF SocketInv, NothingLost, UpdateTakesPackets, NotClosed
  <2>3. _writeQueue \in Seq(Seq(E)) /\ Packed(taken) \in Seq(Seq(E))
    BY <1>2, <1>4, SeqMonotonic DEF Buffers
  <2>4. FlattenSeq(_writeQueue') = FlattenSeq(_writeQueue) \o taken
    BY <1>1, <1>4, <2>3, FlattenConcat DEF taken
  <2> DEFINE f == FlattenSeq(_writeQueue)
  <2>5. f \in Seq(E)
    BY <2>3, FlattenType
  <2> HIDE DEF f
  <2>6. wire \o (f \o taken) \o left = wire \o f \o (taken \o left)
    <3> HIDE DEF E
    <3>1. wire \in Seq(E) /\ f \in Seq(E) /\ taken \in Seq(E) /\ left \in Seq(E)
      BY <1>2, <1>3, <2>5
    <3> HIDE DEF E
    <3>2. \A x, y \in Seq(E) : x \o y \in Seq(E)
      BY ConcatProperties
    <3>3. \A x, y, z \in Seq(E) : (x \o y) \o z = x \o (y \o z)
      BY ConcatAssociative
    <3>4. wire \o f \in Seq(E)
      BY <3>1, <3>2
    <3>6. (wire \o f) \o taken = wire \o (f \o taken)
      BY <3>1, <3>3
    <3>5. ((wire \o f) \o taken) \o left = (wire \o f) \o (taken \o left)
      BY <3>1, <3>3, <3>4
    <3> QED
      BY <3>5, <3>6
  <2>7. wire' = wire /\ sent' = sent
    BY DEF UpdateTakesPackets
  <2> QED
    BY <1>1, <1>3, <2>1, <2>2, <2>4, <2>6, <2>7 DEF f, left
<1> QED
  BY <1>5, <1>7, <1>8 DEF SocketInv, NothingLost, UpdateTakesPackets

\* A write takes some of the first buffer, or all of it.
LEMMA WriteSomeKeeps ==
  ASSUME SocketInv, WriteSome
  PROVE  SocketInv'
<1> DEFINE E == 1..MaxPackets
           h == Head(_writeQueue)
           t == Tail(_writeQueue)
<1>1. /\ InHandleQueue /\ _writeQueue # <<>> /\ ~StreamFails
      /\ UNCHANGED <<place, _connections, bufferQueue, sent, reading, caller, broken, asked>>
      /\ UNCHANGED _openState
  BY DEF WriteSome, NotClosed
<1>2. PICK n \in 1..Len(h) :
        /\ wire' = wire \o SubSeq(h, 1, n)
        /\ IF n < Len(h)
           THEN /\ _writeQueue' = <<SubSeq(h, n + 1, Len(h))>> \o t
                /\ _isWritingAsync' = TRUE /\ net' = "idle"
           ELSE net' = Full(net) /\ UNCHANGED <<_writeQueue, _isWritingAsync>>
  BY DEF WriteSome, Remainder
<1>3. /\ wire \in Seq(E) /\ bufferQueue \in Seq(E) /\ _writeQueue \in Seq(Buffers)
      /\ h \in Buffers /\ t \in Seq(Buffers)
  BY <1>1, HeadTailProperties DEF SocketInv, SocketTypeOK
<1> DEFINE a == SubSeq(h, 1, n)
           z == SubSeq(h, n + 1, Len(h))
<1> HIDE DEF h, t
<1>4. h \in Seq(E) /\ Len(h) \in 1..BufferSize /\ Len(h) \in Nat
  BY <1>3 DEF Buffers
<1>5. /\ a \in Seq(E) /\ z \in Seq(E) /\ a \o z = h
      /\ Len(z) = Len(h) - n /\ (n = Len(h) => a = h)
  <2>1. \A i \in 1..Len(h) : h[i] \in E
    BY <1>4, ElementOfSeq
  <2>2. /\ \A i \in 1..n : h[i] \in E
        /\ \A i \in (n+1)..Len(h) : h[i] \in E
        /\ 1 \in 1..Len(h) + 1 /\ n \in (1-1)..Len(h) /\ Len(h) \in n..Len(h)
        /\ n \in Int /\ n + 1 \in Int /\ (Len(h) - (n + 1)) + 1 = Len(h) - n
    BY <1>4, <2>1
  <2> HIDE DEF E
  <2>3. a \in Seq(E)
    BY <2>2, SubSeqProperties
  <2>4. z \in Seq(E) /\ Len(z) = IF n + 1 =< Len(h) THEN (Len(h) - (n + 1)) + 1 ELSE 0
    BY <1>4, <2>1, <2>2, SubSeqProperties
  <2>5. a \o z = SubSeq(h, 1, Len(h))
    BY <1>4, <2>2, ConcatAdjacentSubSeq
  <2>6. SubSeq(h, 1, Len(h)) = h
    BY <1>4, SubSeqFull
  <2>7. Len(z) = Len(h) - n
    <3>1. n \in Nat /\ n =< Len(h) /\ Len(h) \in Nat
      BY <1>4
    <3> DEFINE lh == Len(h)
               lz == Len(z)
    <3>2. lz = IF n + 1 =< lh THEN (lh - (n + 1)) + 1 ELSE 0
      BY <2>4
    <3> HIDE DEF lh, lz
    <3>3. lz = lh - n
      BY <3>1, <3>2 DEF lh
    <3> QED
      BY <3>3 DEF lh, lz
  <2>8. n = Len(h) => a = h
    BY <2>6
  <2> QED
    BY <2>3, <2>4, <2>5, <2>6, <2>7, <2>8
<1> HIDE DEF a, z
<1>6. wire' \in Seq(E)
  BY <1>2, <1>3, <1>5, ConcatProperties DEF a
<1>7. _writeQueue' \in Seq(Buffers)
  <2>1. CASE n < Len(h)
    <3>1. z \in Buffers
      <4>1. Len(z) \in 1..BufferSize
        BY <1>4, <1>5, <2>1, SocketAssumption
      <4> QED
        BY <4>1, <1>5 DEF Buffers
    <3>2. <<z>> \in Seq(Buffers)
      BY <3>1
    <3> QED
      BY <1>2, <1>3, <2>1, <3>2, ConcatProperties DEF z
  <2> QED
    BY <1>2, <1>3, <2>1
<1>8. \A b \in 1..Len(_writeQueue') : Len(_writeQueue'[b]) \in 1..BufferSize
  BY <1>7, ElementOfSeq DEF Buffers
<1>9. /\ net' \in {"idle", "loopDone", "lastDone"}
      /\ _isWritingAsync' \in BOOLEAN
      /\ net' # "idle" => n = Len(h) /\ _writeQueue' = _writeQueue
  <2>1. _isWritingAsync \in BOOLEAN
    BY DEF SocketInv, SocketTypeOK
  <2>2. CASE n < Len(h)
    BY <1>2, <2>2
  <2>3. CASE ~(n < Len(h))
    <3>1. n = Len(h) /\ net' = Full(net) /\ UNCHANGED <<_writeQueue, _isWritingAsync>>
      BY <1>2, <1>4, <2>3
    <3> QED
      BY <2>1, <3>1 DEF Full
  <2> QED
    BY <2>2, <2>3
<1>10. SocketTypeOK'
  BY <1>1, <1>6, <1>8, <1>9 DEF SocketInv, SocketTypeOK, NetPlaces
<1>11. wire' \o FlattenSeq(Unwritten') \o bufferQueue' = [i \in 1..sent' |-> i]
  <2>1. Unwritten = _writeQueue
    BY <1>1 DEF Unwritten, InHandleQueue
  <2>2. wire \o FlattenSeq(_writeQueue) \o bufferQueue = [i \in 1..sent |-> i]
    BY <1>1, <2>1 DEF SocketInv, NothingLost, StreamFails
  <2>3. _writeQueue \in Seq(Seq(E)) /\ t \in Seq(Seq(E))
    BY <1>3, SeqMonotonic DEF Buffers
  <2> DEFINE ft == FlattenSeq(t)
  <2>4. ft \in Seq(E) /\ FlattenSeq(_writeQueue) = h \o ft
    BY <1>1, <2>3, FlattenType, FlattenFirst DEF h, t
  <2> HIDE DEF ft
  <2>5. wire \o (h \o ft) = (wire \o a) \o (z \o ft)
    <3> HIDE DEF E
    <3>1. wire \o ((a \o z) \o ft) = (wire \o a) \o (z \o ft)
      <4>1. wire \in Seq(E) /\ a \in Seq(E) /\ z \in Seq(E) /\ ft \in Seq(E)
        BY <1>3, <1>5, <2>4
      <4> HIDE DEF E
      <4>2. \A x, y \in Seq(E) : x \o y \in Seq(E)
        BY ConcatProperties
      <4>3. \A x, y, w \in Seq(E) : (x \o y) \o w = x \o (y \o w)
        BY ConcatAssociative
      <4>4. (a \o z) \o ft = a \o (z \o ft) /\ z \o ft \in Seq(E)
        BY <4>1, <4>2, <4>3
      <4>5. wire \o (a \o (z \o ft)) = (wire \o a) \o (z \o ft)
        BY <4>1, <4>3, <4>4
      <4> QED
        BY <4>4, <4>5
    <3> QED
      BY <1>5, <3>1
  <2>6. FlattenSeq(Unwritten') = z \o ft
    <3>1. CASE n < Len(h)
      <4>1. Unwritten' = <<z>> \o t
        BY <1>2, <3>1 DEF Unwritten, z
      <4>2. <<z>> \in Seq(Seq(E))
        BY <1>5
      <4>3. FlattenSeq(<<z>> \o t) = FlattenSeq(<<z>>) \o FlattenSeq(t)
        BY <4>2, <2>3, FlattenConcat
      <4>4. FlattenSeq(<<z>>) = z
        BY <1>5, FlattenOne
      <4> QED
        BY <4>1, <4>3, <4>4 DEF ft
    <3>2. CASE ~(n < Len(h))
      <4>1. n = Len(h) /\ net' \in {"loopDone", "lastDone"} /\ _writeQueue' = _writeQueue
        BY <1>2, <1>4, <3>2 DEF Full
      <4>2. Unwritten' = t
        BY <1>1, <4>1 DEF Unwritten, StreamFails, t
      <4>3. z = <<>>
        BY <1>5, <1>4, <4>1, EmptySeq
      <4> QED
        BY <4>2, <4>3, <2>4, ConcatEmptySeq DEF ft
    <3> QED
      BY <3>1, <3>2
  <2>7. wire' = wire \o a /\ bufferQueue' = bufferQueue /\ sent' = sent
    BY <1>1, <1>2 DEF a
  <2> QED
    BY <2>2, <2>4, <2>5, <2>6, <2>7
<1> QED
  BY <1>1, <1>7, <1>9, <1>10, <1>11 DEF SocketInv, NothingLost

\* The popped buffer is not counted any more when it is about to be popped.
LEMMA PopKeeps ==
  ASSUME SocketInv, PopBuffer \/ PopShowsLate
  PROVE  SocketInv'
<1>1. /\ _writeQueue # <<>> /\ _writeQueue' = Tail(_writeQueue)
      /\ net' \in {"loopCheck", "lastCheck", "loop", "idle"}
      /\ net \in {"loopDone", "lastDone", "loopLate", "lastLate"}
      /\ UNCHANGED <<place, _connections, bufferQueue, _isWritingAsync, wire, sent, reading, caller,
                     broken, asked, _openState>>
  BY DEF PopBuffer, PopShowsLate, SocketInv, After, NotClosed
<1>2. _writeQueue' \in Seq(Buffers)
  BY <1>1, HeadTailProperties DEF SocketInv
<1>3. \A b \in 1..Len(_writeQueue') : Len(_writeQueue'[b]) \in 1..BufferSize
  BY <1>2, ElementOfSeq DEF Buffers
<1>4. SocketTypeOK'
  BY <1>1, <1>3 DEF SocketInv, SocketTypeOK, NetPlaces
<1>5. ASSUME _openState' # "Closed", ~broken'
      PROVE  wire' \o FlattenSeq(Unwritten') \o bufferQueue' = [i \in 1..sent' |-> i]
  <2>1. Unwritten' = Tail(_writeQueue) /\ Unwritten = Tail(_writeQueue)
    BY <1>1, <1>5 DEF Unwritten, StreamFails
  <2> QED
    BY <1>1, <1>5, <2>1 DEF SocketInv, NothingLost
<1> QED
  BY <1>1, <1>2, <1>4, <1>5 DEF SocketInv, NothingLost

\* Every step of the socket.
LEMMA SocketStep ==
  ASSUME SocketInv, [SocketNext]_socketVars
  PROVE  SocketInv'
<1> USE DEF SocketInv, SocketTypeOK, NetPlaces, NotClosed, CloseSocket, IsOpen, ioVars
<1>1. CASE AddNewSocket
  <2>1. NothingLost'
    BY <1>1, SamePackets DEF AddNewSocket, Unwritten, StreamFails
  <2>2. CASE IsOpen
    BY <1>1, <2>1, <2>2 DEF AddNewSocket
  <2>3. CASE ~IsOpen
    BY <1>1, <2>1, <2>3 DEF AddNewSocket
  <2> QED
    BY <2>2, <2>3
<1>2. CASE UpdateTakesPackets
  BY <1>2, UpdateTakesKeeps
<1>3. CASE UpdateRemoves
  <2>1. NothingLost'
    BY <1>3, SamePackets DEF UpdateRemoves, Unwritten, StreamFails
  <2> QED
    BY <1>3, <2>1 DEF UpdateRemoves
<1>4. CASE UpdateWrites
  <2>1. NothingLost'
    BY <1>4, SamePackets DEF UpdateWrites, Unwritten, StreamFails
  <2> QED
    BY <1>4, <2>1 DEF UpdateWrites
<1>5. CASE HandleQueueEmpty
  <2>1. NothingLost'
    BY <1>5, SamePackets DEF HandleQueueEmpty, InHandleQueue, Unwritten, StreamFails
  <2> QED
    BY <1>5, <2>1 DEF HandleQueueEmpty
<1>6. CASE WriteWouldBlock
  <2>1. NothingLost'
    BY <1>6, SamePackets DEF WriteWouldBlock, InHandleQueue, Unwritten, StreamFails
  <2> QED
    BY <1>6, <2>1 DEF WriteWouldBlock
<1>7. CASE WriteFails
  <2>1. NothingLost'
    BY <1>7, SamePackets DEF WriteFails, StreamFails
  <2> QED
    BY <1>7, <2>1 DEF WriteFails
<1>8. CASE WriteSome
  BY <1>8, WriteSomeKeeps
<1>9. CASE PopBuffer
  BY <1>9, PopKeeps
<1>10. CASE CheckClosing
  <2>1. net' \in {"loop", "idle"}
    BY <1>10 DEF CheckClosing, After
  <2>2. NothingLost'
    BY <1>10, <2>1, SamePackets DEF CheckClosing, Unwritten
  <2> QED
    BY <1>10, <2>1, <2>2 DEF CheckClosing
<1>11. CASE PopShowsLate
  BY <1>11, PopKeeps
<1>12. CASE WorldEnqueues
  <2>1. NothingLost' /\ bufferQueue' \in Seq(1..MaxPackets) /\ sent' \in 0..MaxPackets
    BY <1>12, SendingKeeps DEF WorldEnqueues
  <2> QED
    BY <1>12, <2>1 DEF WorldEnqueues
<1>13. CASE WorldMarksClosing
  <2>1. NothingLost'
    BY <1>13, SamePackets DEF WorldMarksClosing, Unwritten, StreamFails
  <2> QED
    BY <1>13, <2>1 DEF WorldMarksClosing
<1>14. CASE WorldLooks
  <2>1. NothingLost'
    BY <1>14, SamePackets DEF WorldLooks, Unwritten, StreamFails
  <2> QED
    BY <1>14, <2>1 DEF WorldLooks
<1>15. CASE WorldCloses
  <2>1. NothingLost'
    BY <1>15, SamePackets DEF WorldCloses
  <2> QED
    BY <1>15, <2>1 DEF WorldCloses
<1>16. CASE AsyncWriteReady
  <2>1. NothingLost'
    BY <1>16, SamePackets DEF AsyncWriteReady, Unwritten
  <2> QED
    BY <1>16, <2>1 DEF AsyncWriteReady
<1>17. CASE LoadStateEarly
  <2>1. NothingLost'
    BY <1>17, SamePackets DEF LoadStateEarly, Unwritten, StreamFails
  <2> QED
    BY <1>17, <2>1 DEF LoadStateEarly
<1>18. CASE NetSends
  <2>1. NothingLost' /\ bufferQueue' \in Seq(1..MaxPackets) /\ sent' \in 0..MaxPackets
    BY <1>18, SendingKeeps DEF NetSends
  <2> QED
    BY <1>18, <2>1 DEF NetSends
<1>19. CASE NetRefuses
  <2>1. NothingLost' /\ bufferQueue' \in Seq(1..MaxPackets) /\ sent' \in 0..MaxPackets
    BY <1>19, SendingKeeps DEF NetRefuses
  <2> QED
    BY <1>19, <2>1 DEF NetRefuses
<1>20. CASE WorldFindsOpen
  <2>1. NothingLost'
    BY <1>20, SamePackets DEF WorldFindsOpen, Unwritten, StreamFails
  <2> QED
    BY <1>20, <2>1 DEF WorldFindsOpen
<1>21. CASE WorldKicks
  <2>1. NothingLost'
    BY <1>21, SamePackets DEF WorldKicks
  <2> QED
    BY <1>21, <2>1 DEF WorldKicks
<1>22. CASE ReadFails
  <2>1. NothingLost'
    BY <1>22, SamePackets DEF ReadFails
  <2> QED
    BY <1>22, <2>1 DEF ReadFails
<1>23. CASE ReadEnds
  <2>1. NothingLost'
    BY <1>23, SamePackets DEF ReadEnds, Unwritten, StreamFails
  <2> QED
    BY <1>23, <2>1 DEF ReadEnds
<1>24. CASE PeerLeaves
  <2>1. NothingLost'
    BY <1>24, SamePackets DEF PeerLeaves
  <2> QED
    BY <1>24, <2>1 DEF PeerLeaves
<1>25. CASE UNCHANGED socketVars
  <2>1. NothingLost'
    BY <1>25, SamePackets DEF socketVars, Unwritten, StreamFails
  <2> QED
    BY <1>25, <2>1 DEF socketVars
<1> QED
  BY <1>1, <1>2, <1>3, <1>4, <1>5, <1>6, <1>7, <1>8, <1>9, <1>10, <1>11, <1>12, <1>13, <1>14,
     <1>15, <1>16, <1>17, <1>18, <1>19, <1>20, <1>21, <1>22, <1>23, <1>24, <1>25
     DEF SocketNext, NetUpdate, NetStep, WorldStep

-----------------------------------------------------------------------------
(* The theorems about Socket. *)

\* What is queued, packed, half written and written agrees with what was sent,
\* for any number of packets and any size of the buffers.
THEOREM SocketInvariant == SocketSpec => []SocketInv
<1>1. SocketInv /\ [SocketNext]_socketVars => SocketInv'
  BY SocketStep
<1> QED
  BY SocketInitInv, <1>1, PTL DEF SocketSpec

\* Every variable has its type, and the thread's count is the sockets it holds.
THEOREM SocketTypes == SocketSpec => []SocketTypeOK
<1>1. SocketInv => SocketTypeOK
  BY DEF SocketInv
<1> QED
  BY SocketInvariant, <1>1, PTL

\* Packing, partial writes and the two loops that write neither lose, repeat
\* nor reorder a packet while the socket is open and the stream works.
THEOREM SocketLosesNothing == SocketSpec => []NothingLost
<1>1. SocketInv => NothingLost
  BY DEF SocketInv
<1> QED
  BY SocketInvariant, <1>1, PTL
-----------------------------------------------------------------------------
(* The four components of MCProtocols together: a step of the composition is a
   step or a stutter of each, so it keeps the invariants of them all.  *)

PartsInv == BarrierInv /\ ExclusiveInv /\ QueueInv /\ SocketInv /\ LootInv

\* A step of the composition is a step of each component or leaves it alone.
LEMMA PartsMove ==
  PartsNext => [Next]_vars /\ [MpscNext]_mpscVars /\ [SocketNext]_socketVars /\ [LootNext]_lootVars
BY DEF PartsNext, Moves, mapVars

\* A step that leaves the composition alone leaves each component alone.
LEMMA PartsRest ==
  UNCHANGED <<part, partVars>> =>
    [Next]_vars /\ [MpscNext]_mpscVars /\ [SocketNext]_socketVars /\ [LootNext]_lootVars
BY DEF partVars, mapVars

\* Each component starts in its invariant.
LEMMA PartsStart == PartsInit => PartsInv
BY BarrierInit, ExclusiveInit, QueueStart, SocketInitInv, LootInitKeeps DEF PartsInit, PartsInv

\* No step of the composition disturbs an invariant of a component.
LEMMA PartsStep == PartsInv /\ [PartsNext]_<<part, partVars>> => PartsInv'
<1> SUFFICES ASSUME PartsInv, [PartsNext]_<<part, partVars>> PROVE PartsInv'
  OBVIOUS
<1>1. [Next]_vars /\ [MpscNext]_mpscVars /\ [SocketNext]_socketVars /\ [LootNext]_lootVars
  BY PartsMove, PartsRest
<1>2. BarrierInv' /\ ExclusiveInv'
  BY <1>1, BarrierStep, ExclusiveStep DEF PartsInv
<1>3. QueueInv' /\ SocketInv' /\ LootInv'
  BY <1>1, QueueKept, SocketStep, LootStepKeeps DEF PartsInv
<1> QED
  BY <1>2, <1>3 DEF PartsInv

\* The invariants of the four components hold of every behaviour of their run.
THEOREM ProtocolsInvariant == PartsSpec => []PartsInv
BY PartsStart, PartsStep, PTL DEF PartsSpec

\* Whichever component moves, every variable of all four has its type.
THEOREM ProtocolTypes == PartsSpec => []TypesOK
<1>1. PartsInv => TypesOK
  <2> SUFFICES ASSUME PartsInv PROVE TypesOK
    OBVIOUS
  <2>1. MapsTypeOK
    BY BarrierTypes DEF PartsInv
  <2>2. QueueTypeOK /\ SocketTypeOK /\ LootTypeOK
    BY DEF PartsInv, QueueInv, SocketInv, LootInv
  <2> QED
    BY <2>1, <2>2 DEF TypesOK
<1> QED
  BY <1>1, ProtocolsInvariant, PTL
=============================================================================
