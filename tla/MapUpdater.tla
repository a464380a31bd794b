----------------------------- MODULE MapUpdater -----------------------------
(***************************************************************************)
(* The parallel map tick: MapManager::Update and UnloadAll on the world    *)
(* thread (Maps/MapManager.cpp), the worker pool of Maps/MapUpdater.cpp,   *)
(* and the ProducerConsumerQueue that joins them.                          *)
(*                                                                         *)
(* The world thread visits every map once per tick, unloads it or hands    *)
(* it to the pool, waits until nothing is pending, and then runs           *)
(* DelayedUpdate on every map.  A map has no lock of its own: all that     *)
(* keeps two threads out of one map is this protocol.                      *)
(***************************************************************************)
EXTENDS ProducerConsumerQueue, FiniteSets

CONSTANTS
  Maps,       \* the maps that can be loaded
  Workers,    \* _workerThreads
  NoRequest   \* a null MapUpdateRequest*

ASSUME MapsAssumption == IsFiniteSet(Maps) /\ NoRequest \notin Maps
ASSUME WorkersAssumption == IsFiniteSet(Workers) /\ Workers # {}

VARIABLES
  i_maps,             \* maps loaded (MapManager::i_maps)
  mgr,                \* where the world thread is in MapManager
  toVisit,            \* maps the loop of the current pass has still to visit
  cancelationToken,   \* _cancelationToken
  pending_requests,   \* pending_requests, guarded by MapUpdater::_lock
  worker,             \* where each worker is in WorkerThread
  request             \* each worker's local `request`

mgrVars == <<i_maps, mgr, toVisit>>
workerVars == <<worker, request>>
vars == <<pcqVars, mgrVars, cancelationToken, pending_requests, workerVars>>

(***************************************************************************)
(* MapUpdater::activate starts the threads before the first tick.          *)
(***************************************************************************)
Init ==
  /\ QueueInit
  /\ i_maps = {}
  /\ mgr = "idle"
  /\ toVisit = {}
  /\ cancelationToken = FALSE
  /\ pending_requests = 0
  /\ worker = [w \in Workers |-> "popping"]
  /\ request = [w \in Workers |-> NoRequest]

-----------------------------------------------------------------------------
(* The world thread. *)

\* CreateMap, called by the sessions the world thread updates between ticks.
CreateMap(m) ==
  /\ mgr = "idle"
  /\ m \notin i_maps
  /\ i_maps' = i_maps \union {m}
  /\ UNCHANGED <<pcqVars, mgr, toVisit, cancelationToken, pending_requests, workerVars>>

\* MapManager::Update once i_timer has passed.
MapUpdateBegin ==
  /\ mgr = "idle"
  /\ mgr' = "scan"
  /\ toVisit' = i_maps
  /\ UNCHANGED <<pcqVars, i_maps, cancelationToken, pending_requests, workerVars>>

\* CanUnload holds and DestroyMap succeeds: the map is erased.
UnloadMap(m) ==
  /\ mgr = "scan" /\ m \in toVisit
  /\ toVisit' = toVisit \ {m}
  /\ i_maps' = i_maps \ {m}
  /\ UNCHANGED <<pcqVars, mgr, cancelationToken, pending_requests, workerVars>>

\* CanUnload holds but players are left on the map: it skips this tick.
KeepMap(m) ==
  /\ mgr = "scan" /\ m \in toVisit
  /\ toVisit' = toVisit \ {m}
  /\ UNCHANGED <<pcqVars, i_maps, mgr, cancelationToken, pending_requests, workerVars>>

\* MapUpdater::schedule_update: count first, push second, _lock held for both.
ScheduleUpdate(m) ==
  /\ mgr = "scan" /\ m \in toVisit
  /\ toVisit' = toVisit \ {m}
  /\ pending_requests' = pending_requests + 1
  /\ Push(m)
  /\ UNCHANGED <<i_maps, mgr, cancelationToken, workerVars>>

ScanEnd ==
  /\ mgr = "scan" /\ toVisit = {}
  /\ mgr' = "wait"
  /\ UNCHANGED <<pcqVars, i_maps, toVisit, cancelationToken, pending_requests, workerVars>>

\* MapUpdater::wait finds work pending and blocks on _condition.
WaitBlocks ==
  /\ mgr = "wait" /\ pending_requests # 0
  /\ mgr' = "waitBlocked"
  /\ UNCHANGED <<pcqVars, i_maps, toVisit, cancelationToken, pending_requests, workerVars>>

\* Defect: the barrier is missing.
WaitReturnsEarly ==
  /\ mgr = "wait"
  /\ mgr' = "delayed"
  /\ toVisit' = i_maps
  /\ UNCHANGED <<pcqVars, i_maps, cancelationToken, pending_requests, workerVars>>

\* Defect: the barrier looks at the queue, not at the work in progress.
WaitReturnsOnEmptyQueue ==
  /\ mgr = "wait" /\ queue = <<>>
  /\ mgr' = "delayed"
  /\ toVisit' = i_maps
  /\ UNCHANGED <<pcqVars, i_maps, cancelationToken, pending_requests, workerVars>>

\* MapUpdater::wait returns to MapManager::Update.
WaitReturns ==
  /\ mgr = "wait" /\ pending_requests = 0
  /\ mgr' = "delayed"
  /\ toVisit' = i_maps
  /\ UNCHANGED <<pcqVars, i_maps, cancelationToken, pending_requests, workerVars>>

\* Map::DelayedUpdate of one map, on the world thread.
DelayedUpdate(m) ==
  /\ mgr = "delayed" /\ m \in toVisit
  /\ toVisit' = toVisit \ {m}
  /\ UNCHANGED <<pcqVars, i_maps, mgr, cancelationToken, pending_requests, workerVars>>

UpdateEnd ==
  /\ mgr = "delayed" /\ toVisit = {}
  /\ mgr' = "idle"
  /\ UNCHANGED <<pcqVars, i_maps, toVisit, cancelationToken, pending_requests, workerVars>>

\* UnloadAll at shutdown: every map is unloaded and destroyed, then
\* deactivate sets the token ...
UnloadAll ==
  /\ mgr = "idle"
  /\ i_maps' = {}
  /\ cancelationToken' = TRUE
  /\ mgr' = "shutdownWait"
  /\ UNCHANGED <<pcqVars, toVisit, pending_requests, workerVars>>

\* ... waits for the pool, which is idle between ticks (a request still
\* pending here would be abandoned by its worker and wait() would never
\* return), and cancels the queue ...
DeactivateCancel ==
  /\ mgr = "shutdownWait" /\ pending_requests = 0
  /\ Cancel
  /\ mgr' = "join"
  /\ UNCHANGED <<i_maps, toVisit, cancelationToken, pending_requests, workerVars>>

\* ... and joins every worker.
DeactivateJoin ==
  /\ mgr = "join"
  /\ \A w \in Workers : worker[w] = "exited"
  /\ mgr' = "stopped"
  /\ UNCHANGED <<pcqVars, i_maps, toVisit, cancelationToken, pending_requests, workerVars>>

-----------------------------------------------------------------------------
(* MapUpdater::WorkerThread. *)

WorkerBlocks(w) ==
  /\ worker[w] = "popping"
  /\ WaitAndPopBlocks(w)
  /\ UNCHANGED <<mgrVars, cancelationToken, pending_requests, workerVars>>

WorkerPops(w) ==
  /\ worker[w] = "popping"
  /\ WaitAndPopReturns(w)
  /\ request' = [request EXCEPT ![w] = Head(queue)]
  /\ worker' = [worker EXCEPT ![w] = "popped"]
  /\ UNCHANGED <<mgrVars, cancelationToken, pending_requests>>

WorkerCancelled(w) ==
  /\ worker[w] = "popping"
  /\ WaitAndPopCancelled(w)
  /\ worker' = [worker EXCEPT ![w] = "popped"]
  /\ UNCHANGED <<mgrVars, cancelationToken, pending_requests, request>>

WorkerSpuriousWakeup(w) ==
  /\ SpuriousWakeup(w)
  /\ UNCHANGED <<mgrVars, cancelationToken, pending_requests, workerVars>>

\* `if (_cancelationToken) return;`: a popped request is abandoned.
WorkerExits(w) ==
  /\ worker[w] = "popped" /\ cancelationToken
  /\ worker' = [worker EXCEPT ![w] = "exited"]
  /\ UNCHANGED <<pcqVars, mgrVars, cancelationToken, pending_requests, request>>

\* request->call() enters Map::Update.
WorkerCalls(w) ==
  /\ worker[w] = "popped" /\ ~cancelationToken
  /\ worker' = [worker EXCEPT ![w] = "updating"]
  /\ UNCHANGED <<pcqVars, mgrVars, cancelationToken, pending_requests, request>>

\* Defect: update_finished does not notify.
NotifyNobody == mgr' = mgr

\* notify_all on MapUpdater::_condition: the world thread, if it is blocked.
NotifyManager ==
  mgr' = IF mgr = "waitBlocked" THEN "wait" ELSE mgr

\* Defect: the request goes on living after it was counted as finished.
UpdateFinishedTwice(w) ==
  /\ worker[w] = "updating"
  /\ pending_requests' = pending_requests - 1
  /\ NotifyManager
  /\ worker' = [worker EXCEPT ![w] = "popped"]
  /\ UNCHANGED <<pcqVars, i_maps, toVisit, cancelationToken, request>>

\* Map::Update returned: update_finished, delete request, next iteration.
UpdateFinished(w) ==
  /\ worker[w] = "updating"
  /\ pending_requests' = pending_requests - 1
  /\ NotifyManager
  /\ worker' = [worker EXCEPT ![w] = "popping"]
  /\ request' = [request EXCEPT ![w] = NoRequest]
  /\ UNCHANGED <<pcqVars, i_maps, toVisit, cancelationToken>>

-----------------------------------------------------------------------------
\* The process is past DeactivateJoin: the only state in which nothing moves.
Stopped == mgr = "stopped" /\ UNCHANGED vars

ManagerStep ==
  \/ MapUpdateBegin
  \/ \E m \in Maps : UnloadMap(m) \/ KeepMap(m) \/ ScheduleUpdate(m) \/ DelayedUpdate(m)
  \/ ScanEnd \/ WaitBlocks \/ WaitReturns \/ UpdateEnd
  \/ DeactivateCancel \/ DeactivateJoin

WorkerStep(w) ==
  \/ WorkerBlocks(w) \/ WorkerPops(w) \/ WorkerCancelled(w)
  \/ WorkerExits(w) \/ WorkerCalls(w) \/ UpdateFinished(w)

Next ==
  \/ ManagerStep
  \/ \E m \in Maps : CreateMap(m)
  \/ UnloadAll
  \/ Stopped
  \/ \E w \in Workers : WorkerStep(w) \/ WorkerSpuriousWakeup(w)

(***************************************************************************)
(* The world thread and every worker keep running.  Nothing promises that  *)
(* a map is created, that the server is shut down, or a spurious wakeup.   *)
(***************************************************************************)
Spec ==
  /\ Init /\ [][Next]_vars
  /\ WF_vars(ManagerStep)
  /\ \A w \in Workers : WF_vars(WorkerStep(w))

-----------------------------------------------------------------------------
(* Properties. *)

\* Workers that hold a request nobody has counted as finished.
Busy == {w \in Workers : worker[w] \in {"popped", "updating"} /\ request[w] # NoRequest}

ManagerStates == {"idle", "scan", "wait", "waitBlocked", "delayed",
                  "shutdownWait", "join", "stopped"}

\* Every variable has its type; pending_requests, a size_t, never wraps.
MapsTypeOK ==
  /\ queue \in Seq(Maps)
  /\ shutdown \in BOOLEAN
  /\ waiters \subseteq Workers
  /\ i_maps \subseteq Maps
  /\ mgr \in ManagerStates
  /\ toVisit \subseteq Maps
  /\ cancelationToken \in BOOLEAN
  /\ pending_requests \in Nat
  /\ worker \in [Workers -> {"popping", "popped", "updating", "exited"}]
  /\ request \in [Workers -> Maps \union {NoRequest}]

\* pending_requests counts exactly the requests in the queue and in the hands
\* of workers: wait() neither returns early nor waits for work nobody does.
PendingIsExact == pending_requests = Len(queue) + Cardinality(Busy)

\* No map is inside Map::Update on two workers at once, or on a worker after
\* the world thread erased it from i_maps.
MapUpdateIsExclusive ==
  \A w \in Workers : worker[w] = "updating" =>
    /\ request[w] \in i_maps
    /\ \A v \in Workers \ {w} : worker[v] = "updating" => request[v] # request[w]

\* Outside the parallel phase (DelayedUpdate, session handlers between two
\* ticks, unloading at shutdown) no worker is inside a map and none is queued.
WorldThreadIsAlone ==
  mgr \notin {"scan", "wait", "waitBlocked"} =>
    queue = <<>> /\ \A w \in Workers : worker[w] # "updating"

\* request->call() is never reached with the null request a cancelled
\* WaitAndPop leaves behind: deactivate sets the token before it cancels.
NoNullRequestCalled ==
  \A w \in Workers : worker[w] = "updating" => request[w] # NoRequest

\* The tick always ends: no lost wakeup strands the world thread in wait().
TickEnds == mgr = "scan" ~> mgr = "idle"

\* Shutdown always ends, with every worker joined.
ShutdownEnds == cancelationToken ~> mgr = "stopped"

-----------------------------------------------------------------------------
(* The tick as MapTick sees it: requests are maps handed over, be they in   *)
(* the queue or in the hands of a worker that has not called them.          *)
InParallel == mgr \in {"scan", "wait", "waitBlocked"}

TickPhase ==
  IF InParallel THEN "parallel" ELSE IF mgr = "delayed" THEN "delayed" ELSE "between"

Due == IF mgr \in {"scan", "delayed"} THEN toVisit ELSE {}

Handed ==
  {queue[i] : i \in 1..Len(queue)}
    \union {request[w] : w \in {v \in Busy : worker[v] = "popped"}}

Updating == {request[w] : w \in {v \in Busy : worker[v] = "updating"}}

Tick == INSTANCE MapTick WITH
  loaded <- i_maps, phase <- TickPhase, due <- Due, handed <- Handed, updating <- Updating

\* The pool is the tick MapTick promises: however the threads interleave, a map
\* is visited once, updated at most once and by one worker at a time, never
\* after it was unloaded, and no DelayedUpdate begins before the last update.
ImplementsTick == Tick!Spec
=============================================================================
