# VoxCore verification

VoxCore is a TrinityCore world server with additions of its own. This directory
holds TLA+ models of its concurrent core and of the protocols between players that
are hard to test, configurations that check them with TLC, and theorems about most of
them that TLAPS proves. Paths below are relative
to the repository; `game/`, `common/` and `database/` stand for
`src/server/game/`, `src/common/` and `src/server/database/`.

`PROJECT.json` lists the components, the runs, the source lines each definition
translates, the hazards the properties are aimed at, and the theorems.

## 1. The system

### Threads

* **The world thread** runs `WorldUpdateLoop` (`worldserver/Main.cpp`): once per
  tick `World::Update` runs the sessions (`UpdateSessions`), then the maps
  (`MapManager::Update`), and everything global (battlegrounds, auctions, groups).
* **Map workers** (`MapUpdate.Threads`) take maps from a queue and run
  `Map::Update` on them while the world thread waits. With none configured the
  world thread runs the maps itself.
* **Network threads** run one `boost::asio::io_context` each. A socket belongs
  to one of them for its life. It reads packets, decides what to do with the few it
  handles itself, and queues the rest for its session.
* **Database workers**: per database, a pool with one thread per asynchronous
  connection over a shared `io_context`, and a few synchronous connections that
  any thread may lock.

### Components

What each keeps, how it interacts and what is hard about it. The status column
says where it is modelled; components without a module are in section 6.

| component | state | operations | hard part | modules |
|---|---|---|---|---|
| Map updater, `ProducerConsumerQueue` (`game/Maps/MapUpdater.cpp`, `MapManager.cpp`, `common/Threading/ProducerConsumerQueue.h`) | request queue, `pending_requests`, cancellation token, two condition variables | `schedule_update`, `wait`, `deactivate`, `WorkerThread`, `update_finished`; `CreateMap`, `Update`, `UnloadAll` | the counter is the only thing that keeps workers and the world thread apart; lost wake-ups; shutdown while workers sleep | ProducerConsumerQueue, MapUpdater, MapTick |
| Session registry and login queue (`game/World/World.cpp`) | `m_sessions`, `m_QueuedPlayer`, `addSessQueue`, `m_disconnects` | `AddSession`, `AddSession_`, `AddQueuedPlayer`, `RemoveQueuedPlayer`, `RemoveSession`, `UpdateSessions` | raw pointers in three containers; a reconnect replaces a session at any point; a departure is counted in two calls | World |
| Sockets of a session (`game/Server/WorldSocket.cpp`, `WorldSession.cpp`) | `_worldSession`, `_worldSessionLock`, `m_Socket[]`, `_instanceConnectKey`, `forceExit`, `expireTime`, the link queue of `World` | authentication, `HandleAuthContinuedSession`, `AddInstanceConnection`, `HandleConnectToFailed`, `KickPlayer`, `LogoutPlayer`, `OnClose`, the destructor | two threads, two sockets, a raw pointer between them; retries of a login that race its success | WorldSession |
| Packet loop (`WorldSession::Update`, `common/Threading/LockedQueue.h`, filters in `WorldSession.cpp`) | `_recvQueue`, packets to put back, `_player`, `m_playerLoading`, `m_playerRecentlyLogout` | `QueuePacket`, `Update` under two filters, login, logout, transfer | two passes on two threads take from one queue; packets are put back; a player comes and goes in between | SessionPackets |
| Send queue (`common/Threading/MPSCQueue.h`) | `_head`, `_tail`, the dummy node, link of each node | `Enqueue`, `Dequeue` | lock-free; producers stop half-way | MPSCQueue, MPSCFifo |
| Sockets and network threads (`common/network/Socket.h`, `NetworkThread.h`, `game/Server/WorldSocket.cpp`) | `_openState`, `_writeQueue`, `_bufferQueue`, `_isWritingAsync`; `_sockets`, `_newSockets`, `_connections` of the thread | `SendPacket`, `Update`, `AsyncProcessQueue`, `HandleQueue`, `CloseSocket`, `DelayedCloseSocket`, `AddNewSockets` | another thread asks for a close by reading a queue it does not own; partial writes; who closes when the queue is empty | Socket |
| Trade (`game/Handlers/TradeHandler.cpp`, `TradeData.cpp`) | a `TradeData` of each side, its state index, what was accepted | initiate, cancel, offer, accept, unaccept, the exchange | each side accepts what its client showed, which may be old; items and money change beside the trade | Trade |
| Group rolls (`game/Loot/Loot.cpp`) | `LootRoll`s with their votes, flags of the items, `m_lootRolls` of each player | open, vote, time-out, store, destroy | a roll ends in three ways; players point to rolls that may be gone | LootRoll |
| Instance locks (`game/Instances/InstanceLockMgr.cpp`, `game/Maps/Map.cpp`, `MapManager.cpp`) | permanent, temporary and shared locks, their rows, `i_instanceLock` of each map | enter, leave, `UpdateInstanceLockForPlayer`, pending binds, reset, extend, restart | maps point to locks of players; a lock is replaced while a map runs; three kinds of dungeons | InstanceLocks |
| Battleground queues (`game/Battlegrounds/`, `BattleGroundHandler.cpp`) | entries and invitations, removal events, `m_InvitedAlliance`/`Horde`, slots of players, the offline queue | join, answer, leave, log out and in, the updates of queues and battlegrounds | an invitation is counted in four places; it may be answered, withdrawn, given again; players leave inside a loading screen | BattlegroundQueue |
| Database worker pool (`database/Database/`) | connections, `io_context`, task queue, `_deadlockLock`, the transaction open on the server | `AsyncQuery`/`CommitTransaction`, `DirectCommitTransaction`, `TryExecute`, `_HandleMySQLErrno`, `Close` | statements fail half-way, deadlocks are retried, connections are lost and reopened, shutdown | DatabaseWorkerPool |

### Interactions

* A network thread creates a `WorldSession`, and hands it over with
  `World::AddSession` once the client has acknowledged encryption (`addSessQueue`,
  a locked queue). From then on the world thread owns and deletes it; the network
  thread reaches it by the pointer in its socket, under `_worldSessionLock`.
* The world thread asks the client to open a second socket
  (`SendConnectToInstance`). That socket authenticates with a key on its own network
  thread and is handed over in a second queue (`_linkSocketQueue`).
* Packets go through `_recvQueue`, consumed by the world pass in
  `UpdateSessions` and by the map pass of the map the player is in. The barrier
  of the map updater keeps the two apart in time.
* Login and `InitializeSession` wait for database answers, polled as callbacks by
  the session's `Update` on the world thread.
* Packets for the client go through the send queue to the socket's thread, which packs
  and writes them.
* Trades, battleground queues and instance locks are served by packet handlers and
  updates on the world thread or, for the events in a dungeon, by the thread of its map;
  rolls by the thread of the map with the corpse. They reach
  other players by pointers that end with a log-out.

WorldSession composes with World: it EXTENDS it, every action of World is taken
jointly with what the sockets do, and `ImplementsWorld` checks that nothing
of World's state is changed otherwise. Socket takes its packet queue to be what
MPSCQueue is shown to implement, a first-in first-out queue. The other components share
no state with one another in the model.

## 2. Modules

State keeps the names of the source. Actions are named after the function, or
after the part of it between two points at which other threads can interfere. A
definition commented "Defect:" is a mistaken variant of the one after it, which
no specification uses: replacing the correct one by it shows that a property
notices.

**ProducerConsumerQueue** - the queue and its condition variable as operators:
`Push`, `Cancel`, and a `WaitAndPop` in two parts (block; or leave with an item
or, cancelled, without). A `notify_one` wakes any one waiter or nobody if nobody waits.

**MapUpdater** - the world thread as `mgr` (scan of `i_maps`, wait, delayed
updates, shutdown) and the workers. Scheduling counts and pushes under the lock,
`wait` tests the counter under it and sleeps on its condition variable, and
`update_finished` counts down and notifies. Spurious wake-ups are allowed
for workers. Maps are created by sessions between ticks and erased, when they can be
unloaded, during the scan while workers already run on others. The branch without
workers, in which the world thread updates the maps itself, is not in the model: nothing runs
beside it.

**MapTick** - what the tick promises without threads, queue or counter: sets of maps that
are due, handed over and being updated, between which a step moves one map. MapUpdater maps to it with
`Handed` (the maps in the queue and in the hands of workers that have not called them yet),
`Updating` and the phase `TickPhase`; waking, sleeping, counting and shutting down are stutters.

**World** - `UpdateSessions` in the order of the code: accept what is in
`addSessQueue`, link sockets, then for every session `Update` (packets, callbacks, the
test whether it stays) and, when `Update` returned false, its removal.
`AddSession` is the only action of another thread. Whether a session stays is
left open here. Whether a client may acknowledge encryption once more, which
hands its session over again, is the constant `RepeatedAck` (section 3).
`RemoveQueuedPlayer` is a function on the queue, the flag and the
count, because `AddSession_` and `UpdateSessions` call it in different
states of the registry.

**WorldSession** - per socket, what its network thread is doing (`net`), whether it
is open, and the pointer it holds. `CloseSocket` on a network thread is
two steps (`NetCloses`, `OnClose`), since the lock is taken in between.
The linking of an instance socket is two steps as well: `AddInstanceConnection`
tests `IsOpen()` first and stores the pointer later. A login is `PlayerLogin`
(`m_playerLoading`, a new key), the client's `InstanceAck`, `LinkLogsIn` (a query
holder is asked for), `LoginAnswered`, `LoginSetsPlayer` and `LoginDone`, since
`PlayerLoading()` is read by network threads between them.

**SessionPackets** - one opcode of each combination of status and processing
place that the loop tells apart. `WorldPass` and `MapPass` take packets by their
filter; a packet is called, dropped or put back (`requeuePackets`, inserted at
the front when the pass ends). Handlers are represented by what they do to the
player: log in, log out, request a transfer, acknowledge it.

**MPSCQueue** - every atomic load, exchange and store of `Enqueue` and
`Dequeue` is a step of its own. **MPSCFifo** is what it promises: a sequence to
which enqueued items are appended, taken from in order by one consumer that may
fail only when the queue is empty or an enqueue overlaps. The model is
sequentially consistent; the weaker orders of the code (acquire and release on
the links) are not modelled.

**DatabaseWorkerPool** - one database. A task is a single statement or a
transaction; every command to the server (begin, statement, rollback, commit) is a
step, answered with success, an error, a deadlock, or the loss of the connection. The results of
START TRANSACTION and COMMIT are not looked at (`MySQLConnection.cpp:374`-`387`, `395`, `413`):
refused, they go on like success (`BeginRefused`, `CommitRefused`), and then the statements run outside a
transaction, or a task is reported as done of which nothing is there. It is taken from MySQL that
a refused COMMIT has rolled the transaction back, and that a ROLLBACK is not refused. `Faults` says which of
these and of lost connections occur, `MaxFaults` how many. A worker's handler and its look-up of
the connection are one step (`RunHandler`); in the code `Close` might clear the vector of
connections between the two (`DatabaseWorkerPool.cpp:541`-`549`, `206`). The
server is modelled by what it keeps: for each connection whether a
transaction is open and what it executed, and how often every statement has
taken effect.

**Socket** - one connection from `_newSockets` until its network thread drops it. `Update`
packs what is queued into buffers and writes; a write may take all, a part or
nothing (then `async_wait`), or fail. The two loops that write (`Update` and
`AsyncProcessQueue`) test the write queue and the state after each buffer, in separate steps, because
`DelayedCloseSocket` runs on the world thread in between, which is two steps
itself: mark the socket as closing, look whether the write queue is empty.

**Trade** - one action per handler; `HandleAcceptTrade` is one action with an alternative
for each way it ends, in the order of its checks. `consent` records what each
player was shown when it accepted. Beside the trade, items are used up, looted from, lost, and money is spent.

**LootRoll** - a vote, the update (an end by votes or by time), a store by a player, the corpse's
end and a member's departure and return. `Winners` is the outcome of the loop over the
votes, in every order of the unordered map.

**InstanceLocks** - the state of `InstanceLockMgr` is one record, and its operations are
operators from a state to the next, because an event updates the locks of all players
in a map in turn. A lock is represented by the place that owns it, `Perm(p)` or `Temp(p)`:
`i_instanceLock` of a map is such a place, moves with a promotion and is `Deleted` with the
lock. The rows are written by the asynchronous pool: `CommitTransaction` (`Map.cpp:3236`, `3282`, `3298`) and
`Execute` (`InstanceLockMgr.cpp:447`, `467`) only queue. `lockRows` and `instanceRows` are what the tables will
hold once all queued writes have run, `unwritten` what they hold before each of these, and `WriteExecuted` runs the oldest.
The rows of instances that lose their last lock are deleted one by one, before the transaction of the
event (`RowsBetween`). A crash, or `Close`, which discards what is queued, is `Restart`: it loads the tables as
they are then (`Tables`). The time is the number of resets. A failed assertion ends the server, which is `Restart`.
In `EnterInstance`, `\E g \in {e}` names the value of `e` as a LET would, computed once.

**BattlegroundQueue** - the handlers between updates, and an update in the order of the code:
each battleground (offline queue, deletion, start, end), the
removal events that are due, then the queues that were scheduled. Selection pools are the sets of players that
may be invited. Players have a slot for each queue, as on the client.

MC modules: MCWorld, MCWorldSession, MCSessionRetries, MCDatabaseWorkerPool and MCInstanceLocks add what
TLC needs (symmetries, bounds, values of constants). MCProtocols, MCServices and MCSessionAndInstances
put components that share no state in one run: the variable `part` says which
component moves in a behaviour, the others stay as they began. Their
`TypesOK` is the conjunction of the type invariants.

Proof modules: ThreadProofs (MapUpdater with MapTick, MPSCQueue and Socket), DatabaseWorkerPoolProofs,
SessionPacketsProofs, WorldSessionProofs (with World), TradeAndLootProofs, InstanceLocksProofs and
BattlegroundQueueProofs hold the theorems about the modules they are named for; FoldLemmas holds
what they share about induction, recursion and folds.

## 3. Runs

| run | question | result |
|---|---|---|
| `protocols` | Is the world thread ever beside a map worker, does a tick always end, does shutdown? Do the threads implement the tick without threads? Is the lock-free queue first-in first-out, and is everything taken? Does a socket write what was sent, and leave when it closes? Does an item go to the best vote? | holds |
| `services` | Do the registry, the login queue and the slot count agree in every order of logins, reconnects and drops? Is what is exchanged what both accepted? Are transactions reported truthfully, in order with one worker, and is shutdown clean? Are invitations counted and withdrawn in time? | holds |
| `login_answered` | Is every session in the end admitted, queued or deleted? | holds |
| `login_tolerance` | Does the disconnect tolerance expire, as the configuration file says? | **violated** |
| `session_and_instances` | A second login meets the first at any point: no dangling pointer, no ghost, one character online? Do locks, maps and the players inside agree on the instance, and is no encounter forgotten? | holds |
| `session_retries` | Are a session's sockets a refinement of World, and does a dropped session leave? | holds |
| `session_twice` | One character per account, when a client reports a working connection as failed? | **violated** |
| `packets` | Is every packet handled once, in order, in the stay it was sent in? | holds |
| `database_reconnect` | Is a transaction that was not committed rolled back? | **violated** |
| `loot_roll` | Do players point only to rolls that wait for an answer? | **violated** |
| `instance_lock` | Does the lock an event updates name the instance, as the code asserts? | **violated** |
| `battleground_return` | Does the offline queue remove only players that are offline? | **violated** |

### What the violations show

* `login_tolerance` (`World.cpp:450`): `HasRecentlyDisconnected` evaluates
  `difftime(i->second, now)`, the past minus the present, which is never positive.
  Whoever once disconnected passes a full queue for ever.
* `session_twice` (`WorldSocket.cpp:990`): `HandleConnectToFailed` retries for as
  long as `PlayerLoading()` holds, also when the socket of the last key is about to
  be linked. Both log in, and a session has two `Player`s in the world. It needs a
  client that reports the failure late.
* `database_reconnect` (`MySQLConnection.cpp:204`): a statement whose connection
  was lost is sent again on the new one, where no transaction is open: the first
  half is rolled back and the second committed statement by statement.
* `loot_roll` (`Loot.cpp:452`): the destructor of a roll takes it out of `m_lootRolls` only for
  players who have not voted, and a vote does not. Who has voted keeps a pointer to the destroyed
  roll, which `Player::GetLootRoll` reads at the next vote.
* `instance_lock` (`InstanceLockMgr.cpp:191`): a player with a temporary lock of its own
  is let into another instance, since only locks that are not new are compared. The next boss
  killed there promotes that lock and asserts that it names the instance (line 340), which ends the server.
* `battleground_return` (`Player.cpp:18868`): `EventPlayerLoggedIn` is called only for players
  that are in the battleground's queue, which nobody inside is, so who returns
  stays in `m_OfflineQueue` and is thrown out five minutes after the log-out.

Met while modelling, with no comment or test that says otherwise, so no run
claims them:

* A client that reports its *last* attempt as failed after it has
  succeeded makes `AbortLogin` kick its own player under `_worldSessionLock`;
  `CloseSocket` then calls `OnClose` on the same thread, which locks the same
  `std::mutex`. In the model the socket's thread goes to state `stuck`
  (`LoginAbortedLate`).
* Packets that are put back return to the front of `_recvQueue`
  (`LockedQueue::readd`, `WorldSession.cpp:574`) and count towards the limit of a pass. With more of
  them than the limit, what is behind them is never reached, the login they wait for included;
  the comment at line 400 speaks of the bottom of the queue. `packets` is safety only for that reason.
* `DelayedCloseSocket` right after `SendPacket` closes at once: the packet is still in
  `_bufferQueue`, and only `_writeQueue` is looked at (`Socket.h:242`).
* `DelayedCloseSocket` on the world thread reads `_writeQueue.empty()` while the network thread
  changes it (`Socket.h:248`). Each may leave the close to the other; the socket then stays
  `Closing`. `ClosingSocketLeaves` leaves these sockets out.
* The results of `START TRANSACTION` and `COMMIT` are not looked at (`MySQLConnection.cpp:395`, `413`): a refused
  COMMIT is reported as done with nothing applied, which ReportsTruth says as it is. After a refused START
  TRANSACTION each statement is committed by itself, like after a reconnection.
* `DatabaseWorkerPool::Close` stops the context before it joins the workers:
  writes still queued are discarded. Boss kills are among them: a lock in memory shows an encounter at once, the
  database when the write has run, and what comes in between, a crash or the end of the server, forgets it
  (`NoEncounterForgotten` says how much). With several connections, writes of one player may be
  executed out of order.
* `World.cpp:372` says: "Still there is race condition in WorldSession* being used in the Sockets".
  `ClosedBeforeFreed` says there is none, and the model finds none for clients that keep to the
  protocol: the destructor closes both sockets, and `CloseSocket` clears the pointer under `_worldSessionLock`, under
  which handlers use it. For other clients the comment is right, see the two assumptions below.
* A client that drops between authentication and its acknowledgement leaves a
  `WorldSession` that nobody deletes (`WorldSocket.cpp:840`). An instance socket that
  is replaced is not closed (`WorldSession.cpp:337`).
* A trade whose item is refused (`TradeHandler.cpp:314`) leaves both sides accepted, and an item
  that goes away as a whole does not reset an acceptance. AcceptedAsSeen therefore lets items be missing.
* A disenchanted item is not marked as looted (`Loot.cpp:700`).
* A lock that expires with players inside may be deleted while its map points to
  it: `LocksOutliveMaps` promises only the locks that count, and the model does not follow
  such a map (`LockExists`). A player who is away at a kill keeps a new temporary lock.
  `_instanceLockDataById` is used by workers of different instances without its mutex (`InstanceLockMgr.cpp:444`).
* A leader who declines a group's invitation to a battleground clears the slots of members in
  transit or inside (`BattleGroundHandler.cpp:421`): one in transit arrives uninvited and its place is
  never given back. Groups are not in the model.
* Declining while only waiting evaluates `bg->GetTypeID()` on a null pointer for the debug log
  (`BattleGroundHandler.cpp:480`).
* The head of a battleground's offline queue that left on its own is never popped
  (`Battleground.cpp:264`): players behind it stay although they are offline.

### Bounds

* Threads and queues (`protocols`): three maps, two workers. A request can be queued behind
  two busy workers, one worker can sleep while another is woken, and the last request can
  finish before or after the world thread sleeps. Nothing is counted past that. Four
  items in the send queue, each with a producer of its own: three may be
  half-way in one another's way while a fourth is taken. A socket sends three packets in
  buffers of two: a buffer is partly written while another waits behind it.
  A roll has three members, one of whom always passes, and the numbers 1 and 2: ties, better and worse votes.
* Logins (`services`): one slot, three accounts of two logins: two sessions wait behind one
  another while the third leaves, is replaced or is refused, so that the head
  and the middle of the queue are both removed from. `SkipQueue` and the tolerance are
  off, because the capacity is only promised then. `login_answered` and
  `login_tolerance` have two accounts, privileges, and a clock of at most `MaxTime`.
* Trade (`services`): two traders with an item each and a third who interrupts; one slot that is
  traded and one that is not; money up to the limit, so that it overflows; `MaxStateIndices` 4, two changes of the
  offers, so that each side may change its offer under an acceptance and be answered.
* Database (`services`): two transactions of two statements, one single statement, one
  empty and one direct transaction; two workers and a synchronous connection;
  one retry (`MaxAttempts`, `LoopBreaker`, of one minute and five in the code),
  one fault (`MaxFaults`): a lost connection, a refused START TRANSACTION or a refused COMMIT in `services`,
  a lost connection in `database_reconnect`. The number of asynchronous connections
  is chosen in PoolInit, so that InOrder is about the states with one. `services` has the
  empty transaction on the synchronous connection too, `database_reconnect` on a worker.
* Battlegrounds (`services`): two players for one battleground with two places, clock 3; or one player with two
  queues and as many battlegrounds, clock 2 and one log-out for each battleground. `InviteWait` is 2,
  so that an answer can come before, at and after the removal event of an older invitation; `OfflineTime` 1.
* In `services` accounts, logins, transactions and workers come in the order of their names
  (`AccountsInOrder`, `WorkInOrder`), for they are interchangeable; a symmetry set would cost the
  other components more than it saves. The empty transaction, which touches nothing another one
  reads, is the first (`EmptyFirst`).
* Sessions: `session_and_instances` has one account with two logins, each with one instance key and
  one attempt, and only one session at a time has sockets in a handler or half closed (`OneSessionBusy`: sockets of two
  sessions share no lock and no pointer); `session_retries` and `session_twice` have one login with two keys and two
  attempts where the protocol has five (`ConnectToSerial`). In `session_retries`
  a second login comes during the last attempt and is refused at once (`SecondIsRefused`), and a character
  is asked for once the session is initialised (`InitializedFirst`; the code looks only at
  `m_inQueue`, `WorldSession.cpp:468`, and so do the other runs). Attempts after the
  second repeat the race of the second with the first. `ExpirePasses` is 1: a
  player outlives its socket by one pass at least, so both branches occur.
* Instance locks: two players, two instance ids, one boss, one reset (`MaxPeriod`), and one intervention
  (none with encounter locks). Extensions and reset commands come before the reset, for an extension counts only
  after it, and only to locks bound to instance ids; restarts come at any time (`CommandsEarly`). A handler
  that writes waits until fewer than `MaxUnwritten` writes are queued, 1 in the runs: until none is. One event may queue
  several, so a crash comes before, between or after them. While writes are queued, they are executed or the server
  ends (`WritesFirst`): nothing else reads the tables, and all that a crash leaves is a prefix of the writes.
  Two players are one whose lock
  a map was created with and one who enters with it; a second id lets
  their locks disagree.
* `packets`: all seven kinds, up to five packets, enough for two stays in the world with
  packets of the first left over for the second. `PassLimit` 1 stands for
  the limit of 100, so that a limit is reached with three packets.

### Assumptions about clients

Two constants of WorldSession, `LateFailure` and `RepeatedAck` (the latter in World too), say what a
client does that the official one does not, and the code does not check. Both are FALSE in all
runs but `session_twice`, which has `LateFailure` TRUE. To assume one of them is not enough.

* `LateFailure`: it reports an attempt to connect as failed although the socket finished the handshake
  (`HandleConnectToFailed`, `WorldSocket.cpp:975`). With TRUE, TLC finds `OneCharacterOnline`, `ClosedBeforeFreed`,
  `NoGhostPlayer` and `SessionTypeOK` violated: two logins overlap, and a socket is linked after its
  session moved on.
* `RepeatedAck`: it acknowledges the encryption of a connection more than once. `HandleEnterEncryptedModeAck`
  (`WorldSocket.cpp:1026`-`1037`) queues the session, or the link, each time, and `World::AddSession` (`World.cpp:358`)
  does not check either. A session handed over again is found registered as `old`, deleted, and its pointer
  registered (`World.cpp:389`-`402`); two links in one pass start two logins. With TRUE, TLC finds `NoDanglingSession`,
  `ClosedBeforeFreed`, `NoGhostPlayer`, `OneCharacterOnline` and `SessionTypeOK` violated, also
  with `LateFailure` FALSE. `RealmAck` reads `_worldSession` without the lock (line 1032), which is
  safe for the first acknowledgement only.

### Deadlock

TLC's deadlock check is on where every state of a correct system has a successor (MapUpdater and
DatabaseWorkerPool have an explicit stuttering action for the stopped server). MCProtocols,
MCSessionAndInstances, MCRollsWait and MCInstanceAsserted turn it off: a socket
that has left its thread, a roll that is over and loot that is gone,
a session whose account has no more logins, and a dungeon whose bounds are used up do nothing further.
That the map workers do not block one another for ever is what `TickEnds` and `ShutdownEnds` say.

### Fairness

* MapUpdater: weak fairness of the world thread and of each worker. Both
  are threads that never block but on the locks and conditions modelled.
* MPSCQueue: a producer that exchanged `_head` links its node; the consumer
  polls (`WorldSocket::Update`).
* Socket: weak fairness of a step the network or the world thread is in. Strong fairness
  of the update, of the ready stream and of a write that is taken: the update's timer and
  the handlers take turns in the `io_context`, and the peer reads on.
* World: weak fairness of the world thread's pass, and strong fairness of each
  session's `InitializeSession` callback: the database answers while the
  session is polled, not at a given poll.
* WorldSession: weak fairness of what a network thread does with a handler it
  has entered and with a close it has begun. The world thread has strong
  fairness, because closing waits for a mutex, and it is assumed that there are
  moments without a packet of the session in a handler. In the code that holds
  of its own: `CloseSocket` marks a socket closed *before* it waits for the
  lock, and a closed socket reads nothing more; in the model both sockets are closed
  in one step that waits for both.
* LootRoll, Trade, InstanceLocks, BattlegroundQueue, SessionPackets and DatabaseWorkerPool: safety
  only, without fairness.
* In MCProtocols the fairness of a component holds in the behaviours in which it moves.

## 4. Properties

Every module has one type invariant. Where a counter is unsigned or limited the
type invariant is where it shows: `pending_requests` never wraps, a pass never
takes more than `PassLimit + 1` packets, a transaction is never retried more
often than allowed, money stays under its limit, an item is in one slot of an offer.

* **MapUpdater**: `ImplementsTick` (a refinement of MapTick: a map is visited once a tick, updated at most
  once and by one worker, never after it was unloaded, and no delayed update begins before the last
  update ends), `WorldThreadIsAlone` (outside the parallel phase nothing is
  queued and nobody updates), `MapUpdateIsExclusive`, `TickEnds`, `ShutdownEnds`. `PendingIsExact` (the
  counter is the number of requests queued or in a worker's hands) is proved.
* **MPSCQueue**: `ImplementsFifo` (a refinement: the abstract sequence is the chain of
  nodes that can be or will be reached from `_tail`, without the dummy), `FreedUntouched`, `Drained`.
* **Socket**: `NothingLost` (what the stream, the buffers and the queue hold is what was sent, in that order),
  `ClosingSocketLeaves`.
* **LootRoll**: `LootedByBest` (who the item goes to is a best vote; it goes to one player).
  `RollsWaitForAnswer` is violated.
* **World**: `NoDanglingSession`, `NobodyForgotten`, `CapacityRespected`, `NoIdleSlot`,
  `NoOvertaking`, `EverySessionAnswered`. `ToleranceExpires` is violated.
* **Trade**: `TradesMutual` (both sides of a trade exist or neither), `AcceptedAsSeen` (who counts
  as having accepted was shown what is now on offer), `ExchangeAsAgreed` (a trade that ends
  exchanges that, or nothing). That items and money are conserved is proved (section 5).
* **WorldSession**: `ClosedBeforeFreed`, `NoGhostPlayer`,
  `OneCharacterOnline`, `DroppedSessionRemoved`, `ImplementsWorld`.
* **InstanceLocks**: `InstanceIdsAgree` (a map, its lock, the locks of those inside and the shared
  state), `NoEncounterForgotten` (only a crash or the end of the server forgets an encounter, and only one that was not
  written yet) and `LocksOutliveMaps` (as long as a lock counts). `InstanceIdAsserted` is violated.
* **SessionPackets**: `NoPacketLost`, `InOrder`, `NoStalePacket`.
* **DatabaseWorkerPool**: `ReportsTruth` (a task counts as done if all of it took effect, once, or if its COMMIT was
  refused, and then nothing of it ever did; of one that failed nothing did),
  `InOrder`, `ShutdownIsClean`. `ReportsTruth` leaves out tasks during which the connection was
  lost or whose START TRANSACTION was refused; of the former it is that `RolledBackUnlessCommitted`, violated, speaks.
* **BattlegroundQueue**: `InvitationsCounted` (the places a battleground keeps are those of players invited,
  in transit or inside), `RemovedInTime` (an invitation goes when its own time is up, not by
  the event of an older one). `OnlyOfflineRemoved` is violated.

## 5. Proofs

Every safety property that a run checks on a small instance, invariant, action property
or refinement, is a theorem for every value of the constants. The theorems use the
assumptions that the modules name, which TLC evaluates on every run:

* `MapsAssumption`, `WorkersAssumption`, `WorldAssumption`, `SessionAssumption`, `PoolAssumption`,
  `TradeAssumption`, `LootAssumption`, `InstanceAssumption` and the two `QueueAssumption`s: sets of
  actors and things are finite, there is a map worker, limits and bounds are natural numbers (those that the
  code never sets to zero are not zero), and subsets are subsets. `PacketsAssumption` and
  `SocketAssumption` say the same of limits and buffers.
* Null values are no members of the sets they stand beside: parts of the above, and
  `NothingAssumption` and `AbsentAssumption`.

The bounds (`MaxPackets`, `MaxClock`, `MaxKeys`, ...) are arbitrary numbers in the
theorems, so these hold for behaviours of any length.

The theorems about sessions have hypotheses beside these, the assumptions about clients of section 3.
`RepeatedAck = FALSE` stands in those about World (`TypeCorrect`, `PointersCorrect`, `QueueCorrect`, `CapacityCorrect`,
`SlotsUsed`, `QueueIsFair`) and in `RegistryImplemented` and `ServicesTypes`, which use them; `LateFailure = FALSE` as
well in `SessionInvariant` and what follows from it (`SessionTypes`, `SocketsCloseFirst`, `NoPlayerLeftBehind`,
`OneCharacterEach`, `PartsTypes`). They are needed: section 3 says what TLC finds violated without.

**ThreadProofs, MapUpdater.** `PendingIsExact` is not inductive by itself: a worker that
leaves with a request in its hands would break it. `BarrierInv` adds
`RequestShape` (in which states a worker holds a request, and that a null one is seen only
after the token was set), `ShutdownShape` (the token and the queue's flag follow the world
thread's state) and `NothingPending` (outside the parallel phase the counter is
zero, which is why shutdown finds the queue empty). Lemmas say what taking
and finishing a request do to the cardinality of `Busy`. From `BarrierInv`
follow `TypeCorrect`, `PendingCorrect`, `NullRequestCorrect` and
`BarrierSeparates` (`[]WorldThreadIsAlone`). `ExclusiveInv` adds that a map is in one request at most
(`EachMapOnce`, in the queue and in hands) and that requests are for maps that exist and were visited
(`RequestedFromMaps`); `UpdateCorrect` (`[]MapUpdateIsExclusive`) follows from both.
`NoNullRequestCalled` (a cancelled `WaitAndPop` leaves the request null, and the
token must be set first) is proved and in no run of its own.

`TickImplemented` is the refinement of MapTick. Because a map is in one request at most, the requests are
sets, and each step of a worker moves one map from one set to the next (`TickWorker`) or none; because
requested maps are loaded and were visited, what is unloaded or handed over is in no request
(`TickManager`); because the counter is exact, `wait` returns when both sets are empty (`NothingHanded`).
`DelayedLoaded`, that the second loop visits loaded maps only, completes the invariant.

**ThreadProofs, MPSCQueue.** `QueueInv` says that there is a sequence `q` of nodes, the order in which they
were exchanged into `_head`: from `_tail` to `_head`, each linked to the next or its producer still about to
link it (`Lists`). It fixes where the consumer stands in it (`Stands`), and that a
`Dequeue` that nothing excuses finds its first node (`Unexcused`). A second sequence gives what
each tail of `q` is to the abstract queue (`Shows`), which avoids an induction when the
dummy is skipped. `FreedIsUntouched` follows, and `QueueImplementsFifo`: the
exchange is the abstract enqueue, `take` the abstract dequeue, every other step stutters.

**ThreadProofs, Socket.** `SocketInv` is `NothingLost` with the types, that a loop that wrote a buffer
whole still has it at the front of `_writeQueue`, and that the socket being updated is on the
thread. The work is in the lemmas on `FlattenSeq`.

**WorldSessionProofs, World.** `WorldInv` strengthens the checked invariants with
`RegistryInv` (what is registered was handed over, sits under its own account and is
not deleted), `NewInv` (what is still in `addSessQueue` is there once, alive, not registered
and untouched), `QueueInv` (members of the login queue are registered, once each; without
a limit there is no queue) and `LoopInv` (what the world thread holds
while it is inside `UpdateSessions`); `NobodyForgotten` and `SlotsInv` (the
capacity and the idle slot, which need one another) complete it. Lemmas describe
what removing a session does to the sequence and to the number of active sessions,
in both states of the registry in which `RemoveQueuedPlayer` is called. From it follow
`TypeCorrect`, `PointersCorrect`, `QueueCorrect`, `CapacityCorrect`, `SlotsUsed` and
the action property `QueueIsFair` (`NoOvertaking`).

**WorldSessionProofs, WorldSession.** `RegistryImplemented` maps every step to a step of World or a
stutter, so `WorldInv` holds here too. `SessionInv` adds what sockets, keys and players have to do
with each other: a socket points to its own session only, and while it is open or a handler runs
under its lock the session is not deleted (`SocketInv`); instance sockets connect with keys that were given out
(`KeyInv`); nothing is left of a deleted session (`DeletedInv`); a socket is linked
once, with the key its session still expects (`LinkInv`, which is where a late failure breaks
it); at most one login query is in flight, for a login (`LoginInv`); and there is one `Player` in the world
while `_player` is set, of a registered session (`PlayerInv`).

**SessionPacketsProofs.** Packets are numbered by arrival, so order is an order of numbers. `PacketInv` says that the
packets put back and the receive queue are ascending, one before the other, and together what
waits (`QueuesInv`), that packets are put back only without a player (`RequeueInv`), and what may wait
beside a packet of the character screen or of an earlier stay (`ScreenInv`, `StayInv`). `PacketsAreKept`,
`HandledInOrder` and `NothingStale` follow. The last needs `StayInv`: a packet left over from the
last stay waits only while `m_playerRecentlyLogout` will have it dropped.

**DatabaseWorkerPoolProofs.** `PoolInv` relates each connection's command to its task (`Fits`) and to what the server holds
open for it (`Follows`: an open transaction has executed exactly the statements before the
next one, unless the connection was lost or the transaction refused), says that a task is in one place
(`QueueOK`, `ConnsOK`), that outcomes and refused COMMITs tell what took effect (`OutcomesOK`), and that with one
worker the unsettled tasks are its own and then the queue (`OrderOK`). `OutcomesAreTrue`,
`ClosesCleanly` and `OneWorkerKeepsOrder` follow.

**TradeAndLootProofs, Trade.** `AcceptedAsSeen` is not inductive: what a client was shown must be related to
the offer of now. `ViewsCurrent` says that a view with the partner's present index
shows the partner's present offer, but for items that left the game, and that no view is ahead;
`ConsentCurrent` says it of a consent while `_accepted` holds. `Mutual`, `BagsApart` and `SlotsDistinct` are needed to
know that an item is offered by one player, once. `ExchangedAsAgreed` is the action property. `ItemsAreConserved` says that every item is
in one bag or left the game, although `moveItems` takes the items out first, stores them slot by slot and gives back what
does not fit; `BagsApart` is one half of it and `NoItemLost` the other. `MoneyIsConserved` says that no step makes or loses a
coin but a purchase, so `ModifyMoney` never cuts a payment at zero or at the limit.

**TradeAndLootProofs, LootRoll.** The pass over the votes runs in the order of a hash map. The
lemmas prove by induction over that order that its result is a best vote, whatever the order;
`RollsInv` says that an item is blocked as long as it is rolled for, and that a blocked item is nobody's.

**InstanceLocksProofs.** `UpdateInstanceLock` runs once for every player inside, as a fold over the players. So
`MgrInv` is a predicate on a state of the manager, kept by each operator: temporary locks are new and permanent
ones are not, rows show what locks show (`LocksInv`), ids of locks are not given out again
(`UsedInv`), and with locks bound to ids a lock, its instance, its row and its map name one
instance and the instance shows what the lock shows (`BoundInv`). `StateInv` adds maps and players. So much
holds of memory and of the tables once all writes have run. `WritesInv` says that the tables before each queued write can be loaded
too: what `Restart` makes of them satisfies `MgrInv`. The lemmas `RowsLoad` and
`RowsBetweenLoad` show it of what an event queues: the row of an instance is deleted only when
no row of a lock that counts shows an encounter of it. `DungeonInv`, all of this together, is the inductive invariant of `InstancesInvariant`. `EncountersKept` and
`MapLocksLast` are action properties of the same operators, carried through the fold.

**BattlegroundQueueProofs.** `InvitationsCounted` is about sizes of sets, which no step keeps by itself. `BgInv` says where
each player stands (`PlayerOK`): an entry in a queue has a slot that says the same and, once invited, a battleground of that
queue and the removal event that will end it (`EntriesOf`); who is inside is
inside one battleground and not in its queue (`InsideOf`); who is on the way has the
slot for it (`TransitOf`). So the three ways to have a place in a battleground exclude each other,
and `PlacesKept` says that a battleground's count is the number of those who have one, at most a team.
A few lemmas (`SomeMove`, `OneMoves`, `NobodyMoves`) reduce a step to the players that move. `PlacesAreKept` and
`InvitationsEndInTime` (`RemovedInTime`) follow; the latter because every invitation has its event.

**FoldLemmas.** The library's induction theorems take an operator, which the provers cannot
instantiate; here induction is stated with a set of numbers (`InductionUpTo`), and recursion with functions. That
is enough for the folds, recursive functions and `FlattenSeq` that the models use.

**Compositions.** The runs `protocols`, `services` and `session_and_instances` move one of several components in a behaviour.
`ProtocolTypes` (in ThreadProofs), `ServicesTypes` (in DatabaseWorkerPoolProofs) and `PartsTypes` (in InstanceLocksProofs)
state the `TypesOK` of these runs of the composed specification: a step of it is a step of one component and a
stutter of the others, so it keeps the inductive invariant of each. These modules extend the proofs of the
components they compose. `ServicesTypes` and `PartsTypes` have the hypotheses of the theorems on sessions.

Only model-checked: liveness (`TickEnds`, `ShutdownEnds`, `EverySessionAnswered`, `DroppedSessionRemoved`, `Drained`,
`ClosingSocketLeaves`), which is out of the prover's reach.

## 6. Inventory of the rest and plan

What has a module is modelled, and its safety properties are proved. What comes next, in
this order; each module gets a run, or joins the run of the module it extends.

1. **EventProcessor**, **AsyncCallbackProcessor** - containers that are changed by
   the callbacks they run.
2. **GridStates** - grid life cycle (active, idle, removal), map unloading timers, and the look-ups of maps
   by workers while the world thread erases one.
3. **LFGProposal**, **AuctionHouse** - role checks and proposals against the timer;
   asynchronous commits against new offers.
4. **TransmogBridge**, **Companion** - the additions of VoxCore: a packet and an addon
   message that must meet (an outfit kept for later in the packet loop, `WorldSession.cpp:553`); squads of creatures across
   logout and death.
5. **OrchestratorLock**, **BnetSession** - the lock file of the Python tooling; login
   tickets and their expiry.

`PROJECT.json` lists the hazards already met in reading these parts, each at its line.

Not planned, and why:

* Spells, units, movement, AI, combat, quests, achievements, guilds, mail: rules that
  one thread runs sequentially; their difficulty is data, not order. The symmetry of threat
  and combat references is a candidate for later.
* Collision and path finding (floating-point geometry), cryptography and string
  encodings (numeric functions), configuration, logging and metrics (input and output).
* Database updater, loaders, DB2 stores, realm list, secrets: run at start-up or on a timer,
  with nothing beside them.
* The Lua engine is third-party and optional; scripts are content; protocol buffers are
  generated; the extraction tools are off-line.
* Of the modelled components: the durability of MySQL itself, queries that only read, the
  contents of packets, what handlers do to the game, and the order of the writes of
  `account.online` (`WorldSession.cpp:160`).
* Socket: `Stop` and `StopNetwork`, outgoing connections, the completion ports of Windows, several
  sockets of a thread beside their count, packets larger than a buffer.
* Trade: stacks that merge, unique and bound items, bag types. LootRoll: how loot is filled, master loot,
  personal loot.
* InstanceLocks: groups (whose lock a player enters with is open), game masters, instances without scripts,
  the entrance location; several events at once; more than one worker thread of the characters' database
  (`CharacterDatabase.WorkerThreads` is 1 unless configured otherwise), whose writes may pass one another; queued
  writes that fail. The locks a load drops because their instances are missing are deleted in one write, where
  the code has one for each instance.
* BattlegroundQueue: groups, random and rated battlegrounds, arenas, the balance of teams, levels, the
  free-slot queue flag, the entrance of game masters.

## 7. Running

    tlc -workers 2 -config MCProtocols.cfg MCProtocols
    tlapm ThreadProofs.tla

`PROJECT.json` names the module and the configuration of every run. `packets` has the most states, about ten
million; `packets`, `services`, `session_and_instances` and `session_retries` take two to three minutes each, the
others less.
