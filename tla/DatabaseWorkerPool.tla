------------------------- MODULE DatabaseWorkerPool -------------------------
(***************************************************************************)
(* One database of the server: the pool of MySQL connections of            *)
(* database/Database/DatabaseWorkerPool.cpp, the execution of a            *)
(* transaction with its retries (Transaction.cpp, MySQLConnection.cpp) and *)
(* what a connection lost half-way does to it.                             *)
(*                                                                         *)
(* Every command sent to the MySQL server is one step; the server answers  *)
(* that it is done, refuses it, finds a deadlock, or the connection is     *)
(* lost and opened anew.  Nobody looks at the answer to START TRANSACTION  *)
(* or COMMIT.  A COMMIT that is refused has rolled the transaction back,   *)
(* and a ROLLBACK is not refused: so MySQL answers them.                   *)
(***************************************************************************)
EXTENDS Integers, FiniteSets, Sequences

CONSTANTS
  Tasks,        \* what is to be executed, each once
  Single,       \* those that are one statement; the others are transactions
  Empty,        \* transactions without any statement
  Direct,       \* those executed by the thread that asks for them
  Length,       \* statements of a transaction that has any
  Workers,      \* asynchronous connections, each with its thread
  Synch,        \* synchronous connections, used by whoever locks them
  None,         \* no task, no thread
  MaxAttempts,  \* bound: retries in DEADLOCK_MAX_RETRY_TIME_MS
  LoopBreaker,  \* loopBreaker: retries of a direct transaction
  Faults,       \* what goes wrong beside errors and deadlocks: connections are
                \* "lost", START TRANSACTION ("begin") or "commit" is refused
  MaxFaults     \* bound: how often it does

Conns == Workers \union Synch

Transactions == Tasks \ Single

ASSUME PoolAssumption ==
  /\ IsFiniteSet(Tasks) /\ IsFiniteSet(Workers)
  /\ Single \subseteq Tasks /\ Direct \subseteq Tasks
  /\ Empty \subseteq Transactions
  /\ Workers \intersect Synch = {}
  /\ None \notin Tasks /\ None \notin Workers
  /\ Length \in Nat \ {0}
  /\ MaxAttempts \in Nat \ {0} /\ LoopBreaker \in Nat \ {0} /\ MaxFaults \in Nat

Statements(t) == 1..(IF t \in Single THEN 1 ELSE IF t \in Empty THEN 0 ELSE Length)

VARIABLES
  _connections,  \* the asynchronous connections the configuration asks for
  pool,          \* "open", "closing" (_ioContext is stopped), "closed" or
                 \* "aborted" (the process ended)
  queue,         \* tasks posted to _ioContext
  unsettled,     \* those that were posted and have not ended, in order
  conn,          \* of each connection: the task it executes, its next command
                 \* and statement, the retries so far and the last error
  _deadlockLock, \* the worker that holds it
  outcome,       \* "new", "pending", "done" or "failed", of each task
  session,       \* the server's side of each connection: is a transaction
                 \* open, and which statements has it executed
  applied,       \* how often each statement is in the database
  interrupted,   \* tasks during which the connection was lost or whose START
                 \* TRANSACTION was refused
  refused,       \* tasks whose COMMIT was refused
  faults

serverVars == <<session, applied>>
resultVars == <<_deadlockLock, outcome, unsettled>>
poolVars ==
  <<_connections, pool, queue, conn, resultVars, serverVars, interrupted, refused, faults>>

Idle == [task |-> None, command |-> "none", next |-> 1, attempt |-> 0, error |-> "none"]

NoTransaction == [open |-> FALSE, executed |-> {}]

PoolInit ==
  /\ _connections \in SUBSET Workers \ {{}}
  /\ pool = "open" /\ queue = <<>> /\ unsettled = <<>>
  /\ conn = [c \in Conns |-> Idle]
  /\ _deadlockLock = None
  /\ outcome = [t \in Tasks |-> "new"]
  /\ session = [c \in Conns |-> NoTransaction]
  /\ applied = [t \in Tasks |-> [i \in Statements(t) |-> 0]]
  /\ interrupted = {} /\ refused = {} /\ faults = 0

-----------------------------------------------------------------------------
(* The MySQL server. *)

\* The statements take effect for everybody.
Committed(executed) ==
  [t \in Tasks |-> [i \in Statements(t) |->
     applied[t][i] + IF <<t, i>> \in executed THEN 1 ELSE 0]]

\* A statement is executed; outside a transaction it is committed at once.
Executes(c, stmt) ==
  IF session[c].open
  THEN /\ session' = [session EXCEPT ![c].executed = @ \union {stmt}]
       /\ UNCHANGED applied
  ELSE applied' = Committed({stmt}) /\ UNCHANGED session

\* START TRANSACTION; it commits the one that is open, if any.
StartsTransaction(c) ==
  /\ applied' = Committed(session[c].executed)
  /\ session' = [session EXCEPT ![c] = [open |-> TRUE, executed |-> {}]]

Commits(c) ==
  /\ applied' = Committed(session[c].executed)
  /\ session' = [session EXCEPT ![c] = NoTransaction]

RollsBack(c) ==
  /\ session' = [session EXCEPT ![c] = NoTransaction]
  /\ UNCHANGED applied

-----------------------------------------------------------------------------
(* Asking for something to be executed. *)

Starts(c, t) ==
  conn' = [conn EXCEPT ![c] =
             [Idle EXCEPT !.task = t, !.command = IF t \in Single THEN "query" ELSE "begin"]]

\* Execute, CommitTransaction, AsyncCommitTransaction
Post(t) ==
  /\ pool = "open" /\ outcome[t] = "new" /\ t \notin Direct
  /\ queue' = Append(queue, t) /\ unsettled' = Append(unsettled, t)
  /\ outcome' = [outcome EXCEPT ![t] = "pending"]
  /\ UNCHANGED <<_connections, pool, conn, _deadlockLock, serverVars, interrupted, refused, faults>>

\* A worker thread runs the next handler of _ioContext.
RunHandler(w) ==
  /\ pool = "open" /\ w \in _connections /\ conn[w] = Idle
  /\ queue # <<>> /\ queue' = Tail(queue)
  /\ Starts(w, Head(queue))
  /\ UNCHANGED <<_connections, pool, unsettled, _deadlockLock, outcome, serverVars,
                 interrupted, refused, faults>>

\* DirectExecute, DirectCommitTransaction: GetFreeConnection spins until it has
\* locked a connection.
DirectStart(c, t) ==
  /\ pool = "open" /\ outcome[t] = "new" /\ t \in Direct
  /\ c \in Synch /\ conn[c] = Idle
  /\ Starts(c, t)
  /\ outcome' = [outcome EXCEPT ![t] = "pending"]
  /\ UNCHANGED <<_connections, pool, queue, unsettled, _deadlockLock, serverVars,
                 interrupted, refused, faults>>

-----------------------------------------------------------------------------
(* The end of an attempt. *)

Settles(t, result) ==
  /\ outcome' = [outcome EXCEPT ![t] = result]
  /\ IF t \in Direct
     THEN UNCHANGED unsettled
     ELSE \E i \in DOMAIN unsettled :
            /\ unsettled[i] = t
            /\ unsettled' = SubSeq(unsettled, 1, i - 1) \o
                            SubSeq(unsettled, i + 1, Len(unsettled))

\* Execute or Direct... returns; the connection and the lock are free again.
Returns(c, result) ==
  /\ conn' = [conn EXCEPT ![c] = Idle]
  /\ Settles(conn[c].task, result)
  /\ _deadlockLock' = IF _deadlockLock = c THEN None ELSE _deadlockLock

Limit(c) == IF c \in Workers THEN MaxAttempts ELSE LoopBreaker

\* Defect: one retry too many.
MayRetryOnceMore(c) == conn[c].attempt <= Limit(c)

MayRetry(c) == conn[c].attempt < Limit(c)

\* A worker gives up when its time is over, a direct transaction after
\* LoopBreaker retries.
MayGiveUp(c) == conn[c].attempt = Limit(c) \/ (c \in Workers /\ conn[c].attempt > 0)

\* Defect: it goes on with the statement that failed.
AgainFromThere(c) ==
  /\ conn' = [conn EXCEPT ![c] = [@ EXCEPT !.command = "begin",
                                   !.attempt = conn[c].attempt + 1]]
  /\ UNCHANGED resultVars

Again(c) ==
  /\ conn' = [conn EXCEPT ![c] = [@ EXCEPT !.command = "begin", !.next = 1,
                                   !.attempt = conn[c].attempt + 1]]
  /\ UNCHANGED resultVars

\* ExecuteTransaction has returned an error code: TransactionTask::Execute on a
\* worker, DirectCommitTransaction elsewhere.  Only a deadlock is retried, but a
\* retry is repeated whatever its error.
Failed(c, error) ==
  \/ /\ conn[c].attempt = 0 /\ error # "deadlock"
     /\ Returns(c, "failed")
  \/ /\ conn[c].attempt = 0 /\ error = "deadlock" /\ c \in Workers
     /\ conn' = [conn EXCEPT ![c].command = "lock"]
     /\ UNCHANGED resultVars
  \/ /\ conn[c].attempt > 0 \/ (error = "deadlock" /\ c \in Synch)
     /\ \/ MayRetry(c) /\ Again(c)
        \/ MayGiveUp(c) /\ Returns(c, "failed")

\* Defect: the transaction is posted again, behind whatever came meanwhile.
LockDeadlockPostsAgain(w) ==
  /\ conn[w].command = "lock" /\ pool # "aborted"
  /\ queue' = Append(queue, conn[w].task)
  /\ conn' = [conn EXCEPT ![w] = Idle]
  /\ UNCHANGED <<_connections, pool, unsettled, _deadlockLock, outcome, serverVars,
                 interrupted, refused, faults>>

\* Only one worker retries at a time.
LockDeadlock(w) ==
  /\ conn[w].command = "lock" /\ pool # "aborted"
  /\ _deadlockLock = None /\ _deadlockLock' = w
  /\ conn' = [conn EXCEPT ![w] = [@ EXCEPT !.command = "begin", !.next = 1, !.attempt = 1]]
  /\ UNCHANGED <<_connections, pool, queue, unsettled, outcome, serverVars,
                 interrupted, refused, faults>>

-----------------------------------------------------------------------------
(* MySQLConnection::ExecuteTransaction and Execute, command by command. *)

At(c, command) == pool # "aborted" /\ conn[c].command = command

Sends(c, command) ==
  /\ At(c, command)
  /\ UNCHANGED <<_connections, pool, queue>>

NoFault == UNCHANGED <<interrupted, refused, faults>>

Fault(kind) ==
  /\ kind \in Faults
  /\ faults < MaxFaults /\ faults' = faults + 1

Continues(c, command) ==
  /\ conn' = [conn EXCEPT ![c].command = command]
  /\ UNCHANGED resultVars

NothingToExecute(c) ==
  /\ Sends(c, "begin") /\ NoFault /\ conn[c].task \in Empty
  /\ Failed(c, "empty")
  /\ UNCHANGED serverVars

BeginTransaction(c) ==
  /\ Sends(c, "begin") /\ NoFault /\ conn[c].task \notin Empty
  /\ StartsTransaction(c)
  /\ Continues(c, "query")

\* It is refused; the statements are executed outside a transaction.
BeginRefused(c) ==
  /\ Sends(c, "begin") /\ conn[c].task \notin Empty /\ Fault("begin")
  /\ interrupted' = interrupted \union {conn[c].task}
  /\ UNCHANGED <<serverVars, refused>>
  /\ Continues(c, "query")

QueryDone(c) ==
  /\ Sends(c, "query") /\ NoFault
  /\ Executes(c, <<conn[c].task, conn[c].next>>)
  /\ IF conn[c].task \in Single
     THEN Returns(c, "done")
     ELSE /\ conn' = [conn EXCEPT ![c] =
                        [@ EXCEPT !.next = conn[c].next + 1,
                                  !.command = IF conn[c].next = Length THEN "commit" ELSE "query"]]
          /\ UNCHANGED resultVars

\* The server refuses the statement, or rolls its transaction back because of
\* a deadlock.
QueryFails(c, error) ==
  /\ Sends(c, "query") /\ NoFault
  /\ IF error = "deadlock" THEN RollsBack(c) ELSE UNCHANGED serverVars
  /\ IF conn[c].task \in Single
     THEN Returns(c, "failed")
     ELSE /\ conn' = [conn EXCEPT ![c] = [@ EXCEPT !.command = "rollback", !.error = error]]
          /\ UNCHANGED resultVars

RollbackTransaction(c) ==
  /\ Sends(c, "rollback") /\ NoFault
  /\ RollsBack(c)
  /\ Failed(c, conn[c].error)

CommitTransaction(c) ==
  /\ Sends(c, "commit") /\ NoFault
  /\ Commits(c)
  /\ Returns(c, "done")

\* It is refused, which is reported like success.
CommitRefused(c) ==
  /\ Sends(c, "commit") /\ Fault("commit")
  /\ refused' = refused \union {conn[c].task}
  /\ UNCHANGED interrupted
  /\ RollsBack(c)
  /\ Returns(c, "done")

\* A command is with the server.
InFlight(c) ==
  /\ pool # "aborted" /\ conn[c].command \in {"begin", "query", "rollback", "commit"}
  /\ ~(conn[c].command = "begin" /\ conn[c].task \in Empty)

\* _HandleMySQLErrno: the connection is lost before or after the server has
\* done what the command says; it is opened anew and the command sent again.
ConnectionLost(c) ==
  /\ InFlight(c) /\ Fault("lost")
  /\ \/ UNCHANGED applied
     \/ conn[c].command = "commit" /\ applied' = Committed(session[c].executed)
     \/ /\ conn[c].command = "query" /\ ~session[c].open
        /\ applied' = Committed({<<conn[c].task, conn[c].next>>})
  /\ session' = [session EXCEPT ![c] = NoTransaction]
  /\ interrupted' = interrupted \union {conn[c].task}
  /\ UNCHANGED <<_connections, pool, queue, unsettled, conn, _deadlockLock, outcome, refused>>

\* The server is out of reach for too long, or the tables are not the expected
\* ones: the process aborts, and the server rolls back what is open.
Abort(c) ==
  /\ InFlight(c) /\ pool' = "aborted"
  /\ session' = [d \in Conns |-> NoTransaction]
  /\ conn' = [d \in Conns |-> Idle] /\ queue' = <<>> /\ _deadlockLock' = None
  /\ UNCHANGED <<_connections, unsettled, outcome, applied, interrupted, refused, faults>>

-----------------------------------------------------------------------------
(* DatabaseWorkerPool::Close *)

\* The worker threads run no further handler.  Nobody uses a synchronous
\* connection any more.
Close ==
  /\ pool = "open" /\ pool' = "closing"
  /\ \A c \in Synch : conn[c] = Idle
  /\ UNCHANGED <<_connections, queue, unsettled, conn, _deadlockLock, outcome, serverVars,
                 interrupted, refused, faults>>

\* Defect: the threads are not waited for.
WorkersJoinedEarly ==
  /\ pool = "closing" /\ pool' = "closed" /\ queue' = <<>>
  /\ UNCHANGED <<_connections, unsettled, conn, _deadlockLock, outcome, serverVars,
                 interrupted, refused, faults>>

\* All threads are joined; _ioContext goes, with what is still queued.
WorkersJoined ==
  /\ pool = "closing" /\ pool' = "closed" /\ queue' = <<>>
  /\ \A w \in _connections : conn[w] = Idle
  /\ UNCHANGED <<_connections, unsettled, conn, _deadlockLock, outcome, serverVars,
                 interrupted, refused, faults>>

Ended == pool \in {"closed", "aborted"} /\ UNCHANGED poolVars

-----------------------------------------------------------------------------
Executing(c) ==
  \/ NothingToExecute(c) \/ BeginTransaction(c) \/ BeginRefused(c)
  \/ QueryDone(c) \/ QueryFails(c, "deadlock") \/ QueryFails(c, "error")
  \/ RollbackTransaction(c) \/ CommitTransaction(c) \/ CommitRefused(c)

Working(w) == RunHandler(w) \/ LockDeadlock(w) \/ Executing(w)

PoolNext ==
  \/ \E t \in Tasks : Post(t)
  \/ \E c \in Synch, t \in Tasks : DirectStart(c, t)
  \/ \E w \in Workers : Working(w)
  \/ \E c \in Synch : Executing(c)
  \/ \E c \in Conns : ConnectionLost(c) \/ Abort(c)
  \/ Close \/ WorkersJoined \/ Ended

PoolSpec == PoolInit /\ [][PoolNext]_poolVars

-----------------------------------------------------------------------------
(* Properties. *)

\* Every variable has its type; nothing is retried more often than allowed.
PoolTypeOK ==
  /\ _connections \in SUBSET Workers
  /\ pool \in {"open", "closing", "closed", "aborted"}
  /\ queue \in Seq(Tasks) /\ unsettled \in Seq(Tasks)
  /\ \A c \in Conns :
       /\ conn[c].task \in Tasks \union {None}
       /\ conn[c].command \in {"none", "begin", "query", "rollback", "commit", "lock"}
       /\ conn[c].next \in 1..Length + 1
       /\ conn[c].attempt \in 0..Limit(c)
       /\ conn[c].error \in {"none", "deadlock", "error"}
       /\ session[c].open \in BOOLEAN
       /\ session[c].executed \subseteq {<<t, i>> : t \in Tasks, i \in 1..Length}
  /\ _deadlockLock \in Workers \union {None}
  /\ outcome \in [Tasks -> {"new", "pending", "done", "failed"}]
  /\ DOMAIN applied = Tasks /\ \A t \in Tasks : applied[t] \in [Statements(t) -> Nat]
  /\ interrupted \subseteq Tasks /\ refused \subseteq Tasks /\ faults \in 0..MaxFaults

Untouched(t) == \A i \in Statements(t) : applied[t][i] = 0

Whole(t) == \A i \in Statements(t) : applied[t][i] = 1

\* Through errors, deadlocks, retries, a shutdown and a crash a task is in the
\* database once and as a whole or not at all, as long as its connection was not
\* lost and its transaction began.  Execute and the callbacks are told which of
\* the two, but for one case: a COMMIT that was refused is reported as done, and
\* then nothing of the transaction is there, now or later.
ReportsTruth ==
  \A t \in Tasks \ interrupted :
    /\ t \in refused => outcome[t] = "done"
    /\ outcome[t] = "done" => IF t \in refused THEN Untouched(t) ELSE Whole(t)
    /\ outcome[t] \in {"new", "failed"} => Untouched(t)
    /\ outcome[t] = "pending" => Whole(t) \/ Untouched(t)

\* With one worker thread what was posted first is settled first, however often
\* it had to be retried.
InOrder ==
  [][Cardinality(_connections) = 1 =>
       \A i \in DOMAIN unsettled :
         applied'[unsettled[i]] # applied[unsettled[i]] => i = 1]_poolVars

\* A shutdown interrupts nothing: when the pool is closed no transaction is
\* open, nobody waits for or holds the lock, and a task was either ended or
\* never begun.
ShutdownIsClean ==
  pool = "closed" =>
    /\ _deadlockLock = None
    /\ \A c \in Conns : conn[c] = Idle /\ ~session[c].open
    /\ \A t \in Tasks : outcome[t] = "pending" => Untouched(t)

\* DatabaseWorkerPool.h:167: a transaction "will automatically rollback if not
\* commited. (Autocommit=0)", so it is in the database as a whole or not at all.
RolledBackUnlessCommitted ==
  \A t \in Transactions : Whole(t) \/ Untouched(t)
=============================================================================
