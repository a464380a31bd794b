----------------------- MODULE ProducerConsumerQueue -----------------------
(***************************************************************************)
(* src/common/Threading/ProducerConsumerQueue.h: a FIFO queue behind one   *)
(* mutex and one condition variable.  Every method holds _queueLock from   *)
(* its first to its last line, so a method is one step; WaitAndPop gives   *)
(* the lock up only inside condition_variable::wait, which is the set      *)
(* `waiters`.  A notified thread leaves `waiters` and evaluates the wait   *)
(* predicate again in its next step, as the lambda given to wait does.     *)
(***************************************************************************)
EXTENDS Integers, Sequences

VARIABLES
  queue,      \* _queue
  shutdown,   \* _shutdown
  waiters     \* threads blocked on _condition

pcqVars == <<queue, shutdown, waiters>>

QueueInit ==
  /\ queue = <<>>
  /\ shutdown = FALSE
  /\ waiters = {}

\* notify_one: one blocked thread, the implementation chooses which.
NotifyOne ==
  \/ waiters = {} /\ waiters' = {}
  \/ \E t \in waiters : waiters' = waiters \ {t}

\* Defect: notify_all forgotten, the blocked threads stay blocked.
CancelSilently ==
  /\ queue' = <<>>
  /\ shutdown' = TRUE
  /\ UNCHANGED waiters

Push(value) ==
  /\ queue' = Append(queue, value)
  /\ NotifyOne
  /\ UNCHANGED shutdown

\* WaitAndPop, the predicate is false: release the lock and block.
WaitAndPopBlocks(t) ==
  /\ t \notin waiters
  /\ queue = <<>> /\ ~shutdown
  /\ waiters' = waiters \union {t}
  /\ UNCHANGED <<queue, shutdown>>

\* WaitAndPop returns a value: the caller reads Head(queue).
WaitAndPopReturns(t) ==
  /\ t \notin waiters
  /\ queue # <<>> /\ ~shutdown
  /\ queue' = Tail(queue)
  /\ UNCHANGED <<shutdown, waiters>>

\* WaitAndPop after Cancel: it returns and leaves the out parameter alone.
WaitAndPopCancelled(t) ==
  /\ t \notin waiters
  /\ shutdown
  /\ UNCHANGED pcqVars

\* The condition variable may wake a thread nobody notified.
SpuriousWakeup(t) ==
  /\ t \in waiters
  /\ waiters' = waiters \ {t}
  /\ UNCHANGED <<queue, shutdown>>

Cancel ==
  /\ queue' = <<>>
  /\ shutdown' = TRUE
  /\ waiters' = {}
=============================================================================
