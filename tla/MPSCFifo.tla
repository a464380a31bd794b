------------------------------ MODULE MPSCFifo ------------------------------
(***************************************************************************)
(* What a multi-producer, single-consumer queue promises.  An item takes   *)
(* its place when its Enqueue begins, is taken in that order and only      *)
(* once.  Dequeue may come back empty-handed although the queue holds      *)
(* something, but only if an Enqueue was under way during the call.        *)
(***************************************************************************)
EXTENDS Integers, Sequences, SequencesExt

CONSTANTS Items, NoItem

VARIABLES
  fifo,     \* the items in the queue
  enqueuing,\* the items whose Enqueue has not returned
  busy,     \* the consumer is in Dequeue
  excused,  \* the call found the queue empty or an Enqueue under way
  result    \* what the last Dequeue returned

vars == <<fifo, enqueuing, busy, excused, result>>

Init ==
  /\ fifo = <<>> /\ enqueuing = {} /\ busy = FALSE /\ excused = FALSE /\ result = NoItem

EnqueueBegins(i) ==
  /\ i \notin enqueuing
  /\ fifo' = Append(fifo, i) /\ enqueuing' = enqueuing \union {i}
  /\ excused' = busy
  /\ UNCHANGED <<busy, result>>

EnqueueEnds(i) ==
  /\ i \in enqueuing
  /\ enqueuing' = enqueuing \ {i}
  /\ UNCHANGED <<fifo, busy, excused, result>>

DequeueBegins ==
  /\ ~busy /\ busy' = TRUE
  /\ excused' = (fifo = <<>> \/ enqueuing # {})
  /\ result' = NoItem
  /\ UNCHANGED <<fifo, enqueuing>>

DequeueTakes ==
  /\ busy /\ busy' = FALSE /\ excused' = FALSE
  /\ fifo # <<>>
  /\ result' = Head(fifo) /\ fifo' = Tail(fifo)
  /\ UNCHANGED enqueuing

DequeueFails ==
  /\ busy /\ busy' = FALSE /\ excused' = FALSE
  /\ excused
  /\ UNCHANGED <<fifo, enqueuing, result>>

Next ==
  \/ \E i \in Items : EnqueueBegins(i) \/ EnqueueEnds(i)
  \/ DequeueBegins \/ DequeueTakes \/ DequeueFails

Spec == Init /\ [][Next]_vars
=============================================================================
