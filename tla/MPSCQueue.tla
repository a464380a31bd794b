----------------------------- MODULE MPSCQueue -----------------------------
(***************************************************************************)
(* Trinity::Impl::MPSCQueueIntrusive, common/Threading/MPSCQueue.h: the    *)
(* queue by which any thread sends packets to a WorldSocket and its        *)
(* network thread takes them.                                              *)
(*                                                                         *)
(* Every atomic load, store and exchange is a step of its own.  The        *)
(* acquire/release orders of the code make each link visible together      *)
(* with the node it leads to, so steps of one global order show the same   *)
(* runs.  The consumer deletes what it takes.                              *)
(***************************************************************************)
EXTENDS Integers, FiniteSets, Sequences

CONSTANTS
  Items,    \* the nodes the producers enqueue, each once, each by a thread
            \* of its own
  Dummy,    \* _dummyPtr
  Null      \* nullptr

Nodes == Items \union {Dummy}

ASSUME QueueAssumption ==
  /\ IsFiniteSet(Items)
  /\ Dummy \notin Items /\ Null \notin Nodes

VARIABLES
  _head, _tail,
  link,        \* IntrusiveLink of each node
  state,       \* of each node: "new", "entering" (exchanged into _head, not
               \* yet linked from prev), "in" or "freed"
  prev,        \* prevHead of the Enqueue of each node
  consumer,    \* the next step of Dequeue
  tail, next,  \* its local variables
  result,      \* what the last Dequeue returned
  overlapped   \* the call found the queue empty or an Enqueue under way

linkVars == <<_head, _tail, link>>
callVars == <<consumer, tail, next, result, overlapped>>
mpscVars == <<linkVars, state, prev, callVars>>

MpscInit ==
  /\ _head = Dummy /\ _tail = Dummy
  /\ link = [n \in Nodes |-> Null]
  /\ state = [n \in Nodes |-> IF n = Dummy THEN "in" ELSE "new"]
  /\ prev = [n \in Nodes |-> Null]
  /\ consumer = "idle" /\ tail = Null /\ next = Null
  /\ result = Null /\ overlapped = FALSE

Entering == {n \in Items : state[n] = "entering"}

-----------------------------------------------------------------------------
(* Enqueue.  The node is still its thread's own when its link is cleared. *)

\* Defect: the link is not cleared.
ExchangeKeepsLink(n) ==
  /\ prev' = [prev EXCEPT ![n] = _head]
  /\ _head' = n
  /\ state' = [state EXCEPT ![n] = "entering"]
  /\ UNCHANGED <<_tail, link>>

Exchange(n) ==
  /\ link' = [link EXCEPT ![n] = Null]
  /\ prev' = [prev EXCEPT ![n] = _head]
  /\ _head' = n
  /\ state' = [state EXCEPT ![n] = "entering"]
  /\ UNCHANGED _tail

Link(n) ==
  /\ state[n] = "entering"
  /\ link' = [link EXCEPT ![prev[n]] = n]
  /\ state' = [state EXCEPT ![n] = "in"]
  /\ UNCHANGED <<_head, _tail, prev>>

EnqueueExchange(n) ==
  /\ state[n] = "new"
  /\ Exchange(n)
  /\ overlapped' = (consumer # "idle")
  /\ UNCHANGED <<consumer, tail, next, result>>

EnqueueLink(n) == Link(n) /\ UNCHANGED callVars

-----------------------------------------------------------------------------
(* Dequeue *)

Successors(n) == {m \in Nodes : link[n] = m \/ (state[m] = "entering" /\ prev[m] = n)}

\* The items from n on, in the order of their exchanges, at most `most` nodes.
ChainFrom[most \in 0..Cardinality(Nodes)] ==
  [n \in Nodes |->
     IF most = 0 THEN <<>>
     ELSE (IF n = Dummy THEN <<>> ELSE <<n>>) \o
          (IF Successors(n) = {} THEN <<>>
           ELSE ChainFrom[most - 1][CHOOSE m \in Successors(n) : TRUE])]

Chain == ChainFrom[Cardinality(Nodes)][_tail]

Goes(step) == consumer' = step /\ UNCHANGED <<result, overlapped>>

Fails == consumer' = "idle" /\ overlapped' = FALSE /\ UNCHANGED result

\* The node is returned, and the caller deletes it.
Takes ==
  /\ consumer' = "idle" /\ overlapped' = FALSE
  /\ _tail' = next /\ result' = tail
  /\ state' = [state EXCEPT ![tail] = "freed"]
  /\ UNCHANGED <<_head, link, prev, tail, next>>

LoadTail ==
  /\ consumer = "idle" /\ consumer' = "tailNext"
  /\ tail' = _tail /\ next' = Null /\ result' = Null
  /\ overlapped' = (Chain = <<>> \/ Entering # {})
  /\ UNCHANGED <<linkVars, state, prev>>

LoadTailNext ==
  /\ consumer = "tailNext"
  /\ next' = link[tail]
  /\ IF tail = Dummy /\ next' = Null
     THEN Fails
     ELSE Goes(IF tail = Dummy THEN "skipDummy" ELSE "found")
  /\ UNCHANGED <<linkVars, state, prev, tail>>

\* Defect: the successor of the node behind the dummy is not loaded.
SkipDummyTakesOld ==
  /\ consumer = "skipDummy"
  /\ _tail' = next /\ tail' = next
  /\ Goes("found")
  /\ UNCHANGED <<next, _head, link, state, prev>>

\* The dummy comes first: _tail moves past it.
SkipDummy ==
  /\ consumer = "skipDummy"
  /\ _tail' = next /\ tail' = next /\ next' = link[next]
  /\ Goes("found")
  /\ UNCHANGED <<_head, link, state, prev>>

TakeFound ==
  /\ consumer = "found" /\ next # Null
  /\ Takes

\* Defect: the dummy is never put in again.
LoadHeadGivesUp ==
  /\ consumer = "found" /\ next = Null
  /\ Fails
  /\ UNCHANGED <<linkVars, state, prev, tail, next>>

\* The node has no successor yet: either it is the last, or one is on its way.
LoadHead ==
  /\ consumer = "found" /\ next = Null
  /\ IF tail # _head THEN Fails ELSE Goes("enqueueDummy")
  /\ UNCHANGED <<linkVars, state, prev, tail, next>>

\* Enqueue(_dummyPtr), so that the last node gets a successor.
EnqueueDummy ==
  /\ consumer = "enqueueDummy"
  /\ Exchange(Dummy)
  /\ Goes("linkDummy")
  /\ UNCHANGED <<tail, next>>

LinkDummy ==
  /\ consumer = "linkDummy"
  /\ Link(Dummy)
  /\ Goes("again")
  /\ UNCHANGED <<tail, next>>

LoadAgain ==
  /\ consumer = "again"
  /\ next' = link[tail]
  /\ IF next' = Null THEN Fails ELSE Goes("take")
  /\ UNCHANGED <<linkVars, state, prev, tail>>

TakeLast ==
  /\ consumer = "take"
  /\ Takes

Dequeue ==
  \/ LoadTail \/ LoadTailNext \/ SkipDummy \/ TakeFound \/ LoadHead
  \/ EnqueueDummy \/ LinkDummy \/ LoadAgain \/ TakeLast

MpscNext ==
  \/ \E n \in Items : EnqueueExchange(n) \/ EnqueueLink(n)
  \/ Dequeue

\* A producer that has begun ends, and the consumer polls (WorldSocket::Update
\* is called for as long as the socket lives).
MpscSpec ==
  /\ MpscInit /\ [][MpscNext]_mpscVars
  /\ \A n \in Items : WF_mpscVars(EnqueueLink(n))
  /\ WF_mpscVars(Dequeue)

-----------------------------------------------------------------------------
(* Properties. *)

\* Every variable has its type.
QueueTypeOK ==
  /\ _head \in Nodes /\ _tail \in Nodes
  /\ link \in [Nodes -> Nodes \union {Null}]
  /\ state \in [Nodes -> {"new", "entering", "in", "freed"}]
  /\ prev \in [Nodes -> Nodes \union {Null}]
  /\ consumer \in {"idle", "tailNext", "skipDummy", "found", "enqueueDummy",
                   "linkDummy", "again", "take"}
  /\ tail \in Nodes \union {Null} /\ next \in Nodes \union {Null}
  /\ result \in Items \union {Null}
  /\ overlapped \in BOOLEAN

\* A node the consumer has deleted is touched by nobody: no Enqueue still has to
\* link through it, and neither the queue nor a Dequeue under way leads to it.
FreedUntouched ==
  \A n \in Items : state[n] = "freed" =>
    /\ n \notin {_head, _tail}
    /\ consumer # "idle" => n \notin {tail, next}
    /\ \A m \in Items : state[m] = "in" => link[m] # n
    /\ \A m \in Nodes : state[m] = "entering" => prev[m] # n

Fifo == INSTANCE MPSCFifo
          WITH NoItem <- Null, fifo <- Chain, enqueuing <- Entering,
               busy <- consumer # "idle", excused <- overlapped

\* Linked nodes, a dummy that comes and goes and producers stopped half-way
\* still make a first-in first-out queue.
ImplementsFifo == Fifo!Spec

\* What is enqueued is taken in the end, whoever else is enqueuing.
Drained == \A n \in Items : state[n] = "entering" ~> state[n] = "freed"
=============================================================================
