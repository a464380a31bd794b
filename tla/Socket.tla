------------------------------- MODULE Socket -------------------------------
(***************************************************************************)
(* One client connection: Trinity::Net::Socket (common/network/Socket.h)   *)
(* with the WorldSocket built on it and the network thread that updates    *)
(* it (NetworkThread.h).                                                   *)
(*                                                                         *)
(* A packet is sent by any thread into _bufferQueue; Update, on the        *)
(* network thread, packs packets into buffers, moves these to _writeQueue  *)
(* and writes them to the stream as far as the peer takes them.  The       *)
(* socket closes at once (CloseSocket) or when the write queue has become  *)
(* empty (DelayedCloseSocket), which the world thread may ask for too,     *)
(* without a lock.  Packets are numbered in the order they are sent;       *)
(* _bufferQueue is the first-in first-out queue MPSCQueue is shown to be.  *)
(***************************************************************************)
EXTENDS Integers, Sequences, SequencesExt

CONSTANTS
  MaxPackets,   \* bound: packets sent on the connection
  BufferSize    \* packets that fit a buffer of _sendBufferSize

ASSUME SocketAssumption ==
  /\ MaxPackets \in Nat /\ BufferSize \in Nat \ {0}

VARIABLES
  place,           \* of the socket: "new" (_newSockets), "added" (_sockets)
                   \* or "gone" from its network thread
  _connections,    \* of that thread
  _openState,
  bufferQueue, _writeQueue,
  _isWritingAsync, \* an async_wait for a writable stream is outstanding
  reading,         \* an async_read_some is outstanding
  net,             \* where the network thread is, with the loop it is in
  caller,          \* where the world thread is
  wire,            \* what the stream has accepted, for the peer to read
  broken,          \* the stream fails every operation from now on
  sent,            \* the packets sent so far
  asked            \* who asked for a delayed close: "nobody", "net", "caller"

ioVars == <<bufferQueue, _writeQueue, _isWritingAsync, wire, sent>>
socketVars == <<place, _connections, _openState, ioVars, reading, net, caller,
                broken, asked>>

SocketInit ==
  /\ place = "new" /\ _connections = 1
  /\ _openState = "Open"
  /\ bufferQueue = <<>> /\ _writeQueue = <<>> /\ _isWritingAsync = FALSE
  /\ reading = FALSE
  /\ net = "idle" /\ caller = "idle"
  /\ wire = <<>> /\ broken = FALSE /\ sent = 0
  /\ asked = "nobody"

IsOpen == _openState = "Open"

-----------------------------------------------------------------------------
(* Closing. *)

CloseSocket == _openState' = "Closed"

NotClosed == UNCHANGED _openState

Enqueue ==
  /\ sent < MaxPackets
  /\ sent' = sent + 1
  /\ bufferQueue' = Append(bufferQueue, sent + 1)

\* SendPacket on the network thread.
NetSends ==
  /\ net = "idle" /\ place = "added" /\ IsOpen
  /\ Enqueue
  /\ UNCHANGED <<place, _connections, _writeQueue, _isWritingAsync, reading, net,
                 caller, wire, broken, asked>>
  /\ NotClosed

\* A client is refused: SendAuthResponseError, then DelayedCloseSocket.  From
\* the callback of a query nothing is being read; from a packet handler,
\* ReadHandler goes on to CloseSocket.
NetRefuses ==
  /\ net = "idle" /\ place = "added" /\ IsOpen
  /\ Enqueue
  /\ \E fromQuery \in BOOLEAN :
       /\ IF fromQuery /\ _writeQueue # <<>>
          THEN _openState' = "Closing"
          ELSE CloseSocket
  /\ asked' = "net"
  /\ reading' = FALSE
  /\ UNCHANGED <<place, _connections, _writeQueue, _isWritingAsync, net, caller, wire, broken>>

\* The world thread sends: it has found the socket open and enqueues later.
WorldFindsOpen ==
  /\ caller = "idle" /\ place # "new" /\ IsOpen
  /\ caller' \in {"sending", "refusing"}
  /\ UNCHANGED <<place, _connections, ioVars, reading, net, broken, asked>>
  /\ NotClosed

WorldEnqueues ==
  /\ caller \in {"sending", "refusing"}
  /\ Enqueue
  /\ caller' = IF caller = "refusing" THEN "asking" ELSE "idle"
  /\ UNCHANGED <<place, _connections, _writeQueue, _isWritingAsync, reading, net, wire,
                 broken, asked>>
  /\ NotClosed

\* DelayedCloseSocket on the world thread: the exchange, the look at the write
\* queue, the close.
WorldMarksClosing ==
  /\ caller = "asking"
  /\ IF IsOpen
     THEN _openState' = "Closing" /\ asked' = "caller" /\ caller' = "looking"
     ELSE caller' = "idle" /\ UNCHANGED <<_openState, asked>>
  /\ UNCHANGED <<place, _connections, ioVars, reading, net, broken>>

WorldLooks ==
  /\ caller = "looking"
  /\ caller' = IF _writeQueue = <<>> THEN "closing" ELSE "idle"
  /\ UNCHANGED <<place, _connections, ioVars, reading, net, broken, asked>>
  /\ NotClosed

WorldCloses ==
  /\ caller = "closing"
  /\ CloseSocket
  /\ caller' = "idle"
  /\ UNCHANGED <<place, _connections, ioVars, reading, net, broken, asked>>

\* CloseSocket on the world thread without delay: a session is kicked.
WorldKicks ==
  /\ caller = "idle" /\ place # "new" /\ IsOpen
  /\ CloseSocket
  /\ UNCHANGED <<place, _connections, ioVars, reading, net, caller, broken, asked>>

-----------------------------------------------------------------------------
(* The network thread.  _connections and the two lists change together, so   *)
(* AddNewSockets is one step; the ban check that the socket starts with is   *)
(* answered in Update, after which the socket reads.                         *)

AddNewSocket ==
  /\ net = "idle" /\ place = "new"
  /\ IF IsOpen
     THEN place' = "added" /\ reading' = TRUE /\ UNCHANGED _connections
     ELSE place' = "gone" /\ _connections' = _connections - 1 /\ UNCHANGED reading
  /\ UNCHANGED <<ioVars, net, caller, broken, asked>>
  /\ NotClosed

\* Packets are packed into buffers in their order.
Packed(packets) ==
  [b \in 1 .. (Len(packets) + BufferSize - 1) \div BufferSize |->
     SubSeq(packets, (b - 1) * BufferSize + 1,
            IF b * BufferSize < Len(packets) THEN b * BufferSize ELSE Len(packets))]

\* WorldSocket::Update takes what has been sent.  Dequeue may come back
\* empty-handed before the end while another thread enqueues.
UpdateTakesPackets ==
  /\ net = "idle" /\ place = "added"
  /\ \E n \in 0 .. Len(bufferQueue) :
       /\ n < Len(bufferQueue) => caller \in {"sending", "refusing"}
       /\ _writeQueue' = _writeQueue \o Packed(SubSeq(bufferQueue, 1, n))
       /\ bufferQueue' = SubSeq(bufferQueue, n + 1, Len(bufferQueue))
  /\ net' = "update"
  /\ UNCHANGED <<place, _connections, _isWritingAsync, reading, caller, wire, broken, sent,
                 asked>>
  /\ NotClosed

\* Socket::Update finds the socket closed: it leaves the thread.
UpdateRemoves ==
  /\ net = "update" /\ _openState = "Closed"
  /\ place' = "gone" /\ _connections' = _connections - 1
  /\ net' = "idle"
  /\ UNCHANGED <<ioVars, reading, caller, broken, asked>>
  /\ NotClosed

UpdateWrites ==
  /\ net = "update" /\ _openState # "Closed"
  /\ net' = IF _isWritingAsync \/ (_writeQueue = <<>> /\ IsOpen) THEN "idle" ELSE "loop"
  /\ UNCHANGED <<place, _connections, ioVars, reading, caller, broken, asked>>
  /\ NotClosed

\* WriteHandlerWrapper, when the stream can be written or has failed.
AsyncWriteReady ==
  /\ net = "idle" /\ _isWritingAsync
  /\ _isWritingAsync' = FALSE
  /\ net' = "once"
  /\ UNCHANGED <<place, _connections, bufferQueue, _writeQueue, wire, sent, reading, caller,
                 broken, asked>>
  /\ NotClosed

\* HandleQueue.  write_some on a stream shut down or broken is an error, and
\* the buffer is popped.
InHandleQueue == net \in {"loop", "once"}
StreamFails == broken \/ _openState = "Closed"
Full(kind) == IF kind = "loop" THEN "loopDone" ELSE "lastDone"

HandleQueueEmpty ==
  /\ InHandleQueue /\ _writeQueue = <<>>
  /\ net' = "idle"
  /\ UNCHANGED <<place, _connections, ioVars, reading, caller, broken, asked>>
  /\ NotClosed

WriteWouldBlock ==
  /\ InHandleQueue /\ _writeQueue # <<>> /\ ~StreamFails
  /\ _isWritingAsync' = TRUE
  /\ net' = "idle"
  /\ UNCHANGED <<place, _connections, bufferQueue, _writeQueue, wire, sent, reading, caller,
                 broken, asked>>
  /\ NotClosed

WriteFails ==
  /\ InHandleQueue /\ _writeQueue # <<>> /\ StreamFails
  /\ net' = "lastDone"
  /\ UNCHANGED <<place, _connections, ioVars, reading, caller, broken, asked>>
  /\ NotClosed

\* Defect: after a partial write the whole buffer is written again.
RemainderIsAll(n) == _writeQueue

\* The write queue when n packets of its first buffer are written.
Remainder(n) ==
  <<SubSeq(Head(_writeQueue), n + 1, Len(Head(_writeQueue)))>> \o Tail(_writeQueue)

WriteSome ==
  /\ InHandleQueue /\ _writeQueue # <<>> /\ ~StreamFails
  /\ \E n \in 1 .. Len(Head(_writeQueue)) :
       /\ wire' = wire \o SubSeq(Head(_writeQueue), 1, n)
       /\ IF n < Len(Head(_writeQueue))
          THEN /\ _writeQueue' = Remainder(n)
               /\ _isWritingAsync' = TRUE
               /\ net' = "idle"
          ELSE /\ net' = Full(net)
               /\ UNCHANGED <<_writeQueue, _isWritingAsync>>
  /\ UNCHANGED <<place, _connections, bufferQueue, sent, reading, caller, broken, asked>>
  /\ NotClosed

\* QueuedBufferWriteDone: the buffer is popped, then the state is looked at.
PopBuffer ==
  /\ net \in {"loopDone", "lastDone"}
  /\ _writeQueue' = Tail(_writeQueue)
  /\ net' = IF net = "loopDone" THEN "loopCheck" ELSE "lastCheck"
  /\ UNCHANGED <<place, _connections, bufferQueue, _isWritingAsync, wire, sent, reading, caller,
                 broken, asked>>
  /\ NotClosed

After(kind, queue) == IF kind \in {"loopCheck", "loopLate"} /\ queue # <<>> THEN "loop" ELSE "idle"

\* Defect: the closing state is not looked at.
CheckNothing ==
  /\ net \in {"loopCheck", "lastCheck"}
  /\ net' = After(net, _writeQueue)
  /\ UNCHANGED <<place, _connections, ioVars, reading, caller, broken, asked>>
  /\ NotClosed

CheckClosing ==
  /\ net \in {"loopCheck", "lastCheck"}
  /\ IF _openState = "Closing" /\ _writeQueue = <<>> THEN CloseSocket ELSE NotClosed
  /\ net' = After(net, _writeQueue)
  /\ UNCHANGED <<place, _connections, ioVars, reading, caller, broken, asked>>

\* Nothing orders the plain stores of the pop before the load of _openState
\* for another thread: the world thread may still see the buffer when the
\* network thread has already found the socket open.
LoadStateEarly ==
  /\ net \in {"loopDone", "lastDone"} /\ IsOpen
  /\ net' = IF net = "loopDone" THEN "loopLate" ELSE "lastLate"
  /\ UNCHANGED <<place, _connections, ioVars, reading, caller, broken, asked>>
  /\ NotClosed

PopShowsLate ==
  /\ net \in {"loopLate", "lastLate"}
  /\ _writeQueue' = Tail(_writeQueue)
  /\ net' = After(net, Tail(_writeQueue))
  /\ UNCHANGED <<place, _connections, bufferQueue, _isWritingAsync, wire, sent, reading, caller,
                 broken, asked>>
  /\ NotClosed

\* ReadHandlerInternal: an error closes the socket; data that arrives when it
\* is no longer open ends the reading.
ReadFails ==
  /\ net = "idle" /\ reading
  /\ CloseSocket
  /\ reading' = FALSE
  /\ broken' \in {broken, TRUE}
  /\ UNCHANGED <<place, _connections, ioVars, net, caller, asked>>

ReadEnds ==
  /\ net = "idle" /\ reading /\ ~IsOpen
  /\ reading' = FALSE
  /\ UNCHANGED <<place, _connections, ioVars, net, caller, broken, asked>>
  /\ NotClosed

\* The peer goes away; writing fails from now on.
PeerLeaves ==
  /\ ~broken
  /\ broken' = TRUE
  /\ UNCHANGED <<place, _connections, ioVars, reading, net, caller, asked>>
  /\ NotClosed

-----------------------------------------------------------------------------
NetUpdate == AddNewSocket \/ UpdateTakesPackets
NetStep ==
  \/ UpdateRemoves \/ UpdateWrites
  \/ HandleQueueEmpty \/ WriteWouldBlock \/ WriteFails \/ WriteSome
  \/ PopBuffer \/ CheckClosing \/ PopShowsLate
WorldStep == WorldEnqueues \/ WorldMarksClosing \/ WorldLooks \/ WorldCloses

SocketNext ==
  \/ NetUpdate \/ NetStep \/ WorldStep \/ AsyncWriteReady \/ LoadStateEarly
  \/ NetSends \/ NetRefuses \/ WorldFindsOpen \/ WorldKicks
  \/ ReadFails \/ ReadEnds \/ PeerLeaves

\* The timer of Update and ready handlers take turns in the io_context; the
\* peer reads on, so that a stream does not stay full.
SocketFairness ==
  /\ WF_socketVars(NetStep) /\ WF_socketVars(WorldStep)
  /\ SF_socketVars(NetUpdate) /\ SF_socketVars(AsyncWriteReady)
  /\ SF_socketVars(WriteSome)

SocketSpec == SocketInit /\ [][SocketNext]_socketVars /\ SocketFairness

-----------------------------------------------------------------------------
NetPlaces ==
  {"idle", "update", "loop", "once", "loopDone", "lastDone", "loopCheck", "lastCheck",
   "loopLate", "lastLate"}

\* Types; the connections a network thread counts, by which the acceptor
\* chooses a thread, are the sockets it holds.
SocketTypeOK ==
  /\ place \in {"new", "added", "gone"}
  /\ _connections = (IF place = "gone" THEN 0 ELSE 1)
  /\ _openState \in {"Open", "Closing", "Closed"}
  /\ bufferQueue \in Seq(1 .. MaxPackets)
  /\ \A b \in 1 .. Len(_writeQueue) : Len(_writeQueue[b]) \in 1 .. BufferSize
  /\ {_isWritingAsync, reading, broken} \subseteq BOOLEAN
  /\ net \in NetPlaces
  /\ caller \in {"idle", "sending", "refusing", "asking", "looking", "closing"}
  /\ wire \in Seq(1 .. MaxPackets)
  /\ sent \in 0 .. MaxPackets
  /\ asked \in {"nobody", "net", "caller"}

\* What is written to the stream and popped next is not counted twice.
Unwritten ==
  IF net \in {"loopDone", "lastDone", "loopLate", "lastLate"} /\ ~StreamFails
  THEN Tail(_writeQueue) ELSE _writeQueue

\* As long as the socket is not closed and the stream works, what was sent is
\* in the stream or waits for it, once and in the order it was sent: packing,
\* partial writes and the two loops that write neither lose, repeat nor
\* reorder anything.
NothingLost ==
  _openState # "Closed" /\ ~broken =>
    wire \o FlattenSeq(Unwritten) \o bufferQueue = [i \in 1 .. sent |-> i]

\* A socket that is closed, or closing since the network thread asked for it,
\* leaves its network thread, whoever writes the last buffer.
ClosingSocketLeaves == (_openState # "Open" /\ asked # "caller") ~> (place = "gone")
=============================================================================
