------------------------ MODULE SessionPacketsProofs ------------------------
(***************************************************************************)
(* Theorems about SessionPackets for every set of kinds of packet, any     *)
(* limit of a pass and any number of packets.                              *)
(***************************************************************************)
EXTENDS SessionPackets, SequenceTheorems, TLAPS

-----------------------------------------------------------------------------
(* The inductive invariant. *)

Ascending(q) == \A i, j \in DOMAIN q : i < j => q[i] < q[j]

Below(S, T) == \A x \in S, y \in T : x < y

Waiting == {p \in DOMAIN kind : fate[p] = "waiting"}

\* What a client sends from its character screen only.
ForScreen == {"enum", "login"}

\* Both queues are in the order of arrival, the packets kept for later came
\* before those still in the queue, and together they are what waits.
QueuesInv ==
  /\ Ascending(requeue) /\ Ascending(recvQueue)
  /\ Below(ToSet(requeue), ToSet(recvQueue))
  /\ ToSet(requeue) \union ToSet(recvQueue) = Waiting

\* Packets are kept for later only within a pass, while there is no player,
\* and none of them was sent while there was one.
RequeueInv ==
  /\ requeue # <<>> => phase \in {"world", "map"} /\ player = "none"
  /\ \A p \in ToSet(requeue) : Status[kind[p]] = "LOGGEDIN" /\ stayOf[p] = 0

\* While a packet of the character screen waits, nothing sent after it came
\* from the world, and after a login no other of that screen is sent.
ScreenInv ==
  \A e \in Waiting : kind[e] \in ForScreen =>
    /\ player = "none" /\ loading = 0
    /\ \A q \in DOMAIN kind : q > e =>
         stayOf[q] = 0 /\ (kind[e] = "login" => kind[q] \notin ForScreen)

\* A packet that was sent in the world and waits was sent in this stay, or in
\* the last one, and then m_playerRecentlyLogout will have it dropped.
StayInv ==
  /\ loading # 0 => player = "none"
  /\ \A p \in Waiting : stayOf[p] # 0 =>
       loading = 0 /\ IF player = "none" THEN recentlyLogout ELSE stayOf[p] = stay

PacketInv ==
  /\ TypeOK /\ Len(kind) <= MaxPackets
  /\ QueuesInv /\ RequeueInv /\ ScreenInv /\ StayInv

-----------------------------------------------------------------------------
(* Queues in the order of arrival. *)

\* Taking the front of a queue leaves the later ones.
LEMMA FrontLeaves ==
  ASSUME NEW n \in Nat, NEW q \in Seq(1..n), q # <<>>, Ascending(q)
  PROVE  /\ Tail(q) \in Seq(1..n) /\ Ascending(Tail(q))
         /\ Head(q) \in 1..n /\ Head(q) \in ToSet(q)
         /\ ToSet(Tail(q)) = ToSet(q) \ {Head(q)}
         /\ \A x \in ToSet(q) : x = Head(q) \/ Head(q) < x
<1>1. Len(q) \in Nat \ {0} /\ DOMAIN q = 1..Len(q) /\ q[1] = Head(q)
  OBVIOUS
<1>2. /\ Tail(q) \in Seq(1..n) /\ DOMAIN Tail(q) = 1..(Len(q) - 1)
      /\ \A i \in 1..(Len(q) - 1) : Tail(q)[i] = q[i + 1]
  BY <1>1
<1>3. \A i \in DOMAIN q : q[i] \in 1..n
  BY <1>1
<1>4. Ascending(Tail(q))
  BY <1>1, <1>2 DEF Ascending
<1>5. \A i \in DOMAIN q : i = 1 \/ (i - 1 \in DOMAIN Tail(q) /\ Tail(q)[i - 1] = q[i] /\ q[1] < q[i])
  BY <1>1, <1>2 DEF Ascending
<1>6. \A i \in DOMAIN Tail(q) : i + 1 \in DOMAIN q /\ Tail(q)[i] = q[i + 1] /\ q[1] < q[i + 1]
  BY <1>1, <1>2 DEF Ascending
<1>7. ToSet(q) = {q[i] : i \in DOMAIN q} /\ ToSet(Tail(q)) = {Tail(q)[i] : i \in DOMAIN Tail(q)}
  BY DEF ToSet
<1>8. ToSet(Tail(q)) \subseteq ToSet(q) \ {Head(q)}
  BY <1>1, <1>3, <1>6, <1>7
<1>9. ToSet(q) \ {Head(q)} \subseteq ToSet(Tail(q))
  BY <1>1, <1>5, <1>7
<1>10. Head(q) \in 1..n /\ Head(q) \in ToSet(q)
  BY <1>1, <1>7
<1>11. \A x \in ToSet(q) : x = Head(q) \/ Head(q) < x
  BY <1>1, <1>5, <1>7
<1>12. ToSet(Tail(q)) = ToSet(q) \ {Head(q)}
  BY <1>8, <1>9
<1> QED
  BY <1>2, <1>4, <1>10, <1>11, <1>12

\* A later one can go behind the queue.
LEMMA BehindAscends ==
  ASSUME NEW n \in Nat, NEW q \in Seq(1..n), Ascending(q), NEW x \in 1..n,
         \A y \in ToSet(q) : y < x
  PROVE  /\ Append(q, x) \in Seq(1..n) /\ Ascending(Append(q, x))
         /\ ToSet(Append(q, x)) = ToSet(q) \union {x}
<1>1. /\ Append(q, x) \in Seq(1..n) /\ Len(q) \in Nat /\ DOMAIN q = 1..Len(q)
      /\ DOMAIN Append(q, x) = 1..(Len(q) + 1)
      /\ Append(q, x)[Len(q) + 1] = x
      /\ \A i \in 1..Len(q) : Append(q, x)[i] = q[i]
  OBVIOUS
<1>2. \A i \in DOMAIN q : q[i] < x
  BY DEF ToSet
<1>3. \A i \in 1..(Len(q) + 1) : i \in 1..Len(q) \/ i = Len(q) + 1
  BY <1>1
<1>4. Ascending(Append(q, x))
  <2> SUFFICES ASSUME NEW i \in 1..(Len(q) + 1), NEW j \in 1..(Len(q) + 1), i < j
               PROVE  Append(q, x)[i] < Append(q, x)[j]
    BY <1>1 DEF Ascending
  <2>1. i \in 1..Len(q)
    BY <1>1
  <2>2. CASE j \in 1..Len(q)
    BY <1>1, <2>1, <2>2 DEF Ascending
  <2>3. CASE j = Len(q) + 1
    BY <1>1, <1>2, <2>1, <2>3
  <2> QED
    BY <1>3, <2>2, <2>3
<1>5. ToSet(Append(q, x)) = {Append(q, x)[i] : i \in 1..(Len(q) + 1)} /\ ToSet(q) = {q[i] : i \in 1..Len(q)}
  BY <1>1 DEF ToSet
<1>6. Len(q) + 1 \in 1..(Len(q) + 1) /\ \A i \in 1..Len(q) : i \in 1..(Len(q) + 1)
  BY <1>1
<1>7. ToSet(Append(q, x)) = ToSet(q) \union {x}
  BY <1>1, <1>3, <1>5, <1>6
<1> QED
  BY <1>1, <1>4, <1>7

\* An earlier queue can go before a later one.
LEMMA JoinAscends ==
  ASSUME NEW n \in Nat, NEW q \in Seq(1..n), NEW r \in Seq(1..n),
         Ascending(q), Ascending(r), Below(ToSet(q), ToSet(r))
  PROVE  /\ q \o r \in Seq(1..n) /\ Ascending(q \o r)
         /\ ToSet(q \o r) = ToSet(q) \union ToSet(r)
<1> DEFINE k == Len(q)
           l == Len(r)
           j == q \o r
<1>1. /\ k \in Nat /\ l \in Nat /\ DOMAIN q = 1..k /\ DOMAIN r = 1..l
      /\ j \in Seq(1..n) /\ DOMAIN j = 1..(k + l)
      /\ \A i \in 1..(k + l) : j[i] = IF i <= k THEN q[i] ELSE r[i - k]
  OBVIOUS
<1>2. \A i \in 1..k, m \in 1..l : q[i] < r[m]
  BY <1>1 DEF Below, ToSet
<1>3. /\ \A i, m \in 1..k : i < m => q[i] < q[m]
      /\ \A i, m \in 1..l : i < m => r[i] < r[m]
  BY <1>1 DEF Ascending
<1>4. ToSet(q) = {q[i] : i \in 1..k} /\ ToSet(r) = {r[i] : i \in 1..l} /\ ToSet(j) = {j[i] : i \in 1..(k + l)}
  BY <1>1 DEF ToSet
<1> HIDE DEF k, l, j
<1>5. ASSUME NEW i \in 1..(k + l), NEW m \in 1..(k + l), i < m PROVE j[i] < j[m]
  <2>1. CASE m <= k
    BY <1>1, <1>3, <1>5, <2>1
  <2>2. CASE i <= k /\ ~(m <= k)
    <3>1. m - k \in 1..l /\ i \in 1..k
      BY <1>1, <2>2
    <3> QED
      BY <1>1, <1>2, <2>2, <3>1
  <2>3. CASE ~(i <= k)
    <3>1. m - k \in 1..l /\ i - k \in 1..l /\ i - k < m - k /\ ~(m <= k)
      BY <1>1, <1>5, <2>3
    <3> QED
      BY <1>1, <1>3, <2>3, <3>1
  <2> QED
    BY <1>1, <2>1, <2>2, <2>3
<1>6. Ascending(j)
  BY <1>1, <1>5 DEF Ascending
<1>7. \A i \in 1..k : i \in 1..(k + l) /\ j[i] = q[i]
  BY <1>1
<1>8. ASSUME NEW i \in 1..l PROVE i + k \in 1..(k + l) /\ j[i + k] = r[i]
  <2>1. i + k \in 1..(k + l) /\ ~(i + k <= k) /\ (i + k) - k = i
    BY <1>1
  <2> QED
    BY <1>1, <2>1
<1>9. \A i \in 1..(k + l) : i \in 1..k \/ i - k \in 1..l
  BY <1>1
<1>10. ToSet(j) \subseteq ToSet(q) \union ToSet(r)
  BY <1>1, <1>4, <1>9
<1>11. ToSet(q) \subseteq ToSet(j)
  BY <1>4, <1>7
<1>12. ToSet(r) \subseteq ToSet(j)
  BY <1>4, <1>8
<1> QED
  BY <1>1, <1>6, <1>10, <1>11, <1>12 DEF j

\* A queue in the order of arrival holds nothing twice.
LEMMA AscendingIsInjective ==
  ASSUME NEW n \in Nat, NEW q \in Seq(1..n), Ascending(q)
  PROVE  IsInjective(q)
<1>1. \A i, j \in DOMAIN q : q[i] = q[j] => i = j
  <2> SUFFICES ASSUME NEW i \in DOMAIN q, NEW j \in DOMAIN q, q[i] = q[j], i # j PROVE FALSE
    OBVIOUS
  <2>1. DOMAIN q = 1..Len(q) /\ Len(q) \in Nat /\ q[i] \in Nat /\ q[j] \in Nat
    OBVIOUS
  <2>2. i < j \/ j < i
    BY <2>1
  <2> QED
    BY <2>1, <2>2 DEF Ascending
<1> QED
  BY <1>1 DEF IsInjective

\* g is f with e at its end.
Grows(f, g, n, T, e) ==
  /\ g \in [1..(n + 1) -> T] /\ g[n + 1] = e
  /\ \A p \in 1..n : g[p] = f[p]

\* A function on 1..n is a sequence, and grows at its end.
LEMMA OneMore ==
  ASSUME NEW T, NEW n \in Nat, NEW f \in [1..n -> T], NEW e \in T
  PROVE  Grows(f, Append(f, e), n, T, e)
<1>1. f \in Seq(T)
  BY SeqDef
<1>2. Len(f) = n
  BY <1>1, LenProperties
<1>3. /\ Append(f, e) \in Seq(T) /\ Len(Append(f, e)) = n + 1
      /\ Append(f, e)[n + 1] = e /\ \A p \in 1..n : Append(f, e)[p] = f[p]
  BY <1>1, <1>2
<1>4. Append(f, e) \in [1..(n + 1) -> T]
  BY <1>3, LenProperties
<1> QED
  BY <1>3, <1>4 DEF Grows

\* The elements of a sequence are where its elements are.
LEMMA ElementsOf ==
  ASSUME NEW T, NEW q \in Seq(T)
  PROVE  ToSet(q) \subseteq T /\ (q = <<>> <=> ToSet(q) = {})
<1>1. q # <<>> => 1 \in DOMAIN q
  OBVIOUS
<1>2. ToSet(q) = {q[i] : i \in DOMAIN q} /\ \A i \in DOMAIN q : q[i] \in T
  BY DEF ToSet
<1>3. q = <<>> => DOMAIN q = {}
  OBVIOUS
<1> QED
  BY <1>1, <1>2, <1>3

-----------------------------------------------------------------------------
(* What the steps do to the packets. *)

\* Packets are numbered from 1 to Len(kind).
LEMMA Numbers ==
  ASSUME PacketInv
  PROVE  /\ Len(kind) \in Nat /\ DOMAIN kind = 1..Len(kind)
         /\ recvQueue \in Seq(1..Len(kind)) /\ requeue \in Seq(1..Len(kind))
         /\ Waiting \subseteq 1..Len(kind)
         /\ \A p \in 1..Len(kind) : kind[p] \in Kinds
<1>1. kind \in Seq(Kinds) /\ Len(kind) \in Nat /\ DOMAIN kind = 1..Len(kind)
  BY DEF PacketInv, TypeOK
<1> QED
  BY <1>1 DEF PacketInv, TypeOK, Waiting

\* What is taken off the queue, and what is left.
LEMMA FrontTaken ==
  ASSUME PacketInv, recvQueue # <<>>
  PROVE  /\ Head(recvQueue) \in 1..Len(kind) /\ Head(recvQueue) \in Waiting
         /\ Head(recvQueue) \notin ToSet(requeue)
         /\ Tail(recvQueue) \in Seq(1..Len(kind)) /\ Ascending(Tail(recvQueue))
         /\ ToSet(Tail(recvQueue)) = ToSet(recvQueue) \ {Head(recvQueue)}
         /\ \A p \in Waiting : p < Head(recvQueue) => p \in ToSet(requeue)
         /\ \A p \in ToSet(recvQueue) : p = Head(recvQueue) \/ Head(recvQueue) < p
         /\ \A p \in ToSet(requeue) : p < Head(recvQueue)
<1> DEFINE n == Len(kind)
           h == Head(recvQueue)
<1>1. n \in Nat /\ recvQueue \in Seq(1..n) /\ requeue \in Seq(1..n) /\ Ascending(recvQueue)
  BY Numbers DEF PacketInv, QueuesInv
<1> HIDE DEF n
<1>2. /\ Tail(recvQueue) \in Seq(1..n) /\ Ascending(Tail(recvQueue))
      /\ h \in 1..n /\ h \in ToSet(recvQueue)
      /\ ToSet(Tail(recvQueue)) = ToSet(recvQueue) \ {h}
      /\ \A x \in ToSet(recvQueue) : x = h \/ h < x
  BY <1>1, FrontLeaves
<1>3. ToSet(requeue) \subseteq 1..n /\ ToSet(recvQueue) \subseteq 1..n
  BY <1>1, ElementsOf
<1>4. Below(ToSet(requeue), ToSet(recvQueue)) /\ ToSet(requeue) \union ToSet(recvQueue) = Waiting
  BY DEF PacketInv, QueuesInv
<1>5. h \in Waiting /\ \A p \in ToSet(requeue) : p < h
  BY <1>2, <1>4 DEF Below
<1>6. h \notin ToSet(requeue)
  BY <1>2, <1>3, <1>5
<1>7. \A p \in Waiting : p < h => p \in ToSet(requeue)
  <2> SUFFICES ASSUME NEW p \in Waiting, p < h, p \in ToSet(recvQueue) PROVE FALSE
    BY <1>4
  <2>1. (p = h \/ h < p) /\ p \in 1..n /\ h \in 1..n
    BY <1>2, <1>3
  <2> QED
    BY <1>1, <2>1
<1> QED
  BY <1>2, <1>5, <1>6, <1>7 DEF n

\* A packet that is dealt with waits no more, and the order is kept.
LEMMA Consumed ==
  ASSUME PacketInv, Takes, NEW outcome \in {"called", "dropped"}, Consumes(outcome)
  PROVE  /\ recvQueue' \in Seq(DOMAIN kind') /\ requeue' \in Seq(DOMAIN kind')
         /\ kind' = kind /\ stayOf' = stayOf /\ requeue' = requeue /\ phase' = phase
         /\ fate' \in [DOMAIN kind' -> {"waiting", "called", "dropped"}]
         /\ Waiting' = Waiting \ {Head(recvQueue)}
         /\ QueuesInv'
<1> DEFINE h == Head(recvQueue)
<1>1. /\ recvQueue' = Tail(recvQueue) /\ requeue' = requeue /\ kind' = kind
      /\ stayOf' = stayOf /\ phase' = phase
      /\ fate' = [fate EXCEPT ![h] = outcome] /\ recvQueue # <<>>
  BY DEF Consumes, Takes
<1>2. /\ Len(kind) \in Nat /\ DOMAIN kind = 1..Len(kind) /\ requeue \in Seq(1..Len(kind))
      /\ fate \in [DOMAIN kind -> {"waiting", "called", "dropped"}]
  BY Numbers DEF PacketInv, TypeOK
<1>3. /\ h \in 1..Len(kind) /\ h \notin ToSet(requeue)
      /\ Tail(recvQueue) \in Seq(1..Len(kind)) /\ Ascending(Tail(recvQueue))
      /\ ToSet(Tail(recvQueue)) = ToSet(recvQueue) \ {h}
  BY <1>1, FrontTaken
<1>4. fate' \in [DOMAIN kind -> {"waiting", "called", "dropped"}]
  BY <1>1, <1>2, <1>3
<1>5. Waiting' = Waiting \ {h}
  BY <1>1, <1>2, <1>3 DEF Waiting
<1>6. /\ Ascending(requeue) /\ Below(ToSet(requeue), ToSet(recvQueue))
      /\ ToSet(requeue) \union ToSet(recvQueue) = Waiting
  BY DEF PacketInv, QueuesInv
<1>7. Below(ToSet(requeue), ToSet(Tail(recvQueue)))
  BY <1>3, <1>6 DEF Below
<1>8. ToSet(requeue) \union ToSet(Tail(recvQueue)) = Waiting \ {h}
  BY <1>3, <1>6
<1>9. Ascending(requeue)' /\ Ascending(recvQueue)' /\ Below(ToSet(requeue), ToSet(recvQueue))'
  BY <1>1, <1>3, <1>6, <1>7
<1>10. (ToSet(requeue) \union ToSet(recvQueue) = Waiting)'
  BY <1>1, <1>5, <1>8
<1> QED
  BY <1>1, <1>2, <1>3, <1>4, <1>5, <1>9, <1>10 DEF QueuesInv

\* A packet kept for later goes behind those kept before it.
LEMMA Requeued ==
  ASSUME PacketInv, PacketRequeued
  PROVE  /\ recvQueue' \in Seq(DOMAIN kind') /\ requeue' \in Seq(DOMAIN kind')
         /\ ToSet(requeue') = ToSet(requeue) \union {Head(recvQueue)}
         /\ Waiting' = Waiting /\ QueuesInv'
<1> DEFINE h == Head(recvQueue)
<1>1. /\ recvQueue' = Tail(recvQueue) /\ requeue' = Append(requeue, h)
      /\ kind' = kind /\ fate' = fate /\ recvQueue # <<>>
  BY DEF PacketRequeued, Takes
<1>2. Len(kind) \in Nat /\ DOMAIN kind = 1..Len(kind) /\ requeue \in Seq(1..Len(kind))
  BY Numbers
<1>3. /\ h \in 1..Len(kind) /\ h \in Waiting
      /\ Tail(recvQueue) \in Seq(1..Len(kind)) /\ Ascending(Tail(recvQueue))
      /\ ToSet(Tail(recvQueue)) = ToSet(recvQueue) \ {h}
      /\ \A p \in ToSet(requeue) : p < h
      /\ \A p \in ToSet(recvQueue) : p = h \/ h < p
  BY <1>1, FrontTaken
<1>4. /\ Ascending(requeue) /\ Below(ToSet(requeue), ToSet(recvQueue))
      /\ ToSet(requeue) \union ToSet(recvQueue) = Waiting
  BY DEF PacketInv, QueuesInv
<1>5. /\ Append(requeue, h) \in Seq(1..Len(kind)) /\ Ascending(Append(requeue, h))
      /\ ToSet(Append(requeue, h)) = ToSet(requeue) \union {h}
  BY <1>2, <1>3, <1>4, BehindAscends
<1>6. Below(ToSet(requeue) \union {h}, ToSet(recvQueue) \ {h})
  BY <1>3, <1>4 DEF Below
<1>7. (ToSet(requeue) \union {h}) \union (ToSet(recvQueue) \ {h}) = Waiting
  BY <1>3, <1>4
<1>8. Waiting' = Waiting
  BY <1>1 DEF Waiting
<1>9. ToSet(recvQueue') = ToSet(recvQueue) \ {h} /\ ToSet(requeue') = ToSet(requeue) \union {h}
  BY <1>1, <1>3, <1>5
<1>10. Below(ToSet(requeue), ToSet(recvQueue))' /\ (ToSet(requeue) \union ToSet(recvQueue) = Waiting)'
  BY <1>6, <1>7, <1>8, <1>9
<1>11. Ascending(requeue)' /\ Ascending(recvQueue)'
  BY <1>1, <1>3, <1>5
<1> QED
  BY <1>1, <1>2, <1>3, <1>5, <1>8, <1>9, <1>10, <1>11 DEF QueuesInv

\* LockedQueue::readd puts what was kept for later before what came since.
LEMMA Readded ==
  ASSUME PacketInv, PassEnds
  PROVE  /\ recvQueue' \in Seq(DOMAIN kind') /\ requeue' \in Seq(DOMAIN kind')
         /\ requeue' = <<>> /\ ToSet(requeue') = {} /\ Waiting' = Waiting /\ QueuesInv'
<1> DEFINE n == Len(kind)
<1>1. /\ recvQueue' = requeue \o recvQueue /\ requeue' = <<>> /\ kind' = kind /\ fate' = fate
  BY DEF PassEnds, PassOver
<1>2. n \in Nat /\ DOMAIN kind = 1..n /\ requeue \in Seq(1..n) /\ recvQueue \in Seq(1..n)
  BY Numbers
<1>3. /\ Ascending(requeue) /\ Ascending(recvQueue) /\ Below(ToSet(requeue), ToSet(recvQueue))
      /\ ToSet(requeue) \union ToSet(recvQueue) = Waiting
  BY DEF PacketInv, QueuesInv
<1> HIDE DEF n
<1>4. /\ requeue \o recvQueue \in Seq(1..n) /\ Ascending(requeue \o recvQueue)
      /\ ToSet(requeue \o recvQueue) = ToSet(requeue) \union ToSet(recvQueue)
  BY <1>2, <1>3, JoinAscends
<1>5. <<>> \in Seq(1..n) /\ ToSet(<<>>) = {}
  <2>1. <<>> \in Seq(1..n) /\ DOMAIN <<>> = {}
    OBVIOUS
  <2> QED
    BY <2>1 DEF ToSet
<1>6. Ascending(<<>>) /\ Below({}, Waiting)
  BY DEF Ascending, Below
<1>7. Waiting' = Waiting
  BY <1>1 DEF Waiting
<1>8. ToSet(requeue') = {} /\ ToSet(recvQueue') = Waiting'
  BY <1>1, <1>3, <1>4, <1>5, <1>7
<1>9. Below(ToSet(requeue), ToSet(recvQueue))' /\ (ToSet(requeue) \union ToSet(recvQueue) = Waiting)'
  BY <1>6, <1>7, <1>8
<1>10. Ascending(requeue)' /\ Ascending(recvQueue)'
  BY <1>1, <1>4, <1>6
<1> QED
  BY <1>1, <1>2, <1>4, <1>5, <1>7, <1>8, <1>9, <1>10 DEF QueuesInv

\* A new packet goes behind all that came before it.
LEMMA Received ==
  ASSUME PacketInv, NEW k \in Kinds, QueuePacket(k)
  PROVE  /\ kind' \in Seq(Kinds) /\ Len(kind') = Len(kind) + 1 /\ Len(kind') <= MaxPackets
         /\ DOMAIN kind' = 1..(Len(kind) + 1)
         /\ recvQueue' \in Seq(DOMAIN kind') /\ requeue' \in Seq(DOMAIN kind')
         /\ fate' \in [DOMAIN kind' -> {"waiting", "called", "dropped"}]
         /\ stayOf' \in [DOMAIN kind' -> 0..MaxPackets]
         /\ Waiting' = Waiting \union {Len(kind) + 1} /\ QueuesInv'
         /\ kind'[Len(kind) + 1] = k
         /\ stayOf'[Len(kind) + 1] = IF player = "none" THEN 0 ELSE stay
         /\ \A p \in 1..Len(kind) : kind'[p] = kind[p] /\ stayOf'[p] = stayOf[p]
<1> DEFINE n == Len(kind)
           m == Len(kind) + 1
           Outcomes == {"waiting", "called", "dropped"}
<1>1. /\ n < MaxPackets /\ kind' = Append(kind, k) /\ fate' = Append(fate, "waiting")
      /\ stayOf' = Append(stayOf, IF player = "none" THEN 0 ELSE stay)
      /\ recvQueue' = Append(recvQueue, m) /\ requeue' = requeue
  BY DEF QueuePacket
<1>2. /\ kind \in Seq(Kinds) /\ n \in Nat /\ DOMAIN kind = 1..n /\ MaxPackets \in Nat
      /\ fate \in [1..n -> Outcomes] /\ stayOf \in [1..n -> 0..MaxPackets] /\ stay \in 0..MaxPackets
      /\ recvQueue \in Seq(1..n) /\ requeue \in Seq(1..n)
  BY Numbers, PacketsAssumption DEF PacketInv, TypeOK
<1>3. /\ kind' \in Seq(Kinds) /\ Len(kind') = m /\ DOMAIN kind' = 1..m /\ kind'[m] = k
      /\ \A p \in 1..n : kind'[p] = kind[p]
  BY <1>1, <1>2
<1>5. /\ fate' \in [1..m -> Outcomes] /\ fate'[m] = "waiting"
      /\ \A p \in 1..n : fate'[p] = fate[p]
  <2>1. "waiting" \in Outcomes
    OBVIOUS
  <2> HIDE DEF Outcomes, n
  <2> QED
    <3>1. n \in Nat /\ fate \in [1..n -> Outcomes] /\ m = n + 1 /\ fate' = Append(fate, "waiting")
      BY <1>1, <1>2 DEF n
    <3> HIDE DEF m
    <3>2. Grows(fate, fate', n, Outcomes, "waiting")
      BY <2>1, <3>1, OneMore
    <3> QED
      BY <3>1, <3>2 DEF Grows
<1>6. /\ stayOf' \in [1..m -> 0..MaxPackets]
      /\ stayOf'[m] = IF player = "none" THEN 0 ELSE stay
      /\ \A p \in 1..n : stayOf'[p] = stayOf[p]
  <2> DEFINE e == IF player = "none" THEN 0 ELSE stay
  <2>1. e \in 0..MaxPackets /\ stayOf' = Append(stayOf, e)
    BY <1>1, <1>2
  <2> HIDE DEF e, n
  <2>2. stayOf' \in [1..m -> 0..MaxPackets] /\ stayOf'[m] = e
        /\ \A p \in 1..n : stayOf'[p] = stayOf[p]
    <3>1. n \in Nat /\ stayOf \in [1..n -> 0..MaxPackets] /\ m = n + 1
      BY <1>2 DEF n
    <3> HIDE DEF m
    <3>2. Grows(stayOf, stayOf', n, 0..MaxPackets, e)
      BY <2>1, <3>1, OneMore
    <3> QED
      BY <3>1, <3>2 DEF Grows
  <2> QED
    BY <2>2 DEF e
<1>7. Waiting' = Waiting \union {m}
  <2>1. Waiting' = {p \in 1..m : fate'[p] = "waiting"} /\ Waiting = {p \in 1..n : fate[p] = "waiting"}
    BY <1>2, <1>3 DEF Waiting
  <2>2. \A p \in 1..m : p \in 1..n \/ p = m
    BY <1>2
  <2>3. m \in 1..m /\ \A p \in 1..n : p \in 1..m
    BY <1>2
  <2> QED
    BY <1>5, <2>1, <2>2, <2>3
<1>8. m \in 1..m /\ recvQueue \in Seq(1..m) /\ requeue \in Seq(1..m) /\ m \in Nat
  BY <1>2
<1>9. /\ Ascending(requeue) /\ Ascending(recvQueue) /\ Below(ToSet(requeue), ToSet(recvQueue))
      /\ ToSet(requeue) \union ToSet(recvQueue) = Waiting
  BY DEF PacketInv, QueuesInv
<1>10. \A p \in ToSet(requeue) \union ToSet(recvQueue) : p < m
  <2>1. ToSet(requeue) \subseteq 1..n /\ ToSet(recvQueue) \subseteq 1..n
    BY <1>2, ElementsOf
  <2> QED
    BY <1>2, <2>1
<1> HIDE DEF m, n
<1>11. /\ Append(recvQueue, m) \in Seq(1..m) /\ Ascending(Append(recvQueue, m))
       /\ ToSet(Append(recvQueue, m)) = ToSet(recvQueue) \union {m}
  BY <1>8, <1>9, <1>10, BehindAscends
<1>12. Below(ToSet(requeue), ToSet(recvQueue) \union {m})
  BY <1>9, <1>10 DEF Below
<1>13. ToSet(requeue') = ToSet(requeue) /\ ToSet(recvQueue') = ToSet(recvQueue) \union {m}
  BY <1>1, <1>11
<1>14. ToSet(requeue) \union (ToSet(recvQueue) \union {m}) = Waiting \union {m}
  BY <1>9
<1>15. Below(ToSet(requeue), ToSet(recvQueue))' /\ (ToSet(requeue) \union ToSet(recvQueue) = Waiting)'
  BY <1>7, <1>12, <1>13, <1>14
<1>16. Ascending(requeue)' /\ Ascending(recvQueue)'
  BY <1>1, <1>9, <1>11
<1>17. QueuesInv'
  BY <1>15, <1>16 DEF QueuesInv
<1>18. Len(kind') <= MaxPackets
  BY <1>1, <1>2, <1>3 DEF m, n
<1> QED
  BY <1>1, <1>3, <1>5, <1>6, <1>7, <1>8, <1>11, <1>17, <1>18 DEF m, n

-----------------------------------------------------------------------------
(* The steps preserve the invariant. *)

\* The invariant of what the packets wait for, as far as they are the same or
\* fewer: nothing that matters to those left has changed.
LEMMA FewerWait ==
  ASSUME PacketInv, Waiting' \subseteq Waiting, kind' = kind, stayOf' = stayOf,
         UNCHANGED <<player, stay, loading>>,
         recentlyLogout' = recentlyLogout \/ (\A p \in Waiting' : stayOf[p] = 0)
  PROVE  ScreenInv' /\ StayInv'
<1>1. ScreenInv /\ StayInv
  BY DEF PacketInv
<1>2. ScreenInv'
  BY <1>1 DEF ScreenInv
<1>3. StayInv'
  BY <1>1 DEF StayInv
<1> QED
  BY <1>2, <1>3

\* Once the front is not for the player who is missing, nothing is kept for
\* later that came before it.
LEMMA PlayerHere ==
  ASSUME PacketInv, NEW k \in Kinds, Handles(k), Status[k] = "LOGGEDIN"
  PROVE  /\ player = "world" /\ requeue = <<>> /\ loading = 0
         /\ \A e \in Waiting : kind[e] \notin ForScreen
<1>1. player \in {"none", "world", "transfer"} /\ RequeueInv /\ ScreenInv /\ StayInv
  BY DEF PacketInv, TypeOK
<1>2. player = "world"
  BY <1>1 DEF Handles, Unexpected, TooEarly
<1> QED
  BY <1>1, <1>2 DEF RequeueInv, ScreenInv, StayInv

\* A step that leaves the packets alone leaves the queues as they are.
LEMMA PacketsStay ==
  ASSUME PacketInv, UNCHANGED packetVars
  PROVE  /\ Waiting' = Waiting /\ QueuesInv' /\ Len(kind') <= MaxPackets
         /\ kind' = kind /\ stayOf' = stayOf /\ requeue' = requeue /\ fate' = fate
         /\ recvQueue' = recvQueue
  BY DEF PacketInv, packetVars, Waiting, QueuesInv

\* QueuePacket
LEMMA ReceivingKeeps ==
  ASSUME PacketInv, NEW k \in Kinds, QueuePacket(k) PROVE PacketInv'
<1> DEFINE n == Len(kind)
           m == Len(kind) + 1
<1>1. /\ kind' \in Seq(Kinds) /\ Len(kind') <= MaxPackets /\ DOMAIN kind' = 1..m
      /\ recvQueue' \in Seq(DOMAIN kind') /\ requeue' \in Seq(DOMAIN kind')
      /\ fate' \in [DOMAIN kind' -> {"waiting", "called", "dropped"}]
      /\ stayOf' \in [DOMAIN kind' -> 0..MaxPackets]
      /\ Waiting' = Waiting \union {m} /\ QueuesInv'
      /\ kind'[m] = k /\ stayOf'[m] = IF player = "none" THEN 0 ELSE stay
      /\ \A p \in 1..n : kind'[p] = kind[p] /\ stayOf'[p] = stayOf[p]
  BY Received
<1>2. /\ k \notin ForScreen \/ AtCharacterScreen
      /\ requeue' = requeue /\ UNCHANGED <<processed, phase, player, stay, loading, recentlyLogout, inQueue>>
  BY DEF QueuePacket, ForScreen, playerVars
<1>3. /\ n \in Nat /\ DOMAIN kind = 1..n /\ Waiting \subseteq 1..n /\ requeue \in Seq(1..n)
  BY Numbers
<1>4. TypeOK'
  BY <1>1, <1>2 DEF PacketInv, TypeOK
<1>5. RequeueInv'
  <2>1. ToSet(requeue) \subseteq 1..n
    BY <1>3, ElementsOf
  <2>2. RequeueInv
    BY DEF PacketInv
  <2> QED
    BY <1>1, <1>2, <2>1, <2>2 DEF RequeueInv
<1>6. ScreenInv'
  <2> SUFFICES ASSUME NEW e \in Waiting', kind'[e] \in ForScreen
               PROVE  /\ player = "none" /\ loading = 0
                      /\ \A q \in 1..m : q > e =>
                           stayOf'[q] = 0 /\ (kind'[e] = "login" => kind'[q] \notin ForScreen)
    BY <1>1, <1>2 DEF ScreenInv
  <2>1. CASE e = m
    <3>1. AtCharacterScreen
      BY <1>1, <1>2, <2>1
    <3>2. \A q \in 1..m : ~(q > e)
      BY <1>3, <2>1
    <3> QED
      BY <3>1, <3>2 DEF AtCharacterScreen
  <2>2. CASE e \in Waiting
    <3>1. e \in 1..n /\ kind'[e] = kind[e]
      BY <1>1, <1>3, <2>2
    <3>2. /\ player = "none" /\ loading = 0
          /\ \A q \in 1..n : q > e => stayOf[q] = 0 /\ (kind[e] = "login" => kind[q] \notin ForScreen)
      BY <1>3, <2>2, <3>1 DEF PacketInv, ScreenInv
    <3>3. kind[e] = "login" => k \notin ForScreen
      BY <1>2, <2>2, <3>1 DEF AtCharacterScreen, Waiting
    <3>4. \A q \in 1..m : q = m \/ q \in 1..n
      BY <1>3
    <3> HIDE DEF m
    <3> QED
      BY <1>1, <3>1, <3>2, <3>3, <3>4
  <2> QED
    BY <1>1, <2>1, <2>2
<1>7. StayInv'
  <2>1. StayInv
    BY DEF PacketInv
  <2>2. loading # 0 => player = "none"
    BY <2>1 DEF StayInv
  <2>3. \A p \in Waiting : p \in 1..n /\ stayOf'[p] = stayOf[p]
    BY <1>1, <1>3
  <2> QED
    BY <1>1, <1>2, <2>1, <2>2, <2>3 DEF StayInv
<1> QED
  BY <1>1, <1>4, <1>5, <1>6, <1>7 DEF PacketInv

\* The passes begin and end between the updates of the maps and the session.
LEMMA PhasesKeep ==
  ASSUME PacketInv, WorldPass \/ MapPass \/ MapPassSkipped \/ UpdateEnds \/ QueueLeft
  PROVE  PacketInv'
<1>1. /\ UNCHANGED packetVars /\ UNCHANGED <<player, stay, loading, recentlyLogout>>
      /\ phase \notin {"world", "map"} /\ phase' \in {"idle", "world", "callbacks", "maps", "map"}
      /\ processed' \in {0, processed} /\ inQueue' \in {FALSE, inQueue}
  BY DEF PacketInv, TypeOK, WorldPass, MapPass, PassBegins, MapPassSkipped, UpdateEnds, QueueLeft, playerVars
<1>2. /\ Waiting' = Waiting /\ QueuesInv' /\ Len(kind') <= MaxPackets
      /\ kind' = kind /\ stayOf' = stayOf /\ requeue' = requeue /\ fate' = fate
      /\ recvQueue' = recvQueue
  BY <1>1, PacketsStay
<1>3. requeue = <<>> /\ PassLimit \in Nat
  BY <1>1, PacketsAssumption DEF PacketInv, RequeueInv
<1>4. TypeOK'
  <2>1. TypeOK
    BY DEF PacketInv
  <2>2. processed \in 0..PassLimit + 1 /\ 0 \in 0..PassLimit + 1 /\ inQueue \in BOOLEAN
    BY <1>3, <2>1 DEF TypeOK
  <2>3. processed' \in 0..PassLimit + 1 /\ inQueue' \in BOOLEAN
    BY <1>1, <2>2
  <2> QED
    BY <1>1, <1>2, <2>1, <2>3 DEF TypeOK
<1>5. RequeueInv'
  BY <1>2, <1>3 DEF PacketInv, RequeueInv
<1>6. ScreenInv' /\ StayInv'
  BY <1>1, <1>2, FewerWait
<1> QED
  BY <1>2, <1>4, <1>5, <1>6 DEF PacketInv

\* The answers to a login and the logout timer come outside a pass.
LEMMA AnswersKeep ==
  ASSUME PacketInv, LoginAnswered \/ LogoutTimer PROVE PacketInv'
<1>1. /\ UNCHANGED packetVars /\ UNCHANGED <<processed, phase, inQueue>>
      /\ phase \notin {"world", "map"}
      /\ player' \in {"none", "world", "transfer"} /\ stay' \in 0..MaxPackets
      /\ loading' \in 0..MaxPackets /\ recentlyLogout' \in BOOLEAN
  <2>1. /\ player \in {"none", "world", "transfer"} /\ stay \in 0..MaxPackets
        /\ loading \in 0..MaxPackets /\ recentlyLogout \in BOOLEAN /\ 0 \in 0..MaxPackets
    BY PacketsAssumption DEF PacketInv, TypeOK
  <2>2. CASE LoginAnswered
    BY <2>1, <2>2 DEF LoginAnswered
  <2>3. CASE LogoutTimer
    BY <2>1, <2>3 DEF LogoutTimer, LogoutPlayer
  <2> QED
    BY <2>2, <2>3
<1>2. /\ Waiting' = Waiting /\ QueuesInv' /\ Len(kind') <= MaxPackets
      /\ kind' = kind /\ stayOf' = stayOf /\ requeue' = requeue /\ fate' = fate
      /\ recvQueue' = recvQueue
  BY <1>1, PacketsStay
<1>3. requeue = <<>>
  BY <1>1 DEF PacketInv, RequeueInv
<1>4. TypeOK'
  BY <1>1, <1>2 DEF PacketInv, TypeOK
<1>5. RequeueInv'
  BY <1>2, <1>3 DEF PacketInv, RequeueInv
<1>6. \A e \in Waiting : kind[e] \notin ForScreen
  BY DEF PacketInv, ScreenInv, LoginAnswered, LogoutTimer
<1>7. ScreenInv'
  BY <1>2, <1>6 DEF ScreenInv
<1>8. StayInv'
  <2>1. StayInv
    BY DEF PacketInv
  <2>2. CASE LoginAnswered
    BY <1>2, <2>1, <2>2 DEF StayInv, LoginAnswered
  <2>3. CASE LogoutTimer
    BY <1>2, <2>1, <2>3 DEF StayInv, LogoutTimer, LogoutPlayer
  <2> QED
    BY <2>2, <2>3
<1> QED
  BY <1>2, <1>4, <1>5, <1>7, <1>8 DEF PacketInv

\* The end of a pass
LEMMA EndKeeps == ASSUME PacketInv, PassEnds PROVE PacketInv'
<1>1. /\ recvQueue' \in Seq(DOMAIN kind') /\ requeue' \in Seq(DOMAIN kind')
      /\ requeue' = <<>> /\ ToSet(requeue') = {} /\ Waiting' = Waiting /\ QueuesInv'
  BY Readded
<1>2. /\ UNCHANGED <<kind, fate, stayOf, processed>>
      /\ UNCHANGED <<player, stay, loading, recentlyLogout, inQueue>>
      /\ phase' \in {"idle", "callbacks"}
  BY DEF PassEnds, PassOver, playerVars
<1>3. TypeOK' /\ Len(kind') <= MaxPackets
  BY <1>1, <1>2 DEF PacketInv, TypeOK
<1>4. RequeueInv'
  BY <1>1 DEF RequeueInv
<1>5. ScreenInv' /\ StayInv'
  BY <1>1, <1>2, FewerWait
<1> QED
  BY <1>1, <1>3, <1>4, <1>5 DEF PacketInv

\* A packet that comes before its player is kept, and was sent before too.
LEMMA RequeueKeeps == ASSUME PacketInv, PacketRequeued PROVE PacketInv'
<1> DEFINE h == Head(recvQueue)
<1>1. /\ recvQueue' \in Seq(DOMAIN kind') /\ requeue' \in Seq(DOMAIN kind')
      /\ ToSet(requeue') = ToSet(requeue) \union {h}
      /\ Waiting' = Waiting /\ QueuesInv'
  BY Requeued
<1>2. /\ UNCHANGED <<kind, fate, stayOf, phase>>
      /\ UNCHANGED <<player, stay, loading, recentlyLogout, inQueue>>
      /\ processed' = processed + 1 /\ processed <= PassLimit /\ phase \in {"world", "map"}
      /\ TooEarly(kind[h]) /\ recvQueue # <<>>
  BY DEF PacketRequeued, Takes, InPass, Front1, playerVars
<1>3. h \in Waiting
  BY <1>2, FrontTaken
<1>4. Status[kind[h]] = "LOGGEDIN" /\ player = "none" /\ ~recentlyLogout
  BY <1>2 DEF TooEarly
<1>5. stayOf[h] = 0
  BY <1>3, <1>4 DEF PacketInv, StayInv
<1>6. processed' \in 0..PassLimit + 1
  BY <1>2, PacketsAssumption DEF PacketInv, TypeOK
<1>7. TypeOK' /\ Len(kind') <= MaxPackets
  BY <1>1, <1>2, <1>6 DEF PacketInv, TypeOK
<1>8. RequeueInv'
  BY <1>1, <1>2, <1>4, <1>5 DEF PacketInv, RequeueInv
<1>9. ScreenInv' /\ StayInv'
  BY <1>1, <1>2, FewerWait
<1> QED
  BY <1>1, <1>7, <1>8, <1>9 DEF PacketInv

\* A packet that is dealt with leaves the types and the queues right.
LEMMA ConsumedKeeps ==
  ASSUME PacketInv, Takes, NEW outcome \in {"called", "dropped"}, Consumes(outcome),
         processed' \in {processed + 1, PassLimit + 1},
         player' \in {"none", "world", "transfer"}, stay' = stay, inQueue' = inQueue,
         loading' \in {loading, Head(recvQueue)}, recentlyLogout' \in BOOLEAN,
         requeue = <<>> \/ player' = player, ScreenInv', StayInv'
  PROVE  PacketInv'
<1>1. /\ recvQueue' \in Seq(DOMAIN kind') /\ requeue' \in Seq(DOMAIN kind')
      /\ kind' = kind /\ stayOf' = stayOf /\ requeue' = requeue /\ phase' = phase
      /\ fate' \in [DOMAIN kind' -> {"waiting", "called", "dropped"}]
      /\ QueuesInv'
  BY Consumed
<1>2. processed <= PassLimit /\ phase \in {"world", "map"} /\ recvQueue # <<>>
  BY DEF Takes, InPass
<1>3. processed' \in 0..PassLimit + 1
  <2>1. processed \in 0..PassLimit + 1 /\ PassLimit \in Nat
    BY PacketsAssumption DEF PacketInv, TypeOK
  <2> QED
    BY <1>2, <2>1
<1>4. Head(recvQueue) \in 0..MaxPackets
  <2>1. Head(recvQueue) \in 1..Len(kind) /\ Len(kind) \in Nat /\ Len(kind) <= MaxPackets
    BY <1>2, FrontTaken, Numbers DEF PacketInv
  <2> QED
    BY <2>1, PacketsAssumption
<1>5. TypeOK' /\ Len(kind') <= MaxPackets
  BY <1>1, <1>3, <1>4 DEF PacketInv, TypeOK
<1>6. RequeueInv'
  BY <1>1, <1>2 DEF PacketInv, RequeueInv
<1> QED
  BY <1>1, <1>5, <1>6 DEF PacketInv

\* What a front that is dealt with was, and who is left behind it.
LEMMA FrontFacts ==
  ASSUME PacketInv, Takes, NEW outcome \in {"called", "dropped"}, Consumes(outcome)
  PROVE  /\ kind' = kind /\ stayOf' = stayOf /\ phase' = phase /\ requeue' = requeue
         /\ Waiting' = Waiting \ {Head(recvQueue)} /\ Head(recvQueue) \in Waiting
         /\ Head(recvQueue) \in DOMAIN kind /\ Front1 \in Kinds
         /\ \A p \in Waiting' : p \in DOMAIN kind /\ (p > Head(recvQueue) \/ p \in ToSet(requeue))
<1> DEFINE h == Head(recvQueue)
<1>1. recvQueue # <<>>
  BY DEF Takes
<1>2. /\ kind' = kind /\ stayOf' = stayOf /\ phase' = phase /\ requeue' = requeue
      /\ Waiting' = Waiting \ {h}
  BY Consumed
<1>3. h \in 1..Len(kind) /\ h \in Waiting /\ \A p \in Waiting : p < h => p \in ToSet(requeue)
  BY <1>1, FrontTaken
<1>4. /\ Len(kind) \in Nat /\ DOMAIN kind = 1..Len(kind) /\ Waiting \subseteq 1..Len(kind)
      /\ \A p \in 1..Len(kind) : kind[p] \in Kinds
  BY Numbers
<1>5. Front1 \in Kinds
  BY <1>3, <1>4 DEF Front1
<1>6. \A p \in Waiting' : p \in 1..Len(kind) /\ p # h /\ (p < h => p \in ToSet(requeue))
  BY <1>2, <1>3, <1>4
<1>7. \A p \in Waiting' : p > h \/ p \in ToSet(requeue)
  BY <1>3, <1>4, <1>6
<1> QED
  BY <1>2, <1>3, <1>4, <1>5, <1>6, <1>7

\* A packet is dropped, or AntiDOS refuses it, or a handler is called that
\* changes no player; a list of characters ends the memory of the last logout,
\* when nothing waits any more that was sent in the world.
LEMMA DealtKeeps ==
  ASSUME PacketInv, Takes, NEW outcome \in {"called", "dropped"}, Consumes(outcome),
         processed' \in {processed + 1, PassLimit + 1},
         UNCHANGED <<player, stay, loading, inQueue>>,
         recentlyLogout' = recentlyLogout \/ LogoutForgotten(Front1)
  PROVE  PacketInv'
<1> DEFINE h == Head(recvQueue)
<1>1. /\ kind' = kind /\ stayOf' = stayOf
      /\ Waiting' = Waiting \ {h} /\ h \in Waiting
      /\ \A p \in Waiting' : p \in DOMAIN kind /\ (p > h \/ p \in ToSet(requeue))
  BY FrontFacts
<1>2. recentlyLogout \in BOOLEAN /\ recentlyLogout' \in BOOLEAN /\ player' \in {"none", "world", "transfer"}
  BY DEF PacketInv, TypeOK, LogoutForgotten
<1>3. recentlyLogout' = recentlyLogout \/ (\A p \in Waiting' : stayOf[p] = 0)
  <2>1. CASE Front1 # "enum"
    BY <1>2, <2>1 DEF LogoutForgotten
  <2>2. CASE Front1 = "enum"
    <3>1. \A p \in DOMAIN kind : p > h => stayOf[p] = 0
      BY <1>1, <2>2 DEF PacketInv, ScreenInv, ForScreen, Front1
    <3>2. \A p \in ToSet(requeue) : stayOf[p] = 0
      BY DEF PacketInv, RequeueInv
    <3> QED
      BY <1>1, <3>1, <3>2
  <2> QED
    BY <2>1, <2>2
<1>4. ScreenInv' /\ StayInv'
  BY <1>1, <1>3, FewerWait
<1> QED
  BY <1>2, <1>4, ConsumedKeeps

\* A login: from now on nothing waits that was sent in the world or from the
\* character screen.
LEMMA LoginKeeps == ASSUME PacketInv, HandlePlayerLogin PROVE PacketInv'
<1> DEFINE h == Head(recvQueue)
<1>1. /\ Takes /\ Front1 = "login" /\ Consumes("called") /\ processed' = processed + 1
      /\ loading' = (IF loading = 0 /\ player = "none" THEN h ELSE loading)
      /\ UNCHANGED <<player, stay, recentlyLogout, inQueue>>
  BY DEF HandlePlayerLogin, Calls, Handles
<1>2. /\ kind' = kind /\ stayOf' = stayOf
      /\ Waiting' = Waiting \ {h} /\ h \in Waiting
      /\ \A p \in Waiting' : p \in DOMAIN kind /\ (p > h \/ p \in ToSet(requeue))
  BY <1>1, FrontFacts
<1>3. /\ player = "none"
      /\ \A q \in DOMAIN kind : q > h => stayOf[q] = 0 /\ kind[q] \notin ForScreen
  BY <1>1, <1>2 DEF PacketInv, ScreenInv, ForScreen, Front1
<1>4. \A p \in ToSet(requeue) : stayOf[p] = 0 /\ kind[p] \notin ForScreen
  BY DEF PacketInv, RequeueInv, ForScreen, Status
<1>5. \A p \in Waiting' : stayOf[p] = 0 /\ kind[p] \notin ForScreen
  BY <1>2, <1>3, <1>4
<1>6. ScreenInv' /\ StayInv'
  BY <1>1, <1>2, <1>3, <1>5 DEF ScreenInv, StayInv
<1>7. player' \in {"none", "world", "transfer"} /\ recentlyLogout' \in BOOLEAN
  BY <1>1 DEF PacketInv, TypeOK
<1> QED
  BY <1>1, <1>6, <1>7, ConsumedKeeps

\* The player moves to another map, is there, or logs out.
LEMMA PlayerMoves ==
  ASSUME PacketInv, HandleMove \/ HandleLogoutRequest \/ HandleMoveWorldportAck
  PROVE  PacketInv'
<1>1. /\ Takes /\ Consumes("called") /\ processed' = processed + 1 /\ UNCHANGED <<stay, loading, inQueue>>
      /\ player' \in {"none", "world", "transfer"}
      /\ IF player' = "none" THEN recentlyLogout' = TRUE ELSE recentlyLogout' = recentlyLogout
  BY DEF HandleMove, HandleLogoutRequest, HandleMoveWorldportAck, Calls, Handles, LogoutPlayer
<1>2. player # "none"
  <2>1. player \in {"none", "world", "transfer"}
    BY DEF PacketInv, TypeOK
  <2>2. CASE HandleMoveWorldportAck
    BY <2>2 DEF HandleMoveWorldportAck, Calls, Handles, Unexpected, Status
  <2>3. CASE HandleMove
    BY <2>1, <2>3 DEF HandleMove, Calls, Handles, Unexpected, TooEarly, Status
  <2>4. CASE HandleLogoutRequest
    BY <2>1, <2>4 DEF HandleLogoutRequest, Calls, Handles, Unexpected, TooEarly, Status
  <2> QED
    BY <2>2, <2>3, <2>4
<1>3. requeue = <<>> /\ loading = 0 /\ \A e \in Waiting : kind[e] \notin ForScreen
  BY <1>2 DEF PacketInv, RequeueInv, ScreenInv, StayInv
<1>4. kind' = kind /\ stayOf' = stayOf /\ Waiting' \subseteq Waiting
  BY <1>1, FrontFacts
<1>5. ScreenInv'
  BY <1>3, <1>4 DEF ScreenInv
<1>6. StayInv'
  BY <1>1, <1>2, <1>3, <1>4 DEF PacketInv, StayInv
<1>7. recentlyLogout' \in BOOLEAN
  BY <1>1 DEF PacketInv, TypeOK
<1> QED
  BY <1>1, <1>3, <1>5, <1>6, <1>7, ConsumedKeeps

\* Every step preserves the invariant.
LEMMA StepKeeps == PacketInv /\ [Next]_vars => PacketInv'
<1> SUFFICES ASSUME PacketInv, [Next]_vars PROVE PacketInv'
  OBVIOUS
<1>1. ASSUME NEW k \in Kinds, QueuePacket(k) PROVE PacketInv'
  BY <1>1, ReceivingKeeps
<1>2. CASE WorldPass \/ MapPass \/ MapPassSkipped \/ UpdateEnds \/ QueueLeft
  BY <1>2, PhasesKeep
<1>3. CASE LoginAnswered \/ LogoutTimer
  BY <1>3, AnswersKeep
<1>4. CASE PassEnds
  BY <1>4, EndKeeps
<1>5. CASE PacketRequeued
  BY <1>5, RequeueKeeps
<1>6. CASE PacketDropped
  BY <1>6, DealtKeeps DEF PacketDropped, playerVars
<1>7. CASE PacketRefused
  BY <1>7, DealtKeeps DEF PacketRefused
<1>8. CASE HandleCharEnum
  BY <1>8, DealtKeeps DEF HandleCharEnum, Calls, Handles
<1>9. CASE HandleOther
  BY <1>9, DealtKeeps DEF HandleOther, Calls, Handles, playerVars
<1>10. CASE HandlePlayerLogin
  BY <1>10, LoginKeeps
<1>11. CASE HandleMove \/ HandleLogoutRequest \/ HandleMoveWorldportAck
  BY <1>11, PlayerMoves
<1>12. CASE UNCHANGED vars
  BY <1>12 DEF vars, packetVars, playerVars, PacketInv, TypeOK, QueuesInv, RequeueInv,
               ScreenInv, StayInv, Waiting
<1> QED
  BY <1>1, <1>2, <1>3, <1>4, <1>5, <1>6, <1>7, <1>8, <1>9, <1>10, <1>11, <1>12 DEF Next, LoopStep

\* Initially nothing was sent.
LEMMA InitHolds == Init => PacketInv
<1> SUFFICES ASSUME Init PROVE PacketInv
  OBVIOUS
<1>1. DOMAIN kind = {} /\ Len(kind) = 0 /\ kind \in Seq(Kinds) /\ DOMAIN recvQueue = {} /\ DOMAIN requeue = {}
      /\ fate = kind /\ stayOf = kind
  BY DEF Init
<1>2. TypeOK
  <2>1. fate \in [DOMAIN kind -> {"waiting", "called", "dropped"}] /\ stayOf \in [DOMAIN kind -> 0..MaxPackets]
    BY <1>1
  <2>2. recvQueue \in Seq(DOMAIN kind) /\ requeue \in Seq(DOMAIN kind)
    BY <1>1 DEF Init
  <2>3. 0 \in 0..PassLimit + 1 /\ 0 \in 0..MaxPackets
    BY PacketsAssumption
  <2> QED
    BY <1>1, <2>1, <2>2, <2>3 DEF Init, TypeOK
<1>3. Waiting = {} /\ ToSet(recvQueue) = {} /\ ToSet(requeue) = {}
  BY <1>1 DEF Waiting, ToSet
<1>4. QueuesInv /\ RequeueInv /\ ScreenInv /\ StayInv
  BY <1>1, <1>3 DEF Init, QueuesInv, RequeueInv, ScreenInv, StayInv, Ascending, Below
<1> QED
  BY <1>1, <1>2, <1>4, PacketsAssumption DEF PacketInv

-----------------------------------------------------------------------------
(* The theorems. *)

\* The invariant of the packets of a session holds in every state of it.
THEOREM PacketInvariant == Spec => []PacketInv
  BY InitHolds, StepKeeps, PTL DEF Spec

\* Every variable has its type; a pass takes at most PassLimit + 1 packets.
THEOREM PacketTypes == Spec => []TypeOK
<1>1. PacketInv => TypeOK
  BY DEF PacketInv
<1> QED
  BY <1>1, PacketInvariant, PTL

\* Both queues in the order of arrival, one before the other, hold each packet
\* that waits once and no other.
LEMMA HeldOnce == PacketInv => NoPacketLost
<1> SUFFICES ASSUME PacketInv PROVE NoPacketLost
  OBVIOUS
<1> DEFINE n == Len(kind)
<1>1. n \in Nat /\ requeue \in Seq(1..n) /\ recvQueue \in Seq(1..n)
  BY Numbers
<1>2. /\ Ascending(requeue) /\ Ascending(recvQueue) /\ Below(ToSet(requeue), ToSet(recvQueue))
      /\ ToSet(requeue) \union ToSet(recvQueue) = Waiting
  BY DEF PacketInv, QueuesInv
<1> HIDE DEF n
<1>3. /\ requeue \o recvQueue \in Seq(1..n) /\ Ascending(requeue \o recvQueue)
      /\ ToSet(requeue \o recvQueue) = ToSet(requeue) \union ToSet(recvQueue)
  BY <1>1, <1>2, JoinAscends
<1>4. IsInjective(requeue \o recvQueue)
  BY <1>1, <1>3, AscendingIsInjective
<1> QED
  BY <1>2, <1>3, <1>4 DEF NoPacketLost, Waiting

\* No packet is lost or doubled, however it goes back and forth between the
\* two queues and however many passes that takes.
THEOREM PacketsAreKept == Spec => []NoPacketLost
  BY HeldOnce, PacketInvariant, PTL

\* A packet that is called was at the front of the queue, and one for a player
\* in the world is called only with a player in the world.
LEMMA CalledIsFront ==
  ASSUME PacketInv, [Next]_vars, NEW p \in DOMAIN kind, fate[p] = "waiting", fate'[p] = "called"
  PROVE  Takes /\ p = Head(recvQueue) /\ ~Unexpected(kind[p]) /\ ~TooEarly(kind[p])
<1>1. /\ fate \in [DOMAIN kind -> {"waiting", "called", "dropped"}]
      /\ Len(kind) \in Nat /\ DOMAIN kind = 1..Len(kind) /\ p \in 1..Len(kind)
  BY Numbers DEF PacketInv, TypeOK
<1>2. ASSUME NEW k, Calls(k) PROVE Takes /\ p = Head(recvQueue) /\ ~Unexpected(kind[p]) /\ ~TooEarly(kind[p])
  BY <1>1, <1>2 DEF Calls, Handles, Consumes, Front1
<1>3. ASSUME Consumes("dropped") PROVE FALSE
  BY <1>1, <1>3 DEF Consumes
<1>4. ASSUME NEW k \in Kinds, QueuePacket(k) PROVE FALSE
  <2>1. Grows(fate, fate', Len(kind), {"waiting", "called", "dropped"}, "waiting")
    BY <1>1, <1>4, OneMore DEF QueuePacket
  <2> QED
    BY <1>1, <2>1 DEF Grows
<1>5. fate' # fate
  OBVIOUS
<1> QED
  BY <1>2, <1>3, <1>4, <1>5
     DEF Next, LoopStep, vars, packetVars, WorldPass, MapPass, PassBegins, MapPassSkipped, UpdateEnds, QueueLeft,
         LoginAnswered, LogoutTimer, PassEnds, PassOver, PacketRequeued, PacketDropped,
         PacketRefused, HandleCharEnum, HandleOther, HandlePlayerLogin, HandleMove,
         HandleLogoutRequest, HandleMoveWorldportAck

\* Packets for a character in the world are handled in the order they came.
THEOREM HandledInOrder == Spec => InOrder
<1> DEFINE A == \A p, q \in DOMAIN kind :
                  /\ p < q /\ Status[kind[p]] = "LOGGEDIN" /\ Status[kind[q]] = "LOGGEDIN"
                  /\ fate[q] = "waiting" /\ fate'[q] = "called"
                  => fate[p] # "waiting"
<1>1. ASSUME PacketInv, [Next]_vars PROVE A
  <2> SUFFICES ASSUME NEW p \in DOMAIN kind, NEW q \in DOMAIN kind, p < q,
                      Status[kind[q]] = "LOGGEDIN", fate[q] = "waiting", fate'[q] = "called",
                      fate[p] = "waiting"
               PROVE  FALSE
    OBVIOUS
  <2>1. Takes /\ q = Head(recvQueue) /\ ~Unexpected(kind[q]) /\ ~TooEarly(kind[q])
    BY <1>1, CalledIsFront
  <2>2. kind[q] \in Kinds /\ Handles(kind[q])
    BY <1>1, <2>1, Numbers DEF Handles, Front1
  <2>3. requeue = <<>>
    BY <1>1, <2>2, PlayerHere
  <2>4. p \in ToSet(requeue)
    BY <1>1, <2>1, FrontTaken DEF Takes, Waiting
  <2> QED
    BY <2>3, <2>4 DEF ToSet
<1>2. PacketInv /\ [Next]_vars => [A]_vars
  BY <1>1
<1>3. Spec => [][A]_vars
  BY <1>2, PacketInvariant, PTL DEF Spec
<1> QED
  BY <1>3 DEF InOrder

\* A packet of one stay in the world is never handled in a later one.
THEOREM NothingStale == Spec => NoStalePacket
<1> DEFINE A == \A p \in DOMAIN kind :
                  /\ Status[kind[p]] = "LOGGEDIN"
                  /\ fate[p] = "waiting" /\ fate'[p] = "called"
                  => stayOf[p] \in {0, stay} \/ p > stay
<1>1. ASSUME PacketInv, [Next]_vars PROVE A
  <2> SUFFICES ASSUME NEW p \in DOMAIN kind, Status[kind[p]] = "LOGGEDIN",
                      fate[p] = "waiting", fate'[p] = "called"
               PROVE  stayOf[p] \in {0, stay}
    OBVIOUS
  <2>1. Takes /\ p = Head(recvQueue) /\ ~Unexpected(kind[p]) /\ ~TooEarly(kind[p])
    BY <1>1, CalledIsFront
  <2>2. kind[p] \in Kinds /\ Handles(kind[p])
    BY <1>1, <2>1, Numbers DEF Handles, Front1
  <2>3. player = "world"
    BY <1>1, <2>2, PlayerHere
  <2> QED
    BY <1>1, <2>3 DEF PacketInv, StayInv, Waiting
<1>2. PacketInv /\ [Next]_vars => [A]_vars
  BY <1>1
<1>3. Spec => [][A]_vars
  BY <1>2, PacketInvariant, PTL DEF Spec
<1> QED
  BY <1>3 DEF NoStalePacket

=============================================================================
