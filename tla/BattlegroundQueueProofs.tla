----------------------- MODULE BattlegroundQueueProofs -----------------------
(***************************************************************************)
(* Theorems about BattlegroundQueue, for every number of players, queues   *)
(* and battlegrounds.  A player has a place in a battleground by an        *)
(* invitation, on the loading screen or inside, in one of these ways at a  *)
(* time; the invariant says so of every player, and that a battleground    *)
(* counts the players that have a place in it.                             *)
(***************************************************************************)
EXTENDS BattlegroundQueue, FiniteSetTheorems, SequenceTheorems, TLAPS

-----------------------------------------------------------------------------
(* The inductive invariant. *)

Places == {"world", "transit", "inside", "offline"}
Invitations == [bg : Int, removeTime : Nat]
Removals == [player : Fighters, queue : Queues, bg : Nat, removeTime : Nat]
Memberships == UNION {[S -> Nat] : S \in SUBSET Fighters}
Games == [status : {"join", "progress", "leave"}, queue : Queues, invited : Int,
          players : Memberships, offline : Seq(Fighters)]

\* The game is one, or deleted.
GameSeq == Seq(Games \union {Deleted})

\* The types, and that the update looks at battlegrounds that exist.
BgTypes ==
  /\ place \in [Fighters -> Places]
  /\ bgInstanceID \in [Fighters -> 0 .. Len(bg)]
  /\ slot \in [Fighters -> [Queues -> -1 .. Len(bg)]]
  /\ entry \in [Queues -> [Fighters -> Invitations]]
  /\ removals \subseteq Removals
  /\ bg \in GameSeq
  /\ scheduled \subseteq Queues /\ deserters \subseteq Fighters
  /\ now \in 0 .. MaxClock /\ updating \in BOOLEAN
  /\ (\A b \in todo : Exists(b)) /\ (~updating => todo = {})

\* The event that ends the invitation.
Removal(p, q, invitation) ==
  [player |-> p, queue |-> q, bg |-> invitation.bg, removeTime |-> invitation.removeTime]

\* In a queue with a slot that says the same, and invited to a battleground of
\* that queue, with the event that will end it.
EntriesOf(p) ==
  \A q \in Queues, i \in Invitations : entry[q][p] = i /\ i # NotQueued =>
    /\ place[p] # "offline" /\ i.bg \in Nat /\ slot[p][q] = i.bg
    /\ i.bg # 0 =>
         Exists(i.bg) /\ bg[i.bg].queue = q /\ Removal(p, q, i) \in removals

\* Inside one battleground, without an entry in its queue.
InsideOf(p) ==
  \A b \in Nat : Exists(b) /\ p \in Participants(b) =>
    /\ bgInstanceID[p] = b /\ place[p] \in {"inside", "offline"}
    /\ entry[bg[b].queue][p] = NotQueued

\* On the way to a battleground that exists, by the slot for its queue.
TransitOf(p) ==
  \A b \in Nat : place[p] = "transit" /\ bgInstanceID[p] = b =>
    Exists(b) /\ slot[p][bg[b].queue] = b /\ entry[bg[b].queue][p] = NotQueued

PlayerOK(p) == EntriesOf(p) /\ InsideOf(p) /\ TransitOf(p)

\* Those with a place in b.
KeptFor(b) == InvitedTo(b) \union InTransitTo(b) \union (Participants(b) \intersect Fighters)

\* They are the ones it counts, never more than a team.
PlacesKept ==
  \A b \in Nat : Exists(b) =>
    bg[b].invited = Cardinality(KeptFor(b)) /\ bg[b].invited <= MaxPlayers

BgInv == BgTypes /\ (\A p \in Fighters : PlayerOK(p)) /\ PlacesKept

\* Nothing that PlayerOK reads of the player itself changes.
LeftAlone(p) ==
  /\ place'[p] = place[p] /\ bgInstanceID'[p] = bgInstanceID[p]
  /\ slot'[p] = slot[p] /\ \A q \in Queues : entry'[q][p] = entry[q][p]

\* Fields of a battleground that exists.
LEMMA GameIs ==
  ASSUME bg \in GameSeq, NEW b \in Nat, Exists(b)
  PROVE  /\ b \in 1 .. Len(bg) /\ b \in DOMAIN bg /\ b # 0 /\ bg[b] \in Games
         /\ bg[b].queue \in Queues /\ bg[b].invited \in Int /\ bg[b].offline \in Seq(Fighters)
         /\ bg[b].status \in {"join", "progress", "leave"}
         /\ bg[b].players \in Memberships
         /\ Participants(b) \subseteq Fighters
<1>1. b \in 1 .. Len(bg) /\ b \in DOMAIN bg /\ b # 0 /\ bg[b] \in Games \union {Deleted}
  BY DEF GameSeq, Exists
<1>2. bg[b] \in Games
  BY <1>1 DEF Exists, Deleted
<1>3. bg[b].players \in Memberships
  BY <1>2 DEF Games
<1>4. Participants(b) \subseteq Fighters
  BY <1>3 DEF Participants, Memberships
<1> QED
  BY <1>1, <1>2, <1>3, <1>4 DEF Games

\* Sequences of battlegrounds are functions.
LEMMA GameSeqIs ==
  /\ \A bgs \in GameSeq :
       /\ Len(bgs) \in Nat /\ DOMAIN bgs = 1 .. Len(bgs)
       /\ \A b \in 1 .. Len(bgs) : bgs[b] \in Games \union {Deleted}
  /\ \A n \in Nat : \A bgs \in [1 .. n -> Games \union {Deleted}] : bgs \in GameSeq /\ Len(bgs) = n
<1> DEFINE S == Games \union {Deleted}
<1> HIDE DEF S
<1>1. \A n \in Nat : \A s \in [1 .. n -> S] : s \in Seq(S) /\ Len(s) = n
  OBVIOUS
<1>2. \A s \in Seq(S) : Len(s) \in Nat /\ DOMAIN s = 1 .. Len(s) /\ \A b \in 1 .. Len(s) : s[b] \in S
  OBVIOUS
<1> QED
  BY <1>1, <1>2 DEF GameSeq, S

\* Who has a place is one of the finitely many players.
LEMMA KeptFinite ==
  ASSUME NEW b
  PROVE  KeptFor(b) \subseteq Fighters /\ IsFiniteSet(KeptFor(b)) /\ Cardinality(KeptFor(b)) \in Nat
<1>1. KeptFor(b) \subseteq Fighters
  BY DEF KeptFor, InvitedTo, InTransitTo
<1> QED
  BY <1>1, QueueAssumption, FS_Subset, FS_CardinalityType

\* A player none of whose own state changes is as well off as before.
LEMMA OthersKeep ==
  ASSUME BgInv, BgTypes', NEW r \in Fighters, LeftAlone(r),
         \A e \in removals : e.player = r => e \in removals',
         \A b \in Nat : Exists(b) /\ r \in KeptFor(b) => Exists(b)' /\ bg'[b].queue = bg[b].queue,
         \A b \in Nat : Exists(b)' /\ r \in Participants(b)' => Exists(b) /\ r \in Participants(b)
  PROVE  PlayerOK(r)'
<1>1. EntriesOf(r) /\ InsideOf(r) /\ TransitOf(r)
  BY DEF BgInv, PlayerOK
<1>2. EntriesOf(r)'
  <2> SUFFICES ASSUME NEW q \in Queues, NEW i \in Invitations, entry'[q][r] = i, i # NotQueued
               PROVE  /\ place'[r] # "offline" /\ i.bg \in Nat /\ slot'[r][q] = i.bg
                      /\ i.bg # 0 =>
                           Exists(i.bg)' /\ bg'[i.bg].queue = q /\ Removal(r, q, i) \in removals'
    BY DEF EntriesOf
  <2>1. entry[q][r] = i /\ slot'[r] = slot[r] /\ place'[r] = place[r]
    BY DEF LeftAlone
  <2>2. ASSUME i.bg # 0
        PROVE  Exists(i.bg)' /\ bg'[i.bg].queue = q /\ Removal(r, q, i) \in removals'
    <3>1. i.bg \in Nat /\ Exists(i.bg) /\ bg[i.bg].queue = q /\ Removal(r, q, i) \in removals
      BY <1>1, <2>1, <2>2 DEF EntriesOf
    <3>2. r \in KeptFor(i.bg)
      BY <2>1 DEF KeptFor, InvitedTo, InvitingTo
    <3>3. Removal(r, q, i).player = r
      BY DEF Removal
    <3> QED
      BY <3>1, <3>2, <3>3
  <2> QED
    BY <1>1, <2>1, <2>2 DEF EntriesOf
<1>3. InsideOf(r)'
  <2> SUFFICES ASSUME NEW b \in Nat, Exists(b)', r \in Participants(b)'
               PROVE  /\ bgInstanceID'[r] = b /\ place'[r] \in {"inside", "offline"}
                      /\ entry'[bg'[b].queue][r] = NotQueued
    BY DEF InsideOf
  <2>1. Exists(b) /\ r \in Participants(b)
    OBVIOUS
  <2>2. bg'[b].queue = bg[b].queue /\ bg[b].queue \in Queues
    BY <2>1, GameIs DEF BgInv, BgTypes, KeptFor
  <2> QED
    BY <1>1, <2>1, <2>2 DEF InsideOf, LeftAlone
<1>4. TransitOf(r)'
  <2> SUFFICES ASSUME NEW b \in Nat, place'[r] = "transit", bgInstanceID'[r] = b
               PROVE  Exists(b)' /\ slot'[r][bg'[b].queue] = b /\ entry'[bg'[b].queue][r] = NotQueued
    BY DEF TransitOf
  <2>1. Exists(b) /\ slot[r][bg[b].queue] = b /\ entry[bg[b].queue][r] = NotQueued
    BY <1>1 DEF TransitOf, LeftAlone
  <2>2. r \in KeptFor(b)
    BY DEF KeptFor, InTransitTo, LeftAlone
  <2>3. Exists(b)' /\ bg'[b].queue = bg[b].queue /\ bg[b].queue \in Queues
    BY <2>1, <2>2, GameIs DEF BgInv, BgTypes
  <2> QED
    BY <2>1, <2>3 DEF LeftAlone
<1> QED
  BY <1>2, <1>3, <1>4 DEF PlayerOK

\* And has a place where it had one.
LEMMA OthersPlace ==
  ASSUME NEW r \in Fighters, LeftAlone(r), NEW b, r \in Participants(b)' <=> r \in Participants(b)
  PROVE  r \in KeptFor(b)' <=> r \in KeptFor(b)
BY DEF KeptFor, InvitedTo, InTransitTo, InvitingTo, LeftAlone

\* What a set loses.
LEMMA CardinalityLost ==
  ASSUME NEW S, NEW T, IsFiniteSet(S), T \subseteq S
  PROVE  Cardinality(T) = Cardinality(S) - Cardinality(S \ T)
<1>1. S \ (S \ T) = T /\ S \intersect (S \ T) = S \ T
  OBVIOUS
<1>2. Cardinality(S \ (S \ T)) = Cardinality(S) - Cardinality(S \intersect (S \ T))
  BY FS_Difference
<1> QED
  BY <1>1, <1>2

\* Steps in which only the players of P move and nobody gets a place.
LEMMA SomeMove ==
  ASSUME BgInv, BgTypes', NEW P \in SUBSET Fighters,
         \A r \in Fighters \ P : LeftAlone(r),
         \A e \in removals : e \in removals' \/ e.player \in P,
         \A b \in Nat : Exists(b) => (Exists(b)' /\ bg'[b].queue = bg[b].queue) \/ KeptFor(b) = {},
         \A b \in Nat : Exists(b)' =>
           /\ Exists(b)
           /\ Participants(b)' \ P = Participants(b) \ P
           /\ \A p \in P : p \in KeptFor(b)' => p \in KeptFor(b)
           /\ bg'[b].invited = bg[b].invited - Cardinality({p \in P : p \in KeptFor(b) /\ p \notin KeptFor(b)'}),
         \A p \in P : PlayerOK(p)'
  PROVE  BgInv'
<1>1. ASSUME NEW r \in Fighters PROVE PlayerOK(r)'
  <2>1. CASE r \in P
    BY <2>1
  <2>2. CASE r \notin P
    <3>1. \A e \in removals : e.player = r => e \in removals'
      BY <2>2
    <3>2. \A b \in Nat : Exists(b) /\ r \in KeptFor(b) => Exists(b)' /\ bg'[b].queue = bg[b].queue
      OBVIOUS
    <3>3. \A b \in Nat : Exists(b)' /\ r \in Participants(b)' => Exists(b) /\ r \in Participants(b)
      BY <2>2
    <3> QED
      BY <2>2, <3>1, <3>2, <3>3, OthersKeep
  <2> QED
    BY <2>1, <2>2
<1>2. ASSUME NEW b \in Nat, Exists(b)'
      PROVE  bg'[b].invited = Cardinality(KeptFor(b)') /\ bg'[b].invited <= MaxPlayers
  <2> DEFINE lost == {p \in P : p \in KeptFor(b) /\ p \notin KeptFor(b)'}
  <2>1. Exists(b) /\ bg[b].invited = Cardinality(KeptFor(b)) /\ bg[b].invited <= MaxPlayers
    BY <1>2 DEF BgInv, PlacesKept
  <2>2. \A r \in Fighters \ P : r \in KeptFor(b)' <=> r \in KeptFor(b)
    BY <1>2, OthersPlace
  <2>3. KeptFor(b) \subseteq Fighters /\ IsFiniteSet(KeptFor(b)) /\ Cardinality(KeptFor(b)) \in Nat
    BY KeptFinite
  <2>4. KeptFor(b)' \subseteq Fighters
    BY DEF KeptFor, InvitedTo, InTransitTo
  <2>5. KeptFor(b)' \subseteq KeptFor(b) /\ KeptFor(b) \ KeptFor(b)' = lost
    BY <1>2, <2>2, <2>3, <2>4
  <2>6. Cardinality(KeptFor(b)') = Cardinality(KeptFor(b)) - Cardinality(lost)
    BY <2>3, <2>5, CardinalityLost
  <2>7. Cardinality(lost) \in Nat
    BY <2>3, <2>5, FS_Difference, FS_CardinalityType
  <2>8. bg'[b].invited = bg[b].invited - Cardinality(lost)
    BY <1>2
  <2> QED
    BY <2>1, <2>3, <2>6, <2>7, <2>8, QueueAssumption
<1> QED
  BY <1>1, <1>2 DEF BgInv, PlacesKept

\* The battlegrounds after a change of some that exist: none appears or goes.
Updated(bgs) ==
  /\ bgs \in GameSeq /\ Len(bgs) = Len(bg)
  /\ \A b \in Nat : Exists(b) => bgs[b] \in Games /\ bgs[b].queue = bg[b].queue
  /\ \A b \in 1 .. Len(bg) : ~Exists(b) => bgs[b] = bg[b]

\* A battleground exists after such a change if it did before.
LEMMA UpdatedExists ==
  ASSUME bg \in GameSeq, Updated(bg'), NEW b \in Nat
  PROVE  Exists(b)' <=> Exists(b)
<1>1. Exists(b) => bg'[b] \in Games /\ b \in 1 .. Len(bg)
  BY DEF Updated, Exists
<1>2. \A g \in Games : g.status # "deleted"
  BY DEF Games
<1> QED
  BY <1>1, <1>2 DEF Updated, Exists

\* Nothing changes but the types' business.
LEMMA SameUpdated == bg \in GameSeq => Updated(bg)
BY GameIs DEF Updated

\* Steps of one player, to whom nobody gives a place.
LEMMA OneMoves ==
  ASSUME BgInv, BgTypes', NEW p \in Fighters, Updated(bg'),
         \A r \in Fighters \ {p} : LeftAlone(r),
         \A e \in removals : e \in removals' \/ e.player = p,
         \A b \in Nat : Exists(b) =>
           /\ Participants(b)' \ {p} = Participants(b) \ {p}
           /\ p \in KeptFor(b)' => p \in KeptFor(b)
           /\ bg'[b].invited = bg[b].invited - (IF p \in KeptFor(b) /\ p \notin KeptFor(b)' THEN 1 ELSE 0),
         PlayerOK(p)'
  PROVE  BgInv'
<1> DEFINE P == {p}
<1>1. \A b \in Nat : Exists(b)' <=> Exists(b)
  BY UpdatedExists DEF BgInv, BgTypes
<1>2. \A b \in Nat : Exists(b) => (Exists(b)' /\ bg'[b].queue = bg[b].queue) \/ KeptFor(b) = {}
  BY <1>1 DEF Updated
<1>3. ASSUME NEW b \in Nat, Exists(b)'
      PROVE  /\ Exists(b)
             /\ Participants(b)' \ P = Participants(b) \ P
             /\ \A r \in P : r \in KeptFor(b)' => r \in KeptFor(b)
             /\ bg'[b].invited = bg[b].invited - Cardinality({r \in P : r \in KeptFor(b) /\ r \notin KeptFor(b)'})
  <2>1. Exists(b)
    BY <1>1, <1>3
  <2>2. {r \in P : r \in KeptFor(b) /\ r \notin KeptFor(b)'}
          = IF p \in KeptFor(b) /\ p \notin KeptFor(b)' THEN {p} ELSE {}
    OBVIOUS
  <2>3. Cardinality({p}) = 1 /\ Cardinality({}) = 0
    BY FS_Singleton, FS_EmptySet
  <2>4. Cardinality({r \in P : r \in KeptFor(b) /\ r \notin KeptFor(b)'})
          = IF p \in KeptFor(b) /\ p \notin KeptFor(b)' THEN 1 ELSE 0
    BY <2>2, <2>3
  <2> QED
    BY <2>1, <2>4
<1>4. \A r \in Fighters \ P : LeftAlone(r)
  OBVIOUS
<1>5. \A e \in removals : e \in removals' \/ e.player \in P
  OBVIOUS
<1>6. \A r \in P : PlayerOK(r)'
  OBVIOUS
<1> HIDE DEF P
<1>7. P \in SUBSET Fighters
  BY DEF P
<1> QED
  BY <1>2, <1>3, <1>4, <1>5, <1>6, <1>7, SomeMove

\* A battleground with another count.
LEMMA Recounted ==
  ASSUME NEW g \in Games, NEW n \in Int
  PROVE  /\ [g EXCEPT !.invited = n] \in Games
         /\ [g EXCEPT !.invited = n].invited = n
         /\ [g EXCEPT !.invited = n].queue = g.queue
         /\ [g EXCEPT !.invited = n].status = g.status
         /\ [g EXCEPT !.invited = n].players = g.players
         /\ [g EXCEPT !.invited = n].offline = g.offline
BY DEF Games

\* One of the queues invites the player to this battleground.
InvitedBy(p, queues, b) == \E q \in queues : entry[q][p].bg = b

\* The battlegrounds after a call of RemovePlayer for each of the queues.
LEMMA UncountedIs ==
  ASSUME bg \in GameSeq, entry \in [Queues -> [Fighters -> Invitations]],
         NEW p \in Fighters, EntriesOf(p), NEW queues \in SUBSET Queues,
         NEW bgs, bgs = Uncounted(p, queues, TRUE)
  PROVE  /\ Updated(bgs)
         /\ \A b \in Nat : Exists(b) =>
              /\ bgs[b].invited = bg[b].invited - (IF InvitedBy(p, queues, b) THEN 1 ELSE 0)
              /\ bgs[b].players = bg[b].players /\ bgs[b].status = bg[b].status
              /\ bgs[b].offline = bg[b].offline
<1>1. bgs = [b \in DOMAIN bg |->
               IF Exists(b)
               THEN [bg[b] EXCEPT !.invited = @ - Cardinality(queues \intersect InvitingTo(p, b))]
               ELSE bg[b]]
  BY DEF Uncounted
<1>2. ASSUME NEW b \in Nat, Exists(b)
      PROVE  Cardinality(queues \intersect InvitingTo(p, b)) = IF InvitedBy(p, queues, b) THEN 1 ELSE 0
  <2>1. b # 0
    BY <1>2, GameIs
  <2>2. \A q \in Queues : entry[q][p].bg = b => q = bg[b].queue
    <3> SUFFICES ASSUME NEW q \in Queues, entry[q][p].bg = b PROVE q = bg[b].queue
      OBVIOUS
    <3> DEFINE i == entry[q][p]
    <3>1. i \in Invitations /\ i # NotQueued
      BY DEF NotQueued
    <3> QED
      BY <2>1, <3>1 DEF EntriesOf
  <2>3. CASE InvitedBy(p, queues, b)
    <3>1. queues \intersect InvitingTo(p, b) = {bg[b].queue}
      BY <2>2, <2>3 DEF InvitingTo, InvitedBy
    <3> QED
      BY <2>3, <3>1, FS_Singleton
  <2>4. CASE ~InvitedBy(p, queues, b)
    <3>1. queues \intersect InvitingTo(p, b) = {}
      BY <2>4 DEF InvitingTo, InvitedBy
    <3> QED
      BY <2>4, <3>1, FS_EmptySet
  <2> QED
    BY <2>3, <2>4
<1>3. ASSUME NEW b \in Nat, Exists(b)
      PROVE  /\ bgs[b] \in Games /\ bgs[b].queue = bg[b].queue
             /\ bgs[b].invited = bg[b].invited - (IF InvitedBy(p, queues, b) THEN 1 ELSE 0)
             /\ bgs[b].players = bg[b].players /\ bgs[b].status = bg[b].status
             /\ bgs[b].offline = bg[b].offline
  <2> DEFINE n == bg[b].invited - (IF InvitedBy(p, queues, b) THEN 1 ELSE 0)
  <2>1. b \in DOMAIN bg /\ bg[b] \in Games /\ bg[b].invited \in Int
    BY <1>3, GameIs
  <2>2. n \in Int
    <3> DEFINE m == IF InvitedBy(p, queues, b) THEN 1 ELSE 0
    <3>1. m \in Int
      OBVIOUS
    <3> HIDE DEF m
    <3>2. bg[b].invited - m \in Int
      BY <2>1, <3>1
    <3> QED
      BY <3>2 DEF m
  <2>3. bgs[b] = [bg[b] EXCEPT !.invited = bg[b].invited - Cardinality(queues \intersect InvitingTo(p, b))]
    BY <1>1, <1>3, <2>1
  <2>4. bgs[b] = [bg[b] EXCEPT !.invited = n]
    BY <1>2, <1>3, <2>3
  <2> HIDE DEF n
  <2>5. /\ bgs[b] \in Games /\ bgs[b].queue = bg[b].queue /\ bgs[b].invited = n
        /\ bgs[b].players = bg[b].players /\ bgs[b].status = bg[b].status
        /\ bgs[b].offline = bg[b].offline
    <3>1. PICK g \in Games : g = bg[b]
      BY <2>1
    <3>2. bgs[b] = [g EXCEPT !.invited = n]
      BY <2>4, <3>1
    <3>3. PICK m \in Int : m = n
      BY <2>2
    <3>4. bgs[b] = [g EXCEPT !.invited = m]
      BY <3>2, <3>3
    <3>5. /\ [g EXCEPT !.invited = m] \in Games
          /\ [g EXCEPT !.invited = m].invited = m
          /\ [g EXCEPT !.invited = m].queue = g.queue
          /\ [g EXCEPT !.invited = m].status = g.status
          /\ [g EXCEPT !.invited = m].players = g.players
          /\ [g EXCEPT !.invited = m].offline = g.offline
      BY Recounted
    <3> QED
      BY <3>1, <3>3, <3>4, <3>5
  <2> QED
    BY <2>5 DEF n
<1>5. DOMAIN bg = 1 .. Len(bg) /\ Len(bg) \in Nat
  BY GameSeqIs
<1>4. \A b \in DOMAIN bg : bgs[b] \in Games \union {Deleted}
  <2> SUFFICES ASSUME NEW b \in DOMAIN bg PROVE bgs[b] \in Games \union {Deleted}
    OBVIOUS
  <2>1. b \in Nat /\ bg[b] \in Games \union {Deleted}
    BY <1>5, GameSeqIs
  <2>2. CASE Exists(b)
    BY <1>3, <2>1, <2>2
  <2>3. CASE ~Exists(b)
    BY <1>1, <2>1, <2>3
  <2> QED
    BY <2>2, <2>3
<1>6. bgs \in [1 .. Len(bg) -> Games \union {Deleted}]
  BY <1>1, <1>4, <1>5
<1>7. bgs \in GameSeq /\ Len(bgs) = Len(bg)
  BY <1>5, <1>6, GameSeqIs
<1>8. \A b \in 1 .. Len(bg) : ~Exists(b) => bgs[b] = bg[b]
  BY <1>1, <1>5
<1> QED
  BY <1>3, <1>7, <1>8 DEF Updated

\* One of the battlegrounds has the state g, the others are as they were.
Replacement(bgs, b, g, new) ==
  /\ new \in GameSeq /\ Len(new) = Len(bgs) /\ new[b] = g
  /\ \A c \in 1 .. Len(bgs) : c # b => new[c] = bgs[c]

\* What replacing one of the battlegrounds gives.
LEMMA Replaced ==
  ASSUME NEW bgs \in GameSeq, NEW b \in 1 .. Len(bgs), NEW g \in Games \union {Deleted}
  PROVE  Replacement(bgs, b, g, [bgs EXCEPT ![b] = g])
<1> PICK new : new = [bgs EXCEPT ![b] = g]
  OBVIOUS
<1> SUFFICES /\ new \in GameSeq /\ Len(new) = Len(bgs) /\ new[b] = g
             /\ \A c \in 1 .. Len(bgs) : c # b => new[c] = bgs[c]
  BY DEF Replacement
<1>1. Len(bgs) \in Nat /\ DOMAIN bgs = 1 .. Len(bgs) /\ \A c \in 1 .. Len(bgs) : bgs[c] \in Games \union {Deleted}
  BY GameSeqIs
<1>2. new = [c \in 1 .. Len(bgs) |-> IF c = b THEN g ELSE bgs[c]]
  <2>1. bgs = [c \in 1 .. Len(bgs) |-> bgs[c]]
    BY DEF GameSeq
  <2> QED
    BY <1>1, <2>1
<1>3. new \in [1 .. Len(bgs) -> Games \union {Deleted}]
  BY <1>1, <1>2
<1> QED
  BY <1>1, <1>2, <1>3, GameSeqIs

\* Members of a part of them.
LEMMA RestrictedMembers ==
  ASSUME NEW m \in Memberships, NEW players
  PROVE  /\ Restrict(m, DOMAIN m \ players) \in Memberships
         /\ DOMAIN Restrict(m, DOMAIN m \ players) = DOMAIN m \ players
         /\ DOMAIN m \in SUBSET Fighters
<1>1. PICK S \in SUBSET Fighters : m \in [S -> Nat]
  BY DEF Memberships
<1>2. DOMAIN m = S
  BY <1>1
<1>3. Restrict(m, S \ players) \in [S \ players -> Nat]
  BY <1>1 DEF Restrict
<1>4. S \ players \in SUBSET Fighters
  OBVIOUS
<1> QED
  BY <1>2, <1>3, <1>4 DEF Memberships

\* The battlegrounds without some players of one of them.
LeftBy(bgs, b, players, new) ==
  /\ new \in GameSeq /\ Len(new) = Len(bgs)
  /\ \A c \in 1 .. Len(bgs) : c # b => new[c] = bgs[c]
  /\ new[b] \in Games /\ new[b].queue = bgs[b].queue /\ new[b].status = bgs[b].status
  /\ new[b].offline = bgs[b].offline
  /\ DOMAIN new[b].players = DOMAIN bgs[b].players \ players
  /\ new[b].invited = bgs[b].invited - Cardinality(players \intersect DOMAIN bgs[b].players)

\* That is what RemovePlayerAtLeave leaves.
LEMMA WithoutIs ==
  ASSUME NEW bgs \in GameSeq, NEW b \in 1 .. Len(bgs), bgs[b] \in Games, NEW players,
         NEW new, new = WithoutPlayers(bgs, b, players)
  PROVE  LeftBy(bgs, b, players, new)
<1>1. PICK g \in Games : g = bgs[b]
  OBVIOUS
<1>2. PICK m \in Memberships : m = Restrict(g.players, DOMAIN g.players \ players)
  BY RestrictedMembers DEF Games
<1>3. DOMAIN m = DOMAIN g.players \ players /\ DOMAIN g.players \in SUBSET Fighters
  BY <1>2, RestrictedMembers DEF Games
<1>4. Cardinality(players \intersect DOMAIN g.players) \in Nat
  <2>1. players \intersect DOMAIN g.players \in SUBSET Fighters
    BY <1>3
  <2> QED
    BY <2>1, QueueAssumption, FS_Subset, FS_CardinalityType
<1>5. PICK n \in Int : n = g.invited - Cardinality(players \intersect DOMAIN g.players)
  BY <1>4 DEF Games
<1>6. PICK h : h = [g EXCEPT !.players = m, !.invited = n]
  OBVIOUS
<1>7. /\ h \in Games /\ h.players = m /\ h.invited = n
      /\ h.queue = g.queue /\ h.status = g.status /\ h.offline = g.offline
  BY <1>6 DEF Games
<1>8. DOMAIN bgs = 1 .. Len(bgs)
  BY GameSeqIs
<1>9. new = [bgs EXCEPT ![b] = h]
  <2>1. g.invited = [g EXCEPT !.players = m].invited
    BY DEF Games
  <2>2. new = [[bgs EXCEPT ![b].players = m] EXCEPT ![b].invited = n]
    BY <1>1, <1>2, <1>5, <1>8 DEF WithoutPlayers
  <2> QED
    BY <1>1, <1>6, <1>8, <2>2
<1>10. h \in Games \union {Deleted}
  BY <1>7
<1>11. /\ new \in GameSeq /\ Len(new) = Len(bgs) /\ new[b] = h
       /\ \A c \in 1 .. Len(bgs) : c # b => new[c] = bgs[c]
  <2>1. Replacement(bgs, b, h, [bgs EXCEPT ![b] = h])
    BY <1>10, Replaced
  <2> QED
    BY <1>9, <2>1 DEF Replacement
<1> QED
  BY <1>1, <1>3, <1>5, <1>7, <1>11 DEF LeftBy

\* Whoever is not in a queue has no invitation from it.
LEMMA NotInvited ==
  ASSUME BgTypes, NEW p \in Fighters, EntriesOf(p), NEW b \in Nat, Exists(b), NEW q \in Queues,
         entry[q][p].bg = b
  PROVE  /\ q = bg[b].queue /\ entry[q][p] # NotQueued /\ slot[p][q] = b /\ place[p] # "offline"
<1> DEFINE i == entry[q][p]
<1>1. i \in Invitations /\ i # NotQueued /\ i.bg # 0
  BY GameIs DEF NotQueued, BgTypes
<1> QED
  BY <1>1 DEF EntriesOf

\* The battlegrounds still to look at are not deleted.
LEMMA TodoKept ==
  ASSUME BgTypes, Updated(bg'), todo' \subseteq todo
  PROVE  \A b \in todo' : Exists(b)'
<1>1. \A b \in todo : b \in Nat /\ Exists(b)
  BY DEF BgTypes, Exists
<1> QED
  BY <1>1, UpdatedExists DEF BgTypes

\* The same battlegrounds.
LEMMA SameGames ==
  ASSUME BgTypes, bg' = bg
  PROVE  /\ Updated(bg') /\ \A b \in Nat : (Exists(b)' <=> Exists(b)) /\ Participants(b)' = Participants(b)
BY SameUpdated DEF BgTypes, Exists, Participants

\* HandleBattlemasterJoinOpcode: the player waits, invited nowhere.
LEMMA JoinKeeps ==
  ASSUME BgInv, NEW p \in Fighters, NEW q \in Queues, JoinQueue(p, q)
  PROVE  BgInv'
<1> USE DEF BgInv
<1>1. PlayerOK(p) /\ BgTypes
  OBVIOUS
<1>2. entry[q][p] = NotQueued
  <2> DEFINE i == entry[q][p]
  <2>1. i \in Invitations
    BY DEF BgTypes
  <2> QED
    BY <1>1, <2>1 DEF EntriesOf, PlayerOK, JoinQueue, NoSlot
<1>3. Updated(bg') /\ \A b \in Nat : (Exists(b)' <=> Exists(b)) /\ Participants(b)' = Participants(b)
  BY SameGames DEF JoinQueue
<1>4. BgTypes'
  <2>1. Waiting \in Invitations
    BY DEF Waiting, Invitations
  <2>2. entry' \in [Queues -> [Fighters -> Invitations]]
    BY <2>1 DEF BgTypes, JoinQueue
  <2>3. Len(bg) \in Nat
    BY GameSeqIs DEF BgTypes
  <2>4. slot' \in [Fighters -> [Queues -> -1 .. Len(bg)]]
    BY <2>3 DEF BgTypes, JoinQueue
  <2>5. \A b \in todo' : Exists(b)'
    BY <1>3, TodoKept DEF JoinQueue
  <2> QED
    BY <2>2, <2>4, <2>5 DEF BgTypes, JoinQueue
<1>5. /\ entry'[q][p] = Waiting /\ slot'[p][q] = 0
      /\ \A r \in Queues \ {q} : entry'[r][p] = entry[r][p] /\ slot'[p][r] = slot[p][r]
  BY DEF BgTypes, JoinQueue
<1>6. \A r \in Fighters \ {p} : LeftAlone(r)
  BY DEF BgTypes, JoinQueue, LeftAlone
<1>7. place' = place /\ bgInstanceID' = bgInstanceID /\ bg' = bg /\ removals' = removals
      /\ place[p] \in {"world", "inside"} /\ bgInstanceID[p] = 0
  BY DEF JoinQueue, MayAct
<1>8. PlayerOK(p)'
  <2>1. EntriesOf(p)'
    BY <1>1, <1>3, <1>5, <1>7 DEF EntriesOf, PlayerOK, Waiting
  <2>2. InsideOf(p)'
    <3>1. \A b \in Nat : Exists(b) => ~ p \in Participants(b)
      BY <1>1, <1>7, GameIs DEF InsideOf, PlayerOK, BgTypes
    <3> QED
      BY <1>3, <3>1 DEF InsideOf
  <2>3. TransitOf(p)'
    BY <1>7 DEF TransitOf
  <2> QED
    BY <2>1, <2>2, <2>3 DEF PlayerOK
<1>9. ASSUME NEW b \in Nat, Exists(b)
      PROVE  p \in KeptFor(b)' <=> p \in KeptFor(b)
  <2>1. b # 0
    BY <1>9, GameIs DEF BgTypes
  <2>2. \A r \in Queues : entry'[r][p].bg = b <=> entry[r][p].bg = b
    BY <1>2, <1>5, <2>1 DEF Waiting, NotQueued
  <2> QED
    BY <1>3, <1>7, <2>2 DEF KeptFor, InvitedTo, InTransitTo, InvitingTo
<1>10. ASSUME NEW b \in Nat, Exists(b)
       PROVE  /\ Participants(b)' \ {p} = Participants(b) \ {p}
              /\ p \in KeptFor(b)' => p \in KeptFor(b)
              /\ bg'[b].invited = bg[b].invited - (IF p \in KeptFor(b) /\ p \notin KeptFor(b)' THEN 1 ELSE 0)
  <2>1. bg[b].invited \in Int
    BY <1>10, GameIs DEF BgTypes
  <2> QED
    BY <1>3, <1>7, <1>9, <1>10, <2>1
<1> QED
  BY <1>3, <1>4, <1>6, <1>7, <1>8, <1>10, OneMoves

\* A player that is in the queue leaves it, and gives its place back if invited.
LEMMA LeavingKeeps ==
  ASSUME BgInv, NEW p \in Fighters, NEW q \in Queues, entry[q][p] # NotQueued,
         slot' = [slot EXCEPT ![p][q] = NoSlot], entry' = EntriesWithout(p, {q}),
         bg' = Uncounted(p, {q}, TRUE), scheduled' \subseteq Queues,
         removals' \subseteq removals,
         \A e \in removals : e \in removals' \/ (e.player = p /\ e.queue = q),
         UNCHANGED <<place, bgInstanceID, deserters, now, updating, todo>>
  PROVE  BgInv'
<1>1. PlayerOK(p) /\ BgTypes
  BY DEF BgInv
<1>2. /\ Updated(bg')
      /\ \A b \in Nat : Exists(b) =>
           /\ bg'[b].invited = bg[b].invited - (IF entry[q][p].bg = b THEN 1 ELSE 0)
           /\ bg'[b].players = bg[b].players
  <2>1. bg \in GameSeq /\ entry \in [Queues -> [Fighters -> Invitations]] /\ EntriesOf(p) /\ {q} \in SUBSET Queues
    BY <1>1 DEF BgTypes, PlayerOK
  <2>2. PICK queues \in SUBSET Queues : queues = {q}
    BY <2>1
  <2>3. PICK bgs : bgs = Uncounted(p, queues, TRUE)
    OBVIOUS
  <2>4. /\ Updated(bgs)
        /\ \A b \in Nat : Exists(b) =>
             /\ bgs[b].invited = bg[b].invited - (IF InvitedBy(p, queues, b) THEN 1 ELSE 0)
             /\ bgs[b].players = bg[b].players
    BY <2>1, <2>3, UncountedIs
  <2>5. bgs = bg'
    BY <2>2, <2>3
  <2>6. \A b : InvitedBy(p, queues, b) <=> entry[q][p].bg = b
    BY <2>2 DEF InvitedBy
  <2> QED
    BY <2>4, <2>5, <2>6
<1>3. \A b \in Nat : (Exists(b)' <=> Exists(b)) /\ (Exists(b) => Participants(b)' = Participants(b))
  BY <1>1, <1>2, UpdatedExists DEF BgTypes, Participants
<1>4. /\ entry' \in [Queues -> [Fighters -> Invitations]]
      /\ entry'[q][p] = NotQueued
      /\ \A r \in Queues : r # q => entry'[r][p] = entry[r][p]
      /\ \A r \in Queues, u \in Fighters : u # p => entry'[r][u] = entry[r][u]
  <2>1. NotQueued \in Invitations
    BY DEF NotQueued, Invitations
  <2>2. \A r \in Queues : entry[r] \in [Fighters -> Invitations]
    BY <1>1 DEF BgTypes
  <2>3. entry' = [r \in Queues |-> IF r = q THEN [entry[r] EXCEPT ![p] = NotQueued] ELSE entry[r]]
    BY DEF EntriesWithout
  <2>4. entry'[q] = [entry[q] EXCEPT ![p] = NotQueued] /\ \A r \in Queues : r # q => entry'[r] = entry[r]
    BY <2>3
  <2>7. entry'[q] \in [Fighters -> Invitations]
    <3>1. PICK f \in [Fighters -> Invitations] : f = entry[q]
      BY <2>2
    <3>2. [f EXCEPT ![p] = NotQueued] \in [Fighters -> Invitations]
      BY <2>1
    <3> QED
      BY <2>4, <3>1, <3>2
  <2>5. \A r \in Queues : entry'[r] \in [Fighters -> Invitations]
    BY <2>2, <2>4, <2>7
  <2>6. entry'[q][p] = NotQueued /\ \A u \in Fighters : u # p => entry'[q][u] = entry[q][u]
    BY <2>2, <2>4
  <2> QED
    BY <2>3, <2>4, <2>5, <2>6
<1>5. Len(bg) \in Nat /\ Len(bg') = Len(bg)
  BY <1>1, <1>2, GameSeqIs DEF BgTypes, Updated
<1>6. /\ slot' \in [Fighters -> [Queues -> -1 .. Len(bg)]]
      /\ \A r \in Queues : r # q => slot'[p][r] = slot[p][r]
      /\ \A u \in Fighters : u # p => slot'[u] = slot[u]
  BY <1>1, <1>5 DEF BgTypes, NoSlot
<1>7. BgTypes'
  <2>1. \A b \in todo' : Exists(b)'
    BY <1>1, <1>2, TodoKept
  <2> QED
    BY <1>1, <1>2, <1>4, <1>5, <1>6, <2>1 DEF BgTypes, Updated
<1>8. \A u \in Fighters \ {p} : LeftAlone(u)
  BY <1>4, <1>6 DEF LeftAlone
<1>9. EntriesOf(p)'
  <2> SUFFICES ASSUME NEW r \in Queues, NEW i \in Invitations, entry'[r][p] = i, i # NotQueued
               PROVE  /\ place'[p] # "offline" /\ i.bg \in Nat /\ slot'[p][r] = i.bg
                      /\ i.bg # 0 =>
                           Exists(i.bg)' /\ bg'[i.bg].queue = r /\ Removal(p, r, i) \in removals'
    BY DEF EntriesOf
  <2>1. r # q /\ entry[r][p] = i
    BY <1>4
  <2>2. Removal(p, r, i).queue # q
    BY <2>1 DEF Removal
  <2>3. /\ place[p] # "offline" /\ i.bg \in Nat /\ slot[p][r] = i.bg
        /\ i.bg # 0 => Exists(i.bg) /\ bg[i.bg].queue = r /\ Removal(p, r, i) \in removals
    BY <1>1, <2>1 DEF EntriesOf, PlayerOK
  <2>4. i.bg # 0 => Exists(i.bg)' /\ bg'[i.bg].queue = r
    BY <1>2, <1>3, <2>3 DEF Updated
  <2>5. i.bg # 0 => Removal(p, r, i) \in removals'
    BY <2>2, <2>3
  <2>6. slot'[p][r] = i.bg
    BY <1>6, <2>1, <2>3
  <2> QED
    BY <2>3, <2>4, <2>5, <2>6
<1>10. InsideOf(p)'
  <2> SUFFICES ASSUME NEW b \in Nat, Exists(b)', p \in Participants(b)'
               PROVE  /\ bgInstanceID'[p] = b /\ place'[p] \in {"inside", "offline"}
                      /\ entry'[bg'[b].queue][p] = NotQueued
    BY DEF InsideOf
  <2>1. Exists(b) /\ p \in Participants(b) /\ bg'[b].queue = bg[b].queue /\ bg[b].queue \in Queues
    BY <1>1, <1>2, <1>3, GameIs DEF Updated, BgTypes
  <2> QED
    BY <1>1, <1>4, <2>1 DEF InsideOf, PlayerOK
<1>11. TransitOf(p)'
  <2> SUFFICES ASSUME NEW b \in Nat, place'[p] = "transit", bgInstanceID'[p] = b
               PROVE  Exists(b)' /\ slot'[p][bg'[b].queue] = b /\ entry'[bg'[b].queue][p] = NotQueued
    BY DEF TransitOf
  <2>1. Exists(b) /\ slot[p][bg[b].queue] = b /\ entry[bg[b].queue][p] = NotQueued
    BY <1>1 DEF TransitOf, PlayerOK
  <2>2. bg'[b].queue = bg[b].queue /\ bg[b].queue \in Queues /\ bg[b].queue # q
    BY <1>1, <1>2, <2>1, GameIs DEF Updated, BgTypes
  <2>3. PICK r \in Queues : r = bg[b].queue /\ r # q /\ r = bg'[b].queue
    BY <2>2
  <2>4. entry'[r][p] = NotQueued /\ slot'[p][r] = b
    BY <1>4, <1>6, <2>1, <2>3
  <2> QED
    BY <1>3, <2>1, <2>3, <2>4
<1>12. ASSUME NEW b \in Nat, Exists(b)
       PROVE  /\ Participants(b)' \ {p} = Participants(b) \ {p}
              /\ p \in KeptFor(b)' => p \in KeptFor(b)
              /\ bg'[b].invited = bg[b].invited - (IF p \in KeptFor(b) /\ p \notin KeptFor(b)' THEN 1 ELSE 0)
  <2>1. b # 0 /\ bg[b].queue \in Queues /\ NotQueued.bg # b
    BY <1>1, <1>12, GameIs DEF BgTypes, NotQueued
  <2>2. \A r \in Queues : entry'[r][p].bg = b => entry[r][p].bg = b
    BY <1>4, <2>1
  <2>3. p \in KeptFor(b)' => p \in KeptFor(b)
    BY <1>3, <1>12, <2>2 DEF KeptFor, InvitedTo, InTransitTo, InvitingTo
  <2>4. CASE entry[q][p].bg = b
    <3>1. \A r \in Queues : entry[r][p].bg = b => r = q
      BY <1>1, <1>12, <2>4, NotInvited DEF PlayerOK
    <3>2. \A r \in Queues : entry'[r][p].bg # b
      BY <1>4, <2>1, <3>1
    <3>3. q = bg[b].queue /\ entry[q][p] # NotQueued
      BY <1>1, <1>12, <2>4, NotInvited DEF PlayerOK
    <3>4. p \notin Participants(b)
      BY <1>1, <1>12, <3>3 DEF PlayerOK, InsideOf
    <3>5. ~(place[p] = "transit" /\ bgInstanceID[p] = b)
      BY <1>1, <3>3 DEF PlayerOK, TransitOf
    <3>6. p \in KeptFor(b) /\ p \notin KeptFor(b)'
      BY <1>3, <1>12, <2>4, <3>2, <3>4, <3>5 DEF KeptFor, InvitedTo, InTransitTo, InvitingTo
    <3> QED
      BY <1>2, <1>3, <1>12, <2>4, <3>6
  <2>5. CASE entry[q][p].bg # b
    <3>1. \A r \in Queues : entry'[r][p].bg = b <=> entry[r][p].bg = b
      BY <1>4, <2>1, <2>5
    <3>2. p \in KeptFor(b)' <=> p \in KeptFor(b)
      BY <1>3, <1>12, <3>1 DEF KeptFor, InvitedTo, InTransitTo, InvitingTo
    <3> QED
      BY <1>2, <1>3, <1>12, <2>5, <3>2
  <2> QED
    BY <2>4, <2>5
<1>13. PlayerOK(p)'
  BY <1>9, <1>10, <1>11 DEF PlayerOK
<1>14. \A e \in removals : e \in removals' \/ e.player = p
  OBVIOUS
<1> QED
  BY <1>2, <1>7, <1>8, <1>12, <1>13, <1>14, OneMoves

\* HandleBattleFieldPortOpcode without AcceptedInvite gives the place back.
LEMMA LeaveQueueKeeps ==
  ASSUME BgInv, NEW p \in Fighters, NEW q \in Queues, LeaveQueue(p, q)
  PROVE  BgInv'
<1>1. scheduled' \subseteq Queues
  BY DEF LeaveQueue, BgInv, BgTypes
<1> QED
  BY <1>1, LeavingKeeps DEF LeaveQueue

\* BGQueueRemoveEvent gives the place back if the invitation is the same one.
LEMMA BgRemovalKeeps ==
  ASSUME BgInv, NEW e \in removals, ExecuteRemoval(e)
  PROVE  BgInv'
<1>1. e \in Removals /\ e.player \in Fighters /\ e.queue \in Queues
  BY DEF BgInv, BgTypes, Removals
<1>2. CASE place[e.player] # "offline" /\ slot[e.player][e.queue] # NoSlot /\ IsPlayerInvited(e)
  <2>1. entry[e.queue][e.player] # NotQueued
    BY <1>1, <1>2 DEF IsPlayerInvited, NotQueued, Removals
  <2>2. scheduled' \subseteq Queues
    BY <1>1, <1>2 DEF ExecuteRemoval, BgInv, BgTypes
  <2>3. \A f \in removals : f \in removals' \/ (f.player = e.player /\ f.queue = e.queue)
    BY DEF ExecuteRemoval
  <2> QED
    BY <1>1, <1>2, <2>1, <2>2, <2>3, LeavingKeeps DEF ExecuteRemoval
<1>3. CASE ~(place[e.player] # "offline" /\ slot[e.player][e.queue] # NoSlot /\ IsPlayerInvited(e))
  <2> DEFINE p == e.player
  <2>1. /\ UNCHANGED <<slot, entry, bg, scheduled, place, bgInstanceID, deserters, now, updating, todo>>
        /\ removals' = removals \ {e}
    BY <1>3 DEF ExecuteRemoval
  <2>2. BgTypes /\ PlayerOK(p)
    BY <1>1 DEF BgInv
  <2>3. Updated(bg') /\ \A b \in Nat : (Exists(b)' <=> Exists(b)) /\ Participants(b)' = Participants(b)
    BY <2>1, <2>2, SameGames
  <2>4. BgTypes'
    <3>1. \A b \in todo' : Exists(b)'
      BY <2>1, <2>2, <2>3, TodoKept
    <3> QED
      BY <2>1, <2>2, <3>1 DEF BgTypes
  <2>5. EntriesOf(p)'
    <3> SUFFICES ASSUME NEW q \in Queues, NEW i \in Invitations, entry[q][p] = i, i # NotQueued, i.bg # 0
                 PROVE  Removal(p, q, i) \in removals'
      BY <2>1, <2>2, <2>3 DEF EntriesOf, PlayerOK
    <3>1. Removal(p, q, i) \in removals /\ place[p] # "offline" /\ slot[p][q] = i.bg /\ i.bg \in Nat
      BY <2>2 DEF EntriesOf, PlayerOK
    <3>2. ASSUME Removal(p, q, i) = e PROVE FALSE
      <4>1. e.queue = q /\ e.bg = i.bg /\ e.removeTime = i.removeTime
        BY <3>2 DEF Removal
      <4>2. IsPlayerInvited(e)
        BY <4>1 DEF IsPlayerInvited, Invitations
      <4>3. place[e.player] # "offline" /\ slot[e.player][e.queue] # NoSlot
        BY <3>1, <4>1 DEF NoSlot
      <4> QED
        BY <1>3, <4>2, <4>3
    <3> QED
      BY <2>1, <3>1, <3>2
  <2>6. InsideOf(p)' /\ TransitOf(p)'
    BY <2>1, <2>2, <2>3 DEF PlayerOK, InsideOf, TransitOf
  <2>7. ASSUME NEW b \in Nat, Exists(b)
        PROVE  /\ Participants(b)' \ {p} = Participants(b) \ {p}
               /\ p \in KeptFor(b)' => p \in KeptFor(b)
               /\ bg'[b].invited = bg[b].invited - (IF p \in KeptFor(b) /\ p \notin KeptFor(b)' THEN 1 ELSE 0)
    <3>1. bg[b].invited \in Int
      BY <2>2, <2>7, GameIs DEF BgTypes
    <3>2. KeptFor(b)' = KeptFor(b)
      BY <2>1, <2>3 DEF KeptFor, InvitedTo, InTransitTo, InvitingTo
    <3> QED
      BY <2>1, <2>3, <3>1, <3>2
  <2>8. \A r \in Fighters \ {p} : LeftAlone(r)
    BY <2>1 DEF LeftAlone
  <2>9. \A f \in removals : f \in removals' \/ f.player = p
    BY <2>1
  <2>10. PlayerOK(p)'
    BY <2>5, <2>6 DEF PlayerOK
  <2> HIDE DEF p
  <2>11. p \in Fighters
    BY <1>1 DEF p
  <2> QED
    BY <2>3, <2>4, <2>7, <2>8, <2>9, <2>10, <2>11, OneMoves
<1> QED
  BY <1>2, <1>3

\* Steps in which no player moves and no battleground goes.
LEMMA NobodyMoves ==
  ASSUME BgInv, BgTypes', Updated(bg'), UNCHANGED <<place, bgInstanceID, slot, entry, removals>>,
         \A b \in Nat : Exists(b) => bg'[b].players = bg[b].players /\ bg'[b].invited = bg[b].invited
  PROVE  BgInv'
<1> DEFINE P == {}
<1>1. P \in SUBSET Fighters /\ \A r \in Fighters \ P : LeftAlone(r)
  BY DEF LeftAlone
<1>2. \A b \in Nat : Exists(b)' <=> Exists(b)
  BY UpdatedExists DEF BgInv, BgTypes
<1>3. \A b \in Nat : Exists(b) => (Exists(b)' /\ bg'[b].queue = bg[b].queue) \/ KeptFor(b) = {}
  BY <1>2 DEF Updated
<1>4. ASSUME NEW b \in Nat, Exists(b)'
      PROVE  /\ Exists(b)
             /\ Participants(b)' \ P = Participants(b) \ P
             /\ \A r \in P : r \in KeptFor(b)' => r \in KeptFor(b)
             /\ bg'[b].invited = bg[b].invited - Cardinality({r \in P : r \in KeptFor(b) /\ r \notin KeptFor(b)'})
  <2>1. Exists(b)
    BY <1>2, <1>4
  <2>2. {r \in P : r \in KeptFor(b) /\ r \notin KeptFor(b)'} = {}
    OBVIOUS
  <2>3. bg[b].invited \in Int
    BY <2>1, GameIs DEF BgInv, BgTypes
  <2>4. Cardinality({r \in P : r \in KeptFor(b) /\ r \notin KeptFor(b)'}) = 0
    BY <2>2, FS_EmptySet
  <2> QED
    BY <2>1, <2>3, <2>4 DEF Participants
<1>5. \A e \in removals : e \in removals' \/ e.player \in P
  OBVIOUS
<1>6. \A r \in P : PlayerOK(r)'
  OBVIOUS
<1> HIDE DEF P
<1> QED
  BY <1>1, <1>3, <1>4, <1>5, <1>6, SomeMove

\* Who is in a battleground is there for that alone.
LEMMA InsideOnly ==
  ASSUME BgTypes, NEW p \in Fighters, PlayerOK(p), NEW b \in Nat, Exists(b), p \in Participants(b)
  PROVE  /\ bgInstanceID[p] = b /\ place[p] \in {"inside", "offline"}
         /\ entry[bg[b].queue][p] = NotQueued
         /\ \A q \in Queues : entry[q][p].bg # b
<1>1. /\ bgInstanceID[p] = b /\ place[p] \in {"inside", "offline"}
      /\ entry[bg[b].queue][p] = NotQueued
  BY DEF PlayerOK, InsideOf
<1> QED
  BY <1>1, NotInvited DEF PlayerOK

\* Those of P that are inside leave; those that are online are sent to the world.
LEMMA LeaversKeep ==
  ASSUME BgInv, NEW b \in Nat, Exists(b), NEW P \in SUBSET Fighters,
         \A p \in P : place[p] # "transit" /\ (place[p] # "offline" => bgInstanceID[p] = b),
         Updated(bg'),
         \A c \in Nat : Exists(c) /\ c # b => Participants(c)' = Participants(c) /\ bg'[c].invited = bg[c].invited,
         Participants(b)' = Participants(b) \ P,
         bg'[b].invited = bg[b].invited - Cardinality(P \intersect Participants(b)),
         slot' = SlotsLeft(b, P), scheduled' \subseteq Queues,
         place' = [p \in Fighters |-> IF p \in P /\ place[p] # "offline" THEN "world" ELSE place[p]],
         bgInstanceID' = [p \in Fighters |-> IF p \in P /\ place[p] # "offline" THEN 0 ELSE bgInstanceID[p]],
         deserters' \subseteq Fighters, todo' \subseteq todo, UNCHANGED <<entry, removals, now, updating>>
  PROVE  BgInv'
<1>1. BgTypes /\ \A p \in Fighters : PlayerOK(p)
  BY DEF BgInv
<1>2. Len(bg) \in Nat /\ Len(bg') = Len(bg) /\ bg[b].queue \in Queues
  BY <1>1, GameSeqIs, GameIs DEF BgTypes, Updated
<1>3. \A p \in Fighters : slot'[p] = IF p \in P \intersect Participants(b) /\ place[p] # "offline"
                                     THEN [slot[p] EXCEPT ![bg[b].queue] = NoSlot] ELSE slot[p]
  BY DEF SlotsLeft
<1>4. slot' \in [Fighters -> [Queues -> -1 .. Len(bg)]]
  <2>1. ASSUME NEW p \in Fighters PROVE slot'[p] \in [Queues -> -1 .. Len(bg)]
    <3>1. slot[p] \in [Queues -> -1 .. Len(bg)]
      BY <1>1 DEF BgTypes
    <3>2. PICK f \in [Queues -> -1 .. Len(bg)] : f = slot[p]
      BY <3>1
    <3>3. NoSlot \in -1 .. Len(bg)
      BY <1>2 DEF NoSlot
    <3>4. [f EXCEPT ![bg[b].queue] = NoSlot] \in [Queues -> -1 .. Len(bg)]
      BY <3>3
    <3> QED
      BY <1>3, <3>2, <3>4
  <2>2. slot' = [p \in Fighters |-> slot'[p]]
    BY DEF SlotsLeft
  <2> QED
    BY <2>1, <2>2
<1>5. BgTypes'
  <2>1. \A c \in todo' : Exists(c)'
    BY <1>1, TodoKept
  <2>2. place' \in [Fighters -> Places]
    BY <1>1 DEF BgTypes, Places
  <2>3. bgInstanceID' \in [Fighters -> 0 .. Len(bg')]
    BY <1>1, <1>2 DEF BgTypes
  <2>4. bg' \in GameSeq
    BY DEF Updated
  <2> QED
    BY <1>1, <1>2, <1>4, <2>1, <2>2, <2>3, <2>4 DEF BgTypes
<1>6. \A r \in Fighters \ P : LeftAlone(r)
  BY <1>3 DEF LeftAlone
<1>7. \A c \in Nat : Exists(c)' <=> Exists(c)
  BY <1>1, UpdatedExists DEF BgTypes
<1>8. ASSUME NEW p \in P PROVE PlayerOK(p)'
  <2>1. /\ PlayerOK(p) /\ p \in Fighters /\ place[p] # "transit"
        /\ place[p] = "offline" => place'[p] = "offline" /\ bgInstanceID'[p] = bgInstanceID[p]
        /\ place[p] # "offline" => place'[p] = "world" /\ bgInstanceID'[p] = 0 /\ bgInstanceID[p] = b
    BY <1>1
  <2>2. \A c \in Nat : Exists(c) /\ p \in Participants(c)' => c # b /\ p \in Participants(c)
    OBVIOUS
  <2>3. EntriesOf(p)'
    <3> SUFFICES ASSUME NEW q \in Queues, NEW i \in Invitations, entry[q][p] = i, i # NotQueued
                 PROVE  /\ place'[p] # "offline" /\ i.bg \in Nat /\ slot'[p][q] = i.bg
                        /\ i.bg # 0 =>
                             Exists(i.bg)' /\ bg'[i.bg].queue = q /\ Removal(p, q, i) \in removals'
      BY DEF EntriesOf
    <3>1. /\ place[p] # "offline" /\ i.bg \in Nat /\ slot[p][q] = i.bg
          /\ i.bg # 0 => Exists(i.bg) /\ bg[i.bg].queue = q /\ Removal(p, q, i) \in removals
      BY <2>1 DEF EntriesOf, PlayerOK
    <3>2. p \in Participants(b) => q # bg[b].queue
      BY <2>1, <1>1, InsideOnly
    <3>3. slot[p] \in [Queues -> -1 .. Len(bg)]
      BY <1>1 DEF BgTypes
    <3>4. slot'[p][q] = i.bg
      BY <1>3, <2>1, <3>1, <3>2, <3>3
    <3>5. i.bg # 0 => Exists(i.bg)' /\ bg'[i.bg].queue = q
      BY <1>7, <3>1 DEF Updated
    <3> QED
      BY <2>1, <3>1, <3>4, <3>5
  <2>4. InsideOf(p)'
    <3> SUFFICES ASSUME NEW c \in Nat, Exists(c)', p \in Participants(c)'
                 PROVE  /\ bgInstanceID'[p] = c /\ place'[p] \in {"inside", "offline"}
                        /\ entry'[bg'[c].queue][p] = NotQueued
      BY DEF InsideOf
    <3>1. Exists(c) /\ c # b /\ p \in Participants(c) /\ bg'[c].queue = bg[c].queue
      BY <1>7, <2>2 DEF Updated
    <3>2. bgInstanceID[p] = c /\ place[p] \in {"inside", "offline"} /\ entry[bg[c].queue][p] = NotQueued
      BY <1>1, <2>1, <3>1, InsideOnly
    <3> QED
      BY <2>1, <3>1, <3>2
  <2>5. TransitOf(p)'
    BY <2>1 DEF TransitOf
  <2> QED
    BY <2>3, <2>4, <2>5 DEF PlayerOK
<1>9. ASSUME NEW c \in Nat, Exists(c)'
      PROVE  /\ Exists(c)
             /\ Participants(c)' \ P = Participants(c) \ P
             /\ \A r \in P : r \in KeptFor(c)' => r \in KeptFor(c)
             /\ bg'[c].invited = bg[c].invited - Cardinality({r \in P : r \in KeptFor(c) /\ r \notin KeptFor(c)'})
  <2>1. Exists(c) /\ bg[c].invited \in Int
    BY <1>1, <1>7, <1>9, GameIs DEF BgTypes
  <2>2. Participants(c)' = IF c = b THEN Participants(c) \ P ELSE Participants(c)
    BY <2>1
  <2>3. InvitedTo(c)' = InvitedTo(c)
    BY DEF InvitedTo, InvitingTo
  <2>4. \A r \in P : r \notin InTransitTo(c) /\ r \notin InTransitTo(c)'
    BY DEF InTransitTo
  <2>5. \A r \in P : r \in KeptFor(c)' => r \in KeptFor(c)
    BY <2>2, <2>3, <2>4 DEF KeptFor
  <2>6. CASE c = b
    <3>1. \A r \in P : r \in Participants(c) => r \notin InvitedTo(c)
      BY <1>1, <2>1, InsideOnly DEF InvitedTo, InvitingTo
    <3>2. {r \in P : r \in KeptFor(c) /\ r \notin KeptFor(c)'} = P \intersect Participants(c)
      BY <2>2, <2>3, <2>4, <2>6, <3>1 DEF KeptFor
    <3> QED
      BY <2>1, <2>2, <2>5, <2>6, <3>2
  <2>7. CASE c # b
    <3>1. {r \in P : r \in KeptFor(c) /\ r \notin KeptFor(c)'} = {}
      BY <2>2, <2>3, <2>4, <2>7 DEF KeptFor
    <3>2. Cardinality({r \in P : r \in KeptFor(c) /\ r \notin KeptFor(c)'}) = 0
      BY <3>1, FS_EmptySet
    <3> QED
      BY <2>1, <2>2, <2>5, <2>7, <3>2
  <2> QED
    BY <2>6, <2>7
<1>10. \A c \in Nat : Exists(c) => (Exists(c)' /\ bg'[c].queue = bg[c].queue) \/ KeptFor(c) = {}
  BY <1>7 DEF Updated
<1>11. \A e \in removals : e \in removals' \/ e.player \in P
  OBVIOUS
<1> QED
  BY <1>5, <1>6, <1>8, <1>9, <1>10, <1>11, SomeMove

\* WithoutPlayers changes one battleground, which goes on to exist.
LEMMA WithoutUpdates ==
  ASSUME bg \in GameSeq, NEW b \in Nat, Exists(b), NEW players,
         NEW new, new = WithoutPlayers(bg, b, players)
  PROVE  Updated(new) /\ LeftBy(bg, b, players, new)
<1>1. b \in 1 .. Len(bg) /\ bg[b] \in Games
  BY GameIs
<1>2. LeftBy(bg, b, players, new)
  BY <1>1, WithoutIs
<1>3. \A c \in Nat : Exists(c) => c \in 1 .. Len(bg) /\ bg[c] \in Games
  BY GameIs
<1>4. Updated(new)
  BY <1>2, <1>3 DEF Updated, LeftBy
<1> QED
  BY <1>2, <1>4

\* One of the battlegrounds is replaced by another state of it.
LEMMA ReplacedUpdates ==
  ASSUME bg \in GameSeq, NEW bgs, Updated(bgs), NEW b \in Nat, Exists(b),
         NEW h \in Games, h.queue = bg[b].queue, NEW new, new = [bgs EXCEPT ![b] = h]
  PROVE  Updated(new) /\ Replacement(bgs, b, h, new)
<1>1. bgs \in GameSeq /\ b \in 1 .. Len(bgs) /\ h \in Games \union {Deleted}
  BY GameIs DEF Updated
<1>2. Replacement(bgs, b, h, [bgs EXCEPT ![b] = h])
  BY <1>1, Replaced
<1>3. Replacement(bgs, b, h, new)
  BY <1>2
<1>4. \A c \in Nat : Exists(c) => c \in 1 .. Len(bgs)
  BY GameIs DEF Updated
<1> QED
  BY <1>1, <1>3, <1>4 DEF Updated, Replacement

\* RemovePlayerAtLeave of players that are not on a loading screen.
LEMMA PlayersLeave ==
  ASSUME BgInv, NEW b \in Nat, Exists(b), NEW P \in SUBSET Fighters,
         \A p \in P : place[p] # "transit" /\ (place[p] # "offline" => bgInstanceID[p] = b),
         RemovePlayersAtLeave(b, P),
         deserters' \subseteq Fighters, todo' \subseteq todo, UNCHANGED <<entry, removals, now, updating>>
  PROVE  BgInv'
<1>1. bg \in GameSeq /\ scheduled \subseteq Queues /\ bg[b].queue \in Queues
  BY GameIs DEF BgInv, BgTypes
<1>2. PICK new : new = bg'
  OBVIOUS
<1>3. new = WithoutPlayers(bg, b, P)
  BY <1>2 DEF RemovePlayersAtLeave
<1>4. Updated(new) /\ LeftBy(bg, b, P, new)
  BY <1>1, <1>3, WithoutUpdates
<1>5. /\ Updated(bg')
      /\ \A c \in Nat : Exists(c) /\ c # b => Participants(c)' = Participants(c) /\ bg'[c].invited = bg[c].invited
      /\ Participants(b)' = Participants(b) \ P
      /\ bg'[b].invited = bg[b].invited - Cardinality(P \intersect Participants(b))
  BY <1>1, <1>2, <1>4, GameIs DEF Participants, LeftBy
<1>6. slot' = SlotsLeft(b, P) /\ scheduled' \subseteq Queues
  BY <1>1 DEF RemovePlayersAtLeave, ScheduledAfter
<1>7. /\ place' = [p \in Fighters |-> IF p \in P /\ place[p] # "offline" THEN "world" ELSE place[p]]
      /\ bgInstanceID' = [p \in Fighters |-> IF p \in P /\ place[p] # "offline" THEN 0 ELSE bgInstanceID[p]]
  BY DEF RemovePlayersAtLeave
<1> QED
  BY <1>5, <1>6, <1>7, LeaversKeep

\* Player::LeaveBattleground.
LEMMA LeaveBattlegroundKeeps ==
  ASSUME BgInv, NEW p \in Fighters, LeaveBattleground(p)
  PROVE  BgInv'
<1>1. PICK P \in SUBSET Fighters : P = {p}
  OBVIOUS
<1>2. PICK b \in Nat : b = bgInstanceID[p]
  BY GameSeqIs DEF BgInv, BgTypes
<1>3. deserters' \subseteq Fighters
  BY DEF LeaveBattleground, BgInv, BgTypes
<1>4. \A r \in P : place[r] # "transit" /\ (place[r] # "offline" => bgInstanceID[r] = b)
  BY <1>1, <1>2 DEF LeaveBattleground, MayAct
<1>5. Exists(b) /\ RemovePlayersAtLeave(b, P)
  BY <1>1, <1>2 DEF LeaveBattleground
<1>6. todo' \subseteq todo /\ UNCHANGED <<entry, removals, now, updating>>
  BY DEF LeaveBattleground
<1> QED
  BY <1>3, <1>4, <1>5, <1>6, PlayersLeave

\* A battleground that is being updated exists.
LEMMA UpdatedOne ==
  ASSUME BgInv, NEW b \in DOMAIN bg, UpdateBattleground(b)
  PROVE  /\ b \in Nat /\ Exists(b) /\ todo' \subseteq todo /\ b \notin todo'
         /\ updating' = updating /\ updating /\ UNCHANGED <<entry, removals, deserters, now>>
BY GameIs, GameSeqIs DEF UpdateBattleground, BgInv, BgTypes

\* _ProcessLeave, of everybody at once.
LEMMA ProcessLeaveKeeps ==
  ASSUME BgInv, NEW b \in DOMAIN bg, UpdateBattleground(b), ProcessLeave(b)
  PROVE  BgInv'
<1>1. /\ b \in Nat /\ Exists(b) /\ todo' \subseteq todo /\ b \notin todo'
      /\ updating' = updating /\ updating /\ UNCHANGED <<entry, removals, deserters, now>>
  BY UpdatedOne
<1>2. PICK P \in SUBSET Fighters : P = Participants(b)
  BY <1>1, GameIs DEF BgInv, BgTypes
<1>3. \A r \in P : place[r] # "transit" /\ (place[r] # "offline" => bgInstanceID[r] = b)
  BY <1>1, <1>2, InsideOnly DEF BgInv
<1>4. RemovePlayersAtLeave(b, P)
  BY <1>2 DEF ProcessLeave
<1>5. deserters' \subseteq Fighters
  BY <1>1 DEF BgInv, BgTypes
<1> QED
  BY <1>1, <1>3, <1>4, <1>5, PlayersLeave

\* _ProcessOfflineQueue, whether the player is back or not.
LEMMA OfflineQueueKeeps ==
  ASSUME BgInv, NEW b \in DOMAIN bg, UpdateBattleground(b), ProcessOfflineQueue(b)
  PROVE  BgInv'
<1>1. /\ b \in Nat /\ Exists(b) /\ todo' \subseteq todo /\ b \notin todo'
      /\ updating' = updating /\ updating /\ UNCHANGED <<entry, removals, deserters, now>>
  BY UpdatedOne
<1>2. /\ BgTypes /\ \A r \in Fighters : PlayerOK(r)
      /\ bg \in GameSeq /\ bg[b].offline \in Seq(Fighters) /\ bg[b].queue \in Queues
  BY <1>1, GameIs DEF BgInv, BgTypes
<1>3. PICK p : p = Head(bg[b].offline)
  OBVIOUS
<1>4. p \in Fighters /\ p \in Participants(b) /\ bg[b].offline # <<>>
  BY <1>2, <1>3 DEF ProcessOfflineQueue, OfflineDue
<1>5. PICK P \in SUBSET Fighters : P = {p}
  BY <1>4
<1>6. PICK without : without = WithoutPlayers(bg, b, P)
  OBVIOUS
<1>7. Updated(without) /\ LeftBy(bg, b, P, without)
  BY <1>1, <1>2, <1>6, WithoutUpdates
<1>8. PICK g \in Games : g = without[b] /\ g.queue = bg[b].queue
  BY <1>1, <1>7 DEF Updated
<1>9. PICK o \in Seq(Fighters) : o = Tail(g.offline)
  <2>1. g.offline = bg[b].offline
    BY <1>7, <1>8 DEF LeftBy
  <2>2. PICK s \in Seq(Fighters) : s = g.offline /\ s # <<>>
    BY <1>2, <1>4, <2>1
  <2>3. Tail(s) \in Seq(Fighters)
    BY <2>2
  <2> QED
    BY <2>2, <2>3
<1>10. PICK h : h = [g EXCEPT !.offline = o]
  OBVIOUS
<1>11. h \in Games /\ h.queue = g.queue /\ h.players = g.players /\ h.invited = g.invited
  BY <1>10 DEF Games
<1>12. PICK new : new = bg'
  OBVIOUS
<1>13. new = [without EXCEPT ![b] = h]
  <2>1. without \in GameSeq /\ b \in DOMAIN without
    BY <1>1, <1>7, GameIs, GameSeqIs, <1>2 DEF Updated
  <2> QED
    BY <1>3, <1>5, <1>6, <1>8, <1>9, <1>10, <1>12, <2>1 DEF ProcessOfflineQueue
<1>14. Updated(new) /\ Replacement(without, b, h, new)
  BY <1>1, <1>2, <1>7, <1>8, <1>11, <1>13, ReplacedUpdates
<1>15. /\ Updated(bg')
       /\ \A c \in Nat : Exists(c) /\ c # b => Participants(c)' = Participants(c) /\ bg'[c].invited = bg[c].invited
       /\ Participants(b)' = Participants(b) \ P
       /\ bg'[b].invited = bg[b].invited - Cardinality(P \intersect Participants(b))
  BY <1>1, <1>2, <1>7, <1>8, <1>11, <1>12, <1>14, GameIs DEF Participants, LeftBy, Replacement, Updated
<1>16. \A r \in P : place[r] # "transit" /\ (place[r] # "offline" => bgInstanceID[r] = b)
  BY <1>1, <1>2, <1>4, <1>5, InsideOnly
<1>17. slot' = SlotsLeft(b, P) /\ scheduled' \subseteq Queues
  BY <1>2, <1>3, <1>5 DEF ProcessOfflineQueue, ScheduledAfter, BgTypes
<1>18. /\ place' = [r \in Fighters |-> IF r \in P /\ place[r] # "offline" THEN "world" ELSE place[r]]
       /\ bgInstanceID' = [r \in Fighters |-> IF r \in P /\ place[r] # "offline" THEN 0 ELSE bgInstanceID[r]]
  <2>1. place \in [Fighters -> Places] /\ bgInstanceID \in [Fighters -> 0 .. Len(bg)]
    BY <1>2 DEF BgTypes
  <2>2. CASE place[p] # "offline"
    <3>1. place' = [place EXCEPT ![p] = "world"] /\ bgInstanceID' = [bgInstanceID EXCEPT ![p] = 0]
      BY <1>3, <2>2 DEF ProcessOfflineQueue
    <3> QED
      BY <1>4, <1>5, <2>1, <2>2, <3>1
  <2>3. CASE place[p] = "offline"
    <3>1. place' = place /\ bgInstanceID' = bgInstanceID
      BY <1>3, <2>3 DEF ProcessOfflineQueue
    <3> QED
      BY <1>4, <1>5, <2>1, <2>3, <3>1
  <2> QED
    BY <2>2, <2>3
<1>19. deserters' \subseteq Fighters
  BY <1>1, <1>2 DEF BgTypes
<1> QED
  BY <1>1, <1>15, <1>16, <1>17, <1>18, <1>19, LeaversKeep

\* A battleground goes on to its next state.
LEMMA StatusChanges ==
  ASSUME BgInv, NEW b \in Nat, Exists(b), NEW to \in {"progress", "leave"},
         bg' = [bg EXCEPT ![b].status = to],
         deserters' = deserters, todo' \subseteq todo, ~updating => todo' = todo,
         UNCHANGED <<place, bgInstanceID, slot, entry, removals, scheduled, now, updating>>
  PROVE  BgInv'
<1>1. BgTypes /\ bg \in GameSeq /\ b \in DOMAIN bg
  BY GameIs DEF BgInv, BgTypes
<1>2. PICK g \in Games : g = bg[b]
  BY <1>1, GameIs
<1>3. PICK h : h = [g EXCEPT !.status = to]
  OBVIOUS
<1>4. h \in Games /\ h.queue = g.queue /\ h.players = g.players /\ h.invited = g.invited
  BY <1>3 DEF Games
<1>5. PICK new : new = bg'
  OBVIOUS
<1>6. new = [bg EXCEPT ![b] = h]
  BY <1>1, <1>2, <1>3, <1>5
<1>7. Updated(bg)
  BY <1>1, SameUpdated
<1>8. Updated(new) /\ Replacement(bg, b, h, new)
  BY <1>1, <1>2, <1>4, <1>6, <1>7, ReplacedUpdates
<1>9. \A c \in Nat : Exists(c) => bg'[c].players = bg[c].players /\ bg'[c].invited = bg[c].invited
  BY <1>1, <1>2, <1>4, <1>5, <1>8, GameIs DEF Replacement
<1>10. Updated(bg')
  BY <1>5, <1>8
<1>11. BgTypes'
  <2>1. \A c \in todo' : Exists(c)'
    BY <1>1, <1>10, TodoKept
  <2> QED
    BY <1>1, <1>10, <2>1 DEF BgTypes, Updated
<1> QED
  BY <1>9, <1>10, <1>11, NobodyMoves

\* EndBattleground keeps everybody in.
LEMMA EndBattlegroundKeeps ==
  ASSUME BgInv, NEW b \in DOMAIN bg, EndBattleground(b)
  PROVE  BgInv'
<1>1. b \in Nat
  BY GameSeqIs DEF BgInv, BgTypes
<1> QED
  BY <1>1, StatusChanges DEF EndBattleground

\* _ProcessJoin changes the status alone.
LEMMA StartProgressKeeps ==
  ASSUME BgInv, NEW b \in DOMAIN bg, UpdateBattleground(b), StartProgress(b)
  PROVE  BgInv'
BY UpdatedOne, StatusChanges DEF StartProgress

\* Steps that change neither players nor battlegrounds.
LEMMA IdleStepsKeep ==
  ASSUME BgInv, bg' = bg, UNCHANGED <<place, bgInstanceID, slot, entry, removals>>,
         scheduled' \subseteq Queues, deserters' \subseteq Fighters, now' \in 0 .. MaxClock,
         updating' \in BOOLEAN, \A b \in todo' : Exists(b), ~updating' => todo' = {}
  PROVE  BgInv'
<1>1. BgTypes /\ bg \in GameSeq
  BY DEF BgInv, BgTypes
<1>2. Updated(bg') /\ \A b : Exists(b)' <=> Exists(b)
  BY <1>1, SameUpdated DEF Exists
<1>3. BgTypes'
  BY <1>1, <1>2 DEF BgTypes
<1> QED
  BY <1>2, <1>3, NobodyMoves

\* The steps that change nothing the invariant is about.
LEMMA OtherStepsKeep ==
  ASSUME BgInv,
         \/ \E p \in Fighters : DeserterEnds(p)
         \/ \E b \in DOMAIN bg : UpdateBattleground(b) /\ NothingToDo(b)
         \/ StartUpdate \/ EndUpdate \/ UNCHANGED bgVars
  PROVE  BgInv'
<1>1. BgTypes
  BY DEF BgInv
<1>2. ASSUME NEW p \in Fighters, DeserterEnds(p) PROVE BgInv'
  BY <1>1, <1>2, IdleStepsKeep DEF DeserterEnds, BgTypes
<1>3. ASSUME NEW b \in DOMAIN bg, UpdateBattleground(b), NothingToDo(b) PROVE BgInv'
  BY <1>1, <1>3, UpdatedOne, IdleStepsKeep DEF NothingToDo, BgTypes
<1>4. CASE StartUpdate
  <2>1. now' \in 0 .. MaxClock
    BY <1>1, <1>4, QueueAssumption DEF StartUpdate, BgTypes
  <2>2. \A b \in todo' : Exists(b)
    BY <1>4 DEF StartUpdate
  <2> QED
    BY <1>1, <1>4, <2>1, <2>2, IdleStepsKeep DEF StartUpdate, BgTypes
<1>5. CASE EndUpdate
  BY <1>1, <1>5, IdleStepsKeep DEF EndUpdate, BgTypes
<1>6. CASE UNCHANGED bgVars
  BY <1>1, <1>6, IdleStepsKeep DEF bgVars, BgTypes
<1> QED
  BY <1>2, <1>3, <1>4, <1>5, <1>6

\* Nobody refers to a battleground that is deleted.
LEMMA DeleteKeeps ==
  ASSUME BgInv, NEW b \in DOMAIN bg, UpdateBattleground(b), DeleteEmpty(b)
  PROVE  BgInv'
<1>1. /\ b \in Nat /\ Exists(b) /\ todo' \subseteq todo /\ b \notin todo'
      /\ updating' = updating /\ updating /\ UNCHANGED <<entry, removals, deserters, now>>
  BY UpdatedOne
<1>2. BgTypes /\ bg \in GameSeq /\ b \in 1 .. Len(bg)
  BY <1>1, GameIs DEF BgInv, BgTypes
<1>3. KeptFor(b) = {}
  <2>1. Cardinality(KeptFor(b)) = 0
    BY <1>1 DEF DeleteEmpty, BgInv, PlacesKept
  <2> QED
    BY <2>1, KeptFinite, FS_EmptySet
<1>4. Replacement(bg, b, Deleted, bg')
  <2>1. Replacement(bg, b, Deleted, [bg EXCEPT ![b] = Deleted])
    BY <1>2, Replaced
  <2> QED
    BY <2>1 DEF DeleteEmpty
<1>5. ~Exists(b)' /\ \A c \in Nat : c # b => (Exists(c)' <=> Exists(c)) /\ (Exists(c) => bg'[c] = bg[c])
  BY <1>2, <1>4 DEF Replacement, Exists, Deleted
<1>6. BgTypes'
  <2>1. \A c \in todo' : Exists(c)'
    BY <1>1, <1>2, <1>5 DEF BgTypes, Exists
  <2> QED
    BY <1>1, <1>2, <1>4, <2>1 DEF BgTypes, Replacement, DeleteEmpty
<1> DEFINE P == {}
<1>7. P \in SUBSET Fighters /\ \A r \in Fighters \ P : LeftAlone(r)
  BY <1>1 DEF LeftAlone, DeleteEmpty
<1>8. \A c \in Nat : Exists(c) => (Exists(c)' /\ bg'[c].queue = bg[c].queue) \/ KeptFor(c) = {}
  BY <1>3, <1>5
<1>9. ASSUME NEW c \in Nat, Exists(c)'
      PROVE  /\ Exists(c)
             /\ Participants(c)' \ P = Participants(c) \ P
             /\ \A r \in P : r \in KeptFor(c)' => r \in KeptFor(c)
             /\ bg'[c].invited = bg[c].invited - Cardinality({r \in P : r \in KeptFor(c) /\ r \notin KeptFor(c)'})
  <2>1. Exists(c) /\ bg'[c] = bg[c] /\ bg[c].invited \in Int
    BY <1>2, <1>5, <1>9, GameIs
  <2>2. {r \in P : r \in KeptFor(c) /\ r \notin KeptFor(c)'} = {}
    OBVIOUS
  <2>3. Cardinality({r \in P : r \in KeptFor(c) /\ r \notin KeptFor(c)'}) = 0
    BY <2>2, FS_EmptySet
  <2> QED
    BY <2>1, <2>3 DEF Participants
<1>10. \A e \in removals : e \in removals' \/ e.player \in P
  BY <1>1
<1>11. \A r \in P : PlayerOK(r)'
  OBVIOUS
<1> HIDE DEF P
<1> QED
  BY <1>6, <1>7, <1>8, <1>9, <1>10, <1>11, SomeMove

\* Battleground::Update, whichever of its parts runs.
LEMMA UpdateBattlegroundKeeps ==
  ASSUME BgInv, NEW b \in DOMAIN bg, UpdateBattleground(b)
  PROVE  BgInv'
<1>1. \/ DeleteEmpty(b) \/ StartProgress(b) \/ ProcessOfflineQueue(b) \/ ProcessLeave(b) \/ NothingToDo(b)
  BY DEF UpdateBattleground
<1> QED
  BY <1>1, DeleteKeeps, StartProgressKeeps, OfflineQueueKeeps, ProcessLeaveKeeps, OtherStepsKeep

\* Members with one more.
LEMMA JoinedMembers ==
  ASSUME NEW m \in Memberships, NEW p \in Fighters
  PROVE  Joined(m, p) \in Memberships /\ DOMAIN Joined(m, p) = DOMAIN m \union {p}
<1>1. PICK S \in SUBSET Fighters : m \in [S -> Nat]
  BY DEF Memberships
<1>2. Joined(m, p) \in [S \union {p} -> Nat]
  BY <1>1 DEF Joined
<1>3. S \union {p} \in SUBSET Fighters
  OBVIOUS
<1>4. DOMAIN m = S /\ DOMAIN Joined(m, p) = S \union {p}
  BY <1>1, <1>2
<1> QED
  BY <1>2, <1>3, <1>4 DEF Memberships

\* HandleMoveWorldportAck: the place on the way becomes one inside.
LEMMA ArriveKeeps ==
  ASSUME BgInv, NEW p \in Fighters, Arrive(p)
  PROVE  BgInv'
<1>1. BgTypes /\ bg \in GameSeq /\ PlayerOK(p)
  BY DEF BgInv, BgTypes
<1>2. PICK b \in Nat : b = bgInstanceID[p]
  BY <1>1, GameSeqIs DEF BgTypes
<1>3. /\ ~updating /\ place[p] = "transit" /\ Exists(b)
      /\ place' = [place EXCEPT ![p] = "inside"]
      /\ UNCHANGED <<bgInstanceID, slot, entry, removals, deserters, scheduled, now, updating, todo>>
  BY <1>2 DEF Arrive
<1>4. PICK q \in Queues : q = bg[b].queue /\ slot[p][q] = b /\ entry[q][p] = NotQueued
  BY <1>1, <1>2, <1>3, GameIs DEF PlayerOK, TransitOf
<1>5. bg' = [bg EXCEPT ![b].players = Joined(@, p)]
  BY <1>2, <1>4 DEF Arrive
<1>6. PICK g \in Games : g = bg[b]
  BY <1>1, <1>3, GameIs
<1>7. PICK m \in Memberships : m = Joined(g.players, p) /\ DOMAIN m = DOMAIN g.players \union {p}
  BY JoinedMembers DEF Games
<1>8. PICK h : h = [g EXCEPT !.players = m]
  OBVIOUS
<1>9. h \in Games /\ h.queue = g.queue /\ h.players = m /\ h.invited = g.invited
  BY <1>8 DEF Games
<1>10. PICK new : new = bg'
  OBVIOUS
<1>11. new = [bg EXCEPT ![b] = h]
  BY <1>1, <1>3, <1>5, <1>6, <1>7, <1>8, <1>10, GameIs
<1>12. Updated(bg)
  BY <1>1, SameUpdated
<1>13. Updated(new) /\ Replacement(bg, b, h, new)
  BY <1>1, <1>3, <1>6, <1>9, <1>11, <1>12, ReplacedUpdates
<1>14. /\ Updated(bg')
       /\ Participants(b)' = Participants(b) \union {p} /\ bg'[b].invited = bg[b].invited
       /\ bg'[b].queue = q
       /\ \A c \in Nat : Exists(c) /\ c # b => Participants(c)' = Participants(c) /\ bg'[c].invited = bg[c].invited
  BY <1>1, <1>3, <1>4, <1>6, <1>7, <1>9, <1>10, <1>13, GameIs DEF Participants, Replacement
<1>15. \A c \in Nat : Exists(c)' <=> Exists(c)
  BY <1>1, <1>14, UpdatedExists
<1>16. place'[p] = "inside" /\ place' \in [Fighters -> Places]
       /\ \A r \in Fighters : r # p => place'[r] = place[r]
  BY <1>1, <1>3 DEF BgTypes, Places
<1>17. BgTypes'
  <2>1. \A c \in todo' : Exists(c)'
    BY <1>1, <1>3, <1>14, TodoKept
  <2> QED
    BY <1>1, <1>3, <1>14, <1>16, <2>1 DEF BgTypes, Updated
<1>18. \A r \in Fighters \ {p} : LeftAlone(r)
  BY <1>3, <1>16 DEF LeftAlone
<1>19. \A c \in Nat : Exists(c) => p \notin Participants(c)
  BY <1>1, <1>3, InsideOnly
<1>20. PlayerOK(p)'
  <2>1. EntriesOf(p)'
    BY <1>1, <1>3, <1>14, <1>15, <1>16 DEF PlayerOK, EntriesOf, Updated
  <2>2. InsideOf(p)'
    <3> SUFFICES ASSUME NEW c \in Nat, Exists(c)', p \in Participants(c)'
                 PROVE  /\ bgInstanceID'[p] = c /\ place'[p] \in {"inside", "offline"}
                        /\ entry'[bg'[c].queue][p] = NotQueued
      BY DEF InsideOf
    <3>1. c = b
      BY <1>14, <1>15, <1>19
    <3> QED
      BY <1>2, <1>3, <1>4, <1>14, <1>16, <3>1
  <2>3. TransitOf(p)'
    BY <1>16 DEF TransitOf
  <2> QED
    BY <2>1, <2>2, <2>3 DEF PlayerOK
<1>21. ASSUME NEW c \in Nat, Exists(c)
       PROVE  /\ Participants(c)' \ {p} = Participants(c) \ {p}
              /\ p \in KeptFor(c)' => p \in KeptFor(c)
              /\ bg'[c].invited = bg[c].invited - (IF p \in KeptFor(c) /\ p \notin KeptFor(c)' THEN 1 ELSE 0)
  <2>1. bg[c].invited \in Int
    BY <1>1, <1>21, GameIs
  <2>2. InvitedTo(c)' = InvitedTo(c)
    BY <1>3 DEF InvitedTo, InvitingTo
  <2>3. CASE c = b
    <3>1. p \in KeptFor(c) /\ p \in KeptFor(c)'
      BY <1>2, <1>3, <1>14, <2>3 DEF KeptFor, InTransitTo
    <3> QED
      BY <1>14, <2>1, <2>3, <3>1
  <2>4. CASE c # b
    <3>1. p \notin InTransitTo(c) /\ p \notin InTransitTo(c)'
      BY <1>2, <1>16, <2>4 DEF InTransitTo
    <3>2. p \in KeptFor(c)' <=> p \in KeptFor(c)
      BY <1>14, <1>21, <2>2, <2>4, <3>1 DEF KeptFor
    <3> QED
      BY <1>14, <1>21, <2>1, <2>4, <3>2
  <2> QED
    BY <2>3, <2>4
<1>22. \A e \in removals : e \in removals' \/ e.player = p
  BY <1>3
<1> QED
  BY <1>14, <1>17, <1>18, <1>20, <1>21, <1>22, OneMoves

\* LoadFromDB, back into the battleground or to where the player came from.
LEMMA LoginKeeps ==
  ASSUME BgInv, NEW p \in Fighters, Login(p)
  PROVE  BgInv'
<1>1. BgTypes /\ bg \in GameSeq /\ PlayerOK(p)
  BY DEF BgInv, BgTypes
<1>2. PICK b \in Nat : b = bgInstanceID[p]
  BY <1>1, GameSeqIs DEF BgTypes
<1>3. /\ place[p] = "offline"
      /\ UNCHANGED <<entry, removals, deserters, scheduled, now, updating, todo>>
  BY DEF Login
<1>4. \A q \in Queues : entry[q][p] = NotQueued
  BY <1>1, <1>3 DEF PlayerOK, EntriesOf, BgTypes
<1>5. \A c \in Nat : Exists(c) /\ p \in Participants(c) => c = b
  BY <1>1, <1>2, InsideOnly
<1> DEFINE stays == Exists(b) /\ p \in Participants(b) /\ bg[b].status # "leave"
<1>6. slot' = slot /\ \A r \in Fighters : r # p => place'[r] = place[r] /\ bgInstanceID'[r] = bgInstanceID[r]
  <2>1. CASE stays
    <3>1. bg[b].queue \in Queues
      BY <1>1, <2>1, GameIs
    <3> QED
      BY <1>1, <1>2, <1>4, <2>1, <3>1 DEF Login, ReturnsTo, BgTypes
  <2>2. CASE ~stays
    BY <1>1, <1>2, <2>2 DEF Login, ReturnsElsewhere, BgTypes
  <2> QED
    BY <2>1, <2>2
<1>7. /\ place' \in [Fighters -> Places] /\ bgInstanceID' \in [Fighters -> 0 .. Len(bg)]
      /\ stays => place'[p] = "inside" /\ bgInstanceID'[p] = b
      /\ ~stays => place'[p] = "world"
  <2>1. CASE stays
    BY <1>1, <1>2, <2>1 DEF Login, ReturnsTo, BgTypes, Places
  <2>2. CASE ~stays
    <3>1. 0 \in 0 .. Len(bg)
      BY <1>1, GameSeqIs
    <3> QED
      BY <1>1, <1>2, <2>2, <3>1 DEF Login, ReturnsElsewhere, BgTypes, Places
  <2> QED
    BY <2>1, <2>2
<1>8. /\ Updated(bg')
      /\ \A c \in Nat : Exists(c) =>
           /\ Participants(c)' = IF stays THEN Participants(c) ELSE Participants(c) \ {p}
           /\ bg'[c].invited = bg[c].invited - (IF p \in Participants(c) /\ ~stays THEN 1 ELSE 0)
  <2>1. \A c \in Nat : Exists(c) => bg[c].invited \in Int
    BY <1>1, GameIs
  <2>2. CASE stays
    <3>1. bg[b].queue \in Queues
      BY <1>1, <2>2, GameIs
    <3>2. bg' = bg
      BY <1>2, <1>4, <2>2, <3>1 DEF Login, ReturnsTo
    <3> QED
      BY <1>1, <2>1, <2>2, <3>2, SameUpdated DEF Participants
  <2>3. CASE ~stays /\ ~(Exists(b) /\ p \in Participants(b))
    <3>1. bg' = bg
      BY <1>2, <2>3 DEF Login, ReturnsElsewhere
    <3>2. ASSUME NEW c \in Nat, Exists(c)
          PROVE  /\ Participants(c)' = Participants(c) \ {p} /\ p \notin Participants(c)
                 /\ bg'[c].invited = bg[c].invited - 0
      <4>1. p \notin Participants(c)
        BY <1>5, <2>3, <3>2
      <4>2. Participants(c)' = Participants(c)
        BY <3>1 DEF Participants
      <4> QED
        BY <2>1, <3>1, <3>2, <4>1, <4>2
    <3>3. Updated(bg')
      BY <1>1, <3>1, SameUpdated
    <3> QED
      BY <2>3, <3>2, <3>3
  <2>4. CASE ~stays /\ Exists(b) /\ p \in Participants(b)
    <3>1. PICK new : new = bg'
      OBVIOUS
    <3>2. new = WithoutPlayers(bg, b, {p})
      BY <1>2, <2>4, <3>1 DEF Login, ReturnsElsewhere
    <3>3. Updated(new) /\ LeftBy(bg, b, {p}, new)
      BY <1>1, <2>4, <3>2, WithoutUpdates
    <3>4. Cardinality({p} \intersect Participants(b)) = 1
      <4>1. {p} \intersect Participants(b) = {p}
        BY <2>4
      <4> QED
        BY <4>1, FS_Singleton
    <3>5. ASSUME NEW c \in Nat, Exists(c)
          PROVE  /\ Participants(c)' = Participants(c) \ {p}
                 /\ bg'[c].invited = bg[c].invited - (IF p \in Participants(c) THEN 1 ELSE 0)
      <4>1. CASE c = b
        BY <2>4, <3>1, <3>3, <3>4, <4>1 DEF LeftBy, Participants
      <4>2. CASE c # b
        <5>1. new[c] = bg[c] /\ p \notin Participants(c)
          BY <1>1, <1>5, <3>3, <3>5, <4>2, GameIs DEF LeftBy
        <5> QED
          BY <2>1, <3>1, <3>5, <5>1 DEF Participants
      <4> QED
        BY <4>1, <4>2
    <3> QED
      BY <2>4, <3>1, <3>3, <3>5
  <2> QED
    BY <2>2, <2>3, <2>4
<1> HIDE DEF stays
<1>9. stays => Exists(b) /\ p \in Participants(b)
  BY DEF stays
<1>10. \A c \in Nat : Exists(c)' <=> Exists(c)
  BY <1>1, <1>8, UpdatedExists
<1>11. BgTypes'
  <2>1. \A c \in todo' : Exists(c)'
    BY <1>1, <1>3, <1>8, TodoKept
  <2> QED
    BY <1>1, <1>3, <1>6, <1>7, <1>8, <2>1 DEF BgTypes, Updated
<1>12. \A r \in Fighters \ {p} : LeftAlone(r)
  BY <1>3, <1>6 DEF LeftAlone
<1>13. PlayerOK(p)'
  <2>1. EntriesOf(p)'
    BY <1>3, <1>4 DEF EntriesOf
  <2>2. InsideOf(p)'
    <3> SUFFICES ASSUME NEW c \in Nat, Exists(c)', p \in Participants(c)'
                 PROVE  /\ bgInstanceID'[p] = c /\ place'[p] \in {"inside", "offline"}
                        /\ entry'[bg'[c].queue][p] = NotQueued
      BY DEF InsideOf
    <3>1. Exists(c) /\ stays /\ p \in Participants(c)
      BY <1>8, <1>10
    <3>2. c = b /\ bg'[c].queue = bg[c].queue /\ bg[c].queue \in Queues
      BY <1>1, <1>5, <1>8, <3>1, GameIs DEF Updated
    <3> QED
      BY <1>3, <1>4, <1>7, <3>1, <3>2
  <2>3. TransitOf(p)'
    BY <1>7 DEF TransitOf
  <2> QED
    BY <2>1, <2>2, <2>3 DEF PlayerOK
<1>14. ASSUME NEW c \in Nat, Exists(c)
       PROVE  /\ Participants(c)' \ {p} = Participants(c) \ {p}
              /\ p \in KeptFor(c)' => p \in KeptFor(c)
              /\ bg'[c].invited = bg[c].invited - (IF p \in KeptFor(c) /\ p \notin KeptFor(c)' THEN 1 ELSE 0)
  <2>1. c # 0
    BY <1>1, <1>14, GameIs
  <2>2. \A q \in Queues : entry[q][p].bg # c
    BY <1>4, <2>1 DEF NotQueued
  <2>3. p \in KeptFor(c) <=> p \in Participants(c)
    BY <1>3, <2>2 DEF KeptFor, InvitedTo, InvitingTo, InTransitTo
  <2>4. p \in KeptFor(c)' <=> p \in Participants(c)'
    BY <1>3, <1>7, <2>2 DEF KeptFor, InvitedTo, InvitingTo, InTransitTo
  <2> QED
    BY <1>8, <1>14, <2>3, <2>4
<1>15. \A e \in removals : e \in removals' \/ e.player = p
  BY <1>3
<1> QED
  BY <1>8, <1>11, <1>12, <1>13, <1>14, <1>15, OneMoves

\* Entries of one player that leaves some queues.
LEMMA EntriesWithoutAre ==
  ASSUME entry \in [Queues -> [Fighters -> Invitations]], NEW p \in Fighters, NEW queues,
         NEW new, new = EntriesWithout(p, queues)
  PROVE  /\ new \in [Queues -> [Fighters -> Invitations]]
         /\ \A q \in Queues : new[q][p] = IF q \in queues THEN NotQueued ELSE entry[q][p]
         /\ \A q \in Queues, u \in Fighters : u # p => new[q][u] = entry[q][u]
<1>1. NotQueued \in Invitations
  BY DEF NotQueued, Invitations
<1>2. new = [q \in Queues |-> IF q \in queues THEN [entry[q] EXCEPT ![p] = NotQueued] ELSE entry[q]]
  BY DEF EntriesWithout
<1>3. ASSUME NEW q \in Queues
      PROVE  /\ new[q] \in [Fighters -> Invitations]
             /\ new[q][p] = IF q \in queues THEN NotQueued ELSE entry[q][p]
             /\ \A u \in Fighters : u # p => new[q][u] = entry[q][u]
  <2>1. PICK f \in [Fighters -> Invitations] : f = entry[q]
    OBVIOUS
  <2>2. /\ [f EXCEPT ![p] = NotQueued] \in [Fighters -> Invitations]
        /\ [f EXCEPT ![p] = NotQueued][p] = NotQueued
        /\ \A u \in Fighters : u # p => [f EXCEPT ![p] = NotQueued][u] = f[u]
    BY <1>1
  <2>3. new[q] = IF q \in queues THEN [f EXCEPT ![p] = NotQueued] ELSE f
    BY <1>2, <2>1
  <2> QED
    BY <2>1, <2>2, <2>3
<1> QED
  BY <1>2, <1>3

\* Without the count there is nothing to uncount.
LEMMA UncountedNot ==
  ASSUME bg \in GameSeq, NEW p, NEW queues
  PROVE  Uncounted(p, queues, FALSE) = bg
<1>1. bg = [b \in DOMAIN bg |-> bg[b]]
  BY DEF GameSeq
<1>2. Uncounted(p, queues, FALSE) = [b \in DOMAIN bg |-> bg[b]]
  BY DEF Uncounted
<1> QED
  BY <1>1, <1>2

\* The battleground a player is in, if any, loses it.
LEMMA OldOneLeft ==
  ASSUME BgTypes, NEW p \in Fighters, PlayerOK(p), NEW old \in Nat, old = bgInstanceID[p],
         bg' = IF Exists(old) THEN WithoutPlayers(bg, old, {p}) ELSE bg
  PROVE  /\ Updated(bg')
         /\ \A c \in Nat : Exists(c) =>
              /\ Participants(c)' = Participants(c) \ {p}
              /\ bg'[c].invited = bg[c].invited - (IF p \in Participants(c) THEN 1 ELSE 0)
<1>1. bg \in GameSeq
  BY DEF BgTypes
<1>2. \A c \in Nat : Exists(c) => bg[c].invited \in Int /\ (p \in Participants(c) => c = old)
  BY <1>1, GameIs, InsideOnly
<1>3. CASE ~Exists(old)
  <2>1. bg' = bg
    BY <1>3
  <2>2. \A c \in Nat : Exists(c) => p \notin Participants(c)
    BY <1>2, <1>3
  <2>3. \A c \in Nat : Participants(c)' = Participants(c) /\ bg'[c].invited = bg[c].invited
    BY <2>1 DEF Participants
  <2>4. \A c \in Nat : Exists(c) => bg[c].invited - 0 = bg[c].invited
    BY <1>2
  <2> QED
    BY <1>1, <2>1, <2>2, <2>3, <2>4, SameUpdated
<1>4. CASE Exists(old)
  <2>1. PICK new : new = bg'
    OBVIOUS
  <2>2. new = WithoutPlayers(bg, old, {p})
    BY <1>4, <2>1
  <2>3. Updated(new) /\ LeftBy(bg, old, {p}, new)
    BY <1>1, <1>4, <2>2, WithoutUpdates
  <2>4. Cardinality({p} \intersect Participants(old)) = IF p \in Participants(old) THEN 1 ELSE 0
    <3>1. {p} \intersect Participants(old) = IF p \in Participants(old) THEN {p} ELSE {}
      OBVIOUS
    <3> QED
      BY <3>1, FS_Singleton, FS_EmptySet
  <2>5. ASSUME NEW c \in Nat, Exists(c)
        PROVE  /\ Participants(c)' = Participants(c) \ {p}
               /\ bg'[c].invited = bg[c].invited - (IF p \in Participants(c) THEN 1 ELSE 0)
    <3>1. CASE c = old
      BY <2>1, <2>3, <2>4, <3>1 DEF LeftBy, Participants
    <3>2. CASE c # old
      <4>1. new[c] = bg[c] /\ p \notin Participants(c)
        BY <1>1, <1>2, <2>3, <2>5, <3>2, GameIs DEF LeftBy
      <4> QED
        BY <1>2, <2>1, <2>5, <4>1 DEF Participants
    <3> QED
      BY <3>1, <3>2
  <2> QED
    BY <2>1, <2>3, <2>5
<1> QED
  BY <1>3, <1>4

\* AcceptedInvite: the invitation becomes a place on the way, and the one in
\* the battleground the player leaves is given back.
LEMMA AcceptKeeps ==
  ASSUME BgInv, NEW p \in Fighters, NEW q \in Queues, AcceptInvite(p, q)
  PROVE  BgInv'
<1>1. BgTypes /\ bg \in GameSeq /\ PlayerOK(p) /\ Len(bg) \in Nat
  BY GameSeqIs DEF BgInv, BgTypes
<1>2. PICK i \in Invitations : i = entry[q][p]
  BY <1>1 DEF BgTypes
<1>3. PICK b : b = i.bg
  OBVIOUS
<1>4. PICK old \in Nat : old = bgInstanceID[p]
  BY <1>1 DEF BgTypes
<1>5. /\ place[p] \in {"world", "inside"} /\ Exists(b)
      /\ place' = [place EXCEPT ![p] = "transit"]
      /\ bgInstanceID' = [bgInstanceID EXCEPT ![p] = b]
      /\ UNCHANGED <<removals, deserters, now, updating, todo>>
  BY <1>2, <1>3 DEF AcceptInvite, MayAct
<1>6. b \in Nat /\ b \in 1 .. Len(bg) /\ b # 0
  BY <1>1, <1>5, GameSeqIs DEF Exists
<1>7. i # NotQueued /\ bg[b].queue = q /\ slot[p][q] = b
  BY <1>1, <1>2, <1>3, <1>5, <1>6, NotInvited DEF PlayerOK
<1>8. PICK queues : queues = {q}
  OBVIOUS
<1>9. /\ entry' \in [Queues -> [Fighters -> Invitations]]
      /\ \A r \in Queues : entry'[r][p] = IF r \in queues THEN NotQueued ELSE entry[r][p]
      /\ \A r \in Queues, u \in Fighters : u # p => entry'[r][u] = entry[r][u]
  <2>1. PICK new : new = entry'
    OBVIOUS
  <2>2. entry \in [Queues -> [Fighters -> Invitations]] /\ new = EntriesWithout(p, queues)
    BY <1>1, <1>8, <2>1 DEF AcceptInvite, BgTypes
  <2>3. /\ new \in [Queues -> [Fighters -> Invitations]]
        /\ \A r \in Queues : new[r][p] = IF r \in queues THEN NotQueued ELSE entry[r][p]
        /\ \A r \in Queues, u \in Fighters : u # p => new[r][u] = entry[r][u]
    BY <2>2, EntriesWithoutAre
  <2> QED
    BY <2>1, <2>3
<1>10. entry'[q][p] = NotQueued /\ \A r \in Queues : r # q => entry'[r][p] = entry[r][p]
  BY <1>8, <1>9
<1>11. bg' = IF Exists(old) THEN WithoutPlayers(bg, old, {p}) ELSE bg
  <2>1. Uncounted(p, {q}, FALSE) = bg
    BY <1>1, UncountedNot
  <2> QED
    BY <1>4, <2>1 DEF AcceptInvite
<1>12. /\ Updated(bg')
       /\ \A c \in Nat : Exists(c) =>
            /\ Participants(c)' = Participants(c) \ {p}
            /\ bg'[c].invited = bg[c].invited - (IF p \in Participants(c) THEN 1 ELSE 0)
  BY <1>1, <1>4, <1>11, OldOneLeft
<1>13. \A c \in Nat : Exists(c)' <=> Exists(c)
  BY <1>1, <1>12, UpdatedExists
<1>14. Exists(old) /\ p \in Participants(old) => entry[bg[old].queue][p] = NotQueued /\ bg[old].queue \in Queues
  BY <1>1, InsideOnly, GameIs
<1>15. /\ slot' \in [Fighters -> [Queues -> -1 .. Len(bg)]]
       /\ \A u \in Fighters : u # p => slot'[u] = slot[u]
       /\ \A r \in Queues : entry[r][p] # NotQueued => slot'[p][r] = slot[p][r]
  <2>1. CASE ~(Exists(old) /\ p \in Participants(old))
    <3>1. slot' = slot
      <4>1. CASE Exists(old)
        <5>1. slot' = SlotsLeft(old, {p})
          BY <1>4, <4>1 DEF AcceptInvite
        <5>2. slot = [u \in Fighters |-> slot[u]]
          BY <1>1 DEF BgTypes
        <5> QED
          BY <2>1, <4>1, <5>1, <5>2 DEF SlotsLeft
      <4>2. CASE ~Exists(old)
        BY <1>4, <4>2 DEF AcceptInvite
      <4> QED
        BY <4>1, <4>2
    <3> QED
      BY <1>1, <3>1 DEF BgTypes
  <2>2. CASE Exists(old) /\ p \in Participants(old)
    <3>1. slot' = [u \in Fighters |-> IF u = p THEN [slot[u] EXCEPT ![bg[old].queue] = NoSlot] ELSE slot[u]]
      BY <1>4, <1>5, <2>2 DEF AcceptInvite, SlotsLeft
    <3>2. PICK f \in [Queues -> -1 .. Len(bg)] : f = slot[p]
      BY <1>1 DEF BgTypes
    <3>3. /\ [f EXCEPT ![bg[old].queue] = NoSlot] \in [Queues -> -1 .. Len(bg)]
          /\ \A r \in Queues : r # bg[old].queue => [f EXCEPT ![bg[old].queue] = NoSlot][r] = f[r]
      <4>1. NoSlot \in -1 .. Len(bg)
        BY <1>1 DEF NoSlot
      <4> QED
        BY <4>1
    <3>4. slot'[p] = [f EXCEPT ![bg[old].queue] = NoSlot] /\ \A u \in Fighters : u # p => slot'[u] = slot[u]
      BY <3>1, <3>2
    <3>5. \A u \in Fighters : slot'[u] \in [Queues -> -1 .. Len(bg)]
      <4>1. \A u \in Fighters : slot[u] \in [Queues -> -1 .. Len(bg)]
        BY <1>1 DEF BgTypes
      <4>2. slot'[p] \in [Queues -> -1 .. Len(bg)]
        BY <3>3, <3>4
      <4> QED
        BY <3>4, <4>1, <4>2
    <3>6. slot' \in [Fighters -> [Queues -> -1 .. Len(bg)]]
      BY <3>1, <3>5
    <3> QED
      BY <1>14, <2>2, <3>2, <3>3, <3>4, <3>6
  <2> QED
    BY <2>1, <2>2
<1>16. scheduled' \subseteq Queues
  <2>1. CASE Exists(old)
    <3>1. bg[old].queue \in Queues
      BY <1>1, <2>1, GameIs
    <3> QED
      BY <1>1, <1>4, <2>1, <3>1 DEF AcceptInvite, ScheduledAfter, BgTypes
  <2>2. CASE ~Exists(old)
    BY <1>1, <1>4, <2>2 DEF AcceptInvite, BgTypes
  <2> QED
    BY <2>1, <2>2
<1>17. /\ place'[p] = "transit" /\ bgInstanceID'[p] = b
       /\ place' \in [Fighters -> Places] /\ bgInstanceID' \in [Fighters -> 0 .. Len(bg)]
       /\ \A u \in Fighters : u # p => place'[u] = place[u] /\ bgInstanceID'[u] = bgInstanceID[u]
  BY <1>1, <1>5, <1>6 DEF BgTypes, Places
<1>18. BgTypes'
  <2>1. \A c \in todo' : Exists(c)'
    BY <1>1, <1>5, <1>12, TodoKept
  <2> QED
    BY <1>1, <1>5, <1>9, <1>12, <1>15, <1>16, <1>17, <2>1 DEF BgTypes, Updated
<1>19. \A r \in Fighters \ {p} : LeftAlone(r)
  BY <1>9, <1>15, <1>17 DEF LeftAlone
<1>20. PlayerOK(p)'
  <2>1. EntriesOf(p)'
    <3> SUFFICES ASSUME NEW r \in Queues, NEW j \in Invitations, entry'[r][p] = j, j # NotQueued
                 PROVE  /\ place'[p] # "offline" /\ j.bg \in Nat /\ slot'[p][r] = j.bg
                        /\ j.bg # 0 =>
                             Exists(j.bg)' /\ bg'[j.bg].queue = r /\ Removal(p, r, j) \in removals'
      BY DEF EntriesOf
    <3>1. r # q /\ entry[r][p] = j
      BY <1>10
    <3>2. /\ j.bg \in Nat /\ slot[p][r] = j.bg
          /\ j.bg # 0 => Exists(j.bg) /\ bg[j.bg].queue = r /\ Removal(p, r, j) \in removals
      BY <1>1, <3>1 DEF PlayerOK, EntriesOf
    <3>3. slot'[p][r] = j.bg
      BY <1>15, <3>1, <3>2
    <3>4. j.bg # 0 => Exists(j.bg)' /\ bg'[j.bg].queue = r /\ Removal(p, r, j) \in removals'
      BY <1>5, <1>12, <1>13, <3>2 DEF Updated
    <3> QED
      BY <1>17, <3>2, <3>3, <3>4
  <2>2. InsideOf(p)'
    BY <1>12, <1>13 DEF InsideOf
  <2>3. TransitOf(p)'
    <3>1. Exists(b)' /\ bg'[b].queue = q
      BY <1>5, <1>6, <1>7, <1>12, <1>13 DEF Updated
    <3>2. slot'[p][q] = b /\ entry'[q][p] = NotQueued
      BY <1>2, <1>7, <1>10, <1>15
    <3> QED
      BY <1>17, <3>1, <3>2 DEF TransitOf
  <2> QED
    BY <2>1, <2>2, <2>3 DEF PlayerOK
<1>21. ASSUME NEW c \in Nat, Exists(c)
       PROVE  /\ Participants(c)' \ {p} = Participants(c) \ {p}
              /\ p \in KeptFor(c)' => p \in KeptFor(c)
              /\ bg'[c].invited = bg[c].invited - (IF p \in KeptFor(c) /\ p \notin KeptFor(c)' THEN 1 ELSE 0)
  <2>1. p \notin InTransitTo(c) /\ p \notin Participants(c)' /\ c # 0
    BY <1>1, <1>5, <1>12, <1>21, GameIs DEF InTransitTo
  <2>2. p \in Participants(c) => p \notin InvitedTo(c)
    BY <1>1, <1>21, InsideOnly DEF InvitedTo, InvitingTo
  <2>3. CASE c = b
    <3>1. p \in InvitedTo(c)
      BY <1>2, <1>3, <2>3 DEF InvitedTo, InvitingTo
    <3>2. p \in InTransitTo(c)'
      BY <1>17, <2>3 DEF InTransitTo
    <3>3. p \in KeptFor(c) /\ p \in KeptFor(c)' /\ p \notin Participants(c)
      BY <2>2, <3>1, <3>2 DEF KeptFor
    <3> QED
      BY <1>12, <1>21, <3>3
  <2>4. CASE c # b
    <3>1. NotQueued.bg # c /\ i.bg # c
      BY <1>3, <1>21, <2>4 DEF NotQueued
    <3>2. \A r \in Queues : entry'[r][p].bg = c <=> entry[r][p].bg = c
      BY <1>2, <1>10, <3>1
    <3>3. p \in InvitedTo(c)' <=> p \in InvitedTo(c)
      BY <3>2 DEF InvitedTo, InvitingTo
    <3>4. p \notin InTransitTo(c)'
      BY <1>17, <2>4 DEF InTransitTo
    <3>5. /\ p \in KeptFor(c)' <=> p \in InvitedTo(c)
          /\ p \in KeptFor(c) <=> p \in InvitedTo(c) \/ p \in Participants(c)
      BY <2>1, <3>3, <3>4 DEF KeptFor
    <3> QED
      BY <1>12, <1>21, <2>2, <3>5
  <2> QED
    BY <2>3, <2>4
<1>22. \A e \in removals : e \in removals' \/ e.player = p
  BY <1>5
<1> QED
  BY <1>12, <1>18, <1>19, <1>20, <1>21, <1>22, OneMoves

\* Members one of whom has another time.
LEMMA TimedMembers ==
  ASSUME NEW m \in Memberships, NEW p, NEW n \in Nat
  PROVE  [m EXCEPT ![p] = n] \in Memberships /\ DOMAIN [m EXCEPT ![p] = n] = DOMAIN m
BY DEF Memberships

\* One of the battlegrounds notes when the player is to be removed.
MarkedOffline(left, b, p) ==
  [left EXCEPT ![b].offline = Append(@, p), ![b].players[p] = now + OfflineTime]

\* The battlegrounds after a log-out: members are as before, counts without the invitations.
LoggedOut(p, queues, bgs) ==
  /\ Updated(bgs)
  /\ \A c \in Nat : Exists(c) =>
       /\ DOMAIN bgs[c].players = Participants(c)
       /\ bgs[c].invited = bg[c].invited - (IF InvitedBy(p, queues, c) THEN 1 ELSE 0)

\* The battlegrounds after LogoutPlayer, with or without the note.
LEMMA LoggedOutIs ==
  ASSUME BgTypes, NEW p \in Fighters, PlayerOK(p), NEW queues \in SUBSET Queues, NEW b \in Nat,
         NEW left, left = Uncounted(p, queues, TRUE), NEW new,
         Exists(b) /\ p \in Participants(b) => new = MarkedOffline(left, b, p),
         ~(Exists(b) /\ p \in Participants(b)) => new = left
  PROVE  LoggedOut(p, queues, new)
<1>1. bg \in GameSeq /\ entry \in [Queues -> [Fighters -> Invitations]] /\ EntriesOf(p)
  BY DEF BgTypes, PlayerOK
<1>2. /\ Updated(left)
      /\ \A c \in Nat : Exists(c) =>
           /\ left[c].invited = bg[c].invited - (IF InvitedBy(p, queues, c) THEN 1 ELSE 0)
           /\ left[c].players = bg[c].players
  BY <1>1, UncountedIs
<1>3. CASE ~(Exists(b) /\ p \in Participants(b))
  BY <1>2, <1>3 DEF Participants, LoggedOut
<1>4. CASE Exists(b) /\ p \in Participants(b)
  <2>1. PICK g \in Games : g = left[b] /\ g.queue = bg[b].queue
    BY <1>2, <1>4 DEF Updated
  <2>2. now + OfflineTime \in Nat
    BY QueueAssumption DEF BgTypes
  <2>3. PICK m \in Memberships : m = [g.players EXCEPT ![p] = now + OfflineTime] /\ DOMAIN m = DOMAIN g.players
    BY <2>2, TimedMembers DEF Games
  <2>4. PICK o \in Seq(Fighters) : o = Append(g.offline, p)
    <3>1. PICK s \in Seq(Fighters) : s = g.offline
      BY DEF Games
    <3>2. Append(s, p) \in Seq(Fighters)
      OBVIOUS
    <3> QED
      BY <3>1, <3>2
  <2>5. PICK h : h = [g EXCEPT !.offline = o, !.players = m]
    OBVIOUS
  <2>6. h \in Games /\ h.queue = g.queue /\ h.players = m /\ h.invited = g.invited
    BY <2>5 DEF Games
  <2>8. new = [left EXCEPT ![b] = h]
    <3>1. left \in GameSeq /\ b \in DOMAIN left
      BY <1>1, <1>2, <1>4, GameIs, GameSeqIs DEF Updated
    <3>2. g.players = [g EXCEPT !.offline = o].players
      BY DEF Games
    <3>3. new = [left EXCEPT ![b].offline = Append(@, p), ![b].players[p] = now + OfflineTime]
      BY <1>4 DEF MarkedOffline
    <3>4. PICK k : k = [g EXCEPT !.offline = o]
      OBVIOUS
    <3>5. k.players = g.players /\ h = [k EXCEPT !.players = m]
      BY <2>5, <3>2, <3>4 DEF Games
    <3>6. PICK bgs : bgs = [left EXCEPT ![b] = k]
      OBVIOUS
    <3>7. bgs[b] = k /\ DOMAIN bgs = DOMAIN left /\ bgs = [left EXCEPT ![b].offline = Append(@, p)]
      BY <2>1, <2>4, <3>1, <3>4, <3>6
    <3>8. new = [bgs EXCEPT ![b].players[p] = now + OfflineTime]
      BY <3>3, <3>7
    <3>9. new = [bgs EXCEPT ![b] = h]
      BY <2>3, <3>1, <3>5, <3>7, <3>8
    <3> QED
      BY <3>1, <3>6, <3>9
  <2>9. Updated(new) /\ Replacement(left, b, h, new)
    BY <1>1, <1>2, <1>4, <2>1, <2>6, <2>8, ReplacedUpdates
  <2>10. ASSUME NEW c \in Nat, Exists(c)
         PROVE  DOMAIN new[c].players = Participants(c) /\ new[c].invited = left[c].invited
    <3>1. DOMAIN left[c].players = Participants(c) /\ c \in 1 .. Len(left)
      BY <1>1, <1>2, <2>10, GameIs DEF Participants, Updated
    <3>2. CASE c = b
      BY <2>1, <2>3, <2>6, <2>9, <3>1, <3>2 DEF Participants, Replacement
    <3>3. CASE c # b
      BY <2>9, <3>1, <3>3 DEF Participants, Replacement
    <3> QED
      BY <3>2, <3>3
  <2> QED
    BY <1>2, <2>9, <2>10 DEF LoggedOut
<1> QED
  BY <1>3, <1>4

\* LogoutPlayer gives back the places of the invitations, not the one inside.
LEMMA BgLogoutKeeps ==
  ASSUME BgInv, NEW p \in Fighters, Logout(p)
  PROVE  BgInv'
<1>1. BgTypes /\ bg \in GameSeq /\ PlayerOK(p) /\ Len(bg) \in Nat
  BY GameSeqIs DEF BgInv, BgTypes
<1>2. PICK b \in Nat : b = bgInstanceID[p]
  BY <1>1 DEF BgTypes
<1>3. PICK queues \in SUBSET Queues : queues = {q \in Queues : slot[p][q] # NoSlot /\ entry[q][p] # NotQueued}
  OBVIOUS
<1>4. \A q \in Queues : entry[q][p] # NotQueued => q \in queues
  <2> SUFFICES ASSUME NEW q \in Queues, entry[q][p] # NotQueued PROVE slot[p][q] # NoSlot
    BY <1>3
  <2>1. PICK i \in Invitations : i = entry[q][p]
    BY <1>1 DEF BgTypes
  <2> QED
    BY <1>1, <2>1 DEF PlayerOK, EntriesOf, NoSlot
<1>5. /\ place[p] \in {"world", "inside"}
      /\ place' = [place EXCEPT ![p] = "offline"]
      /\ slot' = [slot EXCEPT ![p] = [q \in Queues |-> NoSlot]]
      /\ UNCHANGED <<bgInstanceID, removals, deserters, scheduled, now, updating, todo>>
  BY DEF Logout, MayAct
<1>6. /\ entry' \in [Queues -> [Fighters -> Invitations]]
      /\ \A r \in Queues : entry'[r][p] = NotQueued
      /\ \A r \in Queues, u \in Fighters : u # p => entry'[r][u] = entry[r][u]
  <2>1. PICK new : new = entry'
    OBVIOUS
  <2>2. entry \in [Queues -> [Fighters -> Invitations]] /\ new = EntriesWithout(p, queues)
    BY <1>1, <1>3, <2>1 DEF Logout, BgTypes
  <2>3. /\ new \in [Queues -> [Fighters -> Invitations]]
        /\ \A r \in Queues : new[r][p] = IF r \in queues THEN NotQueued ELSE entry[r][p]
        /\ \A r \in Queues, u \in Fighters : u # p => new[r][u] = entry[r][u]
    BY <2>2, EntriesWithoutAre
  <2> QED
    BY <1>4, <2>1, <2>3
<1>7. /\ Updated(bg')
      /\ \A c \in Nat : Exists(c) =>
           /\ Participants(c)' = Participants(c)
           /\ bg'[c].invited = bg[c].invited - (IF InvitedBy(p, queues, c) THEN 1 ELSE 0)
  <2>1. PICK left : left = Uncounted(p, queues, TRUE)
    OBVIOUS
  <2>2. PICK new : new = bg'
    OBVIOUS
  <2>3. Exists(b) /\ p \in Participants(b) => new = MarkedOffline(left, b, p)
    BY <1>2, <1>3, <2>1, <2>2 DEF Logout, MarkedOffline
  <2>4. ~(Exists(b) /\ p \in Participants(b)) => new = left
    BY <1>2, <1>3, <2>1, <2>2 DEF Logout
  <2>5. LoggedOut(p, queues, new)
    BY <1>1, <2>1, <2>3, <2>4, LoggedOutIs
  <2> QED
    BY <2>2, <2>5 DEF LoggedOut, Participants
<1>8. \A c \in Nat : Exists(c)' <=> Exists(c)
  BY <1>1, <1>7, UpdatedExists
<1>9. /\ place'[p] = "offline" /\ place' \in [Fighters -> Places]
      /\ slot' \in [Fighters -> [Queues -> -1 .. Len(bg)]]
      /\ \A u \in Fighters : u # p => place'[u] = place[u] /\ slot'[u] = slot[u]
  <2>1. [q \in Queues |-> NoSlot] \in [Queues -> -1 .. Len(bg)]
    BY <1>1 DEF NoSlot
  <2> QED
    BY <1>1, <1>5, <2>1 DEF BgTypes, Places
<1>10. BgTypes'
  <2>1. \A c \in todo' : Exists(c)'
    BY <1>1, <1>5, <1>7, TodoKept
  <2> QED
    BY <1>1, <1>5, <1>6, <1>7, <1>9, <2>1 DEF BgTypes, Updated
<1>11. \A r \in Fighters \ {p} : LeftAlone(r)
  BY <1>5, <1>6, <1>9 DEF LeftAlone
<1>12. PlayerOK(p)'
  <2>1. EntriesOf(p)' /\ TransitOf(p)'
    BY <1>6, <1>9 DEF EntriesOf, TransitOf
  <2>2. InsideOf(p)'
    <3> SUFFICES ASSUME NEW c \in Nat, Exists(c)', p \in Participants(c)'
                 PROVE  /\ bgInstanceID'[p] = c /\ place'[p] \in {"inside", "offline"}
                        /\ entry'[bg'[c].queue][p] = NotQueued
      BY DEF InsideOf
    <3>1. Exists(c) /\ p \in Participants(c)
      BY <1>7, <1>8
    <3>2. bgInstanceID[p] = c /\ bg'[c].queue = bg[c].queue /\ bg[c].queue \in Queues
      BY <1>1, <1>7, <3>1, InsideOnly, GameIs DEF Updated
    <3> QED
      BY <1>5, <1>6, <1>9, <3>2
  <2> QED
    BY <2>1, <2>2 DEF PlayerOK
<1>13. ASSUME NEW c \in Nat, Exists(c)
       PROVE  /\ Participants(c)' \ {p} = Participants(c) \ {p}
              /\ p \in KeptFor(c)' => p \in KeptFor(c)
              /\ bg'[c].invited = bg[c].invited - (IF p \in KeptFor(c) /\ p \notin KeptFor(c)' THEN 1 ELSE 0)
  <2>1. p \notin InTransitTo(c) /\ p \notin InTransitTo(c)' /\ c # 0 /\ NotQueued.bg # c
    BY <1>1, <1>5, <1>9, <1>13, GameIs DEF InTransitTo, NotQueued
  <2>2. p \in Participants(c) => p \notin InvitedTo(c)
    BY <1>1, <1>13, InsideOnly DEF InvitedTo, InvitingTo
  <2>3. p \notin InvitedTo(c)'
    BY <1>6, <2>1 DEF InvitedTo, InvitingTo
  <2>4. p \in InvitedTo(c) <=> InvitedBy(p, queues, c)
    BY <1>4, <2>1 DEF InvitedTo, InvitingTo, InvitedBy
  <2>5. /\ p \in KeptFor(c)' <=> p \in Participants(c)
        /\ p \in KeptFor(c) <=> InvitedBy(p, queues, c) \/ p \in Participants(c)
    BY <1>7, <1>13, <2>1, <2>3, <2>4 DEF KeptFor
  <2> QED
    BY <1>7, <1>13, <2>2, <2>4, <2>5
<1>14. \A e \in removals : e \in removals' \/ e.player = p
  BY <1>5
<1> QED
  BY <1>7, <1>10, <1>11, <1>12, <1>13, <1>14, OneMoves

-----------------------------------------------------------------------------
(* A queue invites. *)

\* Those whom the selection sends to b.
Invitees(s, b) == {p \in DOMAIN s : s[p] = b}

\* How many have a place in b, if it exists.
CountOf(b) == IF Exists(b) THEN bg[b].invited ELSE 0

\* What a selection may be: players that wait, for battlegrounds of the queue.
Selected(q, s) ==
  /\ DOMAIN s \subseteq Fighters /\ IsFiniteSet(DOMAIN s)
  /\ \A p \in DOMAIN s :
       /\ entry[q][p] = Waiting /\ place[p] # "offline" /\ slot[p][q] = 0
       /\ s[p] \in Nat
       /\ s[p] = 0 \/ s[p] = Len(bg) + 1 \/ (Exists(s[p]) /\ bg[s[p]].queue = q)
  /\ \A b \in Nat \ {0} : Invitees(s, b) # {} =>
       CountOf(b) + Cardinality(Invitees(s, b)) <= MaxPlayers

\* What Selections yields is a selection in that sense.
LEMMA SelectionIs ==
  ASSUME BgInv, NEW q \in Queues, NEW s \in Selections(q)
  PROVE  Selected(q, s)
<1> DEFINE waiting == {p \in Fighters : entry[q][p] = Waiting}
           open == {b \in DOMAIN bg : Exists(b) /\ bg[b].queue = q /\ bg[b].status # "leave"}
           new == {Len(bg) + 1} \intersect 1 .. MaxBattlegrounds
           count(b) == IF b \in open THEN bg[b].invited ELSE 0
<1>1. BgTypes /\ bg \in GameSeq /\ Len(bg) \in Nat /\ DOMAIN bg = 1 .. Len(bg)
  BY GameSeqIs DEF BgInv, BgTypes
<1>2. /\ s \in [waiting -> open \union new \union {0}]
      /\ \A b \in open \union new : {p \in waiting : s[p] = b} # {} =>
           count(b) + Cardinality({p \in waiting : s[p] = b}) =< MaxPlayers
  BY DEF Selections
<1>3. DOMAIN s = waiting /\ \A p \in waiting : s[p] \in open \union new \union {0}
  BY <1>2
<1>4. DOMAIN s \subseteq Fighters /\ IsFiniteSet(DOMAIN s)
  BY <1>3, QueueAssumption, FS_Subset
<1>5. ASSUME NEW p \in DOMAIN s
      PROVE  /\ entry[q][p] = Waiting /\ place[p] # "offline" /\ slot[p][q] = 0
             /\ s[p] \in Nat
             /\ s[p] = 0 \/ s[p] = Len(bg) + 1 \/ (Exists(s[p]) /\ bg[s[p]].queue = q)
  <2>1. p \in Fighters /\ entry[q][p] = Waiting
    BY <1>3
  <2>2. PICK i \in Invitations : i = entry[q][p] /\ i = Waiting
    BY <1>1, <2>1 DEF BgTypes
  <2>3. i # NotQueued /\ i.bg = 0
    BY <2>2 DEF Waiting, NotQueued
  <2>4. place[p] # "offline" /\ slot[p][q] = 0
    BY <2>1, <2>2, <2>3 DEF BgInv, PlayerOK, EntriesOf
  <2>5. s[p] \in open \/ s[p] = Len(bg) + 1 \/ s[p] = 0
    BY <1>3
  <2> QED
    BY <1>1, <2>1, <2>4, <2>5
<1>6. ASSUME NEW b \in Nat \ {0}, Invitees(s, b) # {}
      PROVE  CountOf(b) + Cardinality(Invitees(s, b)) <= MaxPlayers
  <2>1. Invitees(s, b) = {p \in waiting : s[p] = b}
    BY <1>3 DEF Invitees
  <2>2. b \in open \union new
    BY <1>3, <1>6, <2>1
  <2>3. count(b) = CountOf(b)
    <3>1. CASE b \in open
      BY <3>1 DEF CountOf
    <3>2. CASE b \notin open
      <4>1. b = Len(bg) + 1
        BY <2>2, <3>2
      <4>2. ~Exists(b)
        BY <1>1, <4>1 DEF Exists
      <4> QED
        BY <3>2, <4>2 DEF CountOf
    <3> QED
      BY <3>1, <3>2
  <2> HIDE DEF count, open, new, waiting
  <2> QED
    BY <1>2, <1>6, <2>1, <2>2, <2>3
<1> QED
  BY <1>4, <1>5, <1>6 DEF Selected

\* The battlegrounds with the one that is to be started.
WithCreated(q, s) == IF Len(bg) + 1 \in Range(s) THEN Append(bg, Created(q)) ELSE bg

\* A new battleground is nobody's yet.
LEMMA CreatedIs ==
  ASSUME NEW q \in Queues
  PROVE  /\ Created(q) \in Games /\ Created(q).queue = q /\ Created(q).invited = 0
         /\ DOMAIN Created(q).players = {}
<1>1. <<>> \in [{} -> Nat] /\ DOMAIN <<>> = {}
  OBVIOUS
<1>2. <<>> \in Memberships
  BY <1>1 DEF Memberships
<1>3. <<>> \in Seq(Fighters)
  OBVIOUS
<1>4. Created(q) = [status |-> "join", queue |-> q, invited |-> 0, players |-> <<>>, offline |-> <<>>]
  BY DEF Created
<1> QED
  BY <1>1, <1>2, <1>3, <1>4 DEF Games

\* The battlegrounds after the invitations.
Inviting(q, s, bgs) ==
  /\ bgs \in GameSeq /\ Len(bgs) \in {Len(bg), Len(bg) + 1}
  /\ \A b \in 1 .. Len(bgs) :
       IF b \in 1 .. Len(bg)
       THEN IF Exists(b)
            THEN /\ bgs[b] \in Games /\ bgs[b].queue = bg[b].queue /\ bgs[b].players = bg[b].players
                 /\ bgs[b].invited = bg[b].invited + Cardinality(Invitees(s, b))
            ELSE bgs[b] = bg[b]
       ELSE /\ bgs[b] \in Games /\ bgs[b].queue = q /\ DOMAIN bgs[b].players = {}
            /\ bgs[b].invited = Cardinality(Invitees(s, b))
  /\ \A p \in DOMAIN s : s[p] <= Len(bgs)

\* The counts after InviteGroupToBG grow by those invited.
LEMMA InvitingIs ==
  ASSUME BgInv, NEW q \in Queues, NEW s, Selected(q, s), NEW bgs,
         bgs = [b \in DOMAIN WithCreated(q, s) |->
                  IF b = 0 \/ Invitees(s, b) = {} THEN WithCreated(q, s)[b]
                  ELSE [WithCreated(q, s)[b] EXCEPT !.invited = @ + Cardinality(Invitees(s, b))]]
  PROVE  Inviting(q, s, bgs)
<1>1. bg \in GameSeq /\ Len(bg) \in Nat /\ DOMAIN bg = 1 .. Len(bg)
  BY GameSeqIs DEF BgInv, BgTypes
<1>2. PICK created : created = WithCreated(q, s)
  OBVIOUS
<1>3. PICK n \in Nat : n = IF Len(bg) + 1 \in Range(s) THEN Len(bg) + 1 ELSE Len(bg)
  BY <1>1
<1>4. /\ created \in GameSeq /\ Len(created) = n /\ DOMAIN created = 1 .. n
      /\ \A b \in 1 .. Len(bg) : created[b] = bg[b]
      /\ \A b \in 1 .. n : b \notin 1 .. Len(bg) => created[b] = Created(q)
  <2>1. CASE Len(bg) + 1 \in Range(s)
    <3> DEFINE S == Games \union {Deleted}
    <3>1. Created(q) \in S
      BY CreatedIs
    <3>2. bg \in Seq(S)
      BY <1>1 DEF GameSeq
    <3>3. created = Append(bg, Created(q)) /\ n = Len(bg) + 1
      BY <1>2, <1>3, <2>1 DEF WithCreated
    <3> HIDE DEF S
    <3>4. /\ created \in Seq(S) /\ Len(created) = n
          /\ \A b \in 1 .. Len(bg) : created[b] = bg[b]
          /\ created[Len(bg) + 1] = Created(q)
      BY <3>1, <3>2, <3>3
    <3>5. created \in GameSeq
      BY <3>4 DEF S, GameSeq
    <3> QED
      BY <1>1, <3>3, <3>4, <3>5, GameSeqIs
  <2>2. CASE Len(bg) + 1 \notin Range(s)
    BY <1>1, <1>2, <1>3, <2>2 DEF WithCreated
  <2> QED
    BY <2>1, <2>2
<1>5. bgs = [b \in 1 .. n |-> IF b = 0 \/ Invitees(s, b) = {} THEN created[b]
                              ELSE [created[b] EXCEPT !.invited = @ + Cardinality(Invitees(s, b))]]
  BY <1>2, <1>4
<1>6. \A b : Invitees(s, b) \subseteq DOMAIN s /\ Cardinality(Invitees(s, b)) \in Nat
  BY FS_Subset, FS_CardinalityType DEF Invitees, Selected
<1>7. ASSUME NEW b \in 1 .. n, NEW g \in Games, created[b] = g
      PROVE  /\ bgs[b] \in Games /\ bgs[b].queue = g.queue /\ bgs[b].players = g.players
             /\ bgs[b].invited = g.invited + Cardinality(Invitees(s, b))
  <2>1. PICK m \in Int : m = g.invited + Cardinality(Invitees(s, b))
    BY <1>6 DEF Games
  <2>2. CASE Invitees(s, b) = {}
    <3>1. Cardinality(Invitees(s, b)) = 0
      BY <2>2, FS_EmptySet
    <3>2. bgs[b] = g /\ g.invited + 0 = g.invited
      BY <1>5, <1>7, <2>2 DEF Games
    <3> QED
      BY <3>1, <3>2
  <2>3. CASE Invitees(s, b) # {}
    <3>1. bgs[b] = [g EXCEPT !.invited = m]
      BY <1>5, <1>7, <2>1, <2>3
    <3>2. /\ [g EXCEPT !.invited = m] \in Games
          /\ [g EXCEPT !.invited = m].invited = m
          /\ [g EXCEPT !.invited = m].queue = g.queue
          /\ [g EXCEPT !.invited = m].players = g.players
      BY Recounted
    <3> QED
      BY <2>1, <3>1, <3>2
  <2> QED
    BY <2>2, <2>3
<1>8. ASSUME NEW b \in 1 .. Len(bg), ~Exists(b)
      PROVE  bgs[b] = bg[b]
  <2>1. b \in 1 .. n /\ created[b] = bg[b]
    BY <1>1, <1>3, <1>4
  <2>2. Invitees(s, b) = {}
    <3> SUFFICES ASSUME NEW p \in DOMAIN s, s[p] = b PROVE FALSE
      BY DEF Invitees
    <3>1. s[p] = 0 \/ s[p] = Len(bg) + 1 \/ Exists(s[p])
      BY DEF Selected
    <3> QED
      BY <1>1, <1>8, <3>1
  <2> QED
    BY <1>5, <2>1, <2>2
<1>9. ASSUME NEW b \in 1 .. Len(bg), Exists(b)
      PROVE  /\ bgs[b] \in Games /\ bgs[b].queue = bg[b].queue /\ bgs[b].players = bg[b].players
             /\ bgs[b].invited = bg[b].invited + Cardinality(Invitees(s, b))
  <2>1. b \in 1 .. n /\ created[b] = bg[b] /\ bg[b] \in Games
    BY <1>1, <1>3, <1>4, <1>9, GameIs
  <2> QED
    BY <1>7, <2>1
<1>10. ASSUME NEW b \in 1 .. n, b \notin 1 .. Len(bg)
       PROVE  /\ bgs[b] \in Games /\ bgs[b].queue = q /\ DOMAIN bgs[b].players = {}
              /\ bgs[b].invited = Cardinality(Invitees(s, b))
  <2>1. PICK g \in Games : g = Created(q) /\ g.queue = q /\ g.invited = 0 /\ DOMAIN g.players = {}
    BY CreatedIs
  <2>2. created[b] = g
    BY <1>4, <1>10, <2>1
  <2>3. /\ bgs[b] \in Games /\ bgs[b].queue = g.queue /\ bgs[b].players = g.players
        /\ bgs[b].invited = g.invited + Cardinality(Invitees(s, b))
    BY <1>7, <2>2
  <2>4. 0 + Cardinality(Invitees(s, b)) = Cardinality(Invitees(s, b))
    BY <1>6
  <2> QED
    BY <2>1, <2>3, <2>4
<1>11. \A b \in 1 .. n : bgs[b] \in Games \union {Deleted}
  <2> SUFFICES ASSUME NEW b \in 1 .. n PROVE bgs[b] \in Games \union {Deleted}
    OBVIOUS
  <2>1. CASE b \in 1 .. Len(bg)
    BY <1>1, <1>8, <1>9, <2>1, GameSeqIs
  <2>2. CASE b \notin 1 .. Len(bg)
    BY <1>10, <2>2
  <2> QED
    BY <2>1, <2>2
<1>12. bgs \in GameSeq /\ Len(bgs) = n
  <2>1. bgs \in [1 .. n -> Games \union {Deleted}]
    BY <1>5, <1>11
  <2> QED
    BY <2>1, GameSeqIs
<1>13. \A p \in DOMAIN s : s[p] <= n
  <2> SUFFICES ASSUME NEW p \in DOMAIN s PROVE s[p] <= n
    OBVIOUS
  <2>1. s[p] \in Range(s)
    BY DEF Range
  <2>2. s[p] = 0 \/ s[p] = Len(bg) + 1 \/ Exists(s[p])
    BY DEF Selected
  <2>3. Exists(s[p]) => s[p] \in 1 .. Len(bg)
    BY DEF Exists
  <2> QED
    BY <1>1, <1>3, <2>1, <2>2, <2>3
<1>14. Len(bgs) \in {Len(bg), Len(bg) + 1}
  BY <1>3, <1>12
<1> QED
  BY <1>8, <1>9, <1>10, <1>12, <1>13, <1>14 DEF Inviting

\* Those whom the selection sends somewhere, and what they are told.
Called(s) == {p \in DOMAIN s : s[p] # 0}
InvitationTo(b) == [bg |-> b, removeTime |-> now + InviteWait]

\* Their entries, slots and events, after the invitations.
Told(q, s, entries, slots, events) ==
  /\ entries \in [Queues -> [Fighters -> Invitations]]
  /\ \A r \in Queues, p \in Fighters :
       entries[r][p] = IF r = q /\ p \in Called(s) THEN InvitationTo(s[p]) ELSE entry[r][p]
  /\ DOMAIN slots = Fighters
  /\ \A p \in Fighters : DOMAIN slots[p] = Queues
  /\ \A r \in Queues, p \in Fighters :
       slots[p][r] = IF r = q /\ p \in Called(s) THEN s[p] ELSE slot[p][r]
  /\ removals \subseteq events /\ events \subseteq Removals
  /\ \A p \in Called(s) : Removal(p, q, InvitationTo(s[p])) \in events

\* Nobody who is invited is offline.
LEMMA InviteIs ==
  ASSUME BgInv, NEW q \in Queues, NEW s, Selected(q, s), Invite(q, s)
  PROVE  Inviting(q, s, bg') /\ Told(q, s, entry', slot', removals')
<1> DEFINE present == {p \in Called(s) : place[p] # "offline"}
           created == WithCreated(q, s)
           removeTime == now + InviteWait
<1>1. /\ entry' = [entry EXCEPT ![q] = [p \in Fighters |->
                     IF p \in Called(s) THEN [bg |-> s[p], removeTime |-> removeTime] ELSE @[p]]]
      /\ slot' = [p \in Fighters |->
                     IF p \in present /\ slot[p][q] # NoSlot
                     THEN [slot[p] EXCEPT ![q] = s[p]] ELSE slot[p]]
      /\ removals' = removals \union
           {[player |-> p, queue |-> q, bg |-> s[p], removeTime |-> removeTime] : p \in present}
      /\ bg' = [b \in DOMAIN created |->
                  IF {p \in present : s[p] = b} = {} THEN created[b]
                  ELSE [created[b] EXCEPT !.invited = @ + Cardinality({p \in present : s[p] = b})]]
  BY DEF Invite, Called, WithCreated
<1>2. /\ Called(s) \subseteq Fighters /\ present = Called(s)
      /\ \A p \in Called(s) : s[p] \in Nat /\ slot[p][q] # NoSlot
  BY DEF Called, Selected, NoSlot
<1>3. BgTypes /\ now \in Nat /\ removeTime \in Nat
  BY QueueAssumption DEF BgInv, BgTypes
<1>4. Inviting(q, s, bg')
  <2>1. PICK new : new = bg'
    OBVIOUS
  <2>2. \A b \in DOMAIN created : IF b = 0 THEN {p \in present : s[p] = b} = {}
                                           ELSE {p \in present : s[p] = b} = Invitees(s, b)
    BY <1>2 DEF Called, Invitees
  <2> HIDE DEF present
  <2>3. new = [b \in DOMAIN created |->
                 IF b = 0 \/ Invitees(s, b) = {} THEN created[b]
                 ELSE [created[b] EXCEPT !.invited = @ + Cardinality(Invitees(s, b))]]
    BY <1>1, <2>1, <2>2
  <2>4. Inviting(q, s, new)
    BY <2>3, InvitingIs
  <2> QED
    BY <2>1, <2>4
<1>5. ASSUME NEW p \in Called(s) PROVE InvitationTo(s[p]) \in Invitations
  BY <1>2, <1>3 DEF InvitationTo, Invitations
<1>6. /\ entry' \in [Queues -> [Fighters -> Invitations]]
      /\ \A r \in Queues, p \in Fighters :
           entry'[r][p] = IF r = q /\ p \in Called(s) THEN InvitationTo(s[p]) ELSE entry[r][p]
  <2>1. entry \in [Queues -> [Fighters -> Invitations]]
    BY <1>3 DEF BgTypes
  <2>2. PICK f : f = [p \in Fighters |-> IF p \in Called(s) THEN InvitationTo(s[p]) ELSE entry[q][p]]
    OBVIOUS
  <2>3. f \in [Fighters -> Invitations]
    BY <1>5, <2>1, <2>2
  <2>4. entry' = [entry EXCEPT ![q] = f]
    BY <1>1, <2>1, <2>2 DEF InvitationTo
  <2> QED
    BY <2>1, <2>2, <2>3, <2>4
<1>7. /\ DOMAIN slot' = Fighters /\ \A p \in Fighters : DOMAIN slot'[p] = Queues
      /\ \A r \in Queues, p \in Fighters :
           slot'[p][r] = IF r = q /\ p \in Called(s) THEN s[p] ELSE slot[p][r]
  <2>1. slot \in [Fighters -> [Queues -> -1 .. Len(bg)]]
    BY <1>3 DEF BgTypes
  <2>2. slot' = [p \in Fighters |-> IF p \in Called(s) THEN [slot[p] EXCEPT ![q] = s[p]] ELSE slot[p]]
    BY <1>1, <1>2
  <2> QED
    BY <2>1, <2>2
<1>8. /\ removals \subseteq removals' /\ removals' \subseteq Removals
      /\ \A p \in Called(s) : Removal(p, q, InvitationTo(s[p])) \in removals'
  <2>1. removals \subseteq Removals
    BY <1>3 DEF BgTypes
  <2>2. \A p \in Called(s) : [player |-> p, queue |-> q, bg |-> s[p], removeTime |-> removeTime] \in Removals
    BY <1>2, <1>3 DEF Removals
  <2>3. removals' = removals \union
          {[player |-> p, queue |-> q, bg |-> s[p], removeTime |-> removeTime] : p \in Called(s)}
    BY <1>1, <1>2
  <2>4. \A p \in Called(s) : Removal(p, q, InvitationTo(s[p]))
                               = [player |-> p, queue |-> q, bg |-> s[p], removeTime |-> removeTime]
    BY DEF Removal, InvitationTo
  <2> QED
    BY <2>1, <2>2, <2>3, <2>4
<1> QED
  BY <1>4, <1>6, <1>7, <1>8 DEF Told

\* The battlegrounds there were stay, with the players they had; the new one is empty.
LEMMA StillThere ==
  ASSUME bg \in GameSeq, NEW q \in Queues, NEW s, Selected(q, s), Inviting(q, s, bg')
  PROVE  /\ \A b \in Nat : Exists(b) =>
              /\ Exists(b)' /\ bg'[b].queue = bg[b].queue /\ Participants(b)' = Participants(b)
              /\ bg'[b].invited = bg[b].invited + Cardinality(Invitees(s, b))
         /\ \A b \in Nat : Exists(b)' /\ ~Exists(b) =>
              /\ b \notin DOMAIN bg /\ bg'[b].queue = q /\ Participants(b)' = {}
              /\ bg'[b].invited = Cardinality(Invitees(s, b))
         /\ \A p \in Called(s) : Exists(s[p])' /\ bg'[s[p]].queue = q
<1>1. Len(bg) \in Nat /\ DOMAIN bg = 1 .. Len(bg) /\ Len(bg') \in Nat /\ DOMAIN bg' = 1 .. Len(bg')
  BY GameSeqIs DEF Inviting
<1>2. \A g \in Games : g.status # "deleted"
  BY DEF Games
<1>3. ASSUME NEW b \in Nat, Exists(b)
      PROVE  /\ Exists(b)' /\ bg'[b].queue = bg[b].queue /\ Participants(b)' = Participants(b)
             /\ bg'[b].invited = bg[b].invited + Cardinality(Invitees(s, b))
  <2>1. b \in 1 .. Len(bg) /\ b \in 1 .. Len(bg')
    <3>1. b \in 1 .. Len(bg)
      BY <1>3 DEF Exists
    <3>2. Len(bg') = Len(bg) \/ Len(bg') = Len(bg) + 1
      BY DEF Inviting
    <3>3. PICK n \in Nat : n = Len(bg)
      BY <1>1
    <3>4. PICK k \in Nat : k = Len(bg')
      BY <1>1
    <3>5. k = n \/ k = n + 1
      BY <3>2, <3>3, <3>4
    <3>6. b \in 1 .. n
      BY <3>1, <3>3
    <3>7. b \in 1 .. k
      BY <3>5, <3>6
    <3> QED
      BY <3>3, <3>4, <3>6, <3>7
  <2>2. /\ bg'[b] \in Games /\ bg'[b].queue = bg[b].queue /\ bg'[b].players = bg[b].players
        /\ bg'[b].invited = bg[b].invited + Cardinality(Invitees(s, b))
    BY <1>3, <2>1 DEF Inviting
  <2> QED
    BY <1>2, <2>1, <2>2 DEF Exists, Participants
<1>4. ASSUME NEW b \in Nat, b \in 1 .. Len(bg'), b \notin 1 .. Len(bg)
      PROVE  /\ Exists(b)' /\ bg'[b].queue = q /\ Participants(b)' = {}
             /\ bg'[b].invited = Cardinality(Invitees(s, b))
  <2>1. /\ bg'[b] \in Games /\ bg'[b].queue = q /\ DOMAIN bg'[b].players = {}
        /\ bg'[b].invited = Cardinality(Invitees(s, b))
    BY <1>4 DEF Inviting
  <2> QED
    BY <1>2, <1>4, <2>1 DEF Exists, Participants
<1>5. ASSUME NEW b \in Nat, Exists(b)', ~Exists(b)
      PROVE  b \in 1 .. Len(bg') /\ b \notin 1 .. Len(bg)
  <2>1. b \in 1 .. Len(bg') /\ bg'[b].status # "deleted"
    BY <1>5 DEF Exists
  <2>2. CASE b \in 1 .. Len(bg)
    <3>1. bg'[b] = bg[b]
      BY <1>5, <2>1, <2>2 DEF Inviting
    <3> QED
      BY <1>5, <2>1, <2>2, <3>1 DEF Exists
  <2> QED
    BY <2>1, <2>2
<1>6. ASSUME NEW p \in Called(s) PROVE Exists(s[p])' /\ bg'[s[p]].queue = q
  <2>1. p \in DOMAIN s /\ s[p] \in Nat /\ s[p] # 0 /\ s[p] <= Len(bg')
    BY DEF Called, Selected, Inviting
  <2>2. CASE Exists(s[p]) /\ bg[s[p]].queue = q
    BY <1>3, <2>1, <2>2
  <2>3. CASE s[p] = Len(bg) + 1
    BY <1>1, <1>4, <2>1, <2>3
  <2> QED
    BY <2>1, <2>2, <2>3 DEF Selected
<1> QED
  BY <1>1, <1>3, <1>4, <1>5, <1>6

\* Those invited join the ones there was a place for before.
LEMMA MorePlaces ==
  ASSUME BgInv, NEW q \in Queues, NEW s, Selected(q, s), Inviting(q, s, bg'),
         Told(q, s, entry', slot', removals'), UNCHANGED <<place, bgInstanceID>>,
         NEW b \in Nat, Exists(b)'
  PROVE  bg'[b].invited = Cardinality(KeptFor(b)') /\ bg'[b].invited <= MaxPlayers
<1>1. BgTypes /\ bg \in GameSeq /\ \A p \in Fighters : PlayerOK(p)
  BY DEF BgInv, BgTypes
<1>2. b # 0 /\ b \in Nat \ {0}
  BY DEF Exists
<1>3. Invitees(s, b) \subseteq Called(s) /\ Called(s) \subseteq Fighters
  BY <1>2 DEF Invitees, Called, Selected
<1>4. IsFiniteSet(Invitees(s, b)) /\ Cardinality(Invitees(s, b)) \in Nat
  BY <1>3, QueueAssumption, FS_Subset, FS_CardinalityType
<1>5. Cardinality(Invitees(s, b)) = 0 \/ CountOf(b) + Cardinality(Invitees(s, b)) <= MaxPlayers
  BY <1>2, FS_EmptySet DEF Selected
<1>6. ASSUME NEW p \in Called(s)
      PROVE  /\ p \in Fighters /\ entry[q][p] = Waiting /\ entry[q][p].bg = 0
             /\ entry'[q][p].bg = s[p]
  <2>1. p \in Fighters /\ entry[q][p] = Waiting /\ entry'[q][p] = InvitationTo(s[p])
    BY <1>3 DEF Called, Selected, Told
  <2> QED
    BY <2>1 DEF Waiting, InvitationTo
<1>7. InvitedTo(b)' = InvitedTo(b) \union Invitees(s, b)
  <2>1. ASSUME NEW p \in Fighters
        PROVE  (\E r \in Queues : entry'[r][p].bg = b)
                 <=> (\E r \in Queues : entry[r][p].bg = b) \/ p \in Invitees(s, b)
    <3>1. \A r \in Queues : r # q \/ p \notin Called(s) => entry'[r][p] = entry[r][p]
      BY DEF Told
    <3>2. CASE p \in Called(s)
      <4>1. p \in Invitees(s, b) <=> s[p] = b
        BY <3>2 DEF Invitees, Called
      <4> QED
        BY <1>2, <1>6, <3>1, <3>2, <4>1
    <3>3. CASE p \notin Called(s)
      BY <1>3, <3>1, <3>3
    <3> QED
      BY <3>2, <3>3
  <2> QED
    BY <1>3, <2>1 DEF InvitedTo, InvitingTo
<1>8. InTransitTo(b)' = InTransitTo(b)
  BY DEF InTransitTo
<1>9. CASE Exists(b)
  <2>1. Participants(b)' = Participants(b) /\ bg'[b].invited = bg[b].invited + Cardinality(Invitees(s, b))
    BY <1>1, <1>9, StillThere
  <2>2. KeptFor(b)' = KeptFor(b) \union Invitees(s, b)
    BY <1>7, <1>8, <2>1 DEF KeptFor
  <2>3. KeptFor(b) \intersect Invitees(s, b) = {}
    <3> SUFFICES ASSUME NEW p \in Invitees(s, b), p \in KeptFor(b) PROVE FALSE
      OBVIOUS
    <3>1. p \in Called(s) /\ s[p] = b /\ p \in DOMAIN s
      BY <1>3 DEF Invitees
    <3>2. s[p] # Len(bg) + 1
      BY <1>1, <1>9, <3>1, GameIs, GameSeqIs
    <3>3. bg[b].queue = q
      BY <1>2, <3>1, <3>2 DEF Selected
    <3>4. entry[q][p] = Waiting /\ Waiting # NotQueued /\ Waiting.bg = 0 /\ PlayerOK(p) /\ p \in Fighters
      BY <1>1, <1>6, <3>1 DEF Waiting, NotQueued
    <3>5. p \notin InTransitTo(b)
      BY <3>3, <3>4 DEF PlayerOK, TransitOf, InTransitTo
    <3>6. p \notin Participants(b)
      BY <1>9, <3>3, <3>4 DEF PlayerOK, InsideOf
    <3>7. ASSUME NEW r \in Queues, entry[r][p].bg = b PROVE FALSE
      <4>1. PICK i \in Invitations : i = entry[r][p]
        BY <1>1, <3>4 DEF BgTypes
      <4>2. i # NotQueued /\ i.bg # 0
        BY <1>2, <3>7, <4>1 DEF NotQueued
      <4>3. bg[b].queue = r
        BY <3>4, <3>7, <4>1, <4>2 DEF PlayerOK, EntriesOf
      <4> QED
        BY <1>2, <3>3, <3>4, <3>7, <4>3
    <3> QED
      BY <3>5, <3>6, <3>7 DEF KeptFor, InvitedTo, InvitingTo
  <2>4. IsFiniteSet(KeptFor(b)) /\ Cardinality(KeptFor(b)) \in Nat
    BY KeptFinite
  <2>5. Cardinality(KeptFor(b)') = Cardinality(KeptFor(b)) + Cardinality(Invitees(s, b))
    <3> HIDE DEF KeptFor, Invitees
    <3>1. Cardinality(KeptFor(b) \union Invitees(s, b))
            = Cardinality(KeptFor(b)) + Cardinality(Invitees(s, b)) - Cardinality(KeptFor(b) \intersect Invitees(s, b))
      BY <1>4, <2>4, FS_Union
    <3>2. Cardinality(KeptFor(b) \intersect Invitees(s, b)) = 0
      BY <2>3, FS_EmptySet
    <3> QED
      BY <1>4, <2>2, <2>4, <3>1, <3>2
  <2>6. bg[b].invited = Cardinality(KeptFor(b)) /\ bg[b].invited <= MaxPlayers /\ CountOf(b) = bg[b].invited
    BY <1>9 DEF BgInv, PlacesKept, CountOf
  <2> QED
    BY <1>4, <1>5, <2>1, <2>4, <2>5, <2>6, QueueAssumption
<1>10. CASE ~Exists(b)
  <2>1. Participants(b)' = {} /\ bg'[b].invited = Cardinality(Invitees(s, b))
    BY <1>1, <1>10, StillThere
  <2>2. InvitedTo(b) = {}
    <3> SUFFICES ASSUME NEW p \in Fighters, NEW r \in Queues, entry[r][p].bg = b PROVE FALSE
      BY DEF InvitedTo, InvitingTo
    <3>1. PICK i \in Invitations : i = entry[r][p]
      BY <1>1 DEF BgTypes
    <3>2. i # NotQueued /\ i.bg # 0
      BY <1>2, <3>1 DEF NotQueued
    <3> QED
      BY <1>1, <1>10, <3>1, <3>2 DEF PlayerOK, EntriesOf
  <2>3. InTransitTo(b) = {}
    BY <1>1, <1>10 DEF InTransitTo, PlayerOK, TransitOf
  <2>4. KeptFor(b)' = Invitees(s, b)
    BY <1>7, <1>8, <2>1, <2>2, <2>3 DEF KeptFor
  <2>5. CountOf(b) = 0
    BY <1>10 DEF CountOf
  <2> QED
    BY <1>4, <1>5, <2>1, <2>4, <2>5, QueueAssumption
<1> QED
  BY <1>9, <1>10

\* Nor does an invitation disturb anybody else.
LEMMA InviteKeeps ==
  ASSUME BgInv, NEW q \in Queues, NEW s, Selected(q, s), Invite(q, s), scheduled' \subseteq Queues,
         UNCHANGED <<place, bgInstanceID, deserters, now, updating, todo>>
  PROVE  BgInv'
<1>1. BgTypes /\ bg \in GameSeq /\ \A p \in Fighters : PlayerOK(p)
  BY DEF BgInv, BgTypes
<1>2. Inviting(q, s, bg') /\ Told(q, s, entry', slot', removals')
  BY InviteIs
<1>3. /\ \A b \in Nat : Exists(b) =>
           /\ Exists(b)' /\ bg'[b].queue = bg[b].queue /\ Participants(b)' = Participants(b)
      /\ \A b \in Nat : Exists(b)' /\ ~Exists(b) => Participants(b)' = {}
      /\ \A p \in Called(s) : Exists(s[p])' /\ bg'[s[p]].queue = q
  BY <1>1, <1>2, StillThere
<1>4. Len(bg) \in Nat /\ Len(bg') \in Nat /\ Len(bg) <= Len(bg') /\ bg' \in GameSeq
  <2>1. Len(bg') = Len(bg) \/ Len(bg') = Len(bg) + 1
    BY <1>2 DEF Inviting
  <2>2. Len(bg) \in Nat /\ Len(bg') \in Nat /\ bg' \in GameSeq
    BY <1>1, <1>2, GameSeqIs DEF Inviting
  <2> QED
    BY <2>1, <2>2
<1>5. \A p \in Called(s) :
        /\ p \in Fighters /\ p \in DOMAIN s /\ entry[q][p] = Waiting /\ place[p] # "offline"
        /\ s[p] \in Nat /\ s[p] # 0 /\ s[p] <= Len(bg')
  BY <1>2 DEF Called, Selected, Inviting
<1>6. BgTypes'
  <2>1. slot' \in [Fighters -> [Queues -> -1 .. Len(bg')]]
    <3>1. slot \in [Fighters -> [Queues -> -1 .. Len(bg)]]
      BY <1>1 DEF BgTypes
    <3>2. ASSUME NEW p \in Fighters, NEW r \in Queues
          PROVE  slot'[p][r] \in -1 .. Len(bg')
      <4>1. slot'[p][r] = IF r = q /\ p \in Called(s) THEN s[p] ELSE slot[p][r]
        BY <1>2 DEF Told
      <4>2. slot[p][r] \in -1 .. Len(bg)
        BY <3>1
      <4> QED
        BY <1>4, <1>5, <4>1, <4>2
    <3>3. slot' = [p \in Fighters |-> slot'[p]] /\ \A p \in Fighters : slot'[p] = [r \in Queues |-> slot'[p][r]]
      <4>1. slot' = [p \in Fighters |-> IF p \in {u \in {u \in Called(s) : place[u] # "offline"} : slot[u][q] # NoSlot}
                                        THEN [slot[p] EXCEPT ![q] = s[p]] ELSE slot[p]]
        BY DEF Invite, Called
      <4> QED
        BY <3>1, <4>1
    <3> QED
      BY <3>2, <3>3
  <2>2. bgInstanceID' \in [Fighters -> 0 .. Len(bg')]
    BY <1>1, <1>4 DEF BgTypes
  <2>3. \A b \in todo' : Exists(b)'
    <3>1. \A b \in todo : Exists(b) /\ b \in Nat
      BY <1>1 DEF BgTypes, Exists
    <3> QED
      BY <1>3, <3>1
  <2>4. entry' \in [Queues -> [Fighters -> Invitations]] /\ removals' \subseteq Removals
    BY <1>2 DEF Told
  <2> QED
    BY <1>1, <1>4, <2>1, <2>2, <2>3, <2>4 DEF BgTypes
<1>7. ASSUME NEW p \in Fighters PROVE PlayerOK(p)'
  <2>1. PlayerOK(p) /\ place'[p] = place[p] /\ bgInstanceID'[p] = bgInstanceID[p]
    BY <1>1
  <2>2. CASE p \notin Called(s)
    <3>1. /\ slot \in [Fighters -> [Queues -> -1 .. Len(bg)]]
          /\ slot' \in [Fighters -> [Queues -> -1 .. Len(bg')]]
          /\ \A r \in Queues : slot'[p][r] = slot[p][r] /\ entry'[r][p] = entry[r][p]
      BY <1>1, <1>2, <1>6, <2>2 DEF BgTypes, Told
    <3>2. slot'[p] = slot[p]
      BY <3>1
    <3>3. LeftAlone(p)
      BY <2>1, <3>1, <3>2 DEF LeftAlone
    <3>4. \A e \in removals : e.player = p => e \in removals'
      BY <1>2 DEF Told
    <3>5. \A b \in Nat : Exists(b) /\ p \in KeptFor(b) => Exists(b)' /\ bg'[b].queue = bg[b].queue
      BY <1>3
    <3>6. \A b \in Nat : Exists(b)' /\ p \in Participants(b)' => Exists(b) /\ p \in Participants(b)
      BY <1>3
    <3> QED
      BY <1>6, <3>3, <3>4, <3>5, <3>6, OthersKeep
  <2>3. CASE p \in Called(s)
    <3>1. /\ entry[q][p] = Waiting /\ Waiting # NotQueued /\ place[p] # "offline" /\ s[p] \in Nat
          /\ Exists(s[p])' /\ bg'[s[p]].queue = q
      BY <1>3, <1>5, <2>3 DEF Waiting, NotQueued
    <3>2. /\ entry'[q][p] = InvitationTo(s[p]) /\ slot'[p][q] = s[p]
          /\ Removal(p, q, InvitationTo(s[p])) \in removals'
          /\ \A r \in Queues : r # q => entry'[r][p] = entry[r][p] /\ slot'[p][r] = slot[p][r]
          /\ \A e \in removals : e \in removals'
      BY <1>2, <2>3 DEF Told
    <3>3. EntriesOf(p)'
      <4> SUFFICES ASSUME NEW r \in Queues, NEW i \in Invitations, entry'[r][p] = i, i # NotQueued
                   PROVE  /\ place'[p] # "offline" /\ i.bg \in Nat /\ slot'[p][r] = i.bg
                          /\ i.bg # 0 =>
                               Exists(i.bg)' /\ bg'[i.bg].queue = r /\ Removal(p, r, i) \in removals'
        BY DEF EntriesOf
      <4>1. CASE r = q
        <5>1. i = InvitationTo(s[p]) /\ i.bg = s[p]
          BY <3>2, <4>1 DEF InvitationTo
        <5> QED
          BY <2>1, <3>1, <3>2, <4>1, <5>1
      <4>2. CASE r # q
        <5>1. /\ i.bg \in Nat /\ slot[p][r] = i.bg
              /\ i.bg # 0 => Exists(i.bg) /\ bg[i.bg].queue = r /\ Removal(p, r, i) \in removals
          BY <2>1, <3>2, <4>2 DEF PlayerOK, EntriesOf
        <5> QED
          BY <1>3, <2>1, <3>1, <3>2, <4>2, <5>1
      <4> QED
        BY <4>1, <4>2
    <3>4. InsideOf(p)'
      <4> SUFFICES ASSUME NEW b \in Nat, Exists(b)', p \in Participants(b)'
                   PROVE  /\ bgInstanceID'[p] = b /\ place'[p] \in {"inside", "offline"}
                          /\ entry'[bg'[b].queue][p] = NotQueued
        BY DEF InsideOf
      <4>1. Exists(b) /\ p \in Participants(b) /\ bg'[b].queue = bg[b].queue
        BY <1>3
      <4>2. /\ bgInstanceID[p] = b /\ place[p] \in {"inside", "offline"}
            /\ entry[bg[b].queue][p] = NotQueued /\ bg[b].queue \in Queues
        BY <1>1, <2>1, <4>1, GameIs DEF PlayerOK, InsideOf
      <4> QED
        BY <2>1, <3>1, <3>2, <4>1, <4>2
    <3>5. TransitOf(p)'
      <4> SUFFICES ASSUME NEW b \in Nat, place'[p] = "transit", bgInstanceID'[p] = b
                   PROVE  Exists(b)' /\ slot'[p][bg'[b].queue] = b /\ entry'[bg'[b].queue][p] = NotQueued
        BY DEF TransitOf
      <4>1. Exists(b) /\ slot[p][bg[b].queue] = b /\ entry[bg[b].queue][p] = NotQueued
        BY <2>1 DEF PlayerOK, TransitOf
      <4>2. bg[b].queue \in Queues /\ bg[b].queue # q /\ bg'[b].queue = bg[b].queue /\ Exists(b)'
        BY <1>1, <1>3, <3>1, <4>1, GameIs
      <4> QED
        BY <3>2, <4>1, <4>2
    <3> QED
      BY <3>3, <3>4, <3>5 DEF PlayerOK
  <2> QED
    BY <2>2, <2>3
<1>8. \A b \in Nat : Exists(b)' => bg'[b].invited = Cardinality(KeptFor(b)') /\ bg'[b].invited <= MaxPlayers
  BY <1>2, MorePlaces
<1> QED
  BY <1>6, <1>7, <1>8 DEF BgInv, PlacesKept

\* BattlegroundQueueUpdate, whomever the selection pools take.
LEMMA UpdateQueueKeeps ==
  ASSUME BgInv, NEW q \in Queues, UpdateQueue(q)
  PROVE  BgInv'
<1>1. PICK s \in Selections(q) : Invite(q, s)
  BY DEF UpdateQueue
<1>2. Selected(q, s)
  BY SelectionIs
<1>3. scheduled' \subseteq Queues /\ UNCHANGED <<place, bgInstanceID, deserters, now, updating, todo>>
  BY DEF UpdateQueue, BgInv, BgTypes
<1> QED
  BY <1>1, <1>2, <1>3, InviteKeeps

-----------------------------------------------------------------------------
(* Together. *)

\* At first nobody is in a queue and there is no battleground.
LEMMA BgInitInv == BgInit => BgInv
<1> SUFFICES ASSUME BgInit PROVE BgInv
  OBVIOUS
<1>1. bg = <<>> /\ Len(bg) = 0 /\ bg \in GameSeq /\ \A b : ~Exists(b)
  BY DEF BgInit, GameSeq, Exists
<1>2. /\ place = [p \in Fighters |-> "world"] /\ bgInstanceID = [p \in Fighters |-> 0]
      /\ slot = [p \in Fighters |-> [q \in Queues |-> -1]]
      /\ entry = [q \in Queues |-> [p \in Fighters |-> NotQueued]]
      /\ removals = {} /\ deserters = {} /\ scheduled = {} /\ now = 0 /\ updating = FALSE /\ todo = {}
  BY DEF BgInit, NoSlot
<1>3. NotQueued \in Invitations
  BY DEF NotQueued, Invitations
<1>4. BgTypes
  <2>1. slot \in [Fighters -> [Queues -> -1 .. Len(bg)]]
    <3>1. -1 \in -1 .. 0
      OBVIOUS
    <3> QED
      BY <1>1, <1>2, <3>1
  <2>2. entry \in [Queues -> [Fighters -> Invitations]]
    BY <1>2, <1>3
  <2>3. place \in [Fighters -> Places]
    BY <1>2 DEF Places
  <2>4. bgInstanceID \in [Fighters -> 0 .. Len(bg)]
    BY <1>1, <1>2
  <2>5. now \in 0 .. MaxClock
    BY <1>2, QueueAssumption
  <2> QED
    BY <1>1, <1>2, <2>1, <2>2, <2>3, <2>4, <2>5 DEF BgTypes
<1>5. \A p \in Fighters : PlayerOK(p)
  BY <1>1, <1>2 DEF PlayerOK, EntriesOf, InsideOf, TransitOf
<1> QED
  BY <1>1, <1>4, <1>5 DEF BgInv, PlacesKept

\* Every step of the handlers and of the update.
LEMMA BgStepKeeps ==
  ASSUME BgInv, [BgNext]_bgVars
  PROVE  BgInv'
<1>1. CASE UNCHANGED bgVars \/ StartUpdate \/ EndUpdate
  BY <1>1, OtherStepsKeep
<1>2. ASSUME NEW p \in Fighters, NEW q \in Queues,
             JoinQueue(p, q) \/ AcceptInvite(p, q) \/ LeaveQueue(p, q)
      PROVE  BgInv'
  BY <1>2, JoinKeeps, AcceptKeeps, LeaveQueueKeeps
<1>3. ASSUME NEW p \in Fighters,
             Arrive(p) \/ LeaveBattleground(p) \/ DeserterEnds(p) \/ Logout(p) \/ Login(p)
      PROVE  BgInv'
  BY <1>3, ArriveKeeps, LeaveBattlegroundKeeps, OtherStepsKeep, BgLogoutKeeps, LoginKeeps
<1>4. ASSUME NEW b \in DOMAIN bg, EndBattleground(b) \/ UpdateBattleground(b)
      PROVE  BgInv'
  BY <1>4, EndBattlegroundKeeps, UpdateBattlegroundKeeps
<1>5. ASSUME NEW e \in removals, ExecuteRemoval(e)
      PROVE  BgInv'
  BY <1>5, BgRemovalKeeps
<1>6. ASSUME NEW q \in Queues, UpdateQueue(q)
      PROVE  BgInv'
  BY <1>6, UpdateQueueKeeps
<1> QED
  BY <1>1, <1>2, <1>3, <1>4, <1>5, <1>6 DEF BgNext

\* The inductive invariant of the queues and their battlegrounds.
THEOREM BgInvariant == BgSpec => []BgInv
<1>1. BgInit => BgInv
  BY BgInitInv
<1>2. BgInv /\ [BgNext]_bgVars => BgInv'
  BY BgStepKeeps
<1> QED
  BY <1>1, <1>2, PTL DEF BgSpec

\* It has the types, and says that a count of invited players is one of a team.
LEMMA BgInvTypes == BgInv => BgTypeOK
<1> SUFFICES ASSUME BgInv PROVE BgTypeOK
  OBVIOUS
<1>1. BgTypes /\ bg \in GameSeq /\ Len(bg) \in Nat /\ DOMAIN bg = 1 .. Len(bg)
  BY GameSeqIs DEF BgInv, BgTypes
<1>2. ASSUME NEW p \in Fighters
      PROVE  /\ place[p] \in {"world", "transit", "inside", "offline"}
             /\ bgInstanceID[p] \in 0..Len(bg)
             /\ Cardinality({b \in DOMAIN bg : p \in Participants(b)}) =< 1
             /\ \A q \in Queues :
                  /\ slot[p][q] \in {NoSlot} \union 0..Len(bg)
                  /\ entry[q][p] # NotQueued =>
                       place[p] # "offline" /\ slot[p][q] = entry[q][p].bg
             /\ place[p] = "transit" => \E q \in Queues : slot[p][q] = bgInstanceID[p]
  <2>1. PlayerOK(p)
    BY DEF BgInv
  <2>2. place[p] \in {"world", "transit", "inside", "offline"} /\ bgInstanceID[p] \in 0 .. Len(bg)
    BY <1>1 DEF BgTypes, Places
  <2>3. {b \in DOMAIN bg : p \in Participants(b)} \subseteq {bgInstanceID[p]}
    <3> SUFFICES ASSUME NEW b \in DOMAIN bg, p \in Participants(b) PROVE b = bgInstanceID[p]
      OBVIOUS
    <3>1. b \in Nat /\ b \in 1 .. Len(bg)
      BY <1>1
    <3>2. Exists(b)
      <4>1. CASE bg[b] \in Games
        BY <3>1, <4>1 DEF Exists, Games
      <4>2. CASE bg[b] = Deleted
        <5>1. bg[b].players = <<>> /\ DOMAIN <<>> = {}
          BY <4>2 DEF Deleted
        <5> QED
          BY <5>1 DEF Participants
      <4> QED
        BY <1>1, <3>1, <4>1, <4>2, GameSeqIs
    <3> QED
      BY <2>1, <3>1, <3>2 DEF PlayerOK, InsideOf
  <2>4. Cardinality({b \in DOMAIN bg : p \in Participants(b)}) =< 1
    <3> DEFINE own == {b \in DOMAIN bg : p \in Participants(b)}
    <3>1. IsFiniteSet({bgInstanceID[p]}) /\ Cardinality({bgInstanceID[p]}) = 1
      BY FS_Singleton
    <3> HIDE DEF own
    <3>2. own \subseteq {bgInstanceID[p]}
      BY <2>3 DEF own
    <3>3. Cardinality(own) =< Cardinality({bgInstanceID[p]})
      BY <3>1, <3>2, FS_Subset
    <3> QED
      BY <3>1, <3>3 DEF own
  <2>5. ASSUME NEW q \in Queues
        PROVE  /\ slot[p][q] \in {NoSlot} \union 0..Len(bg)
               /\ entry[q][p] # NotQueued => place[p] # "offline" /\ slot[p][q] = entry[q][p].bg
    <3>1. slot[p][q] \in -1 .. Len(bg)
      BY <1>1 DEF BgTypes
    <3>2. PICK i \in Invitations : i = entry[q][p]
      BY <1>1 DEF BgTypes
    <3>3. i # NotQueued => place[p] # "offline" /\ slot[p][q] = i.bg
      BY <2>1, <3>2 DEF PlayerOK, EntriesOf
    <3> QED
      BY <1>1, <3>1, <3>2, <3>3 DEF NoSlot
  <2>6. place[p] = "transit" => \E q \in Queues : slot[p][q] = bgInstanceID[p]
    <3> SUFFICES ASSUME place[p] = "transit" PROVE \E q \in Queues : slot[p][q] = bgInstanceID[p]
      OBVIOUS
    <3>1. PICK b \in Nat : b = bgInstanceID[p]
      BY <1>1, <2>2
    <3>2. Exists(b) /\ slot[p][bg[b].queue] = b
      BY <2>1, <3>1 DEF PlayerOK, TransitOf
    <3>3. bg[b].queue \in Queues
      BY <1>1, <3>2, GameIs
    <3> QED
      BY <3>1, <3>2, <3>3
  <2> QED
    BY <2>2, <2>4, <2>5, <2>6
<1>3. ASSUME NEW b \in DOMAIN bg, Exists(b)
      PROVE  bg[b].invited \in 0..MaxPlayers /\ Participants(b) \subseteq Fighters
  <2>1. b \in Nat
    BY <1>1
  <2>2. Cardinality(KeptFor(b)) \in Nat
    BY KeptFinite
  <2>3. bg[b].invited = Cardinality(KeptFor(b)) /\ bg[b].invited <= MaxPlayers
    BY <1>3, <2>1 DEF BgInv, PlacesKept
  <2> QED
    BY <1>1, <1>3, <2>1, <2>2, <2>3, GameIs, QueueAssumption
<1> QED
  BY <1>1, <1>2, <1>3 DEF BgTypeOK, BgTypes

\* The types, and that no count of invited players wraps or exceeds a team
\* (m_InvitedAlliance and m_InvitedHorde of Battleground.h).
THEOREM BgTypesHold == BgSpec => []BgTypeOK
BY BgInvariant, BgInvTypes, PTL

\* Sets without a common element.
LEMMA DisjointSizes ==
  ASSUME NEW S, NEW T, IsFiniteSet(S), IsFiniteSet(T), S \intersect T = {}
  PROVE  /\ IsFiniteSet(S \union T)
         /\ Cardinality(S) \in Nat /\ Cardinality(T) \in Nat
         /\ Cardinality(S \union T) = Cardinality(S) + Cardinality(T)
<1>1. Cardinality(S \intersect T) = 0
  BY FS_EmptySet
<1>2. /\ IsFiniteSet(S \union T) /\ Cardinality(S) \in Nat /\ Cardinality(T) \in Nat
      /\ Cardinality(S \union T) = Cardinality(S) + Cardinality(T) - Cardinality(S \intersect T)
  BY FS_Union, FS_CardinalityType
<1> QED
  BY <1>1, <1>2

\* The three ways to have a place exclude each other.
LEMMA BgInvCounts == BgInv => InvitationsCounted
<1> SUFFICES ASSUME BgInv PROVE InvitationsCounted
  OBVIOUS
<1>1. /\ BgTypes /\ bg \in GameSeq /\ Len(bg) \in Nat /\ DOMAIN bg = 1 .. Len(bg)
      /\ \A p \in Fighters : PlayerOK(p)
  BY GameSeqIs DEF BgInv, BgTypes
<1>2. ASSUME NEW b \in DOMAIN bg, Exists(b)
      PROVE  bg[b].invited = Cardinality(InvitedTo(b)) + Cardinality(InTransitTo(b))
                             + Cardinality(Participants(b))
  <2>1. b \in Nat /\ b # 0 /\ Participants(b) \subseteq Fighters /\ bg[b].queue \in Queues
    BY <1>1, <1>2, GameIs
  <2>2. /\ InvitedTo(b) \subseteq Fighters /\ InTransitTo(b) \subseteq Fighters
        /\ IsFiniteSet(InvitedTo(b)) /\ IsFiniteSet(InTransitTo(b)) /\ IsFiniteSet(Participants(b))
    <3>1. InvitedTo(b) \subseteq Fighters /\ InTransitTo(b) \subseteq Fighters
      BY DEF InvitedTo, InTransitTo
    <3> QED
      BY <2>1, <3>1, QueueAssumption, FS_Subset
  <2>3. InvitedTo(b) \intersect InTransitTo(b) = {}
    <3> SUFFICES ASSUME NEW p \in Fighters, p \in InvitedTo(b), p \in InTransitTo(b) PROVE FALSE
      BY <2>2
    <3>1. PICK q \in Queues : entry[q][p].bg = b
      BY DEF InvitedTo, InvitingTo
    <3>2. q = bg[b].queue /\ entry[q][p] # NotQueued
      BY <1>1, <1>2, <2>1, <3>1, NotInvited DEF PlayerOK
    <3> QED
      BY <1>1, <2>1, <3>2 DEF InTransitTo, PlayerOK, TransitOf
  <2>4. (InvitedTo(b) \union InTransitTo(b)) \intersect Participants(b) = {}
    <3> SUFFICES ASSUME NEW p \in Fighters, p \in Participants(b), p \in InvitedTo(b) \union InTransitTo(b)
                 PROVE  FALSE
      BY <2>1
    <3>1. place[p] \in {"inside", "offline"} /\ \A q \in Queues : entry[q][p].bg # b
      BY <1>1, <1>2, <2>1, InsideOnly
    <3> QED
      BY <3>1 DEF InvitedTo, InvitingTo, InTransitTo
  <2>5. KeptFor(b) = (InvitedTo(b) \union InTransitTo(b)) \union Participants(b)
    BY <2>1 DEF KeptFor
  <2>6. PICK S, T, P : S = InvitedTo(b) /\ T = InTransitTo(b) /\ P = Participants(b)
    OBVIOUS
  <2>7. /\ IsFiniteSet(S \union T) /\ Cardinality(S) \in Nat /\ Cardinality(T) \in Nat
        /\ Cardinality(S \union T) = Cardinality(S) + Cardinality(T)
    BY <2>2, <2>3, <2>6, DisjointSizes
  <2>8. Cardinality((S \union T) \union P) = Cardinality(S \union T) + Cardinality(P) /\ Cardinality(P) \in Nat
    BY <2>2, <2>4, <2>6, <2>7, DisjointSizes
  <2>9. bg[b].invited = Cardinality(KeptFor(b))
    BY <1>2, <2>1 DEF BgInv, PlacesKept
  <2> QED
    BY <2>5, <2>6, <2>7, <2>8, <2>9
<1>3. ASSUME NEW b \in DOMAIN bg, ~Exists(b), NEW p \in Fighters, p \in InvitedTo(b) \union InTransitTo(b)
      PROVE  FALSE
  <2>1. b \in Nat /\ b # 0 /\ PlayerOK(p)
    BY <1>1
  <2>2. CASE p \in InTransitTo(b)
    BY <1>3, <2>1, <2>2 DEF InTransitTo, PlayerOK, TransitOf
  <2>3. CASE p \in InvitedTo(b)
    <3>1. PICK q \in Queues : entry[q][p].bg = b
      BY <2>3 DEF InvitedTo, InvitingTo
    <3>2. PICK i \in Invitations : i = entry[q][p]
      BY <1>1 DEF BgTypes
    <3>3. i # NotQueued
      BY <1>1, <2>1, <3>1, <3>2 DEF NotQueued
    <3> QED
      BY <1>3, <2>1, <3>1, <3>2, <3>3 DEF PlayerOK, EntriesOf
  <2> QED
    BY <1>3, <2>2, <2>3
<1>4. \A b : InvitedTo(b) \union InTransitTo(b) \subseteq Fighters
  BY DEF InvitedTo, InTransitTo
<1> QED
  BY <1>2, <1>3, <1>4 DEF InvitationsCounted

\* m_InvitedAlliance, which GetFreeSlotsForTeam and the deletion in
\* Battleground::Update go by, counts exactly those who have a place.
THEOREM PlacesAreKept == BgSpec => []InvitationsCounted
BY BgInvariant, BgInvCounts, PTL

-----------------------------------------------------------------------------
(* Invitations are withdrawn in time. *)

StillInTime ==
  updating => \A q \in Queues, p \in Fighters :
    entry[q][p].bg > 0 /\ entry[q][p].removeTime > now => entry'[q][p] = entry[q][p]

NoneOverdue ==
  updating /\ ~updating' => \A q \in Queues, p \in Fighters :
    entry[q][p].bg > 0 => entry[q][p].removeTime > now

\* BGQueueRemoveEvent ends no invitation whose time is not up.
LEMMA RemovalInTime ==
  ASSUME BgInv, NEW e \in removals, ExecuteRemoval(e)
  PROVE  StillInTime /\ NoneOverdue
<1>1. PICK p \in Fighters, q \in Queues : p = e.player /\ q = e.queue
  BY DEF BgInv, BgTypes, Removals
<1>2. entry \in [Queues -> [Fighters -> Invitations]]
  BY DEF BgInv, BgTypes
<1>3. e.removeTime =< now /\ updating' = updating
  BY DEF ExecuteRemoval, Due
<1>4. CASE entry' = entry
  BY <1>3, <1>4 DEF StillInTime, NoneOverdue
<1>5. CASE entry' # entry
  <2>1. entry' = EntriesWithout(p, {q}) /\ entry[q][p] = [bg |-> e.bg, removeTime |-> e.removeTime]
    BY <1>1, <1>5 DEF ExecuteRemoval, IsPlayerInvited
  <2>2. PICK new : new = entry'
    OBVIOUS
  <2>3. /\ \A r \in Queues : new[r][p] = IF r \in {q} THEN NotQueued ELSE entry[r][p]
        /\ \A r \in Queues, u \in Fighters : u # p => new[r][u] = entry[r][u]
    BY <1>2, <2>1, <2>2, EntriesWithoutAre
  <2>4. entry[q][p].removeTime =< now /\ entry[q][p].removeTime \in Nat
    <3>1. entry[q][p].removeTime = e.removeTime
      BY <2>1
    <3>2. PICK i \in Invitations : i = entry[q][p]
      BY <1>2
    <3> QED
      BY <1>3, <3>1, <3>2 DEF Invitations
  <2>5. now \in Nat
    BY QueueAssumption DEF BgInv, BgTypes
  <2>6. ASSUME NEW r \in Queues, NEW u \in Fighters, entry[r][u].removeTime > now
        PROVE  new[r][u] = entry[r][u]
    <3>1. ~(r = q /\ u = p)
      BY <2>4, <2>5, <2>6
    <3> QED
      BY <2>3, <3>1
  <2> QED
    BY <1>3, <2>2, <2>6 DEF StillInTime, NoneOverdue
<1> QED
  BY <1>4, <1>5

\* A queue invites those alone who are not invited.
LEMMA InviteInTime ==
  ASSUME BgInv, NEW q \in Queues, UpdateQueue(q)
  PROVE  StillInTime /\ NoneOverdue
<1>1. PICK s \in Selections(q) : Invite(q, s)
  BY DEF UpdateQueue
<1>2. Selected(q, s)
  BY SelectionIs
<1>3. Told(q, s, entry', slot', removals')
  BY <1>1, <1>2, InviteIs
<1>4. ASSUME NEW r \in Queues, NEW p \in Fighters, entry[r][p].bg > 0
      PROVE  entry'[r][p] = entry[r][p]
  <2>1. ~(r = q /\ p \in Called(s))
    <3> SUFFICES ASSUME r = q, p \in Called(s) PROVE FALSE
      OBVIOUS
    <3>1. entry[q][p] = Waiting /\ Waiting.bg = 0
      BY <1>2 DEF Called, Selected, Waiting
    <3> QED
      BY <1>4, <3>1
  <2> QED
    BY <1>3, <2>1 DEF Told
<1>5. updating' = updating
  BY DEF UpdateQueue
<1> QED
  BY <1>4, <1>5 DEF StillInTime, NoneOverdue

\* The update ends when no event is due, and every invitation has its event.
LEMMA DoneInTime ==
  ASSUME BgInv, EndUpdate
  PROVE  StillInTime /\ NoneOverdue
<1>1. entry' = entry /\ \A e \in removals : ~(e.removeTime =< now)
  BY DEF EndUpdate, Due
<1>2. ASSUME NEW q \in Queues, NEW p \in Fighters, entry[q][p].bg > 0
      PROVE  entry[q][p].removeTime > now
  <2>1. PICK i \in Invitations : i = entry[q][p]
    BY DEF BgInv, BgTypes
  <2>2. i # NotQueued /\ i.bg # 0 /\ i.removeTime \in Nat /\ now \in Nat
    BY <1>2, <2>1, QueueAssumption DEF NotQueued, Invitations, BgInv, BgTypes
  <2>3. Removal(p, q, i) \in removals
    BY <2>1, <2>2 DEF BgInv, PlayerOK, EntriesOf
  <2>4. Removal(p, q, i).removeTime = i.removeTime
    BY DEF Removal
  <2> QED
    BY <1>1, <2>1, <2>2, <2>3, <2>4
<1> QED
  BY <1>1, <1>2 DEF StillInTime, NoneOverdue

\* Both parts, for every step.
LEMMA StepsInTime ==
  ASSUME BgInv, [BgNext]_bgVars
  PROVE  StillInTime /\ NoneOverdue
<1>1. CASE UNCHANGED bgVars
  BY <1>1 DEF bgVars, StillInTime, NoneOverdue
<1>2. CASE ~updating
  BY <1>2 DEF StillInTime, NoneOverdue
<1>3. CASE updating /\ BgNext
  <2>1. ASSUME NEW p \in Fighters, NEW q \in Queues,
               JoinQueue(p, q) \/ AcceptInvite(p, q) \/ LeaveQueue(p, q)
        PROVE  ~updating
    BY <2>1 DEF JoinQueue, AcceptInvite, LeaveQueue, MayAct
  <2>2. ASSUME NEW p \in Fighters,
               Arrive(p) \/ LeaveBattleground(p) \/ DeserterEnds(p) \/ Logout(p) \/ Login(p)
        PROVE  ~updating
    BY <2>2 DEF Arrive, LeaveBattleground, DeserterEnds, Logout, Login, MayAct
  <2>3. ASSUME NEW b \in DOMAIN bg, EndBattleground(b) \/ UpdateBattleground(b)
        PROVE  ~updating \/ (entry' = entry /\ updating' = updating)
    BY <2>3 DEF EndBattleground, UpdateBattleground
  <2>4. StartUpdate => ~updating
    BY DEF StartUpdate
  <2>5. (\E b \in DOMAIN bg : EndBattleground(b) \/ UpdateBattleground(b)) => StillInTime /\ NoneOverdue
    BY <1>3, <2>3 DEF StillInTime, NoneOverdue
  <2>6. (\E e \in removals : ExecuteRemoval(e)) => StillInTime /\ NoneOverdue
    BY RemovalInTime
  <2>7. (\E q \in Queues : UpdateQueue(q)) => StillInTime /\ NoneOverdue
    BY InviteInTime
  <2>8. EndUpdate => StillInTime /\ NoneOverdue
    BY DoneInTime
  <2> QED
    BY <1>3, <2>1, <2>2, <2>4, <2>5, <2>6, <2>7, <2>8 DEF BgNext
<1> QED
  BY <1>1, <1>2, <1>3

\* The update withdraws an invitation only when its time is up, and leaves none
\* behind whose time is up (BattlegroundQueue.cpp, BGQueueRemoveEvent::Execute).
THEOREM InvitationsEndInTime == BgSpec => RemovedInTime
<1>1. BgInv /\ [BgNext]_bgVars =>
        [/\ updating => \A q \in Queues, p \in Fighters :
              entry[q][p].bg > 0 /\ entry[q][p].removeTime > now => entry'[q][p] = entry[q][p]
         /\ updating /\ ~updating' => \A q \in Queues, p \in Fighters :
              entry[q][p].bg > 0 => entry[q][p].removeTime > now]_bgVars
  BY StepsInTime DEF StillInTime, NoneOverdue
<1> QED
  BY <1>1, BgInvariant, PTL DEF BgSpec, RemovedInTime

=============================================================================
