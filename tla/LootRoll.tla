------------------------------ MODULE LootRoll ------------------------------
(***************************************************************************)
(* Rolls of a group for the items of a loot: LootRoll and Loot in          *)
(* game/Loot/Loot.cpp, with the vector of rolls each player keeps.         *)
(*                                                                         *)
(* A roll starts when the loot is opened first and ends by the last vote,  *)
(* by its time-out, or with the loot.  Members leave the map and come back *)
(* meanwhile.  Packets and the update of the corpse are served one at a    *)
(* time.  All rolls of a loot start, and time out, together.               *)
(***************************************************************************)
EXTENDS Integers, FiniteSets, Sequences, SequencesExt

CONSTANTS
  Members,     \* the allowed looters
  LootItems,   \* the items of the loot that are over the threshold
  Nobody,
  MaxNumber,   \* the highest roll (100)
  PassOnLoot   \* members that pass on group loot

ASSUME LootAssumption ==
  /\ IsFiniteSet(Members) /\ Nobody \notin Members /\ PassOnLoot \subseteq Members
  /\ MaxNumber \in Nat \ {0}

VARIABLES
  _wasOpened,
  destroyed,      \* the loot is gone with its corpse
  _rolls,         \* the items that are rolled for now
  timedOut,       \* m_endTime is reached
  m_rollVoteMap,  \* per item and member: Vote and RollNumber
  is_blocked, is_underthreshold, rollWinner,
  looted,         \* per item: who it was stored for
  disenchanted,   \* the items given as what they disenchant into
  inWorld,        \* members on the map of the loot
  m_lootRolls     \* per member: the items whose rolls it points to

itemVars == <<is_blocked, is_underthreshold, rollWinner, looted, disenchanted>>
lootVars == <<_wasOpened, destroyed, timedOut, _rolls, m_rollVoteMap, itemVars, inWorld, m_lootRolls>>

NoVote == [Vote |-> "NotValid", RollNumber |-> 0]

LootInit ==
  /\ _wasOpened = FALSE /\ destroyed = FALSE
  /\ _rolls = {} /\ timedOut = FALSE
  /\ m_rollVoteMap = [i \in LootItems |-> [p \in Members |-> NoVote]]
  /\ is_blocked = [i \in LootItems |-> TRUE]
  /\ is_underthreshold = [i \in LootItems |-> FALSE]
  /\ rollWinner = [i \in LootItems |-> Nobody]
  /\ looted = [i \in LootItems |-> {}]
  /\ disenchanted = {}
  /\ inWorld = Members
  /\ m_lootRolls = [p \in Members |-> {}]

-----------------------------------------------------------------------------
(* The vote of a member, and what has been voted for an item. *)

Votes(i, vote) == {p \in Members : m_rollVoteMap[i][p].Vote = vote}
AllVoted(i) == Votes(i, "NotEmitedYet") = {}
Number(i, p) == m_rollVoteMap[i][p].RollNumber

\* AllPlayerVoted, the step of its loop: p is better than the best so far.
Better(i, best, p) ==
  LET vote == m_rollVoteMap[i][p].Vote
      someoneNeeds == best # Nobody /\ m_rollVoteMap[i][best].Vote = "Need"
  IN  \/ /\ vote = "Need"
         /\ ~someoneNeeds \/ Number(i, p) > Number(i, best)
      \/ /\ vote \in {"Greed", "Disenchant"} /\ ~someoneNeeds
         /\ best = Nobody \/ Number(i, p) > Number(i, best)

\* The winner when the votes are gone through in a given order; the map is
\* unordered.
WinnerIn(i, order) ==
  FoldLeft(LAMBDA best, p : IF Better(i, best, p) THEN p ELSE best, Nobody, order)

Winners(i) == {WinnerIn(i, order) : order \in SetToSeqs(Members)}

-----------------------------------------------------------------------------
(* OnLootOpened: TryToStart for each item. *)

Eligible == inWorld
FirstVote(p) ==
  CASE p \notin Eligible -> NoVote
    [] p \in PassOnLoot -> [Vote |-> "Pass", RollNumber |-> 0]
    [] OTHER -> [Vote |-> "NotEmitedYet", RollNumber |-> 0]

OpenLoot(p) ==
  /\ ~destroyed /\ ~_wasOpened /\ p \in inWorld
  /\ _wasOpened' = TRUE
  /\ IF Cardinality(Eligible) > 1
     THEN /\ _rolls' = LootItems
          /\ m_rollVoteMap' = [i \in LootItems |-> [m \in Members |-> FirstVote(m)]]
          /\ m_lootRolls' = [m \in Members |-> IF FirstVote(m).Vote = "NotEmitedYet"
                                               THEN LootItems ELSE m_lootRolls[m]]
          /\ UNCHANGED <<is_blocked, is_underthreshold>>
     ELSE /\ is_underthreshold' = [i \in LootItems |-> TRUE]
          /\ is_blocked' = [i \in LootItems |-> FALSE]
          /\ UNCHANGED <<_rolls, m_rollVoteMap, m_lootRolls>>
  /\ UNCHANGED <<destroyed, timedOut, rollWinner, looted, disenchanted, inWorld>>

\* HandleLootRoll: the roll is found among those the player points to.  One
\* that was destroyed is compared as well; it is taken not to match.
PlayerVote(p, i, vote, number) ==
  /\ p \in inWorld /\ i \in m_lootRolls[p] /\ i \in _rolls
  /\ m_rollVoteMap' = [m_rollVoteMap EXCEPT
       ![i][p] = [Vote |-> vote, RollNumber |-> IF vote = "Pass" THEN Number(i, p) ELSE number]]
  /\ UNCHANGED <<_wasOpened, destroyed, timedOut, _rolls, itemVars, inWorld, m_lootRolls>>

\* The destructor: members on the map that have not voted forget the roll.
Forgotten(i, votes) ==
  [p \in Members |-> IF p \in inWorld /\ votes[i][p].Vote = "NotEmitedYet"
                     THEN m_lootRolls[p] \ {i} ELSE m_lootRolls[p]]

\* Defect: the item stays blocked when everybody passed.
FinishAllPassedBlocked(i) ==
  /\ rollWinner' = rollWinner /\ UNCHANGED <<is_blocked, looted, disenchanted>>

FinishAllPassed(i) ==
  /\ is_blocked' = [is_blocked EXCEPT ![i] = FALSE]
  /\ UNCHANGED <<rollWinner, looted, disenchanted>>

\* Defect: the item can be had while it is rolled for.
StorableWhileRolling(p, i, blocked, winner) == looted[i] = {} /\ winner \in {Nobody, p}

\* StoreLootItem: p may have the item.
Storable(p, i, blocked, winner) ==
  /\ looted[i] = {} /\ ~blocked
  /\ winner \in {Nobody, p}

Stored(p, i) == [looted EXCEPT ![i] = @ \union {p}]

\* Finish with a winner.  One who is connected is given what the item
\* disenchants into, in bags or by mail, or the item if there is room; else
\* the item is kept for the winner.
FinishWon(i, p) ==
  /\ is_blocked' = [is_blocked EXCEPT ![i] = FALSE]
  /\ rollWinner' = [rollWinner EXCEPT ![i] = p]
  /\ IF m_rollVoteMap[i][p].Vote = "Disenchant"
     THEN /\ disenchanted' \in {disenchanted, disenchanted \union {i}}
          /\ UNCHANGED looted
     ELSE /\ looted' \in {looted} \union (IF Storable(p, i, FALSE, p) THEN {Stored(p, i)} ELSE {})
          /\ UNCHANGED disenchanted

\* Loot::Update ends a roll for which all have voted or the time is up.
UpdateRoll(i) ==
  /\ ~destroyed /\ i \in _rolls
  /\ AllVoted(i) \/ timedOut
  /\ \E winner \in Winners(i) :
       IF winner = Nobody THEN FinishAllPassed(i) ELSE FinishWon(i, winner)
  /\ _rolls' = _rolls \ {i}
  /\ m_lootRolls' = Forgotten(i, m_rollVoteMap)
  /\ UNCHANGED <<_wasOpened, destroyed, timedOut, m_rollVoteMap, is_underthreshold, inWorld>>

RollsTimeOut ==
  /\ _wasOpened /\ ~timedOut
  /\ timedOut' = TRUE
  /\ UNCHANGED <<_wasOpened, destroyed, _rolls, m_rollVoteMap, itemVars, inWorld, m_lootRolls>>

\* StoreLootItem, asked for by a packet.
StoreLootItem(p, i) ==
  /\ ~destroyed /\ _wasOpened /\ p \in inWorld
  /\ Storable(p, i, is_blocked[i], rollWinner[i])
  /\ looted' = Stored(p, i)
  /\ UNCHANGED <<_wasOpened, destroyed, timedOut, _rolls, m_rollVoteMap, is_blocked,
                 is_underthreshold, rollWinner, disenchanted, inWorld, m_lootRolls>>

\* The corpse and its loot go, with the rolls that still run.
DestroyLoot ==
  /\ ~destroyed
  /\ destroyed' = TRUE
  /\ m_lootRolls' = [p \in Members |-> {i \in m_lootRolls[p] :
                        \A j \in _rolls : i \in Forgotten(j, m_rollVoteMap)[p]}]
  /\ _rolls' = {}
  /\ UNCHANGED <<_wasOpened, timedOut, m_rollVoteMap, itemVars, inWorld>>

\* Player::RemoveFromWorld forgets all rolls.
LeaveWorld(p) ==
  /\ p \in inWorld
  /\ inWorld' = inWorld \ {p}
  /\ m_lootRolls' = [m_lootRolls EXCEPT ![p] = {}]
  /\ UNCHANGED <<_wasOpened, destroyed, timedOut, _rolls, m_rollVoteMap, itemVars>>

EnterWorld(p) ==
  /\ p \notin inWorld
  /\ inWorld' = inWorld \union {p}
  /\ UNCHANGED <<_wasOpened, destroyed, timedOut, _rolls, m_rollVoteMap, itemVars, m_lootRolls>>

LootNext ==
  \/ \E p \in Members :
       \/ OpenLoot(p) \/ LeaveWorld(p) \/ EnterWorld(p)
       \/ \E i \in LootItems :
            \/ StoreLootItem(p, i)
            \/ \E vote \in {"Pass", "Need", "Greed", "Disenchant"}, number \in 1 .. MaxNumber :
                 PlayerVote(p, i, vote, number)
  \/ \E i \in LootItems : UpdateRoll(i)
  \/ RollsTimeOut
  \/ DestroyLoot

LootSpec == LootInit /\ [][LootNext]_lootVars

-----------------------------------------------------------------------------
\* Types; an item is blocked until the loot is opened and while it is rolled for.
LootTypeOK ==
  /\ {_wasOpened, destroyed, timedOut} \subseteq BOOLEAN
  /\ _rolls \subseteq LootItems /\ disenchanted \subseteq LootItems
  /\ m_rollVoteMap \in [LootItems -> [Members ->
       [Vote : {"NotValid", "NotEmitedYet", "Pass", "Need", "Greed", "Disenchant"},
        RollNumber : 0 .. MaxNumber]]]
  /\ \A i \in LootItems :
       ~destroyed => is_blocked[i] = (~_wasOpened \/ i \in _rolls)
  /\ rollWinner \in [LootItems -> Members \union {Nobody}]
  /\ inWorld \subseteq Members
  /\ m_lootRolls \in [Members -> SUBSET LootItems]

\* Who should win: the highest numbers of those who need the item, or else of
\* those who voted greed or disenchant.
Candidates(i) ==
  IF Votes(i, "Need") # {} THEN Votes(i, "Need")
  ELSE Votes(i, "Greed") \union Votes(i, "Disenchant")
Best(i) == {p \in Candidates(i) : \A q \in Candidates(i) : Number(i, q) <= Number(i, p)}

\* When the roll for an item is over the one pass over the unordered votes has
\* found a best one, in whatever order it met them, votes changed and members
\* gone included; an item all have passed on is won by nobody.  The item then
\* goes to one player, who is the winner if there is one, and it goes to nobody
\* while the roll is on.
LootedByBest ==
  \A i \in LootItems :
    /\ ~is_blocked[i] /\ ~is_underthreshold[i] =>
         IF Candidates(i) = {} THEN rollWinner[i] = Nobody ELSE rollWinner[i] \in Best(i)
    /\ Cardinality(looted[i]) <= 1
    /\ rollWinner[i] # Nobody => looted[i] \subseteq {rollWinner[i]}
    /\ i \in _rolls => looted[i] = {}

\* "loot rolls waiting for answer": a player points to rolls that go on only.
RollsWaitForAnswer == \A p \in Members : m_lootRolls[p] \subseteq _rolls
=============================================================================
