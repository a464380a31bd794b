----------------------------- MODULE MCServices -----------------------------
(***************************************************************************)
(* Four components that share no state, in one run: a behaviour moves one  *)
(* of them, chosen at first, and leaves the others as they are.            *)
(*                                                                         *)
(* Two traders have something to give and a third is beside them.  The     *)
(* battlegrounds are run twice: two players for one battleground, or one   *)
(* player with two queues and as many battlegrounds.                       *)
(***************************************************************************)
EXTENDS MCWorld, Trade, MCDatabaseWorkerPool, BattlegroundQueue

CONSTANTS ada, ben, cal, l1, l2, w1, w2, ann, bob, cid, sword, potion, fay, gus, arathi, warsong

VARIABLE part

MCOwner == sword :> ann @@ potion :> bob
MCCoins == ann :> 2 @@ bob :> 1 @@ cid :> 0
MCSlots == ann :> 1 @@ bob :> 1 @@ cid :> 0

PartsInit ==
  /\ part \in {"login", "trade", "database", "team", "jumper"}
  /\ WorldInit /\ TradeInit /\ PoolInit /\ BgInit
  /\ w1 \in _connections /\ (part # "database" => _connections = Workers)

Moves(name) == part = name /\ UNCHANGED part

(***************************************************************************)
(* Accounts, the logins of each, the two transactions and the two workers  *)
(* are interchangeable.  As a symmetry set they would cost the other       *)
(* parts, so they only come in the order of their names.                   *)
(***************************************************************************)
HandedOver(account) == \E l \in Logins : <<account, l>> \in handed'

AccountsInOrder ==
  /\ HandedOver(cal) => HandedOver(ben)
  /\ HandedOver(ben) => HandedOver(ada)
  /\ \A account \in Accounts : <<account, l2>> \in handed' => <<account, l1>> \in handed'

\* Bound: the empty direct transaction, which touches nothing, is the first.
EmptyFirst ==
  \A n \in Empty, t \in Direct \ Empty : outcome'[t] # "new" => outcome'[n] # "new"

WorkInOrder ==
  /\ EmptyFirst
  /\ outcome'[t2] # "new" => outcome'[t1] # "new"
  /\ conn[w1] = Idle /\ conn[w2] = Idle /\ session[w1] = session[w2] => conn'[w2] = Idle

\* Bound: a team of two has one queue and one battleground.
Team == Len(bg') =< 1 /\ \A p \in Fighters : slot'[p][arathi] = NoSlot

\* Bound: one of the two goes nowhere, the other logs out of a battleground once
\* while that runs, and the clock stops earlier.
Jumper ==
  now' =< 2 /\ (\A i \in DOMAIN bg' : bg'[i].status # "deleted" => Len(bg'[i].offline) =< 1)
  /\ place'[gus] = "world" /\ gus \notin deserters'
  /\ \A q \in Queues : slot'[gus][q] = NoSlot

PartsNext ==
  \/ Moves("login") /\ WorldNext /\ AccountsInOrder
     /\ UNCHANGED <<tradeVars, poolVars, bgVars>>
  \/ Moves("trade") /\ TradeNext /\ UNCHANGED <<worldVars, poolVars, bgVars>>
  \/ Moves("database") /\ PoolNext /\ WorkInOrder /\ UNCHANGED <<worldVars, tradeVars, bgVars>>
  \/ Moves("team") /\ BgNext /\ Team /\ UNCHANGED <<worldVars, tradeVars, poolVars>>
  \/ Moves("jumper") /\ BgNext /\ Jumper /\ UNCHANGED <<worldVars, tradeVars, poolVars>>

\* The type invariants of the four: an item is in one slot of an offer, a
\* deadlocked transaction is not retried more often than allowed, the players a
\* battleground has invited fit into its team.
TypesOK == TypeOK /\ TradeTypeOK /\ PoolTypeOK /\ BgTypeOK
=============================================================================
