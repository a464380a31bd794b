------------------------------- MODULE Trade -------------------------------
(***************************************************************************)
(* A trade between two players: game/Handlers/TradeHandler.cpp and         *)
(* game/Entities/Player/TradeData.cpp.                                     *)
(*                                                                         *)
(* Both players have a TradeData that refers to the other one.  Each       *)
(* accepts what its client shows, which may be older than what the server  *)
(* has: the packet names the state index of the offer it was shown.        *)
(* Handlers run on the world thread, one at a time; each is one action.    *)
(* Stacks, unique items and bag types are left out: an item takes a slot.  *)
(***************************************************************************)
EXTENDS Integers, Sequences, FiniteSets, SequencesExt

CONSTANTS
  Traders,       \* players
  TradeItems,
  Nothing,
  TradedSlots,   \* how many slots change owner (TRADE_SLOT_TRADED_COUNT)
  Owner,         \* the owner of each item at first
  Fragile,       \* items that may be used up, or be looted from, meanwhile
  Coins,         \* the money of each player at first
  Slots,         \* the slots of each player's bags
  MaxMoney,      \* MAX_MONEY_AMOUNT
  MaxStateIndices \* bound: the sum of the state indices of a trade, from two on

ASSUME TradeAssumption ==
  /\ IsFiniteSet(Traders) /\ IsFiniteSet(TradeItems) /\ Fragile \subseteq TradeItems
  /\ TradedSlots \in Nat \ {0} /\ MaxMoney \in Nat /\ MaxStateIndices \in Nat
  /\ Owner \in [TradeItems -> Traders] /\ Slots \in [Traders -> Nat]
  /\ Coins \in [Traders -> 0 .. MaxMoney]

TradeSlots == 1 .. TradedSlots + 1
NonTraded == TradedSlots + 1

TradeData ==
  [_trader : Traders, _accepted : BOOLEAN, _money : 0 .. MaxMoney, _spell : BOOLEAN,
   _items : [TradeSlots -> TradeItems \union {Nothing}], _serverStateIndex : Nat]

\* An offer as a client shows it: money, and items with their counts.
Offers == [money : 0 .. MaxMoney, items : SUBSET (TradeItems \X {1, 2})]
Deals == [gives : Offers, gets : Offers]

\* A null pointer points to nothing.
ASSUME NothingAssumption ==
  /\ Nothing \notin Traders \union TradeItems
  /\ Nothing \notin TradeData /\ Nothing \notin Deals

VARIABLES
  m_trade,    \* per player: the TradeData or Nothing
  bag, money, \* what each player has
  stack,      \* the count of each item
  busy,       \* items that cannot be traded now (CanBeTraded)
  spent, gone,\* money and items that left the game
  shown,      \* the offers of partners each client was sent
  consent     \* what each player gives and gets by its last accept that counts

goodsVars == <<bag, money, stack, busy, spent, gone>>
tradeVars == <<m_trade, goodsVars, shown, consent>>

EmptyOffer == [money |-> 0, items |-> {}]

TradeInit ==
  /\ m_trade = [p \in Traders |-> Nothing]
  /\ bag = [p \in Traders |-> {i \in TradeItems : Owner[i] = p}]
  /\ money = Coins
  /\ stack = [i \in TradeItems |-> 2]
  /\ busy = {} /\ spent = 0 /\ gone = {}
  /\ shown = [p \in Traders |-> {}]
  /\ consent = [p \in Traders |-> Nothing]

Trading(p) == m_trade[p] # Nothing
Partner(p) == m_trade[p]._trader

-----------------------------------------------------------------------------
(* TradeData. *)

NewTradeData(q) ==
  [_trader |-> q, _accepted |-> FALSE, _money |-> 0, _spell |-> FALSE,
   _items |-> [s \in TradeSlots |-> Nothing], _serverStateIndex |-> 1]

\* GetItem: an item that left the inventory is not there.
GetItem(t, p, s) == IF t[p]._items[s] \in bag[p] THEN t[p]._items[s] ELSE Nothing
ItemsIn(t, p, slots) == {GetItem(t, p, s) : s \in slots} \ {Nothing}

\* Defect: the slot that is not traded is not looked at.
HasTradedItem(p, i) == \E s \in 1 .. TradedSlots : m_trade[p]._items[s] = i

HasItem(p, i) == \E s \in TradeSlots : m_trade[p]._items[s] = i

\* SendUpdateTrade: what the partner of p is shown of p's offer.
Offer(t, p, counts) ==
  [money |-> t[p]._money,
   items |-> {<<i, counts[i]>> : i \in ItemsIn(t, p, 1 .. TradedSlots)}]
View(t, p, counts) == [index |-> t[p]._serverStateIndex, offer |-> Offer(t, p, counts)]

Unaccepted(t, p) == [t EXCEPT ![p]._accepted = FALSE]

\* Defect: the partner's acceptance stands.
ChangedForOne(t, p) ==
  [Unaccepted(t, p) EXCEPT ![p]._serverStateIndex = @ + 1]

\* What every change of p's side does: nobody has accepted it, and its index
\* is a new one (rand32, taken to be different from those before).
Changed(t, p) ==
  [Unaccepted(Unaccepted(t, p), Partner(p)) EXCEPT ![p]._serverStateIndex = @ + 1]

\* SetSpell(0).
NoSpell(t, p) == IF t[p]._spell THEN [Changed(t, p) EXCEPT ![p]._spell = FALSE] ELSE t

\* SetItem: a spell on the slot that is not traded, or of the player who
\* changes an item, is forgotten.
ItemSet(p, s, i) ==
  LET set == [Changed(m_trade, p) EXCEPT ![p]._items[s] = i]
      hisSpellOff == IF s = NonTraded THEN NoSpell(set, Partner(p)) ELSE set
  IN  NoSpell(hisSpellOff, p)

\* The changed trade is stored, and shown where it changed.
Store(t, p, counts) ==
  /\ m_trade' = t
  /\ shown' = [r \in Traders |->
                 CASE r = Partner(p) -> shown[r] \union {View(t, p, counts)}
                   [] r = p /\ t[Partner(p)] # m_trade[Partner(p)]
                        -> shown[r] \union {View(t, Partner(p), counts)}
                   [] OTHER -> shown[r]]
  /\ consent' = [r \in Traders |-> IF r \in {p, Partner(p)} THEN Nothing ELSE consent[r]]

CanChange(p) ==
  /\ Trading(p)
  /\ m_trade[p]._serverStateIndex + m_trade[Partner(p)]._serverStateIndex < MaxStateIndices

-----------------------------------------------------------------------------
(* Handlers other than that of the acceptance. *)

\* HandleInitiateTradeOpcode; players who are dead, stunned, far away or
\* ignored are refused without a change.
InitiateTrade(p, q) ==
  /\ p # q
  /\ ~Trading(p) /\ ~Trading(q)
  /\ m_trade' = [m_trade EXCEPT ![p] = NewTradeData(q), ![q] = NewTradeData(p)]
  /\ shown' = [r \in Traders |->
                 IF r \in {p, q} THEN {[index |-> 1, offer |-> EmptyOffer]} ELSE shown[r]]
  /\ UNCHANGED <<goodsVars, consent>>

\* Defect: only the own TradeData is deleted.
CancelOwn(p) == [m_trade EXCEPT ![p] = Nothing]

\* Both are deleted.  What the clients were shown names indices that no later
\* trade has, but for the first, under which nothing is offered.
BothDeleted(p) == [m_trade EXCEPT ![p] = Nothing, ![Partner(p)] = Nothing]

TradeEnds(p) ==
  /\ m_trade' = BothDeleted(p)
  /\ shown' = [shown EXCEPT ![p] = {}, ![Partner(p)] = {}]
  /\ consent' = [consent EXCEPT ![p] = Nothing, ![Partner(p)] = Nothing]

\* Player::TradeCancel: by a packet, a flight, or the logout of the player, who
\* may come back.
CancelTrade(p) ==
  /\ Trading(p)
  /\ TradeEnds(p)
  /\ UNCHANGED goodsVars

UnacceptTrade(p) ==
  /\ Trading(p)
  /\ m_trade' = Unaccepted(m_trade, p)
  /\ consent' = [consent EXCEPT ![p] = Nothing]
  /\ UNCHANGED <<goodsVars, shown>>

\* SetMoney.
SetTradeGold(p, amount) ==
  /\ CanChange(p)
  /\ amount # m_trade[p]._money /\ amount <= money[p]
  /\ Store([Changed(m_trade, p) EXCEPT ![p]._money = amount], p, stack)
  /\ UNCHANGED <<goodsVars>>

SetTradeItem(p, s, i) ==
  /\ CanChange(p)
  /\ i \in bag[p] /\ ~HasItem(p, i)
  /\ s # NonTraded => i \notin busy
  /\ Store(ItemSet(p, s, i), p, stack)
  /\ UNCHANGED <<goodsVars>>

ClearTradeItem(p, s) ==
  /\ CanChange(p)
  /\ m_trade[p]._items[s] # Nothing
  /\ Store(ItemSet(p, s, Nothing), p, stack)
  /\ UNCHANGED <<goodsVars>>

\* A spell cast on the trade is kept for its completion (Spell::_cast).
CastOnTrade(p) ==
  /\ CanChange(p)
  /\ ~m_trade[p]._spell
  /\ Store([Changed(m_trade, p) EXCEPT ![p]._spell = TRUE], p, stack)
  /\ UNCHANGED <<goodsVars>>

-----------------------------------------------------------------------------
(* What happens to items and money beside the trade. *)

\* Item::SetCount sets the item again in its slot.
ItemCountDrops(p, i) ==
  /\ i \in bag[p] \intersect Fragile /\ stack[i] = 2
  /\ stack' = [stack EXCEPT ![i] = 1]
  /\ IF Trading(p) /\ HasItem(p, i)
     THEN /\ CanChange(p)
          /\ LET s == CHOOSE s \in TradeSlots : m_trade[p]._items[s] = i
             IN  Store(ItemSet(p, s, i), p, stack')
     ELSE UNCHANGED <<m_trade, shown, consent>>
  /\ UNCHANGED <<bag, money, busy, spent, gone>>

\* The last of it is used up, expires or is destroyed.
ItemGoes(p, i) ==
  /\ i \in bag[p] \intersect Fragile /\ stack[i] = 1
  /\ bag' = [bag EXCEPT ![p] = @ \ {i}] /\ gone' = gone \union {i}
  /\ UNCHANGED <<m_trade, money, stack, busy, spent, shown, consent>>

\* Its loot window opens or closes.
ItemBusy(i) ==
  /\ i \in Fragile
  /\ busy' = IF i \in busy THEN busy \ {i} ELSE busy \union {i}
  /\ UNCHANGED <<m_trade, bag, money, stack, spent, gone, shown, consent>>

SpendMoney(p) ==
  /\ money[p] > 0 /\ spent = 0
  /\ money' = [money EXCEPT ![p] = @ - 1] /\ spent' = 1
  /\ UNCHANGED <<m_trade, bag, stack, busy, gone, shown, consent>>

-----------------------------------------------------------------------------
(* HandleAcceptTradeOpcode: p accepts the offer v it was shown. *)

Accepted(p) == [m_trade EXCEPT ![p]._accepted = TRUE]

\* The packet names the index the partner's side still has.
CurrentIndex(p, v) == v.index = m_trade[Partner(p)]._serverStateIndex

HasEnough(p) == money[p] >= m_trade[p]._money

\* What p gets does not take it over the limit.
MayReceive(p) == money[p] <= MaxMoney - m_trade[Partner(p)]._money

\* Whose acceptance is undone for the money, in the order of the checks.
MoneyFails(p, q) ==
  CASE ~HasEnough(p) -> p
    [] HasEnough(p) /\ ~HasEnough(q) -> q
    [] HasEnough(p) /\ HasEnough(q) /\ ~MayReceive(p) -> p
    [] HasEnough(p) /\ HasEnough(q) /\ MayReceive(p) /\ ~MayReceive(q) -> q
    [] OTHER -> Nothing

\* What p gives and gets if this offer is exchanged for its own.
Deal(p, v) == [gives |-> Offer(m_trade, p, stack), gets |-> v.offer]

\* The offer is the current one, and the partner is near.
Shown(p, v, near) == CurrentIndex(p, v) /\ near

TradedItems(p) == ItemsIn(m_trade, p, 1 .. TradedSlots)
ItemsTradeable(p) == (TradedItems(p) \union TradedItems(Partner(p))) \intersect busy = {}

AcceptIsUndone(p, v, near) ==
  /\ Shown(p, v, near) => MoneyFails(p, Partner(p)) = p
  /\ m_trade' = Unaccepted(m_trade, p)
  /\ consent' = [consent EXCEPT ![p] = Nothing]
  /\ UNCHANGED <<goodsVars, shown>>

\* The partner has not the money any more, or would have too much.
PartnerIsUndone(p, v, near) ==
  /\ Shown(p, v, near) /\ MoneyFails(p, Partner(p)) = Partner(p)
  /\ m_trade' = Unaccepted(Accepted(p), Partner(p))
  /\ consent' = [consent EXCEPT ![p] = Deal(p, v), ![Partner(p)] = Nothing]
  /\ UNCHANGED <<goodsVars, shown>>

\* An item cannot be traded now: p is told so, and stays accepted.
ItemsRefused(p, v, near) ==
  /\ Shown(p, v, near) /\ MoneyFails(p, Partner(p)) = Nothing /\ ~ItemsTradeable(p)
  /\ m_trade' = Accepted(p)
  /\ consent' = [consent EXCEPT ![p] = Deal(p, v)]
  /\ UNCHANGED <<goodsVars, shown>>

AllChecks(p, v, near) ==
  /\ Shown(p, v, near) /\ MoneyFails(p, Partner(p)) = Nothing /\ ItemsTradeable(p)

WaitsForPartner(p, v, near) ==
  /\ AllChecks(p, v, near) /\ ~m_trade[Partner(p)]._accepted
  /\ m_trade' = Accepted(p)
  /\ consent' = [consent EXCEPT ![p] = Deal(p, v)]
  /\ UNCHANGED <<goodsVars, shown>>

BothAccept(p, v, near) == AllChecks(p, v, near) /\ m_trade[Partner(p)]._accepted

\* A spell can be cast only on an item in the partner's slot that is not traded.
SpellReady(p, castable) ==
  m_trade[p]._spell => castable /\ GetItem(m_trade, Partner(p), NonTraded) # Nothing

\* A spell that cannot be cast is forgotten, p's before the partner's.
SpellFails(p, v, near, castable) ==
  /\ BothAccept(p, v, near) /\ CanChange(p)
  /\ LET caster == IF SpellReady(p, castable) THEN Partner(p) ELSE p
     IN  /\ ~SpellReady(caster, castable)
         /\ Store(NoSpell(Accepted(p), caster), caster, stack)
  /\ UNCHANGED goodsVars

SpellsReady(p, castable) == SpellReady(p, castable) /\ SpellReady(Partner(p), castable)

\* Defect: one more item than there is room for.
CanAlmostStore(p, items) ==
  Cardinality(bag[p] \ TradedItems(p)) + Cardinality(items) <= Slots[p] + 1

\* CanStoreItems, with the items p gives away marked as in trade.
CanStoreItems(p, items) ==
  Cardinality(bag[p] \ TradedItems(p)) + Cardinality(items) <= Slots[p]

RoomForAll(p) ==
  /\ CanStoreItems(p, TradedItems(Partner(p)))
  /\ CanStoreItems(Partner(p), TradedItems(p))

NoRoom(p, v, near, castable) ==
  /\ BothAccept(p, v, near) /\ SpellsReady(p, castable) /\ ~RoomForAll(p)
  /\ m_trade' = Unaccepted(Unaccepted(m_trade, p), Partner(p))
  /\ consent' = [consent EXCEPT ![p] = Nothing, ![Partner(p)] = Nothing]
  /\ UNCHANGED <<goodsVars, shown>>

\* moveItems, one slot, on bags the traded items were taken from: both items
\* are stored where they go, or else each is given back where there is room.
MoveSlot(p, bags, s) ==
  LET q == Partner(p)
      mine == {GetItem(m_trade, p, s)} \ {Nothing}
      his == {GetItem(m_trade, q, s)} \ {Nothing}
      Fits(r, items) == Cardinality(bags[r]) + Cardinality(items) <= Slots[r]
      Given(r, items) == IF Fits(r, items) THEN bags[r] \union items ELSE bags[r]
  IN  IF Fits(q, mine) /\ Fits(p, his)
      THEN [bags EXCEPT ![p] = @ \union his, ![q] = @ \union mine]
      ELSE [bags EXCEPT ![p] = Given(p, mine), ![q] = Given(q, his)]

\* ModifyMoney: it does not go below zero, and more than the limit is refused.
Paid(have, amount) == IF have > amount THEN have - amount ELSE 0
Received(have, amount) == IF have <= MaxMoney - amount THEN have + amount ELSE have

Completes(p, v, near, castable) ==
  /\ BothAccept(p, v, near) /\ SpellsReady(p, castable) /\ RoomForAll(p)
  /\ LET q == Partner(p)
         emptied == [bag EXCEPT ![p] = @ \ TradedItems(p), ![q] = @ \ TradedItems(q)]
     IN  /\ bag' = FoldLeft(LAMBDA bags, s : MoveSlot(p, bags, s), emptied,
                            [s \in 1 .. TradedSlots |-> s])
         /\ money' = [money EXCEPT
              ![p] = Received(Paid(@, m_trade[p]._money), m_trade[q]._money),
              ![q] = Received(Paid(@, m_trade[q]._money), m_trade[p]._money)]
  /\ TradeEnds(p)
  /\ UNCHANGED <<stack, busy, spent, gone>>

HandleAcceptTrade(p) ==
  /\ Trading(p)
  /\ \E v \in shown[p], near, castable \in BOOLEAN :
       \/ AcceptIsUndone(p, v, near)
       \/ PartnerIsUndone(p, v, near)
       \/ ItemsRefused(p, v, near)
       \/ WaitsForPartner(p, v, near)
       \/ SpellFails(p, v, near, castable)
       \/ NoRoom(p, v, near, castable)
       \/ Completes(p, v, near, castable)

TradeNext ==
  \/ \E p, q \in Traders : InitiateTrade(p, q)
  \/ \E p \in Traders :
       \/ CancelTrade(p) \/ UnacceptTrade(p)
       \/ \E amount \in 0 .. MaxMoney : SetTradeGold(p, amount)
       \/ \E s \in TradeSlots : ClearTradeItem(p, s) \/ \E i \in TradeItems : SetTradeItem(p, s, i)
       \/ CastOnTrade(p) \/ HandleAcceptTrade(p) \/ SpendMoney(p)
       \/ \E i \in TradeItems : ItemCountDrops(p, i) \/ ItemGoes(p, i)
  \/ \E i \in TradeItems : ItemBusy(i)

TradeSpec == TradeInit /\ [][TradeNext]_tradeVars

-----------------------------------------------------------------------------
\* Types; no item is in two slots of an offer, where it could be both given
\* away and kept.
TradeTypeOK ==
  /\ busy \subseteq TradeItems
  /\ money \in [Traders -> 0 .. MaxMoney]
  /\ \A p \in Traders : Trading(p) =>
       /\ m_trade[p]._money \in 0 .. MaxMoney
       /\ m_trade[p]._items \in [TradeSlots -> TradeItems \union {Nothing}]
       /\ \A s, u \in TradeSlots :
            m_trade[p]._items[s] = m_trade[p]._items[u] => s = u \/ m_trade[p]._items[s] = Nothing
       /\ \A v \in shown[p] : v.index <= m_trade[Partner(p)]._serverStateIndex

\* Both sides exist or neither does, whoever logs out or starts another trade:
\* GetTraderData() is used without a look.
TradesMutual ==
  \A p \in Traders : Trading(p) =>
    Trading(Partner(p)) /\ Partner(Partner(p)) = p

\* offer without the items q does not have any more.
Remaining(offer, q) == [offer EXCEPT !.items = {x \in @ : x[1] \in bag[q]}]

\* A player who counts as having accepted was shown the offer its partner has
\* now and has not changed its own; only what left the game meanwhile is missing.
AcceptedAsSeen ==
  \A p \in Traders : Trading(p) /\ m_trade[p]._accepted =>
    /\ consent[p] # Nothing
    /\ Offer(m_trade, p, stack) = Remaining(consent[p].gives, p)
    /\ Offer(m_trade, Partner(p), stack) = Remaining(consent[p].gets, Partner(p))

Names(items) == {x[1] : x \in items}

\* What a trade that ends does to the bags and money of q and its partner p,
\* if it is as q's acceptance said.
ExchangedAs(deal, q, p) ==
  /\ money'[q] = money[q] - deal.gives.money + deal.gets.money
  /\ money'[p] = money[p] + deal.gives.money - deal.gets.money
  /\ bag'[q] = (bag[q] \ Names(deal.gives.items)) \union (Names(deal.gets.items) \ gone)
  /\ bag'[p] = (bag[p] \ Names(deal.gets.items)) \union (Names(deal.gives.items) \ gone)

\* A trade that ends changes nothing or exchanges what a player that accepted
\* it earlier was shown.
ExchangeAsAgreed ==
  [][\A p \in Traders :
       Trading(p) /\ m_trade'[p] = Nothing /\ <<bag, money>>' # <<bag, money>> =>
         \E q \in {p, Partner(p)} :
           m_trade[q]._accepted /\ ExchangedAs(consent[q], q, Partner(q))]_tradeVars
=============================================================================
