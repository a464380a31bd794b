------------------------- MODULE TradeAndLootProofs -------------------------
(***************************************************************************)
(* Theorems about how items change hands: about Trade, for every set of    *)
(* players and items, any number of slots and coins, and trades of any     *)
(* length; and about LootRoll, for every group, every item, any votes and  *)
(* any order in which they are counted.                                    *)
(***************************************************************************)
EXTENDS Trade, LootRoll, FoldLemmas, FiniteSetTheorems

-----------------------------------------------------------------------------
(* The inductive invariant.  AcceptedAsSeen needs what the views a client was
   sent have to do with the offer of now: a view with the index the partner's
   side has now shows its offer of now, but for what left the game meanwhile. *)

Views == [index : Nat, offer : Offers]

Types ==
  /\ m_trade \in [Traders -> TradeData \union {Nothing}]
  /\ bag \in [Traders -> SUBSET TradeItems]
  /\ money \in [Traders -> 0 .. MaxMoney]
  /\ stack \in [TradeItems -> {1, 2}]
  /\ busy \subseteq TradeItems
  /\ gone \subseteq TradeItems
  /\ shown \in [Traders -> SUBSET Views]
  /\ consent \in [Traders -> Deals \union {Nothing}]

\* The two sides of a trade refer to each other, and are two.
Mutual ==
  \A p \in Traders : Trading(p) =>
    Partner(p) # p /\ Trading(Partner(p)) /\ Partner(Partner(p)) = p

\* An item is in one bag, or gone, or lost.
BagsApart ==
  /\ \A p, q \in Traders : p # q => bag[p] \intersect bag[q] = {}
  /\ \A p \in Traders : bag[p] \intersect gone = {}

DistinctIn(items) ==
  \A s, u \in TradeSlots : items[s] = items[u] => s = u \/ items[s] = Nothing

SlotsDistinct == \A p \in Traders : Trading(p) => DistinctIn(m_trade[p]._items)

\* The offer of a side whose player has these items.
OfferOf(side, has, counts) ==
  [money |-> side._money,
   items |-> {<<i, counts[i]>> : i \in {side._items[s] : s \in 1 .. TradedSlots} \intersect has}]

\* The side still offers this, but for the items that are away.
Agrees(side, has, counts, away, offer) ==
  /\ side._money = offer.money
  /\ OfferOf(side, has, counts).items = {x \in offer.items : x[1] \in has}
  /\ \A x \in offer.items : x[1] \in has \union away

StillOffers(q, offer) == Agrees(m_trade[q], bag[q], stack, gone, offer)

ViewsCurrent ==
  \A p \in Traders : Trading(p) =>
    \A v \in shown[p] :
      /\ v.index <= m_trade[Partner(p)]._serverStateIndex
      /\ v.index = m_trade[Partner(p)]._serverStateIndex => StillOffers(Partner(p), v.offer)

ConsentCurrent ==
  \A p \in Traders : Trading(p) /\ m_trade[p]._accepted =>
    /\ consent[p] # Nothing
    /\ StillOffers(p, consent[p].gives)
    /\ StillOffers(Partner(p), consent[p].gets)

TradeInv ==
  Types /\ Mutual /\ BagsApart /\ SlotsDistinct /\ ViewsCurrent /\ ConsentCurrent

-----------------------------------------------------------------------------
(* Offers and views. *)

\* Offer looks at the player's side of the trade and at its bag.
LEMMA OfferIs ==
  ASSUME Types, NEW t, NEW p \in Traders, NEW counts, t[p] \in TradeData
  PROVE  Offer(t, p, counts) = OfferOf(t[p], bag[p], counts)
<1>1. ItemsIn(t, p, 1 .. TradedSlots) = {t[p]._items[s] : s \in 1 .. TradedSlots} \intersect bag[p]
  BY NothingAssumption DEF ItemsIn, GetItem, Types
<1> QED
  BY <1>1 DEF Offer, OfferOf

\* An offer is one.
LEMMA OfferType ==
  ASSUME NEW side \in TradeData, NEW has \in SUBSET TradeItems, NEW counts \in [TradeItems -> {1, 2}]
  PROVE  OfferOf(side, has, counts) \in Offers
<1>1. OfferOf(side, has, counts).items \subseteq TradeItems \X {1, 2}
  BY DEF OfferOf
<1> QED
  BY <1>1 DEF OfferOf, Offers, TradeData

\* Agrees is the equation of AcceptedAsSeen.
LEMMA AgreesMeans ==
  ASSUME Types, NEW q \in Traders, Trading(q), NEW offer \in Offers, StillOffers(q, offer)
  PROVE  Offer(m_trade, q, stack) = Remaining(offer, q)
<1>1. Remaining(offer, q) = [money |-> offer.money, items |-> {x \in offer.items : x[1] \in bag[q]}]
  <2>1. offer = [money |-> offer.money, items |-> offer.items]
    BY DEF Offers
  <2>2. \A s : [offer EXCEPT !.items = s] = [money |-> offer.money, items |-> s]
    BY <2>1
  <2> QED
    BY <2>2 DEF Remaining
<1>2. Offer(m_trade, q, stack) = OfferOf(m_trade[q], bag[q], stack)
  BY OfferIs DEF Types, Trading
<1> QED
  BY <1>1, <1>2 DEF StillOffers, Agrees, OfferOf

\* The offer of now agrees with itself.
LEMMA AgreesWithItself ==
  ASSUME NEW side, NEW has, NEW counts, NEW away
  PROVE  Agrees(side, has, counts, away, OfferOf(side, has, counts))
BY DEF Agrees, OfferOf

\* Nothing but the departure of items does not disturb what was agreed to.
LEMMA AgreesKept ==
  ASSUME NEW side, NEW has, NEW counts, NEW away, NEW offer, Agrees(side, has, counts, away, offer),
         NEW side2, side2._money = side._money, side2._items = side._items,
         NEW has2 \in SUBSET has, NEW away2, away \subseteq away2, has \ has2 \subseteq away2,
         NEW counts2, \A s \in 1 .. TradedSlots :
           side._items[s] \in has2 => counts2[side._items[s]] = counts[side._items[s]]
  PROVE  Agrees(side2, has2, counts2, away2, offer)
BY DEF Agrees, OfferOf

-----------------------------------------------------------------------------
(* Steps that change an offer. *)

\* t is the trade after p has changed its offer: p's index is a new one, and
\* the partner's offer is the old one if its index is.
ValidChange(t, p, q) ==
  /\ t \in [Traders -> TradeData \union {Nothing}]
  /\ \A r \in Traders \ {p, q} : t[r] = m_trade[r]
  /\ t[p] \in TradeData /\ t[p]._trader = q /\ ~t[p]._accepted /\ DistinctIn(t[p]._items)
  /\ t[q] \in TradeData /\ t[q]._trader = p /\ ~t[q]._accepted /\ DistinctIn(t[q]._items)
  /\ t[p]._serverStateIndex > m_trade[p]._serverStateIndex
  /\ \/ t[q]._serverStateIndex > m_trade[q]._serverStateIndex
     \/ /\ t[q]._serverStateIndex = m_trade[q]._serverStateIndex
        /\ t[q]._money = m_trade[q]._money /\ t[q]._items = m_trade[q]._items

\* The two sides of a trade, as the provers see them.
LEMMA Sides ==
  ASSUME TradeInv, NEW p \in Traders, Trading(p)
  PROVE  /\ Partner(p) \in Traders /\ Partner(p) # p
         /\ m_trade[p] \in TradeData /\ m_trade[p]._trader = Partner(p)
         /\ m_trade[Partner(p)] \in TradeData /\ m_trade[Partner(p)]._trader = p
         /\ Trading(Partner(p)) /\ Partner(Partner(p)) = p
<1>1. m_trade[p] \in TradeData
  BY DEF TradeInv, Types, Trading
<1>2. Partner(p) \in Traders
  BY <1>1 DEF Partner, TradeData
<1> QED
  BY <1>1, <1>2 DEF TradeInv, Types, Mutual, Trading, Partner

\* Storing a valid change keeps the invariant: the views of before name indices
\* that are not p's any more, and the new ones show what is stored.
LEMMA StoreStep ==
  ASSUME TradeInv, NEW p \in Traders, Trading(p), NEW t, NEW counts \in [TradeItems -> {1, 2}],
         ValidChange(t, p, Partner(p)), Store(t, p, counts),
         stack' = counts, \A i \in TradeItems \ bag[p] : counts[i] = stack[i],
         UNCHANGED <<bag, money, busy, spent, gone>>
  PROVE  TradeInv'
<1> DEFINE q == Partner(p)
<1>0. /\ Types /\ Mutual /\ BagsApart /\ SlotsDistinct /\ ViewsCurrent /\ ConsentCurrent
      /\ q \in Traders /\ q # p /\ Trading(q) /\ Partner(q) = p
      /\ m_trade[p] \in TradeData /\ m_trade[q] \in TradeData
  BY Sides DEF TradeInv
<1>1. /\ m_trade' = t /\ ValidChange(m_trade', p, q)
      /\ \A r \in Traders : r \in {p, q} => consent'[r] = Nothing
      /\ \A r \in Traders : r \notin {p, q} => consent'[r] = consent[r] /\ shown'[r] = shown[r]
      /\ shown'[q] = shown[q] \union {View(t, p, counts)}
      /\ \/ shown'[p] = shown[p]
         \/ shown'[p] = shown[p] \union {View(t, q, counts)}
  BY <1>0 DEF Store
<1>2. /\ \A r \in Traders : Trading(r)' <=> Trading(r)
      /\ \A r \in Traders : Trading(r) => m_trade'[r]._trader = m_trade[r]._trader
  BY <1>0, <1>1, NothingAssumption DEF ValidChange, Trading, Partner
<1>3. Types'
  <2>1. View(t, p, counts) \in Views /\ View(t, q, counts) \in Views
    <3>1. /\ t[p] \in TradeData /\ t[q] \in TradeData
          /\ Offer(t, p, counts) \in Offers /\ Offer(t, q, counts) \in Offers
      BY <1>0, <1>1, OfferIs, OfferType DEF ValidChange, Types
    <3> QED
      BY <3>1 DEF View, Views, TradeData
  <2>2. shown' \in [Traders -> SUBSET Views]
    <3>1. shown' = [r \in Traders |-> shown'[r]]
      BY DEF Store
    <3> QED
      BY <3>1, <2>1, <1>0, <1>1 DEF Types
  <2>3. consent' \in [Traders -> Deals \union {Nothing}]
    BY <1>0 DEF Store, Types
  <2> QED
    BY <2>2, <2>3, <1>0, <1>1 DEF Types, ValidChange
<1>4. Mutual' /\ BagsApart' /\ SlotsDistinct'
  <2>1. Mutual'
    BY <1>0, <1>1, <1>2 DEF Mutual, Types, Partner, Trading, TradeData
  <2>2. SlotsDistinct'
    BY <1>0, <1>1, <1>2 DEF SlotsDistinct, ValidChange
  <2> QED
    BY <2>1, <2>2, <1>0 DEF BagsApart
<1>5. ASSUME NEW r \in Traders \ {p}, NEW offer, StillOffers(r, offer),
             m_trade'[r]._money = m_trade[r]._money, m_trade'[r]._items = m_trade[r]._items
      PROVE  Agrees(m_trade'[r], bag'[r], stack', gone', offer)
  <2>1. \A i \in bag'[r] : stack'[i] = stack[i]
    BY <1>0 DEF Types, BagsApart
  <2> QED
    BY <2>1, <1>5, AgreesKept DEF StillOffers
<1>6. ASSUME NEW r \in {p, q}
      PROVE  /\ View(t, r, counts).index = m_trade'[r]._serverStateIndex
             /\ Agrees(m_trade'[r], bag'[r], stack', gone', View(t, r, counts).offer)
  <2>1. View(t, r, counts).offer = OfferOf(m_trade'[r], bag'[r], stack')
    BY <1>0, <1>1, OfferIs DEF View, ValidChange
  <2> QED
    BY <2>1, <1>1, AgreesWithItself DEF View
<1>7. ViewsCurrent'
  <2> SUFFICES ASSUME NEW r \in Traders, Trading(r)', NEW v \in shown'[r],
                      NEW u, u = m_trade'[r]._trader
               PROVE  /\ v.index <= m_trade'[u]._serverStateIndex
                      /\ v.index = m_trade'[u]._serverStateIndex
                           => Agrees(m_trade'[u], bag'[u], stack', gone', v.offer)
    BY DEF ViewsCurrent, StillOffers, Partner
  <2>0. /\ v.index \in Nat
        /\ m_trade[p]._serverStateIndex \in Nat /\ m_trade[q]._serverStateIndex \in Nat
        /\ m_trade'[p]._serverStateIndex \in Nat /\ m_trade'[q]._serverStateIndex \in Nat
    BY <1>0, <1>1, <1>3 DEF Types, Views, TradeData, ValidChange
  <2>1. CASE r = p
    <3>1. u = q
      BY <2>1, <1>1 DEF ValidChange
    <3>2. CASE v \in shown[p]
      <4>1. v.index <= m_trade[q]._serverStateIndex
            /\ (v.index = m_trade[q]._serverStateIndex => StillOffers(q, v.offer))
        BY <3>2, <1>0 DEF ViewsCurrent
      <4> QED
        BY <2>0, <3>1, <4>1, <1>0, <1>1, <1>5 DEF ValidChange
    <3>3. CASE v = View(t, q, counts)
      BY <3>3, <3>1, <2>0, <1>6
    <3> QED
      BY <2>1, <3>2, <3>3, <1>1
  <2>2. CASE r = q
    <3>1. u = p
      BY <2>2, <1>1 DEF ValidChange
    <3>2. CASE v \in shown[q]
      <4>1. v.index <= m_trade[p]._serverStateIndex
        BY <3>2, <1>0 DEF ViewsCurrent
      <4> QED
        BY <2>0, <3>1, <4>1, <1>1 DEF ValidChange
    <3>3. CASE v = View(t, p, counts)
      BY <3>3, <3>1, <2>0, <1>6
    <3> QED
      BY <2>2, <3>2, <3>3, <1>1
  <2>3. CASE r \notin {p, q}
    <3>1. Trading(r) /\ shown'[r] = shown[r] /\ u = Partner(r)
      BY <2>3, <1>1, <1>2 DEF ValidChange, Partner
    <3>2. u \in Traders \ {p, q}
      BY <2>3, <3>1, <1>0, Sides
    <3>3. m_trade'[u] = m_trade[u]
      BY <3>2, <1>1 DEF ValidChange
    <3> QED
      BY <3>1, <3>2, <3>3, <1>0, <1>5 DEF ViewsCurrent
  <2> QED
    BY <2>1, <2>2, <2>3
<1>8. ConsentCurrent'
  <2> SUFFICES ASSUME NEW r \in Traders, Trading(r)', m_trade'[r]._accepted,
                      NEW u, u = m_trade'[r]._trader
               PROVE  /\ consent'[r] # Nothing
                      /\ Agrees(m_trade'[r], bag'[r], stack', gone', consent'[r].gives)
                      /\ Agrees(m_trade'[u], bag'[u], stack', gone', consent'[r].gets)
    BY DEF ConsentCurrent, StillOffers, Partner
  <2>1. r \notin {p, q}
    BY <1>1 DEF ValidChange
  <2>2. Trading(r) /\ consent'[r] = consent[r] /\ m_trade'[r] = m_trade[r] /\ u = Partner(r)
    BY <2>1, <1>1, <1>2 DEF ValidChange, Partner
  <2>3. u \in Traders \ {p, q}
    BY <2>1, <2>2, <1>0, Sides
  <2>4. m_trade'[u] = m_trade[u]
    BY <2>3, <1>1 DEF ValidChange
  <2> QED
    BY <2>1, <2>2, <2>3, <2>4, <1>0, <1>5 DEF ConsentCurrent
<1> QED
  BY <1>3, <1>4, <1>7, <1>8 DEF TradeInv

-----------------------------------------------------------------------------
(* The changes of a TradeData. *)

\* u is t after changes of the sides p and q that leave items and money alone.
Later(t, u, p, q) ==
  /\ u \in [Traders -> TradeData \union {Nothing}]
  /\ \A r \in Traders \ {p, q} : u[r] = t[r]
  /\ \A r \in {p, q} :
       /\ u[r] \in TradeData /\ u[r]._trader = t[r]._trader
       /\ u[r]._money = t[r]._money /\ u[r]._items = t[r]._items
       /\ u[r]._accepted => t[r]._accepted
       /\ u[r]._serverStateIndex >= t[r]._serverStateIndex

\* Setting the flag of acceptance, and nothing else.
LEMMA FlagIs ==
  ASSUME NEW d \in TradeData, NEW b \in BOOLEAN
  PROVE  LET e == [d EXCEPT !._accepted = b]
         IN  /\ e \in TradeData /\ e._trader = d._trader /\ e._money = d._money
             /\ e._items = d._items /\ e._spell = d._spell /\ e._accepted = b
             /\ e._serverStateIndex = d._serverStateIndex
BY DEF TradeData

\* A new index, and nothing else.
LEMMA IndexIs ==
  ASSUME NEW d \in TradeData
  PROVE  LET e == [d EXCEPT !._serverStateIndex = @ + 1]
         IN  /\ e \in TradeData /\ e._trader = d._trader /\ e._money = d._money
             /\ e._items = d._items /\ e._spell = d._spell /\ e._accepted = d._accepted
             /\ e._serverStateIndex > d._serverStateIndex
BY DEF TradeData

\* The acceptance of one side is undone.
LEMMA UnacceptedIs ==
  ASSUME NEW t \in [Traders -> TradeData \union {Nothing}], NEW p \in Traders, t[p] \in TradeData
  PROVE  /\ Unaccepted(t, p) \in [Traders -> TradeData \union {Nothing}]
         /\ Unaccepted(t, p)[p] = [t[p] EXCEPT !._accepted = FALSE]
         /\ \A r \in Traders \ {p} : Unaccepted(t, p)[r] = t[r]
<1> DEFINE a == [t[p] EXCEPT !._accepted = FALSE]
<1>1. a \in TradeData
  BY FlagIs
<1>2. Unaccepted(t, p) = [t EXCEPT ![p] = a]
  BY DEF Unaccepted
<1> HIDE DEF a
<1>3. /\ Unaccepted(t, p) \in [Traders -> TradeData \union {Nothing}]
      /\ Unaccepted(t, p)[p] = a
      /\ \A r \in Traders \ {p} : Unaccepted(t, p)[r] = t[r]
  BY <1>1, <1>2
<1> QED
  BY <1>3 DEF a

\* What a change does: nobody has accepted any more, and the index is another.
LEMMA ChangedIs ==
  ASSUME NEW t \in [Traders -> TradeData \union {Nothing}], NEW p \in Traders, NEW q \in Traders,
         p # q, Partner(p) = q, t[p] \in TradeData, t[q] \in TradeData
  PROVE  /\ Later(t, Changed(t, p), p, q) /\ Later(t, Changed(t, p), q, p)
         /\ Changed(t, p)[p]._serverStateIndex > t[p]._serverStateIndex
         /\ Changed(t, p)[q]._serverStateIndex = t[q]._serverStateIndex
         /\ Changed(t, p)[p]._spell = t[p]._spell
         /\ ~Changed(t, p)[p]._accepted /\ ~Changed(t, p)[q]._accepted
<1> DEFINE u == Changed(t, p)
           a == [t[p] EXCEPT !._accepted = FALSE]
           b == [t[q] EXCEPT !._accepted = FALSE]
           c == [a EXCEPT !._serverStateIndex = @ + 1]
<1>1. /\ Unaccepted(t, p) \in [Traders -> TradeData \union {Nothing}]
      /\ Unaccepted(t, p)[p] = a /\ Unaccepted(t, p)[q] = t[q]
      /\ \A r \in Traders \ {p, q} : Unaccepted(t, p)[r] = t[r]
  BY UnacceptedIs
<1>2. /\ a \in TradeData /\ a._trader = t[p]._trader /\ a._money = t[p]._money
      /\ a._items = t[p]._items /\ a._spell = t[p]._spell /\ a._accepted = FALSE
      /\ a._serverStateIndex = t[p]._serverStateIndex
  BY FlagIs
<1>3. /\ b \in TradeData /\ b._trader = t[q]._trader /\ b._money = t[q]._money
      /\ b._items = t[q]._items /\ b._accepted = FALSE
      /\ b._serverStateIndex = t[q]._serverStateIndex
  BY FlagIs
<1> HIDE DEF a, b
<1>4. /\ c \in TradeData /\ c._trader = a._trader /\ c._money = a._money
      /\ c._items = a._items /\ c._spell = a._spell /\ c._accepted = a._accepted
      /\ c._serverStateIndex > a._serverStateIndex
  BY <1>2, IndexIs
<1> HIDE DEF c
<1>5. t[p]._serverStateIndex \in Nat /\ t[q]._serverStateIndex \in Nat /\ c._serverStateIndex \in Nat
  BY <1>4 DEF TradeData
<1>6. /\ u \in [Traders -> TradeData \union {Nothing}] /\ u[p] = c /\ u[q] = b
      /\ \A r \in Traders \ {p, q} : u[r] = t[r]
  <2> DEFINE t2 == Unaccepted(Unaccepted(t, p), q)
  <2>1. /\ t2 \in [Traders -> TradeData \union {Nothing}] /\ t2[p] = a /\ t2[q] = b
        /\ \A r \in Traders \ {p, q} : t2[r] = t[r]
    BY <1>1, UnacceptedIs DEF b
  <2>2. u = [t2 EXCEPT ![p]._serverStateIndex = @ + 1]
    BY DEF Changed
  <2> HIDE DEF t2, u
  <2>3. u = [t2 EXCEPT ![p] = c]
    BY <2>1, <2>2 DEF c
  <2> QED
    BY <2>1, <2>3, <1>3, <1>4
<1> HIDE DEF u
<1>7. /\ Later(t, u, p, q) /\ Later(t, u, q, p)
      /\ u[p]._serverStateIndex > t[p]._serverStateIndex
      /\ u[q]._serverStateIndex = t[q]._serverStateIndex
      /\ u[p]._spell = t[p]._spell
      /\ ~u[p]._accepted /\ ~u[q]._accepted
  BY <1>2, <1>3, <1>4, <1>5, <1>6 DEF Later
<1> QED
  BY <1>7 DEF u

\* Forgetting a spell is a change, or nothing.
LEMMA NoSpellIs ==
  ASSUME NEW t \in [Traders -> TradeData \union {Nothing}], NEW p \in Traders, NEW q \in Traders,
         p # q, Partner(p) = q, t[p] \in TradeData, t[q] \in TradeData
  PROVE  /\ Later(t, NoSpell(t, p), p, q) /\ Later(t, NoSpell(t, p), q, p)
         /\ t[p]._spell =>
              /\ NoSpell(t, p)[p]._serverStateIndex > t[p]._serverStateIndex
              /\ ~NoSpell(t, p)[p]._accepted /\ ~NoSpell(t, p)[q]._accepted
<1>1. CASE ~t[p]._spell
  <2>1. NoSpell(t, p) = t
    BY <1>1 DEF NoSpell
  <2>2. t[p]._serverStateIndex \in Nat /\ t[q]._serverStateIndex \in Nat
    BY DEF TradeData
  <2> QED
    BY <1>1, <2>1, <2>2 DEF Later
<1>2. CASE t[p]._spell
  <2> DEFINE u == Changed(t, p)
             n == NoSpell(t, p)
  <2>1. /\ Later(t, u, p, q) /\ u[p]._serverStateIndex > t[p]._serverStateIndex
        /\ ~u[p]._accepted /\ ~u[q]._accepted
    BY ChangedIs
  <2>2. n = [u EXCEPT ![p]._spell = FALSE]
    BY <1>2 DEF NoSpell
  <2> HIDE DEF u, n
  <2>3. /\ n \in [Traders -> TradeData \union {Nothing}]
        /\ n[p] = [u[p] EXCEPT !._spell = FALSE]
        /\ \A r \in Traders \ {p} : n[r] = u[r]
    BY <2>1, <2>2 DEF Later, TradeData
  <2>4. /\ n[p] \in TradeData /\ n[p]._trader = u[p]._trader /\ n[p]._money = u[p]._money
        /\ n[p]._items = u[p]._items /\ n[p]._accepted = u[p]._accepted
        /\ n[p]._serverStateIndex = u[p]._serverStateIndex
    BY <2>1, <2>3 DEF Later, TradeData
  <2>5. n[q] = u[q] /\ \A r \in Traders \ {p, q} : n[r] = u[r]
    BY <2>3
  <2>6. Later(t, n, p, q) /\ Later(t, n, q, p)
    BY <2>1, <2>3, <2>4, <2>5 DEF Later
  <2>7. n[p]._serverStateIndex > t[p]._serverStateIndex /\ ~n[p]._accepted /\ ~n[q]._accepted
    BY <2>1, <2>4, <2>5
  <2> QED
    BY <2>6, <2>7 DEF n
<1> QED
  BY <1>1, <1>2

\* Later changes keep a change valid.
LEMMA ValidLater ==
  ASSUME TradeInv, NEW p \in Traders, NEW q \in Traders, p # q, NEW t, NEW u,
         m_trade[p] \in TradeData, m_trade[q] \in TradeData,
         ValidChange(t, p, q), Later(t, u, p, q)
  PROVE  ValidChange(u, p, q)
<1>1. /\ m_trade[p]._serverStateIndex \in Nat /\ m_trade[q]._serverStateIndex \in Nat
      /\ t[p]._serverStateIndex \in Nat /\ t[q]._serverStateIndex \in Nat
      /\ u[p]._serverStateIndex \in Nat /\ u[q]._serverStateIndex \in Nat
  BY DEF ValidChange, Later, TradeData
<1> QED
  BY <1>1 DEF ValidChange, Later

\* SetItem of an item that is in no other slot is a valid change.
LEMMA ItemSetIsValid ==
  ASSUME TradeInv, NEW p \in Traders, Trading(p), NEW s \in TradeSlots,
         NEW i \in TradeItems \union {Nothing},
         \A u \in TradeSlots \ {s} : m_trade[p]._items[u] = i => i = Nothing
  PROVE  ValidChange(ItemSet(p, s, i), p, Partner(p))
<1> DEFINE q == Partner(p)
           c == Changed(m_trade, p)
           set == [c EXCEPT ![p]._items[s] = i]
           off == IF s = NonTraded THEN NoSpell(set, q) ELSE set
<1>0. /\ Types /\ SlotsDistinct /\ q \in Traders /\ q # p /\ Trading(q) /\ Partner(q) = p
      /\ m_trade[p] \in TradeData /\ m_trade[q] \in TradeData
      /\ m_trade[p]._trader = q /\ m_trade[q]._trader = p
  BY Sides DEF TradeInv
<1>1. /\ Later(m_trade, c, p, q) /\ c[p]._serverStateIndex > m_trade[p]._serverStateIndex
      /\ c[q]._serverStateIndex = m_trade[q]._serverStateIndex
      /\ ~c[p]._accepted /\ ~c[q]._accepted
  BY <1>0, ChangedIs DEF Types
<1> HIDE DEF c
<1>3. /\ set \in [Traders -> TradeData \union {Nothing}]
      /\ set[p] = [c[p] EXCEPT !._items[s] = i]
      /\ \A r \in Traders \ {p} : set[r] = c[r]
  BY <1>0, <1>1 DEF Later, TradeData
<1> HIDE DEF set
<1>4. /\ set[p] \in TradeData /\ set[p]._trader = q /\ ~set[p]._accepted
      /\ set[p]._serverStateIndex > m_trade[p]._serverStateIndex
      /\ set[p]._items = [m_trade[p]._items EXCEPT ![s] = i]
  BY <1>0, <1>1, <1>3 DEF Later, TradeData
<1>5. DistinctIn(set[p]._items) /\ DistinctIn(m_trade[q]._items)
  <2>1. DistinctIn(m_trade[p]._items) /\ DistinctIn(m_trade[q]._items)
    BY <1>0 DEF SlotsDistinct
  <2>2. m_trade[p]._items \in [TradeSlots -> TradeItems \union {Nothing}]
    BY <1>0 DEF TradeData
  <2> QED
    BY <2>1, <2>2, <1>4 DEF DistinctIn
<1>6. ValidChange(set, p, q)
  BY <1>0, <1>1, <1>3, <1>4, <1>5 DEF ValidChange, Later
<1>7. ValidChange(off, p, q)
  <2>1. Later(set, NoSpell(set, q), p, q)
    BY <1>0, <1>6, NoSpellIs DEF ValidChange
  <2> QED
    BY <2>1, <1>0, <1>6, ValidLater
<1> HIDE DEF off
<1>8. Later(off, NoSpell(off, p), p, q)
  BY <1>0, <1>7, NoSpellIs DEF ValidChange
<1>9. ValidChange(NoSpell(off, p), p, q)
  BY <1>0, <1>7, <1>8, ValidLater
<1> QED
  BY <1>9 DEF ItemSet, off, set, c

-----------------------------------------------------------------------------
(* Steps that set flags of acceptance. *)

\* t is the trade but for the flags of p and q.
Flagged(t, p, q) ==
  /\ t \in [Traders -> TradeData \union {Nothing}]
  /\ \A r \in Traders \ {p, q} : t[r] = m_trade[r]
  /\ \A r \in {p, q} :
       /\ t[r] \in TradeData /\ t[r]._trader = m_trade[r]._trader
       /\ t[r]._money = m_trade[r]._money /\ t[r]._items = m_trade[r]._items
       /\ t[r]._serverStateIndex = m_trade[r]._serverStateIndex

\* The consent of r is that of before, or to the offer it was shown last.
Consents(r) ==
  \/ m_trade[r]._accepted /\ consent'[r] = consent[r]
  \/ \E v \in shown[r] : CurrentIndex(r, v) /\ consent'[r] = Deal(r, v)

\* What p gives and gets is a deal.
LEMMA DealType ==
  ASSUME Types, NEW p \in Traders, Trading(p), NEW v \in shown[p]
  PROVE  /\ Deal(p, v) \in Deals
         /\ Deal(p, v) = [gives |-> OfferOf(m_trade[p], bag[p], stack), gets |-> v.offer]
<1>1. Offer(m_trade, p, stack) = OfferOf(m_trade[p], bag[p], stack) /\ m_trade[p] \in TradeData
  BY OfferIs DEF Types, Trading
<1>2. OfferOf(m_trade[p], bag[p], stack) \in Offers /\ v.offer \in Offers
  BY <1>1, OfferType DEF Types, Views
<1> QED
  BY <1>1, <1>2 DEF Deal, Deals

\* An acceptance that counts is to the offer of now.
LEMMA FlagStep ==
  ASSUME TradeInv, NEW p \in Traders, Trading(p), UNCHANGED <<goodsVars, shown>>,
         Flagged(m_trade', p, Partner(p)),
         consent' \in [Traders -> Deals \union {Nothing}],
         \A r \in Traders \ {p, Partner(p)} : consent'[r] = consent[r],
         \A r \in {p, Partner(p)} : m_trade'[r]._accepted => Consents(r)
  PROVE  TradeInv'
<1> DEFINE q == Partner(p)
<1>0. /\ Types /\ Mutual /\ BagsApart /\ SlotsDistinct /\ ViewsCurrent /\ ConsentCurrent
      /\ q \in Traders /\ q # p /\ Trading(q) /\ Partner(q) = p
      /\ m_trade[p] \in TradeData /\ m_trade[q] \in TradeData
      /\ UNCHANGED <<bag, money, stack, busy, gone, shown>>
  BY Sides DEF TradeInv, goodsVars
<1>1. \A r \in Traders :
        /\ Trading(r)' <=> Trading(r)
        /\ Trading(r) => /\ m_trade'[r]._trader = Partner(r)
                         /\ m_trade'[r]._money = m_trade[r]._money
                         /\ m_trade'[r]._items = m_trade[r]._items
                         /\ m_trade'[r]._serverStateIndex = m_trade[r]._serverStateIndex
  BY <1>0, NothingAssumption DEF Flagged, Trading, Partner
<1>2. \A r \in Traders : Trading(r) => Partner(r) \in Traders /\ Trading(Partner(r))
  BY Sides
<1>3. Types' /\ Mutual' /\ BagsApart' /\ SlotsDistinct'
  BY <1>0, <1>1, <1>2 DEF Types, Mutual, BagsApart, SlotsDistinct, Flagged, Partner
<1>4. ASSUME NEW r \in Traders, Trading(r), NEW offer, StillOffers(r, offer)
      PROVE  Agrees(m_trade'[r], bag'[r], stack', gone', offer)
  BY <1>0, <1>1, <1>4, AgreesKept DEF StillOffers
<1>5. ViewsCurrent'
  <2> SUFFICES ASSUME NEW r \in Traders, Trading(r)', NEW v \in shown'[r],
                      NEW u, u = m_trade'[r]._trader
               PROVE  /\ v.index <= m_trade'[u]._serverStateIndex
                      /\ v.index = m_trade'[u]._serverStateIndex
                           => Agrees(m_trade'[u], bag'[u], stack', gone', v.offer)
    BY DEF ViewsCurrent, StillOffers, Partner
  <2>1. Trading(r) /\ u = Partner(r) /\ v \in shown[r] /\ u \in Traders /\ Trading(u)
    BY <1>0, <1>1, <1>2
  <2> QED
    BY <2>1, <1>0, <1>1, <1>4 DEF ViewsCurrent
<1>6. ConsentCurrent'
  <2> SUFFICES ASSUME NEW r \in Traders, Trading(r)', m_trade'[r]._accepted,
                      NEW u, u = m_trade'[r]._trader
               PROVE  /\ consent'[r] # Nothing
                      /\ Agrees(m_trade'[r], bag'[r], stack', gone', consent'[r].gives)
                      /\ Agrees(m_trade'[u], bag'[u], stack', gone', consent'[r].gets)
    BY DEF ConsentCurrent, StillOffers, Partner
  <2>1. Trading(r) /\ u = Partner(r) /\ u \in Traders /\ Trading(u)
    BY <1>1, <1>2
  <2>2. CASE m_trade[r]._accepted /\ consent'[r] = consent[r]
    BY <2>1, <2>2, <1>4, <1>0 DEF ConsentCurrent
  <2>3. ASSUME NEW v \in shown[r], CurrentIndex(r, v), consent'[r] = Deal(r, v)
        PROVE  /\ consent'[r] # Nothing
               /\ Agrees(m_trade'[r], bag'[r], stack', gone', consent'[r].gives)
               /\ Agrees(m_trade'[u], bag'[u], stack', gone', consent'[r].gets)
    <3>1. /\ consent'[r] # Nothing
          /\ consent'[r].gives = OfferOf(m_trade[r], bag[r], stack) /\ consent'[r].gets = v.offer
      BY <2>1, <2>3, <1>0, DealType, NothingAssumption
    <3>2. StillOffers(r, consent'[r].gives)
      BY <3>1, AgreesWithItself DEF StillOffers
    <3>3. StillOffers(u, consent'[r].gets)
      BY <2>1, <2>3, <3>1, <1>0 DEF ViewsCurrent, CurrentIndex
    <3> QED
      BY <2>1, <3>1, <3>2, <3>3, <1>4
  <2>4. r \in {p, q} => Consents(r)
    OBVIOUS
  <2>5. r \notin {p, q} => m_trade[r]._accepted /\ consent'[r] = consent[r]
    BY DEF Flagged
  <2> QED
    BY <2>2, <2>3, <2>4, <2>5 DEF Consents
<1> QED
  BY <1>3, <1>5, <1>6 DEF TradeInv

-----------------------------------------------------------------------------
(* Steps beside the trade, and the end of one. *)

\* Items go and counts drop, but for the items in a slot.
LEMMA GoodsStep ==
  ASSUME TradeInv, Types', UNCHANGED <<m_trade, shown, consent>>,
         \A r \in Traders : bag'[r] \subseteq bag[r] /\ bag[r] \ bag'[r] \subseteq gone',
         gone \subseteq gone', \A r \in Traders : bag'[r] \intersect gone' = {},
         \A r \in Traders : Trading(r) => \A s \in 1 .. TradedSlots :
           LET i == m_trade[r]._items[s] IN i \in bag'[r] => stack'[i] = stack[i]
  PROVE  TradeInv'
<1>0. /\ Types /\ Mutual /\ BagsApart /\ SlotsDistinct /\ ViewsCurrent /\ ConsentCurrent
      /\ \A r \in Traders : Trading(r) => Partner(r) \in Traders /\ Trading(Partner(r))
  BY Sides DEF TradeInv
<1>1. ASSUME NEW r \in Traders, Trading(r), NEW offer, StillOffers(r, offer)
      PROVE  Agrees(m_trade[r], bag'[r], stack', gone', offer)
  BY <1>0, <1>1, AgreesKept DEF StillOffers
<1>2. Mutual' /\ BagsApart' /\ SlotsDistinct'
  BY <1>0 DEF Mutual, BagsApart, SlotsDistinct, Trading, Partner
<1>3. ViewsCurrent'
  <2> SUFFICES ASSUME NEW r \in Traders, Trading(r), NEW v \in shown[r], NEW u, u = Partner(r)
               PROVE  /\ v.index <= m_trade[u]._serverStateIndex
                      /\ v.index = m_trade[u]._serverStateIndex
                           => Agrees(m_trade[u], bag'[u], stack', gone', v.offer)
    BY DEF ViewsCurrent, StillOffers, Partner, Trading
  <2> QED
    BY <1>0, <1>1 DEF ViewsCurrent
<1>4. ConsentCurrent'
  <2> SUFFICES ASSUME NEW r \in Traders, Trading(r), m_trade[r]._accepted, NEW u, u = Partner(r)
               PROVE  /\ consent[r] # Nothing
                      /\ Agrees(m_trade[r], bag'[r], stack', gone', consent[r].gives)
                      /\ Agrees(m_trade[u], bag'[u], stack', gone', consent[r].gets)
    BY DEF ConsentCurrent, StillOffers, Partner, Trading
  <2> QED
    BY <1>0, <1>1 DEF ConsentCurrent
<1> QED
  BY <1>2, <1>3, <1>4 DEF TradeInv

\* A trade ends; the goods of the two may change hands.
LEMMA EndsStep ==
  ASSUME TradeInv, NEW p \in Traders, Trading(p), TradeEnds(p),
         bag' \in [Traders -> SUBSET TradeItems], money' \in [Traders -> 0 .. MaxMoney],
         UNCHANGED <<stack, busy, gone>>, BagsApart',
         \A r \in Traders \ {p, Partner(p)} : bag'[r] = bag[r]
  PROVE  TradeInv'
<1> DEFINE q == Partner(p)
<1>0. /\ Types /\ Mutual /\ BagsApart /\ SlotsDistinct /\ ViewsCurrent /\ ConsentCurrent
      /\ q \in Traders /\ q # p
  BY Sides DEF TradeInv
<1>1. /\ m_trade' \in [Traders -> TradeData \union {Nothing}]
      /\ m_trade'[p] = Nothing /\ m_trade'[q] = Nothing
      /\ shown' \in [Traders -> SUBSET Views] /\ consent' \in [Traders -> Deals \union {Nothing}]
      /\ \A r \in Traders \ {p, q} :
           m_trade'[r] = m_trade[r] /\ shown'[r] = shown[r] /\ consent'[r] = consent[r]
  BY <1>0 DEF TradeEnds, BothDeleted, Types
<1>2. ASSUME NEW r \in Traders, Trading(r)'
      PROVE  /\ r \in Traders \ {p, q} /\ Trading(r) /\ m_trade'[r]._trader = Partner(r)
             /\ Partner(r) \in Traders \ {p, q} /\ Trading(Partner(r))
             /\ m_trade'[Partner(r)] = m_trade[Partner(r)]
  <2>1. r \in Traders \ {p, q} /\ Trading(r)
    BY <1>1, <1>2 DEF Trading
  <2>2. Partner(r) \in Traders \ {p, q} /\ Trading(Partner(r))
    BY <2>1, <1>0, Sides
  <2> QED
    BY <2>1, <2>2, <1>1 DEF Partner
<1>3. Types' /\ SlotsDistinct'
  BY <1>0, <1>1, <1>2 DEF Types, SlotsDistinct
<1>4. Mutual'
  BY <1>0, <1>1, <1>2 DEF Mutual, Partner, Trading
<1>5. ASSUME NEW r \in Traders \ {p, q}, NEW offer, StillOffers(r, offer)
      PROVE  Agrees(m_trade'[r], bag'[r], stack', gone', offer)
  BY <1>1, <1>5 DEF StillOffers
<1>6. ViewsCurrent'
  <2> SUFFICES ASSUME NEW r \in Traders, Trading(r)', NEW v \in shown'[r],
                      NEW u, u = m_trade'[r]._trader
               PROVE  /\ v.index <= m_trade'[u]._serverStateIndex
                      /\ v.index = m_trade'[u]._serverStateIndex
                           => Agrees(m_trade'[u], bag'[u], stack', gone', v.offer)
    BY DEF ViewsCurrent, StillOffers, Partner
  <2> QED
    BY <1>0, <1>1, <1>2, <1>5 DEF ViewsCurrent
<1>7. ConsentCurrent'
  <2> SUFFICES ASSUME NEW r \in Traders, Trading(r)', m_trade'[r]._accepted,
                      NEW u, u = m_trade'[r]._trader
               PROVE  /\ consent'[r] # Nothing
                      /\ Agrees(m_trade'[r], bag'[r], stack', gone', consent'[r].gives)
                      /\ Agrees(m_trade'[u], bag'[u], stack', gone', consent'[r].gets)
    BY DEF ConsentCurrent, StillOffers, Partner
  <2>1. m_trade[r]._accepted /\ consent'[r] = consent[r]
    BY <1>1, <1>2
  <2> QED
    BY <2>1, <1>0, <1>2, <1>5 DEF ConsentCurrent
<1> QED
  BY <1>3, <1>4, <1>6, <1>7 DEF TradeInv

\* A new trade offers nothing, and that is what is shown of it.
LEMMA InitiateStep ==
  ASSUME TradeInv, NEW p \in Traders, NEW q \in Traders, InitiateTrade(p, q)
  PROVE  TradeInv'
<1>0. /\ Types /\ Mutual /\ BagsApart /\ SlotsDistinct /\ ViewsCurrent /\ ConsentCurrent
      /\ p # q /\ ~Trading(p) /\ ~Trading(q)
      /\ UNCHANGED <<bag, money, stack, busy, gone, consent>>
  BY DEF TradeInv, InitiateTrade, goodsVars
<1> DEFINE first == [index |-> 1, offer |-> EmptyOffer]
<1>1. NewTradeData(p) \in TradeData /\ NewTradeData(q) \in TradeData /\ first \in Views
  BY TradeAssumption DEF NewTradeData, TradeData, Views, EmptyOffer, Offers
<1>2. /\ m_trade' \in [Traders -> TradeData \union {Nothing}]
      /\ m_trade'[p] = NewTradeData(q) /\ m_trade'[q] = NewTradeData(p)
      /\ shown' \in [Traders -> SUBSET Views] /\ shown'[p] = {first} /\ shown'[q] = {first}
      /\ \A r \in Traders \ {p, q} : m_trade'[r] = m_trade[r] /\ shown'[r] = shown[r]
  BY <1>0, <1>1 DEF InitiateTrade, Types
<1>3. ASSUME NEW r \in Traders \ {p, q}, Trading(r)'
      PROVE  /\ Trading(r) /\ m_trade'[r]._trader = Partner(r)
             /\ Partner(r) \in Traders \ {p, q} /\ Trading(Partner(r))
             /\ m_trade'[Partner(r)] = m_trade[Partner(r)]
  <2>1. Trading(r)
    BY <1>2, <1>3 DEF Trading
  <2>2. Partner(r) \in Traders \ {p, q} /\ Trading(Partner(r))
    BY <2>1, <1>0, Sides
  <2> QED
    BY <2>1, <2>2, <1>2 DEF Partner
<1>4. ASSUME NEW r \in {p, q}
      PROVE  /\ ~m_trade'[r]._accepted /\ m_trade'[r]._serverStateIndex = 1
             /\ DistinctIn(m_trade'[r]._items)
             /\ Agrees(m_trade'[r], bag'[r], stack', gone', EmptyOffer)
  <2>1. /\ m_trade'[r]._items = [s \in TradeSlots |-> Nothing] /\ m_trade'[r]._money = 0
        /\ ~m_trade'[r]._accepted /\ m_trade'[r]._serverStateIndex = 1
    BY <1>2 DEF NewTradeData
  <2>2. \A s \in 1 .. TradedSlots : m_trade'[r]._items[s] \notin bag'[r]
    BY <2>1, <1>0, NothingAssumption, TradeAssumption DEF Types, TradeSlots
  <2>3. OfferOf(m_trade'[r], bag'[r], stack').items = {}
    BY <2>2 DEF OfferOf
  <2> QED
    BY <2>1, <2>3 DEF Agrees, EmptyOffer, DistinctIn
<1>5. m_trade'[p]._trader = q /\ m_trade'[q]._trader = p /\ Trading(p)' /\ Trading(q)'
  <2>1. Trading(p)' /\ Trading(q)'
    BY <1>1, <1>2, NothingAssumption DEF Trading
  <2> QED
    BY <2>1, <1>2 DEF NewTradeData
<1>6. Types' /\ BagsApart'
  BY <1>0, <1>2 DEF Types, BagsApart
<1>7. Mutual'
  <2> SUFFICES ASSUME NEW r \in Traders, Trading(r)', NEW u, u = m_trade'[r]._trader
               PROVE  u # r /\ m_trade'[u] # Nothing /\ m_trade'[u]._trader = r
    BY DEF Mutual, Partner, Trading
  <2>1. CASE r \in {p, q}
    BY <2>1, <1>0, <1>5 DEF Trading
  <2>2. CASE r \notin {p, q}
    BY <2>2, <1>0, <1>3 DEF Mutual, Partner, Trading
  <2> QED
    BY <2>1, <2>2
<1>8. SlotsDistinct'
  BY <1>0, <1>2, <1>3, <1>4 DEF SlotsDistinct
<1>9. ViewsCurrent'
  <2> SUFFICES ASSUME NEW r \in Traders, Trading(r)', NEW v \in shown'[r],
                      NEW u, u = m_trade'[r]._trader
               PROVE  /\ v.index <= m_trade'[u]._serverStateIndex
                      /\ v.index = m_trade'[u]._serverStateIndex
                           => Agrees(m_trade'[u], bag'[u], stack', gone', v.offer)
    BY DEF ViewsCurrent, StillOffers, Partner
  <2>1. CASE r \in {p, q}
    <3>1. u \in {p, q} /\ v = first
      BY <2>1, <1>2, <1>5
    <3> QED
      BY <3>1, <1>4
  <2>2. CASE r \notin {p, q}
    <3>1. /\ v \in shown[r] /\ Trading(r) /\ u = Partner(r) /\ u \in Traders
          /\ m_trade'[u] = m_trade[u]
      BY <2>2, <1>2, <1>3
    <3> QED
      BY <3>1, <1>0 DEF ViewsCurrent, StillOffers
  <2> QED
    BY <2>1, <2>2
<1>10. ConsentCurrent'
  <2> SUFFICES ASSUME NEW r \in Traders, Trading(r)', m_trade'[r]._accepted,
                      NEW u, u = m_trade'[r]._trader
               PROVE  /\ consent'[r] # Nothing
                      /\ Agrees(m_trade'[r], bag'[r], stack', gone', consent'[r].gives)
                      /\ Agrees(m_trade'[u], bag'[u], stack', gone', consent'[r].gets)
    BY DEF ConsentCurrent, StillOffers, Partner
  <2>1. r \notin {p, q}
    BY <1>4
  <2>2. /\ Trading(r) /\ u = Partner(r) /\ u \in Traders
        /\ m_trade'[u] = m_trade[u] /\ m_trade'[r] = m_trade[r]
    BY <2>1, <1>2, <1>3
  <2> QED
    BY <2>2, <1>0 DEF ConsentCurrent, StillOffers
<1> QED
  BY <1>6, <1>7, <1>8, <1>9, <1>10 DEF TradeInv

-----------------------------------------------------------------------------
(* The exchange.  moveItems goes slot by slot through bags that change, and
   what does not fit is given back or lost.  The check before it is exact: no
   slot ever finds a bag full. *)

\* What p and its partner have once the first n slots are exchanged.
MovedTo(p, n) ==
  LET q == Partner(p)
  IN  [bag EXCEPT ![p] = (@ \ TradedItems(p)) \union ItemsIn(m_trade, q, 1 .. n),
                  ![q] = (@ \ TradedItems(q)) \union ItemsIn(m_trade, p, 1 .. n)]

\* The items in slots of an offer are in the bag of the player.
LEMMA ItemsAre ==
  ASSUME Types, NEW p \in Traders, NEW slots
  PROVE  /\ \A s \in slots : GetItem(m_trade, p, s) \in bag[p] \union {Nothing}
         /\ Nothing \notin bag[p]
         /\ ItemsIn(m_trade, p, slots) = {m_trade[p]._items[s] : s \in slots} \intersect bag[p]
         /\ ItemsIn(m_trade, p, slots) \subseteq bag[p]
BY NothingAssumption DEF ItemsIn, GetItem, Types

\* The items of the slots up to n are those of the slots before, and that of n.
LEMMA ItemsUpTo ==
  ASSUME TradeInv, NEW p \in Traders, Trading(p), NEW n \in 1 .. TradedSlots
  PROVE  LET new == {GetItem(m_trade, p, n)} \ {Nothing}
         IN  /\ ItemsIn(m_trade, p, 1 .. n) = ItemsIn(m_trade, p, 1 .. (n - 1)) \union new
             /\ ItemsIn(m_trade, p, 1 .. (n - 1)) \intersect new = {}
             /\ ItemsIn(m_trade, p, 1 .. n) \subseteq TradedItems(p)
<1> DEFINE new == {GetItem(m_trade, p, n)} \ {Nothing}
<1>1. 1 .. n = (1 .. (n - 1)) \union {n} /\ 1 .. n \subseteq 1 .. TradedSlots
      /\ 1 .. TradedSlots \subseteq TradeSlots
  BY TradeAssumption DEF TradeSlots
<1>2. ItemsIn(m_trade, p, 1 .. n) = ItemsIn(m_trade, p, 1 .. (n - 1)) \union new
  BY <1>1 DEF ItemsIn
<1>3. ItemsIn(m_trade, p, 1 .. n) \subseteq TradedItems(p)
  BY <1>1 DEF ItemsIn, TradedItems
<1>4. ASSUME NEW i \in ItemsIn(m_trade, p, 1 .. (n - 1)), i \in new PROVE FALSE
  <2>1. i # Nothing /\ m_trade[p]._items[n] = i
    BY <1>4 DEF GetItem
  <2>2. PICK s \in 1 .. (n - 1) : GetItem(m_trade, p, s) = i
    BY <1>4 DEF ItemsIn
  <2>3. m_trade[p]._items[s] = i
    BY <2>1, <2>2 DEF GetItem
  <2>4. s \in TradeSlots /\ n \in TradeSlots /\ s # n
    BY <1>1
  <2> QED
    BY <2>1, <2>3, <2>4 DEF TradeInv, SlotsDistinct, DistinctIn
<1> QED
  BY <1>2, <1>3, <1>4

\* The number of a player's items after n slots is within its bags.
LEMMA RoomUpTo ==
  ASSUME NEW kept, NEW got, NEW new, NEW all, NEW most \in Nat,
         IsFiniteSet(kept), IsFiniteSet(all), got \subseteq all, new \subseteq all,
         got \intersect new = {}, kept \intersect all = {},
         Cardinality(kept) + Cardinality(all) <= most
  PROVE  Cardinality(kept \union got) + Cardinality(new) <= most
<1>1. IsFiniteSet(got) /\ IsFiniteSet(new) /\ IsFiniteSet(kept \union got)
  BY FS_Subset, FS_Union
<1>2. Cardinality((kept \union got) \union new)
        = Cardinality(kept \union got) + Cardinality(new) - Cardinality((kept \union got) \intersect new)
  BY <1>1, FS_Union
<1>3. (kept \union got) \intersect new = {}
  OBVIOUS
<1>4. Cardinality(kept \union all) = Cardinality(kept) + Cardinality(all) - Cardinality(kept \intersect all)
  BY FS_Union
<1>5. /\ Cardinality(kept) \in Nat /\ Cardinality(all) \in Nat
      /\ Cardinality(kept \union got) \in Nat /\ Cardinality(new) \in Nat
  BY <1>1, FS_CardinalityType
<1>6. IsFiniteSet(kept \union all) /\ Cardinality(kept \union all) \in Nat
  BY FS_Union, FS_CardinalityType
<1>7. Cardinality((kept \union got) \union new) <= Cardinality(kept \union all)
  <2>1. ((kept \union got) \union new) \in SUBSET (kept \union all)
    OBVIOUS
  <2> QED
    BY <2>1, <1>6, FS_Subset
<1>8. Cardinality({}) = 0
  BY FS_EmptySet
<1>9. Cardinality((kept \union got) \intersect new) = 0 /\ Cardinality(kept \intersect all) = 0
  BY <1>3, <1>8
<1> DEFINE a == Cardinality(kept)
           b == Cardinality(all)
           c == Cardinality(kept \union got)
           d == Cardinality(new)
           e == Cardinality((kept \union got) \union new)
           f == Cardinality(kept \union all)
<1>10. a \in Nat /\ b \in Nat /\ c \in Nat /\ d \in Nat /\ f \in Nat
       /\ e = c + d - 0 /\ f = a + b - 0 /\ e <= f /\ a + b <= most
  BY <1>2, <1>4, <1>5, <1>6, <1>7, <1>9
<1> HIDE DEF a, b, c, d, e, f
<1>11. c + d <= most
  BY <1>10
<1> QED
  BY <1>11 DEF c, d

\* With room for all, every slot is exchanged.
LEMMA SlotMoves ==
  ASSUME TradeInv, NEW p \in Traders, Trading(p), RoomForAll(p), NEW n \in 1 .. TradedSlots
  PROVE  MoveSlot(p, MovedTo(p, n - 1), n) = MovedTo(p, n)
<1> DEFINE q == Partner(p)
           mine == {GetItem(m_trade, p, n)} \ {Nothing}
           his == {GetItem(m_trade, q, n)} \ {Nothing}
           was == MovedTo(p, n - 1)
           Fits(r, items) == Cardinality(was[r]) + Cardinality(items) <= Slots[r]
<1>0. /\ Types /\ BagsApart /\ q \in Traders /\ q # p /\ Trading(q) /\ Partner(q) = p
      /\ Slots[p] \in Nat /\ Slots[q] \in Nat
  BY Sides, TradeAssumption DEF TradeInv
<1>1. /\ was[p] = (bag[p] \ TradedItems(p)) \union ItemsIn(m_trade, q, 1 .. (n - 1))
      /\ was[q] = (bag[q] \ TradedItems(q)) \union ItemsIn(m_trade, p, 1 .. (n - 1))
      /\ was = [bag EXCEPT ![p] = was[p], ![q] = was[q]]
  BY <1>0 DEF MovedTo, Types
<1>2. /\ ItemsIn(m_trade, p, 1 .. n) = ItemsIn(m_trade, p, 1 .. (n - 1)) \union mine
      /\ ItemsIn(m_trade, p, 1 .. (n - 1)) \intersect mine = {}
      /\ ItemsIn(m_trade, p, 1 .. n) \subseteq TradedItems(p)
  BY ItemsUpTo
<1>3. /\ ItemsIn(m_trade, q, 1 .. n) = ItemsIn(m_trade, q, 1 .. (n - 1)) \union his
      /\ ItemsIn(m_trade, q, 1 .. (n - 1)) \intersect his = {}
      /\ ItemsIn(m_trade, q, 1 .. n) \subseteq TradedItems(q)
  BY <1>0, ItemsUpTo
<1>4. /\ TradedItems(p) \subseteq bag[p] /\ TradedItems(q) \subseteq bag[q]
      /\ bag[p] \intersect bag[q] = {} /\ bag[p] \in SUBSET TradeItems /\ bag[q] \in SUBSET TradeItems
  BY <1>0, ItemsAre DEF TradedItems, BagsApart, Types
<1>5. /\ IsFiniteSet(bag[p] \ TradedItems(p)) /\ IsFiniteSet(bag[q] \ TradedItems(q))
      /\ IsFiniteSet(TradedItems(p)) /\ IsFiniteSet(TradedItems(q))
  BY <1>4, TradeAssumption, FS_Subset
<1>6. Fits(p, his)
  <2>1. Cardinality(bag[p] \ TradedItems(p)) + Cardinality(TradedItems(q)) <= Slots[p]
    BY DEF RoomForAll, CanStoreItems
  <2> DEFINE kept == bag[p] \ TradedItems(p)
             got == ItemsIn(m_trade, q, 1 .. (n - 1))
  <2>2. /\ got \subseteq TradedItems(q) /\ his \subseteq TradedItems(q)
        /\ got \intersect his = {} /\ kept \intersect TradedItems(q) = {}
        /\ was[p] = kept \union got
    BY <1>3, <1>1, <1>4
  <2> HIDE DEF his, was, got, kept
  <2>3. IsFiniteSet(kept)
    BY <1>5 DEF kept
  <2>4. Cardinality(kept \union got) + Cardinality(his) <= Slots[p]
    <3>1. Cardinality(kept) + Cardinality(TradedItems(q)) <= Slots[p]
      BY <2>1 DEF kept
    <3> QED
      BY <3>1, <2>2, <2>3, <1>0, <1>5, RoomUpTo
  <2> QED
    BY <2>2, <2>4
<1>7. Fits(q, mine)
  <2>1. Cardinality(bag[q] \ TradedItems(q)) + Cardinality(TradedItems(p)) <= Slots[q]
    BY <1>0 DEF RoomForAll, CanStoreItems
  <2> DEFINE kept == bag[q] \ TradedItems(q)
             got == ItemsIn(m_trade, p, 1 .. (n - 1))
  <2>2. /\ got \subseteq TradedItems(p) /\ mine \subseteq TradedItems(p)
        /\ got \intersect mine = {} /\ kept \intersect TradedItems(p) = {}
        /\ was[q] = kept \union got
    BY <1>2, <1>1, <1>4
  <2> HIDE DEF mine, was, got, kept
  <2>3. IsFiniteSet(kept)
    BY <1>5 DEF kept
  <2>4. Cardinality(kept \union got) + Cardinality(mine) <= Slots[q]
    <3>1. Cardinality(kept) + Cardinality(TradedItems(p)) <= Slots[q]
      BY <2>1 DEF kept
    <3>2. Slots[q] \in Nat /\ IsFiniteSet(TradedItems(p))
      BY <1>0, <1>5
    <3> HIDE DEF q
    <3> QED
      BY <3>1, <3>2, <2>2, <2>3, RoomUpTo
  <2> QED
    BY <2>2, <2>4
<1>8. MoveSlot(p, was, n) = [was EXCEPT ![p] = @ \union his, ![q] = @ \union mine]
  BY <1>6, <1>7 DEF MoveSlot
<1> HIDE DEF mine, his, was
<1>9. [was EXCEPT ![p] = @ \union his, ![q] = @ \union mine]
        = [bag EXCEPT ![p] = was[p] \union his, ![q] = was[q] \union mine]
  BY <1>0, <1>1 DEF Types
<1>10. MovedTo(p, n) = [bag EXCEPT ![p] = was[p] \union his, ![q] = was[q] \union mine]
  BY <1>0, <1>1, <1>2, <1>3 DEF MovedTo, Types
<1> QED
  BY <1>8, <1>9, <1>10 DEF was

\* A slot that is exchanged leaves bags bags.
LEMMA SlotType ==
  ASSUME TradeInv, NEW p \in Traders, Trading(p), NEW bags \in [Traders -> SUBSET TradeItems],
         NEW n \in 1 .. TradedSlots
  PROVE  MoveSlot(p, bags, n) \in [Traders -> SUBSET TradeItems]
<1> DEFINE q == Partner(p)
           mine == {GetItem(m_trade, p, n)} \ {Nothing}
           his == {GetItem(m_trade, q, n)} \ {Nothing}
<1>0. Types /\ q \in Traders /\ q # p
  BY Sides DEF TradeInv
<1>1. mine \in SUBSET TradeItems /\ his \in SUBSET TradeItems
  BY <1>0, ItemsAre DEF Types
<1> HIDE DEF mine, his
<1>2. MoveSlot(p, bags, n) \in [Traders -> SUBSET TradeItems]
  <2> DEFINE Fits(r, items) == Cardinality(bags[r]) + Cardinality(items) <= Slots[r]
             Given(r, items) == IF Fits(r, items) THEN bags[r] \union items ELSE bags[r]
  <2>1. MoveSlot(p, bags, n) =
          IF Fits(q, mine) /\ Fits(p, his)
          THEN [bags EXCEPT ![p] = @ \union his, ![q] = @ \union mine]
          ELSE [bags EXCEPT ![p] = Given(p, mine), ![q] = Given(q, his)]
    BY DEF MoveSlot, mine, his
  <2>2. Given(p, mine) \in SUBSET TradeItems /\ Given(q, his) \in SUBSET TradeItems
    BY <1>0, <1>1
  <2> HIDE DEF Fits, Given
  <2>3. [bags EXCEPT ![p] = @ \union his, ![q] = @ \union mine] =
          [bags EXCEPT ![p] = bags[p] \union his, ![q] = bags[q] \union mine]
    BY <1>0
  <2>4. bags[q] \union mine \in SUBSET TradeItems /\ bags[p] \union his \in SUBSET TradeItems
    BY <1>0, <1>1
  <2>5. ASSUME NEW a \in SUBSET TradeItems, NEW b \in SUBSET TradeItems
        PROVE  [bags EXCEPT ![p] = a, ![q] = b] \in [Traders -> SUBSET TradeItems]
    BY <1>0
  <2>6. CASE Fits(q, mine) /\ Fits(p, his)
    BY <2>1, <2>3, <2>4, <2>5, <2>6
  <2>7. CASE ~(Fits(q, mine) /\ Fits(p, his))
    BY <2>1, <2>2, <2>5, <2>7
  <2> QED
    BY <2>6, <2>7
<1> QED
  BY <1>2

\* The loop of moveItems exchanges all slots.
LEMMA AllSlotsMove ==
  ASSUME TradeInv, NEW p \in Traders, Trading(p), RoomForAll(p),
         NEW emptied, emptied = MovedTo(p, 0)
  PROVE  FoldLeft(LAMBDA bags, s : MoveSlot(p, bags, s), emptied, [s \in 1 .. TradedSlots |-> s])
           = MovedTo(p, TradedSlots)
<1> DEFINE N == TradedSlots
           sq == [s \in 1 .. N |-> s]
           T == [Traders -> SUBSET TradeItems]
           F == [x \in T \X (Nat \ {0}) |->
                   IF x[2] \in 1 .. N THEN MoveSlot(p, x[1], x[2]) ELSE x[1]]
           Step(h) == [s \in SUBSET (1 .. N) |->
                         IF s = {} THEN emptied ELSE MoveSlot(p, h[s \ {Max(s)}], sq[Max(s)])]
           iter == CHOOSE h : h = Step(h)
<1>0. N \in Nat \ {0} /\ DOMAIN sq = 1 .. N /\ Types /\ Partner(p) \in Traders
  BY TradeAssumption, Sides DEF TradeInv
<1>1. FoldLeft(LAMBDA bags, s : MoveSlot(p, bags, s), emptied, sq) = iter[1 .. N]
  BY <1>0 DEF FoldLeft, MapThenFoldSet
<1>2. \A n \in 0 .. N : MovedTo(p, n) \in T
  <2> TAKE n \in 0 .. N
  <2>1. /\ ItemsIn(m_trade, p, 1 .. n) \subseteq bag[p]
        /\ ItemsIn(m_trade, Partner(p), 1 .. n) \subseteq bag[Partner(p)]
    BY <1>0, ItemsAre
  <2> QED
    BY <2>1, <1>0 DEF MovedTo, Types
<1>3. F \in [T \X (Nat \ {0}) -> T]
  <2> SUFFICES ASSUME NEW x \in T \X (Nat \ {0}), x[2] \in 1 .. N
               PROVE  MoveSlot(p, x[1], x[2]) \in T
    OBVIOUS
  <2> QED
    BY SlotType
<1>4. \E h : h = Step(h)
  <2>1. PICK g : Folds(g, N, T, emptied, F)
    <3>1. emptied \in T /\ N \in Nat
      BY <1>0, <1>2
    <3> HIDE DEF F, T
    <3> QED
      BY <3>1, <1>3, FoldExists
  <2>2. ASSUME NEW s \in SUBSET (1 .. N), s # {}
        PROVE  g[s] = MoveSlot(p, g[s \ {Max(s)}], sq[Max(s)])
    <3>1. Max(s) \in s
      BY <1>0, <2>2, MaxIsElement
    <3>2. g[s \ {Max(s)}] \in T /\ Max(s) \in 1 .. N /\ Max(s) \in Nat \ {0}
      <4>1. s \ {Max(s)} \in SUBSET (1 .. N) /\ Max(s) \in 1 .. N
        BY <3>1
      <4>2. \A i \in 1 .. N : i \in Nat \ {0}
        BY <1>0
      <4> HIDE DEF T, F
      <4>3. g \in [SUBSET (1 .. N) -> T]
        BY <2>1 DEF Folds
      <4> QED
        BY <4>1, <4>2, <4>3
    <3> HIDE DEF T
    <3>3. g[s] = F[<<g[s \ {Max(s)}], Max(s)>>]
      BY <2>1, <2>2 DEF Folds
    <3> QED
      BY <3>2, <3>3
  <2>3. g = [s \in SUBSET (1 .. N) |-> g[s]] /\ (\A s \in SUBSET (1 .. N) : s = {} => g[s] = emptied)
    <3> HIDE DEF T, F
    <3> QED
      BY <2>1 DEF Folds
  <2>4. g = Step(g)
    <3> HIDE DEF T, F, sq
    <3> QED
      BY <2>2, <2>3
  <2> QED
    BY <2>4
<1>5. iter = Step(iter)
  <2> HIDE DEF Step
  <2> QED
    BY <1>4
<1> HIDE DEF iter
<1>6. \A i \in 0 .. N : i \in {n \in 0 .. N : iter[1 .. n] = MovedTo(p, n)}
  <2> DEFINE S == {n \in 0 .. N : iter[1 .. n] = MovedTo(p, n)}
  <2>1. 0 \in S
    <3>1. 1 .. 0 = {} /\ {} \in SUBSET (1 .. N)
      OBVIOUS
    <3>2. iter[{}] = emptied
      BY <3>1, <1>5
    <3> QED
      BY <3>1, <3>2, <1>0
  <2>2. ASSUME NEW i \in 1 .. N, i - 1 \in S PROVE i \in S
    <3>1. 1 .. i \in SUBSET (1 .. N) /\ 1 .. i # {} /\ Max(1 .. i) = i /\ (1 .. i) \ {i} = 1 .. (i - 1)
      BY <1>0, IntervalTop
    <3>2. iter[1 .. i] = MoveSlot(p, iter[(1 .. i) \ {Max(1 .. i)}], sq[Max(1 .. i)])
      BY <3>1, <1>5
    <3>3. iter[1 .. i] = MoveSlot(p, MovedTo(p, i - 1), i)
      BY <3>1, <3>2, <2>2
    <3> QED
      BY <3>3, SlotMoves
  <2> HIDE DEF S
  <2>3. \A i \in 0 .. N : i \in S
    BY <2>1, <2>2, <1>0, InductionUpTo
  <2> QED
    BY <2>3 DEF S
<1>7. iter[1 .. N] = MovedTo(p, N)
  BY <1>0, <1>6
<1> QED
  BY <1>1, <1>7

\* The items a side trades are those its consent names, but for those that left.
LEMMA TradedAre ==
  ASSUME TradeInv, NEW q \in Traders, Trading(q), NEW offer \in Offers, StillOffers(q, offer)
  PROVE  /\ TradedItems(q) = Names(offer.items) \intersect bag[q]
         /\ Names(offer.items) \ gone = TradedItems(q)
         /\ m_trade[q]._money = offer.money
<1> DEFINE mine == {m_trade[q]._items[s] : s \in 1 .. TradedSlots} \intersect bag[q]
<1>0. Types /\ BagsApart
  BY DEF TradeInv
<1>1. TradedItems(q) = mine
  BY <1>0, ItemsAre DEF TradedItems
<1> HIDE DEF mine
<1>2. /\ {<<i, stack[i]>> : i \in mine} = {x \in offer.items : x[1] \in bag[q]}
      /\ \A x \in offer.items : x[1] \in bag[q] \union gone
      /\ m_trade[q]._money = offer.money
  BY DEF StillOffers, Agrees, OfferOf, mine
<1>3. \A i : i \in mine <=> i \in Names(offer.items) /\ i \in bag[q]
  <2> TAKE i
  <2>1. ASSUME i \in mine PROVE i \in Names(offer.items) /\ i \in bag[q]
    <3>1. <<i, stack[i]>> \in {x \in offer.items : x[1] \in bag[q]}
      BY <2>1, <1>2
    <3> QED
      BY <3>1 DEF Names
  <2>2. ASSUME i \in Names(offer.items), i \in bag[q] PROVE i \in mine
    <3>1. PICK x \in offer.items : x[1] = i
      BY <2>2 DEF Names
    <3>2. x \in {<<j, stack[j]>> : j \in mine}
      BY <3>1, <2>2, <1>2
    <3> QED
      BY <3>1, <3>2
  <2> QED
    BY <2>1, <2>2
<1>4. \A i \in Names(offer.items) : i \in bag[q] \union gone
  BY <1>2 DEF Names
<1>5. bag[q] \intersect gone = {}
  BY <1>0 DEF BagsApart
<1> QED
  BY <1>1, <1>2, <1>3, <1>4, <1>5

\* What both have after an exchange.
LEMMA ExchangeIs ==
  ASSUME TradeInv, NEW p \in Traders, Trading(p), NEW v, NEW near, NEW castable,
         Completes(p, v, near, castable)
  PROVE  LET q == Partner(p)
         IN  /\ m_trade[q]._accepted /\ TradeEnds(p) /\ UNCHANGED <<stack, busy, gone>>
             /\ bag' \in [Traders -> SUBSET TradeItems]
             /\ bag'[p] = (bag[p] \ TradedItems(p)) \union TradedItems(q)
             /\ bag'[q] = (bag[q] \ TradedItems(q)) \union TradedItems(p)
             /\ TradedItems(p) \subseteq bag[p] /\ TradedItems(q) \subseteq bag[q]
             /\ \A r \in Traders \ {p, q} : bag'[r] = bag[r]
             /\ money' \in [Traders -> 0 .. MaxMoney]
             /\ money'[p] = money[p] - m_trade[p]._money + m_trade[q]._money
             /\ money'[q] = money[q] - m_trade[q]._money + m_trade[p]._money
<1> DEFINE q == Partner(p)
           emptied == [bag EXCEPT ![p] = @ \ TradedItems(p), ![q] = @ \ TradedItems(q)]
<1>0. /\ Types /\ q \in Traders /\ q # p /\ Trading(q) /\ Partner(q) = p
      /\ m_trade[p] \in TradeData /\ m_trade[q] \in TradeData
  BY Sides DEF TradeInv
<1>1. /\ TradedItems(p) \subseteq bag[p] /\ TradedItems(q) \subseteq bag[q]
      /\ bag[p] \in SUBSET TradeItems /\ bag[q] \in SUBSET TradeItems
  BY <1>0, ItemsAre DEF TradedItems, Types
<1>2. emptied = MovedTo(p, 0)
  <2>1. 1 .. 0 = {}
    OBVIOUS
  <2>2. ItemsIn(m_trade, p, 1 .. 0) = {} /\ ItemsIn(m_trade, q, 1 .. 0) = {}
    BY <2>1 DEF ItemsIn
  <2> QED
    BY <2>2, <1>0 DEF MovedTo, Types
<1>3. bag' = MovedTo(p, TradedSlots)
  <2>1. RoomForAll(p)
        /\ bag' = FoldLeft(LAMBDA bags, s : MoveSlot(p, bags, s), emptied,
                           [s \in 1 .. TradedSlots |-> s])
    BY DEF Completes
  <2> HIDE DEF emptied
  <2> QED
    BY <2>1, <1>2, AllSlotsMove
<1>4. /\ bag' \in [Traders -> SUBSET TradeItems]
      /\ bag'[p] = (bag[p] \ TradedItems(p)) \union TradedItems(q)
      /\ bag'[q] = (bag[q] \ TradedItems(q)) \union TradedItems(p)
      /\ \A r \in Traders \ {p, q} : bag'[r] = bag[r]
  <2> DEFINE a == (bag[p] \ TradedItems(p)) \union TradedItems(q)
             b == (bag[q] \ TradedItems(q)) \union TradedItems(p)
  <2>1. bag' = [bag EXCEPT ![p] = a, ![q] = b]
    BY <1>3 DEF MovedTo, TradedItems
  <2>2. a \in SUBSET TradeItems /\ b \in SUBSET TradeItems
    BY <1>1
  <2> HIDE DEF a, b
  <2>3. /\ bag' \in [Traders -> SUBSET TradeItems]
        /\ bag'[p] = a /\ bag'[q] = b
        /\ \A r \in Traders \ {p, q} : bag'[r] = bag[r]
    BY <2>1, <2>2, <1>0 DEF Types
  <2> QED
    BY <2>3 DEF a, b
<1>5. HasEnough(p) /\ HasEnough(q) /\ MayReceive(p) /\ MayReceive(q)
  <2>1. MoneyFails(p, q) = Nothing /\ p # Nothing /\ q # Nothing
    BY <1>0, NothingAssumption DEF Completes, BothAccept, AllChecks
  <2> QED
    BY <2>1 DEF MoneyFails
<1>6. /\ money' \in [Traders -> 0 .. MaxMoney]
      /\ money'[p] = money[p] - m_trade[p]._money + m_trade[q]._money
      /\ money'[q] = money[q] - m_trade[q]._money + m_trade[p]._money
  <2> DEFINE a == money[p]
             b == money[q]
             c == m_trade[p]._money
             d == m_trade[q]._money
  <2>1. /\ a \in 0 .. MaxMoney /\ b \in 0 .. MaxMoney /\ c \in 0 .. MaxMoney /\ d \in 0 .. MaxMoney
        /\ MaxMoney \in Nat
    BY <1>0, TradeAssumption DEF Types, TradeData
  <2>2. a >= c /\ b >= d /\ a <= MaxMoney - d /\ b <= MaxMoney - c
    BY <1>0, <1>5 DEF HasEnough, MayReceive
  <2>3. money' = [money EXCEPT ![p] = Received(Paid(a, c), d), ![q] = Received(Paid(b, d), c)]
    BY <1>0 DEF Completes, Types
  <2> HIDE DEF a, b, c, d
  <2>4. Paid(a, c) = a - c /\ Paid(b, d) = b - d
    BY <2>1, <2>2 DEF Paid
  <2>5. Received(a - c, d) = a - c + d /\ Received(b - d, c) = b - d + c
    BY <2>1, <2>2 DEF Received
  <2>6. a - c + d \in 0 .. MaxMoney /\ b - d + c \in 0 .. MaxMoney
    BY <2>1, <2>2
  <2>7. money' = [money EXCEPT ![p] = a - c + d, ![q] = b - d + c]
    BY <2>3, <2>4, <2>5
  <2>8. money' \in [Traders -> 0 .. MaxMoney] /\ money'[p] = a - c + d /\ money'[q] = b - d + c
    BY <2>6, <2>7, <1>0 DEF Types
  <2> QED
    BY <2>8 DEF a, b, c, d
<1> QED
  BY <1>1, <1>4, <1>6 DEF Completes, BothAccept

\* An exchange ends the trade, and keeps items in one bag each.
LEMMA CompletesStep ==
  ASSUME TradeInv, NEW p \in Traders, Trading(p), NEW v, NEW near, NEW castable,
         Completes(p, v, near, castable)
  PROVE  TradeInv'
<1> DEFINE q == Partner(p)
<1>0. BagsApart /\ q \in Traders /\ q # p
  BY Sides DEF TradeInv
<1>1. /\ TradeEnds(p) /\ UNCHANGED <<stack, busy, gone>>
      /\ bag' \in [Traders -> SUBSET TradeItems] /\ money' \in [Traders -> 0 .. MaxMoney]
      /\ bag'[p] \subseteq bag[p] \union bag[q] /\ bag'[q] \subseteq bag[p] \union bag[q]
      /\ \A r \in Traders \ {p, q} : bag'[r] = bag[r]
  BY ExchangeIs
<1>2. bag'[p] \intersect bag'[q] = {}
  BY <1>0, ExchangeIs DEF BagsApart
<1>3. BagsApart'
  <2>1. ASSUME NEW r \in Traders, NEW u \in Traders, r # u PROVE bag'[r] \intersect bag'[u] = {}
    <3>1. CASE r \in {p, q} /\ u \in {p, q}
      BY <2>1, <3>1, <1>2
    <3>2. CASE r \notin {p, q}
      BY <2>1, <3>2, <1>0, <1>1 DEF BagsApart
    <3>3. CASE u \notin {p, q}
      BY <2>1, <3>3, <1>0, <1>1 DEF BagsApart
    <3> QED
      BY <3>1, <3>2, <3>3
  <2>2. \A r \in Traders : bag'[r] \intersect gone' = {}
    BY <1>0, <1>1 DEF BagsApart
  <2> QED
    BY <2>1, <2>2 DEF BagsApart
<1> QED
  BY <1>1, <1>3, EndsStep

-----------------------------------------------------------------------------
(* The handlers. *)

\* A change of p's money, or of its spell, is valid.
LEMMA OtherChangeIsValid ==
  ASSUME TradeInv, NEW p \in Traders, Trading(p), NEW t,
         \/ \E amount \in 0 .. MaxMoney : t = [Changed(m_trade, p) EXCEPT ![p]._money = amount]
         \/ t = [Changed(m_trade, p) EXCEPT ![p]._spell = TRUE]
  PROVE  ValidChange(t, p, Partner(p))
<1> DEFINE q == Partner(p)
           c == Changed(m_trade, p)
<1>0. /\ Types /\ SlotsDistinct /\ q \in Traders /\ q # p /\ Trading(q)
      /\ m_trade[p] \in TradeData /\ m_trade[q] \in TradeData
      /\ m_trade[p]._trader = q /\ m_trade[q]._trader = p
  BY Sides DEF TradeInv
<1>1. /\ Later(m_trade, c, p, q) /\ c[p]._serverStateIndex > m_trade[p]._serverStateIndex
      /\ c[q]._serverStateIndex = m_trade[q]._serverStateIndex
      /\ ~c[p]._accepted /\ ~c[q]._accepted
  BY <1>0, ChangedIs DEF Types
<1> HIDE DEF c
<1>2. \/ \E amount \in 0 .. MaxMoney : t = [c EXCEPT ![p]._money = amount]
      \/ t = [c EXCEPT ![p]._spell = TRUE]
  BY DEF c
<1>3. /\ t \in [Traders -> TradeData \union {Nothing}] /\ \A r \in Traders \ {p} : t[r] = c[r]
      /\ t[p] \in TradeData /\ t[p]._trader = c[p]._trader /\ t[p]._accepted = c[p]._accepted
      /\ t[p]._items = c[p]._items /\ t[p]._serverStateIndex = c[p]._serverStateIndex
  <2>1. CASE \E amount \in 0 .. MaxMoney : t = [c EXCEPT ![p]._money = amount]
    <3>1. PICK amount \in 0 .. MaxMoney : t = [c EXCEPT ![p]._money = amount]
      BY <2>1
    <3>2. [c[p] EXCEPT !._money = amount] \in TradeData
      BY <1>1 DEF Later, TradeData
    <3> QED
      BY <3>1, <3>2, <1>1 DEF Later, TradeData
  <2>2. CASE t = [c EXCEPT ![p]._spell = TRUE]
    <3>1. [c[p] EXCEPT !._spell = TRUE] \in TradeData
      BY <1>1 DEF Later, TradeData
    <3> QED
      BY <3>1, <2>2, <1>1 DEF Later, TradeData
  <2> QED
    BY <2>1, <2>2, <1>2
<1>4. DistinctIn(m_trade[p]._items) /\ DistinctIn(m_trade[q]._items)
  BY <1>0 DEF SlotsDistinct
<1> QED
  BY <1>0, <1>1, <1>3, <1>4 DEF ValidChange, Later

\* The changes a player makes to its offer.
LEMMA OfferStep ==
  ASSUME TradeInv, NEW p \in Traders,
         \/ \E amount \in 0 .. MaxMoney : SetTradeGold(p, amount)
         \/ \E s \in TradeSlots : ClearTradeItem(p, s) \/ \E i \in TradeItems : SetTradeItem(p, s, i)
         \/ CastOnTrade(p)
  PROVE  TradeInv'
<1>0. Types /\ Trading(p) /\ stack \in [TradeItems -> {1, 2}]
  BY DEF TradeInv, Types, SetTradeGold, SetTradeItem, ClearTradeItem, CastOnTrade, CanChange
<1>1. \E t : ValidChange(t, p, Partner(p)) /\ Store(t, p, stack)
  <2>1. CASE \E amount \in 0 .. MaxMoney : SetTradeGold(p, amount)
    BY <2>1, <1>0, OtherChangeIsValid DEF SetTradeGold
  <2>2. CASE CastOnTrade(p)
    BY <2>2, <1>0, OtherChangeIsValid DEF CastOnTrade
  <2>3. ASSUME NEW s \in TradeSlots, ClearTradeItem(p, s)
        PROVE  ValidChange(ItemSet(p, s, Nothing), p, Partner(p)) /\ Store(ItemSet(p, s, Nothing), p, stack)
    BY <2>3, <1>0, ItemSetIsValid DEF ClearTradeItem
  <2>4. ASSUME NEW s \in TradeSlots, NEW i \in TradeItems, SetTradeItem(p, s, i)
        PROVE  ValidChange(ItemSet(p, s, i), p, Partner(p)) /\ Store(ItemSet(p, s, i), p, stack)
    BY <2>4, <1>0, ItemSetIsValid DEF SetTradeItem, HasItem
  <2> QED
    BY <2>1, <2>2, <2>3, <2>4
<1>2. UNCHANGED goodsVars
  BY DEF SetTradeGold, SetTradeItem, ClearTradeItem, CastOnTrade
<1> QED
  BY <1>0, <1>1, <1>2, StoreStep DEF goodsVars

\* The handlers that set flags only, with what they set.
LEMMA FlagsSet ==
  ASSUME TradeInv, NEW p \in Traders, Trading(p), NEW t, NEW b \in BOOLEAN, NEW c \in BOOLEAN,
         \/ t = [m_trade EXCEPT ![p]._accepted = b] /\ c = m_trade[Partner(p)]._accepted
         \/ t = [[m_trade EXCEPT ![p]._accepted = b] EXCEPT ![Partner(p)]._accepted = c]
  PROVE  Flagged(t, p, Partner(p)) /\ t[p]._accepted = b /\ t[Partner(p)]._accepted = c
<1> DEFINE q == Partner(p)
           mine == [m_trade[p] EXCEPT !._accepted = b]
           his == [m_trade[q] EXCEPT !._accepted = c]
<1>0. /\ Types /\ q \in Traders /\ q # p
      /\ m_trade[p] \in TradeData /\ m_trade[q] \in TradeData
  BY Sides DEF TradeInv
<1>1. /\ mine \in TradeData /\ mine._trader = m_trade[p]._trader /\ mine._money = m_trade[p]._money
      /\ mine._items = m_trade[p]._items /\ mine._accepted = b
      /\ mine._serverStateIndex = m_trade[p]._serverStateIndex
  BY <1>0, FlagIs
<1>2. /\ his \in TradeData /\ his._trader = m_trade[q]._trader /\ his._money = m_trade[q]._money
      /\ his._items = m_trade[q]._items /\ his._accepted = c
      /\ his._serverStateIndex = m_trade[q]._serverStateIndex
  BY <1>0, FlagIs
<1>3. \/ t = [m_trade EXCEPT ![p] = mine] /\ c = m_trade[q]._accepted
      \/ t = [[m_trade EXCEPT ![p] = mine] EXCEPT ![q] = his]
  BY <1>0
<1> HIDE DEF mine, his
<1>4. CASE t = [m_trade EXCEPT ![p] = mine] /\ c = m_trade[q]._accepted
  BY <1>0, <1>1, <1>4 DEF Flagged, Types
<1>5. CASE t = [[m_trade EXCEPT ![p] = mine] EXCEPT ![q] = his]
  BY <1>0, <1>1, <1>2, <1>5 DEF Flagged, Types
<1> QED
  BY <1>3, <1>4, <1>5

\* An acceptance is undone, by the player or by the server.
LEMMA UnacceptStep ==
  ASSUME TradeInv, NEW p \in Traders, Trading(p), UNCHANGED <<goodsVars, shown>>,
         \/ /\ m_trade' = Unaccepted(m_trade, p)
            /\ consent' = [consent EXCEPT ![p] = Nothing]
         \/ /\ m_trade' = Unaccepted(Unaccepted(m_trade, p), Partner(p))
            /\ consent' = [consent EXCEPT ![p] = Nothing, ![Partner(p)] = Nothing]
  PROVE  TradeInv'
<1> DEFINE q == Partner(p)
<1>0. /\ Types /\ q \in Traders /\ q # p /\ m_trade[q] \in TradeData
      /\ m_trade[q]._accepted \in BOOLEAN
  BY Sides DEF TradeInv, TradeData
<1>1. /\ Flagged(m_trade', p, q) /\ ~m_trade'[p]._accepted
      /\ m_trade'[q]._accepted => m_trade[q]._accepted /\ consent'[q] = consent[q]
  <2>1. CASE /\ m_trade' = Unaccepted(m_trade, p)
             /\ consent' = [consent EXCEPT ![p] = Nothing]
    <3>1. Flagged(m_trade', p, q) /\ m_trade'[p]._accepted = FALSE
          /\ m_trade'[q]._accepted = m_trade[q]._accepted
      BY <2>1, <1>0, FlagsSet DEF Unaccepted
    <3> QED
      BY <3>1, <2>1, <1>0 DEF Types
  <2>2. CASE /\ m_trade' = Unaccepted(Unaccepted(m_trade, p), q)
             /\ consent' = [consent EXCEPT ![p] = Nothing, ![q] = Nothing]
    <3>1. Flagged(m_trade', p, q) /\ m_trade'[p]._accepted = FALSE
          /\ m_trade'[q]._accepted = FALSE
      BY <2>2, <1>0, FlagsSet DEF Unaccepted
    <3> QED
      BY <3>1
  <2> QED
    BY <2>1, <2>2
<1>2. consent' \in [Traders -> Deals \union {Nothing}]
      /\ \A r \in Traders \ {p, q} : consent'[r] = consent[r]
  BY <1>0 DEF Types
<1> QED
  BY <1>1, <1>2, FlagStep DEF Consents

\* An acceptance is set, for an offer with the index of now; that of the partner
\* stands or is undone.
LEMMA AcceptStep ==
  ASSUME TradeInv, NEW p \in Traders, Trading(p), UNCHANGED <<goodsVars, shown>>,
         NEW v \in shown[p], CurrentIndex(p, v),
         \/ /\ m_trade' = Accepted(p)
            /\ consent' = [consent EXCEPT ![p] = Deal(p, v)]
         \/ /\ m_trade' = Unaccepted(Accepted(p), Partner(p))
            /\ consent' = [consent EXCEPT ![p] = Deal(p, v), ![Partner(p)] = Nothing]
  PROVE  TradeInv'
<1> DEFINE q == Partner(p)
<1>0. /\ Types /\ q \in Traders /\ q # p /\ m_trade[q] \in TradeData
      /\ m_trade[q]._accepted \in BOOLEAN /\ Deal(p, v) \in Deals
  BY Sides, DealType DEF TradeInv, TradeData
<1>1. /\ Flagged(m_trade', p, q) /\ consent'[p] = Deal(p, v)
      /\ m_trade'[q]._accepted => m_trade[q]._accepted /\ consent'[q] = consent[q]
  <2>1. CASE /\ m_trade' = Accepted(p)
             /\ consent' = [consent EXCEPT ![p] = Deal(p, v)]
    <3>1. Flagged(m_trade', p, q) /\ m_trade'[q]._accepted = m_trade[q]._accepted
      BY <2>1, <1>0, FlagsSet DEF Accepted
    <3> QED
      BY <3>1, <2>1, <1>0 DEF Types
  <2>2. CASE /\ m_trade' = Unaccepted(Accepted(p), q)
             /\ consent' = [consent EXCEPT ![p] = Deal(p, v), ![q] = Nothing]
    <3>1. Flagged(m_trade', p, q) /\ m_trade'[q]._accepted = FALSE
      BY <2>2, <1>0, FlagsSet DEF Accepted, Unaccepted
    <3> QED
      BY <3>1, <2>2, <1>0 DEF Types
  <2> QED
    BY <2>1, <2>2
<1>2. consent' \in [Traders -> Deals \union {Nothing}]
      /\ \A r \in Traders \ {p, q} : consent'[r] = consent[r]
  BY <1>0 DEF Types
<1>3. Consents(p)
  BY <1>1 DEF Consents
<1>4. m_trade'[q]._accepted => Consents(q)
  BY <1>1 DEF Consents
<1> QED
  BY <1>1, <1>2, <1>3, <1>4, FlagStep

\* A spell that cannot be cast is a change of its caster's offer.
LEMMA SpellFailsStep ==
  ASSUME TradeInv, NEW p \in Traders, Trading(p), NEW v, NEW near, NEW castable,
         SpellFails(p, v, near, castable)
  PROVE  TradeInv'
<1> DEFINE q == Partner(p)
           a == Accepted(p)
<1>0. /\ Types /\ SlotsDistinct /\ q \in Traders /\ q # p /\ Trading(q) /\ Partner(q) = p
      /\ m_trade[p] \in TradeData /\ m_trade[q] \in TradeData
      /\ m_trade[p]._trader = q /\ m_trade[q]._trader = p
      /\ UNCHANGED goodsVars /\ stack \in [TradeItems -> {1, 2}]
      /\ m_trade[q]._accepted \in BOOLEAN
  BY Sides DEF TradeInv, SpellFails, Types, TradeData
<1>1. PICK caster \in {p, q} :
        ~SpellReady(caster, castable) /\ Store(NoSpell(a, caster), caster, stack)
  BY DEF SpellFails
<1> DEFINE other == Partner(caster)
<1>2. /\ caster \in Traders /\ other \in Traders /\ caster # other /\ Trading(caster)
      /\ {caster, other} = {p, q}
      /\ m_trade[caster] \in TradeData /\ m_trade[other] \in TradeData
      /\ m_trade[caster]._trader = other /\ m_trade[other]._trader = caster
  BY <1>0, <1>1
<1>3. m_trade[caster]._spell
  BY <1>1 DEF SpellReady
<1>4. Flagged(a, p, q) /\ a[caster]._spell
  <2>1. Flagged(a, p, q)
    BY <1>0, FlagsSet DEF Accepted
  <2>2. a = [m_trade EXCEPT ![p] = [m_trade[p] EXCEPT !._accepted = TRUE]]
    BY <1>0 DEF Accepted, Types
  <2>3. [m_trade[p] EXCEPT !._accepted = TRUE]._spell = m_trade[p]._spell
    BY <1>0, FlagIs
  <2>4. a[caster]._spell = m_trade[caster]._spell
    BY <2>2, <2>3, <1>0, <1>1 DEF Types
  <2> QED
    BY <2>1, <2>4, <1>3
<1> HIDE DEF a, other
<1>5. /\ a \in [Traders -> TradeData \union {Nothing}]
      /\ a[caster] \in TradeData /\ a[other] \in TradeData
      /\ \A r \in {caster, other} :
           /\ a[r]._trader = m_trade[r]._trader /\ a[r]._money = m_trade[r]._money
           /\ a[r]._items = m_trade[r]._items
           /\ a[r]._serverStateIndex = m_trade[r]._serverStateIndex
      /\ \A r \in Traders \ {caster, other} : a[r] = m_trade[r]
  BY <1>2, <1>4 DEF Flagged
<1>6. /\ Later(a, NoSpell(a, caster), caster, other)
      /\ NoSpell(a, caster)[caster]._serverStateIndex > a[caster]._serverStateIndex
      /\ ~NoSpell(a, caster)[caster]._accepted /\ ~NoSpell(a, caster)[other]._accepted
  BY <1>2, <1>4, <1>5, NoSpellIs DEF other
<1> DEFINE t == NoSpell(a, caster)
<1> HIDE DEF t
<1>7. DistinctIn(m_trade[caster]._items) /\ DistinctIn(m_trade[other]._items)
  BY <1>0, <1>2, NothingAssumption DEF SlotsDistinct, Trading
<1>8. ValidChange(t, caster, other)
  <2>1. /\ t \in [Traders -> TradeData \union {Nothing}]
        /\ \A r \in Traders \ {caster, other} : t[r] = m_trade[r]
    BY <1>5, <1>6 DEF Later, t
  <2>2. /\ t[caster] \in TradeData /\ t[caster]._trader = other /\ ~t[caster]._accepted
        /\ t[caster]._items = m_trade[caster]._items
        /\ t[caster]._serverStateIndex > m_trade[caster]._serverStateIndex
    BY <1>2, <1>5, <1>6 DEF Later, t
  <2>3. /\ t[other] \in TradeData /\ t[other]._trader = caster /\ ~t[other]._accepted
        /\ t[other]._items = m_trade[other]._items /\ t[other]._money = m_trade[other]._money
        /\ t[other]._serverStateIndex >= m_trade[other]._serverStateIndex
    BY <1>2, <1>5, <1>6 DEF Later, t
  <2>4. t[other]._serverStateIndex \in Nat /\ m_trade[other]._serverStateIndex \in Nat
    BY <1>2, <2>3 DEF TradeData
  <2> QED
    BY <2>1, <2>2, <2>3, <2>4, <1>7 DEF ValidChange
<1> QED
  BY <1>0, <1>1, <1>2, <1>8, StoreStep DEF goodsVars, t, a, other

\* The handler of the acceptance.
LEMMA AcceptTradeStep ==
  ASSUME TradeInv, NEW p \in Traders, HandleAcceptTrade(p)
  PROVE  TradeInv'
<1>0. Trading(p) /\ Partner(p) \in Traders
  BY Sides DEF HandleAcceptTrade
<1>1. PICK v \in shown[p], near \in BOOLEAN, castable \in BOOLEAN :
        \/ AcceptIsUndone(p, v, near) \/ PartnerIsUndone(p, v, near)
        \/ ItemsRefused(p, v, near) \/ WaitsForPartner(p, v, near)
        \/ SpellFails(p, v, near, castable) \/ NoRoom(p, v, near, castable)
        \/ Completes(p, v, near, castable)
  BY DEF HandleAcceptTrade
<1>2. CASE AcceptIsUndone(p, v, near)
  BY <1>0, <1>2, UnacceptStep DEF AcceptIsUndone
<1>3. CASE PartnerIsUndone(p, v, near)
  BY <1>0, <1>3, AcceptStep DEF PartnerIsUndone, Shown
<1>4. CASE ItemsRefused(p, v, near)
  BY <1>0, <1>4, AcceptStep DEF ItemsRefused, Shown
<1>5. CASE WaitsForPartner(p, v, near)
  BY <1>0, <1>5, AcceptStep DEF WaitsForPartner, AllChecks, Shown
<1>6. CASE SpellFails(p, v, near, castable)
  BY <1>0, <1>6, SpellFailsStep
<1>7. CASE NoRoom(p, v, near, castable)
  BY <1>0, <1>7, UnacceptStep DEF NoRoom
<1>8. CASE Completes(p, v, near, castable)
  BY <1>0, <1>8, CompletesStep
<1> QED
  BY <1>1, <1>2, <1>3, <1>4, <1>5, <1>6, <1>7, <1>8

-----------------------------------------------------------------------------
(* What happens to the goods beside the trade. *)

\* The count of an item drops.
LEMMA CountStep ==
  ASSUME TradeInv, NEW p \in Traders, NEW i \in TradeItems, ItemCountDrops(p, i)
  PROVE  TradeInv'
<1>0. /\ Types /\ BagsApart /\ SlotsDistinct /\ i \in bag[p] /\ stack' = [stack EXCEPT ![i] = 1]
      /\ stack' \in [TradeItems -> {1, 2}] /\ UNCHANGED <<bag, money, busy, spent, gone>>
  BY DEF TradeInv, Types, ItemCountDrops
<1>1. CASE Trading(p) /\ HasItem(p, i)
  <2> DEFINE s == CHOOSE s \in TradeSlots : m_trade[p]._items[s] = i
  <2>1. s \in TradeSlots /\ m_trade[p]._items[s] = i
    BY <1>1 DEF HasItem
  <2>2. Store(ItemSet(p, s, i), p, stack')
    BY <1>1 DEF ItemCountDrops
  <2> HIDE DEF s
  <2>3. \A u \in TradeSlots \ {s} : m_trade[p]._items[u] = i => i = Nothing
    BY <2>1, <1>0, <1>1 DEF SlotsDistinct, DistinctIn
  <2>4. ValidChange(ItemSet(p, s, i), p, Partner(p))
    BY <2>1, <2>3, <1>1, ItemSetIsValid
  <2>5. \A j \in TradeItems \ bag[p] : stack'[j] = stack[j]
    BY <1>0 DEF Types
  <2> QED
    BY <2>2, <2>4, <2>5, <1>0, <1>1, StoreStep
<1>2. CASE ~(Trading(p) /\ HasItem(p, i))
  <2>1. UNCHANGED <<m_trade, shown, consent>>
    BY <1>2 DEF ItemCountDrops
  <2>2. ASSUME NEW r \in Traders, Trading(r), NEW s \in 1 .. TradedSlots,
               m_trade[r]._items[s] \in bag'[r]
        PROVE  stack'[m_trade[r]._items[s]] = stack[m_trade[r]._items[s]]
    <3>1. m_trade[r]._items[s] \in bag[r] /\ bag[r] \subseteq TradeItems
      BY <2>2, <1>0 DEF Types
    <3>2. m_trade[r]._items[s] # i
      <4>1. CASE r = p
        BY <4>1, <2>2, <1>2, TradeAssumption DEF HasItem, TradeSlots
      <4>2. CASE r # p
        BY <4>2, <3>1, <1>0 DEF BagsApart
      <4> QED
        BY <4>1, <4>2
    <3> QED
      BY <3>1, <3>2, <1>0 DEF Types
  <2>3. Types'
    BY <2>1, <1>0 DEF Types
  <2>4. \A r \in Traders : bag'[r] \intersect gone' = {}
    BY <1>0 DEF BagsApart
  <2> QED
    BY <2>1, <2>2, <2>3, <2>4, <1>0, GoodsStep
<1> QED
  BY <1>1, <1>2

\* An item goes, its loot window opens or closes, money is spent.
LEMMA ElsewhereStep ==
  ASSUME TradeInv,
         \/ \E p \in Traders, i \in TradeItems : ItemGoes(p, i)
         \/ \E i \in TradeItems : ItemBusy(i)
         \/ \E p \in Traders : SpendMoney(p)
  PROVE  TradeInv'
<1>0. Types /\ BagsApart
  BY DEF TradeInv
<1>1. ASSUME NEW p \in Traders, NEW i \in TradeItems, ItemGoes(p, i) PROVE TradeInv'
  <2>1. /\ i \in bag[p] /\ bag' = [bag EXCEPT ![p] = @ \ {i}] /\ gone' = gone \union {i}
        /\ UNCHANGED <<m_trade, money, stack, busy, spent, shown, consent>>
    BY <1>1 DEF ItemGoes
  <2>2. Types'
    BY <2>1, <1>0 DEF Types
  <2>3. \A r \in Traders : bag'[r] \subseteq bag[r] /\ bag[r] \ bag'[r] \subseteq gone'
    BY <2>1, <1>0 DEF Types
  <2>4. \A r \in Traders : bag'[r] \intersect gone' = {}
    BY <2>1, <1>0 DEF Types, BagsApart
  <2> QED
    BY <2>1, <2>2, <2>3, <2>4, GoodsStep
<1>2. ASSUME NEW i \in TradeItems, ItemBusy(i) PROVE TradeInv'
  <2>1. /\ Types'
        /\ UNCHANGED <<m_trade, bag, money, stack, spent, gone, shown, consent>>
    BY <1>0, <1>2 DEF Types, ItemBusy
  <2>2. \A r \in Traders : bag'[r] \intersect gone' = {}
    BY <2>1, <1>0 DEF BagsApart
  <2> QED
    BY <2>1, <2>2, GoodsStep
<1>3. ASSUME NEW p \in Traders, SpendMoney(p) PROVE TradeInv'
  <2>1. /\ Types'
        /\ UNCHANGED <<m_trade, bag, stack, busy, gone, shown, consent>>
    <3>1. money[p] - 1 \in 0 .. MaxMoney
      BY <1>0, <1>3, TradeAssumption DEF Types, SpendMoney
    <3> QED
      BY <3>1, <1>0, <1>3 DEF Types, SpendMoney
  <2>2. \A r \in Traders : bag'[r] \intersect gone' = {}
    BY <2>1, <1>0 DEF BagsApart
  <2> QED
    BY <2>1, <2>2, GoodsStep
<1> QED
  BY <1>1, <1>2, <1>3

-----------------------------------------------------------------------------
(* The theorems. *)

\* No trade, no view and no consent at first.
LEMMA TradeInitInv ==
  ASSUME TradeInit
  PROVE  TradeInv
<1>1. Types
  BY TradeAssumption DEF TradeInit, Types
<1>2. BagsApart
  BY TradeAssumption DEF TradeInit, BagsApart
<1>3. \A p \in Traders : ~Trading(p)
  BY DEF TradeInit, Trading
<1> QED
  BY <1>1, <1>2, <1>3 DEF TradeInv, Mutual, SlotsDistinct, ViewsCurrent, ConsentCurrent

\* Every step keeps the invariant.
LEMMA TradeNextInv ==
  ASSUME TradeInv, TradeNext
  PROVE  TradeInv'
<1>1. ASSUME NEW p \in Traders, NEW q \in Traders, InitiateTrade(p, q) PROVE TradeInv'
  BY <1>1, InitiateStep
<1>2. ASSUME NEW p \in Traders, CancelTrade(p) PROVE TradeInv'
  <2>1. /\ Trading(p) /\ TradeEnds(p) /\ UNCHANGED <<bag, money, stack, busy, gone>>
        /\ Types /\ BagsApart
    BY <1>2 DEF CancelTrade, goodsVars, TradeInv
  <2>2. BagsApart'
    BY <2>1 DEF BagsApart
  <2> QED
    BY <2>1, <2>2, EndsStep DEF Types
<1>3. ASSUME NEW p \in Traders, UnacceptTrade(p) PROVE TradeInv'
  BY <1>3, UnacceptStep DEF UnacceptTrade
<1>4. ASSUME NEW p \in Traders,
             \/ \E amount \in 0 .. MaxMoney : SetTradeGold(p, amount)
             \/ \E s \in TradeSlots :
                  ClearTradeItem(p, s) \/ \E i \in TradeItems : SetTradeItem(p, s, i)
             \/ CastOnTrade(p)
      PROVE  TradeInv'
  BY <1>4, OfferStep
<1>5. ASSUME NEW p \in Traders, HandleAcceptTrade(p) PROVE TradeInv'
  BY <1>5, AcceptTradeStep
<1>6. ASSUME NEW p \in Traders, NEW i \in TradeItems, ItemCountDrops(p, i) PROVE TradeInv'
  BY <1>6, CountStep
<1>7. ASSUME NEW p \in Traders, SpendMoney(p) \/ \E i \in TradeItems : ItemGoes(p, i)
      PROVE  TradeInv'
  BY <1>7, ElsewhereStep
<1>8. ASSUME NEW i \in TradeItems, ItemBusy(i) PROVE TradeInv'
  BY <1>8, ElsewhereStep
<1> QED
  BY <1>1, <1>2, <1>3, <1>4, <1>5, <1>6, <1>7, <1>8 DEF TradeNext

\* Doing nothing keeps it.
LEMMA TradeStutterInv ==
  ASSUME TradeInv, UNCHANGED tradeVars
  PROVE  TradeInv'
BY DEF TradeInv, tradeVars, goodsVars, Types, Mutual, BagsApart, SlotsDistinct, ViewsCurrent,
       ConsentCurrent, StillOffers, Trading, Partner

\* The invariant of the trade: HandleInitiateTradeOpcode, the changes of an
\* offer, HandleAcceptTradeOpcode and TradeCancel all keep it.
THEOREM TradeInvariant == TradeSpec => []TradeInv
<1>1. TradeInit => TradeInv
  BY TradeInitInv
<1>2. TradeInv /\ [TradeNext]_tradeVars => TradeInv'
  BY TradeNextInv, TradeStutterInv
<1> QED
  BY <1>1, <1>2, PTL DEF TradeSpec

\* The invariant says what the types say of an offer.
LEMMA TradeInvTypes == TradeInv => TradeTypeOK
<1> SUFFICES ASSUME TradeInv PROVE TradeTypeOK
  OBVIOUS
<1>1. \A p \in Traders : Trading(p) => m_trade[p] \in TradeData
  BY DEF TradeInv, Types, Trading
<1> QED
  BY <1>1 DEF TradeInv, Types, SlotsDistinct, DistinctIn, ViewsCurrent, TradeTypeOK, TradeData

\* Types: no item is in two slots of an offer, and no client was shown an index
\* that its partner's side does not have yet.
THEOREM TradeTypes == TradeSpec => []TradeTypeOK
BY TradeInvTypes, TradeInvariant, PTL

\* Either both sides of a trade exist or neither: GetTraderData() never misses.
THEOREM TradesAreMutual == TradeSpec => []TradesMutual
<1>1. TradeInv => TradesMutual
  BY DEF TradeInv, Mutual, TradesMutual
<1> QED
  BY <1>1, TradeInvariant, PTL

\* An acceptance that counts is to what both sides offer now, by the check of
\* the state index and because every change undoes it.
THEOREM AcceptedIsSeen == TradeSpec => []AcceptedAsSeen
<1>1. TradeInv => AcceptedAsSeen
  <2> SUFFICES ASSUME TradeInv, NEW p \in Traders, Trading(p), m_trade[p]._accepted
               PROVE  /\ consent[p] # Nothing
                      /\ Offer(m_trade, p, stack) = Remaining(consent[p].gives, p)
                      /\ Offer(m_trade, Partner(p), stack) = Remaining(consent[p].gets, Partner(p))
    BY DEF AcceptedAsSeen
  <2>1. /\ Types /\ Partner(p) \in Traders /\ Trading(Partner(p)) /\ consent[p] # Nothing
        /\ StillOffers(p, consent[p].gives) /\ StillOffers(Partner(p), consent[p].gets)
    BY Sides DEF TradeInv, ConsentCurrent
  <2>2. consent[p].gives \in Offers /\ consent[p].gets \in Offers
    BY <2>1 DEF Types, Deals
  <2> QED
    BY <2>1, <2>2, AgreesMeans
<1> QED
  BY <1>1, TradeInvariant, PTL

\* The exchange is the one the partner of the player who completes it agreed to.
LEMMA CompletesAsAgreed ==
  ASSUME TradeInv, NEW p \in Traders, Trading(p), NEW v, NEW near, NEW castable,
         Completes(p, v, near, castable)
  PROVE  LET q == Partner(p)
         IN  m_trade[q]._accepted /\ ExchangedAs(consent[q], q, p)
<1> DEFINE q == Partner(p)
           gives == consent[q].gives
           gets == consent[q].gets
<1>0. /\ Types /\ BagsApart /\ q \in Traders /\ q # p /\ Trading(q) /\ Partner(q) = p
      /\ m_trade[p] \in TradeData /\ m_trade[q] \in TradeData /\ m_trade[q]._accepted
  BY Sides, ExchangeIs DEF TradeInv
<1>1. /\ consent[q] \in Deals /\ gives \in Offers /\ gets \in Offers
      /\ StillOffers(q, gives) /\ StillOffers(p, gets)
  BY <1>0 DEF TradeInv, Types, ConsentCurrent, Deals
<1>2. /\ TradedItems(q) = Names(gives.items) \intersect bag[q]
      /\ Names(gives.items) \ gone = TradedItems(q) /\ m_trade[q]._money = gives.money
  BY <1>0, <1>1, TradedAre
<1>3. /\ TradedItems(p) = Names(gets.items) \intersect bag[p]
      /\ Names(gets.items) \ gone = TradedItems(p) /\ m_trade[p]._money = gets.money
  BY <1>0, <1>1, TradedAre
<1>4. /\ bag'[p] = (bag[p] \ TradedItems(p)) \union TradedItems(q)
      /\ bag'[q] = (bag[q] \ TradedItems(q)) \union TradedItems(p)
      /\ money'[p] = money[p] - m_trade[p]._money + m_trade[q]._money
      /\ money'[q] = money[q] - m_trade[q]._money + m_trade[p]._money
  BY ExchangeIs
<1>5. /\ bag'[q] = (bag[q] \ Names(gives.items)) \union (Names(gets.items) \ gone)
      /\ bag'[p] = (bag[p] \ Names(gets.items)) \union (Names(gives.items) \ gone)
  BY <1>2, <1>3, <1>4
<1>6. /\ money'[q] = money[q] - gives.money + gets.money
      /\ money'[p] = money[p] + gives.money - gets.money
  <2>1. /\ money[p] \in Int /\ money[q] \in Int /\ gives.money \in Int /\ gets.money \in Int
    BY <1>0, <1>1 DEF Types, Offers
  <2> QED
    BY <2>1, <1>2, <1>3, <1>4
<1> QED
  BY <1>0, <1>5, <1>6 DEF ExchangedAs

\* A trade that ends changes nothing, or exchanges what a player who accepted it
\* before was shown: every item and coin of it, whatever the bags hold.
THEOREM ExchangedAsAgreed == TradeSpec => ExchangeAsAgreed
<1> DEFINE Exchanged ==
      \A p \in Traders :
        Trading(p) /\ m_trade'[p] = Nothing /\ <<bag, money>>' # <<bag, money>> =>
          \E q \in {p, Partner(p)} :
            m_trade[q]._accepted /\ ExchangedAs(consent[q], q, Partner(q))
<1>1. TradeInv /\ [TradeNext]_tradeVars => Exchanged
  <2> SUFFICES ASSUME TradeInv, [TradeNext]_tradeVars, NEW p \in Traders, Trading(p),
                      m_trade'[p] = Nothing, <<bag, money>>' # <<bag, money>>
               PROVE  \E q \in {p, Partner(p)} :
                        m_trade[q]._accepted /\ ExchangedAs(consent[q], q, Partner(q))
    OBVIOUS
  <2>1. m_trade' # m_trade /\ ~UNCHANGED goodsVars /\ ~UNCHANGED <<bag, money, busy, spent, gone>>
    BY DEF Trading, goodsVars
  <2>2. PICK r \in Traders : HandleAcceptTrade(r)
    BY <2>1 DEF TradeNext, tradeVars, InitiateTrade, CancelTrade, UnacceptTrade, SetTradeGold,
         ClearTradeItem, SetTradeItem, CastOnTrade, SpendMoney, ItemCountDrops, ItemGoes, ItemBusy
  <2>3. PICK v \in shown[r], near \in BOOLEAN, castable \in BOOLEAN : Completes(r, v, near, castable)
    BY <2>1, <2>2 DEF HandleAcceptTrade, AcceptIsUndone, PartnerIsUndone, ItemsRefused,
         WaitsForPartner, SpellFails, NoRoom
  <2>4. /\ Trading(r) /\ Partner(r) \in Traders /\ Partner(Partner(r)) = r
        /\ m_trade[Partner(r)]._accepted /\ ExchangedAs(consent[Partner(r)], Partner(r), r)
        /\ TradeEnds(r)
    BY <2>2, <2>3, Sides, CompletesAsAgreed DEF HandleAcceptTrade, Completes
  <2>5. p \in {r, Partner(r)}
    BY <2>4 DEF TradeEnds, BothDeleted, Trading, TradeInv, Types
  <2> QED
    BY <2>4, <2>5
<1>2. TradeInv /\ [TradeNext]_tradeVars => [Exchanged]_tradeVars
  BY <1>1
<1> HIDE DEF Exchanged
<1>3. TradeSpec => [][Exchanged]_tradeVars
  BY <1>2, TradeInvariant, PTL DEF TradeSpec
<1> QED
  BY <1>3 DEF Exchanged, ExchangeAsAgreed

-----------------------------------------------------------------------------
(* Conservation.  BagsApart says that no item is doubled; that none is lost
   needs the other half, which every step keeps by itself. *)

\* Every item is in the bag of one player, or left the game and is in none.
ItemsConserved ==
  \A i \in TradeItems :
    /\ (i \in gone) # (\E p \in Traders : i \in bag[p])
    /\ \A p, q \in Traders : i \in bag[p] /\ i \in bag[q] => p = q

NoItemLost == \A i \in TradeItems : i \in gone \/ \E p \in Traders : i \in bag[p]

\* A step leaves all money where it is, spends a coin of one player, or moves
\* coins between two.
Settled(p, q) ==
  /\ money'[p] + money'[q] = money[p] + money[q]
  /\ \A r \in Traders \ {p, q} : money'[r] = money[r]

MoneyConserved ==
  \/ UNCHANGED <<money, spent>>
  \/ \E p \in Traders :
       /\ money' = [money EXCEPT ![p] = money[p] - 1] /\ spent' = spent + 1
  \/ \E p, q \in Traders : p # q /\ Settled(p, q) /\ UNCHANGED spent

\* Only the exchange, the use of an item and the purchase of something else
\* move goods.
LEMMA GoodsMove ==
  ASSUME TradeInv, [TradeNext]_tradeVars
  PROVE  \/ UNCHANGED <<bag, money, spent, gone>>
         \/ \E p \in Traders, i \in TradeItems : ItemGoes(p, i)
         \/ \E p \in Traders : SpendMoney(p)
         \/ \E p \in Traders, near \in BOOLEAN, castable \in BOOLEAN :
              Trading(p) /\ \E v \in shown[p] : Completes(p, v, near, castable)
<1>1. CASE \/ UNCHANGED tradeVars \/ \E p, q \in Traders : InitiateTrade(p, q)
           \/ \E i \in TradeItems : ItemBusy(i)
  BY <1>1 DEF tradeVars, goodsVars, InitiateTrade, ItemBusy
<1>2. ASSUME NEW p \in Traders,
             \/ CancelTrade(p) \/ UnacceptTrade(p)
             \/ \E amount \in 0 .. MaxMoney : SetTradeGold(p, amount)
             \/ \E s \in TradeSlots : ClearTradeItem(p, s) \/ \E i \in TradeItems : SetTradeItem(p, s, i)
             \/ CastOnTrade(p) \/ \E i \in TradeItems : ItemCountDrops(p, i)
      PROVE  UNCHANGED <<bag, money, spent, gone>>
  BY <1>2 DEF goodsVars, CancelTrade, UnacceptTrade, SetTradeGold, ClearTradeItem, SetTradeItem,
              CastOnTrade, ItemCountDrops
<1>3. ASSUME NEW p \in Traders, HandleAcceptTrade(p)
      PROVE  \/ UNCHANGED <<bag, money, spent, gone>>
             \/ Trading(p) /\ \E near, castable \in BOOLEAN :
                                \E v \in shown[p] : Completes(p, v, near, castable)
  <2>1. PICK v \in shown[p], near \in BOOLEAN, castable \in BOOLEAN :
          \/ AcceptIsUndone(p, v, near) \/ PartnerIsUndone(p, v, near) \/ ItemsRefused(p, v, near)
          \/ WaitsForPartner(p, v, near) \/ SpellFails(p, v, near, castable)
          \/ NoRoom(p, v, near, castable) \/ Completes(p, v, near, castable)
    BY <1>3 DEF HandleAcceptTrade
  <2>2. CASE Completes(p, v, near, castable)
    BY <1>3, <2>2 DEF HandleAcceptTrade
  <2>3. CASE ~Completes(p, v, near, castable)
    BY <2>1, <2>3 DEF goodsVars, AcceptIsUndone, PartnerIsUndone, ItemsRefused, WaitsForPartner,
                      SpellFails, NoRoom
  <2> QED
    BY <2>2, <2>3
<1> QED
  BY <1>1, <1>2, <1>3 DEF TradeNext

\* The exchange puts every item of the two bags into one of them, and every
\* coin of the two purses.
LEMMA ExchangeConserves ==
  ASSUME TradeInv, NEW p \in Traders, Trading(p), NEW v, NEW near, NEW castable,
         Completes(p, v, near, castable)
  PROVE  /\ Partner(p) \in Traders /\ Partner(p) # p
         /\ bag'[p] \union bag'[Partner(p)] = bag[p] \union bag[Partner(p)]
         /\ \A r \in Traders \ {p, Partner(p)} : bag'[r] = bag[r]
         /\ gone' = gone /\ spent' = spent
         /\ Settled(p, Partner(p))
<1> DEFINE q == Partner(p)
<1>0. Types /\ BagsApart /\ q \in Traders /\ q # p /\ Trading(q)
  BY Sides DEF TradeInv
<1>1. /\ bag'[p] = (bag[p] \ TradedItems(p)) \union TradedItems(q)
      /\ bag'[q] = (bag[q] \ TradedItems(q)) \union TradedItems(p)
      /\ money'[p] = money[p] - m_trade[p]._money + m_trade[q]._money
      /\ money'[q] = money[q] - m_trade[q]._money + m_trade[p]._money
      /\ \A r \in Traders \ {p, q} : bag'[r] = bag[r]
  BY ExchangeIs
<1>2. (\A r \in Traders \ {p, q} : money'[r] = money[r]) /\ gone' = gone /\ spent' = spent
  BY <1>0 DEF Completes, Types
<1>3. TradedItems(p) \subseteq bag[p] /\ TradedItems(q) \subseteq bag[q]
  BY <1>0, NothingAssumption DEF TradedItems, ItemsIn, GetItem
<1>4. /\ money[p] \in Int /\ money[q] \in Int
      /\ m_trade[p]._money \in Int /\ m_trade[q]._money \in Int
  BY <1>0 DEF Types, Trading, TradeData
<1> QED
  BY <1>0, <1>1, <1>2, <1>3, <1>4 DEF Settled

\* No step loses an item.
LEMMA NoItemLostKept == TradeInv /\ NoItemLost /\ [TradeNext]_tradeVars => NoItemLost'
<1> SUFFICES ASSUME TradeInv, NoItemLost, [TradeNext]_tradeVars PROVE NoItemLost'
  OBVIOUS
<1>1. CASE UNCHANGED <<bag, gone>>
  BY <1>1 DEF NoItemLost
<1>2. ASSUME NEW p \in Traders, NEW i \in TradeItems, ItemGoes(p, i) PROVE NoItemLost'
  <2>1. gone' = gone \union {i} /\ \A r \in Traders : bag[r] \subseteq bag'[r] \union {i}
    BY <1>2 DEF ItemGoes, TradeInv, Types
  <2> QED
    BY <2>1 DEF NoItemLost
<1>3. ASSUME NEW p \in Traders, Trading(p), NEW v, NEW near, NEW castable,
             Completes(p, v, near, castable)
      PROVE  NoItemLost'
  <2>1. gone' = gone /\ \A r \in Traders : \A i \in bag[r] : \E u \in Traders : i \in bag'[u]
    <3>1. /\ Partner(p) \in Traders /\ gone' = gone
          /\ bag'[p] \union bag'[Partner(p)] = bag[p] \union bag[Partner(p)]
          /\ \A r \in Traders \ {p, Partner(p)} : bag'[r] = bag[r]
      BY <1>3, ExchangeConserves
    <3> QED
      BY <3>1
  <2> QED
    BY <2>1 DEF NoItemLost
<1> QED
  BY <1>1, <1>2, <1>3, GoodsMove DEF SpendMoney

\* Whatever is offered, accepted late, used up or refused meanwhile, the slot
\* by slot exchange of items neither doubles an item nor loses one.
THEOREM ItemsAreConserved == TradeSpec => []ItemsConserved
<1>1. TradeInit => TradeInv /\ NoItemLost
  BY TradeInitInv, TradeAssumption DEF TradeInit, NoItemLost
<1>2. TradeInv /\ [TradeNext]_tradeVars => TradeInv'
  BY TradeNextInv, TradeStutterInv
<1>3. TradeInv /\ NoItemLost => ItemsConserved
  BY DEF TradeInv, BagsApart, NoItemLost, ItemsConserved
<1> QED
  BY <1>1, <1>2, <1>3, NoItemLostKept, PTL DEF TradeSpec

\* No coin is made or lost by a trade: what one side loses the other receives,
\* so neither the floor at zero nor the limit of a purse ever cuts a payment.
THEOREM MoneyIsConserved == TradeSpec => [][MoneyConserved]_tradeVars
<1>1. TradeInv /\ [TradeNext]_tradeVars => MoneyConserved
  <2> SUFFICES ASSUME TradeInv, [TradeNext]_tradeVars PROVE MoneyConserved
    OBVIOUS
  <2>1. CASE UNCHANGED <<money, spent>>
    BY <2>1 DEF MoneyConserved
  <2>2. ASSUME NEW p \in Traders, SpendMoney(p) PROVE MoneyConserved
    <3>1. money' = [money EXCEPT ![p] = money[p] - 1] /\ spent = 0 /\ spent' = 1
      BY <2>2 DEF SpendMoney
    <3>2. spent' = spent + 1
      BY <3>1
    <3> QED
      BY <3>1, <3>2, Zenon DEF MoneyConserved
  <2>3. ASSUME NEW p \in Traders, Trading(p), NEW v, NEW near, NEW castable,
               Completes(p, v, near, castable)
        PROVE  MoneyConserved
    BY <2>3, ExchangeConserves DEF MoneyConserved
  <2> QED
    BY <2>1, <2>2, <2>3, GoodsMove DEF ItemGoes
<1> QED
  BY <1>1, TradeInvariant, PTL DEF TradeSpec

-----------------------------------------------------------------------------
(* The pass over the votes. *)

\* g is the best vote so far, as AllPlayerVoted meets the votes in that order.
BestSoFar(g, i, order, n) ==
  /\ g \in [0..n -> Members \union {Nobody}] /\ g[0] = Nobody
  /\ \A k \in 1..n : g[k] = IF Better(i, g[k - 1], order[k]) THEN order[k] ELSE g[k - 1]

\* The fold over the votes is that loop.
LEMMA WinnerSteps ==
  ASSUME NEW i, NEW n \in Nat, NEW order \in [1..n -> Members]
  PROVE  \E g : BestSoFar(g, i, order, n) /\ g[n] = WinnerIn(i, order)
<1> DEFINE T == Members \union {Nobody}
           Next1(best, p) == IF Better(i, best, p) THEN p ELSE best
           F == [x \in T \X (Nat \ {0}) |-> IF x[2] \in 1..n THEN Next1(x[1], order[x[2]]) ELSE x[1]]
           Step(h) == [s \in SUBSET (1..n) |->
                         IF s = {} THEN Nobody ELSE Next1(h[s \ {Max(s)}], order[Max(s)])]
           iter == CHOOSE h : h = Step(h)
<1>1. DOMAIN order = 1..n
  OBVIOUS
<1>2. WinnerIn(i, order) = iter[1..n]
  BY <1>1 DEF WinnerIn, FoldLeft, MapThenFoldSet
<1>3. F \in [T \X (Nat \ {0}) -> T]
  <2> SUFFICES ASSUME NEW x \in T \X (Nat \ {0}), x[2] \in 1..n PROVE Next1(x[1], order[x[2]]) \in T
    OBVIOUS
  <2>1. x[1] \in T /\ order[x[2]] \in T
    OBVIOUS
  <2> QED
    BY <2>1
<1> HIDE DEF Next1
<1>4. PICK g : Folds(g, n, T, Nobody, F)
  <2>1. Nobody \in T
    OBVIOUS
  <2> HIDE DEF F, T
  <2> QED
    BY <1>3, <2>1, FoldExists
<1>5. \A s \in SUBSET (1..n) : g[s] = IF s = {} THEN Nobody ELSE Next1(g[s \ {Max(s)}], order[Max(s)])
  <2> TAKE s \in SUBSET (1..n)
  <2>1. CASE s = {}
    <3> HIDE DEF F, T
    <3> QED
      BY <1>4, <2>1 DEF Folds
  <2>2. CASE s # {}
    <3>1. Max(s) \in s
      BY <2>2, MaxIsElement
    <3>2. s \ {Max(s)} \in SUBSET (1..n) /\ Max(s) \in 1..n /\ Max(s) \in Nat \ {0}
      <4>1. s \ {Max(s)} \in SUBSET (1..n) /\ Max(s) \in 1..n
        BY <3>1
      <4>2. \A k \in 1..n : k \in Nat \ {0}
        OBVIOUS
      <4> QED
        BY <4>1, <4>2
    <3>3. g[s] = F[<<g[s \ {Max(s)}], Max(s)>>] /\ g[s \ {Max(s)}] \in T
      <4> HIDE DEF F, T
      <4> QED
        BY <1>4, <2>2, <3>2 DEF Folds
    <3>4. <<g[s \ {Max(s)}], Max(s)>> \in T \X (Nat \ {0})
      BY <3>2, <3>3
    <3> HIDE DEF T
    <3> QED
      BY <2>2, <3>2, <3>3, <3>4
  <2> QED
    BY <2>1, <2>2
<1>6. g = Step(g)
  <2>1. g = [s \in SUBSET (1..n) |-> g[s]]
    <3> HIDE DEF F, T
    <3> QED
      BY <1>4 DEF Folds
  <2> HIDE DEF F, T
  <2> QED
    BY <1>5, <2>1
<1>7. iter = Step(iter)
  <2> HIDE DEF Step
  <2> QED
    BY <1>6
<1> HIDE DEF iter
<1> DEFINE best == [k \in 0..n |-> iter[1..k]]
<1>8. best[0] = Nobody
  <2>1. 1..0 = {} /\ {} \in SUBSET (1..n) /\ 0 \in 0..n
    OBVIOUS
  <2> QED
    BY <1>7, <2>1
<1>9. ASSUME NEW k \in 1..n PROVE best[k] = Next1(best[k - 1], order[k])
  <2>1. /\ 1..k \in SUBSET (1..n) /\ 1..k # {} /\ Max(1..k) = k /\ (1..k) \ {k} = 1..(k - 1)
        /\ k \in 0..n /\ k - 1 \in 0..n
    BY IntervalTop
  <2>2. iter[1..k] = Next1(iter[(1..k) \ {Max(1..k)}], order[Max(1..k)])
    BY <1>7, <2>1
  <2> QED
    BY <2>1, <2>2
<1>10. \A k \in 0..n : best[k] \in T
  <2> DEFINE S == {k \in 0..n : best[k] \in T}
  <2>1. 0 \in S
    BY <1>8
  <2>2. ASSUME NEW k \in 1..n, k - 1 \in S PROVE k \in S
    <3>1. best[k] = best[k - 1] \/ best[k] = order[k]
      BY <1>9 DEF Next1
    <3>2. order[k] \in T /\ best[k - 1] \in T /\ k \in 0..n
      BY <2>2
    <3> HIDE DEF best
    <3> QED
      BY <3>1, <3>2
  <2> HIDE DEF S
  <2>3. \A k \in 0..n : k \in S
    BY <2>1, <2>2, InductionUpTo
  <2> QED
    BY <2>3 DEF S
<1>11. BestSoFar(best, i, order, n)
  <2>1. best \in [0..n -> T]
    BY <1>10
  <2> QED
    BY <1>8, <1>9, <2>1 DEF BestSoFar, Next1
<1>12. best[n] = WinnerIn(i, order)
  <2>1. n \in 0..n
    OBVIOUS
  <2> QED
    BY <1>2, <2>1
<1> QED
  BY <1>11, <1>12

\* The best of the votes in s: of those who need the item, or else of those who
\* voted greed or disenchant, or nobody.
Among(i, s, best) ==
  LET needs  == s \intersect Votes(i, "Need")
      takers == s \intersect (Votes(i, "Greed") \union Votes(i, "Disenchant"))
  IN  /\ needs # {} => best \in needs /\ \A q \in needs : Number(i, q) <= Number(i, best)
      /\ needs = {} /\ takers # {} =>
           best \in takers /\ \A q \in takers : Number(i, q) <= Number(i, best)
      /\ needs = {} /\ takers = {} => best = Nobody

\* One more vote is met.
LEMMA VoteMet ==
  ASSUME NEW i, NEW s \in SUBSET Members, NEW p \in Members, NEW best, Among(i, s, best),
         \A q \in Members : Number(i, q) \in Nat
  PROVE  Among(i, s \union {p}, IF Better(i, best, p) THEN p ELSE best)
<1> DEFINE needs == s \intersect Votes(i, "Need")
           takers == s \intersect (Votes(i, "Greed") \union Votes(i, "Disenchant"))
           isNeed == p \in Votes(i, "Need")
           isTaker == p \in Votes(i, "Greed") \union Votes(i, "Disenchant")
           needs2 == (s \union {p}) \intersect Votes(i, "Need")
           takers2 == (s \union {p}) \intersect (Votes(i, "Greed") \union Votes(i, "Disenchant"))
<1>1. /\ needs2 = needs \union (IF isNeed THEN {p} ELSE {})
      /\ takers2 = takers \union (IF isTaker THEN {p} ELSE {})
      /\ ~(isNeed /\ isTaker)
  BY DEF Votes
<1>2. /\ needs # {} => best \in needs /\ \A q \in needs : Number(i, q) <= Number(i, best)
      /\ needs = {} /\ takers # {} =>
           best \in takers /\ \A q \in takers : Number(i, q) <= Number(i, best)
      /\ needs = {} /\ takers = {} => best = Nobody
  BY DEF Among
<1>3. /\ needs \subseteq Members /\ takers \subseteq Members /\ Nobody \notin Members
      /\ \A q \in needs : m_rollVoteMap[i][q].Vote = "Need"
      /\ \A q \in takers : m_rollVoteMap[i][q].Vote # "Need"
  BY LootAssumption DEF Votes
<1> DEFINE someoneNeeds == best # Nobody /\ m_rollVoteMap[i][best].Vote = "Need"
<1>4. someoneNeeds <=> needs # {}
  BY <1>2, <1>3
<1>5. best = Nobody <=> needs = {} /\ takers = {}
  BY <1>2, <1>3
<1>6. Better(i, best, p) <=>
        \/ isNeed /\ (needs = {} \/ Number(i, p) > Number(i, best))
        \/ isTaker /\ needs = {} /\ (takers = {} \/ Number(i, p) > Number(i, best))
  <2>1. (isNeed <=> m_rollVoteMap[i][p].Vote = "Need") /\ (isTaker <=> m_rollVoteMap[i][p].Vote \in {"Greed", "Disenchant"})
    BY DEF Votes
  <2>2. Better(i, best, p) <=>
          \/ isNeed /\ (~someoneNeeds \/ Number(i, p) > Number(i, best))
          \/ isTaker /\ ~someoneNeeds /\ (best = Nobody \/ Number(i, p) > Number(i, best))
    BY <2>1 DEF Better
  <2> HIDE DEF needs, takers, isNeed, isTaker, someoneNeeds
  <2> QED
    BY <1>4, <1>5, <2>2
<1> HIDE DEF needs, takers, isNeed, isTaker, someoneNeeds, needs2, takers2
<1> DEFINE new == IF Better(i, best, p) THEN p ELSE best
<1>7. needs2 # {} => new \in needs2 /\ \A q \in needs2 : Number(i, q) <= Number(i, new)
  <2>1. CASE isNeed
    BY <1>1, <1>2, <1>3, <1>6, <2>1
  <2>2. CASE ~isNeed
    BY <1>1, <1>2, <1>3, <1>6, <2>2
  <2> QED
    BY <2>1, <2>2
<1>8. needs2 = {} /\ takers2 # {} => new \in takers2 /\ \A q \in takers2 : Number(i, q) <= Number(i, new)
  <2>1. CASE isTaker
    BY <1>1, <1>2, <1>3, <1>6, <2>1
  <2>2. CASE ~isTaker
    BY <1>1, <1>2, <1>3, <1>6, <2>2
  <2> QED
    BY <2>1, <2>2
<1>9. needs2 = {} /\ takers2 = {} => new = Nobody
  BY <1>1, <1>2, <1>6
<1> QED
  BY <1>7, <1>8, <1>9 DEF Among, needs2, takers2

\* Whatever the order of the votes, the pass finds a best one of them, or nobody
\* if nobody wants the item.
LEMMA WinnerIsBest ==
  ASSUME LootTypeOK, NEW i \in LootItems, NEW winner \in Winners(i)
  PROVE  IF Candidates(i) = {} THEN winner = Nobody ELSE winner \in Best(i)
<1> DEFINE n == Cardinality(Members)
<1>1. n \in Nat /\ IsFiniteSet(Members)
  BY LootAssumption, FS_CardinalityType
<1>2. PICK order \in [1..n -> Members] :
        winner = WinnerIn(i, order) /\ \A j, k \in 1..n : j # k => order[j] # order[k]
  BY DEF Winners, SetToSeqs
<1>3. \A q \in Members : \E k \in 1..n : order[k] = q
  <2>1. \A j, k \in 1..n : order[j] = order[k] => j = k
    BY <1>2
  <2>1a. order \in Injection(1..n, Members)
    BY <2>1 DEF Injection, IsInjective
  <2>2. Cardinality(1..n) = n
    BY <1>1, FS_Interval
  <2>3. order \in Surjection(1..n, Members)
    BY <1>1, <2>1a, <2>2, FS_Injection
  <2> QED
    BY <2>3 DEF Surjection
<1> HIDE DEF n
<1>4. PICK g : BestSoFar(g, i, order, n) /\ g[n] = winner
  BY <1>1, <1>2, WinnerSteps
<1>5. \A q \in Members : Number(i, q) \in Nat
  BY LootAssumption DEF LootTypeOK, Number
<1> DEFINE seen(k) == {order[j] : j \in 1..k}
           S == {k \in 0..n : Among(i, seen(k), g[k])}
<1>6. 0 \in S
  <2>1. seen(0) = {} /\ g[0] = Nobody
    BY <1>4 DEF BestSoFar
  <2> QED
    BY <1>1, <2>1 DEF Among
<1>7. ASSUME NEW k \in 1..n, k - 1 \in S PROVE k \in S
  <2>1. k \in 0..n /\ k \in 1..k /\ (\A j \in 1..k : j \in 1..(k - 1) \/ j = k)
        /\ (\A j \in 1..(k - 1) : j \in 1..k) /\ 1..k \subseteq 1..n
    BY <1>1
  <2>2. seen(k) = seen(k - 1) \union {order[k]} /\ seen(k - 1) \subseteq Members /\ order[k] \in Members
    BY <1>2, <2>1
  <2>3. Among(i, seen(k - 1), g[k - 1])
    BY <1>7
  <2>4. g[k] = IF Better(i, g[k - 1], order[k]) THEN order[k] ELSE g[k - 1]
    BY <1>4 DEF BestSoFar
  <2> HIDE DEF seen
  <2>5. Among(i, seen(k - 1) \union {order[k]}, IF Better(i, g[k - 1], order[k]) THEN order[k] ELSE g[k - 1])
    BY <1>5, <2>2, <2>3, VoteMet
  <2> QED
    BY <2>1, <2>2, <2>4, <2>5
<1>8. Among(i, seen(n), winner)
  <2> HIDE DEF S
  <2>1. \A k \in 0..n : k \in S
    BY <1>1, <1>6, <1>7, InductionUpTo
  <2>2. n \in 0..n
    BY <1>1
  <2> QED
    BY <1>4, <2>1, <2>2 DEF S
<1>9. seen(n) = Members
  BY <1>2, <1>3
<1> HIDE DEF seen
<1> QED
  BY <1>8, <1>9 DEF Among, Candidates, Best, Votes

-----------------------------------------------------------------------------
(* The rolls. *)

\* Why the winner stays right: votes count only while the item is blocked, and
\* as long as it is, nobody has it and nobody has won it.
RollsInv ==
  /\ is_blocked \in [LootItems -> BOOLEAN] /\ is_underthreshold \in [LootItems -> BOOLEAN]
  /\ looted \in [LootItems -> SUBSET Members]
  /\ \A i \in _rolls :
       _wasOpened /\ ~destroyed /\ is_blocked[i] /\ ~is_underthreshold[i]
  /\ \A i \in LootItems : ~_wasOpened => is_blocked[i] /\ ~is_underthreshold[i]
  /\ \A i \in LootItems : is_blocked[i] => looted[i] = {} /\ rollWinner[i] = Nobody

LootInv == LootTypeOK /\ RollsInv /\ LootedByBest

\* What the invariant says of one item.
ItemInv(i) ==
  /\ ~is_blocked[i] /\ ~is_underthreshold[i] =>
       IF Candidates(i) = {} THEN rollWinner[i] = Nobody ELSE rollWinner[i] \in Best(i)
  /\ Cardinality(looted[i]) <= 1
  /\ rollWinner[i] # Nobody => looted[i] \subseteq {rollWinner[i]}

\* Whether the best vote won shows in the items, votes and winners alone.
LEMMA LootedByBestOfItems ==
  RollsInv => (LootedByBest <=> \A i \in LootItems : ItemInv(i))
<1> SUFFICES ASSUME RollsInv PROVE LootedByBest <=> \A i \in LootItems : ItemInv(i)
  OBVIOUS
<1> QED
  BY DEF RollsInv, LootedByBest, ItemInv

\* What an item's winner depends on.
LEMMA SameItem ==
  ASSUME NEW i, ItemInv(i), m_rollVoteMap'[i] = m_rollVoteMap[i], is_blocked'[i] = is_blocked[i],
         is_underthreshold'[i] = is_underthreshold[i], rollWinner'[i] = rollWinner[i],
         looted'[i] = looted[i]
  PROVE  ItemInv(i)'
BY DEF ItemInv, Candidates, Best, Votes, Number

\* No roll was begun.
LEMMA LootInitKeeps == LootInit => LootInv
<1> SUFFICES ASSUME LootInit PROVE LootInv
  OBVIOUS
<1>1. NoVote \in [Vote : {"NotValid", "NotEmitedYet", "Pass", "Need", "Greed", "Disenchant"},
                  RollNumber : 0 .. MaxNumber]
  BY LootAssumption DEF NoVote
<1> HIDE DEF NoVote
<1>2. LootTypeOK
  BY <1>1 DEF LootInit, LootTypeOK
<1>3. RollsInv
  BY DEF LootInit, RollsInv
<1>4. LootedByBest
  <2>1. Cardinality({}) = 0
    BY FS_EmptySet
  <2> QED
    BY <2>1 DEF LootInit, LootedByBest
<1> QED
  BY <1>2, <1>3, <1>4 DEF LootInv

Votings == [Vote : {"NotValid", "NotEmitedYet", "Pass", "Need", "Greed", "Disenchant"},
            RollNumber : 0 .. MaxNumber]

\* The loot is opened, and its rolls begin.
LEMMA OpenLootKeeps == ASSUME LootInv, NEW p \in Members, OpenLoot(p) PROVE LootInv'
<1>1. ~_wasOpened /\ ~destroyed /\ _wasOpened'
      /\ UNCHANGED <<destroyed, timedOut, rollWinner, looted, disenchanted, inWorld>>
  BY DEF OpenLoot
<1>2. \A i \in LootItems : is_blocked[i] /\ ~is_underthreshold[i] /\ looted[i] = {} /\ rollWinner[i] = Nobody
  BY <1>1 DEF LootInv, RollsInv
<1>2a. Cardinality({}) = 0
  BY FS_EmptySet
<1>3. CASE Cardinality(Eligible) > 1
  <2>1. /\ _rolls' = LootItems
        /\ m_rollVoteMap' = [i \in LootItems |-> [m \in Members |-> FirstVote(m)]]
        /\ m_lootRolls' = [m \in Members |-> IF FirstVote(m).Vote = "NotEmitedYet"
                                             THEN LootItems ELSE m_lootRolls[m]]
        /\ UNCHANGED <<is_blocked, is_underthreshold>>
    BY <1>3 DEF OpenLoot
  <2>2. \A m \in Members : FirstVote(m) \in Votings
    BY LootAssumption DEF FirstVote, NoVote, Votings
  <2>3. m_rollVoteMap' \in [LootItems -> [Members -> Votings]]
    BY <2>1, <2>2
  <2>4. m_lootRolls' \in [Members -> SUBSET LootItems]
    BY <2>1 DEF LootInv, LootTypeOK
  <2>5. LootTypeOK'
    BY <1>1, <1>2, <2>1, <2>3, <2>4 DEF LootInv, LootTypeOK, Votings
  <2>6. RollsInv'
    BY <1>1, <1>2, <2>1 DEF LootInv, RollsInv
  <2>7. UNCHANGED <<is_blocked, is_underthreshold, rollWinner, looted>>
    BY <1>1, <2>1
  <2>8. LootedByBest'
    BY <1>2, <1>2a, <2>7 DEF LootedByBest
  <2> QED
    BY <2>5, <2>6, <2>8 DEF LootInv
<1>4. CASE ~(Cardinality(Eligible) > 1)
  <2>1. /\ is_underthreshold' = [i \in LootItems |-> TRUE]
        /\ is_blocked' = [i \in LootItems |-> FALSE]
        /\ UNCHANGED <<_rolls, m_rollVoteMap, m_lootRolls>>
    BY <1>4 DEF OpenLoot
  <2>2. _rolls = {}
    BY <1>1 DEF LootInv, RollsInv
  <2>5. LootTypeOK'
    BY <1>1, <2>1, <2>2 DEF LootInv, LootTypeOK
  <2>6. RollsInv'
    BY <1>1, <2>1, <2>2 DEF LootInv, RollsInv
  <2>7. LootedByBest'
    BY <1>1, <1>2, <1>2a, <2>1, <2>2 DEF LootedByBest
  <2> QED
    BY <2>5, <2>6, <2>7 DEF LootInv
<1> QED
  BY <1>3, <1>4

\* A step that leaves every item's winner and looters as they are.
LEMMA ItemsKeep ==
  ASSUME LootInv, RollsInv',
         \A i \in LootItems :
           /\ is_blocked'[i] = is_blocked[i] /\ is_underthreshold'[i] = is_underthreshold[i]
           /\ rollWinner'[i] = rollWinner[i] /\ looted'[i] = looted[i]
           /\ m_rollVoteMap'[i] = m_rollVoteMap[i] \/ is_blocked[i]
  PROVE  LootedByBest'
<1>1. \A i \in LootItems : ItemInv(i)
  BY LootedByBestOfItems DEF LootInv
<1>2. ASSUME NEW i \in LootItems PROVE ItemInv(i)'
  <2>1. CASE is_blocked[i]
    BY <1>1, <2>1 DEF ItemInv
  <2>2. CASE ~is_blocked[i]
    BY <1>1, <2>2, SameItem
  <2> QED
    BY <2>1, <2>2
<1> QED
  BY <1>2 DEF RollsInv, LootedByBest, ItemInv

\* A player votes, and the last vote ends the roll.
LEMMA PlayerVoteKeeps ==
  ASSUME LootInv, NEW p \in Members, NEW i \in LootItems,
         NEW vote \in {"Pass", "Need", "Greed", "Disenchant"}, NEW number \in 1 .. MaxNumber,
         PlayerVote(p, i, vote, number)
  PROVE  LootInv'
<1> DEFINE new == [Vote |-> vote, RollNumber |-> IF vote = "Pass" THEN Number(i, p) ELSE number]
<1>1. /\ i \in _rolls /\ m_rollVoteMap' = [m_rollVoteMap EXCEPT ![i][p] = new]
      /\ UNCHANGED <<_wasOpened, destroyed, timedOut, _rolls, itemVars, inWorld, m_lootRolls>>
  BY DEF PlayerVote
<1>2. m_rollVoteMap \in [LootItems -> [Members -> Votings]]
  BY DEF LootInv, LootTypeOK, Votings
<1>3. new \in Votings
  <2>1. Number(i, p) \in 0 .. MaxNumber
    BY <1>2 DEF Number, Votings
  <2>2. number \in 0 .. MaxNumber
    BY LootAssumption
  <2> QED
    BY <2>1, <2>2 DEF Votings
<1> HIDE DEF new
<1>4. m_rollVoteMap' \in [LootItems -> [Members -> Votings]]
  BY <1>1, <1>2, <1>3
<1>5. LootTypeOK'
  BY <1>1, <1>4 DEF LootInv, LootTypeOK, Votings, itemVars
<1>6. RollsInv'
  BY <1>1 DEF LootInv, RollsInv, itemVars
<1>7. \A j \in LootItems : m_rollVoteMap'[j] = m_rollVoteMap[j] \/ is_blocked[j]
  <2>1. is_blocked[i]
    BY <1>1 DEF LootInv, RollsInv
  <2> QED
    BY <1>1, <1>2, <2>1
<1>8. LootedByBest'
  BY <1>1, <1>6, <1>7, ItemsKeep DEF itemVars
<1> QED
  BY <1>5, <1>6, <1>8 DEF LootInv

\* UpdateRoll ends a roll.
LEMMA UpdateRollKeeps == ASSUME LootInv, NEW i \in LootItems, UpdateRoll(i) PROVE LootInv'
<1>1. /\ ~destroyed /\ i \in _rolls /\ _rolls' = _rolls \ {i}
      /\ m_lootRolls' = Forgotten(i, m_rollVoteMap)
      /\ UNCHANGED <<_wasOpened, destroyed, timedOut, m_rollVoteMap, is_underthreshold, inWorld>>
  BY DEF UpdateRoll
<1>2. PICK winner \in Winners(i) :
        IF winner = Nobody THEN FinishAllPassed(i) ELSE FinishWon(i, winner)
  BY DEF UpdateRoll
<1>3. IF Candidates(i) = {} THEN winner = Nobody ELSE winner \in Best(i)
  BY WinnerIsBest DEF LootInv
<1>4. /\ _wasOpened /\ is_blocked[i] /\ ~is_underthreshold[i]
      /\ looted[i] = {} /\ rollWinner[i] = Nobody
  BY <1>1 DEF LootInv, RollsInv
<1>5. winner \in Members \union {Nobody} /\ (winner = Nobody <=> Candidates(i) = {})
  BY <1>3, LootAssumption DEF Best, Candidates, Votes
<1>6. /\ is_blocked' = [is_blocked EXCEPT ![i] = FALSE]
      /\ rollWinner' = [rollWinner EXCEPT ![i] = winner]
      /\ looted' = looted \/ (winner \in Members /\ looted' = [looted EXCEPT ![i] = {winner}])
      /\ disenchanted' \subseteq disenchanted \union {i}
  <2>1. CASE winner = Nobody
    <3>1. rollWinner = [rollWinner EXCEPT ![i] = Nobody]
      BY <1>4 DEF LootInv, LootTypeOK
    <3> QED
      BY <1>2, <2>1, <3>1 DEF FinishAllPassed
  <2>2. CASE winner # Nobody
    <3>1. FinishWon(i, winner)
      BY <1>2, <2>2
    <3>2. Stored(winner, i) = [looted EXCEPT ![i] = {winner}]
      BY <1>4 DEF Stored
    <3>3. looted' = looted \/ looted' = Stored(winner, i)
      BY <3>1 DEF FinishWon
    <3>4. disenchanted' \subseteq disenchanted \union {i}
      BY <3>1 DEF FinishWon
    <3> QED
      BY <1>5, <2>2, <3>1, <3>2, <3>3, <3>4 DEF FinishWon
  <2> QED
    BY <2>1, <2>2
<1>7. m_lootRolls' \in [Members -> SUBSET LootItems]
  BY <1>1 DEF LootInv, LootTypeOK, Forgotten
<1>8. LootTypeOK'
  BY <1>1, <1>4, <1>5, <1>6, <1>7 DEF LootInv, LootTypeOK, RollsInv
<1>9. RollsInv'
  <2>1. looted' \in [LootItems -> SUBSET Members]
    BY <1>5, <1>6 DEF LootInv, RollsInv
  <2>2. \A j \in LootItems \ {i} : /\ looted'[j] = looted[j] /\ rollWinner'[j] = rollWinner[j]
                                   /\ is_blocked'[j] = is_blocked[j]
    BY <1>6 DEF LootInv, RollsInv, LootTypeOK
  <2>3. is_blocked' \in [LootItems -> BOOLEAN] /\ ~is_blocked'[i]
    BY <1>6 DEF LootInv, RollsInv
  <2>4. i \notin _rolls' /\ _rolls' \subseteq _rolls /\ _rolls' \subseteq LootItems
    BY <1>1 DEF LootInv, LootTypeOK
  <2> QED
    BY <1>1, <1>4, <2>1, <2>2, <2>3, <2>4 DEF LootInv, RollsInv
<1>10. ASSUME NEW j \in LootItems PROVE ItemInv(j)'
  <2>1. \A k \in LootItems : ItemInv(k)
    BY LootedByBestOfItems DEF LootInv
  <2>2. CASE j # i
    <3>1. is_blocked'[j] = is_blocked[j] /\ rollWinner'[j] = rollWinner[j] /\ looted'[j] = looted[j]
      BY <1>6, <2>2 DEF LootInv, RollsInv, LootTypeOK
    <3> QED
      BY <1>1, <2>1, <3>1, SameItem
  <2>3. CASE j = i
    <3>1. rollWinner'[i] = winner /\ (looted'[i] = {} \/ (winner # Nobody /\ looted'[i] = {winner}))
      BY <1>4, <1>6, LootAssumption DEF LootInv, RollsInv, LootTypeOK
    <3>2. Candidates(i)' = Candidates(i) /\ Best(i)' = Best(i)
      BY <1>1 DEF Candidates, Best, Votes, Number
    <3>3. Cardinality({}) = 0 /\ Cardinality({winner}) = 1
      BY FS_EmptySet, FS_Singleton
    <3>4. Cardinality(looted'[i]) <= 1
      BY <3>1, <3>3
    <3> QED
      BY <1>3, <2>3, <3>1, <3>2, <3>4 DEF ItemInv
  <2> QED
    BY <2>2, <2>3
<1>11. LootedByBest'
  BY <1>9, <1>10 DEF RollsInv, LootedByBest, ItemInv
<1> QED
  BY <1>8, <1>9, <1>11 DEF LootInv

\* An item is taken.
LEMMA StoreLootItemKeeps ==
  ASSUME LootInv, NEW p \in Members, NEW i \in LootItems, StoreLootItem(p, i)
  PROVE  LootInv'
<1>1. /\ looted[i] = {} /\ ~is_blocked[i] /\ rollWinner[i] \in {Nobody, p}
      /\ looted' = [looted EXCEPT ![i] = {p}]
      /\ UNCHANGED <<_wasOpened, destroyed, timedOut, _rolls, m_rollVoteMap, is_blocked,
                     is_underthreshold, rollWinner, disenchanted, inWorld, m_lootRolls>>
  BY DEF StoreLootItem, Storable, Stored
<1>2. LootTypeOK'
  BY <1>1 DEF LootInv, LootTypeOK
<1>3. RollsInv'
  BY <1>1 DEF LootInv, RollsInv
<1>4. ASSUME NEW j \in LootItems PROVE ItemInv(j)'
  <2>1. \A k \in LootItems : ItemInv(k)
    BY LootedByBestOfItems DEF LootInv
  <2>2. CASE j # i
    <3>1. looted'[j] = looted[j]
      BY <1>1, <2>2 DEF LootInv, RollsInv
    <3> QED
      BY <1>1, <2>1, <3>1, SameItem
  <2>3. CASE j = i
    <3>1. looted'[i] = {p} /\ Cardinality({p}) = 1
      BY <1>1, FS_Singleton DEF LootInv, RollsInv
    <3>2. Candidates(i)' = Candidates(i) /\ Best(i)' = Best(i)
      BY <1>1 DEF Candidates, Best, Votes, Number
    <3> QED
      BY <1>1, <2>1, <2>3, <3>1, <3>2 DEF ItemInv
  <2> QED
    BY <2>2, <2>3
<1>5. LootedByBest'
  BY <1>3, <1>4 DEF RollsInv, LootedByBest, ItemInv
<1> QED
  BY <1>2, <1>3, <1>5 DEF LootInv

\* The other steps leave the items as they are.
LEMMA OtherRollStepsKeep ==
  ASSUME LootInv,
         \/ \E p \in Members : LeaveWorld(p) \/ EnterWorld(p)
         \/ RollsTimeOut \/ DestroyLoot \/ UNCHANGED lootVars
  PROVE  LootInv'
<1>1. UNCHANGED <<_wasOpened, m_rollVoteMap, itemVars>>
  BY DEF LeaveWorld, EnterWorld, RollsTimeOut, DestroyLoot, lootVars
<1>2. /\ inWorld' \subseteq Members
      /\ {destroyed', timedOut'} \subseteq BOOLEAN
      /\ (destroyed' = destroyed /\ _rolls' = _rolls) \/ (destroyed' /\ _rolls' = {})
  BY DEF LeaveWorld, EnterWorld, RollsTimeOut, DestroyLoot, lootVars, LootInv, LootTypeOK
<1>3. m_lootRolls' \in [Members -> SUBSET LootItems]
  BY DEF LeaveWorld, EnterWorld, RollsTimeOut, DestroyLoot, lootVars, LootInv, LootTypeOK
<1>4. LootTypeOK'
  BY <1>1, <1>2, <1>3 DEF LootInv, LootTypeOK, itemVars
<1>5. RollsInv'
  BY <1>1, <1>2 DEF LootInv, RollsInv, itemVars
<1>6. LootedByBest'
  BY <1>1, <1>5, ItemsKeep DEF itemVars
<1> QED
  BY <1>4, <1>5, <1>6 DEF LootInv

\* Every step keeps the invariant.
LEMMA LootStepKeeps == LootInv /\ [LootNext]_lootVars => LootInv'
<1> SUFFICES ASSUME LootInv, [LootNext]_lootVars PROVE LootInv'
  OBVIOUS
<1>1. ASSUME NEW p \in Members, OpenLoot(p) PROVE LootInv'
  BY <1>1, OpenLootKeeps
<1>2. ASSUME NEW p \in Members, NEW i \in LootItems, StoreLootItem(p, i) PROVE LootInv'
  BY <1>2, StoreLootItemKeeps
<1>3. ASSUME NEW p \in Members, NEW i \in LootItems, NEW number \in 1 .. MaxNumber,
             NEW vote \in {"Pass", "Need", "Greed", "Disenchant"}, PlayerVote(p, i, vote, number)
      PROVE  LootInv'
  BY <1>3, PlayerVoteKeeps
<1>4. ASSUME NEW i \in LootItems, UpdateRoll(i) PROVE LootInv'
  BY <1>4, UpdateRollKeeps
<1>5. ASSUME \/ \E p \in Members : LeaveWorld(p) \/ EnterWorld(p)
             \/ RollsTimeOut \/ DestroyLoot \/ UNCHANGED lootVars
      PROVE  LootInv'
  BY <1>5, OtherRollStepsKeep
<1> QED
  BY <1>1, <1>2, <1>3, <1>4, <1>5 DEF LootNext

\* Whatever is rolled, voted, looted or left, the invariant of the rolls holds.
THEOREM LootInvariant == LootSpec => []LootInv
<1>1. LootInit => LootInv
  BY LootInitKeeps
<1>2. LootInv /\ [LootNext]_lootVars => LootInv'
  BY LootStepKeeps
<1> QED
  BY <1>1, <1>2, PTL DEF LootSpec

\* Types: an item is blocked until its loot is opened and while it is rolled for.
THEOREM LootTypes == LootSpec => []LootTypeOK
<1>1. LootInv => LootTypeOK
  BY DEF LootInv
<1> QED
  BY <1>1, LootInvariant, PTL

\* Whatever the order in which the unordered votes are gone through, whoever
\* votes, leaves or loots meanwhile, the winner is a best one, and the item goes
\* to one player: the winner if there is one, and to nobody during the roll.
THEOREM ItemGoesToBest == LootSpec => []LootedByBest
<1>1. LootInv => LootedByBest
  BY DEF LootInv
<1> QED
  BY <1>1, LootInvariant, PTL
=============================================================================
