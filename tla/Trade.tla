------------------------------- MODULE Trade -------------------------------
(***************************************************************************)
(* Trades between two players (game.cpp, with the hooks of player.cpp, and *)
(* the transfer of houses of house.cpp).  A trade lives in three places:   *)
(* each player has a state, a partner and the item it offers, and the game *)
(* keeps the map of all offered items with a reference on each.  The items *)
(* offered stay where they are, in the world, and can be moved by anyone   *)
(* near; Player::checkTradeState and the hooks around it must notice and   *)
(* close the trade.                                                        *)
(*                                                                         *)
(* A house is sold by offering a document that exists only for the trade;  *)
(* it is modelled by the name of its house.  Every action is one task of   *)
(* the dispatcher, so TRADE_TRANSFER is never seen between two actions.    *)
(* Left out: distances and sight (a request out of reach changes nothing), *)
(* the pause between two requests, imbuement windows, money, house bids.   *)
(***************************************************************************)
EXTENDS Naturals, FiniteSets

CONSTANTS
    Players,
    Things,       \* what can be carried and offered
    Containers,   \* the things that hold others
    Houses,       \* a house, and the document that transfers it
    Floor,        \* the tiles near the players
    Nowhere,      \* destroyed, or a document that does not exist
    Lost,         \* in what was a container in a container, until it was replaced
    NoPlayer, NoItem

Items  == Things \cup Houses
Stacks == Things \ Containers
Places == Players \cup Containers \cup {Floor, Nowhere, Lost}

ASSUME TradeAssumption ==
    /\ IsFiniteSet(Things) /\ Containers \subseteq Things
    /\ Players \cap Items = {} /\ Things \cap Houses = {}
    /\ Floor # Nowhere /\ Lost \notin {Floor, Nowhere}
    /\ {Floor, Nowhere, Lost} \cap (Players \cup Items) = {}
    /\ NoPlayer \notin Players /\ NoItem \notin Items

VARIABLES
    online,        \* the players in the game
    at,            \* where each item is: Item::parent
    stack,         \* the count of each thing that holds no others, one of two
    tradeState,    \* Player::tradeState
    tradePartner,  \* Player::tradePartner
    tradeItem,     \* Player::tradeItem
    tradeItems,    \* Game::tradeItems, NoPlayer for an item not in the map
    refs,          \* the references that trades hold on each item
    owner          \* House::owner

vars == <<online, at, stack, tradeState, tradePartner, tradeItem, tradeItems, refs, owner>>

States == {"none", "initiated", "accept", "acknowledge"}

(***************************************************************************)
(* The one type invariant.                                                 *)
(***************************************************************************)
TypeOK ==
    /\ online \in SUBSET Players
    /\ at \in [Items -> Places]
    /\ stack \in [Stacks -> {1, 2}]
    /\ tradeState \in [Players -> States]
    /\ tradePartner \in [Players -> Players \cup {NoPlayer}]
    /\ tradeItem \in [Players -> Items \cup {NoItem}]
    /\ tradeItems \in [Items -> Players \cup {NoPlayer}]
    /\ refs \in [Items -> Nat]
    /\ owner \in [Houses -> Players \cup {NoPlayer}]

Init ==
    /\ online = {}
    /\ at = [i \in Items |-> IF i \in Things THEN Floor ELSE Nowhere]
    /\ stack = [i \in Stacks |-> 1]
    /\ tradeState = [p \in Players |-> "none"]
    /\ tradePartner = [p \in Players |-> NoPlayer]
    /\ tradeItem = [p \in Players |-> NoItem]
    /\ tradeItems = [i \in Items |-> NoPlayer]
    /\ refs = [i \in Items |-> 0]
    /\ owner = [h \in Houses |-> NoPlayer]

(* What the operations change, so that they compose like the calls.        *)
World == [at |-> at, state |-> tradeState, partner |-> tradePartner, item |-> tradeItem,
          tradeItems |-> tradeItems, refs |-> refs]

Become(w) == /\ at' = w.at
             /\ tradeState' = w.state
             /\ tradePartner' = w.partner
             /\ tradeItem' = w.item
             /\ tradeItems' = w.tradeItems
             /\ refs' = w.refs

-----------------------------------------------------------------------------
(* Where things are.                                                       *)

\* The containers an item is in, from the nearest outwards, and where the last is.
Holders(a, i) ==
    LET up[n \in 0 .. Cardinality(Things)] ==
            IF n = 0 THEN {a[i]} ELSE up[n - 1] \cup {a[c] : c \in up[n - 1] \cap Things}
    IN up[Cardinality(Things)]

Inside(a, i, c) == c \in Holders(a, i)

AtHand(a, p, i) == Holders(a, i) \cap {p, Floor} # {}

InWorld(i) == Holders(at, i) \cap (Players \cup {Floor}) # {}

-----------------------------------------------------------------------------
(* Closing a trade.                                                        *)

\* The items leave the map of the game, and their references are given back.
Release(w, offered) ==
    LET listed == {i \in offered : w.tradeItems[i] # NoPlayer}
    IN [w EXCEPT !.tradeItems = [i \in Items |-> IF i \in listed THEN NoPlayer ELSE w.tradeItems[i]],
                 !.refs = [i \in Items |-> IF i \in listed THEN w.refs[i] - 1 ELSE w.refs[i]]]

Reset(w, ps) ==
    [w EXCEPT !.state   = [p \in Players |-> IF p \in ps THEN "none" ELSE w.state[p]],
              !.partner = [p \in Players |-> IF p \in ps THEN NoPlayer ELSE w.partner[p]],
              !.item    = [p \in Players |-> IF p \in ps THEN NoItem ELSE w.item[p]]]

\* Item::onTradeEvent: of the items only a document does anything, it vanishes.
Discard(w, offered) ==
    [w EXCEPT !.at = [i \in Items |-> IF i \in offered \cap Houses THEN Nowhere ELSE w.at[i]]]

Offered(w, ps) == {w.item[p] : p \in ps} \ {NoItem}

\* Mutant of Close: the partner is not told.
CloseOneSided(w, ps) ==
    Reset(Discard(Release(w, Offered(w, ps)), Offered(w, ps)), ps)

\* Game::internalCloseTrade, of every player of a set.
Close(w, ps) ==
    LET both == ps \cup ({w.partner[p] : p \in ps} \ {NoPlayer})
    IN Reset(Discard(Release(w, Offered(w, both)), Offered(w, both)), both)

-----------------------------------------------------------------------------
(* The hooks: whose trade is closed when something happens to an item.     *)

\* Mutant of Touches: only what lies directly in the item offered.
TouchesDirectly(a, i, t) == i = t \/ a[i] = t

\* Player::checkTradeState
Touches(a, i, t) == i = t \/ Inside(a, i, t)

\* Who is told what happens to i, of those that offer something: the player whose
\* inventory it is in, or everyone near; nobody is near what is lost.
Told(w, p, i) ==
    /\ w.item[p] # NoItem
    /\ w.at[i] \in Players => p = w.at[i]
    /\ ~Inside(w.at, i, Lost)

\* The hooks of an update, where the item is.
Updated(w, i) == {p \in Players : Told(w, p, i) /\ Touches(w.at, i, w.item[p])}

\* Mutant of Removed: a container may go with an offered item in it.
RemovedOnly(w, i) == Updated(w, i)

\* onRemoveInventoryItem, onRemoveTileItem, onRemoveContainerItem
Removed(w, i) ==
    LET c == w.at[i] IN
    Updated(w, i) \cup
    {p \in Players : /\ Told(w, p, i)
                     /\ IF c \in Containers
                        THEN w.at[w.item[p]] # c /\ Inside(w.at, w.item[p], c)
                        ELSE Inside(w.at, w.item[p], i)}

\* onAddContainerItem
Added(w, i) == IF w.at[i] \in Containers THEN Updated(w, i) ELSE {}

\* Game::internalMoveItem; the players of busy are in TRADE_TRANSFER.
MoveTo(w, i, place, busy) ==
    LET taken == Close(w, Removed(w, i) \ busy)
        put   == [taken EXCEPT !.at[i] = place]
    IN Close(put, Added(put, i) \ busy)

Move(p, i, place) ==
    /\ p \in online /\ AtHand(at, p, i)
    /\ place # at[i]
    /\ place \in Containers => AtHand(at, p, place) /\ place # i /\ ~Inside(at, place, i)
    /\ Become(MoveTo(World, i, place, {}))
    /\ UNCHANGED <<online, stack, owner>>

\* A stack grows or shrinks, or an item is transformed where it is; or is taken
\* off and put back, when it goes to the top of a tile (game.cpp:1759).
Change(i) ==
    /\ InWorld(i)
    /\ \E told \in {Updated(World, i), Removed(World, i)} : Become(Close(World, told))
    /\ stack' = [k \in Stacks |-> IF k = i THEN 3 - stack[k] ELSE stack[k]]
    /\ UNCHANGED <<online, owner>>

\* What lay in i goes with it.
Emptied(a, i, place) == [k \in Items |-> IF k \in Things /\ a[k] = i THEN place ELSE a[k]]

\* Mutant of Replaced: a tile and an inventory, too, ask about the new item.
ReplacedBefore(w, i) == Removed([w EXCEPT !.at = Emptied(w.at, i, Nowhere)], i)

\* The hooks of a replacement.  A tile and a player ask whether the old item holds
\* the offer.  A container is asked itself, and has the new item by then
\* (container.cpp:605): what lies in the old one is not found.
Replaced(w, i) ==
    Removed(IF w.at[i] \in Containers THEN [w EXCEPT !.at = Emptied(w.at, i, Lost)] ELSE w, i)

\* A transformation that makes a new item, empty, in the place of i, whose name it
\* keeps here.  The old one is released, with what it holds; an offer of something
\* in it may still stand.
Replace(i) ==
    LET closed == Close(World, Replaced(World, i)) IN
    /\ InWorld(i)
    /\ Become([closed EXCEPT
                  !.at = Emptied(closed.at, i, IF at[i] \in Containers THEN Lost ELSE Nowhere)])
    /\ stack' = [k \in Stacks |-> IF k = i THEN 3 - stack[k] ELSE stack[k]]
    /\ UNCHANGED <<online, owner>>

Destroy(i) ==
    /\ InWorld(i)
    /\ Become(MoveTo(World, i, Nowhere, {}))
    /\ UNCHANGED <<online, stack, owner>>

-----------------------------------------------------------------------------
(* Trading.                                                                *)

\* Mutant of Overlap: only the item itself.
OverlapSame(a, i, j) == i = j

\* Game::playerRequestTrade: the item is in a trade already, holds one that is,
\* or lies in one.
Overlap(a, i, j) == i = j \/ Inside(a, i, j) \/ Inside(a, j, i)

Free(p, q) ==
    /\ \/ tradeState[p] = "none"
       \/ tradeState[p] = "acknowledge" /\ tradePartner[p] = q
    /\ tradeState[q] = "none" \/ tradePartner[q] = p

\* Mutant of Offer: no reference is taken.
OfferUnreferenced(w, p, q, i) ==
    LET asks == w.state[q] = "none" IN
    [w EXCEPT !.state = [r \in Players |-> IF r = p THEN "initiated"
                                           ELSE IF r = q /\ asks THEN "acknowledge" ELSE w.state[r]],
              !.partner = [r \in Players |-> IF r = p THEN q
                                             ELSE IF r = q /\ asks THEN p ELSE w.partner[r]],
              !.item[p] = i, !.tradeItems[i] = p]

\* Game::internalStartTrade, past its guards (Free).
Offer(w, p, q, i) ==
    LET asks == w.state[q] = "none" IN
    [w EXCEPT !.state = [r \in Players |-> IF r = p THEN "initiated"
                                           ELSE IF r = q /\ asks THEN "acknowledge" ELSE w.state[r]],
              !.partner = [r \in Players |-> IF r = p THEN q
                                             ELSE IF r = q /\ asks THEN p ELSE w.partner[r]],
              !.item[p] = i, !.refs[i] = w.refs[i] + 1, !.tradeItems[i] = p]

RequestTrade(p, q, i) ==
    /\ {p, q} \subseteq online /\ p # q
    /\ AtHand(at, p, i)
    /\ \A j \in Items : tradeItems[j] # NoPlayer => ~Overlap(at, i, j)
    /\ Free(p, q)
    /\ Become(Offer(World, p, q, i))
    /\ UNCHANGED <<online, stack, owner>>

CloseTrade(p) ==
    /\ p \in online
    /\ Become(Close(World, {p}))
    /\ UNCHANGED <<online, stack, owner>>

\* Player::onCreatureMove, away from the partner or the item.
WalkAway(p) ==
    /\ p \in online /\ tradePartner[p] # NoPlayer
    /\ Become(Close(World, {p}))
    /\ UNCHANGED <<online, stack, owner>>

\* The first half of Game::playerAcceptTrade.
Accept(p) ==
    /\ p \in online
    /\ tradeState[p] \in {"acknowledge", "initiated"}
    /\ tradeState[tradePartner[p]] # "accept"
    /\ tradeState' = [tradeState EXCEPT ![p] = "accept"]
    /\ UNCHANGED <<online, at, stack, tradePartner, tradeItem, tradeItems, refs, owner>>

Agreed(p) == /\ p \in online
             /\ tradeState[p] \in {"acknowledge", "initiated"}
             /\ tradeState[tradePartner[p]] = "accept"

\* Player:onTradeAccept refuses.
AcceptRefused(p) ==
    /\ Agreed(p)
    /\ Become(Close(World, {p}))
    /\ UNCHANGED <<online, stack, owner>>

\* Where Player::queryDestination may put what q receives.
Stowage(w, q) ==
    {q} \cup {c \in Containers : /\ Inside(w.at, c, q)
                                 /\ w.item[q] # NoItem => ~Touches(w.at, c, w.item[q])}

\* Mutant of Settle: only the first of the two items leaves the map.
SettleFirst(w, p, q) == Release(w, Offered(w, {p}))

\* Both items leave the map before they are moved.
Settle(w, p, q) == Release(w, Offered(w, {p, q}))

\* One of the two moves is refused before anything has moved.
ExchangeFails(p) ==
    LET q == tradePartner[p] IN
    /\ Agreed(p)
    /\ Become(Reset(Discard(Settle(World, p, q), Offered(World, {p, q})), {p, q}))
    /\ UNCHANGED <<online, stack, owner>>

\* The items change hands; the result of the second move is not looked at.  One that
\* is lost is still found in the old container until Game::cleanup releases that,
\* soon but at a time left open; from then on ExchangeFails is what happens.
\* A house goes to the partner of the one who offered its document, and the
\* players in it are put out, which may end their trades.
Exchange(p) ==
    LET q == tradePartner[p]
        i == tradeItem[p]
        j == tradeItem[q]
        settled == Settle(World, p, q)
    IN /\ Agreed(p)
       /\ NoItem \notin {i, j}
       /\ \E place \in Stowage(settled, q), kicked \in SUBSET (Players \ {p, q}) :
            LET first == MoveTo(settled, i, place, {p, q}) IN
            \E last \in {first} \cup
                        {MoveTo(first, j, back, {p, q}) : back \in Stowage(first, p)} :
                Become(Reset(Discard(IF {i, j} \cap Houses = {} THEN last ELSE Close(last, kicked),
                                     {i, j}), {p, q}))
       /\ owner' = [h \in Houses |-> IF h = i THEN q ELSE IF h = j THEN p ELSE owner[h]]
       /\ UNCHANGED <<online, stack>>

-----------------------------------------------------------------------------
(* Houses.                                                                 *)

OwnsHouse(p) == \E h \in Houses : owner[h] = p

\* house:startTrade, from the !sellhouse command.
SellHouse(p, q, h) ==
    /\ {p, q} \subseteq online /\ p # q
    /\ owner[h] = p
    /\ ~OwnsHouse(q)
    /\ at[h] = Nowhere
    /\ Free(p, q)
    /\ Become(Offer([World EXCEPT !.at[h] = p], p, q, h))
    /\ UNCHANGED <<online, stack, owner>>

BuyHouse(p, h) ==
    /\ p \in online
    /\ owner[h] = NoPlayer
    /\ ~OwnsHouse(p)
    /\ owner' = [owner EXCEPT ![h] = p]
    /\ UNCHANGED <<online, at, stack, tradeState, tradePartner, tradeItem, tradeItems, refs>>

\* The players in the house are put out.
LeaveHouse(p, h) ==
    /\ p \in online
    /\ owner[h] = p
    /\ \E kicked \in SUBSET Players : Become(Close(World, kicked))
    /\ owner' = [owner EXCEPT ![h] = NoPlayer]
    /\ UNCHANGED <<online, stack>>

Login(p) == /\ p \notin online
            /\ online' = online \cup {p}
            /\ UNCHANGED <<at, stack, tradeState, tradePartner, tradeItem, tradeItems, refs, owner>>

\* Player::onRemoveCreature
Logout(p) ==
    /\ p \in online
    /\ Become(IF tradePartner[p] = NoPlayer THEN World ELSE Close(World, {p}))
    /\ online' = online \ {p}
    /\ UNCHANGED <<stack, owner>>

Next ==
    \/ \E i \in Things : Change(i) \/ Replace(i) \/ Destroy(i)
    \/ \E p \in Players :
        \/ Login(p) \/ Logout(p)
        \/ CloseTrade(p) \/ WalkAway(p)
        \/ Accept(p) \/ AcceptRefused(p) \/ ExchangeFails(p) \/ Exchange(p)
        \/ \E i \in Things, place \in {p, Floor} \cup Containers : Move(p, i, place)
        \/ \E q \in Players, i \in Things : RequestTrade(p, q, i)
        \/ \E q \in Players, h \in Houses : SellHouse(p, q, h)
        \/ \E h \in Houses : BuyHouse(p, h) \/ LeaveHouse(p, h)

Spec == Init /\ [][Next]_vars

-----------------------------------------------------------------------------
(* Properties.                                                             *)

(***************************************************************************)
(* Two players trade with each other or not at all, whatever closed a      *)
(* trade and from whichever side; one that has left the game trades with   *)
(* nobody, so no tradePartner points at a deleted player.                  *)
(***************************************************************************)
PartnersMutual ==
    \A p \in Players :
        /\ tradePartner[p] = NoPlayer <=> tradeState[p] = "none"
        /\ tradeItem[p] # NoItem => tradeState[p] \in {"initiated", "accept"}
        /\ \A q \in Players : tradePartner[p] = q => /\ tradePartner[q] = p
                                                     /\ {p, q} \subseteq online /\ p # q

(***************************************************************************)
(* The map of the game has exactly the items on offer, under the player    *)
(* that offers them, with one reference each; the document of a house      *)
(* exists exactly while it is on offer.                                    *)
(***************************************************************************)
OffersListed ==
    /\ \A i \in Items :
        /\ \A p \in Players : tradeItems[i] = p <=> tradeItem[p] = i
        /\ refs[i] = Cardinality({p \in Players : tradeItem[p] = i})
    /\ \A h \in Houses : at[h] # Nowhere <=> tradeItems[h] # NoPlayer

(***************************************************************************)
(* No item is in two offers, by itself or through a container: the check   *)
(* of playerRequestTrade, which later moves do not defeat.  And nobody     *)
(* offers what someone else has picked up, or what is destroyed:           *)
(* internalMoveItem would take it from there.  Only what lay in a          *)
(* container that was replaced inside another one stays on offer           *)
(* (container.cpp:605).                                                    *)
(***************************************************************************)
OffersApart ==
    \A p \in Players : tradeItem[p] # NoItem =>
        /\ AtHand(at, p, tradeItem[p]) \/ Inside(at, tradeItem[p], Lost)
        /\ \A q \in Players \ {p} : tradeItem[q] # NoItem =>
              /\ tradeItem[p] # tradeItem[q]
              /\ ~Inside(at, tradeItem[p], tradeItem[q])

(***************************************************************************)
(* What a player has looked at is what it gets: while an offer stands,     *)
(* nothing is put into it, taken out of it or changed in it, at any depth, *)
(* but that it may be lost, once, with what it lies in.                    *)
(***************************************************************************)
Untouched(t) ==
    \A i \in Things : (i = t \/ Inside(at, i, t) \/ Inside(at', i, t)) =>
        at'[i] = at[i] /\ (i \in Stacks => stack'[i] = stack[i])

IsLost(t) == ~Inside(at, t, Lost) /\ Inside(at', t, Lost)

OfferIsStable ==
    [][\A p \in Players :
        tradeItem[p] # NoItem /\ tradeItem'[p] = tradeItem[p] =>
            Untouched(tradeItem[p]) \/ IsLost(tradeItem[p])]_vars

(***************************************************************************)
(* Nobody owns two houses: buying one and being sold one both refuse a     *)
(* player who has one ("Trade player already owns a house.").              *)
(***************************************************************************)
OneHouseEach ==
    \A g, h \in Houses : g # h /\ owner[g] = owner[h] => owner[g] = NoPlayer
=============================================================================
