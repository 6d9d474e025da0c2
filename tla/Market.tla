------------------------------- MODULE Market -------------------------------
(***************************************************************************)
(* The market: playerCreateMarketOffer, playerCancelMarketOffer and        *)
(* playerAcceptMarketOffer of game.cpp, and the return of expired offers   *)
(* of iomarket.cpp.                                                        *)
(*                                                                         *)
(* The offers are rows of the database, read and changed by the dispatcher *)
(* while it runs an operation.  The expired ones are found by a query of   *)
(* the database thread, whose result comes to the dispatcher as a task,    *)
(* some operations later.  A player who is online is an object in memory,  *)
(* loaded at login and saved at logout; one who is not is a row.           *)
(*                                                                         *)
(* Left out: who stands at a market and has waited three seconds, the      *)
(* limit on the number of offers, items that are not to be traded,         *)
(* history and statistics, failing queries, and offers of store coins.     *)
(***************************************************************************)
EXTENDS Integers, Sequences, FiniteSets, Functions, FiniteSetsExt

CONSTANTS
    Players,
    Amounts,     \* the amounts asked for
    Prices,      \* the prices of one piece
    Fee,         \* of an offer; 20 to 1000 gold, by its value, in the code
    Wealth,      \* what each player has in the beginning
    MaxOffers,   \* a bound on the offers ever made
    MaxChecks    \* a bound on the checks for expired offers under way

Purses == [bank : Nat, cash : Nat, goods : Nat]

ASSUME MarketAssumption ==
    /\ IsFiniteSet(Players)
    /\ Amounts \subseteq Nat \ {0} /\ Prices \subseteq Nat \ {0}
    /\ Fee \in Nat \ {0}
    /\ Wealth \in [Players -> Purses]
    /\ MaxOffers \in Nat /\ MaxChecks \in Nat

VARIABLES
    offers,      \* market_offers, by id
    nextId,      \* the id that the next row gets
    mem,         \* the players online, as they are in memory
    saved,       \* the rows of the players
    queries,     \* queries for expired offers that wait for the database thread
    results,     \* tasks with their results that wait for the dispatcher
    ledger       \* history: gold and goods that were made (or lost, if negative)

world == <<mem, saved>>
vars  == <<offers, nextId, mem, saved, queries, results, ledger>>

Ids == 1 .. MaxOffers

Offers == [owner : Players, sale : BOOLEAN, amount : Nat \ {0}, price : Prices,
           expired : BOOLEAN]

(***************************************************************************)
(* The one type invariant.  An offer has something left, or is gone (the   *)
(* migration data/migrations/5.lua removes those that had nothing).        *)
(***************************************************************************)
TypeOK ==
    /\ DOMAIN offers \subseteq Ids /\ \A i \in DOMAIN offers : offers[i] \in Offers
    /\ nextId \in 1 .. MaxOffers + 1 /\ \A i \in DOMAIN offers : i < nextId
    /\ DOMAIN mem \subseteq Players /\ \A p \in DOMAIN mem : mem[p] \in Purses
    /\ saved \in [Players -> Purses]
    /\ queries \in 0 .. MaxChecks
    /\ \A k \in DOMAIN results :
          /\ DOMAIN results[k] \subseteq Ids
          /\ \A i \in DOMAIN results[k] : results[k][i] \in Offers
    /\ ledger \in [gold : Int, goods : Int]

Init ==
    /\ offers = <<>> /\ nextId = 1
    /\ mem = <<>> /\ saved = Wealth
    /\ queries = 0 /\ results = <<>>
    /\ ledger = [gold |-> 0, goods |-> 0]

-----------------------------------------------------------------------------

Book(gold, goods) ==
    ledger' = [gold |-> ledger.gold + gold, goods |-> ledger.goods + goods]

World == [mem |-> mem, saved |-> saved]
Become(w) == mem' = w.mem /\ saved' = w.saved

Online(w, p) == p \in DOMAIN w.mem
Purse(w, p) == IF Online(w, p) THEN w.mem[p] ELSE w.saved[p]
Holding(p) == Purse(World, p)

Money(purse) == purse.bank + purse.cash
Has(p, what) == mem[p][what]

\* Mutant of Give: the row is updated, although the player is online.
GiveRow(w, p, what, n) == [w EXCEPT !.saved[p][what] = @ + n]

\* bankBalance or the inbox of the object; else increaseBankBalance, or the inbox
\* of a player that is loaded for it and saved.
Give(w, p, what, n) ==
    IF Online(w, p) THEN [w EXCEPT !.mem[p][what] = @ + n]
                    ELSE [w EXCEPT !.saved[p][what] = @ + n]

Take(w, p, what, n) == [w EXCEPT !.mem[p][what] = @ - n]

\* Game::removeMoney from items and bank.  Stacks are taken while they are worth
\* less than what is left to be paid; the one that is not is worth the rest or
\* more, and then the rest is taken from the bank as well, if it is there.
Paid(purse, sum, rest) ==
    IF purse.cash < sum
    THEN [purse EXCEPT !.cash = 0, !.bank = @ - (sum - purse.cash)]
    ELSE [purse EXCEPT !.cash = @ - sum, !.bank = IF @ >= rest THEN @ - rest ELSE @]

RemoveMoney(w, p, sum, rest) == [w EXCEPT !.mem[p] = Paid(w.mem[p], sum, rest)]

TakenTwice(p, sum, rest) ==
    IF Has(p, "cash") >= sum /\ Has(p, "bank") >= rest THEN rest ELSE 0

Without(f, S) == Restrict(f, DOMAIN f \ S)
With(f, k, v) == [x \in DOMAIN f \cup {k} |-> IF x = k THEN v ELSE f[x]]

Insert(row) ==
    /\ nextId <= MaxOffers
    /\ offers' = With(offers, nextId, row)
    /\ nextId' = nextId + 1

Offer(p, sale, n, price) ==
    [owner |-> p, sale |-> sale, amount |-> n, price |-> price, expired |-> FALSE]

CreateSell(p, n, price) ==
    /\ p \in DOMAIN mem
    /\ Has(p, "bank") + Has(p, "cash") >= Fee
    /\ Has(p, "goods") >= n
    /\ \E rest \in 1 .. Fee :
        /\ Become(Take(RemoveMoney(World, p, Fee, rest), p, "goods", n))
        /\ Book(-Fee - TakenTwice(p, Fee, rest), 0)
    /\ Insert(Offer(p, TRUE, n, price))
    /\ UNCHANGED <<queries, results>>

CreateBuy(p, n, price) ==
    LET sum == price * n + Fee IN
    /\ p \in DOMAIN mem
    /\ Has(p, "bank") + Has(p, "cash") >= sum
    /\ \E rest \in 1 .. sum :
        /\ Become(RemoveMoney(World, p, sum, rest))
        /\ Book(-Fee - TakenTwice(p, sum, rest), 0)
    /\ Insert(Offer(p, FALSE, n, price))
    /\ UNCHANGED <<queries, results>>

\* What an offer gives back of n pieces: gold paid in advance, or goods.
Refund(w, o, n) ==
    IF o.sale THEN Give(w, o.owner, "goods", n)
              ELSE Give(w, o.owner, "bank", o.price * n)

Cancel(i) ==
    /\ offers[i].owner \in DOMAIN mem
    /\ Become(Refund(World, offers[i], offers[i].amount))
    /\ offers' = Without(offers, {i})
    /\ UNCHANGED <<nextId, queries, results, ledger>>

\* Mutant of Accepted: the row is updated even if nothing is left.
AcceptedInPart(i, n) == [offers EXCEPT ![i].amount = @ - n]

\* IOMarket::deleteOffer or acceptOffer
Accepted(i, n) ==
    IF offers[i].amount = n THEN Without(offers, {i})
                            ELSE [offers EXCEPT ![i].amount = @ - n]

\* p sells to the one who offered to buy.
AcceptBuy(p, i, n) ==
    LET o == offers[i] IN
    /\ p \in DOMAIN mem
    /\ ~o.sale /\ n <= o.amount
    /\ Has(p, "goods") >= n
    /\ Become(Give(Give(Take(World, p, "goods", n), p, "bank", o.price * n),
                   o.owner, "goods", n))
    /\ offers' = Accepted(i, n)
    /\ UNCHANGED <<nextId, queries, results, ledger>>

\* p buys from the one who offered to sell.
AcceptSell(p, i, n) ==
    LET o == offers[i] IN
    /\ p \in DOMAIN mem
    /\ o.sale /\ n <= o.amount
    /\ Has(p, "bank") >= o.price * n
    /\ Become(Give(Give(Take(World, p, "bank", o.price * n), p, "goods", n),
                   o.owner, "bank", o.price * n))
    /\ offers' = Accepted(i, n)
    /\ UNCHANGED <<nextId, queries, results, ledger>>

-----------------------------------------------------------------------------
(* Expired offers.                                                         *)

\* marketOfferDuration, thirty days, has passed.
Expire(i) ==
    /\ ~offers[i].expired
    /\ offers' = [offers EXCEPT ![i].expired = TRUE]
    /\ UNCHANGED <<nextId, world, queries, results, ledger>>

\* IOMarket::checkExpiredOffers, which the scheduler calls again and again.
CheckExpiredOffers ==
    /\ queries + Len(results) < MaxChecks
    /\ queries' = queries + 1
    /\ UNCHANGED <<offers, nextId, world, results, ledger>>

\* The database thread runs the query and hands the result over.
RunQuery ==
    /\ queries > 0
    /\ queries' = queries - 1
    /\ results' = Append(results, Without(offers, {i \in DOMAIN offers : ~offers[i].expired}))
    /\ UNCHANGED <<offers, nextId, world, ledger>>

\* Mutant of Movable: a row counts as moved, although it was not there.
MovableAnyway(result) == DOMAIN result

\* Mutant of Movable: offers of players who are offline are left for later.
MovableOnline(result) == {i \in DOMAIN result \cap DOMAIN offers : result[i].owner \in DOMAIN mem}

\* The rows that moveOfferToHistory still finds.
Movable(result) == DOMAIN result \cap DOMAIN offers

\* IOMarket::processExpiredOffers goes by the amounts of the result, not by those
\* of the rows it moves.
ProcessExpiredOffers ==
    LET result == Head(results)
        moved  == Movable(result)
        Overtaken(sale) == {i \in moved \cap DOMAIN offers : result[i].sale = sale}
        Stale(i) == result[i].amount - offers[i].amount
    IN
    /\ results # <<>>
    /\ results' = Tail(results)
    /\ offers' = Without(offers, moved)
    /\ Become(FoldSet(LAMBDA i, w : Refund(w, result[i], result[i].amount), World, moved))
    /\ Book(SumFunction([i \in Overtaken(FALSE) |-> Stale(i) * result[i].price]),
            SumFunction([i \in Overtaken(TRUE) |-> Stale(i)]))
    /\ UNCHANGED <<nextId, queries>>

-----------------------------------------------------------------------------
(* Players and the server come and go.                                     *)

Login(p) ==
    /\ p \notin DOMAIN mem
    /\ mem' = With(mem, p, saved[p])
    /\ UNCHANGED <<offers, nextId, saved, queries, results, ledger>>

Logout(p) ==
    /\ p \in DOMAIN mem
    /\ saved' = [saved EXCEPT ![p] = mem[p]]
    /\ mem' = Without(mem, {p})
    /\ UNCHANGED <<offers, nextId, queries, results, ledger>>

\* Game::saveGameState; its flush of the waiting queries is RunQuery, next.
Save ==
    /\ saved' = [p \in Players |-> Holding(p)]
    /\ UNCHANGED <<offers, nextId, mem, queries, results, ledger>>

\* The server ends without saving, and starts again: the offers are as they were.
Crash ==
    /\ mem' = <<>> /\ queries' = 0 /\ results' = <<>>
    /\ Book(SumFunction([p \in DOMAIN mem |-> Money(saved[p]) - Money(mem[p])]),
            SumFunction([p \in DOMAIN mem |-> saved[p].goods - mem[p].goods]))
    /\ UNCHANGED <<offers, nextId, saved>>

-----------------------------------------------------------------------------

Operation ==
    \E p \in Players, n \in Amounts :
        \/ \E price \in Prices : CreateSell(p, n, price) \/ CreateBuy(p, n, price)
        \/ \E i \in DOMAIN offers : AcceptBuy(p, i, n) \/ AcceptSell(p, i, n)
Next ==
    \/ Operation
    \/ \E i \in DOMAIN offers : Cancel(i) \/ Expire(i)
    \/ CheckExpiredOffers \/ RunQuery \/ ProcessExpiredOffers
    \/ \E p \in Players : Login(p) \/ Logout(p)
    \/ Save \/ Crash

Spec == Init /\ [][Next]_vars

FairSpec ==
    /\ Spec
    /\ WF_vars(CheckExpiredOffers) /\ WF_vars(RunQuery) /\ WF_vars(ProcessExpiredOffers)
    /\ <>[][~Crash]_vars

-----------------------------------------------------------------------------
(* Properties.                                                             *)

(***************************************************************************)
(* Gold and goods move between players, offers, memory and database, and   *)
(* none is lost or made, whoever is online, in whatever order offers are   *)
(* made, accepted in part, cancelled, and expire, but by what the ledger   *)
(* has: the fees; what removeMoney takes twice; what                       *)
(* processExpiredOffers gives back although it was sold between the query  *)
(* and its result; and what a crash undoes in players while the offers     *)
(* stay.                                                                   *)
(***************************************************************************)
Gold ==
    SumFunction([p \in Players |-> Money(Holding(p))])
    + SumFunction([i \in {i \in DOMAIN offers : ~offers[i].sale} |-> offers[i].price * offers[i].amount])

Goods ==
    SumFunction([p \in Players |-> Holding(p).goods])
    + SumFunction([i \in {i \in DOMAIN offers : offers[i].sale} |-> offers[i].amount])

Conserved ==
    /\ Gold = SumFunction([p \in Players |-> Money(Wealth[p])]) + ledger.gold
    /\ Goods = SumFunction([p \in Players |-> Wealth[p].goods]) + ledger.goods

(***************************************************************************)
(* What was set aside for an offer does not stay there: an offer that has  *)
(* expired is given back (or taken, or cancelled), however many checks,    *)
(* logins and other operations come in between.                            *)
(***************************************************************************)
ExpiredComesBack ==
    \A i \in Ids : (i \in DOMAIN offers /\ offers[i].expired) ~> i \notin DOMAIN offers
=============================================================================
