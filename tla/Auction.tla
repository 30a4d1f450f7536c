------------------------------ MODULE Auction ------------------------------
(***************************************************************************)
(* Homes, relics and the auction house in which players sell them to each  *)
(* other: the calls property, collectible, auction and bankruptcy of       *)
(* economy_game_action, and what economy_tick_all does with auctions that  *)
(* ended, rents and mortgages.                                             *)
(*                                                                         *)
(* The fields of db are the containers of the code; vectors of listings    *)
(* and homes, which only grow at the end and keep their order, are         *)
(* functions of the identifier.  Prices, the daily rent and the credit     *)
(* score that a mortgage asks for depend on parts of the game left out     *)
(* here: prices are choices from small sets, the rest is always granted.   *)
(* All homes are of one tier.  Time is in days.                            *)
(***************************************************************************)
EXTENDS GameCall

CONSTANTS
  Accounts,       \* players in guilds, <<guild, player>>
  Nobody,         \* no highest bidder
  LegacyRelics,   \* relics an old database holds without serial numbers
  LegacyHomes,    \* accounts with a home from before homes were recorded
  Debtors,        \* accounts with debt enough for bankruptcy
  InitialWallet,  \* of each account
  InitialChecking,
  WalletCap,      \* kMaximumTransaction
  Spared,         \* 5000: what bankruptcy leaves
  HomePrices,     \* values of a home on the market
  RelicPrices,
  Rent,           \* of one home for one day
  MinPayment,     \* 1000
  MinLateFee,     \* 500
  MinStep,        \* 100: the least by which a bid is raised
  Upkeep,         \* price of maintenance
  MaxHoldings,    \* 5
  MaxListings,    \* 10
  MaxPeriods,     \* 7: payments one tick makes up for
  MaxRentDays,    \* 30
  MaxMissed,      \* 3
  Quantities,     \* of relics, typed in
  Reserves,       \* typed in
  Buyouts,        \* typed in, 0 for none
  Bids,           \* typed in
  Durations,      \* typed in, 1 to 3 days
  MaxHomes,       \* bound: homes ever
  MaxRelics       \* bound: relics at a time

Guild(a) == a[1]
Player(a) == a[2]

ASSUME AuctionAssumption ==
  /\ {InitialChecking, WalletCap, Spared, Rent, MinPayment,
      MinLateFee, MinStep, Upkeep, MaxHoldings, MaxListings, MaxPeriods,
      MaxRentDays, MaxMissed, MaxHomes, MaxRelics} \subseteq Nat
  /\ 0 < MinPayment /\ 0 < MinStep /\ 0 < Upkeep /\ 0 < MaxMissed
  /\ Quantities \cup Reserves \cup Bids \cup HomePrices \cup RelicPrices \subseteq Nat \ {0}
  /\ Buyouts \subseteq Nat /\ Durations \subseteq 1..3
  /\ {InitialWallet, LegacyRelics} \subseteq [Accounts -> Nat]
  /\ LegacyHomes \cup Debtors \subseteq Accounts /\ IsFiniteSet(Accounts)
  /\ \E most \in HomePrices : \A v \in HomePrices : v <= most
  /\ Tick \notin Accounts /\ Nobody \notin Accounts

Home == [owner : Accounts, price : Nat, mortgage : Nat, due : Nat,
         missed : Nat, rented : Nat, value : Nat, listed : BOOLEAN]
Relic == [owner : Accounts, auction : Nat]
Listing == [seller : Accounts, relics : Nat, home : Nat, reserve : Nat,
            buyout : Nat, bidder : Accounts \cup {Nobody}, bid : Nat, end : Nat]

HomesOf(s, a) == {h \in DOMAIN s.homes : s.homes[h].owner = a}

\* A relic that a may trade.
Free(a) == [owner |-> a, auction |-> 0]
Unlisted(s, a) == {k \in DOMAIN s.relics : s.relics[k] = Free(a)}

\* recalculate_property_level.
Level(s, a) == IF HomesOf(s, a) = {} THEN 0 ELSE 1

-----------------------------------------------------------------------------
(* What a call may find unrecorded *)

NewHome(a, price, mortgage, due) ==
  [owner |-> a, price |-> price, mortgage |-> mortgage, due |-> due, missed |-> 0,
   rented |-> now, value |-> price, listed |-> FALSE]

\* materialize_legacy_property: from a level without a home, a home.
WithHome(s, a) ==
  IF s.level[a] = 0 \/ HomesOf(s, a) # {} THEN s
  ELSE [s EXCEPT
         !.homes = With(@, s.nextHome, NewHome(a, Max(HomePrices), 0, 0)),
         !.nextHome = @ + 1,
         !.granted[a] = @ + 1]

NewRelics(a, n) == [k \in 1..n |-> Free(a)]

\* materialize_collectibles: as many serial numbers as the account has relics.
WithSerials(s, a) ==
  [s EXCEPT !.relics =
     @ \o NewRelics(a, Larger(0, s.count[a] - Cardinality(Unlisted(s, a))))]

Recorded(s, a) == WithSerials(WithHome(s, a), a)

-----------------------------------------------------------------------------
(* settle_auction *)

\* The first n unlisted relics of an account.
FirstUnlisted(s, a, n) ==
  {k \in Unlisted(s, a) : Cardinality({j \in Unlisted(s, a) : j < k}) < n}

Escrowed(s, id) == {k \in DOMAIN s.relics : s.relics[k].auction = id}

RelicsTo(s, id, a) ==
  [s EXCEPT
    !.count[a] = @ + s.auctions[id].relics,
    !.relics = [k \in DOMAIN @ |-> IF k \in Escrowed(s, id) THEN Free(a) ELSE @[k]]]

\* Nobody bid, or the seller cancelled.
Returned(s, id) ==
  LET l == s.auctions[id]
  IN IF l.home = 0 THEN RelicsTo(s, id, l.seller)
     ELSE IF l.home \in DOMAIN s.homes THEN [s EXCEPT !.homes[l.home].listed = FALSE]
     ELSE s

Fee(bid) == Larger(1, bid \div 50)

\* What the sale of a home pays to the bank.
Payoff(s, l) ==
  IF l.home = 0 \/ l.home \notin DOMAIN s.homes THEN 0
  ELSE Smaller(s.homes[l.home].mortgage, Larger(0, l.bid - Fee(l.bid)))

\* The home in the hands of a.
Passed(home, a, payoff) ==
  [home EXCEPT !.owner = a, !.listed = FALSE, !.mortgage = @ - payoff,
               !.due = 0, !.missed = 0]

\* Mutated: the level of the seller is not recalculated.
HomeToStaleLevel(s, h, a, payoff) ==
  [s EXCEPT !.homes[h] = Passed(@, a, payoff), !.level[a] = 1]

HomeTo(s, h, a, payoff) ==
  LET seller == s.homes[h].owner
      moved == [s EXCEPT !.homes[h] = Passed(@, a, payoff)]
  IN [moved EXCEPT !.level[seller] = Level(moved, seller), !.level[a] = Level(moved, a)]

Sold(s, id) ==
  LET l == s.auctions[id]
      payoff == Payoff(s, l)
      paid == [s EXCEPT !.wallet[l.seller] = @ + l.bid - Fee(l.bid) - payoff,
                        !.outside = @ + Fee(l.bid) + payoff]
  IN IF l.home = 0 THEN RelicsTo(paid, id, l.bidder)
     ELSE IF l.home \in DOMAIN s.homes THEN HomeTo(paid, l.home, l.bidder, payoff)
     ELSE paid

\* The listing leaves the book with it.
Settle(s, id) ==
  LET settled == IF s.auctions[id].bidder = Nobody THEN Returned(s, id) ELSE Sold(s, id)
  IN [settled EXCEPT !.auctions = Without(@, id)]

\* The escrow of the highest bidder goes back.
Refund(s, id) ==
  LET l == s.auctions[id]
  IN IF l.bidder = Nobody THEN s ELSE [s EXCEPT !.wallet[l.bidder] = @ + l.bid]

\* Foreclosure and bankruptcy take listings out of the book.
Withdraw(s, id) == [Refund(s, id) EXCEPT !.auctions = Without(@, id)]
Withdrawn(s, on) == FoldLeft(Withdraw, s, InOrder(on))

-----------------------------------------------------------------------------
(* A call of a player *)

\* A refused call, or one of another part of the game, that finds something
\* unrecorded; one that does not has no effect here.
Refuse(a) == Idle /\ Recorded(db, a) # db /\ Call(a, Recorded(db, a))

\* Mutated: the wallet is not asked.
CoversAny(s, a, amount) == amount > 0

\* need_cash
Covers(s, a, amount) == amount > 0 /\ s.wallet[a] >= amount

\* amount goes to the market, the treasury or the bank; a negative one comes
\* from there.
Spend(s, a, amount) == [s EXCEPT !.wallet[a] = @ - amount, !.outside = @ + amount]

BuyHome(a, price, mortgaged) ==
  LET s == Recorded(db, a)
      down == IF mortgaged THEN price \div 5 ELSE price
  IN /\ Idle
     /\ Cardinality(HomesOf(s, a)) < MaxHoldings
     /\ s.nextHome <= MaxHomes
     /\ Covers(s, a, down)
     /\ Call(a, [Spend(s, a, down) EXCEPT
          !.homes = With(@, s.nextHome,
             NewHome(a, price, price - down, IF mortgaged THEN now + 1 ELSE 0)),
          !.nextHome = @ + 1,
          !.level[a] = 1])

Maintain(a, h) ==
  LET s == Recorded(db, a)
  IN /\ Idle
     /\ h \in HomesOf(s, a)
     /\ Covers(s, a, Upkeep)
     /\ \E value \in HomePrices : Call(a, [Spend(s, a, Upkeep) EXCEPT !.homes[h].value = value])

\* To the market: a listed home, or one worth less than its mortgage, stays.
SellHome(a, h) ==
  LET s == Recorded(db, a)
      home == s.homes[h]
      proceeds == home.value - home.mortgage - home.value \div 25
      sold == [Spend(s, a, -proceeds) EXCEPT !.homes = Without(@, h)]
  IN /\ Idle
     /\ h \in HomesOf(s, a)
     /\ ~home.listed
     /\ proceeds >= 0
     /\ Call(a, [sold EXCEPT !.level[a] = Level(sold, a)])

BuyRelics(a, n, price) ==
  LET s == Recorded(db, a)
  IN /\ Idle
     /\ Len(s.relics) + n <= MaxRelics
     /\ Covers(s, a, price * n)
     /\ Call(a, [Spend(s, a, price * n) EXCEPT !.count[a] = @ + n,
                                               !.relics = @ \o NewRelics(a, n)])

Kept(relics, gone) ==
  LET left == InOrder(DOMAIN relics \ gone)
  IN [k \in DOMAIN left |-> relics[left[k]]]

SellRelics(a, n, price) ==
  LET s == Recorded(db, a)
  IN /\ Idle
     /\ s.count[a] >= n
     /\ Call(a, [Spend(s, a, -price * n) EXCEPT
                   !.count[a] = @ - n,
                   !.relics = Kept(@, FirstUnlisted(s, a, n))])

\* Mutated: the count of the guild it comes from stays.
MoveRelicCopies(a, k) ==
  LET s == Recorded(db, a)
      origin == s.relics[k].owner
  IN /\ Idle
     /\ k \in DOMAIN s.relics
     /\ s.relics[k].auction = 0
     /\ Player(origin) = Player(a) /\ Guild(origin) # Guild(a)
     /\ Call(a, [s EXCEPT !.count[a] = @ + 1, !.relics[k].owner = a])

\* A relic follows its owner into another guild.
MoveRelic(a, k) ==
  LET s == Recorded(db, a)
      origin == s.relics[k].owner
  IN /\ Idle
     /\ k \in DOMAIN s.relics
     /\ s.relics[k].auction = 0
     /\ Player(origin) = Player(a) /\ Guild(origin) # Guild(a)
     /\ Call(a, [s EXCEPT !.count[origin] = Larger(0, @ - 1), !.count[a] = @ + 1,
                          !.relics[k].owner = a])

-----------------------------------------------------------------------------
(* The auction house *)

ListingsOf(s, a) == {id \in DOMAIN s.auctions : s.auctions[id].seller = a}

MayList(s, a, reserve, buyout) ==
  /\ buyout = 0 \/ buyout >= reserve
  /\ Cardinality(ListingsOf(s, a)) < MaxListings

NewListing(a, n, h, reserve, buyout, days) ==
  [seller |-> a, relics |-> n, home |-> h, reserve |-> reserve,
   buyout |-> buyout, bidder |-> Nobody, bid |-> 0, end |-> now + days]

WithListing(s, l) ==
  [s EXCEPT !.auctions = With(@, s.nextAuction, l), !.nextAuction = @ + 1]

ListRelics(a, n, reserve, buyout, days) ==
  LET s == Recorded(db, a)
      chosen == FirstUnlisted(s, a, n)
  IN /\ Idle
     /\ MayList(s, a, reserve, buyout)
     /\ s.count[a] >= n
     /\ Call(a, WithListing(
          [s EXCEPT !.count[a] = @ - n,
                    !.relics = [k \in DOMAIN @ |-> IF k \in chosen
                                 THEN [@[k] EXCEPT !.auction = s.nextAuction] ELSE @[k]]],
          NewListing(a, n, 0, reserve, buyout, days)))

\* The reserve must cover the mortgage and the fee.
ListHome(a, h, reserve, buyout, days) ==
  LET s == Recorded(db, a)
  IN /\ Idle
     /\ MayList(s, a, reserve, buyout)
     /\ h \in HomesOf(s, a)
     /\ ~s.homes[h].listed
     /\ reserve > s.homes[h].mortgage + reserve \div 50
     /\ Call(a, WithListing([s EXCEPT !.homes[h].listed = TRUE],
                            NewListing(a, 0, h, reserve, buyout, days)))

\* An auction of that guild that has not ended and is not the caller's own.
OpenTo(s, a, id) ==
  /\ id \in DOMAIN s.auctions
  /\ Guild(s.auctions[id].seller) = Guild(a)
  /\ s.auctions[id].end > now
  /\ s.auctions[id].seller # a

Minimum(l) == IF l.bid > 0 THEN l.bid + Larger(MinStep, l.bid \div 20) ELSE l.reserve

\* The highest bidder who raises pays the difference only.
Additional(l, a, amount) == IF l.bidder = a THEN amount - l.bid ELSE amount

\* Mutated: the bidder before is refunded even when raising.
EscrowTwice(s, a, id, amount) ==
  [[Refund(s, id) EXCEPT !.wallet[a] = @ - Additional(s.auctions[id], a, amount)]
    EXCEPT !.auctions[id].bidder = a, !.auctions[id].bid = amount]

\* The bid is taken from the caller, and the one before is given back.
Escrow(s, a, id, amount) ==
  LET l == s.auctions[id]
      taken == [s EXCEPT !.wallet[a] = @ - Additional(l, a, amount)]
      given == IF l.bidder = a THEN taken ELSE Refund(taken, id)
  IN [given EXCEPT !.auctions[id].bidder = a, !.auctions[id].bid = amount]

Bid(a, id, amount) ==
  LET s == Recorded(db, a)
      l == s.auctions[id]
  IN /\ Idle
     /\ OpenTo(s, a, id)
     /\ amount >= Minimum(l)
     /\ l.buyout = 0 \/ amount < l.buyout
     /\ Covers(s, a, Additional(l, a, amount))
     /\ Call(a, Escrow(s, a, id, amount))

Buyout(a, id) ==
  LET s == Recorded(db, a)
      l == s.auctions[id]
  IN /\ Idle
     /\ OpenTo(s, a, id)
     /\ l.buyout # 0
     /\ Covers(s, a, Additional(l, a, l.buyout))
     /\ Call(a, Settle(Escrow(s, a, id, l.buyout), id))

Cancel(a, id) ==
  LET s == Recorded(db, a)
  IN /\ Idle
     /\ id \in ListingsOf(s, a)
     /\ s.auctions[id].bidder = Nobody
     /\ Call(a, Settle(s, id))

-----------------------------------------------------------------------------
(* Bankruptcy, of a caller with enough debt *)

BidsOf(s, a) == {id \in DOMAIN s.auctions : s.auctions[id].bidder = a}

\* The bids of the bankrupt leave the auctions and are lost.
BidsForfeited(s, a) ==
  [s EXCEPT
    !.auctions = [id \in DOMAIN @ |-> IF id \in BidsOf(s, a)
                   THEN [@[id] EXCEPT !.bidder = Nobody, !.bid = 0] ELSE @[id]],
    !.outside = @ + Total([id \in BidsOf(s, a) |-> s.auctions[id].bid])]

Bankruptcy(a) ==
  LET s == Recorded(db, a)
      closed == BidsForfeited(Withdrawn(s, ListingsOf(s, a)), a)
      left == Smaller(s.wallet[a], Spared)
  IN Idle /\ a \in Debtors /\ Call(a, [closed EXCEPT
       !.homes = Restrict(@, DOMAIN @ \ HomesOf(s, a)),
       !.level[a] = 0,
       !.relics = Kept(@, {k \in DOMAIN @ : @[k].owner = a}),
       !.count[a] = 0,
       !.outside = @ + s.checking[a] + s.wallet[a] - left,
       !.checking[a] = 0,
       !.wallet[a] = left])

-----------------------------------------------------------------------------
(* economy_tick_all: auctions that ended, then home by home rent and mortgage *)

RentPaid(s, h, value) ==
  LET home == s.homes[h]
      days == Smaller(now - home.rented, MaxRentDays)
  IN [Spend(s, home.owner, -Rent * days) EXCEPT
       !.homes[h].rented = @ + days, !.homes[h].value = value]

Instalment(home) ==
  Smaller(home.mortgage,
          Larger(MinPayment, home.price \div 60) + home.mortgage \div 1000)

\* The home when so much is paid of what was asked: a late fee for the rest.
Billed(home, asked, paid) ==
  LET left == home.mortgage - paid
  IN IF paid = asked
     THEN [home EXCEPT !.mortgage = left, !.missed = 0, !.due = @ + 1]
     ELSE [home EXCEPT !.mortgage = left + Larger(MinLateFee, left \div 200),
                       !.missed = @ + 1, !.due = @ + 1]

\* One payment, from checking first.
Payment(s, h) ==
  LET home == s.homes[h]
      o == home.owner
      asked == Instalment(home)
      checked == Smaller(asked, s.checking[o])
      paid == checked + Smaller(asked - checked, s.wallet[o])
  IN [s EXCEPT
       !.checking[o] = @ - checked,
       !.wallet[o] = @ - (paid - checked),
       !.outside = @ + paid,
       !.homes[h] = Billed(@, asked, paid)]

Periods(home) ==
  IF home.mortgage > 0 /\ home.due > 0 /\ now >= home.due
  THEN Smaller(MaxPeriods, 1 + now - home.due) ELSE 0

Foreclosed(home) == home.missed >= MaxMissed

\* The payments this tick makes up for, until nothing is owed or the home is lost.
PaymentOrNone(s, h) ==
  IF s.homes[h].mortgage > 0 /\ ~Foreclosed(s.homes[h]) THEN Payment(s, h) ELSE s
Collected(s, h) == FoldLeft(PaymentOrNone, s, [k \in 1..Periods(s.homes[h]) |-> h])

Seized(s, h) ==
  LET on == {id \in DOMAIN s.auctions : s.auctions[id].home = h}
      o == s.homes[h].owner
      closed == [Withdrawn(s, on) EXCEPT !.homes = Without(@, h)]
  IN [closed EXCEPT !.level[o] = Level(closed, o)]

HomeTick(s, h, value) ==
  LET t == Collected(RentPaid(s, h, value), h)
  IN IF Foreclosed(t.homes[h]) THEN Seized(t, h)
     ELSE IF t.homes[h].mortgage = 0
          THEN [t EXCEPT !.homes[h].due = 0, !.homes[h].missed = 0]
     ELSE t

Ended(s) == {id \in DOMAIN s.auctions : s.auctions[id].end <= now}

AuctionsTick(s) == FoldLeft(Settle, s, InOrder(Ended(s)))
HomesTick(s, value) ==
  FoldLeft(LAMBDA t, h : HomeTick(t, h, value), s, InOrder(DOMAIN s.homes))

\* A tick that changes nothing does not save.
TickAll ==
  \E value \in HomePrices :
    LET ticked == HomesTick(AuctionsTick(db), value)
    IN Idle /\ ticked # db /\ Call(Tick, ticked)

-----------------------------------------------------------------------------
(* The save *)

\* state_invariants_hold, as far as it concerns wallets.
Savable == \A a \in Accounts : db.wallet[a] \in 0..WalletCap

SaveSucceeds == Saved(Savable)

TickNotSaved == KeptUnsaved(Savable)

\* economy_game_action puts back the shared containers and the records of the
\* caller (those of the same player in the guild a relic came from, too); the
\* wallets, relic counts and levels of the other players stay as they are.
ActionNotSaved ==
  PutBack(Savable, [before EXCEPT
    !.wallet = [db.wallet EXCEPT ![caller] = before.wallet[caller]],
    !.count = [a \in Accounts |-> IF Player(a) = Player(caller) THEN before.count[a] ELSE db.count[a]],
    !.level = [db.level EXCEPT ![caller] = before.level[caller]]])

Save == SaveSucceeds \/ TickNotSaved \/ ActionNotSaved

-----------------------------------------------------------------------------
Init ==
  InitCall([wallet |-> InitialWallet,
           checking |-> [a \in Accounts |-> InitialChecking],
           homes |-> <<>>,
           relics |-> <<>>,
           count |-> LegacyRelics,
           level |-> [a \in Accounts |-> IF a \in LegacyHomes THEN 1 ELSE 0],
           auctions |-> <<>>,
           nextHome |-> 1,
           nextAuction |-> 1,
           outside |-> 0,                          \* history: cash gone
           granted |-> [a \in Accounts |-> 0]])    \* history: homes for levels

HomeCalls(a) ==
  \/ \E price \in HomePrices, m \in BOOLEAN : BuyHome(a, price, m)
  \/ \E h \in 1..MaxHomes : SellHome(a, h) \/ Maintain(a, h)

RelicCalls(a) ==
  \/ \E n \in Quantities, price \in RelicPrices : BuyRelics(a, n, price) \/ SellRelics(a, n, price)
  \/ \E k \in 1..MaxRelics : MoveRelic(a, k)

AuctionCalls(a) ==
  \/ \E r \in Reserves, b \in Buyouts, d \in Durations :
       \/ \E n \in Quantities : ListRelics(a, n, r, b, d)
       \/ \E h \in 1..MaxHomes : ListHome(a, h, r, b, d)
  \/ \E id \in 1..MaxCalls :
       \/ \E amount \in Bids : Bid(a, id, amount)
       \/ Buyout(a, id)
       \/ Cancel(a, id)

Next ==
  \/ \E a \in Accounts :
       Refuse(a) \/ HomeCalls(a) \/ RelicCalls(a) \/ AuctionCalls(a) \/ Bankruptcy(a)
  \/ TickAll
  \/ Save
  \/ Later

Spec == Init /\ [][Next]_vars
=============================================================================
