----------------------------- MODULE OrderBook -----------------------------
(***************************************************************************)
(* The stock exchange of one guild, for one of its stocks: limit orders    *)
(* whose cash or shares are held in escrow, the hourly market, and the     *)
(* calls that run it.                                                      *)
(*                                                                         *)
(* Each call of the extension holds g_mutex from beginning to end: it      *)
(* copies what it may have to put back, lets the market catch up hour by   *)
(* hour (update_market), walks the book once (process_orders), performs    *)
(* its action and saves.  These are the phases of a call here; the tick    *)
(* has no action and puts nothing back.  Prices are integer cents and      *)
(* every division truncates as in the code.                                *)
(*                                                                         *)
(* Companies' accounts are left out: they decide the pressure on the       *)
(* price, distress and dilution, which are free choices here.              *)
(***************************************************************************)
EXTENDS Totals, Sequences, SequencesExt

CONSTANTS
  Players,
  Tick,          \* the caller of economy_tick_all
  InitialWallet, \* starting_balance_cents
  InitialPrice,
  MinPrice,      \* the clamp on prices: 50 in the code
  MaxPrice,      \* ... and 10^9
  RelistPrice,   \* 500
  SplitAt,       \* 200000
  MinFee,        \* 25
  SpreadBasis,   \* basis points of stock_spread
  WalletCap,     \* kMaximumTransaction
  MaxShares,     \* the largest uint32_t
  MaxOrders,     \* order_cap
  Liquidity,     \* liquidity of the stock
  Pressures,     \* moves of the price, in thousandths
  Impacts,       \* moves by news, in 250ths
  Quantities,    \* quantities players type in
  Limits,        \* limit prices players type in
  MaxHours,      \* bound: hours one call catches up with
  MaxCalls,      \* bound: calls
  SavesFail      \* may the disk refuse a save?

ASSUME PriceAssumption ==
  /\ {InitialWallet, InitialPrice, MinPrice, MaxPrice, RelistPrice, SplitAt,
      MinFee, SpreadBasis, WalletCap, MaxShares, MaxOrders, Liquidity} \subseteq Nat
  /\ 0 < MinPrice
  /\ Quantities \cup Limits \subseteq Nat \ {0}
  /\ Pressures \subseteq -300..180 /\ Impacts \subseteq -250..250
  /\ MaxHours \in Nat /\ MaxCalls \in Nat /\ SavesFail \in BOOLEAN
  /\ Tick \notin Players

\* How the limits of the code lie to each other: the least fee is half the
\* least price, and stock_spread clamps the spread to 900 basis points.
ASSUME RangeAssumption ==
  /\ 1 < MinPrice /\ 2 * MinFee <= MinPrice
  /\ {InitialPrice, RelistPrice} \subseteq MinPrice..MaxPrice
  /\ SpreadBasis <= 5000
  /\ MaxShares > 0

ASSUME PlayersAssumption == IsFiniteSet(Players)

VARIABLES
  wallet,    \* wallet_cents of each player
  shares,    \* shares of the stock each player holds
  orders,    \* g_orders
  price,     \* guild.prices
  listed,    \* exchange.listed
  halted,    \* exchange.halted_until is in the future
  depth,     \* exchange.remaining_liquidity
  phase,     \* where the call is
  caller,    \* on whose behalf
  before,    \* the copies it took, <<>> once they are out of scope
  hours,     \* the hours it has caught up with
  cursor,    \* where process_orders is in the book
  calls,     \* how many calls there were
  paid,      \* history: cash that went from the players to the market
  issued,    \* history: shares that went from the market to the players
  torn       \* history: a failed action put back only part of what it changed

book == <<wallet, shares, orders>>
exchange == <<price, listed, halted, depth>>
call == <<caller, before, calls>>
history == <<paid, issued>>
vars == <<book, exchange, phase, call, hours, cursor, history, torn>>

Order == [user : Players, buy : BOOLEAN, quantity : Nat \ {0}, limit : Nat \ {0}]

Larger(a, b) == IF a < b THEN b ELSE a
Smaller(a, b) == IF a < b THEN a ELSE b

\* Integer division of the code, which truncates towards zero.
Quotient(a, b) == IF a < 0 THEN -((-a) \div b) ELSE a \div b

Clamp(p) == Larger(MinPrice, Smaller(p, MaxPrice))

-----------------------------------------------------------------------------
(* Quotes and their impact *)

Spread == Larger(2, (price * SpreadBasis) \div 10000)
Ask == price + (Spread + 1) \div 2
Bid == Larger(1, price - Spread \div 2)

Impact(n) == Larger(1, (price * n) \div Larger(1000, Liquidity * 20))

\* A fill of n shares of the book uses up depth and moves the price.
Trades(n, direction) ==
  /\ depth' = depth - n
  /\ price' = Clamp(price + direction * Impact(n))

-----------------------------------------------------------------------------
(* The beginning of a call *)

Begin(c) ==
  /\ phase = "idle" /\ calls < MaxCalls
  /\ calls' = calls + 1
  /\ caller' = c
  /\ before' = [wallet |-> wallet, shares |-> shares, orders |-> orders,
                price |-> price, listed |-> listed, halted |-> halted,
                depth |-> depth, paid |-> paid, issued |-> issued]
  /\ phase' = "market"
  /\ UNCHANGED <<book, exchange, hours, cursor, history>>

-----------------------------------------------------------------------------
(* update_market: one hour of the stock *)

InHour ==
  /\ phase = "market" /\ hours < MaxHours
  /\ hours' = hours + 1
  /\ depth' = Liquidity
  /\ halted' = FALSE
  /\ UNCHANGED <<phase, call, cursor, paid>>

\* A news story of that hour (apply_news_impact) has the last word.
News(p) == {Clamp(p + Quotient(p * i, 250)) : i \in Impacts} \cup {p}

StillDelisted ==
  /\ ~listed
  /\ InHour
  /\ price' \in News(price)
  /\ UNCHANGED <<book, listed, issued>>

\* After 24 hours of restructuring.
Relist ==
  /\ ~listed
  /\ InHour
  /\ listed' = TRUE
  /\ price' \in News(RelistPrice)
  /\ UNCHANGED <<book, issued>>

Moved == {Clamp(price + Quotient(price * m, 1000)) : m \in Pressures}

\* The twentieth of new shares that a company in debt issues.
Diluted(p) == (p * 20) \div 21

Extreme(p) == Larger(p - price, price - p) * 100 >= price * 20

Ordinary ==
  /\ listed
  /\ phase = "market" /\ hours < MaxHours
  /\ \E p \in Moved : \E q \in {p, Diluted(p)} :
       /\ q < SplitAt
       /\ price' \in News(q)
       /\ halted' = Extreme(p)
  /\ hours' = hours + 1
  /\ depth' = Liquidity
  /\ UNCHANGED <<book, listed, phase, call, cursor, history>>

Doubled(n) == IF n > MaxShares \div 2 THEN MaxShares ELSE n * 2

SplitOrder(o) ==
  [o EXCEPT !.quantity = Doubled(o.quantity), !.limit = Larger(1, o.limit \div 2)]

\* apply_stock_split
Split ==
  /\ listed
  /\ phase = "market" /\ hours < MaxHours
  /\ \E p \in Moved : \E q \in {p, Diluted(p)} :
       /\ q >= SplitAt
       /\ price' \in News(Larger(MinPrice, q \div 2))
       /\ halted' = Extreme(p)
  /\ shares' = [u \in Players |-> Doubled(shares[u])]
  /\ orders' = [k \in DOMAIN orders |-> SplitOrder(orders[k])]
  /\ issued' = issued * 2
  /\ hours' = hours + 1
  /\ depth' = Liquidity
  /\ UNCHANGED <<wallet, listed, phase, call, cursor, paid>>

Reserved(o) == IF o.buy THEN o.limit * o.quantity ELSE 0

OrdersOf(u) == {k \in DOMAIN orders : orders[k].user = u}
EscrowOf(u) == Total([k \in OrdersOf(u) |-> Reserved(orders[k])])

\* Mutated: the orders stay in the book.
DelistKeepsOrders ==
  /\ listed
  /\ InHour
  /\ listed' = FALSE
  /\ price' \in News(MinPrice)
  /\ shares' = [u \in Players |-> 0]
  /\ issued' = 0
  /\ UNCHANGED <<wallet, orders>>

\* 24 hours of distress: cancel_stock_orders gives the escrow back, and then
\* the shareholders lose their shares.
Delist ==
  /\ listed
  /\ InHour
  /\ listed' = FALSE
  /\ price' \in News(MinPrice)
  /\ wallet' = [u \in Players |-> wallet[u] + EscrowOf(u)]
  /\ orders' = <<>>
  /\ shares' = [u \in Players |-> 0]
  /\ issued' = 0

\* The hours are over, and the book is looked at from its oldest order on.
OpenBook ==
  /\ phase = "market"
  /\ phase' = "orders"
  /\ hours' = 0
  /\ UNCHANGED <<book, exchange, call, cursor, history>>

-----------------------------------------------------------------------------
(* process_orders: one order at a time *)

Current == orders[cursor]

Fillable ==
  /\ listed /\ ~halted
  /\ IF Current.buy THEN Ask <= Current.limit ELSE Bid >= Current.limit

\* How much of it: what the market has left, and what a buyer can still hold.
Fill ==
  LET n == Smaller(Current.quantity, depth)
  IN IF Current.buy THEN Smaller(n, MaxShares - shares[Current.user]) ELSE n

\* Without what was filled: an order that is complete leaves the book.
Reduced(n) ==
  IF Current.quantity = n
  THEN /\ orders' = RemoveAt(orders, cursor)
       /\ cursor' = cursor
  ELSE /\ orders' = [orders EXCEPT ![cursor].quantity = @ - n]
       /\ cursor' = cursor + 1

InBook == phase = "orders" /\ cursor <= Len(orders)

\* Mutated: the difference to the limit is not refunded.
FillBuyUnrefunded ==
  /\ InBook /\ Current.buy /\ Fillable /\ Fill > 0
  /\ shares' = [shares EXCEPT ![Current.user] = @ + Fill]
  /\ UNCHANGED wallet
  /\ Reduced(Fill)
  /\ Trades(Fill, 1)
  /\ paid' = paid + Ask * Fill
  /\ issued' = issued + Fill
  /\ UNCHANGED <<listed, halted, phase, call, hours>>

FillBuy ==
  /\ InBook /\ Current.buy /\ Fillable /\ Fill > 0
  /\ shares' = [shares EXCEPT ![Current.user] = @ + Fill]
  /\ wallet' = [wallet EXCEPT ![Current.user] = @ + (Current.limit - Ask) * Fill]
  /\ Reduced(Fill)
  /\ Trades(Fill, 1)
  /\ paid' = paid + Ask * Fill
  /\ issued' = issued + Fill
  /\ UNCHANGED <<listed, halted, phase, call, hours>>

FillSell ==
  /\ InBook /\ ~Current.buy /\ Fillable /\ Fill > 0
  /\ wallet' = [wallet EXCEPT ![Current.user] = @ + Bid * Fill]
  /\ Reduced(Fill)
  /\ Trades(Fill, -1)
  /\ paid' = paid - Bid * Fill
  /\ issued' = issued - Fill
  /\ UNCHANGED <<shares, listed, halted, phase, call, hours>>

Rests ==
  /\ InBook
  /\ ~Fillable \/ Fill = 0
  /\ cursor' = cursor + 1
  /\ UNCHANGED <<book, exchange, phase, call, hours, history>>

CloseBook ==
  /\ phase = "orders" /\ cursor > Len(orders)
  /\ phase' = IF caller = Tick THEN "save" ELSE "act"
  /\ cursor' = 1
  /\ UNCHANGED <<book, exchange, call, hours, history>>

-----------------------------------------------------------------------------
(* The action of the caller *)

InAction ==
  /\ phase = "act"
  /\ phase' = "save"
  /\ UNCHANGED <<listed, halted, call, hours, cursor>>

\* A refused action, or one of another part of the game.
NoTrade ==
  /\ InAction
  /\ UNCHANGED <<book, price, depth, history>>

MayPlace == listed /\ Cardinality(OrdersOf(caller)) < MaxOrders

\* Mutated: the wallet is not asked.
PlaceBuyOnCredit(n, l) ==
  /\ InAction /\ MayPlace
  /\ wallet' = [wallet EXCEPT ![caller] = @ - l * n]
  /\ orders' = Append(orders, [user |-> caller, buy |-> TRUE, quantity |-> n, limit |-> l])
  /\ UNCHANGED <<shares, price, depth, history>>

PlaceBuy(n, l) ==
  /\ InAction /\ MayPlace
  /\ wallet[caller] >= l * n
  /\ wallet' = [wallet EXCEPT ![caller] = @ - l * n]
  /\ orders' = Append(orders, [user |-> caller, buy |-> TRUE, quantity |-> n, limit |-> l])
  /\ UNCHANGED <<shares, price, depth, history>>

PlaceSell(n, l) ==
  /\ InAction /\ MayPlace
  /\ shares[caller] >= n
  /\ shares' = [shares EXCEPT ![caller] = @ - n]
  /\ orders' = Append(orders, [user |-> caller, buy |-> FALSE, quantity |-> n, limit |-> l])
  /\ UNCHANGED <<wallet, price, depth, history>>

\* The shares come back without a test: uint32_t wraps.
Cancel(k) ==
  /\ InAction
  /\ k \in OrdersOf(caller)
  /\ wallet' = [wallet EXCEPT ![caller] = @ + Reserved(orders[k])]
  /\ shares' = IF orders[k].buy THEN shares
               ELSE [shares EXCEPT ![caller] = (@ + orders[k].quantity) % (MaxShares + 1)]
  /\ orders' = RemoveAt(orders, k)
  /\ UNCHANGED <<price, depth, history>>

Open == listed /\ ~halted /\ depth > 0
Fee(value) == Larger(MinFee, value \div 500)

MarketBuy(n) ==
  LET fill == Smaller(n, depth)
      cost == Ask * fill + Fee(Ask * fill)
  IN /\ InAction /\ Open
     /\ wallet[caller] >= cost
     /\ shares[caller] <= MaxShares - fill
     /\ wallet' = [wallet EXCEPT ![caller] = @ - cost]
     /\ shares' = [shares EXCEPT ![caller] = @ + fill]
     /\ depth' = depth - fill
     /\ price' = Smaller(MaxPrice, price + Impact(fill))
     /\ paid' = paid + cost
     /\ issued' = issued + fill
     /\ UNCHANGED orders

\* All n shares are asked for, and what the market takes is sold.
MarketSell(n) ==
  LET fill == Smaller(n, depth)
      proceeds == Bid * fill - Fee(Bid * fill)
  IN /\ InAction /\ Open
     /\ shares[caller] >= n
     /\ wallet' = [wallet EXCEPT ![caller] = @ + proceeds]
     /\ shares' = [shares EXCEPT ![caller] = @ - fill]
     /\ depth' = depth - fill
     /\ price' = Larger(MinPrice, price - Impact(fill))
     /\ paid' = paid - proceeds
     /\ issued' = issued - fill
     /\ UNCHANGED orders

-----------------------------------------------------------------------------
(* The save *)

\* state_invariants_hold, as far as it concerns wallets and orders.
Savable ==
  /\ \A u \in Players : wallet[u] \in 0..WalletCap
  /\ \A k \in DOMAIN orders :
       orders[k].quantity > 0 /\ orders[k].limit \in 1..(WalletCap \div orders[k].quantity)

EndCall ==
  /\ phase' = "idle"
  /\ caller' = Tick
  /\ before' = <<>>
  /\ UNCHANGED <<calls, hours, cursor>>

SaveSucceeds ==
  /\ phase = "save"
  /\ Savable
  /\ EndCall
  /\ UNCHANGED <<book, exchange, history>>

SaveMayFail == phase = "save" /\ (SavesFail \/ ~Savable)

\* economy_tick_all reports the failure and keeps what it did.
TickNotSaved ==
  /\ caller = Tick
  /\ SaveMayFail
  /\ EndCall
  /\ UNCHANGED <<book, exchange, history>>

\* economy_game_action puts back the caller, the orders and the exchange, but
\* nobody else's wallet or shares.
ActionNotSaved ==
  /\ caller # Tick
  /\ SaveMayFail
  /\ wallet' = [wallet EXCEPT ![caller] = before.wallet[caller]]
  /\ shares' = [shares EXCEPT ![caller] = before.shares[caller]]
  /\ orders' = before.orders
  /\ price' = before.price
  /\ listed' = before.listed
  /\ halted' = before.halted
  /\ depth' = before.depth
  /\ paid' = before.paid
  /\ issued' = before.issued
  /\ torn' = (torn \/ wallet' # before.wallet \/ shares' # before.shares)
  /\ EndCall

-----------------------------------------------------------------------------
Init ==
  /\ wallet = [u \in Players |-> InitialWallet]
  /\ shares = [u \in Players |-> 0]
  /\ orders = <<>>
  /\ price = InitialPrice
  /\ listed = TRUE
  /\ halted = FALSE
  /\ depth = Liquidity
  /\ phase = "idle"
  /\ caller = Tick
  /\ before = <<>>
  /\ hours = 0
  /\ cursor = 1
  /\ calls = 0
  /\ paid = 0
  /\ issued = 0
  /\ torn = FALSE

Market == StillDelisted \/ Relist \/ Ordinary \/ Split \/ Delist \/ OpenBook

ProcessOrders == FillBuy \/ FillSell \/ Rests \/ CloseBook

Trade ==
  \/ NoTrade
  \/ \E n \in Quantities, l \in Limits : PlaceBuy(n, l) \/ PlaceSell(n, l)
  \/ \E k \in DOMAIN orders : Cancel(k)
  \/ \E n \in Quantities : MarketBuy(n) \/ MarketSell(n)

Save == SaveSucceeds \/ TickNotSaved

Next ==
  \/ /\ \/ \E c \in Players \cup {Tick} : Begin(c)
        \/ Market
        \/ ProcessOrders
        \/ Trade
        \/ Save
     /\ UNCHANGED torn
  \/ ActionNotSaved

Spec == Init /\ [][Next]_vars
=============================================================================
