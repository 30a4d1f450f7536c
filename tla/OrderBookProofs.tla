-------------------------- MODULE OrderBookProofs --------------------------
(***************************************************************************)
(* The exchange, whatever the numbers of players, orders and hours, and    *)
(* also when saves fail: a delisted stock has an empty book and no         *)
(* shareholders, the state has its type, and cash and shares are conserved *)
(* where nothing is rounded.                                               *)
(*                                                                         *)
(* Each inductive invariant is about the state and about the copies that a *)
(* call holds, since a failed save puts some of them back.                 *)
(***************************************************************************)
EXTENDS OrderBookProperties

-----------------------------------------------------------------------------
(* Delisting.  If a call found the stock delisted, it may have relisted it *)
(* and traded, but only for its own caller, and what it puts back after a  *)
(* failed save is empty.                                                   *)

Nobody(s) == \A u \in Players : s[u] = 0

Shape ==
  /\ phase \in {"idle", "market", "orders", "act", "save"}
  /\ caller \in Players \cup {Tick}
  /\ cursor \in Nat \ {0}
  /\ shares = [u \in Players |-> shares[u]]
  /\ phase = "act" => caller # Tick

FoundDelisted == phase # "idle" /\ ~before.listed

FoundEmpty ==
  FoundDelisted =>
    /\ before.orders = <<>>
    /\ Nobody(before.shares)
    /\ \A u \in Players : u # caller => shares[u] = 0
    /\ phase \in {"market", "orders"} => orders = <<>> /\ Nobody(shares)

BookInv == Shape /\ DelistedIsEmpty /\ FoundEmpty

-----------------------------------------------------------------------------
\* Nothing doubles to nothing: a split of an empty book is an empty book.
LEMMA DoubledZero == Doubled(0) = 0
  BY PriceAssumption DEF Doubled

\* DelistedIsEmpty, for every instance: between a delisting and the relisting
\* nothing rests and nobody holds, failed saves included.
THEOREM DelistedStaysEmpty == Spec => []DelistedIsEmpty
<1>1. Init => BookInv
  BY DEF Init, BookInv, Shape, DelistedIsEmpty, FoundEmpty, FoundDelisted
<1>2. BookInv /\ [Next]_vars => BookInv'
  <2> SUFFICES ASSUME BookInv, [Next]_vars PROVE BookInv'
    OBVIOUS
  <2> USE PriceAssumption DEF BookInv, Shape, DelistedIsEmpty, FoundEmpty,
                              FoundDelisted, Nobody
  <2>1. CASE UNCHANGED vars
    BY <2>1 DEF vars, book, exchange, call, history
  <2>2. ASSUME NEW c \in Players \cup {Tick}, Begin(c) PROVE BookInv'
    BY <2>2 DEF Begin, book, exchange, history
  <2>3. ASSUME StillDelisted PROVE BookInv'
    BY <2>3 DEF StillDelisted, InHour, book, call
  <2>4. ASSUME Relist PROVE BookInv'
    BY <2>4 DEF Relist, InHour, book, call
  <2>5. ASSUME Ordinary PROVE BookInv'
    BY <2>5 DEF Ordinary, book, call, history
  <2>6. ASSUME Split PROVE BookInv'
    <3>1. orders = <<>> => orders' = <<>>
      BY <2>6 DEF Split
    <3>2. shares' = [u \in Players |-> Doubled(shares[u])]
      BY <2>6 DEF Split
    <3>3. \A u \in Players : shares[u] = 0 => shares'[u] = 0
      BY <3>2, DoubledZero
    <3>4. shares' = [u \in Players |-> shares'[u]]
      BY <3>2
    <3>5. QED
      BY <2>6, <3>1, <3>3, <3>4 DEF Split, call
  <2>7. ASSUME Delist PROVE BookInv'
    BY <2>7 DEF Delist, InHour, call
  <2>8. ASSUME OpenBook PROVE BookInv'
    BY <2>8 DEF OpenBook, book, exchange, call, history
  <2>9. ASSUME FillBuy PROVE BookInv'
    <3>1. cursor' \in Nat \ {0}
      BY <2>9 DEF FillBuy, Reduced
    <3>2. orders # <<>>
      BY <2>9 DEF FillBuy, InBook
    <3>3. phase = "orders" /\ listed /\ UNCHANGED <<listed, phase, caller, before>>
      BY <2>9 DEF FillBuy, InBook, Fillable, call
    <3>4. shares' = [u \in Players |-> shares'[u]]
      BY <2>9 DEF FillBuy
    <3>5. QED
      BY <3>1, <3>2, <3>3, <3>4
  <2>10. ASSUME FillSell PROVE BookInv'
    <3>1. cursor' \in Nat \ {0}
      BY <2>10 DEF FillSell, Reduced
    <3>2. orders # <<>>
      BY <2>10 DEF FillSell, InBook
    <3>3. phase = "orders" /\ listed /\ UNCHANGED <<listed, phase, caller, before>>
      BY <2>10 DEF FillSell, InBook, Fillable, call
    <3>4. shares' = [u \in Players |-> shares'[u]]
      BY <2>10 DEF FillSell
    <3>5. QED
      BY <3>1, <3>2, <3>3, <3>4
  <2>11. ASSUME Rests PROVE BookInv'
    BY <2>11 DEF Rests, InBook, book, exchange, call, history
  <2>12. ASSUME CloseBook PROVE BookInv'
    BY <2>12 DEF CloseBook, book, exchange, call, history
  <2>13. ASSUME NoTrade PROVE BookInv'
    BY <2>13 DEF NoTrade, InAction, book, call, history
  <2>14. ASSUME NEW n \in Quantities, NEW l \in Limits, PlaceBuy(n, l) PROVE BookInv'
    BY <2>14 DEF PlaceBuy, MayPlace, InAction, call, history
  <2>15. ASSUME NEW n \in Quantities, NEW l \in Limits, PlaceSell(n, l) PROVE BookInv'
    BY <2>15 DEF PlaceSell, MayPlace, InAction, call, history
  <2>16. ASSUME NEW k \in DOMAIN orders, Cancel(k) PROVE BookInv'
    BY <2>16 DEF Cancel, OrdersOf, InAction, call, history
  <2>17. ASSUME NEW n \in Quantities, MarketBuy(n) PROVE BookInv'
    BY <2>17 DEF MarketBuy, Open, InAction, call, history
  <2>18. ASSUME NEW n \in Quantities, MarketSell(n) PROVE BookInv'
    BY <2>18 DEF MarketSell, Open, InAction, call, history
  <2>19. ASSUME SaveSucceeds PROVE BookInv'
    BY <2>19 DEF SaveSucceeds, EndCall, book, exchange
  <2>20. ASSUME TickNotSaved PROVE BookInv'
    BY <2>20 DEF TickNotSaved, EndCall, book, exchange
  <2>21. ASSUME ActionNotSaved PROVE BookInv'
    BY <2>21 DEF ActionNotSaved, EndCall, SaveMayFail
  <2>22. QED
    BY <2>1, <2>2, <2>3, <2>4, <2>5, <2>6, <2>7, <2>8, <2>9, <2>10, <2>11, <2>12, <2>13, <2>14, <2>15, <2>16, <2>17, <2>18, <2>19, <2>20, <2>21 DEF Next, Market, ProcessOrders, Trade, Save
<1>3. QED
  BY <1>1, <1>2, PTL DEF Spec, BookInv

-----------------------------------------------------------------------------
(* Prices and quotes. *)

\* The lowest price there is: dilution comes after the clamp.
Floor == (MinPrice * 20) \div 21
Prices == Floor..MaxPrice

\* The constants are numbers, and the lowest price lies below the clamp.
LEMMA Numbers ==
  /\ MinPrice \in Nat /\ MaxPrice \in Nat /\ MinPrice <= MaxPrice /\ 1 < MinPrice
  /\ Floor \in Nat /\ 0 < Floor /\ Floor <= MinPrice
  /\ 21 * Floor > 20 * MinPrice - 21
  /\ MinFee \in Nat /\ 2 * MinFee <= MinPrice
  /\ SpreadBasis \in Nat /\ SpreadBasis <= 5000
  /\ Liquidity \in Nat /\ MaxShares \in Nat /\ MaxShares > 0 /\ MaxOrders \in Nat
<1>1. /\ MinPrice \in Nat /\ MaxPrice \in Nat /\ MinPrice <= MaxPrice /\ 1 < MinPrice
      /\ MinFee \in Nat /\ 2 * MinFee <= MinPrice
      /\ SpreadBasis \in Nat /\ SpreadBasis <= 5000
      /\ Liquidity \in Nat /\ MaxShares \in Nat /\ MaxShares > 0 /\ MaxOrders \in Nat
  BY PriceAssumption, RangeAssumption
<1>2. /\ Floor \in Nat /\ 0 < Floor /\ Floor <= MinPrice
      /\ 21 * Floor > 20 * MinPrice - 21
  BY <1>1 DEF Floor
<1> QED
  BY <1>1, <1>2

\* Whatever moves a price, the clamp keeps it in range.
LEMMA Clamped ==
  ASSUME NEW p \in Int
  PROVE  Clamp(p) \in MinPrice..MaxPrice /\ Clamp(p) \in Prices
BY Numbers DEF Clamp, Larger, Smaller, Prices

\* The code's division of whole numbers gives one.
LEMMA QuotientInt ==
  ASSUME NEW a \in Int, NEW b \in Nat \ {0}
  PROVE  Quotient(a, b) \in Int
BY DEF Quotient

\* A story in the news keeps a price in range.
LEMMA NewsRange ==
  ASSUME NEW p \in Prices, NEW q \in News(p)
  PROVE  q \in Prices
<1>1. CASE q = p
  BY <1>1
<1>2. ASSUME NEW i \in Impacts, q = Clamp(p + Quotient(p * i, 250)) PROVE q \in Prices
  <2>1. p \in Int /\ i \in Int
    BY Numbers, PriceAssumption DEF Prices
  <2>2. p * i \in Int
    BY <2>1
  <2>3. p + Quotient(p * i, 250) \in Int
    BY <2>1, <2>2, QuotientInt
  <2> QED
    BY <1>2, <2>3, Clamped
<1> QED
  BY <1>1, <1>2 DEF News

\* So does an hour of the market, dilution included.
LEMMA HourRange ==
  ASSUME price \in Prices, NEW p \in Moved, NEW q \in {p, Diluted(p)}
  PROVE  p \in MinPrice..MaxPrice /\ q \in Prices
<1>1. PICK m \in Pressures : p = Clamp(price + Quotient(price * m, 1000))
  BY DEF Moved
<1>2. price \in Int /\ m \in Int
  BY Numbers, PriceAssumption DEF Prices
<1>3. price * m \in Int
  BY <1>2
<1>4. price + Quotient(price * m, 1000) \in Int
  BY <1>2, <1>3, QuotientInt
<1>5. p \in MinPrice..MaxPrice
  BY <1>1, <1>4, Clamped
<1>6. Diluted(p) \in Prices
  <2>1. p \in Nat /\ MinPrice <= p /\ p <= MaxPrice
    BY <1>5, Numbers
  <2>2. (MinPrice * 20) \div 21 <= (p * 20) \div 21 /\ (p * 20) \div 21 <= p
    BY <2>1, Numbers
  <2>3. (p * 20) \div 21 \in Nat
    BY <2>1
  <2> QED
    BY <2>1, <2>2, <2>3, Numbers DEF Diluted, Prices, Floor
<1> QED
  BY <1>5, <1>6, Numbers DEF Prices

\* A quote is positive, and the bid covers the least fee.
LEMMA Quotes ==
  ASSUME price \in Prices
  PROVE  Ask \in Nat \ {0} /\ Bid \in Nat \ {0} /\ MinFee <= Bid
<1>1. price \in Nat /\ 0 < price /\ Floor <= price
  BY Numbers DEF Prices
<1>2. PICK part \in Int : part = (price * SpreadBasis) \div 10000
  BY <1>1, Numbers
<1>3. 0 <= part /\ 2 * part <= price
  <2>1. PICK product \in Int : product = price * SpreadBasis
    BY <1>1, Numbers
  <2>2. 0 <= product /\ product <= price * 5000
    BY <1>1, <2>1, Numbers
  <2> QED
    BY <1>1, <1>2, <2>1, <2>2
<1>4. PICK s \in Int : s = Spread
  BY <1>2 DEF Spread, Larger
<1>5. s = IF 2 < part THEN part ELSE 2
  BY <1>2, <1>4 DEF Spread, Larger
<1>6. Ask = price + (s + 1) \div 2 /\ Bid = Larger(1, price - s \div 2)
  BY <1>4 DEF Ask, Bid
<1>7. Ask \in Nat \ {0}
  BY <1>1, <1>3, <1>5, <1>6
<1>8. PICK b \in Int : b = price - s \div 2
  BY <1>1, <1>4
<1>9. MinFee <= b \/ MinFee <= 1
  <2>1. 2 * (s \div 2) <= s /\ s \div 2 \in Int
    BY <1>4
  <2>2. CASE s = 2
    BY <1>1, <1>8, <2>1, <2>2, Numbers
  <2>3. CASE s = part
    BY <1>1, <1>3, <1>8, <2>1, <2>3, Numbers
  <2> QED
    BY <1>5, <2>2, <2>3
<1>10. Bid \in Nat \ {0} /\ MinFee <= Bid
  BY <1>6, <1>8, <1>9, Numbers DEF Larger
<1> QED
  BY <1>7, <1>10

\* A trade moves the price within its range and uses up no more than there is.
LEMMA TradesRange ==
  ASSUME price \in Prices, depth \in 0..Liquidity, NEW n \in 0..depth,
         NEW d \in {1, -1}, Trades(n, d)
  PROVE  price' \in Prices /\ depth' \in 0..Liquidity
<1>1. price \in Int /\ depth \in Int /\ n \in Int
  BY Numbers DEF Prices
<1>2. PICK unit \in Int : unit = Larger(1000, Liquidity * 20) /\ unit > 0
  BY Numbers DEF Larger
<1>3. Impact(n) \in Int
  <2>1. price * n \in Int
    BY <1>1
  <2>2. (price * n) \div unit \in Int
    BY <1>2, <2>1
  <2> QED
    BY <1>2, <2>2 DEF Impact, Larger
<1>4. price + d * Impact(n) \in Int
  BY <1>1, <1>3
<1>5. price' \in Prices
  BY <1>4, Clamped DEF Trades
<1>6. depth' = depth - n
  BY DEF Trades
<1> QED
  BY <1>1, <1>5, <1>6, Numbers

\* An order executed against the market has an impact of one cent at least.
LEMMA ImpactPositive ==
  ASSUME price \in Prices, NEW n \in Nat
  PROVE  Impact(n) \in Nat \ {0}
<1>1. PICK unit \in Int : unit = Larger(1000, Liquidity * 20) /\ unit > 0
  BY Numbers DEF Larger
<1>2. price * n \in Int
  BY Numbers DEF Prices
<1>3. (price * n) \div unit \in Int
  BY <1>1, <1>2
<1> QED
  BY <1>1, <1>3 DEF Impact, Larger

\* A purchase raises the price, up to the cap.
LEMMA BuyRange ==
  ASSUME price \in Prices, depth \in 0..Liquidity, NEW n \in 0..depth,
         price' = Smaller(MaxPrice, price + Impact(n)), depth' = depth - n
  PROVE  price' \in Prices /\ depth' \in 0..Liquidity
<1>1. PICK i \in Nat \ {0} : i = Impact(n)
  BY ImpactPositive, Numbers
<1> QED
  BY <1>1, Numbers DEF Prices, Smaller

\* A sale lowers it, down to the floor.
LEMMA SellRange ==
  ASSUME price \in Prices, depth \in 0..Liquidity, NEW n \in 0..depth,
         price' = Larger(MinPrice, price - Impact(n)), depth' = depth - n
  PROVE  price' \in Prices /\ depth' \in 0..Liquidity
<1>1. PICK i \in Nat \ {0} : i = Impact(n)
  BY ImpactPositive, Numbers
<1> QED
  BY <1>1, Numbers DEF Prices, Larger

-----------------------------------------------------------------------------
(* Books. *)

In(q, u) == {k \in DOMAIN q : q[k].user = u}

Books == {q \in Seq(Order) : \A u \in Players : Cardinality(In(q, u)) <= MaxOrders}

\* The orders of a player are finitely many.
LEMMA InFinite ==
  ASSUME NEW q \in Seq(Order), NEW u
  PROVE  /\ DOMAIN q = 1..Len(q) /\ Len(q) \in Nat
         /\ IsFiniteSet(DOMAIN q) /\ IsFiniteSet(In(q, u))
         /\ Cardinality(In(q, u)) \in Nat
<1>1. DOMAIN q = 1..Len(q) /\ Len(q) \in Nat
  BY LenProperties
<1>2. 1 \in Int /\ Len(q) \in Int
  BY <1>1
<1>3. IsFiniteSet(DOMAIN q)
  BY <1>1, <1>2, FS_Interval
<1>4. In(q, u) \in SUBSET DOMAIN q
  BY DEF In
<1>5. IsFiniteSet(In(q, u))
  BY <1>3, <1>4, FS_Subset
<1> QED
  BY <1>1, <1>3, <1>5, FS_CardinalityType

\* One order leaves the book: nobody has more orders in it than before.
LEMMA BookWithout ==
  ASSUME NEW q \in Books, NEW i \in DOMAIN q
  PROVE  /\ RemoveAt(q, i) \in Books
         /\ q[i] \in Order /\ Len(q) \in Nat \ {0} /\ i \in 1..Len(q)
         /\ DOMAIN q = 1..Len(q) /\ DOMAIN RemoveAt(q, i) = 1..(Len(q) - 1)
         /\ \A k \in 1..(Len(q) - 1) : RemoveAt(q, i)[k] = q[IF k < i THEN k ELSE k + 1]
<1>1. q \in Seq(Order) /\ DOMAIN q = 1..Len(q) /\ i \in 1..Len(q) /\ Len(q) \in Nat
  BY LenProperties DEF Books
<1>2. PICK n \in Nat \ {0} : n = Len(q)
  <2>1. Len(q) \in Nat \ {0}
    BY <1>1
  <2> QED
    BY <2>1
<1>3. PICK r : r = RemoveAt(q, i)
  OBVIOUS
<1>4. /\ r \in Seq(Order) /\ Len(r) = n - 1 /\ DOMAIN r = 1..(n - 1)
      /\ \A k \in 1..(n - 1) : r[k] = q[IF k < i THEN k ELSE k + 1]
  BY <1>1, <1>2, <1>3, Removed, LenProperties
<1>5. q[i] \in Order
  BY <1>1, ElementOfSeq
<1>6. ASSUME NEW u \in Players PROVE Cardinality(In(r, u)) <= MaxOrders
  <2>1. PICK S : S = In(r, u)
    OBVIOUS
  <2>2. PICK T : T = In(q, u)
    OBVIOUS
  <2>3. PICK m : m = [k \in S |-> IF k < i THEN k ELSE k + 1]
    OBVIOUS
  <2>4. ASSUME NEW k \in S PROVE m[k] \in T /\ k \in Int
    <3>1. k \in 1..(n - 1) /\ r[k].user = u
      BY <1>4, <2>1, <2>4 DEF In
    <3>2. PICK j : j = IF k < i THEN k ELSE k + 1
      OBVIOUS
    <3>3. j \in 1..n /\ q[j] = r[k]
      BY <1>1, <1>2, <1>4, <3>1, <3>2
    <3>4. j \in T
      BY <1>1, <1>2, <2>2, <3>1, <3>3 DEF In
    <3> QED
      BY <2>3, <3>1, <3>2, <3>4
  <2>5. \A k, l \in S : m[k] = m[l] => k = l
    BY <1>1, <2>3, <2>4
  <2>6. m \in Injection(S, T)
    BY <2>3, <2>4, <2>5 DEF Injection, IsInjective
  <2>7. IsFiniteSet(T) /\ Cardinality(T) <= MaxOrders /\ Cardinality(T) \in Nat
    BY <1>1, <2>2, InFinite DEF Books
  <2>8. IsFiniteSet(S) /\ Cardinality(S) <= Cardinality(T) /\ Cardinality(S) \in Nat
    BY <2>6, <2>7, FS_Injection, FS_CardinalityType
  <2> QED
    BY <2>1, <2>7, <2>8, Numbers
<1> QED
  BY <1>1, <1>2, <1>3, <1>4, <1>5, <1>6 DEF Books

\* One order enters it, of a player below the cap.
LEMMA BookWith ==
  ASSUME NEW q \in Books, NEW o \in Order, Cardinality(In(q, o.user)) < MaxOrders
  PROVE  /\ Append(q, o) \in Books /\ Len(q) \in Nat
         /\ DOMAIN q = 1..Len(q) /\ DOMAIN Append(q, o) = 1..(Len(q) + 1)
         /\ \A k \in 1..Len(q) : Append(q, o)[k] = q[k]
         /\ Append(q, o)[Len(q) + 1] = o
<1>1. q \in Seq(Order) /\ DOMAIN q = 1..Len(q) /\ Len(q) \in Nat
  BY LenProperties DEF Books
<1>2. PICK n \in Nat : n = Len(q)
  BY <1>1
<1>3. PICK r : r = Append(q, o)
  OBVIOUS
<1>4. /\ r \in Seq(Order) /\ Len(r) = n + 1 /\ DOMAIN r = 1..(n + 1)
      /\ \A k \in 1..n : r[k] = q[k]
      /\ r[n + 1] = o
  BY <1>1, <1>2, <1>3, AppendProperties, LenProperties
<1>5. ASSUME NEW u \in Players PROVE Cardinality(In(r, u)) <= MaxOrders
  <2>1. PICK T : T = In(q, u)
    OBVIOUS
  <2>2. IsFiniteSet(T) /\ Cardinality(T) <= MaxOrders /\ Cardinality(T) \in Nat
    BY <1>1, <2>1, InFinite DEF Books
  <2>3. CASE u # o.user
    <3>1. In(r, u) = T
      BY <1>1, <1>2, <1>4, <2>1, <2>3 DEF In
    <3> QED
      BY <2>2, <3>1
  <2>4. CASE u = o.user
    <3>1. In(r, u) = T \cup {n + 1}
      BY <1>1, <1>2, <1>4, <2>1, <2>4 DEF In
    <3>2. Cardinality(T \cup {n + 1}) = IF n + 1 \in T THEN Cardinality(T) ELSE Cardinality(T) + 1
      BY <2>2, FS_AddElement
    <3>3. Cardinality(T) < MaxOrders
      BY <2>1, <2>4
    <3> QED
      BY <2>2, <3>1, <3>2, <3>3, Numbers
  <2> QED
    BY <2>3, <2>4
<1> QED
  BY <1>1, <1>2, <1>3, <1>4, <1>5 DEF Books

\* The orders change but not their owners.
LEMMA BookRewritten ==
  ASSUME NEW q \in Books, NEW r, DOMAIN r = DOMAIN q, r = [k \in DOMAIN q |-> r[k]],
         \A k \in DOMAIN q : r[k] \in Order /\ r[k].user = q[k].user
  PROVE  r \in Books
<1>1. q \in Seq(Order) /\ DOMAIN q = 1..Len(q) /\ Len(q) \in Nat
  BY LenProperties DEF Books
<1>2. r \in [1..Len(q) -> Order]
  BY <1>1
<1>3. r \in Seq(Order)
  BY <1>1, <1>2, SeqDef
<1>4. \A u \in Players : In(r, u) = In(q, u)
  BY DEF In
<1> QED
  BY <1>3, <1>4 DEF Books

\* What an order sets aside.
LEMMA ReservedType ==
  ASSUME NEW o \in Order
  PROVE  /\ Reserved(o) \in Nat /\ ReservedShares(o) \in Nat
         /\ o.user \in Players /\ o.buy \in BOOLEAN
         /\ o.quantity \in Nat \ {0} /\ o.limit \in Nat \ {0}
<1>1. PICK n \in Nat \ {0} : n = o.quantity
  BY DEF Order
<1>2. PICK l \in Nat \ {0} : l = o.limit
  BY DEF Order
<1>3. l * n \in Nat
  OBVIOUS
<1> QED
  BY <1>1, <1>2, <1>3 DEF Order, Reserved, ReservedShares

\* A player's escrow is an amount.
LEMMA EscrowType ==
  ASSUME orders \in Books, NEW u \in Players
  PROVE  EscrowOf(u) \in Nat
<1>1. PICK q : q = orders
  OBVIOUS
<1>2. PICK S : S = OrdersOf(u)
  OBVIOUS
<1>3. q \in Seq(Order) /\ S = In(q, u)
  BY <1>1, <1>2 DEF Books, OrdersOf, In
<1>4. IsFiniteSet(S)
  BY <1>3, InFinite
<1>5. PICK f : f = [k \in S |-> Reserved(q[k])]
  OBVIOUS
<1>6. ASSUME NEW k \in S PROVE Reserved(q[k]) \in Nat
  <2>1. q[k] \in Order
    BY <1>3, <1>6, LenProperties, ElementOfSeq DEF In
  <2> QED
    BY <2>1, ReservedType
<1>7. f \in [S -> Nat]
  BY <1>5, <1>6
<1>8. Total(f) \in Nat
  BY <1>4, <1>7, TotalNat
<1> QED
  BY <1>1, <1>2, <1>5, <1>8 DEF EscrowOf

-----------------------------------------------------------------------------
(* Types. *)

\* What a call has copied, and may put back.
Copies == [wallet : [Players -> Nat], shares : [Players -> 0..MaxShares],
           orders : Books, price : Prices, listed : BOOLEAN, halted : BOOLEAN,
           depth : 0..Liquidity, paid : Int, issued : Int]

Accounts == wallet \in [Players -> Nat] /\ shares \in [Players -> 0..MaxShares] /\ orders \in Books

Listing == price \in Prices /\ listed \in BOOLEAN /\ halted \in BOOLEAN /\ depth \in 0..Liquidity

Progress ==
  /\ phase \in {"idle", "market", "orders", "act", "save"}
  /\ caller \in Players \cup {Tick}
  /\ phase = "act" => caller # Tick
  /\ phase # "idle" => before \in Copies
  /\ hours \in 0..MaxHours /\ cursor \in Nat \ {0} /\ calls \in 0..MaxCalls
  /\ paid \in Int /\ issued \in Int /\ torn \in BOOLEAN

TypeInv == Accounts /\ Listing /\ Progress

\* What may happen to a wallet.
LEMMA Credited ==
  ASSUME NEW w \in [Players -> Nat], NEW u \in Players, NEW a \in Int, 0 <= w[u] + a
  PROVE  [w EXCEPT ![u] = @ + a] \in [Players -> Nat]
<1>1. w[u] + a \in Nat
  <2>1. PICK b \in Nat : b = w[u]
    OBVIOUS
  <2> QED
    BY <2>1
<1> QED
  BY <1>1

\* What may happen to a player's shares.
LEMMA HeldShares ==
  ASSUME NEW s \in [Players -> 0..MaxShares], NEW u \in Players, NEW n \in 0..MaxShares
  PROVE  [s EXCEPT ![u] = n] \in [Players -> 0..MaxShares]
OBVIOUS

\* The hours of the market.
LEMMA MarketTypes ==
  ASSUME TypeInv, Market, UNCHANGED torn
  PROVE  TypeInv'
<1> USE DEF TypeInv, Accounts, Listing
<1>0. Liquidity \in 0..Liquidity /\ MaxHours \in Nat
  BY Numbers, PriceAssumption
<1>1. ASSUME hours < MaxHours, hours' = hours + 1, UNCHANGED <<phase, call, cursor, paid>>,
             issued' \in Int
      PROVE  Progress'
  <2>1. hours' \in 0..MaxHours
    BY <1>0, <1>1 DEF Progress
  <2> QED
    BY <1>1, <2>1 DEF Progress, call
<1>2. CASE StillDelisted
  <2>1. price' \in Prices
    BY <1>2, NewsRange DEF StillDelisted
  <2>2. Progress'
    BY <1>1, <1>2 DEF StillDelisted, InHour, Progress
  <2> QED
    BY <1>0, <1>2, <2>1, <2>2 DEF StillDelisted, InHour, book
<1>3. CASE Relist
  <2>1. RelistPrice \in Prices
    BY RangeAssumption, PriceAssumption, Numbers DEF Prices
  <2>2. price' \in Prices
    BY <1>3, <2>1, NewsRange DEF Relist
  <2>3. Progress'
    BY <1>1, <1>3 DEF Relist, InHour, Progress
  <2> QED
    BY <1>0, <1>3, <2>2, <2>3 DEF Relist, InHour, book
<1>4. CASE Ordinary
  <2>1. PICK p \in Moved : \E q \in {p, Diluted(p)} : price' \in News(q) /\ halted' = Extreme(p)
    BY <1>4 DEF Ordinary
  <2>2. PICK q \in {p, Diluted(p)} : price' \in News(q)
    BY <2>1
  <2>3. price' \in Prices
    <3>1. q \in Prices
      BY <2>2, HourRange
    <3> QED
      BY <2>2, <3>1, NewsRange
  <2>4. Progress'
    BY <1>1, <1>4 DEF Ordinary, Progress, history
  <2>5. halted' \in BOOLEAN
    BY <2>1 DEF Extreme
  <2> QED
    BY <1>0, <1>4, <2>3, <2>4, <2>5 DEF Ordinary, book
<1>5. CASE Split
  <2>1. PICK p \in Moved : \E q \in {p, Diluted(p)} :
          price' \in News(Larger(MinPrice, q \div 2)) /\ halted' = Extreme(p)
    BY <1>5 DEF Split
  <2>2. PICK q \in {p, Diluted(p)} : price' \in News(Larger(MinPrice, q \div 2))
    BY <2>1
  <2>3. price' \in Prices
    <3>1. q \in Prices
      BY <2>2, HourRange
    <3>2. Larger(MinPrice, q \div 2) \in Prices
      BY <3>1, Numbers DEF Prices, Larger
    <3> QED
      BY <2>2, <3>2, NewsRange
  <2>4. issued' \in Int
    BY <1>5 DEF Split, Progress
  <2>5. Progress'
    BY <1>1, <1>5, <2>4 DEF Split
  <2>6. halted' \in BOOLEAN
    BY <2>1 DEF Extreme
  <2>7. \A n \in Nat : Doubled(n) \in 0..MaxShares /\ (n > 0 => Doubled(n) > 0)
    BY Numbers DEF Doubled
  <2>8. shares' \in [Players -> 0..MaxShares]
    <3>1. shares' = [u \in Players |-> Doubled(shares[u])]
      BY <1>5 DEF Split
    <3>2. \A u \in Players : shares[u] \in Nat
      BY Numbers
    <3> QED
      BY <2>7, <3>1, <3>2
  <2>9. orders' \in Books
    <3>1. PICK q2 : q2 = orders
      OBVIOUS
    <3>2. PICK r : r = [k \in DOMAIN q2 |-> SplitOrder(q2[k])]
      OBVIOUS
    <3>3. ASSUME NEW k \in DOMAIN q2 PROVE r[k] \in Order /\ r[k].user = q2[k].user
      <4>1. PICK o \in Order : o = q2[k]
        <5>1. q2 \in Seq(Order)
          BY <3>1 DEF Books
        <5> QED
          BY <3>3, <5>1, LenProperties, ElementOfSeq
      <4>2. Doubled(o.quantity) \in Nat \ {0}
        BY <2>7, Numbers, ReservedType
      <4>3. Larger(1, o.limit \div 2) \in Nat \ {0}
        <5>1. PICK l \in Nat : l = o.limit
          BY ReservedType
        <5> QED
          BY <5>1 DEF Larger
      <4>4. SplitOrder(o) \in Order /\ SplitOrder(o).user = o.user
        BY <4>2, <4>3 DEF SplitOrder, Order
      <4> QED
        BY <3>2, <3>3, <4>1, <4>4
    <3>4. r \in Books
      <4>1. r = [k \in DOMAIN q2 |-> r[k]] /\ DOMAIN r = DOMAIN q2 /\ q2 \in Books
        BY <3>1, <3>2
      <4> QED
        BY <3>3, <4>1, BookRewritten
    <3> QED
      BY <1>5, <3>1, <3>2, <3>4 DEF Split
  <2> QED
    BY <1>0, <1>5, <2>3, <2>5, <2>6, <2>8, <2>9 DEF Split
<1>6. CASE Delist
  <2>1. MinPrice \in Prices
    BY Numbers DEF Prices
  <2>2. price' \in Prices
    BY <1>6, <2>1, NewsRange DEF Delist
  <2>3. Progress'
    BY <1>1, <1>6 DEF Delist, InHour
  <2>4. wallet' \in [Players -> Nat]
    <3>1. \A u \in Players : wallet[u] + EscrowOf(u) \in Nat
      <4>1. TAKE u \in Players
      <4>2. EscrowOf(u) \in Nat /\ wallet[u] \in Nat
        BY EscrowType
      <4> QED
        BY <4>2
    <3>2. wallet' = [u \in Players |-> wallet[u] + EscrowOf(u)]
      BY <1>6 DEF Delist
    <3> QED
      BY <3>1, <3>2
  <2>5. shares' \in [Players -> 0..MaxShares]
    BY <1>6, Numbers DEF Delist
  <2>6. orders' \in Books
    <3>1. PICK none : none = <<>>
      OBVIOUS
    <3>2. none \in Seq(Order) /\ DOMAIN none = {} /\ Cardinality({}) = 0
      BY <3>1, FS_EmptySet
    <3>3. \A u \in Players : In(none, u) = {}
      BY <3>2 DEF In
    <3>4. none \in Books
      <4>1. 0 <= MaxOrders
        BY Numbers
      <4>2. ASSUME NEW u \in Players PROVE Cardinality(In(none, u)) <= MaxOrders
        BY <3>2, <3>3, <4>1, Zenon
      <4> QED
        BY <3>2, <4>2 DEF Books
    <3>5. orders' = <<>>
      BY <1>6 DEF Delist
    <3> QED
      BY <3>1, <3>4, <3>5
  <2> QED
    BY <1>0, <1>6, <2>2, <2>3, <2>4, <2>5, <2>6 DEF Delist, InHour
<1>7. CASE OpenBook
  <2>1. Progress'
    BY <1>0, <1>7 DEF OpenBook, Progress, call, history
  <2> QED
    BY <1>7, <2>1 DEF OpenBook, book, exchange
<1> QED
  BY <1>2, <1>3, <1>4, <1>5, <1>6, <1>7 DEF Market

\* What is filled is some of what the order asks for and the market has, and
\* no more than its buyer can hold.
LEMMA FillRange ==
  ASSUME TypeInv, InBook
  PROVE  /\ cursor \in DOMAIN orders /\ Current \in Order
         /\ Fill \in 0..depth /\ Fill <= Current.quantity
         /\ Current.buy => Fill <= MaxShares - shares[Current.user]
<1>1. cursor \in DOMAIN orders /\ orders \in Seq(Order)
  <2>1. orders \in Seq(Order) /\ cursor \in Nat \ {0}
    BY DEF TypeInv, Accounts, Books, Progress
  <2>2. DOMAIN orders = 1..Len(orders) /\ Len(orders) \in Nat
    BY <2>1, LenProperties
  <2> QED
    BY <2>1, <2>2 DEF InBook
<1>2. PICK o \in Order : o = Current
  BY <1>1, LenProperties, ElementOfSeq DEF Current
<1>3. PICK n \in Nat \ {0} : n = o.quantity
  BY ReservedType
<1>4. PICK held \in 0..MaxShares : held = shares[o.user]
  BY ReservedType DEF TypeInv, Accounts
<1>5. PICK left \in Nat : left = depth
  BY Numbers DEF TypeInv, Listing
<1>6. Fill = IF o.buy THEN Smaller(Smaller(n, left), MaxShares - held) ELSE Smaller(n, left)
  BY <1>2, <1>3, <1>4, <1>5 DEF Fill
<1>7. /\ Fill \in 0..left /\ Fill <= n
      /\ o.buy => Fill <= MaxShares - held
  BY <1>3, <1>4, <1>5, <1>6, Numbers DEF Smaller
<1> QED
  BY <1>1, <1>2, <1>3, <1>4, <1>5, <1>7

\* What remains in the book after a fill.
LEMMA ReducedBook ==
  ASSUME TypeInv, InBook, Fill > 0, Reduced(Fill)
  PROVE  orders' \in Books /\ cursor' \in Nat \ {0}
<1>1. /\ orders \in Books /\ cursor \in Nat \ {0} /\ cursor \in DOMAIN orders
      /\ Current \in Order /\ Fill <= Current.quantity /\ Fill \in Nat
  BY FillRange, Numbers DEF TypeInv, Accounts, Progress, Listing
<1>2. cursor' \in Nat \ {0}
  BY <1>1 DEF Reduced
<1>3. CASE Current.quantity = Fill
  BY <1>1, <1>3, BookWithout DEF Reduced
<1>4. CASE Current.quantity # Fill
  <2>1. PICK q : q = orders
    OBVIOUS
  <2>2. PICK n \in Nat : n = Current.quantity - Fill /\ n > 0
    <3>1. Current.quantity \in Nat
      BY <1>1, ReservedType
    <3> QED
      BY <1>1, <1>4, <3>1
  <2>3. PICK r : r = [q EXCEPT ![cursor].quantity = n]
    OBVIOUS
  <2>4. orders' = r
    BY <1>1, <1>4, <2>1, <2>2, <2>3 DEF Reduced, Current
  <2>5. DOMAIN r = DOMAIN q /\ r = [k \in DOMAIN q |-> r[k]]
    BY <2>3
  <2>6. ASSUME NEW k \in DOMAIN q PROVE r[k] \in Order /\ r[k].user = q[k].user
    <3>1. q[k] \in Order
      <4>1. q \in Seq(Order)
        BY <1>1, <2>1 DEF Books
      <4> QED
        BY <2>6, <4>1, LenProperties, ElementOfSeq
    <3>2. r[k] = IF k = cursor THEN [q[k] EXCEPT !.quantity = n] ELSE q[k]
      BY <2>3, <2>6
    <3>3. [q[k] EXCEPT !.quantity = n] \in Order /\ [q[k] EXCEPT !.quantity = n].user = q[k].user
      BY <2>2, <3>1 DEF Order
    <3> QED
      BY <3>1, <3>2, <3>3
  <2>7. r \in Books
    BY <1>1, <2>1, <2>5, <2>6, BookRewritten
  <2> QED
    BY <1>2, <2>4, <2>7
<1> QED
  BY <1>2, <1>3, <1>4

\* process_orders.
LEMMA OrdersTypes ==
  ASSUME TypeInv, ProcessOrders, UNCHANGED torn
  PROVE  TypeInv'
<1>1. price \in Prices /\ depth \in 0..Liquidity
  BY DEF TypeInv, Listing
<1>2. PICK ask \in Nat \ {0} : ask = Ask
  BY <1>1, Quotes
<1>3. PICK bid \in Nat \ {0} : bid = Bid
  BY <1>1, Quotes
<1>4. ASSUME InBook, Fill > 0, Reduced(Fill), NEW d \in {1, -1}, Trades(Fill, d),
             wallet' \in [Players -> Nat], shares' \in [Players -> 0..MaxShares],
             paid' \in Int, issued' \in Int, UNCHANGED <<listed, halted, phase, call, hours>>
      PROVE  TypeInv'
  <2>1. orders' \in Books /\ cursor' \in Nat \ {0}
    BY <1>4, ReducedBook
  <2>2. Fill \in 0..depth
    BY <1>4, FillRange
  <2>3. price' \in Prices /\ depth' \in 0..Liquidity
    BY <1>1, <1>4, <2>2, TradesRange
  <2> QED
    BY <1>4, <2>1, <2>3 DEF TypeInv, Accounts, Listing, Progress, call
<1>5. CASE FillBuy
  <2>1. /\ InBook /\ Current.buy /\ Fillable /\ Fill > 0
        /\ Current \in Order /\ Fill \in 0..depth
        /\ Fill <= MaxShares - shares[Current.user]
    BY <1>5, FillRange DEF FillBuy
  <2>2. PICK u \in Players : u = Current.user
    BY <2>1, ReservedType
  <2>3. PICK n \in Nat : n = Fill
    BY <1>1, <2>1, Numbers
  <2>4. PICK l \in Nat : l = Current.limit
    BY <2>1, ReservedType
  <2>5. ask <= l
    BY <1>2, <2>1, <2>4 DEF Fillable
  <2>6. wallet' \in [Players -> Nat]
    <3>1. PICK w \in [Players -> Nat] : w = wallet
      BY DEF TypeInv, Accounts
    <3>2. PICK a \in Nat : a = (l - ask) * n
      BY <2>5
    <3>3. wallet' = [w EXCEPT ![u] = @ + a]
      BY <1>2, <1>5, <2>2, <2>3, <2>4, <3>1, <3>2 DEF FillBuy
    <3>4. 0 <= w[u] + a
      BY <3>1, <3>2
    <3> QED
      BY <3>2, <3>3, <3>4, Credited
  <2>7. shares' \in [Players -> 0..MaxShares]
    <3>1. PICK s \in [Players -> 0..MaxShares] : s = shares
      BY DEF TypeInv, Accounts
    <3>2. PICK held \in 0..MaxShares : held = s[u]
      OBVIOUS
    <3>3. held + n \in 0..MaxShares
      BY <2>1, <2>2, <2>3, <3>1, <3>2, Numbers
    <3>4. shares' = [s EXCEPT ![u] = held + n]
      BY <1>5, <2>2, <2>3, <3>1, <3>2 DEF FillBuy
    <3> QED
      BY <3>3, <3>4, HeldShares
  <2>8. paid' \in Int /\ issued' \in Int
    <3>1. ask * n \in Int
      OBVIOUS
    <3> QED
      BY <1>2, <1>5, <2>3, <3>1 DEF FillBuy, TypeInv, Progress
  <2> QED
    BY <1>4, <1>5, <2>6, <2>7, <2>8 DEF FillBuy
<1>6. CASE FillSell
  <2>1. InBook /\ Fill > 0 /\ Current \in Order /\ Fill \in 0..depth
    BY <1>6, FillRange DEF FillSell
  <2>2. PICK u \in Players : u = Current.user
    BY <2>1, ReservedType
  <2>3. PICK n \in Nat : n = Fill
    BY <1>1, <2>1, Numbers
  <2>4. PICK a \in Nat : a = bid * n
    OBVIOUS
  <2>5. wallet' \in [Players -> Nat]
    <3>1. PICK w \in [Players -> Nat] : w = wallet
      BY DEF TypeInv, Accounts
    <3>2. wallet' = [w EXCEPT ![u] = @ + a]
      BY <1>3, <1>6, <2>2, <2>3, <2>4, <3>1 DEF FillSell
    <3>3. 0 <= w[u] + a
      BY <3>1
    <3> QED
      BY <3>2, <3>3, Credited
  <2>6. paid' \in Int /\ issued' \in Int
    BY <1>3, <1>6, <2>3, <2>4 DEF FillSell, TypeInv, Progress
  <2>7. shares' \in [Players -> 0..MaxShares]
    BY <1>6 DEF FillSell, TypeInv, Accounts
  <2> QED
    BY <1>4, <1>6, <2>5, <2>6, <2>7 DEF FillSell
<1>7. CASE Rests
  BY <1>7 DEF Rests, InBook, book, exchange, call, history, TypeInv, Accounts, Listing, Progress
<1>8. CASE CloseBook
  BY <1>8 DEF CloseBook, book, exchange, call, history, TypeInv, Accounts, Listing, Progress
<1> QED
  BY <1>5, <1>6, <1>7, <1>8 DEF ProcessOrders

\* The action of the caller.
LEMMA TradeTypes ==
  ASSUME TypeInv, Trade, UNCHANGED torn
  PROVE  TypeInv'
<1>1. /\ price \in Prices /\ depth \in 0..Liquidity /\ wallet \in [Players -> Nat]
      /\ shares \in [Players -> 0..MaxShares] /\ orders \in Books
      /\ paid \in Int /\ issued \in Int
  BY DEF TypeInv, Accounts, Listing, Progress
<1>2. PICK ask \in Nat \ {0} : ask = Ask
  BY <1>1, Quotes
<1>3. PICK bid \in Nat \ {0} : bid = Bid
  BY <1>1, Quotes
<1>4. ASSUME InAction, wallet' \in [Players -> Nat], shares' \in [Players -> 0..MaxShares],
             orders' \in Books, price' \in Prices, depth' \in 0..Liquidity,
             paid' \in Int, issued' \in Int
      PROVE  TypeInv'
  BY <1>4 DEF InAction, TypeInv, Accounts, Listing, Progress, call
<1>5. ASSUME InAction PROVE caller \in Players
  BY <1>5 DEF InAction, TypeInv, Progress
<1>6. CASE NoTrade
  BY <1>1, <1>4, <1>6 DEF NoTrade, book, history
<1>7. ASSUME NEW n \in Quantities, NEW l \in Limits, NEW b \in BOOLEAN, MayPlace, InAction,
             orders' = Append(orders, [user |-> caller, buy |-> b, quantity |-> n, limit |-> l])
      PROVE  orders' \in Books
  <2>1. PICK o : o = [user |-> caller, buy |-> b, quantity |-> n, limit |-> l]
    OBVIOUS
  <2>2. o \in Order /\ o.user = caller
    <3>1. n \in Nat \ {0} /\ l \in Nat \ {0}
      BY PriceAssumption
    <3> QED
      BY <1>5, <1>7, <2>1, <3>1 DEF Order
  <2>3. Cardinality(In(orders, o.user)) < MaxOrders
    BY <1>7, <2>2 DEF MayPlace, OrdersOf, In
  <2>4. Append(orders, o) \in Books
    BY <1>1, <2>2, <2>3, BookWith
  <2> QED
    BY <1>7, <2>1, <2>4
<1>8. ASSUME NEW n \in Quantities, NEW l \in Limits, PlaceBuy(n, l) PROVE TypeInv'
  <2>1. n \in Nat /\ l \in Nat /\ InAction /\ caller \in Players
    BY <1>5, <1>8, PriceAssumption DEF PlaceBuy
  <2>2. wallet' \in [Players -> Nat]
    <3>1. PICK a \in Nat : a = l * n
      BY <2>1
    <3>2. PICK w \in [Players -> Nat] : w = wallet
      BY <1>1
    <3>3. PICK c \in Nat : c = w[caller]
      BY <2>1
    <3>4. a <= c
      BY <1>8, <3>1, <3>2, <3>3 DEF PlaceBuy
    <3>5. wallet' = [w EXCEPT ![caller] = c - a] /\ c - a \in Nat
      BY <1>8, <3>1, <3>2, <3>3, <3>4 DEF PlaceBuy
    <3> QED
      BY <3>5
  <2>3. orders' \in Books
    BY <1>7, <1>8 DEF PlaceBuy
  <2> QED
    BY <1>1, <1>4, <1>8, <2>2, <2>3 DEF PlaceBuy, history
<1>9. ASSUME NEW n \in Quantities, NEW l \in Limits, PlaceSell(n, l) PROVE TypeInv'
  <2>1. n \in Nat /\ InAction /\ caller \in Players
    BY <1>5, <1>9, PriceAssumption DEF PlaceSell
  <2>2. shares' \in [Players -> 0..MaxShares]
    <3>1. PICK s \in [Players -> 0..MaxShares] : s = shares
      BY <1>1
    <3>2. PICK c \in 0..MaxShares : c = s[caller]
      BY <2>1
    <3>3. n <= c
      BY <1>9, <3>1, <3>2 DEF PlaceSell
    <3>4. shares' = [s EXCEPT ![caller] = c - n]
      BY <1>9, <3>1, <3>2 DEF PlaceSell
    <3>5. c - n \in 0..MaxShares
      BY <2>1, <3>3, Numbers
    <3> QED
      BY <2>1, <3>4, <3>5, HeldShares
  <2>3. orders' \in Books
    BY <1>7, <1>9 DEF PlaceSell
  <2> QED
    BY <1>1, <1>4, <1>9, <2>2, <2>3 DEF PlaceSell, history
<1>10. ASSUME NEW k \in DOMAIN orders, Cancel(k) PROVE TypeInv'
  <2>1. InAction /\ caller \in Players
    BY <1>5, <1>10 DEF Cancel
  <2>2. orders' \in Books /\ orders[k] \in Order
    BY <1>1, <1>10, BookWithout DEF Cancel
  <2>3. wallet' \in [Players -> Nat]
    <3>1. PICK a \in Nat : a = Reserved(orders[k])
      BY <2>2, ReservedType
    <3>2. PICK w \in [Players -> Nat] : w = wallet
      BY <1>1
    <3>3. wallet' = [w EXCEPT ![caller] = @ + a] /\ 0 <= w[caller] + a
      BY <1>10, <2>1, <3>1, <3>2 DEF Cancel
    <3> QED
      BY <2>1, <3>1, <3>3, Credited
  <2>4. shares' \in [Players -> 0..MaxShares]
    <3>1. PICK s \in [Players -> 0..MaxShares] : s = shares
      BY <1>1
    <3>2. PICK n \in Nat : n = orders[k].quantity
      BY <2>2, ReservedType
    <3>3. PICK c \in 0..MaxShares : c = s[caller]
      BY <2>1
    <3>4. (c + n) % (MaxShares + 1) \in 0..MaxShares
      BY Numbers
    <3>5. shares' = IF orders[k].buy THEN s ELSE [s EXCEPT ![caller] = (c + n) % (MaxShares + 1)]
      BY <1>10, <3>1, <3>2, <3>3 DEF Cancel
    <3> QED
      BY <2>1, <3>4, <3>5, HeldShares
  <2> QED
    BY <1>1, <1>4, <1>10, <2>2, <2>3, <2>4 DEF Cancel, history
<1>11. ASSUME NEW n \in Quantities, MarketBuy(n) PROVE TypeInv'
  <2>1. PICK fill : fill = Smaller(n, depth)
    OBVIOUS
  <2>2. fill \in 0..depth /\ fill \in Nat
    <3>1. n \in Nat
      BY PriceAssumption
    <3> QED
      BY <1>1, <2>1, <3>1, Numbers DEF Smaller
  <2>3. PICK cost \in Nat : cost = Ask * fill + Fee(Ask * fill)
    <3>1. PICK v \in Nat : v = Ask * fill
      BY <1>2, <2>2
    <3>2. Fee(v) \in Nat
      BY <3>1, Numbers DEF Fee, Larger
    <3> QED
      BY <3>1, <3>2
  <2>4. /\ InAction /\ wallet[caller] >= cost /\ shares[caller] <= MaxShares - fill
        /\ wallet' = [wallet EXCEPT ![caller] = @ - cost]
        /\ shares' = [shares EXCEPT ![caller] = @ + fill]
        /\ depth' = depth - fill /\ price' = Smaller(MaxPrice, price + Impact(fill))
        /\ paid' = paid + cost /\ issued' = issued + fill
        /\ orders' = orders
    BY <1>11, <2>1, <2>3 DEF MarketBuy
  <2>5. caller \in Players
    BY <1>5, <2>4
  <2>6. wallet' \in [Players -> Nat]
    <3>1. PICK c \in Nat : c = wallet[caller]
      BY <1>1, <2>5
    <3>2. c - cost \in Nat /\ wallet' = [wallet EXCEPT ![caller] = c - cost]
      BY <2>4, <3>1
    <3> QED
      BY <1>1, <3>2
  <2>7. shares' \in [Players -> 0..MaxShares]
    <3>1. PICK c \in 0..MaxShares : c = shares[caller]
      BY <1>1, <2>5
    <3>2. c + fill \in 0..MaxShares
      BY <2>2, <2>4, <3>1, Numbers
    <3>3. shares' = [shares EXCEPT ![caller] = c + fill]
      BY <2>4, <3>1
    <3> QED
      BY <1>1, <2>5, <3>2, <3>3, HeldShares
  <2>8. price' \in Prices /\ depth' \in 0..Liquidity
    BY <1>1, <2>2, <2>4, BuyRange
  <2> QED
    BY <1>1, <1>4, <2>2, <2>4, <2>6, <2>7, <2>8
<1>12. ASSUME NEW n \in Quantities, MarketSell(n) PROVE TypeInv'
  <2>1. PICK fill : fill = Smaller(n, depth)
    OBVIOUS
  <2>2. fill \in 0..depth /\ fill \in Nat /\ fill <= n /\ n \in Nat /\ 0 < fill
    <3>1. n \in Nat \ {0} /\ depth > 0
      BY <1>12, PriceAssumption DEF MarketSell, Open
    <3> QED
      BY <1>1, <2>1, <3>1, Numbers DEF Smaller
  <2>3. PICK proceeds \in Nat : proceeds = Bid * fill - Fee(Bid * fill)
    <3>1. PICK v \in Nat : v = Bid * fill
      BY <1>3, <2>2
    <3>2. MinFee <= v
      <4>1. MinFee <= bid
        BY <1>1, <1>3, Quotes
      <4>2. bid <= bid * fill
        BY <2>2
      <4> QED
        BY <1>3, <2>2, <3>1, <4>1, <4>2, Numbers
    <3>3. Fee(v) \in Nat /\ Fee(v) <= v
      BY <3>1, <3>2, Numbers DEF Fee, Larger
    <3> QED
      BY <3>1, <3>3
  <2>4. /\ InAction /\ shares[caller] >= n
        /\ wallet' = [wallet EXCEPT ![caller] = @ + proceeds]
        /\ shares' = [shares EXCEPT ![caller] = @ - fill]
        /\ depth' = depth - fill /\ price' = Larger(MinPrice, price - Impact(fill))
        /\ paid' = paid - proceeds /\ issued' = issued - fill
        /\ orders' = orders
    BY <1>12, <2>1, <2>3 DEF MarketSell
  <2>5. caller \in Players
    BY <1>5, <2>4
  <2>6. wallet' \in [Players -> Nat]
    <3>1. 0 <= wallet[caller] + proceeds
      <4>1. wallet[caller] \in Nat
        BY <1>1, <2>5
      <4> QED
        BY <4>1
    <3> QED
      BY <1>1, <2>4, <2>5, <3>1, Credited
  <2>7. shares' \in [Players -> 0..MaxShares]
    <3>1. PICK c \in 0..MaxShares : c = shares[caller]
      BY <1>1, <2>5
    <3>2. c - fill \in 0..MaxShares
      BY <2>2, <2>4, <3>1, Numbers
    <3>3. shares' = [shares EXCEPT ![caller] = c - fill]
      BY <2>4, <3>1
    <3> QED
      BY <1>1, <2>5, <3>2, <3>3, HeldShares
  <2>8. price' \in Prices /\ depth' \in 0..Liquidity
    BY <1>1, <2>2, <2>4, SellRange
  <2> QED
    BY <1>1, <1>4, <2>2, <2>4, <2>6, <2>7, <2>8
<1> QED
  BY <1>6, <1>8, <1>9, <1>10, <1>11, <1>12 DEF Trade

\* The beginning of a call, its save and its roll-back.
LEMMA CallTypes ==
  ASSUME TypeInv, \/ \E c \in Players \cup {Tick} : Begin(c)
                  \/ Save
                  \/ ActionNotSaved,
         torn' \in BOOLEAN
  PROVE  TypeInv'
<1>1. ASSUME NEW c \in Players \cup {Tick}, Begin(c) PROVE TypeInv'
  <2>1. before' \in Copies
    BY <1>1 DEF Begin, Copies, TypeInv, Accounts, Listing, Progress
  <2>2. calls' \in 0..MaxCalls
    BY <1>1, PriceAssumption DEF Begin, TypeInv, Progress
  <2> QED
    BY <1>1, <2>1, <2>2 DEF Begin, TypeInv, Accounts, Listing, Progress, book, exchange, history
<1>2. CASE Save
  BY <1>2 DEF Save, SaveSucceeds, TickNotSaved, EndCall, TypeInv, Accounts, Listing, Progress,
    book, exchange, history
<1>3. CASE ActionNotSaved
  <2>1. before \in Copies /\ caller \in Players
    BY <1>3 DEF ActionNotSaved, SaveMayFail, TypeInv, Progress
  <2>2. Accounts'
    <3>1. PICK w \in [Players -> Nat] : w = wallet
      BY DEF TypeInv, Accounts
    <3>2. PICK s \in [Players -> 0..MaxShares] : s = shares
      BY DEF TypeInv, Accounts
    <3>3. PICK a \in Nat : a = before.wallet[caller]
      BY <2>1 DEF Copies
    <3>4. PICK n \in 0..MaxShares : n = before.shares[caller]
      BY <2>1 DEF Copies
    <3>5. wallet' = [w EXCEPT ![caller] = a] /\ shares' = [s EXCEPT ![caller] = n]
      BY <1>3, <3>1, <3>2, <3>3, <3>4 DEF ActionNotSaved
    <3>6. orders' \in Books
      BY <1>3, <2>1 DEF ActionNotSaved, Copies
    <3> QED
      BY <3>5, <3>6 DEF Accounts
  <2>3. Listing' /\ paid' \in Int /\ issued' \in Int
    BY <1>3, <2>1 DEF ActionNotSaved, Copies, Listing
  <2> QED
    BY <1>3, <2>2, <2>3 DEF ActionNotSaved, EndCall, TypeInv, Progress
<1> QED
  BY <1>1, <1>2, <1>3

\* A new exchange is well-typed.
LEMMA InitTypes == Init => TypeInv
<1> SUFFICES ASSUME Init PROVE TypeInv
  OBVIOUS
<1>1. PICK none : none = <<>>
  OBVIOUS
<1>2. none \in Seq(Order) /\ DOMAIN none = {} /\ Cardinality({}) = 0
  BY <1>1, FS_EmptySet
<1>3. \A u : In(none, u) = {}
  BY <1>2 DEF In
<1>4. 0 <= MaxOrders
  BY Numbers
<1>5. ASSUME NEW u \in Players PROVE Cardinality(In(none, u)) <= MaxOrders
  BY <1>2, <1>3, <1>4, Zenon
<1>6. orders \in Books
  BY <1>1, <1>2, <1>5 DEF Init, Books
<1>7. InitialWallet \in Nat /\ InitialPrice \in Prices
  BY PriceAssumption, RangeAssumption, Numbers DEF Prices
<1>8. Accounts
  BY <1>6, <1>7, Numbers DEF Init, Accounts
<1>9. Listing
  <2>1. price \in Prices /\ depth \in 0..Liquidity
    BY <1>7, Numbers DEF Init
  <2>2. listed \in BOOLEAN /\ halted \in BOOLEAN
    BY DEF Init
  <2> QED
    BY <2>1, <2>2 DEF Listing
<1>10. Progress
  <2>1. 0 \in 0..MaxHours /\ 0 \in 0..MaxCalls
    BY PriceAssumption
  <2>2. /\ hours \in 0..MaxHours /\ cursor \in Nat \ {0} /\ calls \in 0..MaxCalls
        /\ paid \in Int /\ issued \in Int
    BY <2>1 DEF Init
  <2>3. torn \in BOOLEAN /\ phase = "idle" /\ caller = Tick
    BY DEF Init
  <2> QED
    BY <2>2, <2>3 DEF Progress
<1> QED
  BY <1>8, <1>9, <1>10 DEF TypeInv

\* TypeInv is inductive.
LEMMA NextTypes == TypeInv /\ [Next]_vars => TypeInv'
<1> SUFFICES ASSUME TypeInv, [Next]_vars PROVE TypeInv'
  OBVIOUS
<1>1. CASE UNCHANGED vars
  BY <1>1 DEF vars, book, exchange, call, history, TypeInv, Accounts, Listing, Progress
<1>2. torn \in BOOLEAN /\ (ActionNotSaved => torn' \in BOOLEAN)
  BY DEF TypeInv, Progress, ActionNotSaved
<1>3. CASE Next
  BY <1>2, <1>3, MarketTypes, OrdersTypes, TradeTypes, CallTypes DEF Next
<1> QED
  BY <1>1, <1>3

\* TypeOK: no fill, refund, fee, split, cancellation or failed save overdraws
\* a wallet, leaves an empty order or one too many, or a price below 1.
THEOREM TypeCorrect == Spec => []TypeOK
<1>1. TypeInv => TypeOK
  <2> SUFFICES ASSUME TypeInv PROVE TypeOK
    OBVIOUS
  <2>1. price \in 1..MaxPrice
    BY Numbers DEF TypeInv, Listing, Prices
  <2>2. orders \in Seq(Order) /\ \A u \in Players : Cardinality(OrdersOf(u)) <= MaxOrders
    BY DEF TypeInv, Accounts, Books, In, OrdersOf
  <2> QED
    BY <2>1, <2>2 DEF TypeInv, Accounts, Listing, Progress, TypeOK
<1> QED
  BY <1>1, InitTypes, NextTypes, PTL DEF Spec

-----------------------------------------------------------------------------
(* Cash and shares. *)

CashIn(q) == [k \in DOMAIN q |-> Reserved(q[k])]
SharesIn(q) == [k \in DOMAIN q |-> ReservedShares(q[k])]

Balanced(w, s, q, p, i) ==
  /\ Total(w) + Total(CashIn(q)) + p = Cardinality(Players) * InitialWallet
  /\ Total(s) + Total(SharesIn(q)) = i

\* The state adds up, and so do the copies that a failed save puts back.
BooksAgree ==
  ~torn =>
    /\ Balanced(wallet, shares, orders, paid, issued)
    /\ phase # "idle" =>
         Balanced(before.wallet, before.shares, before.orders, before.paid, before.issued)

\* The amounts reserved by the orders of a book make two tables, and have totals.
LEMMA BookTables ==
  ASSUME NEW q \in Books
  PROVE  /\ IsFiniteSet(DOMAIN q) /\ DOMAIN q = 1..Len(q) /\ Len(q) \in Nat
         /\ CashIn(q) \in [DOMAIN q -> Int] /\ SharesIn(q) \in [DOMAIN q -> Int]
         /\ Total(CashIn(q)) \in Int /\ Total(SharesIn(q)) \in Int
         /\ \A k \in DOMAIN q : q[k] \in Order
<1>1. q \in Seq(Order)
  BY DEF Books
<1>2. IsFiniteSet(DOMAIN q) /\ DOMAIN q = 1..Len(q) /\ Len(q) \in Nat
  BY <1>1, InFinite
<1>3. ASSUME NEW k \in DOMAIN q PROVE q[k] \in Order
  BY <1>1, <1>2, ElementOfSeq
<1>4. CashIn(q) \in [DOMAIN q -> Int] /\ SharesIn(q) \in [DOMAIN q -> Int]
  <2>1. \A k \in DOMAIN q : Reserved(q[k]) \in Int /\ ReservedShares(q[k]) \in Int
    BY <1>3, ReservedType
  <2> QED
    BY <2>1 DEF CashIn, SharesIn
<1>5. Total(CashIn(q)) \in Int /\ Total(SharesIn(q)) \in Int
  BY <1>2, <1>4, TotalInt
<1> QED
  BY <1>2, <1>3, <1>4, <1>5

\* An empty book reserves nothing.
LEMMA NothingReserved ==
  Total(CashIn(<<>>)) = 0 /\ Total(SharesIn(<<>>)) = 0
<1>1. PICK none : none = <<>>
  OBVIOUS
<1>2. DOMAIN none = {}
  BY <1>1
<1>3. CashIn(none) \in [{} -> Int] /\ SharesIn(none) \in [{} -> Int]
  BY <1>2 DEF CashIn, SharesIn
<1> QED
  BY <1>1, <1>3, TotalEmpty

\* An order that leaves the book takes what it had reserved with it.
LEMMA TotalsWithout ==
  ASSUME NEW q \in Books, NEW i \in DOMAIN q
  PROVE  /\ Total(CashIn(q)) = Total(CashIn(RemoveAt(q, i))) + Reserved(q[i])
         /\ Total(SharesIn(q)) = Total(SharesIn(RemoveAt(q, i))) + ReservedShares(q[i])
<1>1. PICK r : r = RemoveAt(q, i)
  OBVIOUS
<1>2. PICK n \in Nat : n = Len(q)
  BY BookWithout
<1>3. /\ r \in Books /\ DOMAIN q = 1..n /\ DOMAIN r = 1..(n - 1) /\ i \in 1..n
      /\ \A k \in 1..(n - 1) : r[k] = q[IF k < i THEN k ELSE k + 1]
  BY <1>1, <1>2, BookWithout
<1>4. CashIn(q) \in [1..n -> Int] /\ SharesIn(q) \in [1..n -> Int]
  BY <1>3, BookTables
<1>5. CashIn(r) \in [1..(n - 1) -> Int] /\ SharesIn(r) \in [1..(n - 1) -> Int]
  BY <1>3, BookTables
<1>6. \A k \in 1..(n - 1) : /\ CashIn(r)[k] = CashIn(q)[IF k < i THEN k ELSE k + 1]
                            /\ SharesIn(r)[k] = SharesIn(q)[IF k < i THEN k ELSE k + 1]
  <2>1. TAKE k \in 1..(n - 1)
  <2>2. PICK j : j = IF k < i THEN k ELSE k + 1
    OBVIOUS
  <2>3. j \in 1..n /\ r[k] = q[j]
    BY <1>3, <2>2
  <2>4. CashIn(r)[k] = CashIn(q)[j] /\ SharesIn(r)[k] = SharesIn(q)[j]
    BY <1>3, <2>3 DEF CashIn, SharesIn
  <2> QED
    BY <2>2, <2>4
<1>7. Total(CashIn(q)) = Total(CashIn(r)) + CashIn(q)[i]
  BY <1>3, <1>4, <1>5, <1>6, TotalRemoved
<1>8. Total(SharesIn(q)) = Total(SharesIn(r)) + SharesIn(q)[i]
  BY <1>3, <1>4, <1>5, <1>6, TotalRemoved
<1> QED
  BY <1>1, <1>3, <1>7, <1>8 DEF CashIn, SharesIn

\* An order that enters the book reserves its part.
LEMMA TotalsWith ==
  ASSUME NEW q \in Books, NEW o \in Order, Cardinality(In(q, o.user)) < MaxOrders
  PROVE  /\ Total(CashIn(Append(q, o))) = Total(CashIn(q)) + Reserved(o)
         /\ Total(SharesIn(Append(q, o))) = Total(SharesIn(q)) + ReservedShares(o)
<1>1. PICK r : r = Append(q, o)
  OBVIOUS
<1>2. PICK n \in Nat : n = Len(q)
  BY BookWith
<1>3. /\ r \in Books /\ DOMAIN q = 1..n /\ DOMAIN r = 1..(n + 1)
      /\ \A k \in 1..n : r[k] = q[k]
      /\ r[n + 1] = o
  BY <1>1, <1>2, BookWith
<1>4. CashIn(q) \in [1..n -> Int] /\ SharesIn(q) \in [1..n -> Int]
  BY <1>3, BookTables
<1>5. CashIn(r) \in [1..(n + 1) -> Int] /\ SharesIn(r) \in [1..(n + 1) -> Int]
  BY <1>3, BookTables
<1>6. \A k \in 1..n : CashIn(r)[k] = CashIn(q)[k] /\ SharesIn(r)[k] = SharesIn(q)[k]
  BY <1>3 DEF CashIn, SharesIn
<1>7. Total(CashIn(r)) = Total(CashIn(q)) + CashIn(r)[n + 1]
  BY <1>4, <1>5, <1>6, TotalAppended
<1>8. Total(SharesIn(r)) = Total(SharesIn(q)) + SharesIn(r)[n + 1]
  BY <1>4, <1>5, <1>6, TotalAppended
<1>9. n + 1 \in DOMAIN r
  BY <1>3
<1> QED
  BY <1>1, <1>3, <1>7, <1>8, <1>9 DEF CashIn, SharesIn

\* A fill releases its part of what the order had reserved.
LEMMA TotalsReduced ==
  ASSUME TypeInv, InBook, Fill > 0, Reduced(Fill)
  PROVE  /\ Total(CashIn(orders)) =
              Total(CashIn(orders')) + (IF Current.buy THEN Current.limit * Fill ELSE 0)
         /\ Total(SharesIn(orders)) =
              Total(SharesIn(orders')) + (IF Current.buy THEN 0 ELSE Fill)
<1>1. PICK q \in Books : q = orders
  BY DEF TypeInv, Accounts
<1>2. PICK r \in Books : r = orders'
  BY ReducedBook
<1>3. PICK i \in DOMAIN q : i = cursor
  BY <1>1, FillRange
<1>4. PICK o \in Order : o = Current /\ o = q[i]
  BY <1>1, <1>3, FillRange DEF Current
<1>5. PICK n \in Nat : n = o.quantity
  BY ReservedType
<1>6. PICK l \in Nat : l = o.limit
  BY ReservedType
<1>7. PICK f \in Nat : f = Fill /\ f <= n
  BY <1>4, <1>5, FillRange, Numbers DEF TypeInv, Listing
<1>8. o.buy \in BOOLEAN
  BY ReservedType
<1>9. Reserved(o) = (IF o.buy THEN l * n ELSE 0) /\ ReservedShares(o) = (IF o.buy THEN 0 ELSE n)
  BY <1>5, <1>6 DEF Reserved, ReservedShares
<1>10. CASE n = f
  <2>1. r = RemoveAt(q, i)
    BY <1>1, <1>2, <1>3, <1>4, <1>5, <1>7, <1>10 DEF Reduced
  <2>2. /\ Total(CashIn(q)) = Total(CashIn(r)) + Reserved(o)
        /\ Total(SharesIn(q)) = Total(SharesIn(r)) + ReservedShares(o)
    BY <1>4, <2>1, TotalsWithout
  <2> QED
    BY <1>1, <1>2, <1>4, <1>6, <1>7, <1>9, <1>10, <2>2
<1>11. CASE n # f
  <2>1. PICK d \in Nat : d = n - f
    BY <1>7
  <2>2. r = [q EXCEPT ![i].quantity = d]
    BY <1>1, <1>2, <1>3, <1>4, <1>5, <1>7, <1>11, <2>1 DEF Reduced
  <2>3. PICK e : e = [o EXCEPT !.quantity = d]
    OBVIOUS
  <2>4. DOMAIN r = DOMAIN q /\ r[i] = e /\ \A k \in DOMAIN q \ {i} : r[k] = q[k]
    BY <1>4, <2>2, <2>3
  <2>5. e.buy = o.buy /\ e.quantity = d /\ e.limit = l
    BY <1>6, <2>3 DEF Order
  <2>6. Reserved(e) = (IF o.buy THEN l * d ELSE 0) /\ ReservedShares(e) = (IF o.buy THEN 0 ELSE d)
    BY <2>5 DEF Reserved, ReservedShares
  <2>7. PICK S : S = DOMAIN q
    OBVIOUS
  <2>8. IsFiniteSet(S) /\ CashIn(q) \in [S -> Int] /\ SharesIn(q) \in [S -> Int] /\ i \in S
    BY <2>7, BookTables
  <2>9. CashIn(r) \in [S -> Int] /\ SharesIn(r) \in [S -> Int]
    BY <2>4, <2>7, BookTables
  <2>10. /\ \A k \in S \ {i} : CashIn(r)[k] = CashIn(q)[k]
         /\ \A k \in S \ {i} : SharesIn(r)[k] = SharesIn(q)[k]
         /\ CashIn(q)[i] = Reserved(o) /\ CashIn(r)[i] = Reserved(e)
         /\ SharesIn(q)[i] = ReservedShares(o) /\ SharesIn(r)[i] = ReservedShares(e)
    BY <1>4, <2>4, <2>7 DEF CashIn, SharesIn
  <2>11. Total(CashIn(r)) = Total(CashIn(q)) + CashIn(r)[i] - CashIn(q)[i]
    BY <2>8, <2>9, <2>10, TotalUpdated
  <2>12. Total(SharesIn(r)) = Total(SharesIn(q)) + SharesIn(r)[i] - SharesIn(q)[i]
    BY <2>8, <2>9, <2>10, TotalUpdated
  <2>13. PICK cq \in Int : cq = Total(CashIn(q))
    BY BookTables
  <2>14. PICK sq \in Int : sq = Total(SharesIn(q))
    BY BookTables
  <2>15. l * n - l * d = l * f
    <3>1. l * n = l * (d + f)
      BY <1>7, <2>1
    <3>2. l * (d + f) = l * d + l * f
      BY <1>7, <2>1
    <3>3. PICK a \in Int, b \in Int, c \in Int : a = l * n /\ b = l * d /\ c = l * f
      OBVIOUS
    <3> QED
      BY <3>1, <3>2, <3>3
  <2>16. PICK a \in Int, b \in Int, c \in Int : a = l * n /\ b = l * d /\ c = l * f
    OBVIOUS
  <2>17. /\ cq = Total(CashIn(r)) + (IF o.buy THEN c ELSE 0)
         /\ sq = Total(SharesIn(r)) + (IF o.buy THEN 0 ELSE f)
    BY <1>8, <1>9, <2>1, <2>6, <2>10, <2>11, <2>12, <2>13, <2>14, <2>15, <2>16
  <2> QED
    BY <1>1, <1>2, <1>4, <1>6, <1>7, <2>13, <2>14, <2>16, <2>17
<1> QED
  BY <1>10, <1>11

\* A wallet changes by a.
LEMMA TotalMoved ==
  ASSUME NEW w \in [Players -> Int], NEW u \in Players, NEW a \in Int
  PROVE  Total([w EXCEPT ![u] = @ + a]) = Total(w) + a /\ Total(w) \in Int
<1>1. PICK v : v = [w EXCEPT ![u] = @ + a]
  OBVIOUS
<1>2. v \in [Players -> Int] /\ v[u] = w[u] + a /\ \A x \in Players \ {u} : v[x] = w[x]
  BY <1>1
<1>3. IsFiniteSet(Players)
  BY PlayersAssumption
<1>4. Total(v) = Total(w) + v[u] - w[u]
  BY <1>2, <1>3, TotalUpdated
<1>5. Total(w) \in Int /\ w[u] \in Int
  BY <1>3, TotalInt
<1>6. Total(v) = Total(w) + a
  <2>1. PICK b \in Int : b = w[u]
    BY <1>5
  <2>2. PICK t \in Int : t = Total(w)
    BY <1>5
  <2> QED
    BY <1>2, <1>4, <2>1, <2>2
<1> QED
  BY <1>1, <1>5, <1>6

\* No number of shares reaches the width of its field: neither what a split
\* doubles nor what a cancelled order gives back.
Fits ==
  /\ Split => /\ \A u \in Players : shares[u] <= MaxShares \div 2
              /\ \A k \in DOMAIN orders : orders[k].quantity <= MaxShares \div 2
  /\ \A k \in DOMAIN orders :
       Cancel(k) => orders[k].buy \/ shares[caller] + orders[k].quantity <= MaxShares

\* The limits of the resting buy orders can be halved.
Halves == Split => \A k \in DOMAIN orders : orders[k].buy => orders[k].limit % 2 = 0

Now == Balanced(wallet, shares, orders, paid, issued)

\* The numbers behind an equation.
LEMMA Amounts ==
  ASSUME TypeInv
  PROVE  /\ Total(wallet) \in Int /\ Total(shares) \in Int
         /\ Total(CashIn(orders)) \in Int /\ Total(SharesIn(orders)) \in Int
         /\ wallet \in [Players -> Int] /\ shares \in [Players -> Int]
         /\ orders \in Books /\ paid \in Int /\ issued \in Int
         /\ Cardinality(Players) * InitialWallet \in Int
<1>1. /\ wallet \in [Players -> Int] /\ shares \in [Players -> Int]
      /\ orders \in Books /\ paid \in Int /\ issued \in Int
  BY Numbers DEF TypeInv, Accounts, Progress
<1>2. IsFiniteSet(Players)
  BY PlayersAssumption
<1>3. Total(wallet) \in Int /\ Total(shares) \in Int
  BY <1>1, <1>2, TotalInt
<1>4. Cardinality(Players) \in Nat /\ InitialWallet \in Nat
  BY <1>2, FS_CardinalityType, PriceAssumption
<1> QED
  BY <1>1, <1>3, <1>4, BookTables

\* The sums add up after a step when they did and what leaves one enters another.
LEMMA StaysBalanced ==
  ASSUME TypeInv, Now, NEW a \in Int, NEW b \in Int, NEW c \in Int, NEW d \in Int, NEW e \in Int,
         NEW f \in Int,
         Total(wallet') = Total(wallet) + a, Total(CashIn(orders')) = Total(CashIn(orders)) + b,
         paid' = paid + c, a + b + c = 0,
         Total(shares') = Total(shares) + d, Total(SharesIn(orders')) = Total(SharesIn(orders)) + e,
         issued' = issued + f, d + e = f
  PROVE  Now'
<1>1. PICK w \in Int, q \in Int, p \in Int, t \in Int :
        w = Total(wallet) /\ q = Total(CashIn(orders)) /\ p = paid
        /\ t = Cardinality(Players) * InitialWallet
  BY Amounts
<1>2. PICK s \in Int, r \in Int, i \in Int :
        s = Total(shares) /\ r = Total(SharesIn(orders)) /\ i = issued
  BY Amounts
<1>3. w + q + p = t /\ s + r = i
  BY <1>1, <1>2 DEF Now, Balanced
<1>4. (w + a) + (q + b) + (p + c) = t /\ (s + d) + (r + e) = i + f
  BY <1>3
<1> QED
  BY <1>1, <1>2, <1>4 DEF Now, Balanced

\* Delisting: every escrow goes back to the wallet it came from.
LEMMA DelistBalanced ==
  ASSUME TypeInv, Now, Delist
  PROVE  Now'
<1>1. PICK q \in Books : q = orders
  BY DEF TypeInv, Accounts
<1>2. PICK owner : owner = [k \in DOMAIN q |-> q[k].user]
  OBVIOUS
<1>3. PICK parts : parts = [u \in Players |-> Total(Group(CashIn(q), DOMAIN q, owner, u))]
  OBVIOUS
<1>4. IsFiniteSet(Players)
  BY PlayersAssumption
<1>5. owner \in [DOMAIN q -> Players]
  BY <1>2, BookTables, ReservedType
<1>6. Total(parts) = Total(CashIn(q))
  <2>1. PICK S : S = DOMAIN q
    OBVIOUS
  <2>2. PICK f : f = CashIn(q)
    OBVIOUS
  <2>3. IsFiniteSet(S) /\ f \in [S -> Int] /\ owner \in [S -> Players]
    BY <1>5, <2>1, <2>2, BookTables
  <2>4. parts = [u \in Players |-> Total(Group(f, S, owner, u))]
    BY <1>3, <2>1, <2>2
  <2>5. Total(parts) = Total(f)
    BY <1>4, <2>3, <2>4, TotalGrouped
  <2> QED
    BY <2>2, <2>5
<1>7. ASSUME NEW u \in Players PROVE parts[u] = EscrowOf(u)
  <2>1. PICK S : S = OrdersOf(u)
    OBVIOUS
  <2>2. S = {k \in DOMAIN q : owner[k] = u} /\ S \in SUBSET DOMAIN q
    BY <1>1, <1>2, <2>1 DEF OrdersOf
  <2>3. Only(CashIn(q), S) = [k \in S |-> Reserved(q[k])]
    BY <2>2 DEF Only, CashIn
  <2>4. parts[u] = Total(Only(CashIn(q), S))
    BY <1>3, <2>2 DEF Group
  <2> QED
    BY <1>1, <2>1, <2>3, <2>4 DEF EscrowOf
<1>8. parts \in [Players -> Int]
  <2>1. \A u \in Players : parts[u] \in Int
    BY <1>1, <1>7, EscrowType
  <2> QED
    BY <1>3, <2>1
<1>9. wallet \in [Players -> Int] /\ wallet' = [u \in Players |-> wallet[u] + EscrowOf(u)]
  BY Amounts DEF Delist
<1>10. wallet' \in [Players -> Int] /\ \A u \in Players : wallet'[u] = wallet[u] + parts[u]
  <2>1. \A u \in Players : wallet'[u] = wallet[u] + parts[u]
    BY <1>7, <1>9
  <2>2. \A u \in Players : wallet[u] + parts[u] \in Int
    BY <1>8, <1>9
  <2> QED
    BY <1>9, <2>1, <2>2
<1>11. Total(wallet') = Total(wallet) + Total(parts)
  <2>1. PICK after : after = wallet'
    OBVIOUS
  <2>2. after \in [Players -> Int] /\ \A u \in Players : after[u] = wallet[u] + parts[u]
    BY <1>10, <2>1
  <2>3. Total(after) = Total(wallet) + Total(parts)
    BY <1>4, <1>8, <1>9, <2>2, TotalPlus
  <2> QED
    BY <2>1, <2>3
<1>12. Total(shares') = 0
  <2>1. PICK none : none = [u \in Players |-> 0]
    OBVIOUS
  <2>2. Total(none) = Cardinality(Players) * 0 /\ Cardinality(Players) \in Nat
    BY <1>4, <2>1, TotalConstant, FS_CardinalityType
  <2>3. shares' = none
    BY <2>1 DEF Delist
  <2> QED
    BY <2>2, <2>3
<1>13. Total(CashIn(orders')) = 0 /\ Total(SharesIn(orders')) = 0
  BY NothingReserved DEF Delist
<1>14. paid' = paid /\ issued' = 0
  BY DEF Delist, InHour
<1>15. PICK w \in Int, c \in Int, p \in Int : w = Total(wallet) /\ c = Total(CashIn(orders)) /\ p = paid
  BY Amounts
<1>16. w + c + p = Cardinality(Players) * InitialWallet
  BY <1>15 DEF Now, Balanced
<1>17. Total(wallet') = w + c
  BY <1>1, <1>6, <1>11, <1>15
<1>18. (w + c) + 0 + p = Cardinality(Players) * InitialWallet
  BY <1>15, <1>16
<1> QED
  BY <1>12, <1>13, <1>14, <1>15, <1>17, <1>18 DEF Now, Balanced

\* A split that rounds nothing doubles the shares and keeps the cash.
LEMMA SplitBalanced ==
  ASSUME TypeInv, Now, Split, Fits, Halves
  PROVE  Now'
<1>1. PICK q \in Books : q = orders
  BY DEF TypeInv, Accounts
<1>2. PICK r : r = [k \in DOMAIN q |-> SplitOrder(q[k])]
  OBVIOUS
<1>3. ASSUME NEW k \in DOMAIN q
      PROVE  Reserved(r[k]) = Reserved(q[k]) /\ ReservedShares(r[k]) = ReservedShares(q[k]) * 2
  <2>1. PICK o \in Order : o = q[k]
    BY <1>3, BookTables
  <2>2. PICK n \in Nat : n = o.quantity
    BY ReservedType
  <2>3. PICK l \in Nat \ {0} : l = o.limit
    BY ReservedType
  <2>4. n <= MaxShares \div 2 /\ (o.buy => l % 2 = 0)
    BY <1>1, <1>3, <2>1, <2>2, <2>3 DEF Fits, Halves
  <2>5. Doubled(n) = n * 2
    BY <2>4, Numbers DEF Doubled
  <2>6. /\ r[k].quantity = n * 2 /\ r[k].buy = o.buy
        /\ r[k].limit = Larger(1, l \div 2)
    BY <1>2, <1>3, <2>1, <2>2, <2>3, <2>5 DEF SplitOrder, Order
  <2>7. CASE o.buy
    <3>1. PICK h \in Nat : h = l \div 2
      BY <2>3
    <3>2. l = 2 * h /\ h > 0
      BY <2>4, <2>7, <3>1
    <3>3. r[k].limit = h
      BY <2>6, <3>1, <3>2 DEF Larger
    <3>4. h * (n * 2) = l * n
      <4>1. (2 * h) * n = h * (n * 2)
        OBVIOUS
      <4> QED
        BY <3>2, <4>1
    <3> QED
      BY <2>1, <2>2, <2>3, <2>6, <2>7, <3>3, <3>4 DEF Reserved, ReservedShares
  <2>8. CASE ~o.buy
    BY <2>1, <2>2, <2>6, <2>8 DEF Reserved, ReservedShares
  <2> QED
    BY <2>7, <2>8
<1>4. PICK S : S = DOMAIN q
  OBVIOUS
<1>5. IsFiniteSet(S) /\ SharesIn(q) \in [S -> Int]
  BY <1>4, BookTables
<1>6. CashIn(r) = CashIn(q)
  BY <1>2, <1>3 DEF CashIn
<1>7. Total(SharesIn(r)) = Total(SharesIn(q)) + Total(SharesIn(q))
  <2>1. PICK f : f = SharesIn(q)
    OBVIOUS
  <2>2. PICK g : g = SharesIn(r)
    OBVIOUS
  <2>3. DOMAIN g = S /\ g = [k \in S |-> g[k]]
    BY <1>2, <1>4, <2>2 DEF SharesIn
  <2>4. ASSUME NEW k \in S PROVE g[k] = f[k] + f[k] /\ f[k] \in Int
    <3>1. g[k] = ReservedShares(r[k]) /\ f[k] = ReservedShares(q[k]) /\ f[k] \in Int
      BY <1>2, <1>4, <1>5, <2>1, <2>2 DEF SharesIn
    <3>2. PICK a \in Int : a = f[k]
      BY <3>1
    <3> QED
      BY <1>3, <1>4, <3>1, <3>2
  <2>5. g \in [S -> Int] /\ f \in [S -> Int] /\ \A k \in S : g[k] = f[k] + f[k]
    <3>1. \A k \in S : g[k] \in Int
      BY <2>4
    <3> QED
      BY <1>5, <2>1, <2>3, <2>4, <3>1
  <2>6. Total(g) = Total(f) + Total(f)
    BY <1>5, <2>5, TotalPlus
  <2> QED
    BY <2>1, <2>2, <2>6
<1>8. Total(shares') = Total(shares) + Total(shares)
  <2>1. PICK f \in [Players -> 0..MaxShares] : f = shares
    BY DEF TypeInv, Accounts
  <2>2. PICK g : g = shares'
    OBVIOUS
  <2>3. g = [u \in Players |-> Doubled(f[u])]
    BY <2>1, <2>2 DEF Split
  <2>4. ASSUME NEW u \in Players PROVE Doubled(f[u]) = f[u] + f[u] /\ f[u] \in Int /\ f[u] + f[u] \in Int
    <3>1. PICK n \in Nat : n = f[u]
      BY Numbers
    <3>2. n <= MaxShares \div 2
      BY <2>1, <3>1 DEF Fits
    <3> QED
      BY <3>1, <3>2, Numbers DEF Doubled
  <2>5. g \in [Players -> Int] /\ f \in [Players -> Int] /\ \A u \in Players : g[u] = f[u] + f[u]
    BY <2>3, <2>4
  <2>6. IsFiniteSet(Players)
    BY PlayersAssumption
  <2>7. Total(g) = Total(f) + Total(f)
    BY <2>5, <2>6, TotalPlus
  <2> QED
    BY <2>1, <2>2, <2>7
<1>9. orders' = r /\ issued' = issued * 2 /\ wallet' = wallet /\ paid' = paid
  BY <1>1, <1>2 DEF Split
<1>10. PICK s \in Int, t \in Int, i \in Int :
         s = Total(shares) /\ t = Total(SharesIn(orders)) /\ i = issued
  BY Amounts
<1>11. s + t = i
  BY <1>10 DEF Now, Balanced
<1>12. (s + s) + (t + t) = i * 2
  BY <1>10, <1>11
<1>13. Total(shares') + Total(SharesIn(orders')) = issued'
  BY <1>1, <1>7, <1>8, <1>9, <1>10, <1>12
<1> QED
  BY <1>1, <1>6, <1>9, <1>13 DEF Now, Balanced

\* process_orders: what an order releases goes to its owner or to the market.
LEMMA FillBalanced ==
  ASSUME TypeInv, Now, FillBuy \/ FillSell
  PROVE  Now'
<1>1. InBook /\ Fill > 0 /\ Reduced(Fill)
  BY DEF FillBuy, FillSell
<1>2. PICK u \in Players : u = Current.user
  BY <1>1, FillRange, ReservedType
<1>3. PICK f \in Nat : f = Fill
  BY <1>1, FillRange, Numbers DEF TypeInv, Listing
<1>4. PICK l \in Nat : l = Current.limit
  BY <1>1, FillRange, ReservedType
<1>5. PICK ask \in Nat, bid \in Nat : ask = Ask /\ bid = Bid
  BY Quotes DEF TypeInv, Listing
<1>6. wallet \in [Players -> Int] /\ shares \in [Players -> Int] /\ paid \in Int /\ issued \in Int
  BY Amounts
<1>7. /\ Total(CashIn(orders)) \in Int /\ Total(SharesIn(orders)) \in Int
      /\ Total(wallet) \in Int /\ Total(shares) \in Int
      /\ Total(CashIn(orders')) \in Int /\ Total(SharesIn(orders')) \in Int
  BY <1>1, Amounts, ReducedBook, BookTables
<1>8. PICK x \in Int, y \in Int, z \in Int : x = l * f /\ y = ask * f /\ z = bid * f
  OBVIOUS
<1>9. (l - ask) * f = x - y
  <2>1. (l - ask) * f = l * f - ask * f
    OBVIOUS
  <2> QED
    BY <1>8, <2>1
<1>10. CASE FillBuy
  <2>1. Current.buy
    BY <1>10 DEF FillBuy
  <2>2. /\ Total(CashIn(orders)) = Total(CashIn(orders')) + x
        /\ Total(SharesIn(orders)) = Total(SharesIn(orders')) + 0
    BY <1>1, <1>3, <1>4, <1>8, <2>1, TotalsReduced
  <2>3. Total(wallet') = Total(wallet) + (x - y)
    <3>1. wallet' = [wallet EXCEPT ![u] = @ + (x - y)]
      BY <1>2, <1>3, <1>4, <1>5, <1>9, <1>10 DEF FillBuy
    <3>2. PICK a \in Int : a = x - y
      OBVIOUS
    <3>3. Total([wallet EXCEPT ![u] = @ + a]) = Total(wallet) + a
      BY <1>6, TotalMoved
    <3> QED
      BY <3>1, <3>2, <3>3
  <2>4. Total(shares') = Total(shares) + f
    <3>1. shares' = [shares EXCEPT ![u] = @ + f]
      BY <1>2, <1>3, <1>10 DEF FillBuy
    <3>2. f \in Int
      OBVIOUS
    <3> QED
      BY <1>6, <3>1, <3>2, TotalMoved
  <2>5. paid' = paid + y /\ issued' = issued + f
    BY <1>3, <1>5, <1>8, <1>10 DEF FillBuy
  <2>6. Total(CashIn(orders')) = Total(CashIn(orders)) + (-x)
    BY <1>7, <2>2
  <2>7. Total(SharesIn(orders')) = Total(SharesIn(orders)) + 0
    BY <1>7, <2>2
  <2>8. (x - y) + (-x) + y = 0 /\ f + 0 = f /\ x - y \in Int /\ -x \in Int /\ f \in Int /\ 0 \in Int
    OBVIOUS
  <2> QED
    BY <2>3, <2>4, <2>5, <2>6, <2>7, <2>8, StaysBalanced
<1>11. CASE FillSell
  <2>1. ~Current.buy
    BY <1>11 DEF FillSell
  <2>2. /\ Total(CashIn(orders)) = Total(CashIn(orders')) + 0
        /\ Total(SharesIn(orders)) = Total(SharesIn(orders')) + f
    BY <1>1, <1>3, <2>1, TotalsReduced
  <2>3. Total(wallet') = Total(wallet) + z
    <3>1. wallet' = [wallet EXCEPT ![u] = @ + z]
      BY <1>2, <1>3, <1>5, <1>8, <1>11 DEF FillSell
    <3> QED
      BY <1>6, <3>1, TotalMoved
  <2>4. Total(shares') = Total(shares) + 0
    BY <1>7, <1>11 DEF FillSell
  <2>5. paid' = paid + (-z) /\ issued' = issued + (-f)
    BY <1>3, <1>5, <1>6, <1>8, <1>11 DEF FillSell
  <2>6. Total(CashIn(orders')) = Total(CashIn(orders)) + 0
    BY <1>7, <2>2
  <2>7. Total(SharesIn(orders')) = Total(SharesIn(orders)) + (-f)
    BY <1>7, <2>2
  <2>8. z + 0 + (-z) = 0 /\ 0 + (-f) = -f /\ -z \in Int /\ -f \in Int /\ 0 \in Int
    OBVIOUS
  <2> QED
    BY <2>3, <2>4, <2>5, <2>6, <2>7, <2>8, StaysBalanced
<1> QED
  BY <1>10, <1>11

\* The order that a call enters in the book.
Placed(b, n, l) == [user |-> caller, buy |-> b, quantity |-> n, limit |-> l]

\* The action of the caller: what it reserves, takes back, pays or is paid.
LEMMA TradeBalanced ==
  ASSUME TypeInv, Now, Trade, Fits
  PROVE  Now'
<1>1. /\ wallet \in [Players -> Int] /\ shares \in [Players -> Int] /\ orders \in Books
      /\ paid \in Int /\ issued \in Int
      /\ Total(CashIn(orders)) \in Int /\ Total(SharesIn(orders)) \in Int
      /\ Total(wallet) \in Int /\ Total(shares) \in Int
  BY Amounts
<1>2. ASSUME InAction PROVE caller \in Players
  BY <1>2 DEF InAction, TypeInv, Progress
<1>3. 0 \in Int /\ 0 + 0 + 0 = 0 /\ 0 + 0 = 0
  OBVIOUS
<1>4. CASE NoTrade
  BY <1>4 DEF NoTrade, book, history, Now
<1>5. ASSUME NEW n \in Quantities, NEW l \in Limits, NEW b \in BOOLEAN, MayPlace, InAction
      PROVE  /\ n \in Nat /\ l \in Nat /\ Placed(b, n, l).buy = b
             /\ Placed(b, n, l).quantity = n /\ Placed(b, n, l).limit = l
             /\ Total(CashIn(Append(orders, Placed(b, n, l)))) =
                  Total(CashIn(orders)) + Reserved(Placed(b, n, l))
             /\ Total(SharesIn(Append(orders, Placed(b, n, l)))) =
                  Total(SharesIn(orders)) + ReservedShares(Placed(b, n, l))
  <2>1. n \in Nat \ {0} /\ l \in Nat \ {0}
    BY PriceAssumption
  <2>2. PICK o : o = Placed(b, n, l)
    OBVIOUS
  <2>3. o \in Order /\ o.user = caller /\ o.buy = b /\ o.quantity = n /\ o.limit = l
    BY <1>2, <1>5, <2>1, <2>2 DEF Order, Placed
  <2>4. Cardinality(In(orders, o.user)) < MaxOrders
    BY <1>5, <2>3 DEF MayPlace, OrdersOf, In
  <2>5. /\ Total(CashIn(Append(orders, o))) = Total(CashIn(orders)) + Reserved(o)
        /\ Total(SharesIn(Append(orders, o))) = Total(SharesIn(orders)) + ReservedShares(o)
    BY <1>1, <2>3, <2>4, TotalsWith
  <2> QED
    BY <2>1, <2>2, <2>3, <2>5
<1>6. ASSUME NEW n \in Quantities, NEW l \in Limits, PlaceBuy(n, l) PROVE Now'
  <2>1. MayPlace /\ InAction /\ TRUE \in BOOLEAN
    BY <1>6 DEF PlaceBuy
  <2>2. PICK o : o = Placed(TRUE, n, l)
    OBVIOUS
  <2>3. /\ n \in Nat /\ l \in Nat /\ o.buy = TRUE /\ o.quantity = n /\ o.limit = l
        /\ Total(CashIn(Append(orders, o))) = Total(CashIn(orders)) + Reserved(o)
        /\ Total(SharesIn(Append(orders, o))) = Total(SharesIn(orders)) + ReservedShares(o)
    BY <1>5, <2>1, <2>2
  <2>4. PICK a \in Int : a = l * n
    BY <2>3
  <2>5. Reserved(o) = a /\ ReservedShares(o) = 0
    BY <2>3, <2>4 DEF Reserved, ReservedShares
  <2>6. orders' = Append(orders, o)
    BY <1>6, <2>2 DEF PlaceBuy, Placed
  <2>7. Total(CashIn(orders')) = Total(CashIn(orders)) + a
        /\ Total(SharesIn(orders')) = Total(SharesIn(orders)) + 0
    BY <2>3, <2>5, <2>6
  <2>8. PICK m \in Int : m = -a
    OBVIOUS
  <2>9. Total(wallet') = Total(wallet) + m
    <3>1. wallet' = [wallet EXCEPT ![caller] = @ - a]
      BY <1>6, <2>4 DEF PlaceBuy
    <3>2. wallet[caller] \in Int
      BY <1>1, <1>2, <2>1
    <3>3. wallet[caller] - a = wallet[caller] + m
      BY <2>8, <3>2
    <3>4. wallet' = [wallet EXCEPT ![caller] = @ + m]
      BY <3>1, <3>3
    <3> QED
      BY <1>1, <1>2, <2>1, <3>4, TotalMoved
  <2>10. /\ paid' = paid + 0 /\ issued' = issued + 0 /\ Total(shares') = Total(shares) + 0
         /\ m + a + 0 = 0
    BY <1>1, <1>6, <2>8 DEF PlaceBuy, history
  <2> QED
    BY <1>3, <2>7, <2>9, <2>10, StaysBalanced
<1>7. ASSUME NEW n \in Quantities, NEW l \in Limits, PlaceSell(n, l) PROVE Now'
  <2>1. MayPlace /\ InAction /\ FALSE \in BOOLEAN
    BY <1>7 DEF PlaceSell
  <2>2. PICK o : o = Placed(FALSE, n, l)
    OBVIOUS
  <2>3. /\ n \in Nat /\ l \in Nat /\ o.buy = FALSE /\ o.quantity = n /\ o.limit = l
        /\ Total(CashIn(Append(orders, o))) = Total(CashIn(orders)) + Reserved(o)
        /\ Total(SharesIn(Append(orders, o))) = Total(SharesIn(orders)) + ReservedShares(o)
    BY <1>5, <2>1, <2>2
  <2>4. n \in Int
    BY <2>3
  <2>5. Reserved(o) = 0 /\ ReservedShares(o) = n
    BY <2>3 DEF Reserved, ReservedShares
  <2>6. orders' = Append(orders, o)
    BY <1>7, <2>2 DEF PlaceSell, Placed
  <2>7. Total(CashIn(orders')) = Total(CashIn(orders)) + 0
        /\ Total(SharesIn(orders')) = Total(SharesIn(orders)) + n
    BY <2>3, <2>5, <2>6
  <2>8. PICK m \in Int : m = -n
    BY <2>4
  <2>9. Total(shares') = Total(shares) + m
    <3>1. shares' = [shares EXCEPT ![caller] = @ - n]
      BY <1>7 DEF PlaceSell
    <3>2. shares[caller] \in Int
      BY <1>1, <1>2, <2>1
    <3>3. shares[caller] - n = shares[caller] + m
      BY <2>4, <2>8, <3>2
    <3>4. shares' = [shares EXCEPT ![caller] = @ + m]
      BY <3>1, <3>3
    <3> QED
      BY <1>1, <1>2, <2>1, <3>4, TotalMoved
  <2>10. /\ paid' = paid + 0 /\ issued' = issued + 0 /\ Total(wallet') = Total(wallet) + 0
         /\ m + n = 0
    BY <1>1, <1>7, <2>4, <2>8 DEF PlaceSell, history
  <2> QED
    BY <1>3, <2>4, <2>7, <2>9, <2>10, StaysBalanced
<1>8. ASSUME NEW k \in DOMAIN orders, Cancel(k) PROVE Now'
  <2>1. InAction /\ caller \in Players
    BY <1>2, <1>8 DEF Cancel
  <2>2. PICK o \in Order : o = orders[k]
    BY <1>1, BookTables
  <2>3. PICK a \in Int : a = Reserved(o)
    BY ReservedType
  <2>4. PICK n \in Int : n = ReservedShares(o)
    BY ReservedType
  <2>5. orders' = RemoveAt(orders, k)
    BY <1>8 DEF Cancel
  <2>6. /\ Total(CashIn(orders)) = Total(CashIn(orders')) + a
        /\ Total(SharesIn(orders)) = Total(SharesIn(orders')) + n
    BY <1>1, <2>2, <2>3, <2>4, <2>5, TotalsWithout
  <2>7. orders' \in Books
    BY <1>1, <2>5, BookWithout
  <2>8. Total(CashIn(orders')) \in Int /\ Total(SharesIn(orders')) \in Int
    BY <2>7, BookTables
  <2>9. PICK b \in Int, m \in Int : b = -a /\ m = -n
    OBVIOUS
  <2>10. Total(CashIn(orders')) = Total(CashIn(orders)) + b
         /\ Total(SharesIn(orders')) = Total(SharesIn(orders)) + m
    BY <2>6, <2>8, <2>9
  <2>11. Total(wallet') = Total(wallet) + a
    <3>1. wallet' = [wallet EXCEPT ![caller] = @ + a]
      BY <1>8, <2>2, <2>3 DEF Cancel
    <3> QED
      BY <1>1, <2>1, <3>1, TotalMoved
  <2>12. Total(shares') = Total(shares) + n
    <3>1. CASE o.buy
      <4>1. shares' = shares /\ n = 0
        BY <1>8, <2>2, <2>4, <3>1 DEF Cancel, ReservedShares
      <4> QED
        BY <1>1, <4>1
    <3>2. CASE ~o.buy
      <4>1. PICK c \in Nat : c = shares[caller]
        BY <2>1, Numbers DEF TypeInv, Accounts
      <4>2. n = o.quantity /\ n \in Nat
        BY <2>4, <3>2, ReservedType DEF ReservedShares
      <4>3. c + n <= MaxShares
        BY <1>8, <2>2, <3>2, <4>1, <4>2 DEF Fits
      <4>4. (c + n) % (MaxShares + 1) = c + n
        BY <4>2, <4>3, Numbers
      <4>5. shares' = [shares EXCEPT ![caller] = (c + n) % (MaxShares + 1)]
        BY <1>8, <2>2, <3>2, <4>1, <4>2 DEF Cancel
      <4>6. shares' = [shares EXCEPT ![caller] = @ + n]
        BY <4>1, <4>4, <4>5
      <4> QED
        BY <1>1, <2>1, <4>6, TotalMoved
    <3> QED
      BY <3>1, <3>2
  <2>13. paid' = paid + 0 /\ issued' = issued + 0 /\ a + b + 0 = 0 /\ n + m = 0
    BY <1>1, <1>8, <2>9 DEF Cancel, history
  <2> QED
    BY <1>3, <2>10, <2>11, <2>12, <2>13, StaysBalanced
<1>9. ASSUME NEW cost \in Int, NEW fill \in Int, InAction, orders' = orders,
             wallet' = [wallet EXCEPT ![caller] = @ + cost],
             shares' = [shares EXCEPT ![caller] = @ + fill],
             paid' = paid + (-cost), issued' = issued + fill
      PROVE  Now'
  <2>1. Total(wallet') = Total(wallet) + cost /\ Total(shares') = Total(shares) + fill
    BY <1>1, <1>2, <1>9, TotalMoved
  <2>2. /\ Total(CashIn(orders')) = Total(CashIn(orders)) + 0
        /\ Total(SharesIn(orders')) = Total(SharesIn(orders)) + 0
    BY <1>1, <1>9
  <2>3. cost + 0 + (-cost) = 0 /\ fill + 0 = fill /\ -cost \in Int
    OBVIOUS
  <2> QED
    BY <1>3, <1>9, <2>1, <2>2, <2>3, StaysBalanced
<1>10. PICK ask \in Nat, bid \in Nat : ask = Ask /\ bid = Bid
  BY Quotes DEF TypeInv, Listing
<1>11. ASSUME NEW n \in Quantities
       PROVE  Smaller(n, depth) \in Nat
  BY PriceAssumption, Numbers DEF Smaller, TypeInv, Listing
<1>12. ASSUME NEW v \in Nat PROVE Fee(v) \in Nat
  BY Numbers DEF Fee, Larger
<1>13. ASSUME NEW n \in Quantities, MarketBuy(n) PROVE Now'
  <2>1. PICK fill \in Nat : fill = Smaller(n, depth)
    BY <1>11
  <2>2. PICK v \in Nat : v = Ask * fill
    BY <1>10
  <2>3. PICK cost \in Nat : cost = v + Fee(v)
    BY <1>12
  <2>4. PICK less \in Int : less = -cost
    OBVIOUS
  <2>5. /\ InAction /\ orders' = orders
        /\ wallet' = [wallet EXCEPT ![caller] = @ - cost]
        /\ shares' = [shares EXCEPT ![caller] = @ + fill]
        /\ paid' = paid + cost /\ issued' = issued + fill
    BY <1>13, <2>1, <2>2, <2>3 DEF MarketBuy
  <2>6. wallet[caller] \in Int
    BY <1>1, <1>2, <2>5
  <2>7. wallet[caller] - cost = wallet[caller] + less /\ cost = -less
    BY <2>4, <2>6
  <2>8. wallet' = [wallet EXCEPT ![caller] = @ + less]
    BY <2>5, <2>7
  <2>9. paid' = paid + (-less)
    BY <2>5, <2>7
  <2>10. fill \in Int
    OBVIOUS
  <2> QED
    BY <1>9, <2>5, <2>8, <2>9, <2>10
<1>14. ASSUME NEW n \in Quantities, MarketSell(n) PROVE Now'
  <2>1. PICK fill \in Nat : fill = Smaller(n, depth)
    BY <1>11
  <2>2. PICK v \in Nat : v = Bid * fill
    BY <1>10
  <2>3. PICK proceeds \in Int : proceeds = v - Fee(v)
    BY <1>12
  <2>4. PICK less \in Int : less = -fill
    OBVIOUS
  <2>5. /\ InAction /\ orders' = orders
        /\ wallet' = [wallet EXCEPT ![caller] = @ + proceeds]
        /\ shares' = [shares EXCEPT ![caller] = @ - fill]
        /\ paid' = paid - proceeds /\ issued' = issued - fill
    BY <1>14, <2>1, <2>2, <2>3 DEF MarketSell
  <2>6. shares[caller] \in Int
    BY <1>1, <1>2, <2>5
  <2>7. shares[caller] - fill = shares[caller] + less
    BY <2>4, <2>6
  <2>8. shares' = [shares EXCEPT ![caller] = @ + less]
    BY <2>5, <2>7
  <2>9. paid' = paid + (-proceeds) /\ issued' = issued + less
    BY <1>1, <2>4, <2>5
  <2> QED
    BY <1>9, <2>5, <2>8, <2>9
<1> QED
  BY <1>4, <1>6, <1>7, <1>8, <1>13, <1>14 DEF Trade

\* A new exchange is balanced.
LEMMA InitBalanced == Init => BooksAgree
<1> SUFFICES ASSUME Init PROVE BooksAgree
  OBVIOUS
<1>1. IsFiniteSet(Players) /\ InitialWallet \in Nat
  BY PlayersAssumption, PriceAssumption
<1>2. PICK size \in Nat : size = Cardinality(Players)
  BY <1>1, FS_CardinalityType
<1>3. Total(wallet) = size * InitialWallet
  BY <1>1, <1>2, TotalConstant DEF Init
<1>4. Total(shares) = size * 0
  <2>1. shares = [u \in Players |-> 0] /\ 0 \in Nat
    BY DEF Init
  <2> QED
    BY <1>1, <1>2, <2>1, TotalConstant
<1>5. Total(CashIn(orders)) = 0 /\ Total(SharesIn(orders)) = 0
  BY NothingReserved DEF Init
<1>6. size * InitialWallet + 0 + 0 = size * InitialWallet /\ size * 0 + 0 = 0
  <2>1. size * InitialWallet \in Int
    BY <1>1
  <2> QED
    BY <2>1
<1>7. Now
  BY <1>2, <1>3, <1>4, <1>5, <1>6 DEF Now, Balanced, Init
<1> QED
  BY <1>7 DEF BooksAgree, Now, Init

\* BooksAgree is inductive, given the types and that nothing is rounded.
LEMMA NextBalanced ==
  ASSUME TypeInv, BooksAgree, [Next]_vars, [Fits /\ Halves]_vars
  PROVE  BooksAgree'
<1> DEFINE Then == Balanced(before.wallet, before.shares, before.orders, before.paid, before.issued)
<1>1. ~torn => Now /\ (phase # "idle" => Then)
  BY DEF BooksAgree, Now
<1>2. ASSUME ~torn' => ~torn /\ (Now => Now'), phase # "idle" \/ phase' = "idle", before' = before
      PROVE  BooksAgree'
  BY <1>1, <1>2 DEF BooksAgree, Now
<1>3. CASE UNCHANGED vars
  BY <1>2, <1>3 DEF vars, book, exchange, call, history, Now
<1>4. ASSUME NEW c \in Players \cup {Tick}, Begin(c), UNCHANGED torn PROVE BooksAgree'
  BY <1>1, <1>4 DEF Begin, BooksAgree, Now, book, exchange, history
<1>5. ASSUME Save, UNCHANGED torn PROVE BooksAgree'
  <2>1. UNCHANGED <<book, history>> /\ phase' = "idle"
    BY <1>5 DEF Save, SaveSucceeds, TickNotSaved, EndCall
  <2> QED
    BY <1>1, <1>5, <2>1 DEF BooksAgree, Now, book, history
<1>6. CASE ActionNotSaved
  <2>1. phase # "idle" /\ phase' = "idle"
    BY <1>6 DEF ActionNotSaved, SaveMayFail, EndCall
  <2>2. ASSUME ~torn' PROVE Now'
    <3>1. ~torn /\ wallet' = before.wallet /\ shares' = before.shares
      BY <1>6, <2>2 DEF ActionNotSaved
    <3>2. orders' = before.orders /\ paid' = before.paid /\ issued' = before.issued
      BY <1>6 DEF ActionNotSaved
    <3> QED
      BY <1>1, <2>1, <3>1, <3>2 DEF Now
  <2> QED
    BY <2>1, <2>2 DEF BooksAgree, Now
<1>7. CASE Next /\ Fits /\ Halves
  <2>1. ASSUME Market, UNCHANGED torn PROVE BooksAgree'
    <3>1. phase # "idle" /\ before' = before
      BY <2>1 DEF Market, StillDelisted, Relist, Ordinary, Split, Delist, OpenBook, InHour, call
    <3>2. CASE StillDelisted \/ Relist \/ Ordinary \/ OpenBook
      <4>1. UNCHANGED <<book, history>>
        BY <3>2 DEF StillDelisted, Relist, Ordinary, OpenBook, InHour, book, history
      <4> QED
        BY <1>2, <2>1, <3>1, <4>1 DEF book, history, Now
    <3>3. CASE Split \/ Delist
      <4>1. Now => Now'
        BY <1>7, <3>3, SplitBalanced, DelistBalanced
      <4> QED
        BY <1>2, <2>1, <3>1, <4>1
    <3> QED
      BY <2>1, <3>2, <3>3 DEF Market
  <2>2. ASSUME ProcessOrders, UNCHANGED torn PROVE BooksAgree'
    <3>1. phase # "idle" /\ before' = before
      BY <2>2 DEF ProcessOrders, FillBuy, FillSell, Rests, CloseBook, InBook, call
    <3>2. CASE Rests \/ CloseBook
      <4>1. UNCHANGED <<book, history>>
        BY <3>2 DEF Rests, CloseBook
      <4> QED
        BY <1>2, <2>2, <3>1, <4>1 DEF book, history, Now
    <3>3. CASE FillBuy \/ FillSell
      BY <1>2, <2>2, <3>1, <3>3, FillBalanced
    <3> QED
      BY <2>2, <3>2, <3>3 DEF ProcessOrders
  <2>3. ASSUME Trade, UNCHANGED torn PROVE BooksAgree'
    <3>1. phase # "idle" /\ before' = before
      BY <2>3 DEF Trade, NoTrade, PlaceBuy, PlaceSell, Cancel, MarketBuy, MarketSell, InAction, call
    <3>2. Now => Now'
      BY <1>7, <2>3, TradeBalanced
    <3> QED
      BY <1>2, <2>3, <3>1, <3>2
  <2> QED
    BY <1>4, <1>5, <1>6, <1>7, <2>1, <2>2, <2>3 DEF Next
<1> QED
  BY <1>3, <1>7

\* Conserved: as long as no limit is halved that is odd and no number of
\* shares overflows its field, every cent and every share of the players is
\* where the book says, through partial fills, splits, delistings and saves
\* that fail.  Neither condition is one the code checks.
THEOREM CashAndSharesConserved ==
  Spec /\ [][Fits /\ Halves]_vars => []Conserved
<1>1. BooksAgree => Conserved
  BY DEF BooksAgree, Balanced, Conserved, CashIn, CashReserved, SharesIn, SharesReserved
<1>2. TypeInv /\ BooksAgree /\ [Next]_vars /\ [Fits /\ Halves]_vars => (TypeInv /\ BooksAgree)'
  BY NextTypes, NextBalanced
<1> QED
  BY <1>1, <1>2, InitTypes, InitBalanced, PTL DEF Spec
=============================================================================
