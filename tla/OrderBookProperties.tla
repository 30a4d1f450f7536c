------------------------ MODULE OrderBookProperties ------------------------
(***************************************************************************)
(* What the exchange owes the players whose cash and shares it holds.      *)
(***************************************************************************)
EXTENDS OrderBook

\* Shape of the state: no wallet is ever overdrawn, shares fit their width,
\* and no empty order rests.
TypeOK ==
  /\ wallet \in [Players -> Nat]
  /\ shares \in [Players -> 0..MaxShares]
  /\ orders \in Seq(Order)
  /\ \A u \in Players : Cardinality(OrdersOf(u)) <= MaxOrders
  /\ price \in 1..MaxPrice
  /\ listed \in BOOLEAN /\ halted \in BOOLEAN
  /\ depth \in 0..Liquidity
  /\ phase \in {"idle", "market", "orders", "act", "save"}
  /\ caller \in Players \cup {Tick}
  /\ hours \in 0..MaxHours
  /\ cursor \in Nat \ {0}
  /\ calls \in 0..MaxCalls
  /\ paid \in Int /\ issued \in Int /\ torn \in BOOLEAN

-----------------------------------------------------------------------------
CashReserved == Total([k \in DOMAIN orders |-> Reserved(orders[k])])

ReservedShares(o) == IF o.buy THEN 0 ELSE o.quantity
SharesReserved == Total([k \in DOMAIN orders |-> ReservedShares(orders[k])])

\* Players' cash is in wallets, in the escrow of their buy orders, or was
\* paid to the market, and every share that left the market is held by a
\* player or reserved by a sell order: partial fills, price improvement,
\* splits, cancellation and delisting release exactly what placing an order
\* set aside, and so do failed saves, unless they leave somebody else's fill.
Conserved ==
  ~torn =>
    /\ Total(wallet) + CashReserved + paid = Cardinality(Players) * InitialWallet
    /\ Total(shares) + SharesReserved = issued

\* A delisted company has no shareholders and no resting orders, so a relisted
\* one starts with an empty book: nothing placed before trades after.
DelistedIsEmpty ==
  ~listed => orders = <<>> /\ \A u \in Players : shares[u] = 0

\* economy_game_action: "The economy vault failed to save; nothing was
\* committed."  A call whose save fails leaves every player as it found them.
NothingCommitted ==
  [][ActionNotSaved => /\ wallet' = before.wallet
                       /\ shares' = before.shares
                       /\ orders' = before.orders]_vars
=============================================================================
