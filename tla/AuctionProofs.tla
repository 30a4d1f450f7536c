---------------------------- MODULE AuctionProofs ----------------------------
(***************************************************************************)
(* Proofs about homes, relics and auctions for any accounts, prices and    *)
(* dates, any number of homes and relics, and any saves that fail.  Every  *)
(* call of a player is shown to leave a good economy of the same worth in  *)
(* which the others have lost nothing that a failed save would not give    *)
(* back; the loops of the tick keep a good economy and its worth.          *)
(***************************************************************************)
EXTENDS AuctionProperties

Tables(V) == UNION {[D -> V] : D \in SUBSET (Nat \ {0})}

\* A listing that has a bid if and only if it has a bidder, never the seller.
Offer == {l \in Listing : (l.bidder = Nobody <=> l.bid = 0) /\ l.bidder # l.seller}

Economy ==
  {s \in [wallet : [Accounts -> Nat], checking : [Accounts -> Nat], homes : Tables(Home),
          relics : Seq(Relic), count : [Accounts -> Nat], level : [Accounts -> {0, 1}],
          auctions : Tables(Offer), nextHome : Nat \ {0}, nextAuction : Nat \ {0},
          outside : Int, granted : [Accounts -> Nat]] :
     /\ DOMAIN s.homes \subseteq 1..(s.nextHome - 1)
     /\ DOMAIN s.auctions \subseteq 1..(s.nextAuction - 1)}

-----------------------------------------------------------------------------
(* A good economy at time n: what TypeOK, EscrowAgrees and LegacyHomeOnce  *)
(* say of it, and what the calls need besides.                             *)

\* A home is listed if an auction offers it; no two do, and its owner sells.
Offered(homes, auctions) ==
  /\ \A h \in DOMAIN homes :
       homes[h].listed <=> \E id \in DOMAIN auctions : auctions[id].home = h
  /\ \A id \in DOMAIN auctions : auctions[id].home # 0 =>
       /\ auctions[id].home \in DOMAIN homes
       /\ homes[auctions[id].home].owner = auctions[id].seller
       /\ \A other \in DOMAIN auctions : auctions[other].home = auctions[id].home => other = id

\* The relics that are one of R, and those that auction id holds.
Having(relics, R) == {k \in DOMAIN relics : relics[k] \in R}
Held(id) == [owner : Accounts, auction : {id}]
Loose(a) == {Free(a)}

\* An auction holds the relics it offers, and no later one holds any yet.
Holding(relics, auctions, next) ==
  /\ \A k \in DOMAIN relics : relics[k].auction < next
  /\ \A id \in DOMAIN auctions :
       /\ Cardinality(Having(relics, Held(id))) = auctions[id].relics
       /\ \A k \in Having(relics, Held(id)) : relics[k].owner = auctions[id].seller

\* The relics that an account may trade are those with numbers, up to those of
\* an old database.
Counted(relics, count) ==
  \A a \in Accounts : count[a] - Cardinality(Having(relics, Loose(a))) \in {0, LegacyRelics[a]}

Owns(homes, a) == \E h \in DOMAIN homes : homes[h].owner = a

\* A level without a home is that of an old database, not granted yet.
Levelled(homes, level, granted) ==
  \A a \in Accounts :
    /\ granted[a] <= IF a \in LegacyHomes THEN 1 ELSE 0
    /\ level[a] # 0 /\ ~Owns(homes, a) => a \in LegacyHomes /\ granted[a] = 0

Good(s, n) ==
  /\ s \in Economy
  /\ Offered(s.homes, s.auctions)
  /\ Holding(s.relics, s.auctions, s.nextAuction)
  /\ Counted(s.relics, s.count)
  /\ Levelled(s.homes, s.level, s.granted)
  /\ \A h \in DOMAIN s.homes : s.homes[h].rented <= n

\* An account that has, or is said to have, a home.
Has(s, a) == s.level[a] # 0 \/ Owns(s.homes, a)

\* What a call of a leaves of what a failed save will not put back: the others
\* have as much in their wallets or more, as many relics to trade, and no home
\* or level of property that they did not have.
Spares(s, t, a) ==
  /\ Worth(t) = Worth(s)
  /\ \A b \in Accounts \ {a} : t.wallet[b] >= s.wallet[b] /\ (Has(t, b) => Has(s, b))
  /\ \A b \in Accounts : Player(b) # Player(a) => t.count[b] = s.count[b]

\* What a call of a makes of a good economy.
Does(s, t, a, n) == Good(t, n) /\ Spares(s, t, a)

\* One part of a call after another.
LEMMA DoesThen ==
  ASSUME NEW s \in Economy, NEW t, NEW u, NEW a \in Accounts, NEW n, Does(s, t, a, n), Does(t, u, a, n)
  PROVE  Does(s, u, a, n)
<1>1. \A b \in Accounts : s.wallet[b] \in Nat /\ t.wallet[b] \in Nat /\ u.wallet[b] \in Nat
  BY DEF Does, Good, Economy
<1> QED
  BY <1>1 DEF Does, Spares

-----------------------------------------------------------------------------
(* Tables *)

\* The constants.
LEMMA Numbers ==
  /\ IsFiniteSet(Accounts) /\ Tick \notin Accounts /\ Nobody \notin Accounts
  /\ {InitialChecking, WalletCap, Spared, Rent, MinPayment, MinLateFee, MinStep, Upkeep,
      MaxHoldings, MaxListings, MaxPeriods, MaxRentDays, MaxMissed} \subseteq Nat
  /\ Quantities \cup Reserves \cup Bids \cup HomePrices \cup RelicPrices \subseteq Nat \ {0}
  /\ Buyouts \subseteq Nat /\ Durations \subseteq Nat
  /\ Max(HomePrices) \in Nat /\ LegacyRelics \in [Accounts -> Nat] /\ LegacyHomes \subseteq Accounts
<1>1. PICK most \in HomePrices : \A v \in HomePrices : v <= most
  BY AuctionAssumption
<1>2. Max(HomePrices) \in HomePrices
  BY <1>1, AuctionAssumption DEF Max
<1> QED
  BY <1>2, AuctionAssumption

\* What is in a table.
LEMMA TableIs ==
  ASSUME NEW V, NEW f \in Tables(V)
  PROVE  DOMAIN f \subseteq Nat \ {0} /\ f \in [DOMAIN f -> V]
  BY DEF Tables

\* A function of such numbers is a table.
LEMMA IsTable ==
  ASSUME NEW V, NEW D \in SUBSET (Nat \ {0}), NEW f \in [D -> V]
  PROVE  f \in Tables(V)
  BY DEF Tables

\* A new entry.
LEMMA TableWith ==
  ASSUME NEW V, NEW f \in Tables(V), NEW k, k \in Nat \ {0}, NEW v \in V, NEW g, g = With(f, k, v)
  PROVE  /\ g \in Tables(V) /\ g[k] = v
         /\ \A i : i \in DOMAIN g <=> i \in DOMAIN f \/ i = k
         /\ \A i \in DOMAIN f : i # k => g[i] = f[i]
<1>1. PICK D \in SUBSET (Nat \ {0}) : D = DOMAIN f \cup {k}
  BY TableIs
<1>2. g = [y \in D |-> IF y = k THEN v ELSE f[y]]
  BY <1>1 DEF With
<1>3. g \in [D -> V]
  BY <1>1, <1>2, TableIs
<1> QED
  BY <1>1, <1>2, <1>3, IsTable

\* A changed entry.
Put(f, k, v) == [f EXCEPT ![k] = v]

LEMMA TableExcept ==
  ASSUME NEW V, NEW f \in Tables(V), NEW k \in DOMAIN f, NEW v \in V, NEW g, g = Put(f, k, v)
  PROVE  /\ g \in Tables(V) /\ DOMAIN g = DOMAIN f /\ g[k] = v
         /\ \A i \in DOMAIN f : i # k => g[i] = f[i]
<1>1. PICK D \in SUBSET (Nat \ {0}) : D = DOMAIN f /\ f \in [D -> V]
  BY TableIs
<1>2. g \in [D -> V] /\ g[k] = v /\ \A i \in D : i # k => g[i] = f[i]
  BY <1>1 DEF Put
<1> QED
  BY <1>1, <1>2, IsTable

\* Entries that leave.
LEMMA TableRestrict ==
  ASSUME NEW V, NEW f \in Tables(V), NEW D, D \subseteq DOMAIN f, NEW g, g = Restrict(f, D)
  PROVE  /\ g \in Tables(V) /\ DOMAIN g = D
         /\ \A i \in D : g[i] = f[i]
<1>1. g = [i \in D |-> f[i]]
  BY DEF Restrict
<1>2. D \in SUBSET (Nat \ {0}) /\ g \in [D -> V]
  BY <1>1, TableIs
<1> QED
  BY <1>1, <1>2, IsTable

\* One entry that leaves.
LEMMA TableWithout ==
  ASSUME NEW V, NEW f \in Tables(V), NEW k, NEW g, g = Without(f, k)
  PROVE  /\ g \in Tables(V) /\ DOMAIN g \subseteq DOMAIN f
         /\ \A i : i \in DOMAIN g <=> i \in DOMAIN f /\ i # k
         /\ \A i \in DOMAIN g : g[i] = f[i]
<1>1. PICK D : D = DOMAIN f \ {k}
  OBVIOUS
<1>2. g = Restrict(f, D) /\ D \subseteq DOMAIN f
  BY <1>1 DEF Without
<1>3. g \in Tables(V) /\ DOMAIN g = D /\ \A i \in D : g[i] = f[i]
  BY <1>2, TableRestrict
<1> QED
  BY <1>1, <1>2, <1>3

-----------------------------------------------------------------------------
(* What an economy is worth *)

\* The fields of an economy.
LEMMA EconomyIs ==
  ASSUME NEW s \in Economy
  PROVE  /\ s.wallet \in [Accounts -> Nat] /\ s.checking \in [Accounts -> Nat]
         /\ s.homes \in Tables(Home) /\ s.relics \in Seq(Relic)
         /\ s.count \in [Accounts -> Nat] /\ s.level \in [Accounts -> {0, 1}]
         /\ s.auctions \in Tables(Offer) /\ s.nextHome \in Nat \ {0} /\ s.nextAuction \in Nat \ {0}
         /\ s.outside \in Int /\ s.granted \in [Accounts -> Nat]
         /\ DOMAIN s.homes \subseteq 1..(s.nextHome - 1)
         /\ DOMAIN s.auctions \subseteq 1..(s.nextAuction - 1)
  BY DEF Economy

\* The bids of the auctions.
BidsIn(auctions) == [id \in DOMAIN auctions |-> auctions[id].bid]

\* There are finitely many auctions, and their bids are amounts.
LEMMA BidsAre ==
  ASSUME NEW s \in Economy
  PROVE  /\ IsFiniteSet(DOMAIN s.auctions)
         /\ BidsIn(s.auctions) \in [DOMAIN s.auctions -> Nat]
         /\ BidsIn(s.auctions) \in [DOMAIN s.auctions -> Int]
         /\ InEscrow(s.auctions) = Total(BidsIn(s.auctions)) /\ InEscrow(s.auctions) \in Int
<1>1. IsFiniteSet(DOMAIN s.auctions)
  <2>1. 1 \in Int /\ s.nextAuction - 1 \in Int
    BY EconomyIs
  <2>2. IsFiniteSet(1..(s.nextAuction - 1))
    BY <2>1, FS_Interval
  <2> QED
    BY <2>2, EconomyIs, FS_Subset
<1>2. BidsIn(s.auctions) \in [DOMAIN s.auctions -> Nat]
  <2>1. s.auctions \in [DOMAIN s.auctions -> Offer]
    BY EconomyIs, TableIs
  <2>2. \A id \in DOMAIN s.auctions : s.auctions[id].bid \in Nat
    BY <2>1 DEF Offer, Listing
  <2> QED
    BY <2>2 DEF BidsIn
<1>3. BidsIn(s.auctions) \in [DOMAIN s.auctions -> Int]
  BY <1>2
<1>4. InEscrow(s.auctions) = Total(BidsIn(s.auctions))
  BY DEF InEscrow, BidsIn
<1> QED
  BY <1>1, <1>2, <1>3, <1>4, TotalInt

\* The worth of an economy is a number.
LEMMA WorthIs ==
  ASSUME NEW s \in Economy
  PROVE  /\ s.wallet \in [Accounts -> Int] /\ s.checking \in [Accounts -> Int]
         /\ Total(s.wallet) \in Int /\ Total(s.checking) \in Int
         /\ InEscrow(s.auctions) \in Int /\ s.outside \in Int /\ Worth(s) \in Int
<1>1. s.wallet \in [Accounts -> Int] /\ s.checking \in [Accounts -> Int] /\ s.outside \in Int
  BY EconomyIs
<1>2. Total(s.wallet) \in Int /\ Total(s.checking) \in Int
  BY <1>1, Numbers, TotalInt
<1> QED
  BY <1>1, <1>2, BidsAre DEF Worth

\* Cash that moves between a wallet, an account of the same player, the
\* auctions and the outside.
LEMMA CashMoves ==
  ASSUME NEW s \in Economy, NEW t \in Economy, NEW a \in Accounts,
         \A b \in Accounts \ {a} : t.wallet[b] = s.wallet[b] /\ t.checking[b] = s.checking[b],
         NEW e \in Int, InEscrow(t.auctions) = InEscrow(s.auctions) + e
  PROVE  Worth(t) = Worth(s) + (t.wallet[a] - s.wallet[a]) + (t.checking[a] - s.checking[a])
                    + e + (t.outside - s.outside)
<1>1. Total(t.wallet) = Total(s.wallet) + t.wallet[a] - s.wallet[a]
  BY Numbers, WorthIs, TotalUpdated
<1>2. Total(t.checking) = Total(s.checking) + t.checking[a] - s.checking[a]
  BY Numbers, WorthIs, TotalUpdated
<1>3. PICK x \in Int, y \in Int : x = t.wallet[a] /\ y = s.wallet[a]
  BY WorthIs
<1>4. PICK p \in Int, q \in Int : p = t.checking[a] /\ q = s.checking[a]
  BY WorthIs
<1>5. PICK w \in Int, c \in Int, b \in Int, o \in Int, u \in Int :
        /\ w = Total(s.wallet) /\ c = Total(s.checking) /\ b = InEscrow(s.auctions)
        /\ o = s.outside /\ u = t.outside
  BY WorthIs
<1>6. Worth(s) = w + c + b + o
  BY <1>5 DEF Worth
<1>7. Worth(t) = (w + x - y) + (c + p - q) + (b + e) + u
  BY <1>1, <1>2, <1>3, <1>4, <1>5 DEF Worth
<1>8. /\ t.wallet[a] - s.wallet[a] = x - y /\ t.checking[a] - s.checking[a] = p - q
      /\ t.outside - s.outside = u - o
  BY <1>3, <1>4, <1>5
<1>9. (w + x - y) + (c + p - q) + (b + e) + u = (w + c + b + o) + (x - y) + (p - q) + e + (u - o)
  OBVIOUS
<1> QED
  BY <1>6, <1>7, <1>8, <1>9

\* A listing with another bid.
LEMMA EscrowChanged ==
  ASSUME NEW s \in Economy, NEW id \in DOMAIN s.auctions, NEW l \in Offer,
         NEW f, f = Put(s.auctions, id, l)
  PROVE  InEscrow(f) = InEscrow(s.auctions) + (l.bid - s.auctions[id].bid)
<1>1. PICK D : D = DOMAIN s.auctions
  OBVIOUS
<1>2. PICK g : g = BidsIn(s.auctions)
  OBVIOUS
<1>3. PICK h : h = BidsIn(f)
  OBVIOUS
<1>4. DOMAIN f = D /\ f[id] = l /\ \A i \in D \ {id} : f[i] = s.auctions[i]
  BY <1>1, EconomyIs, TableExcept
<1>5. g \in [D -> Int] /\ IsFiniteSet(D) /\ InEscrow(s.auctions) = Total(g) /\ Total(g) \in Int
  BY <1>1, <1>2, BidsAre
<1>6. l.bid \in Int
  BY DEF Offer, Listing
<1>7. h \in [D -> Int] /\ h[id] = l.bid /\ \A i \in D \ {id} : h[i] = g[i]
  <2>1. h = [i \in D |-> f[i].bid] /\ g = [i \in D |-> s.auctions[i].bid]
    BY <1>1, <1>2, <1>3, <1>4 DEF BidsIn
  <2>2. \A i \in D \ {id} : h[i] = g[i]
    BY <1>4, <2>1
  <2>3. h[id] = l.bid
    BY <1>1, <1>4, <2>1
  <2>4. \A i \in D : h[i] \in Int
    BY <1>5, <1>6, <2>2, <2>3
  <2> QED
    BY <2>1, <2>2, <2>3, <2>4
<1>8. Total(h) = Total(g) + h[id] - g[id]
  BY <1>1, <1>5, <1>7, TotalUpdated
<1>9. g[id] = s.auctions[id].bid /\ g[id] \in Int
  BY <1>1, <1>2, <1>5 DEF BidsIn
<1>10. InEscrow(f) = Total(h)
  BY <1>3 DEF InEscrow, BidsIn
<1> QED
  BY <1>5, <1>6, <1>7, <1>8, <1>9, <1>10

\* A listing that leaves.
LEMMA EscrowRemoved ==
  ASSUME NEW s \in Economy, NEW id \in DOMAIN s.auctions, NEW f, f = Without(s.auctions, id)
  PROVE  InEscrow(f) = InEscrow(s.auctions) - s.auctions[id].bid
<1>1. PICK D : D = DOMAIN s.auctions
  OBVIOUS
<1>2. PICK g : g = BidsIn(s.auctions)
  OBVIOUS
<1>3. g \in [D -> Int] /\ IsFiniteSet(D) /\ InEscrow(s.auctions) = Total(g) /\ Total(g) \in Int
  BY <1>1, <1>2, BidsAre
<1>4. f = [i \in D \ {id} |-> s.auctions[i]]
  BY <1>1 DEF Without, Restrict
<1>5. BidsIn(f) = Only(g, D \ {id})
  BY <1>1, <1>2, <1>4 DEF BidsIn, Only
<1>6. Total(g) = g[id] + Total(Only(g, D \ {id}))
  BY <1>1, <1>3, TotalWithout
<1>7. Only(g, D \ {id}) \in [D \ {id} -> Int] /\ IsFiniteSet(D \ {id})
  BY <1>3, FS_Subset DEF Only
<1>8. Total(Only(g, D \ {id})) \in Int
  BY <1>7, TotalInt
<1>9. g[id] = s.auctions[id].bid /\ g[id] \in Int
  BY <1>1, <1>2, <1>3 DEF BidsIn
<1>10. InEscrow(f) = Total(BidsIn(f))
  BY DEF InEscrow, BidsIn
<1> QED
  BY <1>3, <1>5, <1>6, <1>8, <1>9, <1>10

\* A listing that nobody has bid on yet.
LEMMA EscrowAdded ==
  ASSUME NEW s \in Economy, NEW id, id \notin DOMAIN s.auctions, NEW l, l.bid = 0,
         NEW f, f = With(s.auctions, id, l)
  PROVE  InEscrow(f) = InEscrow(s.auctions)
<1>1. PICK D : D = DOMAIN s.auctions
  OBVIOUS
<1>2. PICK E : E = D \cup {id}
  OBVIOUS
<1>3. PICK g : g = BidsIn(s.auctions)
  OBVIOUS
<1>4. PICK h : h = BidsIn(f)
  OBVIOUS
<1>5. g \in [D -> Int] /\ IsFiniteSet(D) /\ InEscrow(s.auctions) = Total(g) /\ Total(g) \in Int
  BY <1>1, <1>3, BidsAre
<1>6. f = [i \in E |-> IF i = id THEN l ELSE s.auctions[i]]
  BY <1>1, <1>2 DEF With
<1>7. h = [i \in E |-> f[i].bid] /\ g = [i \in D |-> s.auctions[i].bid]
  BY <1>1, <1>3, <1>4, <1>6 DEF BidsIn
<1>8. h[id] = 0 /\ \A i \in D : h[i] = g[i]
  BY <1>1, <1>2, <1>6, <1>7
<1>9. h \in [E -> Int] /\ IsFiniteSet(E)
  BY <1>2, <1>5, <1>7, <1>8, FS_AddElement
<1>10. Total(h) = h[id] + Total(Only(h, E \ {id}))
  BY <1>2, <1>9, TotalWithout
<1>11. Only(h, E \ {id}) = g
  <2>1. E \ {id} = D
    BY <1>1, <1>2
  <2> QED
    BY <1>5, <1>8, <2>1 DEF Only
<1>12. InEscrow(f) = Total(h)
  BY <1>4 DEF InEscrow, BidsIn
<1> QED
  BY <1>5, <1>8, <1>10, <1>11, <1>12

-----------------------------------------------------------------------------
(* Relics *)

\* Parts of a set that have nothing in common are counted one by one.
LEMMA Apart ==
  ASSUME NEW S, IsFiniteSet(S), NEW T, IsFiniteSet(T), S \cap T = {}
  PROVE  IsFiniteSet(S \cup T) /\ Cardinality(S \cup T) = Cardinality(S) + Cardinality(T)
<1>1. Cardinality(S) \in Nat /\ Cardinality(T) \in Nat
  BY FS_CardinalityType
<1>2. Cardinality(S \cap T) = 0
  BY FS_EmptySet
<1>3. IsFiniteSet(S \cup T) /\ Cardinality(S \cup T) = Cardinality(S) + Cardinality(T) - 0
  BY <1>2, FS_Union
<1> QED
  BY <1>1, <1>3

\* The relics of some kind are finitely many.
LEMMA HavingFinite ==
  ASSUME NEW q \in Seq(Relic), NEW R
  PROVE  /\ Having(q, R) \subseteq 1..Len(q) /\ DOMAIN q = 1..Len(q) /\ Len(q) \in Nat
         /\ IsFiniteSet(Having(q, R)) /\ Cardinality(Having(q, R)) \in Nat
         /\ \A k \in DOMAIN q : q[k] \in Relic
<1>1. DOMAIN q = 1..Len(q) /\ Len(q) \in Nat /\ \A k \in DOMAIN q : q[k] \in Relic
  BY LenProperties, ElementOfSeq
<1>2. IsFiniteSet(1..Len(q))
  <2>1. 1 \in Int /\ Len(q) \in Int
    BY <1>1
  <2> QED
    BY <2>1, FS_Interval
<1>3. Having(q, R) \in SUBSET (1..Len(q))
  BY <1>1 DEF Having
<1> QED
  BY <1>1, <1>2, <1>3, FS_Subset, FS_CardinalityType

\* Some relics stop being of a kind.
LEMMA HavingLess ==
  ASSUME NEW q \in Seq(Relic), NEW r \in Seq(Relic), DOMAIN r = DOMAIN q, NEW R,
         NEW K \in SUBSET Having(q, R), \A k \in K : r[k] \notin R,
         \A k \in DOMAIN q \ K : r[k] = q[k]
  PROVE  Cardinality(Having(r, R)) = Cardinality(Having(q, R)) - Cardinality(K)
<1>1. Having(q, R) = Having(r, R) \cup K /\ Having(r, R) \cap K = {}
  BY DEF Having
<1>2. IsFiniteSet(K) /\ Cardinality(K) \in Nat
  BY HavingFinite, FS_Subset, FS_CardinalityType
<1>3. IsFiniteSet(Having(r, R)) /\ Cardinality(Having(r, R)) \in Nat
  BY HavingFinite
<1>4. Cardinality(Having(q, R)) = Cardinality(Having(r, R)) + Cardinality(K)
  BY <1>1, <1>2, <1>3, Apart
<1> QED
  BY <1>2, <1>3, <1>4

\* Some relics become of a kind.
LEMMA HavingMore ==
  ASSUME NEW q \in Seq(Relic), NEW r \in Seq(Relic), DOMAIN r = DOMAIN q, NEW R,
         NEW K \in SUBSET DOMAIN q, \A k \in K : r[k] \in R /\ q[k] \notin R,
         \A k \in DOMAIN q \ K : r[k] = q[k]
  PROVE  Cardinality(Having(r, R)) = Cardinality(Having(q, R)) + Cardinality(K)
<1>1. Having(r, R) = Having(q, R) \cup K /\ Having(q, R) \cap K = {}
  BY DEF Having
<1>2. IsFiniteSet(K)
  <2>1. K \in SUBSET Having(r, R)
    BY DEF Having
  <2> QED
    BY <2>1, HavingFinite, FS_Subset
<1> QED
  BY <1>1, <1>2, HavingFinite, Apart

\* None does.
LEMMA HavingSame ==
  ASSUME NEW q, NEW r, DOMAIN r = DOMAIN q, NEW R, \A k \in DOMAIN q : r[k] \in R <=> q[k] \in R
  PROVE  Having(r, R) = Having(q, R)
  BY DEF Having

\* New relics, free to trade.
Grown(q, a, n) == q \o NewRelics(a, n)

LEMMA HavingAppended ==
  ASSUME NEW q \in Seq(Relic), NEW a \in Accounts, NEW n \in Nat,
         NEW r, r = Grown(q, a, n)
  PROVE  /\ r \in Seq(Relic)
         /\ \A k \in DOMAIN r : r[k] = Free(a) \/ (k \in DOMAIN q /\ r[k] = q[k])
         /\ \A R : Free(a) \in R => Cardinality(Having(r, R)) = Cardinality(Having(q, R)) + n
         /\ \A R : Free(a) \notin R => Cardinality(Having(r, R)) = Cardinality(Having(q, R))
<1>1. PICK m \in Nat : m = Len(q) /\ DOMAIN q = 1..m
  BY LenProperties
<1>2. PICK w : w = NewRelics(a, n)
  OBVIOUS
<1>3. Free(a) \in Relic
  BY DEF Free, Relic
<1>4. w \in Seq(Relic) /\ Len(w) = n /\ \A k \in 1..n : w[k] = Free(a)
  BY <1>2, <1>3 DEF NewRelics
<1>5. /\ r \in Seq(Relic) /\ Len(r) = m + n
      /\ \A k \in 1..(m + n) : r[k] = IF k <= m THEN q[k] ELSE w[k - m]
  <2>1. /\ q \o w \in Seq(Relic) /\ Len(q \o w) = Len(q) + Len(w)
        /\ \A k \in 1..(Len(q) + Len(w)) :
             (q \o w)[k] = IF k <= Len(q) THEN q[k] ELSE w[k - Len(q)]
    BY <1>4, ConcatProperties
  <2>2. r = q \o w
    BY <1>2 DEF Grown
  <2> QED
    BY <1>1, <1>4, <2>1, <2>2
<1>6. DOMAIN r = 1..(m + n)
  BY <1>5, LenProperties
<1>7. \A k \in 1..m : k \in 1..(m + n) /\ r[k] = q[k]
  BY <1>1, <1>5
<1>8. \A k \in (m + 1)..(m + n) : k \in 1..(m + n) /\ r[k] = Free(a)
  <2> SUFFICES ASSUME NEW k \in (m + 1)..(m + n) PROVE k \in 1..(m + n) /\ r[k] = Free(a)
    OBVIOUS
  <2>1. k \in 1..(m + n) /\ ~(k <= m) /\ k - m \in 1..n
    BY <1>1
  <2> QED
    BY <1>4, <1>5, <2>1
<1>9. 1..(m + n) = (1..m) \cup ((m + 1)..(m + n)) /\ (1..m) \cap ((m + 1)..(m + n)) = {}
  OBVIOUS
<1>10. ASSUME NEW R
       PROVE /\ Free(a) \in R => Cardinality(Having(r, R)) = Cardinality(Having(q, R)) + n
             /\ Free(a) \notin R => Cardinality(Having(r, R)) = Cardinality(Having(q, R))
  <2>1. PICK H : H = Having(q, R) /\ H \in SUBSET (1..m)
    BY <1>1, HavingFinite
  <2>2. PICK N : N = (m + 1)..(m + n)
    OBVIOUS
  <2>3. IsFiniteSet(N) /\ Cardinality(N) = n
    <3>1. m + 1 \in Int /\ m + n \in Int
      OBVIOUS
    <3>2. IsFiniteSet(N) /\ Cardinality(N) = IF m + 1 > m + n THEN 0 ELSE (m + n) - (m + 1) + 1
      BY <2>2, <3>1, FS_Interval
    <3> QED
      BY <3>2
  <2>4. Having(r, R) = IF Free(a) \in R THEN H \cup N ELSE H
    <3>1. H = {k \in 1..m : q[k] \in R}
      BY <1>1, <2>1 DEF Having
    <3>2. Having(r, R) = {k \in (1..m) \cup N : r[k] \in R}
      BY <1>6, <1>9, <2>2 DEF Having
    <3>3. \A k \in N : r[k] = Free(a)
      BY <1>8, <2>2
    <3> QED
      BY <1>7, <3>1, <3>2, <3>3
  <2>5. H \cap N = {}
    BY <1>9, <2>1, <2>2
  <2>6. IsFiniteSet(H) /\ Cardinality(H) \in Nat
    BY <2>1, HavingFinite
  <2>7. Cardinality(H \cup N) = Cardinality(H) + n
    BY <2>3, <2>5, <2>6, Apart
  <2> QED
    BY <2>1, <2>4, <2>7
<1>11. \A k \in DOMAIN r : r[k] = Free(a) \/ (k \in DOMAIN q /\ r[k] = q[k])
  <2> SUFFICES ASSUME NEW k \in 1..(m + n) PROVE r[k] = Free(a) \/ (k \in 1..m /\ r[k] = q[k])
    BY <1>1, <1>6
  <2>1. k \in 1..m \/ k \in (m + 1)..(m + n)
    BY <1>9
  <2> QED
    BY <1>7, <1>8, <2>1
<1> QED
  BY <1>5, <1>10, <1>11

\* Relics that are gone leave the others in their order.
LEMMA HavingKept ==
  ASSUME NEW q \in Seq(Relic), NEW gone \in SUBSET DOMAIN q, NEW r, r = Kept(q, gone)
  PROVE  /\ r \in Seq(Relic)
         /\ \A k \in DOMAIN r : \E j \in DOMAIN q \ gone : r[k] = q[j]
         /\ \A R : Cardinality(Having(r, R)) =
                     Cardinality(Having(q, R)) - Cardinality(Having(q, R) \cap gone)
<1>1. PICK m \in Nat : m = Len(q) /\ DOMAIN q = 1..m
  BY LenProperties
<1>2. PICK S \in SUBSET (1..m) : S = DOMAIN q \ gone
  BY <1>1
<1>3. PICK left : left = InOrder(S)
  OBVIOUS
<1>4. PICK n \in Nat : n = Cardinality(S)
  BY InOrderIs
<1>5. /\ left \in [1..n -> S]
      /\ \A i, j \in 1..n : left[i] = left[j] => i = j
      /\ \A x \in S : \E i \in 1..n : left[i] = x
  BY <1>3, <1>4, InOrderIs
<1>6. r = [k \in 1..n |-> q[left[k]]]
  BY <1>2, <1>3, <1>5 DEF Kept
<1>7. \A k \in 1..n : r[k] = q[left[k]] /\ left[k] \in S /\ r[k] \in Relic
  BY <1>1, <1>2, <1>5, <1>6, HavingFinite
<1>8. r \in Seq(Relic) /\ DOMAIN r = 1..n
  BY <1>6, <1>7, SeqDef
<1>9. ASSUME NEW R
      PROVE Cardinality(Having(r, R)) = Cardinality(Having(q, R)) - Cardinality(Having(q, R) \cap gone)
  <2>1. PICK A : A = Having(r, R)
    OBVIOUS
  <2>2. PICK B : B = Having(q, R) \ gone
    OBVIOUS
  <2>3. A = {k \in 1..n : q[left[k]] \in R} /\ B = {j \in S : q[j] \in R}
    BY <1>2, <1>7, <1>8, <2>1, <2>2 DEF Having
  <2>4. IsFiniteSet(A)
    BY <1>8, <2>1, HavingFinite
  <2>5. PICK f : f = [k \in A |-> left[k]]
    OBVIOUS
  <2>6. f \in Bijection(A, B)
    <3>1. \A k \in A : f[k] \in B
      BY <1>5, <2>3, <2>5
    <3>2. \A x, y \in A : f[x] = f[y] => x = y
      BY <1>5, <2>3, <2>5
    <3>3. \A x \in B : \E y \in A : f[y] = x
      BY <1>5, <2>3, <2>5
    <3> QED
      BY <2>5, <3>1, <3>2, <3>3 DEF Bijection, Injection, Surjection, IsInjective
  <2>7. Cardinality(A) = Cardinality(B)
    BY <2>4, <2>6, FS_Bijection DEF ExistsBijection
  <2>8. Cardinality(B) = Cardinality(Having(q, R)) - Cardinality(Having(q, R) \cap gone)
    BY <2>2, HavingFinite, FS_Difference
  <2> QED
    BY <2>1, <2>7, <2>8
<1> QED
  BY <1>2, <1>7, <1>8, <1>9

\* The first relics of an account are as many as asked for.
LEMMA FirstAre ==
  ASSUME NEW s \in Economy, NEW a \in Accounts, NEW n \in Nat, n <= Cardinality(Unlisted(s, a))
  PROVE  /\ FirstUnlisted(s, a, n) \subseteq Unlisted(s, a)
         /\ IsFiniteSet(FirstUnlisted(s, a, n)) /\ Cardinality(FirstUnlisted(s, a, n)) = n
<1>1. PICK S : S = Unlisted(s, a)
  OBVIOUS
<1>2. S \in SUBSET (1..Len(s.relics)) /\ Len(s.relics) \in Nat /\ IsFiniteSet(S)
  <2>1. s.relics \in Seq(Relic)
    BY EconomyIs
  <2>2. Unlisted(s, a) = Having(s.relics, Loose(a))
    BY DEF Unlisted, Having, Loose
  <2> QED
    BY <1>1, <2>1, <2>2, HavingFinite
<1>3. Ranked(S)
  BY <1>2, NumbersAreRanked
<1>4. PICK F : F = FirstUnlisted(s, a, n)
  OBVIOUS
<1>5. F = {k \in S : Rank(S, k) < n}
  BY <1>1, <1>4 DEF FirstUnlisted, Rank
<1>6. F \in SUBSET S /\ IsFiniteSet(F)
  BY <1>2, <1>5, FS_Subset
<1>7. PICK c \in Nat : c = Cardinality(S) /\ n <= c
  BY <1>1, <1>2, FS_CardinalityType
<1>8. PICK f : f = [k \in F |-> Rank(S, k)]
  OBVIOUS
<1>9. f \in Bijection(F, 0..(n - 1))
  <2>1. \A k \in F : f[k] \in 0..(n - 1)
    BY <1>3, <1>5, <1>7, <1>8 DEF Ranked
  <2>2. \A x, y \in F : f[x] = f[y] => x = y
    BY <1>3, <1>5, <1>8 DEF Ranked
  <2>3. \A i \in 0..(n - 1) : \E x \in F : f[x] = i
    <3> SUFFICES ASSUME NEW i \in 0..(n - 1) PROVE \E x \in F : f[x] = i
      OBVIOUS
    <3>1. i \in 0..(c - 1) /\ i < n
      BY <1>7
    <3>2. PICK x \in S : Rank(S, x) = i
      BY <1>3, <1>7, <3>1 DEF Ranked
    <3> QED
      BY <1>5, <1>8, <3>1, <3>2
  <2> QED
    BY <1>8, <2>1, <2>2, <2>3 DEF Bijection, Injection, Surjection, IsInjective
<1>10. Cardinality(F) = n
  <2>1. Cardinality(0..(n - 1)) = Cardinality(F)
    BY <1>6, <1>9, FS_Bijection DEF ExistsBijection
  <2>2. 0 \in Int /\ n - 1 \in Int
    OBVIOUS
  <2>3. Cardinality(0..(n - 1)) = IF 0 > n - 1 THEN 0 ELSE (n - 1) - 0 + 1
    BY <2>2, FS_Interval
  <2> QED
    BY <2>1, <2>3
<1> QED
  BY <1>1, <1>4, <1>6, <1>10

-----------------------------------------------------------------------------
(* Homes and levels *)

\* recalculate_property_level says whether there is a home.
LEMMA LevelIs ==
  ASSUME NEW s, NEW a
  PROVE  Level(s, a) = IF Owns(s.homes, a) THEN 1 ELSE 0
  BY DEF Level, HomesOf, Owns

\* Levels that were right stay right where they are those of a home, or where
\* neither level nor home came.
LEMMA LevelsFit ==
  ASSUME NEW homes, NEW level, NEW granted, Levelled(homes, level, granted), NEW f, NEW g,
         \A b \in Accounts : g[b] = 0 \/ Owns(f, b) \/ (g[b] = level[b] /\ ~Owns(homes, b))
  PROVE  Levelled(f, g, granted)
  BY DEF Levelled

\* The same offers of the same homes.
LEMMA OfferedSame ==
  ASSUME NEW homes, NEW auctions, Offered(homes, auctions), NEW f, NEW g,
         DOMAIN f = DOMAIN homes,
         \A h \in DOMAIN homes : f[h].owner = homes[h].owner /\ f[h].listed = homes[h].listed,
         DOMAIN g = DOMAIN auctions,
         \A id \in DOMAIN auctions : g[id].home = auctions[id].home /\ g[id].seller = auctions[id].seller
  PROVE  Offered(f, g)
  BY DEF Offered

\* A home more, which nobody offers.
LEMMA OfferedMore ==
  ASSUME NEW homes, NEW auctions, Offered(homes, auctions),
         NEW h, h \notin DOMAIN homes, h # 0, NEW f,
         \A i : i \in DOMAIN f <=> i \in DOMAIN homes \/ i = h,
         \A i \in DOMAIN homes : f[i] = homes[i], ~f[h].listed
  PROVE  Offered(f, auctions)
<1>1. \A id \in DOMAIN auctions : auctions[id].home # h
  BY DEF Offered
<1> QED
  BY <1>1 DEF Offered

\* Homes that leave with all that offers them.
LEMMA OfferedLess ==
  ASSUME NEW homes, NEW auctions, Offered(homes, auctions),
         NEW f, DOMAIN f \subseteq DOMAIN homes, \A h \in DOMAIN f : f[h] = homes[h],
         NEW g, DOMAIN g \subseteq DOMAIN auctions, \A id \in DOMAIN g : g[id] = auctions[id],
         \A id \in DOMAIN auctions :
            auctions[id].home \in DOMAIN homes => (id \in DOMAIN g <=> auctions[id].home \in DOMAIN f)
  PROVE  Offered(f, g)
<1>1. ASSUME NEW h \in DOMAIN f
      PROVE  f[h].listed <=> \E id \in DOMAIN g : g[id].home = h
  <2>1. h \in DOMAIN homes /\ f[h] = homes[h]
    OBVIOUS
  <2>2. f[h].listed <=> \E id \in DOMAIN auctions : auctions[id].home = h
    BY <2>1 DEF Offered
  <2>3. \A id \in DOMAIN auctions : auctions[id].home = h => id \in DOMAIN g
    BY <2>1
  <2> QED
    BY <2>2, <2>3
<1>2. ASSUME NEW id \in DOMAIN g, g[id].home # 0
      PROVE  /\ g[id].home \in DOMAIN f
             /\ f[g[id].home].owner = g[id].seller
             /\ \A other \in DOMAIN g : g[other].home = g[id].home => other = id
  BY <1>2 DEF Offered
<1> QED
  BY <1>1, <1>2 DEF Offered

\* An auction ends, and its home, in whatever hands, is not listed any more.
LEMMA OfferedSold ==
  ASSUME NEW homes, NEW auctions, Offered(homes, auctions),
         NEW id \in DOMAIN auctions, NEW h, h = auctions[id].home, h # 0,
         NEW f, DOMAIN f = DOMAIN homes, \A i \in DOMAIN homes : i # h => f[i] = homes[i],
         ~f[h].listed,
         NEW g, \A i : i \in DOMAIN g <=> i \in DOMAIN auctions /\ i # id,
         \A i \in DOMAIN g : g[i] = auctions[i]
  PROVE  Offered(f, g)
<1>1. h \in DOMAIN homes /\ \A i \in DOMAIN g : g[i].home # h
  BY DEF Offered
<1>2. ASSUME NEW i \in DOMAIN f
      PROVE  f[i].listed <=> \E j \in DOMAIN g : g[j].home = i
  <2>1. CASE i = h
    BY <1>1, <2>1
  <2>2. CASE i # h
    <3>1. f[i] = homes[i] /\ i \in DOMAIN homes
      BY <2>2
    <3>2. homes[i].listed <=> \E j \in DOMAIN auctions : auctions[j].home = i
      BY <3>1 DEF Offered
    <3>3. \A j \in DOMAIN auctions : auctions[j].home = i => j \in DOMAIN g
      BY <2>2
    <3> QED
      BY <3>1, <3>2, <3>3
  <2> QED
    BY <2>1, <2>2
<1>3. ASSUME NEW j \in DOMAIN g, g[j].home # 0
      PROVE  /\ g[j].home \in DOMAIN f
             /\ f[g[j].home].owner = g[j].seller
             /\ \A other \in DOMAIN g : g[other].home = g[j].home => other = j
  BY <1>1, <1>3 DEF Offered
<1> QED
  BY <1>2, <1>3 DEF Offered

\* g lists l, and what was listed before.
Added(auctions, g, id, l) ==
  /\ id \notin DOMAIN auctions /\ g[id] = l
  /\ \A i : i \in DOMAIN g <=> i \in DOMAIN auctions \/ i = id
  /\ \A i \in DOMAIN auctions : g[i] = auctions[i]

\* The home of l, if it has one, was not listed, and is in f.
Marked(homes, f, l) ==
  /\ l.home = 0 \/ (l.home \in DOMAIN homes /\ ~homes[l.home].listed /\ homes[l.home].owner = l.seller)
  /\ DOMAIN f = DOMAIN homes /\ \A i \in DOMAIN homes : f[i].owner = homes[i].owner
  /\ \A i \in DOMAIN homes : i # l.home => f[i].listed = homes[i].listed
  /\ l.home # 0 => f[l.home].listed

\* An auction more, of a home that none offers, or of none.
LEMMA OfferedListed ==
  ASSUME NEW homes, NEW auctions, Offered(homes, auctions), 0 \notin DOMAIN homes,
         NEW id, NEW l, NEW f, Marked(homes, f, l), NEW g, Added(auctions, g, id, l)
  PROVE  Offered(f, g)
<1> USE DEF Added, Marked
<1>1. l.home # 0 => \A i \in DOMAIN auctions : auctions[i].home # l.home
  BY DEF Offered
<1>2. ASSUME NEW i \in DOMAIN f
      PROVE  f[i].listed <=> \E j \in DOMAIN g : g[j].home = i
  <2>1. CASE i = l.home
    <3>1. f[i].listed /\ id \in DOMAIN g /\ g[id].home = i
      BY <2>1
    <3> QED
      BY <3>1
  <2>2. CASE i # l.home
    <3>1. f[i].listed = homes[i].listed /\ i \in DOMAIN homes
      BY <2>2
    <3>2. homes[i].listed <=> \E j \in DOMAIN auctions : auctions[j].home = i
      BY <3>1 DEF Offered
    <3>3. \A j \in DOMAIN g : g[j].home = i => j \in DOMAIN auctions
      BY <2>2
    <3> QED
      BY <3>1, <3>2, <3>3
  <2> QED
    BY <2>1, <2>2
<1>3. ASSUME NEW j \in DOMAIN g, g[j].home # 0
      PROVE  /\ g[j].home \in DOMAIN f
             /\ f[g[j].home].owner = g[j].seller
             /\ \A other \in DOMAIN g : g[other].home = g[j].home => other = j
  <2>1. CASE j = id
    BY <1>1, <1>3, <2>1
  <2>2. CASE j # id
    BY <1>1, <1>3, <2>2 DEF Offered
  <2> QED
    BY <2>1, <2>2
<1> QED
  BY <1>2, <1>3 DEF Offered

-----------------------------------------------------------------------------
(* What is written into an economy *)

CashPut(s, w, c, o) == [s EXCEPT !.wallet = w, !.checking = c, !.outside = o]
RelicsPut(s, q, c) == [s EXCEPT !.relics = q, !.count = c]
HomesPut(s, f, next, level, granted) ==
  [s EXCEPT !.homes = f, !.nextHome = next, !.level = level, !.granted = granted]
AuctionsPut(s, f, next) == [s EXCEPT !.auctions = f, !.nextAuction = next]

SameCash(s, t) == t.wallet = s.wallet /\ t.checking = s.checking /\ t.outside = s.outside
SameRelics(s, t) == t.relics = s.relics /\ t.count = s.count
SameHomes(s, t) ==
  t.homes = s.homes /\ t.nextHome = s.nextHome /\ t.level = s.level /\ t.granted = s.granted
SameAuctions(s, t) == t.auctions = s.auctions /\ t.nextAuction = s.nextAuction

\* The cash of an economy.
LEMMA CashPutIs ==
  ASSUME NEW s \in Economy, NEW w, NEW c, NEW o, NEW t, t = CashPut(s, w, c, o)
  PROVE  /\ t.wallet = w /\ t.checking = c /\ t.outside = o
         /\ SameRelics(s, t) /\ SameHomes(s, t) /\ SameAuctions(s, t)
         /\ w \in [Accounts -> Nat] /\ c \in [Accounts -> Nat] /\ o \in Int => t \in Economy
<1>1. t = [wallet |-> w, checking |-> c, homes |-> s.homes,
           relics |-> s.relics, count |-> s.count, level |-> s.level,
           auctions |-> s.auctions, nextHome |-> s.nextHome,
           nextAuction |-> s.nextAuction, outside |-> o, granted |-> s.granted]
  BY DEF CashPut, Economy
<1> QED
  BY <1>1, EconomyIs DEF SameRelics, SameHomes, SameAuctions, Economy

\* Its relics.
LEMMA RelicsPutIs ==
  ASSUME NEW s \in Economy, NEW q, NEW c, NEW t, t = RelicsPut(s, q, c)
  PROVE  /\ t.relics = q /\ t.count = c
         /\ SameCash(s, t) /\ SameHomes(s, t) /\ SameAuctions(s, t)
         /\ q \in Seq(Relic) /\ c \in [Accounts -> Nat] => t \in Economy
<1>1. t = [wallet |-> s.wallet, checking |-> s.checking, homes |-> s.homes,
           relics |-> q, count |-> c, level |-> s.level,
           auctions |-> s.auctions, nextHome |-> s.nextHome,
           nextAuction |-> s.nextAuction, outside |-> s.outside, granted |-> s.granted]
  BY DEF RelicsPut, Economy
<1> QED
  BY <1>1, EconomyIs DEF SameCash, SameHomes, SameAuctions, Economy

\* Its homes.
LEMMA HomesPutIs ==
  ASSUME NEW s \in Economy, NEW f, NEW next, NEW level, NEW granted,
         NEW t, t = HomesPut(s, f, next, level, granted)
  PROVE  /\ t.homes = f /\ t.nextHome = next /\ t.level = level /\ t.granted = granted
         /\ SameCash(s, t) /\ SameRelics(s, t) /\ SameAuctions(s, t)
         /\ /\ f \in Tables(Home) /\ next \in Nat \ {0} /\ \A h \in DOMAIN f : h < next
            /\ level \in [Accounts -> {0, 1}] /\ granted \in [Accounts -> Nat]
            => t \in Economy
<1>1. t = [wallet |-> s.wallet, checking |-> s.checking, homes |-> f,
           relics |-> s.relics, count |-> s.count, level |-> level,
           auctions |-> s.auctions, nextHome |-> next,
           nextAuction |-> s.nextAuction, outside |-> s.outside, granted |-> granted]
  BY DEF HomesPut, Economy
<1>2. ASSUME f \in Tables(Home), next \in Nat \ {0}, \A h \in DOMAIN f : h < next
      PROVE  DOMAIN f \subseteq 1..(next - 1)
  BY <1>2, TableIs
<1> QED
  BY <1>1, <1>2, EconomyIs DEF SameCash, SameRelics, SameAuctions, Economy

\* Its auctions.
LEMMA AuctionsPutIs ==
  ASSUME NEW s \in Economy, NEW f, NEW next, NEW t, t = AuctionsPut(s, f, next)
  PROVE  /\ t.auctions = f /\ t.nextAuction = next
         /\ SameCash(s, t) /\ SameRelics(s, t) /\ SameHomes(s, t)
         /\ f \in Tables(Offer) /\ next \in Nat \ {0} /\ (\A id \in DOMAIN f : id < next) => t \in Economy
<1>1. t = [wallet |-> s.wallet, checking |-> s.checking, homes |-> s.homes,
           relics |-> s.relics, count |-> s.count, level |-> s.level,
           auctions |-> f, nextHome |-> s.nextHome,
           nextAuction |-> next, outside |-> s.outside, granted |-> s.granted]
  BY DEF AuctionsPut, Economy
<1>2. ASSUME f \in Tables(Offer), next \in Nat \ {0}, \A id \in DOMAIN f : id < next
      PROVE  DOMAIN f \subseteq 1..(next - 1)
  BY <1>2, TableIs
<1> QED
  BY <1>1, <1>2, EconomyIs DEF SameCash, SameRelics, SameHomes, Economy

\* The numbers of homes and of auctions given so far.
LEMMA NumbersGiven ==
  ASSUME NEW s \in Economy
  PROVE  /\ 0 \notin DOMAIN s.homes /\ 0 \notin DOMAIN s.auctions
         /\ s.nextHome \in Nat \ {0} /\ s.nextAuction \in Nat \ {0}
         /\ \A h \in DOMAIN s.homes : h \in Nat /\ h < s.nextHome /\ s.homes[h] \in Home
         /\ \A id \in DOMAIN s.auctions : id \in Nat /\ id < s.nextAuction /\ s.auctions[id] \in Offer
<1>1. s.homes \in [DOMAIN s.homes -> Home] /\ s.auctions \in [DOMAIN s.auctions -> Offer]
  BY EconomyIs, TableIs
<1> QED
  BY <1>1, EconomyIs

-----------------------------------------------------------------------------
(* Cash, and what a call finds unrecorded *)

\* What is the same is as good.
LEMMA SameIsGood ==
  ASSUME NEW s, NEW t \in Economy, NEW n, Good(s, n), SameHomes(s, t), SameRelics(s, t),
         t.nextAuction = s.nextAuction, DOMAIN t.auctions = DOMAIN s.auctions,
         \A id \in DOMAIN s.auctions :
            /\ t.auctions[id].home = s.auctions[id].home
            /\ t.auctions[id].seller = s.auctions[id].seller
            /\ t.auctions[id].relics = s.auctions[id].relics
  PROVE  Good(t, n) /\ \A b : Has(t, b) => Has(s, b)
<1>1. Offered(t.homes, t.auctions)
  BY OfferedSame DEF Good, SameHomes
<1>2. Holding(t.relics, t.auctions, t.nextAuction)
  BY DEF Good, SameRelics, Holding
<1> QED
  BY <1>1, <1>2 DEF Good, SameHomes, SameRelics, Has

\* Cash that a player pays to the outside, or gets from there.
LEMMA SpendIs ==
  ASSUME NEW s, NEW n, Good(s, n), NEW a \in Accounts, NEW p \in Int, p <= s.wallet[a],
         NEW t, t = Spend(s, a, p)
  PROVE  /\ Does(s, t, a, n) /\ SameHomes(s, t) /\ SameRelics(s, t) /\ SameAuctions(s, t)
         /\ t.checking = s.checking /\ t.wallet = Put(s.wallet, a, s.wallet[a] - p)
         /\ t.outside = s.outside + p
<1>1. s \in Economy
  BY DEF Good
<1>2. PICK w : w = Put(s.wallet, a, s.wallet[a] - p)
  OBVIOUS
<1>3. w \in [Accounts -> Nat] /\ w[a] = s.wallet[a] - p /\ \A b \in Accounts \ {a} : w[b] = s.wallet[b]
  BY <1>1, <1>2, EconomyIs DEF Put
<1>4. PICK o \in Int : o = s.outside + p
  BY <1>1, EconomyIs
<1>10. PICK c \in [Accounts -> Nat] : c = s.checking
  BY <1>1, EconomyIs
<1>5. t = CashPut(s, w, c, o)
  BY <1>1, <1>2, <1>4, <1>10, EconomyIs DEF Spend, CashPut, Put
<1>6. /\ SameHomes(s, t) /\ SameRelics(s, t) /\ SameAuctions(s, t) /\ t.checking = s.checking
      /\ t.wallet = w /\ t.outside = o /\ t \in Economy
  BY <1>1, <1>3, <1>5, <1>10, CashPutIs
<1>7. Good(t, n) /\ \A b : Has(t, b) => Has(s, b)
  BY <1>6, SameIsGood DEF SameAuctions
<1>8. Worth(t) = Worth(s)
  <2>1. PICK e \in Int : e = 0 /\ InEscrow(t.auctions) = InEscrow(s.auctions) + e
    BY <1>1, <1>6, WorthIs DEF SameAuctions
  <2>4. \A b \in Accounts \ {a} : t.wallet[b] = s.wallet[b] /\ t.checking[b] = s.checking[b]
    BY <1>3, <1>6
  <2>2. Worth(t) = Worth(s) + (t.wallet[a] - s.wallet[a]) + (t.checking[a] - s.checking[a])
                    + e + (t.outside - s.outside)
    BY <1>1, <1>6, <2>1, <2>4, CashMoves
  <2>3. s.wallet[a] \in Int /\ s.checking[a] \in Int /\ s.outside \in Int /\ Worth(s) \in Int
    BY <1>1, WorthIs
  <2> QED
    BY <1>3, <1>4, <1>6, <2>1, <2>2, <2>3
<1>9. \A b \in Accounts \ {a} : t.wallet[b] >= s.wallet[b]
  BY <1>1, <1>3, <1>6, EconomyIs
<1> QED
  BY <1>2, <1>4, <1>6, <1>7, <1>8, <1>9 DEF Does, Spares, SameRelics

\* A home more, of a: its level says so, or has said so before.
LEMMA HomeAdded ==
  ASSUME NEW s, NEW n \in Nat, Good(s, n), NEW a \in Accounts, NEW home \in Home,
         home.owner = a, ~home.listed, home.rented <= n, NEW next, next = s.nextHome + 1,
         NEW level \in [Accounts -> {0, 1}], \A b \in Accounts \ {a} : level[b] = s.level[b],
         level[a] # 0, NEW granted \in [Accounts -> Nat],
         \A b \in Accounts : granted[b] <= IF b \in LegacyHomes THEN 1 ELSE 0,
         \A b \in Accounts \ {a} : granted[b] = s.granted[b],
         NEW f, f = With(s.homes, s.nextHome, home), NEW t, t = HomesPut(s, f, next, level, granted)
  PROVE  Does(s, t, a, n) /\ SameRelics(s, t) /\ SameAuctions(s, t) /\ SameCash(s, t)
<1>1. s \in Economy
  BY DEF Good
<1>2. PICK h \in Nat \ {0} : h = s.nextHome /\ h \notin DOMAIN s.homes
  BY <1>1, NumbersGiven
<1>3. PICK old \in Tables(Home) : old = s.homes
  BY <1>1, EconomyIs
<1>4. /\ f \in Tables(Home) /\ f[h] = home
      /\ \A i : i \in DOMAIN f <=> i \in DOMAIN old \/ i = h
      /\ \A i \in DOMAIN old : f[i] = old[i]
  BY <1>2, <1>3, TableWith
<1>5. next \in Nat \ {0} /\ \A i \in DOMAIN f : i < next
  BY <1>1, <1>2, <1>3, <1>4, NumbersGiven
<1>7. /\ t.homes = f /\ t.nextHome = next /\ t.level = level /\ t.granted = granted
      /\ SameRelics(s, t) /\ SameAuctions(s, t) /\ SameCash(s, t) /\ t \in Economy
  BY <1>1, <1>4, <1>5, HomesPutIs
<1>8. Offered(f, t.auctions)
  <2>1. Offered(old, t.auctions)
    BY <1>3, <1>7 DEF Good, SameAuctions
  <2>2. h \notin DOMAIN old /\ h # 0 /\ ~f[h].listed
    BY <1>2, <1>3, <1>4
  <2> QED
    BY <1>4, <2>1, <2>2, OfferedMore
<1>9. \A b \in Accounts \ {a} : Owns(f, b) <=> Owns(s.homes, b)
  BY <1>3, <1>4 DEF Owns
<1>10. Owns(f, a)
  BY <1>4 DEF Owns
<1>11. Levelled(f, level, granted)
  BY <1>9, <1>10 DEF Levelled, Good
<1>12. \A i \in DOMAIN f : f[i].rented <= n
  BY <1>3, <1>4 DEF Good
<1>13. Good(t, n)
  BY <1>7, <1>8, <1>11, <1>12 DEF Good, SameRelics, SameAuctions
<1>14. Worth(t) = Worth(s)
  BY <1>7 DEF Worth, SameCash, SameAuctions
<1>15. \A b \in Accounts \ {a} : t.wallet[b] >= s.wallet[b] /\ (Has(t, b) => Has(s, b))
  BY <1>1, <1>7, <1>9, EconomyIs DEF Has, SameCash
<1> QED
  BY <1>7, <1>13, <1>14, <1>15 DEF Does, Spares, SameRelics

\* A home that was just built.
LEMMA NewHomeIs ==
  ASSUME now \in Nat, NEW a \in Accounts, NEW price \in Nat, NEW mortgage \in Nat, NEW due \in Nat,
         NEW home, home = NewHome(a, price, mortgage, due)
  PROVE  home \in Home /\ home.owner = a /\ ~home.listed /\ home.rented <= now
  BY DEF NewHome, Home

\* A home by which the level of an old database is recorded.
LEMMA WithHomeDoes ==
  ASSUME NEW s, now \in Nat, Good(s, now), NEW a \in Accounts, NEW t, t = WithHome(s, a)
  PROVE  Does(s, t, a, now) /\ t.relics = s.relics /\ t.count = s.count
<1>1. s \in Economy
  BY DEF Good
<1>2. CASE s.level[a] = 0 \/ HomesOf(s, a) # {}
  <2>1. t = s
    BY <1>2 DEF WithHome
  <2> QED
    BY <1>1, <2>1, EconomyIs DEF Does, Spares
<1>3. CASE ~(s.level[a] = 0 \/ HomesOf(s, a) # {})
  <2>1. PICK home \in Home : /\ home = NewHome(a, Max(HomePrices), 0, 0)
                             /\ home.owner = a /\ ~home.listed /\ home.rented <= now
    BY Numbers, NewHomeIs
  <2>2. PICK granted : granted = [s.granted EXCEPT ![a] = s.granted[a] + 1]
    OBVIOUS
  <2>3. a \in LegacyHomes /\ s.granted[a] = 0 /\ s.level[a] # 0
    BY <1>3 DEF Good, Levelled, Owns, HomesOf
  <2>4. granted \in [Accounts -> Nat] /\ granted[a] = 1 /\ \A b \in Accounts \ {a} : granted[b] = s.granted[b]
    BY <1>1, <2>2, <2>3, EconomyIs
  <2>5. \A b \in Accounts : granted[b] <= IF b \in LegacyHomes THEN 1 ELSE 0
    BY <2>3, <2>4 DEF Good, Levelled
  <2>6. PICK next : next = s.nextHome + 1
    OBVIOUS
  <2>7. PICK f : f = With(s.homes, s.nextHome, home)
    OBVIOUS
  <2>10. PICK level \in [Accounts -> {0, 1}] : level = s.level
    BY <1>1, EconomyIs
  <2>11. t = HomesPut(s, f, next, level, granted)
    BY <1>1, <1>3, <2>1, <2>2, <2>6, <2>7, <2>10, EconomyIs DEF WithHome, HomesPut
  <2>12. level[a] # 0 /\ \A b \in Accounts \ {a} : level[b] = s.level[b]
    BY <2>3, <2>10
  <2> QED
    BY <2>1, <2>4, <2>5, <2>6, <2>7, <2>11, <2>12, HomeAdded DEF SameRelics
<1> QED
  BY <1>2, <1>3

\* Relics and their count change, of a and of the same player elsewhere.
LEMMA RelicsChange ==
  ASSUME NEW s, NEW n, Good(s, n), NEW a \in Accounts,
         NEW q \in Seq(Relic), NEW c \in [Accounts -> Nat],
         Holding(q, s.auctions, s.nextAuction), Counted(q, c),
         \A b \in Accounts : Player(b) # Player(a) => c[b] = s.count[b],
         NEW t, t = RelicsPut(s, q, c)
  PROVE  /\ Does(s, t, a, n) /\ t.relics = q /\ t.count = c
         /\ SameCash(s, t) /\ SameHomes(s, t) /\ SameAuctions(s, t)
<1>1. s \in Economy
  BY DEF Good
<1>2. /\ SameCash(s, t) /\ SameHomes(s, t) /\ SameAuctions(s, t) /\ t.relics = q /\ t.count = c
      /\ t \in Economy
  BY <1>1, RelicsPutIs
<1>3. Good(t, n)
  BY <1>2 DEF Good, SameHomes, SameAuctions
<1>4. Worth(t) = Worth(s)
  BY <1>2 DEF Worth, SameCash, SameAuctions
<1>5. \A b \in Accounts \ {a} : t.wallet[b] >= s.wallet[b] /\ (Has(t, b) => Has(s, b))
  BY <1>1, <1>2, EconomyIs DEF Has, SameCash, SameHomes
<1> QED
  BY <1>2, <1>3, <1>4, <1>5 DEF Does, Spares

\* New relics are held by no auction.
LEMMA HoldingAppended ==
  ASSUME NEW s, NEW n, Good(s, n), NEW a \in Accounts, NEW m \in Nat,
         NEW r, r = Grown(s.relics, a, m)
  PROVE  /\ r \in Seq(Relic) /\ Holding(r, s.auctions, s.nextAuction)
         /\ Cardinality(Having(r, Loose(a))) = Cardinality(Having(s.relics, Loose(a))) + m
         /\ \A b \in Accounts \ {a} :
              Cardinality(Having(r, Loose(b))) = Cardinality(Having(s.relics, Loose(b)))
<1>1. s \in Economy
  BY DEF Good
<1>2. PICK q \in Seq(Relic) : q = s.relics
  BY <1>1, EconomyIs
<1>3. /\ r \in Seq(Relic)
      /\ \A k \in DOMAIN r : r[k] = Free(a) \/ (k \in DOMAIN q /\ r[k] = q[k])
      /\ \A R : Free(a) \in R => Cardinality(Having(r, R)) = Cardinality(Having(q, R)) + m
      /\ \A R : Free(a) \notin R => Cardinality(Having(r, R)) = Cardinality(Having(q, R))
  <2>1. r = Grown(q, a, m)
    BY <1>2
  <2>2. r \in Seq(Relic) /\ \A k \in DOMAIN r : r[k] = Free(a) \/ (k \in DOMAIN q /\ r[k] = q[k])
    BY <2>1, HavingAppended
  <2>3. \A R : Free(a) \in R => Cardinality(Having(r, R)) = Cardinality(Having(q, R)) + m
    BY <2>1, HavingAppended
  <2>4. \A R : Free(a) \notin R => Cardinality(Having(r, R)) = Cardinality(Having(q, R))
    BY <2>1, HavingAppended
  <2> QED
    BY <2>2, <2>3, <2>4
<1>6. \A id \in DOMAIN s.auctions : Free(a) \notin Held(id)
  BY <1>1, EconomyIs DEF Free, Held
<1>7. Free(a).auction = 0 /\ 0 < s.nextAuction
  BY <1>1, EconomyIs DEF Free
<1>8. \A k \in DOMAIN r : r[k].auction < s.nextAuction
  BY <1>2, <1>3, <1>7 DEF Good, Holding
<1>9. ASSUME NEW id \in DOMAIN s.auctions
      PROVE  /\ Cardinality(Having(r, Held(id))) = s.auctions[id].relics
             /\ \A k \in Having(r, Held(id)) : r[k].owner = s.auctions[id].seller
  <2>1. Cardinality(Having(r, Held(id))) = s.auctions[id].relics
    BY <1>2, <1>3, <1>6 DEF Good, Holding
  <2>2. ASSUME NEW k \in Having(r, Held(id)) PROVE r[k].owner = s.auctions[id].seller
    <3>1. k \in DOMAIN q /\ r[k] = q[k] /\ k \in Having(q, Held(id))
      BY <1>3, <1>6 DEF Having
    <3> QED
      BY <1>2, <3>1 DEF Good, Holding
  <2> QED
    BY <2>1, <2>2
<1>10. Free(a) \in Loose(a) /\ \A b \in Accounts \ {a} : Free(a) \notin Loose(b)
  BY DEF Free, Loose
<1> QED
  BY <1>2, <1>3, <1>8, <1>9, <1>10 DEF Holding

\* The serial numbers of the relics an old database counts.
LEMMA WithSerialsDoes ==
  ASSUME NEW s, NEW n, Good(s, n), NEW a \in Accounts, NEW t, t = WithSerials(s, a)
  PROVE  Does(s, t, a, n) /\ t.count[a] = Cardinality(Having(t.relics, Loose(a)))
<1>1. s \in Economy
  BY DEF Good
<1>2. PICK u \in Nat : u = Cardinality(Having(s.relics, Loose(a)))
  BY <1>1, EconomyIs, HavingFinite
<1>3. Unlisted(s, a) = Having(s.relics, Loose(a))
  BY DEF Unlisted, Having, Loose
<1>4. PICK c \in Nat : c = s.count[a] /\ c - u >= 0
  <2>1. s.count[a] \in Nat /\ LegacyRelics[a] \in Nat
    BY <1>1, EconomyIs, Numbers
  <2>2. s.count[a] - u \in {0, LegacyRelics[a]}
    BY <1>2 DEF Good, Counted
  <2> QED
    BY <2>1, <2>2
<1>5. PICK m \in Nat : m = c - u /\ m = Larger(0, s.count[a] - Cardinality(Unlisted(s, a)))
  BY <1>2, <1>3, <1>4 DEF Larger
<1>6. PICK r : r = Grown(s.relics, a, m)
  OBVIOUS
<1>7. /\ r \in Seq(Relic) /\ Holding(r, s.auctions, s.nextAuction)
      /\ Cardinality(Having(r, Loose(a))) = u + m
      /\ \A b \in Accounts \ {a} :
           Cardinality(Having(r, Loose(b))) = Cardinality(Having(s.relics, Loose(b)))
  BY <1>2, <1>6, HoldingAppended
<1>8. s.count \in [Accounts -> Nat]
  BY <1>1, EconomyIs
<1>9. Counted(r, s.count)
  <2>1. c - Cardinality(Having(r, Loose(a))) = 0
    BY <1>4, <1>5, <1>7
  <2>2. \A b \in Accounts \ {a} : s.count[b] - Cardinality(Having(r, Loose(b))) \in {0, LegacyRelics[b]}
    BY <1>7 DEF Good, Counted
  <2> QED
    BY <1>4, <2>1, <2>2 DEF Counted
<1>10. PICK cs \in [Accounts -> Nat] : cs = s.count
  BY <1>8
<1>12. t = RelicsPut(s, r, cs)
  BY <1>1, <1>5, <1>6, <1>10, EconomyIs DEF WithSerials, RelicsPut, Grown
<1>11. Does(s, t, a, n) /\ t.relics = r /\ t.count = cs
  BY <1>7, <1>9, <1>10, <1>12, RelicsChange
<1> QED
  BY <1>4, <1>5, <1>7, <1>10, <1>11

\* What a call of a finds recorded is good, and a may trade all it has.
LEMMA RecordedDoes ==
  ASSUME NEW s, now \in Nat, Good(s, now), NEW a \in Accounts, NEW t, t = Recorded(s, a)
  PROVE  Does(s, t, a, now) /\ t.count[a] = Cardinality(Having(t.relics, Loose(a)))
<1>1. PICK u : u = WithHome(s, a)
  OBVIOUS
<1>2. Does(s, u, a, now)
  BY <1>1, WithHomeDoes
<1>3. t = WithSerials(u, a)
  BY <1>1 DEF Recorded
<1>4. Does(u, t, a, now) /\ t.count[a] = Cardinality(Having(t.relics, Loose(a)))
  BY <1>2, <1>3, WithSerialsDoes DEF Does
<1>5. s \in Economy
  BY DEF Good
<1> QED
  BY <1>2, <1>4, <1>5, DoesThen

-----------------------------------------------------------------------------
(* The calls property and collectible *)

\* Homes and levels change; none are new.
LEMMA HomesChange ==
  ASSUME NEW s, NEW n, Good(s, n), NEW a \in Accounts,
         NEW f \in Tables(Home), \A h \in DOMAIN f : h < s.nextHome /\ f[h].rented <= n,
         NEW level \in [Accounts -> {0, 1}],
         Offered(f, s.auctions), Levelled(f, level, s.granted),
         \A b \in Accounts \ {a} : level[b] # 0 \/ Owns(f, b) => Has(s, b),
         NEW next, next = s.nextHome, NEW g, g = s.granted, NEW t, t = HomesPut(s, f, next, level, g)
  PROVE  /\ Does(s, t, a, n) /\ t.homes = f /\ t.level = level
         /\ SameCash(s, t) /\ SameRelics(s, t) /\ SameAuctions(s, t)
<1>1. s \in Economy
  BY DEF Good
<1>2. next \in Nat \ {0} /\ g \in [Accounts -> Nat] /\ \A h \in DOMAIN f : h < next
  BY <1>1, EconomyIs
<1>3. /\ t.homes = f /\ t.nextHome = next /\ t.level = level /\ t.granted = g
      /\ SameCash(s, t) /\ SameRelics(s, t) /\ SameAuctions(s, t) /\ t \in Economy
  BY <1>1, <1>2, HomesPutIs
<1>4. Good(t, n)
  BY <1>3 DEF Good, SameRelics, SameAuctions
<1>5. Worth(t) = Worth(s)
  BY <1>3 DEF Worth, SameCash, SameAuctions
<1>6. \A b \in Accounts \ {a} : t.wallet[b] >= s.wallet[b] /\ (Has(t, b) => Has(s, b))
  BY <1>1, <1>3, EconomyIs DEF Has, SameCash
<1> QED
  BY <1>3, <1>4, <1>5, <1>6 DEF Does, Spares, SameRelics

\* Of one home nothing changes but what it is worth, owes or has paid.
LEMMA HomeKept ==
  ASSUME NEW s, NEW n, Good(s, n), NEW h \in DOMAIN s.homes, NEW home \in Home,
         home.owner = s.homes[h].owner, home.listed = s.homes[h].listed, home.rented <= n,
         NEW f, f = Put(s.homes, h, home),
         NEW t, t = HomesPut(s, f, s.nextHome, s.level, s.granted)
  PROVE  /\ \A a \in Accounts : Does(s, t, a, n)
         /\ DOMAIN t.homes = DOMAIN s.homes /\ t.homes[h] = home
         /\ SameCash(s, t) /\ SameRelics(s, t) /\ SameAuctions(s, t)
<1>1. s \in Economy
  BY DEF Good
<1>2. PICK old \in Tables(Home) : old = s.homes
  BY <1>1, EconomyIs
<1>3. f \in Tables(Home) /\ DOMAIN f = DOMAIN old /\ f[h] = home /\ \A i \in DOMAIN old : i # h => f[i] = old[i]
  BY <1>2, TableExcept
<1>4. \A i \in DOMAIN f : i < s.nextHome /\ f[i].rented <= n
  BY <1>1, <1>2, <1>3, NumbersGiven DEF Good
<1>5. \A i \in DOMAIN old : f[i].owner = old[i].owner /\ f[i].listed = old[i].listed
  BY <1>2, <1>3
<1>6. Offered(f, s.auctions)
  <2>1. Offered(old, s.auctions)
    BY <1>2 DEF Good
  <2>2. PICK au : au = s.auctions
    OBVIOUS
  <2> QED
    BY <1>3, <1>5, <2>1, <2>2, OfferedSame
<1>7. \A b : Owns(f, b) <=> Owns(old, b)
  BY <1>3, <1>5 DEF Owns
<1>8. PICK level \in [Accounts -> {0, 1}] : level = s.level
  BY <1>1, EconomyIs
<1>9. Levelled(f, level, s.granted)
  BY <1>2, <1>7, <1>8 DEF Good, Levelled
<1>10. \A b \in Accounts : level[b] # 0 \/ Owns(f, b) => Has(s, b)
  BY <1>2, <1>7, <1>8 DEF Has
<1>11. PICK next : next = s.nextHome
  OBVIOUS
<1>12. PICK g : g = s.granted
  OBVIOUS
<1>13. ASSUME NEW a \in Accounts
       PROVE  /\ Does(s, t, a, n) /\ t.homes = f
              /\ SameCash(s, t) /\ SameRelics(s, t) /\ SameAuctions(s, t)
  <2>1. t = HomesPut(s, f, next, level, g)
    BY <1>8, <1>11, <1>12
  <2> QED
    BY <1>3, <1>4, <1>6, <1>9, <1>10, <1>11, <1>12, <2>1, HomesChange
<1>14. s.homes[h].owner \in Accounts
  BY <1>1, NumbersGiven DEF Home
<1> QED
  BY <1>2, <1>3, <1>13, <1>14

\* The step of a refused call.
LEMMA RefuseDoes ==
  ASSUME now \in Nat, Good(db, now), NEW a \in Accounts, Refuse(a)
  PROVE  Does(db, db', a, now)
  BY RecordedDoes DEF Refuse, Call

\* A home bought from the market.
LEMMA BuyHomeDoes ==
  ASSUME now \in Nat, Good(db, now), NEW a \in Accounts, NEW price \in HomePrices, NEW m \in BOOLEAN,
         BuyHome(a, price, m)
  PROVE  Does(db, db', a, now)
<1>1. PICK s : s = Recorded(db, a)
  OBVIOUS
<1>2. Does(db, s, a, now)
  BY <1>1, RecordedDoes
<1>3. PICK down \in Nat : down = (IF m THEN price \div 5 ELSE price) /\ price - down \in Nat
  <2>1. price \in Nat /\ price \div 5 \in Nat /\ price - (price \div 5) \in Nat
    BY Numbers
  <2> QED
    BY <2>1
<1>4. down <= s.wallet[a] /\ down \in Int
  <2>1. Covers(s, a, down)
    BY <1>1, <1>3 DEF BuyHome
  <2>2. s.wallet[a] \in Nat
    BY <1>2, EconomyIs DEF Does, Good
  <2> QED
    BY <2>1, <2>2 DEF Covers
<1>5. PICK u : u = Spend(s, a, down)
  OBVIOUS
<1>6. Does(s, u, a, now) /\ SameHomes(s, u)
  BY <1>2, <1>4, <1>5, SpendIs DEF Does
<1>7. PICK due \in Nat : due = IF m THEN now + 1 ELSE 0
  OBVIOUS
<1>8. PICK mortgage \in Nat : mortgage = price - down
  BY <1>3
<1>9. PICK home : home = NewHome(a, price, mortgage, due)
  OBVIOUS
<1>10. home \in Home /\ home.owner = a /\ ~home.listed /\ home.rented <= now
  <2>1. price \in Nat
    BY Numbers
  <2> QED
    BY <1>9, <2>1, NewHomeIs
<1>11. PICK level : level = [u.level EXCEPT ![a] = 1]
  OBVIOUS
<1>12. u \in Economy /\ Levelled(u.homes, u.level, u.granted)
  BY <1>6 DEF Does, Good
<1>13. level \in [Accounts -> {0, 1}] /\ level[a] # 0 /\ \A b \in Accounts \ {a} : level[b] = u.level[b]
  BY <1>11, <1>12, EconomyIs
<1>14. PICK granted \in [Accounts -> Nat] : granted = u.granted
  BY <1>12, EconomyIs
<1>15. \A b \in Accounts : granted[b] <= IF b \in LegacyHomes THEN 1 ELSE 0
  BY <1>12, <1>14 DEF Levelled
<1>16. PICK next : next = u.nextHome + 1
  OBVIOUS
<1>17. PICK f : f = With(u.homes, u.nextHome, home)
  OBVIOUS
<1>18. PICK t : t = HomesPut(u, f, next, level, granted)
  OBVIOUS
<1>19. db' = t
  <2>1. db' = [u EXCEPT !.homes = f, !.nextHome = next, !.level = level]
    BY <1>1, <1>3, <1>5, <1>6, <1>7, <1>8, <1>9, <1>11, <1>12, <1>16, <1>17
       DEF BuyHome, Call, SameHomes, Economy
  <2> QED
    BY <1>12, <1>14, <1>18, <2>1 DEF HomesPut, Economy
<1>20. Does(u, t, a, now)
  <2>1. Good(u, now)
    BY <1>6 DEF Does
  <2>2. \A b \in Accounts \ {a} : granted[b] = u.granted[b]
    BY <1>14
  <2> QED
    BY <1>10, <1>13, <1>15, <1>16, <1>17, <1>18, <2>1, <2>2, HomeAdded
<1> QED
  <2>1. db \in Economy /\ s \in Economy
    BY <1>2 DEF Does, Good
  <2>2. Does(s, t, a, now)
    BY <1>6, <1>20, <2>1, DoesThen
  <2> QED
    BY <1>2, <1>19, <2>1, <2>2, DoesThen

\* The upkeep of a home.
LEMMA MaintainDoes ==
  ASSUME now \in Nat, Good(db, now), NEW a \in Accounts, NEW h, Maintain(a, h)
  PROVE  Does(db, db', a, now)
<1>1. PICK s : s = Recorded(db, a)
  OBVIOUS
<1>2. Does(db, s, a, now) /\ s \in Economy /\ db \in Economy
  BY <1>1, RecordedDoes DEF Does, Good
<1>3. PICK value \in HomePrices :
        /\ h \in HomesOf(s, a) /\ Covers(s, a, Upkeep)
        /\ db' = [Spend(s, a, Upkeep) EXCEPT !.homes[h].value = value]
  BY <1>1 DEF Maintain, Call
<1>4. value \in Nat /\ Upkeep \in Int
  BY Numbers
<1>5. Upkeep <= s.wallet[a]
  <2>1. s.wallet[a] \in Nat
    BY <1>2, EconomyIs
  <2> QED
    BY <1>3, <1>4, <2>1 DEF Covers
<1>6. PICK u : u = Spend(s, a, Upkeep)
  OBVIOUS
<1>7. Does(s, u, a, now) /\ SameHomes(s, u)
  BY <1>2, <1>4, <1>5, <1>6, SpendIs DEF Does
<1>8. u \in Economy /\ Good(u, now) /\ h \in DOMAIN u.homes
  BY <1>3, <1>7 DEF Does, Good, HomesOf, SameHomes
<1>9. PICK home : home = [u.homes[h] EXCEPT !.value = value]
  OBVIOUS
<1>10. /\ home \in Home /\ home.owner = u.homes[h].owner /\ home.listed = u.homes[h].listed
       /\ home.rented <= now
  BY <1>4, <1>8, <1>9, NumbersGiven DEF Home, Good
<1>11. PICK f : f = Put(u.homes, h, home)
  OBVIOUS
<1>12. PICK t : t = HomesPut(u, f, u.nextHome, u.level, u.granted)
  OBVIOUS
<1>13. db' = t
  BY <1>3, <1>6, <1>8, <1>9, <1>11, <1>12 DEF HomesPut, Put, Economy
<1>14. Does(u, t, a, now)
  BY <1>8, <1>10, <1>11, <1>12, HomeKept
<1> QED
  BY <1>2, <1>7, <1>13, <1>14, DoesThen

\* A home sold to the market.
LEMMA SellHomeDoes ==
  ASSUME now \in Nat, Good(db, now), NEW a \in Accounts, NEW h, SellHome(a, h)
  PROVE  Does(db, db', a, now)
<1>1. PICK s : s = Recorded(db, a)
  OBVIOUS
<1>2. Does(db, s, a, now) /\ s \in Economy /\ db \in Economy /\ Good(s, now)
  BY <1>1, RecordedDoes DEF Does, Good
<1>3. PICK p : p = s.homes[h].value - s.homes[h].mortgage - s.homes[h].value \div 25
  OBVIOUS
<1>4. /\ h \in DOMAIN s.homes /\ s.homes[h].owner = a /\ ~s.homes[h].listed /\ p >= 0
  BY <1>1, <1>3 DEF SellHome, HomesOf
<1>5. p \in Nat
  <2>1. s.homes[h].value \in Nat /\ s.homes[h].mortgage \in Nat
    BY <1>2, <1>4, NumbersGiven DEF Home
  <2> QED
    BY <1>3, <1>4, <2>1
<1>6. PICK i \in Int : i = -p /\ i <= s.wallet[a]
  <2>1. s.wallet[a] \in Nat
    BY <1>2, EconomyIs
  <2> QED
    BY <1>5, <2>1
<1>7. PICK u : u = Spend(s, a, i)
  OBVIOUS
<1>8. Does(s, u, a, now) /\ SameHomes(s, u) /\ SameAuctions(s, u)
  BY <1>2, <1>6, <1>7, SpendIs
<1>9. u \in Economy /\ Good(u, now)
  BY <1>8 DEF Does, Good
<1>10. PICK f : f = Without(u.homes, h)
  OBVIOUS
<1>11. PICK old \in Tables(Home) : old = u.homes /\ old = s.homes
  BY <1>8, <1>9, EconomyIs DEF SameHomes
<1>12. /\ f \in Tables(Home) /\ DOMAIN f \subseteq DOMAIN old
       /\ \A j : j \in DOMAIN f <=> j \in DOMAIN old /\ j # h
       /\ \A j \in DOMAIN f : f[j] = old[j]
  BY <1>10, <1>11, TableWithout
<1>13. PICK sold : sold = [u EXCEPT !.homes = f]
  OBVIOUS
<1>14. PICK lv : lv = Level(sold, a)
  OBVIOUS
<1>15. lv = IF Owns(f, a) THEN 1 ELSE 0
  <2>1. sold.homes = f
    BY <1>9, <1>13 DEF Economy
  <2> QED
    BY <1>14, <2>1, LevelIs
<1>16. PICK level : level = [u.level EXCEPT ![a] = lv]
  OBVIOUS
<1>17. level \in [Accounts -> {0, 1}] /\ level[a] = lv /\ \A b \in Accounts \ {a} : level[b] = u.level[b]
  BY <1>9, <1>15, <1>16, EconomyIs
<1>18. PICK next : next = u.nextHome
  OBVIOUS
<1>19. PICK g : g = u.granted
  OBVIOUS
<1>20. PICK t : t = HomesPut(u, f, next, level, g)
  OBVIOUS
<1>21. db' = t
  <2>1. db' = [sold EXCEPT !.level[a] = Level(sold, a)]
    BY <1>1, <1>3, <1>6, <1>7, <1>10, <1>13 DEF SellHome, Call
  <2>2. db' = [sold EXCEPT !.level = [sold.level EXCEPT ![a] = lv]]
    BY <1>14, <2>1
  <2> HIDE DEF SellHome
  <2> QED
    BY <1>9, <1>13, <1>16, <1>18, <1>19, <1>20, <2>2 DEF HomesPut, Economy
<1>22. Offered(f, u.auctions)
  <2>1. PICK au : au = u.auctions
    OBVIOUS
  <2>2. Offered(old, au)
    BY <1>9, <1>11, <2>1 DEF Good
  <2>3. \A id \in DOMAIN au : au[id].home # h
    BY <1>4, <1>11, <2>2 DEF Offered
  <2>4. \A id \in DOMAIN au : au[id].home \in DOMAIN old => (id \in DOMAIN au <=> au[id].home \in DOMAIN f)
    BY <1>12, <2>3
  <2> QED
    BY <1>12, <2>1, <2>2, <2>4, OfferedLess
<1>23. \A b \in Accounts \ {a} : Owns(f, b) <=> Owns(old, b)
  BY <1>4, <1>11, <1>12 DEF Owns
<1>24. Levelled(f, level, u.granted)
  BY <1>9, <1>11, <1>15, <1>17, <1>23 DEF Good, Levelled
<1>25. \A b \in Accounts \ {a} : level[b] # 0 \/ Owns(f, b) => Has(u, b)
  BY <1>11, <1>17, <1>23 DEF Has
<1>26. \A j \in DOMAIN f : j < u.nextHome /\ f[j].rented <= now
  BY <1>9, <1>11, <1>12, NumbersGiven DEF Good
<1>27. Does(u, t, a, now)
  BY <1>9, <1>12, <1>17, <1>18, <1>19, <1>20, <1>22, <1>24, <1>25, <1>26, HomesChange
<1> QED
  BY <1>2, <1>8, <1>21, <1>27, DoesThen

\* Relics that are gone, none of them held by an auction.
LEMMA HoldingKept ==
  ASSUME NEW q \in Seq(Relic), NEW auctions, NEW next, Holding(q, auctions, next),
         NEW gone \in SUBSET DOMAIN q,
         \A id \in DOMAIN auctions : \A k \in gone : q[k].auction # id,
         NEW r, r = Kept(q, gone)
  PROVE  r \in Seq(Relic) /\ Holding(r, auctions, next)
<1>1. r \in Seq(Relic) /\ \A k \in DOMAIN r : \E j \in DOMAIN q : r[k] = q[j]
  BY HavingKept
<1>2. ASSUME NEW id \in DOMAIN auctions
      PROVE  Cardinality(Having(r, Held(id))) = auctions[id].relics
  <2>1. PICK R : R = Held(id)
    OBVIOUS
  <2>2. Having(q, R) \cap gone = {}
    BY <2>1 DEF Having, Held
  <2>3. Cardinality(Having(q, R) \cap gone) = 0
    BY <2>2, FS_EmptySet
  <2>4. Cardinality(Having(r, R)) = Cardinality(Having(q, R)) - Cardinality(Having(q, R) \cap gone)
    BY HavingKept
  <2>5. Cardinality(Having(q, R)) = auctions[id].relics
    BY <2>1 DEF Holding
  <2>6. Cardinality(Having(q, R)) \in Nat
    BY HavingFinite
  <2> QED
    BY <2>1, <2>3, <2>4, <2>5, <2>6
<1>3. \A k \in DOMAIN r : r[k].auction < next
  BY <1>1 DEF Holding
<1>4. ASSUME NEW id \in DOMAIN auctions, NEW k \in Having(r, Held(id))
      PROVE  r[k].owner = auctions[id].seller
  <2>1. PICK j \in DOMAIN q : r[k] = q[j]
    BY <1>1, <1>4 DEF Having
  <2>2. j \in Having(q, Held(id))
    BY <1>4, <2>1 DEF Having
  <2> QED
    BY <2>1, <2>2 DEF Holding
<1> QED
  BY <1>1, <1>2, <1>3, <1>4 DEF Holding

\* Relics bought from the market.
LEMMA BuyRelicsDoes ==
  ASSUME now \in Nat, Good(db, now), NEW a \in Accounts, NEW m \in Quantities, NEW price \in RelicPrices,
         BuyRelics(a, m, price)
  PROVE  Does(db, db', a, now)
<1>1. PICK s : s = Recorded(db, a)
  OBVIOUS
<1>2. Does(db, s, a, now) /\ s \in Economy /\ db \in Economy /\ Good(s, now)
  BY <1>1, RecordedDoes DEF Does, Good
<1>3. m \in Nat
  BY Numbers
<1>4. PICK p \in Int : p = price * m /\ p <= s.wallet[a]
  <2>1. Covers(s, a, price * m)
    BY <1>1 DEF BuyRelics
  <2>2. s.wallet[a] \in Nat
    BY <1>2, EconomyIs
  <2>3. price \in Nat
    BY Numbers
  <2>4. price * m \in Int
    BY <1>3, <2>3
  <2> QED
    BY <2>1, <2>2, <2>4 DEF Covers
<1>5. PICK u : u = Spend(s, a, p)
  OBVIOUS
<1>6. Does(s, u, a, now) /\ SameRelics(s, u) /\ u \in Economy /\ Good(u, now)
  BY <1>2, <1>4, <1>5, SpendIs DEF Does, Good
<1>7. PICK old \in [Accounts -> Nat] : old = u.count
  BY <1>6, EconomyIs
<1>8. PICK q : q = Grown(u.relics, a, m)
  OBVIOUS
<1>9. PICK c : c = Put(old, a, old[a] + m)
  OBVIOUS
<1>10. c \in [Accounts -> Nat] /\ c[a] = old[a] + m /\ \A b \in Accounts \ {a} : c[b] = old[b]
  BY <1>3, <1>7, <1>9 DEF Put
<1>11. /\ q \in Seq(Relic) /\ Holding(q, u.auctions, u.nextAuction)
       /\ Cardinality(Having(q, Loose(a))) = Cardinality(Having(u.relics, Loose(a))) + m
       /\ \A b \in Accounts \ {a} : Cardinality(Having(q, Loose(b))) = Cardinality(Having(u.relics, Loose(b)))
  BY <1>3, <1>6, <1>8, HoldingAppended
<1>12. Counted(q, c)
  <2>1. \A b \in Accounts : Cardinality(Having(u.relics, Loose(b))) \in Nat
    BY <1>6, EconomyIs, HavingFinite
  <2>2. Counted(u.relics, old)
    BY <1>6, <1>7 DEF Good
  <2>3. \A b \in Accounts :
          c[b] - Cardinality(Having(q, Loose(b))) = old[b] - Cardinality(Having(u.relics, Loose(b)))
    BY <1>3, <1>7, <1>10, <1>11, <2>1, SMTT(30)
  <2> QED
    BY <2>2, <2>3 DEF Counted
<1>13. PICK t : t = RelicsPut(u, q, c)
  OBVIOUS
<1>14. db' = t
  <2>1. db' = [u EXCEPT !.count[a] = @ + m, !.relics = @ \o NewRelics(a, m)]
    BY <1>1, <1>4, <1>5 DEF BuyRelics, Call
  <2>2. q = u.relics \o NewRelics(a, m)
    BY <1>8 DEF Grown
  <2>3. c = [u.count EXCEPT ![a] = u.count[a] + m]
    BY <1>7, <1>9 DEF Put
  <2> QED
    BY <1>6, <1>13, <2>1, <2>2, <2>3 DEF RelicsPut, Economy
<1>15. Does(u, t, a, now)
  <2>1. \A b \in Accounts : Player(b) # Player(a) => c[b] = u.count[b]
    BY <1>7, <1>10
  <2> QED
    BY <1>6, <1>10, <1>11, <1>12, <1>13, <2>1, RelicsChange
<1> QED
  BY <1>2, <1>6, <1>14, <1>15, DoesThen

\* Of what an account may trade, the first that are asked for.
LEMMA FirstFree ==
  ASSUME NEW s, NEW n, Good(s, n), NEW a \in Accounts, NEW m \in Nat,
         s.count[a] = Cardinality(Having(s.relics, Loose(a))), s.count[a] >= m,
         NEW K, K = FirstUnlisted(s, a, m)
  PROVE  /\ \A k \in K : k \in DOMAIN s.relics /\ s.relics[k] = Free(a) /\ k \in Having(s.relics, Loose(a))
         /\ IsFiniteSet(K) /\ Cardinality(K) = m
<1>1. s \in Economy
  BY DEF Good
<1>2. Unlisted(s, a) = Having(s.relics, Loose(a))
  BY DEF Unlisted, Having, Loose
<1>3. m <= Cardinality(Unlisted(s, a))
  <2>1. s.count[a] \in Nat
    BY <1>1, EconomyIs
  <2> QED
    BY <1>2, <2>1
<1>4. /\ FirstUnlisted(s, a, m) \subseteq Unlisted(s, a)
      /\ IsFiniteSet(FirstUnlisted(s, a, m)) /\ Cardinality(FirstUnlisted(s, a, m)) = m
  BY <1>1, <1>3, FirstAre
<1>5. \A k \in K : k \in Unlisted(s, a)
  BY <1>4
<1> QED
  BY <1>2, <1>4, <1>5 DEF Unlisted

\* Relics sold to the market.
LEMMA SellRelicsDoes ==
  ASSUME now \in Nat, Good(db, now), NEW a \in Accounts, NEW m \in Quantities, NEW price \in RelicPrices,
         SellRelics(a, m, price)
  PROVE  Does(db, db', a, now)
<1>1. PICK s : s = Recorded(db, a)
  OBVIOUS
<1>2. /\ Does(db, s, a, now) /\ s \in Economy /\ db \in Economy /\ Good(s, now)
      /\ s.count[a] = Cardinality(Having(s.relics, Loose(a)))
  BY <1>1, RecordedDoes DEF Does, Good
<1>3. m \in Nat
  BY Numbers
<1>4. PICK p \in Int : p = -price * m /\ p <= s.wallet[a]
  <2>1. s.wallet[a] \in Nat
    BY <1>2, EconomyIs
  <2>2. price \in Nat
    BY Numbers
  <2>3. -price * m \in Int /\ -price * m <= 0
    BY <1>3, <2>2
  <2> QED
    BY <2>1, <2>3
<1>5. PICK u : u = Spend(s, a, p)
  OBVIOUS
<1>6. Does(s, u, a, now) /\ SameRelics(s, u) /\ u \in Economy /\ Good(u, now)
  BY <1>2, <1>4, <1>5, SpendIs DEF Does, Good
<1>7. PICK old \in [Accounts -> Nat] : old = u.count /\ old = s.count
  BY <1>6, EconomyIs DEF SameRelics
<1>8. PICK rel \in Seq(Relic) : rel = u.relics /\ rel = s.relics
  BY <1>6, EconomyIs DEF SameRelics
<1>9. old[a] >= m
  BY <1>1, <1>7 DEF SellRelics
<1>10. PICK K : K = FirstUnlisted(s, a, m)
  OBVIOUS
<1>11. /\ \A k \in K : k \in DOMAIN rel /\ rel[k] = Free(a) /\ k \in Having(rel, Loose(a))
       /\ IsFiniteSet(K) /\ Cardinality(K) = m
  BY <1>2, <1>3, <1>7, <1>8, <1>9, <1>10, FirstFree
<1>12. K \in SUBSET DOMAIN rel
  BY <1>11
<1>13. PICK q : q = Kept(rel, K)
  OBVIOUS
<1>14. PICK c : c = Put(old, a, old[a] - m)
  OBVIOUS
<1>15. c \in [Accounts -> Nat] /\ c[a] = old[a] - m /\ \A b \in Accounts \ {a} : c[b] = old[b]
  BY <1>3, <1>7, <1>9, <1>14 DEF Put
<1>16. q \in Seq(Relic) /\ Holding(q, u.auctions, u.nextAuction)
  <2>1. \A id \in DOMAIN u.auctions : \A k \in K : rel[k].auction # id
    BY <1>6, <1>11, NumbersGiven DEF Free
  <2>2. Holding(rel, u.auctions, u.nextAuction)
    BY <1>6, <1>8 DEF Good
  <2> QED
    BY <1>12, <1>13, <2>1, <2>2, HoldingKept
<1>17. ASSUME NEW b \in Accounts
       PROVE  Cardinality(Having(q, Loose(b))) = Cardinality(Having(rel, Loose(b))) - (IF b = a THEN m ELSE 0)
  <2>1. PICK R : R = Loose(b)
    OBVIOUS
  <2>2. Cardinality(Having(q, R)) = Cardinality(Having(rel, R)) - Cardinality(Having(rel, R) \cap K)
    BY <1>12, <1>13, HavingKept
  <2>3. Having(rel, R) \cap K = IF b = a THEN K ELSE {}
    BY <1>11, <2>1 DEF Having, Loose, Free
  <2>4. Cardinality(Having(rel, R) \cap K) = IF b = a THEN m ELSE 0
    BY <1>11, <2>3, FS_EmptySet
  <2> QED
    BY <2>1, <2>2, <2>4
<1>18. Counted(q, c)
  <2>1. \A b \in Accounts : Cardinality(Having(rel, Loose(b))) \in Nat
    BY HavingFinite
  <2>2. Counted(rel, old)
    BY <1>6, <1>7, <1>8 DEF Good
  <2> QED
    BY <1>3, <1>7, <1>15, <1>17, <2>1, <2>2 DEF Counted
<1>19. PICK t : t = RelicsPut(u, q, c)
  OBVIOUS
<1>20. db' = t
  <2>1. db' = [u EXCEPT !.count[a] = @ - m, !.relics = Kept(@, K)]
    BY <1>1, <1>4, <1>5, <1>10 DEF SellRelics, Call
  <2>2. q = Kept(u.relics, K)
    BY <1>8, <1>13
  <2>3. c = [u.count EXCEPT ![a] = u.count[a] - m]
    BY <1>7, <1>14 DEF Put
  <2> QED
    BY <1>6, <1>19, <2>1, <2>2, <2>3 DEF RelicsPut, Economy
<1>21. Does(u, t, a, now)
  <2>1. \A b \in Accounts : Player(b) # Player(a) => c[b] = u.count[b]
    BY <1>7, <1>15
  <2> QED
    BY <1>6, <1>15, <1>16, <1>18, <1>19, <2>1, RelicsChange
<1> QED
  BY <1>2, <1>6, <1>20, <1>21, DoesThen

\* Relics that one account may trade, or that one auction holds, become those
\* that another may trade.
LEMMA RelicsFreed ==
  ASSUME NEW q \in Seq(Relic), NEW r \in [DOMAIN q -> Relic], NEW a \in Accounts, NEW K \in SUBSET DOMAIN q,
         \A k \in K : r[k] = Free(a) /\ q[k] # Free(a), \A k \in DOMAIN q : k \notin K => r[k] = q[k]
  PROVE  /\ r \in Seq(Relic)
         /\ Cardinality(Having(r, Loose(a))) = Cardinality(Having(q, Loose(a))) + Cardinality(K)
<1>1. r \in Seq(Relic)
  <2>1. DOMAIN q = 1..Len(q) /\ Len(q) \in Nat
    BY HavingFinite
  <2> QED
    BY <2>1
<1>2. \A k \in K : r[k] \in Loose(a) /\ q[k] \notin Loose(a)
  BY DEF Loose
<1>3. \A k \in DOMAIN q \ K : r[k] = q[k]
  OBVIOUS
<1> QED
  BY <1>1, <1>2, <1>3, HavingMore

\* An auction that stays as it is, holding the relics that it held.
StillHolds(q, auctions, r, g, id) ==
  /\ id \in DOMAIN auctions /\ g[id].relics = auctions[id].relics /\ g[id].seller = auctions[id].seller
  /\ \A k \in DOMAIN q : r[k].auction = id <=> q[k].auction = id
  /\ \A k \in DOMAIN q : r[k].auction = id => r[k].owner = q[k].owner

\* Relics that no auction holds, or not any more, go to another owner.
LEMMA HoldingSame ==
  ASSUME NEW q \in Seq(Relic), NEW r \in Seq(Relic), DOMAIN r = DOMAIN q,
         NEW auctions, NEW next, Holding(q, auctions, next), NEW g,
         \A k \in DOMAIN q : r[k].auction < next,
         \A id \in DOMAIN g : StillHolds(q, auctions, r, g, id)
  PROVE  Holding(r, g, next)
<1>1. ASSUME NEW id \in DOMAIN g
      PROVE  /\ Cardinality(Having(r, Held(id))) = g[id].relics
             /\ \A k \in Having(r, Held(id)) : r[k].owner = g[id].seller
  <2>1. StillHolds(q, auctions, r, g, id)
    OBVIOUS
  <2>2. \A k \in DOMAIN q : q[k] \in Relic /\ r[k] \in Relic
    BY HavingFinite
  <2>3. \A k \in DOMAIN q : r[k] \in Held(id) <=> q[k] \in Held(id)
    BY <2>1, <2>2 DEF StillHolds, Held, Relic
  <2>4. Having(r, Held(id)) = Having(q, Held(id))
    BY <2>3, HavingSame
  <2> QED
    BY <2>1, <2>4 DEF StillHolds, Holding, Having, Held
<1> QED
  BY <1>1 DEF Holding

\* A relic that follows its owner.
LEMMA MoveRelicDoes ==
  ASSUME now \in Nat, Good(db, now), NEW a \in Accounts, NEW k, MoveRelic(a, k)
  PROVE  Does(db, db', a, now)
<1>1. PICK s : s = Recorded(db, a)
  OBVIOUS
<1>2. Does(db, s, a, now) /\ s \in Economy /\ db \in Economy /\ Good(s, now)
  BY <1>1, RecordedDoes DEF Does, Good
<1>3. PICK q \in Seq(Relic) : q = s.relics
  BY <1>2, EconomyIs
<1>4. PICK old \in [Accounts -> Nat] : old = s.count
  BY <1>2, EconomyIs
<1>5. PICK o : o = q[k].owner
  OBVIOUS
<1>6. k \in DOMAIN q /\ q[k].auction = 0 /\ Player(o) = Player(a) /\ o # a
  BY <1>1, <1>3, <1>5 DEF MoveRelic
<1>7. o \in Accounts /\ q[k] = Free(o)
  BY <1>5, <1>6, HavingFinite DEF Relic, Free
<1>8. PICK r : r = Put(q, k, Free(a))
  OBVIOUS
<1>9. r \in [DOMAIN q -> Relic] /\ r[k] = Free(a) /\ \A j \in DOMAIN q : j # k => r[j] = q[j]
  <2>1. Free(a) \in Relic
    BY DEF Free, Relic
  <2> QED
    BY <1>6, <1>8, <2>1, HavingFinite DEF Put
<1>10. PICK K : K = {k}
  OBVIOUS
<1>11. Free(o) # Free(a)
  BY <1>6 DEF Free
<1>12. /\ K \in SUBSET DOMAIN q /\ Cardinality(K) = 1
       /\ \A j \in K : r[j] = Free(a) /\ q[j] # Free(a)
       /\ \A j \in DOMAIN q : j \notin K => r[j] = q[j]
  BY <1>6, <1>7, <1>9, <1>10, <1>11, FS_Singleton
<1>13. r \in Seq(Relic) /\ Cardinality(Having(r, Loose(a))) = Cardinality(Having(q, Loose(a))) + 1
  BY <1>9, <1>12, RelicsFreed
<1>14. Cardinality(Having(r, Loose(o))) = Cardinality(Having(q, Loose(o))) - 1
  <2>1. PICK R : R = Loose(o)
    OBVIOUS
  <2>2. K \in SUBSET Having(q, R)
    BY <1>6, <1>7, <1>10, <2>1 DEF Having, Loose
  <2>3. (\A j \in K : r[j] \notin R) /\ \A j \in DOMAIN q \ K : r[j] = q[j]
    BY <1>11, <1>12, <2>1 DEF Loose
  <2>4. DOMAIN r = DOMAIN q
    BY <1>9
  <2>5. Cardinality(Having(r, R)) = Cardinality(Having(q, R)) - Cardinality(K)
    BY <1>13, <2>2, <2>3, <2>4, HavingLess
  <2> QED
    BY <1>12, <2>1, <2>5
<1>15. ASSUME NEW b \in Accounts, b # a, b # o
       PROVE  Having(r, Loose(b)) = Having(q, Loose(b))
  <2>1. r[k] \notin Loose(b) /\ q[k] \notin Loose(b)
    BY <1>7, <1>9, <1>15 DEF Loose, Free
  <2>2. DOMAIN r = DOMAIN q /\ \A j \in DOMAIN q : r[j] \in Loose(b) <=> q[j] \in Loose(b)
    BY <1>9, <2>1
  <2> QED
    BY <2>2, HavingSame
<1>16. \A b \in Accounts : Cardinality(Having(q, Loose(b))) \in Nat /\ Cardinality(Having(r, Loose(b))) \in Nat
  BY <1>13, HavingFinite
<1>17. Counted(q, old)
  BY <1>2, <1>3, <1>4 DEF Good
<1>18. old[o] >= 1
  <2>1. old[o] - Cardinality(Having(q, Loose(o))) >= 0
    <3>1. LegacyRelics[o] \in Nat
      BY <1>7, Numbers
    <3> QED
      BY <1>7, <1>17, <3>1 DEF Counted
  <2>2. Cardinality(Having(q, Loose(o))) >= 1
    BY <1>7, <1>14, <1>16
  <2> QED
    BY <1>7, <1>16, <2>1, <2>2
<1>19. PICK c : c = [old EXCEPT ![o] = Larger(0, @ - 1), ![a] = @ + 1]
  OBVIOUS
<1>20. /\ c \in [Accounts -> Nat] /\ c[a] = old[a] + 1 /\ c[o] = old[o] - 1
       /\ \A b \in Accounts : b # a /\ b # o => c[b] = old[b]
  BY <1>6, <1>7, <1>18, <1>19 DEF Larger
<1>21. Counted(r, c)
  <2>1. \A b \in Accounts : c[b] - Cardinality(Having(r, Loose(b))) = old[b] - Cardinality(Having(q, Loose(b)))
    <3> SUFFICES ASSUME NEW b \in Accounts
                 PROVE  c[b] - Cardinality(Having(r, Loose(b))) = old[b] - Cardinality(Having(q, Loose(b)))
      OBVIOUS
    <3>1. old[b] \in Nat /\ Cardinality(Having(q, Loose(b))) \in Nat
      BY <1>16
    <3>2. CASE b = a
      BY <1>13, <1>20, <3>1, <3>2
    <3>3. CASE b = o
      BY <1>14, <1>20, <3>1, <3>3
    <3>4. CASE b # a /\ b # o
      BY <1>15, <1>20, <3>4
    <3> QED
      BY <3>2, <3>3, <3>4
  <2> QED
    BY <1>17, <2>1 DEF Counted
<1>22. Holding(r, s.auctions, s.nextAuction)
  <2>1. PICK au : au = s.auctions
    OBVIOUS
  <2>2. PICK next : next = s.nextAuction
    OBVIOUS
  <2>3. Holding(q, au, next) /\ next \in Nat \ {0} /\ \A id \in DOMAIN au : id # 0
    BY <1>2, <1>3, <2>1, <2>2, NumbersGiven DEF Good
  <2>4. r[k].auction = 0
    BY <1>9 DEF Free
  <2>5. \A j \in DOMAIN q : r[j].auction < next
    BY <1>9, <2>3, <2>4 DEF Holding
  <2>6. \A id \in DOMAIN au : StillHolds(q, au, r, au, id)
    BY <1>6, <1>9, <2>3, <2>4 DEF StillHolds
  <2>7. DOMAIN r = DOMAIN q
    BY <1>9
  <2> QED
    BY <1>13, <2>1, <2>2, <2>3, <2>5, <2>6, <2>7, HoldingSame
<1>23. PICK t : t = RelicsPut(s, r, c)
  OBVIOUS
<1>24. db' = t
  <2>1. db' = [s EXCEPT !.count = c, !.relics[k].owner = a]
    <3>1. db' = [s EXCEPT !.count[s.relics[k].owner] = Larger(0, @ - 1), !.count[a] = @ + 1,
                          !.relics[k].owner = a]
      BY <1>1 DEF MoveRelic, Call
    <3>2. db' = [s EXCEPT !.count[o] = Larger(0, @ - 1), !.count[a] = @ + 1, !.relics[k].owner = a]
      BY <1>3, <1>5, <3>1
    <3> QED
      BY <1>2, <1>4, <1>19, <3>2 DEF Economy
  <2>2. [q[k] EXCEPT !.owner = a] = Free(a)
    BY <1>7 DEF Free
  <2>3. db' = [s EXCEPT !.count = c, !.relics = [q EXCEPT ![k] = Free(a)]]
    BY <1>2, <1>3, <2>1, <2>2 DEF Economy
  <2> QED
    BY <1>2, <1>8, <1>23, <2>3 DEF RelicsPut, Put, Economy
<1>25. Does(s, t, a, now)
  <2>1. \A b \in Accounts : Player(b) # Player(a) => c[b] = s.count[b]
    BY <1>4, <1>6, <1>20
  <2> QED
    BY <1>2, <1>13, <1>20, <1>21, <1>22, <1>23, <2>1, RelicsChange
<1> QED
  BY <1>2, <1>24, <1>25, DoesThen

-----------------------------------------------------------------------------
(* The auction house *)

\* A listing that nobody has bid on.
LEMMA NewListingIs ==
  ASSUME now \in Nat, NEW a \in Accounts, NEW m \in Nat, NEW h \in Nat, NEW reserve \in Reserves,
         NEW buyout \in Buyouts, NEW days \in Durations,
         NEW l, l = NewListing(a, m, h, reserve, buyout, days)
  PROVE  l \in Offer /\ l.bid = 0 /\ l.seller = a /\ l.home = h /\ l.relics = m
<1>1. reserve \in Nat /\ buyout \in Nat /\ days \in Nat /\ Nobody \notin Accounts
  BY Numbers
<1>2. now + days \in Nat
  BY <1>1
<1> QED
  BY <1>1, <1>2 DEF NewListing, Offer, Listing

\* A listing gets the next number.
LEMMA ListingAdded ==
  ASSUME NEW s \in Economy, NEW l \in Offer, l.bid = 0, NEW id, id = s.nextAuction,
         NEW f, f = With(s.auctions, id, l), NEW next, next = s.nextAuction + 1
  PROVE  /\ f \in Tables(Offer) /\ next \in Nat \ {0} /\ id < next
         /\ InEscrow(f) = InEscrow(s.auctions) /\ Added(s.auctions, f, id, l)
         /\ \A i \in DOMAIN f : i < next
<1>1. /\ id \in Nat \ {0} /\ next = id + 1 /\ id \notin DOMAIN s.auctions
      /\ \A i \in DOMAIN s.auctions : i \in Nat /\ i < id
  BY NumbersGiven
<1>2. PICK au \in Tables(Offer) : au = s.auctions
  BY EconomyIs
<1>3. /\ f \in Tables(Offer) /\ f[id] = l
      /\ \A i : i \in DOMAIN f <=> i \in DOMAIN au \/ i = id
      /\ \A i \in DOMAIN au : i # id => f[i] = au[i]
  BY <1>1, <1>2, TableWith
<1>4. InEscrow(f) = InEscrow(s.auctions)
  BY <1>1, EscrowAdded
<1>5. Added(s.auctions, f, id, l)
  BY <1>1, <1>2, <1>3 DEF Added
<1> QED
  BY <1>1, <1>2, <1>3, <1>4, <1>5

\* The relics in K, which a may trade, go into auction id.
Enters(q, r, K, a, id) ==
  /\ DOMAIN r = DOMAIN q
  /\ \A k \in K : k \in DOMAIN q /\ q[k] = Free(a) /\ r[k].owner = a /\ r[k].auction = id
  /\ \A k \in DOMAIN q : k \notin K => r[k] = q[k]

\* Relics that a may trade go into the auction with the next number.
LEMMA HoldingListed ==
  ASSUME NEW q \in Seq(Relic), NEW auctions, NEW id \in Nat \ {0}, Holding(q, auctions, id),
         0 \notin DOMAIN auctions, NEW l, NEW f, Added(auctions, f, id, l),
         NEW r \in Seq(Relic), NEW K, Cardinality(K) = l.relics, Enters(q, r, K, l.seller, id)
  PROVE  Holding(r, f, id + 1)
<1> DEFINE a == l.seller
<1> USE DEF Added, Enters
<1>1. \A k \in DOMAIN q : q[k].auction < id /\ q[k] \in Relic /\ q[k].auction \in Nat
  BY HavingFinite DEF Holding, Relic
<1>2. \A k \in DOMAIN q : r[k].auction < id + 1
  BY <1>1
<1>3. \A i \in DOMAIN auctions : StillHolds(q, auctions, r, f, i)
  <2>1. \A k \in K : q[k].auction = 0
    BY DEF Free
  <2> QED
    BY <2>1 DEF StillHolds
<1>4. ASSUME NEW i \in DOMAIN auctions
      PROVE  /\ Cardinality(Having(r, Held(i))) = f[i].relics
             /\ \A k \in Having(r, Held(i)) : r[k].owner = f[i].seller
  <2>1. PICK g : g = [j \in DOMAIN auctions |-> f[j]]
    OBVIOUS
  <2>2. \A j \in DOMAIN g : StillHolds(q, auctions, r, g, j)
    BY <1>3, <2>1 DEF StillHolds
  <2>3. PICK next : next = id + 1
    OBVIOUS
  <2>4. Holding(q, auctions, next) /\ \A k \in DOMAIN q : r[k].auction < next
    BY <1>1, <1>2, <2>3 DEF Holding
  <2>5. Holding(r, g, next)
    BY <2>2, <2>4, HoldingSame
  <2> QED
    BY <2>1, <2>5 DEF Holding
<1>5. Cardinality(Having(r, Held(id))) = l.relics
  <2>1. PICK R : R = Held(id)
    OBVIOUS
  <2>2. \A k \in DOMAIN q : q[k] \notin R
    BY <1>1, <2>1 DEF Held
  <2>3. \A k \in K : r[k] \in R /\ q[k] \notin R
    <3>1. \A k \in K : r[k] \in Relic
      BY HavingFinite
    <3> QED
      BY <2>1, <2>2, <3>1 DEF Held, Relic
  <2>4. \A k \in DOMAIN q \ K : r[k] = q[k]
    OBVIOUS
  <2>5. Cardinality(Having(r, R)) = Cardinality(Having(q, R)) + Cardinality(K)
    BY <2>3, <2>4, HavingMore
  <2>6. Having(q, R) = {}
    BY <2>2 DEF Having
  <2>7. Cardinality(Having(q, R)) = 0
    BY <2>6, FS_EmptySet
  <2>8. Cardinality(Having(r, R)) \in Nat
    BY HavingFinite
  <2>9. IsFiniteSet(DOMAIN q)
    BY HavingFinite, FS_Interval
  <2>10. Cardinality(K) \in Nat
    BY <2>9, FS_Subset, FS_CardinalityType
  <2> QED
    BY <2>1, <2>5, <2>7, <2>10
<1>6. \A k \in Having(r, Held(id)) : r[k].owner = l.seller
  BY <1>1 DEF Having, Held
<1> QED
  BY <1>2, <1>4, <1>5, <1>6 DEF Holding

\* Relics put up for auction.
LEMMA ListRelicsDoes ==
  ASSUME now \in Nat, Good(db, now), NEW a \in Accounts, NEW m \in Quantities, NEW reserve \in Reserves,
         NEW buyout \in Buyouts, NEW days \in Durations, ListRelics(a, m, reserve, buyout, days)
  PROVE  Does(db, db', a, now)
<1>1. PICK s : s = Recorded(db, a)
  OBVIOUS
<1>2. /\ Does(db, s, a, now) /\ s \in Economy /\ db \in Economy /\ Good(s, now)
      /\ s.count[a] = Cardinality(Having(s.relics, Loose(a)))
  BY <1>1, RecordedDoes DEF Does, Good
<1>3. m \in Nat
  BY Numbers
<1>4. PICK q \in Seq(Relic) : q = s.relics
  BY <1>2, EconomyIs
<1>5. PICK old \in [Accounts -> Nat] : old = s.count
  BY <1>2, EconomyIs
<1>6. PICK id : id = s.nextAuction
  OBVIOUS
<1>7. id \in Nat \ {0}
  BY <1>2, <1>6, NumbersGiven
<1>8. old[a] >= m
  BY <1>1, <1>5 DEF ListRelics
<1>9. PICK K : K = FirstUnlisted(s, a, m)
  OBVIOUS
<1>10. /\ \A k \in K : k \in DOMAIN q /\ q[k] = Free(a) /\ k \in Having(q, Loose(a))
       /\ IsFiniteSet(K) /\ Cardinality(K) = m
  BY <1>2, <1>3, <1>4, <1>5, <1>8, <1>9, FirstFree
<1>11. PICK r : r = [k \in DOMAIN q |-> IF k \in K THEN [q[k] EXCEPT !.auction = id] ELSE q[k]]
  OBVIOUS
<1>12. /\ r \in Seq(Relic) /\ DOMAIN r = DOMAIN q
       /\ \A k \in K : r[k].owner = a /\ r[k].auction = id
       /\ \A k \in DOMAIN q : k \notin K => r[k] = q[k]
  <2>1. \A k \in K : [q[k] EXCEPT !.auction = id] \in Relic /\ [q[k] EXCEPT !.auction = id].owner = a
                     /\ [q[k] EXCEPT !.auction = id].auction = id
    <3>1. PICK held : held = [Free(a) EXCEPT !.auction = id]
      OBVIOUS
    <3>2. held \in Relic /\ held.owner = a /\ held.auction = id
      BY <1>7, <3>1 DEF Relic, Free
    <3>3. \A k \in K : [q[k] EXCEPT !.auction = id] = held
      BY <1>10, <3>1
    <3> QED
      BY <3>2, <3>3
  <2>2. DOMAIN q = 1..Len(q) /\ Len(q) \in Nat /\ \A k \in DOMAIN q : q[k] \in Relic
    BY HavingFinite
  <2>3. r \in [1..Len(q) -> Relic]
    BY <1>11, <2>1, <2>2
  <2> QED
    BY <1>10, <1>11, <2>1, <2>2, <2>3
<1>13. PICK c : c = Put(old, a, old[a] - m)
  OBVIOUS
<1>14. c \in [Accounts -> Nat] /\ c[a] = old[a] - m /\ \A b \in Accounts \ {a} : c[b] = old[b]
  BY <1>3, <1>5, <1>8, <1>13 DEF Put
<1>15. PICK l : l = NewListing(a, m, 0, reserve, buyout, days)
  OBVIOUS
<1>16. l \in Offer /\ l.bid = 0 /\ l.seller = a /\ l.home = 0 /\ l.relics = m
  BY <1>3, <1>15, NewListingIs
<1>17. PICK next : next = s.nextAuction + 1
  OBVIOUS
<1>18. PICK f : f = With(s.auctions, id, l)
  OBVIOUS
<1>19. /\ f \in Tables(Offer) /\ next \in Nat \ {0} /\ id < next
       /\ InEscrow(f) = InEscrow(s.auctions) /\ Added(s.auctions, f, id, l)
       /\ \A i \in DOMAIN f : i < next
  BY <1>2, <1>6, <1>16, <1>17, <1>18, ListingAdded
<1>20. PICK u : u = RelicsPut(s, r, c)
  OBVIOUS
<1>21. PICK t : t = AuctionsPut(u, f, next)
  OBVIOUS
<1>22. /\ u.relics = r /\ u.count = c /\ SameCash(s, u) /\ SameHomes(s, u) /\ SameAuctions(s, u)
       /\ u \in Economy
  BY <1>2, <1>12, <1>14, <1>20, RelicsPutIs
<1>23. /\ t.auctions = f /\ t.nextAuction = next /\ SameCash(u, t) /\ SameRelics(u, t) /\ SameHomes(u, t)
       /\ t \in Economy
  BY <1>19, <1>21, <1>22, AuctionsPutIs
<1>24. db' = t
  <2>1. db' = WithListing([s EXCEPT !.count[a] = @ - m, !.relics = r], l)
    <3>1. db' = WithListing(
          [s EXCEPT !.count[a] = @ - m,
                    !.relics = [k \in DOMAIN @ |-> IF k \in K
                                 THEN [@[k] EXCEPT !.auction = s.nextAuction] ELSE @[k]]], l)
      BY <1>1, <1>9, <1>15 DEF ListRelics, Call
    <3>2. r = [k \in DOMAIN s.relics |-> IF k \in K
                                 THEN [s.relics[k] EXCEPT !.auction = s.nextAuction] ELSE s.relics[k]]
      BY <1>4, <1>6, <1>11
    <3> QED
      BY <1>2, <3>1, <3>2 DEF Economy
  <2>2. [s EXCEPT !.count[a] = @ - m, !.relics = r] = u
    BY <1>2, <1>5, <1>13, <1>20 DEF RelicsPut, Put, Economy
  <2>3. t = WithListing(u, l)
    BY <1>6, <1>17, <1>18, <1>21, <1>22 DEF WithListing, AuctionsPut, SameAuctions, Economy
  <2> QED
    BY <2>1, <2>2, <2>3
<1>25. Holding(r, f, next)
  <2>1. PICK au : au = s.auctions
    OBVIOUS
  <2>2. Holding(q, au, id) /\ 0 \notin DOMAIN au /\ Added(au, f, id, l)
    BY <1>2, <1>4, <1>6, <1>19, <2>1, NumbersGiven DEF Good
  <2>3. Cardinality(K) = l.relics /\ Enters(q, r, K, l.seller, id)
    BY <1>10, <1>12, <1>16 DEF Enters
  <2>4. Holding(r, f, id + 1)
    BY <1>7, <1>12, <2>2, <2>3, HoldingListed
  <2> QED
    BY <1>6, <1>17, <2>4
<1>26. Counted(r, c)
  <2>1. Cardinality(Having(r, Loose(a))) = Cardinality(Having(q, Loose(a))) - m
    <3>1. PICK R : R = Loose(a)
      OBVIOUS
    <3>2. K \in SUBSET Having(q, R)
      BY <1>10, <3>1
    <3>3. (\A j \in K : r[j] \notin R) /\ \A j \in DOMAIN q \ K : r[j] = q[j]
      BY <1>7, <1>12, <3>1 DEF Loose, Free
    <3>4. Cardinality(Having(r, R)) = Cardinality(Having(q, R)) - Cardinality(K)
      BY <1>12, <3>2, <3>3, HavingLess
    <3> QED
      BY <1>10, <3>1, <3>4
  <2>2. ASSUME NEW b \in Accounts, b # a
        PROVE  Having(r, Loose(b)) = Having(q, Loose(b))
    <3>1. \A k \in K : r[k] \notin Loose(b) /\ q[k] \notin Loose(b)
      BY <1>7, <1>10, <1>12, <2>2 DEF Loose, Free
    <3>2. \A k \in DOMAIN q : r[k] \in Loose(b) <=> q[k] \in Loose(b)
      BY <1>12, <3>1
    <3> QED
      BY <1>12, <3>2, HavingSame
  <2>3. \A b \in Accounts : c[b] - Cardinality(Having(r, Loose(b))) = old[b] - Cardinality(Having(q, Loose(b)))
    <3> SUFFICES ASSUME NEW b \in Accounts
                 PROVE  c[b] - Cardinality(Having(r, Loose(b))) = old[b] - Cardinality(Having(q, Loose(b)))
      OBVIOUS
    <3>1. old[b] \in Nat /\ Cardinality(Having(q, Loose(b))) \in Nat
      BY HavingFinite
    <3>2. CASE b = a
      BY <1>3, <1>14, <2>1, <3>1, <3>2
    <3>3. CASE b # a
      BY <1>14, <2>2, <3>3
    <3> QED
      BY <3>2, <3>3
  <2>4. Counted(q, old)
    BY <1>2, <1>4, <1>5 DEF Good
  <2> QED
    BY <2>3, <2>4 DEF Counted
<1>27. Offered(s.homes, f)
  <2>1. PICK homes : homes = s.homes
    OBVIOUS
  <2>2. PICK au : au = s.auctions
    OBVIOUS
  <2>3. Offered(homes, au) /\ 0 \notin DOMAIN homes /\ Added(au, f, id, l)
    BY <1>2, <1>19, <2>1, <2>2, NumbersGiven DEF Good
  <2>4. Marked(homes, homes, l)
    BY <1>16 DEF Marked
  <2> QED
    BY <2>1, <2>3, <2>4, OfferedListed
<1>28. Good(t, now)
  BY <1>2, <1>22, <1>23, <1>25, <1>26, <1>27 DEF Good, SameHomes, SameRelics
<1>29. Worth(t) = Worth(s)
  BY <1>19, <1>22, <1>23 DEF Worth, SameCash
<1>30. \A b \in Accounts \ {a} : t.wallet[b] >= s.wallet[b] /\ (Has(t, b) => Has(s, b))
  BY <1>2, <1>22, <1>23, EconomyIs DEF SameCash, SameHomes, Has
<1>31. \A b \in Accounts : Player(b) # Player(a) => t.count[b] = s.count[b]
  BY <1>5, <1>14, <1>22, <1>23 DEF SameRelics
<1>32. Does(s, t, a, now)
  BY <1>28, <1>29, <1>30, <1>31 DEF Does, Spares
<1> QED
  BY <1>2, <1>24, <1>32, DoesThen

\* A home put up for auction.
LEMMA ListHomeDoes ==
  ASSUME now \in Nat, Good(db, now), NEW a \in Accounts, NEW h, NEW reserve \in Reserves,
         NEW buyout \in Buyouts, NEW days \in Durations, ListHome(a, h, reserve, buyout, days)
  PROVE  Does(db, db', a, now)
<1>1. PICK s : s = Recorded(db, a)
  OBVIOUS
<1>2. Does(db, s, a, now) /\ s \in Economy /\ db \in Economy /\ Good(s, now)
  BY <1>1, RecordedDoes DEF Does, Good
<1>3. PICK old \in Tables(Home) : old = s.homes
  BY <1>2, EconomyIs
<1>4. h \in DOMAIN old /\ old[h].owner = a /\ ~old[h].listed
  BY <1>1, <1>3 DEF ListHome, HomesOf
<1>5. h \in Nat \ {0} /\ \A i \in DOMAIN old : i < s.nextHome /\ old[i] \in Home /\ i # 0 /\ old[i].rented <= now
  BY <1>2, <1>3, <1>4, NumbersGiven DEF Good
<1>6. PICK home : home = [old[h] EXCEPT !.listed = TRUE]
  OBVIOUS
<1>7. home \in Home /\ home.owner = a /\ home.listed /\ home.rented <= now
  BY <1>4, <1>5, <1>6 DEF Home
<1>8. PICK f : f = Put(old, h, home)
  OBVIOUS
<1>9. f \in Tables(Home) /\ DOMAIN f = DOMAIN old /\ f[h] = home /\ \A i \in DOMAIN old : i # h => f[i] = old[i]
  BY <1>4, <1>7, <1>8, TableExcept
<1>10. PICK l : l = NewListing(a, 0, h, reserve, buyout, days)
  OBVIOUS
<1>11. l \in Offer /\ l.bid = 0 /\ l.seller = a /\ l.home = h /\ l.relics = 0
  BY <1>5, <1>10, NewListingIs
<1>12. PICK id : id = s.nextAuction
  OBVIOUS
<1>13. PICK next : next = s.nextAuction + 1
  OBVIOUS
<1>14. PICK g : g = With(s.auctions, id, l)
  OBVIOUS
<1>15. /\ g \in Tables(Offer) /\ next \in Nat \ {0} /\ id < next
       /\ InEscrow(g) = InEscrow(s.auctions) /\ Added(s.auctions, g, id, l)
       /\ \A i \in DOMAIN g : i < next
  BY <1>2, <1>11, <1>12, <1>13, <1>14, ListingAdded
<1>16. PICK n : n = s.nextHome
  OBVIOUS
<1>17. PICK level : level = s.level
  OBVIOUS
<1>18. PICK granted : granted = s.granted
  OBVIOUS
<1>19. PICK u : u = HomesPut(s, f, n, level, granted)
  OBVIOUS
<1>20. /\ u.homes = f /\ u.nextHome = n /\ u.level = level /\ u.granted = granted
       /\ SameCash(s, u) /\ SameRelics(s, u) /\ SameAuctions(s, u) /\ u \in Economy
  <2>1. n \in Nat \ {0} /\ (\A i \in DOMAIN f : i < n) /\ level \in [Accounts -> {0, 1}]
        /\ granted \in [Accounts -> Nat]
    BY <1>2, <1>5, <1>9, <1>16, <1>17, <1>18, EconomyIs
  <2> QED
    BY <1>2, <1>9, <1>19, <2>1, HomesPutIs
<1>21. PICK t : t = AuctionsPut(u, g, next)
  OBVIOUS
<1>22. /\ t.auctions = g /\ t.nextAuction = next /\ SameCash(u, t) /\ SameRelics(u, t) /\ SameHomes(u, t)
       /\ t \in Economy
  BY <1>15, <1>20, <1>21, AuctionsPutIs
<1>23. db' = t
  <2>1. db' = WithListing([s EXCEPT !.homes[h].listed = TRUE], l)
    BY <1>1, <1>10 DEF ListHome, Call
  <2>2. [s EXCEPT !.homes[h].listed = TRUE] = u
    BY <1>2, <1>3, <1>6, <1>8, <1>16, <1>17, <1>18, <1>19 DEF HomesPut, Put, Economy
  <2>3. t = WithListing(u, l)
    BY <1>12, <1>13, <1>14, <1>20, <1>21 DEF WithListing, AuctionsPut, SameAuctions, Economy
  <2> QED
    BY <2>1, <2>2, <2>3
<1>24. Holding(s.relics, g, next)
  <2>1. PICK q \in Seq(Relic) : q = s.relics
    BY <1>2, EconomyIs
  <2>2. PICK au : au = s.auctions
    OBVIOUS
  <2>3. id \in Nat \ {0} /\ Holding(q, au, id) /\ 0 \notin DOMAIN au /\ Added(au, g, id, l)
    BY <1>2, <1>12, <1>15, <2>1, <2>2, NumbersGiven DEF Good
  <2>4. PICK K : K = {}
    OBVIOUS
  <2>5. Cardinality(K) = l.relics /\ Enters(q, q, K, l.seller, id)
    BY <1>11, <2>4, FS_EmptySet DEF Enters
  <2>6. Holding(q, g, id + 1)
    BY <2>3, <2>5, HoldingListed
  <2> QED
    BY <1>12, <1>13, <2>1, <2>6
<1>25. Offered(f, g)
  <2>1. PICK au : au = s.auctions
    OBVIOUS
  <2>2. Offered(old, au) /\ 0 \notin DOMAIN old /\ Added(au, g, id, l)
    BY <1>2, <1>3, <1>5, <1>15, <2>1 DEF Good
  <2>3. Marked(old, f, l)
    BY <1>4, <1>7, <1>9, <1>11 DEF Marked
  <2> QED
    BY <2>2, <2>3, OfferedListed
<1>26. \A b : Owns(f, b) <=> Owns(old, b)
  BY <1>4, <1>7, <1>9 DEF Owns
<1>27. Levelled(f, level, granted)
  BY <1>2, <1>3, <1>17, <1>18, <1>26 DEF Good, Levelled
<1>28. Good(t, now)
  <2>1. \A i \in DOMAIN f : f[i].rented <= now
    BY <1>5, <1>7, <1>9
  <2> QED
    BY <1>2, <1>20, <1>22, <1>24, <1>25, <1>27, <2>1 DEF Good, SameHomes, SameRelics
<1>29. Worth(t) = Worth(s)
  BY <1>15, <1>20, <1>22 DEF Worth, SameCash
<1>30. \A b \in Accounts \ {a} : t.wallet[b] >= s.wallet[b] /\ (Has(t, b) => Has(s, b))
  BY <1>2, <1>3, <1>17, <1>20, <1>22, <1>26, EconomyIs DEF SameCash, SameHomes, Has
<1>31. \A b \in Accounts : Player(b) # Player(a) => t.count[b] = s.count[b]
  BY <1>20, <1>22 DEF SameRelics
<1>32. Does(s, t, a, now)
  BY <1>28, <1>29, <1>30, <1>31 DEF Does, Spares
<1> QED
  BY <1>2, <1>23, <1>32, DoesThen

\* What the end of an auction leaves of an economy that has paid for it: the
\* home or the relics are with a, and the bid is in no auction any more.
Ends(s, t, id, a, n) ==
  /\ Good(t, n) /\ Worth(t) = Worth(s) - s.auctions[id].bid /\ t.wallet = s.wallet
  /\ t.auctions = Without(s.auctions, id)
  /\ \A b \in Accounts \ {a} : (Has(t, b) => Has(s, b)) /\ t.count[b] = s.count[b]

\* The listing leaves the book.
Closed(s, id) == [s EXCEPT !.auctions = Without(@, id)]

LEMMA ListingLeaves ==
  ASSUME NEW s \in Economy, NEW id \in DOMAIN s.auctions, NEW g, g = Without(s.auctions, id),
         NEW next, next = s.nextAuction
  PROVE  /\ g \in Tables(Offer) /\ next \in Nat \ {0} /\ \A i \in DOMAIN g : i < next
         /\ \A i : i \in DOMAIN g <=> i \in DOMAIN s.auctions /\ i # id
         /\ \A i \in DOMAIN g : g[i] = s.auctions[i]
         /\ InEscrow(g) = InEscrow(s.auctions) - s.auctions[id].bid
<1>1. PICK au \in Tables(Offer) : au = s.auctions
  BY EconomyIs
<1>2. /\ g \in Tables(Offer) /\ DOMAIN g \subseteq DOMAIN au
      /\ \A i : i \in DOMAIN g <=> i \in DOMAIN au /\ i # id
      /\ \A i \in DOMAIN g : g[i] = au[i]
  BY <1>1, TableWithout
<1>3. InEscrow(g) = InEscrow(s.auctions) - s.auctions[id].bid
  BY EscrowRemoved
<1>4. next \in Nat \ {0} /\ \A i \in DOMAIN au : i < next
  BY <1>1, NumbersGiven
<1> QED
  BY <1>1, <1>2, <1>3, <1>4

\* The auction of a home.
LEMMA HomeEnds ==
  ASSUME NEW s, NEW n, Good(s, n), NEW id \in DOMAIN s.auctions,
         NEW h, h = s.auctions[id].home, h # 0, NEW a \in Accounts,
         NEW home \in Home, ~home.listed, home.rented <= n, NEW f, f = Put(s.homes, h, home),
         NEW level \in [Accounts -> {0, 1}], Levelled(f, level, s.granted),
         \A b \in Accounts \ {a} : level[b] # 0 \/ Owns(f, b) => Has(s, b),
         NEW u, u = HomesPut(s, f, s.nextHome, level, s.granted),
         NEW t, t = Closed(u, id)
  PROVE  Ends(s, t, id, a, n)
<1>1. s \in Economy
  BY DEF Good
<1>2. PICK old \in Tables(Home) : old = s.homes
  BY <1>1, EconomyIs
<1>3. PICK au : au = s.auctions
  OBVIOUS
<1>4. Offered(old, au) /\ h \in DOMAIN old
  BY <1>2, <1>3 DEF Good, Offered
<1>5. f \in Tables(Home) /\ DOMAIN f = DOMAIN old /\ f[h] = home /\ \A i \in DOMAIN old : i # h => f[i] = old[i]
  BY <1>2, <1>4, TableExcept
<1>6. PICK next : next = s.nextHome
  OBVIOUS
<1>7. PICK granted : granted = s.granted
  OBVIOUS
<1>8. /\ u.homes = f /\ u.nextHome = next /\ u.level = level /\ u.granted = granted
      /\ SameCash(s, u) /\ SameRelics(s, u) /\ SameAuctions(s, u) /\ u \in Economy
  <2>1. next \in Nat \ {0} /\ (\A i \in DOMAIN f : i < next) /\ granted \in [Accounts -> Nat]
    BY <1>1, <1>2, <1>5, <1>6, <1>7, NumbersGiven, EconomyIs
  <2> QED
    BY <1>1, <1>5, <1>6, <1>7, <2>1, HomesPutIs
<1>9. PICK g : g = Without(s.auctions, id)
  OBVIOUS
<1>10. PICK m : m = s.nextAuction
  OBVIOUS
<1>11. /\ g \in Tables(Offer) /\ m \in Nat \ {0} /\ \A i \in DOMAIN g : i < m
       /\ \A i : i \in DOMAIN g <=> i \in DOMAIN au /\ i # id
       /\ \A i \in DOMAIN g : g[i] = au[i]
       /\ InEscrow(g) = InEscrow(s.auctions) - s.auctions[id].bid
  <2>1. g \in Tables(Offer) /\ InEscrow(g) = InEscrow(s.auctions) - s.auctions[id].bid
    BY <1>1, <1>9, <1>10, ListingLeaves
  <2>2. m \in Nat \ {0}
    BY <1>1, <1>10, NumbersGiven
  <2>3. \A i : i \in DOMAIN g <=> i \in DOMAIN s.auctions /\ i # id
    BY <1>1, <1>9, <1>10, ListingLeaves
  <2>4. \A i \in DOMAIN g : g[i] = s.auctions[i]
    BY <1>1, <1>9, <1>10, ListingLeaves
  <2>5. \A i \in DOMAIN g : i < m
    BY <1>1, <1>10, <2>3, NumbersGiven
  <2> QED
    BY <1>3, <2>1, <2>2, <2>3, <2>4, <2>5
<1>12. t = AuctionsPut(u, g, m)
  BY <1>8, <1>9, <1>10 DEF SameAuctions, Closed, AuctionsPut, Economy
<1>13. /\ t.auctions = g /\ t.nextAuction = m /\ SameCash(u, t) /\ SameRelics(u, t) /\ SameHomes(u, t)
       /\ t \in Economy
  BY <1>8, <1>11, <1>12, AuctionsPutIs
<1>14. /\ t.homes = f /\ t.level = level /\ t.granted = s.granted /\ t.relics = s.relics /\ t.count = s.count
       /\ t.wallet = s.wallet /\ t.checking = s.checking /\ t.outside = s.outside
  BY <1>7, <1>8, <1>13 DEF SameCash, SameRelics, SameHomes
<1>15. Offered(f, g)
  <2>1. id \in DOMAIN au /\ h = au[id].home /\ ~f[h].listed
    BY <1>3, <1>5
  <2> QED
    BY <1>4, <1>5, <1>11, <2>1, OfferedSold
<1>16. Holding(s.relics, g, m)
  <2>1. Holding(s.relics, au, m)
    BY <1>3, <1>10 DEF Good
  <2> QED
    BY <1>11, <2>1 DEF Holding
<1>17. \A i \in DOMAIN f : f[i].rented <= n
  BY <1>2, <1>5 DEF Good
<1>18. Good(t, n)
  <2>1. Offered(t.homes, t.auctions) /\ Holding(t.relics, t.auctions, t.nextAuction)
    BY <1>13, <1>15, <1>16, <1>14
  <2>2. Counted(t.relics, t.count) /\ Levelled(t.homes, t.level, t.granted)
    BY <1>14 DEF Good
  <2>3. \A i \in DOMAIN t.homes : t.homes[i].rented <= n
    BY <1>17, <1>14
  <2> QED
    BY <1>13, <2>1, <2>2, <2>3 DEF Good
<1>19. Worth(t) = Worth(s) - s.auctions[id].bid
  <2>1. /\ Total(s.wallet) \in Int /\ Total(s.checking) \in Int
        /\ InEscrow(s.auctions) \in Int /\ s.outside \in Int
    BY <1>1, WorthIs
  <2>2. s.auctions[id].bid \in Nat
    BY <1>1, NumbersGiven DEF Offer, Listing
  <2> QED
    <3>1. InEscrow(t.auctions) = InEscrow(s.auctions) - s.auctions[id].bid
      BY <1>11, <1>13
    <3>2. /\ Total(t.wallet) = Total(s.wallet) /\ Total(t.checking) = Total(s.checking)
          /\ t.outside = s.outside
      BY <1>14
    <3> QED
      BY <2>1, <2>2, <3>1, <3>2 DEF Worth
<1>20. \A b \in Accounts \ {a} : (Has(t, b) => Has(s, b)) /\ t.count[b] = s.count[b]
  BY <1>14 DEF Has
<1> QED
  BY <1>9, <1>13, <1>18, <1>19, <1>20, <1>14 DEF Ends

\* A home that is sold.
LEMMA HomeToEnds ==
  ASSUME NEW s, NEW n, Good(s, n), NEW id \in DOMAIN s.auctions,
         NEW h, h = s.auctions[id].home, h # 0, NEW a \in Accounts,
         NEW payoff \in Nat, payoff <= s.homes[h].mortgage, NEW u, u = HomeTo(s, h, a, payoff),
         NEW t, t = Closed(u, id)
  PROVE  Ends(s, t, id, a, n)
<1>1. s \in Economy
  BY DEF Good
<1>2. PICK old \in Tables(Home) : old = s.homes
  BY <1>1, EconomyIs
<1>3. PICK o : o = old[h].owner
  OBVIOUS
<1>4. h \in DOMAIN old /\ old[h] \in Home /\ o \in Accounts /\ old[h].rented <= n
  <2>1. h \in DOMAIN old
    BY <1>2 DEF Good, Offered
  <2>2. old[h] \in Home
    BY <1>1, <1>2, <2>1, NumbersGiven
  <2> QED
    BY <1>2, <1>3, <2>1, <2>2 DEF Good, Home
<1>5. PICK home : home = Passed(old[h], a, payoff)
  OBVIOUS
<1>6. home \in Home /\ home.owner = a /\ ~home.listed /\ home.rented <= n
  <2>1. old[h].mortgage - payoff \in Nat
    BY <1>2, <1>4 DEF Home
  <2> QED
    BY <1>4, <1>5, <2>1 DEF Passed, Home
<1>7. PICK f : f = Put(old, h, home)
  OBVIOUS
<1>8. DOMAIN f = DOMAIN old /\ f[h] = home /\ \A i \in DOMAIN old : i # h => f[i] = old[i]
  BY <1>4, <1>6, <1>7, TableExcept
<1>9. PICK moved : moved = [s EXCEPT !.homes = f]
  OBVIOUS
<1>10. moved.homes = f /\ moved.level = s.level
  BY <1>1, <1>9 DEF Economy
<1>11. PICK lo : lo = Level(moved, o)
  OBVIOUS
<1>12. PICK la : la = Level(moved, a)
  OBVIOUS
<1>13. lo = (IF Owns(f, o) THEN 1 ELSE 0) /\ la = 1
  <2>1. Owns(f, a)
    BY <1>4, <1>6, <1>8 DEF Owns
  <2> QED
    BY <1>10, <1>11, <1>12, <2>1, LevelIs
<1>14. PICK lv \in [Accounts -> {0, 1}] : lv = s.level
  BY <1>1, EconomyIs
<1>15. PICK level : level = [lv EXCEPT ![o] = lo, ![a] = la]
  OBVIOUS
<1>16. /\ level \in [Accounts -> {0, 1}] /\ level[a] = 1 /\ (o # a => level[o] = lo)
       /\ \A b \in Accounts : b # o /\ b # a => level[b] = lv[b]
  BY <1>4, <1>13, <1>14, <1>15
<1>17. PICK v : v = HomesPut(s, f, s.nextHome, level, s.granted)
  OBVIOUS
<1>18. u = v
  <2>1. [s EXCEPT !.homes[h] = Passed(@, a, payoff)] = moved
    BY <1>1, <1>2, <1>5, <1>7, <1>9 DEF Put, Economy
  <2>2. u = [moved EXCEPT !.level[o] = lo, !.level[a] = la]
    BY <1>2, <1>3, <1>11, <1>12, <2>1 DEF HomeTo
  <2>3. moved.level = lv
    BY <1>10, <1>14
  <2>4. [lv EXCEPT ![o] = lo, ![a] = la] = level
    BY <1>15
  <2>5. u = [moved EXCEPT !.level = level]
    BY <1>1, <1>9, <2>2, <2>3, <2>4 DEF Economy
  <2>6. u = [s EXCEPT !.homes = f, !.level = level]
    BY <1>1, <1>9, <2>5 DEF Economy
  <2> QED
    BY <1>1, <1>17, <2>6 DEF HomesPut, Economy
<1>19. \A b \in Accounts : b # o /\ b # a => (Owns(f, b) <=> Owns(old, b))
  BY <1>3, <1>6, <1>8 DEF Owns
<1>20. Owns(f, a) /\ Owns(old, o)
  BY <1>3, <1>4, <1>6, <1>8 DEF Owns
<1>21. Levelled(f, level, s.granted)
  <2>1. PICK granted : granted = s.granted
    OBVIOUS
  <2>2. Levelled(old, lv, granted)
    BY <1>2, <1>14, <2>1 DEF Good
  <2>3. \A b \in Accounts : level[b] = 0 \/ Owns(f, b) \/ (level[b] = lv[b] /\ ~Owns(old, b))
    <3> SUFFICES ASSUME NEW b \in Accounts
                 PROVE  level[b] = 0 \/ Owns(f, b) \/ (level[b] = lv[b] /\ ~Owns(old, b))
      OBVIOUS
    <3>1. CASE b = a
      BY <1>20, <3>1
    <3>2. CASE b = o /\ o # a
      BY <1>13, <1>16, <3>2
    <3>3. CASE b # o /\ b # a
      BY <1>16, <1>19, <3>3
    <3> QED
      BY <3>1, <3>2, <3>3
  <2> QED
    BY <2>1, <2>2, <2>3, LevelsFit
<1>22. \A b \in Accounts \ {a} : level[b] # 0 \/ Owns(f, b) => Has(s, b)
  BY <1>2, <1>14, <1>16, <1>19, <1>20 DEF Has
<1>23. t = Closed(v, id)
  BY <1>18
<1>24. level \in [Accounts -> {0, 1}] /\ f = Put(s.homes, h, home)
  BY <1>2, <1>7, <1>16
<1> QED
  BY <1>6, <1>17, <1>21, <1>22, <1>23, <1>24, HomeEnds

\* A home that nobody bid on.
LEMMA HomeBackEnds ==
  ASSUME NEW s, NEW n, Good(s, n), NEW id \in DOMAIN s.auctions,
         NEW h, h = s.auctions[id].home, h # 0, NEW a \in Accounts,
         NEW u, u = [s EXCEPT !.homes[h].listed = FALSE],
         NEW t, t = Closed(u, id)
  PROVE  Ends(s, t, id, a, n)
<1>1. s \in Economy
  BY DEF Good
<1>2. PICK old \in Tables(Home) : old = s.homes
  BY <1>1, EconomyIs
<1>3. h \in DOMAIN old /\ old[h] \in Home /\ old[h].rented <= n
  <2>1. h \in DOMAIN old
    BY <1>2 DEF Good, Offered
  <2>2. old[h] \in Home
    BY <1>1, <1>2, <2>1, NumbersGiven
  <2> QED
    BY <1>2, <2>1, <2>2 DEF Good
<1>4. PICK home : home = [old[h] EXCEPT !.listed = FALSE]
  OBVIOUS
<1>5. home \in Home /\ ~home.listed /\ home.rented <= n /\ home.owner = old[h].owner
  BY <1>3, <1>4 DEF Home
<1>6. PICK f : f = Put(old, h, home)
  OBVIOUS
<1>7. DOMAIN f = DOMAIN old /\ f[h] = home /\ \A i \in DOMAIN old : i # h => f[i] = old[i]
  <2>1. old \in [DOMAIN old -> Home] /\ f = [old EXCEPT ![h] = home]
    BY <1>6, TableIs DEF Put
  <2> QED
    BY <1>3, <1>5, <2>1
<1>8. PICK level \in [Accounts -> {0, 1}] : level = s.level
  BY <1>1, EconomyIs
<1>9. \A b : Owns(f, b) <=> Owns(old, b)
  BY <1>3, <1>5, <1>7 DEF Owns
<1>10. PICK v : v = HomesPut(s, f, s.nextHome, level, s.granted)
  OBVIOUS
<1>11. u = v
  BY <1>1, <1>2, <1>4, <1>6, <1>8, <1>10 DEF HomesPut, Put, Economy
<1>12. Levelled(f, level, s.granted)
  BY <1>2, <1>8, <1>9 DEF Good, Levelled
<1>13. \A b \in Accounts \ {a} : level[b] # 0 \/ Owns(f, b) => Has(s, b)
  BY <1>2, <1>8, <1>9 DEF Has
<1>14. t = Closed(v, id)
  BY <1>11
<1> QED
  BY <1>2, <1>5, <1>6, <1>8, <1>10, <1>12, <1>13, <1>14, HomeEnds

\* Relics that go to a, sold or not.
LEMMA RelicsToEnds ==
  ASSUME NEW s, NEW n, Good(s, n), NEW id \in DOMAIN s.auctions, s.auctions[id].home = 0,
         NEW a \in Accounts, NEW u, u = RelicsTo(s, id, a),
         NEW t, t = Closed(u, id)
  PROVE  Ends(s, t, id, a, n)
<1>1. s \in Economy
  BY DEF Good
<1>2. PICK q \in Seq(Relic) : q = s.relics
  BY <1>1, EconomyIs
<1>3. PICK old \in [Accounts -> Nat] : old = s.count
  BY <1>1, EconomyIs
<1>4. PICK au : au = s.auctions
  OBVIOUS
<1>5. PICK next : next = s.nextAuction
  OBVIOUS
<1>6. PICK m : m = au[id].relics
  OBVIOUS
<1>7. id \in DOMAIN au /\ id \in Nat \ {0} /\ m \in Nat /\ next \in Nat \ {0} /\ Holding(q, au, next)
  <2>1. au[id] \in Offer /\ id \in Nat \ {0}
    BY <1>1, <1>4, NumbersGiven
  <2> QED
    BY <1>1, <1>2, <1>4, <1>5, <1>6, <2>1, NumbersGiven DEF Good, Offer, Listing
<1>8. PICK K : K = Escrowed(s, id)
  OBVIOUS
<1>9. /\ \A k : k \in K <=> k \in DOMAIN q /\ q[k].auction = id
      /\ K \in SUBSET DOMAIN q /\ Cardinality(K) = m
  <2>1. \A k \in DOMAIN q : q[k] \in Relic
    BY HavingFinite
  <2>2. K = Having(q, Held(id))
    BY <1>2, <1>8, <2>1 DEF Escrowed, Having, Held, Relic
  <2>3. Cardinality(Having(q, Held(id))) = m
    BY <1>6, <1>7 DEF Holding
  <2> QED
    BY <1>2, <1>8, <2>2, <2>3 DEF Escrowed
<1>10. PICK r : r = [k \in DOMAIN q |-> IF k \in K THEN Free(a) ELSE q[k]]
  OBVIOUS
<1>11. /\ r \in [DOMAIN q -> Relic] /\ DOMAIN r = DOMAIN q
       /\ \A k \in K : r[k] = Free(a) /\ q[k] # Free(a)
       /\ \A k \in DOMAIN q : k \notin K => r[k] = q[k]
  <2>1. Free(a) \in Relic /\ Free(a).auction = 0
    BY DEF Free, Relic
  <2> QED
    BY <1>7, <1>9, <1>10, <2>1, HavingFinite
<1>12. /\ r \in Seq(Relic)
       /\ Cardinality(Having(r, Loose(a))) = Cardinality(Having(q, Loose(a))) + m
  BY <1>9, <1>11, RelicsFreed
<1>13. PICK c : c = Put(old, a, old[a] + m)
  OBVIOUS
<1>14. c \in [Accounts -> Nat] /\ c[a] = old[a] + m /\ \A b \in Accounts \ {a} : c[b] = old[b]
  BY <1>3, <1>7, <1>13 DEF Put
<1>15. PICK v : v = RelicsPut(s, r, c)
  OBVIOUS
<1>16. u = v
  <2>1. u = [s EXCEPT !.count[a] = @ + m, !.relics = [k \in DOMAIN @ |-> IF k \in K THEN Free(a) ELSE @[k]]]
    BY <1>4, <1>6, <1>8 DEF RelicsTo
  <2>2. u = [s EXCEPT !.count[a] = @ + m, !.relics = r]
    BY <1>1, <1>2, <1>10, <2>1 DEF Economy
  <2> QED
    BY <1>1, <1>3, <1>13, <1>15, <2>2 DEF RelicsPut, Put, Economy
<1>17. /\ u.relics = r /\ u.count = c /\ SameCash(s, u) /\ SameHomes(s, u) /\ SameAuctions(s, u)
       /\ u \in Economy
  BY <1>1, <1>12, <1>14, <1>15, <1>16, RelicsPutIs
<1>18. PICK g : g = Without(s.auctions, id)
  OBVIOUS
<1>19. /\ g \in Tables(Offer) /\ \A i \in DOMAIN g : i < next
       /\ \A i : i \in DOMAIN g <=> i \in DOMAIN au /\ i # id
       /\ \A i \in DOMAIN g : g[i] = au[i]
       /\ InEscrow(g) = InEscrow(s.auctions) - s.auctions[id].bid
  <2>1. g \in Tables(Offer) /\ InEscrow(g) = InEscrow(s.auctions) - s.auctions[id].bid
    BY <1>1, <1>5, <1>18, ListingLeaves
  <2>2. \A i \in DOMAIN g : g[i] = s.auctions[i]
    BY <1>1, <1>5, <1>18, ListingLeaves
  <2>3. \A i : i \in DOMAIN g <=> i \in DOMAIN s.auctions /\ i # id
    BY <1>1, <1>5, <1>18, ListingLeaves
  <2>4. \A i \in DOMAIN g : i < next
    BY <1>1, <1>5, <2>3, NumbersGiven
  <2> QED
    BY <1>4, <2>1, <2>2, <2>3, <2>4
<1>20. t = AuctionsPut(u, g, next)
  BY <1>5, <1>17, <1>18 DEF SameAuctions, Closed, AuctionsPut, Economy
<1>21. /\ t.auctions = g /\ t.nextAuction = next /\ SameCash(u, t) /\ SameRelics(u, t) /\ SameHomes(u, t)
       /\ t \in Economy
  BY <1>7, <1>17, <1>19, <1>20, AuctionsPutIs
<1>22. Offered(s.homes, g)
  <2>1. PICK homes : homes = s.homes
    OBVIOUS
  <2>2. Offered(homes, au) /\ 0 \notin DOMAIN homes
    BY <1>1, <1>4, <2>1, NumbersGiven DEF Good
  <2>3. \A i \in DOMAIN au : au[i].home \in DOMAIN homes => i \in DOMAIN g
    BY <1>4, <1>19, <2>2
  <2>4. DOMAIN g \subseteq DOMAIN au
    BY <1>19
  <2>5. Offered(homes, g)
    BY <1>19, <2>2, <2>3, <2>4, OfferedLess
  <2> QED
    BY <2>1, <2>5
<1>23. Holding(r, g, next)
  <2>1. \A k \in K : r[k].auction = 0
    BY <1>11 DEF Free
  <2>2. \A k \in DOMAIN q : r[k].auction < next
    BY <1>7, <1>11, <2>1 DEF Holding
  <2>3. \A i \in DOMAIN au : i # 0
    BY <1>1, <1>4, NumbersGiven
  <2>4. \A i \in DOMAIN g : StillHolds(q, au, r, g, i)
    BY <1>9, <1>11, <1>19, <2>1, <2>3 DEF StillHolds
  <2> QED
    BY <1>7, <1>11, <1>12, <2>2, <2>4, HoldingSame
<1>24. Counted(r, c)
  <2>1. ASSUME NEW b \in Accounts, b # a
        PROVE  Having(r, Loose(b)) = Having(q, Loose(b))
    <3>1. \A k \in K : r[k] \notin Loose(b) /\ q[k] \notin Loose(b)
      BY <1>7, <1>9, <1>11, <2>1 DEF Loose, Free
    <3>2. \A k \in DOMAIN q : r[k] \in Loose(b) <=> q[k] \in Loose(b)
      BY <1>11, <3>1
    <3> QED
      BY <1>11, <3>2, HavingSame
  <2>2. \A b \in Accounts : c[b] - Cardinality(Having(r, Loose(b))) = old[b] - Cardinality(Having(q, Loose(b)))
    <3> SUFFICES ASSUME NEW b \in Accounts
                 PROVE  c[b] - Cardinality(Having(r, Loose(b))) = old[b] - Cardinality(Having(q, Loose(b)))
      OBVIOUS
    <3>1. old[b] \in Nat /\ Cardinality(Having(q, Loose(b))) \in Nat
      BY HavingFinite
    <3>2. CASE b = a
      BY <1>7, <1>12, <1>14, <3>1, <3>2
    <3>3. CASE b # a
      BY <1>14, <2>1, <3>3
    <3> QED
      BY <3>2, <3>3
  <2>3. Counted(q, old)
    BY <1>2, <1>3 DEF Good
  <2> QED
    BY <2>2, <2>3 DEF Counted
<1>25. Good(t, n)
  BY <1>17, <1>21, <1>22, <1>23, <1>24 DEF Good, SameRelics, SameHomes
<1>26. Worth(t) = Worth(s) - s.auctions[id].bid
  <2>1. /\ Total(s.wallet) \in Int /\ Total(s.checking) \in Int
        /\ InEscrow(s.auctions) \in Int /\ s.outside \in Int
    BY <1>1, WorthIs
  <2>2. s.auctions[id].bid \in Nat
    BY <1>1, NumbersGiven DEF Offer, Listing
  <2> QED
    BY <1>17, <1>19, <1>21, <2>1, <2>2 DEF Worth, SameCash
<1>27. \A b \in Accounts \ {a} : (Has(t, b) => Has(s, b)) /\ t.count[b] = s.count[b]
  BY <1>3, <1>14, <1>17, <1>21 DEF Has, SameHomes, SameRelics
<1> QED
  BY <1>17, <1>18, <1>21, <1>25, <1>26, <1>27 DEF Ends, SameCash

\* The fee is part of the bid, and so is what goes to the bank.
LEMMA FeeIs ==
  ASSUME NEW bid \in Nat, bid # 0
  PROVE  Fee(bid) \in Nat /\ Fee(bid) <= bid
  BY DEF Fee, Larger

\* What a sale pays: the bid goes to the seller, the bank and the fee.
Paid(s, l, payoff) ==
  [s EXCEPT !.wallet[l.seller] = @ + l.bid - Fee(l.bid) - payoff,
            !.outside = @ + Fee(l.bid) + payoff]

LEMMA PaidIs ==
  ASSUME NEW s, NEW n, Good(s, n), NEW id \in DOMAIN s.auctions, NEW l, l = s.auctions[id],
         l.bidder # Nobody, NEW payoff, payoff = Payoff(s, l), NEW p, p = Paid(s, l, payoff)
  PROVE  /\ Good(p, n) /\ SameHomes(s, p) /\ SameRelics(s, p) /\ SameAuctions(s, p)
         /\ \A b \in Accounts : p.wallet[b] >= s.wallet[b]
         /\ Worth(p) = Worth(s) + l.bid
         /\ payoff \in Nat /\ (l.home # 0 => payoff <= s.homes[l.home].mortgage)
<1>1. s \in Economy
  BY DEF Good
<1>2. l \in Offer /\ l.seller \in Accounts /\ l.bid \in Nat /\ l.bid # 0
  <2>1. l \in Offer
    BY <1>1, NumbersGiven
  <2> QED
    BY <2>1 DEF Offer, Listing
<1>3. PICK fee \in Nat : fee = Fee(l.bid) /\ fee <= l.bid
  BY <1>2, FeeIs
<1>4. payoff \in Nat /\ payoff <= l.bid - fee /\ (l.home # 0 => payoff <= s.homes[l.home].mortgage)
  <2>1. CASE l.home = 0
    BY <1>2, <1>3, <2>1 DEF Payoff
  <2>2. CASE l.home # 0
    <3>1. l.home \in DOMAIN s.homes
      BY <2>2 DEF Good, Offered
    <3>2. s.homes[l.home].mortgage \in Nat
      BY <1>1, <3>1, NumbersGiven DEF Home
    <3>3. PICK rest \in Nat : rest = l.bid - fee /\ Larger(0, rest) = rest
      BY <1>2, <1>3 DEF Larger
    <3>4. PICK m \in Nat : m = s.homes[l.home].mortgage
      BY <3>2
    <3>5. payoff = Smaller(m, rest)
      BY <1>3, <2>2, <3>1, <3>3, <3>4 DEF Payoff
    <3>6. payoff \in Nat /\ payoff <= rest /\ payoff <= m
      BY <3>5 DEF Smaller
    <3> QED
      BY <3>3, <3>4, <3>6
  <2> QED
    BY <2>1, <2>2
<1>5. PICK a \in Accounts : a = l.seller
  BY <1>2
<1>6. PICK old \in [Accounts -> Nat] : old = s.wallet
  BY <1>1, EconomyIs
<1>7. PICK gain \in Nat : gain = l.bid - fee - payoff
  BY <1>2, <1>3, <1>4
<1>8. PICK w : w = Put(old, a, old[a] + gain)
  OBVIOUS
<1>9. w \in [Accounts -> Nat] /\ w[a] = old[a] + gain /\ \A b \in Accounts \ {a} : w[b] = old[b]
  BY <1>6, <1>7, <1>8 DEF Put
<1>10. PICK c : c = s.checking
  OBVIOUS
<1>11. PICK o : o = s.outside + fee + payoff
  OBVIOUS
<1>12. c \in [Accounts -> Nat] /\ o \in Int /\ s.outside \in Int
  BY <1>1, <1>3, <1>4, <1>10, <1>11, EconomyIs
<1>13. p = CashPut(s, w, c, o)
  <2>1. old[a] + gain = s.wallet[a] + l.bid - fee - payoff
    BY <1>2, <1>3, <1>4, <1>6, <1>7
  <2>2. p = [s EXCEPT !.wallet[a] = s.wallet[a] + l.bid - fee - payoff, !.outside = s.outside + fee + payoff]
    BY <1>1, <1>3, <1>5 DEF Paid, Economy
  <2> HIDE DEF Paid
  <2> QED
    BY <1>1, <1>6, <1>8, <1>10, <1>11, <2>1, <2>2 DEF CashPut, Put, Economy
<1>14. /\ p.wallet = w /\ p.checking = c /\ p.outside = o
       /\ SameRelics(s, p) /\ SameHomes(s, p) /\ SameAuctions(s, p) /\ p \in Economy
  BY <1>1, <1>9, <1>12, <1>13, CashPutIs
<1>15. Good(p, n)
  <2>1. DOMAIN p.auctions = DOMAIN s.auctions /\ p.auctions = s.auctions /\ p.nextAuction = s.nextAuction
    BY <1>14 DEF SameAuctions
  <2> QED
    BY <1>14, <2>1, SameIsGood
<1>16. Worth(p) = Worth(s) + l.bid
  <2>1. PICK zero \in Int : zero = 0
    OBVIOUS
  <2>2. InEscrow(p.auctions) = InEscrow(s.auctions) + zero
    <3>1. InEscrow(s.auctions) \in Int
      BY <1>1, WorthIs
    <3> QED
      BY <1>14, <2>1, <3>1 DEF SameAuctions
  <2>3. \A b \in Accounts \ {a} : p.wallet[b] = s.wallet[b] /\ p.checking[b] = s.checking[b]
    BY <1>6, <1>9, <1>10, <1>14
  <2>4. Worth(p) = Worth(s) + (p.wallet[a] - s.wallet[a]) + (p.checking[a] - s.checking[a])
                    + zero + (p.outside - s.outside)
    BY <1>1, <1>14, <2>2, <2>3, CashMoves
  <2>5. Worth(s) \in Int
    BY <1>1, WorthIs
  <2>6. p.wallet[a] - s.wallet[a] = gain /\ p.checking[a] - s.checking[a] = 0 /\ p.outside - s.outside = fee + payoff
    <3>1. PICK x \in Nat : x = old[a]
      OBVIOUS
    <3>2. p.wallet[a] - s.wallet[a] = gain
      BY <1>6, <1>9, <1>14, <3>1
    <3>3. PICK y \in Nat : y = c[a]
      BY <1>12
    <3>4. p.checking[a] - s.checking[a] = 0
      BY <1>10, <1>14, <3>3
    <3>5. PICK z \in Int : z = s.outside
      BY <1>12
    <3>6. p.outside - s.outside = fee + payoff
      BY <1>3, <1>4, <1>11, <1>14, <3>5
    <3> QED
      BY <3>2, <3>4, <3>6
  <2> QED
    BY <1>2, <1>3, <1>4, <1>7, <2>1, <2>4, <2>5, <2>6
<1>17. \A b \in Accounts : p.wallet[b] >= s.wallet[b]
  BY <1>6, <1>7, <1>9, <1>14
<1> QED
  BY <1>4, <1>14, <1>15, <1>16, <1>17

\* Who gets what an auction offered.
Winner(l) == IF l.bidder = Nobody THEN l.seller ELSE l.bidder

\* An auction that ends leaves nobody worse off but takes from the book.
LEMMA SettleDoes ==
  ASSUME NEW s, NEW n, Good(s, n), NEW id \in DOMAIN s.auctions, NEW t, t = Settle(s, id)
  PROVE  /\ Winner(s.auctions[id]) \in Accounts
         /\ Does(s, t, Winner(s.auctions[id]), n) /\ t.auctions = Without(s.auctions, id)
<1>1. s \in Economy
  BY DEF Good
<1>2. PICK l : l = s.auctions[id]
  OBVIOUS
<1>3. l \in Offer /\ l.seller \in Accounts /\ l.bid \in Nat /\ (l.bidder = Nobody <=> l.bid = 0)
      /\ (l.bidder # Nobody => l.bidder \in Accounts)
  <2>1. l \in Offer
    BY <1>1, <1>2, NumbersGiven
  <2> QED
    BY <2>1 DEF Offer, Listing
<1>4. PICK a \in Accounts : a = Winner(l)
  BY <1>3 DEF Winner
<1>5. PICK h : h = l.home
  OBVIOUS
<1>6. h # 0 => h \in DOMAIN s.homes
  BY <1>2, <1>5 DEF Good, Offered
<1>7. \E p : /\ Good(p, n) /\ SameHomes(s, p) /\ SameRelics(s, p) /\ SameAuctions(s, p)
             /\ \A b \in Accounts : p.wallet[b] >= s.wallet[b]
             /\ Worth(p) = Worth(s) + l.bid /\ Ends(p, t, id, a, n)
  <2>1. CASE l.bidder = Nobody
    <3>1. PICK u : u = Returned(s, id)
      OBVIOUS
    <3>2. t = Closed(u, id) /\ a = l.seller
      BY <1>2, <1>4, <2>1, <3>1 DEF Settle, Closed, Winner
    <3>3. ASSUME h = 0 PROVE Ends(s, t, id, a, n)
      <4>1. u = RelicsTo(s, id, a)
        BY <1>2, <1>5, <3>1, <3>2, <3>3 DEF Returned
      <4>2. s.auctions[id].home = 0
        BY <1>2, <1>5, <3>3
      <4> QED
        BY <1>4, <3>2, <4>1, <4>2, RelicsToEnds
    <3>4. ASSUME h # 0 PROVE Ends(s, t, id, a, n)
      <4>1. u = [s EXCEPT !.homes[h].listed = FALSE]
        BY <1>2, <1>5, <1>6, <3>1, <3>4 DEF Returned
      <4>2. h = s.auctions[id].home
        BY <1>2, <1>5
      <4> QED
        BY <1>4, <3>2, <3>4, <4>1, <4>2, HomeBackEnds
    <3>5. Ends(s, t, id, a, n)
      BY <3>3, <3>4
    <3>6. Worth(s) = Worth(s) + l.bid
      <4>1. Worth(s) \in Int
        BY <1>1, WorthIs
      <4> QED
        BY <1>3, <2>1, <4>1
    <3>7. SameHomes(s, s) /\ SameRelics(s, s) /\ SameAuctions(s, s) /\ \A b \in Accounts : s.wallet[b] >= s.wallet[b]
      BY <1>1, EconomyIs DEF SameHomes, SameRelics, SameAuctions
    <3> QED
      BY <3>5, <3>6, <3>7
  <2>2. CASE l.bidder # Nobody
    <3>1. PICK payoff : payoff = Payoff(s, l)
      OBVIOUS
    <3>2. PICK p : p = Paid(s, l, payoff)
      OBVIOUS
    <3>3. /\ Good(p, n) /\ SameHomes(s, p) /\ SameRelics(s, p) /\ SameAuctions(s, p)
          /\ \A b \in Accounts : p.wallet[b] >= s.wallet[b]
          /\ Worth(p) = Worth(s) + l.bid
          /\ payoff \in Nat /\ (l.home # 0 => payoff <= s.homes[l.home].mortgage)
      BY <1>2, <2>2, <3>1, <3>2, PaidIs
    <3>4. PICK u : u = Sold(s, id)
      OBVIOUS
    <3>5. t = Closed(u, id) /\ a = l.bidder
      BY <1>2, <1>4, <2>2, <3>4 DEF Settle, Closed, Winner
    <3>6. id \in DOMAIN p.auctions /\ p.auctions[id] = l /\ p.homes = s.homes
      BY <1>2, <3>3 DEF SameAuctions, SameHomes
    <3>7. ASSUME h = 0 PROVE Ends(p, t, id, a, n)
      <4>1. u = RelicsTo(p, id, a)
        BY <1>2, <1>5, <3>1, <3>2, <3>4, <3>5, <3>7 DEF Sold, Paid
      <4>2. p.auctions[id].home = 0
        BY <1>5, <3>6, <3>7
      <4> QED
        BY <3>3, <3>5, <3>6, <4>1, <4>2, RelicsToEnds
    <3>8. ASSUME h # 0 PROVE Ends(p, t, id, a, n)
      <4>1. u = HomeTo(p, h, a, payoff)
        BY <1>2, <1>5, <1>6, <3>1, <3>2, <3>4, <3>5, <3>8 DEF Sold, Paid
      <4>2. h = p.auctions[id].home /\ payoff <= p.homes[h].mortgage /\ payoff \in Nat
        BY <1>5, <3>3, <3>6, <3>8
      <4> QED
        BY <3>3, <3>5, <3>6, <3>8, <4>1, <4>2, HomeToEnds
    <3>9. Ends(p, t, id, a, n)
      BY <3>7, <3>8
    <3> QED
      BY <3>3, <3>9
  <2> QED
    BY <2>1, <2>2
<1>8. PICK p : /\ Good(p, n) /\ SameHomes(s, p) /\ SameRelics(s, p) /\ SameAuctions(s, p)
               /\ \A b \in Accounts : p.wallet[b] >= s.wallet[b]
               /\ Worth(p) = Worth(s) + l.bid /\ Ends(p, t, id, a, n)
  BY <1>7
<1>9. Worth(t) = Worth(s)
  <2>1. Worth(s) \in Int
    BY <1>1, WorthIs
  <2>2. Worth(t) = Worth(p) - l.bid
    BY <1>2, <1>8 DEF Ends, SameAuctions
  <2> QED
    BY <1>3, <1>8, <2>1, <2>2
<1>10. \A b \in Accounts : t.wallet[b] >= s.wallet[b]
  BY <1>8 DEF Ends
<1>11. \A b \in Accounts \ {a} : (Has(t, b) => Has(s, b)) /\ t.count[b] = s.count[b]
  BY <1>8 DEF Ends, Has, SameHomes, SameRelics
<1>12. \A b \in Accounts : Player(b) # Player(a) => t.count[b] = s.count[b]
  BY <1>11
<1>13. Good(t, n) /\ t.auctions = Without(s.auctions, id)
  BY <1>8 DEF Ends, SameAuctions
<1>14. Does(s, t, a, n)
  BY <1>9, <1>10, <1>11, <1>12, <1>13 DEF Does, Spares
<1> QED
  BY <1>2, <1>4, <1>13, <1>14

\* An auction that its seller cancels.
LEMMA CancelDoes ==
  ASSUME now \in Nat, Good(db, now), NEW a \in Accounts, NEW id, Cancel(a, id)
  PROVE  Does(db, db', a, now)
<1>1. PICK s : s = Recorded(db, a)
  OBVIOUS
<1>2. Does(db, s, a, now) /\ db \in Economy /\ Good(s, now)
  BY <1>1, RecordedDoes DEF Does, Good
<1>3. PICK l : l = s.auctions[id]
  OBVIOUS
<1>4. id \in DOMAIN s.auctions /\ Winner(l) = a
  BY <1>1, <1>3 DEF Cancel, ListingsOf, Winner
<1>5. PICK t : t = Settle(s, id)
  OBVIOUS
<1>6. db' = t
  BY <1>1, <1>5 DEF Cancel, Call
<1>7. Does(s, t, a, now)
  BY <1>2, <1>3, <1>4, <1>5, SettleDoes
<1> QED
  BY <1>2, <1>6, <1>7, DoesThen

\* The highest bidder, if there is one, has the bid back.
LEMMA RefundIs ==
  ASSUME NEW s \in Economy, NEW id \in DOMAIN s.auctions, NEW t, t = Refund(s, id)
  PROVE  /\ t \in Economy /\ SameHomes(s, t) /\ SameRelics(s, t) /\ SameAuctions(s, t)
         /\ t.checking = s.checking /\ t.outside = s.outside
         /\ \A b \in Accounts : t.wallet[b] >= s.wallet[b]
         /\ \A b \in Accounts : b # s.auctions[id].bidder => t.wallet[b] = s.wallet[b]
         /\ Worth(t) = Worth(s) + s.auctions[id].bid
<1>1. PICK l : l = s.auctions[id]
  OBVIOUS
<1>2. l \in Offer /\ l.bid \in Nat /\ (l.bidder = Nobody <=> l.bid = 0) /\ (l.bidder # Nobody => l.bidder \in Accounts)
  <2>1. l \in Offer
    BY <1>1, NumbersGiven
  <2> QED
    BY <2>1 DEF Offer, Listing
<1>3. CASE l.bidder = Nobody
  <2>1. t = s
    BY <1>1, <1>3 DEF Refund
  <2>2. Worth(s) = Worth(s) + l.bid
    BY <1>2, <1>3, WorthIs
  <2> QED
    BY <1>1, <2>1, <2>2, EconomyIs DEF SameHomes, SameRelics, SameAuctions
<1>4. CASE l.bidder # Nobody
  <2>1. PICK a \in Accounts : a = l.bidder
    BY <1>2, <1>4
  <2>2. PICK old \in [Accounts -> Nat] : old = s.wallet
    BY EconomyIs
  <2>3. PICK w : w = Put(old, a, old[a] + l.bid)
    OBVIOUS
  <2>4. w \in [Accounts -> Nat] /\ w[a] = old[a] + l.bid /\ \A b \in Accounts \ {a} : w[b] = old[b]
    BY <1>2, <2>2, <2>3 DEF Put
  <2>5. PICK c \in [Accounts -> Nat] : c = s.checking
    BY EconomyIs
  <2>6. PICK o \in Int : o = s.outside
    BY EconomyIs
  <2>7. t = CashPut(s, w, c, o)
    BY <1>1, <1>4, <2>1, <2>2, <2>3, <2>5, <2>6 DEF Refund, CashPut, Put, Economy
  <2>8. /\ t.wallet = w /\ t.checking = c /\ t.outside = o
        /\ SameRelics(s, t) /\ SameHomes(s, t) /\ SameAuctions(s, t) /\ t \in Economy
    BY <2>4, <2>7, CashPutIs
  <2>9. Worth(t) = Worth(s) + l.bid
    <3>1. PICK zero \in Int : zero = 0
      OBVIOUS
    <3>2. InEscrow(t.auctions) = InEscrow(s.auctions) + zero
      <4>1. InEscrow(s.auctions) \in Int
        BY WorthIs
      <4> QED
        BY <2>8, <3>1, <4>1 DEF SameAuctions
    <3>3. \A b \in Accounts \ {a} : t.wallet[b] = s.wallet[b] /\ t.checking[b] = s.checking[b]
      BY <2>2, <2>4, <2>5, <2>8
    <3>4. Worth(t) = Worth(s) + (t.wallet[a] - s.wallet[a]) + (t.checking[a] - s.checking[a])
                      + zero + (t.outside - s.outside)
      BY <2>8, <3>2, <3>3, CashMoves
    <3>5. Worth(s) \in Int
      BY WorthIs
    <3>6. t.wallet[a] - s.wallet[a] = l.bid /\ t.checking[a] - s.checking[a] = 0 /\ t.outside - s.outside = 0
      BY <1>2, <2>2, <2>4, <2>5, <2>6, <2>8
    <3> QED
      BY <1>2, <3>1, <3>4, <3>5, <3>6
  <2>10. \A b \in Accounts : t.wallet[b] >= s.wallet[b] /\ (b # l.bidder => t.wallet[b] = s.wallet[b])
    BY <1>2, <2>1, <2>2, <2>4, <2>8
  <2> QED
    BY <1>1, <2>5, <2>6, <2>8, <2>9, <2>10
<1> QED
  BY <1>3, <1>4

\* A bid is in the wallet or in the auction, and so is the one before it.
LEMMA EscrowDoes ==
  ASSUME NEW s, NEW n, Good(s, n), NEW id \in DOMAIN s.auctions, NEW a \in Accounts,
         s.auctions[id].seller # a, NEW amount \in Nat \ {0},
         Covers(s, a, Additional(s.auctions[id], a, amount)), NEW t, t = Escrow(s, a, id, amount)
  PROVE  /\ Does(s, t, a, n) /\ id \in DOMAIN t.auctions
         /\ t.auctions[id].bidder = a
<1>1. s \in Economy
  BY DEF Good
<1>2. PICK l : l = s.auctions[id]
  OBVIOUS
<1>3. l \in Offer /\ l.bid \in Nat /\ l.seller # a
  <2>1. l \in Offer
    BY <1>1, <1>2, NumbersGiven
  <2> QED
    BY <1>2, <2>1 DEF Offer, Listing
<1>4. PICK p \in Nat : p = Additional(l, a, amount) /\ p <= s.wallet[a]
  <2>1. PICK x \in Int : x = Additional(l, a, amount)
    BY <1>3 DEF Additional
  <2>2. s.wallet[a] \in Nat
    BY <1>1, EconomyIs
  <2> QED
    BY <1>2, <2>1, <2>2 DEF Covers
<1>5. PICK old \in [Accounts -> Nat] : old = s.wallet
  BY <1>1, EconomyIs
<1>6. PICK w : w = Put(old, a, old[a] - p)
  OBVIOUS
<1>7. w \in [Accounts -> Nat] /\ w[a] = old[a] - p /\ \A b \in Accounts \ {a} : w[b] = old[b]
  BY <1>4, <1>5, <1>6 DEF Put
<1>8. PICK c \in [Accounts -> Nat] : c = s.checking
  BY <1>1, EconomyIs
<1>9. PICK o \in Int : o = s.outside
  BY <1>1, EconomyIs
<1>10. PICK taken : taken = CashPut(s, w, c, o)
  OBVIOUS
<1>11. /\ taken.wallet = w /\ taken.checking = c /\ taken.outside = o
       /\ SameRelics(s, taken) /\ SameHomes(s, taken) /\ SameAuctions(s, taken) /\ taken \in Economy
  BY <1>1, <1>7, <1>10, CashPutIs
<1>12. Worth(taken) = Worth(s) - p
  <2>1. PICK zero \in Int : zero = 0
    OBVIOUS
  <2>2. InEscrow(taken.auctions) = InEscrow(s.auctions) + zero
    <3>1. InEscrow(s.auctions) \in Int
      BY <1>1, WorthIs
    <3> QED
      BY <1>11, <2>1, <3>1 DEF SameAuctions
  <2>3. \A b \in Accounts \ {a} : taken.wallet[b] = s.wallet[b] /\ taken.checking[b] = s.checking[b]
    BY <1>5, <1>7, <1>8, <1>11
  <2>4. Worth(taken) = Worth(s) + (taken.wallet[a] - s.wallet[a]) + (taken.checking[a] - s.checking[a])
                    + zero + (taken.outside - s.outside)
    BY <1>1, <1>11, <2>2, <2>3, CashMoves
  <2>5. Worth(s) \in Int
    BY <1>1, WorthIs
  <2>6. taken.wallet[a] - s.wallet[a] = -p /\ taken.checking[a] - s.checking[a] = 0 /\ taken.outside - s.outside = 0
    BY <1>4, <1>5, <1>7, <1>8, <1>9, <1>11
  <2> QED
    BY <1>4, <2>1, <2>4, <2>5, <2>6
<1>13. PICK given : given = IF l.bidder = a THEN taken ELSE Refund(taken, id)
  OBVIOUS
<1>14. PICK r \in Nat : r = IF l.bidder = a THEN 0 ELSE l.bid
  BY <1>3
<1>15. /\ given \in Economy /\ SameHomes(taken, given) /\ SameRelics(taken, given) /\ SameAuctions(taken, given)
       /\ Worth(given) = Worth(taken) + r
       /\ \A b \in Accounts : given.wallet[b] >= taken.wallet[b]
  <2>1. Worth(taken) \in Int
    BY <1>11, WorthIs
  <2>2. CASE l.bidder = a
    BY <1>11, <1>13, <1>14, <2>1, <2>2, EconomyIs, SMTT(30) DEF SameHomes, SameRelics, SameAuctions
  <2>3. CASE l.bidder # a
    <3>1. PICK u : u = Refund(taken, id)
      OBVIOUS
    <3>2. id \in DOMAIN taken.auctions /\ taken.auctions[id] = l
      BY <1>2, <1>11 DEF SameAuctions
    <3>3. /\ u \in Economy /\ SameHomes(taken, u) /\ SameRelics(taken, u) /\ SameAuctions(taken, u)
          /\ \A b \in Accounts : u.wallet[b] >= taken.wallet[b]
      BY <1>11, <3>1, <3>2, RefundIs
    <3>4. Worth(u) = Worth(taken) + l.bid
      BY <1>11, <3>1, <3>2, RefundIs
    <3> QED
      BY <1>13, <1>14, <2>3, <3>1, <3>3, <3>4
  <2> QED
    BY <2>2, <2>3
<1>16. PICK bidden : bidden = [l EXCEPT !.bidder = a, !.bid = amount]
  OBVIOUS
<1>17. /\ bidden \in Offer /\ bidden.bid = amount /\ bidden.bidder = a /\ bidden.home = l.home
       /\ bidden.seller = l.seller /\ bidden.relics = l.relics
  BY <1>3, <1>16, Numbers DEF Offer, Listing
<1>18. PICK au \in Tables(Offer) : au = s.auctions
  BY <1>1, EconomyIs
<1>19. au = given.auctions /\ id \in DOMAIN au /\ au[id] = l
  BY <1>2, <1>11, <1>15, <1>18 DEF SameAuctions
<1>20. PICK f : f = Put(au, id, bidden)
  OBVIOUS
<1>21. /\ f \in Tables(Offer) /\ DOMAIN f = DOMAIN au /\ f[id] = bidden
       /\ \A i \in DOMAIN au : i # id => f[i] = au[i]
  BY <1>17, <1>19, <1>20, TableExcept
<1>22. PICK next : next = s.nextAuction
  OBVIOUS
<1>23. next \in Nat \ {0} /\ \A i \in DOMAIN f : i < next
  BY <1>1, <1>18, <1>21, <1>22, NumbersGiven
<1>24. t = AuctionsPut(given, f, next)
  <2>1. t = [given EXCEPT !.auctions[id].bidder = a, !.auctions[id].bid = amount]
    <3>1. [s EXCEPT !.wallet[a] = @ - Additional(l, a, amount)] = taken
      BY <1>1, <1>4, <1>5, <1>6, <1>8, <1>9, <1>10 DEF CashPut, Put, Economy
    <3> QED
      BY <1>2, <1>13, <3>1 DEF Escrow
  <2>2. next = given.nextAuction
    BY <1>11, <1>15, <1>22 DEF SameAuctions
  <2>3. t = [given EXCEPT !.auctions = f]
    <3>1. t = [given EXCEPT !.auctions = [au EXCEPT ![id] = [l EXCEPT !.bidder = a, !.bid = amount]]]
      <4>1. given \in Economy /\ au = given.auctions /\ id \in DOMAIN au /\ au[id] = l /\ l \in Listing
        BY <1>3, <1>15, <1>19 DEF Offer
      <4>2. au \in [DOMAIN au -> Offer]
        BY <1>18, TableIs
      <4>3. t = [given EXCEPT !.auctions = [au EXCEPT ![id].bidder = a, ![id].bid = amount]]
        BY <2>1, <4>1 DEF Economy
      <4>4. [au EXCEPT ![id].bidder = a, ![id].bid = amount] = [au EXCEPT ![id] = [l EXCEPT !.bidder = a, !.bid = amount]]
        BY <4>1, <4>2
      <4> QED
        BY <4>3, <4>4
    <3> QED
      BY <1>16, <1>20, <3>1 DEF Put
  <2> QED
    BY <1>15, <2>2, <2>3 DEF AuctionsPut, Economy
<1>25. /\ t.auctions = f /\ t.nextAuction = next /\ SameCash(given, t) /\ SameRelics(given, t)
       /\ SameHomes(given, t) /\ t \in Economy
  BY <1>15, <1>21, <1>23, <1>24, AuctionsPutIs
<1>26. SameHomes(s, t) /\ SameRelics(s, t)
  BY <1>11, <1>15, <1>25 DEF SameHomes, SameRelics
<1>27. Good(t, n) /\ \A b : Has(t, b) => Has(s, b)
  <2>1. DOMAIN t.auctions = DOMAIN s.auctions /\ t.nextAuction = s.nextAuction
    BY <1>18, <1>21, <1>22, <1>25
  <2>2. \A i \in DOMAIN s.auctions :
           /\ t.auctions[i].home = s.auctions[i].home
           /\ t.auctions[i].seller = s.auctions[i].seller
           /\ t.auctions[i].relics = s.auctions[i].relics
    BY <1>17, <1>18, <1>19, <1>21, <1>25
  <2> QED
    BY <1>25, <1>26, <2>1, <2>2, SameIsGood
<1>28. Worth(t) = Worth(s)
  <2>1. InEscrow(f) = InEscrow(given.auctions) + (bidden.bid - given.auctions[id].bid)
    BY <1>15, <1>17, <1>19, <1>20, EscrowChanged
  <2>2. /\ Total(given.wallet) \in Int /\ Total(given.checking) \in Int
        /\ InEscrow(given.auctions) \in Int /\ given.outside \in Int /\ Worth(given) \in Int
    BY <1>15, WorthIs
  <2>3. PICK e \in Int : e = amount - l.bid
    BY <1>3
  <2>4. InEscrow(f) = InEscrow(given.auctions) + e
    BY <1>17, <1>19, <2>1, <2>3
  <2>5. Worth(t) = Worth(given) + e
    BY <1>25, <2>2, <2>3, <2>4 DEF Worth, SameCash
  <2>6. Worth(s) \in Int
    BY <1>1, WorthIs
  <2>7. r + e = p
    BY <1>3, <1>4, <1>14, <2>3 DEF Additional
  <2> QED
    BY <1>4, <1>12, <1>14, <1>15, <2>3, <2>5, <2>6, <2>7
<1>29. \A b \in Accounts \ {a} : t.wallet[b] >= s.wallet[b]
  BY <1>5, <1>7, <1>11, <1>15, <1>25 DEF SameCash
<1>30. Does(s, t, a, n)
  BY <1>26, <1>27, <1>28, <1>29 DEF Does, Spares, SameRelics
<1> QED
  BY <1>17, <1>19, <1>21, <1>25, <1>30

\* A bid.
LEMMA BidDoes ==
  ASSUME now \in Nat, Good(db, now), NEW a \in Accounts, NEW id, NEW amount \in Bids, Bid(a, id, amount)
  PROVE  Does(db, db', a, now)
<1>1. PICK s : s = Recorded(db, a)
  OBVIOUS
<1>2. Does(db, s, a, now) /\ db \in Economy /\ Good(s, now)
  BY <1>1, RecordedDoes DEF Does, Good
<1>3. /\ id \in DOMAIN s.auctions /\ s.auctions[id].seller # a
      /\ Covers(s, a, Additional(s.auctions[id], a, amount))
  BY <1>1 DEF Bid, OpenTo
<1>4. amount \in Nat \ {0}
  BY Numbers
<1>5. PICK t : t = Escrow(s, a, id, amount)
  OBVIOUS
<1>6. db' = t
  BY <1>1, <1>5 DEF Bid, Call
<1>7. Does(s, t, a, now)
  BY <1>2, <1>3, <1>4, <1>5, EscrowDoes
<1> QED
  BY <1>2, <1>6, <1>7, DoesThen

\* A sale at the price of the seller.
LEMMA BuyoutDoes ==
  ASSUME now \in Nat, Good(db, now), NEW a \in Accounts, NEW id, Buyout(a, id)
  PROVE  Does(db, db', a, now)
<1>1. PICK s : s = Recorded(db, a)
  OBVIOUS
<1>2. Does(db, s, a, now) /\ db \in Economy /\ Good(s, now) /\ s \in Economy
  BY <1>1, RecordedDoes DEF Does, Good
<1>3. PICK amount : amount = s.auctions[id].buyout
  OBVIOUS
<1>4. /\ id \in DOMAIN s.auctions /\ s.auctions[id].seller # a /\ amount # 0
      /\ Covers(s, a, Additional(s.auctions[id], a, amount))
  BY <1>1, <1>3 DEF Buyout, OpenTo
<1>5. amount \in Nat \ {0}
  <2>1. s.auctions[id] \in Offer
    BY <1>2, <1>4, NumbersGiven
  <2> QED
    BY <1>3, <1>4, <2>1 DEF Offer, Listing
<1>6. PICK u : u = Escrow(s, a, id, amount)
  OBVIOUS
<1>7. Does(s, u, a, now) /\ id \in DOMAIN u.auctions /\ u.auctions[id].bidder = a
  BY <1>2, <1>4, <1>5, <1>6, EscrowDoes
<1>8. PICK t : t = Settle(u, id)
  OBVIOUS
<1>9. db' = t
  BY <1>1, <1>3, <1>6, <1>8 DEF Buyout, Call
<1>10. Does(u, t, a, now)
  <2>1. Good(u, now)
    BY <1>7 DEF Does
  <2>2. Winner(u.auctions[id]) = a
    BY <1>7, Numbers DEF Winner
  <2> QED
    BY <1>7, <1>8, <2>1, <2>2, SettleDoes
<1> QED
  BY <1>2, <1>7, <1>9, <1>10, DoesThen

-----------------------------------------------------------------------------
(* Listings that leave the book *)

\* The listings in gone are out of the book, and their bidders have the bids.
Dropped(s, t, gone) ==
  /\ SameHomes(s, t) /\ SameRelics(s, t) /\ t.nextAuction = s.nextAuction
  /\ t.checking = s.checking /\ t.outside = s.outside /\ Worth(t) = Worth(s)
  /\ \A b \in Accounts : t.wallet[b] >= s.wallet[b]
  /\ \A b \in Accounts : (\A id \in gone : s.auctions[id].bidder # b) => t.wallet[b] = s.wallet[b]
  /\ \A id : id \in DOMAIN t.auctions <=> id \in DOMAIN s.auctions /\ id \notin gone
  /\ \A id \in DOMAIN t.auctions : t.auctions[id] = s.auctions[id]

\* One listing leaves.
LEMMA WithdrawIs ==
  ASSUME NEW s \in Economy, NEW id \in DOMAIN s.auctions, NEW t, t = Withdraw(s, id)
  PROVE  /\ t \in Economy /\ SameHomes(s, t) /\ SameRelics(s, t) /\ t.nextAuction = s.nextAuction
         /\ t.checking = s.checking /\ t.outside = s.outside /\ Worth(t) = Worth(s)
         /\ \A b \in Accounts : t.wallet[b] >= s.wallet[b]
         /\ \A b \in Accounts : b # s.auctions[id].bidder => t.wallet[b] = s.wallet[b]
         /\ \A i : i \in DOMAIN t.auctions <=> i \in DOMAIN s.auctions /\ i # id
         /\ \A i \in DOMAIN t.auctions : t.auctions[i] = s.auctions[i]
<1>1. PICK u : u = Refund(s, id)
  OBVIOUS
<1>2. /\ u \in Economy /\ SameHomes(s, u) /\ SameRelics(s, u) /\ SameAuctions(s, u)
      /\ u.checking = s.checking /\ u.outside = s.outside
      /\ \A b \in Accounts : u.wallet[b] >= s.wallet[b]
  BY <1>1, RefundIs
<1>3. \A b \in Accounts : b # s.auctions[id].bidder => u.wallet[b] = s.wallet[b]
  BY <1>1, RefundIs
<1>4. Worth(u) = Worth(s) + s.auctions[id].bid
  BY <1>1, RefundIs
<1>5. PICK g : g = Without(u.auctions, id)
  OBVIOUS
<1>6. PICK next : next = u.nextAuction
  OBVIOUS
<1>7. id \in DOMAIN u.auctions /\ u.auctions = s.auctions
  BY <1>2 DEF SameAuctions
<1>8. g \in Tables(Offer) /\ InEscrow(g) = InEscrow(u.auctions) - u.auctions[id].bid
  BY <1>2, <1>5, <1>7, ListingLeaves
<1>9. \A i : i \in DOMAIN g <=> i \in DOMAIN u.auctions /\ i # id
  BY <1>2, <1>5, <1>7, ListingLeaves
<1>10. \A i \in DOMAIN g : g[i] = u.auctions[i]
  BY <1>2, <1>5, <1>7, ListingLeaves
<1>11. next \in Nat \ {0} /\ \A i \in DOMAIN g : i < next
  BY <1>2, <1>6, <1>9, NumbersGiven
<1>12. t = AuctionsPut(u, g, next)
  BY <1>1, <1>2, <1>5, <1>6 DEF Withdraw, AuctionsPut, Economy
<1>13. /\ t.auctions = g /\ t.nextAuction = next /\ SameCash(u, t) /\ SameRelics(u, t)
       /\ SameHomes(u, t) /\ t \in Economy
  BY <1>2, <1>8, <1>11, <1>12, AuctionsPutIs
<1>14. Worth(t) = Worth(s)
  <2>1. /\ Total(u.wallet) \in Int /\ Total(u.checking) \in Int
        /\ InEscrow(u.auctions) \in Int /\ u.outside \in Int
    BY <1>2, WorthIs
  <2>2. s.auctions[id].bid \in Nat
    BY NumbersGiven DEF Offer, Listing
  <2>3. Worth(t) = Worth(u) - s.auctions[id].bid
    BY <1>7, <1>8, <1>13, <2>1, <2>2 DEF Worth, SameCash
  <2>4. Worth(s) \in Int
    BY WorthIs
  <2> QED
    BY <1>4, <2>2, <2>3, <2>4
<1>15. SameHomes(s, t) /\ SameRelics(s, t) /\ t.wallet = u.wallet /\ t.checking = s.checking
       /\ t.outside = s.outside /\ t.nextAuction = s.nextAuction
  BY <1>2, <1>6, <1>13 DEF SameHomes, SameRelics, SameCash, SameAuctions
<1> QED
  BY <1>2, <1>3, <1>7, <1>9, <1>10, <1>13, <1>14, <1>15

\* A listing more leaves.
LEMMA DroppedMore ==
  ASSUME NEW s \in Economy, NEW t \in Economy, NEW gone, Dropped(s, t, gone), NEW id \in DOMAIN t.auctions,
         NEW u, u = Withdraw(t, id), NEW all, \A i : i \in all <=> i \in gone \/ i = id
  PROVE  u \in Economy /\ Dropped(s, u, all)
<1>1. /\ u \in Economy /\ SameHomes(t, u) /\ SameRelics(t, u) /\ u.nextAuction = t.nextAuction
      /\ u.checking = t.checking /\ u.outside = t.outside /\ Worth(u) = Worth(t)
  BY WithdrawIs
<1>2. \A b \in Accounts : u.wallet[b] >= t.wallet[b] /\ (b # t.auctions[id].bidder => u.wallet[b] = t.wallet[b])
  BY WithdrawIs
<1>3. \A i : i \in DOMAIN u.auctions <=> i \in DOMAIN t.auctions /\ i # id
  BY WithdrawIs
<1>4. \A i \in DOMAIN u.auctions : u.auctions[i] = t.auctions[i]
  BY WithdrawIs
<1>5. SameHomes(s, u) /\ SameRelics(s, u) /\ u.nextAuction = s.nextAuction
      /\ u.checking = s.checking /\ u.outside = s.outside /\ Worth(u) = Worth(s)
  BY <1>1 DEF Dropped, SameHomes, SameRelics
<1>6. ASSUME NEW b \in Accounts
      PROVE  u.wallet[b] >= s.wallet[b] /\ ((\A i \in all : s.auctions[i].bidder # b) => u.wallet[b] = s.wallet[b])
  <2>1. u.wallet[b] \in Nat /\ t.wallet[b] \in Nat /\ s.wallet[b] \in Nat
    BY <1>1, EconomyIs
  <2>2. u.wallet[b] >= t.wallet[b] /\ t.wallet[b] >= s.wallet[b]
    BY <1>2 DEF Dropped
  <2>3. (\A i \in all : s.auctions[i].bidder # b) => u.wallet[b] = s.wallet[b]
    BY <1>2 DEF Dropped
  <2> QED
    BY <2>1, <2>2, <2>3
<1>7. \A i : i \in DOMAIN u.auctions <=> i \in DOMAIN s.auctions /\ i \notin all
  BY <1>3 DEF Dropped
<1>8. \A i \in DOMAIN u.auctions : u.auctions[i] = s.auctions[i]
  BY <1>3, <1>4 DEF Dropped
<1> QED
  BY <1>1, <1>5, <1>6, <1>7, <1>8 DEF Dropped

\* All of some listings leave.
LEMMA WithdrawnIs ==
  ASSUME NEW s \in Economy, NEW on \in SUBSET DOMAIN s.auctions, NEW r, r = Withdrawn(s, on)
  PROVE  r \in Economy /\ Dropped(s, r, on)
<1>1. PICK n \in Nat : on \in SUBSET (1..n)
  <2>1. s.nextAuction - 1 \in Nat /\ DOMAIN s.auctions \subseteq 1..(s.nextAuction - 1)
    BY EconomyIs
  <2> QED
    BY <2>1
<1>2. PICK m \in Nat : m = Cardinality(on)
  BY <1>1, InOrderIs
<1>3. PICK seq \in [1..m -> on] : seq = InOrder(on)
  BY <1>1, <1>2, InOrderIs
<1>4. /\ \A i, j \in 1..m : seq[i] = seq[j] => i = j
      /\ \A id \in on : \E i \in 1..m : seq[i] = id
  BY <1>1, <1>2, <1>3, InOrderIs
<1> DEFINE Gone(T) == {seq[j] : j \in T}
           W == [T \in SUBSET (1..m) |-> {u \in Economy : Dropped(s, u, Gone(T))}]
           V == UNION {W[T] : T \in SUBSET (1..m)}
           step == [p \in (1..m) \X V |-> Withdraw(p[2], seq[p[1]])]
           Iter(g) == g = [T \in SUBSET DOMAIN seq |->
                            IF T = {} THEN s ELSE Withdraw(g[T \ {Max(T)}], seq[Max(T)])]
<1>5. s \in W[{}]
  <2>1. Dropped(s, s, {})
    BY EconomyIs DEF Dropped, SameHomes, SameRelics
  <2> QED
    BY <2>1
<1>6. ASSUME NEW T \in SUBSET (1..m), T # {}, NEW u \in W[T \ {Max(T)}]
      PROVE  /\ Max(T) \in 1..m /\ u \in V /\ Withdraw(u, seq[Max(T)]) \in W[T]
             /\ step[<<Max(T), u>>] = Withdraw(u, seq[Max(T)])
  <2>1. PICK k \in T : k = Max(T)
    BY <1>6, MaxExists
  <2>2. PICK rest : rest = T \ {k}
    OBVIOUS
  <2>3. rest \in SUBSET (1..m) /\ u \in W[rest]
    BY <1>6, <2>1, <2>2
  <2>4. u \in Economy /\ Dropped(s, u, Gone(rest)) /\ u \in V
    BY <2>3
  <2>5. PICK id \in on : id = seq[k]
    BY <1>3, <2>1
  <2>6. \A i : i \in Gone(T) <=> i \in Gone(rest) \/ i = id
    BY <2>1, <2>2, <2>5
  <2>7. id \notin Gone(rest)
    BY <1>4, <2>1, <2>2, <2>3, <2>5
  <2>8. id \in DOMAIN u.auctions
    BY <2>4, <2>5, <2>7 DEF Dropped
  <2>9. PICK w : w = Withdraw(u, id)
    OBVIOUS
  <2>10. w \in Economy /\ Dropped(s, w, Gone(T))
    <3> HIDE DEF Gone
    <3>1. PICK gone : gone = Gone(rest)
      OBVIOUS
    <3>2. PICK all : all = Gone(T)
      OBVIOUS
    <3>3. Dropped(s, u, gone) /\ \A i : i \in all <=> i \in gone \/ i = id
      BY <2>4, <2>6, <3>1, <3>2
    <3> QED
      BY <2>4, <2>8, <2>9, <3>2, <3>3, DroppedMore
  <2>11. w \in W[T]
    BY <2>10
  <2>12. step[<<k, u>>] = Withdraw(u, seq[k])
    <3> HIDE DEF V
    <3> QED
      BY <2>1, <2>4
  <2> HIDE DEF W, V, step
  <2> QED
    BY <2>1, <2>4, <2>5, <2>9, <2>11, <2>12
<1>7. PICK g : /\ g = [T \in SUBSET (1..m) |-> g[T]]
               /\ \A T \in SUBSET (1..m) : g[T] \in W[T]
               /\ Steps(g, m, s, step)
  <2> HIDE DEF W, V, step
  <2>1. \A T \in SUBSET (1..m) : T # {} => \A u \in W[T \ {Max(T)}] : step[<<Max(T), u>>] \in W[T]
    BY <1>6
  <2> QED
    BY <1>5, <2>1, IteratesIn
<1>8. DOMAIN seq = 1..m
  OBVIOUS
<1>9. Iter(g)
  <2>1. ASSUME NEW T \in SUBSET (1..m), T # {}
        PROVE  g[T] = Withdraw(g[T \ {Max(T)}], seq[Max(T)])
    <3> HIDE DEF W, V, step
    <3>1. g[T \ {Max(T)}] \in W[T \ {Max(T)}]
      BY <1>7
    <3> QED
      BY <1>6, <1>7, <2>1, <3>1 DEF Steps
  <2>2. g[{}] = s
    BY <1>7 DEF Steps
  <2>3. g = [T \in SUBSET (1..m) |-> IF T = {} THEN s ELSE Withdraw(g[T \ {Max(T)}], seq[Max(T)])]
    <3> HIDE DEF W, V, step
    <3> QED
      BY <1>7, <2>1, <2>2
  <2> QED
    BY <1>8, <2>3
<1>10. PICK it : it = CHOOSE h : Iter(h)
  OBVIOUS
<1>11. Iter(it)
  <2> HIDE DEF Iter
  <2> QED
    BY <1>9, <1>10
<1>12. r = it[1..m]
  <2>1. r = (CHOOSE h : Iter(h))[DOMAIN seq]
    BY <1>3 DEF Withdrawn, FoldLeft, MapThenFoldSet
  <2> QED
    BY <1>8, <1>10, <2>1
<1>13. it[1..m] \in W[1..m]
  <2> DEFINE next == [T \in SUBSET (1..m) |-> Withdraw(it[T \ {Max(T)}], seq[Max(T)])]
  <2>1. \A T \in SUBSET (1..m) : it[T] = IF T = {} THEN s ELSE next[T]
    BY <1>8, <1>11
  <2>2. \A T \in SUBSET (1..m) : T # {} /\ it[T \ {Max(T)}] \in W[T \ {Max(T)}] => next[T] \in W[T]
    <3> HIDE DEF W, V, step
    <3> QED
      BY <1>6
  <2> HIDE DEF W, next
  <2> QED
    BY <1>5, <2>1, <2>2, LoopIn
<1>14. r \in Economy /\ Dropped(s, r, Gone(1..m))
  BY <1>12, <1>13
<1>15. Gone(1..m) = on
  BY <1>3, <1>4
<1> HIDE DEF Gone
<1> QED
  BY <1>14, <1>15

-----------------------------------------------------------------------------
(* Bankruptcy *)

\* What the bids of a bankrupt were goes outside.
LEMMA ForfeitIs ==
  ASSUME NEW s \in Economy, NEW a \in Accounts, NEW t, t = BidsForfeited(s, a)
  PROVE  /\ t \in Economy /\ Worth(t) = Worth(s) /\ SameHomes(s, t) /\ SameRelics(s, t)
         /\ t.wallet = s.wallet /\ t.checking = s.checking /\ t.nextAuction = s.nextAuction
         /\ DOMAIN t.auctions = DOMAIN s.auctions
         /\ \A id \in DOMAIN s.auctions :
              /\ t.auctions[id].home = s.auctions[id].home
              /\ t.auctions[id].seller = s.auctions[id].seller
              /\ t.auctions[id].relics = s.auctions[id].relics
<1>1. PICK au \in Tables(Offer) : au = s.auctions
  BY EconomyIs
<1>2. PICK D \in SUBSET (Nat \ {0}) : D = DOMAIN au /\ au \in [D -> Offer]
  BY <1>1, TableIs
<1>3. PICK B \in SUBSET D : B = BidsOf(s, a)
  BY <1>1, <1>2 DEF BidsOf
<1>4. PICK g : g = [id \in D |-> IF id \in B THEN [au[id] EXCEPT !.bidder = Nobody, !.bid = 0] ELSE au[id]]
  OBVIOUS
<1>5. ASSUME NEW id \in D
      PROVE  /\ g[id] \in Offer /\ g[id].home = au[id].home /\ g[id].seller = au[id].seller
             /\ g[id].relics = au[id].relics /\ g[id].bid = IF id \in B THEN 0 ELSE au[id].bid
  <2>1. PICK l \in Offer : l = au[id]
    BY <1>2
  <2>2. PICK x : x = [l EXCEPT !.bidder = Nobody, !.bid = 0]
    OBVIOUS
  <2>3. /\ x \in Offer /\ x.home = l.home /\ x.seller = l.seller /\ x.relics = l.relics /\ x.bid = 0
    BY <2>2, Numbers DEF Offer, Listing
  <2>4. g[id] = IF id \in B THEN x ELSE l
    BY <1>4, <2>1, <2>2
  <2> QED
    BY <2>1, <2>3, <2>4
<1>6. g \in [D -> Offer] /\ g \in Tables(Offer)
  <2>1. g \in [D -> Offer]
    BY <1>4, <1>5
  <2> QED
    BY <2>1, IsTable
<1>7. PICK lost : lost = Total([id \in B |-> au[id].bid])
  OBVIOUS
<1>8. PICK e \in [D -> Int] : e = BidsIn(au) /\ IsFiniteSet(D) /\ InEscrow(au) = Total(e) /\ InEscrow(au) \in Int
  BY <1>1, <1>2, BidsAre
<1>9. PICK h \in [D -> Int] : h = BidsIn(g) /\ InEscrow(g) = Total(h)
  <2>1. BidsIn(g) \in [D -> Int]
    BY <1>2, <1>5, <1>6 DEF BidsIn, Offer, Listing
  <2>2. InEscrow(g) = Total(BidsIn(g))
    BY DEF InEscrow, BidsIn
  <2> QED
    BY <2>1, <2>2
<1>10. /\ Total(e) = Total(Only(e, B)) + Total(Only(e, D \ B))
       /\ Total(h) = Total(Only(h, B)) + Total(Only(h, D \ B))
  <2>1. IsFiniteSet(D) /\ e \in [D -> Int] /\ h \in [D -> Int]
    BY <1>8, <1>9
  <2>2. Total(e) = Total(Only(e, B)) + Total(Only(e, D \ B))
    BY <2>1, TotalSplit
  <2>3. Total(h) = Total(Only(h, B)) + Total(Only(h, D \ B))
    BY <2>1, TotalSplit
  <2> QED
    BY <2>2, <2>3
<1>11. /\ IsFiniteSet(B) /\ IsFiniteSet(D \ B)
  BY <1>8, FS_Subset
<1>12. Only(h, D \ B) = Only(e, D \ B) /\ Only(e, B) = [id \in B |-> au[id].bid]
  BY <1>2, <1>5, <1>6, <1>8, <1>9 DEF Only, BidsIn
<1>13. Total(Only(h, B)) = 0
  <2>1. PICK zero \in Nat : zero = 0
    OBVIOUS
  <2>2. PICK f : f = [x \in B |-> zero]
    OBVIOUS
  <2>3. Only(h, B) = f
    BY <1>2, <1>5, <1>6, <1>9, <2>1, <2>2 DEF Only, BidsIn
  <2>4. Total(f) = Cardinality(B) * zero
    BY <1>11, <2>2, TotalConstant
  <2>5. Cardinality(B) \in Nat
    BY <1>11, FS_CardinalityType
  <2> QED
    BY <2>1, <2>3, <2>4, <2>5
<1>14. lost \in Int /\ Total(Only(e, D \ B)) \in Int
  <2>1. Only(e, B) \in [B -> Int] /\ Only(e, D \ B) \in [D \ B -> Int]
    BY <1>8 DEF Only
  <2> QED
    BY <1>7, <1>11, <1>12, <2>1, TotalInt
<1>15. InEscrow(g) = InEscrow(au) - lost
  BY <1>7, <1>8, <1>9, <1>10, <1>12, <1>13, <1>14
<1>16. PICK o \in Int : o = s.outside + lost
  BY <1>14, EconomyIs
<1>17. PICK w \in [Accounts -> Nat] : w = s.wallet
  BY EconomyIs
<1>18. PICK c \in [Accounts -> Nat] : c = s.checking
  BY EconomyIs
<1>19. PICK u : u = CashPut(s, w, c, o)
  OBVIOUS
<1>20. /\ u.wallet = w /\ u.checking = c /\ u.outside = o
       /\ SameRelics(s, u) /\ SameHomes(s, u) /\ SameAuctions(s, u) /\ u \in Economy
  BY <1>19, CashPutIs
<1>21. PICK next : next = s.nextAuction
  OBVIOUS
<1>22. next \in Nat \ {0} /\ \A i \in DOMAIN g : i < next
  BY <1>1, <1>2, <1>6, <1>21, NumbersGiven
<1>23. t = AuctionsPut(u, g, next)
  <2>1. t = [s EXCEPT !.auctions = g, !.outside = o]
    <3>1. t = [s EXCEPT
                !.auctions = [id \in DOMAIN @ |-> IF id \in B
                               THEN [@[id] EXCEPT !.bidder = Nobody, !.bid = 0] ELSE @[id]],
                !.outside = @ + Total([id \in B |-> s.auctions[id].bid])]
      BY <1>3 DEF BidsForfeited
    <3>2. Total([id \in B |-> s.auctions[id].bid]) = lost
      BY <1>1, <1>7
    <3>3. [id \in DOMAIN s.auctions |-> IF id \in B
                               THEN [s.auctions[id] EXCEPT !.bidder = Nobody, !.bid = 0] ELSE s.auctions[id]] = g
      BY <1>1, <1>2, <1>4
    <3> QED
      BY <1>16, <3>1, <3>2, <3>3 DEF Economy
  <2> QED
    BY <1>17, <1>18, <1>19, <1>21, <2>1 DEF AuctionsPut, CashPut, Economy
<1>24. /\ t.auctions = g /\ t.nextAuction = next /\ SameCash(u, t) /\ SameRelics(u, t)
       /\ SameHomes(u, t) /\ t \in Economy
  BY <1>6, <1>20, <1>22, <1>23, AuctionsPutIs
<1>25. SameHomes(s, t) /\ SameRelics(s, t)
  BY <1>20, <1>24 DEF SameHomes, SameRelics
<1>26. t.wallet = s.wallet /\ t.checking = s.checking /\ t.outside = s.outside + lost
  BY <1>16, <1>17, <1>18, <1>20, <1>24 DEF SameCash
<1>27. Worth(t) = Worth(s)
  <2>1. /\ Total(s.wallet) \in Int /\ Total(s.checking) \in Int /\ s.outside \in Int
    BY WorthIs
  <2> QED
    BY <1>1, <1>8, <1>14, <1>15, <1>24, <1>26, <2>1 DEF Worth
<1>28. DOMAIN t.auctions = DOMAIN s.auctions
  BY <1>1, <1>2, <1>6, <1>24
<1> QED
  BY <1>1, <1>2, <1>5, <1>21, <1>24, <1>25, <1>26, <1>27, <1>28

\* The relics of a are gone.
LEMMA CountedKept ==
  ASSUME NEW q \in Seq(Relic), NEW count \in [Accounts -> Nat], Counted(q, count), NEW a \in Accounts,
         NEW gone \in SUBSET DOMAIN q, \A k \in DOMAIN q : k \in gone <=> q[k].owner = a,
         NEW r, r = Kept(q, gone), NEW c, c = Put(count, a, 0)
  PROVE  c \in [Accounts -> Nat] /\ Counted(r, c) /\ \A b \in Accounts \ {a} : c[b] = count[b]
<1>1. c \in [Accounts -> Nat] /\ c[a] = 0 /\ \A b \in Accounts \ {a} : c[b] = count[b]
  BY DEF Put
<1>2. ASSUME NEW b \in Accounts
      PROVE  c[b] - Cardinality(Having(r, Loose(b))) \in {0, LegacyRelics[b]}
  <2>1. PICK R : R = Loose(b)
    OBVIOUS
  <2>2. PICK both : both = Having(q, R) \cap gone
    OBVIOUS
  <2>3. Cardinality(Having(r, R)) = Cardinality(Having(q, R)) - Cardinality(both)
    BY <2>2, HavingKept
  <2>4. Cardinality(Having(q, R)) \in Nat
    BY HavingFinite
  <2>5. CASE b = a
    <3>1. both = Having(q, R)
      BY <2>1, <2>2, <2>5 DEF Having, Loose, Free
    <3> QED
      BY <1>1, <2>1, <2>3, <2>4, <2>5, <3>1
  <2>6. CASE b # a
    <3>1. both = {}
      BY <2>1, <2>2, <2>6 DEF Having, Loose, Free
    <3>2. Cardinality(Having(r, R)) = Cardinality(Having(q, R))
      BY <2>3, <2>4, <3>1, FS_EmptySet
    <3> QED
      BY <1>1, <2>1, <2>6, <3>2 DEF Counted
  <2> QED
    BY <2>5, <2>6
<1> QED
  BY <1>1, <1>2 DEF Counted

\* Some listings have left, and others may have lost their bids.
Thinner(auctions, g) ==
  \A id \in DOMAIN g :
    /\ id \in DOMAIN auctions /\ g[id].home = auctions[id].home
    /\ g[id].seller = auctions[id].seller /\ g[id].relics = auctions[id].relics

\* Homes of a leave together with the listings that offer them.
LEMMA HomesLeave ==
  ASSUME NEW s, NEW n, Good(s, n), NEW a \in Accounts, NEW c \in Economy,
         SameHomes(s, c), SameRelics(s, c), c.nextAuction = s.nextAuction, Thinner(s.auctions, c.auctions),
         NEW D, \A h \in D : h \in DOMAIN s.homes, \A h \in DOMAIN s.homes : h \notin D => s.homes[h].owner = a,
         \A id \in DOMAIN s.auctions :
            s.auctions[id].home \in DOMAIN s.homes => (id \in DOMAIN c.auctions <=> s.auctions[id].home \in D),
         NEW f, f = Restrict(s.homes, D), NEW v \in {0, 1}, v = 0 \/ Owns(f, a),
         NEW level, level = Put(s.level, a, v),
         NEW u, u = HomesPut(c, f, s.nextHome, level, s.granted)
  PROVE  /\ Good(u, n) /\ SameCash(c, u) /\ SameRelics(s, u) /\ SameAuctions(c, u)
         /\ \A b \in Accounts \ {a} : Has(u, b) => Has(s, b)
<1>1. s \in Economy
  BY DEF Good
<1>2. PICK old \in Tables(Home) : old = s.homes
  BY <1>1, EconomyIs
<1>3. f \in Tables(Home) /\ DOMAIN f = D /\ \A h \in D : f[h] = old[h]
  <2>1. D \subseteq DOMAIN old /\ f = Restrict(old, D)
    BY <1>2
  <2> QED
    BY <1>2, <2>1, TableRestrict
<1>4. PICK au \in Tables(Offer) : au = s.auctions
  BY <1>1, EconomyIs
<1>5. PICK k \in Tables(Offer) : k = c.auctions
  BY EconomyIs
<1>6. Thinner(au, k)
  BY <1>4, <1>5
<1>7. Offered(f, k)
  <2>1. PICK g : g = Restrict(au, DOMAIN k)
    OBVIOUS
  <2>2. DOMAIN k \subseteq DOMAIN au
    BY <1>6 DEF Thinner
  <2>3. DOMAIN g = DOMAIN k /\ \A id \in DOMAIN k : g[id] = au[id]
    BY <2>1, <2>2, TableRestrict
  <2>4. Offered(old, au)
    BY <1>2, <1>4 DEF Good
  <2>5. DOMAIN f \subseteq DOMAIN old /\ \A h \in DOMAIN f : f[h] = old[h]
    BY <1>2, <1>3
  <2>6. DOMAIN g \subseteq DOMAIN au /\ \A id \in DOMAIN g : g[id] = au[id]
    BY <2>2, <2>3
  <2>7. \A id \in DOMAIN au : au[id].home \in DOMAIN old => (id \in DOMAIN g <=> au[id].home \in DOMAIN f)
    BY <1>2, <1>3, <1>4, <1>5, <2>3
  <2>8. Offered(f, g)
    BY <2>4, <2>5, <2>6, <2>7, OfferedLess
  <2>9. DOMAIN k = DOMAIN g /\ \A id \in DOMAIN g : k[id].home = g[id].home /\ k[id].seller = g[id].seller
    BY <1>6, <2>3 DEF Thinner
  <2> QED
    BY <2>8, <2>9, OfferedSame
<1>8. PICK lv \in [Accounts -> {0, 1}] : lv = s.level
  BY <1>1, EconomyIs
<1>9. level \in [Accounts -> {0, 1}] /\ level[a] = v /\ \A b \in Accounts \ {a} : level[b] = lv[b]
  BY <1>8 DEF Put
<1>10. \A b \in Accounts \ {a} : Owns(f, b) <=> Owns(old, b)
  BY <1>2, <1>3 DEF Owns
<1>11. PICK granted \in [Accounts -> Nat] : granted = s.granted
  BY <1>1, EconomyIs
<1>12. Levelled(f, level, granted)
  <2>1. Levelled(old, lv, granted)
    BY <1>2, <1>8, <1>11 DEF Good
  <2> QED
    BY <1>9, <1>10, <2>1 DEF Levelled
<1>13. PICK next \in Nat \ {0} : next = s.nextHome
  BY <1>1, EconomyIs
<1>14. \A h \in DOMAIN f : h < next /\ f[h].rented <= n
  BY <1>1, <1>2, <1>3, <1>13, NumbersGiven DEF Good
<1>15. u = HomesPut(c, f, next, level, granted)
  BY <1>11, <1>13
<1>16. u.homes = f /\ u.level = level /\ u.granted = granted
  BY <1>15, HomesPutIs
<1>17. SameCash(c, u) /\ SameRelics(c, u) /\ SameAuctions(c, u)
  BY <1>15, HomesPutIs
<1>18. u \in Economy
  BY <1>3, <1>9, <1>11, <1>13, <1>14, <1>15, HomesPutIs
<1>19. SameRelics(s, u) /\ u.auctions = k /\ u.nextAuction = s.nextAuction
  BY <1>5, <1>17 DEF SameRelics, SameAuctions
<1>20. PICK q : q = s.relics
  OBVIOUS
<1>21. PICK m : m = s.nextAuction
  OBVIOUS
<1>22. Holding(q, k, m)
  <2>1. Holding(q, au, m)
    BY <1>4, <1>20, <1>21 DEF Good
  <2> QED
    BY <1>6, <2>1 DEF Holding, Thinner
<1>23. Holding(u.relics, u.auctions, u.nextAuction) /\ Counted(u.relics, u.count)
  BY <1>19, <1>20, <1>21, <1>22 DEF Good, SameRelics
<1>24. Good(u, n)
  BY <1>7, <1>12, <1>14, <1>16, <1>18, <1>19, <1>23 DEF Good
<1>25. \A b \in Accounts \ {a} : Has(u, b) => Has(s, b)
  BY <1>2, <1>8, <1>9, <1>10, <1>16 DEF Has
<1> QED
  BY <1>17, <1>19, <1>24, <1>25

\* The relics of a are gone, which has none up for auction.
LEMMA RelicsLeave ==
  ASSUME NEW s, NEW n, Good(s, n), NEW a \in Accounts, \A id \in DOMAIN s.auctions : s.auctions[id].seller # a,
         NEW gone, \A k : k \in gone <=> k \in DOMAIN s.relics /\ s.relics[k].owner = a,
         NEW q, q = Kept(s.relics, gone), NEW c, c = Put(s.count, a, 0), NEW t, t = RelicsPut(s, q, c)
  PROVE  /\ Does(s, t, a, n) /\ SameCash(s, t) /\ SameHomes(s, t) /\ SameAuctions(s, t)
         /\ \A b \in Accounts \ {a} : t.count[b] = s.count[b]
<1>1. s \in Economy
  BY DEF Good
<1>2. PICK rel \in Seq(Relic) : rel = s.relics
  BY <1>1, EconomyIs
<1>3. gone \in SUBSET DOMAIN rel /\ \A k \in DOMAIN rel : k \in gone <=> rel[k].owner = a
  BY <1>2
<1>4. PICK count \in [Accounts -> Nat] : count = s.count
  BY <1>1, EconomyIs
<1>5. q = Kept(rel, gone) /\ c = Put(count, a, 0)
  BY <1>2, <1>3, <1>4
<1>6. Counted(rel, count)
  BY <1>2, <1>4 DEF Good
<1>7. \A k \in DOMAIN rel : k \in gone <=> rel[k].owner = a
  BY <1>3
<1>8. c \in [Accounts -> Nat]
  BY <1>4, <1>5 DEF Put
<1>9. Counted(q, c)
  BY <1>3, <1>4, <1>5, <1>6, <1>7, CountedKept
<1>10. \A b \in Accounts \ {a} : c[b] = count[b]
  BY <1>4, <1>5 DEF Put
<1>11. PICK au : au = s.auctions
  OBVIOUS
<1>12. PICK m : m = s.nextAuction
  OBVIOUS
<1>13. q \in Seq(Relic) /\ Holding(q, au, m)
  <2>1. Holding(rel, au, m)
    BY <1>2, <1>11, <1>12 DEF Good
  <2>2. \A k \in DOMAIN rel : rel[k] \in Relic
    BY HavingFinite
  <2>3. \A id \in DOMAIN au : \A k \in DOMAIN rel : rel[k].auction = id => k \in Having(rel, Held(id))
    BY <2>2 DEF Having, Held, Relic
  <2>4. \A id \in DOMAIN au : \A k \in DOMAIN rel : rel[k].auction = id => rel[k].owner # a
    BY <1>11, <2>1, <2>3 DEF Holding
  <2>5. \A id \in DOMAIN au : \A k \in gone : rel[k].auction # id
    BY <1>3, <2>4
  <2>6. q = Kept(rel, gone)
    BY <1>5
  <2>7. gone \in SUBSET DOMAIN rel
    BY <1>3
  <2> QED
    BY <1>2, <2>1, <2>5, <2>6, <2>7, HoldingKept
<1>14. Holding(q, s.auctions, s.nextAuction)
  BY <1>11, <1>12, <1>13
<1>15. \A b \in Accounts : Player(b) # Player(a) => c[b] = s.count[b]
  BY <1>4, <1>10
<1>16. Does(s, t, a, n)
  BY <1>8, <1>9, <1>13, <1>14, <1>15, RelicsChange
<1>17. t.count = c /\ SameCash(s, t) /\ SameHomes(s, t) /\ SameAuctions(s, t)
  BY <1>1, RelicsPutIs
<1> QED
  BY <1>4, <1>10, <1>16, <1>17

\* What is left of a bankrupt: the record that the call leaves.
Stripped(closed, s, a, left) ==
  [closed EXCEPT
    !.homes = Restrict(@, DOMAIN @ \ HomesOf(s, a)),
    !.level[a] = 0,
    !.relics = Kept(@, {k \in DOMAIN @ : @[k].owner = a}),
    !.count[a] = 0,
    !.outside = @ + s.checking[a] + s.wallet[a] - left,
    !.checking[a] = 0,
    !.wallet[a] = left]

\* All that the bankrupt offers leaves, and so do its bids.
LEMMA BankruptOut ==
  ASSUME NEW s, NEW n, Good(s, n), NEW a \in Accounts,
         NEW c, c = BidsForfeited(Withdrawn(s, ListingsOf(s, a)), a)
  PROVE  /\ c \in Economy /\ SameHomes(s, c) /\ SameRelics(s, c) /\ c.nextAuction = s.nextAuction
         /\ Thinner(s.auctions, c.auctions) /\ Worth(c) = Worth(s) /\ c.checking = s.checking
         /\ \A b \in Accounts : c.wallet[b] >= s.wallet[b]
         /\ c.wallet[a] = s.wallet[a]
         /\ \A id : id \in DOMAIN c.auctions <=> id \in DOMAIN s.auctions /\ s.auctions[id].seller # a
<1>1. s \in Economy
  BY DEF Good
<1>2. PICK on \in SUBSET DOMAIN s.auctions : on = ListingsOf(s, a)
  BY DEF ListingsOf
<1>3. PICK w : w = Withdrawn(s, on)
  OBVIOUS
<1>4. w \in Economy /\ Dropped(s, w, on)
  BY <1>1, <1>3, WithdrawnIs
<1>5. c = BidsForfeited(w, a)
  BY <1>2, <1>3
<1>6. /\ c \in Economy /\ Worth(c) = Worth(w) /\ SameHomes(w, c) /\ SameRelics(w, c)
      /\ c.wallet = w.wallet /\ c.checking = w.checking /\ c.nextAuction = w.nextAuction
  BY <1>4, <1>5, ForfeitIs
<1>7. DOMAIN c.auctions = DOMAIN w.auctions
  BY <1>4, <1>5, ForfeitIs
<1>8. \A id \in DOMAIN w.auctions :
        /\ c.auctions[id].home = w.auctions[id].home
        /\ c.auctions[id].seller = w.auctions[id].seller
        /\ c.auctions[id].relics = w.auctions[id].relics
  BY <1>4, <1>5, ForfeitIs
<1>9. /\ SameHomes(s, w) /\ SameRelics(s, w) /\ w.nextAuction = s.nextAuction
      /\ w.checking = s.checking /\ Worth(w) = Worth(s)
      /\ \A b \in Accounts : w.wallet[b] >= s.wallet[b]
  BY <1>4 DEF Dropped
<1>10. /\ \A id : id \in DOMAIN w.auctions <=> id \in DOMAIN s.auctions /\ id \notin on
       /\ \A id \in DOMAIN w.auctions : w.auctions[id] = s.auctions[id]
  BY <1>4 DEF Dropped
<1>11. w.wallet[a] = s.wallet[a]
  <2>1. \A id \in on : s.auctions[id].seller = a
    BY <1>2 DEF ListingsOf
  <2>2. \A id \in DOMAIN s.auctions : s.auctions[id] \in Offer
    BY <1>1, NumbersGiven
  <2>3. \A id \in on : s.auctions[id].bidder # a
    BY <2>1, <2>2 DEF Offer
  <2> QED
    BY <1>4, <2>3 DEF Dropped
<1>12. SameHomes(s, c)
  BY <1>6, <1>9 DEF SameHomes
<1>13. SameRelics(s, c)
  BY <1>6, <1>9 DEF SameRelics
<1>14. Thinner(s.auctions, c.auctions)
  BY <1>7, <1>8, <1>10 DEF Thinner
<1>15. \A id \in DOMAIN s.auctions : id \in on <=> s.auctions[id].seller = a
  BY <1>2 DEF ListingsOf
<1>16. \A id : id \in DOMAIN c.auctions <=> id \in DOMAIN s.auctions /\ s.auctions[id].seller # a
  BY <1>7, <1>10, <1>15
<1>17. \A b \in Accounts : c.wallet[b] >= s.wallet[b]
  BY <1>6, <1>9
<1> QED
  BY <1>6, <1>9, <1>11, <1>12, <1>13, <1>14, <1>16, <1>17

\* Bankruptcy.
LEMMA BankruptcyDoes ==
  ASSUME now \in Nat, Good(db, now), NEW a \in Accounts, Bankruptcy(a)
  PROVE  Does(db, db', a, now)
<1>1. PICK s : s = Recorded(db, a)
  OBVIOUS
<1>2. Does(db, s, a, now) /\ db \in Economy
  BY <1>1, RecordedDoes DEF Good
<1>3. Good(s, now) /\ s \in Economy
  BY <1>2 DEF Does, Good
<1>4. PICK x \in Nat : x = s.wallet[a]
  BY <1>3, EconomyIs
<1>5. PICK y \in Nat : y = s.checking[a]
  BY <1>3, EconomyIs
<1>6. PICK left \in Nat : left = Smaller(x, Spared) /\ left <= x
  BY <1>4, Numbers DEF Smaller
<1>7. PICK c : c = BidsForfeited(Withdrawn(s, ListingsOf(s, a)), a)
  OBVIOUS
<1>8. /\ c \in Economy /\ SameHomes(s, c) /\ SameRelics(s, c) /\ c.nextAuction = s.nextAuction
      /\ Thinner(s.auctions, c.auctions) /\ Worth(c) = Worth(s) /\ c.checking = s.checking
  BY <1>3, <1>7, BankruptOut
<1>9. /\ \A b \in Accounts : c.wallet[b] >= s.wallet[b]
      /\ c.wallet[a] = s.wallet[a]
      /\ \A id : id \in DOMAIN c.auctions <=> id \in DOMAIN s.auctions /\ s.auctions[id].seller # a
  BY <1>3, <1>7, BankruptOut
<1>10. db' = Stripped(c, s, a, left)
  BY <1>1, <1>4, <1>6, <1>7 DEF Bankruptcy, Call, Stripped
<1>11. PICK D : D = DOMAIN c.homes \ HomesOf(s, a)
  OBVIOUS
<1>12. PICK f : f = Restrict(c.homes, D)
  OBVIOUS
<1>13. PICK level : level = Put(c.level, a, 0)
  OBVIOUS
<1>14. PICK gone : gone = {k \in DOMAIN c.relics : c.relics[k].owner = a}
  OBVIOUS
<1>15. PICK q : q = Kept(c.relics, gone)
  OBVIOUS
<1>16. PICK count : count = Put(c.count, a, 0)
  OBVIOUS
<1>17. PICK u : u = HomesPut(c, f, c.nextHome, level, c.granted)
  OBVIOUS
<1>18. PICK v : v = RelicsPut(u, q, count)
  OBVIOUS
<1>19. PICK wallet : wallet = Put(c.wallet, a, left)
  OBVIOUS
<1>20. PICK checking : checking = Put(c.checking, a, 0)
  OBVIOUS
<1>21. PICK o : o = c.outside + s.checking[a] + s.wallet[a] - left
  OBVIOUS
<1>22. db' = CashPut(v, wallet, checking, o)
  <2>1. u = [c EXCEPT !.homes = f, !.level = level]
    BY <1>8, <1>17 DEF HomesPut, Economy
  <2>2. v = [c EXCEPT !.homes = f, !.level = level, !.relics = q, !.count = count]
    BY <1>8, <1>18, <2>1 DEF RelicsPut, Economy
  <2>3. db' = [c EXCEPT !.homes = f, !.level = level, !.relics = q, !.count = count,
                        !.outside = o, !.checking = checking, !.wallet = wallet]
    BY <1>8, <1>10, <1>11, <1>12, <1>13, <1>14, <1>15, <1>16, <1>19, <1>20, <1>21 DEF Stripped, Put, Economy
  <2> QED
    BY <1>8, <2>2, <2>3 DEF CashPut, Economy
<1>23. /\ Good(u, now) /\ SameCash(c, u) /\ SameRelics(s, u) /\ SameAuctions(c, u)
       /\ \A b \in Accounts \ {a} : Has(u, b) => Has(s, b)
  <2>1. c.homes = s.homes /\ c.level = s.level /\ c.granted = s.granted /\ c.nextHome = s.nextHome
    BY <1>8 DEF SameHomes
  <2>2. \A h \in D : h \in DOMAIN s.homes
    BY <1>11, <2>1
  <2>3. \A h \in DOMAIN s.homes : h \in D <=> s.homes[h].owner # a
    BY <1>11, <2>1 DEF HomesOf
  <2>4. \A h \in DOMAIN s.homes : h \notin D => s.homes[h].owner = a
    BY <2>3
  <2>5. ASSUME NEW id \in DOMAIN s.auctions, s.auctions[id].home \in DOMAIN s.homes
        PROVE  id \in DOMAIN c.auctions <=> s.auctions[id].home \in D
    <3>1. s.auctions[id].home # 0
      BY <1>3, <2>5, NumbersGiven
    <3>2. s.homes[s.auctions[id].home].owner = s.auctions[id].seller
      BY <1>3, <3>1 DEF Good, Offered
    <3> QED
      BY <1>9, <2>3, <2>5, <3>2
  <2>6. f = Restrict(s.homes, D) /\ level = Put(s.level, a, 0)
    BY <1>12, <1>13, <2>1
  <2>7. u = HomesPut(c, f, s.nextHome, level, s.granted)
    BY <1>17, <2>1
  <2>8. PICK none \in {0, 1} : none = 0
    OBVIOUS
  <2>9. level = Put(s.level, a, none) /\ (none = 0 \/ Owns(f, a))
    BY <2>6, <2>8
  <2>10. /\ Good(u, now) /\ SameCash(c, u) /\ SameRelics(s, u) /\ SameAuctions(c, u)
    BY <1>3, <1>8, <2>2, <2>4, <2>5, <2>6, <2>7, <2>9, HomesLeave
  <2>11. \A b \in Accounts \ {a} : Has(u, b) => Has(s, b)
    BY <1>3, <1>8, <2>2, <2>4, <2>5, <2>6, <2>7, <2>9, HomesLeave
  <2> QED
    BY <2>10, <2>11
<1>24. u.relics = c.relics /\ u.count = c.count /\ u.relics = s.relics /\ u.count = s.count
  BY <1>8, <1>23 DEF SameRelics
<1>25. /\ Does(u, v, a, now) /\ SameCash(u, v) /\ SameHomes(u, v) /\ SameAuctions(u, v)
       /\ \A b \in Accounts \ {a} : v.count[b] = u.count[b]
  <2>1. \A id \in DOMAIN u.auctions : u.auctions[id].seller # a
    <3>1. u.auctions = c.auctions
      BY <1>23 DEF SameAuctions
    <3>2. \A id \in DOMAIN c.auctions : c.auctions[id].seller = s.auctions[id].seller
      BY <1>8 DEF Thinner
    <3> QED
      BY <1>9, <3>1, <3>2
  <2>2. \A k : k \in gone <=> k \in DOMAIN u.relics /\ u.relics[k].owner = a
    BY <1>14, <1>24
  <2>3. q = Kept(u.relics, gone) /\ count = Put(u.count, a, 0)
    BY <1>15, <1>16, <1>24
  <2>4. Does(u, v, a, now) /\ SameCash(u, v) /\ SameHomes(u, v) /\ SameAuctions(u, v)
    BY <1>18, <1>23, <2>1, <2>2, <2>3, RelicsLeave
  <2>5. \A b \in Accounts \ {a} : v.count[b] = u.count[b]
    <3>1. u \in Economy /\ v = RelicsPut(u, q, count)
      BY <1>18, <1>23 DEF Good
    <3>2. v.count = count
      BY <3>1, RelicsPutIs
    <3>3. u.count \in [Accounts -> Nat]
      BY <3>1, EconomyIs
    <3> QED
      BY <2>3, <3>2, <3>3 DEF Put
  <2> QED
    BY <2>4, <2>5
<1>26. Good(v, now) /\ v \in Economy
  BY <1>25 DEF Does, Good
<1>27. v.wallet = c.wallet /\ v.checking = c.checking /\ v.outside = c.outside /\ v.auctions = c.auctions
  BY <1>23, <1>25 DEF SameCash, SameAuctions
<1>28. PICK cw \in [Accounts -> Nat] : cw = c.wallet
  BY <1>8, EconomyIs
<1>29. PICK cc \in [Accounts -> Nat] : cc = c.checking
  BY <1>8, EconomyIs
<1>30. PICK co \in Int : co = c.outside
  BY <1>8, EconomyIs
<1>31. cw[a] = x /\ cc[a] = y /\ o = co + y + x - left /\ o \in Int
  BY <1>4, <1>5, <1>8, <1>9, <1>21, <1>28, <1>29, <1>30
<1>32. wallet \in [Accounts -> Nat] /\ wallet[a] = left /\ \A b \in Accounts \ {a} : wallet[b] = cw[b]
  BY <1>19, <1>28 DEF Put
<1>33. checking \in [Accounts -> Nat] /\ checking[a] = 0 /\ \A b \in Accounts \ {a} : checking[b] = cc[b]
  BY <1>20, <1>29 DEF Put
<1>34. /\ db'.wallet = wallet /\ db'.checking = checking /\ db'.outside = o
       /\ SameRelics(v, db') /\ SameHomes(v, db') /\ SameAuctions(v, db') /\ db' \in Economy
  BY <1>22, <1>26, <1>31, <1>32, <1>33, CashPutIs
<1>35. Good(db', now) /\ \A b : Has(db', b) => Has(v, b)
  <2>1. PICK t \in Economy : t = db'
    BY <1>34
  <2>2. SameRelics(v, t) /\ SameHomes(v, t) /\ t.auctions = v.auctions /\ t.nextAuction = v.nextAuction
    BY <1>34, <2>1 DEF SameAuctions
  <2>3. Good(t, now)
    BY <1>26, <2>2, SameIsGood
  <2>4. \A b : Has(t, b) => Has(v, b)
    BY <1>26, <2>2, SameIsGood
  <2> QED
    BY <2>1, <2>3, <2>4
<1>36. Worth(v) = Worth(c)
  BY <1>27 DEF Worth
<1>37. Worth(db') = Worth(v)
  <2>1. PICK t \in Economy : t = db'
    BY <1>34
  <2>2. PICK e \in Int : e = 0
    OBVIOUS
  <2>3. t.wallet = wallet /\ t.checking = checking /\ t.outside = o /\ t.auctions = v.auctions
    BY <1>34, <2>1 DEF SameAuctions
  <2>4. v.wallet = cw /\ v.checking = cc /\ v.outside = co
    BY <1>27, <1>28, <1>29, <1>30
  <2>5. \A b \in Accounts \ {a} : t.wallet[b] = v.wallet[b] /\ t.checking[b] = v.checking[b]
    BY <1>32, <1>33, <2>3, <2>4
  <2>6. InEscrow(t.auctions) = InEscrow(v.auctions) + e
    BY <1>26, <2>2, <2>3, WorthIs
  <2>7. Worth(t) = Worth(v) + (t.wallet[a] - v.wallet[a]) + (t.checking[a] - v.checking[a])
                    + e + (t.outside - v.outside)
    BY <1>26, <2>5, <2>6, CashMoves
  <2>8. Worth(v) \in Int
    BY <1>26, WorthIs
  <2>9. Worth(t) = Worth(v) + (left - x) + (0 - y) + 0 + (o - co)
    BY <1>31, <1>32, <1>33, <2>2, <2>3, <2>4, <2>7
  <2> QED
    BY <1>31, <2>1, <2>8, <2>9
<1>38. Spares(s, db', a)
  <2>1. Worth(db') = Worth(s)
    BY <1>8, <1>36, <1>37
  <2>2. ASSUME NEW b \in Accounts \ {a}
        PROVE  db'.wallet[b] >= s.wallet[b] /\ (Has(db', b) => Has(s, b))
    <3>1. db'.wallet[b] >= s.wallet[b]
      BY <1>9, <1>28, <1>32, <1>34
    <3>2. SameHomes(u, v)
      BY <1>25
    <3>3. Has(v, b) => Has(u, b)
      BY <3>2 DEF SameHomes, Has
    <3> QED
      BY <1>23, <1>35, <3>1, <3>3
  <2>3. ASSUME NEW b \in Accounts, Player(b) # Player(a) PROVE db'.count[b] = s.count[b]
    <3>1. db'.count = v.count
      BY <1>34 DEF SameRelics
    <3>2. b # a
      BY <2>3
    <3> QED
      BY <1>24, <1>25, <3>1, <3>2
  <2> QED
    BY <2>1, <2>2, <2>3 DEF Spares
<1> QED
  BY <1>2, <1>35, <1>38, DoesThen DEF Does

-----------------------------------------------------------------------------
(* economy_tick_all *)

\* What the tick makes of a good economy: one as good, of the same worth.
Keeps(s, t, n) == t \in Economy /\ Good(t, n) /\ Worth(t) = Worth(s)

\* What a call does, the tick may do.
LEMMA DoesKeeps ==
  ASSUME NEW s, NEW t, NEW a, NEW n, Does(s, t, a, n)
  PROVE  Keeps(s, t, n)
  BY DEF Does, Spares, Good, Keeps

\* All auctions that have ended are settled.
LEMMA AuctionsTickKeeps ==
  ASSUME NEW s, now \in Nat, Good(s, now), NEW r, r = AuctionsTick(s)
  PROVE  Keeps(s, r, now)
<1>1. s \in Economy
  BY DEF Good
<1>2. PICK on \in SUBSET DOMAIN s.auctions : on = Ended(s)
  BY DEF Ended
<1>3. PICK n \in Nat : on \in SUBSET (1..n)
  <2>1. s.nextAuction - 1 \in Nat /\ DOMAIN s.auctions \subseteq 1..(s.nextAuction - 1)
    BY <1>1, EconomyIs
  <2> QED
    BY <2>1
<1>4. PICK m \in Nat : m = Cardinality(on)
  BY <1>3, InOrderIs
<1>5. PICK seq \in [1..m -> on] : seq = InOrder(on)
  BY <1>3, <1>4, InOrderIs
<1>6. \A i, j \in 1..m : seq[i] = seq[j] => i = j
  BY <1>3, <1>4, <1>5, InOrderIs
<1> DEFINE Left(u, T) == \A j \in 1..m : j \notin T => seq[j] \in DOMAIN u.auctions
           W == [T \in SUBSET (1..m) |-> {u \in Economy : Keeps(s, u, now) /\ Left(u, T)}]
           V == UNION {W[T] : T \in SUBSET (1..m)}
           step == [p \in (1..m) \X V |-> Settle(p[2], seq[p[1]])]
           Iter(g) == g = [T \in SUBSET DOMAIN seq |->
                            IF T = {} THEN s ELSE Settle(g[T \ {Max(T)}], seq[Max(T)])]
<1>7. s \in W[{}]
  <2>1. Keeps(s, s, now)
    BY <1>1 DEF Keeps
  <2>2. Left(s, {})
    BY <1>2, <1>5
  <2> QED
    BY <1>1, <2>1, <2>2
<1>8. ASSUME NEW T \in SUBSET (1..m), T # {}, NEW u \in W[T \ {Max(T)}]
      PROVE  /\ Max(T) \in 1..m /\ u \in V /\ Settle(u, seq[Max(T)]) \in W[T]
             /\ step[<<Max(T), u>>] = Settle(u, seq[Max(T)])
  <2>1. PICK k \in T : k = Max(T)
    BY <1>8, MaxExists
  <2>2. PICK rest : rest = T \ {k}
    OBVIOUS
  <2>3. rest \in SUBSET (1..m) /\ u \in W[rest]
    BY <1>8, <2>1, <2>2
  <2>4. u \in Economy /\ Keeps(s, u, now) /\ Left(u, rest) /\ u \in V
    BY <2>3
  <2>5. PICK id : id = seq[k]
    OBVIOUS
  <2>6. id \in DOMAIN u.auctions
    BY <2>1, <2>2, <2>4, <2>5
  <2>7. PICK w : w = Settle(u, id)
    OBVIOUS
  <2>8. Good(u, now)
    BY <2>4 DEF Keeps
  <2>9. PICK a : Does(u, w, a, now)
    BY <2>6, <2>7, <2>8, SettleDoes
  <2>10. w.auctions = Without(u.auctions, id)
    BY <2>6, <2>7, <2>8, SettleDoes
  <2>11. w \in Economy /\ Keeps(s, w, now)
    BY <2>4, <2>9, DoesKeeps DEF Keeps
  <2>12. \A i : i \in DOMAIN w.auctions <=> i \in DOMAIN u.auctions /\ i # id
    BY <2>4, <2>10, EconomyIs, TableWithout
  <2>13. Left(w, T)
    BY <1>6, <2>1, <2>2, <2>4, <2>5, <2>12
  <2>14. w \in W[T]
    BY <2>11, <2>13
  <2>15. step[<<k, u>>] = Settle(u, seq[k])
    <3> HIDE DEF V
    <3> QED
      BY <2>1, <2>4
  <2> HIDE DEF W, V, step
  <2> QED
    BY <2>1, <2>4, <2>5, <2>7, <2>14, <2>15
<1>9. PICK g : /\ g = [T \in SUBSET (1..m) |-> g[T]]
               /\ \A T \in SUBSET (1..m) : g[T] \in W[T]
               /\ Steps(g, m, s, step)
  <2> HIDE DEF W, V, step
  <2>1. \A T \in SUBSET (1..m) : T # {} => \A u \in W[T \ {Max(T)}] : step[<<Max(T), u>>] \in W[T]
    BY <1>8
  <2> QED
    BY <1>7, <2>1, IteratesIn
<1>10. DOMAIN seq = 1..m
  OBVIOUS
<1>11. Iter(g)
  <2>1. ASSUME NEW T \in SUBSET (1..m), T # {}
        PROVE  g[T] = Settle(g[T \ {Max(T)}], seq[Max(T)])
    <3> HIDE DEF W, V, step
    <3>1. g[T \ {Max(T)}] \in W[T \ {Max(T)}]
      BY <1>9
    <3> QED
      BY <1>8, <1>9, <2>1, <3>1 DEF Steps
  <2>2. g[{}] = s
    BY <1>9 DEF Steps
  <2>3. g = [T \in SUBSET (1..m) |-> IF T = {} THEN s ELSE Settle(g[T \ {Max(T)}], seq[Max(T)])]
    <3> HIDE DEF W, V, step
    <3> QED
      BY <1>9, <2>1, <2>2
  <2> QED
    BY <1>10, <2>3
<1>12. PICK it : it = CHOOSE h : Iter(h)
  OBVIOUS
<1>13. Iter(it)
  <2> HIDE DEF Iter
  <2> QED
    BY <1>11, <1>12
<1>14. r = it[1..m]
  <2>1. r = (CHOOSE h : Iter(h))[DOMAIN seq]
    BY <1>2, <1>5 DEF AuctionsTick, FoldLeft, MapThenFoldSet
  <2> QED
    BY <1>10, <1>12, <2>1
<1>15. it[1..m] \in W[1..m]
  <2> DEFINE next == [T \in SUBSET (1..m) |-> Settle(it[T \ {Max(T)}], seq[Max(T)])]
  <2>1. \A T \in SUBSET (1..m) : it[T] = IF T = {} THEN s ELSE next[T]
    BY <1>10, <1>13
  <2>2. \A T \in SUBSET (1..m) : T # {} /\ it[T \ {Max(T)}] \in W[T \ {Max(T)}] => next[T] \in W[T]
    <3> HIDE DEF W, V, step
    <3> QED
      BY <1>8
  <2> HIDE DEF W, next
  <2> QED
    BY <1>7, <2>1, <2>2, LoopIn
<1> QED
  BY <1>14, <1>15

\* The homes stay, and what a home owes and has paid may change.
Tended(s, t, n) == Keeps(s, t, n) /\ DOMAIN t.homes = DOMAIN s.homes

\* A home in the tick.
LEMMA HomeTended ==
  ASSUME NEW s, NEW n, Good(s, n), NEW h \in DOMAIN s.homes, NEW home \in Home,
         home.owner = s.homes[h].owner, home.listed = s.homes[h].listed, home.rented <= n,
         NEW t, t = [s EXCEPT !.homes[h] = home]
  PROVE  Tended(s, t, n)
<1>1. s \in Economy
  BY DEF Good
<1>2. PICK f : f = Put(s.homes, h, home)
  OBVIOUS
<1>3. t = HomesPut(s, f, s.nextHome, s.level, s.granted)
  BY <1>1, <1>2 DEF HomesPut, Put, Economy
<1>4. DOMAIN t.homes = DOMAIN s.homes
  BY <1>2, <1>3, HomeKept
<1>5. \A a \in Accounts : Does(s, t, a, n)
  BY <1>2, <1>3, HomeKept
<1>6. s.homes[h] \in Home
  BY <1>1, NumbersGiven
<1>7. s.homes[h].owner \in Accounts
  BY <1>6 DEF Home
<1> QED
  BY <1>4, <1>5, <1>7, DoesKeeps DEF Tended

\* The rent of some days.
LEMMA RentPaidTends ==
  ASSUME NEW s, now \in Nat, Good(s, now), NEW h \in DOMAIN s.homes, NEW value \in HomePrices,
         NEW t, t = RentPaid(s, h, value)
  PROVE  Tended(s, t, now)
<1>1. s \in Economy
  BY DEF Good
<1>2. PICK home \in Home : home = s.homes[h]
  BY <1>1, NumbersGiven
<1>3. home.rented <= now
  BY <1>2 DEF Good
<1>4. PICK o \in Accounts : o = home.owner
  BY <1>2 DEF Home
<1>5. PICK days \in Nat : days = Smaller(now - home.rented, MaxRentDays) /\ home.rented + days <= now
  <2>1. home.rented \in Nat /\ MaxRentDays \in Nat
    BY <1>2, Numbers DEF Home
  <2>2. Smaller(now - home.rented, MaxRentDays) \in Nat
    BY <1>3, <2>1 DEF Smaller
  <2>3. home.rented + Smaller(now - home.rented, MaxRentDays) <= now
    BY <1>3, <2>1 DEF Smaller
  <2> QED
    BY <2>2, <2>3
<1>6. PICK rent \in Nat : rent = Rent * days
  <2>1. Rent \in Nat
    BY Numbers
  <2> QED
    BY <2>1
<1>7. PICK p \in Int : p = -rent
  OBVIOUS
<1>8. p = -Rent * days
  <2>1. Rent \in Nat
    BY Numbers
  <2> QED
    BY <1>6, <1>7, <2>1
<1>9. PICK u : u = Spend(s, o, p)
  OBVIOUS
<1>10. p <= s.wallet[o]
  <2>1. s.wallet[o] \in Nat
    BY <1>1, EconomyIs
  <2> QED
    BY <1>7, <2>1
<1>11. Does(s, u, o, now)
  BY <1>9, <1>10, SpendIs
<1>12. SameHomes(s, u)
  BY <1>9, <1>10, SpendIs
<1>13. u.homes = s.homes
  BY <1>12 DEF SameHomes
<1>14. PICK new : new = [home EXCEPT !.rented = @ + days, !.value = value]
  OBVIOUS
<1>15. new \in Home /\ new.owner = home.owner /\ new.listed = home.listed /\ new.rented = home.rented + days
  <2>1. PICK r \in Nat, v \in Nat : r = home.rented + days /\ v = value
    BY <1>2, Numbers DEF Home
  <2>2. new = [home EXCEPT !.rented = r, !.value = v]
    BY <1>14, <2>1
  <2> QED
    BY <2>1, <2>2 DEF Home
<1>16. t = [u EXCEPT !.homes[h] = new]
  <2>1. t = [u EXCEPT !.homes[h].rented = @ + days, !.homes[h].value = value]
    BY <1>2, <1>4, <1>5, <1>8, <1>9 DEF RentPaid
  <2>2. u \in Economy
    BY <1>11 DEF Does, Good
  <2>3. u.homes \in Tables(Home)
    BY <2>2, EconomyIs
  <2> QED
    <3>1. PICK old : old = u.homes /\ h \in DOMAIN old /\ old[h] = home /\ old \in [DOMAIN old -> Home]
      BY <1>2, <1>13, <2>3, TableIs
    <3>2. [old EXCEPT ![h].rented = @ + days, ![h].value = value] = [old EXCEPT ![h] = new]
      BY <1>14, <3>1
    <3>3. t = [u EXCEPT !.homes = [old EXCEPT ![h].rented = @ + days, ![h].value = value]]
      BY <2>1, <2>2, <3>1 DEF Economy
    <3>4. t = [u EXCEPT !.homes = [old EXCEPT ![h] = new]]
      BY <3>2, <3>3
    <3> QED
      BY <2>2, <3>1, <3>4 DEF Economy
<1>17. Good(u, now)
  BY <1>11 DEF Does
<1>18. Tended(u, t, now)
  <2>1. h \in DOMAIN u.homes /\ new.owner = u.homes[h].owner /\ new.listed = u.homes[h].listed /\ new.rented <= now
    BY <1>2, <1>5, <1>13, <1>15
  <2> QED
    BY <1>15, <1>16, <1>17, <2>1, HomeTended
<1> QED
  BY <1>11, <1>13, <1>18, DoesKeeps DEF Tended, Keeps

\* One payment, or what is there of it, and a fee for the rest.
LEMMA PaymentTends ==
  ASSUME NEW s, now \in Nat, Good(s, now), NEW h \in DOMAIN s.homes, NEW t, t = Payment(s, h)
  PROVE  Tended(s, t, now)
<1>1. s \in Economy
  BY DEF Good
<1>2. PICK home \in Home : home = s.homes[h]
  BY <1>1, NumbersGiven
<1>3. PICK o \in Accounts : o = home.owner
  BY <1>2 DEF Home
<1>4. PICK owed \in Nat : owed = home.mortgage
  BY <1>2 DEF Home
<1>5. PICK asked \in Nat : asked = Instalment(home) /\ asked <= owed
  <2>1. home.price \in Nat /\ MinPayment \in Nat
    BY <1>2, Numbers DEF Home
  <2>2. PICK one \in Nat : one = Larger(MinPayment, home.price \div 60)
    BY <2>1 DEF Larger
  <2>3. PICK two \in Nat : two = owed \div 1000
    OBVIOUS
  <2>4. Instalment(home) = Smaller(owed, one + two)
    BY <1>4, <2>2, <2>3 DEF Instalment
  <2>5. Smaller(owed, one + two) \in Nat /\ Smaller(owed, one + two) <= owed
    BY DEF Smaller
  <2> QED
    BY <2>4, <2>5
<1>6. PICK w \in [Accounts -> Nat] : w = s.wallet
  BY <1>1, EconomyIs
<1>7. PICK c \in [Accounts -> Nat] : c = s.checking
  BY <1>1, EconomyIs
<1>8. PICK out \in Int : out = s.outside
  BY <1>1, EconomyIs
<1>9. PICK checked \in Nat : checked = Smaller(asked, c[o]) /\ checked <= asked /\ checked <= c[o]
  BY DEF Smaller
<1>10. PICK cash \in Nat : cash = Smaller(asked - checked, w[o]) /\ cash <= asked - checked /\ cash <= w[o]
  BY <1>9 DEF Smaller
<1>11. PICK paid \in Nat : paid = checked + cash /\ paid <= asked
  BY <1>9, <1>10
<1>12. PICK left \in Nat : left = owed - paid
  BY <1>5, <1>11
<1>13. PICK new \in Home : /\ new.owner = home.owner /\ new.listed = home.listed /\ new.rented = home.rented
                           /\ new = Billed(home, asked, paid)
  <2>1. PICK late \in Nat : late = left + Larger(MinLateFee, left \div 200)
    BY Numbers DEF Larger
  <2>2. PICK x : x = [home EXCEPT !.mortgage = left, !.missed = 0, !.due = @ + 1]
    OBVIOUS
  <2>3. PICK y : y = [home EXCEPT !.mortgage = late, !.missed = @ + 1, !.due = @ + 1]
    OBVIOUS
  <2>4. PICK due \in Nat, missed \in Nat : due = home.due + 1 /\ missed = home.missed + 1
    BY DEF Home
  <2>5. x \in Home /\ x.owner = home.owner /\ x.listed = home.listed /\ x.rented = home.rented
    <3>1. x = [home EXCEPT !.mortgage = left, !.missed = 0, !.due = due]
      BY <2>2, <2>4
    <3> QED
      BY <3>1 DEF Home
  <2>6. y \in Home /\ y.owner = home.owner /\ y.listed = home.listed /\ y.rented = home.rented
    <3>1. y = [home EXCEPT !.mortgage = late, !.missed = missed, !.due = due]
      BY <2>3, <2>4
    <3> QED
      BY <3>1 DEF Home
  <2> QED
    BY <1>4, <1>12, <2>1, <2>2, <2>3, <2>5, <2>6 DEF Billed
<1>14. PICK wallet : wallet = Put(w, o, w[o] - cash)
  OBVIOUS
<1>15. wallet \in [Accounts -> Nat] /\ wallet[o] = w[o] - cash /\ \A b \in Accounts \ {o} : wallet[b] = w[b]
  BY <1>10, <1>14 DEF Put
<1>16. PICK checking : checking = Put(c, o, c[o] - checked)
  OBVIOUS
<1>17. checking \in [Accounts -> Nat] /\ checking[o] = c[o] - checked /\ \A b \in Accounts \ {o} : checking[b] = c[b]
  BY <1>9, <1>16 DEF Put
<1>18. PICK outside \in Int : outside = out + paid
  OBVIOUS
<1>19. PICK u : u = CashPut(s, wallet, checking, outside)
  OBVIOUS
<1>20. /\ u.wallet = wallet /\ u.checking = checking /\ u.outside = outside
       /\ SameRelics(s, u) /\ SameHomes(s, u) /\ SameAuctions(s, u) /\ u \in Economy
  BY <1>1, <1>15, <1>17, <1>19, CashPutIs
<1>21. Good(u, now)
  <2>1. u.auctions = s.auctions /\ u.nextAuction = s.nextAuction
    BY <1>20 DEF SameAuctions
  <2> QED
    BY <1>20, <2>1, SameIsGood
<1>22. Worth(u) = Worth(s)
  <2>1. PICK e \in Int : e = 0
    OBVIOUS
  <2>2. \A b \in Accounts \ {o} : u.wallet[b] = s.wallet[b] /\ u.checking[b] = s.checking[b]
    BY <1>6, <1>7, <1>15, <1>17, <1>20
  <2>3. InEscrow(u.auctions) = InEscrow(s.auctions) + e
    BY <1>1, <1>20, <2>1, WorthIs DEF SameAuctions
  <2>4. Worth(u) = Worth(s) + (u.wallet[o] - s.wallet[o]) + (u.checking[o] - s.checking[o])
                    + e + (u.outside - s.outside)
    BY <1>1, <1>20, <2>2, <2>3, CashMoves
  <2>5. PICK x \in Nat, y \in Nat : x = w[o] /\ y = c[o]
    OBVIOUS
  <2>6. Worth(u) = Worth(s) + ((x - cash) - x) + ((y - checked) - y) + 0 + ((out + paid) - out)
    BY <1>6, <1>7, <1>8, <1>15, <1>17, <1>18, <1>20, <2>1, <2>4, <2>5
  <2>7. Worth(s) \in Int
    BY <1>1, WorthIs
  <2> QED
    BY <1>11, <2>6, <2>7
<1>23. u.homes = s.homes
  BY <1>20 DEF SameHomes
<1>24. t = [u EXCEPT !.homes[h] = new]
  <2>1. /\ Instalment(s.homes[h]) = asked /\ s.homes[h].owner = o /\ s.homes[h].mortgage = owed
        /\ Smaller(asked, s.checking[o]) = checked /\ Smaller(asked - checked, s.wallet[o]) = cash
    BY <1>2, <1>3, <1>4, <1>5, <1>6, <1>7, <1>9, <1>10
  <2>2. t = [s EXCEPT
              !.checking[o] = @ - checked,
              !.wallet[o] = @ - (paid - checked),
              !.outside = @ + paid,
              !.homes[h] = Billed(@, asked, paid)]
    BY <1>11, <2>1 DEF Payment
  <2>3. t = [s EXCEPT
              !.checking[o] = @ - checked,
              !.wallet[o] = @ - (paid - checked),
              !.outside = @ + paid,
              !.homes[h] = new]
    BY <1>2, <1>13, <2>2
  <2>4. paid - checked = cash
    BY <1>11
  <2>5. t = [s EXCEPT !.checking = checking, !.wallet = wallet, !.outside = outside, !.homes[h] = new]
    BY <1>1, <1>6, <1>7, <1>8, <1>14, <1>16, <1>18, <2>3, <2>4 DEF Put, Economy
  <2> QED
    BY <1>1, <1>19, <2>5 DEF CashPut, Economy
<1>25. Tended(u, t, now)
  <2>1. /\ h \in DOMAIN u.homes /\ new.owner = u.homes[h].owner /\ new.listed = u.homes[h].listed
        /\ new.rented <= now
    BY <1>2, <1>13, <1>23 DEF Good
  <2> QED
    BY <1>13, <1>21, <1>24, <2>1, HomeTended
<1> QED
  BY <1>22, <1>23, <1>25 DEF Tended, Keeps

\* One part of the tick after another.
LEMMA KeepsThen ==
  ASSUME NEW s, NEW t, NEW u, NEW n, Keeps(s, t, n), Keeps(t, u, n)
  PROVE  Keeps(s, u, n)
  BY DEF Keeps

\* The payments of a home.
LEMMA CollectedTends ==
  ASSUME NEW s, now \in Nat, Good(s, now), NEW h \in DOMAIN s.homes, NEW r, r = Collected(s, h)
  PROVE  Tended(s, r, now)
<1>1. s \in Economy
  BY DEF Good
<1>2. PICK m \in Nat : m = Periods(s.homes[h])
  <2>1. PICK home \in Home : home = s.homes[h]
    BY <1>1, NumbersGiven
  <2>2. home.due \in Nat /\ MaxPeriods \in Nat
    BY <2>1, Numbers DEF Home
  <2>3. Periods(home) \in Nat
    BY <2>2 DEF Periods, Smaller
  <2> QED
    BY <2>1, <2>3
<1>3. PICK seq \in [1..m -> {h}] : seq = [k \in 1..m |-> h]
  OBVIOUS
<1> DEFINE W == [T \in SUBSET (1..m) |-> {u \in Economy : Tended(s, u, now)}]
           V == UNION {W[T] : T \in SUBSET (1..m)}
           step == [p \in (1..m) \X V |-> PaymentOrNone(p[2], seq[p[1]])]
           Iter(g) == g = [T \in SUBSET DOMAIN seq |->
                            IF T = {} THEN s ELSE PaymentOrNone(g[T \ {Max(T)}], seq[Max(T)])]
<1>4. s \in W[{}]
  <2>1. Tended(s, s, now)
    BY <1>1 DEF Tended, Keeps
  <2> QED
    BY <1>1, <2>1
<1>5. ASSUME NEW T \in SUBSET (1..m), T # {}, NEW u \in W[T \ {Max(T)}]
      PROVE  /\ Max(T) \in 1..m /\ u \in V /\ PaymentOrNone(u, seq[Max(T)]) \in W[T]
             /\ step[<<Max(T), u>>] = PaymentOrNone(u, seq[Max(T)])
  <2>1. PICK k \in T : k = Max(T)
    BY <1>5, MaxExists
  <2>2. PICK rest : rest = T \ {k}
    OBVIOUS
  <2>3. rest \in SUBSET (1..m) /\ u \in W[rest]
    BY <1>5, <2>1, <2>2
  <2>4. u \in Economy /\ Tended(s, u, now) /\ u \in V
    BY <2>3
  <2>5. seq[k] = h
    BY <1>3, <2>1
  <2>6. PICK w : w = PaymentOrNone(u, h)
    OBVIOUS
  <2>7. Tended(u, w, now)
    <3>1. Good(u, now) /\ h \in DOMAIN u.homes
      BY <2>4 DEF Tended, Keeps
    <3>2. CASE w = Payment(u, h)
      BY <3>1, <3>2, PaymentTends
    <3>3. CASE w = u
      BY <2>4, <3>1, <3>3 DEF Tended, Keeps
    <3> QED
      BY <2>6, <3>2, <3>3 DEF PaymentOrNone
  <2>8. w \in Economy /\ Tended(s, w, now)
    BY <2>4, <2>7, KeepsThen DEF Tended, Keeps
  <2>9. w \in W[T]
    BY <2>8
  <2>10. step[<<k, u>>] = PaymentOrNone(u, seq[k])
    <3> HIDE DEF V
    <3> QED
      BY <2>1, <2>4
  <2> HIDE DEF W, V, step
  <2> QED
    BY <2>1, <2>4, <2>5, <2>6, <2>9, <2>10
<1>6. PICK g : /\ g = [T \in SUBSET (1..m) |-> g[T]]
               /\ \A T \in SUBSET (1..m) : g[T] \in W[T]
               /\ Steps(g, m, s, step)
  <2> HIDE DEF W, V, step
  <2>1. \A T \in SUBSET (1..m) : T # {} => \A u \in W[T \ {Max(T)}] : step[<<Max(T), u>>] \in W[T]
    BY <1>5
  <2> QED
    BY <1>4, <2>1, IteratesIn
<1>7. DOMAIN seq = 1..m
  OBVIOUS
<1>8. Iter(g)
  <2>1. ASSUME NEW T \in SUBSET (1..m), T # {}
        PROVE  g[T] = PaymentOrNone(g[T \ {Max(T)}], seq[Max(T)])
    <3> HIDE DEF W, V, step
    <3>1. g[T \ {Max(T)}] \in W[T \ {Max(T)}]
      BY <1>6
    <3> QED
      BY <1>5, <1>6, <2>1, <3>1 DEF Steps
  <2>2. g[{}] = s
    BY <1>6 DEF Steps
  <2>3. g = [T \in SUBSET (1..m) |-> IF T = {} THEN s ELSE PaymentOrNone(g[T \ {Max(T)}], seq[Max(T)])]
    <3> HIDE DEF W, V, step
    <3> QED
      BY <1>6, <2>1, <2>2
  <2> QED
    BY <1>7, <2>3
<1>9. PICK it : it = CHOOSE f : Iter(f)
  OBVIOUS
<1>10. Iter(it)
  <2> HIDE DEF Iter
  <2> QED
    BY <1>8, <1>9
<1>11. r = it[1..m]
  <2>1. r = (CHOOSE f : Iter(f))[DOMAIN seq]
    BY <1>2, <1>3 DEF Collected, FoldLeft, MapThenFoldSet
  <2> QED
    BY <1>7, <1>9, <2>1
<1>12. it[1..m] \in W[1..m]
  <2> DEFINE next == [T \in SUBSET (1..m) |-> PaymentOrNone(it[T \ {Max(T)}], seq[Max(T)])]
  <2>1. \A T \in SUBSET (1..m) : it[T] = IF T = {} THEN s ELSE next[T]
    BY <1>7, <1>10
  <2>2. \A T \in SUBSET (1..m) : T # {} /\ it[T \ {Max(T)}] \in W[T \ {Max(T)}] => next[T] \in W[T]
    <3> HIDE DEF W, V, step
    <3> QED
      BY <1>5
  <2> HIDE DEF W, next
  <2> QED
    BY <1>4, <2>1, <2>2, LoopIn
<1> QED
  BY <1>11, <1>12

\* All homes but h, at most, stay.
Rest(s, t, h) == \A i \in DOMAIN s.homes : i # h => i \in DOMAIN t.homes

\* Foreclosure.
LEMMA SeizedKeeps ==
  ASSUME NEW s, now \in Nat, Good(s, now), NEW h \in DOMAIN s.homes, NEW t, t = Seized(s, h)
  PROVE  Keeps(s, t, now) /\ Rest(s, t, h)
<1>1. s \in Economy
  BY DEF Good
<1>2. PICK o \in Accounts : o = s.homes[h].owner
  BY <1>1, NumbersGiven DEF Home
<1>3. PICK on \in SUBSET DOMAIN s.auctions : on = {id \in DOMAIN s.auctions : s.auctions[id].home = h}
  OBVIOUS
<1>4. PICK w : w = Withdrawn(s, on)
  OBVIOUS
<1>5. w \in Economy /\ Dropped(s, w, on)
  BY <1>1, <1>4, WithdrawnIs
<1>6. /\ SameHomes(s, w) /\ SameRelics(s, w) /\ w.nextAuction = s.nextAuction /\ Worth(w) = Worth(s)
      /\ \A id : id \in DOMAIN w.auctions <=> id \in DOMAIN s.auctions /\ id \notin on
      /\ \A id \in DOMAIN w.auctions : w.auctions[id] = s.auctions[id]
  BY <1>5 DEF Dropped
<1>7. w.homes = s.homes /\ w.level = s.level /\ w.granted = s.granted /\ w.nextHome = s.nextHome
  BY <1>6 DEF SameHomes
<1>8. PICK D : D = DOMAIN s.homes \ {h}
  OBVIOUS
<1>9. PICK f : f = Restrict(s.homes, D)
  OBVIOUS
<1>10. PICK closed : closed = [w EXCEPT !.homes = f]
  OBVIOUS
<1>11. closed.homes = f
  BY <1>5, <1>10 DEF Economy
<1>12. PICK v \in {0, 1} : v = Level(closed, o) /\ (v = 0 \/ Owns(f, o))
  <2>1. Level(closed, o) = IF Owns(f, o) THEN 1 ELSE 0
    BY <1>11, LevelIs
  <2> QED
    BY <2>1
<1>13. PICK level : level = Put(s.level, o, v)
  OBVIOUS
<1>14. t = HomesPut(w, f, s.nextHome, level, s.granted)
  <2>1. t = [closed EXCEPT !.level[o] = v]
    BY <1>2, <1>3, <1>4, <1>7, <1>8, <1>9, <1>10, <1>12 DEF Seized, Without
  <2>2. t = [w EXCEPT !.homes = f, !.level = level]
    BY <1>5, <1>7, <1>10, <1>13, <2>1 DEF Put, Economy
  <2> QED
    BY <1>5, <1>7, <2>2 DEF HomesPut, Economy
<1>15. Good(t, now) /\ SameCash(w, t) /\ SameAuctions(w, t)
  <2>1. Thinner(s.auctions, w.auctions)
    BY <1>6 DEF Thinner
  <2>2. \A i \in D : i \in DOMAIN s.homes
    BY <1>8
  <2>3. \A i \in DOMAIN s.homes : i \notin D => s.homes[i].owner = o
    BY <1>2, <1>8
  <2>4. \A id \in DOMAIN s.auctions :
          s.auctions[id].home \in DOMAIN s.homes => (id \in DOMAIN w.auctions <=> s.auctions[id].home \in D)
    BY <1>3, <1>6, <1>8
  <2>5. w \in Economy /\ SameHomes(s, w) /\ SameRelics(s, w) /\ w.nextAuction = s.nextAuction
    BY <1>5, <1>6
  <2>6. /\ Good(t, now) /\ SameCash(w, t) /\ SameRelics(s, t) /\ SameAuctions(w, t)
    BY <1>9, <1>12, <1>13, <1>14, <2>1, <2>2, <2>3, <2>4, <2>5, HomesLeave
  <2> QED
    BY <2>6
<1>16. Worth(t) = Worth(s)
  <2>1. Worth(t) = Worth(w)
    BY <1>15 DEF Worth, SameCash, SameAuctions
  <2> QED
    BY <1>6, <2>1
<1>17. t.homes = f
  BY <1>5, <1>14, HomesPutIs
<1>18. DOMAIN f = D
  BY <1>9 DEF Restrict
<1>19. Rest(s, t, h)
  BY <1>8, <1>17, <1>18 DEF Rest
<1> QED
  BY <1>15, <1>16, <1>19 DEF Keeps, Good

\* Rent and mortgage of one home.
LEMMA HomeTickKeeps ==
  ASSUME NEW s, now \in Nat, Good(s, now), NEW h \in DOMAIN s.homes, NEW value \in HomePrices,
         NEW r, r = HomeTick(s, h, value)
  PROVE  Keeps(s, r, now) /\ Rest(s, r, h)
<1>1. PICK u : u = RentPaid(s, h, value)
  OBVIOUS
<1>2. Tended(s, u, now)
  BY <1>1, RentPaidTends
<1>3. PICK t : t = Collected(u, h)
  OBVIOUS
<1>4. Tended(u, t, now)
  <2>1. Good(u, now) /\ h \in DOMAIN u.homes
    BY <1>2 DEF Tended, Keeps
  <2> QED
    BY <1>3, <2>1, CollectedTends
<1>5. /\ t \in Economy /\ Good(t, now) /\ Keeps(s, t, now) /\ h \in DOMAIN t.homes
      /\ DOMAIN t.homes = DOMAIN s.homes
  BY <1>2, <1>4, KeepsThen DEF Tended, Keeps
<1>6. PICK home \in Home : home = t.homes[h]
  BY <1>5, NumbersGiven
<1>7. PICK new : new = [home EXCEPT !.due = 0, !.missed = 0]
  OBVIOUS
<1>8. new \in Home /\ new.owner = home.owner /\ new.listed = home.listed /\ new.rented = home.rented
  BY <1>7 DEF Home
<1>9. CASE r = Seized(t, h)
  <2>1. Keeps(t, r, now) /\ Rest(t, r, h)
    BY <1>5, <1>9, SeizedKeeps
  <2> QED
    BY <1>5, <2>1, KeepsThen DEF Rest
<1>10. CASE r = [t EXCEPT !.homes[h] = new]
  <2>1. new.rented <= now
    BY <1>5, <1>6, <1>8 DEF Good
  <2>2. Tended(t, r, now)
    BY <1>5, <1>6, <1>8, <1>10, <2>1, HomeTended
  <2> QED
    BY <1>5, <2>2, KeepsThen DEF Tended, Rest
<1>11. CASE r = t
  BY <1>5, <1>11 DEF Rest
<1>12. [t EXCEPT !.homes[h].due = 0, !.homes[h].missed = 0] = [t EXCEPT !.homes[h] = new]
  <2>1. t.homes \in Tables(Home)
    BY <1>5, EconomyIs
  <2> QED
    BY <1>5, <1>6, <1>7, <2>1, TableIs DEF Economy, Home
<1>13. \/ r = Seized(t, h)
       \/ r = [t EXCEPT !.homes[h].due = 0, !.homes[h].missed = 0]
       \/ r = t
  BY <1>1, <1>3 DEF HomeTick
<1> QED
  BY <1>9, <1>10, <1>11, <1>12, <1>13

\* Rent and mortgage of all homes.
LEMMA HomesTickKeeps ==
  ASSUME NEW s, now \in Nat, Good(s, now), NEW value \in HomePrices, NEW r, r = HomesTick(s, value)
  PROVE  Keeps(s, r, now)
<1>1. s \in Economy
  BY DEF Good
<1>2. PICK on : on = DOMAIN s.homes
  OBVIOUS
<1>3. PICK n \in Nat : on \in SUBSET (1..n)
  <2>1. s.nextHome - 1 \in Nat /\ DOMAIN s.homes \subseteq 1..(s.nextHome - 1)
    BY <1>1, EconomyIs
  <2> QED
    BY <1>2, <2>1
<1>4. PICK m \in Nat : m = Cardinality(on)
  BY <1>3, InOrderIs
<1>5. PICK seq \in [1..m -> on] : seq = InOrder(on)
  BY <1>3, <1>4, InOrderIs
<1>6. \A i, j \in 1..m : seq[i] = seq[j] => i = j
  BY <1>3, <1>4, <1>5, InOrderIs
<1> DEFINE Left(u, T) == \A j \in 1..m : j \notin T => seq[j] \in DOMAIN u.homes
           W == [T \in SUBSET (1..m) |-> {u \in Economy : Keeps(s, u, now) /\ Left(u, T)}]
           V == UNION {W[T] : T \in SUBSET (1..m)}
           step == [p \in (1..m) \X V |-> HomeTick(p[2], seq[p[1]], value)]
           Iter(g) == g = [T \in SUBSET DOMAIN seq |->
                            IF T = {} THEN s ELSE HomeTick(g[T \ {Max(T)}], seq[Max(T)], value)]
<1>7. s \in W[{}]
  <2>1. Keeps(s, s, now)
    BY <1>1 DEF Keeps
  <2>2. Left(s, {})
    BY <1>2, <1>5
  <2> QED
    BY <1>1, <2>1, <2>2
<1>8. ASSUME NEW T \in SUBSET (1..m), T # {}, NEW u \in W[T \ {Max(T)}]
      PROVE  /\ Max(T) \in 1..m /\ u \in V /\ HomeTick(u, seq[Max(T)], value) \in W[T]
             /\ step[<<Max(T), u>>] = HomeTick(u, seq[Max(T)], value)
  <2>1. PICK k \in T : k = Max(T)
    BY <1>8, MaxExists
  <2>2. PICK rest : rest = T \ {k}
    OBVIOUS
  <2>3. rest \in SUBSET (1..m) /\ u \in W[rest]
    BY <1>8, <2>1, <2>2
  <2>4. u \in Economy /\ Keeps(s, u, now) /\ Left(u, rest) /\ u \in V
    BY <2>3
  <2>5. PICK h : h = seq[k]
    OBVIOUS
  <2>6. h \in DOMAIN u.homes
    BY <2>1, <2>2, <2>4, <2>5
  <2>7. PICK w : w = HomeTick(u, h, value)
    OBVIOUS
  <2>8. Good(u, now)
    BY <2>4 DEF Keeps
  <2>9. Keeps(u, w, now) /\ Rest(u, w, h)
    BY <2>6, <2>7, <2>8, HomeTickKeeps
  <2>10. w \in Economy /\ Keeps(s, w, now)
    BY <2>4, <2>9, KeepsThen DEF Keeps
  <2>11. Left(w, T)
    BY <1>6, <2>1, <2>2, <2>4, <2>5, <2>9 DEF Rest
  <2>12. w \in W[T]
    BY <2>10, <2>11
  <2>13. step[<<k, u>>] = HomeTick(u, seq[k], value)
    <3> HIDE DEF V
    <3> QED
      BY <2>1, <2>4
  <2> HIDE DEF W, V, step
  <2> QED
    BY <2>1, <2>4, <2>5, <2>7, <2>12, <2>13
<1>9. PICK g : /\ g = [T \in SUBSET (1..m) |-> g[T]]
               /\ \A T \in SUBSET (1..m) : g[T] \in W[T]
               /\ Steps(g, m, s, step)
  <2> HIDE DEF W, V, step
  <2>1. \A T \in SUBSET (1..m) : T # {} => \A u \in W[T \ {Max(T)}] : step[<<Max(T), u>>] \in W[T]
    BY <1>8
  <2> QED
    BY <1>7, <2>1, IteratesIn
<1>10. DOMAIN seq = 1..m
  OBVIOUS
<1>11. Iter(g)
  <2>1. ASSUME NEW T \in SUBSET (1..m), T # {}
        PROVE  g[T] = HomeTick(g[T \ {Max(T)}], seq[Max(T)], value)
    <3> HIDE DEF W, V, step
    <3>1. g[T \ {Max(T)}] \in W[T \ {Max(T)}]
      BY <1>9
    <3> QED
      BY <1>8, <1>9, <2>1, <3>1 DEF Steps
  <2>2. g[{}] = s
    BY <1>9 DEF Steps
  <2>3. g = [T \in SUBSET (1..m) |-> IF T = {} THEN s ELSE HomeTick(g[T \ {Max(T)}], seq[Max(T)], value)]
    <3> HIDE DEF W, V, step
    <3> QED
      BY <1>9, <2>1, <2>2
  <2> QED
    BY <1>10, <2>3
<1>12. PICK it : it = CHOOSE f : Iter(f)
  OBVIOUS
<1>13. Iter(it)
  <2> HIDE DEF Iter
  <2> QED
    BY <1>11, <1>12
<1>14. r = it[1..m]
  <2>1. r = (CHOOSE f : Iter(f))[DOMAIN seq]
    BY <1>2, <1>5 DEF HomesTick, FoldLeft, MapThenFoldSet
  <2> QED
    BY <1>10, <1>12, <2>1
<1>15. it[1..m] \in W[1..m]
  <2> DEFINE next == [T \in SUBSET (1..m) |-> HomeTick(it[T \ {Max(T)}], seq[Max(T)], value)]
  <2>1. \A T \in SUBSET (1..m) : it[T] = IF T = {} THEN s ELSE next[T]
    BY <1>10, <1>13
  <2>2. \A T \in SUBSET (1..m) : T # {} /\ it[T \ {Max(T)}] \in W[T \ {Max(T)}] => next[T] \in W[T]
    <3> HIDE DEF W, V, step
    <3> QED
      BY <1>8
  <2> HIDE DEF W, next
  <2> QED
    BY <1>7, <2>1, <2>2, LoopIn
<1> QED
  BY <1>14, <1>15

\* The whole tick.
LEMMA TickAllKeeps ==
  ASSUME now \in Nat, Good(db, now), TickAll
  PROVE  Keeps(db, db', now)
<1>1. PICK value \in HomePrices : db' = HomesTick(AuctionsTick(db), value)
  BY DEF TickAll, Call
<1>2. PICK s : s = AuctionsTick(db)
  OBVIOUS
<1>3. Keeps(db, s, now)
  BY <1>2, AuctionsTickKeeps
<1>4. Good(s, now)
  BY <1>3 DEF Keeps
<1>5. Keeps(s, db', now)
  BY <1>1, <1>2, <1>4, HomesTickKeeps
<1> QED
  BY <1>3, <1>5, KeepsThen

-----------------------------------------------------------------------------
(* The save that fails *)

\* What economy_game_action puts back of s when a made t of it.
Restored(s, t, a) ==
  [s EXCEPT
    !.wallet = [t.wallet EXCEPT ![a] = s.wallet[a]],
    !.count = [b \in Accounts |-> IF Player(b) = Player(a) THEN s.count[b] ELSE t.count[b]],
    !.level = [t.level EXCEPT ![a] = s.level[a]]]

\* A wallet that is nowhere less full holds no less in all.
LEMMA WalletsMore ==
  ASSUME NEW w \in [Accounts -> Nat], NEW v \in [Accounts -> Nat], \A b \in Accounts : w[b] >= v[b]
  PROVE  Total(w) \in Int /\ Total(v) \in Int /\ Total(w) >= Total(v)
<1>1. PICK d : d = [b \in Accounts |-> w[b] - v[b]]
  OBVIOUS
<1>2. d \in [Accounts -> Nat]
  BY <1>1
<1>3. \A b \in Accounts : w[b] = v[b] + d[b]
  <2>1. \A b \in Accounts : v[b] \in Nat /\ w[b] \in Nat
    OBVIOUS
  <2> QED
    BY <1>1, <2>1
<1>4. IsFiniteSet(Accounts) /\ v \in [Accounts -> Int] /\ d \in [Accounts -> Int] /\ w \in [Accounts -> Int]
  BY <1>2, Numbers
<1>5. Total(w) = Total(v) + Total(d)
  BY <1>3, <1>4, TotalPlus
<1>6. Total(d) \in Nat
  BY <1>2, <1>4, TotalNat
<1>7. Total(w) \in Int /\ Total(v) \in Int
  BY <1>4, TotalInt
<1> QED
  BY <1>5, <1>6, <1>7

\* What is put back is good, and of no less worth.
LEMMA RestoredIs ==
  ASSUME NEW s, NEW n, Good(s, n), NEW t \in Economy, NEW a \in Accounts, Spares(s, t, a),
         NEW r, r = Restored(s, t, a)
  PROVE  Good(r, n) /\ Worth(r) >= Worth(s)
<1>1. s \in Economy
  BY DEF Good
<1>2. PICK w \in [Accounts -> Nat] : w = s.wallet
  BY <1>1, EconomyIs
<1>3. PICK c \in [Accounts -> Nat] : c = s.count
  BY <1>1, EconomyIs
<1>4. PICK lv \in [Accounts -> {0, 1}] : lv = s.level
  BY <1>1, EconomyIs
<1>5. PICK tw \in [Accounts -> Nat] : tw = t.wallet
  BY EconomyIs
<1>6. PICK tl \in [Accounts -> {0, 1}] : tl = t.level
  BY EconomyIs
<1>7. /\ \A b \in Accounts \ {a} : tw[b] >= w[b] /\ (Has(t, b) => Has(s, b))
      /\ \A b \in Accounts : Player(b) # Player(a) => t.count[b] = c[b]
  BY <1>2, <1>3, <1>5 DEF Spares
<1>8. PICK wallet : wallet = Put(tw, a, w[a])
  OBVIOUS
<1>9. wallet \in [Accounts -> Nat] /\ \A b \in Accounts : wallet[b] >= w[b]
  BY <1>7, <1>8 DEF Put
<1>10. [b \in Accounts |-> IF Player(b) = Player(a) THEN s.count[b] ELSE t.count[b]] = c
  BY <1>3, <1>7
<1>11. PICK level : level = Put(tl, a, lv[a])
  OBVIOUS
<1>12. level \in [Accounts -> {0, 1}] /\ level[a] = lv[a] /\ \A b \in Accounts \ {a} : level[b] = tl[b]
  BY <1>11 DEF Put
<1>13. r = [s EXCEPT !.wallet = wallet, !.level = level]
  <2>1. r = [s EXCEPT !.wallet = wallet, !.count = c, !.level = level]
    BY <1>2, <1>4, <1>5, <1>6, <1>8, <1>10, <1>11 DEF Restored, Put
  <2> QED
    BY <1>1, <1>3, <2>1 DEF Economy
<1>14. PICK u : u = CashPut(s, wallet, s.checking, s.outside)
  OBVIOUS
<1>15. /\ u.wallet = wallet /\ u.checking = s.checking /\ u.outside = s.outside
       /\ SameRelics(s, u) /\ SameHomes(s, u) /\ SameAuctions(s, u) /\ u \in Economy
  <2>1. s.checking \in [Accounts -> Nat] /\ s.outside \in Int
    BY <1>1, EconomyIs
  <2>2. /\ u.wallet = wallet /\ u.checking = s.checking /\ u.outside = s.outside
        /\ SameRelics(s, u) /\ SameHomes(s, u) /\ SameAuctions(s, u)
    BY <1>1, <1>14, CashPutIs
  <2>3. u \in Economy
    BY <1>1, <1>9, <1>14, <2>1, CashPutIs
  <2> QED
    BY <2>2, <2>3
<1>16. Good(u, n)
  <2>1. u.auctions = s.auctions /\ u.nextAuction = s.nextAuction
    BY <1>15 DEF SameAuctions
  <2> QED
    BY <1>15, <2>1, SameIsGood
<1>17. Worth(u) >= Worth(s)
  <2>1. Total(wallet) \in Int /\ Total(w) \in Int /\ Total(wallet) >= Total(w)
    BY <1>9, WalletsMore
  <2>2. Total(s.checking) \in Int /\ InEscrow(s.auctions) \in Int /\ s.outside \in Int
    BY <1>1, WorthIs
  <2>3. u.auctions = s.auctions
    BY <1>15 DEF SameAuctions
  <2>4. Worth(u) = Total(wallet) + Total(s.checking) + InEscrow(s.auctions) + s.outside
    BY <1>15, <2>3 DEF Worth
  <2>5. Worth(s) = Total(w) + Total(s.checking) + InEscrow(s.auctions) + s.outside
    BY <1>2 DEF Worth
  <2> QED
    BY <2>1, <2>2, <2>4, <2>5
<1>18. PICK f \in Tables(Home) : f = s.homes
  BY <1>1, EconomyIs
<1>19. PICK g \in [Accounts -> Nat] : g = s.granted
  BY <1>1, EconomyIs
<1>20. PICK next \in Nat \ {0} : next = s.nextHome
  BY <1>1, EconomyIs
<1>21. u.homes = f /\ u.granted = g /\ u.nextHome = next /\ u.level = lv
  BY <1>4, <1>15, <1>18, <1>19, <1>20 DEF SameHomes
<1>22. r = HomesPut(u, f, next, level, g)
  <2>1. r = [u EXCEPT !.level = level]
    BY <1>1, <1>13, <1>14 DEF CashPut, Economy
  <2> QED
    BY <1>15, <1>21, <2>1 DEF HomesPut, Economy
<1>23. Levelled(f, level, g)
  <2>1. Levelled(f, lv, g)
    BY <1>4, <1>18, <1>19 DEF Good
  <2>2. \A b \in Accounts \ {a} : level[b] # 0 => lv[b] # 0 \/ Owns(f, b)
    BY <1>4, <1>6, <1>7, <1>12, <1>18 DEF Has
  <2> QED
    BY <1>12, <2>1, <2>2 DEF Levelled
<1>24. /\ r.homes = f /\ r.nextHome = next /\ r.level = level /\ r.granted = g
       /\ SameCash(u, r) /\ SameRelics(u, r) /\ SameAuctions(u, r)
  BY <1>15, <1>22, HomesPutIs
<1>25. r \in Economy
  <2>1. \A h \in DOMAIN f : h < next
    BY <1>1, <1>18, <1>20, NumbersGiven
  <2> QED
    BY <1>12, <1>15, <1>18, <1>19, <1>20, <1>22, <2>1, HomesPutIs
<1>26. Good(r, n)
  <2>1. r.relics = u.relics /\ r.count = u.count /\ r.auctions = u.auctions /\ r.nextAuction = u.nextAuction
    BY <1>24 DEF SameRelics, SameAuctions
  <2> QED
    BY <1>16, <1>21, <1>23, <1>24, <1>25, <2>1 DEF Good
<1>27. Worth(r) = Worth(u)
  BY <1>24 DEF Worth, SameCash, SameAuctions
<1> QED
  BY <1>17, <1>26, <1>27

-----------------------------------------------------------------------------
(* The invariant *)

\* The economy is good and worth what it should be; until the call of a player
\* is saved, so were the copies it took, which it spares.
AuctionInv ==
  /\ TypeOKCall
  /\ caller \in Accounts \cup {Tick}
  /\ Good(db, now)
  /\ CashKept
  /\ phase = "save" /\ caller # Tick => Good(before, now) /\ Spares(before, db, caller)

\* Time is a number, and so is what there was at the start.
LEMMA TimeIs ==
  ASSUME TypeOKCall
  PROVE  now \in Nat /\ CashAtStart \in Int
<1>1. now \in Nat
  BY CallAssumption DEF TypeOKCall, Larger
<1>2. IsFiniteSet(Accounts) /\ InitialWallet \in [Accounts -> Int] /\ InitialChecking \in Nat
  BY AuctionAssumption
<1>3. Total(InitialWallet) \in Int /\ Cardinality(Accounts) \in Nat
  BY <1>2, TotalInt, FS_CardinalityType
<1>4. Cardinality(Accounts) * InitialChecking \in Nat
  BY <1>2, <1>3
<1> QED
  BY <1>1, <1>3, <1>4 DEF CashAtStart

\* An empty table.
LEMMA EmptyTable ==
  ASSUME NEW V, NEW f, f = <<>>
  PROVE  f \in Tables(V) /\ DOMAIN f = {}
<1>1. DOMAIN f = {} /\ f \in [{} -> V]
  OBVIOUS
<1>2. PICK D \in SUBSET (Nat \ {0}) : D = {}
  OBVIOUS
<1> QED
  BY <1>1, <1>2, IsTable

\* The first state.
LEMMA InitGood ==
  ASSUME Init
  PROVE  AuctionInv
<1>1. PICK none : none = <<>>
  OBVIOUS
<1>2. none \in Tables(Home) /\ none \in Tables(Offer) /\ DOMAIN none = {} /\ none \in Seq(Relic)
  BY <1>1, EmptyTable
<1>3. PICK level : level = [a \in Accounts |-> IF a \in LegacyHomes THEN 1 ELSE 0]
  OBVIOUS
<1>4. level \in [Accounts -> {0, 1}]
  BY <1>3
<1>5. PICK granted : granted = [a \in Accounts |-> 0]
  OBVIOUS
<1>6. granted \in [Accounts -> Nat] /\ \A a \in Accounts : granted[a] = 0
  BY <1>5
<1>7. PICK checking : checking = [a \in Accounts |-> InitialChecking]
  OBVIOUS
<1>8. checking \in [Accounts -> Nat]
  BY <1>7, AuctionAssumption
<1>9. LegacyRelics \in [Accounts -> Nat] /\ InitialWallet \in [Accounts -> Nat]
  BY AuctionAssumption
<1>10. PICK s : s = [wallet |-> InitialWallet, checking |-> checking, homes |-> none, relics |-> none,
                     count |-> LegacyRelics, level |-> level, auctions |-> none, nextHome |-> 1,
                     nextAuction |-> 1, outside |-> 0, granted |-> granted]
  OBVIOUS
<1>11. db = s
  BY <1>1, <1>3, <1>5, <1>7, <1>10 DEF Init, InitCall
<1>12. now = 1 /\ phase = "idle" /\ caller = Tick /\ calls = 0 /\ undone = FALSE
  BY DEF Init, InitCall
<1>13. /\ s.wallet = InitialWallet /\ s.checking = checking /\ s.homes = none /\ s.relics = none
       /\ s.count = LegacyRelics /\ s.level = level /\ s.auctions = none /\ s.nextHome = 1
       /\ s.nextAuction = 1 /\ s.outside = 0 /\ s.granted = granted
  BY <1>10
<1>14. s \in Economy
  BY <1>2, <1>4, <1>6, <1>8, <1>9, <1>10 DEF Economy
<1>15. Offered(none, none)
  BY <1>2 DEF Offered
<1>16. Holding(none, none, 1)
  BY <1>2 DEF Holding
<1>17. Counted(none, LegacyRelics)
  <2>1. ASSUME NEW a \in Accounts PROVE LegacyRelics[a] - Cardinality(Having(none, Loose(a))) = LegacyRelics[a]
    <3>1. Having(none, Loose(a)) = {}
      BY <1>2 DEF Having
    <3> QED
      BY <1>9, <3>1, FS_EmptySet
  <2> QED
    BY <2>1 DEF Counted
<1>18. Levelled(none, level, granted)
  BY <1>3, <1>6 DEF Levelled
<1>19. Good(s, 1)
  BY <1>2, <1>13, <1>14, <1>15, <1>16, <1>17, <1>18 DEF Good
<1>20. Worth(s) = CashAtStart
  <2>1. IsFiniteSet(Accounts) /\ InitialChecking \in Nat
    BY AuctionAssumption
  <2>2. Total(checking) = Cardinality(Accounts) * InitialChecking
    BY <1>7, <2>1, TotalConstant
  <2>3. InEscrow(none) = 0
    <3>1. BidsIn(none) \in [{} -> Int]
      BY <1>2 DEF BidsIn
    <3>2. InEscrow(none) = Total(BidsIn(none))
      BY DEF InEscrow, BidsIn
    <3> QED
      BY <3>1, <3>2, TotalEmpty
  <2>4. Total(InitialWallet) \in Int /\ Total(checking) \in Int
    <3>1. InitialWallet \in [Accounts -> Int] /\ checking \in [Accounts -> Int]
      BY <1>8, <1>9
    <3> QED
      BY <2>1, <3>1, TotalInt
  <2> QED
    BY <1>13, <2>2, <2>3, <2>4 DEF Worth, CashAtStart
<1>21. TypeOKCall
  <2>1. undone \in BOOLEAN
    BY Zenon DEF Init, InitCall
  <2>2. now = 1 /\ phase = "idle" /\ calls = 0
    BY DEF Init, InitCall
  <2> QED
    BY <2>1, <2>2, CallAssumption DEF TypeOKCall, Larger
<1> QED
  BY <1>11, <1>12, <1>19, <1>20, <1>21 DEF AuctionInv, CashKept

\* What a call of a is besides its effect.
Called(a) ==
  /\ phase = "idle" /\ calls < MaxCalls /\ phase' = "save" /\ caller' = a /\ before' = db
  /\ calls' = calls + 1 /\ now' = now /\ undone' = undone

\* Every call of a player does what it may.
LEMMA CallDoes ==
  ASSUME AuctionInv, NEW a \in Accounts,
         Refuse(a) \/ HomeCalls(a) \/ RelicCalls(a) \/ AuctionCalls(a) \/ Bankruptcy(a)
  PROVE  Called(a) /\ Does(db, db', a, now)
<1>1. now \in Nat /\ Good(db, now)
  BY TimeIs DEF AuctionInv
<1>2. CASE Refuse(a)
  <2>1. Called(a)
    BY <1>2 DEF Refuse, Idle, Call, Called
  <2> QED
    BY <1>1, <1>2, <2>1, RefuseDoes
<1>3. CASE HomeCalls(a)
  <2>1. ASSUME NEW price \in HomePrices, NEW m \in BOOLEAN, BuyHome(a, price, m)
        PROVE  Called(a) /\ Does(db, db', a, now)
    <3>1. Called(a)
      BY <2>1 DEF BuyHome, Idle, Call, Called
    <3> QED
      BY <1>1, <2>1, <3>1, BuyHomeDoes
  <2>2. ASSUME NEW h \in 1..MaxHomes, SellHome(a, h)
        PROVE  Called(a) /\ Does(db, db', a, now)
    <3>1. Called(a)
      BY <2>2 DEF SellHome, Idle, Call, Called
    <3> QED
      BY <1>1, <2>2, <3>1, SellHomeDoes
  <2>3. ASSUME NEW h \in 1..MaxHomes, Maintain(a, h)
        PROVE  Called(a) /\ Does(db, db', a, now)
    <3>1. Called(a)
      BY <2>3 DEF Maintain, Idle, Call, Called
    <3> QED
      BY <1>1, <2>3, <3>1, MaintainDoes
  <2> QED
    BY <1>3, <2>1, <2>2, <2>3 DEF HomeCalls
<1>4. CASE RelicCalls(a)
  <2>1. ASSUME NEW n \in Quantities, NEW price \in RelicPrices, BuyRelics(a, n, price)
        PROVE  Called(a) /\ Does(db, db', a, now)
    <3>1. Called(a)
      BY <2>1 DEF BuyRelics, Idle, Call, Called
    <3> QED
      BY <1>1, <2>1, <3>1, BuyRelicsDoes
  <2>2. ASSUME NEW n \in Quantities, NEW price \in RelicPrices, SellRelics(a, n, price)
        PROVE  Called(a) /\ Does(db, db', a, now)
    <3>1. Called(a)
      BY <2>2 DEF SellRelics, Idle, Call, Called
    <3> QED
      BY <1>1, <2>2, <3>1, SellRelicsDoes
  <2>3. ASSUME NEW k \in 1..MaxRelics, MoveRelic(a, k)
        PROVE  Called(a) /\ Does(db, db', a, now)
    <3>1. Called(a)
      BY <2>3 DEF MoveRelic, Idle, Call, Called
    <3> QED
      BY <1>1, <2>3, <3>1, MoveRelicDoes
  <2> QED
    BY <1>4, <2>1, <2>2, <2>3 DEF RelicCalls
<1>5. CASE AuctionCalls(a)
  <2>1. ASSUME NEW r \in Reserves, NEW b \in Buyouts, NEW d \in Durations, NEW n \in Quantities,
               ListRelics(a, n, r, b, d)
        PROVE  Called(a) /\ Does(db, db', a, now)
    <3>1. Called(a)
      BY <2>1 DEF ListRelics, Idle, Call, Called
    <3> QED
      BY <1>1, <2>1, <3>1, ListRelicsDoes
  <2>2. ASSUME NEW r \in Reserves, NEW b \in Buyouts, NEW d \in Durations, NEW h \in 1..MaxHomes,
               ListHome(a, h, r, b, d)
        PROVE  Called(a) /\ Does(db, db', a, now)
    <3>1. Called(a)
      BY <2>2 DEF ListHome, Idle, Call, Called
    <3> QED
      BY <1>1, <2>2, <3>1, ListHomeDoes
  <2>3. ASSUME NEW id \in 1..MaxCalls, NEW amount \in Bids, Bid(a, id, amount)
        PROVE  Called(a) /\ Does(db, db', a, now)
    <3>1. Called(a)
      BY <2>3 DEF Bid, Idle, Call, Called
    <3> QED
      BY <1>1, <2>3, <3>1, BidDoes
  <2>4. ASSUME NEW id \in 1..MaxCalls, Buyout(a, id)
        PROVE  Called(a) /\ Does(db, db', a, now)
    <3>1. Called(a)
      BY <2>4 DEF Buyout, Idle, Call, Called
    <3> QED
      BY <1>1, <2>4, <3>1, BuyoutDoes
  <2>5. ASSUME NEW id \in 1..MaxCalls, Cancel(a, id)
        PROVE  Called(a) /\ Does(db, db', a, now)
    <3>1. Called(a)
      BY <2>5 DEF Cancel, Idle, Call, Called
    <3> QED
      BY <1>1, <2>5, <3>1, CancelDoes
  <2> QED
    BY <1>5, <2>1, <2>2, <2>3, <2>4, <2>5 DEF AuctionCalls
<1>6. CASE Bankruptcy(a)
  <2>1. Called(a)
    BY <1>6 DEF Bankruptcy, Idle, Call, Called
  <2> QED
    BY <1>1, <1>6, <2>1, BankruptcyDoes
<1> QED
  BY <1>2, <1>3, <1>4, <1>5, <1>6

\* A call of a player keeps the invariant.
LEMMA CallKeepsInv ==
  ASSUME AuctionInv, NEW a \in Accounts, Called(a), Does(db, db', a, now)
  PROVE  AuctionInv'
<1>1. TypeOKCall'
  BY CallAssumption DEF AuctionInv, TypeOKCall, Called
<1>2. caller' \in Accounts \cup {Tick}
  BY DEF Called
<1>3. Good(db', now')
  BY DEF Called, Does
<1>4. Worth(db') = Worth(db)
  BY DEF Does, Spares
<1>5. CashKept'
  BY <1>4 DEF AuctionInv, CashKept, Called, CashAtStart
<1>6. Good(before', now') /\ Spares(before', db', caller')
  BY DEF AuctionInv, Called, Does
<1> QED
  BY <1>1, <1>2, <1>3, <1>5, <1>6 DEF AuctionInv

\* The tick keeps the invariant.
LEMMA TickKeepsInv ==
  ASSUME AuctionInv, TickAll
  PROVE  AuctionInv'
<1>1. now \in Nat /\ Good(db, now)
  BY TimeIs DEF AuctionInv
<1>2. Keeps(db, db', now)
  BY <1>1, TickAllKeeps
<1>3. Called(Tick)
  BY DEF TickAll, Idle, Call, Called
<1>4. TypeOKCall' /\ caller' = Tick
  BY <1>3, CallAssumption DEF AuctionInv, TypeOKCall, Called
<1>5. CashKept'
  BY <1>2, <1>3 DEF AuctionInv, CashKept, Keeps, Called, CashAtStart
<1> QED
  BY <1>2, <1>3, <1>4, <1>5 DEF AuctionInv, Keeps, Called

\* The save, whether it succeeds or fails, keeps the invariant.
LEMMA SaveKeepsInv ==
  ASSUME AuctionInv, Save
  PROVE  AuctionInv'
<1>1. now \in Nat /\ CashAtStart \in Int
  BY TimeIs DEF AuctionInv
<1>2. phase' = "idle" /\ caller' = Tick /\ now' = now /\ calls' = calls
  BY DEF Save, SaveSucceeds, TickNotSaved, ActionNotSaved, Saved, KeptUnsaved, PutBack, Return
<1>3. undone' \in BOOLEAN
  BY DEF Save, SaveSucceeds, TickNotSaved, ActionNotSaved, Saved, KeptUnsaved, PutBack, AuctionInv, TypeOKCall
<1>4. TypeOKCall' /\ caller' \in Accounts \cup {Tick}
  BY <1>2, <1>3 DEF AuctionInv, TypeOKCall
<1>5. CASE UNCHANGED <<db, undone>>
  <2>1. CashKept'
    BY <1>5 DEF AuctionInv, CashKept, Worth, CashAtStart
  <2>2. Good(db', now')
    BY <1>2, <1>5 DEF AuctionInv
  <2> QED
    BY <1>2, <1>4, <2>1, <2>2 DEF AuctionInv
<1>6. CASE ActionNotSaved
  <2>1. caller # Tick /\ phase = "save" /\ undone' = TRUE
    BY <1>6 DEF ActionNotSaved, PutBack, NotSaved
  <2>2. db' = Restored(before, db, caller)
    BY <1>6 DEF ActionNotSaved, PutBack, Restored
  <2>3. Good(before, now) /\ Spares(before, db, caller) /\ caller \in Accounts /\ db \in Economy
    BY <2>1 DEF AuctionInv, Good
  <2>4. Good(db', now) /\ Worth(db') >= Worth(before)
    BY <2>2, <2>3, RestoredIs
  <2>5. Worth(before) = Worth(db)
    BY <2>3 DEF Spares
  <2>6. Worth(db) >= CashAtStart /\ Worth(db) \in Int /\ Worth(db') \in Int
    BY <1>1, <2>3, <2>4, WorthIs DEF AuctionInv, CashKept, Good
  <2>7. Worth(db') >= CashAtStart
    BY <1>1, <2>4, <2>5, <2>6
  <2>8. CashKept'
    BY <2>1, <2>7 DEF CashKept, CashAtStart
  <2> QED
    BY <1>2, <1>4, <2>4, <2>8 DEF AuctionInv
<1> QED
  BY <1>5, <1>6 DEF Save, SaveSucceeds, TickNotSaved, Saved, KeptUnsaved

\* So does the time that passes.
LEMMA LaterKeepsInv ==
  ASSUME AuctionInv, Later
  PROVE  AuctionInv'
<1>1. now \in Nat /\ now' = now + 1 /\ now < MaxTime /\ UNCHANGED <<db, phase, caller, before, calls, undone>>
  BY TimeIs DEF AuctionInv, Later
<1>2. TypeOKCall'
  BY <1>1, CallAssumption DEF AuctionInv, TypeOKCall, Larger
<1>3. phase # "save"
  BY DEF Later
<1>4. Good(db', now')
  <2>1. Good(db, now)
    BY DEF AuctionInv
  <2>2. \A h \in DOMAIN db.homes : db.homes[h].rented \in Nat
    BY <2>1, NumbersGiven DEF Good, Home
  <2>3. \A h \in DOMAIN db.homes : db.homes[h].rented <= now + 1
    BY <1>1, <2>1, <2>2 DEF Good
  <2> QED
    BY <1>1, <2>1, <2>3 DEF Good
<1>5. CashKept'
  BY <1>1 DEF AuctionInv, CashKept, Worth, CashAtStart
<1> QED
  BY <1>1, <1>2, <1>3, <1>4, <1>5 DEF AuctionInv

\* The invariant is inductive.
LEMMA AuctionInvHolds ==
  Spec => []AuctionInv
<1>1. Init => AuctionInv
  BY InitGood
<1>2. AuctionInv /\ [Next]_vars => AuctionInv'
  <2> SUFFICES ASSUME AuctionInv, [Next]_vars PROVE AuctionInv'
    OBVIOUS
  <2>1. ASSUME NEW a \in Accounts,
               Refuse(a) \/ HomeCalls(a) \/ RelicCalls(a) \/ AuctionCalls(a) \/ Bankruptcy(a)
        PROVE  AuctionInv'
    BY <2>1, CallDoes, CallKeepsInv
  <2>2. CASE TickAll
    BY <2>2, TickKeepsInv
  <2>3. CASE Save
    BY <2>3, SaveKeepsInv
  <2>4. CASE Later
    BY <2>4, LaterKeepsInv
  <2>5. CASE UNCHANGED vars
    BY <2>5 DEF vars, AuctionInv, TypeOKCall, CashKept, CashAtStart
  <2> QED
    BY <2>1, <2>2, <2>3, <2>4, <2>5 DEF Next
<1> QED
  BY <1>1, <1>2, PTL DEF Spec

-----------------------------------------------------------------------------
(* The theorems *)

\* Nobody's cash, account or relics go below zero, and every home, relic and
\* listing is one that the code can have written.
THEOREM TypeCorrect == Spec => []TypeOK
<1>1. AuctionInv => TypeOK
  <2> SUFFICES ASSUME AuctionInv PROVE TypeOK
    OBVIOUS
  <2>1. db \in Economy
    BY DEF AuctionInv, Good
  <2>2. \A h \in DOMAIN db.homes : db.homes[h] \in Home
    BY <2>1, NumbersGiven
  <2>3. \A id \in DOMAIN db.auctions : db.auctions[id] \in Listing
    BY <2>1, NumbersGiven DEF Offer
  <2> QED
    BY <2>1, <2>2, <2>3, EconomyIs DEF AuctionInv, TypeOK
<1> QED
  BY <1>1, AuctionInvHolds, PTL

\* Through bids, sales, returns, foreclosure and bankruptcy no cent is lost, and
\* none appears but where a failed save leaves it with another player.
THEOREM CashIsKept == Spec => []CashKept
<1>1. AuctionInv => CashKept
  BY DEF AuctionInv
<1> QED
  BY <1>1, AuctionInvHolds, PTL

\* A home is listed exactly if one auction offers it, of its owner, and every
\* listing of relics holds as many of the seller as it offers, also after calls
\* that failed to save.
THEOREM EscrowsAgree == Spec => []EscrowAgrees
<1>1. AuctionInv => EscrowAgrees
  <2> SUFFICES ASSUME AuctionInv PROVE EscrowAgrees
    OBVIOUS
  <2>1. Good(db, now) /\ db \in Economy
    BY DEF AuctionInv, Good
  <2>2. PICK q \in Seq(Relic) : q = db.relics
    BY <2>1, EconomyIs
  <2>3. \A k \in DOMAIN q : q[k] \in Relic
    BY HavingFinite
  <2>4. ASSUME NEW a \in Accounts
        PROVE  db.count[a] - Cardinality(Unlisted(db, a)) \in {0, LegacyRelics[a]}
    <3>1. Unlisted(db, a) = Having(q, Loose(a))
      BY <2>2 DEF Unlisted, Having, Loose
    <3> QED
      BY <2>1, <2>2, <3>1 DEF Good, Counted
  <2>5. ASSUME NEW h \in DOMAIN db.homes, NEW on, on = {id \in DOMAIN db.auctions : db.auctions[id].home = h}
        PROVE  /\ Cardinality(on) = IF db.homes[h].listed THEN 1 ELSE 0
               /\ \A id \in on : db.auctions[id].seller = db.homes[h].owner
    <3>1. h # 0
      BY <2>1, NumbersGiven
    <3>2. Offered(db.homes, db.auctions)
      BY <2>1 DEF Good
    <3>3. \A id \in on : db.auctions[id].seller = db.homes[h].owner
      BY <2>5, <3>1, <3>2 DEF Offered
    <3>4. CASE db.homes[h].listed
      <4>1. PICK id \in on : TRUE
        BY <2>5, <3>2, <3>4 DEF Offered
      <4>2. \A other \in on : other = id
        BY <2>5, <3>1, <3>2, <4>1 DEF Offered
      <4>3. on = {id}
        BY <4>1, <4>2
      <4>4. Cardinality(on) = 1
        BY <4>3, FS_Singleton
      <4> QED
        BY <3>3, <3>4, <4>4
    <3>5. CASE ~db.homes[h].listed
      <4>1. on = {}
        BY <2>5, <3>2, <3>5 DEF Offered
      <4>2. Cardinality(on) = 0
        BY <4>1, FS_EmptySet
      <4> QED
        BY <3>3, <3>5, <4>2
    <3> QED
      BY <3>4, <3>5
  <2>6. ASSUME NEW id \in DOMAIN db.auctions
        PROVE  LET l == db.auctions[id]
               IN /\ l.home # 0 => l.home \in DOMAIN db.homes
                  /\ Cardinality(Escrowed(db, id)) = l.relics
                  /\ \A k \in Escrowed(db, id) : db.relics[k].owner = l.seller
    <3>1. Escrowed(db, id) = Having(q, Held(id))
      <4>1. \A k \in DOMAIN q : q[k].auction = id <=> q[k] \in Held(id)
        BY <2>3 DEF Held, Relic
      <4> QED
        BY <2>2, <4>1 DEF Escrowed, Having
    <3>2. Holding(q, db.auctions, db.nextAuction) /\ Offered(db.homes, db.auctions)
      BY <2>1, <2>2 DEF Good
    <3> QED
      BY <2>2, <3>1, <3>2 DEF Holding, Offered
  <2> QED
    BY <2>4, <2>5, <2>6 DEF EscrowAgrees
<1> QED
  BY <1>1, AuctionInvHolds, PTL

\* An account gets a home for the level of an old database at most once,
\* whatever it sold, lost or bought since.
THEOREM LegacyHomesOnce == Spec => []LegacyHomeOnce
<1>1. AuctionInv => LegacyHomeOnce
  BY DEF AuctionInv, Good, Levelled, LegacyHomeOnce
<1> QED
  BY <1>1, AuctionInvHolds, PTL
=============================================================================
