------------------------- MODULE AuctionProperties -------------------------
(***************************************************************************)
(* What the auction house owes the players whose money, homes and relics   *)
(* it holds.                                                               *)
(***************************************************************************)
EXTENDS Auction

\* Shape of the state: no wallet is overdrawn, no mortgage is negative.
TypeOK ==
  /\ db.wallet \in [Accounts -> Nat] /\ db.checking \in [Accounts -> Nat]
  /\ \A h \in DOMAIN db.homes : db.homes[h] \in Home
  /\ db.relics \in Seq(Relic)
  /\ db.count \in [Accounts -> Nat]
  /\ db.level \in [Accounts -> {0, 1}]
  /\ \A id \in DOMAIN db.auctions : db.auctions[id] \in Listing
  /\ caller \in Accounts \cup {Tick}
  /\ TypeOKCall

InEscrow(auctions) == Total([id \in DOMAIN auctions |-> auctions[id].bid])
Worth(s) == Total(s.wallet) + Total(s.checking) + InEscrow(s.auctions) + s.outside
CashAtStart == Total(InitialWallet) + Cardinality(Accounts) * InitialChecking

\* Raised and outbid, bought out, cancelled, expired, foreclosed under the
\* bidder or dropped by a bankruptcy: every cent is in a wallet, on an account,
\* in the escrow of one auction, or spent.  A call that failed and was put back
\* may leave a refund or a payment with the other player for good, so that
\* money appears; it never disappears.
CashKept ==
  IF undone THEN Worth(db) >= CashAtStart ELSE Worth(db) = CashAtStart

\* What is up for auction exists once, whatever calls failed.  The relics an
\* account may trade (collectibles) are its unlisted serial numbers, up to
\* those of the old database that have none yet.  A home is marked as listed
\* exactly if one auction offers it, its owner being the seller, and a listing
\* of relics holds that many serial numbers of the seller.
EscrowAgrees ==
  /\ \A a \in Accounts :
       db.count[a] - Cardinality(Unlisted(db, a)) \in {0, LegacyRelics[a]}
  /\ \A h \in DOMAIN db.homes :
       LET on == {id \in DOMAIN db.auctions : db.auctions[id].home = h}
       IN /\ Cardinality(on) = IF db.homes[h].listed THEN 1 ELSE 0
          /\ \A id \in on : db.auctions[id].seller = db.homes[h].owner
  /\ \A id \in DOMAIN db.auctions :
       LET l == db.auctions[id]
       IN /\ l.home # 0 => l.home \in DOMAIN db.homes
          /\ Cardinality(Escrowed(db, id)) = l.relics
          /\ \A k \in Escrowed(db, id) : db.relics[k].owner = l.seller

\* A home that was sold, seized or lost to bankruptcy does not come back as
\* the home of an old database: materialize_legacy_property gives at most one
\* to each account that has one, and none to the others.
LegacyHomeOnce ==
  \A a \in Accounts : db.granted[a] <= IF a \in LegacyHomes THEN 1 ELSE 0
=============================================================================
