---------------------------- MODULE LendingProofs ----------------------------
(***************************************************************************)
(* Proofs about debts, companies and promises for any players, amounts and *)
(* dates, and any saves that fail.  Every call of a player is shown to     *)
(* leave a good economy of the same worth; each loop of the tick keeps     *)
(* both and says what it has collected.                                    *)
(***************************************************************************)
EXTENDS LendingProperties

Tables(V) == UNION {[D -> V] : D \in SUBSET (1..MaxCalls)}

Economy ==
  [wallet : [Players -> Nat], savings : [Players -> Nat], debt : [Players -> Debt],
   company : [Players -> Company], bank : [Players -> Banks], frozen : [Banks -> Nat],
   partnerships : Tables(Partnership), contracts : Tables(Contract),
   agreements : Tables(Agreement), outside : Int,
   inherited : SUBSET Players, bankrupt : SUBSET Players]

-----------------------------------------------------------------------------
(* A good economy at time n: what TypeOK, PartnerHasCompany and            *)
(* ScheduleFollowsDebt say of it, and what the calls need besides.         *)

\* h are the players with the debt of a company.
DebtFits(d, a, h, n) ==
  /\ d \in Debt /\ d.missed < MaxMissed /\ d.due <= n + 1
  /\ d.owed = 0 => d = NoDebt
  /\ d.owed > 0 /\ d.due = 0 => a \in h

\* A player without a company has nothing in it.
CompanyFits(c, n) ==
  /\ c \in Company /\ c.missed < MaxMissed /\ c.due <= n + 1
  /\ c.due = 0 <=> c.owed = 0
  /\ c.level = 0 => c = NoCompany

\* What was not accepted yet has its payments left as well; h are bankrupt.
AgreementFits(g, h) ==
  /\ g \in Agreement
  /\ g.active => g.accepted /\ g.next > 0
  /\ g.active \/ ~g.accepted => g.left > 0 \/ {g.issuer, g.party} \cap h # {}

Good(s, n) ==
  /\ s \in Economy
  /\ \A b \in Banks : s.frozen[b] <= n + 1
  /\ \A a \in Players : DebtFits(s.debt[a], a, s.inherited, n) /\ CompanyFits(s.company[a], n)
  /\ \A id \in DOMAIN s.partnerships : Runs(s, s.partnerships[id].owner)
  /\ \A id \in DOMAIN s.agreements : AgreementFits(s.agreements[id], s.bankrupt)

\* What a call of a makes of a good economy; it closes no company but its own.
Does(s, t, a, n) ==
  /\ Good(t, n)
  /\ Worth(t) = Worth(s)
  /\ \A b \in Players \ {a} : Runs(s, b) => Runs(t, b)

\* A call that closes no company at all.
Spares(s, t, n) ==
  /\ Good(t, n)
  /\ Worth(t) = Worth(s)
  /\ \A b \in Players : Runs(s, b) => Runs(t, b)

-----------------------------------------------------------------------------
\* The constants.
LEMMA Numbers ==
  /\ MaxMissed \in Nat /\ 0 < MaxMissed /\ IsFiniteSet(Players) /\ MaxCalls \in Nat
  /\ Amounts \subseteq Nat \ {0} /\ Days \subseteq Nat \ {0}
  /\ StartCost \in Nat /\ 0 < StartCost
  BY LendingAssumption, CallAssumption

\* The worth of an economy is a number.
LEMMA WorthIs ==
  ASSUME NEW s \in Economy
  PROVE  /\ s.wallet \in [Players -> Int] /\ s.savings \in [Players -> Int]
         /\ Tills(s) \in [Players -> Int]
         /\ Total(s.wallet) \in Int /\ Total(s.savings) \in Int /\ Total(Tills(s)) \in Int
         /\ s.outside \in Int /\ Worth(s) \in Int
<1>1. s.wallet \in [Players -> Int] /\ s.savings \in [Players -> Int]
  BY DEF Economy
<1>2. Tills(s) \in [Players -> Int]
  BY DEF Economy, Company, Tills
<1>3. Total(s.wallet) \in Int /\ Total(s.savings) \in Int /\ Total(Tills(s)) \in Int
  BY <1>1, <1>2, Numbers, TotalInt
<1>4. s.outside \in Int
  BY DEF Economy
<1> QED
  BY <1>1, <1>2, <1>3, <1>4 DEF Worth

\* Cash that moves between a wallet, a savings account, a till and the outside.
LEMMA CashMoves ==
  ASSUME NEW s \in Economy, NEW t \in Economy, NEW a \in Players, NEW o \in Players,
         \A b \in Players \ {a} : t.wallet[b] = s.wallet[b] /\ t.savings[b] = s.savings[b],
         \A b \in Players \ {o} : t.company[b].till = s.company[b].till,
         t.wallet[a] + t.savings[a] + t.company[o].till + t.outside
           = s.wallet[a] + s.savings[a] + s.company[o].till + s.outside
  PROVE  Worth(t) = Worth(s)
<1>1. Total(t.wallet) = Total(s.wallet) + t.wallet[a] - s.wallet[a]
  BY Numbers, WorthIs, TotalUpdated
<1>2. Total(t.savings) = Total(s.savings) + t.savings[a] - s.savings[a]
  BY Numbers, WorthIs, TotalUpdated
<1>3. Total(Tills(t)) = Total(Tills(s)) + Tills(t)[o] - Tills(s)[o]
  <2>1. \A b \in Players \ {o} : Tills(t)[b] = Tills(s)[b]
    BY DEF Tills
  <2> QED
    BY <2>1, Numbers, WorthIs, TotalUpdated
<1>4. Tills(t)[o] = t.company[o].till /\ Tills(s)[o] = s.company[o].till
  BY DEF Tills
<1>5. PICK x \in Int, y \in Int : x = t.wallet[a] /\ y = s.wallet[a]
  BY WorthIs
<1>6. PICK p \in Int, q \in Int : p = t.savings[a] /\ q = s.savings[a]
  BY WorthIs
<1>7. PICK u \in Int, v \in Int : u = t.company[o].till /\ v = s.company[o].till
  BY <1>4, WorthIs
<1>8. PICK i \in Int, j \in Int : i = t.outside /\ j = s.outside
  BY WorthIs
<1>9. PICK A \in Int, B \in Int, C \in Int :
        A = Total(s.wallet) /\ B = Total(s.savings) /\ C = Total(Tills(s))
  BY WorthIs
<1>10. x + p + u + i = y + q + v + j
  BY <1>5, <1>6, <1>7, <1>8
<1>11. Worth(s) = A + B + C + j
  BY <1>8, <1>9 DEF Worth
<1>12. Worth(t) = (A + x - y) + (B + p - q) + (C + u - v) + i
  BY <1>1, <1>2, <1>3, <1>4, <1>5, <1>6, <1>7, <1>8, <1>9 DEF Worth
<1> QED
  BY <1>10, <1>11, <1>12

-----------------------------------------------------------------------------
(* A call writes the wallet, the savings and the debt of a player a, the    *)
(* company of a player o, and what has left the players.                    *)

Written(s, a, x, y, d, o, c, h, out) ==
  [s EXCEPT !.wallet = [s.wallet EXCEPT ![a] = x],
            !.savings = [s.savings EXCEPT ![a] = y],
            !.debt = [s.debt EXCEPT ![a] = d],
            !.company = [s.company EXCEPT ![o] = c],
            !.inherited = h,
            !.outside = out]

\* What is written is there, and the rest stays.
Shows(t, s, a, x, y, d, o, c, h, out) ==
  /\ t \in Economy
  /\ t.wallet[a] = x /\ t.savings[a] = y /\ t.debt[a] = d /\ t.company[o] = c
  /\ t.inherited = h /\ t.outside = out
  /\ \A b \in Players \ {a} : /\ t.wallet[b] = s.wallet[b] /\ t.savings[b] = s.savings[b]
                              /\ t.debt[b] = s.debt[b]
  /\ \A b \in Players \ {o} : t.company[b] = s.company[b]
  /\ t.bank = s.bank /\ t.frozen = s.frozen /\ t.partnerships = s.partnerships
  /\ t.contracts = s.contracts /\ t.agreements = s.agreements /\ t.bankrupt = s.bankrupt

\* Written does what it says.
LEMMA WrittenIs ==
  ASSUME NEW s \in Economy, NEW a \in Players, NEW o \in Players, NEW x \in Nat, NEW y \in Nat,
         NEW d \in Debt, NEW c \in Company, NEW h \in SUBSET Players, NEW out \in Int
  PROVE  Shows(Written(s, a, x, y, d, o, c, h, out), s, a, x, y, d, o, c, h, out)
<1>0. PICK t : t = Written(s, a, x, y, d, o, c, h, out)
  OBVIOUS
<1>1. /\ [s.wallet EXCEPT ![a] = x] \in [Players -> Nat]
      /\ [s.savings EXCEPT ![a] = y] \in [Players -> Nat]
      /\ [s.debt EXCEPT ![a] = d] \in [Players -> Debt]
      /\ [s.company EXCEPT ![o] = c] \in [Players -> Company]
  BY DEF Economy
<1>2. t \in Economy
  BY <1>0, <1>1 DEF Written, Economy
<1>3. /\ t.wallet = [s.wallet EXCEPT ![a] = x] /\ t.savings = [s.savings EXCEPT ![a] = y]
      /\ t.debt = [s.debt EXCEPT ![a] = d] /\ t.company = [s.company EXCEPT ![o] = c]
      /\ t.inherited = h /\ t.outside = out
      /\ t.bank = s.bank /\ t.frozen = s.frozen /\ t.partnerships = s.partnerships
      /\ t.contracts = s.contracts /\ t.agreements = s.agreements /\ t.bankrupt = s.bankrupt
  BY <1>0 DEF Written, Economy
<1>4. /\ s.wallet \in [Players -> Nat] /\ s.savings \in [Players -> Nat]
      /\ s.debt \in [Players -> Debt] /\ s.company \in [Players -> Company]
  BY DEF Economy
<1> QED
  BY <1>0, <1>2, <1>3, <1>4 DEF Shows

\* Writing what fits keeps the economy good, and its worth if the cash adds up.
LEMMA ShownDoes ==
  ASSUME NEW s, NEW n \in Nat, Good(s, n), NEW a \in Players, NEW o \in Players,
         NEW x \in Nat, NEW y \in Nat, NEW d, NEW c, NEW h \in SUBSET Players, NEW out \in Int,
         DebtFits(d, a, h, n), CompanyFits(c, n), s.inherited \subseteq h \cup {a},
         \/ s.company[o].level > 0 => c.level > 0
         \/ o = a /\ \A id \in DOMAIN s.partnerships : s.partnerships[id].owner # a,
         x + y + c.till + out = s.wallet[a] + s.savings[a] + s.company[o].till + s.outside,
         NEW t, Shows(t, s, a, x, y, d, o, c, h, out)
  PROVE  Does(s, t, a, n)
<1>1. s \in Economy /\ d \in Debt /\ c \in Company
  BY DEF Good, DebtFits, CompanyFits
<1>2. /\ t \in Economy
      /\ t.wallet[a] = x /\ t.savings[a] = y /\ t.debt[a] = d /\ t.company[o] = c
      /\ t.inherited = h /\ t.outside = out
      /\ \A b \in Players \ {a} : /\ t.wallet[b] = s.wallet[b] /\ t.savings[b] = s.savings[b]
                                  /\ t.debt[b] = s.debt[b]
      /\ \A b \in Players \ {o} : t.company[b] = s.company[b]
      /\ t.frozen = s.frozen /\ t.partnerships = s.partnerships
      /\ t.agreements = s.agreements /\ t.bankrupt = s.bankrupt
  BY DEF Shows
<1>3. Worth(t) = Worth(s)
  BY <1>1, <1>2, CashMoves
<1>4. /\ \A b \in Players \ {o} : Runs(s, b) => Runs(t, b)
      /\ \A b \in Players \ {a} : Runs(s, b) => Runs(t, b)
      /\ \A id \in DOMAIN s.partnerships :
           Runs(s, s.partnerships[id].owner) => Runs(t, s.partnerships[id].owner)
  <2>1. \A b \in Players \ {o} : Runs(s, b) => Runs(t, b)
    BY <1>2 DEF Runs
  <2>2. \A id \in DOMAIN s.partnerships : s.partnerships[id].owner \in Players
    BY <1>1 DEF Economy, Tables, Partnership
  <2>3. CASE s.company[o].level > 0 => c.level > 0
    <3>1. Runs(s, o) => Runs(t, o)
      BY <1>2, <2>3 DEF Runs
    <3> QED
      BY <2>1, <2>2, <3>1
  <2>4. CASE o = a /\ \A id \in DOMAIN s.partnerships : s.partnerships[id].owner # a
    BY <2>1, <2>2, <2>4
  <2> QED
    BY <2>3, <2>4
<1>5. ASSUME NEW b \in Players
      PROVE  DebtFits(t.debt[b], b, t.inherited, n) /\ CompanyFits(t.company[b], n)
  <2>1. DebtFits(t.debt[b], b, t.inherited, n)
    BY <1>2 DEF Good, DebtFits
  <2>2. CompanyFits(t.company[b], n)
    BY <1>2 DEF Good
  <2> QED
    BY <2>1, <2>2
<1>6. \A id \in DOMAIN t.partnerships : Runs(t, t.partnerships[id].owner)
  BY <1>2, <1>4 DEF Good
<1>7. Good(t, n)
  BY <1>2, <1>5, <1>6 DEF Good
<1> QED
  BY <1>3, <1>4, <1>7 DEF Does

\* The same, where it is Written that writes.
LEMMA Writes ==
  ASSUME NEW s, NEW n \in Nat, Good(s, n), NEW a \in Players, NEW o \in Players,
         NEW x \in Nat, NEW y \in Nat, NEW d, NEW c, NEW h \in SUBSET Players, NEW out \in Int,
         DebtFits(d, a, h, n), CompanyFits(c, n), s.inherited \subseteq h \cup {a},
         \/ s.company[o].level > 0 => c.level > 0
         \/ o = a /\ \A id \in DOMAIN s.partnerships : s.partnerships[id].owner # a,
         x + y + c.till + out = s.wallet[a] + s.savings[a] + s.company[o].till + s.outside,
         NEW t, t = Written(s, a, x, y, d, o, c, h, out)
  PROVE  Does(s, t, a, n)
<1>1. Shows(t, s, a, x, y, d, o, c, h, out)
  <2>1. t = Written(s, a, x, y, d, o, c, h, out) /\ s \in Economy /\ d \in Debt /\ c \in Company
    BY DEF Good, DebtFits, CompanyFits
  <2>2. Shows(Written(s, a, x, y, d, o, c, h, out), s, a, x, y, d, o, c, h, out)
    BY <2>1, WrittenIs
  <2> QED
    BY <2>1, <2>2
<1> QED
  BY <1>1, ShownDoes

\* A call may do one thing after another.
LEMMA Together ==
  ASSUME NEW s, NEW t, NEW u, NEW a, NEW n, Does(s, t, a, n), Does(t, u, a, n)
  PROVE  Does(s, u, a, n)
  BY DEF Does

-----------------------------------------------------------------------------
(* A call writes partnerships, contracts, agreements. *)

Tabled(s, p, c, g, h) ==
  [s EXCEPT !.partnerships = p, !.contracts = c, !.agreements = g, !.bankrupt = h]

\* The tables that a call may write.
TablesFit(s, p, c, g, h) ==
  /\ p \in Tables(Partnership) /\ c \in Tables(Contract) /\ g \in Tables(Agreement)
  /\ h \in SUBSET Players
  /\ \A id \in DOMAIN p : Runs(s, p[id].owner)
  /\ \A id \in DOMAIN g : AgreementFits(g[id], h)

\* The tables are there, and the rest stays.
Holds(t, s, p, c, g, h) ==
  /\ t \in Economy
  /\ t.partnerships = p /\ t.contracts = c /\ t.agreements = g /\ t.bankrupt = h
  /\ t.wallet = s.wallet /\ t.savings = s.savings /\ t.debt = s.debt /\ t.company = s.company
  /\ t.bank = s.bank /\ t.frozen = s.frozen /\ t.outside = s.outside /\ t.inherited = s.inherited

\* Tables that fit keep the economy good, and do not touch money.
LEMMA TabledIs ==
  ASSUME NEW s, NEW n, Good(s, n), NEW p, NEW c, NEW g, NEW h, TablesFit(s, p, c, g, h)
  PROVE  Holds(Tabled(s, p, c, g, h), s, p, c, g, h)
<1>1. PICK t : t = Tabled(s, p, c, g, h)
  OBVIOUS
<1>2. t \in Economy
  BY <1>1 DEF Tabled, TablesFit, Economy, Good
<1>3. /\ t.partnerships = p /\ t.contracts = c /\ t.agreements = g /\ t.bankrupt = h
      /\ t.wallet = s.wallet /\ t.savings = s.savings /\ t.debt = s.debt /\ t.company = s.company
      /\ t.bank = s.bank /\ t.frozen = s.frozen /\ t.outside = s.outside /\ t.inherited = s.inherited
  BY <1>1 DEF Tabled, Economy, Good
<1> QED
  BY <1>1, <1>2, <1>3 DEF Holds

\* A call that only writes tables that fit closes no company.
LEMMA TabledSpares ==
  ASSUME NEW s, NEW n, Good(s, n), NEW p, NEW c, NEW g, NEW h, TablesFit(s, p, c, g, h)
  PROVE  Spares(s, Tabled(s, p, c, g, h), n)
<1>1. PICK t : t = Tabled(s, p, c, g, h)
  OBVIOUS
<1>2. Holds(t, s, p, c, g, h)
  BY <1>1, TabledIs
<1>3. Worth(t) = Worth(s)
  BY <1>2 DEF Worth, Tills, Holds
<1>4. Good(t, n) /\ \A b \in Players : Runs(s, b) => Runs(t, b)
  BY <1>2 DEF Good, Runs, Holds, TablesFit
<1> QED
  BY <1>1, <1>3, <1>4 DEF Spares

\* The same, as the call of a.
LEMMA TabledDoes ==
  ASSUME NEW s, NEW n, Good(s, n), NEW p, NEW c, NEW g, NEW h, TablesFit(s, p, c, g, h), NEW a
  PROVE  Does(s, Tabled(s, p, c, g, h), a, n)
  BY TabledSpares DEF Does, Spares

\* What is left of a table fits as the table did.
LEMMA Fewer ==
  ASSUME NEW V, NEW f \in Tables(V), NEW D \in SUBSET DOMAIN f
  PROVE  /\ Restrict(f, D) \in Tables(V) /\ DOMAIN Restrict(f, D) = D
         /\ \A id \in D : Restrict(f, D)[id] = f[id]
<1>1. PICK E \in SUBSET (1..MaxCalls) : f \in [E -> V]
  BY DEF Tables
<1>2. PICK r : r = Restrict(f, D)
  OBVIOUS
<1>3. r = [id \in D |-> f[id]]
  BY <1>2 DEF Restrict
<1>4. r \in [D -> V]
  BY <1>1, <1>3
<1> QED
  BY <1>1, <1>2, <1>3, <1>4 DEF Tables

-----------------------------------------------------------------------------
(* The calls of the bank *)

\* The numbers of a player.
LEMMA Player ==
  ASSUME NEW s, NEW n, Good(s, n), NEW a \in Players
  PROVE  /\ s \in Economy
         /\ s.wallet[a] \in Nat /\ s.savings[a] \in Nat /\ s.outside \in Int
         /\ s.inherited \in SUBSET Players
         /\ DebtFits(s.debt[a], a, s.inherited, n) /\ CompanyFits(s.company[a], n)
         /\ s.debt[a] \in Debt /\ s.company[a] \in Company
         /\ s.debt[a].owed \in Nat /\ s.debt[a].due \in Nat /\ s.debt[a].missed \in Nat
         /\ s.company[a].level \in Nat /\ s.company[a].till \in Nat /\ s.company[a].owed \in Nat
         /\ s.company[a].due \in Nat /\ s.company[a].missed \in Nat
<1>1. s \in Economy
  BY DEF Good
<1>2. s.debt[a] \in Debt /\ s.company[a] \in Company
  BY <1>1 DEF Economy
<1>3. s.wallet[a] \in Nat /\ s.savings[a] \in Nat /\ s.outside \in Int /\ s.inherited \in SUBSET Players
  BY <1>1 DEF Economy
<1> QED
  BY <1>1, <1>2, <1>3 DEF Good, Debt, Company

\* Writing what is there changes nothing.
LEMMA Kept ==
  ASSUME NEW s \in Economy, NEW a \in Players
  PROVE  /\ [s.wallet EXCEPT ![a] = s.wallet[a]] = s.wallet
         /\ [s.savings EXCEPT ![a] = s.savings[a]] = s.savings
         /\ [s.debt EXCEPT ![a] = s.debt[a]] = s.debt
         /\ [s.company EXCEPT ![a] = s.company[a]] = s.company
  BY DEF Economy

\* A call that writes cash only, a debt, or a till.
CashPut(s, a, x, y, out) ==
  [s EXCEPT !.wallet = [s.wallet EXCEPT ![a] = x],
            !.savings = [s.savings EXCEPT ![a] = y], !.outside = out]

DebtPut(s, a, x, d, h, out) ==
  [s EXCEPT !.wallet = [s.wallet EXCEPT ![a] = x],
            !.debt = [s.debt EXCEPT ![a] = d], !.inherited = h, !.outside = out]

TillPut(s, a, x, o, c, out) ==
  [s EXCEPT !.wallet = [s.wallet EXCEPT ![a] = x],
            !.company = [s.company EXCEPT ![o] = c], !.outside = out]

\* Writing cash leaves debt and company as they are.
LEMMA CashWritten ==
  ASSUME NEW s \in Economy, NEW a \in Players, NEW x, NEW y, NEW out
  PROVE  Written(s, a, x, y, s.debt[a], a, s.company[a], s.inherited, out) = CashPut(s, a, x, y, out)
<1> DEFINE w == [s.wallet EXCEPT ![a] = x]
           v == [s.savings EXCEPT ![a] = y]
<1> HIDE DEF w, v
<1>1. [s EXCEPT !.wallet = w, !.savings = v, !.debt = s.debt, !.company = s.company,
                !.inherited = s.inherited, !.outside = out]
        = [s EXCEPT !.wallet = w, !.savings = v, !.outside = out]
  BY DEF Economy
<1> QED
  BY <1>1, Kept DEF Written, CashPut, w, v

\* Writing a debt leaves savings and company as they are.
LEMMA DebtWritten ==
  ASSUME NEW s \in Economy, NEW a \in Players, NEW x, NEW d, NEW h, NEW out
  PROVE  Written(s, a, x, s.savings[a], d, a, s.company[a], h, out) = DebtPut(s, a, x, d, h, out)
<1> DEFINE w == [s.wallet EXCEPT ![a] = x]
           v == [s.debt EXCEPT ![a] = d]
<1> HIDE DEF w, v
<1>1. [s EXCEPT !.wallet = w, !.savings = s.savings, !.debt = v, !.company = s.company,
                !.inherited = h, !.outside = out]
        = [s EXCEPT !.wallet = w, !.debt = v, !.inherited = h, !.outside = out]
  BY DEF Economy
<1> QED
  BY <1>1, Kept DEF Written, DebtPut, w, v

\* Writing a till leaves savings and debts as they are.
LEMMA TillWritten ==
  ASSUME NEW s \in Economy, NEW a \in Players, NEW o \in Players, NEW x, NEW c, NEW out
  PROVE  Written(s, a, x, s.savings[a], s.debt[a], o, c, s.inherited, out) = TillPut(s, a, x, o, c, out)
<1> DEFINE w == [s.wallet EXCEPT ![a] = x]
           v == [s.company EXCEPT ![o] = c]
<1> HIDE DEF w, v
<1>1. [s EXCEPT !.wallet = w, !.savings = s.savings, !.debt = s.debt, !.company = v,
                !.inherited = s.inherited, !.outside = out]
        = [s EXCEPT !.wallet = w, !.company = v, !.outside = out]
  BY DEF Economy
<1> QED
  BY <1>1, Kept DEF Written, TillPut, w, v

\* bank select: nothing but the bank.
LEMMA SelectBankDoes ==
  ASSUME Good(db, now), NEW a \in Players, NEW b \in Banks, SelectBank(a, b)
  PROVE  Does(db, db', a, now)
<1>1. db \in Economy
  BY DEF Good
<1>2. db' = [db EXCEPT !.bank = [db.bank EXCEPT ![a] = b]]
  BY <1>1 DEF SelectBank, Call, Economy
<1>3. PICK t : t = db'
  OBVIOUS
<1>4. t \in Economy
  <2>1. [db.bank EXCEPT ![a] = b] \in [Players -> Banks]
    BY <1>1 DEF Economy
  <2> QED
    BY <1>1, <1>2, <1>3, <2>1 DEF Economy
<1>5. /\ t.wallet = db.wallet /\ t.savings = db.savings /\ t.debt = db.debt
      /\ t.company = db.company /\ t.frozen = db.frozen /\ t.partnerships = db.partnerships
      /\ t.agreements = db.agreements /\ t.outside = db.outside
      /\ t.inherited = db.inherited /\ t.bankrupt = db.bankrupt
  BY <1>1, <1>2, <1>3 DEF Economy
<1>6. Worth(t) = Worth(db)
  BY <1>5 DEF Worth, Tills
<1>7. Good(t, now) /\ \A x \in Players : Runs(db, x) => Runs(t, x)
  BY <1>4, <1>5 DEF Good, Runs
<1> QED
  BY <1>3, <1>6, <1>7 DEF Does

\* savings deposit.
LEMMA DepositDoes ==
  ASSUME Good(db, now), now \in Nat, NEW a \in Players, NEW m \in Amounts, Deposit(a, m)
  PROVE  Does(db, db', a, now)
<1>1. PICK x \in Nat, y \in Nat : x = db.wallet[a] /\ y = db.savings[a]
  BY Player
<1>2. m \in Nat /\ x - m \in Nat /\ y + m \in Nat
  BY <1>1, Numbers DEF Deposit, Covers
<1>3. db' = CashPut(db, a, x - m, y + m, db.outside)
  BY <1>1, Player DEF Deposit, Call, Economy, CashPut
<1>4. db' = Written(db, a, x - m, y + m, db.debt[a], a, db.company[a], db.inherited, db.outside)
  BY <1>3, Player, CashWritten
<1>5. PICK z \in Nat, u \in Int : z = db.company[a].till /\ u = db.outside
  BY Player
<1>6. (x - m) + (y + m) + z + u = x + y + z + u
  BY <1>2
<1> QED
  BY <1>1, <1>2, <1>4, <1>5, <1>6, Player, Writes

\* savings withdraw.
LEMMA WithdrawSavingsDoes ==
  ASSUME Good(db, now), now \in Nat, NEW a \in Players, NEW m \in Amounts, WithdrawSavings(a, m)
  PROVE  Does(db, db', a, now)
<1>1. PICK x \in Nat, y \in Nat : x = db.wallet[a] /\ y = db.savings[a]
  BY Player
<1>2. m \in Nat /\ x + m \in Nat /\ y - m \in Nat
  BY <1>1, Numbers DEF WithdrawSavings
<1>3. db' = CashPut(db, a, x + m, y - m, db.outside)
  BY <1>1, Player DEF WithdrawSavings, Call, Economy, CashPut
<1>4. db' = Written(db, a, x + m, y - m, db.debt[a], a, db.company[a], db.inherited, db.outside)
  BY <1>3, Player, CashWritten
<1>5. PICK z \in Nat, u \in Int : z = db.company[a].till /\ u = db.outside
  BY Player
<1>6. (x + m) + (y - m) + z + u = x + y + z + u
  BY <1>2
<1> QED
  BY <1>1, <1>2, <1>4, <1>5, <1>6, Player, Writes

\* A debt taken up: its date is the old one, or tomorrow.
LEMMA BorrowsDoes ==
  ASSUME NEW s, Good(s, now), now \in Nat, NEW a \in Players, NEW i \in Nat, NEW m \in Nat, m > 0
  PROVE  Does(s, Owes(Spend(s, a, -i), a, m), a, now)
<1>1. PICK x \in Nat, u \in Int : x = s.wallet[a] /\ u = s.outside
  BY Player
<1>2. PICK e \in Debt : e = s.debt[a] /\ DebtFits(e, a, s.inherited, now)
  BY Player
<1>3. PICK due \in Nat : due = Dated(e.due) /\ 0 < due /\ due <= now + 1
  BY <1>2 DEF Dated, DebtFits, Debt
<1>4. PICK d : d = Borrowed(e, m)
  OBVIOUS
<1>5. DebtFits(d, a, s.inherited, now)
  <2>1. d = [owed |-> e.owed + m, due |-> due, missed |-> e.missed]
    BY <1>3, <1>4 DEF Borrowed, Debt
  <2> QED
    BY <1>2, <1>3, <2>1 DEF DebtFits, Debt
<1>6. PICK t : t = Owes(Spend(s, a, -i), a, m)
  OBVIOUS
<1>7. t = DebtPut(s, a, x + i, d, s.inherited, u - i)
  <2>1. x - (-i) = x + i /\ u + (-i) = u - i
    OBVIOUS
  <2>2. s \in Economy
    BY Player
  <2>3. Spend(s, a, -i) = [s EXCEPT !.wallet = [s.wallet EXCEPT ![a] = x + i], !.outside = u - i]
    BY <1>1, <2>1, <2>2 DEF Spend, Economy
  <2> QED
    BY <1>2, <1>4, <1>6, <2>2, <2>3 DEF DebtPut, Owes, Economy
<1>8. t = Written(s, a, x + i, s.savings[a], d, a, s.company[a], s.inherited, u - i)
  BY <1>7, Player, DebtWritten
<1>9. PICK y \in Nat, z \in Nat : y = s.savings[a] /\ z = s.company[a].till
  BY Player
<1>10. (x + i) + y + z + (u - i) = x + y + z + u /\ x + i \in Nat /\ u - i \in Int
  OBVIOUS
<1>11. Does(s, t, a, now)
  BY <1>1, <1>5, <1>8, <1>9, <1>10, Player, Writes
<1> QED
  BY <1>6, <1>11

\* loan.
LEMMA LoanDoes ==
  ASSUME Good(db, now), now \in Nat, NEW a \in Players, NEW m \in Amounts, Loan(a, m)
  PROVE  Does(db, db', a, now)
<1>1. m \in Nat /\ m + m \div 10 \in Nat /\ m + m \div 10 > 0
  BY Numbers
<1> QED
  BY <1>1, BorrowsDoes DEF Loan, Call

\* card charge.
LEMMA ChargeDoes ==
  ASSUME Good(db, now), now \in Nat, NEW a \in Players, NEW m \in Amounts, Charge(a, m)
  PROVE  Does(db, db', a, now)
<1>1. m \in Nat /\ m > 0 /\ m + m \div 100 \in Nat
  BY Numbers
<1> QED
  BY <1>1, BorrowsDoes DEF Charge, Call

\* repay.
LEMMA RepayDoes ==
  ASSUME Good(db, now), now \in Nat, NEW a \in Players, NEW m \in Amounts, Repay(a, m)
  PROVE  Does(db, db', a, now)
<1>1. PICK x \in Nat, u \in Int : x = db.wallet[a] /\ u = db.outside
  BY Player
<1>2. PICK e \in Debt : e = db.debt[a] /\ DebtFits(e, a, db.inherited, now)
  BY Player
<1>3. PICK p \in Nat : p = Smaller(m, e.owed) /\ p <= m /\ p <= e.owed
  BY Numbers DEF Smaller, Debt
<1>4. x - p \in Nat /\ u + p \in Int
  BY <1>1, <1>3, Numbers DEF Repay, Covers
<1>5. PICK h \in SUBSET Players :
        h = IF p = e.owed THEN db.inherited \ {a} ELSE db.inherited
  BY Player
<1>6. PICK d : d = Repaid(e, p)
  OBVIOUS
<1>7. DebtFits(d, a, h, now)
  <2>1. PICK left \in Nat : left = e.owed - p
    BY <1>3 DEF Debt
  <2>2. CASE left = 0
    BY <1>6, <2>1, <2>2, Numbers DEF Repaid, DebtFits, NoDebt, Debt
  <2>3. CASE left > 0 /\ p >= Minimum(left)
    BY <1>6, <2>1, <2>3, Numbers DEF Repaid, DebtFits, Debt
  <2>4. CASE left > 0 /\ ~(p >= Minimum(left))
    <3>1. d = [e EXCEPT !.owed = left]
      BY <1>6, <2>1, <2>4 DEF Repaid
    <3>2. h = db.inherited
      BY <1>3, <1>5, <2>1, <2>4 DEF Debt
    <3> QED
      BY <1>2, <2>1, <2>4, <3>1, <3>2 DEF DebtFits, Debt
  <2> QED
    BY <2>1, <2>2, <2>3, <2>4
<1>8. db' = DebtPut(db, a, x - p, d, h, u + p)
  <2>1. db \in Economy
    BY Player
  <2>2. Spend(db, a, p) = [db EXCEPT !.wallet = [db.wallet EXCEPT ![a] = x - p], !.outside = u + p]
    BY <1>1, <2>1 DEF Spend, Economy
  <2> QED
    BY <1>2, <1>3, <1>5, <1>6, <2>1, <2>2 DEF Repay, Call, DebtPut, Economy
<1>9. db' = Written(db, a, x - p, db.savings[a], d, a, db.company[a], h, u + p)
  BY <1>8, Player, DebtWritten
<1>10. PICK y \in Nat, z \in Nat : y = db.savings[a] /\ z = db.company[a].till
  BY Player
<1>11. (x - p) + y + z + (u + p) = x + y + z + u
  BY <1>4
<1>12. db.inherited \subseteq h \cup {a}
  BY <1>5
<1> QED
  BY <1>1, <1>4, <1>7, <1>9, <1>10, <1>11, <1>12, Player, Writes

\* A company that is closed, with its till.
LEMMA ClosedIs ==
  ASSUME NEW s, NEW n, Good(s, n), NEW a \in Players
  PROVE  \E p : /\ p = Restrict(s.partnerships, {id \in DOMAIN s.partnerships : s.partnerships[id].owner # a})
                /\ TablesFit(s, p, s.contracts, s.agreements, s.bankrupt)
                /\ \A id \in DOMAIN p : p[id].owner # a
<1>1. PICK D : D = {id \in DOMAIN s.partnerships : s.partnerships[id].owner # a}
  OBVIOUS
<1>2. PICK p : p = Restrict(s.partnerships, D)
  OBVIOUS
<1>3. s \in Economy
  BY DEF Good
<1>4. D \in SUBSET DOMAIN s.partnerships /\ s.partnerships \in Tables(Partnership)
  BY <1>1, <1>3 DEF Economy
<1>5. p \in Tables(Partnership) /\ DOMAIN p = D /\ \A id \in D : p[id] = s.partnerships[id]
  BY <1>2, <1>4, Fewer
<1>6. \A id \in DOMAIN p : Runs(s, p[id].owner) /\ p[id].owner # a
  BY <1>1, <1>5 DEF Good
<1>7. s.contracts \in Tables(Contract) /\ s.agreements \in Tables(Agreement)
      /\ s.bankrupt \in SUBSET Players
  BY <1>3 DEF Economy
<1>8. \A id \in DOMAIN s.agreements : AgreementFits(s.agreements[id], s.bankrupt)
  BY DEF Good
<1> QED
  BY <1>1, <1>2, <1>5, <1>6, <1>7, <1>8 DEF TablesFit

-----------------------------------------------------------------------------
(* The calls of a company *)

\* Writing what is there, but for a wallet, a till and the outside.
LEMMA TillDoes ==
  ASSUME NEW s, NEW n \in Nat, Good(s, n), NEW a \in Players, NEW o \in Players,
         NEW x \in Nat, NEW c, CompanyFits(c, n), s.company[o].level > 0 => c.level > 0,
         NEW out \in Int,
         x + c.till + out = s.wallet[a] + s.company[o].till + s.outside,
         NEW t, t = TillPut(s, a, x, o, c, out)
  PROVE  Spares(s, t, n)
<1>1. t = Written(s, a, x, s.savings[a], s.debt[a], o, c, s.inherited, out)
  <2>1. t = TillPut(s, a, x, o, c, out)
    OBVIOUS
  <2> QED
    BY <2>1, Player, TillWritten
<1>2. s \in Economy /\ c \in Company /\ s.savings[a] \in Nat /\ s.debt[a] \in Debt
      /\ s.inherited \in SUBSET Players /\ DebtFits(s.debt[a], a, s.inherited, n)
  BY Player DEF CompanyFits
<1>3. x + s.savings[a] + c.till + out
        = s.wallet[a] + s.savings[a] + s.company[o].till + s.outside
  <2>1. PICK i \in Nat, j \in Nat, k \in Int : i = s.wallet[a] /\ j = s.company[o].till /\ k = s.outside
    BY Player
  <2>2. PICK y \in Nat, z \in Nat : y = s.savings[a] /\ z = c.till
    BY <1>2 DEF Company
  <2>3. x + z + out = i + j + k
    BY <2>1, <2>2
  <2>4. x + y + z + out = i + y + j + k
    BY <2>3
  <2> QED
    BY <2>1, <2>2, <2>4
<1>4. Does(s, t, a, n)
  BY <1>1, <1>2, <1>3, Writes
<1>5. \A b \in Players : Runs(s, b) => Runs(t, b)
  <2>1. Shows(Written(s, a, x, s.savings[a], s.debt[a], o, c, s.inherited, out),
              s, a, x, s.savings[a], s.debt[a], o, c, s.inherited, out)
    BY <1>2, WrittenIs
  <2>2. t.company[o] = c /\ \A b \in Players \ {o} : t.company[b] = s.company[b]
    BY <1>1, <2>1 DEF Shows
  <2> QED
    BY <2>2 DEF Runs
<1> QED
  BY <1>4, <1>5 DEF Does, Spares

\* A company that fits has a till of its own, whatever it holds.
LEMMA TillFits ==
  ASSUME NEW n, NEW c, CompanyFits(c, n), NEW z \in Nat, c.level > 0 \/ z = c.till,
         NEW d, d = [c EXCEPT !.till = z]
  PROVE  CompanyFits(d, n) /\ d.till = z /\ d.level = c.level /\ d.owed = c.owed
<1>1. c \in Company
  BY DEF CompanyFits
<1>2. /\ d \in Company /\ d.till = z /\ d.level = c.level /\ d.owed = c.owed /\ d.due = c.due
      /\ d.missed = c.missed
  BY <1>1 DEF Company
<1>3. c.level = 0 => d = c
  BY <1>1 DEF Company
<1> QED
  BY <1>2, <1>3 DEF CompanyFits

SameLoan(c, d) == c.level = d.level /\ c.owed = d.owed /\ c.due = d.due /\ c.missed = d.missed

\* Cash has moved to the wallet of a, and nothing else but cash.
Pays(t, s, a, m) ==
  /\ t.wallet = [s.wallet EXCEPT ![a] = @ + m]
  /\ t.partnerships = s.partnerships /\ t.contracts = s.contracts
  /\ t.agreements = s.agreements /\ t.bankrupt = s.bankrupt /\ t.frozen = s.frozen
  /\ t.debt = s.debt /\ t.inherited = s.inherited
  /\ \A b \in Players : SameLoan(t.company[b], s.company[b])

\* What a company pays a player, or a player a company.
LEMMA TillPaysDoes ==
  ASSUME NEW s, NEW n \in Nat, Good(s, n), NEW o \in Players, NEW a \in Players, NEW m \in Int,
         Runs(s, o) \/ m = 0, s.company[o].till - m \in Nat, s.wallet[a] + m \in Nat
  PROVE  /\ Spares(s, TillPays(s, o, a, m), n)
         /\ Pays(TillPays(s, o, a, m), s, a, m)
<1>1. PICK x \in Nat, y \in Nat, u \in Int :
        x = s.wallet[a] /\ y = s.company[o].till /\ u = s.outside
  BY Player
<1>2. PICK c : c = s.company[o]
  OBVIOUS
<1>3. PICK d : d = [c EXCEPT !.till = y - m]
  OBVIOUS
<1>4. PICK t : t = TillPays(s, o, a, m)
  OBVIOUS
<1>5. y - m \in Nat /\ x + m \in Nat
  BY <1>1
<1>6. CompanyFits(d, n) /\ d.till = y - m /\ d.level = c.level
  <2>1. CompanyFits(c, n) /\ c.till = y
    BY <1>1, <1>2, Player
  <2>2. c.level > 0 \/ y - m = c.till
    BY <1>2, <2>1 DEF Runs
  <2> QED
    BY <1>3, <1>5, <2>1, <2>2, TillFits
<1>7. s \in Economy
  BY Player
<1>8. t = TillPut(s, a, x + m, o, d, u)
  BY <1>1, <1>2, <1>3, <1>4, <1>7 DEF TillPays, TillPut, Economy
<1>9. (x + m) + (y - m) + u = x + y + u
  OBVIOUS
<1>10. Spares(s, t, n)
  BY <1>1, <1>2, <1>5, <1>6, <1>8, <1>9, TillDoes
<1>11. Pays(t, s, a, m)
  <2>1. /\ t.partnerships = s.partnerships /\ t.contracts = s.contracts
        /\ t.agreements = s.agreements /\ t.bankrupt = s.bankrupt /\ t.frozen = s.frozen
        /\ t.debt = s.debt /\ t.inherited = s.inherited
        /\ t.wallet = [s.wallet EXCEPT ![a] = x + m]
        /\ t.company = [s.company EXCEPT ![o] = d]
    BY <1>7, <1>8 DEF TillPut, Economy
  <2>2. SameLoan(d, c)
    BY <1>2, <1>3, Player DEF SameLoan, Company
  <2>3. \A b \in Players : SameLoan(t.company[b], s.company[b])
    BY <1>2, <1>7, <2>1, <2>2 DEF Economy, SameLoan
  <2> QED
    BY <1>1, <2>1, <2>3 DEF Pays
<1> QED
  BY <1>4, <1>10, <1>11

\* A payment of a player to the bank or the market.
LEMMA SpendDoes ==
  ASSUME NEW s, NEW n \in Nat, Good(s, n), NEW a \in Players, NEW m \in Int, s.wallet[a] - m \in Nat
  PROVE  Spares(s, Spend(s, a, m), n)
<1>1. PICK x \in Nat, y \in Nat, u \in Int :
        x = s.wallet[a] /\ y = s.company[a].till /\ u = s.outside
  BY Player
<1>2. PICK c : c = s.company[a] /\ CompanyFits(c, n) /\ c \in Company
  BY Player
<1>3. s \in Economy
  BY Player
<1>4. PICK t : t = Spend(s, a, m)
  OBVIOUS
<1>5. t = TillPut(s, a, x - m, a, c, u + m)
  <2>1. [s.company EXCEPT ![a] = c] = s.company
    BY <1>2, <1>3, Kept
  <2>2. t = [s EXCEPT !.wallet = [s.wallet EXCEPT ![a] = x - m], !.outside = u + m]
    BY <1>1, <1>3, <1>4 DEF Spend, Economy
  <2>3. t = [s EXCEPT !.wallet = [s.wallet EXCEPT ![a] = x - m], !.company = s.company, !.outside = u + m]
    BY <1>3, <2>2 DEF Economy
  <2> QED
    BY <2>1, <2>3 DEF TillPut
<1>6. (x - m) + y + (u + m) = x + y + u
  OBVIOUS
<1>7. Spares(s, t, n)
  BY <1>1, <1>2, <1>5, <1>6, TillDoes
<1> QED
  BY <1>4, <1>7

\* A company that changes, with what leaves it.
LEMMA CompanyDoes ==
  ASSUME NEW s, NEW n \in Nat, Good(s, n), NEW a \in Players, NEW c, CompanyFits(c, n),
         s.company[a].level > 0 => c.level > 0, NEW m \in Int, c.till = s.company[a].till - m,
         NEW t, t = [s EXCEPT !.company = [s.company EXCEPT ![a] = c], !.outside = s.outside + m]
  PROVE  Spares(s, t, n)
<1>1. PICK x \in Nat, y \in Nat, u \in Int :
        x = s.wallet[a] /\ y = s.company[a].till /\ u = s.outside
  BY Player
<1>2. s \in Economy
  BY Player
<1>3. t = TillPut(s, a, x, a, c, u + m)
  <2>1. [s.wallet EXCEPT ![a] = x] = s.wallet
    BY <1>1, <1>2, Kept
  <2>2. t = [s EXCEPT !.wallet = s.wallet, !.company = [s.company EXCEPT ![a] = c], !.outside = u + m]
    BY <1>1, <1>2 DEF Economy
  <2> QED
    BY <2>1, <2>2 DEF TillPut
<1>4. x + (y - m) + (u + m) = x + y + u
  OBVIOUS
<1> QED
  BY <1>1, <1>3, <1>4, TillDoes

\* business start.
LEMMA StartBusinessDoes ==
  ASSUME Good(db, now), now \in Nat, NEW a \in Players, StartBusiness(a)
  PROVE  Spares(db, db', now)
<1>1. PICK x \in Nat, u \in Int : x = db.wallet[a] /\ u = db.outside
  BY Player
<1>2. PICK m \in Nat : m = StartCost /\ m > 0
  BY Numbers
<1>3. x - m \in Nat
  BY <1>1, <1>2 DEF StartBusiness, Covers
<1>4. db.company[a].till = 0
  <2>1. db.company[a] = NoCompany
    <3>1. CompanyFits(db.company[a], now) /\ db.company[a].level \in Nat
      BY Player
    <3> QED
      BY <3>1 DEF StartBusiness, Runs, CompanyFits
  <2> QED
    BY <2>1 DEF NoCompany
<1>5. PICK c : c = Founded(m)
  OBVIOUS
<1>6. CompanyFits(c, now) /\ c.till = m /\ c.level = 1
  <2>1. c = [level |-> 1, till |-> m, owed |-> 0, due |-> 0, missed |-> 0]
    BY <1>5 DEF Founded, NoCompany
  <2> QED
    BY <2>1, Numbers DEF CompanyFits, Company
<1>7. db' = TillPut(db, a, x - m, a, c, u)
  <2>1. db \in Economy
    BY Player
  <2> QED
    BY <1>1, <1>2, <1>5, <2>1 DEF StartBusiness, Call, TillPut, Economy
<1>8. (x - m) + m + u = x + 0 + u
  OBVIOUS
<1> QED
  BY <1>1, <1>2, <1>3, <1>4, <1>6, <1>7, <1>8, TillDoes

\* business fund.
LEMMA FundDoes ==
  ASSUME Good(db, now), now \in Nat, NEW a \in Players, NEW m \in Amounts, Fund(a, m)
  PROVE  Spares(db, db', now)
<1>1. PICK x \in Nat, y \in Nat : x = db.wallet[a] /\ y = db.company[a].till
  BY Player
<1>2. m \in Nat /\ -m \in Int /\ y - (-m) \in Nat /\ x + (-m) \in Nat
  BY <1>1, Numbers DEF Fund, Covers
<1> QED
  BY <1>1, <1>2, TillPaysDoes DEF Fund, Call

\* business withdraw.
LEMMA DistributeDoes ==
  ASSUME Good(db, now), now \in Nat, NEW a \in Players, NEW m \in Amounts, Distribute(a, m)
  PROVE  Spares(db, db', now)
<1>1. PICK x \in Nat, y \in Nat : x = db.wallet[a] /\ y = db.company[a].till
  BY Player
<1>2. m \in Nat /\ m > 0 /\ y - m \in Nat /\ x + m \in Nat
  BY <1>1, Numbers DEF Distribute
<1>3. Runs(db, a)
  <2>1. CompanyFits(db.company[a], now) /\ db.company[a].level \in Nat
    BY Player
  <2> QED
    BY <1>1, <1>2, <2>1 DEF Runs, CompanyFits, NoCompany
<1>4. PICK t : t = TillPays(db, a, a, m)
  OBVIOUS
<1>5. Spares(db, t, now) /\ t.wallet = [db.wallet EXCEPT ![a] = @ + m]
  <2>1. m \in Int /\ db.company[a].till - m \in Nat /\ db.wallet[a] + m \in Nat
    BY <1>1, <1>2
  <2>2. Runs(db, a) \/ m = 0
    BY <1>3
  <2>3. Spares(db, TillPays(db, a, a, m), now) /\ Pays(TillPays(db, a, a, m), db, a, m)
    BY <2>1, <2>2, TillPaysDoes
  <2> QED
    BY <1>4, <2>3 DEF Pays
<1>6. Good(t, now) /\ t.wallet[a] = x + m
  <2>1. db.wallet \in [Players -> Nat]
    BY Player DEF Economy
  <2> QED
    BY <1>1, <1>5, <2>1 DEF Spares, Does
<1>7. m \div 10 \in Int /\ (x + m) - m \div 10 \in Nat
  BY <1>2
<1>8. Spares(t, Spend(t, a, m \div 10), now)
  BY <1>6, <1>7, SpendDoes
<1>9. db' = Spend(t, a, m \div 10)
  BY <1>4 DEF Distribute, Call
<1> QED
  BY <1>5, <1>8, <1>9, Together DEF Spares

\* business upgrade.
LEMMA UpgradeDoes ==
  ASSUME Good(db, now), now \in Nat, NEW a \in Players, Upgrade(a)
  PROVE  Spares(db, db', now)
<1>1. PICK c \in Company : c = db.company[a] /\ CompanyFits(c, now)
  BY Player
<1>2. PICK cost \in Int : cost = UpgradeCost * c.level
  BY LendingAssumption DEF Company
<1>3. c.level > 0 /\ c.till - cost \in Nat /\ cost \in Int
  BY <1>1, <1>2 DEF Upgrade, Runs, Company
<1>4. PICK d : d = Upgraded(c, cost)
  OBVIOUS
<1>5. CompanyFits(d, now) /\ d.till = c.till - cost /\ d.level > 0
  <2>1. d = [level |-> c.level + 1, till |-> c.till - cost, owed |-> c.owed, due |-> c.due,
             missed |-> c.missed]
    BY <1>4 DEF Upgraded, Company
  <2> QED
    BY <1>1, <1>3, <2>1 DEF CompanyFits, Company
<1>6. db' = [db EXCEPT !.company = [db.company EXCEPT ![a] = d], !.outside = db.outside + cost]
  <2>1. db \in Economy
    BY Player
  <2> QED
    BY <1>1, <1>2, <1>4, <2>1 DEF Upgrade, Call, Economy
<1> QED
  BY <1>1, <1>3, <1>5, <1>6, CompanyDoes

\* businessloan take.
LEMMA CompanyBorrowDoes ==
  ASSUME Good(db, now), now \in Nat, NEW a \in Players, NEW m \in Amounts, CompanyBorrow(a, m)
  PROVE  Spares(db, db', now)
<1>1. PICK c \in Company : c = db.company[a] /\ CompanyFits(c, now)
  BY Player
<1>2. m \in Nat /\ m > 0 /\ -m \in Int /\ (m * 8) \div 100 \in Nat
  BY Numbers
<1>3. PICK due \in Nat : due = Dated(c.due) /\ 0 < due /\ due <= now + 1
  BY <1>1 DEF Dated, CompanyFits, Company
<1>4. PICK owed \in Nat : owed = c.owed + m + (m * 8) \div 100 /\ owed > 0
  BY <1>2 DEF Company
<1>5. PICK d : d = CompanyOwes(c, m)
  OBVIOUS
<1>6. CompanyFits(d, now) /\ d.till = c.till - (-m) /\ d.level > 0
  <2>1. d = [level |-> c.level, till |-> c.till + m, owed |-> owed, due |-> due,
             missed |-> c.missed]
    BY <1>3, <1>4, <1>5 DEF CompanyOwes, Company
  <2>2. c.level > 0
    BY <1>1 DEF CompanyBorrow, Runs
  <2> QED
    BY <1>1, <1>2, <1>3, <1>4, <2>1, <2>2 DEF CompanyFits, Company
<1>7. db' = [db EXCEPT !.company = [db.company EXCEPT ![a] = d], !.outside = db.outside + (-m)]
  <2>1. db \in Economy /\ db.outside \in Int
    BY Player
  <2>2. db.outside - m = db.outside + (-m)
    BY <1>2, <2>1
  <2> QED
    BY <1>1, <1>5, <2>1, <2>2 DEF CompanyBorrow, Call, Economy
<1> QED
  BY <1>1, <1>2, <1>6, <1>7, CompanyDoes

\* What a loan that is paid back leaves fits.
LEMMA SettledFits ==
  ASSUME NEW c \in Company, NEW n, c.missed < MaxMissed, c.due <= n + 1, n \in Nat,
         c.owed > 0 => c.due > 0, c.level = 0 => c = NoCompany
  PROVE  /\ CompanyFits(Settled(c), n)
         /\ Settled(c).till = c.till /\ Settled(c).level = c.level /\ Settled(c).owed = c.owed
<1>1. CASE c.owed > 0
  BY <1>1 DEF Settled, CompanyFits, Company, NoCompany
<1>2. CASE c.owed = 0
  <2>1. PICK d : d = [level |-> c.level, till |-> c.till, owed |-> 0, due |-> 0, missed |-> 0]
    OBVIOUS
  <2>2. Settled(c) = d
    <3>1. Settled(c) = [c EXCEPT !.due = 0, !.missed = 0]
      BY <1>2 DEF Settled
    <3> QED
      BY <1>2, <2>1, <3>1 DEF Company
  <2>3. CompanyFits(d, n) /\ d.till = c.till /\ d.level = c.level /\ d.owed = c.owed
    BY <1>2, <2>1, Numbers DEF CompanyFits, Company, NoCompany
  <2> QED
    BY <2>2, <2>3
<1> QED
  BY <1>1, <1>2 DEF Company

\* businessloan repay.
LEMMA CompanyRepayDoes ==
  ASSUME Good(db, now), now \in Nat, NEW a \in Players, NEW m \in Amounts, CompanyRepay(a, m)
  PROVE  Spares(db, db', now)
<1>1. PICK c \in Company : c = db.company[a] /\ CompanyFits(c, now)
  BY Player
<1>2. c.owed > 0 /\ c.level > 0
  BY <1>1 DEF CompanyRepay, CompanyFits, NoCompany, Company
<1>3. PICK paid \in Nat : /\ paid = Smaller(m, Smaller(c.owed, c.till))
                          /\ paid <= c.owed /\ paid <= c.till
  BY Numbers DEF Smaller, Company
<1>4. PICK e : e = CompanyPaid(c, paid)
  OBVIOUS
<1>5. e = [level |-> c.level, till |-> c.till - paid, owed |-> c.owed - paid, due |-> c.due,
           missed |-> c.missed]
  BY <1>4 DEF CompanyPaid, Company
<1>6. PICK d : d = Settled(e)
  OBVIOUS
<1>7. CompanyFits(d, now) /\ d.till = c.till - paid /\ d.level > 0
  <2>1. /\ e \in Company /\ e.missed < MaxMissed /\ e.due <= now + 1
        /\ e.owed > 0 => e.due > 0
        /\ e.level > 0 /\ e.till = c.till - paid
    BY <1>1, <1>2, <1>3, <1>5 DEF CompanyFits, Company
  <2>2. e.level = 0 => e = NoCompany
    BY <2>1
  <2>3. /\ CompanyFits(Settled(e), now)
        /\ Settled(e).till = e.till /\ Settled(e).level = e.level
    BY <2>1, <2>2, SettledFits
  <2> QED
    BY <1>6, <2>1, <2>3
<1>8. db' = [db EXCEPT !.company = [db.company EXCEPT ![a] = d], !.outside = db.outside + paid]
  <2>1. db \in Economy
    BY Player
  <2> QED
    BY <1>1, <1>3, <1>4, <1>6, <2>1 DEF CompanyRepay, Call, Economy
<1>9. paid \in Int /\ d.till = db.company[a].till - paid /\ (db.company[a].level > 0 => d.level > 0)
  BY <1>1, <1>3, <1>7
<1> QED
  BY <1>7, <1>8, <1>9, CompanyDoes

\* payroll: what an employee is paid.
LEMMA HireDoes ==
  ASSUME Good(db, now), now \in Nat, NEW a \in Players, NEW b \in Players, NEW m \in Amounts,
         Hire(a, b, m)
  PROVE  Spares(db, db', now)
<1>1. PICK x \in Nat, y \in Nat : x = db.wallet[b] /\ y = db.company[a].till
  BY Player
<1>2. m \in Nat /\ m \in Int /\ y - m \in Nat /\ x + m \in Nat
  BY <1>1, Numbers DEF Hire
<1> QED
  BY <1>1, <1>2, TillPaysDoes DEF Hire, Call

-----------------------------------------------------------------------------
(* A company ends *)

\* The company of a becomes c, and out has left the players.
CompanyPut(s, a, c, out) ==
  [s EXCEPT !.company = [s.company EXCEPT ![a] = c], !.outside = out]

\* What the instalments of the company of a leave alone.
Collected(t, s, a) ==
  /\ t.agreements = s.agreements
  /\ \A b \in Players \ {a} : t.company[b] = s.company[b] /\ t.debt[b] = s.debt[b]
  /\ t.debt[a].due = s.debt[a].due

\* A company that fails, with what it and its owner owe: r is s but for what
\* the last payment or the last operation made of the company.
LEMMA LiquidatedDoes ==
  ASSUME NEW s, NEW n \in Nat, Good(s, n), NEW a \in Players, NEW c \in Company, NEW out \in Int,
         c.till + out = s.company[a].till + s.outside, NEW f \in Nat,
         NEW r, r = CompanyPut(s, a, c, out),
         NEW t, t = Liquidated(r, a, f)
  PROVE  Does(s, t, a, n) /\ t.company[a] = NoCompany /\ Collected(t, s, a)
<1>0. s \in Economy
  BY Player
<1>1. PICK p : /\ p = Restrict(s.partnerships, {id \in DOMAIN s.partnerships : s.partnerships[id].owner # a})
               /\ TablesFit(s, p, s.contracts, s.agreements, s.bankrupt)
               /\ \A id \in DOMAIN p : p[id].owner # a
  BY ClosedIs
<1>2. PICK z : z = Tabled(s, p, s.contracts, s.agreements, s.bankrupt)
  OBVIOUS
<1>3. Does(s, z, a, n) /\ Good(z, n) /\ Holds(z, s, p, s.contracts, s.agreements, s.bankrupt)
  <2>1. Holds(Tabled(s, p, s.contracts, s.agreements, s.bankrupt),
              s, p, s.contracts, s.agreements, s.bankrupt)
    BY <1>1, TabledIs
  <2>2. Does(s, Tabled(s, p, s.contracts, s.agreements, s.bankrupt), a, n)
    BY <1>1, TabledDoes
  <2> QED
    BY <1>2, <2>1, <2>2 DEF Does
<1>4. PICK e \in Debt : e = s.debt[a] /\ DebtFits(e, a, s.inherited, n)
  BY Player
<1>5. PICK d \in Debt : d = [owed |-> e.owed + c.owed + f, due |-> e.due, missed |-> e.missed]
  <2>1. [owed |-> e.owed + c.owed + f, due |-> e.due, missed |-> e.missed] \in Debt
    BY DEF Debt, Company
  <2> QED
    BY <2>1
<1>6. PICK h \in SUBSET Players : h = s.inherited \cup {a}
  BY Player
<1>7. DebtFits(d, a, h, n)
  <2>1. CASE d.owed = 0
    <3>1. e.owed = 0 /\ d = e
      BY <1>5, <2>1 DEF Debt, Company
    <3> QED
      BY <1>4, <3>1, <2>1 DEF DebtFits
  <2>2. CASE d.owed # 0
    BY <1>4, <1>5, <1>6, <2>2 DEF DebtFits
  <2> QED
    BY <2>1, <2>2
<1>8. CompanyFits(NoCompany, n) /\ NoCompany.till = 0 /\ NoCompany \in Company
  BY Numbers DEF CompanyFits, NoCompany, Company
<1>9. PICK u \in Int : u = out + c.till
  BY DEF Company
<1>10. /\ t.wallet = s.wallet /\ t.savings = s.savings /\ t.debt = [s.debt EXCEPT ![a] = d]
       /\ t.company = [s.company EXCEPT ![a] = NoCompany] /\ t.inherited = h /\ t.outside = u
       /\ t.bank = s.bank /\ t.frozen = s.frozen /\ t.partnerships = p
       /\ t.contracts = s.contracts /\ t.agreements = s.agreements /\ t.bankrupt = s.bankrupt
       /\ t = [wallet |-> t.wallet, savings |-> t.savings, debt |-> t.debt, company |-> t.company,
               bank |-> t.bank, frozen |-> t.frozen, partnerships |-> t.partnerships,
               contracts |-> t.contracts, agreements |-> t.agreements, outside |-> t.outside,
               inherited |-> t.inherited, bankrupt |-> t.bankrupt]
  <2>1. PICK k : k = Closed(r, a)
    OBVIOUS
  <2>2. k = [s EXCEPT !.company = [s.company EXCEPT ![a] = NoCompany], !.outside = out,
                      !.partnerships = p]
    <3>1. /\ r.company = [s.company EXCEPT ![a] = c] /\ r.partnerships = s.partnerships
      BY <1>0 DEF Economy, CompanyPut
    <3>2. [r.company EXCEPT ![a] = NoCompany] = [s.company EXCEPT ![a] = NoCompany]
      BY <1>0, <3>1 DEF Economy
    <3>3. k = [r EXCEPT !.company = [s.company EXCEPT ![a] = NoCompany], !.partnerships = p]
      BY <1>1, <2>1, <3>1, <3>2 DEF Closed
    <3> QED
      BY <1>0, <3>3 DEF Economy, CompanyPut
  <2>3. r.company[a] = c /\ r.outside = out
    BY <1>0 DEF Economy, CompanyPut
  <2>4. k.debt = s.debt /\ k.inherited = s.inherited /\ k.outside = out
    BY <1>0, <2>2 DEF Economy
  <2>5. [s.debt EXCEPT ![a].owed = @ + c.owed + f] = [s.debt EXCEPT ![a] = d]
    BY <1>0, <1>4, <1>5 DEF Economy, Debt
  <2>6. t = [k EXCEPT !.debt = [s.debt EXCEPT ![a] = d], !.inherited = h, !.outside = u]
    BY <1>6, <1>9, <2>1, <2>3, <2>4, <2>5 DEF Liquidated
  <2> QED
    BY <1>0, <2>2, <2>6 DEF Economy
<1>11. Shows(t, z, a, s.wallet[a], s.savings[a], d, a, NoCompany, h, u)
  <2>1. t \in Economy
    <3>1. p \in Tables(Partnership)
      BY <1>1 DEF TablesFit
    <3>2. [s.debt EXCEPT ![a] = d] \in [Players -> Debt]
          /\ [s.company EXCEPT ![a] = NoCompany] \in [Players -> Company]
      BY <1>0, <1>8 DEF Economy
    <3> QED
      BY <1>0, <1>10, <3>1, <3>2 DEF Economy
  <2> QED
    BY <1>0, <1>3, <1>10, <2>1 DEF Shows, Holds, Economy
<1>12. s.wallet[a] + s.savings[a] + NoCompany.till + u
         = z.wallet[a] + z.savings[a] + z.company[a].till + z.outside
  <2>1. PICK x \in Nat, y \in Nat, i \in Nat, j \in Int :
          x = s.wallet[a] /\ y = s.savings[a] /\ i = s.company[a].till /\ j = s.outside
    BY Player
  <2>2. PICK k \in Nat : k = c.till
    BY DEF Company
  <2>3. k + out = i + j /\ u = out + k
    BY <1>9, <2>1, <2>2
  <2>4. x + y + 0 + u = x + y + i + j
    BY <2>3
  <2> QED
    BY <1>3, <1>8, <2>1, <2>4 DEF Holds
<1>13. Does(z, t, a, n)
  <2>1. z.inherited \subseteq h \cup {a} /\ \A id \in DOMAIN z.partnerships : z.partnerships[id].owner # a
    BY <1>1, <1>3, <1>6 DEF Holds
  <2>2. s.wallet[a] \in Nat /\ s.savings[a] \in Nat
    BY Player
  <2> QED
    BY <1>3, <1>7, <1>8, <1>11, <1>12, <2>1, <2>2, ShownDoes
<1>14. t.company[a] = NoCompany
  BY <1>11 DEF Shows
<1>15. Collected(t, s, a)
  <2>1. \A x \in Players \ {a} : t.company[x] = s.company[x] /\ t.debt[x] = s.debt[x]
    BY <1>0, <1>10 DEF Economy
  <2>2. t.debt[a].due = s.debt[a].due
    BY <1>0, <1>4, <1>5, <1>10 DEF Economy
  <2> QED
    BY <1>10, <2>1, <2>2 DEF Collected
<1> QED
  BY <1>3, <1>13, <1>14, <1>15, Together

\* bankruptcy.
LEMMA BankruptcyDoes ==
  ASSUME Good(db, now), now \in Nat, NEW a \in Players, Bankruptcy(a)
  PROVE  Does(db, db', a, now)
<1>0. db \in Economy
  BY Player
<1>1. PICK p : /\ p = Restrict(db.partnerships, {id \in DOMAIN db.partnerships : db.partnerships[id].owner # a})
               /\ TablesFit(db, p, db.contracts, db.agreements, db.bankrupt)
               /\ \A id \in DOMAIN p : p[id].owner # a
  BY ClosedIs
<1>2. PICK q : q = Restrict(p, {id \in DOMAIN p : p[id].partner # a})
  OBVIOUS
<1>3. PICK g : g = [id \in DOMAIN db.agreements |->
                      IF a \in {db.agreements[id].issuer, db.agreements[id].party}
                      THEN Ended(db.agreements[id]) ELSE db.agreements[id]]
  OBVIOUS
<1>4. PICK b \in SUBSET Players : b = db.bankrupt \cup {a} /\ db.bankrupt \subseteq b /\ a \in b
  <2>1. db.bankrupt \cup {a} \in SUBSET Players
    BY <1>0 DEF Economy
  <2> QED
    BY <2>1
<1>5. TablesFit(db, q, db.contracts, g, b) /\ \A id \in DOMAIN q : q[id].owner # a
  <2>1. PICK D \in SUBSET DOMAIN p : D = {id \in DOMAIN p : p[id].partner # a}
    OBVIOUS
  <2>2. q \in Tables(Partnership) /\ DOMAIN q = D /\ \A id \in D : q[id] = p[id]
    <3>1. q = Restrict(p, D)
      BY <1>2, <2>1
    <3>2. p \in Tables(Partnership)
      BY <1>1 DEF TablesFit
    <3> QED
      BY <2>1, <3>1, <3>2, Fewer
  <2>3. \A id \in DOMAIN q : Runs(db, q[id].owner) /\ q[id].owner # a
    BY <1>1, <2>1, <2>2 DEF TablesFit
  <2>4. ASSUME NEW id \in DOMAIN db.agreements
        PROVE  g[id] \in Agreement /\ AgreementFits(g[id], b)
    <3>1. PICK x \in Agreement : x = db.agreements[id] /\ AgreementFits(x, db.bankrupt)
      BY DEF Good, AgreementFits
    <3>2. CASE a \in {x.issuer, x.party}
      <4>1. PICK y : y = Ended(x)
        OBVIOUS
      <4>2. y = [issuer |-> x.issuer, party |-> x.party, employs |-> x.employs,
                 payment |-> x.payment, left |-> 0, next |-> x.next,
                 accepted |-> x.accepted, active |-> FALSE]
        BY <4>1 DEF Ended, Agreement
      <4>3. y \in Agreement /\ y.active = FALSE /\ y.issuer = x.issuer /\ y.party = x.party
        BY <4>2 DEF Agreement
      <4>4. {y.issuer, y.party} \cap b # {}
        BY <1>4, <3>2, <4>3
      <4>5. AgreementFits(y, b)
        BY <4>3, <4>4 DEF AgreementFits
      <4> QED
        BY <1>3, <3>1, <3>2, <4>1, <4>3, <4>5
    <3>3. CASE a \notin {x.issuer, x.party}
      <4>1. AgreementFits(x, b)
        BY <1>4, <3>1 DEF AgreementFits
      <4> QED
        BY <1>3, <3>1, <3>3, <4>1
    <3> QED
      BY <3>2, <3>3
  <2>5. g \in Tables(Agreement) /\ DOMAIN g = DOMAIN db.agreements
    <3>1. PICK E \in SUBSET (1..MaxCalls) : E = DOMAIN db.agreements
      BY <1>0 DEF Economy, Tables
    <3>2. g \in [E -> Agreement]
      BY <1>3, <2>4, <3>1
    <3> QED
      BY <3>1, <3>2 DEF Tables
  <2>6. db.contracts \in Tables(Contract)
    BY <1>0 DEF Economy
  <2> QED
    BY <2>2, <2>3, <2>4, <2>5, <2>6 DEF TablesFit
<1>6. PICK z : z = Tabled(db, q, db.contracts, g, b)
  OBVIOUS
<1>7. Does(db, z, a, now) /\ Good(z, now) /\ Holds(z, db, q, db.contracts, g, b)
  <2>1. Holds(Tabled(db, q, db.contracts, g, b), db, q, db.contracts, g, b)
    BY <1>5, TabledIs
  <2>2. Does(db, Tabled(db, q, db.contracts, g, b), a, now)
    BY <1>5, TabledDoes
  <2> QED
    BY <1>6, <2>1, <2>2 DEF Does
<1>8. PICK x \in Nat, y \in Nat, i \in Nat, j \in Int :
        x = db.wallet[a] /\ y = db.savings[a] /\ i = db.company[a].till /\ j = db.outside
  BY Player
<1>9. PICK left \in Nat : left = Smaller(x, Spared)
  BY LendingAssumption DEF Smaller
<1>10. PICK u \in Int : u = j + y + i + x - left
  OBVIOUS
<1>11. PICK h \in SUBSET Players : h = db.inherited \ {a}
  BY Player
<1>12. /\ CompanyFits(NoCompany, now) /\ NoCompany.till = 0 /\ NoCompany \in Company
       /\ DebtFits(NoDebt, a, h, now) /\ NoDebt \in Debt
  BY Numbers DEF CompanyFits, NoCompany, Company, DebtFits, NoDebt, Debt
<1>13. PICK t : t = db'
  OBVIOUS
<1>14. t = [db EXCEPT !.wallet = [db.wallet EXCEPT ![a] = left],
                      !.savings = [db.savings EXCEPT ![a] = 0],
                      !.debt = [db.debt EXCEPT ![a] = NoDebt],
                      !.company = [db.company EXCEPT ![a] = NoCompany],
                      !.partnerships = q, !.agreements = g, !.outside = u,
                      !.inherited = h, !.bankrupt = b]
  <2>1. PICK k : k = Closed(db, a)
    OBVIOUS
  <2>2. k = [db EXCEPT !.company = [db.company EXCEPT ![a] = NoCompany], !.partnerships = p]
    BY <1>0, <1>1, <2>1 DEF Closed
  <2>3. /\ k.wallet = db.wallet /\ k.savings = db.savings /\ k.debt = db.debt
        /\ k.outside = j /\ k.inherited = db.inherited /\ k.bankrupt = db.bankrupt
        /\ k.partnerships = p /\ k.agreements = db.agreements
    BY <1>0, <1>8, <2>2 DEF Economy
  <2>4. t = [k EXCEPT !.debt[a] = NoDebt, !.savings[a] = 0, !.wallet[a] = left,
               !.outside = @ + y + i + x - left,
               !.partnerships = Restrict(@, {id \in DOMAIN @ : @[id].partner # a}),
               !.agreements = [id \in DOMAIN @ |->
                   IF a \in {@[id].issuer, @[id].party} THEN Ended(@[id]) ELSE @[id]],
               !.inherited = @ \ {a},
               !.bankrupt = @ \cup {a}]
    BY <1>8, <1>9, <1>13, <2>1 DEF Bankruptcy, Call
  <2>5. t = [k EXCEPT !.debt = [db.debt EXCEPT ![a] = NoDebt],
               !.savings = [db.savings EXCEPT ![a] = 0],
               !.wallet = [db.wallet EXCEPT ![a] = left],
               !.outside = u, !.partnerships = q, !.agreements = g,
               !.inherited = h, !.bankrupt = b]
    BY <1>2, <1>3, <1>4, <1>10, <1>11, <2>3, <2>4
  <2> QED
    BY <1>0, <2>2, <2>5 DEF Economy
<1>15. Shows(t, z, a, left, 0, NoDebt, a, NoCompany, h, u)
  <2>1. /\ t.wallet = [db.wallet EXCEPT ![a] = left] /\ t.savings = [db.savings EXCEPT ![a] = 0]
        /\ t.debt = [db.debt EXCEPT ![a] = NoDebt]
        /\ t.company = [db.company EXCEPT ![a] = NoCompany]
        /\ t.partnerships = q /\ t.contracts = db.contracts /\ t.agreements = g
        /\ t.bank = db.bank /\ t.frozen = db.frozen
        /\ t.outside = u /\ t.inherited = h /\ t.bankrupt = b
    BY <1>0, <1>14 DEF Economy
  <2>2. /\ [db.wallet EXCEPT ![a] = left] \in [Players -> Nat]
        /\ [db.savings EXCEPT ![a] = 0] \in [Players -> Nat]
        /\ [db.debt EXCEPT ![a] = NoDebt] \in [Players -> Debt]
        /\ [db.company EXCEPT ![a] = NoCompany] \in [Players -> Company]
        /\ q \in Tables(Partnership) /\ g \in Tables(Agreement)
    BY <1>0, <1>5, <1>12 DEF Economy, TablesFit
  <2>3. t \in Economy
    BY <1>0, <1>14, <2>2 DEF Economy
  <2>4. /\ db.wallet \in [Players -> Nat] /\ db.savings \in [Players -> Nat]
        /\ db.debt \in [Players -> Debt] /\ db.company \in [Players -> Company]
    BY <1>0 DEF Economy
  <2> QED
    BY <1>7, <2>1, <2>3, <2>4 DEF Shows, Holds
<1>16. left + 0 + NoCompany.till + u
         = z.wallet[a] + z.savings[a] + z.company[a].till + z.outside
  <2>1. left + 0 + 0 + u = x + y + i + j
    BY <1>10
  <2> QED
    BY <1>7, <1>8, <1>12, <2>1 DEF Holds
<1>17. Does(z, t, a, now)
  <2>1. z.inherited \subseteq h \cup {a} /\ \A id \in DOMAIN z.partnerships : z.partnerships[id].owner # a
    BY <1>5, <1>7, <1>11 DEF Holds
  <2> QED
    BY <1>7, <1>12, <1>15, <1>16, <2>1, ShownDoes
<1> QED
  BY <1>7, <1>13, <1>17, Together

\* A player who is paid does not run out of cash.
LEMMA ShareDoes ==
  ASSUME NEW n \in Nat, NEW s, Good(s, n), NEW a \in Players, NEW b \in Players, Runs(s, a),
         NEW m \in Nat
  PROVE  Spares(s, TillPays(s, a, b, Smaller(s.company[a].till, m)), n)
<1>1. PICK x \in Nat, y \in Nat : x = s.wallet[b] /\ y = s.company[a].till
  BY Player
<1>2. PICK k \in Nat : k = Smaller(y, m) /\ k <= y
  BY DEF Smaller
<1>3. k \in Int /\ s.company[a].till - k \in Nat /\ s.wallet[b] + k \in Nat
  BY <1>1, <1>2
<1>4. Spares(s, TillPays(s, a, b, k), n)
  BY <1>3, TillPaysDoes
<1> QED
  BY <1>1, <1>2, <1>4

\* business operate: the shares of the partners.
LEMMA SharedDoes ==
  ASSUME NEW n \in Nat, NEW s, Good(s, n), NEW a \in Players, NEW profit \in Int
  PROVE  Spares(s, Shared(s, a, profit), n)
<1>1. CASE profit <= 0
  BY <1>1 DEF Shared, Spares
<1>2. CASE profit > 0
  <2>1. PICK share \in Nat : share = profit \div 5
    BY <1>2
  <2>2. PICK D : D = PartnerOf(s, a)
    OBVIOUS
  <2>3. /\ Cardinality(D) \in Nat /\ InOrder(D) \in [1..Cardinality(D) -> D]
        /\ \A id \in D : /\ id \in DOMAIN s.partnerships /\ s.partnerships[id].owner = a
                         /\ s.partnerships[id].partner \in Players
    <3>1. s \in Economy
      BY DEF Good
    <3>2. PICK E \in SUBSET (1..MaxCalls) : s.partnerships \in [E -> Partnership]
      BY <3>1 DEF Economy, Tables
    <3>3. D \in SUBSET (1..MaxCalls)
      BY <2>2, <3>2 DEF PartnerOf
    <3>4. Cardinality(D) \in Nat /\ InOrder(D) \in [1..Cardinality(D) -> D]
      BY <3>3, Numbers, InOrderIs
    <3>5. \A id \in D : id \in DOMAIN s.partnerships /\ s.partnerships[id].owner = a
                        /\ s.partnerships[id].partner \in Players
      BY <2>2, <3>2 DEF PartnerOf, Partnership
    <3> QED
      BY <3>4, <3>5
  <2>4. PICK m \in Nat : m = Cardinality(D)
    BY <2>3
  <2>5. PICK seq \in [1..m -> D] : seq = InOrder(D)
    BY <2>3, <2>4
  <2>6. Runs(s, a) \/ m = 0
    <3>1. m = 0 \/ 1 \in 1..m
      OBVIOUS
    <3>2. CASE 1 \in 1..m
      BY <2>3, <2>5, <3>2 DEF Good
    <3> QED
      BY <3>1, <3>2
  <2>7. PICK V : V = {t \in Economy : Spares(s, t, n)}
    OBVIOUS
  <2>8. s \in V
    BY <2>7 DEF Spares, Good
  <2> DEFINE Turn(t, id) == TillPays(t, a, s.partnerships[id].partner,
                                     Smaller(t.company[a].till, profit \div 5))
             Iter(g) == g = [t \in SUBSET DOMAIN seq |->
                              IF t = {} THEN s ELSE Turn(g[t \ {Max(t)}], seq[Max(t)])]
  <2>9. ASSUME NEW i \in 1..m, NEW t \in V PROVE Turn(t, seq[i]) \in V
    <3>1. Runs(t, a) /\ Good(t, n)
      BY <2>6, <2>7 DEF Spares
    <3>2. s.partnerships[seq[i]].partner \in Players
      BY <2>3, <2>5
    <3>3. Spares(t, Turn(t, seq[i]), n)
      BY <2>1, <3>1, <3>2, ShareDoes
    <3> QED
      BY <2>7, <3>3 DEF Spares, Good
  <2>10. PICK step \in [(1..m) \X V -> V] : \A i \in 1..m, t \in V : step[<<i, t>>] = Turn(t, seq[i])
    <3>1. [p \in (1..m) \X V |-> Turn(p[2], seq[p[1]])] \in [(1..m) \X V -> V]
      BY <2>9
    <3> QED
      BY <3>1
  <2>11. PICK g \in [SUBSET (1..m) -> V] : Steps(g, m, s, step)
    BY <2>8, Iterates
  <2>12. Iter(g)
    <3>1. ASSUME NEW t \in SUBSET (1..m), t # {}
          PROVE  g[t] = Turn(g[t \ {Max(t)}], seq[Max(t)])
      <4>1. Max(t) \in 1..m
        BY <3>1, MaxExists
      <4> QED
        BY <2>10, <2>11, <3>1, <4>1 DEF Steps
    <3>2. DOMAIN seq = 1..m
      OBVIOUS
    <3> HIDE DEF Turn
    <3> QED
      BY <2>11, <3>1, <3>2 DEF Steps
  <2>13. PICK it : it = CHOOSE h : Iter(h)
    OBVIOUS
  <2>14. Iter(it)
    <3> HIDE DEF Iter
    <3> QED
      BY <2>12, <2>13
  <2>15. Shared(s, a, profit) = it[1..m]
    <3>1. DOMAIN seq = 1..m
      OBVIOUS
    <3>2. Shared(s, a, profit) = (CHOOSE h : Iter(h))[DOMAIN seq]
      BY <1>2, <2>2, <2>5 DEF Shared, FoldLeft, MapThenFoldSet
    <3> QED
      BY <2>13, <3>1, <3>2
  <2>16. it[1..m] \in V
    <3> DEFINE J == [i \in 0..m |-> V]
               next == [t \in SUBSET (1..m) |-> Turn(it[t \ {Max(t)}], seq[Max(t)])]
    <3>1. \A t \in SUBSET (1..m) : it[t] = IF t = {} THEN s ELSE next[t]
      BY <2>14
    <3>2. ASSUME NEW i \in 1..m, it[1..(i - 1)] \in J[i - 1] PROVE next[1..i] \in J[i]
      <4>1. i - 1 \in 0..m
        OBVIOUS
      <4>2. it[1..(i - 1)] \in V
        BY <3>2, <4>1
      <4>3. next[1..i] = Turn(it[1..(i - 1)], seq[i])
        BY MaxOfSegment
      <4> HIDE DEF next, Turn
      <4> QED
        BY <2>9, <4>2, <4>3
    <3>3. s \in J[0] /\ J[m] = V
      BY <2>8
    <3> HIDE DEF J, next
    <3> QED
      BY <3>1, <3>2, <3>3, Segments
  <2> QED
    BY <2>7, <2>15, <2>16
<1> QED
  BY <1>1, <1>2

\* business operate.
LEMMA OperateDoes ==
  ASSUME Good(db, now), now \in Nat, NEW a \in Players, NEW profit \in Profits, Operate(a, profit)
  PROVE  Does(db, db', a, now)
<1>0. db \in Economy
  BY Player
<1>1. PICK c \in Company : c = db.company[a] /\ CompanyFits(c, now)
  BY Player
<1>2. PICK x \in Nat, u \in Int : x = db.wallet[a] /\ u = db.outside
  BY Player
<1>3. profit \in Int
  BY LendingAssumption
<1>4. PICK made \in Int : made = c.till + profit
  BY <1>3 DEF Company
<1>5. CASE made < 0
  <2>1. -made \in Nat /\ c.till + u = db.company[a].till + db.outside
    BY <1>1, <1>2, <1>5
  <2>2. db = CompanyPut(db, a, c, u)
    <3>1. [db.company EXCEPT ![a] = c] = db.company
      BY <1>0, <1>1, Kept
    <3>2. db = [db EXCEPT !.company = db.company, !.outside = db.outside]
      BY <1>0 DEF Economy
    <3> QED
      BY <1>2, <3>1, <3>2 DEF CompanyPut
  <2>3. db' = Liquidated(db, a, -made)
    BY <1>1, <1>4, <1>5 DEF Operate, Call
  <2> QED
    BY <2>1, <2>2, <2>3, LiquidatedDoes
<1>6. CASE made >= 0
  <2>1. PICK d : d = [c EXCEPT !.till = made]
    OBVIOUS
  <2>2. made \in Nat /\ c.level > 0
    BY <1>1, <1>6 DEF Operate, Runs
  <2>3. CompanyFits(d, now) /\ d.till = made /\ d.level = c.level
    BY <1>1, <2>1, <2>2, TillFits
  <2>4. PICK s : s = [db EXCEPT !.outside = @ - profit, !.company[a].till = made]
    OBVIOUS
  <2>5. s = [db EXCEPT !.company = [db.company EXCEPT ![a] = d], !.outside = db.outside + (-profit)]
    <3>1. db.outside - profit = db.outside + (-profit)
      BY <1>2, <1>3
    <3>2. [db.company EXCEPT ![a].till = made] = [db.company EXCEPT ![a] = d]
      BY <1>0, <1>1, <2>1 DEF Economy, Company
    <3> QED
      BY <1>0, <2>4, <3>1, <3>2 DEF Economy
  <2>6. -profit \in Int /\ d.till = db.company[a].till - (-profit)
    <3>1. PICK k \in Nat : k = c.till
      BY DEF Company
    <3>2. k + profit = k - (-profit)
      BY <1>3
    <3> QED
      BY <1>1, <1>3, <1>4, <2>3, <3>1, <3>2
  <2>7. Spares(db, s, now)
    <3>1. db.company[a].level > 0 => d.level > 0
      BY <1>1, <2>3
    <3> QED
      BY <2>3, <2>5, <2>6, <3>1, CompanyDoes
  <2>8. Good(s, now)
    BY <2>7 DEF Spares
  <2>9. Spares(s, Shared(s, a, profit), now)
    BY <1>3, <2>8, SharedDoes
  <2>10. db' = Shared(s, a, profit)
    BY <1>1, <1>4, <1>6, <2>4 DEF Operate, Call
  <2> QED
    BY <2>7, <2>9, <2>10 DEF Spares, Does
<1> QED
  BY <1>5, <1>6

-----------------------------------------------------------------------------
(* Partnerships *)

\* v is at x, and the rest is as in f.
Adds(g, f, x, v) ==
  /\ DOMAIN g = DOMAIN f \cup {x}
  /\ g[x] = v /\ \A y \in DOMAIN f \ {x} : g[y] = f[y]

\* A table with one entry more, one less, or one changed.
LEMMA Added ==
  ASSUME NEW V, NEW f \in Tables(V), NEW x \in 1..MaxCalls, NEW v \in V
  PROVE  With(f, x, v) \in Tables(V) /\ Adds(With(f, x, v), f, x, v)
<1>1. PICK E \in SUBSET (1..MaxCalls) : f \in [E -> V]
  BY DEF Tables
<1>2. PICK D \in SUBSET (1..MaxCalls) : D = E \cup {x}
  <2>1. E \cup {x} \in SUBSET (1..MaxCalls)
    OBVIOUS
  <2> QED
    BY <2>1
<1>3. With(f, x, v) \in [D -> V]
  BY <1>1, <1>2 DEF With
<1> QED
  BY <1>1, <1>2, <1>3 DEF With, Tables, Adds

\* A table without one of its entries.
LEMMA Removes ==
  ASSUME NEW V, NEW f \in Tables(V), NEW x
  PROVE  /\ Without(f, x) \in Tables(V)
         /\ DOMAIN Without(f, x) = DOMAIN f \ {x}
         /\ \A y \in DOMAIN f \ {x} : Without(f, x)[y] = f[y]
<1>1. PICK D \in SUBSET DOMAIN f : D = DOMAIN f \ {x}
  <2>1. DOMAIN f \ {x} \in SUBSET DOMAIN f
    OBVIOUS
  <2> QED
    BY <2>1
<1> QED
  BY <1>1, Fewer DEF Without

\* A table with one entry changed.
LEMMA Changes ==
  ASSUME NEW V, NEW f \in Tables(V), NEW x \in DOMAIN f, NEW v \in V
  PROVE  [f EXCEPT ![x] = v] \in Tables(V)
<1>1. PICK E \in SUBSET (1..MaxCalls) : f \in [E -> V]
  BY DEF Tables
<1>2. [f EXCEPT ![x] = v] \in [E -> V]
  BY <1>1
<1> QED
  BY <1>2 DEF Tables

\* The tables of a good economy fit it.
LEMMA TablesOf ==
  ASSUME NEW s, NEW n, Good(s, n)
  PROVE  /\ TablesFit(s, s.partnerships, s.contracts, s.agreements, s.bankrupt)
         /\ s \in Economy /\ s.partnerships \in Tables(Partnership) /\ s.contracts \in Tables(Contract)
         /\ s.agreements \in Tables(Agreement) /\ s.bankrupt \in SUBSET Players
<1>1. s \in Economy
  BY DEF Good
<1>2. /\ s.partnerships \in Tables(Partnership) /\ s.contracts \in Tables(Contract)
      /\ s.agreements \in Tables(Agreement) /\ s.bankrupt \in SUBSET Players
  BY <1>1 DEF Economy
<1> QED
  BY <1>1, <1>2 DEF Good, TablesFit

\* A call that writes partnerships only.
LEMMA PartnershipsDo ==
  ASSUME NEW s, NEW n, Good(s, n), NEW p \in Tables(Partnership),
         \A id \in DOMAIN p : Runs(s, p[id].owner),
         NEW t, t = [s EXCEPT !.partnerships = p]
  PROVE  Spares(s, t, n)
<1>1. TablesFit(s, p, s.contracts, s.agreements, s.bankrupt)
  BY TablesOf DEF TablesFit
<1>2. t = Tabled(s, p, s.contracts, s.agreements, s.bankrupt)
  BY TablesOf DEF Tabled, Economy
<1> QED
  BY <1>1, <1>2, TabledSpares

\* A call that writes contracts only.
LEMMA ContractsDo ==
  ASSUME NEW s, NEW n, Good(s, n), NEW c \in Tables(Contract),
         NEW t, t = [s EXCEPT !.contracts = c]
  PROVE  Spares(s, t, n)
<1>1. TablesFit(s, s.partnerships, c, s.agreements, s.bankrupt)
  BY TablesOf DEF TablesFit
<1>2. t = Tabled(s, s.partnerships, c, s.agreements, s.bankrupt)
  BY TablesOf DEF Tabled, Economy
<1> QED
  BY <1>1, <1>2, TabledSpares

\* A call that writes agreements only.
LEMMA AgreementsDo ==
  ASSUME NEW s, NEW n, Good(s, n), NEW g \in Tables(Agreement),
         \A id \in DOMAIN g : AgreementFits(g[id], s.bankrupt),
         NEW t, t = [s EXCEPT !.agreements = g]
  PROVE  Spares(s, t, n)
<1>1. TablesFit(s, s.partnerships, s.contracts, g, s.bankrupt)
  BY TablesOf DEF TablesFit
<1>2. t = Tabled(s, s.partnerships, s.contracts, g, s.bankrupt)
  BY TablesOf DEF Tabled, Economy
<1> QED
  BY <1>1, <1>2, TabledSpares

\* partnership offer.
LEMMA OfferPartnershipDoes ==
  ASSUME Good(db, now), now \in Nat, calls \in Nat, NEW a \in Players, NEW b \in Players,
         NEW m \in Amounts, OfferPartnership(a, b, m)
  PROVE  Spares(db, db', now)
<1>1. PICK i \in 1..MaxCalls : i = calls + 1
  <2>1. calls + 1 \in 1..MaxCalls
    BY Numbers DEF OfferPartnership, Idle
  <2> QED
    BY <2>1
<1>2. PICK v \in Partnership : v = [owner |-> a, partner |-> b, paid |-> m, accepted |-> FALSE]
  <2>1. [owner |-> a, partner |-> b, paid |-> m, accepted |-> FALSE] \in Partnership
    BY Numbers DEF Partnership
  <2> QED
    BY <2>1
<1>3. PICK p : p = With(db.partnerships, i, v)
  OBVIOUS
<1>4. /\ p \in Tables(Partnership) /\ DOMAIN p = DOMAIN db.partnerships \cup {i}
      /\ p[i] = v /\ \A y \in DOMAIN db.partnerships \ {i} : p[y] = db.partnerships[y]
  <2>1. db.partnerships \in Tables(Partnership)
    BY TablesOf
  <2>2. /\ With(db.partnerships, i, v) \in Tables(Partnership)
        /\ Adds(With(db.partnerships, i, v), db.partnerships, i, v)
    BY <2>1, Added
  <2> QED
    BY <1>3, <2>2 DEF Adds
<1>5. \A id \in DOMAIN p : Runs(db, p[id].owner)
  BY <1>2, <1>4 DEF Good, OfferPartnership
<1>6. db' = [db EXCEPT !.partnerships = p]
  BY <1>1, <1>2, <1>3 DEF OfferPartnership, Call
<1> QED
  BY <1>4, <1>5, <1>6, PartnershipsDo

\* One partnership of a table.
LEMMA PartnershipIs ==
  ASSUME NEW s, NEW n, Good(s, n), NEW id \in DOMAIN s.partnerships
  PROVE  /\ s.partnerships[id] \in Partnership
         /\ s.partnerships[id].owner \in Players /\ s.partnerships[id].partner \in Players
         /\ s.partnerships[id].paid \in Nat /\ Runs(s, s.partnerships[id].owner)
  BY DEF Good, Economy, Tables, Partnership

\* partnership accept.
LEMMA AcceptPartnershipDoes ==
  ASSUME Good(db, now), now \in Nat, NEW b \in Players, NEW id, AcceptPartnership(b, id)
  PROVE  Spares(db, db', now)
<1>0. id \in DOMAIN db.partnerships
  BY DEF AcceptPartnership
<1>1. PICK p \in Partnership : p = db.partnerships[id] /\ p.owner \in Players /\ p.paid \in Nat
                               /\ Runs(db, p.owner)
  BY <1>0, PartnershipIs
<1>2. PICK q \in Partnership : q = [p EXCEPT !.accepted = TRUE] /\ q.owner = p.owner
  <2>1. [p EXCEPT !.accepted = TRUE] \in Partnership /\ [p EXCEPT !.accepted = TRUE].owner = p.owner
    BY DEF Partnership
  <2> QED
    BY <2>1
<1>3. PICK x \in Nat, y \in Nat : x = db.wallet[b] /\ y = db.company[p.owner].till
  BY <1>1, Player
<1>4. -p.paid \in Int /\ y - (-p.paid) \in Nat /\ x + (-p.paid) \in Nat
  BY <1>1, <1>3 DEF AcceptPartnership, Covers
<1>5. PICK t : t = TillPays(db, p.owner, b, -p.paid)
  OBVIOUS
<1>6. Spares(db, t, now) /\ Pays(t, db, b, -p.paid)
  <2>1. Spares(db, TillPays(db, p.owner, b, -p.paid), now)
        /\ Pays(TillPays(db, p.owner, b, -p.paid), db, b, -p.paid)
    BY <1>1, <1>3, <1>4, TillPaysDoes
  <2> QED
    BY <1>5, <2>1
<1>7. Good(t, now) /\ t \in Economy /\ t.partnerships = db.partnerships
  BY <1>6 DEF Spares, Pays, Good
<1>8. PICK f : f = [t.partnerships EXCEPT ![id] = q]
  OBVIOUS
<1>9. f \in Tables(Partnership) /\ DOMAIN f = DOMAIN t.partnerships
      /\ f[id] = q /\ \A j \in DOMAIN f \ {id} : f[j] = t.partnerships[j]
  <2>1. f \in Tables(Partnership)
    BY <1>0, <1>7, <1>8, Changes, TablesOf
  <2> QED
    BY <1>0, <1>7, <1>8, <2>1
<1>10. \A j \in DOMAIN f : Runs(t, f[j].owner)
  BY <1>0, <1>1, <1>2, <1>7, <1>9 DEF Good
<1>11. db' = [t EXCEPT !.partnerships = f]
  <2>1. db' = [t EXCEPT !.partnerships[id].accepted = TRUE]
    BY <1>1, <1>5 DEF AcceptPartnership, Call
  <2>2. t.partnerships[id] = p
    BY <1>1, <1>7
  <2> QED
    BY <1>2, <1>7, <1>8, <2>1, <2>2
<1>12. Spares(t, db', now)
  BY <1>7, <1>9, <1>10, <1>11, PartnershipsDo
<1> QED
  BY <1>6, <1>12 DEF Spares

\* partnership dissolve.
LEMMA DissolveDoes ==
  ASSUME Good(db, now), now \in Nat, NEW a \in Players, NEW id, Dissolve(a, id)
  PROVE  Spares(db, db', now)
<1>0. id \in DOMAIN db.partnerships
  BY DEF Dissolve
<1>1. PICK p \in Partnership : p = db.partnerships[id] /\ p.owner = a /\ p.partner \in Players
                               /\ p.paid \in Nat /\ Runs(db, a)
  BY <1>0, PartnershipIs DEF Dissolve
<1>2. PICK x \in Nat, y \in Nat : x = db.wallet[p.partner] /\ y = db.company[a].till
  BY <1>1, Player
<1>3. p.paid \in Int /\ y - p.paid \in Nat /\ x + p.paid \in Nat
  BY <1>1, <1>2 DEF Dissolve
<1>4. PICK t : t = TillPays(db, a, p.partner, p.paid)
  OBVIOUS
<1>5. Spares(db, t, now) /\ Pays(t, db, p.partner, p.paid)
  <2>1. Spares(db, TillPays(db, a, p.partner, p.paid), now)
        /\ Pays(TillPays(db, a, p.partner, p.paid), db, p.partner, p.paid)
    BY <1>1, <1>2, <1>3, TillPaysDoes
  <2> QED
    BY <1>4, <2>1
<1>6. Good(t, now) /\ t \in Economy /\ t.partnerships = db.partnerships
  BY <1>5 DEF Spares, Pays, Good
<1>7. PICK f : f = Without(t.partnerships, id)
  OBVIOUS
<1>8. f \in Tables(Partnership) /\ DOMAIN f = DOMAIN t.partnerships \ {id}
      /\ \A j \in DOMAIN f : f[j] = t.partnerships[j]
  <2>1. t.partnerships \in Tables(Partnership)
    BY <1>6, TablesOf
  <2>2. /\ Without(t.partnerships, id) \in Tables(Partnership)
        /\ DOMAIN Without(t.partnerships, id) = DOMAIN t.partnerships \ {id}
        /\ \A j \in DOMAIN t.partnerships \ {id} : Without(t.partnerships, id)[j] = t.partnerships[j]
    BY <2>1, Removes
  <2> QED
    BY <1>7, <2>2
<1>9. \A j \in DOMAIN f : Runs(t, f[j].owner)
  BY <1>6, <1>8 DEF Good
<1>10. db' = [t EXCEPT !.partnerships = f]
  BY <1>1, <1>4, <1>7 DEF Dissolve, Call
<1>11. Spares(t, db', now)
  BY <1>6, <1>8, <1>9, <1>10, PartnershipsDo
<1> QED
  BY <1>5, <1>11 DEF Spares

-----------------------------------------------------------------------------
(* Contracts *)

\* What one wallet pays another.
LEMMA WiredIs ==
  ASSUME NEW w \in [Players -> Nat], NEW a \in Players, NEW b \in Players, NEW m \in Nat, w[a] >= m
  PROVE  Wired(w, a, b, m) \in [Players -> Nat] /\ Total(Wired(w, a, b, m)) = Total(w)
<1>1. PICK v : v = [w EXCEPT ![a] = @ - m]
  OBVIOUS
<1>2. PICK u : u = [v EXCEPT ![b] = @ + m]
  OBVIOUS
<1>3. v \in [Players -> Nat]
  BY <1>1
<1>4. u \in [Players -> Nat]
  BY <1>2, <1>3
<1>5. \A f \in [Players -> Nat] : f \in [Players -> Int]
  OBVIOUS
<1>6. Total(v) = Total(w) + v[a] - w[a]
  <2>1. \A y \in Players \ {a} : v[y] = w[y]
    BY <1>1
  <2> QED
    BY <1>3, <1>5, <2>1, Numbers, TotalUpdated
<1>7. Total(u) = Total(v) + u[b] - v[b]
  <2>1. \A y \in Players \ {b} : u[y] = v[y]
    BY <1>2, <1>3
  <2> QED
    BY <1>3, <1>4, <1>5, <2>1, Numbers, TotalUpdated
<1>8. v[a] = w[a] - m /\ u[b] = v[b] + m
  BY <1>1, <1>2, <1>3
<1>9. Total(w) \in Int /\ Total(v) \in Int /\ w[a] \in Int /\ v[b] \in Int
  BY <1>3, <1>5, Numbers, TotalInt
<1>10. Total(u) = Total(w)
  <2>1. PICK i \in Int, j \in Int, k \in Int, l \in Int :
          i = Total(w) /\ j = Total(v) /\ k = w[a] /\ l = v[b]
    BY <1>9
  <2>2. j = i + (k - m) - k
    BY <1>6, <1>8, <2>1
  <2>3. Total(u) = j + (l + m) - l
    BY <1>7, <1>8, <2>1
  <2> QED
    BY <2>1, <2>2, <2>3
<1>11. Wired(w, a, b, m) = u
  BY <1>1, <1>2 DEF Wired
<1> QED
  BY <1>4, <1>10, <1>11

\* Wallets have paid each other, and nothing else happened.
Wires(t, s) ==
  /\ t \in Economy
  /\ t.debt = s.debt /\ t.company = s.company /\ t.frozen = s.frozen
  /\ t.partnerships = s.partnerships /\ t.contracts = s.contracts /\ t.agreements = s.agreements
  /\ t.inherited = s.inherited /\ t.bankrupt = s.bankrupt

\* From one wallet to another, when the first covers it.
LEMMA WalletPaysDoes ==
  ASSUME NEW s, NEW n, Good(s, n), NEW a \in Players, NEW b \in Players, NEW m \in Nat,
         s.wallet[a] >= m
  PROVE  Spares(s, WalletPays(s, a, b, m), n) /\ Wires(WalletPays(s, a, b, m), s)
<1>1. s \in Economy
  BY DEF Good
<1>2. PICK w \in [Players -> Nat] : w = Wired(s.wallet, a, b, m) /\ Total(w) = Total(s.wallet)
  <2>1. s.wallet \in [Players -> Nat]
    BY <1>1 DEF Economy
  <2> QED
    BY <2>1, WiredIs
<1>3. PICK t : t = WalletPays(s, a, b, m)
  OBVIOUS
<1>4. t = [s EXCEPT !.wallet = w]
  BY <1>2, <1>3 DEF WalletPays
<1>5. Wires(t, s) /\ t.wallet = w /\ t.savings = s.savings /\ t.outside = s.outside
  BY <1>1, <1>4 DEF Wires, Economy
<1>6. Worth(t) = Worth(s)
  BY <1>2, <1>5 DEF Worth, Tills, Wires
<1>7. Good(t, n) /\ \A x \in Players : Runs(s, x) => Runs(t, x)
  BY <1>5 DEF Good, Runs, Wires
<1> QED
  BY <1>3, <1>5, <1>6, <1>7 DEF Spares

\* contract offer.
LEMMA OfferContractDoes ==
  ASSUME Good(db, now), now \in Nat, calls \in Nat, NEW a \in Players, NEW b \in Players,
         NEW m \in Amounts, NEW r \in Amounts, OfferContract(a, b, m, r)
  PROVE  Spares(db, db', now)
<1>1. PICK i \in 1..MaxCalls : i = calls + 1
  <2>1. calls + 1 \in 1..MaxCalls
    BY Numbers DEF OfferContract, Idle
  <2> QED
    BY <2>1
<1>2. PICK v \in Contract : v = [lender |-> a, borrower |-> b, principal |-> m, repayment |-> r,
                                 accepted |-> FALSE, repaid |-> FALSE]
  <2>1. [lender |-> a, borrower |-> b, principal |-> m, repayment |-> r,
         accepted |-> FALSE, repaid |-> FALSE] \in Contract
    BY Numbers DEF Contract
  <2> QED
    BY <2>1
<1>3. PICK c : c = With(db.contracts, i, v)
  OBVIOUS
<1>4. c \in Tables(Contract)
  <2>1. db.contracts \in Tables(Contract)
    BY TablesOf
  <2>2. With(db.contracts, i, v) \in Tables(Contract)
    BY <2>1, Added
  <2> QED
    BY <1>3, <2>2
<1>5. db' = [db EXCEPT !.contracts = c]
  BY <1>1, <1>2, <1>3 DEF OfferContract, Call
<1> QED
  BY <1>4, <1>5, ContractsDo

\* A contract whose lender or borrower was paid.
LEMMA ContractDoes ==
  ASSUME NEW s, NEW n, Good(s, n), NEW a \in Players, NEW b \in Players, NEW m \in Nat,
         s.wallet[a] >= m, NEW id \in DOMAIN s.contracts, NEW c \in Contract,
         NEW t, t = [WalletPays(s, a, b, m) EXCEPT
                      !.contracts = [WalletPays(s, a, b, m).contracts EXCEPT ![id] = c]]
  PROVE  Spares(s, t, n)
<1>1. PICK w : w = WalletPays(s, a, b, m)
  OBVIOUS
<1>2. Spares(s, w, n) /\ Wires(w, s)
  BY <1>1, WalletPaysDoes
<1>3. Good(w, n) /\ w.contracts = s.contracts /\ w.contracts \in Tables(Contract)
  BY <1>2, TablesOf DEF Spares, Wires
<1>4. PICK f : f = [w.contracts EXCEPT ![id] = c]
  OBVIOUS
<1>5. f \in Tables(Contract)
  BY <1>3, <1>4, Changes
<1>6. t = [w EXCEPT !.contracts = f]
  BY <1>1, <1>4
<1>7. Spares(w, t, n)
  BY <1>3, <1>5, <1>6, ContractsDo
<1> QED
  BY <1>2, <1>7 DEF Spares

\* One contract of a table.
LEMMA ContractIs ==
  ASSUME NEW s, NEW n, Good(s, n), NEW id \in DOMAIN s.contracts
  PROVE  s.contracts[id] \in Contract
  BY DEF Good, Economy, Tables

\* contract accept.
LEMMA AcceptContractDoes ==
  ASSUME Good(db, now), NEW b \in Players, NEW id, AcceptContract(b, id)
  PROVE  Spares(db, db', now)
<1>0. id \in DOMAIN db.contracts
  BY DEF AcceptContract
<1>1. PICK c \in Contract : c = db.contracts[id]
  BY <1>0, ContractIs
<1>2. c.lender \in Players /\ c.principal \in Nat /\ db.wallet[c.lender] >= c.principal
  BY <1>1 DEF AcceptContract, Contract
<1>3. PICK w : w = WalletPays(db, c.lender, b, c.principal)
  OBVIOUS
<1>4. w \in Economy /\ w.contracts = db.contracts
  BY <1>2, <1>3, WalletPaysDoes DEF Wires
<1>5. PICK d \in Contract : d = [c EXCEPT !.accepted = TRUE]
  <2>1. [c EXCEPT !.accepted = TRUE] \in Contract
    BY DEF Contract
  <2> QED
    BY <2>1
<1>6. db' = [w EXCEPT !.contracts = [w.contracts EXCEPT ![id] = d]]
  <2>1. db' = [w EXCEPT !.contracts[id].accepted = TRUE]
    BY <1>1, <1>3 DEF AcceptContract, Call
  <2>2. w.contracts[id] = c
    BY <1>1, <1>4
  <2> QED
    BY <1>4, <1>5, <2>1, <2>2
<1> QED
  BY <1>0, <1>2, <1>3, <1>6, ContractDoes

\* contract repay.
LEMMA PayContractDoes ==
  ASSUME Good(db, now), NEW b \in Players, NEW id, PayContract(b, id)
  PROVE  Spares(db, db', now)
<1>0. id \in DOMAIN db.contracts
  BY DEF PayContract
<1>1. PICK c \in Contract : c = db.contracts[id]
  BY <1>0, ContractIs
<1>2. c.lender \in Players /\ c.repayment \in Nat /\ db.wallet[b] >= c.repayment
  BY <1>1 DEF PayContract, Contract
<1>3. PICK w : w = WalletPays(db, b, c.lender, c.repayment)
  OBVIOUS
<1>4. w \in Economy /\ w.contracts = db.contracts
  BY <1>2, <1>3, WalletPaysDoes DEF Wires
<1>5. PICK d \in Contract : d = [c EXCEPT !.repaid = TRUE]
  <2>1. [c EXCEPT !.repaid = TRUE] \in Contract
    BY DEF Contract
  <2> QED
    BY <2>1
<1>6. db' = [w EXCEPT !.contracts = [w.contracts EXCEPT ![id] = d]]
  <2>1. db' = [w EXCEPT !.contracts[id].repaid = TRUE]
    BY <1>1, <1>3 DEF PayContract, Call
  <2>2. w.contracts[id] = c
    BY <1>1, <1>4
  <2> QED
    BY <1>4, <1>5, <2>1, <2>2
<1> QED
  BY <1>0, <1>2, <1>3, <1>6, ContractDoes

-----------------------------------------------------------------------------
(* Agreements *)

\* One agreement of a table.
LEMMA AgreementIs ==
  ASSUME NEW s, NEW n, Good(s, n), NEW id \in DOMAIN s.agreements
  PROVE  s.agreements[id] \in Agreement /\ AgreementFits(s.agreements[id], s.bankrupt)
  BY DEF Good, AgreementFits

\* What a change of one agreement leaves alone.
Turned(t, s, id) ==
  /\ DOMAIN t.agreements = DOMAIN s.agreements
  /\ \A i \in DOMAIN s.agreements \ {id} : t.agreements[i] = s.agreements[i]
  /\ t.debt = s.debt
  /\ \A a \in Players : SameLoan(t.company[a], s.company[a])

\* An agreement that changes, fitting.
LEMMA AgreementDoes ==
  ASSUME NEW s, NEW n, Good(s, n), NEW id \in DOMAIN s.agreements,
         NEW g, AgreementFits(g, s.bankrupt),
         NEW t, t = [s EXCEPT !.agreements = [s.agreements EXCEPT ![id] = g]]
  PROVE  Spares(s, t, n) /\ Turned(t, s, id) /\ t.agreements[id] = g
<1>1. PICK f : f = [s.agreements EXCEPT ![id] = g]
  OBVIOUS
<1>2. s.agreements \in Tables(Agreement) /\ g \in Agreement /\ s \in Economy
  BY TablesOf DEF AgreementFits
<1>3. f \in Tables(Agreement)
  BY <1>1, <1>2, Changes
<1>4. \A i \in DOMAIN f : AgreementFits(f[i], s.bankrupt)
  BY <1>1 DEF Good
<1>5. t = [s EXCEPT !.agreements = f]
  BY <1>1
<1>6. t.agreements = f /\ t.company = s.company /\ t.debt = s.debt
  BY <1>2, <1>5 DEF Economy
<1>7. Spares(s, t, n)
  BY <1>3, <1>4, <1>5, AgreementsDo
<1> QED
  BY <1>1, <1>6, <1>7 DEF Turned, SameLoan

\* agreement offer.
LEMMA OfferAgreementDoes ==
  ASSUME Good(db, now), now \in Nat, calls \in Nat, NEW a \in Players, NEW b \in Players,
         NEW employs \in BOOLEAN, NEW m \in Amounts, NEW days \in Days,
         OfferAgreement(a, b, employs, m, days)
  PROVE  Spares(db, db', now)
<1>1. PICK i \in 1..MaxCalls : i = calls + 1
  <2>1. calls + 1 \in 1..MaxCalls
    BY Numbers DEF OfferAgreement, Idle
  <2> QED
    BY <2>1
<1>2. PICK v : v = [issuer |-> a, party |-> b, employs |-> employs, payment |-> m,
                    left |-> days, next |-> 0, accepted |-> FALSE, active |-> FALSE]
  OBVIOUS
<1>3. v \in Agreement /\ AgreementFits(v, db.bankrupt)
  <2>1. m \in Nat /\ days \in Nat /\ days > 0
    BY Numbers
  <2> QED
    BY <1>2, <2>1 DEF AgreementFits, Agreement
<1>4. PICK g : g = With(db.agreements, i, v)
  OBVIOUS
<1>5. g \in Tables(Agreement) /\ Adds(g, db.agreements, i, v)
  <2>1. db.agreements \in Tables(Agreement)
    BY TablesOf
  <2>2. With(db.agreements, i, v) \in Tables(Agreement)
        /\ Adds(With(db.agreements, i, v), db.agreements, i, v)
    BY <1>3, <2>1, Added
  <2> QED
    BY <1>4, <2>2
<1>6. \A j \in DOMAIN g : AgreementFits(g[j], db.bankrupt)
  BY <1>3, <1>5 DEF Adds, Good
<1>7. db' = [db EXCEPT !.agreements = g]
  BY <1>1, <1>2, <1>4 DEF OfferAgreement, Call
<1> QED
  BY <1>5, <1>6, <1>7, AgreementsDo

\* agreement accept.
LEMMA AcceptAgreementDoes ==
  ASSUME Good(db, now), now \in Nat, NEW b \in Players, NEW id, AcceptAgreement(b, id)
  PROVE  Spares(db, db', now)
<1>0. id \in DOMAIN db.agreements
  BY DEF AcceptAgreement
<1>1. PICK g \in Agreement : g = db.agreements[id] /\ AgreementFits(g, db.bankrupt) /\ ~g.accepted
  BY <1>0, AgreementIs DEF AcceptAgreement
<1>2. PICK h : h = Accepted(g)
  OBVIOUS
<1>3. h = [issuer |-> g.issuer, party |-> g.party, employs |-> g.employs, payment |-> g.payment,
           left |-> g.left, next |-> now + 1, accepted |-> TRUE, active |-> TRUE]
  BY <1>2 DEF Accepted, Agreement
<1>4. AgreementFits(h, db.bankrupt)
  <2>1. h \in Agreement /\ h.left = g.left /\ h.issuer = g.issuer /\ h.party = g.party
        /\ h.accepted /\ h.next > 0
    BY <1>3 DEF Agreement
  <2> QED
    BY <1>1, <2>1 DEF AgreementFits
<1>5. db' = [db EXCEPT !.agreements = [db.agreements EXCEPT ![id] = h]]
  BY <1>1, <1>2 DEF AcceptAgreement, Call
<1> QED
  BY <1>0, <1>4, <1>5, AgreementDoes

\* agreement cancel.
LEMMA CancelAgreementDoes ==
  ASSUME Good(db, now), NEW a \in Players, NEW id, CancelAgreement(a, id)
  PROVE  Spares(db, db', now)
<1>1. PICK g : g = Without(db.agreements, id)
  OBVIOUS
<1>2. g \in Tables(Agreement) /\ DOMAIN g = DOMAIN db.agreements \ {id}
      /\ \A j \in DOMAIN g : g[j] = db.agreements[j]
  <2>1. db.agreements \in Tables(Agreement)
    BY TablesOf
  <2>2. /\ Without(db.agreements, id) \in Tables(Agreement)
        /\ DOMAIN Without(db.agreements, id) = DOMAIN db.agreements \ {id}
        /\ \A y \in DOMAIN db.agreements \ {id} : Without(db.agreements, id)[y] = db.agreements[y]
    BY <2>1, Removes
  <2> QED
    BY <1>1, <2>2
<1>3. \A j \in DOMAIN g : AgreementFits(g[j], db.bankrupt)
  BY <1>2 DEF Good
<1>4. db' = [db EXCEPT !.agreements = g]
  BY <1>1 DEF CancelAgreement, Call
<1> QED
  BY <1>2, <1>3, <1>4, AgreementsDo

-----------------------------------------------------------------------------
(* The tick: the banks *)

\* What a failed bank takes is what its depositors lose.
LEMMA BanksDo ==
  ASSUME NEW s, now \in Nat, Good(s, now), NEW F \in SUBSET Banks
  PROVE  /\ Spares(s, BanksUpdated(s, F), now)
         /\ BanksUpdated(s, F).debt = s.debt /\ BanksUpdated(s, F).company = s.company
         /\ BanksUpdated(s, F).agreements = s.agreements
<1>0. s \in Economy
  BY DEF Good
<1>1. PICK loss : loss = [a \in Players |->
                     IF s.bank[a] \in F THEN Larger(0, s.savings[a] - Insured) \div 10 ELSE 0]
  OBVIOUS
<1>2. PICK left : left = [a \in Players |-> s.savings[a] - loss[a]]
  OBVIOUS
<1>3. \A a \in Players : s.savings[a] \in Nat /\ loss[a] \in Nat /\ left[a] \in Nat
  <2> SUFFICES ASSUME NEW a \in Players
               PROVE  s.savings[a] \in Nat /\ loss[a] \in Nat /\ left[a] \in Nat
    OBVIOUS
  <2>1. PICK x \in Nat : x = s.savings[a]
    BY Player
  <2>2. PICK i \in Nat : i = Insured
    BY LendingAssumption
  <2>3. Larger(0, x - i) \in Nat /\ Larger(0, x - i) <= x
    BY DEF Larger
  <2>4. Larger(0, x - i) \div 10 \in Nat /\ Larger(0, x - i) \div 10 <= x
    BY <2>3
  <2>5. loss[a] \in Nat /\ loss[a] <= x
    BY <1>1, <2>1, <2>2, <2>4
  <2> QED
    BY <1>2, <2>1, <2>5
<1>4. left \in [Players -> Nat] /\ loss \in [Players -> Nat] /\ s.savings \in [Players -> Nat]
  BY <1>0, <1>1, <1>2, <1>3 DEF Economy
<1>5. Total(s.savings) = Total(left) + Total(loss) /\ Total(left) \in Int /\ Total(loss) \in Int
  <2>1. \A f \in [Players -> Nat] : f \in [Players -> Int]
    OBVIOUS
  <2>2. \A a \in Players : s.savings[a] = left[a] + loss[a]
    BY <1>2, <1>3
  <2> QED
    BY <1>4, <2>1, <2>2, Numbers, TotalPlus, TotalInt
<1>6. PICK frozen : frozen = [b \in Banks |-> IF b \in F THEN now + 1
                                ELSE IF s.frozen[b] <= now THEN 0 ELSE s.frozen[b]]
  OBVIOUS
<1>7. frozen \in [Banks -> Nat] /\ \A b \in Banks : frozen[b] <= now + 1
  <2>1. \A b \in Banks : s.frozen[b] \in Nat /\ s.frozen[b] <= now + 1
    BY <1>0 DEF Good, Economy
  <2> QED
    BY <1>6, <2>1
<1>8. PICK t : t = BanksUpdated(s, F)
  OBVIOUS
<1>9. t = [s EXCEPT !.frozen = frozen, !.savings = left, !.outside = s.outside + Total(loss)]
  BY <1>0, <1>1, <1>2, <1>6, <1>8 DEF BanksUpdated
<1>10. /\ t.wallet = s.wallet /\ t.savings = left /\ t.debt = s.debt /\ t.company = s.company
       /\ t.frozen = frozen /\ t.partnerships = s.partnerships /\ t.agreements = s.agreements
       /\ t.outside = s.outside + Total(loss) /\ t.inherited = s.inherited
       /\ t.bankrupt = s.bankrupt
  BY <1>0, <1>9 DEF Economy
<1>11. t \in Economy
  <2>1. s.outside + Total(loss) \in Int
    BY <1>0, <1>5 DEF Economy
  <2> QED
    BY <1>0, <1>4, <1>7, <1>9, <2>1 DEF Economy
<1>12. Worth(t) = Worth(s)
  <2>1. PICK A \in Int, B \in Int, C \in Int, D \in Int, E \in Int :
          /\ A = Total(s.wallet) /\ B = Total(left) /\ C = Total(loss) /\ D = Total(Tills(s))
          /\ E = s.outside
    BY <1>0, <1>5, WorthIs
  <2>2. Worth(s) = A + (B + C) + D + E
    BY <1>5, <2>1 DEF Worth
  <2>3. Worth(t) = A + B + D + (E + C)
    BY <1>10, <2>1 DEF Worth, Tills
  <2> QED
    BY <2>2, <2>3
<1>13. Good(t, now) /\ \A x \in Players : Runs(s, x) => Runs(t, x)
  BY <1>7, <1>10, <1>11 DEF Good, Runs
<1> QED
  BY <1>8, <1>10, <1>12, <1>13 DEF Spares

-----------------------------------------------------------------------------
(* The tick: one payment of an agreement *)

\* An agreement that is paid.
LEMMA PaymentFits ==
  ASSUME NEW g \in Agreement, NEW h, AgreementFits(g, h), g.active, g.left > 0
  PROVE  /\ AgreementFits(PaymentMade(g), h)
         /\ PaymentMade(g).left = g.left - 1 /\ PaymentMade(g).next = g.next + 1
         /\ PaymentMade(g).active => PaymentMade(g).left > 0
<1>1. g.accepted /\ g.next \in Nat /\ g.left \in Nat
  BY DEF AgreementFits, Agreement
<1>2. PICK paid : paid = [g EXCEPT !.left = @ - 1, !.next = @ + 1]
  OBVIOUS
<1>3. /\ paid \in Agreement /\ paid.left = g.left - 1 /\ paid.next = g.next + 1
      /\ paid.accepted = g.accepted /\ paid.active = g.active
  <2>1. paid.left = g.left - 1 /\ paid.next = g.next + 1
    BY <1>2 DEF Agreement
  <2>2. paid.accepted = g.accepted
    BY <1>2 DEF Agreement
  <2>3. paid.active = g.active
    BY <1>2 DEF Agreement
  <2>4. paid \in Agreement
    <3>1. PICK l \in Nat : l = g.left - 1
      BY <1>1
    <3>2. PICK k \in Nat : k = g.next + 1
      BY <1>1
    <3>3. paid = [g EXCEPT !.left = l, !.next = k]
      BY <1>2, <3>1, <3>2
    <3> QED
      BY <3>3 DEF Agreement
  <2> QED
    BY <2>1, <2>2, <2>3, <2>4
<1>4. CASE paid.left > 0
  <2>1. AgreementFits(paid, h) /\ PaymentMade(g) = paid
    BY <1>1, <1>2, <1>3, <1>4 DEF AgreementFits, PaymentMade
  <2> QED
    BY <1>3, <1>4, <2>1
<1>5. CASE ~(paid.left > 0)
  <2>1. PICK d : d = [paid EXCEPT !.active = FALSE]
    OBVIOUS
  <2>2. /\ d \in Agreement /\ d.left = paid.left /\ d.next = paid.next
        /\ d.accepted = paid.accepted /\ ~d.active
    BY <1>3, <2>1 DEF Agreement
  <2>3. AgreementFits(d, h)
    BY <1>1, <1>3, <2>2 DEF AgreementFits
  <2>4. PaymentMade(g) = d
    BY <1>2, <1>5, <2>1 DEF PaymentMade
  <2> QED
    BY <1>3, <2>2, <2>3, <2>4
<1> QED
  BY <1>4, <1>5

\* One turn of the loop.
LEMMA AgreementTurnDoes ==
  ASSUME NEW s, NEW n \in Nat, Good(s, n), NEW id \in DOMAIN s.agreements,
         s.agreements[id].active => s.agreements[id].left > 0
  PROVE  /\ Spares(s, AgreementTurn(s, id), n) /\ Turned(AgreementTurn(s, id), s, id)
         /\ \/ ~AgreementTurn(s, id).agreements[id].active
            \/ /\ AgreementTurn(s, id).agreements[id].left = s.agreements[id].left - 1
               /\ AgreementTurn(s, id).agreements[id].next = s.agreements[id].next + 1
               /\ s.agreements[id].active /\ AgreementTurn(s, id).agreements[id].left > 0
<1>1. PICK g \in Agreement : g = s.agreements[id] /\ AgreementFits(g, s.bankrupt)
  BY AgreementIs
<1>2. PICK t : t = AgreementTurn(s, id)
  OBVIOUS
<1>3. \A a \in Players : SameLoan(s.company[a], s.company[a])
  BY DEF SameLoan
<1>4. CASE ~g.active
  <2>1. t = s
    BY <1>1, <1>2, <1>4 DEF AgreementTurn
  <2> QED
    BY <1>1, <1>2, <1>3, <1>4, <2>1 DEF Spares, Turned
<1>5. CASE g.active /\ Affords(s, g)
  <2>1. PICK p : p = IF g.employs THEN TillPays(s, g.issuer, g.party, g.payment)
                     ELSE WalletPays(s, g.party, g.issuer, g.payment)
    OBVIOUS
  <2>2. g.issuer \in Players /\ g.party \in Players /\ g.payment \in Nat /\ g.payment \in Int
    BY DEF Agreement
  <2>3. /\ Spares(s, p, n) /\ p.agreements = s.agreements /\ p.debt = s.debt
        /\ \A a \in Players : SameLoan(p.company[a], s.company[a])
        /\ p.bankrupt = s.bankrupt
    <3>1. CASE g.employs
      <4>1. Runs(s, g.issuer) /\ s.company[g.issuer].till >= g.payment
        BY <1>5, <3>1 DEF Affords
      <4>2. s.company[g.issuer].till - g.payment \in Nat /\ s.wallet[g.party] + g.payment \in Nat
        BY <2>2, <4>1, Player
      <4>3. Spares(s, p, n) /\ Pays(p, s, g.party, g.payment)
        BY <2>1, <2>2, <3>1, <4>1, <4>2, TillPaysDoes
      <4> QED
        BY <4>3 DEF Pays
    <3>2. CASE ~g.employs
      <4>1. s.wallet[g.party] >= g.payment
        BY <1>5, <3>2 DEF Affords
      <4>2. Spares(s, p, n) /\ Wires(p, s)
        BY <2>1, <2>2, <3>2, <4>1, WalletPaysDoes
      <4> QED
        BY <1>3, <4>2 DEF Wires
    <3> QED
      BY <3>1, <3>2
  <2>4. PICK d : d = PaymentMade(g)
    OBVIOUS
  <2>5. AgreementFits(d, p.bankrupt) /\ d.left = g.left - 1 /\ d.next = g.next + 1
        /\ (d.active => d.left > 0)
    BY <1>1, <1>5, <2>3, <2>4, PaymentFits
  <2>6. t = [p EXCEPT !.agreements = [p.agreements EXCEPT ![id] = d]]
    BY <1>1, <1>2, <1>5, <2>1, <2>3, <2>4 DEF AgreementTurn, AgreementPaid
  <2>7. Spares(p, t, n) /\ Turned(t, p, id) /\ t.agreements[id] = d
    <3>1. Good(p, n) /\ id \in DOMAIN p.agreements
      BY <2>3 DEF Spares
    <3>2. t = [p EXCEPT !.agreements = [p.agreements EXCEPT ![id] = d]] /\ AgreementFits(d, p.bankrupt)
      BY <2>5, <2>6
    <3> QED
      BY <3>1, <3>2, AgreementDoes
  <2>8. Turned(t, s, id)
    BY <2>3, <2>7 DEF Turned, SameLoan
  <2>9. Spares(s, t, n)
    BY <2>3, <2>7 DEF Spares
  <2> QED
    BY <1>1, <1>2, <1>5, <2>5, <2>7, <2>8, <2>9
<1>6. CASE g.active /\ ~Affords(s, g)
  <2>1. PICK d : d = [g EXCEPT !.active = FALSE]
    OBVIOUS
  <2>2. AgreementFits(d, s.bankrupt) /\ ~d.active
    BY <1>1, <1>6, <2>1 DEF AgreementFits, Agreement
  <2>3. t = [s EXCEPT !.agreements = [s.agreements EXCEPT ![id] = d]]
    <3>1. t = [s EXCEPT !.agreements[id].active = FALSE]
      BY <1>1, <1>2, <1>6 DEF AgreementTurn
    <3> QED
      BY <1>1, <2>1, <3>1
  <2>4. Spares(s, t, n) /\ Turned(t, s, id) /\ t.agreements[id] = d
    BY <2>2, <2>3, AgreementDoes
  <2> QED
    BY <1>2, <2>2, <2>4
<1> QED
  BY <1>4, <1>5, <1>6

\* How many payments are made up for: none, the limit, or all that are due.
LEMMA AgreementPeriodsAre ==
  ASSUME now \in Nat, NEW g \in Agreement, NEW n, n = AgreementPeriods(g)
  PROVE  /\ n \in Nat /\ n <= g.left
         /\ \/ n = g.left \/ n = MaxAgreementPeriods \/ n = 1 + now - g.next
            \/ n = 0 /\ (~g.active \/ ~g.accepted \/ g.next = 0 \/ g.next > now)
<1>1. g.left \in Nat /\ g.next \in Nat /\ MaxAgreementPeriods \in Nat
  BY LendingAssumption DEF Agreement
<1>2. CASE g.active /\ g.accepted /\ g.next > 0 /\ now >= g.next
  <2>1. n = Smaller(g.left, Smaller(MaxAgreementPeriods, 1 + now - g.next))
    BY <1>2 DEF AgreementPeriods
  <2> QED
    BY <1>1, <1>2, <2>1 DEF Smaller
<1>3. CASE ~(g.active /\ g.accepted /\ g.next > 0 /\ now >= g.next)
  <2>1. n = 0
    BY <1>3 DEF AgreementPeriods
  <2> QED
    BY <1>1, <1>3, <2>1
<1> QED
  BY <1>2, <1>3

\* An agreement that was made up for.
Prompt(g, old) ==
  g.active /\ g.left > 0 => g.next > now \/ g.next = old.next + MaxAgreementPeriods

\* The agreement that is due.
LEMMA AgreementTickDoes ==
  ASSUME NEW s, now \in Nat, Good(s, now), NEW id \in DOMAIN s.agreements
  PROVE  /\ Spares(s, AgreementTick(s, id), now) /\ Turned(AgreementTick(s, id), s, id)
         /\ Prompt(AgreementTick(s, id).agreements[id], s.agreements[id])
<1>1. PICK g0 \in Agreement : g0 = s.agreements[id] /\ AgreementFits(g0, s.bankrupt)
  BY AgreementIs
<1>2. PICK n : n = AgreementPeriods(g0)
  OBVIOUS
<1>3. /\ n \in Nat /\ n <= g0.left
      /\ \/ n = g0.left \/ n = MaxAgreementPeriods \/ n = 1 + now - g0.next
         \/ n = 0 /\ (~g0.active \/ ~g0.accepted \/ g0.next = 0 \/ g0.next > now)
  BY <1>2, AgreementPeriodsAre
<1> DEFINE Live(t) == t.agreements[id].active
           V == {t \in Economy : /\ Spares(s, t, now) /\ Turned(t, s, id)
                                 /\ n > 0 => (Live(t) => t.agreements[id].left > 0)}
           At(i) == {t \in V : Live(t) => /\ g0.active
                                          /\ t.agreements[id].next = g0.next + i
                                          /\ t.agreements[id].left = g0.left - i}
           J == [i \in 0..n |-> At(i)]
           Iter(g) == g = [t \in SUBSET DOMAIN Turns(n) |->
                            IF t = {} THEN s ELSE AgreementTurn(g[t \ {Max(t)}], id)]
<1>4. s \in At(0)
  <2>1. s \in Economy
    BY DEF Good
  <2>2. Spares(s, s, now) /\ Turned(s, s, id)
    BY DEF Spares, Turned, SameLoan
  <2>3. n > 0 => g0.left > 0
    BY <1>3 DEF Agreement
  <2>4. g0.next = g0.next + 0 /\ g0.left = g0.left - 0
    BY DEF Agreement
  <2> QED
    BY <1>1, <2>1, <2>2, <2>3, <2>4
<1>5. ASSUME NEW i \in 1..n, NEW t \in V
      PROVE  /\ AgreementTurn(t, id) \in V
             /\ t \in At(i - 1) => AgreementTurn(t, id) \in At(i)
  <2>1. PICK u : u = AgreementTurn(t, id)
    OBVIOUS
  <2>2. Good(t, now) /\ id \in DOMAIN t.agreements /\ (Live(t) => t.agreements[id].left > 0)
    <3>1. n > 0
      BY <1>3
    <3>2. Spares(s, t, now) /\ Turned(t, s, id)
      BY <1>5
    <3>3. Live(t) => t.agreements[id].left > 0
      BY <1>5, <3>1
    <3> HIDE DEF Live
    <3> QED
      BY <3>2, <3>3 DEF Spares, Turned
  <2>3. /\ Spares(t, u, now) /\ Turned(u, t, id)
        /\ \/ ~Live(u)
           \/ /\ u.agreements[id].left = t.agreements[id].left - 1
              /\ u.agreements[id].next = t.agreements[id].next + 1
              /\ Live(t) /\ u.agreements[id].left > 0
    BY <2>1, <2>2, AgreementTurnDoes
  <2>4. Spares(s, u, now) /\ Turned(u, s, id) /\ u \in Economy
    BY <1>5, <2>3 DEF Spares, Turned, SameLoan, Good
  <2>5. u \in V
    BY <2>3, <2>4
  <2>6. ASSUME t \in At(i - 1) PROVE u \in At(i)
    <3>1. CASE ~Live(u)
      BY <2>5, <3>1
    <3>2. CASE Live(u)
      <4>1. /\ g0.active
            /\ u.agreements[id].left = t.agreements[id].left - 1
            /\ u.agreements[id].next = t.agreements[id].next + 1
            /\ t.agreements[id].next = g0.next + (i - 1)
            /\ t.agreements[id].left = g0.left - (i - 1)
        BY <2>3, <2>6, <3>2
      <4>2. g0.next \in Nat /\ g0.left \in Nat /\ i \in Nat
        BY DEF Agreement
      <4>3. u.agreements[id].next = g0.next + i /\ u.agreements[id].left = g0.left - i
        BY <4>1, <4>2
      <4> QED
        BY <2>5, <3>2, <4>1, <4>3
    <3> QED
      BY <3>1, <3>2
  <2> QED
    BY <2>1, <2>5, <2>6
<1>6. PICK W : W = V
  OBVIOUS
<1>7. PICK step \in [(1..n) \X W -> W] : \A i \in 1..n, t \in W : step[<<i, t>>] = AgreementTurn(t, id)
  <2>1. [p \in (1..n) \X W |-> AgreementTurn(p[2], id)] \in [(1..n) \X W -> W]
    <3> HIDE DEF V
    <3> QED
      BY <1>5, <1>6
  <2> QED
    BY <2>1
<1>8. s \in W
  BY <1>4, <1>6
<1>9. PICK g \in [SUBSET (1..n) -> W] : Steps(g, n, s, step)
  BY <1>3, <1>8, Iterates
<1>10. DOMAIN Turns(n) = 1..n
  BY DEF Turns
<1>11. Iter(g)
  <2>1. ASSUME NEW t \in SUBSET (1..n), t # {}
        PROVE  g[t] = AgreementTurn(g[t \ {Max(t)}], id)
    <3>1. Max(t) \in 1..n
      BY <1>3, <2>1, MaxExists
    <3> QED
      BY <1>7, <1>9, <2>1, <3>1 DEF Steps
  <2> QED
    BY <1>9, <1>10, <2>1 DEF Steps
<1>12. PICK it : it = CHOOSE h : Iter(h)
  OBVIOUS
<1>13. Iter(it)
  <2> HIDE DEF Iter
  <2> QED
    BY <1>11, <1>12
<1>14. AgreementTick(s, id) = it[1..n]
  <2>1. AgreementTick(s, id) = (CHOOSE h : Iter(h))[DOMAIN Turns(n)]
    BY <1>1, <1>2 DEF AgreementTick, FoldLeft, MapThenFoldSet
  <2> QED
    BY <1>10, <1>12, <2>1
<1>15. it[1..n] \in J[n]
  <2> DEFINE next == [t \in SUBSET (1..n) |-> AgreementTurn(it[t \ {Max(t)}], id)]
  <2>1. \A t \in SUBSET (1..n) : it[t] = IF t = {} THEN s ELSE next[t]
    BY <1>10, <1>13
  <2>2. ASSUME NEW i \in 1..n, it[1..(i - 1)] \in J[i - 1] PROVE next[1..i] \in J[i]
    <3>1. PICK t : t = it[1..(i - 1)]
      OBVIOUS
    <3>2. i - 1 \in 0..n /\ i \in 0..n
      BY <1>3
    <3>3. t \in At(i - 1)
      BY <2>2, <3>1, <3>2
    <3>4. next[1..i] = AgreementTurn(t, id)
      BY <1>3, <3>1, MaxOfSegment
    <3>5. t \in V
      BY <3>3
    <3>6. AgreementTurn(t, id) \in At(i)
      BY <1>5, <3>3, <3>5
    <3> HIDE DEF At, next
    <3> QED
      BY <3>2, <3>4, <3>6
  <2>3. s \in J[0]
    BY <1>3, <1>4
  <2> HIDE DEF J, next
  <2> QED
    BY <1>3, <2>1, <2>2, <2>3, Segments
<1>16. PICK t : t = AgreementTick(s, id)
  OBVIOUS
<1>17. t \in At(n)
  <2>1. n \in 0..n
    BY <1>3
  <2> HIDE DEF At
  <2> QED
    BY <1>14, <1>15, <1>16, <2>1
<1>18. Prompt(t.agreements[id], g0)
  <2> SUFFICES ASSUME t.agreements[id].active, t.agreements[id].left > 0
               PROVE  \/ t.agreements[id].next > now
                      \/ t.agreements[id].next = g0.next + MaxAgreementPeriods
    BY DEF Prompt
  <2>1. t.agreements[id].next = g0.next + n /\ t.agreements[id].left = g0.left - n
    BY <1>17
  <2>2. n # g0.left
    BY <2>1 DEF Agreement
  <2>3. n = 0 => t.agreements[id].next = g0.next
    BY <2>1 DEF Agreement
  <2>4. n = 1 + now - g0.next => g0.next + n > now
    BY DEF Agreement
  <2>5. g0.active /\ g0.accepted /\ g0.next > 0
    BY <1>1, <1>17 DEF AgreementFits
  <2> QED
    BY <1>3, <2>1, <2>2, <2>3, <2>4, <2>5
<1> QED
  BY <1>1, <1>16, <1>17, <1>18

-----------------------------------------------------------------------------
(* The tick: the instalments of a company *)

\* What fits today fits tomorrow.
LEMMA Older ==
  ASSUME NEW s, NEW n \in Nat, Good(s, n)
  PROVE  Good(s, n + 1)
<1>1. s \in Economy
  BY DEF Good
<1>2. \A b \in Banks : s.frozen[b] <= (n + 1) + 1
  BY <1>1 DEF Good, Economy
<1>3. ASSUME NEW a \in Players
      PROVE  DebtFits(s.debt[a], a, s.inherited, n + 1) /\ CompanyFits(s.company[a], n + 1)
  <2>1. DebtFits(s.debt[a], a, s.inherited, n) /\ CompanyFits(s.company[a], n)
        /\ s.debt[a].due \in Nat /\ s.company[a].due \in Nat
    BY Player
  <2>2. s.debt[a].due <= (n + 1) + 1 /\ s.company[a].due <= (n + 1) + 1
    BY <2>1 DEF DebtFits, CompanyFits
  <2> QED
    BY <2>1, <2>2 DEF DebtFits, CompanyFits
<1> QED
  BY <1>1, <1>2, <1>3 DEF Good

\* What a company pays comes from its till, and the date moves on.
LEMMA CompanyPaymentIs ==
  ASSUME NEW s, NEW n \in Nat, Good(s, n), NEW a \in Players
  PROVE  \E c \in Company, paid \in Nat :
           /\ CompanyPayment(s, a) = CompanyPut(s, a, c, s.outside + paid)
           /\ c.level = s.company[a].level /\ c.till = s.company[a].till - paid
           /\ c.due = s.company[a].due + 1
<1> DEFINE e == s.company[a]
           owed == e.owed + Larger(1, e.owed \div 5000)
           asked == Smaller(owed, Larger(MinCompanyPayment, owed \div 30))
           paid == Smaller(asked, e.till)
           left == owed - paid
           fee == IF paid = asked THEN 0 ELSE Larger(MinCompanyLateFee, left \div 100)
           missed == IF paid = asked THEN 0 ELSE e.missed + 1
           c == [level |-> e.level, till |-> e.till - paid, owed |-> left + fee,
                 due |-> e.due + 1, missed |-> missed]
<1>1. CompanyPayment(s, a) = CompanyPut(s, a, c, s.outside + paid)
  <2> HIDE DEF c, paid
  <2>1. s \in Economy
    BY Player
  <2>2. PICK d : d = c
    OBVIOUS
  <2>3. PICK p : p = paid
    OBVIOUS
  <2>4. CompanyPayment(s, a) = [s EXCEPT !.company[a] = d, !.outside = @ + p]
    BY <2>2, <2>3 DEF CompanyPayment, c, paid
  <2> QED
    BY <2>1, <2>2, <2>3, <2>4 DEF CompanyPut, Economy
<1>2. /\ e.level \in Nat /\ e.till \in Nat /\ e.owed \in Nat /\ e.due \in Nat /\ e.missed \in Nat
      /\ MinCompanyPayment \in Nat /\ MinCompanyLateFee \in Nat
  BY LendingAssumption, Player
<1> HIDE DEF e
<1>3. owed \in Nat
  <2>1. e.owed \div 5000 \in Nat
    BY <1>2
  <2> QED
    BY <1>2, <2>1 DEF Larger
<1> HIDE DEF owed
<1>4. asked \in Nat /\ asked <= owed
  <2>1. owed \div 30 \in Nat
    BY <1>3
  <2> QED
    BY <1>2, <1>3, <2>1 DEF Larger, Smaller
<1> HIDE DEF asked
<1>5. paid \in Nat /\ paid <= asked /\ paid <= e.till
  BY <1>2, <1>4 DEF Smaller
<1> HIDE DEF paid
<1>6. left \in Nat
  BY <1>3, <1>4, <1>5
<1> HIDE DEF left
<1>7. fee \in Nat
  <2>1. left \div 100 \in Nat
    BY <1>6
  <2> QED
    BY <1>2, <2>1 DEF Larger
<1> HIDE DEF fee
<1>8. missed \in Nat
  BY <1>2
<1> HIDE DEF missed
<1>9. c \in Company /\ c.level = e.level /\ c.till = e.till - paid /\ c.due = e.due + 1
  BY <1>2, <1>5, <1>6, <1>7, <1>8 DEF Company
<1> HIDE DEF c
<1> QED
  BY <1>1, <1>5, <1>9 DEF e

\* A company with a new loan and another till, once it is settled.
LEMMA SettledDoes ==
  ASSUME NEW s, NEW n \in Nat, Good(s, n), NEW a \in Players, NEW c \in Company, NEW m \in Int,
         c.till = s.company[a].till - m, c.level = s.company[a].level,
         c.missed < MaxMissed, c.due <= n + 1, c.owed > 0 => c.due > 0,
         c.level = 0 => c = NoCompany,
         NEW t, t = CompanyPut(s, a, c, s.outside + m)
  PROVE  /\ t \in Economy /\ t.company[a] = c
         /\ Does(s, CompanySettled(t, a), a, n) /\ Collected(CompanySettled(t, a), s, a)
         /\ CompanySettled(t, a).company[a] = Settled(c)
<1>1. s \in Economy /\ s.outside + m \in Int
  BY Player
<1>2. t \in Economy /\ t.company = [s.company EXCEPT ![a] = c] /\ t.company[a] = c
  <2>1. [s.company EXCEPT ![a] = c] \in [Players -> Company]
    BY <1>1 DEF Economy
  <2> QED
    BY <1>1, <2>1 DEF Economy, CompanyPut
<1>3. PICK d : d = Settled(c)
  OBVIOUS
<1>4. CompanyFits(d, n) /\ d.till = c.till /\ d.level = c.level
  BY <1>3, SettledFits
<1>5. PICK u : u = CompanySettled(t, a)
  OBVIOUS
<1>6. u = [s EXCEPT !.company = [s.company EXCEPT ![a] = d], !.outside = s.outside + m]
  <2>1. u = [t EXCEPT !.company = [t.company EXCEPT ![a] = d]]
    BY <1>2, <1>3, <1>5 DEF CompanySettled
  <2>2. [t.company EXCEPT ![a] = d] = [s.company EXCEPT ![a] = d]
    BY <1>1, <1>2 DEF Economy
  <2> QED
    BY <1>1, <2>1, <2>2 DEF Economy, CompanyPut
<1>7. d.till = s.company[a].till - m /\ (s.company[a].level > 0 => d.level > 0)
  BY <1>4
<1>8. Spares(s, u, n)
  BY <1>4, <1>6, <1>7, CompanyDoes
<1>9. u.company = [s.company EXCEPT ![a] = d] /\ u.debt = s.debt /\ u.agreements = s.agreements
  BY <1>1, <1>6 DEF Economy
<1>10. Collected(u, s, a) /\ u.company[a] = d
  BY <1>1, <1>9 DEF Collected, Economy
<1> QED
  BY <1>2, <1>3, <1>5, <1>8, <1>10 DEF Spares, Does

\* One turn of the loop, of a company that still owes.
LEMMA CompanyTurnDoes ==
  ASSUME NEW s, NEW n \in Nat, Good(s, n), NEW a \in Players,
         s.company[a].owed > 0, s.company[a].due <= n
  PROVE  /\ CompanyTurn(s, a) \in Economy
         /\ Does(s, CompanySettled(CompanyTurn(s, a), a), a, n)
         /\ Collected(CompanySettled(CompanyTurn(s, a), a), s, a)
         /\ \/ CompanyTurn(s, a).company[a].owed = 0
            \/ CompanyTurn(s, a).company[a].due = s.company[a].due + 1
<1>1. PICK c \in Company, paid \in Nat :
        /\ CompanyPayment(s, a) = CompanyPut(s, a, c, s.outside + paid)
        /\ c.level = s.company[a].level /\ c.till = s.company[a].till - paid
        /\ c.due = s.company[a].due + 1
  BY CompanyPaymentIs
<1>2. PICK r : r = CompanyPayment(s, a)
  OBVIOUS
<1>3. PICK e \in Company : e = s.company[a] /\ CompanyFits(e, n)
  BY Player
<1>4. /\ e.level > 0 /\ e.due \in Nat /\ e.till \in Nat /\ c.due \in Nat /\ c.missed \in Nat
      /\ s.outside \in Int /\ MaxMissed \in Nat
  <2>1. e.level > 0
    BY <1>3 DEF CompanyFits, Company, NoCompany
  <2> QED
    BY <1>3, <2>1, Player, Numbers DEF Company
<1>5. r.company[a] = c
  <2>1. s \in Economy
    BY Player
  <2> QED
    BY <1>1, <1>2, <2>1 DEF Economy, CompanyPut
<1>6. CASE c.missed < MaxMissed
  <2>1. CompanyTurn(s, a) = r
    BY <1>2, <1>4, <1>5, <1>6 DEF CompanyTurn
  <2>2. c.due <= n + 1 /\ c.due > 0 /\ c.level > 0 /\ paid \in Int
    BY <1>1, <1>3, <1>4
  <2>3. /\ r \in Economy /\ r.company[a] = c
        /\ Does(s, CompanySettled(r, a), a, n) /\ Collected(CompanySettled(r, a), s, a)
    BY <1>1, <1>2, <1>6, <2>2, SettledDoes
  <2> QED
    BY <1>1, <2>1, <2>3
<1>7. CASE c.missed >= MaxMissed
  <2>1. PICK t : t = Liquidated(r, a, 0)
    OBVIOUS
  <2>2. CompanyTurn(s, a) = t
    BY <1>2, <1>5, <1>7, <2>1 DEF CompanyTurn
  <2>3. PICK out \in Int : out = s.outside + paid
    BY <1>4
  <2>4. c.till + out = s.company[a].till + s.outside
    BY <1>1, <1>3, <1>4, <2>3
  <2>5. Does(s, t, a, n) /\ t.company[a] = NoCompany /\ Collected(t, s, a)
    <3>1. r = CompanyPut(s, a, c, out)
      BY <1>1, <1>2, <2>3
    <3>2. 0 \in Nat /\ c.till + out = s.company[a].till + s.outside
      BY <2>4
    <3> QED
      BY <2>1, <3>1, <3>2, LiquidatedDoes
  <2>6. t \in Economy /\ Good(t, n)
    BY <2>5 DEF Does, Good
  <2>7. CompanySettled(t, a) = t
    <3>1. Settled(NoCompany) = NoCompany
      BY DEF Settled, NoCompany
    <3>2. [t.company EXCEPT ![a] = NoCompany] = t.company
      BY <2>5, <2>6 DEF Economy
    <3>3. CompanySettled(t, a) = [t EXCEPT !.company = t.company]
      BY <2>5, <3>1, <3>2 DEF CompanySettled
    <3> QED
      BY <2>6, <3>3 DEF Economy
  <2>8. t.company[a].owed = 0
    BY <2>5 DEF NoCompany
  <2> QED
    BY <2>2, <2>5, <2>6, <2>7, <2>8
<1> QED
  BY <1>4, <1>6, <1>7

-----------------------------------------------------------------------------
(* The tick: the instalments of a player *)

\* A payment, without what follows when it is the last that may be missed.
Instalment(s, a, d, paid) == [Spend(s, a, paid) EXCEPT !.debt[a] = d]

\* What a payment asks for is paid from the wallet, or misses.
LEMMA PaymentIs ==
  ASSUME NEW s, NEW n \in Nat, Good(s, n), NEW a \in Players
  PROVE  \E d \in Debt, paid \in Nat :
           /\ Payment(s, a) = IF d.missed >= MaxMissed
                              THEN SavingsSeized(Instalment(s, a, d, paid), a)
                              ELSE Instalment(s, a, d, paid)
           /\ d.due = s.debt[a].due + 1 /\ paid <= s.wallet[a]
<1> DEFINE e == s.debt[a]
           asked == Smaller(e.owed, Minimum(e.owed))
           paid == Smaller(asked, s.wallet[a])
           left == e.owed - paid
           fee == IF paid = asked THEN 0 ELSE Larger(MinLateFee, left \div 100)
           missed == IF paid = asked THEN 0 ELSE e.missed + 1
           d == [owed |-> left + fee, due |-> e.due + 1, missed |-> missed]
<1>1. Payment(s, a) = IF d.missed >= MaxMissed
                      THEN SavingsSeized(Instalment(s, a, d, paid), a)
                      ELSE Instalment(s, a, d, paid)
  <2> HIDE DEF d, paid
  <2>1. s \in Economy
    BY Player
  <2>2. PICK c : c = d
    OBVIOUS
  <2>3. PICK p : p = paid
    OBVIOUS
  <2>4. PICK t : t = Instalment(s, a, c, p)
    OBVIOUS
  <2>5. Payment(s, a) = IF t.debt[a].missed >= MaxMissed THEN SavingsSeized(t, a) ELSE t
    BY <2>2, <2>3, <2>4 DEF Payment, d, paid, Instalment
  <2>6. t.debt[a] = c
    BY <2>1, <2>4 DEF Instalment, Spend, Economy
  <2> QED
    BY <2>2, <2>3, <2>4, <2>5, <2>6
<1>2. /\ e.owed \in Nat /\ e.due \in Nat /\ e.missed \in Nat /\ s.wallet[a] \in Nat
      /\ MinPayment \in Nat /\ MinLateFee \in Nat
  BY LendingAssumption, Player
<1> HIDE DEF e
<1>3. asked \in Nat /\ asked <= e.owed
  <2>1. e.owed \div 20 \in Nat
    BY <1>2
  <2> QED
    BY <1>2, <2>1 DEF Minimum, Larger, Smaller
<1> HIDE DEF asked
<1>4. paid \in Nat /\ paid <= asked /\ paid <= s.wallet[a]
  BY <1>2, <1>3 DEF Smaller
<1> HIDE DEF paid
<1>5. left \in Nat
  BY <1>2, <1>3, <1>4
<1> HIDE DEF left
<1>6. fee \in Nat
  <2>1. left \div 100 \in Nat
    BY <1>5
  <2> QED
    BY <1>2, <2>1 DEF Larger
<1> HIDE DEF fee
<1>7. missed \in Nat
  BY <1>2
<1> HIDE DEF missed
<1>8. d \in Debt /\ d.due = e.due + 1
  BY <1>2, <1>5, <1>6, <1>7 DEF Debt
<1> HIDE DEF d
<1> QED
  BY <1>1, <1>4, <1>8 DEF e

\* What the instalments of the debt of a leave alone.
Paid(t, s, a) ==
  /\ t.agreements = s.agreements /\ t.company = s.company
  /\ \A b \in Players \ {a} : t.debt[b] = s.debt[b]

\* A player with a new debt and other cash, once the debt is settled.
LEMMA DebtSettledDoes ==
  ASSUME NEW s, NEW n \in Nat, Good(s, n), NEW a \in Players,
         NEW x \in Nat, NEW y \in Nat, NEW d \in Debt, NEW out \in Int,
         x + y + out = s.wallet[a] + s.savings[a] + s.outside,
         d.missed < MaxMissed, d.due <= n + 1, d.owed > 0 => d.due > 0 \/ a \in s.inherited,
         NEW t, t = Written(s, a, x, y, d, a, s.company[a], s.inherited, out)
  PROVE  /\ t \in Economy /\ t.debt[a] = d
         /\ Does(s, DebtSettled(t, a), a, n) /\ Paid(DebtSettled(t, a), s, a)
         /\ d.owed > 0 => DebtSettled(t, a) = t
         /\ d.owed = 0 => DebtSettled(t, a).debt[a] = NoDebt
<1>1. PICK c \in Company : c = s.company[a] /\ CompanyFits(c, n)
  BY Player
<1>2. s \in Economy /\ s.inherited \in SUBSET Players /\ d.owed \in Nat /\ d.due \in Nat
  BY Player DEF Debt
<1>3. x + y + c.till + out = s.wallet[a] + s.savings[a] + s.company[a].till + s.outside
  <2>1. PICK i \in Nat, j \in Nat, k \in Int, l \in Nat :
          i = s.wallet[a] /\ j = s.savings[a] /\ k = s.outside /\ l = c.till
    BY Player, <1>1 DEF Company
  <2>2. x + y + out = i + j + k
    BY <2>1
  <2>3. x + y + l + out = i + j + l + k
    BY <2>1, <2>2
  <2> QED
    BY <1>1, <2>1, <2>3
<1>4. PICK h \in SUBSET Players : h = s.inherited
  BY <1>2
<1>5. Shows(t, s, a, x, y, d, a, c, h, out)
  <2>1. Shows(Written(s, a, x, y, d, a, c, h, out), s, a, x, y, d, a, c, h, out)
    BY <1>2, WrittenIs
  <2> QED
    BY <1>1, <1>4, <2>1
<1>6. t \in Economy /\ t.debt[a] = d /\ t.inherited = h
  BY <1>5 DEF Shows
<1>7. ASSUME NEW u, NEW z, NEW k, Shows(u, s, a, x, y, z, a, c, k, out)
      PROVE  Paid(u, s, a)
  <2>1. u.company \in [Players -> Company] /\ s.company \in [Players -> Company]
    BY <1>2, <1>7 DEF Shows, Economy
  <2>2. \A b \in Players : u.company[b] = s.company[b]
    BY <1>1, <1>7 DEF Shows
  <2>3. u.company = s.company
    BY <2>1, <2>2
  <2> QED
    BY <1>7, <2>3 DEF Shows, Paid
<1>8. CASE d.owed > 0
  <2>1. DebtSettled(t, a) = t
    BY <1>6, <1>8 DEF DebtSettled
  <2>2. DebtFits(d, a, h, n)
    BY <1>2, <1>4, <1>8 DEF DebtFits
  <2>3. s.inherited \subseteq h \cup {a}
    BY <1>4
  <2>4. Does(s, t, a, n)
    BY <1>1, <1>3, <1>5, <2>2, <2>3, ShownDoes
  <2> QED
    BY <1>2, <1>5, <1>6, <1>7, <1>8, <2>1, <2>4
<1>9. CASE d.owed = 0
  <2>1. PICK u : u = DebtSettled(t, a)
    OBVIOUS
  <2>2. u = [t EXCEPT !.debt = [t.debt EXCEPT ![a] = NoDebt], !.inherited = h \ {a}]
    BY <1>6, <1>9, <2>1 DEF DebtSettled
  <2>3. NoDebt \in Debt
    BY DEF NoDebt, Debt
  <2>4. Shows(u, s, a, x, y, NoDebt, a, c, h \ {a}, out)
    <3>1. /\ u.debt = [t.debt EXCEPT ![a] = NoDebt] /\ u.inherited = h \ {a}
          /\ u.wallet = t.wallet /\ u.savings = t.savings /\ u.company = t.company
          /\ u.outside = t.outside /\ u.bank = t.bank /\ u.frozen = t.frozen
          /\ u.partnerships = t.partnerships /\ u.contracts = t.contracts
          /\ u.agreements = t.agreements /\ u.bankrupt = t.bankrupt
      BY <1>6, <2>2 DEF Economy
    <3>2. [t.debt EXCEPT ![a] = NoDebt] \in [Players -> Debt]
      BY <1>6, <2>3 DEF Economy
    <3>3. u \in Economy
      BY <1>6, <2>2, <3>2 DEF Economy
    <3>4. u.debt[a] = NoDebt /\ \A b \in Players \ {a} : u.debt[b] = t.debt[b]
      BY <1>6, <3>1 DEF Economy
    <3> QED
      BY <1>5, <3>1, <3>3, <3>4 DEF Shows
  <2>5. DebtFits(NoDebt, a, h \ {a}, n)
    BY <2>3, Numbers DEF DebtFits, NoDebt
  <2>6. s.inherited \subseteq (h \ {a}) \cup {a} /\ h \ {a} \in SUBSET Players
    BY <1>4
  <2>7. Does(s, u, a, n)
    BY <1>1, <1>3, <2>4, <2>5, <2>6, ShownDoes
  <2>8. u.debt[a] = NoDebt
    BY <2>4 DEF Shows
  <2> QED
    BY <1>6, <1>7, <1>9, <2>1, <2>4, <2>7, <2>8
<1> QED
  BY <1>2, <1>8, <1>9

\* An instalment writes the wallet and the debt.
LEMMA InstalmentIs ==
  ASSUME NEW s \in Economy, NEW a \in Players, NEW d \in Debt, NEW paid \in Nat,
         NEW x, x = s.wallet[a] - paid, NEW out, out = s.outside + paid
  PROVE  Instalment(s, a, d, paid)
           = Written(s, a, x, s.savings[a], d, a, s.company[a], s.inherited, out)
<1>1. Instalment(s, a, d, paid) = DebtPut(s, a, x, d, s.inherited, out)
  <2>1. PICK t : t = Instalment(s, a, d, paid)
    OBVIOUS
  <2>2. PICK u : u = Spend(s, a, paid)
    OBVIOUS
  <2>3. u = [s EXCEPT !.wallet = [s.wallet EXCEPT ![a] = x], !.outside = out]
    BY <2>2 DEF Spend, Economy
  <2>4. u.debt = s.debt /\ t = [u EXCEPT !.debt = [u.debt EXCEPT ![a] = d]]
    BY <2>1, <2>2, <2>3 DEF Instalment, Economy
  <2>5. t = [s EXCEPT !.wallet = [s.wallet EXCEPT ![a] = x], !.outside = out,
                      !.debt = [s.debt EXCEPT ![a] = d]]
    BY <2>3, <2>4 DEF Economy
  <2> QED
    BY <2>1, <2>5 DEF DebtPut, Economy
<1> QED
  BY <1>1, DebtWritten

\* t is s after a payment and a seizure.
Seizes(t, s, a, d, x, out) ==
  \E z \in Nat, c \in Debt, o \in Int :
    /\ z <= s.savings[a] /\ c.due = d.due /\ c.missed = 0 /\ o = out + z
    /\ t = Written(s, a, x, s.savings[a] - z, c, a, s.company[a], s.inherited, o)

\* A seizure takes from the savings, and writes the debt once more.
LEMMA SeizureIs ==
  ASSUME NEW s \in Economy, NEW a \in Players, NEW d \in Debt, NEW x \in Nat, NEW out \in Int,
         NEW t, t = Written(s, a, x, s.savings[a], d, a, s.company[a], s.inherited, out)
  PROVE  Seizes(SavingsSeized(t, a), s, a, d, x, out)
<1> DEFINE z == Smaller(s.savings[a], Larger(MinPayment, d.owed \div 10))
           c == [owed |-> d.owed - Smaller(d.owed, z), due |-> d.due, missed |-> 0]
<1>1. /\ s.savings[a] \in Nat /\ s.inherited \in SUBSET Players /\ s.company[a] \in Company
      /\ d.owed \in Nat /\ d.due \in Nat /\ MinPayment \in Nat
  BY LendingAssumption DEF Economy, Debt
<1>2. z \in Nat /\ z <= s.savings[a]
  <2>1. d.owed \div 10 \in Nat
    BY <1>1
  <2> QED
    BY <1>1, <2>1 DEF Larger, Smaller
<1>3. c \in Debt /\ c.due = d.due /\ c.missed = 0
  <2> HIDE DEF z
  <2>1. d.owed - Smaller(d.owed, z) \in Nat
    BY <1>1, <1>2 DEF Smaller
  <2> QED
    BY <1>1, <2>1 DEF Debt
<1>4. SavingsSeized(t, a)
        = Written(s, a, x, s.savings[a] - z, c, a, s.company[a], s.inherited, out + z)
  <2> HIDE DEF z, c
  <2>1. PICK w : w = [s.wallet EXCEPT ![a] = x]
    OBVIOUS
  <2>2. PICK v : v = [s.savings EXCEPT ![a] = s.savings[a] - z]
    OBVIOUS
  <2>3. PICK b : b = [s.debt EXCEPT ![a] = c]
    OBVIOUS
  <2>4. PICK u : u = SavingsSeized(t, a)
    OBVIOUS
  <2>5. t = DebtPut(s, a, x, d, s.inherited, out)
    BY DebtWritten
  <2>6. /\ t.savings = s.savings /\ t.debt = [s.debt EXCEPT ![a] = d] /\ t.outside = out
        /\ t.debt[a] = d /\ t.savings[a] = s.savings[a]
    BY <2>5 DEF DebtPut, Economy
  <2>7. [t.debt EXCEPT ![a] = c] = b
    BY <2>3, <2>6 DEF Economy
  <2>8. u = [t EXCEPT !.savings = v, !.outside = out + z, !.debt = b]
    <3>1. u = [t EXCEPT !.savings[a] = @ - z, !.outside = @ + z, !.debt[a] = c]
      BY <2>4, <2>6 DEF SavingsSeized, z, c
    <3> QED
      BY <2>2, <2>5, <2>6, <2>7, <3>1 DEF DebtPut, Economy
  <2>9. [s.company EXCEPT ![a] = s.company[a]] = s.company
    BY Kept
  <2>10. u = [s EXCEPT !.wallet = w, !.savings = v, !.debt = b, !.company = s.company,
                       !.inherited = s.inherited, !.outside = out + z]
    BY <2>1, <2>5, <2>8 DEF DebtPut, Economy
  <2> QED
    BY <2>1, <2>2, <2>3, <2>4, <2>9, <2>10 DEF Written
<1>5. out + z \in Int
  BY <1>2
<1> HIDE DEF z, c
<1> QED
  BY <1>2, <1>3, <1>4, <1>5 DEF Seizes

\* One turn of the loop, of a player who still owes.
LEMMA DebtTurnDoes ==
  ASSUME NEW s, NEW n \in Nat, Good(s, n), NEW a \in Players,
         s.debt[a].owed > 0, s.debt[a].due <= n
  PROVE  /\ DebtTurn(s, a) \in Economy
         /\ Does(s, DebtSettled(DebtTurn(s, a), a), a, n)
         /\ Paid(DebtSettled(DebtTurn(s, a), a), s, a)
         /\ \/ DebtTurn(s, a).debt[a].owed = 0
            \/ /\ DebtTurn(s, a).debt[a].due = s.debt[a].due + 1
               /\ DebtSettled(DebtTurn(s, a), a) = DebtTurn(s, a)
<1>1. PICK d \in Debt, paid \in Nat :
        /\ Payment(s, a) = IF d.missed >= MaxMissed
                           THEN SavingsSeized(Instalment(s, a, d, paid), a)
                           ELSE Instalment(s, a, d, paid)
        /\ d.due = s.debt[a].due + 1 /\ paid <= s.wallet[a]
  BY PaymentIs
<1>2. s \in Economy /\ s.debt[a].due \in Nat /\ d.missed \in Nat /\ d.owed \in Nat
      /\ MaxMissed \in Nat /\ MaxMissed > 0
  BY Player, Numbers DEF Debt
<1>3. PICK w \in Nat, v \in Nat, u \in Int :
        w = s.wallet[a] /\ v = s.savings[a] /\ u = s.outside
  BY Player
<1>4. PICK x \in Nat, out \in Int : x = w - paid /\ out = u + paid
  <2>1. w - paid \in Nat /\ u + paid \in Int
    BY <1>1, <1>3
  <2> QED
    BY <2>1
<1>5. Instalment(s, a, d, paid)
        = Written(s, a, x, s.savings[a], d, a, s.company[a], s.inherited, out)
  BY <1>2, <1>3, <1>4, InstalmentIs
<1>6. PICK t : t = DebtTurn(s, a)
  OBVIOUS
<1>7. t = Payment(s, a)
  BY <1>2, <1>6, Player DEF DebtTurn
<1>8. CASE d.missed < MaxMissed
  <2>1. t = Written(s, a, x, v, d, a, s.company[a], s.inherited, out)
    BY <1>1, <1>2, <1>3, <1>5, <1>7, <1>8
  <2>2. x + v + out = s.wallet[a] + s.savings[a] + s.outside
    BY <1>3, <1>4
  <2>3. d.due <= n + 1 /\ d.due > 0
    BY <1>1, <1>2
  <2>4. /\ t \in Economy /\ t.debt[a] = d
        /\ Does(s, DebtSettled(t, a), a, n) /\ Paid(DebtSettled(t, a), s, a)
        /\ d.owed > 0 => DebtSettled(t, a) = t
    BY <1>8, <2>1, <2>2, <2>3, DebtSettledDoes
  <2> QED
    BY <1>1, <1>2, <1>6, <2>4
<1>9. CASE d.missed >= MaxMissed
  <2>1. PICK z \in Nat, c \in Debt, o \in Int :
          /\ z <= s.savings[a] /\ c.due = d.due /\ c.missed = 0 /\ o = out + z
          /\ SavingsSeized(Instalment(s, a, d, paid), a)
               = Written(s, a, x, s.savings[a] - z, c, a, s.company[a], s.inherited, o)
    <3>1. PICK i : i = Instalment(s, a, d, paid)
      OBVIOUS
    <3>2. i = Written(s, a, x, s.savings[a], d, a, s.company[a], s.inherited, out)
      BY <1>5, <3>1
    <3>3. Seizes(SavingsSeized(i, a), s, a, d, x, out)
      BY <1>2, <3>2, SeizureIs
    <3> QED
      BY <3>1, <3>3 DEF Seizes
  <2>2. PICK y \in Nat : y = v - z
    BY <1>3, <2>1
  <2>3. t = Written(s, a, x, y, c, a, s.company[a], s.inherited, o)
    BY <1>1, <1>3, <1>7, <1>9, <2>1, <2>2
  <2>4. x + y + o = s.wallet[a] + s.savings[a] + s.outside
    <3>1. x + y + o = w + v + u
      BY <1>4, <2>1, <2>2
    <3> QED
      BY <1>3, <3>1
  <2>5. c.due <= n + 1 /\ c.due > 0 /\ c.missed < MaxMissed /\ c.owed \in Nat
    BY <1>1, <1>2, <2>1 DEF Debt
  <2>6. /\ t \in Economy /\ t.debt[a] = c
        /\ Does(s, DebtSettled(t, a), a, n) /\ Paid(DebtSettled(t, a), s, a)
        /\ c.owed > 0 => DebtSettled(t, a) = t
    BY <2>3, <2>4, <2>5, DebtSettledDoes
  <2> QED
    BY <1>1, <1>6, <2>1, <2>5, <2>6
<1> QED
  BY <1>2, <1>8, <1>9

-----------------------------------------------------------------------------
(* The tick: the loops over instalments *)

\* How many instalments are made up for: none, the limit, or all that are due.
LEMMA PeriodsAre ==
  ASSUME now \in Nat, NEW d, d.owed \in Nat, d.due \in Nat, NEW most \in Nat,
         NEW n, n = Periods(d, most)
  PROVE  /\ n \in Nat /\ (n > 0 => d.owed > 0 /\ n <= 1 + now - d.due)
         /\ n = most \/ n = 1 + now - d.due \/ (n = 0 /\ (d.owed = 0 \/ d.due = 0 \/ d.due > now))
<1>1. CASE d.owed > 0 /\ d.due > 0 /\ now >= d.due
  <2>1. PICK e \in Nat : e = d.due
    OBVIOUS
  <2>2. n = Smaller(most, 1 + now - e) /\ now >= e
    BY <1>1, <2>1 DEF Periods
  <2>3. n \in Nat /\ n <= 1 + now - e /\ (n = most \/ n = 1 + now - e)
    BY <2>2 DEF Smaller
  <2> QED
    BY <1>1, <2>1, <2>3
<1>2. CASE ~(d.owed > 0 /\ d.due > 0 /\ now >= d.due)
  <2>1. n = 0
    BY <1>2 DEF Periods
  <2> QED
    BY <1>2, <2>1
<1> QED
  BY <1>1, <1>2

\* What n payments make of a debt that began as old.
LEMMA AheadThen ==
  ASSUME now \in Nat, NEW old, old.owed \in Nat, old.due \in Nat,
         old.owed = 0 => old.due = 0, NEW most \in Nat,
         NEW n, n = Periods(old, most), NEW new, new.owed = 0 \/ new.due = old.due + n
  PROVE  Ahead(new, old, most)
<1>1. /\ n \in Nat
      /\ n = most \/ n = 1 + now - old.due \/ (n = 0 /\ (old.owed = 0 \/ old.due = 0 \/ old.due > now))
  BY PeriodsAre
<1> SUFFICES ASSUME new.due = old.due + n
             PROVE  Ahead(new, old, most)
  BY DEF Ahead
<1> QED
  BY <1>1 DEF Ahead

\* A company that owes is settled already.
LEMMA StillOwes ==
  ASSUME NEW s \in Economy, NEW a \in Players, s.company[a].owed > 0
  PROVE  CompanySettled(s, a) = s
<1>1. Settled(s.company[a]) = s.company[a]
  BY DEF Settled
<1>2. CompanySettled(s, a) = [s EXCEPT !.company = [s.company EXCEPT ![a] = s.company[a]]]
  BY <1>1 DEF CompanySettled
<1>3. [s.company EXCEPT ![a] = s.company[a]] = s.company
  BY Kept
<1> QED
  BY <1>2, <1>3 DEF Economy

\* The company that is due.
LEMMA CompanyTickDoes ==
  ASSUME NEW s, now \in Nat, Good(s, now), NEW a \in Players
  PROVE  /\ Does(s, CompanyTick(s, a), a, now) /\ Collected(CompanyTick(s, a), s, a)
         /\ Ahead(CompanyTick(s, a).company[a], s.company[a], MaxCompanyPeriods)
<1>1. PICK c0 \in Company : c0 = s.company[a] /\ CompanyFits(c0, now)
  BY Player
<1>2. PICK n : n = Periods(c0, MaxCompanyPeriods)
  OBVIOUS
<1>3. /\ n \in Nat /\ (n > 0 => n <= 1 + now - c0.due) /\ c0.due \in Nat /\ c0.owed \in Nat
      /\ MaxCompanyPeriods \in Nat /\ s \in Economy
  <2>1. c0.owed \in Nat /\ c0.due \in Nat /\ MaxCompanyPeriods \in Nat
    BY LendingAssumption DEF Company
  <2>2. n \in Nat /\ (n > 0 => n <= 1 + now - c0.due)
    BY <1>2, <2>1, PeriodsAre
  <2> QED
    BY <2>1, <2>2, Player
<1> DEFINE Owed(t) == t.company[a].owed > 0
           V == {t \in Economy : \E m \in Nat : Good(CompanySettled(t, a), m)}
           At(i) == {t \in V : /\ Does(s, CompanySettled(t, a), a, now)
                               /\ Collected(CompanySettled(t, a), s, a)
                               /\ Owed(t) => t.company[a].due = c0.due + i}
           J == [i \in 0..n |-> At(i)]
           Iter(g) == g = [t \in SUBSET DOMAIN Turns(n) |->
                            IF t = {} THEN s ELSE CompanyTurn(g[t \ {Max(t)}], a)]
<1>4. s \in At(0)
  <2>1. PICK z \in Int : z = 0
    OBVIOUS
  <2>2. s = CompanyPut(s, a, c0, s.outside + z)
    <3>1. s.outside + z = s.outside /\ [s.company EXCEPT ![a] = c0] = s.company
      <4>1. s.outside \in Int
        BY Player
      <4>2. [s.company EXCEPT ![a] = c0] = s.company
        BY <1>1, <1>3, Kept
      <4> QED
        BY <2>1, <4>1, <4>2
    <3> QED
      BY <1>3, <3>1 DEF CompanyPut, Economy
  <2>3. c0.till = s.company[a].till - z /\ c0.level = s.company[a].level
    BY <1>1, <2>1 DEF Company
  <2>4. c0.missed < MaxMissed /\ c0.due <= now + 1 /\ (c0.owed > 0 => c0.due > 0)
        /\ (c0.level = 0 => c0 = NoCompany)
    BY <1>1, <1>3 DEF CompanyFits
  <2>5. Does(s, CompanySettled(s, a), a, now) /\ Collected(CompanySettled(s, a), s, a)
    BY <2>2, <2>3, <2>4, SettledDoes
  <2>6. c0.due + 0 = c0.due
    BY <1>3
  <2> QED
    BY <1>1, <1>3, <2>5, <2>6 DEF Does
<1>5. ASSUME NEW i \in 1..n, NEW t \in V
      PROVE  /\ CompanyTurn(t, a) \in V
             /\ t \in At(i - 1) => CompanyTurn(t, a) \in At(i)
  <2>1. PICK u : u = CompanyTurn(t, a)
    OBVIOUS
  <2>2. t \in Economy /\ t.company[a].owed \in Nat
    BY DEF Economy, Company
  <2>3. CASE t.company[a].owed = 0
    <3>1. u = t
      BY <2>1, <2>3 DEF CompanyTurn
    <3>2. ~Owed(t)
      BY <2>3
    <3> QED
      BY <1>5, <2>1, <3>1, <3>2
  <2>4. CASE Owed(t)
    <3>1. CompanySettled(t, a) = t
      BY <2>2, <2>4, StillOwes
    <3>2. PICK m \in Nat : Good(t, m)
      BY <1>5, <3>1
    <3>3. Good(t, m + 1) /\ m + 1 \in Nat /\ t.company[a].due <= m + 1
      BY <3>2, Older, Player DEF CompanyFits
    <3>4. u \in Economy /\ Does(t, CompanySettled(u, a), a, m + 1)
      BY <2>1, <2>4, <3>3, CompanyTurnDoes
    <3>5. u \in V
      BY <3>3, <3>4 DEF Does
    <3>6. ASSUME t \in At(i - 1) PROVE u \in At(i)
      <4>1. Does(s, t, a, now) /\ Collected(t, s, a) /\ t.company[a].due = c0.due + (i - 1)
        BY <2>4, <3>1, <3>6
      <4>2. t.company[a].due <= now
        BY <1>3, <4>1
      <4>3. Good(t, now)
        BY <4>1 DEF Does
      <4>4. /\ Does(t, CompanySettled(u, a), a, now) /\ Collected(CompanySettled(u, a), t, a)
            /\ u.company[a].owed = 0 \/ u.company[a].due = t.company[a].due + 1
        BY <2>1, <2>4, <4>2, <4>3, CompanyTurnDoes
      <4>5. Does(s, CompanySettled(u, a), a, now)
        BY <4>1, <4>4, Together
      <4>6. Collected(CompanySettled(u, a), s, a)
        BY <4>1, <4>4 DEF Collected
      <4>7. Owed(u) => u.company[a].due = c0.due + i
        BY <1>3, <4>1, <4>4
      <4> QED
        BY <3>5, <4>5, <4>6, <4>7
    <3> QED
      BY <2>1, <3>5, <3>6
  <2> QED
    BY <2>2, <2>3, <2>4
<1>6. PICK W : W = V
  OBVIOUS
<1>7. PICK step \in [(1..n) \X W -> W] : \A i \in 1..n, t \in W : step[<<i, t>>] = CompanyTurn(t, a)
  <2>1. [p \in (1..n) \X W |-> CompanyTurn(p[2], a)] \in [(1..n) \X W -> W]
    <3> HIDE DEF V
    <3> QED
      BY <1>5, <1>6
  <2> QED
    BY <2>1
<1>8. s \in W
  BY <1>4, <1>6
<1>9. PICK g \in [SUBSET (1..n) -> W] : Steps(g, n, s, step)
  BY <1>3, <1>8, Iterates
<1>10. DOMAIN Turns(n) = 1..n
  BY DEF Turns
<1>11. Iter(g)
  <2>1. ASSUME NEW t \in SUBSET (1..n), t # {}
        PROVE  g[t] = CompanyTurn(g[t \ {Max(t)}], a)
    <3>1. Max(t) \in 1..n
      BY <1>3, <2>1, MaxExists
    <3> QED
      BY <1>7, <1>9, <2>1, <3>1 DEF Steps
  <2> QED
    BY <1>9, <1>10, <2>1 DEF Steps
<1>12. PICK it : it = CHOOSE h : Iter(h)
  OBVIOUS
<1>13. Iter(it)
  <2> HIDE DEF Iter
  <2> QED
    BY <1>11, <1>12
<1>14. CompanyTick(s, a) = CompanySettled(it[1..n], a)
  <2>1. CompanyTick(s, a) = CompanySettled((CHOOSE h : Iter(h))[DOMAIN Turns(n)], a)
    BY <1>1, <1>2 DEF CompanyTick, FoldLeft, MapThenFoldSet
  <2> QED
    BY <1>10, <1>12, <2>1
<1>15. it[1..n] \in J[n]
  <2> DEFINE next == [t \in SUBSET (1..n) |-> CompanyTurn(it[t \ {Max(t)}], a)]
  <2>1. \A t \in SUBSET (1..n) : it[t] = IF t = {} THEN s ELSE next[t]
    BY <1>10, <1>13
  <2>2. ASSUME NEW i \in 1..n, it[1..(i - 1)] \in J[i - 1] PROVE next[1..i] \in J[i]
    <3>1. PICK t : t = it[1..(i - 1)]
      OBVIOUS
    <3>2. i - 1 \in 0..n /\ i \in 0..n
      BY <1>3
    <3>3. t \in At(i - 1)
      BY <2>2, <3>1, <3>2
    <3>4. next[1..i] = CompanyTurn(t, a)
      BY <1>3, <3>1, MaxOfSegment
    <3>5. t \in V
      BY <3>3
    <3>6. CompanyTurn(t, a) \in At(i)
      BY <1>5, <3>3, <3>5
    <3> HIDE DEF At, next
    <3> QED
      BY <3>2, <3>4, <3>6
  <2>3. s \in J[0]
    BY <1>3, <1>4
  <2> HIDE DEF J, next
  <2> QED
    BY <1>3, <2>1, <2>2, <2>3, Segments
<1>16. PICK t : t = it[1..n]
  OBVIOUS
<1>17. t \in At(n)
  <2>1. n \in 0..n
    BY <1>3
  <2> HIDE DEF At
  <2> QED
    BY <1>15, <1>16, <2>1
<1>18. PICK u : u = CompanyTick(s, a)
  OBVIOUS
<1>19. u = CompanySettled(t, a) /\ Does(s, u, a, now) /\ Collected(u, s, a)
  BY <1>14, <1>16, <1>17, <1>18
<1>20. u.company[a].owed = 0 \/ u.company[a].due = c0.due + n
  <2>1. t \in Economy /\ t.company[a].owed \in Nat
    BY <1>17 DEF Economy, Company
  <2>2. CASE Owed(t)
    BY <1>17, <1>19, <2>1, <2>2, StillOwes
  <2>3. CASE ~Owed(t)
    <3>1. PICK c \in Company : c = t.company[a]
      BY <2>1 DEF Economy
    <3>2. Settled(c).owed = 0
      BY <2>1, <2>3, <3>1 DEF Settled, Company
    <3>3. u.company[a] = Settled(c)
      BY <1>19, <2>1, <3>1 DEF CompanySettled, Economy
    <3> QED
      BY <3>2, <3>3
  <2> QED
    BY <2>2, <2>3
<1>21. Ahead(u.company[a], c0, MaxCompanyPeriods)
  <2>1. c0.owed = 0 => c0.due = 0
    BY <1>1 DEF CompanyFits
  <2> QED
    BY <1>2, <1>3, <1>20, <2>1, AheadThen
<1> QED
  BY <1>1, <1>18, <1>19, <1>21

\* A debt that is due.
LEMMA DueDebtDoes ==
  ASSUME NEW s, now \in Nat, Good(s, now), NEW a \in Players, Periods(s.debt[a], MaxPeriods) > 0
  PROVE  /\ Does(s, DebtTick(s, a), a, now) /\ Paid(DebtTick(s, a), s, a)
         /\ Ahead(DebtTick(s, a).debt[a], s.debt[a], MaxPeriods)
<1>1. PICK d0 \in Debt : d0 = s.debt[a] /\ DebtFits(d0, a, s.inherited, now)
  BY Player
<1>2. PICK n : n = Periods(d0, MaxPeriods)
  OBVIOUS
<1>3. /\ n \in Nat /\ n > 0 /\ d0.owed > 0 /\ n <= 1 + now - d0.due /\ d0.due \in Nat /\ d0.owed \in Nat
      /\ MaxPeriods \in Nat /\ s \in Economy
  <2>1. d0.owed \in Nat /\ d0.due \in Nat /\ MaxPeriods \in Nat
    BY LendingAssumption DEF Debt
  <2>2. n \in Nat /\ n > 0 /\ d0.owed > 0 /\ n <= 1 + now - d0.due
    BY <1>1, <1>2, <2>1, PeriodsAre
  <2> QED
    BY <2>1, <2>2, Player
<1> DEFINE Owed(t) == t.debt[a].owed > 0
           V == {t \in Economy : \E m \in Nat : Good(DebtSettled(t, a), m)}
           At(i) == {t \in V : /\ Does(s, DebtSettled(t, a), a, now)
                               /\ Paid(DebtSettled(t, a), s, a)
                               /\ Owed(t) => t.debt[a].due = d0.due + i}
           J == [i \in 0..n |-> At(i)]
           Iter(g) == g = [t \in SUBSET DOMAIN Turns(n) |->
                            IF t = {} THEN s ELSE DebtTurn(g[t \ {Max(t)}], a)]
<1>4. s \in At(0)
  <2>1. DebtSettled(s, a) = s
    BY <1>1, <1>3 DEF DebtSettled
  <2>2. Does(s, s, a, now) /\ Paid(s, s, a)
    BY DEF Does, Paid
  <2>3. d0.due + 0 = d0.due
    BY <1>3
  <2> QED
    BY <1>1, <1>3, <2>1, <2>2, <2>3
<1>5. ASSUME NEW i \in 1..n, NEW t \in V
      PROVE  /\ DebtTurn(t, a) \in V
             /\ t \in At(i - 1) => DebtTurn(t, a) \in At(i)
  <2>1. PICK u : u = DebtTurn(t, a)
    OBVIOUS
  <2>2. t \in Economy /\ t.debt[a].owed \in Nat
    BY DEF Economy, Debt
  <2>3. CASE t.debt[a].owed = 0
    <3>1. u = t
      BY <2>1, <2>3 DEF DebtTurn
    <3>2. ~Owed(t)
      BY <2>3
    <3> QED
      BY <1>5, <2>1, <3>1, <3>2
  <2>4. CASE Owed(t)
    <3>1. DebtSettled(t, a) = t
      BY <2>4 DEF DebtSettled
    <3>2. PICK m \in Nat : Good(t, m)
      BY <1>5, <3>1
    <3>3. Good(t, m + 1) /\ m + 1 \in Nat /\ t.debt[a].due <= m + 1
      BY <3>2, Older, Player DEF DebtFits
    <3>4. u \in Economy /\ Does(t, DebtSettled(u, a), a, m + 1)
      BY <2>1, <2>4, <3>3, DebtTurnDoes
    <3>5. u \in V
      BY <3>3, <3>4 DEF Does
    <3>6. ASSUME t \in At(i - 1) PROVE u \in At(i)
      <4>1. Does(s, t, a, now) /\ Paid(t, s, a) /\ t.debt[a].due = d0.due + (i - 1)
        BY <2>4, <3>1, <3>6
      <4>2. t.debt[a].due <= now
        BY <1>3, <4>1
      <4>3. Good(t, now)
        BY <4>1 DEF Does
      <4>4. /\ Does(t, DebtSettled(u, a), a, now) /\ Paid(DebtSettled(u, a), t, a)
            /\ u.debt[a].owed = 0 \/ u.debt[a].due = t.debt[a].due + 1
        BY <2>1, <2>4, <4>2, <4>3, DebtTurnDoes
      <4>5. Does(s, DebtSettled(u, a), a, now)
        BY <4>1, <4>4, Together
      <4>6. Paid(DebtSettled(u, a), s, a)
        BY <4>1, <4>4 DEF Paid
      <4>7. Owed(u) => u.debt[a].due = d0.due + i
        BY <1>3, <4>1, <4>4
      <4> QED
        BY <3>5, <4>5, <4>6, <4>7
    <3> QED
      BY <2>1, <3>5, <3>6
  <2> QED
    BY <2>2, <2>3, <2>4
<1>6. PICK W : W = V
  OBVIOUS
<1>7. PICK step \in [(1..n) \X W -> W] : \A i \in 1..n, t \in W : step[<<i, t>>] = DebtTurn(t, a)
  <2>1. [p \in (1..n) \X W |-> DebtTurn(p[2], a)] \in [(1..n) \X W -> W]
    <3> HIDE DEF V
    <3> QED
      BY <1>5, <1>6
  <2> QED
    BY <2>1
<1>8. s \in W
  BY <1>4, <1>6
<1>9. PICK g \in [SUBSET (1..n) -> W] : Steps(g, n, s, step)
  BY <1>3, <1>8, Iterates
<1>10. DOMAIN Turns(n) = 1..n
  BY DEF Turns
<1>11. Iter(g)
  <2>1. ASSUME NEW t \in SUBSET (1..n), t # {}
        PROVE  g[t] = DebtTurn(g[t \ {Max(t)}], a)
    <3>1. Max(t) \in 1..n
      BY <1>3, <2>1, MaxExists
    <3> QED
      BY <1>7, <1>9, <2>1, <3>1 DEF Steps
  <2> QED
    BY <1>9, <1>10, <2>1 DEF Steps
<1>12. PICK it : it = CHOOSE h : Iter(h)
  OBVIOUS
<1>13. Iter(it)
  <2> HIDE DEF Iter
  <2> QED
    BY <1>11, <1>12
<1>14. DebtTick(s, a) = DebtSettled(it[1..n], a)
  <2>1. DebtTick(s, a) = DebtSettled((CHOOSE h : Iter(h))[DOMAIN Turns(n)], a)
    BY <1>1, <1>2, <1>3 DEF DebtTick, FoldLeft, MapThenFoldSet
  <2> QED
    BY <1>10, <1>12, <2>1
<1>15. it[1..n] \in J[n]
  <2> DEFINE next == [t \in SUBSET (1..n) |-> DebtTurn(it[t \ {Max(t)}], a)]
  <2>1. \A t \in SUBSET (1..n) : it[t] = IF t = {} THEN s ELSE next[t]
    BY <1>10, <1>13
  <2>2. ASSUME NEW i \in 1..n, it[1..(i - 1)] \in J[i - 1] PROVE next[1..i] \in J[i]
    <3>1. PICK t : t = it[1..(i - 1)]
      OBVIOUS
    <3>2. i - 1 \in 0..n /\ i \in 0..n
      BY <1>3
    <3>3. t \in At(i - 1)
      BY <2>2, <3>1, <3>2
    <3>4. next[1..i] = DebtTurn(t, a)
      BY <1>3, <3>1, MaxOfSegment
    <3>5. t \in V
      BY <3>3
    <3>6. DebtTurn(t, a) \in At(i)
      BY <1>5, <3>3, <3>5
    <3> HIDE DEF At, next
    <3> QED
      BY <3>2, <3>4, <3>6
  <2>3. s \in J[0]
    BY <1>3, <1>4
  <2> HIDE DEF J, next
  <2> QED
    BY <1>3, <2>1, <2>2, <2>3, Segments
<1>16. PICK t : t = it[1..n]
  OBVIOUS
<1>17. t \in At(n)
  <2>1. n \in 0..n
    BY <1>3
  <2> HIDE DEF At
  <2> QED
    BY <1>15, <1>16, <2>1
<1>18. PICK u : u = DebtTick(s, a)
  OBVIOUS
<1>19. u = DebtSettled(t, a) /\ Does(s, u, a, now) /\ Paid(u, s, a)
  BY <1>14, <1>16, <1>17, <1>18
<1>20. u.debt[a].owed = 0 \/ u.debt[a].due = d0.due + n
  <2>1. t \in Economy /\ t.debt[a].owed \in Nat
    BY <1>17 DEF Economy, Debt
  <2>2. CASE Owed(t)
    BY <1>17, <1>19, <2>1, <2>2 DEF DebtSettled
  <2>3. CASE ~Owed(t)
    <3>1. u.debt[a] = NoDebt
      BY <1>19, <2>1, <2>3 DEF DebtSettled, Economy
    <3> QED
      BY <3>1 DEF NoDebt
  <2> QED
    BY <2>2, <2>3
<1>21. Ahead(u.debt[a], d0, MaxPeriods)
  <2>1. d0.owed = 0 => d0.due = 0
    BY <1>3
  <2> QED
    BY <1>2, <1>3, <1>20, <2>1, AheadThen
<1> QED
  BY <1>1, <1>18, <1>19, <1>21

\* The debt of a player in a tick.
LEMMA DebtTickDoes ==
  ASSUME NEW s, now \in Nat, Good(s, now), NEW a \in Players
  PROVE  /\ Does(s, DebtTick(s, a), a, now) /\ Paid(DebtTick(s, a), s, a)
         /\ Ahead(DebtTick(s, a).debt[a], s.debt[a], MaxPeriods)
<1>1. PICK d \in Debt : d = s.debt[a] /\ DebtFits(d, a, s.inherited, now)
  BY Player
<1>2. d.owed \in Nat /\ d.due \in Nat /\ MaxPeriods \in Nat /\ (d.owed = 0 => d.due = 0)
  BY <1>1, LendingAssumption DEF Debt, DebtFits, NoDebt
<1>3. PICK n \in Nat : n = Periods(d, MaxPeriods)
  BY <1>2, PeriodsAre
<1>4. CASE n > 0
  BY <1>1, <1>3, <1>4, DueDebtDoes
<1>5. CASE n = 0
  <2>1. DebtTick(s, a) = s
    BY <1>1, <1>3, <1>5 DEF DebtTick
  <2>2. Does(s, s, a, now) /\ Paid(s, s, a)
    BY DEF Does, Paid
  <2>3. d.due = d.due + n
    BY <1>2, <1>5
  <2>4. Ahead(d, d, MaxPeriods)
    BY <1>2, <1>3, <2>3, AheadThen
  <2> QED
    BY <1>1, <2>1, <2>2, <2>4
<1> QED
  BY <1>3, <1>4, <1>5

-----------------------------------------------------------------------------
(* The tick: the loops over agreements, companies and debts *)

\* The agreements, one after the other.
LEMMA AgreementsTickDo ==
  ASSUME NEW s, now \in Nat, Good(s, now),
         NEW r, r = AgreementsTick(s)
  PROVE  /\ Good(r, now) /\ Worth(r) = Worth(s) /\ r.debt = s.debt
         /\ \A a \in Players : SameLoan(r.company[a], s.company[a])
         /\ DOMAIN r.agreements = DOMAIN s.agreements
         /\ \A id \in DOMAIN s.agreements : Prompt(r.agreements[id], s.agreements[id])
<1>1. PICK D \in SUBSET (1..MaxCalls) : D = DOMAIN s.agreements
  <2>1. s \in Economy
    BY DEF Good
  <2> QED
    BY <2>1 DEF Economy, Tables
<1>2. PICK m \in Nat : m = Cardinality(D)
  BY InOrderIs, Numbers
<1>3. PICK seq \in [1..m -> D] : seq = InOrder(D)
  BY <1>2, InOrderIs, Numbers
<1>4. /\ \A i, j \in 1..m : seq[i] = seq[j] => i = j
      /\ \A id \in D : \E i \in 1..m : seq[i] = id
  BY <1>2, <1>3, InOrderIs, Numbers
<1> DEFINE V == {t \in Economy : /\ Good(t, now) /\ DOMAIN t.agreements = D}
           Done(t, i) == \A j \in 1..m :
                           IF j <= i THEN Prompt(t.agreements[seq[j]], s.agreements[seq[j]])
                           ELSE t.agreements[seq[j]] = s.agreements[seq[j]]
           At(i) == {t \in V : /\ Worth(t) = Worth(s) /\ t.debt = s.debt
                               /\ \A a \in Players : SameLoan(t.company[a], s.company[a])
                               /\ Done(t, i)}
           J == [i \in 0..m |-> At(i)]
           Iter(g) == g = [t \in SUBSET DOMAIN seq |->
                            IF t = {} THEN s ELSE AgreementTick(g[t \ {Max(t)}], seq[Max(t)])]
<1>5. s \in At(0)
  BY <1>1 DEF Good, SameLoan
<1>6. ASSUME NEW i \in 1..m, NEW t \in V
      PROVE  /\ AgreementTick(t, seq[i]) \in V
             /\ t \in At(i - 1) => AgreementTick(t, seq[i]) \in At(i)
  <2>1. PICK u : u = AgreementTick(t, seq[i])
    OBVIOUS
  <2>2. PICK id \in D : id = seq[i]
    OBVIOUS
  <2>3. id \in DOMAIN t.agreements /\ Good(t, now)
    BY <1>6, <2>2
  <2>4. /\ Spares(t, u, now) /\ Turned(u, t, id)
        /\ Prompt(u.agreements[id], t.agreements[id])
    BY <2>1, <2>2, <2>3, AgreementTickDoes
  <2>5. u \in V
    BY <2>3, <2>4 DEF Spares, Turned, Good
  <2>6. ASSUME t \in At(i - 1) PROVE u \in At(i)
    <3>1. Worth(u) = Worth(s) /\ u.debt = s.debt
      BY <2>4, <2>6 DEF Spares, Turned
    <3>2. \A a \in Players : SameLoan(u.company[a], s.company[a])
      BY <2>4, <2>6 DEF Turned, SameLoan
    <3>3. Done(t, i - 1)
      BY <2>6
    <3>4. ASSUME NEW j \in 1..m
          PROVE  IF j <= i THEN Prompt(u.agreements[seq[j]], s.agreements[seq[j]])
                 ELSE u.agreements[seq[j]] = s.agreements[seq[j]]
      <4>1. CASE j = i
        <5>1. ~(j <= i - 1) /\ j <= i
          BY <4>1
        <5>2. t.agreements[seq[j]] = s.agreements[seq[j]]
          BY <3>3, <5>1
        <5> QED
          BY <2>2, <2>4, <4>1, <5>1, <5>2
      <4>2. CASE j # i
        <5>1. (j <= i) <=> (j <= i - 1)
          BY <4>2
        <5>2. seq[j] # seq[i] /\ seq[j] \in DOMAIN t.agreements
          BY <1>4, <1>6, <4>2
        <5>3. u.agreements[seq[j]] = t.agreements[seq[j]]
          BY <2>2, <2>4, <5>2 DEF Turned
        <5> QED
          BY <3>3, <5>1, <5>3
      <4> QED
        BY <4>1, <4>2
    <3>5. Done(u, i)
      BY <3>4
    <3> HIDE DEF Done, V
    <3> QED
      BY <2>5, <3>1, <3>2, <3>5
  <2> QED
    BY <2>1, <2>5, <2>6
<1>7. PICK W : W = V
  OBVIOUS
<1>8. PICK step \in [(1..m) \X W -> W] :
        \A i \in 1..m, t \in W : step[<<i, t>>] = AgreementTick(t, seq[i])
  <2>1. [p \in (1..m) \X W |-> AgreementTick(p[2], seq[p[1]])] \in [(1..m) \X W -> W]
    <3> HIDE DEF V
    <3> QED
      BY <1>6, <1>7
  <2> QED
    BY <2>1
<1>9. s \in W
  BY <1>5, <1>7
<1>10. PICK g \in [SUBSET (1..m) -> W] : Steps(g, m, s, step)
  BY <1>9, Iterates
<1>11. DOMAIN seq = 1..m
  OBVIOUS
<1>12. Iter(g)
  <2>1. ASSUME NEW t \in SUBSET (1..m), t # {}
        PROVE  g[t] = AgreementTick(g[t \ {Max(t)}], seq[Max(t)])
    <3>1. Max(t) \in 1..m
      BY <2>1, MaxExists
    <3> QED
      BY <1>8, <1>10, <2>1, <3>1 DEF Steps
  <2> QED
    BY <1>10, <1>11, <2>1 DEF Steps
<1>13. PICK it : it = CHOOSE h : Iter(h)
  OBVIOUS
<1>14. Iter(it)
  <2> HIDE DEF Iter
  <2> QED
    BY <1>12, <1>13
<1>15. r = it[1..m]
  <2>1. r = (CHOOSE h : Iter(h))[DOMAIN seq]
    BY <1>1, <1>3 DEF AgreementsTick, FoldLeft, MapThenFoldSet
  <2> QED
    BY <1>11, <1>13, <2>1
<1>16. it[1..m] \in J[m]
  <2> DEFINE next == [t \in SUBSET (1..m) |-> AgreementTick(it[t \ {Max(t)}], seq[Max(t)])]
  <2>1. \A t \in SUBSET (1..m) : it[t] = IF t = {} THEN s ELSE next[t]
    BY <1>11, <1>14
  <2>2. ASSUME NEW i \in 1..m, it[1..(i - 1)] \in J[i - 1] PROVE next[1..i] \in J[i]
    <3>1. PICK t : t = it[1..(i - 1)]
      OBVIOUS
    <3>2. i - 1 \in 0..m /\ i \in 0..m
      OBVIOUS
    <3>3. t \in At(i - 1)
      BY <2>2, <3>1, <3>2
    <3>4. next[1..i] = AgreementTick(t, seq[i])
      BY <3>1, MaxOfSegment
    <3>5. t \in V
      BY <3>3
    <3>6. AgreementTick(t, seq[i]) \in At(i)
      BY <1>6, <3>3, <3>5
    <3> HIDE DEF At, next
    <3> QED
      BY <3>2, <3>4, <3>6
  <2>3. s \in J[0]
    BY <1>5
  <2> HIDE DEF J, next
  <2> QED
    BY <2>1, <2>2, <2>3, Segments
<1>17. r \in At(m)
  <2>1. m \in 0..m
    OBVIOUS
  <2> HIDE DEF At
  <2> QED
    BY <1>15, <1>16, <2>1
<1>18. \A id \in D : Prompt(r.agreements[id], s.agreements[id])
  <2>1. Done(r, m)
    BY <1>17
  <2>2. \A j \in 1..m : Prompt(r.agreements[seq[j]], s.agreements[seq[j]])
    BY <2>1
  <2> QED
    BY <1>4, <2>2
<1> QED
  BY <1>1, <1>17, <1>18

\* The companies, in any order.
LEMMA CompaniesTickDo ==
  ASSUME NEW s, now \in Nat, Good(s, now),
         NEW r, r = CompaniesTick(s)
  PROVE  /\ Good(r, now) /\ Worth(r) = Worth(s) /\ r.agreements = s.agreements
         /\ \A a \in Players : r.debt[a].due = s.debt[a].due
         /\ \A a \in Players : Ahead(r.company[a], s.company[a], MaxCompanyPeriods)
<1> DEFINE V == {t \in Economy : Good(t, now)}
           At(P) == {t \in V :
                      /\ Worth(t) = Worth(s) /\ t.agreements = s.agreements
                      /\ \A a \in Players : t.debt[a].due = s.debt[a].due
                      /\ \A a \in P : Ahead(t.company[a], s.company[a], MaxCompanyPeriods)
                      /\ \A a \in Players \ P : t.company[a] = s.company[a]}
           J == [P \in SUBSET Players |-> At(P)]
           Pick(P) == CHOOSE a \in P : TRUE
           Iter(g) == g = [P \in SUBSET Players |->
                            IF P = {} THEN s ELSE CompanyTick(g[P \ {Pick(P)}], Pick(P))]
<1>1. s \in At({})
  BY DEF Good
<1>2. ASSUME NEW a \in Players, NEW t \in V
      PROVE  /\ CompanyTick(t, a) \in V
             /\ \A P \in SUBSET Players : a \in P /\ t \in At(P \ {a}) => CompanyTick(t, a) \in At(P)
  <2>1. PICK u : u = CompanyTick(t, a)
    OBVIOUS
  <2>2. /\ Does(t, u, a, now) /\ Collected(u, t, a)
        /\ Ahead(u.company[a], t.company[a], MaxCompanyPeriods)
    BY <1>2, <2>1, CompanyTickDoes
  <2>3. u \in V
    BY <2>2 DEF Does, Good
  <2>4. ASSUME NEW P \in SUBSET Players, a \in P, t \in At(P \ {a}) PROVE u \in At(P)
    <3>1. Worth(u) = Worth(s) /\ u.agreements = s.agreements
      BY <2>2, <2>4 DEF Does, Collected
    <3>2. \A b \in Players : u.debt[b].due = s.debt[b].due
      BY <2>2, <2>4 DEF Collected
    <3>3. \A b \in Players \ {a} : u.company[b] = t.company[b]
      BY <2>2 DEF Collected
    <3>4. t.company[a] = s.company[a]
      BY <2>4
    <3>5. \A b \in P : Ahead(u.company[b], s.company[b], MaxCompanyPeriods)
      BY <2>2, <2>4, <3>3, <3>4
    <3>6. \A b \in Players \ P : u.company[b] = s.company[b]
      BY <2>4, <3>3
    <3> QED
      BY <2>3, <3>1, <3>2, <3>5, <3>6
  <2> QED
    BY <2>1, <2>3, <2>4
<1>3. PICK W : W = V
  OBVIOUS
<1>4. PICK step \in [Players \X W -> W] : \A a \in Players, t \in W : step[<<a, t>>] = CompanyTick(t, a)
  <2>1. [p \in Players \X W |-> CompanyTick(p[2], p[1])] \in [Players \X W -> W]
    <3> HIDE DEF V
    <3> QED
      BY <1>2, <1>3
  <2> QED
    BY <2>1
<1>5. PICK pick : pick = Picked(Players)
  OBVIOUS
<1>6. \A P \in SUBSET Players : pick[P] = Pick(P) /\ (P # {} => pick[P] \in P)
  BY <1>5 DEF Picked
<1>7. PICK g \in [SUBSET Players -> W] : Folds(g, Players, pick, s, step)
  <2>1. s \in W
    BY <1>1, <1>3
  <2> HIDE DEF Pick
  <2> QED
    BY <1>6, <2>1, Numbers, FoldExists
<1>8. Iter(g)
  <2>1. ASSUME NEW P \in SUBSET Players, P # {}
        PROVE  g[P] = CompanyTick(g[P \ {Pick(P)}], Pick(P))
    <3>1. g[P] = step[<<Pick(P), g[P \ {Pick(P)}]>>]
      <4>1. g[P] = step[<<pick[P], g[P \ {pick[P]}]>>]
        BY <1>7, <2>1 DEF Folds
      <4>2. pick[P] = Pick(P)
        BY <1>6
      <4> HIDE DEF Pick
      <4> QED
        BY <4>1, <4>2
    <3>2. Pick(P) \in Players /\ g[P \ {Pick(P)}] \in W
      BY <1>6, <2>1
    <3> HIDE DEF Pick
    <3> QED
      BY <1>4, <3>1, <3>2
  <2>2. g[{}] = s
    BY <1>7 DEF Folds
  <2> HIDE DEF Pick
  <2> QED
    BY <2>1, <2>2
<1>9. PICK it : it = CHOOSE h : Iter(h)
  OBVIOUS
<1>10. Iter(it)
  <2> HIDE DEF Iter
  <2> QED
    BY <1>8, <1>9
<1>11. r = it[Players]
  BY <1>9 DEF CompaniesTick, FoldSet, MapThenFoldSet
<1>12. it[Players] \in J[Players]
  <2> DEFINE next == [P \in SUBSET Players |-> CompanyTick(it[P \ {Pick(P)}], Pick(P))]
  <2>1. \A P \in SUBSET Players : it[P] = IF P = {} THEN s ELSE next[P]
    BY <1>10
  <2>2. ASSUME NEW P \in SUBSET Players, P # {}, it[P \ {pick[P]}] \in J[P \ {pick[P]}]
        PROVE  next[P] \in J[P]
    <3>1. PICK a \in Players : a = pick[P] /\ a = Pick(P) /\ a \in P
      BY <1>6, <2>2
    <3>2. PICK t : t = it[P \ {a}]
      OBVIOUS
    <3>3. t \in At(P \ {a})
      BY <2>2, <3>1, <3>2
    <3>4. t \in V
      BY <3>3
    <3>5. CompanyTick(t, a) \in At(P)
      BY <1>2, <3>1, <3>3, <3>4
    <3>6. next[P] = CompanyTick(t, a)
      BY <3>1, <3>2
    <3> HIDE DEF At, next
    <3> QED
      BY <3>5, <3>6
  <2>3. s \in J[{}]
    BY <1>1
  <2>4. \A P \in SUBSET Players : P # {} => pick[P] \in P
    BY <1>6
  <2> HIDE DEF J, next
  <2>5. IsFiniteSet(Players)
    BY Numbers
  <2>6. \A P \in SUBSET Players :
          P # {} /\ it[P \ {pick[P]}] \in J[P \ {pick[P]}] => next[P] \in J[P]
    BY <2>2
  <2>7. Gathered(it, Players, pick, s, next)
    BY <2>1, <2>4 DEF Gathered
  <2> QED
    BY <2>3, <2>5, <2>6, <2>7, Gathers
<1>13. r \in At(Players)
  <2> HIDE DEF At
  <2> QED
    BY <1>11, <1>12
<1> QED
  BY <1>13

\* The debts, in any order.
LEMMA DebtsTickDo ==
  ASSUME NEW s, now \in Nat, Good(s, now),
         NEW r, r = DebtsTick(s)
  PROVE  /\ Good(r, now) /\ Worth(r) = Worth(s) /\ r.agreements = s.agreements
         /\ r.company = s.company
         /\ \A a \in Players : Ahead(r.debt[a], s.debt[a], MaxPeriods)
<1> DEFINE V == {t \in Economy : Good(t, now)}
           At(P) == {t \in V :
                      /\ Worth(t) = Worth(s) /\ t.agreements = s.agreements
                      /\ t.company = s.company
                      /\ \A a \in P : Ahead(t.debt[a], s.debt[a], MaxPeriods)
                      /\ \A a \in Players \ P : t.debt[a] = s.debt[a]}
           J == [P \in SUBSET Players |-> At(P)]
           Pick(P) == CHOOSE a \in P : TRUE
           Iter(g) == g = [P \in SUBSET Players |->
                            IF P = {} THEN s ELSE DebtTick(g[P \ {Pick(P)}], Pick(P))]
<1>1. s \in At({})
  BY DEF Good
<1>2. ASSUME NEW a \in Players, NEW t \in V
      PROVE  /\ DebtTick(t, a) \in V
             /\ \A P \in SUBSET Players : a \in P /\ t \in At(P \ {a}) => DebtTick(t, a) \in At(P)
  <2>1. PICK u : u = DebtTick(t, a)
    OBVIOUS
  <2>2. /\ Does(t, u, a, now) /\ Paid(u, t, a)
        /\ Ahead(u.debt[a], t.debt[a], MaxPeriods)
    BY <1>2, <2>1, DebtTickDoes
  <2>3. u \in V
    BY <2>2 DEF Does, Good
  <2>4. ASSUME NEW P \in SUBSET Players, a \in P, t \in At(P \ {a}) PROVE u \in At(P)
    <3>1. Worth(u) = Worth(s) /\ u.agreements = s.agreements
      BY <2>2, <2>4 DEF Does, Paid
    <3>2. u.company = s.company
      BY <2>2, <2>4 DEF Paid
    <3>3. \A b \in Players \ {a} : u.debt[b] = t.debt[b]
      BY <2>2 DEF Paid
    <3>4. t.debt[a] = s.debt[a]
      BY <2>4
    <3>5. \A b \in P : Ahead(u.debt[b], s.debt[b], MaxPeriods)
      BY <2>2, <2>4, <3>3, <3>4
    <3>6. \A b \in Players \ P : u.debt[b] = s.debt[b]
      BY <2>4, <3>3
    <3> QED
      BY <2>3, <3>1, <3>2, <3>5, <3>6
  <2> QED
    BY <2>1, <2>3, <2>4
<1>3. PICK W : W = V
  OBVIOUS
<1>4. PICK step \in [Players \X W -> W] : \A a \in Players, t \in W : step[<<a, t>>] = DebtTick(t, a)
  <2>1. [p \in Players \X W |-> DebtTick(p[2], p[1])] \in [Players \X W -> W]
    <3> HIDE DEF V
    <3> QED
      BY <1>2, <1>3
  <2> QED
    BY <2>1
<1>5. PICK pick : pick = Picked(Players)
  OBVIOUS
<1>6. \A P \in SUBSET Players : pick[P] = Pick(P) /\ (P # {} => pick[P] \in P)
  BY <1>5 DEF Picked
<1>7. PICK g \in [SUBSET Players -> W] : Folds(g, Players, pick, s, step)
  <2>1. s \in W
    BY <1>1, <1>3
  <2> HIDE DEF Pick
  <2> QED
    BY <1>6, <2>1, Numbers, FoldExists
<1>8. Iter(g)
  <2>1. ASSUME NEW P \in SUBSET Players, P # {}
        PROVE  g[P] = DebtTick(g[P \ {Pick(P)}], Pick(P))
    <3>1. g[P] = step[<<Pick(P), g[P \ {Pick(P)}]>>]
      <4>1. g[P] = step[<<pick[P], g[P \ {pick[P]}]>>]
        BY <1>7, <2>1 DEF Folds
      <4>2. pick[P] = Pick(P)
        BY <1>6
      <4> HIDE DEF Pick
      <4> QED
        BY <4>1, <4>2
    <3>2. Pick(P) \in Players /\ g[P \ {Pick(P)}] \in W
      BY <1>6, <2>1
    <3> HIDE DEF Pick
    <3> QED
      BY <1>4, <3>1, <3>2
  <2>2. g[{}] = s
    BY <1>7 DEF Folds
  <2> HIDE DEF Pick
  <2> QED
    BY <2>1, <2>2
<1>9. PICK it : it = CHOOSE h : Iter(h)
  OBVIOUS
<1>10. Iter(it)
  <2> HIDE DEF Iter
  <2> QED
    BY <1>8, <1>9
<1>11. r = it[Players]
  BY <1>9 DEF DebtsTick, FoldSet, MapThenFoldSet
<1>12. it[Players] \in J[Players]
  <2> DEFINE next == [P \in SUBSET Players |-> DebtTick(it[P \ {Pick(P)}], Pick(P))]
  <2>1. \A P \in SUBSET Players : it[P] = IF P = {} THEN s ELSE next[P]
    BY <1>10
  <2>2. ASSUME NEW P \in SUBSET Players, P # {}, it[P \ {pick[P]}] \in J[P \ {pick[P]}]
        PROVE  next[P] \in J[P]
    <3>1. PICK a \in Players : a = pick[P] /\ a = Pick(P) /\ a \in P
      BY <1>6, <2>2
    <3>2. PICK t : t = it[P \ {a}]
      OBVIOUS
    <3>3. t \in At(P \ {a})
      BY <2>2, <3>1, <3>2
    <3>4. t \in V
      BY <3>3
    <3>5. DebtTick(t, a) \in At(P)
      BY <1>2, <3>1, <3>3, <3>4
    <3>6. next[P] = DebtTick(t, a)
      BY <3>1, <3>2
    <3> HIDE DEF At, next
    <3> QED
      BY <3>5, <3>6
  <2>3. s \in J[{}]
    BY <1>1
  <2>4. \A P \in SUBSET Players : P # {} => pick[P] \in P
    BY <1>6
  <2> HIDE DEF J, next
  <2>5. IsFiniteSet(Players)
    BY Numbers
  <2>6. \A P \in SUBSET Players :
          P # {} /\ it[P \ {pick[P]}] \in J[P \ {pick[P]}] => next[P] \in J[P]
    BY <2>2
  <2>7. Gathered(it, Players, pick, s, next)
    BY <2>1, <2>4 DEF Gathered
  <2> QED
    BY <2>3, <2>5, <2>6, <2>7, Gathers
<1>13. r \in At(Players)
  <2> HIDE DEF At
  <2> QED
    BY <1>11, <1>12
<1> QED
  BY <1>13

\* All that a tick does to a good economy of the same time.
LEMMA TickedDoes ==
  ASSUME now \in Nat, Good(db, now), NEW F \in SUBSET Banks
  PROVE  /\ Good(Ticked(F), now) /\ Worth(Ticked(F)) = Worth(db)
         /\ \A a \in Players :
              /\ Ahead(Ticked(F).debt[a], db.debt[a], MaxPeriods)
              /\ Ahead(Ticked(F).company[a], db.company[a], MaxCompanyPeriods)
         /\ DOMAIN Ticked(F).agreements = DOMAIN db.agreements
         /\ \A id \in DOMAIN db.agreements :
              Prompt(Ticked(F).agreements[id], db.agreements[id])
<1>1. PICK s : s = BanksUpdated(db, F)
  OBVIOUS
<1>2. /\ Good(s, now) /\ Worth(s) = Worth(db)
      /\ s.debt = db.debt /\ s.company = db.company /\ s.agreements = db.agreements
  BY <1>1, BanksDo DEF Spares
<1>3. PICK t : t = AgreementsTick(s)
  OBVIOUS
<1>4. /\ Good(t, now) /\ Worth(t) = Worth(s) /\ t.debt = s.debt
      /\ \A a \in Players : SameLoan(t.company[a], s.company[a])
      /\ DOMAIN t.agreements = DOMAIN s.agreements
      /\ \A id \in DOMAIN s.agreements : Prompt(t.agreements[id], s.agreements[id])
  BY <1>2, <1>3, AgreementsTickDo
<1>5. PICK u : u = CompaniesTick(t)
  OBVIOUS
<1>6. /\ Good(u, now) /\ Worth(u) = Worth(t) /\ u.agreements = t.agreements
      /\ \A a \in Players : u.debt[a].due = t.debt[a].due
      /\ \A a \in Players : Ahead(u.company[a], t.company[a], MaxCompanyPeriods)
  BY <1>4, <1>5, CompaniesTickDo
<1>7. PICK v : v = DebtsTick(u)
  OBVIOUS
<1>8. /\ Good(v, now) /\ Worth(v) = Worth(u) /\ v.agreements = u.agreements
      /\ v.company = u.company
      /\ \A a \in Players : Ahead(v.debt[a], u.debt[a], MaxPeriods)
  BY <1>6, <1>7, DebtsTickDo
<1>9. Ticked(F) = v
  BY <1>1, <1>3, <1>5, <1>7 DEF Ticked
<1>10. ASSUME NEW a \in Players
       PROVE  /\ Ahead(v.debt[a], db.debt[a], MaxPeriods)
              /\ Ahead(v.company[a], db.company[a], MaxCompanyPeriods)
  <2>1. u.debt[a].due = db.debt[a].due
    BY <1>2, <1>4, <1>6
  <2>2. t.company[a].due = db.company[a].due
    BY <1>2, <1>4 DEF SameLoan
  <2> QED
    BY <1>6, <1>8, <2>1, <2>2 DEF Ahead
<1> QED
  BY <1>2, <1>4, <1>6, <1>8, <1>9, <1>10

-----------------------------------------------------------------------------
(* The calls, the saves and the invariant *)

\* A call takes its copies and waits for its save.
Called(a) ==
  /\ Idle
  /\ before' = db /\ caller' = a /\ phase' = "save" /\ calls' = calls + 1
  /\ UNCHANGED <<now, undone>>

\* The economy is good and as rich as at the start.  While a call waits for its
\* save the copies are good as well, and the call has closed no company but its
\* own: that is what makes a roll-back of one player's company harmless to
\* the partnerships of the others.
LendingInv ==
  /\ TypeOKCall /\ caller \in Players \cup {Tick}
  /\ Good(db, now)
  /\ phase = "save" => /\ Good(before, now)
                       /\ \A b \in Players \ {caller} :
                            caller # Tick /\ Runs(before, b) => Runs(db, b)
  /\ ~undone => Worth(db) = CashAtStart

\* Time and the number of calls.
LEMMA Clocks ==
  ASSUME TypeOKCall
  PROVE  now \in Nat /\ calls \in Nat
<1>1. Larger(1, MaxTime) \in Nat
  BY CallAssumption DEF Larger
<1> QED
  BY <1>1, CallAssumption DEF TypeOKCall

\* The calls of a player to the bank.
LEMMA BankCallsDo ==
  ASSUME LendingInv, NEW a \in Players, BankCalls(a)
  PROVE  Does(db, db', a, now) /\ Called(a)
<1>1. Good(db, now) /\ now \in Nat /\ calls \in Nat
  BY Clocks DEF LendingInv
<1>2. CASE \E b \in Banks : SelectBank(a, b)
  <2>1. PICK b \in Banks : SelectBank(a, b)
    BY <1>2
  <2> QED
    BY <1>1, <2>1, SelectBankDoes DEF SelectBank, Call, Called
<1>3. CASE \E m \in Amounts : Deposit(a, m) \/ WithdrawSavings(a, m) \/ Loan(a, m)
                              \/ Charge(a, m) \/ Repay(a, m)
  <2>1. PICK m \in Amounts : Deposit(a, m) \/ WithdrawSavings(a, m) \/ Loan(a, m)
                             \/ Charge(a, m) \/ Repay(a, m)
    BY <1>3
  <2>2. Does(db, db', a, now)
    BY <1>1, <2>1, DepositDoes, WithdrawSavingsDoes, LoanDoes, ChargeDoes, RepayDoes
  <2>3. Called(a)
    BY <2>1 DEF Deposit, WithdrawSavings, Loan, Charge, Repay, Call, Called
  <2> QED
    BY <2>2, <2>3
<1>4. CASE Bankruptcy(a)
  <2>1. Does(db, db', a, now)
    BY <1>1, <1>4, BankruptcyDoes
  <2>2. Called(a)
    BY <1>4 DEF Bankruptcy, Call, Called
  <2> QED
    BY <2>1, <2>2
<1> QED
  BY <1>2, <1>3, <1>4 DEF BankCalls

\* The calls of a player about the own company.
LEMMA CompanyCallsDo ==
  ASSUME LendingInv, NEW a \in Players, CompanyCalls(a)
  PROVE  Does(db, db', a, now) /\ Called(a)
<1>1. Good(db, now) /\ now \in Nat /\ calls \in Nat
  BY Clocks DEF LendingInv
<1>2. ASSUME Spares(db, db', now) PROVE Does(db, db', a, now)
  BY <1>2 DEF Spares, Does
<1>3. CASE StartBusiness(a)
  <2>1. Called(a)
    BY <1>3 DEF StartBusiness, Call, Called
  <2> QED
    BY <1>1, <1>2, <1>3, <2>1, StartBusinessDoes
<1>4. CASE Upgrade(a)
  <2>1. Called(a)
    BY <1>4 DEF Upgrade, Call, Called
  <2> QED
    BY <1>1, <1>2, <1>4, <2>1, UpgradeDoes
<1>5. CASE \E profit \in Profits : Operate(a, profit)
  <2>1. PICK profit \in Profits : Operate(a, profit)
    BY <1>5
  <2>2. Called(a)
    BY <2>1 DEF Operate, Call, Called
  <2> QED
    BY <1>1, <2>1, <2>2, OperateDoes
<1>6. CASE \E m \in Amounts : Fund(a, m) \/ Distribute(a, m) \/ CompanyBorrow(a, m)
                              \/ CompanyRepay(a, m)
  <2>1. PICK m \in Amounts : Fund(a, m) \/ Distribute(a, m) \/ CompanyBorrow(a, m)
                             \/ CompanyRepay(a, m)
    BY <1>6
  <2>2. Called(a)
    BY <2>1 DEF Fund, Distribute, CompanyBorrow, CompanyRepay, Call, Called
  <2>3. Spares(db, db', now)
    BY <1>1, <2>1, FundDoes, DistributeDoes, CompanyBorrowDoes, CompanyRepayDoes
  <2> QED
    BY <1>2, <2>2, <2>3
<1> QED
  BY <1>3, <1>4, <1>5, <1>6 DEF CompanyCalls

\* What one player offers another.
LEMMA OffersDo ==
  ASSUME LendingInv, NEW a \in Players, NEW b \in Players, Offers(a, b)
  PROVE  Does(db, db', a, now) /\ Called(a)
<1>1. Good(db, now) /\ now \in Nat /\ calls \in Nat
  BY Clocks DEF LendingInv
<1>2. ASSUME Spares(db, db', now) PROVE Does(db, db', a, now)
  BY <1>2 DEF Spares, Does
<1>3. PICK m \in Amounts :
        \/ Hire(a, b, m)
        \/ OfferPartnership(a, b, m)
        \/ \E r \in Amounts : OfferContract(a, b, m, r)
        \/ \E employs \in BOOLEAN, days \in Days : OfferAgreement(a, b, employs, m, days)
  BY DEF Offers
<1>4. CASE Hire(a, b, m)
  <2>1. Called(a)
    BY <1>4 DEF Hire, Call, Called
  <2> QED
    BY <1>1, <1>2, <1>4, <2>1, HireDoes
<1>5. CASE OfferPartnership(a, b, m)
  <2>1. Called(a)
    BY <1>5 DEF OfferPartnership, Call, Called
  <2> QED
    BY <1>1, <1>2, <1>5, <2>1, OfferPartnershipDoes
<1>6. CASE \E r \in Amounts : OfferContract(a, b, m, r)
  <2>1. PICK r \in Amounts : OfferContract(a, b, m, r)
    BY <1>6
  <2>2. Called(a)
    BY <2>1 DEF OfferContract, Call, Called
  <2> QED
    BY <1>1, <1>2, <2>1, <2>2, OfferContractDoes
<1>7. CASE \E employs \in BOOLEAN, days \in Days : OfferAgreement(a, b, employs, m, days)
  <2>1. PICK employs \in BOOLEAN, days \in Days : OfferAgreement(a, b, employs, m, days)
    BY <1>7
  <2>2. Called(a)
    BY <2>1 DEF OfferAgreement, Call, Called
  <2> QED
    BY <1>1, <1>2, <2>1, <2>2, OfferAgreementDoes
<1> QED
  BY <1>3, <1>4, <1>5, <1>6, <1>7

\* What a player answers.
LEMMA AnswersDo ==
  ASSUME LendingInv, NEW a \in Players, Answers(a)
  PROVE  Does(db, db', a, now) /\ Called(a)
<1>1. Good(db, now) /\ now \in Nat /\ calls \in Nat
  BY Clocks DEF LendingInv
<1>2. PICK id \in 1..MaxCalls :
        \/ AcceptPartnership(a, id) \/ Dissolve(a, id)
        \/ AcceptContract(a, id) \/ PayContract(a, id)
        \/ AcceptAgreement(a, id) \/ CancelAgreement(a, id)
  BY DEF Answers
<1>3. Spares(db, db', now)
  BY <1>1, <1>2, AcceptPartnershipDoes, DissolveDoes, AcceptContractDoes, PayContractDoes,
     AcceptAgreementDoes, CancelAgreementDoes
<1>4. Called(a)
  BY <1>2 DEF AcceptPartnership, Dissolve, AcceptContract, PayContract, AcceptAgreement,
              CancelAgreement, Call, Called
<1> QED
  BY <1>3, <1>4 DEF Spares, Does

\* A call of a player keeps the invariant.
LEMMA PlayerCalls ==
  ASSUME LendingInv, NEW a \in Players, Does(db, db', a, now), Called(a)
  PROVE  LendingInv' /\ caller' # Tick
<1>1. TypeOKCall' /\ caller' \in Players \cup {Tick} /\ caller' # Tick
  BY LendingAssumption, CallAssumption DEF LendingInv, TypeOKCall, Called, Idle
<1>2. Good(db, now)' /\ Good(before, now)'
  BY DEF LendingInv, Does, Called
<1>3. \A b \in Players \ {caller'} : Runs(before', b) => Runs(db', b)
  BY DEF Does, Called
<1>4. (~undone => Worth(db) = CashAtStart)'
  BY DEF LendingInv, Does, Called, CashAtStart
<1> QED
  BY <1>1, <1>2, <1>3, <1>4 DEF LendingInv

\* A tick keeps the invariant, and says what it made up for.
LEMMA TickKeeps ==
  ASSUME LendingInv, TickAll
  PROVE  LendingInv' /\ CaughtUp'
<1>1. Good(db, now) /\ now \in Nat /\ calls \in Nat
  BY Clocks DEF LendingInv
<1>2. PICK F \in SUBSET Banks : Idle /\ Call(Tick, Ticked(F))
  BY DEF TickAll
<1>3. /\ Good(db', now) /\ Worth(db') = Worth(db)
      /\ \A a \in Players :
           /\ Ahead(db'.debt[a], db.debt[a], MaxPeriods)
           /\ Ahead(db'.company[a], db.company[a], MaxCompanyPeriods)
      /\ DOMAIN db'.agreements = DOMAIN db.agreements
      /\ \A id \in DOMAIN db.agreements : Prompt(db'.agreements[id], db.agreements[id])
  <2>1. db' = Ticked(F)
    BY <1>2 DEF Call
  <2> QED
    BY <1>1, <2>1, TickedDoes
<1>4. Called(Tick)
  BY <1>2 DEF Call, Called
<1>5. TypeOKCall' /\ caller' \in Players \cup {Tick}
  BY <1>4, CallAssumption DEF LendingInv, TypeOKCall, Called, Idle
<1>6. LendingInv'
  BY <1>1, <1>3, <1>4, <1>5 DEF LendingInv, Called, CashAtStart
<1>7. CaughtUp'
  BY <1>3, <1>4 DEF CaughtUp, Called, Ahead, Prompt
<1> QED
  BY <1>6, <1>7

\* The start.
LEMMA InitKeeps ==
  ASSUME Init
  PROVE  LendingInv /\ CaughtUp
<1> DEFINE Start == [a \in Players |-> IF a \in Owners THEN Founded(InitialTill) ELSE NoCompany]
           Saved0 == [a \in Players |-> InitialSavings]
           Till0 == [a \in Players |-> IF a \in Owners THEN InitialTill ELSE 0]
           Bank0 == [a \in Players |-> CHOOSE b \in Banks : TRUE]
<1>1. /\ db = [wallet |-> InitialWallet, savings |-> Saved0,
               debt |-> [a \in Players |-> NoDebt], company |-> Start, bank |-> Bank0,
               frozen |-> [b \in Banks |-> 0], partnerships |-> <<>>, contracts |-> <<>>,
               agreements |-> <<>>, outside |-> 0, inherited |-> {}, bankrupt |-> {}]
      /\ now = 1 /\ phase = "idle" /\ caller = Tick /\ calls = 0 /\ undone = FALSE
  BY DEF Init, InitCall
<1>2. InitialTill \in Nat /\ InitialSavings \in Nat /\ InitialWallet \in [Players -> Nat]
  BY LendingAssumption
<1>3. Founded(InitialTill) = [level |-> 1, till |-> InitialTill, owed |-> 0, due |-> 0, missed |-> 0]
  <2>1. PICK c \in Company : c = NoCompany
    BY DEF NoCompany, Company
  <2>2. c.owed = 0 /\ c.due = 0 /\ c.missed = 0
    BY <2>1 DEF NoCompany
  <2>3. Founded(InitialTill) = [c EXCEPT !.level = 1, !.till = InitialTill]
    BY <2>1 DEF Founded
  <2> QED
    BY <2>2, <2>3 DEF Company
<1>4. ASSUME NEW a \in Players
      PROVE  CompanyFits(Start[a], 1) /\ Start[a].till = Till0[a] /\ Start[a] \in Company
  BY <1>2, <1>3, Numbers DEF CompanyFits, Company, NoCompany
<1>5. NoDebt \in Debt /\ \A a \in Players : DebtFits(NoDebt, a, {}, 1)
  BY Numbers DEF DebtFits, Debt, NoDebt
<1>6. Bank0 \in [Players -> Banks]
  BY LendingAssumption
<1>7. ASSUME NEW V PROVE <<>> \in Tables(V)
  <2>1. <<>> \in [{} -> V]
    OBVIOUS
  <2> QED
    BY <2>1 DEF Tables
<1>8. Saved0 \in [Players -> Nat] /\ Start \in [Players -> Company] /\ Till0 \in [Players -> Nat]
  BY <1>2, <1>4
<1>9. db \in Economy
  <2> HIDE DEF Saved0, Start, Bank0
  <2> QED
    BY <1>1, <1>2, <1>5, <1>6, <1>7, <1>8 DEF Economy
<1>10. Good(db, now)
  <2>1. \A b \in Banks : db.frozen[b] <= now + 1
    BY <1>1
  <2>2. \A a \in Players : DebtFits(db.debt[a], a, db.inherited, now) /\ CompanyFits(db.company[a], now)
    <3> HIDE DEF Start
    <3> QED
      BY <1>1, <1>4, <1>5
  <2>3. DOMAIN db.partnerships = {} /\ DOMAIN db.agreements = {}
    BY <1>1
  <2> QED
    BY <1>9, <2>1, <2>2, <2>3 DEF Good
<1>11. Worth(db) = CashAtStart
  <2>1. Tills(db) = Till0
    <3> HIDE DEF Start
    <3> QED
      BY <1>1, <1>4 DEF Tills
  <2>2. Total(Saved0) = Cardinality(Players) * InitialSavings
    BY <1>2, Numbers, TotalConstant
  <2>3. db.wallet = InitialWallet /\ db.savings = Saved0 /\ db.outside = 0
    BY <1>1
  <2>4. Worth(db) = Total(InitialWallet) + Total(Saved0) + Total(Till0) + 0
    BY <2>1, <2>3 DEF Worth
  <2>5. Worth(db) = Total(InitialWallet) + Total(Saved0) + Total(Till0)
    <3>1. Total(InitialWallet) \in Int /\ Total(Saved0) \in Int /\ Total(Till0) \in Int
      BY <1>9, <2>1, <2>3, WorthIs
    <3> HIDE DEF Saved0, Till0
    <3> QED
      BY <2>4, <3>1
  <2> HIDE DEF Saved0
  <2> QED
    BY <2>2, <2>5 DEF CashAtStart
<1>12. TypeOKCall /\ caller \in Players \cup {Tick}
  <2>1. MaxTime \in Nat /\ MaxCalls \in Nat
    BY CallAssumption
  <2>2. 1 \in 1..Larger(1, MaxTime) /\ 0 \in 0..MaxCalls
    BY <2>1 DEF Larger
  <2> QED
    BY <1>1, <2>2 DEF TypeOKCall
<1> QED
  BY <1>1, <1>10, <1>11, <1>12 DEF LendingInv, CaughtUp

\* A call of a player that is rolled back.
LEMMA PutBackIs ==
  ASSUME NEW s, NEW t, NEW n \in Nat, Good(s, n), Good(t, n), NEW a \in Players,
         \A b \in Players \ {a} : Runs(s, b) => Runs(t, b),
         NEW r, r = [s EXCEPT !.wallet = [t.wallet EXCEPT ![a] = s.wallet[a]],
                              !.company = [t.company EXCEPT ![a] = s.company[a]]]
  PROVE  Good(r, n)
<1>1. s \in Economy /\ t \in Economy
  BY DEF Good
<1>2. PICK w \in [Players -> Nat], c \in [Players -> Company] :
        w = [t.wallet EXCEPT ![a] = s.wallet[a]] /\ c = [t.company EXCEPT ![a] = s.company[a]]
  <2>1. [t.wallet EXCEPT ![a] = s.wallet[a]] \in [Players -> Nat]
    BY <1>1 DEF Economy
  <2>2. [t.company EXCEPT ![a] = s.company[a]] \in [Players -> Company]
    BY <1>1 DEF Economy
  <2> QED
    BY <2>1, <2>2
<1>3. r = [s EXCEPT !.wallet = w, !.company = c]
  BY <1>2
<1>4. /\ r \in Economy /\ r.company = c /\ r.frozen = s.frozen /\ r.debt = s.debt
      /\ r.inherited = s.inherited /\ r.bankrupt = s.bankrupt
      /\ r.partnerships = s.partnerships /\ r.agreements = s.agreements
  <2>1. r \in Economy
    BY <1>1, <1>3 DEF Economy
  <2> QED
    BY <1>1, <1>3, <2>1 DEF Economy
<1>5. c[a] = s.company[a] /\ \A b \in Players \ {a} : c[b] = t.company[b]
  BY <1>1, <1>2 DEF Economy
<1>6. \A b \in Players : CompanyFits(c[b], n)
  BY <1>5 DEF Good
<1>7. \A b \in Players : Runs(s, b) => Runs(r, b)
  BY <1>4, <1>5 DEF Runs
<1>8. \A id \in DOMAIN s.partnerships : s.partnerships[id].owner \in Players
  BY <1>1 DEF Economy, Tables, Partnership
<1>9. \A id \in DOMAIN r.partnerships : Runs(r, r.partnerships[id].owner)
  BY <1>4, <1>7, <1>8 DEF Good
<1> QED
  BY <1>4, <1>6, <1>9 DEF Good

\* A save that succeeds, is kept, or is rolled back.
LEMMA SaveKeeps ==
  ASSUME LendingInv, Save
  PROVE  LendingInv' /\ CaughtUp'
<1>1. /\ Good(db, now) /\ now \in Nat /\ calls \in Nat /\ phase = "save" /\ Good(before, now)
      /\ phase' = "idle" /\ caller' = Tick /\ now' = now /\ calls' = calls
  BY Clocks DEF LendingInv, Save, SaveSucceeds, TickNotSaved, ActionNotSaved, Saved, KeptUnsaved,
                PutBack, NotSaved, Return
<1>2. CASE SaveSucceeds \/ TickNotSaved
  <2>1. UNCHANGED <<db, undone>>
    BY <1>2 DEF SaveSucceeds, TickNotSaved, Saved, KeptUnsaved
  <2> QED
    BY <1>1, <2>1 DEF LendingInv, TypeOKCall, CaughtUp, CashAtStart
<1>3. CASE ActionNotSaved
  <2>1. /\ caller \in Players /\ undone' = TRUE
        /\ db' = [before EXCEPT
                   !.wallet = [db.wallet EXCEPT ![caller] = before.wallet[caller]],
                   !.company = [db.company EXCEPT ![caller] = before.company[caller]]]
    BY <1>3 DEF LendingInv, ActionNotSaved, PutBack, NotSaved
  <2>2. \A b \in Players \ {caller} : Runs(before, b) => Runs(db, b)
    BY <1>1, <2>1, LendingAssumption DEF LendingInv
  <2>3. Good(db', now)
    BY <1>1, <2>1, <2>2, PutBackIs
  <2> QED
    BY <1>1, <2>1, <2>3 DEF LendingInv, TypeOKCall, CaughtUp
<1> QED
  BY <1>2, <1>3 DEF Save

\* A day goes by.
LEMMA LaterKeeps ==
  ASSUME LendingInv, Later
  PROVE  LendingInv' /\ CaughtUp'
<1>1. /\ Good(db, now) /\ now \in Nat /\ now' = now + 1 /\ phase = "idle" /\ now < MaxTime
      /\ UNCHANGED <<db, phase, caller, before, calls, undone>>
  BY Clocks DEF LendingInv, Later
<1>2. Good(db', now')
  BY <1>1, Older
<1>3. now' \in 1..Larger(1, MaxTime)
  BY <1>1, CallAssumption DEF Larger
<1> QED
  BY <1>1, <1>2, <1>3 DEF LendingInv, TypeOKCall, CaughtUp, CashAtStart

\* The invariant, with what a tick has made up for.
LEMMA LendingInvariant == Spec => [](LendingInv /\ CaughtUp)
<1>1. Init => LendingInv /\ CaughtUp
  BY InitKeeps
<1>2. LendingInv /\ CaughtUp /\ [Next]_vars => (LendingInv /\ CaughtUp)'
  <2> SUFFICES ASSUME LendingInv, CaughtUp, [Next]_vars PROVE (LendingInv /\ CaughtUp)'
    OBVIOUS
  <2>1. ASSUME NEW a \in Players, Does(db, db', a, now) /\ Called(a)
        PROVE  (LendingInv /\ CaughtUp)'
    BY <2>1, PlayerCalls DEF CaughtUp
  <2>2. ASSUME NEW a \in Players, BankCalls(a) \/ CompanyCalls(a) \/ Answers(a)
        PROVE  (LendingInv /\ CaughtUp)'
    BY <2>1, <2>2, BankCallsDo, CompanyCallsDo, AnswersDo
  <2>3. ASSUME NEW a \in Players, NEW b \in Players, Offers(a, b)
        PROVE  (LendingInv /\ CaughtUp)'
    BY <2>1, <2>3, OffersDo
  <2>4. CASE TickAll
    BY <2>4, TickKeeps
  <2>5. CASE Save
    BY <2>5, SaveKeeps
  <2>6. CASE Later
    BY <2>6, LaterKeeps
  <2>7. CASE UNCHANGED vars
    BY <2>7 DEF vars, LendingInv, TypeOKCall, CaughtUp, Ahead, CashAtStart
  <2> QED
    BY <2>2, <2>3, <2>4, <2>5, <2>6, <2>7 DEF Next
<1> QED
  BY <1>1, <1>2, PTL DEF Spec

-----------------------------------------------------------------------------
(* The theorems *)

\* No wallet, savings account or till is ever overdrawn, and nobody is left
\* with as many missed payments as are dealt with: not after any call of
\* economy_game_action, any tick, and any roll-back of a save that failed.
THEOREM TypeCorrect == Spec => []TypeOK
<1>1. LendingInv => TypeOK
  <2> SUFFICES ASSUME LendingInv PROVE TypeOK
    OBVIOUS
  <2>1. db \in Economy /\ Good(db, now) /\ now \in Nat
    BY Clocks DEF LendingInv, Good
  <2>2. \A a \in Players : {db.debt[a].missed, db.company[a].missed} \subseteq 0..(MaxMissed - 1)
    <3> SUFFICES ASSUME NEW a \in Players
                 PROVE  {db.debt[a].missed, db.company[a].missed} \subseteq 0..(MaxMissed - 1)
      OBVIOUS
    <3>1. PICK x \in Nat, y \in Nat : /\ x = db.debt[a].missed /\ y = db.company[a].missed
                                      /\ x < MaxMissed /\ y < MaxMissed
      BY <2>1, Player DEF DebtFits, CompanyFits
    <3> QED
      BY <3>1, Numbers
  <2>3. db.frozen \in [Banks -> 0..(now + 1)]
    <3>1. \A b \in Banks : db.frozen[b] \in 0..(now + 1)
      BY <2>1 DEF Good, Economy
    <3> QED
      BY <2>1, <3>1 DEF Economy
  <2>4. /\ \A id \in DOMAIN db.partnerships : db.partnerships[id] \in Partnership
        /\ \A id \in DOMAIN db.contracts : db.contracts[id] \in Contract
        /\ \A id \in DOMAIN db.agreements : db.agreements[id] \in Agreement
    BY <2>1 DEF Economy, Tables
  <2>5. /\ {db.wallet, db.savings} \subseteq [Players -> Nat] /\ db.debt \in [Players -> Debt]
        /\ db.company \in [Players -> Company] /\ db.bank \in [Players -> Banks]
    BY <2>1 DEF Economy
  <2> QED
    BY <2>2, <2>3, <2>4, <2>5 DEF TypeOK, LendingInv
<1> QED
  BY <1>1, LendingInvariant, PTL

\* As long as nothing was put back, every instalment, seizure, liquidation,
\* buyout and bankruptcy only moves cash.
THEOREM CashOnlyMoves == Spec => []CashConserved
<1>1. LendingInv => CashConserved
  BY DEF LendingInv, CashConserved
<1> QED
  BY <1>1, LendingInvariant, PTL

\* A partnership never outlives the company of its owner, whichever way the
\* company ends and whatever is rolled back.
THEOREM PartnersHaveCompanies == Spec => []PartnerHasCompany
<1>1. LendingInv => PartnerHasCompany
  BY DEF LendingInv, Good, PartnerHasCompany
<1> QED
  BY <1>1, LendingInvariant, PTL

\* Every debt is dated and every date belongs to a debt, through all that the
\* calls, the ticks and the roll-backs make of them.
THEOREM DatesFollowDebts == Spec => []ScheduleFollowsDebt
<1>1. LendingInv => ScheduleFollowsDebt
  <2> SUFFICES ASSUME LendingInv PROVE ScheduleFollowsDebt
    OBVIOUS
  <2>1. Good(db, now) /\ now \in Nat
    BY Clocks DEF LendingInv
  <2>2. ASSUME NEW a \in Players
        PROVE  /\ {db.debt[a].due, db.company[a].due} \subseteq 0..(now + 1)
               /\ db.debt[a].owed = 0 => db.debt[a] = NoDebt
               /\ db.debt[a].owed > 0 /\ db.debt[a].due = 0 => a \in db.inherited
               /\ db.company[a].due = 0 <=> db.company[a].owed = 0
    BY <2>1, Player DEF DebtFits, CompanyFits
  <2>3. ASSUME NEW id \in DOMAIN db.agreements, db.agreements[id].active
        PROVE  /\ db.agreements[id].accepted
               /\ \/ db.agreements[id].left > 0
                  \/ {db.agreements[id].issuer, db.agreements[id].party} \cap db.bankrupt # {}
    BY <2>1, <2>3 DEF Good, AgreementFits
  <2> QED
    BY <2>2, <2>3 DEF ScheduleFollowsDebt
<1> QED
  BY <1>1, LendingInvariant, PTL

\* A tick, however late, leaves every debt, every company and every agreement
\* dated in the future, or as many payments further as its loop may make.
THEOREM TicksCatchUp == Spec => []CaughtUp
  BY LendingInvariant, PTL
=============================================================================
