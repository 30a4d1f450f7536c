------------------------------ MODULE Lending ------------------------------
(***************************************************************************)
(* What players of one server owe to the bank and to each other: the calls *)
(* bank, savings, loan, card, repay, bankruptcy, business, businessloan,   *)
(* partnership, payroll, contract and agreement of economy_game_action,    *)
(* and what economy_tick_all collects: failing banks, scheduled            *)
(* agreements, the instalments of companies, the instalments of players.   *)
(*                                                                         *)
(* The market, the credit score and the tax rate are left out: what they   *)
(* decide is always granted, the profit of a company is a choice, and cash *)
(* that players do not hold is counted as outside.  hysa is a second       *)
(* account under the code of savings.  Time is in days.                    *)
(***************************************************************************)
EXTENDS GameCall, Totals

CONSTANTS
  Players,
  Banks,
  Owners,         \* players with a company at the start
  InitialWallet,  \* of each player
  InitialTill,    \* of the companies at the start
  InitialSavings,
  StartCost,      \* 100000
  UpgradeCost,    \* 200000 for each level
  MaxLevel,       \* 5
  BankruptFrom,   \* 10000: least debt for bankruptcy
  Spared,         \* 5000: what bankruptcy leaves
  Insured,        \* 1000000: what a failing bank leaves
  MinPayment,     \* 500
  MinLateFee,     \* 250
  MinCompanyPayment,  \* 1000
  MinCompanyLateFee,  \* 500
  MaxPeriods,         \* 30: payments of a player one tick makes up for
  MaxCompanyPeriods,  \* 7
  MaxAgreementPeriods, \* 30
  MaxMissed,          \* 3
  MaxAgreements,      \* 10
  MaxContracts,       \* 20
  DebtLimit,
  CompanyLimit,
  Amounts,        \* typed in
  Days,           \* typed in, of an agreement
  Profits         \* of one operation of a company

ASSUME LendingAssumption ==
  /\ {InitialTill, InitialSavings, StartCost, UpgradeCost, MaxLevel,
      BankruptFrom, Spared, Insured, MinPayment, MinLateFee, MinCompanyPayment,
      MinCompanyLateFee, MaxPeriods, MaxCompanyPeriods, MaxAgreementPeriods,
      MaxMissed, MaxAgreements, MaxContracts, DebtLimit, CompanyLimit} \subseteq Nat
  /\ 0 < StartCost /\ 0 < MaxMissed /\ 0 < MinPayment /\ 0 < MinCompanyPayment
  /\ Amounts \cup Days \subseteq Nat \ {0} /\ Profits \subseteq Int
  /\ InitialWallet \in [Players -> Nat]
  /\ Owners \subseteq Players /\ Tick \notin Players
  /\ IsFiniteSet(Players) /\ Banks # {}

Debt == [owed : Nat, due : Nat, missed : Nat]
Company == [level : Nat, till : Nat, owed : Nat, due : Nat, missed : Nat]
Partnership == [owner : Players, partner : Players, paid : Nat, accepted : BOOLEAN]
Contract == [lender : Players, borrower : Players, principal : Nat,
             repayment : Nat, accepted : BOOLEAN, repaid : BOOLEAN]
Agreement == [issuer : Players, party : Players, employs : BOOLEAN, payment : Nat,
              left : Nat, next : Nat, accepted : BOOLEAN, active : BOOLEAN]

NoDebt == [owed |-> 0, due |-> 0, missed |-> 0]
NoCompany == [level |-> 0, till |-> 0, owed |-> 0, due |-> 0, missed |-> 0]
Founded(cash) == [NoCompany EXCEPT !.level = 1, !.till = cash]

-----------------------------------------------------------------------------
(* Parts of the calls *)

\* need_cash
Covers(s, a, amount) == amount > 0 /\ s.wallet[a] >= amount

\* amount goes to the bank or the market; a negative one comes from there.
Spend(s, a, amount) == [s EXCEPT !.wallet[a] = @ - amount, !.outside = @ + amount]

Runs(s, a) == s.company[a].level > 0

\* From the till of a company to the wallet of a player.
TillPays(s, o, a, amount) ==
  [s EXCEPT !.company[o].till = @ - amount, !.wallet[a] = @ + amount]

\* From one wallet to another.
Wired(w, a, b, amount) ==
  LET paid == [w EXCEPT ![a] = @ - amount] IN [paid EXCEPT ![b] = @ + amount]

WalletPays(s, a, b, amount) == [s EXCEPT !.wallet = Wired(@, a, b, amount)]

Frozen(s, a) == s.frozen[s.bank[a]] > now

\* A list for a loop of n turns.
Turns(n) == [k \in 1..n |-> k]

\* A first debt is due after a day.
Dated(due) == IF due = 0 THEN now + 1 ELSE due

\* Mutated: partnerships outlive their company.
ClosedWithPartners(s, a) == [s EXCEPT !.company[a] = NoCompany]

\* The company is gone, and with it every partnership and offer of its owner.
Closed(s, a) ==
  [s EXCEPT !.company[a] = NoCompany,
            !.partnerships = Restrict(@, {id \in DOMAIN @ : @[id].owner # a})]

\* What a failed company owes becomes debt of its owner, which gets no date.
Liquidated(s, a, deficit) ==
  [Closed(s, a) EXCEPT
    !.debt[a].owed = @ + s.company[a].owed + deficit,
    !.inherited = @ \cup {a},
    !.outside = @ + s.company[a].till]

-----------------------------------------------------------------------------
(* The bank *)

SelectBank(a, b) ==
  /\ Idle
  /\ db.frozen[b] <= now /\ db.bank[a] # b
  /\ Call(a, [db EXCEPT !.bank[a] = b])

Deposit(a, amount) ==
  /\ Idle
  /\ ~Frozen(db, a) /\ Covers(db, a, amount)
  /\ Call(a, [db EXCEPT !.wallet[a] = @ - amount, !.savings[a] = @ + amount])

WithdrawSavings(a, amount) ==
  /\ Idle
  /\ ~Frozen(db, a) /\ db.savings[a] >= amount
  /\ Call(a, [db EXCEPT !.savings[a] = @ - amount, !.wallet[a] = @ + amount])

\* Mutated: the date of the first payment is forgotten.
OwesUndated(s, a, amount) == [s EXCEPT !.debt[a].owed = @ + amount]

Borrowed(d, amount) == [d EXCEPT !.owed = @ + amount, !.due = Dated(@)]

Owes(s, a, amount) == [s EXCEPT !.debt[a] = Borrowed(@, amount)]

\* loan: the interest of a bank is a tenth.
Loan(a, amount) ==
  /\ Idle
  /\ ~Frozen(db, a) /\ db.debt[a].owed + amount <= DebtLimit
  /\ Call(a, Owes(Spend(db, a, -amount), a, amount + amount \div 10))

\* card charge: a hundredth comes back in cash.
Charge(a, amount) ==
  /\ Idle
  /\ db.debt[a].owed + amount <= DebtLimit
  /\ Call(a, Owes(Spend(db, a, -(amount + amount \div 100)), a, amount))

Minimum(owed) == Larger(MinPayment, owed \div 20)

\* A payment of the minimum or more moves the date on.
Repaid(d, paid) ==
  LET left == d.owed - paid
  IN IF left = 0 THEN NoDebt
     ELSE IF paid >= Minimum(left) THEN [owed |-> left, due |-> now + 1, missed |-> 0]
     ELSE [d EXCEPT !.owed = left]

Repay(a, amount) ==
  LET paid == Smaller(amount, db.debt[a].owed)
  IN /\ Idle
     /\ Covers(db, a, amount) /\ db.debt[a].owed > 0
     /\ Call(a, [Spend(db, a, paid) EXCEPT
          !.debt[a] = Repaid(@, paid),
          !.inherited = IF paid = db.debt[a].owed THEN @ \ {a} ELSE @])

\* What a bankruptcy leaves of an agreement.
Ended(g) == [g EXCEPT !.active = FALSE, !.left = 0]

Bankruptcy(a) ==
  LET left == Smaller(db.wallet[a], Spared)
      closed == Closed(db, a)
  IN /\ Idle
     /\ db.debt[a].owed >= BankruptFrom
     /\ Call(a, [closed EXCEPT
          !.debt[a] = NoDebt,
          !.savings[a] = 0,
          !.wallet[a] = left,
          !.outside = @ + db.savings[a] + db.company[a].till + db.wallet[a] - left,
          !.partnerships = Restrict(@, {id \in DOMAIN @ : @[id].partner # a}),
          !.agreements = [id \in DOMAIN @ |->
             IF a \in {@[id].issuer, @[id].party} THEN Ended(@[id]) ELSE @[id]],
          !.inherited = @ \ {a},
          !.bankrupt = @ \cup {a}])

-----------------------------------------------------------------------------
(* The company *)

StartBusiness(a) ==
  /\ Idle
  /\ ~Runs(db, a) /\ Covers(db, a, StartCost)
  /\ Call(a, [db EXCEPT !.wallet[a] = @ - StartCost,
                        !.company[a] = Founded(StartCost)])

PartnerOf(s, a) == {id \in DOMAIN s.partnerships :
                      s.partnerships[id].owner = a /\ s.partnerships[id].accepted}

\* The partner gets a share of what is in the till, here a fifth of the profit.
Shared(s, a, profit) ==
  IF profit <= 0 THEN s
  ELSE FoldLeft(LAMBDA t, id : TillPays(t, a, s.partnerships[id].partner,
                                        Smaller(t.company[a].till, profit \div 5)),
                s, InOrder(PartnerOf(s, a)))

Operate(a, profit) ==
  LET made == db.company[a].till + profit
  IN /\ Idle
     /\ Runs(db, a)
     /\ Call(a, IF made < 0 THEN Liquidated(db, a, -made)
                ELSE Shared([db EXCEPT !.outside = @ - profit, !.company[a].till = made],
                            a, profit))

Fund(a, amount) ==
  /\ Idle
  /\ Runs(db, a) /\ Covers(db, a, amount)
  /\ Call(a, TillPays(db, a, a, -amount))

\* business withdraw; taxes are a tenth.
Distribute(a, amount) ==
  /\ Idle
  /\ db.company[a].till >= amount
  /\ Call(a, Spend(TillPays(db, a, a, amount), a, amount \div 10))

Upgraded(c, cost) == [c EXCEPT !.till = @ - cost, !.level = @ + 1]

Upgrade(a) ==
  LET cost == UpgradeCost * db.company[a].level
  IN /\ Idle
     /\ Runs(db, a) /\ db.company[a].level < MaxLevel /\ db.company[a].till >= cost
     /\ Call(a, [db EXCEPT !.company[a] = Upgraded(@, cost), !.outside = @ + cost])

CompanyOwes(c, amount) ==
  [c EXCEPT !.till = @ + amount, !.owed = @ + amount + (amount * 8) \div 100, !.due = Dated(@)]

CompanyBorrow(a, amount) ==
  /\ Idle
  /\ Runs(db, a) /\ db.company[a].owed + amount <= CompanyLimit
  /\ Call(a, [db EXCEPT !.company[a] = CompanyOwes(@, amount), !.outside = @ - amount])

CompanyPaid(c, paid) == [c EXCEPT !.till = @ - paid, !.owed = @ - paid]

\* A loan that is paid back has no date.
Settled(c) == IF c.owed > 0 THEN c ELSE [c EXCEPT !.due = 0, !.missed = 0]

CompanyRepay(a, amount) ==
  LET c == db.company[a]
      paid == Smaller(amount, Smaller(c.owed, c.till))
  IN /\ Idle
     /\ c.owed > 0 /\ c.till > 0
     /\ Call(a, [db EXCEPT !.company[a] = Settled(CompanyPaid(@, paid)), !.outside = @ + paid])

Hire(a, b, amount) ==
  /\ Idle
  /\ Runs(db, a) /\ a # b /\ db.company[a].till >= amount
  /\ Call(a, TillPays(db, a, b, amount))

-----------------------------------------------------------------------------
(* Partnerships: one for each company, offered by its owner *)

OfferPartnership(a, b, amount) ==
  /\ Idle
  /\ Runs(db, a) /\ a # b
  /\ \A id \in DOMAIN db.partnerships : db.partnerships[id].owner # a
  /\ Call(a, [db EXCEPT
       !.partnerships = With(@, calls + 1,
          [owner |-> a, partner |-> b, paid |-> amount, accepted |-> FALSE])])

AcceptPartnership(b, id) ==
  LET p == db.partnerships[id]
  IN /\ Idle
     /\ id \in DOMAIN db.partnerships
     /\ p.partner = b /\ ~p.accepted
     /\ Covers(db, b, p.paid) /\ Runs(db, p.owner)
     /\ Call(b, [TillPays(db, p.owner, b, -p.paid) EXCEPT !.partnerships[id].accepted = TRUE])

\* Mutated: the buyout is not taken from the till.
DissolveUnfunded(a, id) ==
  LET p == db.partnerships[id]
  IN /\ Idle
     /\ id \in DOMAIN db.partnerships
     /\ p.owner = a /\ p.accepted /\ db.company[a].till >= p.paid
     /\ Call(a, [db EXCEPT !.wallet[p.partner] = @ + p.paid, !.partnerships = Without(@, id)])

Dissolve(a, id) ==
  LET p == db.partnerships[id]
  IN /\ Idle
     /\ id \in DOMAIN db.partnerships
     /\ p.owner = a /\ p.accepted /\ db.company[a].till >= p.paid
     /\ Call(a, [TillPays(db, a, p.partner, p.paid) EXCEPT !.partnerships = Without(@, id)])

-----------------------------------------------------------------------------
(* Contracts: one player lends to another *)

OpenContracts(a) ==
  {id \in DOMAIN db.contracts :
     a \in {db.contracts[id].lender, db.contracts[id].borrower} /\ ~db.contracts[id].repaid}

OfferContract(a, b, principal, repayment) ==
  /\ Idle
  /\ a # b /\ repayment >= principal /\ Covers(db, a, principal)
  /\ Cardinality(OpenContracts(a)) < MaxContracts
  /\ Call(a, [db EXCEPT
       !.contracts = With(@, calls + 1,
          [lender |-> a, borrower |-> b, principal |-> principal,
           repayment |-> repayment, accepted |-> FALSE, repaid |-> FALSE])])

\* Mutated: what the lender has left is not asked when the offer is accepted.
AcceptContractUnasked(b, id) ==
  LET c == db.contracts[id]
  IN /\ Idle
     /\ id \in DOMAIN db.contracts
     /\ c.borrower = b /\ ~c.accepted
     /\ Call(b, [WalletPays(db, c.lender, b, c.principal) EXCEPT
                  !.contracts[id].accepted = TRUE])

AcceptContract(b, id) ==
  LET c == db.contracts[id]
  IN /\ Idle
     /\ id \in DOMAIN db.contracts
     /\ c.borrower = b /\ ~c.accepted /\ db.wallet[c.lender] >= c.principal
     /\ Call(b, [WalletPays(db, c.lender, b, c.principal) EXCEPT
                  !.contracts[id].accepted = TRUE])

PayContract(b, id) ==
  LET c == db.contracts[id]
  IN /\ Idle
     /\ id \in DOMAIN db.contracts
     /\ c.borrower = b /\ c.accepted /\ ~c.repaid /\ db.wallet[b] >= c.repayment
     /\ Call(b, [WalletPays(db, b, c.lender, c.repayment) EXCEPT
                  !.contracts[id].repaid = TRUE])

-----------------------------------------------------------------------------
(* Agreements: an employer or a landlord offers daily payments *)

ActiveAgreements(a) ==
  {id \in DOMAIN db.agreements :
     a \in {db.agreements[id].issuer, db.agreements[id].party} /\ db.agreements[id].active}

\* Whether the landlord owns the home is left to Auction.
OfferAgreement(a, b, employs, payment, days) ==
  /\ Idle
  /\ a # b /\ (employs => Runs(db, a))
  /\ Cardinality(ActiveAgreements(a)) < MaxAgreements
  /\ Call(a, [db EXCEPT
       !.agreements = With(@, calls + 1,
          [issuer |-> a, party |-> b, employs |-> employs, payment |-> payment,
           left |-> days, next |-> 0, accepted |-> FALSE, active |-> FALSE])])

Accepted(g) == [g EXCEPT !.accepted = TRUE, !.active = TRUE, !.next = now + 1]

AcceptAgreement(b, id) ==
  /\ Idle
  /\ id \in DOMAIN db.agreements
  /\ db.agreements[id].party = b /\ ~db.agreements[id].accepted
  /\ Call(b, [db EXCEPT !.agreements[id] = Accepted(@)])

CancelAgreement(a, id) ==
  /\ Idle
  /\ id \in DOMAIN db.agreements
  /\ db.agreements[id].issuer = a /\ ~db.agreements[id].accepted
  /\ Call(a, [db EXCEPT !.agreements = Without(@, id)])

-----------------------------------------------------------------------------
(* economy_tick_all: the banks *)

\* The banks of F fail, each once since the last tick, and are frozen for a
\* day; what is not insured loses a tenth.  A frozen bank recovers when its
\* day is over.
BanksUpdated(s, F) ==
  LET loss == [a \in Players |->
                IF s.bank[a] \in F THEN Larger(0, s.savings[a] - Insured) \div 10 ELSE 0]
  IN [s EXCEPT
       !.frozen = [b \in Banks |-> IF b \in F THEN now + 1
                                   ELSE IF @[b] <= now THEN 0 ELSE @[b]],
       !.savings = [a \in Players |-> @[a] - loss[a]],
       !.outside = @ + Total(loss)]

-----------------------------------------------------------------------------
(* Agreements that are due *)

Affords(s, g) ==
  IF g.employs THEN Runs(s, g.issuer) /\ s.company[g.issuer].till >= g.payment
  ELSE s.wallet[g.party] >= g.payment

PaymentMade(g) ==
  LET paid == [g EXCEPT !.left = @ - 1, !.next = @ + 1]
  IN IF paid.left > 0 THEN paid ELSE [paid EXCEPT !.active = FALSE]

AgreementPaid(s, id) ==
  LET g == s.agreements[id]
      paid == IF g.employs THEN TillPays(s, g.issuer, g.party, g.payment)
              ELSE WalletPays(s, g.party, g.issuer, g.payment)
  IN [paid EXCEPT !.agreements[id] = PaymentMade(@)]

\* The agreement ends with its last payment, or with the first that fails.
AgreementTurn(s, id) ==
  IF ~s.agreements[id].active THEN s
  ELSE IF Affords(s, s.agreements[id]) THEN AgreementPaid(s, id)
  ELSE [s EXCEPT !.agreements[id].active = FALSE]

AgreementPeriods(g) ==
  IF g.active /\ g.accepted /\ g.next > 0 /\ now >= g.next
  THEN Smaller(g.left, Smaller(MaxAgreementPeriods, 1 + now - g.next)) ELSE 0

AgreementTick(s, id) ==
  FoldLeft(LAMBDA t, k : AgreementTurn(t, id), s, Turns(AgreementPeriods(s.agreements[id])))

-----------------------------------------------------------------------------
(* Instalments of a company *)

\* Interest, then a payment from the till; a late fee when it does not cover.
CompanyPayment(s, a) ==
  LET c == s.company[a]
      owed == c.owed + Larger(1, c.owed \div 5000)
      asked == Smaller(owed, Larger(MinCompanyPayment, owed \div 30))
      paid == Smaller(asked, c.till)
      left == owed - paid
      fee == IF paid = asked THEN 0 ELSE Larger(MinCompanyLateFee, left \div 100)
  IN [s EXCEPT
       !.company[a] = [level |-> c.level, till |-> c.till - paid, owed |-> left + fee,
                       due |-> c.due + 1, missed |-> IF paid = asked THEN 0 ELSE c.missed + 1],
       !.outside = @ + paid]

Periods(d, most) ==
  IF d.owed > 0 /\ d.due > 0 /\ now >= d.due THEN Smaller(most, 1 + now - d.due) ELSE 0

\* The third payment missed in a row ends the company.
CompanyTurn(s, a) ==
  LET t == CompanyPayment(s, a)
  IN IF s.company[a].owed = 0 THEN s
     ELSE IF t.company[a].missed >= MaxMissed THEN Liquidated(t, a, 0) ELSE t

CompanySettled(s, a) == [s EXCEPT !.company[a] = Settled(@)]

CompanyTick(s, a) ==
  CompanySettled(
    FoldLeft(LAMBDA t, k : CompanyTurn(t, a), s,
             Turns(Periods(s.company[a], MaxCompanyPeriods))), a)

-----------------------------------------------------------------------------
(* Instalments of a player *)

\* The third payment missed in a row seizes savings.
SavingsSeized(s, a) ==
  LET owed == s.debt[a].owed
      seized == Smaller(s.savings[a], Larger(MinPayment, owed \div 10))
  IN [s EXCEPT !.savings[a] = @ - seized,
               !.outside = @ + seized,
               !.debt[a] = [owed |-> owed - Smaller(owed, seized), due |-> s.debt[a].due,
                            missed |-> 0]]

\* Mutated: the date moves on only when the payment is covered.
PaymentDueAgain(s, a) ==
  LET d == s.debt[a]
      asked == Smaller(d.owed, Minimum(d.owed))
      paid == Smaller(asked, s.wallet[a])
      left == d.owed - paid
      t == [Spend(s, a, paid) EXCEPT
             !.debt[a] = IF paid = asked THEN [owed |-> left, due |-> d.due + 1, missed |-> 0]
                         ELSE [owed |-> left + Larger(MinLateFee, left \div 100),
                               due |-> d.due, missed |-> d.missed + 1]]
  IN IF t.debt[a].missed >= MaxMissed THEN SavingsSeized(t, a) ELSE t

\* One payment, here from the wallet alone.
Payment(s, a) ==
  LET d == s.debt[a]
      asked == Smaller(d.owed, Minimum(d.owed))
      paid == Smaller(asked, s.wallet[a])
      left == d.owed - paid
      fee == IF paid = asked THEN 0 ELSE Larger(MinLateFee, left \div 100)
      t == [Spend(s, a, paid) EXCEPT
             !.debt[a] = [owed |-> left + fee, due |-> d.due + 1,
                          missed |-> IF paid = asked THEN 0 ELSE d.missed + 1]]
  IN IF t.debt[a].missed >= MaxMissed THEN SavingsSeized(t, a) ELSE t

DebtTurn(s, a) == IF s.debt[a].owed = 0 THEN s ELSE Payment(s, a)

\* A debt that is paid back has no date.
DebtSettled(s, a) ==
  IF s.debt[a].owed > 0 THEN s
  ELSE [s EXCEPT !.debt[a] = NoDebt, !.inherited = @ \ {a}]

DebtTick(s, a) ==
  LET n == Periods(s.debt[a], MaxPeriods)
  IN IF n = 0 THEN s
     ELSE DebtSettled(FoldLeft(LAMBDA t, k : DebtTurn(t, a), s, Turns(n)), a)

\* One after the other: every agreement, every company, every player.
AgreementsTick(s) == FoldLeft(AgreementTick, s, InOrder(DOMAIN s.agreements))
CompaniesTick(s) == FoldSet(LAMBDA a, t : CompanyTick(t, a), s, Players)
DebtsTick(s) == FoldSet(LAMBDA a, t : DebtTick(t, a), s, Players)

Ticked(F) == DebtsTick(CompaniesTick(AgreementsTick(BanksUpdated(db, F))))

\* A tick that changes nothing does not save.
TickAll ==
  \E F \in SUBSET {b \in Banks : db.frozen[b] <= now} :
    Idle /\ Ticked(F) # db /\ Call(Tick, Ticked(F))

-----------------------------------------------------------------------------
(* The save *)

\* state_invariants_hold.
Savable ==
  \A a \in Players : {db.wallet[a], db.savings[a], db.debt[a].owed, db.company[a].till} \subseteq Nat

SaveSucceeds == Saved(Savable)

TickNotSaved == KeptUnsaved(Savable)

\* economy_game_action puts back the contracts, the agreements, the
\* partnerships and what is the caller's; the wallets and tills of the others
\* stay as they are.
ActionNotSaved ==
  PutBack(Savable, [before EXCEPT
    !.wallet = [db.wallet EXCEPT ![caller] = before.wallet[caller]],
    !.company = [db.company EXCEPT ![caller] = before.company[caller]]])

Save == SaveSucceeds \/ TickNotSaved \/ ActionNotSaved

-----------------------------------------------------------------------------
Init ==
  InitCall([wallet |-> InitialWallet,
            savings |-> [a \in Players |-> InitialSavings],
            debt |-> [a \in Players |-> NoDebt],
            company |-> [a \in Players |-> IF a \in Owners
                          THEN Founded(InitialTill) ELSE NoCompany],
            bank |-> [a \in Players |-> CHOOSE b \in Banks : TRUE],
            frozen |-> [b \in Banks |-> 0],
            partnerships |-> <<>>,
            contracts |-> <<>>,
            agreements |-> <<>>,
            outside |-> 0,       \* history: cash that is not with players
            inherited |-> {},    \* history: players with the debt of a company
            bankrupt |-> {}])    \* history

BankCalls(a) ==
  \/ \E b \in Banks : SelectBank(a, b)
  \/ \E m \in Amounts : Deposit(a, m) \/ WithdrawSavings(a, m) \/ Loan(a, m)
                        \/ Charge(a, m) \/ Repay(a, m)
  \/ Bankruptcy(a)

CompanyCalls(a) ==
  \/ StartBusiness(a) \/ Upgrade(a)
  \/ \E profit \in Profits : Operate(a, profit)
  \/ \E m \in Amounts : Fund(a, m) \/ Distribute(a, m) \/ CompanyBorrow(a, m) \/ CompanyRepay(a, m)

Offers(a, b) ==
  \E m \in Amounts :
    \/ Hire(a, b, m)
    \/ OfferPartnership(a, b, m)
    \/ \E r \in Amounts : OfferContract(a, b, m, r)
    \/ \E employs \in BOOLEAN, days \in Days : OfferAgreement(a, b, employs, m, days)

Answers(a) ==
  \E id \in 1..MaxCalls :
    \/ AcceptPartnership(a, id) \/ Dissolve(a, id)
    \/ AcceptContract(a, id) \/ PayContract(a, id)
    \/ AcceptAgreement(a, id) \/ CancelAgreement(a, id)

Next ==
  \/ \E a \in Players :
       \/ BankCalls(a) \/ CompanyCalls(a) \/ Answers(a)
       \/ \E b \in Players : Offers(a, b)
  \/ TickAll
  \/ Save
  \/ Later

Spec == Init /\ [][Next]_vars
=============================================================================
