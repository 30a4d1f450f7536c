------------------------- MODULE LendingProperties -------------------------
(***************************************************************************)
(* What the ledger of debts, companies and promises must keep straight.    *)
(***************************************************************************)
EXTENDS Lending

\* Shape of the state: no wallet, savings account or till is overdrawn, and a
\* player or a company that missed too many payments has been dealt with.
TypeOK ==
  /\ {db.wallet, db.savings} \subseteq [Players -> Nat]
  /\ db.debt \in [Players -> Debt] /\ db.company \in [Players -> Company]
  /\ \A a \in Players : {db.debt[a].missed, db.company[a].missed} \subseteq 0..(MaxMissed - 1)
  /\ db.bank \in [Players -> Banks] /\ db.frozen \in [Banks -> 0..(now + 1)]
  /\ \A id \in DOMAIN db.partnerships : db.partnerships[id] \in Partnership
  /\ \A id \in DOMAIN db.contracts : db.contracts[id] \in Contract
  /\ \A id \in DOMAIN db.agreements : db.agreements[id] \in Agreement
  /\ caller \in Players \cup {Tick}
  /\ TypeOKCall

Tills(s) == [a \in Players |-> s.company[a].till]
Worth(s) == Total(s.wallet) + Total(s.savings) + Total(Tills(s)) + s.outside

CashAtStart ==
  Total(InitialWallet) + Cardinality(Players) * InitialSavings
    + Total([a \in Players |-> IF a \in Owners THEN InitialTill ELSE 0])

\* As long as no failed call was put back, cash is only moved: between
\* wallets, savings, tills, the other players and the bank, through every
\* instalment, seizure, liquidation, buyout and bankruptcy.
CashConserved == ~undone => Worth(db) = CashAtStart

\* A partner has a company to be a partner in: liquidation by the tick,
\* collapse in an operation, bankruptcy of either side and a roll-back of any
\* of them leave no partnership, and no offer, of an owner without a company.
PartnerHasCompany ==
  \A id \in DOMAIN db.partnerships : Runs(db, db.partnerships[id].owner)

\* What is still to be paid has a date, and what is paid off has none: dates
\* are never further off than a day, a debt without one is the debt of a failed
\* company, which is not collected until its owner borrows again or pays, and
\* an active agreement has payments left, so that it ends by itself.  Only one
\* of a party that went bankrupt before it was accepted has none: it stays
\* active for good, one of the ten its parties may have.
ScheduleFollowsDebt ==
  /\ \A a \in Players :
       LET d == db.debt[a]
           c == db.company[a]
       IN /\ {d.due, c.due} \subseteq 0..(now + 1)
          /\ d.owed = 0 => d = NoDebt
          /\ d.owed > 0 /\ d.due = 0 => a \in db.inherited
          /\ c.due = 0 <=> c.owed = 0
  /\ \A id \in DOMAIN db.agreements :
       LET g == db.agreements[id]
       IN g.active => /\ g.accepted
                      /\ g.left > 0 \/ {g.issuer, g.party} \cap db.bankrupt # {}

Ahead(new, old, most) == new.owed = 0 \/ new.due = 0 \/ new.due > now \/ new.due = old.due + most

\* A tick that comes late, after calls that failed or were put back, makes up
\* for every payment it missed, up to its limit: afterwards each debt, each
\* company and each active agreement is dated in the future.
CaughtUp ==
  phase = "save" /\ caller = Tick =>
    /\ \A a \in Players :
         /\ Ahead(db.debt[a], before.debt[a], MaxPeriods)
         /\ Ahead(db.company[a], before.company[a], MaxCompanyPeriods)
    /\ \A id \in DOMAIN db.agreements :
         LET g == db.agreements[id]
         IN g.active /\ g.left > 0 =>
              \/ g.next > now
              \/ g.next = before.agreements[id].next + MaxAgreementPeriods
=============================================================================
