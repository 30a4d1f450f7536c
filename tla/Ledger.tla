------------------------------- MODULE Ledger -------------------------------
(***************************************************************************)
(* Accounts, and the government that lives off them: the calls of the      *)
(* extension's own interface (economy_get_player, economy_claim_daily,     *)
(* economy_work, economy_move_money, economy_transfer, economy_buy_item)   *)
(* with the calls stipend, crime, bail, taxes, welfare and election of     *)
(* economy_game_action, the counting of votes by economy_tick_all, and     *)
(* restarts, which read the economy back from disk.                        *)
(*                                                                         *)
(* The rest of the game shares these balances and the treasury: orders are *)
(* filled at the start of every call, and a tick takes rents, instalments  *)
(* and fees, settles auctions and pays the stimulus.  What it does to them *)
(* in one go is a move, and any move that leaves nobody below nothing may  *)
(* happen; its own rules are in OrderBook, Lending and Auction.            *)
(*                                                                         *)
(* An account exists once a call has named it.  Awards, odds and sentences *)
(* depend on job, degree and heat: here they are choices.                  *)
(***************************************************************************)
EXTENDS GameCall

CONSTANTS
  Players,        \* numbers: the code compares identifiers
  Nobody,         \* no mayor
  Starting,       \* balance of a new account
  InitialTreasury,
  WalletCap,      \* kMaximumTransaction
  Awards,         \* of a daily claim, of work, of a crime that succeeds
  Stipend,
  Fines,
  Sentences,
  BailCost,
  DebtDue,        \* 24 hours
  FilingFee,      \* 10000
  Welfare,        \* of each platform
  InitialWelfare, \* 2500
  PoorBelow,      \* 10000: who may have welfare
  BigTransfer,    \* 10000000: more only after
  MinWorks,       \* 10 times of work
  Cooldown,       \* of each kind of claim
  PollsOpen,      \* 24 hours
  Term,           \* 7 days
  MaxItems,       \* 4294967295: what a counter of items holds
  Amounts,        \* typed in
  Quantities,     \* typed in
  Moves           \* of the rest of the game

Balances == {"wallet", "checking", "savings", "hysa", "debt", "due"}
Kinds == {"daily", "work", "stipend", "crime", "welfare"}
Platforms == DOMAIN Welfare

ASSUME LedgerAssumption ==
  /\ {Starting, InitialTreasury, InitialWelfare, WalletCap, Stipend, BailCost, DebtDue, FilingFee, PoorBelow,
      BigTransfer, MinWorks, PollsOpen, Term, MaxItems} \subseteq Nat
  /\ Awards \cup Fines \subseteq Nat
  /\ Sentences \cup Amounts \cup Quantities \subseteq Nat \ {0}
  /\ Moves \subseteq [balance : [Players -> [Balances -> Int]], treasury : Int]
  /\ Welfare \in [Platforms -> Nat] /\ Cooldown \in [Kinds -> Nat]
  /\ Players \subseteq Nat /\ IsFiniteSet(Players) /\ Tick \notin Players /\ Nobody \notin Players
  /\ 0 < FilingFee /\ 0 < PollsOpen /\ 0 < BailCost

VARIABLES
  disk,  \* the economy as last saved
  game   \* is the call economy_game_action?

ledgerVars == <<vars, disk, game>>

\* due: when an instalment of the debt is next asked for, 0 for never.
Account == [wallet : Nat, checking : Nat, savings : Nat, hysa : Nat, debt : Nat, due : Nat,
            items : Nat, works : Nat, employed : BOOLEAN, jailed : Nat, last : [Kinds -> Nat],
            elsewhere : [Balances -> Int]]  \* history: what moves have added

NewAccount ==
  [wallet |-> Starting, checking |-> 0, savings |-> 0, hysa |-> 0, debt |-> 0, due |-> 0,
   items |-> 0, works |-> 0, employed |-> FALSE, jailed |-> 0, last |-> [k \in Kinds |-> 0],
   elsewhere |-> [b \in Balances |-> 0]]

-----------------------------------------------------------------------------
(* Parts of the calls *)

\* ensure_player
Opened(s, a) ==
  IF a \in DOMAIN s.account THEN s ELSE [s EXCEPT !.account = With(@, a, NewAccount)]

\* A call of the interface, and a call that goes through economy_game_action.
Do(a, s) == Call(a, s) /\ game' = FALSE /\ UNCHANGED disk
Play(a, s) == Call(a, s) /\ game' = TRUE /\ UNCHANGED disk

\* Mutated: the clock of the claim is not asked.
MayClaimAny(s, a, k) == TRUE

MayClaim(s, a, k) ==
  s.account[a].last[k] = 0 \/ now - s.account[a].last[k] >= Cooldown[k]

\* amount comes from outside; a negative one goes there.
Claimed(s, a, k, amount) ==
  [s EXCEPT !.account[a].wallet = @ + amount,
            !.account[a].last[k] = now,
            !.outside = @ - amount]

ToTreasury(s, a, amount) ==
  [s EXCEPT !.account[a].wallet = @ - amount, !.treasury = @ + amount]

\* need_cash
Covers(s, a, amount) == amount > 0 /\ s.account[a].wallet >= amount

Jailed(s, a) == s.account[a].jailed > now

\* The code compares before it takes, and the treasury issues what it lacks.
Fits(s, m) ==
  /\ \A a \in DOMAIN s.account, b \in Balances : s.account[a][b] + m.balance[a][b] >= 0
  /\ s.treasury + m.treasury >= 0

Shifted(r, c) ==
  [x \in DOMAIN r |-> IF x \in Balances THEN r[x] + c[x]
                      ELSE IF x = "elsewhere" THEN [b \in Balances |-> r.elsewhere[b] + c[b]]
                      ELSE r[x]]

Moved(s, m) ==
  [s EXCEPT !.account = [a \in DOMAIN @ |-> Shifted(@[a], m.balance[a])],
            !.treasury = @ + m.treasury,
            !.granted = @ + m.treasury]

-----------------------------------------------------------------------------
(* The interface of the extension *)

\* economy_get_player saves only if the account is new.
GetPlayer(a) == Idle /\ a \notin DOMAIN db.account /\ Do(a, Opened(db, a))

ClaimDaily(a, award) ==
  LET s == Opened(db, a)
  IN Idle /\ MayClaim(s, a, "daily") /\ Do(a, Claimed(s, a, "daily", award))

\* The daily review may cost the job that work brings.
Work(a, award, kept) ==
  LET s == Claimed(Opened(db, a), a, "work", award)
  IN /\ Idle
     /\ MayClaim(Opened(db, a), a, "work")
     /\ Do(a, [s EXCEPT !.account[a].works = @ + 1, !.account[a].employed = kept])

\* Mutated: a withdrawal is not compared with the checking account.
MoveMoneyOverdrawn(a, amount, deposit) ==
  LET s == Opened(db, a)
      moved == IF deposit THEN amount ELSE -amount
  IN /\ Idle
     /\ s.account[a].wallet >= moved
     /\ Do(a, [s EXCEPT !.account[a].wallet = @ - moved,
                        !.account[a].checking = @ + moved])

MoveMoney(a, amount, deposit) ==
  LET s == Opened(db, a)
      moved == IF deposit THEN amount ELSE -amount
      source == IF deposit THEN s.account[a].wallet ELSE s.account[a].checking
  IN /\ Idle
     /\ source >= amount
     /\ Do(a, [s EXCEPT !.account[a].wallet = @ - moved,
                        !.account[a].checking = @ + moved])

MoneyTransfer(a, b, amount) ==
  LET s == Opened(Opened(db, a), b)
  IN /\ Idle
     /\ a # b
     /\ amount <= BigTransfer \/ s.account[a].works >= MinWorks
     /\ s.account[a].wallet >= amount
     /\ s.account[b].wallet + amount <= WalletCap
     /\ Do(a, [s EXCEPT !.account[a].wallet = @ - amount,
                        !.account[b].wallet = @ + amount])

BuyItem(a, quantity, price) ==
  LET s == Opened(db, a)
  IN /\ Idle
     /\ s.account[a].wallet >= price * quantity
     /\ s.account[a].items + quantity <= MaxItems
     /\ Do(a, [s EXCEPT !.account[a].wallet = @ - price * quantity,
                        !.account[a].items = @ + quantity,
                        !.outside = @ + price * quantity])

-----------------------------------------------------------------------------
(* Calls of economy_game_action: each opens the account, brings the market *)
(* up to date and fills orders (s, see Plays) before it looks at the action *)

\* A refused call saves what has happened so far; a call of another part of
\* the game does all it does as a move.
OtherPlay(a, s) == s # disk /\ Play(a, s)

ClaimStipend(a, s) ==
  /\ ~Jailed(s, a) /\ MayClaim(s, a, "stipend")
  /\ Play(a, Claimed(s, a, "stipend", Stipend))

CrimePays(a, s, reward) ==
  /\ ~Jailed(s, a) /\ MayClaim(s, a, "crime")
  /\ Play(a, Claimed(s, a, "crime", reward))

\* The fine is collected from the wallet, then from the checking account, then
\* from the savings; what they do not cover becomes debt.
Fined(s, a, fine) ==
  LET r == s.account[a]
      fromWallet == Smaller(r.wallet, fine)
      fromChecking == Smaller(r.checking, fine - fromWallet)
      fromSavings == Smaller(r.savings, fine - fromWallet - fromChecking)
      paid == fromWallet + fromChecking + fromSavings
  IN [s EXCEPT !.account[a] =
                 [r EXCEPT !.wallet = @ - fromWallet,
                           !.checking = @ - fromChecking,
                           !.savings = @ - fromSavings,
                           !.debt = @ + fine - paid,
                           !.due = IF paid < fine /\ @ = 0 THEN now + DebtDue ELSE @],
               !.treasury = @ + paid]

\* Mutated: the treasury gets the whole fine.
CrimeFailsInFull(a, s, fine, sentence) ==
  LET fined == Fined([s EXCEPT !.account[a].last["crime"] = now], a, fine)
  IN /\ ~Jailed(s, a) /\ MayClaim(s, a, "crime")
     /\ Play(a, [fined EXCEPT !.account[a].jailed = now + sentence,
                              !.treasury = s.treasury + fine])

CrimeFails(a, s, fine, sentence) ==
  LET fined == Fined([s EXCEPT !.account[a].last["crime"] = now], a, fine)
  IN /\ ~Jailed(s, a) /\ MayClaim(s, a, "crime")
     /\ Play(a, [fined EXCEPT !.account[a].jailed = now + sentence])

Bail(a, s) ==
  /\ Jailed(s, a) /\ Covers(s, a, BailCost)
  /\ Play(a, [ToTreasury(s, a, BailCost) EXCEPT !.account[a].jailed = 0])

PayTaxes(a, s, amount) == Covers(s, a, amount) /\ Play(a, ToTreasury(s, a, amount))

Liquid(r) == r.wallet + r.checking + r.savings + r.hysa

ClaimWelfare(a, s) ==
  LET aid == Claimed(s, a, "welfare", 0)
  IN /\ ~Jailed(s, a) /\ ~s.account[a].employed
     /\ Liquid(s.account[a]) < PoorBelow
     /\ MayClaim(s, a, "welfare")
     /\ s.treasury >= s.welfare
     /\ Play(a, ToTreasury(aid, a, -s.welfare))

-----------------------------------------------------------------------------
(* Elections *)

Candidates(s) == {s.candidates[i].player : i \in DOMAIN s.candidates}

\* Mutated: a term does not keep an election from starting.
MayRunAnytime(s, a) == s.end = 0 \/ s.end > now

\* The polls are open, or no election and no term is under way.
MayRun(s, a) == IF s.end = 0 THEN s.term <= now ELSE s.end > now

Run(a, s, platform) ==
  /\ a \notin Candidates(s)
  /\ MayRun(s, a)
  /\ Covers(s, a, FilingFee)
  /\ Play(a, [ToTreasury(s, a, FilingFee) EXCEPT
       !.end = IF @ = 0 THEN now + PollsOpen ELSE @,
       !.candidates = Append(@, [player |-> a, platform |-> platform])])

Vote(a, s, b) ==
  /\ s.end > now
  /\ b \in Candidates(s)
  /\ Play(a, [s EXCEPT !.votes = With(@, a, b)])

VotesFor(s, a) == Cardinality({v \in DOMAIN s.votes : s.votes[v] = a})

Better(s, c, d) ==
  LET m == VotesFor(s, c.player)
      n == VotesFor(s, d.player)
  IN m > n \/ (m = n /\ c.player < d.player)

\* Candidate by candidate, in the order in which they filed.
Winner(s) ==
  FoldLeft(LAMBDA best, c : IF Better(s, c, best) THEN c ELSE best,
           Head(s.candidates), Tail(s.candidates))

\* Mutated: the votes stay for the next election.
CountedKeepsVotes(s) ==
  IF s.end = 0 \/ now < s.end THEN s
  ELSE [s EXCEPT !.mayor = Winner(s).player,
                 !.term = now + Term,
                 !.welfare = Welfare[Winner(s).platform],
                 !.end = 0, !.candidates = <<>>]

Counted(s) ==
  IF s.end = 0 \/ now < s.end THEN s
  ELSE [s EXCEPT !.mayor = Winner(s).player,
                 !.term = now + Term,
                 !.welfare = Welfare[Winner(s).platform],
                 !.end = 0, !.candidates = <<>>, !.votes = <<>>]

\* Whoever has served the sentence is free.
Released(s) ==
  [s EXCEPT !.account = [a \in DOMAIN @ |->
     IF @[a].jailed <= now THEN [@[a] EXCEPT !.jailed = 0] ELSE @[a]]]

\* A tick that changes nothing does not save.
TickAll ==
  \E m \in Moves :
    LET ticked == Released(Counted(Moved(db, m)))
    IN Idle /\ Fits(db, m) /\ ticked # db /\ Do(Tick, ticked)

-----------------------------------------------------------------------------
(* The save, and restarts *)

\* state_invariants_hold.
Savable ==
  \A a \in DOMAIN db.account :
    {db.account[a].wallet, db.account[a].checking} \subseteq 0..WalletCap

SaveSucceeds == Saved(Savable) /\ disk' = db /\ game' = FALSE

TickNotSaved == KeptUnsaved(Savable) /\ game' = FALSE /\ UNCHANGED disk

\* Mutated: only the record of the caller is put back.
CallNotSavedCallerOnly ==
  /\ ~game
  /\ PutBack(Savable, IF caller \in DOMAIN before.account
                      THEN [db EXCEPT !.account[caller] = before.account[caller],
                                      !.outside = before.outside] ELSE before)
  /\ UNCHANGED <<disk, game>>

\* The calls of the interface put back both accounts and remove new ones.
CallNotSaved ==
  /\ ~game
  /\ PutBack(Savable, before)
  /\ UNCHANGED <<disk, game>>

\* economy_game_action puts back what it copied after opening the account; the
\* other accounts whose orders it filled keep what they got.
PlayNotSaved ==
  /\ game
  /\ PutBack(Savable, [Opened(before, caller) EXCEPT !.account =
                          [a \in DOMAIN @ |-> IF a = caller THEN @[a] ELSE db.account[a]]])
  /\ game' = FALSE /\ UNCHANGED disk

\* The process ends, in a call or between two, and starts again.
Restart ==
  /\ db # disk \/ phase = "save"
  /\ db' = disk
  /\ game' = FALSE
  /\ Return
  /\ UNCHANGED <<disk, undone>>

Passes == Later /\ UNCHANGED <<disk, game>>

-----------------------------------------------------------------------------
Init ==
  /\ InitCall([account |-> <<>>,
               treasury |-> InitialTreasury,
               welfare |-> InitialWelfare,
               mayor |-> Nobody,
               term |-> 0,
               end |-> 0,
               candidates |-> <<>>,
               votes |-> <<>>,
               granted |-> 0,    \* history: what moves added to the treasury
               outside |-> 0])   \* history: cash gone
  /\ disk = db
  /\ game = FALSE

Interface(a) ==
  \/ GetPlayer(a)
  \/ \E m \in Awards : ClaimDaily(a, m) \/ \E kept \in BOOLEAN : Work(a, m, kept)
  \/ \E m \in Amounts :
       \/ \E deposit \in BOOLEAN : MoveMoney(a, m, deposit)
       \/ \E b \in Players : MoneyTransfer(a, b, m)
       \/ \E n \in Quantities : BuyItem(a, n, m)

Plays(a) ==
  \E m \in Moves :
    LET s == Moved(Opened(db, a), m)
    IN /\ Idle /\ Fits(Opened(db, a), m)
       /\ \/ OtherPlay(a, s) \/ ClaimStipend(a, s) \/ Bail(a, s) \/ ClaimWelfare(a, s)
          \/ \E r \in Awards : CrimePays(a, s, r)
          \/ \E f \in Fines, t \in Sentences : CrimeFails(a, s, f, t)
          \/ \E n \in Amounts : PayTaxes(a, s, n)
          \/ \E p \in Platforms : Run(a, s, p)
          \/ \E b \in Players : Vote(a, s, b)

Next ==
  \/ \E a \in Players : Interface(a) \/ Plays(a)
  \/ TickAll
  \/ SaveSucceeds \/ TickNotSaved \/ CallNotSaved \/ PlayNotSaved
  \/ Restart
  \/ Passes

Spec == Init /\ [][Next]_ledgerVars
=============================================================================
