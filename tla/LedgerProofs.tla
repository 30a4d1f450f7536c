---------------------------- MODULE LedgerProofs ----------------------------
(***************************************************************************)
(* Proofs about accounts and government for any players, amounts and       *)
(* cooldowns, and any saves that fail.  Every call of a player is shown to  *)
(* have one of few effects on money and to leave the election in order, and *)
(* what the rest of the game moves to have none that counts; what the disk *)
(* and the copies have to do with memory follows from that alone.          *)
(***************************************************************************)
EXTENDS LedgerProperties

Candidacy == [player : Players, platform : Platforms]

Tables(V) == UNION {[D -> V] : D \in SUBSET Players}

Economy ==
  [account : Tables(Account), treasury : Nat, granted : Int, welfare : Nat, mayor : Players \cup {Nobody},
   term : Nat, end : Nat, candidates : Seq(Candidacy), votes : Tables(Players), outside : Int]

W(r) == Net(r)["wallet"] + Net(r)["checking"] + Net(r)["savings"]

\* What a call may do to the one account it concerns, at the expense of the
\* treasury and of the outside.
Claims(p, r, dt, do, n) ==
  \E k \in Kinds :
    /\ p.last[k] = 0 \/ n - p.last[k] >= Cooldown[k]
    /\ r.last = [p.last EXCEPT ![k] = n]
    /\ \/ W(r) >= W(p) /\ dt = 0 /\ do = W(p) - W(r)
       \/ dt = W(p) - W(r) /\ do = 0

Pays(p, r, dt, do) ==
  /\ r.last = p.last
  /\ W(r) < W(p)
  /\ \/ dt = 0 /\ do = W(p) - W(r)
     \/ dt = W(p) - W(r) /\ do = 0

Rearranges(p, r, dt, do) == r.last = p.last /\ W(r) = W(p) /\ dt = 0 /\ do = 0

One(p, r, dt, do, n) == Claims(p, r, dt, do, n) \/ Pays(p, r, dt, do) \/ Rearranges(p, r, dt, do)

\* The same for all this module answers for; a tick may do no other thing.
Same(s, t) ==
  /\ NetTreasury(t) = NetTreasury(s) /\ t.outside = s.outside
  /\ \A a \in Players : Durable(t, a) = Durable(s, a)

Concerned(s, t, a, n) ==
  /\ \A x \in Players \ {a} : Durable(t, x) = Durable(s, x)
  /\ One(AccountOf(s, a), AccountOf(t, a), NetTreasury(t) - NetTreasury(s), t.outside - s.outside, n)

Transferred(s, t, a, b) ==
  LET p == AccountOf(s, a)
      q == AccountOf(s, b)
      P == AccountOf(t, a)
      Q == AccountOf(t, b)
  IN /\ a # b
     /\ \A x \in Players \ {a, b} : Durable(t, x) = Durable(s, x)
     /\ P.last = p.last /\ Q.last = q.last
     /\ W(P) < W(p) /\ W(Q) = W(q) + W(p) - W(P)
     /\ NetTreasury(t) = NetTreasury(s) /\ t.outside = s.outside

Effect(s, t, n) ==
  \/ \E a \in Players : Concerned(s, t, a, n)
  \/ \E a, b \in Players : Transferred(s, t, a, b)

Poll(s) == <<s.mayor, s.term, s.end, s.candidates, s.votes>>

\* No account but that of a is touched.
Alone(s, t, a) ==
  /\ DOMAIN t.account = DOMAIN s.account
  /\ \A x \in Players \ {a} : AccountOf(t, x) = AccountOf(s, x)

-----------------------------------------------------------------------------
\* A new account is an account.
LEMMA NewAccountShape == NewAccount \in Account
<1>1. [b \in Balances |-> 0] \in [Balances -> Int] /\ [k \in Kinds |-> 0] \in [Kinds -> Nat]
  OBVIOUS
<1>2. Starting \in Nat
  BY LedgerAssumption
<1>3. QED
  BY <1>1, <1>2 DEF NewAccount, Account

\* So is what the server owes anybody.
LEMMA AccountShape ==
  ASSUME NEW s \in Economy, NEW a \in Players
  PROVE  AccountOf(s, a) \in Account
  BY NewAccountShape DEF AccountOf, Economy, Tables

\* What an account is worth is a number.
LEMMA WorthIs ==
  ASSUME NEW p \in Account
  PROVE  /\ W(p) = p.wallet + p.checking + p.savings
                    - p.elsewhere["wallet"] - p.elsewhere["checking"] - p.elsewhere["savings"]
         /\ W(p) \in Int
  BY DEF W, Net, Balances, Account

\* Where nothing is moved, it changes with what the account holds.
LEMMA WorthBy ==
  ASSUME NEW p \in Account, NEW q \in Account, q.elsewhere = p.elsewhere
  PROVE  /\ W(p) \in Int /\ W(q) \in Int
         /\ W(q) = W(p) + (q.wallet - p.wallet) + (q.checking - p.checking) + (q.savings - p.savings)
<1>1. /\ p.elsewhere["wallet"] \in Int /\ p.elsewhere["checking"] \in Int
      /\ p.elsewhere["savings"] \in Int
  BY DEF Account, Balances
<1>2. /\ p.wallet \in Int /\ p.checking \in Int /\ p.savings \in Int
      /\ q.wallet \in Int /\ q.checking \in Int /\ q.savings \in Int
  BY DEF Account
<1>3. QED
  BY <1>1, <1>2, WorthIs

\* ensure_player opens an account and leaves what the server owes everybody.
LEMMA OpenedKeeps ==
  ASSUME NEW s \in Economy, NEW a \in Players
  PROVE  /\ Opened(s, a) \in Economy
         /\ a \in DOMAIN Opened(s, a).account
         /\ DOMAIN s.account \subseteq DOMAIN Opened(s, a).account
         /\ Opened(s, a) = [s EXCEPT !.account = Opened(s, a).account]
         /\ \A x \in Players : AccountOf(Opened(s, a), x) = AccountOf(s, x)
<1>1. PICK D \in SUBSET Players : s.account \in [D -> Account]
  BY DEF Economy, Tables
<1>2. CASE a \in DOMAIN s.account
  BY <1>1, <1>2 DEF Opened, Economy
<1>3. CASE a \notin DOMAIN s.account
  <2>1. PICK f : f = With(s.account, a, NewAccount)
    OBVIOUS
  <2>2. f = [x \in D \cup {a} |-> IF x = a THEN NewAccount ELSE s.account[x]]
    BY <1>1, <2>1 DEF With
  <2>3. f \in [D \cup {a} -> Account]
    BY <1>1, <2>2, NewAccountShape
  <2>4. f \in Tables(Account)
    BY <2>3 DEF Tables
  <2>5. Opened(s, a) = [s EXCEPT !.account = f]
    BY <1>3, <2>1 DEF Opened
  <2>6. Opened(s, a).account = f
    BY <2>5 DEF Economy
  <2>7. Opened(s, a) \in Economy
    BY <2>4, <2>5 DEF Economy
  <2>8. \A x \in Players : AccountOf(Opened(s, a), x) = AccountOf(s, x)
    BY <1>1, <2>2, <2>6, <1>3 DEF AccountOf
  <2>9. QED
    BY <1>1, <2>2, <2>5, <2>6, <2>7, <2>8
<1>4. QED
  BY <1>2, <1>3

\* A call that sets one account.
LEMMA AccountSet ==
  ASSUME NEW s \in Economy, NEW a \in DOMAIN s.account, NEW r \in Account,
         NEW t, t.account = [s.account EXCEPT ![a] = r]
  PROVE  /\ t.account \in Tables(Account)
         /\ a \in Players /\ DOMAIN t.account = DOMAIN s.account
         /\ AccountOf(s, a) = s.account[a] /\ AccountOf(t, a) = r
         /\ t.account[a] = r
         /\ \A x \in Players \ {a} : AccountOf(t, x) = AccountOf(s, x)
<1>1. PICK D \in SUBSET Players : s.account \in [D -> Account]
  BY DEF Economy, Tables
<1>2. t.account \in [D -> Account]
  BY <1>1
<1>3. QED
  BY <1>1, <1>2 DEF Tables, AccountOf

\* Being the same but for sentences is an equivalence.
LEMMA SameIsEquivalence ==
  /\ \A s : Same(s, s)
  /\ \A s, t : Same(s, t) => Same(t, s)
  /\ \A s, t, u : Same(s, t) /\ Same(t, u) => Same(s, u)
  BY DEF Same

\* Sentences, elections and moves are not money of these calls.
LEMMA DurableWorth ==
  ASSUME NEW s, NEW t, NEW a, Durable(t, a) = Durable(s, a)
  PROVE  /\ W(AccountOf(t, a)) = W(AccountOf(s, a))
         /\ AccountOf(t, a).last = AccountOf(s, a).last
<1>1. PICK p, q : p = AccountOf(s, a) /\ q = AccountOf(t, a)
  OBVIOUS
<1>2. <<Net(q), q.items, q.works, q.employed, q.last>> = <<Net(p), p.items, p.works, p.employed, p.last>>
  BY <1>1 DEF Durable
<1>3. Net(q) = Net(p) /\ q.last = p.last
  BY <1>2
<1>4. QED
  BY <1>1, <1>3 DEF W

\* To open an account is to leave everything the same.
LEMMA OpenedIsSame ==
  ASSUME NEW s \in Economy, NEW a \in Players
  PROVE  /\ Opened(s, a) \in Economy /\ Same(s, Opened(s, a)) /\ Poll(Opened(s, a)) = Poll(s)
<1>1. PICK t \in Economy : t = Opened(s, a)
  BY OpenedKeeps
<1>2. t = [s EXCEPT !.account = t.account] /\ \A x \in Players : AccountOf(t, x) = AccountOf(s, x)
  BY <1>1, OpenedKeeps
<1>3. t.treasury = s.treasury /\ t.granted = s.granted /\ t.outside = s.outside /\ Poll(t) = Poll(s)
  BY <1>2 DEF Economy, Poll
<1>4. QED
  BY <1>1, <1>2, <1>3 DEF Same, Durable, NetTreasury

\* An effect does not depend on what is not money.
LEMMA SameEffect ==
  ASSUME NEW s, NEW u, NEW t, NEW n, Same(s, u), Effect(u, t, n)
  PROVE  Effect(s, t, n)
<1>1. /\ NetTreasury(u) = NetTreasury(s) /\ u.outside = s.outside
      /\ \A x \in Players : Durable(u, x) = Durable(s, x)
  BY DEF Same
<1>2. \A x \in Players : /\ W(AccountOf(u, x)) = W(AccountOf(s, x))
                        /\ AccountOf(u, x).last = AccountOf(s, x).last
  BY <1>1, DurableWorth
<1>3. ASSUME NEW a \in Players, Concerned(u, t, a, n) PROVE Concerned(s, t, a, n)
  <2>1. PICK p, q, r, dt, do :
          /\ p = AccountOf(s, a) /\ q = AccountOf(u, a) /\ r = AccountOf(t, a)
          /\ dt = NetTreasury(t) - NetTreasury(s) /\ do = t.outside - s.outside
    OBVIOUS
  <2>2. W(q) = W(p) /\ q.last = p.last /\ One(q, r, dt, do, n)
    BY <1>1, <1>2, <1>3, <2>1 DEF Concerned
  <2>3. One(p, r, dt, do, n)
    BY <2>2 DEF One, Claims, Pays, Rearranges
  <2>4. QED
    BY <1>1, <1>3, <2>1, <2>3 DEF Concerned
<1>4. ASSUME NEW a \in Players, NEW b \in Players, Transferred(u, t, a, b)
      PROVE  Transferred(s, t, a, b)
  BY <1>1, <1>2, <1>4 DEF Transferred
<1>5. QED
  BY <1>3, <1>4 DEF Effect

\* A call that opens the account first does what it does without.
LEMMA OpenedEffect ==
  ASSUME NEW s \in Economy, NEW a \in Players, NEW t, Effect(Opened(s, a), t, now)
  PROVE  Effect(s, t, now)
  BY OpenedIsSame, SameEffect

-----------------------------------------------------------------------------
(* What the rest of the game moves *)

\* A move of an account adds to its balances what it notes.
LEMMA ShiftedIs ==
  ASSUME NEW r \in Account, NEW c \in [Balances -> Int],
         \A b \in Balances : r[b] + c[b] >= 0
  PROVE  /\ Shifted(r, c) \in Account /\ Net(Shifted(r, c)) = Net(r)
         /\ Shifted(r, c).items = r.items /\ Shifted(r, c).works = r.works
         /\ Shifted(r, c).employed = r.employed /\ Shifted(r, c).last = r.last
<1>1. PICK q : q = Shifted(r, c)
  OBVIOUS
<1>2. DOMAIN r = {"wallet", "checking", "savings", "hysa", "debt", "due", "items", "works",
                  "employed", "jailed", "last", "elsewhere"}
  BY DEF Account
<1>3. /\ q.wallet = r.wallet + c["wallet"] /\ q.checking = r.checking + c["checking"]
      /\ q.savings = r.savings + c["savings"] /\ q.hysa = r.hysa + c["hysa"]
      /\ q.debt = r.debt + c["debt"] /\ q.due = r.due + c["due"]
  BY <1>1 DEF Shifted, Account, Balances
<1>4. /\ q.items = r.items /\ q.works = r.works /\ q.employed = r.employed
      /\ q.jailed = r.jailed /\ q.last = r.last
      /\ q.elsewhere = [b \in Balances |-> r.elsewhere[b] + c[b]]
  BY <1>1 DEF Shifted, Account, Balances
<1>5. q \in Account
  BY <1>1 DEF Shifted, Account, Balances
<1>6. Net(q) = Net(r)
  BY <1>1 DEF Shifted, Net, Account, Balances
<1>7. QED
  BY <1>1, <1>4, <1>5, <1>6

\* A move that fits changes nothing this module answers for.
LEMMA MovedIs ==
  ASSUME NEW s \in Economy, NEW m \in Moves, Fits(s, m)
  PROVE  /\ Moved(s, m) \in Economy /\ Same(s, Moved(s, m)) /\ Poll(Moved(s, m)) = Poll(s)
         /\ DOMAIN Moved(s, m).account = DOMAIN s.account
<1>1. PICK D \in SUBSET Players : s.account \in [D -> Account]
  BY DEF Economy, Tables
<1>2. m.balance \in [Players -> [Balances -> Int]] /\ m.treasury \in Int
  BY LedgerAssumption
<1>3. PICK f : f = [a \in DOMAIN s.account |-> Shifted(s.account[a], m.balance[a])]
  OBVIOUS
<1>4. ASSUME NEW a \in D
      PROVE  /\ f[a] \in Account /\ Net(f[a]) = Net(s.account[a])
             /\ f[a].items = s.account[a].items /\ f[a].works = s.account[a].works
             /\ f[a].employed = s.account[a].employed /\ f[a].last = s.account[a].last
  <2>1. s.account[a] \in Account /\ m.balance[a] \in [Balances -> Int]
    BY <1>1, <1>2
  <2>2. \A b \in Balances : s.account[a][b] + m.balance[a][b] >= 0
    BY <1>1 DEF Fits
  <2>3. f[a] = Shifted(s.account[a], m.balance[a])
    BY <1>1, <1>3
  <2>4. QED
    BY <2>1, <2>2, <2>3, ShiftedIs
<1>5. f \in [D -> Account] /\ DOMAIN f = DOMAIN s.account
  BY <1>1, <1>3, <1>4
<1>6. f \in Tables(Account)
  BY <1>5 DEF Tables
<1>7. PICK t : t = Moved(s, m)
  OBVIOUS
<1>8. t = [s EXCEPT !.account = f, !.treasury = s.treasury + m.treasury,
                    !.granted = s.granted + m.treasury]
  BY <1>3, <1>7 DEF Moved, Economy
<1>9. s.treasury + m.treasury \in Nat /\ s.granted + m.treasury \in Int
  BY <1>2 DEF Fits, Economy
<1>10. /\ t \in Economy /\ t.account = f /\ Poll(t) = Poll(s) /\ t.outside = s.outside
       /\ t.treasury = s.treasury + m.treasury /\ t.granted = s.granted + m.treasury
  BY <1>6, <1>8, <1>9 DEF Economy, Poll
<1>11. NetTreasury(t) = NetTreasury(s)
  <2>1. s.treasury \in Int /\ s.granted \in Int
    BY DEF Economy
  <2>2. QED
    BY <1>2, <1>10, <2>1 DEF NetTreasury
<1>12. ASSUME NEW a \in Players PROVE Durable(t, a) = Durable(s, a)
  <2>1. CASE a \in D
    <3>1. AccountOf(t, a) = f[a] /\ AccountOf(s, a) = s.account[a]
      BY <1>1, <1>5, <1>10, <2>1 DEF AccountOf
    <3>2. QED
      BY <1>4, <2>1, <3>1 DEF Durable
  <2>2. CASE a \notin D
    BY <1>1, <1>5, <1>10, <2>2 DEF Durable, AccountOf
  <2>3. QED
    BY <2>1, <2>2
<1>13. QED
  BY <1>5, <1>7, <1>10, <1>11, <1>12 DEF Same

-----------------------------------------------------------------------------
(* What each call does *)

Does(s, t, n) == t \in Economy /\ Effect(s, t, n) /\ Poll(t) = Poll(s)

SetTo(s, a, r, tr, out) ==
  [s EXCEPT !.account = [s.account EXCEPT ![a] = r], !.treasury = tr, !.outside = out]

\* Money or a date of the account a, nothing of the election.
LEMMA Settles ==
  ASSUME NEW s \in Economy, NEW a \in DOMAIN s.account, NEW r \in Account,
         NEW tr \in Nat, NEW out \in Int,
         NEW t, t = SetTo(s, a, r, tr, out),
         One(s.account[a], r, tr - s.treasury, out - s.outside, now)
  PROVE  Does(s, t, now) /\ Alone(s, t, a)
<1>1. /\ t.account = [s.account EXCEPT ![a] = r] /\ t.treasury = tr /\ t.outside = out
      /\ t.granted = s.granted
  BY DEF SetTo, Economy
<1>2. /\ t.account \in Tables(Account) /\ a \in Players /\ DOMAIN t.account = DOMAIN s.account
      /\ AccountOf(s, a) = s.account[a] /\ AccountOf(t, a) = r
      /\ \A x \in Players \ {a} : AccountOf(t, x) = AccountOf(s, x)
  BY <1>1, AccountSet
<1>3. t \in Economy /\ Poll(t) = Poll(s)
  BY <1>2 DEF SetTo, Economy, Poll
<1>4. NetTreasury(t) - NetTreasury(s) = tr - s.treasury
  <2>1. s.treasury \in Int /\ s.granted \in Int
    BY DEF Economy
  <2>2. QED
    BY <1>1, <2>1 DEF NetTreasury
<1>5. \A x \in Players \ {a} : Durable(t, x) = Durable(s, x)
  BY <1>2 DEF Durable
<1>6. One(AccountOf(s, a), AccountOf(t, a), NetTreasury(t) - NetTreasury(s), t.outside - s.outside, now)
  BY <1>1, <1>2, <1>4
<1>7. Concerned(s, t, a, now)
  BY <1>5, <1>6 DEF Concerned
<1>8. QED
  BY <1>2, <1>3, <1>7 DEF Does, Effect, Alone

\* The same, with the election.
LEMMA OpenedDoes ==
  ASSUME NEW s \in Economy, NEW a \in Players, NEW t, Does(Opened(s, a), t, now)
  PROVE  Does(s, t, now)
<1>1. Poll(Opened(s, a)) = Poll(s)
  <2>1. PICK o : o = Opened(s, a)
    OBVIOUS
  <2>2. o = [s EXCEPT !.account = o.account]
    BY <2>1, OpenedKeeps
  <2>3. QED
    BY <2>1, <2>2 DEF Economy, Poll
<1>2. QED
  BY <1>1, OpenedEffect DEF Does

ClaimedAccount(p, k, m) ==
  [p EXCEPT !.wallet = p.wallet + m, !.last = [p.last EXCEPT ![k] = now]]

\* What a claim writes is one account and the outside.
LEMMA ClaimedIs ==
  ASSUME NEW s \in Economy, NEW a \in DOMAIN s.account, NEW k \in Kinds, NEW m \in Nat, now \in Nat
  PROVE  /\ ClaimedAccount(s.account[a], k, m) \in Account
         /\ Claimed(s, a, k, m) = SetTo(s, a, ClaimedAccount(s.account[a], k, m), s.treasury, s.outside - m)
<1>1. s.account[a] \in Account
  BY DEF Economy, Tables
<1>2. PICK r : r = ClaimedAccount(s.account[a], k, m)
  OBVIOUS
<1>3. r \in Account
  <2>1. s.account[a].wallet + m \in Nat /\ [s.account[a].last EXCEPT ![k] = now] \in [Kinds -> Nat]
    BY <1>1 DEF Account
  <2>2. r = [s.account[a] EXCEPT !.wallet = s.account[a].wallet + m,
                                 !.last = [s.account[a].last EXCEPT ![k] = now]]
    BY <1>2 DEF ClaimedAccount
  <2>3. QED
    BY <1>1, <2>1, <2>2 DEF Account
<1>4. Claimed(s, a, k, m) = SetTo(s, a, r, s.treasury, s.outside - m)
  BY <1>1, <1>2 DEF Account, Economy, SetTo, Claimed, ClaimedAccount
<1>5. QED
  BY <1>2, <1>3, <1>4

\* A claim within its clock is one by the book.
LEMMA ClaimsAre ==
  ASSUME NEW s \in Economy, NEW a \in DOMAIN s.account, NEW k \in Kinds, NEW m \in Nat, now \in Nat,
         MayClaim(s, a, k)
  PROVE  Claims(s.account[a], ClaimedAccount(s.account[a], k, m),
                s.treasury - s.treasury, (s.outside - m) - s.outside, now)
<1>1. s.account[a] \in Account
  BY DEF Economy, Tables
<1>2. PICK r \in Account : r = ClaimedAccount(s.account[a], k, m)
  BY ClaimedIs
<1>3. r.wallet = s.account[a].wallet + m /\ r.checking = s.account[a].checking
      /\ r.savings = s.account[a].savings /\ r.elsewhere = s.account[a].elsewhere
      /\ r.last = [s.account[a].last EXCEPT ![k] = now]
  BY <1>1, <1>2 DEF ClaimedAccount, Account
<1>4. s.account[a].wallet \in Int /\ s.account[a].checking \in Int
  BY <1>1 DEF Account
<1>5. s.treasury \in Int /\ s.outside \in Int
  BY DEF Economy
<1>6. W(r) >= W(s.account[a]) /\ (s.outside - m) - s.outside = W(s.account[a]) - W(r)
      /\ s.treasury - s.treasury = 0
  <2>1. /\ W(r) = W(s.account[a]) + (r.wallet - s.account[a].wallet)
                   + (r.checking - s.account[a].checking) + (r.savings - s.account[a].savings)
        /\ W(s.account[a]) \in Int
    BY <1>1, <1>3, WorthBy
  <2>2. s.account[a].savings \in Int
    BY <1>1 DEF Account
  <2>3. W(r) = W(s.account[a]) + m
    BY <1>3, <1>4, <2>1, <2>2
  <2>4. QED
    BY <1>5, <2>1, <2>3
<1>7. QED
  BY <1>2, <1>3, <1>6 DEF Claims, MayClaim

\* Every claim that passes its clock.
LEMMA ClaimDoes ==
  ASSUME NEW s \in Economy, NEW a \in DOMAIN s.account, NEW k \in Kinds, NEW m \in Nat, now \in Nat,
         MayClaim(s, a, k)
  PROVE  Does(s, Claimed(s, a, k, m), now) /\ Alone(s, Claimed(s, a, k, m), a)
<1>1. PICK r \in Account : r = ClaimedAccount(s.account[a], k, m)
  BY ClaimedIs
<1>2. PICK t : t = Claimed(s, a, k, m)
  OBVIOUS
<1>3. t = SetTo(s, a, r, s.treasury, s.outside - m)
  BY <1>1, <1>2, ClaimedIs
<1>4. Claims(s.account[a], r, s.treasury - s.treasury, (s.outside - m) - s.outside, now)
  BY <1>1, ClaimsAre
<1>5. s.treasury \in Nat /\ s.outside - m \in Int
  BY DEF Economy
<1>6. QED
  BY <1>2, <1>3, <1>4, <1>5, Settles DEF One

\* The claims of the code are claims of the book.
LEMMA KindsAre == {"daily", "work", "stipend", "crime", "welfare"} \subseteq Kinds
  BY DEF Kinds

\* economy_claim_daily.
LEMMA ClaimDailyDoes ==
  ASSUME db \in Economy, now \in Nat, NEW a \in Players, NEW m \in Awards, ClaimDaily(a, m)
  PROVE  Does(db, db', now)
<1>1. PICK s \in Economy : s = Opened(db, a) /\ a \in DOMAIN s.account
  BY OpenedKeeps
<1>2. MayClaim(s, a, "daily") /\ db' = Claimed(s, a, "daily", m)
  BY <1>1 DEF ClaimDaily, Do, Call
<1>3. m \in Nat
  BY LedgerAssumption
<1>4. Does(s, db', now)
  BY <1>1, <1>2, <1>3, KindsAre, ClaimDoes
<1>5. QED
  BY <1>1, <1>4, OpenedDoes

\* economy_work.
LEMMA WorkDoes ==
  ASSUME db \in Economy, now \in Nat, NEW a \in Players, NEW m \in Awards, NEW kept \in BOOLEAN,
         Work(a, m, kept)
  PROVE  Does(db, db', now)
<1>1. PICK s \in Economy : s = Opened(db, a) /\ a \in DOMAIN s.account
  BY OpenedKeeps
<1>2. PICK t : t = Claimed(s, a, "work", m)
  OBVIOUS
<1>3. MayClaim(s, a, "work")
      /\ db' = [t EXCEPT !.account[a].works = @ + 1, !.account[a].employed = kept]
  BY <1>1, <1>2 DEF Work, Do, Call
<1>4. m \in Nat
  BY LedgerAssumption
<1>5. PICK p \in Account : p = s.account[a]
  BY <1>1 DEF Economy, Tables
<1>6. PICK r \in Account : r = ClaimedAccount(p, "work", m)
  BY <1>1, <1>4, <1>5, KindsAre, ClaimedIs
<1>7. t = SetTo(s, a, r, s.treasury, s.outside - m)
  BY <1>1, <1>2, <1>4, <1>5, <1>6, KindsAre, ClaimedIs
<1>8. PICK q : q = [r EXCEPT !.works = r.works + 1, !.employed = kept]
  OBVIOUS
<1>9. /\ q \in Account /\ q.wallet = r.wallet /\ q.checking = r.checking /\ q.last = r.last
      /\ q.savings = r.savings /\ q.elsewhere = r.elsewhere
  <2>1. r.works + 1 \in Nat
    BY DEF Account
  <2>2. QED
    BY <1>8, <2>1 DEF Account
<1>10. db' = SetTo(s, a, q, s.treasury, s.outside - m)
  <2>1. t.account = [s.account EXCEPT ![a] = r]
    BY <1>7 DEF SetTo, Economy
  <2>2. t \in Economy
    BY <1>1, <1>2, <1>3, <1>4, KindsAre, ClaimDoes DEF Does
  <2>3. a \in DOMAIN t.account /\ t.account[a] = r
    BY <1>1, <2>1
  <2>4. db' = [t EXCEPT !.account = [t.account EXCEPT ![a] = q]]
    BY <1>3, <1>8, <2>2, <2>3 DEF Economy, Account
  <2>5. [t.account EXCEPT ![a] = q] = [s.account EXCEPT ![a] = q]
    BY <2>1
  <2>6. QED
    BY <1>7, <2>4, <2>5 DEF SetTo, Economy
<1>11. Claims(p, q, s.treasury - s.treasury, (s.outside - m) - s.outside, now)
  <2>1. Claims(p, r, s.treasury - s.treasury, (s.outside - m) - s.outside, now)
    BY <1>1, <1>3, <1>4, <1>5, <1>6, KindsAre, ClaimsAre
  <2>2. W(q) = W(r)
    BY <1>9, WorthBy DEF Account
  <2>3. QED
    BY <1>9, <2>1, <2>2 DEF Claims
<1>12. s.treasury \in Nat /\ s.outside - m \in Int
  BY <1>4 DEF Economy
<1>13. Does(s, db', now)
  BY <1>1, <1>5, <1>9, <1>10, <1>11, <1>12, Settles DEF One
<1>14. QED
  BY <1>1, <1>13, OpenedDoes

\* economy_move_money: nobody is richer for it.
LEMMA MoveMoneyDoes ==
  ASSUME db \in Economy, NEW a \in Players, NEW m \in Amounts, NEW deposit \in BOOLEAN,
         MoveMoney(a, m, deposit)
  PROVE  Does(db, db', now)
<1>1. PICK s \in Economy : s = Opened(db, a) /\ a \in DOMAIN s.account
  BY OpenedKeeps
<1>2. PICK moved : moved = IF deposit THEN m ELSE -m
  OBVIOUS
<1>3. m \in Nat /\ moved \in Int
  BY <1>2, LedgerAssumption
<1>4. PICK p \in Account : p = s.account[a]
  BY <1>1 DEF Economy, Tables
<1>5. p.wallet - moved \in Nat /\ p.checking + moved \in Nat
  BY <1>1, <1>2, <1>3, <1>4 DEF MoveMoney, Account
<1>6. PICK q : q = [p EXCEPT !.wallet = p.wallet - moved, !.checking = p.checking + moved]
  OBVIOUS
<1>7. q \in Account
  BY <1>5, <1>6 DEF Account
<1>8. db' = SetTo(s, a, q, s.treasury, s.outside)
  <2>1. db' = [s EXCEPT !.account[a].wallet = @ - moved, !.account[a].checking = @ + moved]
    BY <1>1, <1>2 DEF MoveMoney, Do, Call
  <2>2. a \in DOMAIN s.account
    BY <1>1
  <2>3. QED
    BY <1>4, <1>6, <2>1, <2>2 DEF SetTo, Economy, Account
<1>9. Rearranges(p, q, s.treasury - s.treasury, s.outside - s.outside)
  <2>1. /\ q.wallet = p.wallet - moved /\ q.checking = p.checking + moved /\ q.last = p.last
        /\ q.savings = p.savings /\ q.elsewhere = p.elsewhere
    BY <1>6 DEF Account
  <2>2. s.treasury - s.treasury = 0 /\ s.outside - s.outside = 0
    BY DEF Economy
  <2>3. W(q) = W(p)
    BY <1>3, <1>7, <2>1, WorthBy DEF Account
  <2>4. QED
    BY <2>1, <2>2, <2>3 DEF Rearranges
<1>10. s.treasury \in Nat /\ s.outside \in Int
  BY DEF Economy
<1>11. Does(s, db', now)
  BY <1>1, <1>4, <1>7, <1>8, <1>9, <1>10, Settles DEF One
<1>12. QED
  BY <1>1, <1>11, OpenedDoes

\* economy_buy_item.
LEMMA BuyItemDoes ==
  ASSUME db \in Economy, NEW a \in Players, NEW n \in Quantities, NEW m \in Amounts, BuyItem(a, n, m)
  PROVE  Does(db, db', now)
<1>1. PICK s \in Economy : s = Opened(db, a) /\ a \in DOMAIN s.account
  BY OpenedKeeps
<1>2. PICK c : c = m * n
  OBVIOUS
<1>3. c \in Nat /\ c > 0 /\ n \in Nat
  <2>1. m \in Nat /\ m > 0 /\ n \in Nat /\ n > 0
    BY LedgerAssumption
  <2>2. m * n \in Nat /\ m * n > 0
    BY <2>1
  <2>3. QED
    BY <1>2, <2>1, <2>2
<1>4. PICK p \in Account : p = s.account[a]
  BY <1>1 DEF Economy, Tables
<1>5. p.wallet - c \in Nat /\ p.items + n \in Nat
  BY <1>1, <1>2, <1>3, <1>4 DEF BuyItem, Account
<1>6. PICK q : q = [p EXCEPT !.wallet = p.wallet - c, !.items = p.items + n]
  OBVIOUS
<1>7. q \in Account
  BY <1>5, <1>6 DEF Account
<1>8. db' = SetTo(s, a, q, s.treasury, s.outside + c)
  <2>1. db' = [s EXCEPT !.account[a].wallet = @ - c, !.account[a].items = @ + n, !.outside = @ + c]
    BY <1>1, <1>2 DEF BuyItem, Do, Call
  <2>2. PICK h : h = [s EXCEPT !.account[a].wallet = @ - c, !.account[a].items = @ + n]
    OBVIOUS
  <2>3. h = [s EXCEPT !.account = [s.account EXCEPT ![a] = q]]
    <3>1. a \in DOMAIN s.account
      BY <1>1
    <3>2. QED
      BY <1>4, <1>6, <2>2, <3>1 DEF Economy, Account
  <2>4. db' = [h EXCEPT !.outside = @ + c]
    BY <2>1, <2>2
  <2>5. QED
    BY <2>3, <2>4 DEF SetTo, Economy
<1>9. Pays(p, q, s.treasury - s.treasury, (s.outside + c) - s.outside)
  <2>1. /\ q.wallet = p.wallet - c /\ q.checking = p.checking /\ q.last = p.last
        /\ q.savings = p.savings /\ q.elsewhere = p.elsewhere
    BY <1>6 DEF Account
  <2>2. s.treasury - s.treasury = 0 /\ (s.outside + c) - s.outside = c
    BY <1>3 DEF Economy
  <2>3. W(q) < W(p) /\ c = W(p) - W(q)
    BY <1>3, <1>7, <2>1, WorthBy DEF Account
  <2>4. QED
    BY <2>1, <2>2, <2>3 DEF Pays
<1>10. s.treasury \in Nat /\ s.outside + c \in Int
  BY <1>3 DEF Economy
<1>11. Does(s, db', now)
  BY <1>1, <1>4, <1>7, <1>8, <1>9, <1>10, Settles DEF One
<1>12. QED
  BY <1>1, <1>11, OpenedDoes

\* A call may leave everything as it was.
LEMMA NothingDone ==
  ASSUME NEW s \in Economy, NEW a \in Players
  PROVE  Does(s, s, now) /\ Alone(s, s, a)
<1>1. NetTreasury(s) - NetTreasury(s) = 0 /\ s.outside - s.outside = 0
  BY DEF Economy, NetTreasury
<1>2. Concerned(s, s, a, now)
  BY <1>1 DEF Concerned, One, Rearranges
<1>3. QED
  BY <1>2 DEF Does, Effect, Alone

\* economy_get_player opens the account.
LEMMA GetPlayerDoes ==
  ASSUME db \in Economy, NEW a \in Players, GetPlayer(a)
  PROVE  Does(db, db', now)
<1>1. PICK s \in Economy : s = Opened(db, a)
  BY OpenedKeeps
<1>2. db' = s
  BY <1>1 DEF GetPlayer, Do, Call
<1>3. QED
  BY <1>1, <1>2, NothingDone, OpenedDoes

\* economy_transfer: one pays, the other gets as much.
LEMMA MoneyTransferDoes ==
  ASSUME db \in Economy, NEW a \in Players, NEW b \in Players, NEW m \in Amounts,
         MoneyTransfer(a, b, m)
  PROVE  Does(db, db', now)
<1>1. PICK o \in Economy : o = Opened(db, a) /\ a \in DOMAIN o.account
  BY OpenedKeeps
<1>2. PICK s \in Economy : s = Opened(o, b) /\ b \in DOMAIN s.account
                          /\ DOMAIN o.account \subseteq DOMAIN s.account
  BY OpenedKeeps
<1>3. a \in DOMAIN s.account /\ m \in Nat /\ m > 0 /\ a # b
  BY <1>1, <1>2, LedgerAssumption DEF MoneyTransfer
<1>4. PICK p \in Account : p = s.account[a]
  BY <1>3 DEF Economy, Tables
<1>5. PICK q \in Account : q = s.account[b]
  BY <1>2 DEF Economy, Tables
<1>6. p.wallet - m \in Nat /\ q.wallet + m \in Nat
  BY <1>1, <1>2, <1>3, <1>4 DEF MoneyTransfer, Account
<1>7. PICK P : P = [p EXCEPT !.wallet = p.wallet - m]
  OBVIOUS
<1>8. PICK Q : Q = [q EXCEPT !.wallet = q.wallet + m]
  OBVIOUS
<1>9. P \in Account /\ Q \in Account
  BY <1>6, <1>7, <1>8 DEF Account
<1>10. PICK f : f = [s.account EXCEPT ![a] = P, ![b] = Q]
  OBVIOUS
<1>11. db' = [s EXCEPT !.account = f]
  <2>1. db' = [s EXCEPT !.account[a].wallet = @ - m, !.account[b].wallet = @ + m]
    BY <1>1, <1>2 DEF MoneyTransfer, Do, Call
  <2>2. b \in DOMAIN s.account
    BY <1>2
  <2>3. QED
    BY <1>3, <1>4, <1>5, <1>7, <1>8, <1>10, <2>1, <2>2 DEF Economy, Account
<1>12. db'.account = f
  BY <1>11 DEF Economy
<1>13. PICK D \in SUBSET Players : s.account \in [D -> Account]
  BY DEF Economy, Tables
<1>14. b \in DOMAIN s.account
  BY <1>2
<1>15. f \in [D -> Account] /\ a \in D /\ b \in D
  BY <1>3, <1>9, <1>10, <1>13, <1>14
<1>16. /\ AccountOf(s, a) = p /\ AccountOf(s, b) = q
       /\ AccountOf(db', a) = P /\ AccountOf(db', b) = Q
       /\ \A x \in Players \ {a, b} : AccountOf(db', x) = AccountOf(s, x)
  BY <1>3, <1>4, <1>5, <1>10, <1>12, <1>13, <1>15 DEF AccountOf
<1>17. /\ db' \in Economy /\ Poll(db') = Poll(s) /\ db'.treasury = s.treasury
       /\ db'.granted = s.granted /\ db'.outside = s.outside
  <2>1. f \in Tables(Account)
    BY <1>15 DEF Tables
  <2>2. QED
    BY <1>11, <2>1 DEF Economy, Poll
<1>18. Transferred(s, db', a, b)
  <2>1. /\ P.last = p.last /\ Q.last = q.last /\ P.wallet = p.wallet - m /\ Q.wallet = q.wallet + m
        /\ P.checking = p.checking /\ Q.checking = q.checking
        /\ P.savings = p.savings /\ Q.savings = q.savings
        /\ P.elsewhere = p.elsewhere /\ Q.elsewhere = q.elsewhere
    BY <1>7, <1>8 DEF Account
  <2>2. W(P) = W(p) - m /\ W(p) \in Int
    BY <1>3, <1>9, <2>1, WorthBy DEF Account
  <2>3. W(Q) = W(q) + m /\ W(q) \in Int
    BY <1>3, <1>9, <2>1, WorthBy DEF Account
  <2>4. W(P) < W(p) /\ W(Q) = W(q) + W(p) - W(P)
    BY <1>3, <2>2, <2>3
  <2>5. NetTreasury(db') = NetTreasury(s)
    BY <1>17 DEF NetTreasury
  <2>6. \A x \in Players \ {a, b} : Durable(db', x) = Durable(s, x)
    BY <1>16 DEF Durable
  <2>7. QED
    BY <1>3, <1>16, <1>17, <2>1, <2>4, <2>5, <2>6 DEF Transferred
<1>19. Does(s, db', now)
  BY <1>17, <1>18 DEF Does, Effect
<1>20. Does(o, db', now)
  BY <1>2, <1>19, OpenedDoes
<1>21. QED
  BY <1>1, <1>20, OpenedDoes

\* The stipend, and a crime that succeeds.
LEMMA ClaimStipendDoes ==
  ASSUME NEW s \in Economy, now \in Nat, NEW a \in DOMAIN s.account, ClaimStipend(a, s)
  PROVE  Does(s, db', now) /\ Alone(s, db', a)
<1>1. MayClaim(s, a, "stipend") /\ db' = Claimed(s, a, "stipend", Stipend)
  BY DEF ClaimStipend, Play, Call
<1>2. Stipend \in Nat
  BY LedgerAssumption
<1>3. QED
  BY <1>1, <1>2, KindsAre, ClaimDoes

LEMMA CrimePaysDoes ==
  ASSUME NEW s \in Economy, now \in Nat, NEW a \in DOMAIN s.account, NEW m \in Awards,
         CrimePays(a, s, m)
  PROVE  Does(s, db', now) /\ Alone(s, db', a)
<1>1. MayClaim(s, a, "crime") /\ db' = Claimed(s, a, "crime", m)
  BY DEF CrimePays, Play, Call
<1>2. m \in Nat
  BY LedgerAssumption
<1>3. QED
  BY <1>1, <1>2, KindsAre, ClaimDoes

PaidAccount(p, m) == [p EXCEPT !.wallet = p.wallet - m]

\* What a payment to the treasury writes.
LEMMA ToTreasuryIs ==
  ASSUME NEW s \in Economy, NEW a \in DOMAIN s.account, NEW m \in Int,
         s.account[a].wallet - m \in Nat
  PROVE  /\ PaidAccount(s.account[a], m) \in Account
         /\ ToTreasury(s, a, m) = SetTo(s, a, PaidAccount(s.account[a], m), s.treasury + m, s.outside)
<1>1. PICK p \in Account : p = s.account[a]
  BY DEF Economy, Tables
<1>2. PICK r : r = PaidAccount(p, m)
  OBVIOUS
<1>3. r \in Account
  BY <1>1, <1>2 DEF Account, PaidAccount
<1>4. ToTreasury(s, a, m) = SetTo(s, a, r, s.treasury + m, s.outside)
  BY <1>1, <1>2 DEF Account, Economy, SetTo, ToTreasury, PaidAccount
<1>5. QED
  BY <1>1, <1>2, <1>3, <1>4

\* A positive payment is one by the book.
LEMMA PaysAre ==
  ASSUME NEW s \in Economy, NEW p \in Account, NEW q \in Account, NEW m \in Nat, m > 0,
         q.wallet = p.wallet - m, q.checking = p.checking, q.savings = p.savings,
         q.elsewhere = p.elsewhere, q.last = p.last
  PROVE  Pays(p, q, (s.treasury + m) - s.treasury, s.outside - s.outside)
<1>1. (s.treasury + m) - s.treasury = m /\ s.outside - s.outside = 0
  BY DEF Economy
<1>2. W(q) < W(p) /\ m = W(p) - W(q)
  BY WorthBy DEF Account
<1>3. QED
  BY <1>1, <1>2 DEF Pays

\* Taxes.
LEMMA PayTaxesDoes ==
  ASSUME NEW s \in Economy, now \in Nat, NEW a \in DOMAIN s.account, NEW m \in Nat,
         PayTaxes(a, s, m)
  PROVE  Does(s, db', now) /\ Alone(s, db', a)
<1>1. a \in Players
  BY DEF Economy, Tables
<1>2. PICK p \in Account : p = s.account[a]
  BY <1>1 DEF Economy, Tables
<1>3. m > 0 /\ p.wallet - m \in Nat /\ db' = ToTreasury(s, a, m)
  BY <1>1, <1>2 DEF PayTaxes, Play, Call, Covers, Account
<1>4. PICK q \in Account : q = PaidAccount(p, m)
  BY <1>1, <1>2, <1>3, ToTreasuryIs
<1>5. db' = SetTo(s, a, q, s.treasury + m, s.outside)
  BY <1>1, <1>2, <1>3, <1>4, ToTreasuryIs
<1>6. Pays(p, q, (s.treasury + m) - s.treasury, s.outside - s.outside)
  <2>1. /\ q.wallet = p.wallet - m /\ q.checking = p.checking /\ q.last = p.last
        /\ q.savings = p.savings /\ q.elsewhere = p.elsewhere
    BY <1>4 DEF PaidAccount, Account
  <2>2. QED
    BY <1>3, <2>1, PaysAre
<1>7. s.treasury + m \in Nat /\ s.outside \in Int
  BY DEF Economy
<1>8. QED
  BY <1>1, <1>2, <1>5, <1>6, <1>7, Settles DEF One

\* Bail.
LEMMA BailDoes ==
  ASSUME NEW s \in Economy, now \in Nat, NEW a \in DOMAIN s.account,
         Bail(a, s)
  PROVE  Does(s, db', now) /\ Alone(s, db', a)
<1>1. a \in Players
  BY DEF Economy, Tables
<1>2. PICK p \in Account : p = s.account[a]
  BY <1>1 DEF Economy, Tables
<1>3. PICK m \in Nat : m = BailCost /\ m > 0
  BY LedgerAssumption
<1>4. PICK t : t = ToTreasury(s, a, m)
  OBVIOUS
<1>5. p.wallet - m \in Nat /\ db' = [t EXCEPT !.account[a].jailed = 0]
  BY <1>1, <1>2, <1>3, <1>4 DEF Bail, Play, Call, Covers, Account
<1>6. PICK r \in Account : r = PaidAccount(p, m)
  BY <1>1, <1>2, <1>5, ToTreasuryIs
<1>7. t = SetTo(s, a, r, s.treasury + m, s.outside)
  BY <1>1, <1>2, <1>4, <1>5, <1>6, ToTreasuryIs
<1>8. PICK q : q = [r EXCEPT !.jailed = 0]
  OBVIOUS
<1>9. q \in Account
  BY <1>8 DEF Account
<1>10. db' = SetTo(s, a, q, s.treasury + m, s.outside)
  <2>1. t.account = [s.account EXCEPT ![a] = r]
    BY <1>7 DEF SetTo, Economy
  <2>2. t \in Economy
    <3>1. t.account \in Tables(Account)
      BY <1>1, <2>1, AccountSet
    <3>2. s.treasury + m \in Nat
      BY DEF Economy
    <3>3. QED
      BY <1>7, <2>1, <3>1, <3>2 DEF SetTo, Economy
  <2>3. a \in DOMAIN t.account /\ t.account[a] = r
    BY <1>1, <2>1
  <2>4. db' = [t EXCEPT !.account = [t.account EXCEPT ![a] = q]]
    BY <1>5, <1>8, <2>2, <2>3 DEF Economy, Account
  <2>5. [t.account EXCEPT ![a] = q] = [s.account EXCEPT ![a] = q]
    BY <2>1
  <2>6. QED
    BY <1>7, <2>4, <2>5 DEF SetTo, Economy
<1>11. Pays(p, q, (s.treasury + m) - s.treasury, s.outside - s.outside)
  <2>1. /\ q.wallet = p.wallet - m /\ q.checking = p.checking /\ q.last = p.last
        /\ q.savings = p.savings /\ q.elsewhere = p.elsewhere
    BY <1>6, <1>8 DEF PaidAccount, Account
  <2>2. QED
    BY <1>3, <1>9, <2>1, PaysAre
<1>12. s.treasury + m \in Nat /\ s.outside \in Int
  BY DEF Economy
<1>13. QED
  BY <1>1, <1>2, <1>9, <1>10, <1>11, <1>12, Settles DEF One

\* A fine: what the wallet, the checking account and the savings lose is what
\* the treasury gets, and none goes below nothing.
LEMMA FinedIs ==
  ASSUME NEW s \in Economy, now \in Nat, NEW a \in DOMAIN s.account, NEW fine \in Nat
  PROVE  \E f \in Account, paid \in Nat :
           /\ Fined(s, a, fine) = SetTo(s, a, f, s.treasury + paid, s.outside)
           /\ W(f) = W(s.account[a]) - paid /\ f.last = s.account[a].last
<1>1. PICK p \in Account : p = s.account[a]
  BY DEF Economy, Tables
<1>2. PICK u \in Nat : u = Smaller(p.wallet, fine) /\ u <= p.wallet /\ u <= fine
  BY DEF Smaller, Account
<1>3. PICK v \in Nat : v = Smaller(p.checking, fine - u) /\ v <= p.checking /\ v <= fine - u
  BY <1>2 DEF Smaller, Account
<1>4. PICK w \in Nat : w = Smaller(p.savings, fine - u - v) /\ w <= p.savings /\ w <= fine - u - v
  BY <1>2, <1>3 DEF Smaller, Account
<1>5. PICK paid \in Nat : paid = u + v + w /\ paid <= fine
  BY <1>2, <1>3, <1>4
<1>6. PICK due \in Nat : due = IF paid < fine /\ p.due = 0 THEN now + DebtDue ELSE p.due
  <2>1. DebtDue \in Nat
    BY LedgerAssumption
  <2>2. p.due \in Nat
    BY DEF Account
  <2>3. QED
    BY <2>1, <2>2
<1>7. PICK f : f = [p EXCEPT !.wallet = p.wallet - u, !.checking = p.checking - v,
                             !.savings = p.savings - w, !.debt = p.debt + fine - paid, !.due = due]
  OBVIOUS
<1>8. f \in Account
  <2>1. /\ p.wallet - u \in Nat /\ p.checking - v \in Nat /\ p.savings - w \in Nat
        /\ p.debt + fine - paid \in Nat
    BY <1>2, <1>3, <1>4, <1>5 DEF Account
  <2>2. QED
    BY <1>6, <1>7, <2>1 DEF Account
<1>9. Fined(s, a, fine) = SetTo(s, a, f, s.treasury + paid, s.outside)
  <2>1. Fined(s, a, fine) = [s EXCEPT !.account[a] = f, !.treasury = @ + paid]
    <3>1. f = [p EXCEPT !.wallet = @ - u, !.checking = @ - v, !.savings = @ - w,
                        !.debt = @ + fine - paid,
                        !.due = IF paid < fine /\ @ = 0 THEN now + DebtDue ELSE @]
      BY <1>6, <1>7 DEF Account
    <3>2. QED
      BY <1>1, <1>2, <1>3, <1>4, <1>5, <3>1 DEF Fined
  <2>2. QED
    BY <2>1 DEF SetTo, Economy
<1>10. W(f) = W(p) - paid /\ f.last = p.last
  <2>1. /\ f.wallet = p.wallet - u /\ f.checking = p.checking - v /\ f.savings = p.savings - w
        /\ f.elsewhere = p.elsewhere /\ f.last = p.last
    BY <1>7 DEF Account
  <2>2. /\ W(f) = W(p) + (f.wallet - p.wallet) + (f.checking - p.checking) + (f.savings - p.savings)
        /\ W(p) \in Int
    BY <1>8, <2>1, WorthBy
  <2>3. p.wallet \in Int /\ p.checking \in Int /\ p.savings \in Int
    BY DEF Account
  <2>4. QED
    BY <1>5, <2>1, <2>2, <2>3
<1>11. QED
  BY <1>1, <1>8, <1>9, <1>10

\* A crime that fails.
LEMMA CrimeFailsDoes ==
  ASSUME NEW s \in Economy, now \in Nat, NEW a \in DOMAIN s.account,
         NEW fine \in Fines, NEW sentence \in Sentences, CrimeFails(a, s, fine, sentence)
  PROVE  Does(s, db', now) /\ Alone(s, db', a)
<1>1. PICK p \in Account : p = s.account[a]
  BY DEF Economy, Tables
<1>2. fine \in Nat /\ sentence \in Nat
  BY LedgerAssumption
<1>3. PICK r : r = [p EXCEPT !.last = [p.last EXCEPT !["crime"] = now]]
  OBVIOUS
<1>4. /\ r \in Account /\ r.wallet = p.wallet /\ r.checking = p.checking /\ r.savings = p.savings
      /\ r.elsewhere = p.elsewhere /\ r.last = [p.last EXCEPT !["crime"] = now]
  <2>1. [p.last EXCEPT !["crime"] = now] \in [Kinds -> Nat]
    BY DEF Account
  <2>2. QED
    BY <1>3, <2>1 DEF Account
<1>5. PICK tried : tried = [s EXCEPT !.account[a].last["crime"] = now]
  OBVIOUS
<1>6. tried = [s EXCEPT !.account = [s.account EXCEPT ![a] = r]]
  BY <1>1, <1>3, <1>5 DEF Economy, Account
<1>7. /\ tried \in Economy /\ tried.account = [s.account EXCEPT ![a] = r]
      /\ tried.treasury = s.treasury /\ tried.outside = s.outside
      /\ a \in DOMAIN tried.account /\ tried.account[a] = r
  <2>1. tried.account = [s.account EXCEPT ![a] = r]
    BY <1>6 DEF Economy
  <2>2. tried.account \in Tables(Account)
    BY <1>4, <2>1, AccountSet
  <2>3. QED
    BY <1>6, <2>1, <2>2 DEF Economy
<1>8. PICK f \in Account, paid \in Nat :
        /\ Fined(tried, a, fine) = SetTo(tried, a, f, tried.treasury + paid, tried.outside)
        /\ W(f) = W(r) - paid /\ f.last = r.last
  <2>1. \E f \in Account, paid \in Nat :
          /\ Fined(tried, a, fine) = SetTo(tried, a, f, tried.treasury + paid, tried.outside)
          /\ W(f) = W(tried.account[a]) - paid /\ f.last = tried.account[a].last
    <3>1. PICK e \in Economy : e = tried /\ a \in DOMAIN e.account
      BY <1>7
    <3>2. \E f \in Account, paid \in Nat :
            /\ Fined(e, a, fine) = SetTo(e, a, f, e.treasury + paid, e.outside)
            /\ W(f) = W(e.account[a]) - paid /\ f.last = e.account[a].last
      BY <1>2, <3>1, FinedIs
    <3>3. QED
      BY <3>1, <3>2
  <2>2. QED
    BY <1>7, <2>1
<1>9. PICK fined : fined = Fined(tried, a, fine)
  OBVIOUS
<1>10. /\ fined \in Economy /\ fined.account = [tried.account EXCEPT ![a] = f]
       /\ a \in DOMAIN fined.account /\ fined.account[a] = f
  <2>1. fined.account = [tried.account EXCEPT ![a] = f]
    BY <1>7, <1>8, <1>9 DEF SetTo, Economy
  <2>2. fined.account \in Tables(Account)
    BY <1>7, <2>1, AccountSet
  <2>3. tried.treasury + paid \in Nat /\ tried.outside \in Int
    BY <1>7 DEF Economy
  <2>4. QED
    BY <1>7, <1>8, <1>9, <2>1, <2>2, <2>3 DEF SetTo, Economy
<1>11. PICK q : q = [f EXCEPT !.jailed = now + sentence]
  OBVIOUS
<1>12. /\ q \in Account /\ q.wallet = f.wallet /\ q.checking = f.checking /\ q.savings = f.savings
       /\ q.elsewhere = f.elsewhere /\ q.last = f.last
  BY <1>2, <1>11 DEF Account
<1>13. db' = SetTo(s, a, q, s.treasury + paid, s.outside)
  <2>1. db' = [fined EXCEPT !.account[a].jailed = now + sentence]
    BY <1>5, <1>9 DEF CrimeFails, Play, Call
  <2>2. db' = [fined EXCEPT !.account = [fined.account EXCEPT ![a] = q]]
    BY <1>10, <1>11, <2>1 DEF Economy, Account
  <2>3. [fined.account EXCEPT ![a] = q] = [s.account EXCEPT ![a] = q]
    BY <1>7, <1>10
  <2>4. QED
    BY <1>6, <1>7, <1>8, <1>9, <2>2, <2>3 DEF SetTo, Economy
<1>14. Claims(p, q, (s.treasury + paid) - s.treasury, s.outside - s.outside, now)
  <2>1. W(q) = W(f) /\ W(f) \in Int
    BY <1>12, WorthBy DEF Account
  <2>2. W(r) = W(p) /\ W(p) \in Int
    BY <1>4, WorthBy DEF Account
  <2>3. paid = W(p) - W(q)
    BY <1>8, <2>1, <2>2
  <2>4. (s.treasury + paid) - s.treasury = paid /\ s.outside - s.outside = 0
    BY DEF Economy
  <2>5. p.last["crime"] = 0 \/ now - p.last["crime"] >= Cooldown["crime"]
    BY <1>1 DEF CrimeFails, MayClaim
  <2>6. q.last = [p.last EXCEPT !["crime"] = now]
    BY <1>4, <1>8, <1>12
  <2>7. QED
    BY <2>3, <2>4, <2>5, <2>6, KindsAre DEF Claims
<1>15. s.treasury + paid \in Nat /\ s.outside \in Int
  BY DEF Economy
<1>16. QED
  BY <1>1, <1>12, <1>13, <1>14, <1>15, Settles DEF One

\* Welfare: a claim that the treasury pays.
LEMMA ClaimWelfareDoes ==
  ASSUME NEW s \in Economy, now \in Nat, NEW a \in DOMAIN s.account,
         ClaimWelfare(a, s)
  PROVE  Does(s, db', now) /\ Alone(s, db', a)
<1>1. a \in Players
  BY DEF Economy, Tables
<1>2. PICK p \in Account : p = s.account[a]
  BY <1>1 DEF Economy, Tables
<1>3. PICK m \in Nat : m = s.welfare /\ m <= s.treasury
  BY <1>1 DEF ClaimWelfare, Economy
<1>4. PICK t : t = Claimed(s, a, "welfare", 0)
  OBVIOUS
<1>5. MayClaim(s, a, "welfare") /\ db' = ToTreasury(t, a, -m)
  BY <1>1, <1>3, <1>4 DEF ClaimWelfare, Play, Call
<1>6. PICK r \in Account : r = ClaimedAccount(p, "welfare", 0)
  BY <1>1, <1>2, KindsAre, ClaimedIs
<1>7. t = SetTo(s, a, r, s.treasury, s.outside - 0)
  BY <1>1, <1>2, <1>4, <1>6, KindsAre, ClaimedIs
<1>8. t \in Economy /\ t.account = [s.account EXCEPT ![a] = r] /\ t.treasury = s.treasury
      /\ t.outside = s.outside - 0 /\ a \in DOMAIN t.account /\ t.account[a] = r
  <2>1. t \in Economy
    BY <1>1, <1>4, <1>5, KindsAre, ClaimDoes DEF Does
  <2>2. t.account = [s.account EXCEPT ![a] = r] /\ t.treasury = s.treasury /\ t.outside = s.outside - 0
    BY <1>7 DEF SetTo, Economy
  <2>3. QED
    BY <1>1, <2>1, <2>2
<1>9. r.wallet - (-m) \in Nat /\ -m \in Int
  BY DEF Account
<1>10. PICK q \in Account : q = PaidAccount(r, -m)
  BY <1>8, <1>9, ToTreasuryIs
<1>11. db' = SetTo(t, a, q, t.treasury + (-m), t.outside)
  BY <1>5, <1>8, <1>9, <1>10, ToTreasuryIs
<1>12. db' = SetTo(s, a, q, s.treasury - m, s.outside)
  <2>1. [t.account EXCEPT ![a] = q] = [s.account EXCEPT ![a] = q]
    BY <1>8
  <2>2. t.treasury + (-m) = s.treasury - m /\ t.outside = s.outside
    BY <1>8 DEF Economy
  <2>3. QED
    BY <1>7, <1>11, <2>1, <2>2 DEF SetTo, Economy
<1>13. Claims(p, q, (s.treasury - m) - s.treasury, s.outside - s.outside, now)
  <2>1. /\ q.wallet = p.wallet + m /\ q.checking = p.checking
        /\ q.savings = p.savings /\ q.elsewhere = p.elsewhere
        /\ q.last = [p.last EXCEPT !["welfare"] = now]
    BY <1>6, <1>10 DEF Account, ClaimedAccount, PaidAccount
  <2>2. (s.treasury - m) - s.treasury = -m /\ s.outside - s.outside = 0
    BY DEF Economy
  <2>3. -m = W(p) - W(q)
    BY <2>1, WorthBy DEF Account
  <2>4. QED
    BY <1>2, <1>5, <2>1, <2>2, <2>3, KindsAre DEF Claims, MayClaim
<1>14. s.treasury - m \in Nat /\ s.outside \in Int
  BY <1>3 DEF Economy
<1>15. QED
  BY <1>1, <1>2, <1>12, <1>13, <1>14, Settles DEF One

-----------------------------------------------------------------------------
(* Elections *)

\* Votes are numbers, and the comparison of candidates is a strict weak order.
LEMMA BetterIsOrder ==
  ASSUME NEW s \in Economy
  PROVE  /\ \A a \in Players : VotesFor(s, a) \in Nat
         /\ \A c, d \in Candidacy : Better(s, c, d) => ~Better(s, d, c)
         /\ \A c, d, e \in Candidacy : ~Better(s, c, d) /\ Better(s, e, d) => ~Better(s, c, e)
<1>1. ASSUME NEW a \in Players PROVE VotesFor(s, a) \in Nat
  <2>1. PICK D \in SUBSET Players : s.votes \in [D -> Players]
    BY DEF Economy, Tables
  <2>2. PICK v : v = {x \in DOMAIN s.votes : s.votes[x] = a}
    OBVIOUS
  <2>3. v \subseteq Players /\ IsFiniteSet(Players)
    BY <2>1, <2>2, LedgerAssumption
  <2>4. Cardinality(v) \in Nat
    BY <2>3, FS_Subset, FS_CardinalityType
  <2>5. QED
    BY <2>2, <2>4 DEF VotesFor
<1>2. \A c \in Candidacy : c.player \in Players /\ c.player \in Nat
  BY LedgerAssumption DEF Candidacy
<1>3. ASSUME NEW c \in Candidacy, NEW d \in Candidacy, Better(s, c, d)
      PROVE  ~Better(s, d, c)
  BY <1>1, <1>2, <1>3 DEF Better
<1>4. ASSUME NEW c \in Candidacy, NEW d \in Candidacy, NEW e \in Candidacy,
             ~Better(s, c, d), Better(s, e, d)
      PROVE  ~Better(s, c, e)
  BY <1>1, <1>2, <1>4 DEF Better
<1>5. QED
  BY <1>1, <1>3, <1>4

\* The fold elects a candidate whom nobody beats.
LEMMA WinnerWins ==
  ASSUME NEW s \in Economy, s.candidates # <<>>
  PROVE  \E i \in DOMAIN s.candidates :
           /\ Winner(s) = s.candidates[i] /\ s.candidates[i] \in Candidacy
           /\ \A j \in DOMAIN s.candidates : ~Better(s, s.candidates[j], s.candidates[i])
<1>1. PICK c \in Seq(Candidacy) : c = s.candidates /\ c # <<>>
  BY DEF Economy
<1>2. PICK n \in Nat : n = Len(c) - 1
  BY <1>1
<1>3. PICK seq : seq = Tail(c)
  OBVIOUS
<1>4. PICK base : base = Head(c)
  OBVIOUS
<1>5. /\ DOMAIN seq = 1..n /\ base = c[1] /\ DOMAIN c = 1..(n + 1)
      /\ \A i \in 1..n : seq[i] = c[i + 1]
      /\ \A i \in 1..(n + 1) : c[i] \in Candidacy
  BY <1>1, <1>2, <1>3, <1>4
<1> DEFINE V == Candidacy
           step == [p \in (1..n) \X V |-> IF Better(s, seq[p[1]], p[2]) THEN seq[p[1]] ELSE p[2]]
           Iter(g) == g = [t \in SUBSET DOMAIN seq |->
                            IF t = {} THEN base
                            ELSE IF Better(s, seq[Max(t)], g[t \ {Max(t)}])
                                 THEN seq[Max(t)] ELSE g[t \ {Max(t)}]]
<1>6. PICK g \in [SUBSET (1..n) -> V] : Steps(g, n, base, step)
  <2>1. step \in [(1..n) \X V -> V]
    BY <1>5
  <2>2. base \in V
    BY <1>5
  <2>3. PICK U : U = V
    OBVIOUS
  <2>4. PICK f : f = step
    OBVIOUS
  <2>5. f \in [(1..n) \X U -> U] /\ base \in U
    BY <2>1, <2>2, <2>3, <2>4
  <2>6. \E g \in [SUBSET (1..n) -> U] : Steps(g, n, base, f)
    BY <2>5, Iterates
  <2> HIDE DEF step
  <2>7. QED
    BY <2>3, <2>4, <2>6
<1>7. Iter(g)
  <2>1. ASSUME NEW t \in SUBSET (1..n), t # {}
        PROVE  g[t] = IF Better(s, seq[Max(t)], g[t \ {Max(t)}])
                      THEN seq[Max(t)] ELSE g[t \ {Max(t)}]
    <3>1. Max(t) \in 1..n
      BY <2>1, MaxExists
    <3>2. <<Max(t), g[t \ {Max(t)}]>> \in (1..n) \X V
      BY <3>1
    <3>3. QED
      BY <1>6, <2>1, <3>2 DEF Steps
  <2>2. g = [t \in SUBSET DOMAIN seq |-> g[t]]
    BY <1>5
  <2>3. ASSUME NEW t \in SUBSET DOMAIN seq
        PROVE  g[t] = IF t = {} THEN base
                      ELSE IF Better(s, seq[Max(t)], g[t \ {Max(t)}])
                           THEN seq[Max(t)] ELSE g[t \ {Max(t)}]
    BY <1>5, <1>6, <2>1 DEF Steps
  <2>4. QED
    BY <2>2, <2>3
<1>8. PICK it : it = CHOOSE h : Iter(h)
  OBVIOUS
<1>9. Iter(it)
  <2> HIDE DEF Iter
  <2> QED
    BY <1>7, <1>8
<1>10. Winner(s) = it[1..n]
  <2>1. seq = Tail(s.candidates) /\ base = Head(s.candidates) /\ DOMAIN seq = 1..n
    BY <1>1, <1>3, <1>4, <1>5
  <2>2. Winner(s) = (CHOOSE h : Iter(h))[DOMAIN seq]
    BY <2>1 DEF Winner, FoldLeft, MapThenFoldSet
  <2>3. QED
    BY <1>8, <2>1, <2>2
<1> DEFINE Best(i) == {v \in V : /\ \E j \in 1..(i + 1) : v = c[j]
                                /\ \A j \in 1..(i + 1) : ~Better(s, c[j], v)}
           J == [i \in 0..n |-> Best(i)]
<1>11. it[1..n] \in J[n]
  <2>1. base \in J[0]
    <3>1. base \in Best(0)
      BY <1>5, BetterIsOrder
    <3>2. QED
      BY <3>1
  <2>2. PICK next : next = [t \in SUBSET (1..n) |->
                              IF Better(s, seq[Max(t)], it[t \ {Max(t)}])
                              THEN seq[Max(t)] ELSE it[t \ {Max(t)}]]
    OBVIOUS
  <2>3. \A t \in SUBSET (1..n) : it[t] = IF t = {} THEN base ELSE next[t]
    BY <1>5, <1>9, <2>2
  <2>4. ASSUME NEW i \in 1..n, it[1..(i - 1)] \in J[i - 1] PROVE next[1..i] \in J[i]
    <3>1. PICK v \in V : v = it[1..(i - 1)] /\ v \in Best(i - 1)
      <4>1. i - 1 \in 0..n
        OBVIOUS
      <4>2. J[i - 1] = Best(i - 1)
        BY <4>1
      <4>3. Best(i - 1) \subseteq V
        OBVIOUS
      <4> HIDE DEF Best, J
      <4>4. QED
        BY <2>4, <4>2, <4>3
    <3>2. next[1..i] = IF Better(s, c[i + 1], v) THEN c[i + 1] ELSE v
      BY <1>5, <2>2, <3>1, MaxOfSegment
    <3>3. c[i + 1] \in V /\ \A j \in 1..(i + 1) : c[j] \in V
      BY <1>5
    <3>4. CASE Better(s, c[i + 1], v)
      <4>1. \A j \in 1..i : ~Better(s, c[j], v)
        BY <3>1
      <4>2. \A j \in 1..i : ~Better(s, c[j], c[i + 1])
        BY <3>3, <3>4, <4>1, BetterIsOrder
      <4>3. ~Better(s, c[i + 1], c[i + 1])
        BY <3>3, BetterIsOrder
      <4>4. c[i + 1] \in Best(i)
        BY <3>3, <4>2, <4>3
      <4>5. QED
        BY <3>2, <3>4, <4>4
    <3>5. CASE ~Better(s, c[i + 1], v)
      <4>1. v \in Best(i)
        BY <3>1, <3>5
      <4>2. QED
        BY <3>2, <3>5, <4>1
    <3>6. QED
      BY <3>4, <3>5
  <2> HIDE DEF J
  <2>5. QED
    BY <2>1, <2>3, <2>4, Segments
<1>12. QED
  BY <1>1, <1>5, <1>10, <1>11

Orderly(s, n) ==
  /\ s.end > 0 <=> s.candidates # <<>>
  /\ s.end <= n + PollsOpen
  /\ \A i, j \in DOMAIN s.candidates :
       s.candidates[i].player = s.candidates[j].player => i = j
  /\ \A v \in DOMAIN s.votes : s.votes[v] \in Candidates(s)
  /\ s.end > 0 => s.term <= n

\* The mayor on disk, if it is another, has served.
Served(s, d, n) == s.mayor # d.mayor \/ s.term # d.term => d.term <= n

Called(s, t, n) ==
  /\ t \in Economy /\ Effect(s, t, n)
  /\ Orderly(s, n) => Orderly(t, n)
  /\ t.mayor = s.mayor /\ t.term = s.term
  /\ s.end > 0 => t.end = s.end

\* What concerns accounts only leaves the election in order.
LEMMA DoesIsCalled ==
  ASSUME NEW s, NEW t, Does(s, t, now)
  PROVE  Called(s, t, now)
<1>1. /\ t.mayor = s.mayor /\ t.term = s.term /\ t.end = s.end /\ t.candidates = s.candidates
      /\ t.votes = s.votes
  BY DEF Does, Poll
<1>2. Orderly(s, now) => Orderly(t, now)
  BY <1>1 DEF Orderly, Candidates
<1>3. QED
  BY <1>1, <1>2 DEF Does, Called

\* Filing: the fee is paid and the candidate is the last of the list.
LEMMA RunIsCalled ==
  ASSUME NEW s \in Economy, now \in Nat, NEW a \in DOMAIN s.account, NEW platform \in Platforms,
         Run(a, s, platform)
  PROVE  Called(s, db', now) /\ Alone(s, db', a)
<1>1. a \in Players
  BY DEF Economy, Tables
<1>2. PICK p \in Account : p = s.account[a]
  BY <1>1 DEF Economy, Tables
<1>3. PICK m \in Nat : m = FilingFee /\ m > 0
  BY LedgerAssumption
<1>4. PICK t : t = ToTreasury(s, a, m)
  OBVIOUS
<1>5. PICK c \in Candidacy : c = [player |-> a, platform |-> platform]
  BY <1>1 DEF Candidacy
<1>6. PICK end : end = IF s.end = 0 THEN now + PollsOpen ELSE s.end
  OBVIOUS
<1>7. p.wallet - m \in Nat /\ a \notin Candidates(s) /\ MayRun(s, a)
  BY <1>1, <1>2, <1>3 DEF Run, Covers, Account
<1>8. PICK q \in Account : q = PaidAccount(p, m)
  BY <1>1, <1>2, <1>7, ToTreasuryIs
<1>9. t = SetTo(s, a, q, s.treasury + m, s.outside)
  BY <1>1, <1>2, <1>4, <1>7, <1>8, ToTreasuryIs
<1>10. Does(s, t, now) /\ Alone(s, t, a)
  <2>1. /\ q.wallet = p.wallet - m /\ q.checking = p.checking /\ q.last = p.last
        /\ q.savings = p.savings /\ q.elsewhere = p.elsewhere
    BY <1>8 DEF PaidAccount, Account
  <2>2. Pays(p, q, (s.treasury + m) - s.treasury, s.outside - s.outside)
    BY <1>3, <2>1, PaysAre
  <2>3. s.treasury + m \in Nat /\ s.outside \in Int
    BY DEF Economy
  <2>4. QED
    BY <1>1, <1>2, <1>9, <2>2, <2>3, Settles DEF One
<1>11. t \in Economy /\ t.end = s.end /\ t.candidates = s.candidates /\ t.votes = s.votes
       /\ t.mayor = s.mayor /\ t.term = s.term
  BY <1>10 DEF Does, Poll
<1>12. db' = [t EXCEPT !.end = end, !.candidates = Append(s.candidates, c)]
  <2>1. db' = [t EXCEPT !.end = IF @ = 0 THEN now + PollsOpen ELSE @,
                        !.candidates = Append(@, [player |-> a, platform |-> platform])]
    BY <1>1, <1>3, <1>4 DEF Run, Play, Call
  <2>2. QED
    BY <1>5, <1>6, <1>11, <2>1 DEF Economy
<1>13. PICK cs \in Seq(Candidacy) : cs = s.candidates
  BY DEF Economy
<1>14. s.end \in Nat /\ PollsOpen \in Nat /\ PollsOpen > 0 /\ end \in Nat /\ end > 0
  <2>1. s.end \in Nat
    BY DEF Economy
  <2>2. PollsOpen \in Nat /\ PollsOpen > 0
    BY LedgerAssumption
  <2>3. QED
    BY <1>6, <2>1, <2>2
<1>15. Append(cs, c) \in Seq(Candidacy)
  OBVIOUS
<1>16. /\ db' \in Economy /\ db'.account = t.account /\ db'.treasury = t.treasury
       /\ db'.granted = t.granted /\ db'.outside = t.outside /\ db'.end = end /\ db'.candidates = Append(cs, c)
       /\ db'.votes = s.votes /\ db'.mayor = s.mayor /\ db'.term = s.term
  BY <1>11, <1>12, <1>13, <1>14, <1>15 DEF Economy
<1>17. Effect(s, db', now)
  <2>1. Effect(s, t, now)
    BY <1>10 DEF Does
  <2>2. \A x \in Players : AccountOf(db', x) = AccountOf(t, x) /\ Durable(db', x) = Durable(t, x)
    BY <1>16 DEF AccountOf, Durable
  <2>3. NetTreasury(db') = NetTreasury(t)
    BY <1>16 DEF NetTreasury
  <2>4. ASSUME NEW x \in Players, Concerned(s, t, x, now) PROVE Concerned(s, db', x, now)
    BY <1>16, <2>2, <2>3, <2>4 DEF Concerned
  <2>5. ASSUME NEW x \in Players, NEW y \in Players, Transferred(s, t, x, y)
        PROVE  Transferred(s, db', x, y)
    BY <1>16, <2>2, <2>3, <2>5 DEF Transferred
  <2>6. QED
    BY <2>1, <2>4, <2>5 DEF Effect
<1>18. Alone(s, db', a)
  BY <1>10, <1>16 DEF Alone, AccountOf
<1>19. ASSUME Orderly(s, now) PROVE Orderly(db', now)
  <2>1. /\ s.end > 0 <=> cs # <<>>
        /\ s.end <= now + PollsOpen
        /\ \A i, j \in DOMAIN cs : cs[i].player = cs[j].player => i = j
        /\ \A v \in DOMAIN s.votes : s.votes[v] \in Candidates(s)
        /\ s.end > 0 => s.term <= now
    BY <1>13, <1>19 DEF Orderly, Candidates
  <2>2. PICK ds : ds = Append(cs, c)
    OBVIOUS
  <2>3. /\ DOMAIN ds = 1..(Len(cs) + 1) /\ DOMAIN cs = 1..Len(cs) /\ Len(cs) \in Nat
        /\ \A i \in DOMAIN cs : ds[i] = cs[i]
        /\ ds[Len(cs) + 1] = c
    BY <2>2
  <2>4. ds # <<>>
    BY <2>3
  <2>5. end <= now + PollsOpen /\ s.term <= now
    BY <1>6, <1>7, <1>14, <2>1 DEF MayRun
  <2>6. \A i \in DOMAIN cs : cs[i].player # a
    BY <1>7, <1>13 DEF Candidates
  <2>7. \A i, j \in DOMAIN ds : ds[i].player = ds[j].player => i = j
    BY <1>5, <2>1, <2>3, <2>6
  <2>8. \A v \in DOMAIN s.votes : \E i \in DOMAIN ds : s.votes[v] = ds[i].player
    BY <1>13, <2>1, <2>3 DEF Candidates
  <2>9. QED
    BY <1>14, <1>16, <2>2, <2>4, <2>5, <2>7, <2>8 DEF Orderly, Candidates
<1>20. s.end > 0 => db'.end = s.end
  BY <1>6, <1>16
<1>21. QED
  BY <1>16, <1>17, <1>18, <1>19, <1>20 DEF Called

\* Voting: for a candidate of the election under way.
LEMMA VoteIsCalled ==
  ASSUME NEW s \in Economy, now \in Nat, NEW a \in DOMAIN s.account, NEW b \in Players, Vote(a, s, b)
  PROVE  Called(s, db', now) /\ Alone(s, db', a)
<1>1. a \in Players
  BY DEF Economy, Tables
<1>2. PICK votes : votes = With(s.votes, a, b)
  OBVIOUS
<1>3. db' = [s EXCEPT !.votes = votes] /\ b \in Candidates(s)
  BY <1>2 DEF Vote, Play, Call
<1>4. PICK D \in SUBSET Players : s.votes \in [D -> Players]
  BY DEF Economy, Tables
<1>5. votes \in [D \cup {a} -> Players]
  BY <1>2, <1>4 DEF With
<1>6. votes \in Tables(Players)
  BY <1>1, <1>5 DEF Tables
<1>7. /\ db' \in Economy /\ db'.account = s.account /\ db'.treasury = s.treasury
      /\ db'.granted = s.granted /\ db'.outside = s.outside
      /\ db'.end = s.end /\ db'.candidates = s.candidates
      /\ db'.votes = votes /\ db'.mayor = s.mayor /\ db'.term = s.term
  BY <1>3, <1>6 DEF Economy
<1>8. \A x \in Players : AccountOf(db', x) = AccountOf(s, x) /\ Durable(db', x) = Durable(s, x)
  BY <1>7 DEF AccountOf, Durable
<1>9. Effect(s, db', now)
  <2>1. NetTreasury(db') = NetTreasury(s) /\ NetTreasury(s) \in Int
    BY <1>7 DEF NetTreasury, Economy
  <2>2. NetTreasury(db') - NetTreasury(s) = 0 /\ db'.outside - s.outside = 0
    BY <1>7, <2>1 DEF Economy
  <2>3. Concerned(s, db', a, now)
    BY <1>1, <1>8, <2>2 DEF Concerned, One, Rearranges
  <2>4. QED
    BY <1>1, <2>3 DEF Effect
<1>10. ASSUME Orderly(s, now) PROVE Orderly(db', now)
  <2>1. Candidates(db') = Candidates(s)
    BY <1>7 DEF Candidates
  <2>2. \A v \in DOMAIN votes : votes[v] \in Candidates(s)
    BY <1>2, <1>3, <1>4, <1>10 DEF With, Orderly
  <2>3. QED
    BY <1>7, <1>10, <2>1, <2>2 DEF Orderly
<1>11. Alone(s, db', a)
  BY <1>7, <1>8 DEF Alone
<1>12. QED
  BY <1>7, <1>9, <1>10, <1>11 DEF Called

\* What a tick may do.
Elected(s, t) ==
  /\ t.mayor # s.mayor \/ t.term # s.term => s.end > 0
  /\ s.end > 0 /\ t.end = 0 => t.mayor = Winner(s).player

Ticked(s, t, n) ==
  /\ t \in Economy /\ Same(s, t)
  /\ Orderly(s, n) => (Orderly(t, n) /\ Elected(s, t))

\* The count ends an election with its candidates and votes.
LEMMA CountedIsTicked ==
  ASSUME NEW s \in Economy, now \in Nat, Orderly(s, now)
  PROVE  /\ Counted(s) \in Economy /\ Orderly(Counted(s), now) /\ Elected(s, Counted(s))
         /\ Counted(s).account = s.account /\ Counted(s).treasury = s.treasury
         /\ Counted(s).granted = s.granted /\ Counted(s).outside = s.outside
<1>1. CASE s.end = 0 \/ now < s.end
  BY <1>1 DEF Counted, Elected
<1>2. CASE ~(s.end = 0 \/ now < s.end)
  <2>1. s.end \in Nat /\ s.end > 0 /\ s.candidates # <<>>
    BY <1>2 DEF Orderly, Economy
  <2>2. PICK w \in Candidacy : w = Winner(s)
    BY <2>1, WinnerWins
  <2>3. PICK t : t = Counted(s)
    OBVIOUS
  <2>4. t = [s EXCEPT !.mayor = w.player, !.term = now + Term, !.welfare = Welfare[w.platform],
                      !.end = 0, !.candidates = <<>>, !.votes = <<>>]
    BY <1>2, <2>2, <2>3 DEF Counted
  <2>5. w.player \in Players /\ now + Term \in Nat /\ Welfare[w.platform] \in Nat
    BY LedgerAssumption DEF Candidacy
  <2>6. <<>> \in Tables(Players) /\ <<>> \in Seq(Candidacy)
    <3>1. <<>> \in [{} -> Players] /\ {} \in SUBSET Players
      OBVIOUS
    <3>2. <<>> \in Tables(Players)
      BY <3>1 DEF Tables
    <3>3. <<>> \in Seq(Candidacy)
      OBVIOUS
    <3>4. QED
      BY <3>2, <3>3
  <2>7. /\ t \in Economy /\ t.account = s.account /\ t.treasury = s.treasury
        /\ t.granted = s.granted /\ t.outside = s.outside
        /\ t.mayor = w.player /\ t.end = 0 /\ t.candidates = <<>> /\ t.votes = <<>>
    BY <2>4, <2>5, <2>6 DEF Economy
  <2>8. Orderly(t, now)
    <3>1. 0 <= now + PollsOpen
      BY LedgerAssumption
    <3>2. QED
      BY <2>7, <3>1 DEF Orderly
  <2>9. Elected(s, t)
    BY <2>1, <2>2, <2>7 DEF Elected
  <2>10. QED
    BY <2>3, <2>7, <2>8, <2>9
<1>3. QED
  BY <1>1, <1>2

\* Releasing prisoners touches nothing else.
LEMMA ReleasedIs ==
  ASSUME NEW s \in Economy
  PROVE  /\ Released(s) \in Economy /\ Same(s, Released(s)) /\ Poll(Released(s)) = Poll(s)
<1>1. PICK D \in SUBSET Players : s.account \in [D -> Account]
  BY DEF Economy, Tables
<1>2. PICK f : f = [a \in DOMAIN s.account |->
     IF s.account[a].jailed <= now THEN [s.account[a] EXCEPT !.jailed = 0] ELSE s.account[a]]
  OBVIOUS
<1>3. ASSUME NEW a \in D
      PROVE  /\ f[a] \in Account /\ Net(f[a]) = Net(s.account[a])
             /\ f[a].items = s.account[a].items /\ f[a].works = s.account[a].works
             /\ f[a].employed = s.account[a].employed /\ f[a].last = s.account[a].last
  <2>1. PICK p \in Account : p = s.account[a]
    BY <1>1
  <2>2. PICK q : q = [p EXCEPT !.jailed = 0]
    OBVIOUS
  <2>3. /\ q \in Account /\ q.items = p.items /\ q.works = p.works
        /\ q.employed = p.employed /\ q.last = p.last
    BY <2>2 DEF Account
  <2>4. Net(q) = Net(p)
    BY <2>2 DEF Net, Account, Balances
  <2>5. f[a] = IF p.jailed <= now THEN q ELSE p
    BY <1>1, <1>2, <2>1, <2>2
  <2>6. QED
    BY <2>1, <2>3, <2>4, <2>5
<1>4. DOMAIN f = D /\ f \in [D -> Account]
  BY <1>1, <1>2, <1>3
<1>5. f \in Tables(Account)
  BY <1>4 DEF Tables
<1>6. PICK t : t = Released(s)
  OBVIOUS
<1>7. t = [s EXCEPT !.account = f]
  BY <1>2, <1>6 DEF Released
<1>8. /\ t \in Economy /\ t.account = f /\ Poll(t) = Poll(s) /\ t.treasury = s.treasury
      /\ t.granted = s.granted /\ t.outside = s.outside
  BY <1>5, <1>7 DEF Economy, Poll
<1>9. ASSUME NEW a \in Players PROVE Durable(t, a) = Durable(s, a)
  <2>1. CASE a \in D
    <3>1. AccountOf(t, a) = f[a] /\ AccountOf(s, a) = s.account[a]
      BY <1>1, <1>4, <1>8, <2>1 DEF AccountOf
    <3>2. QED
      BY <1>3, <2>1, <3>1 DEF Durable
  <2>2. CASE a \notin D
    BY <1>1, <1>4, <1>8, <2>2 DEF Durable, AccountOf
  <2>3. QED
    BY <2>1, <2>2
<1>10. QED
  BY <1>6, <1>8, <1>9 DEF Same, NetTreasury

\* What order and election depend on.
LEMMA PolledAlike ==
  ASSUME NEW s, NEW t, Poll(t) = Poll(s), NEW d, NEW n
  PROVE  /\ t.mayor = s.mayor /\ t.term = s.term /\ t.end = s.end /\ t.candidates = s.candidates
         /\ t.votes = s.votes
         /\ Orderly(s, n) => Orderly(t, n)
         /\ Served(s, d, n) => Served(t, d, n)
<1>1. /\ t.mayor = s.mayor /\ t.term = s.term /\ t.end = s.end /\ t.candidates = s.candidates
      /\ t.votes = s.votes
  BY DEF Poll
<1>2. QED
  BY <1>1 DEF Orderly, Candidates, Served

\* economy_tick_all.
LEMMA TickAllIsTicked ==
  ASSUME db \in Economy, now \in Nat, Orderly(db, now), TickAll
  PROVE  Ticked(db, db', now)
<1>1. PICK m \in Moves : Fits(db, m) /\ db' = Released(Counted(Moved(db, m)))
  BY DEF TickAll, Do, Call
<1>2. PICK s \in Economy : s = Moved(db, m) /\ Same(db, s) /\ Poll(s) = Poll(db)
  BY <1>1, MovedIs
<1>3. Orderly(s, now)
  BY <1>2, PolledAlike
<1>4. PICK t \in Economy : t = Counted(s)
  BY <1>3, CountedIsTicked
<1>5. /\ Orderly(t, now) /\ Elected(s, t)
      /\ t.account = s.account /\ t.treasury = s.treasury
      /\ t.granted = s.granted /\ t.outside = s.outside
  BY <1>3, <1>4, CountedIsTicked
<1>6. /\ db' \in Economy /\ Same(t, db') /\ Poll(db') = Poll(t)
  BY <1>1, <1>2, <1>4, ReleasedIs
<1>7. Same(s, t)
  BY <1>5 DEF Same, Durable, AccountOf, NetTreasury
<1>8. Same(db, db')
  BY <1>2, <1>6, <1>7, SameIsEquivalence
<1>9. Orderly(db', now)
  BY <1>5, <1>6, PolledAlike
<1>10. Elected(db, db')
  <2>1. /\ s.mayor = db.mayor /\ s.term = db.term /\ s.end = db.end /\ s.candidates = db.candidates
        /\ s.votes = db.votes
    BY <1>2, PolledAlike
  <2>2. db'.mayor = t.mayor /\ db'.term = t.term /\ db'.end = t.end
    BY <1>6, PolledAlike
  <2>3. Winner(s) = Winner(db)
    BY <2>1 DEF Winner, Better, VotesFor
  <2>4. QED
    BY <1>5, <2>1, <2>2, <2>3 DEF Elected
<1>11. QED
  BY <1>6, <1>8, <1>9, <1>10 DEF Ticked

-----------------------------------------------------------------------------
(* What the calls of players have in common *)

Begun(a) ==
  /\ phase = "idle" /\ phase' = "save" /\ calls < MaxCalls /\ calls' = calls + 1
  /\ caller' = a /\ before' = db /\ game' \in BOOLEAN
  /\ UNCHANGED <<now, undone, disk>>

\* What a call of economy_game_action leaves to the other accounts.
Others(s, t, a) ==
  /\ DOMAIN s.account \subseteq DOMAIN t.account
  /\ \A x \in Players \ {a} : Durable(t, x) = Durable(s, x)

\* Every call of the interface.
LEMMA InterfaceCall ==
  ASSUME db \in Economy, now \in Nat, NEW a \in Players, Interface(a)
  PROVE  Begun(a) /\ Called(db, db', now) /\ game' = FALSE
<1>1. Begun(a) /\ game' = FALSE
  <2>1. \E t : Idle /\ Do(a, t)
    BY DEF Interface, GetPlayer, ClaimDaily, Work, MoveMoney, MoneyTransfer, BuyItem
  <2>2. QED
    BY <2>1 DEF Idle, Do, Call, Begun
<1>2. Called(db, db', now)
  <2>1. ASSUME GetPlayer(a) PROVE Called(db, db', now)
    BY <2>1, GetPlayerDoes, DoesIsCalled
  <2>2. ASSUME NEW m \in Awards, ClaimDaily(a, m) PROVE Called(db, db', now)
    BY <2>2, ClaimDailyDoes, DoesIsCalled
  <2>3. ASSUME NEW m \in Awards, NEW kept \in BOOLEAN, Work(a, m, kept) PROVE Called(db, db', now)
    BY <2>3, WorkDoes, DoesIsCalled
  <2>4. ASSUME NEW m \in Amounts, NEW deposit \in BOOLEAN, MoveMoney(a, m, deposit)
        PROVE  Called(db, db', now)
    BY <2>4, MoveMoneyDoes, DoesIsCalled
  <2>5. ASSUME NEW m \in Amounts, NEW b \in Players, MoneyTransfer(a, b, m) PROVE Called(db, db', now)
    BY <2>5, MoneyTransferDoes, DoesIsCalled
  <2>6. ASSUME NEW m \in Amounts, NEW n \in Quantities, BuyItem(a, n, m) PROVE Called(db, db', now)
    BY <2>6, BuyItemDoes, DoesIsCalled
  <2>7. QED
    BY <2>1, <2>2, <2>3, <2>4, <2>5, <2>6 DEF Interface
<1>3. QED
  BY <1>1, <1>2

\* Every call of economy_game_action: the move that fills orders, then the
\* action.
LEMMA PlayCall ==
  ASSUME db \in Economy, now \in Nat, NEW a \in Players, Plays(a)
  PROVE  Begun(a) /\ Called(db, db', now) /\ Others(db, db', a)
<1>1. PICK o \in Economy :
        /\ o = Opened(db, a) /\ a \in DOMAIN o.account
        /\ DOMAIN db.account \subseteq DOMAIN o.account
        /\ Same(db, o) /\ Poll(o) = Poll(db)
  BY OpenedKeeps, OpenedIsSame
<1>2. PICK m \in Moves :
        LET s == Moved(o, m)
        IN /\ Idle /\ Fits(o, m)
           /\ \/ OtherPlay(a, s) \/ ClaimStipend(a, s) \/ Bail(a, s) \/ ClaimWelfare(a, s)
              \/ \E r \in Awards : CrimePays(a, s, r)
              \/ \E f \in Fines, t \in Sentences : CrimeFails(a, s, f, t)
              \/ \E n \in Amounts : PayTaxes(a, s, n)
              \/ \E p \in Platforms : Run(a, s, p)
              \/ \E b \in Players : Vote(a, s, b)
  BY <1>1 DEF Plays
<1>3. PICK s \in Economy :
        /\ s = Moved(o, m) /\ Same(o, s) /\ Poll(s) = Poll(o) /\ DOMAIN s.account = DOMAIN o.account
  BY <1>2, MovedIs
<1>4. /\ Idle
      /\ \/ OtherPlay(a, s) \/ ClaimStipend(a, s) \/ Bail(a, s) \/ ClaimWelfare(a, s)
         \/ \E r \in Awards : CrimePays(a, s, r)
         \/ \E f \in Fines, t \in Sentences : CrimeFails(a, s, f, t)
         \/ \E n \in Amounts : PayTaxes(a, s, n)
         \/ \E p \in Platforms : Run(a, s, p)
         \/ \E b \in Players : Vote(a, s, b)
  BY <1>2, <1>3
<1>5. a \in DOMAIN s.account
  BY <1>1, <1>3
<1>6. Begun(a)
  <2>1. \E t : Idle /\ Play(a, t)
    BY <1>4 DEF OtherPlay, ClaimStipend, Bail, ClaimWelfare, CrimePays, CrimeFails, PayTaxes, Run, Vote
  <2>2. QED
    BY <2>1 DEF Idle, Play, Call, Begun
<1>7. Called(s, db', now) /\ Alone(s, db', a)
  <2>1. ASSUME OtherPlay(a, s) PROVE Called(s, db', now) /\ Alone(s, db', a)
    <3>1. db' = s
      BY <2>1 DEF OtherPlay, Play, Call
    <3>2. QED
      BY <3>1, NothingDone, DoesIsCalled
  <2>2. ASSUME ClaimStipend(a, s) PROVE Called(s, db', now) /\ Alone(s, db', a)
    BY <1>5, <2>2, ClaimStipendDoes, DoesIsCalled
  <2>3. ASSUME Bail(a, s) PROVE Called(s, db', now) /\ Alone(s, db', a)
    BY <1>5, <2>3, BailDoes, DoesIsCalled
  <2>4. ASSUME ClaimWelfare(a, s) PROVE Called(s, db', now) /\ Alone(s, db', a)
    BY <1>5, <2>4, ClaimWelfareDoes, DoesIsCalled
  <2>5. ASSUME NEW r \in Awards, CrimePays(a, s, r) PROVE Called(s, db', now) /\ Alone(s, db', a)
    BY <1>5, <2>5, CrimePaysDoes, DoesIsCalled
  <2>6. ASSUME NEW f \in Fines, NEW t \in Sentences, CrimeFails(a, s, f, t)
        PROVE  Called(s, db', now) /\ Alone(s, db', a)
    BY <1>5, <2>6, CrimeFailsDoes, DoesIsCalled
  <2>7. ASSUME NEW n \in Amounts, PayTaxes(a, s, n) PROVE Called(s, db', now) /\ Alone(s, db', a)
    <3>1. n \in Nat
      BY LedgerAssumption
    <3>2. QED
      BY <1>5, <2>7, <3>1, PayTaxesDoes, DoesIsCalled
  <2>8. ASSUME NEW p \in Platforms, Run(a, s, p) PROVE Called(s, db', now) /\ Alone(s, db', a)
    BY <1>5, <2>8, RunIsCalled
  <2>9. ASSUME NEW b \in Players, Vote(a, s, b) PROVE Called(s, db', now) /\ Alone(s, db', a)
    BY <1>5, <2>9, VoteIsCalled
  <2>10. QED
    BY <1>4, <2>1, <2>2, <2>3, <2>4, <2>5, <2>6, <2>7, <2>8, <2>9
<1>8. Same(db, s) /\ Poll(s) = Poll(db)
  BY <1>1, <1>3, SameIsEquivalence
<1>9. Called(db, db', now)
  <2>1. Effect(db, db', now)
    BY <1>7, <1>8, SameEffect DEF Called
  <2>2. /\ s.mayor = db.mayor /\ s.term = db.term /\ s.end = db.end
        /\ Orderly(db, now) => Orderly(s, now)
    BY <1>8, PolledAlike
  <2>3. QED
    BY <1>7, <2>1, <2>2 DEF Called
<1>10. Others(db, db', a)
  <2>1. \A x \in Players \ {a} : Durable(db', x) = Durable(s, x)
    BY <1>7 DEF Alone, Durable
  <2>2. \A x \in Players : Durable(s, x) = Durable(db, x)
    BY <1>8 DEF Same
  <2>3. DOMAIN db.account \subseteq DOMAIN (db').account
    BY <1>1, <1>3, <1>7 DEF Alone
  <2>4. QED
    BY <2>1, <2>2, <2>3 DEF Others
<1>11. QED
  BY <1>6, <1>9, <1>10

\* Every call of a player.
LEMMA PlayersCall ==
  ASSUME db \in Economy, now \in Nat, NEW a \in Players, Interface(a) \/ Plays(a)
  PROVE  Begun(a) /\ Called(db, db', now) /\ (game' => Others(db, db', a))
  BY InterfaceCall, PlayCall

-----------------------------------------------------------------------------
(* The inductive invariant *)

Shape ==
  /\ db \in Economy /\ disk \in Economy
  /\ now \in 1..Larger(1, MaxTime)
  /\ phase \in {"idle", "save"} /\ caller \in Players \cup {Tick}
  /\ calls \in 0..MaxCalls /\ undone \in BOOLEAN /\ game \in BOOLEAN

Between ==
  phase = "idle" => Same(disk, db)

During ==
  phase = "save" =>
    /\ before \in Economy
    /\ Orderly(before, now) /\ Served(before, disk, now)
    /\ Same(disk, before)
    /\ IF caller = Tick THEN Ticked(before, db, now) ELSE Called(before, db, now)
    /\ game /\ caller # Tick => Others(before, db, caller)

LedgerInv ==
  /\ Shape
  /\ Orderly(db, now) /\ Orderly(disk, now)
  /\ Served(db, disk, now)
  /\ Between /\ During

\* Time breaks no order.
LEMMA OrderlyLater ==
  ASSUME NEW s \in Economy, NEW d \in Economy, NEW n \in Nat
  PROVE  /\ Orderly(s, n) => Orderly(s, n + 1)
         /\ Served(s, d, n) => Served(s, d, n + 1)
<1>1. s.end \in Nat /\ s.term \in Nat /\ d.term \in Nat /\ PollsOpen \in Nat
  BY LedgerAssumption DEF Economy
<1>2. QED
  BY <1>1 DEF Orderly, Served

\* A fresh economy.
LEMMA InitInv == Init => LedgerInv
<1> SUFFICES ASSUME Init PROVE LedgerInv
  OBVIOUS
<1>1. PICK s : s = [account |-> <<>>, treasury |-> InitialTreasury, welfare |-> InitialWelfare,
                    mayor |-> Nobody, term |-> 0, end |-> 0, candidates |-> <<>>,
                    votes |-> <<>>, granted |-> 0, outside |-> 0]
  OBVIOUS
<1>2. db = s /\ disk = s /\ phase = "idle" /\ caller = Tick /\ now = 1 /\ calls = 0
      /\ undone = FALSE /\ game = FALSE
  BY <1>1 DEF Init, InitCall
<1>3. s \in Economy
  <2>1. \A V : <<>> \in [{} -> V] /\ {} \in SUBSET Players
    OBVIOUS
  <2>2. \A V : <<>> \in Tables(V)
    BY <2>1 DEF Tables
  <2>3. <<>> \in Seq(Candidacy)
    OBVIOUS
  <2>4. InitialTreasury \in Nat /\ InitialWelfare \in Nat
    BY LedgerAssumption
  <2>5. QED
    BY <1>1, <2>2, <2>3, <2>4 DEF Economy
<1>4. Orderly(s, now)
  <2>1. 0 <= 1 + PollsOpen
    BY LedgerAssumption
  <2>2. QED
    BY <1>1, <1>2, <2>1 DEF Orderly
<1>5. Shape
  <2>1. now \in 1..Larger(1, MaxTime) /\ calls \in 0..MaxCalls
    BY <1>2, CallAssumption DEF Larger
  <2>2. QED
    BY <1>2, <1>3, <2>1 DEF Shape
<1>6. Served(s, s, now) /\ Same(s, s)
  BY SameIsEquivalence DEF Served
<1>7. QED
  BY <1>2, <1>4, <1>5, <1>6 DEF LedgerInv, Between, During

\* The call of a player, up to its save.
LEMMA PlayersKeepInv ==
  ASSUME LedgerInv, NEW a \in Players, Interface(a) \/ Plays(a)
  PROVE  LedgerInv'
<1>1. db \in Economy /\ now \in Nat
  BY DEF LedgerInv, Shape
<1>2. Begun(a) /\ Called(db, db', now) /\ (game' => Others(db, db', a))
  BY <1>1, PlayersCall
<1>3. /\ phase = "idle" /\ phase' = "save" /\ calls' = calls + 1 /\ calls < MaxCalls
      /\ caller' = a /\ before' = db /\ game' \in BOOLEAN
      /\ now' = now /\ undone' = undone /\ disk' = disk
  BY <1>2 DEF Begun
<1>4. Shape'
  <2>1. calls' \in 0..MaxCalls
    BY <1>3, CallAssumption DEF LedgerInv, Shape
  <2>2. db' \in Economy
    BY <1>2 DEF Called
  <2>3. QED
    BY <1>3, <2>1, <2>2 DEF LedgerInv, Shape
<1>5. Orderly(db', now) /\ Served(db', disk, now)
  BY <1>2 DEF LedgerInv, Called, Served
<1>6. Same(disk, db) /\ Served(db, disk, now)
  BY <1>3 DEF LedgerInv, Between
<1>7. a # Tick
  BY LedgerAssumption
<1>8. During'
  BY <1>1, <1>2, <1>3, <1>6, <1>7 DEF During, LedgerInv
<1>9. Between'
  BY <1>3 DEF Between
<1>10. QED
  BY <1>3, <1>4, <1>5, <1>8, <1>9 DEF LedgerInv

\* A tick, up to its save.
LEMMA TickKeepsInv ==
  ASSUME LedgerInv, TickAll
  PROVE  LedgerInv'
<1>1. db \in Economy /\ now \in Nat /\ Orderly(db, now)
  BY DEF LedgerInv, Shape
<1>2. Ticked(db, db', now)
  BY <1>1, TickAllIsTicked
<1>3. /\ phase = "idle" /\ phase' = "save" /\ calls' = calls + 1 /\ calls < MaxCalls
      /\ caller' = Tick /\ before' = db /\ game' = FALSE
      /\ now' = now /\ undone' = undone /\ disk' = disk
  BY DEF TickAll, Idle, Do, Call
<1>4. Shape'
  <2>1. calls' \in 0..MaxCalls
    BY <1>3, CallAssumption DEF LedgerInv, Shape
  <2>2. db' \in Economy
    BY <1>2 DEF Ticked
  <2>3. QED
    BY <1>3, <2>1, <2>2 DEF LedgerInv, Shape
<1>5. Orderly(db', now) /\ Elected(db, db')
  BY <1>1, <1>2 DEF Ticked
<1>6. Same(disk, db) /\ Served(db, disk, now)
  BY <1>3 DEF LedgerInv, Between
<1>7. Served(db', disk, now)
  BY <1>1, <1>5, <1>6 DEF Elected, Served, Orderly
<1>8. During'
  BY <1>1, <1>2, <1>3, <1>6 DEF During
<1>9. Between'
  BY <1>3 DEF Between
<1>10. QED
  BY <1>3, <1>4, <1>5, <1>7, <1>8, <1>9 DEF LedgerInv

\* A call that returns leaves what it did, what was before, or that with the
\* account of its caller opened.
LEMMA ReturnKeepsInv ==
  ASSUME LedgerInv, Return, game' \in BOOLEAN, undone' \in BOOLEAN,
         db' \in Economy, disk' \in Economy,
         Orderly(db', now), Orderly(disk', now), Served(db', disk', now), Same(disk', db')
  PROVE  LedgerInv'
<1>1. phase' = "idle" /\ caller' = Tick /\ now' = now /\ calls' = calls
  BY DEF Return
<1>2. Shape'
  BY <1>1 DEF LedgerInv, Shape
<1>3. QED
  BY <1>1, <1>2 DEF LedgerInv, Between, During

\* After a failed call the caller has what there was before, and the others
\* what they have: the same but for what was moved.
LEMMA PutBackIs ==
  ASSUME NEW s \in Economy, NEW u \in Economy, NEW a \in Players, Others(s, u, a),
         NEW t, t = [Opened(s, a) EXCEPT !.account =
                       [x \in DOMAIN @ |-> IF x = a THEN @[x] ELSE u.account[x]]]
  PROVE  t \in Economy /\ Same(s, t) /\ Poll(t) = Poll(s)
<1>1. PICK o \in Economy : o = Opened(s, a) /\ a \in DOMAIN o.account
  BY OpenedKeeps
<1>2. Same(s, o) /\ Poll(o) = Poll(s)
  BY <1>1, OpenedIsSame
<1>3. PICK D \in SUBSET Players : o.account \in [D -> Account]
  BY DEF Economy, Tables
<1>4. PICK E \in SUBSET Players : u.account \in [E -> Account]
  BY DEF Economy, Tables
<1>5. D \ {a} \subseteq DOMAIN s.account /\ D \ {a} \subseteq E
  <2>1. DOMAIN o.account \subseteq DOMAIN s.account \cup {a}
    BY <1>1 DEF Opened, With, Economy
  <2>2. QED
    BY <1>3, <1>4, <2>1 DEF Others
<1>6. PICK f : f = [x \in D |-> IF x = a THEN o.account[x] ELSE u.account[x]]
  OBVIOUS
<1>7. f \in [D -> Account]
  BY <1>3, <1>4, <1>5, <1>6
<1>8. f \in Tables(Account)
  BY <1>7 DEF Tables
<1>9. t = [o EXCEPT !.account = f]
  BY <1>1, <1>3, <1>6 DEF Economy
<1>10. /\ t \in Economy /\ t.account = f /\ Poll(t) = Poll(o)
       /\ t.treasury = o.treasury /\ t.granted = o.granted /\ t.outside = o.outside
  BY <1>8, <1>9 DEF Economy, Poll
<1>11. ASSUME NEW x \in Players PROVE Durable(t, x) = Durable(s, x)
  <2>1. Durable(o, x) = Durable(s, x)
    BY <1>2 DEF Same
  <2>2. CASE x = a \/ x \notin D
    <3>1. AccountOf(t, x) = AccountOf(o, x)
      BY <1>1, <1>3, <1>6, <1>10, <2>2 DEF AccountOf
    <3>2. QED
      BY <2>1, <3>1 DEF Durable
  <2>3. CASE x \in D \ {a}
    <3>1. AccountOf(t, x) = AccountOf(u, x)
      BY <1>4, <1>5, <1>6, <1>10, <2>3 DEF AccountOf
    <3>2. Durable(u, x) = Durable(s, x)
      BY <2>3 DEF Others
    <3>3. QED
      BY <3>1, <3>2 DEF Durable
  <2>4. QED
    BY <2>2, <2>3
<1>12. QED
  BY <1>2, <1>10, <1>11 DEF Same, NetTreasury

\* Saves, and what the four ways to fail put back or keep.
LEMMA SavesKeepInv ==
  ASSUME LedgerInv, SaveSucceeds \/ TickNotSaved \/ CallNotSaved \/ PlayNotSaved
  PROVE  LedgerInv'
<1>1. /\ phase = "save" /\ Return
      /\ Shape /\ Orderly(db, now) /\ Orderly(disk, now) /\ Served(db, disk, now) /\ During
  BY DEF SaveSucceeds, TickNotSaved, CallNotSaved, PlayNotSaved, Saved, KeptUnsaved, PutBack,
         NotSaved, LedgerInv
<1>2. /\ before \in Economy /\ Orderly(before, now) /\ Served(before, disk, now) /\ Same(disk, before)
      /\ IF caller = Tick THEN Ticked(before, db, now) ELSE Called(before, db, now)
  BY <1>1 DEF During
<1>3. CASE SaveSucceeds
  <2>1. db' = db /\ disk' = db /\ undone' = undone /\ game' = FALSE
    BY <1>3 DEF SaveSucceeds, Saved
  <2>2. Served(db, db, now) /\ Same(db, db)
    BY SameIsEquivalence DEF Served
  <2>3. QED
    BY <1>1, <2>1, <2>2, ReturnKeepsInv DEF Shape
<1>4. CASE TickNotSaved
  <2>1. db' = db /\ disk' = disk /\ undone' = undone /\ game' = FALSE /\ caller = Tick
    BY <1>4 DEF TickNotSaved, KeptUnsaved
  <2>2. Same(disk, db)
    BY <1>2, <2>1, SameIsEquivalence DEF Ticked
  <2>3. QED
    BY <1>1, <2>1, <2>2, ReturnKeepsInv DEF Shape
<1>5. CASE CallNotSaved
  <2>1. db' = before /\ disk' = disk /\ undone' = TRUE /\ game' = game
    BY <1>5 DEF CallNotSaved, PutBack
  <2>2. QED
    BY <1>1, <1>2, <2>1, ReturnKeepsInv DEF Shape
<1>6. CASE PlayNotSaved
  <2>1. /\ db' = [Opened(before, caller) EXCEPT !.account =
                    [x \in DOMAIN @ |-> IF x = caller THEN @[x] ELSE db.account[x]]]
        /\ disk' = disk /\ undone' = TRUE /\ game' = FALSE
        /\ caller \in Players /\ Others(before, db, caller) /\ db \in Economy
    BY <1>1, <1>6 DEF PlayNotSaved, PutBack, Shape, During
  <2>2. /\ db' \in Economy /\ Same(before, db') /\ Poll(db') = Poll(before)
    BY <1>2, <2>1, PutBackIs
  <2>3. Orderly(db', now) /\ Served(db', disk, now)
    BY <1>2, <2>2, PolledAlike
  <2>4. Same(disk, db')
    BY <1>2, <2>2, SameIsEquivalence
  <2>5. QED
    BY <1>1, <2>1, <2>2, <2>3, <2>4, ReturnKeepsInv DEF Shape
<1>7. QED
  BY <1>3, <1>4, <1>5, <1>6

\* The process reads back what was saved last.
LEMMA RestartKeepsInv ==
  ASSUME LedgerInv, Restart
  PROVE  LedgerInv'
<1>1. Return /\ db' = disk /\ disk' = disk /\ undone' = undone /\ game' = FALSE
  BY DEF Restart
<1>2. Shape /\ Orderly(disk, now)
  BY DEF LedgerInv
<1>3. Served(disk, disk, now) /\ Same(disk, disk)
  BY SameIsEquivalence DEF Served
<1>4. QED
  BY <1>1, <1>2, <1>3, ReturnKeepsInv DEF Shape

\* Time passes between calls.
LEMMA PassesKeepsInv ==
  ASSUME LedgerInv, Passes
  PROVE  LedgerInv'
<1>1. /\ phase = "idle" /\ now < MaxTime /\ now' = now + 1
      /\ UNCHANGED <<db, phase, caller, before, calls, undone, disk, game>>
  BY DEF Passes, Later
<1>2. Shape /\ now \in Nat
  BY DEF LedgerInv, Shape
<1>3. Shape'
  <2>1. now' \in 1..Larger(1, MaxTime)
    BY <1>1, <1>2, CallAssumption DEF Shape, Larger
  <2>2. QED
    BY <1>1, <1>2, <2>1 DEF Shape
<1>4. Orderly(db, now + 1) /\ Orderly(disk, now + 1) /\ Served(db, disk, now + 1)
  BY <1>2, OrderlyLater DEF LedgerInv, Shape
<1>5. QED
  BY <1>1, <1>3, <1>4 DEF LedgerInv, Between, During

\* Every step.
LEMMA NextInv == LedgerInv /\ [Next]_ledgerVars => LedgerInv'
<1> SUFFICES ASSUME LedgerInv, [Next]_ledgerVars PROVE LedgerInv'
  OBVIOUS
<1>1. CASE UNCHANGED ledgerVars
  BY <1>1 DEF ledgerVars, vars, LedgerInv, Shape, Between, During
<1>2. ASSUME NEW a \in Players, Interface(a) \/ Plays(a) PROVE LedgerInv'
  BY <1>2, PlayersKeepInv
<1>3. CASE TickAll
  BY <1>3, TickKeepsInv
<1>4. CASE SaveSucceeds \/ TickNotSaved \/ CallNotSaved \/ PlayNotSaved
  BY <1>4, SavesKeepInv
<1>5. CASE Restart
  BY <1>5, RestartKeepsInv
<1>6. CASE Passes
  BY <1>6, PassesKeepsInv
<1>7. QED
  BY <1>1, <1>2, <1>3, <1>4, <1>5, <1>6 DEF Next

\* The inductive invariant holds.
LEMMA Invariant == Spec => []LedgerInv
  BY InitInv, NextInv, PTL DEF Spec

-----------------------------------------------------------------------------
(* What follows *)

\* Every account, the treasury and the election keep their shape: above all
\* no wallet, checking account or treasury is ever overdrawn.
THEOREM TypeCorrect == Spec => []TypeOK
<1>1. LedgerInv => TypeOK
  <2> SUFFICES ASSUME LedgerInv PROVE TypeOK
    OBVIOUS
  <2>1. Shape /\ db \in Economy
    BY DEF LedgerInv, Shape
  <2>2. \A a \in DOMAIN db.account : a \in Players /\ db.account[a] \in Account
    BY <2>1 DEF Economy, Tables
  <2>3. /\ {db.treasury, db.welfare, db.term, db.end} \subseteq Nat /\ db.granted \in Int
        /\ db.mayor \in Players \cup {Nobody}
    BY <2>1 DEF Economy
  <2>4. db.candidates \in Seq([player : Players, platform : Platforms])
    BY <2>1 DEF Economy, Candidacy
  <2>5. QED
    BY <2>1, <2>2, <2>3, <2>4 DEF TypeOK, TypeOKCall, Shape
<1>2. QED
  BY <1>1, Invariant, PTL

\* Between calls no account and no treasury in memory is ahead of the disk.
THEOREM MemoryIsWhatTheDiskHolds == Spec => []MemoryIsDisk
<1>1. LedgerInv => MemoryIsDisk
  BY DEF LedgerInv, Between, Same, MemoryIsDisk
<1>2. QED
  BY <1>1, Invariant, PTL

\* Every vote is for a candidate of an election under way, and every candidate
\* stands once.
THEOREM ElectionsInOrder == Spec => []ElectionInOrder
<1>1. LedgerInv => ElectionInOrder
  BY DEF LedgerInv, Orderly, ElectionInOrder
<1>2. QED
  BY <1>1, Invariant, PTL

-----------------------------------------------------------------------------
(* Cash *)

Balance(s) == Total(WorthOf(s)) + NetTreasury(s) + s.outside

\* The money of a player.
LEMMA WorthShape ==
  ASSUME NEW s \in Economy
  PROVE  /\ WorthOf(s) \in [Players -> Int]
         /\ \A a \in Players : WorthOf(s)[a] = W(AccountOf(s, a))
         /\ Total(WorthOf(s)) \in Int /\ NetTreasury(s) \in Int /\ s.outside \in Int
<1>1. WorthOf(s) = [a \in Players |-> W(AccountOf(s, a))]
  BY DEF WorthOf, W
<1>2. WorthOf(s) \in [Players -> Int]
  BY <1>1, AccountShape, WorthIs
<1>3. Total(WorthOf(s)) \in Int
  BY <1>2, TotalInt, LedgerAssumption
<1>4. NetTreasury(s) \in Int /\ s.outside \in Int
  BY DEF NetTreasury, Economy
<1>5. QED
  BY <1>1, <1>2, <1>3, <1>4

\* Sentences, elections and moves are not money.
LEMMA SameWorth ==
  ASSUME NEW s \in Economy, NEW t \in Economy, Same(s, t)
  PROVE  /\ WorthOf(t) = WorthOf(s) /\ NetTreasury(t) = NetTreasury(s) /\ t.outside = s.outside
         /\ \A a \in Players : AccountOf(t, a).last = AccountOf(s, a).last
<1>1. \A a \in Players : /\ W(AccountOf(t, a)) = W(AccountOf(s, a))
                        /\ AccountOf(t, a).last = AccountOf(s, a).last
  BY DurableWorth DEF Same
<1>2. WorthOf(t) = WorthOf(s)
  BY <1>1 DEF WorthOf, W
<1>3. QED
  BY <1>1, <1>2 DEF Same

\* What one effect gives it takes.
LEMMA EffectBalances ==
  ASSUME NEW s \in Economy, NEW t \in Economy, NEW n, Effect(s, t, n)
  PROVE  Balance(t) = Balance(s)
<1>1. PICK f \in [Players -> Int], g \in [Players -> Int] :
        /\ f = WorthOf(s) /\ g = WorthOf(t)
        /\ \A a \in Players : f[a] = W(AccountOf(s, a)) /\ g[a] = W(AccountOf(t, a))
        /\ Total(f) \in Int /\ Total(g) \in Int
        /\ NetTreasury(s) \in Int /\ NetTreasury(t) \in Int /\ s.outside \in Int /\ t.outside \in Int
  BY WorthShape
<1>2. ASSUME NEW a \in Players, Concerned(s, t, a, n) PROVE Balance(t) = Balance(s)
  <2>0. IsFiniteSet(Players)
    BY LedgerAssumption
  <2>1. \A x \in Players \ {a} : g[x] = f[x]
    BY <1>1, <1>2, DurableWorth DEF Concerned
  <2>2. Total(g) = Total(f) + g[a] - f[a]
    BY <2>0, <2>1, TotalUpdated
  <2>3. g[a] \in Int /\ f[a] \in Int
    OBVIOUS
  <2>4. (NetTreasury(t) - NetTreasury(s)) + (t.outside - s.outside) = f[a] - g[a]
    <3>1. PICK dt, do : dt = NetTreasury(t) - NetTreasury(s) /\ do = t.outside - s.outside
      OBVIOUS
    <3>2. PICK p, r : p = AccountOf(s, a) /\ r = AccountOf(t, a)
      OBVIOUS
    <3>3. One(p, r, dt, do, n) /\ W(p) = f[a] /\ W(r) = g[a]
      BY <1>1, <1>2, <3>1, <3>2 DEF Concerned
    <3>4. \/ dt = 0 /\ do = W(p) - W(r)
          \/ dt = W(p) - W(r) /\ do = 0
      <4>1. CASE Rearranges(p, r, dt, do)
        BY <2>3, <3>3, <4>1 DEF Rearranges
      <4>2. CASE Pays(p, r, dt, do)
        BY <4>2 DEF Pays
      <4>3. CASE Claims(p, r, dt, do, n)
        BY <4>3 DEF Claims
      <4>4. QED
        BY <3>3, <4>1, <4>2, <4>3 DEF One
    <3>5. dt + do = f[a] - g[a]
      BY <2>3, <3>3, <3>4
    <3>6. QED
      BY <3>1, <3>5
  <2>5. QED
    BY <1>1, <2>2, <2>3, <2>4 DEF Balance
<1>3. ASSUME NEW a \in Players, NEW b \in Players, Transferred(s, t, a, b)
      PROVE  Balance(t) = Balance(s)
  <2>0. IsFiniteSet(Players)
    BY LedgerAssumption
  <2>1. PICK h \in [Players -> Int] : h = [f EXCEPT ![a] = g[a]]
    OBVIOUS
  <2>2. /\ a # b /\ NetTreasury(t) = NetTreasury(s) /\ t.outside = s.outside
        /\ g[b] = f[b] + f[a] - g[a]
        /\ \A x \in Players \ {a, b} : g[x] = f[x]
    BY <1>1, <1>3, DurableWorth DEF Transferred
  <2>3. /\ \A x \in Players \ {a} : h[x] = f[x]
        /\ \A x \in Players \ {b} : g[x] = h[x]
        /\ h[a] = g[a] /\ h[b] = f[b]
    BY <2>1, <2>2
  <2>4. Total(h) = Total(f) + h[a] - f[a]
    BY <2>0, <2>3, TotalUpdated
  <2>5. Total(g) = Total(h) + g[b] - h[b]
    BY <2>0, <2>3, TotalUpdated
  <2>6. g[a] \in Int /\ f[a] \in Int /\ f[b] \in Int
    OBVIOUS
  <2>7. Total(g) = Total(f)
    BY <1>1, <2>2, <2>3, <2>4, <2>5, <2>6
  <2>8. QED
    BY <1>1, <2>2, <2>7 DEF Balance
<1>4. QED
  BY <1>2, <1>3 DEF Effect

\* The memory holds as much as the disk, in every step.
LEMMA MemoryBalances ==
  ASSUME LedgerInv
  PROVE  Balance(db) = Balance(disk)
<1>1. db \in Economy /\ disk \in Economy /\ phase \in {"idle", "save"}
  BY DEF LedgerInv, Shape
<1>2. CASE phase = "idle"
  <2>1. Same(disk, db)
    BY <1>2 DEF LedgerInv, Between
  <2>2. QED
    BY <1>1, <2>1, SameWorth DEF Balance
<1>3. CASE phase = "save"
  <2>1. /\ before \in Economy /\ Same(disk, before)
        /\ Ticked(before, db, now) \/ Called(before, db, now)
    BY <1>3 DEF LedgerInv, During
  <2>2. Balance(before) = Balance(disk)
    BY <1>1, <2>1, SameWorth DEF Balance
  <2>3. Balance(db) = Balance(before)
    <3>1. CASE Ticked(before, db, now)
      BY <1>1, <2>1, <3>1, SameWorth DEF Balance, Ticked
    <3>2. CASE Called(before, db, now)
      BY <1>1, <2>1, <3>2, EffectBalances DEF Called
    <3>3. QED
      BY <2>1, <3>1, <3>2
  <2>4. QED
    BY <2>2, <2>3
<1>4. QED
  BY <1>1, <1>2, <1>3

\* Cash is conserved, in memory as on disk: see CashConserved.
THEOREM CashIsConserved == Spec => []CashConserved
<1> DEFINE Kept0 == Balance(disk) = Cardinality(Players) * Starting + InitialTreasury
<1>1. Init => Kept0
  <2> SUFFICES ASSUME Init PROVE Kept0
    OBVIOUS
  <2>1. /\ disk.account = <<>> /\ disk.treasury = InitialTreasury /\ disk.granted = 0
        /\ disk.outside = 0
    BY DEF Init, InitCall
  <2>2. WorthOf(disk) = [a \in Players |-> Starting]
    <3>1. \A a \in Players : a \notin DOMAIN disk.account
      BY <2>1
    <3>2. \A a \in Players : AccountOf(disk, a) = NewAccount
      BY <3>1 DEF AccountOf
    <3>3. W(NewAccount) = Starting
      <4>1. /\ Net(NewAccount)["wallet"] = Starting - 0 /\ Net(NewAccount)["checking"] = 0 - 0
            /\ Net(NewAccount)["savings"] = 0 - 0
        BY DEF Net, NewAccount, Balances
      <4>2. Starting \in Nat
        BY LedgerAssumption
      <4>3. QED
        BY <4>1, <4>2 DEF W
    <3>4. QED
      BY <3>2, <3>3 DEF WorthOf, W
  <2>3. Total(WorthOf(disk)) = Cardinality(Players) * Starting
    BY <2>2, TotalConstant, LedgerAssumption
  <2>4. InitialTreasury \in Nat /\ Starting \in Nat /\ Cardinality(Players) \in Nat
    BY LedgerAssumption, FS_CardinalityType
  <2>5. Cardinality(Players) * Starting \in Int
    BY <2>4
  <2>6. NetTreasury(disk) = InitialTreasury
    BY <2>1, <2>4 DEF NetTreasury
  <2>7. QED
    BY <2>1, <2>3, <2>4, <2>5, <2>6 DEF Balance
<1>2. LedgerInv /\ Kept0 /\ [Next]_ledgerVars => Kept0'
  <2> SUFFICES ASSUME LedgerInv, Kept0, [Next]_ledgerVars PROVE Kept0'
    OBVIOUS
  <2>1. disk' = disk \/ disk' = db
    <3>1. \A a \in Players : Interface(a) \/ Plays(a) => disk' = disk
      BY PlayersCall DEF LedgerInv, Shape, Begun
    <3>2. QED
      BY <3>1 DEF Next, TickAll, Do, SaveSucceeds, TickNotSaved, CallNotSaved, PlayNotSaved, Restart,
                  Passes, ledgerVars
  <2>2. Balance(disk') = Balance(disk)
    BY <2>1, MemoryBalances
  <2>3. Kept0' <=> Balance(disk') = Cardinality(Players) * Starting + InitialTreasury
    BY DEF Balance
  <2>4. QED
    BY <2>2, <2>3
<1>3. LedgerInv /\ Kept0 => CashConserved
  BY MemoryBalances DEF Balance, CashConserved
<1>4. QED
  <2> HIDE DEF Kept0
  <2> QED
    BY <1>1, <1>2, <1>3, Invariant, PTL DEF Spec

-----------------------------------------------------------------------------
(* The book *)

ClaimedOf(s) == [a \in Players |-> AccountOf(s, a).last]

\* What is the same is the same in the book.
LEMMA SameBook ==
  ASSUME NEW s \in Economy, NEW t \in Economy, Same(s, t)
  PROVE  WorthOf(t) = WorthOf(s) /\ NetTreasury(t) = NetTreasury(s) /\ ClaimedOf(t) = ClaimedOf(s)
  BY SameWorth DEF ClaimedOf

\* The economy the book tells of is, for an account, the one on disk.
LEMMA KeptIsDisk ==
  ASSUME LedgerInv
  PROVE  Kept \in Economy /\ Same(disk, Kept)
  BY DEF LedgerInv, Shape, Between, During, Kept

\* The effect of a call that was saved is one entry of the book.
LEMMA EffectIsInBook ==
  ASSUME LedgerInv, LedgerInv', now' = now, Kept' \in Economy, Effect(Kept, Kept', now)
  PROVE  [AsBook!BookNext]_(AsBook!bookVars)
<1>1. PICK s \in Economy, t \in Economy : s = Kept /\ t = Kept' /\ Effect(s, t, now)
  BY KeptIsDisk
<1>2. PICK f \in [Players -> Int], g \in [Players -> Int] :
        /\ f = WorthOf(s) /\ g = WorthOf(t)
        /\ \A a \in Players : f[a] = W(AccountOf(s, a)) /\ g[a] = W(AccountOf(t, a))
        /\ NetTreasury(s) \in Int /\ NetTreasury(t) \in Int
  BY WorthShape
<1>3. PICK c \in [Players -> [Kinds -> Nat]], d \in [Players -> [Kinds -> Nat]] :
        /\ c = ClaimedOf(s) /\ d = ClaimedOf(t)
        /\ \A a \in Players : c[a] = AccountOf(s, a).last /\ d[a] = AccountOf(t, a).last
  <2>1. \A u \in Economy : /\ ClaimedOf(u) \in [Players -> [Kinds -> Nat]]
                           /\ \A a \in Players : ClaimedOf(u)[a] = AccountOf(u, a).last
    BY AccountShape DEF ClaimedOf, Account
  <2>2. QED
    BY <2>1
<1>0. PICK tr \in Int, tt \in Int : tr = NetTreasury(s) /\ tt = NetTreasury(t)
  BY <1>2
<1>4. /\ WorthOf(Kept) = f /\ WorthOf(Kept)' = g
      /\ NetTreasury(Kept) = tr /\ NetTreasury(Kept)' = tt
      /\ [a \in Players |-> AccountOf(Kept, a).last] = c
      /\ [a \in Players |-> AccountOf(Kept, a).last]' = d
  BY <1>0, <1>1, <1>2, <1>3 DEF ClaimedOf
<1>5. ASSUME NEW a \in Players, Concerned(s, t, a, now) PROVE [AsBook!BookNext]_(AsBook!bookVars)
  <2>1. PICK p, r, dt, do :
          /\ p = AccountOf(s, a) /\ r = AccountOf(t, a)
          /\ dt = tt - tr /\ do = t.outside - s.outside
    OBVIOUS
  <2>2. /\ \A x \in Players \ {a} : g[x] = f[x] /\ d[x] = c[x]
        /\ One(p, r, dt, do, now)
        /\ W(p) = f[a] /\ W(r) = g[a] /\ p.last = c[a] /\ r.last = d[a]
    <3>1. /\ \A x \in Players \ {a} : Durable(t, x) = Durable(s, x)
          /\ One(p, r, dt, do, now)
      BY <1>0, <1>5, <2>1 DEF Concerned
    <3>2. \A x \in Players \ {a} : /\ W(AccountOf(t, x)) = W(AccountOf(s, x))
                                  /\ AccountOf(t, x).last = AccountOf(s, x).last
      BY <3>1, DurableWorth
    <3>3. QED
      BY <1>2, <1>3, <2>1, <3>1, <3>2
  <2>3. /\ f[a] \in Int /\ g[a] \in Int /\ g = [f EXCEPT ![a] = g[a]]
        /\ dt = 0 => tt = tr
        /\ dt = f[a] - g[a] => tt = tr + f[a] - g[a]
    <3>1. f[a] \in Int /\ g[a] \in Int /\ g = [f EXCEPT ![a] = g[a]]
      BY <2>2
    <3>2. dt = tt - tr /\ tt \in Int /\ tr \in Int
      BY <1>2, <2>1
    <3>3. PICK x \in Int, y \in Int, u \in Int, v \in Int :
            x = f[a] /\ y = g[a] /\ u = tr /\ v = tt /\ dt = v - u
      BY <3>1, <3>2
    <3>4. (v - u = 0 => v = u) /\ (v - u = x - y => v = u + x - y)
      OBVIOUS
    <3>5. dt = 0 => v = u
      BY <3>3, <3>4
    <3>6. dt = x - y => v = u + x - y
      BY <3>3, <3>4
    <3>7. QED
      BY <3>1, <3>3, <3>5, <3>6
  <2>4. CASE g = f /\ d = c /\ tt = tr
    BY <1>4, <2>4 DEF AsBook!bookVars
  <2>5. CASE Rearranges(p, r, dt, do)
    <3>1. g = f /\ d = c /\ tt = tr
      <4>1. dt = 0 /\ g[a] = f[a] /\ d[a] = c[a]
        BY <2>2, <2>5 DEF Rearranges
      <4>2. QED
        BY <2>2, <2>3, <4>1
    <3>2. QED
      BY <2>4, <3>1
  <2>6. CASE Pays(p, r, dt, do)
    <3>1. /\ g[a] < f[a] /\ d = c
          /\ tt \in {tr, tr + f[a] - g[a]}
      <4>1. g[a] < f[a] /\ d[a] = c[a] /\ (dt = 0 \/ dt = f[a] - g[a])
        BY <2>2, <2>6 DEF Pays
      <4>2. d = c
        BY <2>2, <4>1
      <4>3. QED
        BY <2>3, <4>1, <4>2
    <3>2. AsBook!Pay(a)
      BY <1>4, <2>3, <3>1 DEF AsBook!Pay, AsBook!Concerns
    <3>3. AsBook!Involved(a)
      BY <1>4, <2>3, <3>1 DEF AsBook!Involved
    <3>4. QED
      BY <3>2, <3>3 DEF AsBook!BookNext
  <2>7. CASE Claims(p, r, dt, do, now)
    <3>1. PICK k \in Kinds :
            /\ c[a][k] = 0 \/ now - c[a][k] >= Cooldown[k]
            /\ d[a] = [c[a] EXCEPT ![k] = now]
            /\ \/ g[a] >= f[a] /\ tt = tr
               \/ tt = tr + f[a] - g[a]
      BY <2>2, <2>3, <2>7 DEF Claims
    <3>2. d = [c EXCEPT ![a][k] = now]
      BY <2>2, <3>1
    <3>3. \/ g[a] + tt = f[a] + tr
          \/ g[a] >= f[a] /\ tt = tr
      <4>1. PICK x \in Int, y \in Int, u \in Int, v \in Int :
              x = f[a] /\ y = g[a] /\ u = tr /\ v = tt
        BY <1>2
      <4>2. v = u + x - y => y + v = x + u
        OBVIOUS
      <4>3. QED
        BY <3>1, <4>1, <4>2
    <3>4. AsBook!Claim(a, k)
      BY <1>4, <2>3, <3>1, <3>2, <3>3 DEF AsBook!Claim, AsBook!Claims, AsBook!Concerns
    <3>5. CASE g[a] # f[a] \/ d[a] # c[a]
      <4>1. AsBook!Involved(a)
        BY <1>4, <3>5 DEF AsBook!Involved
      <4>2. QED
        BY <3>4, <4>1 DEF AsBook!BookNext
    <3>6. CASE g[a] = f[a] /\ d[a] = c[a]
      <4>1. g = f /\ d = c /\ tt = tr
        BY <1>2, <2>2, <2>3, <3>1, <3>6
      <4>2. QED
        BY <2>4, <4>1
    <3>7. QED
      BY <3>5, <3>6
  <2>8. QED
    BY <2>2, <2>5, <2>6, <2>7 DEF One
<1>6. ASSUME NEW a \in Players, NEW b \in Players, Transferred(s, t, a, b)
      PROVE  [AsBook!BookNext]_(AsBook!bookVars)
  <2>1. /\ a # b /\ tt = tr
        /\ g[a] < f[a] /\ g[b] = f[b] + f[a] - g[a]
        /\ \A x \in Players \ {a, b} : g[x] = f[x]
        /\ d = c
    <3>1. /\ a # b /\ tt = tr
          /\ g[a] < f[a] /\ g[b] = f[b] + f[a] - g[a]
          /\ \A x \in Players \ {a, b} : g[x] = f[x]
      BY <1>0, <1>2, <1>6, DurableWorth DEF Transferred
    <3>2. \A x \in Players : d[x] = c[x]
      BY <1>3, <1>6, DurableWorth DEF Transferred
    <3>3. QED
      BY <3>1, <3>2
  <2>2. g = [f EXCEPT ![a] = g[a], ![b] = f[b] + f[a] - g[a]]
    BY <2>1
  <2>3. AsBook!Transfer(a, b)
    BY <1>4, <2>1, <2>2 DEF AsBook!Transfer
  <2>4. AsBook!Involved(a)
    BY <1>4, <2>1 DEF AsBook!Involved
  <2>5. QED
    BY <2>3, <2>4 DEF AsBook!BookNext
<1>7. QED
  BY <1>1, <1>5, <1>6 DEF Effect

\* Every step is an entry, the passing of time, or nothing the book knows of.
LEMMA StepsOfBook ==
  ASSUME LedgerInv, LedgerInv', [Next]_ledgerVars
  PROVE  [AsBook!BookNext]_(AsBook!bookVars)
<1>1. /\ Kept \in Economy /\ Same(disk, Kept) /\ disk \in Economy
      /\ Kept' \in Economy /\ Same(disk', Kept') /\ disk' \in Economy
  BY DEF LedgerInv, Shape, Between, During, Kept
<1>2. /\ WorthOf(Kept) = WorthOf(disk) /\ NetTreasury(Kept) = NetTreasury(disk)
      /\ ClaimedOf(Kept) = ClaimedOf(disk)
      /\ WorthOf(Kept') = WorthOf(disk') /\ NetTreasury(Kept') = NetTreasury(disk')
      /\ ClaimedOf(Kept') = ClaimedOf(disk')
  BY <1>1, SameBook
<1>3. ASSUME disk' = disk, now' = now PROVE [AsBook!BookNext]_(AsBook!bookVars)
  BY <1>2, <1>3 DEF AsBook!bookVars, ClaimedOf
<1>4. CASE SaveSucceeds
  <2>1. /\ phase = "save" /\ phase' = "idle" /\ db' = db /\ disk' = db /\ now' = now
    BY <1>4 DEF SaveSucceeds, Saved, Return
  <2>2. Kept = before /\ Kept' = db
    BY <2>1 DEF Kept
  <2>3. Ticked(before, db, now) \/ Called(before, db, now)
    BY <2>1 DEF LedgerInv, During
  <2>4. CASE Ticked(before, db, now)
    <3>1. Same(Kept, Kept')
      BY <2>2, <2>4 DEF Ticked
    <3>2. WorthOf(Kept') = WorthOf(Kept) /\ NetTreasury(Kept') = NetTreasury(Kept)
          /\ ClaimedOf(Kept') = ClaimedOf(Kept)
      BY <1>1, <3>1, SameBook
    <3>3. QED
      BY <2>1, <3>2 DEF AsBook!bookVars, ClaimedOf
  <2>5. CASE Called(before, db, now)
    <3>1. Effect(Kept, Kept', now)
      BY <2>2, <2>5 DEF Called
    <3>2. QED
      BY <1>1, <2>1, <3>1, EffectIsInBook
  <2>6. QED
    BY <2>3, <2>4, <2>5
<1>5. CASE Passes
  <2>1. now' = now + 1 /\ disk' = disk
    BY <1>5 DEF Passes, Later
  <2>2. AsBook!Later
    BY <1>2, <2>1 DEF AsBook!Later, ClaimedOf
  <2>3. QED
    BY <2>2 DEF AsBook!BookNext
<1>6. CASE UNCHANGED ledgerVars
  BY <1>3, <1>6 DEF ledgerVars, vars
<1>7. ASSUME NEW a \in Players, Interface(a) \/ Plays(a) PROVE [AsBook!BookNext]_(AsBook!bookVars)
  <2>1. Begun(a)
    BY <1>7, PlayersCall DEF LedgerInv, Shape
  <2>2. QED
    BY <1>3, <2>1 DEF Begun
<1>8. CASE TickAll \/ TickNotSaved \/ CallNotSaved \/ PlayNotSaved \/ Restart
  <2>1. disk' = disk /\ now' = now
    BY <1>8 DEF TickAll, Do, Call, TickNotSaved, CallNotSaved, PlayNotSaved, KeptUnsaved, PutBack,
                Restart, Return
  <2>2. QED
    BY <1>3, <2>1
<1>9. QED
  BY <1>4, <1>5, <1>6, <1>7, <1>8 DEF Next

\* The ledger implements AccountBook, whatever saves fail and whenever the
\* process starts again.
THEOREM BookIsKept == Spec => BookKept
<1>1. Init => AsBook!BookInit
  <2> SUFFICES ASSUME Init PROVE AsBook!BookInit
    OBVIOUS
  <2>1. db.account = <<>> /\ phase = "idle" /\ now = 1
    BY DEF Init, InitCall
  <2>2. Kept = db /\ db \in Economy
    BY <2>1, InitInv DEF Kept, LedgerInv, Shape
  <2>3. \A a \in Players : AccountOf(db, a).last = [k \in Kinds |-> 0]
    BY <2>1 DEF AccountOf, NewAccount
  <2>4. WorthOf(db) \in [Players -> Int] /\ NetTreasury(db) \in Int
    BY <2>2, WorthShape
  <2>5. QED
    BY <2>1, <2>2, <2>3, <2>4 DEF AsBook!BookInit
<1>2. LedgerInv /\ LedgerInv' /\ [Next]_ledgerVars => [AsBook!BookNext]_(AsBook!bookVars)
  BY StepsOfBook
<1>3. QED
  BY <1>1, <1>2, Invariant, PTL DEF Spec, BookKept, AsBook!Book

-----------------------------------------------------------------------------
(* Mayors *)

MostVotes(s) == Max({VotesFor(s, c) : c \in Candidates(s)})

\* The winner of the fold over the candidates is the one the rule names.
LEMMA WinnerIsBest ==
  ASSUME NEW s \in Economy, s.candidates # <<>>
  PROVE  Winner(s).player = Min({c \in Candidates(s) : VotesFor(s, c) = MostVotes(s)})
<1>1. PICK i \in DOMAIN s.candidates :
        /\ Winner(s) = s.candidates[i] /\ s.candidates[i] \in Candidacy
        /\ \A j \in DOMAIN s.candidates : ~Better(s, s.candidates[j], s.candidates[i])
  BY WinnerWins
<1>2. PICK w \in Players : w = Winner(s).player /\ w = s.candidates[i].player
  BY <1>1 DEF Candidacy
<1>3. PICK C \in SUBSET Nat : C = Candidates(s) /\ w \in C /\ C \subseteq Players
  <2>1. s.candidates \in Seq(Candidacy)
    BY DEF Economy
  <2>2. ASSUME NEW j \in DOMAIN s.candidates PROVE s.candidates[j].player \in Players
    <3>1. s.candidates[j] \in Candidacy
      BY <2>1
    <3>2. QED
      BY <3>1 DEF Candidacy
  <2>3. Candidates(s) \subseteq Players
    BY <2>2 DEF Candidates
  <2>4. QED
    BY <1>2, <2>3, LedgerAssumption DEF Candidates
<1>4. PICK v \in [Players -> Nat] : \A c \in Players : v[c] = VotesFor(s, c)
  <2>1. [c \in Players |-> VotesFor(s, c)] \in [Players -> Nat]
    BY BetterIsOrder
  <2>2. QED
    BY <2>1
<1>5. ASSUME NEW c \in C PROVE v[c] < v[w] \/ (v[c] = v[w] /\ w <= c)
  <2>1. PICK j \in DOMAIN s.candidates : c = s.candidates[j].player
    BY <1>3 DEF Candidates
  <2>2. ~(v[c] > v[w] \/ (v[c] = v[w] /\ c < w))
    BY <1>1, <1>2, <1>3, <1>4, <2>1 DEF Better
  <2>3. v[c] \in Nat /\ v[w] \in Nat /\ c \in Nat /\ w \in Nat
    BY <1>3
  <2>4. QED
    BY <2>2, <2>3
<1>6. PICK M : M = {VotesFor(s, c) : c \in Candidates(s)}
  OBVIOUS
<1>7. M = {v[c] : c \in C}
  BY <1>3, <1>4, <1>6
<1>8. v[w] \in M /\ \A m \in M : m <= v[w] /\ m \in Nat
  BY <1>3, <1>5, <1>7
<1>9. Max(M) = v[w]
  <2>1. Max(M) \in M /\ \A m \in M : Max(M) >= m
    BY <1>8 DEF Max
  <2>2. QED
    BY <1>8, <2>1
<1>10. PICK B : B = {c \in Candidates(s) : VotesFor(s, c) = MostVotes(s)}
  OBVIOUS
<1>11. B = {c \in C : v[c] = v[w]}
  BY <1>3, <1>4, <1>6, <1>9, <1>10 DEF MostVotes
<1>12. w \in B /\ \A c \in B : w <= c /\ c \in Nat
  BY <1>3, <1>5, <1>11
<1>13. Min(B) = w
  <2>1. Min(B) \in B /\ \A c \in B : Min(B) <= c
    BY <1>12 DEF Min
  <2>2. QED
    BY <1>12, <2>1
<1>14. QED
  BY <1>2, <1>10, <1>13

\* The count elects whom the votes name, and no mayor on disk gives way before
\* the term is over: see MayorByElection.
THEOREM MayorsAreElected == Spec => MayorByElection
<1>1. ASSUME LedgerInv, [Next]_ledgerVars,
             db.end > 0, db'.end = 0, phase' = "save"
      PROVE  db'.mayor = Min({c \in Candidates(db) : VotesFor(db, c) = MostVotes(db)})
  <2>1. db \in Economy /\ now \in Nat /\ Orderly(db, now)
    BY <1>1 DEF LedgerInv, Shape
  <2>2. db' # db
    BY <1>1
  <2>3. ASSUME NEW a \in Players, Interface(a) \/ Plays(a) PROVE FALSE
    <3>1. Called(db, db', now)
      BY <2>1, <2>3, PlayersCall
    <3>2. QED
      BY <1>1, <3>1 DEF Called
  <2>4. TickAll
    BY <1>1, <2>2, <2>3 DEF Next, SaveSucceeds, Saved, TickNotSaved, KeptUnsaved, CallNotSaved,
                            PlayNotSaved, PutBack, Restart, Return, Passes, Later, ledgerVars, vars
  <2>5. Elected(db, db')
    BY <2>1, <2>4, TickAllIsTicked DEF Ticked
  <2>6. db'.mayor = Winner(db).player /\ db.candidates # <<>>
    BY <1>1, <2>1, <2>5 DEF Elected, Orderly
  <2>7. QED
    BY <2>1, <2>6, WinnerIsBest
<1>2. ASSUME LedgerInv, [Next]_ledgerVars, disk'.mayor # disk.mayor PROVE disk.term <= now
  <2>1. \A a \in Players : Interface(a) \/ Plays(a) => disk' = disk
    BY <1>2, PlayersCall DEF LedgerInv, Shape, Begun
  <2>2. disk' = disk \/ disk' = db
    BY <1>2, <2>1 DEF Next, TickAll, Do, SaveSucceeds, TickNotSaved, CallNotSaved, PlayNotSaved, Restart,
                      Passes, ledgerVars
  <2>3. QED
    BY <1>2, <2>2 DEF LedgerInv, Served
<1>3. LedgerInv /\ [Next]_ledgerVars =>
        [/\ db.end > 0 /\ db'.end = 0 /\ phase' = "save" =>
              LET best == Max({VotesFor(db, c) : c \in Candidates(db)})
              IN db'.mayor = Min({c \in Candidates(db) : VotesFor(db, c) = best})
         /\ disk'.mayor # disk.mayor => disk.term <= now]_ledgerVars
  BY <1>1, <1>2 DEF MostVotes
<1>4. QED
  BY <1>3, Invariant, PTL DEF Spec, MayorByElection

=============================================================================
