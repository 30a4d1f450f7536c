-------------------------- MODULE LedgerProperties --------------------------
(***************************************************************************)
(* What accounts and elections owe to those who hold and win them.         *)
(***************************************************************************)
EXTENDS Ledger, Totals

\* Shape of the state.
TypeOK ==
  /\ \A a \in DOMAIN db.account : a \in Players /\ db.account[a] \in Account
  /\ {db.treasury, db.welfare, db.term, db.end} \subseteq Nat /\ db.granted \in Int
  /\ db.mayor \in Players \cup {Nobody}
  /\ db.candidates \in Seq([player : Players, platform : Platforms])
  /\ caller \in Players \cup {Tick} /\ game \in BOOLEAN
  /\ TypeOKCall

\* What the server owes a: a player nobody named yet has a new account.
AccountOf(s, a) == IF a \in DOMAIN s.account THEN s.account[a] ELSE NewAccount

\* What the calls of this module have made of an account and of the treasury:
\* the balances without what the rest of the game has moved.
Net(r) == [b \in Balances |-> r[b] - r.elsewhere[b]]
NetTreasury(s) == s.treasury - s.granted

WorthOf(s) ==
  [a \in Players |-> LET net == Net(AccountOf(s, a))
                     IN net["wallet"] + net["checking"] + net["savings"]]

\* A call that has not been saved has not happened.
Kept == IF phase = "save" THEN before ELSE db

AsBook == INSTANCE AccountBook WITH
  worth <- WorthOf(Kept),
  treasury <- NetTreasury(Kept),
  claimed <- [a \in Players |-> AccountOf(Kept, a).last],
  time <- now

\* All or nothing: whatever the disk does and whatever the rest of the game
\* moves meanwhile, a claim, a transfer, a fine or a fee happens to all it
\* concerns or to nobody, at most once in its cooldown, and neither a
\* roll-back nor a restart takes back or repeats one.
BookKept == AsBook!Book

\* In what these calls do, money comes from outside (an award, a new account)
\* and goes outside (what is bought); everything else passes between accounts
\* and the treasury, and the treasury gets no more of a fine than was
\* collected from wallet, checking account and savings.
CashConserved ==
  Total(WorthOf(db)) + NetTreasury(db) + db.outside
    = Cardinality(Players) * Starting + InitialTreasury

Durable(s, a) ==
  LET r == AccountOf(s, a) IN <<Net(r), r.items, r.works, r.employed, r.last>>

\* Between calls the memory holds what a restart would read back, but for
\* released prisoners, counted elections and what the rest of the game moved:
\* a tick keeps that when its save fails, and so do the other players whose
\* orders a failed call filled.  No failed call of this module leaves the
\* records of the caller, of the other party or of the treasury ahead of the
\* disk, nor does putting them back undo a move twice or by half.
MemoryIsDisk ==
  phase = "idle" =>
    /\ NetTreasury(db) = NetTreasury(disk)
    /\ \A a \in Players : Durable(db, a) = Durable(disk, a)

\* An election has candidates as long as it lasts, each once, and every vote
\* is for one of them: no count, roll-back or restart leaves a candidate
\* without an election or a vote from the one before.
ElectionInOrder ==
  /\ db.end > 0 <=> db.candidates # <<>>
  /\ db.end <= now + PollsOpen
  /\ \A i, j \in DOMAIN db.candidates :
       db.candidates[i].player = db.candidates[j].player => i = j
  /\ \A v \in DOMAIN db.votes : db.votes[v] \in Candidates(db)

\* Whoever files first, a count elects the candidate with the most votes,
\* among equals the one with the smallest identifier; and no election, however
\* its filing, count and save fail or are repeated after a restart, puts
\* another mayor on disk before the term of the last is over.
MayorByElection ==
  [][/\ db.end > 0 /\ db'.end = 0 /\ phase' = "save" =>
          LET best == Max({VotesFor(db, c) : c \in Candidates(db)})
          IN db'.mayor = Min({c \in Candidates(db) : VotesFor(db, c) = best})
     /\ disk'.mayor # disk.mayor => disk.term <= now]_ledgerVars
=============================================================================
