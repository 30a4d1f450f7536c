------------------------------ MODULE MCLedger ------------------------------
(***************************************************************************)
(* Small instances of accounts and government for TLC.                     *)
(***************************************************************************)
EXTENDS LedgerProperties

MCWelfare == [p \in {"welfare"} |-> 5]
MCCooldown == [k \in Kinds |-> IF k \in {"work", "crime"} THEN 1 ELSE 2]

Nothing == [balance |-> [a \in Players |-> [b \in Balances |-> 0]], treasury |-> 0]

\* An order of player 2 is filled, player 1 borrows and saves, and the treasury
\* pays for a stimulus.
Shift ==
  [balance |-> [a \in Players |-> [b \in Balances |->
                  CASE a = 2 /\ b = "wallet" -> -1
                    [] a = 1 /\ b = "savings" -> 2
                    [] a = 1 /\ b \in {"debt", "due"} -> 1
                    [] OTHER -> 0]],
   treasury |-> -1]

MCMoves == {Nothing, Shift}

\* Nothing happened to money but fees of candidates.
Quiet(s) ==
  /\ s.outside = 0 /\ s.granted = 0
  /\ \A a \in DOMAIN s.account :
       s.account[a].wallet \in {Starting - n * FilingFee : n \in 0..2}

\* Bound: up to three calls of any kind within three hours, and beyond that
\* what elections need to take place twice.
MCBound == Quiet(db) \/ (now <= 3 /\ (calls < 3 \/ (calls = 3 /\ phase = "save")))
=============================================================================
