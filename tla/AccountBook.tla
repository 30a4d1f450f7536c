---------------------------- MODULE AccountBook ----------------------------
(***************************************************************************)
(* What the calls of accounts and government promise: money changes hands  *)
(* in whole steps, and nobody claims the same thing twice within its       *)
(* cooldown.  What other parts of the game move is not entered, so worth   *)
(* and treasury are what there would be without it.                        *)
(* Calls that are refused, that fail to save or that a crash cuts short    *)
(* leave no trace; unsaved ticks, restarts and elections are not seen.     *)
(***************************************************************************)
EXTENDS Integers

CONSTANTS
  Players,
  Kinds,     \* of what a player may claim from time to time
  Cooldown   \* of each kind

VARIABLES
  worth,     \* wallet, checking account and savings of each player
  treasury,  \* of the server
  claimed,   \* when each player last claimed each kind, 0 for never
  time

bookVars == <<worth, treasury, claimed, time>>

Involved(a) == <<worth[a], claimed[a]>>' # <<worth[a], claimed[a]>>

Claims(a, k) ==
  /\ claimed[a][k] = 0 \/ time - claimed[a][k] >= Cooldown[k]
  /\ claimed' = [claimed EXCEPT ![a][k] = time]
  /\ UNCHANGED time

\* Nobody but a gets or loses money.
Concerns(a) == worth' = [worth EXCEPT ![a] = worth'[a]]

\* daily, work, stipend, a crime that succeeds: money from outside.  welfare
\* comes out of the treasury, the fine for a crime goes into it.
Claim(a, k) ==
  /\ Claims(a, k)
  /\ Concerns(a)
  /\ \/ worth'[a] >= worth[a] /\ UNCHANGED treasury
     \/ worth'[a] + treasury' = worth[a] + treasury

\* taxes, bail and the fee of a candidate; what is bought goes to nobody.
Pay(a) ==
  /\ worth'[a] < worth[a]
  /\ Concerns(a)
  /\ treasury' \in {treasury, treasury + worth[a] - worth'[a]}
  /\ UNCHANGED <<claimed, time>>

Transfer(a, b) ==
  /\ a # b
  /\ worth'[a] < worth[a]
  /\ worth' = [worth EXCEPT ![a] = worth'[a], ![b] = @ + worth[a] - worth'[a]]
  /\ UNCHANGED <<treasury, claimed, time>>

Later ==
  /\ time' = time + 1
  /\ UNCHANGED <<worth, treasury, claimed>>

BookInit ==
  /\ worth \in [Players -> Int]
  /\ treasury \in Int
  /\ claimed = [a \in Players |-> [k \in Kinds |-> 0]]
  /\ time = 1

BookNext ==
  \/ Later
  \/ \E a \in Players :
       /\ Involved(a)
       /\ \/ Pay(a)
          \/ \E k \in Kinds : Claim(a, k)
          \/ \E b \in Players : Transfer(a, b)

Book == BookInit /\ [][BookNext]_bookVars
=============================================================================
