----------------------------- MODULE MCAuction -----------------------------
(***************************************************************************)
(* A small instance of the auction house for TLC.                          *)
(***************************************************************************)
EXTENDS AuctionProperties

CONSTANTS g1, g2, p1, p2, p3

MCAccounts == {<<g1, p1>>, <<g1, p2>>, <<g1, p3>>, <<g2, p1>>}
MCLegacyRelics == [a \in MCAccounts |-> IF a = <<g2, p1>> THEN 1 ELSE 0]
MCInitialWallet == [a \in MCAccounts |-> IF a[1] = g2 THEN 0 ELSE IF a[2] = p1 THEN 200 ELSE 1000]
MCDebtors == {<<g1, p1>>, <<g1, p3>>}
MCLegacyHomes == {<<g1, p2>>}
=============================================================================
