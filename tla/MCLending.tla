----------------------------- MODULE MCLending -----------------------------
(***************************************************************************)
(* A small instance of the lending calls for TLC.                          *)
(***************************************************************************)
EXTENDS LendingProperties

CONSTANTS p1, p2

MCInitialWallet == [a \in {p1, p2} |-> IF a = p1 THEN 12000 ELSE 100]
MCProfits == {5000, -2000}
=============================================================================
