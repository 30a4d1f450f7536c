---------------------------- MODULE MCOrderBook ----------------------------
(***************************************************************************)
(* Small instances of the exchange for TLC.                                *)
(***************************************************************************)
EXTENDS OrderBookProperties, TLC

CONSTANTS p1, p2, tick

MCPlayers == {p1, p2}
MCPressures == {-300, 180}
MCSymmetry == Permutations(MCPlayers)
=============================================================================
