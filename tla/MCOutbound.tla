----------------------------- MODULE MCOutbound -----------------------------
(***************************************************************************)
(* Small instances of the REST path for TLC.                               *)
(***************************************************************************)
EXTENDS OutboundProperties, TLC

CONSTANTS c1, c2, i1, i2

MCChannels == {c1, c2}
MCInteractions == {i1, i2}
MCSymmetry == Permutations(MCChannels) \cup Permutations(MCInteractions)
=============================================================================
