----------------------------- MODULE MCGateway -----------------------------
(***************************************************************************)
(* Small instances of the gateway client for TLC.  Two heartbeat instances *)
(* show any overlap: a third thread would need two live ones first.        *)
(***************************************************************************)
EXTENDS GatewayProperties

MCBeats == {"h1", "h2"}
=============================================================================
