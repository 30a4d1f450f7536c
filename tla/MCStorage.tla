----------------------------- MODULE MCStorage -----------------------------
(***************************************************************************)
(* Small instances of the economy's database for TLC.  Three changes allow *)
(* a first save, one that keeps a snapshot and one on top of a recovery.   *)
(***************************************************************************)
EXTENDS StorageProperties
=============================================================================
