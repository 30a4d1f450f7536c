------------------------- MODULE StorageProperties -------------------------
(***************************************************************************)
(* What the economy's database promises across crashes.                    *)
(***************************************************************************)
EXTENDS Storage

\* Shape of the state: worlds, files and the steps of a save; a process that
\* went back to the snapshot still has it in full.
TypeOK ==
  /\ loaded \in BOOLEAN /\ from_previous \in BOOLEAN /\ closing \in BOOLEAN
  /\ world \in World /\ before \in World
  /\ acked \in World /\ older \in World
  /\ changes \in 0..MaxChanges
  /\ rested \in BOOLEAN
  /\ step \in {"idle", "create", "write", "copy", "fill", "rename", "backup",
              "replace"}
  /\ disk \in [Names -> File]
  /\ dirty \in SUBSET Names
  /\ faults \subseteq Faults
  /\ Idle => ~closing
  /\ from_previous => Complete("previous")

\* Between two calls a restart would find the economy the players were last
\* told of, after a failed save too (save_locked's early returns, and the
\* rename of .bak back to the primary).  Where that rename failed as well, or
\* the one of a later save, there is no primary and a restart would begin
\* afresh: then .previous holds that economy, if snapshots are copied in full,
\* however many saves fail after that.
IdleMeansDurable ==
  Idle =>
    \/ Recovered = acked
    \/ /\ "rename" \in faults /\ ~Exists("primary")
       /\ "copy" \notin faults => Content(disk["previous"]) = acked

\* ECONOMY_GAME.md: "uses atomic replacement".  A process may die between any
\* two file operations of a save and its successor still finds the last
\* economy that was acknowledged.
AckedSurvives == Recovered = acked

\* ECONOMY_GAME.md: "An incomplete primary automatically falls back to the
\* last complete .previous snapshot".  Once a database has been on the disk, a
\* power loss costs one acknowledged save at most, and never a part of one.
OneSaveLostAtMost == rested => Recovered \in {acked, older} /\ Recovered.whole

\* That is so where saves are far enough apart to be written back, snapshots
\* are copied in full and no rename fails.
OneSaveLostWithoutFaults == faults = {} => OneSaveLostAtMost

\* The files together are one durable cell: what a restart would find is
\* replaced as a whole, by the economy in memory, or not at all.
Cell == INSTANCE DurableCell WITH stored <- Recovered, offered <- world
ReplacesAtomically == Cell!Spec
=============================================================================
