------------------------------ MODULE Storage ------------------------------
(***************************************************************************)
(* How the economy reaches the disk: load_locked and save_locked of the    *)
(* local economy extension, and what a crash leaves behind.                *)
(*                                                                         *)
(* The whole economy is one value, a world: which change it holds last,    *)
(* and whether anything is missing from it.  A file holds a world and says *)
(* whether its END marker is there.  g_mutex makes every call of the       *)
(* extension one step to other threads, but not to a crash, so a save is a *)
(* sequence of file operations here.                                       *)
(*                                                                         *)
(* Nothing is ever fsynced: a file stays dirty until the system writes it  *)
(* back, and a power loss may truncate dirty files.                        *)
(***************************************************************************)
EXTENDS Naturals, FiniteSets

CONSTANTS
  MaxChanges, \* bound: how many changes the economy sees
  MaxTorn,    \* how many dirty files one power loss may truncate
  Faults      \* what else may go wrong on some machine, of
              \*   "copy"    copying the snapshot fails half way
              \*   "rename"  a rename fails, as it does where it does not replace a file
              \*   "rapid"   a save begins before the last one is written back

ASSUME StorageAssumption ==
  /\ MaxChanges \in Nat /\ MaxTorn \in Nat
  /\ Faults \subseteq {"copy", "rename", "rapid"}

VARIABLES
  loaded,        \* g_loaded: the process runs and has read its database
  from_previous, \* g_loaded_from_previous
  world,         \* the economy in memory
  changes,       \* how many changes it has seen
  before,        \* the copies the caller took before it changed the economy
  step,          \* where save_locked is
  closing,       \* the save is the one of api_shutdown
  disk,          \* the files
  dirty,         \* the files the system has not written back
  faults,        \* external: what else may go wrong on this machine
  acked,         \* history: the last world loaded, or saved with success
  older,         \* history: the one before it
  rested         \* history: a complete primary, of a whole world, was written back

memory == <<loaded, from_previous, world, changes, before, step, closing>>
history == <<acked, older, rested>>
vars == <<memory, disk, dirty, history, faults>>

Names == {"primary", "previous", "tmp", "bak"}
World == [id : 0..MaxChanges, whole : BOOLEAN]
File == [there : BOOLEAN, world : World, end : BOOLEAN]

Fresh == [id |-> 0, whole |-> TRUE]
Absent == [there |-> FALSE, world |-> Fresh, end |-> FALSE]
Written(w) == [there |-> TRUE, world |-> w, end |-> TRUE]
Truncated(f) == [f EXCEPT !.end = FALSE]

Exists(n) == disk[n].there

-----------------------------------------------------------------------------
(* load_locked *)

\* complete_database_file looks for the END marker.
Complete(n) == Exists(n) /\ disk[n].end

\* Mutated: the snapshot is preferred whenever it is complete.
LoadPreviousFirst == Complete("previous")

\* The primary, unless it is incomplete and the previous snapshot is not.
LoadFromPrevious == Exists("primary") /\ ~Complete("primary") /\ Complete("previous")
LoadName == IF LoadFromPrevious THEN "previous" ELSE "primary"

\* A missing file gives a fresh economy; a truncated one what it still holds.
Content(f) ==
  IF ~f.there THEN Fresh
  ELSE IF f.end THEN f.world
  ELSE [id |-> f.world.id, whole |-> FALSE]

Recovered == Content(disk[LoadName])

Load ==
  /\ ~loaded
  /\ loaded' = TRUE
  /\ from_previous' = LoadFromPrevious
  /\ world' = Recovered
  /\ before' = Recovered
  /\ acked' = Recovered
  /\ closing' = FALSE
  /\ UNCHANGED <<changes, step, disk, dirty, older, rested>>

-----------------------------------------------------------------------------
(* save_locked, one file operation at a time *)

Idle == loaded /\ step = "idle"

\* A call changes the economy and saves it; so do flush and api_shutdown,
\* without a change.
Begin ==
  /\ Idle
  /\ dirty = {} \/ "rapid" \in faults
  /\ before' = world
  /\ \/ /\ changes < MaxChanges
        /\ changes' = changes + 1
        /\ world' = [world EXCEPT !.id = changes + 1]
        /\ closing' = FALSE
     \/ /\ UNCHANGED <<world, changes>>
        /\ closing' \in BOOLEAN
  /\ step' = "create"
  /\ UNCHANGED <<loaded, from_previous, disk, dirty, history>>

\* The save returns false.  The lightweight API and economy_game_action put
\* their copies back; economy_tick_all keeps what it did.
Fail ==
  /\ step' = "idle"
  /\ world' \in {before, world}
  /\ loaded' = ~closing
  /\ UNCHANGED <<from_previous, changes, before, closing, history>>

\* state_invariants_hold refuses, or the directory or file is not writable.
Refuse ==
  /\ step = "create"
  /\ Fail
  /\ UNCHANGED <<disk, dirty>>

\* Mutated: the primary itself is opened for writing.
CreateInPlace ==
  /\ step = "create"
  /\ disk' = [disk EXCEPT !["primary"] = Truncated(Written(world))]
  /\ dirty' = dirty \cup {"primary"}
  /\ step' = "write"
  /\ UNCHANGED <<loaded, from_previous, world, changes, before, closing, history>>

Create ==
  /\ step = "create"
  /\ disk' = [disk EXCEPT !["tmp"] = Truncated(Written(world))]
  /\ dirty' = dirty \cup {"tmp"}
  /\ step' = "write"
  /\ UNCHANGED <<loaded, from_previous, world, changes, before, closing, history>>

Write ==
  /\ step = "write"
  /\ \/ /\ disk' = [disk EXCEPT !["tmp"] = Written(world)]
        /\ step' = "copy"
        /\ UNCHANGED <<loaded, from_previous, world, changes, before, closing, history>>
     \/ Fail /\ UNCHANGED disk
  /\ UNCHANGED dirty

\* Mutated: the incomplete primary replaces the snapshot that was loaded.
CopyTornPrimary ==
  /\ step = "copy"
  /\ IF Exists("primary")
     THEN /\ disk' = [disk EXCEPT !["previous"] = Truncated(disk["primary"])]
          /\ dirty' = dirty \cup {"previous"}
          /\ step' = "fill"
     ELSE step' = "rename" /\ UNCHANGED <<disk, dirty>>
  /\ UNCHANGED <<loaded, from_previous, world, changes, before, closing, history>>

\* copy_file truncates .previous and fills it; its errors are ignored.
Copy ==
  /\ step = "copy"
  /\ IF Exists("primary") /\ ~from_previous
     THEN /\ disk' = [disk EXCEPT !["previous"] = Truncated(disk["primary"])]
          /\ dirty' = dirty \cup {"previous"}
          /\ step' = "fill"
     ELSE step' = "rename" /\ UNCHANGED <<disk, dirty>>
  /\ UNCHANGED <<loaded, from_previous, world, changes, before, closing, history>>

Fill ==
  /\ step = "fill"
  /\ \/ disk' = [disk EXCEPT !["previous"] = disk["primary"]]
     \/ "copy" \in faults /\ UNCHANGED disk
  /\ step' = "rename"
  /\ UNCHANGED <<loaded, from_previous, world, changes, before, closing,
                 dirty, history>>

\* rename() moves the name, and with it what is not written back yet.
Move(from, to) ==
  /\ disk' = [disk EXCEPT ![to] = disk[from], ![from] = Absent]
  /\ dirty' = IF from \in dirty THEN (dirty \ {from}) \cup {to} ELSE dirty \ {to}

\* Mutated: later saves still spare the snapshot that was loaded.
SavedSparesSnapshot ==
  /\ step' = "idle"
  /\ loaded' = ~closing
  /\ acked' = world
  /\ older' = acked
  /\ UNCHANGED <<from_previous, world, changes, before, closing, rested>>

\* Behind api_shutdown the library is unloaded, and g_loaded with it.
Saved ==
  /\ step' = "idle"
  /\ from_previous' = FALSE
  /\ loaded' = ~closing
  /\ acked' = world
  /\ older' = acked
  /\ UNCHANGED <<world, changes, before, closing, rested>>

Rename ==
  /\ step = "rename"
  /\ \/ Move("tmp", "primary") /\ Saved
     \/ /\ "rename" \in faults
        /\ step' = "backup"
        /\ UNCHANGED <<loaded, from_previous, world, changes, before,
                       closing, disk, dirty, history>>

\* The old .bak is removed, and the primary takes its name; if there is none,
\* or the name is refused, the save is over.
Backup ==
  /\ step = "backup"
  /\ \/ /\ Exists("primary")
        /\ Move("primary", "bak")
        /\ step' = "replace"
        /\ UNCHANGED <<loaded, from_previous, world, changes, before, closing, history>>
     \/ /\ \/ UNCHANGED <<disk, dirty>>
           \/ disk' = [disk EXCEPT !["bak"] = Absent] /\ dirty' = dirty \ {"bak"}
        /\ Fail

\* The new file takes the primary's name, and then .bak is removed.
Supersede ==
  /\ disk' = [disk EXCEPT !["primary"] = disk["tmp"],
                          !["tmp"] = Absent, !["bak"] = Absent]
  /\ dirty' = IF "tmp" \in dirty THEN (dirty \ {"tmp", "bak"}) \cup {"primary"}
              ELSE dirty \ {"primary", "bak"}

\* If that fails too, .bak is to become the primary again; nobody asks whether
\* it does.
Replace ==
  /\ step = "replace"
  /\ \/ Supersede /\ Saved
     \/ Move("bak", "primary") /\ Fail
     \/ UNCHANGED <<disk, dirty>> /\ Fail

-----------------------------------------------------------------------------
(* External: the system and its failures *)

WriteBack ==
  /\ dirty # {}
  /\ dirty' = {}
  /\ rested' = (rested \/ (Complete("primary") /\ Recovered.whole))
  /\ UNCHANGED <<memory, disk, acked, older>>

\* The process dies between any two steps; with it the machine, perhaps.
Crash ==
  /\ \E torn \in SUBSET dirty :
       /\ Cardinality(torn) <= MaxTorn
       /\ disk' = [n \in Names |-> IF n \in torn THEN Truncated(disk[n]) ELSE disk[n]]
       /\ dirty' = IF torn = {} THEN dirty ELSE {}
  /\ loaded' = FALSE
  /\ from_previous' = FALSE
  /\ step' = "idle"
  /\ closing' = FALSE
  /\ world' = Fresh
  /\ before' = Fresh
  /\ UNCHANGED <<changes, history>>

Init ==
  /\ loaded = FALSE
  /\ from_previous = FALSE
  /\ world = Fresh
  /\ changes = 0
  /\ before = Fresh
  /\ step = "idle"
  /\ closing = FALSE
  /\ disk = [n \in Names |-> Absent]
  /\ dirty = {}
  /\ acked = Fresh
  /\ older = Fresh
  /\ rested = FALSE
  /\ faults \in SUBSET Faults

Next ==
  /\ \/ Load \/ Begin \/ Refuse \/ Create \/ Write \/ Copy \/ Fill
     \/ Rename \/ Backup \/ Replace
     \/ WriteBack \/ Crash
  /\ UNCHANGED faults

Spec == Init /\ [][Next]_vars
=============================================================================
