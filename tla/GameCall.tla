------------------------------ MODULE GameCall ------------------------------
(***************************************************************************)
(* A call of the economy extension, seen from the players: it holds        *)
(* g_mutex from beginning to end, so calls follow one another.  A call has *)
(* two steps: what it does to the economy in memory (db), and a save that  *)
(* succeeds or fails.  Before the first it takes copies; after a failed    *)
(* save economy_game_action and the calls of the ledger put them back,     *)
(* while economy_tick_all keeps what it did and reports the failure.       *)
(*                                                                         *)
(* The modules that extend this one say what db is, what the calls do to   *)
(* it, when it may be saved, what is put back, and the unit of time.       *)
(***************************************************************************)
EXTENDS Totals, SequencesExt

CONSTANTS
  Tick,      \* the caller of economy_tick_all
  MaxTime,    \* bound
  MaxCalls,  \* bound
  SavesFail  \* may the disk refuse a save?

ASSUME CallAssumption == MaxTime \in Nat /\ MaxCalls \in Nat /\ SavesFail \in BOOLEAN

VARIABLES
  db,      \* the economy in memory
  now,
  phase,   \* "idle", or "save" before the save of a call
  caller,
  before,  \* the copies the call took, <<>> once they are out of scope
  calls,
  undone   \* history: has a call that failed to save been put back?

vars == <<db, now, phase, caller, before, calls, undone>>

Larger(a, b) == IF a < b THEN b ELSE a
Smaller(a, b) == IF a < b THEN a ELSE b
Without(f, x) == Restrict(f, DOMAIN f \ {x})
With(f, x, v) == [y \in DOMAIN f \cup {x} |-> IF y = x THEN v ELSE f[y]]

-----------------------------------------------------------------------------
InitCall(s) ==
  /\ db = s
  /\ now = 1
  /\ phase = "idle"
  /\ caller = Tick
  /\ before = <<>>
  /\ calls = 0
  /\ undone = FALSE

Idle == phase = "idle" /\ calls < MaxCalls

\* The call of a (a player, or Tick) makes s of the memory.
Call(a, s) ==
  /\ db' = s
  /\ before' = db
  /\ caller' = a
  /\ phase' = "save"
  /\ calls' = calls + 1
  /\ UNCHANGED <<now, undone>>

Return ==
  /\ phase' = "idle"
  /\ caller' = Tick
  /\ before' = <<>>
  /\ UNCHANGED <<now, calls>>

Saved(savable) ==
  /\ phase = "save" /\ savable
  /\ UNCHANGED <<db, undone>>
  /\ Return

NotSaved(savable) == phase = "save" /\ (SavesFail \/ ~savable)

\* The tick keeps what it did.
KeptUnsaved(savable) ==
  /\ NotSaved(savable) /\ caller = Tick
  /\ UNCHANGED <<db, undone>>
  /\ Return

PutBack(savable, s) ==
  /\ NotSaved(savable) /\ caller # Tick
  /\ db' = s
  /\ undone' = TRUE
  /\ Return

Later ==
  /\ phase = "idle" /\ now < MaxTime
  /\ now' = now + 1
  /\ UNCHANGED <<db, phase, caller, before, calls, undone>>

TypeOKCall ==
  /\ now \in 1..Larger(1, MaxTime)
  /\ phase \in {"idle", "save"}
  /\ calls \in 0..MaxCalls
  /\ undone \in BOOLEAN
=============================================================================
