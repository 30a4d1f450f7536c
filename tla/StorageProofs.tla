--------------------------- MODULE StorageProofs ---------------------------
(***************************************************************************)
(* Proofs about the economy's database, for any number of changes and any  *)
(* faults; AckedSurvives and ReplacesAtomically where files are not torn   *)
(* and no rename fails, OneSaveLostWithoutFaults where a power loss        *)
(* truncates one file at most.                                             *)
(***************************************************************************)
EXTENDS StorageProperties, FiniteSetTheorems, TLAPS

\* What load_locked makes of a primary p and a snapshot q.
FallsBack(p, q) == p.there /\ ~p.end /\ q.there /\ q.end
Found(p, q) == Content(IF FallsBack(p, q) THEN q ELSE p)

\* The snapshot holds what was acknowledged, if it was copied in full.
Shadow == "copy" \notin faults => Content(disk["previous"]) = acked

\* A restart finds what was acknowledged, in the file the process believes in.
Sound == Recovered = acked /\ (from_previous <=> LoadFromPrevious)

\* Both renames of a save failed, and left no primary.
Stranded == "rename" \in faults /\ ~disk["primary"].there /\ Shadow

\* So it is in every step of a save but the last of the .bak detour.
Durable == loaded /\ step # "replace" => Sound \/ Stranded

\* During the detour the primary's content is in .bak.
Detour ==
  step = "replace" =>
    /\ "rename" \in faults
    /\ ~disk["primary"].there /\ disk["bak"].there
    /\ Found(disk["bak"], disk["previous"]) = acked
    /\ from_previous <=> FallsBack(disk["bak"], disk["previous"])
    /\ Shadow

SaveSteps ==
  /\ step # "idle" => loaded
  /\ step \in {"copy", "fill", "rename", "backup", "replace"} =>
       disk["tmp"] = Written(world)
  /\ step = "fill" => ~from_previous /\ disk["primary"].there
                      /\ ~disk["previous"].end
  /\ step \in {"rename", "backup"} /\ disk["primary"].there => Shadow
  /\ step = "backup" => "rename" \in faults

IInv == TypeOK /\ Durable /\ Detour /\ SaveSteps

LEMMA RecoveredIsFound ==
  /\ Recovered = Found(disk["primary"], disk["previous"])
  /\ LoadFromPrevious = FallsBack(disk["primary"], disk["previous"])
  BY DEF Recovered, Found, FallsBack, LoadFromPrevious, LoadName, Exists, Complete

LEMMA RecoveredIsFoundNext ==
  /\ Recovered' = Found(disk'["primary"], disk'["previous"])
  /\ LoadFromPrevious' = FallsBack(disk'["primary"], disk'["previous"])
  BY DEF Recovered, Found, FallsBack, LoadFromPrevious, LoadName, Exists, Complete

LEMMA FreshType == Fresh \in World
  BY StorageAssumption DEF Fresh, World

LEMMA FoundType ==
  ASSUME NEW p \in File, NEW q \in File
  PROVE  Found(p, q) \in World
  BY FreshType DEF Found, Content, File, World

LEMMA FileTypes ==
  /\ Absent \in File
  /\ \A w \in World : Written(w) \in File
  /\ \A f \in File : Truncated(f) \in File
  BY FreshType DEF Absent, Written, Truncated, File

\* A complete file is found as it is.
LEMMA FoundWritten ==
  ASSUME NEW w \in World, NEW q
  PROVE  Found(Written(w), q) = w /\ ~FallsBack(Written(w), q)
  BY DEF Found, FallsBack, Content, Written, World

\* A snapshot that is not complete changes nothing.
LEMMA FoundAlone ==
  ASSUME NEW p \in File, NEW q, NEW r, ~FallsBack(p, q), ~FallsBack(p, r)
  PROVE  Found(p, q) = Found(p, r)
  BY DEF Found

LEMMA InitIInv == Init => IInv
  <1> SUFFICES ASSUME Init PROVE IInv
    OBVIOUS
  <1>1. loaded = FALSE /\ step = "idle"
    BY DEF Init
  <1>2. TypeOK
    <2>1. disk \in [Names -> File]
      BY FileTypes DEF Init
    <2>2. world \in World /\ before \in World /\ acked \in World /\ older \in World
      BY FreshType DEF Init
    <2>3. changes \in 0..MaxChanges
      BY StorageAssumption DEF Init
    <2>4. ~Idle
      BY <1>1 DEF Idle
    <2> QED
      BY <2>1, <2>2, <2>3, <2>4 DEF Init, TypeOK
  <1>3. Durable
    BY <1>1 DEF Durable
  <1>4. Detour
    BY <1>1 DEF Detour
  <1>5. SaveSteps
    BY <1>1 DEF SaveSteps
  <1> QED
    BY <1>2, <1>3, <1>4, <1>5 DEF IInv

\* A process that went back to the snapshot does not touch it.
LEMMA SnapshotStep ==
  ASSUME TypeOK, SaveSteps, [Next]_vars
  PROVE  (from_previous => Complete("previous"))'
  <1> DEFINE S == disk["previous"]
  <1>1. disk \in [Names -> File] /\ (from_previous => S.there /\ S.end)
    BY DEF TypeOK, Complete, Exists
  <1>2. CASE Load
    BY <1>2 DEF Load, LoadFromPrevious, Complete, Exists
  <1>3. CASE Copy \/ Fill
    <2>1. ~from_previous' \/ (S' = S /\ from_previous' = from_previous)
      BY <1>3 DEF Copy, Fill, SaveSteps
    <2> QED
      BY <1>1, <2>1 DEF Complete, Exists
  <1>4. CASE Crash
    BY <1>4 DEF Crash
  <1>5. CASE ~(Load \/ Copy \/ Fill \/ Crash)
    <2>1. from_previous' => from_previous
      BY <1>5 DEF Next, vars, memory, Begin, Refuse, Create, Write, Rename, Backup,
                  Replace, Saved, Fail, WriteBack
    <2>2. S' = S
      BY <1>1, <1>5 DEF Next, vars, Begin, Refuse, Create, Write, Rename, Backup,
                  Replace, Move, Supersede, WriteBack, Names
    <2> QED
      BY <1>1, <2>1, <2>2 DEF Complete, Exists
  <1> QED
    BY <1>2, <1>3, <1>4, <1>5

LEMMA TypeStep == IInv /\ [Next]_vars => TypeOK'
  <1> SUFFICES ASSUME IInv, [Next]_vars PROVE TypeOK'
    OBVIOUS
  <1> USE DEF Idle
  <1>0. /\ TypeOK /\ SaveSteps /\ faults' \subseteq Faults
        /\ (from_previous => Complete("previous"))'
    BY SnapshotStep DEF IInv, TypeOK, Next, vars
  <1>1. Recovered \in World
    <2>1. disk["primary"] \in File /\ disk["previous"] \in File
      BY <1>0 DEF TypeOK, Names
    <2> QED
      BY <2>1, FoundType, RecoveredIsFound
  <1>2. CASE Load
    BY <1>0, <1>1, <1>2 DEF TypeOK, Load, LoadFromPrevious, Exists, Complete, File, Names
  <1>3. CASE Begin
    <2>1. world' \in World /\ changes' \in 0..MaxChanges
      BY <1>0, <1>3, StorageAssumption DEF TypeOK, Begin, World
    <2> QED
      BY <2>1, <1>0, <1>3 DEF TypeOK, Begin, history
  <1>4. CASE Refuse
    BY <1>0, <1>4 DEF TypeOK, Refuse, Fail, history
  <1>5. CASE Create
    <2>1. disk' \in [Names -> File]
      BY <1>0, <1>5, FileTypes DEF TypeOK, Create
    <2> QED
      BY <2>1, <1>0, <1>5 DEF TypeOK, Create, history, Names
  <1>6. CASE Write
    <2>1. disk' \in [Names -> File]
      BY <1>0, <1>6, FileTypes DEF TypeOK, Write
    <2>2. CASE Fail
      BY <2>1, <2>2, <1>0, <1>6 DEF TypeOK, Write, Fail, history
    <2>3. CASE ~Fail
      BY <2>1, <2>3, <1>0, <1>6 DEF TypeOK, Write, history
    <2> QED
      BY <2>2, <2>3
  <1>7. CASE Copy
    <2>1. disk' \in [Names -> File]
      BY <1>0, <1>7, FileTypes DEF TypeOK, Copy, Names
    <2> QED
      BY <2>1, <1>0, <1>7 DEF TypeOK, Copy, history, Names
  <1>8. CASE Fill
    <2>1. disk' \in [Names -> File]
      BY <1>0, <1>8 DEF TypeOK, Fill, Names
    <2> QED
      BY <2>1, <1>0, <1>8 DEF TypeOK, Fill, history
  <1>9. ASSUME NEW from \in Names, NEW to \in Names, Move(from, to)
        PROVE  disk' \in [Names -> File] /\ dirty' \in SUBSET Names
    BY <1>0, <1>9, FileTypes DEF TypeOK, Move
  <1>10. CASE Rename
    <2>1. disk' \in [Names -> File] /\ dirty' \in SUBSET Names
      BY <1>0, <1>9, <1>10 DEF TypeOK, Rename, Names
    <2>2. CASE Saved
      BY <2>1, <2>2, <1>0 DEF TypeOK, Saved
    <2>3. CASE ~Saved
      BY <2>1, <2>3, <1>0, <1>10 DEF TypeOK, Rename, history
    <2> QED
      BY <2>1, <2>2, <2>3
  <1>11. CASE Backup
    <2>1. disk' \in [Names -> File] /\ dirty' \in SUBSET Names
      BY <1>0, <1>9, <1>11, FileTypes DEF TypeOK, Backup, Names
    <2>2. CASE Fail
      BY <2>1, <2>2, <1>0, <1>11 DEF TypeOK, Fail, history
    <2>3. CASE ~Fail
      BY <2>1, <2>3, <1>0, <1>11 DEF TypeOK, Backup, history
    <2> QED
      BY <2>2, <2>3
  <1>12. CASE Replace
    <2>1. disk' \in [Names -> File] /\ dirty' \in SUBSET Names
      BY <1>0, <1>9, <1>12, FileTypes DEF TypeOK, Replace, Supersede, Names
    <2>2. CASE Fail
      BY <2>1, <2>2, <1>0, <1>12 DEF TypeOK, Fail, history
    <2>3. CASE Saved
      BY <2>1, <2>3, <1>0, <1>12 DEF TypeOK, Saved, history
    <2> QED
      BY <2>2, <2>3, <1>12 DEF Replace
  <1>13. CASE WriteBack
    BY <1>0, <1>13 DEF TypeOK, WriteBack, memory
  <1>14. CASE Crash
    <2>1. disk' \in [Names -> File] /\ dirty' \in SUBSET Names
      BY <1>0, <1>14, FileTypes DEF TypeOK, Crash
    <2> QED
      BY <2>1, <1>0, <1>14, FreshType DEF TypeOK, Crash, history
  <1>15. CASE UNCHANGED vars
    BY <1>0, <1>15 DEF TypeOK, vars, memory, history
  <1> QED
    BY <1>2, <1>3, <1>4, <1>5, <1>6, <1>7, <1>8, <1>10, <1>11, <1>12, <1>13,
       <1>14, <1>15 DEF Next

\* Every step keeps the durable copy, or replaces it in one piece.
LEMMA DurableStep == IInv /\ [Next]_vars => Durable' /\ Detour' /\ SaveSteps'
  <1> SUFFICES ASSUME IInv, [Next]_vars PROVE Durable' /\ Detour' /\ SaveSteps'
    OBVIOUS
  <1>0. TypeOK /\ Durable /\ Detour /\ SaveSteps
    BY DEF IInv
  <1> DEFINE P == disk["primary"]
             Q == disk["previous"]
  <1>1. P \in File /\ Q \in File
    BY <1>0 DEF TypeOK, Names
  <1>18. faults' = faults
    BY DEF Next, vars
  <1>2. ASSUME P' = P, Q' = Q, acked' = acked, from_previous' = from_previous
        PROVE  (Sound' <=> Sound) /\ (Shadow' <=> Shadow) /\ (Stranded' <=> Stranded)
    <2>1. Recovered' = Recovered /\ LoadFromPrevious' = LoadFromPrevious
      BY <1>2, RecoveredIsFound, RecoveredIsFoundNext
    <2> QED
      BY <1>2, <1>18, <2>1 DEF Sound, Shadow, Stranded
  \* Steps that leave both files, and end up nowhere near the last rename.
  <1>3. ASSUME P' = P, Q' = Q, acked' = acked, from_previous' = from_previous,
               loaded, step # "replace", step' \in {"idle", "create", "write"}
        PROVE  Durable' /\ Detour' /\ (step' = "idle" \/ loaded' => SaveSteps')
    BY <1>0, <1>2, <1>3 DEF Durable, Detour, SaveSteps
  <1>4. CASE Load
    <2>1. Recovered' = Recovered /\ LoadFromPrevious' = LoadFromPrevious
      BY <1>4, RecoveredIsFound, RecoveredIsFoundNext DEF Load
    <2>2. step = "idle" /\ step' = "idle"
      BY <1>0, <1>4 DEF Load, SaveSteps
    <2> QED
      BY <2>1, <2>2, <1>4 DEF Load, Sound, Durable, Detour, SaveSteps
  <1>5. CASE Begin
    <2>1. loaded /\ step = "idle" /\ step' = "create" /\ loaded' = loaded
          /\ from_previous' = from_previous /\ acked' = acked /\ disk' = disk
      BY <1>5 DEF Begin, Idle, history
    <2> QED
      BY <2>1, <1>3
  <1>6. CASE Refuse
    <2>1. step = "create" /\ loaded /\ step' = "idle" /\ disk' = disk
          /\ from_previous' = from_previous /\ acked' = acked
      BY <1>6, <1>0 DEF Refuse, Fail, history, SaveSteps
    <2> QED
      BY <2>1, <1>3
  <1>7. CASE Create
    <2>1. P' = P /\ Q' = Q
      BY <1>0, <1>7 DEF Create, TypeOK, Names
    <2>2. step = "create" /\ loaded /\ step' = "write" /\ loaded' = loaded
          /\ from_previous' = from_previous /\ acked' = acked
      BY <1>7, <1>0 DEF Create, history, SaveSteps
    <2> QED
      BY <2>1, <2>2, <1>3
  <1>8. CASE Write
    <2>1. P' = P /\ Q' = Q
      BY <1>0, <1>8 DEF Write, TypeOK, Names
    <2>2. step = "write" /\ loaded /\ from_previous' = from_previous
          /\ acked' = acked
      BY <1>8, <1>0 DEF Write, Fail, history, SaveSteps
    <2>3. CASE step' = "idle"
      BY <2>1, <2>2, <2>3, <1>3
    <2>4. CASE step' # "idle"
      <3>1. step' = "copy" /\ loaded' = loaded /\ world' = world
            /\ disk' = [disk EXCEPT !["tmp"] = Written(world)]
        BY <2>4, <1>8 DEF Write, Fail
      <3>2. disk'["tmp"] = Written(world')
        BY <3>1, <1>0 DEF TypeOK, Names
      <3> QED
        BY <2>1, <2>2, <3>1, <3>2, <1>2, <1>0 DEF Durable, Detour, SaveSteps
    <2> QED
      BY <2>3, <2>4
  <1>9. CASE Copy
    <2>1. step = "copy" /\ loaded /\ loaded' = loaded /\ world' = world
          /\ from_previous' = from_previous /\ acked' = acked
          /\ disk["tmp"] = Written(world) /\ (Sound \/ Stranded)
      BY <1>9, <1>0 DEF Copy, history, SaveSteps, Durable
    <2>2. CASE P.there /\ ~from_previous
      <3>1. disk' = [disk EXCEPT !["previous"] = Truncated(P)] /\ step' = "fill"
        BY <2>2, <1>9 DEF Copy, Exists
      <3>2. P' = P /\ Q' = Truncated(P) /\ disk'["tmp"] = disk["tmp"]
        BY <3>1, <1>0 DEF TypeOK, Names
      <3>3. ~Q'.end
        BY <3>2, <1>1 DEF Truncated, File
      <3>4. Sound
        BY <2>1, <2>2 DEF Stranded
      <3>5. ~FallsBack(P, Q) /\ ~FallsBack(P, Q')
        BY <3>3, <3>4, <2>2, RecoveredIsFound DEF Sound, FallsBack
      <3>6. Recovered' = Recovered /\ ~LoadFromPrevious'
        BY <3>2, <3>5, <1>1, FoundAlone, RecoveredIsFound, RecoveredIsFoundNext
      <3>7. Sound'
        BY <2>1, <2>2, <3>4, <3>6 DEF Sound
      <3> QED
        BY <2>1, <2>2, <3>1, <3>2, <3>3, <3>7 DEF Durable, Detour, SaveSteps
    <2>3. CASE ~(P.there /\ ~from_previous)
      <3>1. disk' = disk /\ step' = "rename"
        BY <2>3, <1>9 DEF Copy, Exists
      <3>2. P.there => Shadow
        <4>1. SUFFICES ASSUME P.there PROVE Shadow
          OBVIOUS
        <4>2. Sound /\ from_previous
          BY <2>1, <2>3, <4>1 DEF Stranded
        <4>3. Recovered = Content(Q)
          BY <4>2, RecoveredIsFound DEF Sound, Found
        <4> QED
          BY <4>2, <4>3 DEF Sound, Shadow
      <3> QED
        BY <3>1, <3>2, <2>1, <1>2 DEF Durable, Detour, SaveSteps
    <2> QED
      BY <2>2, <2>3
  <1>10. CASE Fill
    <2>1. step = "fill" /\ step' = "rename" /\ loaded /\ loaded' = loaded
          /\ world' = world /\ from_previous' = from_previous /\ acked' = acked
          /\ disk["tmp"] = Written(world) /\ ~from_previous /\ P.there /\ ~Q.end
          /\ faults' = faults
      BY <1>18, <1>10, <1>0 DEF Fill, history, SaveSteps
    <2>2. P' = P /\ disk'["tmp"] = disk["tmp"] /\ (Q' = P \/ ("copy" \in faults /\ Q' = Q))
      <3>1. CASE disk' = [disk EXCEPT !["previous"] = P]
        BY <1>0, <3>1 DEF TypeOK, Names
      <3>2. CASE disk' # [disk EXCEPT !["previous"] = P]
        <4>1. "copy" \in faults /\ disk' = disk
          BY <1>10, <3>2 DEF Fill
        <4> QED
          BY <4>1
      <3> QED
        BY <3>1, <3>2
    <2>3. ~FallsBack(P, Q) /\ ~FallsBack(P, Q')
      BY <2>1, <2>2 DEF FallsBack
    <2>4. Recovered' = Recovered /\ ~LoadFromPrevious /\ ~LoadFromPrevious'
      BY <2>2, <2>3, <1>1, FoundAlone, RecoveredIsFound, RecoveredIsFoundNext
    <2>5. Sound
      BY <2>1, <1>0 DEF Durable, Stranded
    <2>6. Sound' /\ Recovered = Content(P)
      BY <2>1, <2>3, <2>4, <2>5, RecoveredIsFound DEF Sound, Found
    <2>7. Shadow'
      BY <2>1, <2>2, <2>5, <2>6 DEF Shadow, Sound
    <2> QED
      BY <2>1, <2>2, <2>6, <2>7 DEF Durable, Detour, SaveSteps
  <1>11. ASSUME Move("tmp", "primary") \/ Supersede, Saved, disk["tmp"] = Written(world)
         PROVE  Durable' /\ Detour' /\ SaveSteps'
    <2>1. P' = Written(world)
      BY <1>11, <1>0 DEF Move, Supersede, TypeOK, Names
    <2>2. world \in World
      BY <1>0 DEF TypeOK
    <2>3. Recovered' = world /\ ~LoadFromPrevious'
      BY <2>1, <2>2, FoundWritten, RecoveredIsFoundNext
    <2> QED
      BY <1>11, <2>3 DEF Saved, Sound, Durable, Detour, SaveSteps
  <1>12. CASE Rename
    <2>1. step = "rename" /\ loaded /\ disk["tmp"] = Written(world)
      BY <1>12, <1>0 DEF Rename, SaveSteps
    <2>2. CASE Move("tmp", "primary") /\ Saved
      BY <2>1, <2>2, <1>11
    <2>3. CASE ~(Move("tmp", "primary") /\ Saved)
      <3>1. step' = "backup" /\ loaded' = loaded /\ world' = world /\ disk' = disk
            /\ from_previous' = from_previous /\ acked' = acked
            /\ "rename" \in faults /\ faults' = faults
        BY <1>18, <2>3, <1>12 DEF Rename, history
      <3> QED
        BY <3>1, <2>1, <1>2, <1>0 DEF Durable, Detour, SaveSteps
    <2> QED
      BY <2>2, <2>3
  <1>13. CASE Backup
    <2>1. step = "backup" /\ loaded /\ from_previous' = from_previous /\ acked' = acked
          /\ disk["tmp"] = Written(world) /\ "rename" \in faults /\ faults' = faults
      BY <1>18, <1>13, <1>0 DEF Backup, Fail, history, SaveSteps
    <2>2. CASE Exists("primary") /\ Move("primary", "bak") /\ step' = "replace"
      <3>1. disk'["bak"] = P /\ P' = Absent /\ Q' = Q /\ disk'["tmp"] = disk["tmp"]
        BY <2>2, <1>0 DEF Move, TypeOK, Names
      <3>2. ~P'.there
        BY <3>1 DEF Absent
      <3>3. P.there /\ Sound /\ Shadow
        BY <2>1, <2>2, <1>0 DEF Exists, Durable, Stranded, SaveSteps
      <3>4. Recovered = Found(P, Q) /\ LoadFromPrevious = FallsBack(P, Q)
        BY RecoveredIsFound
      <3>5. Shadow'
        BY <2>1, <3>1, <3>3 DEF Shadow
      <3>6. loaded' = loaded /\ world' = world
        BY <2>2, <1>13 DEF Backup, Fail
      <3> QED
        BY <2>1, <2>2, <3>1, <3>2, <3>3, <3>4, <3>5, <3>6 DEF Sound, Durable, Detour, SaveSteps
    <2>3. CASE Fail
      <3>1. P' = P /\ Q' = Q
        <4>1. disk' = disk \/ disk' = [disk EXCEPT !["bak"] = Absent]
          BY <2>3, <1>13 DEF Backup, Fail
        <4> QED
          BY <4>1, <1>0 DEF TypeOK, Names
      <3> QED
        BY <2>1, <2>3, <3>1, <1>3 DEF Fail
    <2> QED
      BY <2>2, <2>3, <1>13 DEF Backup
  <1>14. CASE Replace
    <2>1. step = "replace" /\ loaded /\ disk["tmp"] = Written(world)
      BY <1>14, <1>0 DEF Replace, SaveSteps
    <2>2. CASE Supersede /\ Saved
      BY <2>1, <2>2, <1>11
    <2>3. CASE Move("bak", "primary") /\ Fail
      <3>1. P' = disk["bak"] /\ Q' = Q
        BY <2>3, <1>0 DEF Move, TypeOK, Names
      <3>2. Recovered' = acked /\ (LoadFromPrevious' <=> from_previous)
        BY <3>1, <2>1, <1>0, RecoveredIsFoundNext DEF Detour
      <3>3. step' = "idle" /\ from_previous' = from_previous /\ acked' = acked
        BY <2>3 DEF Fail, history
      <3> QED
        BY <3>2, <3>3 DEF Sound, Durable, Detour, SaveSteps
    <2>4. CASE disk' = disk /\ Fail
      <3>1. step' = "idle" /\ acked' = acked /\ from_previous' = from_previous
            /\ faults' = faults
        BY <1>18, <2>4, <1>14 DEF Fail, history
      <3>2. Stranded
        BY <2>1, <1>0 DEF Detour, Stranded
      <3> QED
        BY <2>4, <3>1, <3>2, <1>2 DEF Durable, Detour, SaveSteps
    <2> QED
      BY <2>2, <2>3, <2>4, <1>14 DEF Replace
  <1>15. CASE WriteBack
    <2>1. disk' = disk /\ acked' = acked /\ memory' = memory /\ faults' = faults
      BY <1>18, <1>15 DEF WriteBack
    <2> QED
      BY <2>1, <1>2, <1>0 DEF memory, Durable, Detour, SaveSteps
  <1>16. CASE Crash
    BY <1>16 DEF Crash, Durable, Detour, SaveSteps
  <1>17. CASE UNCHANGED vars
    BY <1>17, <1>2, <1>0 DEF vars, memory, history, Durable, Detour, SaveSteps
  <1> QED
    BY <1>4, <1>5, <1>6, <1>7, <1>8, <1>9, <1>10, <1>12, <1>13, <1>14,
       <1>15, <1>16, <1>17 DEF Next

THEOREM InvIsInvariant == Spec => []IInv
  <1>1. IInv /\ [Next]_vars => IInv'
    BY TypeStep, DurableStep DEF IInv
  <1> QED
    BY InitIInv, <1>1, PTL DEF Spec

\* Type correctness of the database, for every value of the constants.
THEOREM TypeCorrect == Spec => []TypeOK
  <1>1. IInv => TypeOK
    BY DEF IInv
  <1> QED
    BY InvIsInvariant, <1>1, PTL

\* Between two calls a restart would find what the players were last told of,
\* whatever files were torn, copies failed or renames were refused before; or
\* else a rename and the one that should undo it failed, and the snapshot has
\* it, if it was copied in full.
THEOREM DurableWhenIdle == Spec => []IdleMeansDurable
  <1>1. IInv => IdleMeansDurable
    BY DEF IInv, Durable, Sound, Stranded, Shadow, IdleMeansDurable, Idle, Exists
  <1> QED
    BY InvIsInvariant, <1>1, PTL

-----------------------------------------------------------------------------
(* Where files are not torn and no rename fails: the disk at every step.    *)

Reliable == MaxTorn = 0 /\ "rename" \notin Faults

AlwaysDurable ==
  /\ IInv
  /\ step \notin {"backup", "replace"}
  /\ Recovered = acked

\* A crash that tears nothing leaves the files as they are.
LEMMA ReliableCrash ==
  ASSUME Reliable, TypeOK, Crash
  PROVE  disk' = disk
  <1>1. PICK torn \in SUBSET dirty :
          /\ Cardinality(torn) <= MaxTorn
          /\ disk' = [n \in Names |-> IF n \in torn THEN Truncated(disk[n]) ELSE disk[n]]
    BY DEF Crash
  <1>2. IsFiniteSet(Names)
    <2>1. \A n \in Names : IsFiniteSet({n})
      BY FS_Singleton
    <2>2. IsFiniteSet(({"primary"} \cup {"previous"}) \cup ({"tmp"} \cup {"bak"}))
      BY <2>1, FS_Union DEF Names
    <2>3. Names = ({"primary"} \cup {"previous"}) \cup ({"tmp"} \cup {"bak"})
      BY DEF Names
    <2> QED
      BY <2>2, <2>3
  <1>3. IsFiniteSet(torn)
    BY <1>2, FS_Subset DEF TypeOK
  <1>4. torn = {}
    BY <1>1, <1>3, FS_CardinalityType, FS_EmptySet DEF Reliable
  <1> QED
    BY <1>1, <1>4 DEF TypeOK

\* A step leaves what a restart would find, or installs the economy in memory
\* and acknowledges it.
LEMMA ReliableStep ==
  ASSUME Reliable, AlwaysDurable, [Next]_vars
  PROVE  /\ step' \notin {"backup", "replace"}
         /\ \/ Recovered' = Recovered /\ acked' = acked
            \/ Recovered' = world /\ acked' = world /\ world' = world
  <1>0. IInv /\ TypeOK /\ Durable' /\ Durable /\ SaveSteps /\ SaveSteps'
    BY DurableStep DEF AlwaysDurable, IInv
  <1>5. "rename" \notin faults /\ faults' = faults
    BY <1>0 DEF TypeOK, Reliable, Next, vars
  <1>1. CASE Load \/ WriteBack \/ UNCHANGED vars \/ Crash
    <2>1. disk' = disk
      BY <1>1, <1>0, ReliableCrash DEF Load, WriteBack, vars
    <2>2. Recovered' = Recovered
      BY <2>1, RecoveredIsFound, RecoveredIsFoundNext
    <2>3. step' \notin {"backup", "replace"}
      BY <1>1 DEF Load, WriteBack, vars, memory, Crash, AlwaysDurable
    <2>4. acked' = acked
      BY <1>1 DEF Load, WriteBack, vars, history, Crash, AlwaysDurable
    <2> QED
      BY <2>2, <2>3, <2>4
  <1>2. CASE Begin \/ Refuse \/ Create \/ Write \/ Copy \/ Fill
    <2>1. acked' = acked /\ step' \notin {"backup", "replace"}
      BY <1>2 DEF Begin, Refuse, Create, Write, Copy, Fill, Fail, history
    <2>2. loaded \/ step # "idle"
      BY <1>2 DEF Begin, Idle, Refuse, Create, Write, Copy, Fill
    <2>3. loaded
      BY <2>2, <1>0 DEF SaveSteps
    <2>4. CASE loaded'
      BY <2>1, <2>3, <2>4, <1>0, <1>5 DEF Durable, Sound, Stranded, AlwaysDurable
    <2>5. CASE ~loaded'
      <3>1. disk' = disk \/ (disk["primary"] = disk'["primary"] /\ disk["previous"] = disk'["previous"])
        BY <1>0, <1>2, <2>3, <2>5
        DEF Begin, Refuse, Create, Write, Copy, Fill, TypeOK, Names
      <3> QED
        BY <3>1, <2>1, RecoveredIsFound, RecoveredIsFoundNext
    <2> QED
      BY <2>4, <2>5
  <1>3. CASE Rename
    <2>1. Move("tmp", "primary") /\ Saved /\ disk["tmp"] = Written(world)
      BY <1>3, <1>0 DEF Rename, Reliable, SaveSteps, TypeOK
    <2>2. disk'["primary"] = Written(world)
      BY <2>1, <1>0 DEF Move, TypeOK, Names
    <2>3. Recovered' = world
      BY <2>2, <1>0, FoundWritten, RecoveredIsFoundNext DEF TypeOK
    <2> QED
      BY <2>1, <2>3 DEF Saved
  <1>4. CASE Backup \/ Replace
    BY <1>4 DEF Backup, Replace, AlwaysDurable
  <1> QED
    BY <1>1, <1>2, <1>3, <1>4 DEF Next

LEMMA AlwaysDurableInvariant ==
  ASSUME Reliable
  PROVE  Spec => []AlwaysDurable
  <1>1. Init => AlwaysDurable
    <2> SUFFICES ASSUME Init PROVE AlwaysDurable
      OBVIOUS
    <2>1. ~disk["primary"].there /\ acked = Fresh /\ step = "idle"
      BY DEF Init, Absent, Names
    <2>2. Recovered = Fresh
      BY <2>1, RecoveredIsFound DEF Found, FallsBack, Content
    <2> QED
      BY <2>1, <2>2, InitIInv DEF AlwaysDurable
  <1>2. AlwaysDurable /\ [Next]_vars => AlwaysDurable'
    <2> SUFFICES ASSUME AlwaysDurable, [Next]_vars PROVE AlwaysDurable'
      OBVIOUS
    <2>1. IInv'
      BY TypeStep, DurableStep DEF AlwaysDurable, IInv
    <2> QED
      BY <2>1, ReliableStep DEF AlwaysDurable
  <1> QED
    BY <1>1, <1>2, PTL DEF Spec

\* A process that dies anywhere in a save loses nothing it acknowledged.
THEOREM AckedIsNeverLost ==
  ASSUME Reliable
  PROVE  Spec => []AckedSurvives
  <1>1. AlwaysDurable => AckedSurvives
    BY DEF AlwaysDurable, AckedSurvives
  <1> QED
    BY AlwaysDurableInvariant, <1>1, PTL

\* The files implement one durable cell: a save replaces it atomically.
THEOREM StorageImplementsCell ==
  ASSUME Reliable
  PROVE  Spec => ReplacesAtomically
  <1>1. Init => Cell!Init
    <2> SUFFICES ASSUME Init PROVE Recovered = world
      BY DEF Cell!Init
    <2>1. ~disk["primary"].there /\ world = Fresh
      BY DEF Init, Absent, Names
    <2> QED
      BY <2>1, RecoveredIsFound DEF Found, FallsBack, Content
  <1>2. AlwaysDurable /\ [Next]_vars => [Cell!Offer \/ Cell!Store]_(Cell!cell)
    BY ReliableStep DEF Cell!Offer, Cell!Store, Cell!cell
  <1> QED
    BY <1>1, <1>2, AlwaysDurableInvariant, PTL DEF Spec, ReplacesAtomically, Cell!Spec
-----------------------------------------------------------------------------
(* Where saves are written back before the next, snapshots are copied in   *)
(* full and no rename fails, but a power loss truncates a file.            *)

P == disk["primary"]
Q == disk["previous"]
Intact == P.there /\ P.end
Snapshot == Q.there /\ Q.end /\ Q.world.whole /\ Q.world \in {acked, older}

\* A primary that is not written back has a snapshot behind it that holds the
\* save before; the snapshot is only touched while the primary is safe.
Sheltered ==
  /\ step \notin {"backup", "replace"}
  /\ Intact => P.world = acked
  /\ loaded => world.whole = acked.whole /\ before.whole = acked.whole
  /\ step # "idle" => "primary" \notin dirty
  /\ step = "rename" /\ ~from_previous /\ P.there => Q = P
  /\ rested =>
       /\ P.there
       /\ \/ Intact /\ acked.whole /\ ("primary" \in dirty => Snapshot)
          \/ ~Intact /\ Snapshot /\ "previous" \notin dirty

\* One file is truncated at most.
LEMMA OneTorn ==
  ASSUME NEW torn \in SUBSET Names, MaxTorn <= 1, Cardinality(torn) <= MaxTorn,
         "primary" \in torn
  PROVE  "previous" \notin torn
<1>1. IsFiniteSet(torn)
  <2>1. \A n \in Names : IsFiniteSet({n})
    BY FS_Singleton
  <2>2. IsFiniteSet(({"primary"} \cup {"previous"}) \cup ({"tmp"} \cup {"bak"}))
    BY <2>1, FS_Union DEF Names
  <2>3. Names = ({"primary"} \cup {"previous"}) \cup ({"tmp"} \cup {"bak"})
    BY DEF Names
  <2>4. QED
    BY <2>2, <2>3, FS_Subset
<1>2. SUFFICES ASSUME "previous" \in torn PROVE FALSE
  OBVIOUS
<1>3. PICK one : one = {"primary"}
  OBVIOUS
<1>4. Cardinality(one) = 1 /\ IsFiniteSet(one)
  BY <1>3, FS_Singleton
<1>5. Cardinality(one \cup {"previous"}) = 2
  BY <1>3, <1>4, FS_AddElement
<1>6. one \cup {"previous"} \subseteq torn
  BY <1>2, <1>3
<1>7. 2 <= Cardinality(torn)
  BY <1>1, <1>5, <1>6, FS_Subset
<1>8. Cardinality(torn) \in Nat /\ MaxTorn \in Nat
  BY <1>1, FS_CardinalityType, StorageAssumption
<1>9. QED
  BY <1>7, <1>8

\* What a restart finds where the invariant holds.
LEMMA RecoveredFrom ==
  ASSUME TypeOK
  PROVE  /\ Intact => Recovered = P.world /\ ~LoadFromPrevious
         /\ P.there /\ ~Intact /\ Q.there /\ Q.end => Recovered = Q.world /\ LoadFromPrevious
  BY RecoveredIsFound DEF Found, FallsBack, Content, Intact, P, Q

\* Every step keeps the shelter where a power loss truncates one file at most.
LEMMA ShelteredStep ==
  ASSUME MaxTorn <= 1, faults = {}, IInv, Sheltered, [Next]_vars
  PROVE  Sheltered'
<1>0. TypeOK /\ Durable /\ SaveSteps
  BY DEF IInv
<1>1. /\ P \in File /\ Q \in File
      /\ dirty \in SUBSET Names
  BY <1>0 DEF TypeOK, Names, P, Q
<1>2. loaded => Recovered = acked /\ (from_previous <=> LoadFromPrevious)
  BY <1>0 DEF Durable, Sound, Stranded, Sheltered
<1>3. CASE Load
  <2>1. /\ ~loaded /\ step' = step /\ disk' = disk /\ dirty' = dirty /\ older' = older /\ rested' = rested
        /\ world' = Recovered /\ before' = Recovered /\ acked' = Recovered
        /\ P' = P /\ Q' = Q
    BY <1>3 DEF Load, P, Q
  <2>2. step = "idle"
    BY <1>0, <2>1 DEF SaveSteps
  <2>3. Intact => Recovered = acked
    BY <1>0, RecoveredFrom DEF Sheltered
  <2>4. P.there /\ ~Intact /\ Snapshot => Recovered = Q.world
    BY <1>0, RecoveredFrom DEF Snapshot
  <2>5. Intact' = Intact
    BY <2>1 DEF Intact
  <2>6. Intact => Snapshot' = Snapshot
    BY <2>1, <2>3 DEF Snapshot
  <2>7. P.there /\ ~Intact /\ Snapshot => Snapshot'
    BY <2>1, <2>4 DEF Snapshot
  <2>8. Intact => P'.world = acked'
    BY <1>0, <2>1, RecoveredFrom
  <2>9. QED
    BY <2>1, <2>2, <2>3, <2>5, <2>6, <2>7, <2>8 DEF Sheltered
<1>4. ASSUME disk' = disk, dirty' = dirty, acked' = acked, older' = older, rested' = rested,
             step' \notin {"backup", "replace"},
             step' # "idle" => "primary" \notin dirty,
             step' = "rename" /\ ~from_previous' /\ P.there => Q = P,
             loaded' => world'.whole = acked.whole /\ before'.whole = acked.whole
      PROVE  Sheltered'
  BY <1>4 DEF Sheltered, Intact, Snapshot, P, Q
<1>5. CASE Begin
  <2>1. dirty = {} /\ world'.whole = world.whole /\ before' = world /\ loaded /\ step' = "create"
    BY <1>0, <1>5 DEF Begin, Idle, TypeOK, World
  <2>2. QED
    BY <1>4, <1>5, <2>1 DEF Begin, Sheltered, history
<1>6. ASSUME Fail, step # "idle", disk' = disk, dirty' = dirty PROVE Sheltered'
  <2>1. loaded
    BY <1>0, <1>6 DEF SaveSteps
  <2>2. world'.whole = acked.whole /\ before'.whole = acked.whole /\ step' = "idle"
        /\ acked' = acked /\ older' = older /\ rested' = rested
    BY <1>6, <2>1 DEF Fail, Sheltered, history
  <2>3. QED
    BY <1>4, <1>6, <2>2
<1>7. CASE Refuse
  BY <1>6, <1>7 DEF Refuse
\* What is written to the new file only.
<1>8. ASSUME NEW f, disk' = [disk EXCEPT !["tmp"] = f], dirty' \in {dirty, dirty \cup {"tmp"}},
             step \in {"create", "write"}, step' \in {"write", "copy"},
             loaded' = loaded, world' = world, before' = before,
             acked' = acked, older' = older, rested' = rested
      PROVE  Sheltered'
  <2>1. P' = P /\ Q' = Q
    BY <1>0, <1>8 DEF TypeOK, Names, P, Q
  <2>2. ("primary" \in dirty' <=> "primary" \in dirty) /\ ("previous" \in dirty' <=> "previous" \in dirty)
    BY <1>8
  <2>3. QED
    BY <1>8, <2>1, <2>2 DEF Sheltered, Intact, Snapshot
<1>9. CASE Create
  BY <1>8, <1>9 DEF Create, history
<1>10. CASE Write
  <2>1. CASE Fail /\ disk' = disk
    BY <1>6, <1>10, <2>1 DEF Write
  <2>2. CASE ~(Fail /\ disk' = disk)
    BY <1>8, <1>10, <2>2 DEF Write, history
  <2>3. QED
    BY <2>1, <2>2
\* From the copy on, the save does not begin in a snapshot it may lose.
<1>11. ASSUME loaded, ~from_previous, rested, "primary" \notin dirty PROVE Intact /\ acked.whole
  BY <1>0, <1>2, <1>11, RecoveredFrom DEF Sheltered, Snapshot
<1>12. CASE Copy
  <2>1. /\ loaded /\ "primary" \notin dirty /\ step = "copy"
        /\ loaded' = loaded /\ world' = world /\ before' = before /\ from_previous' = from_previous
        /\ acked' = acked /\ older' = older /\ rested' = rested
    BY <1>0, <1>12 DEF Copy, SaveSteps, Sheltered, history
  <2>2. CASE P.there /\ ~from_previous
    <3>1. /\ disk' = [disk EXCEPT !["previous"] = Truncated(P)] /\ dirty' = dirty \cup {"previous"}
          /\ step' = "fill"
      BY <1>12, <2>2 DEF Copy, Exists, P
    <3>2. P' = P /\ "primary" \notin dirty'
      BY <1>0, <2>1, <3>1 DEF TypeOK, Names, P
    <3>3. QED
      BY <1>11, <2>1, <2>2, <3>1, <3>2 DEF Sheltered, Intact
  <2>3. CASE ~(P.there /\ ~from_previous)
    <3>1. disk' = disk /\ dirty' = dirty /\ step' = "rename"
      BY <1>12, <2>3 DEF Copy, Exists, P
    <3>2. QED
      BY <1>4, <2>1, <2>3, <3>1 DEF Sheltered
  <2>4. QED
    BY <2>2, <2>3
<1>13. CASE Fill
  <2>1. /\ loaded /\ ~from_previous /\ P.there /\ "primary" \notin dirty /\ step = "fill" /\ step' = "rename"
        /\ loaded' = loaded /\ world' = world /\ before' = before /\ from_previous' = from_previous
        /\ acked' = acked /\ older' = older /\ rested' = rested /\ dirty' = dirty
        /\ disk' = [disk EXCEPT !["previous"] = P]
    BY <1>0, <1>13 DEF Fill, SaveSteps, Sheltered, history, P
  <2>2. P' = P /\ Q' = P
    BY <1>0, <2>1 DEF TypeOK, Names, P, Q
  <2>3. QED
    BY <1>11, <2>1, <2>2 DEF Sheltered, Intact
<1>14. CASE Rename
  <2>1. /\ step = "rename" /\ loaded /\ disk["tmp"] = Written(world) /\ "primary" \notin dirty
        /\ Move("tmp", "primary") /\ Saved
    BY <1>0, <1>14 DEF Rename, SaveSteps, Sheltered
  <2>2. /\ P' = Written(world) /\ Q' = Q
    BY <1>0, <2>1 DEF Move, TypeOK, Names, P, Q
  <2>3. /\ step' = "idle" /\ acked' = world /\ older' = acked /\ rested' = rested
        /\ world' = world /\ before' = before
    BY <2>1 DEF Saved
  <2>4. P'.there /\ P'.end /\ P'.world = world
    BY <2>2 DEF Written
  <2>5. world.whole = acked.whole /\ before.whole = acked.whole
    BY <2>1 DEF Sheltered
  <2>6. ASSUME rested PROVE acked.whole /\ Snapshot'
    <3>1. CASE from_previous
      <4>1. ~Intact /\ Snapshot /\ P.there
        BY <1>0, <1>2, <2>1, <2>6, <3>1, RecoveredFrom DEF Sheltered
      <4>2. Q.world = acked
        BY <1>0, <1>2, <2>1, <4>1, RecoveredFrom DEF Snapshot
      <4>3. QED
        BY <2>2, <2>3, <4>1, <4>2 DEF Snapshot
    <3>2. CASE ~from_previous
      <4>1. Intact /\ acked.whole
        BY <1>11, <2>1, <2>6, <3>2
      <4>2. Q = P /\ P.world = acked
        BY <2>1, <3>2, <4>1 DEF Sheltered, Intact
      <4>3. QED
        BY <2>2, <2>3, <4>1, <4>2 DEF Snapshot, Intact
    <3>3. QED
      BY <3>1, <3>2
  <2>7. QED
    BY <2>3, <2>4, <2>5, <2>6 DEF Sheltered, Intact
<1>15. CASE Backup \/ Replace
  BY <1>15 DEF Backup, Replace, Sheltered
<1>16. CASE WriteBack
  <2>1. /\ dirty' = {} /\ rested' = (rested \/ (Complete("primary") /\ Recovered.whole))
        /\ disk' = disk /\ acked' = acked /\ older' = older /\ step' = step /\ loaded' = loaded
        /\ world' = world /\ before' = before /\ from_previous' = from_previous
        /\ P' = P /\ Q' = Q /\ Intact' = Intact /\ Snapshot' = Snapshot
    BY <1>16 DEF WriteBack, memory, P, Q, Intact, Snapshot
  <2>2. ASSUME rested', ~rested PROVE Intact /\ acked.whole
    <3>1. Intact /\ Recovered.whole
      BY <2>1, <2>2 DEF Complete, Exists, Intact, P
    <3>2. QED
      BY <1>0, <3>1, RecoveredFrom DEF Sheltered
  <2>3. QED
    BY <2>1, <2>2 DEF Sheltered, Intact
<1>17. CASE Crash
  <2>1. PICK torn \in SUBSET dirty :
          /\ Cardinality(torn) <= MaxTorn
          /\ disk' = [n \in Names |-> IF n \in torn THEN Truncated(disk[n]) ELSE disk[n]]
          /\ dirty' = IF torn = {} THEN dirty ELSE {}
    BY <1>17 DEF Crash
  <2>2. /\ loaded' = FALSE /\ step' = "idle"
        /\ acked' = acked /\ older' = older /\ rested' = rested
    BY <1>17 DEF Crash, history
  <2>3. /\ P' = IF "primary" \in torn THEN Truncated(P) ELSE P
        /\ Q' = IF "previous" \in torn THEN Truncated(Q) ELSE Q
    BY <2>1 DEF Names, P, Q
  <2>4. Truncated(P).there = P.there /\ ~Truncated(P).end
    BY <1>1 DEF Truncated, File
  <2>5. Intact' => Intact /\ P' = P
    BY <2>3, <2>4 DEF Intact
  <2>6. ASSUME rested
        PROVE  /\ P'.there
               /\ \/ Intact' /\ acked'.whole /\ ("primary" \in dirty' => Snapshot')
                  \/ ~Intact' /\ Snapshot' /\ "previous" \notin dirty'
    <3>1. CASE "primary" \in torn
      <4>1. "previous" \notin torn
        BY <1>1, <2>1, <3>1, OneTorn
      <4>2. Q' = Q /\ ~Intact' /\ dirty' = {} /\ P'.there
        BY <2>1, <2>3, <2>4, <2>6, <3>1, <4>1 DEF Intact, Sheltered
      <4>3. Snapshot
        BY <2>1, <2>6, <3>1 DEF Sheltered
      <4>4. QED
        BY <2>2, <4>2, <4>3 DEF Snapshot
    <3>2. CASE "primary" \notin torn
      <4>1. P' = P /\ Intact' = Intact
        BY <2>3, <3>2 DEF Intact
      <4>2. CASE torn = {}
        <5>1. Q' = Q /\ dirty' = dirty
          BY <2>1, <2>3, <4>2
        <5>2. Snapshot' = Snapshot
          BY <2>2, <5>1 DEF Snapshot
        <5>3. QED
          BY <2>2, <2>6, <4>1, <5>1, <5>2 DEF Sheltered
      <4>3. CASE torn # {} /\ Intact
        <5>1. dirty' = {}
          BY <2>1, <4>3
        <5>2. QED
          BY <2>2, <2>6, <4>1, <4>3, <5>1 DEF Sheltered, Intact
      <4>4. CASE torn # {} /\ ~Intact
        <5>1. Snapshot /\ "previous" \notin dirty /\ P.there
          BY <2>6, <4>4 DEF Sheltered
        <5>2. Q' = Q /\ dirty' = {}
          BY <2>1, <2>3, <4>4, <5>1
        <5>3. QED
          BY <2>2, <4>1, <4>4, <5>1, <5>2 DEF Snapshot
      <4>5. QED
        BY <4>2, <4>3, <4>4
    <3>3. QED
      BY <3>1, <3>2
  <2>7. QED
    BY <2>2, <2>5, <2>6 DEF Sheltered
<1>18. CASE UNCHANGED vars
  BY <1>4, <1>18 DEF vars, memory, history, Sheltered
<1>19. QED
  BY <1>3, <1>5, <1>7, <1>9, <1>10, <1>12, <1>13, <1>14, <1>15, <1>16, <1>17, <1>18 DEF Next

\* A power loss that truncates one file costs one acknowledged save at most,
\* on a machine where nothing else goes wrong.
THEOREM OneSaveIsLost ==
  ASSUME MaxTorn <= 1
  PROVE  Spec => []OneSaveLostWithoutFaults
<1> DEFINE Safe == IInv /\ (faults = {} => Sheltered)
<1>1. Init => Safe
  <2> SUFFICES ASSUME Init PROVE Safe
    OBVIOUS
  <2>1. /\ step = "idle" /\ loaded = FALSE /\ rested = FALSE /\ ~P.there
    BY DEF Init, P, Absent, Names
  <2>2. Sheltered
    BY <2>1 DEF Sheltered, Intact
  <2>3. QED
    BY <2>2, InitIInv
<1>2. Safe /\ [Next]_vars => Safe'
  <2> SUFFICES ASSUME Safe, [Next]_vars PROVE Safe'
    OBVIOUS
  <2>1. faults' = faults
    BY DEF Next, vars
  <2>2. IInv'
    BY TypeStep, DurableStep DEF IInv
  <2>3. QED
    BY <2>1, <2>2, ShelteredStep
<1>3. Safe => OneSaveLostWithoutFaults
  <2> SUFFICES ASSUME IInv, Sheltered, rested PROVE Recovered \in {acked, older} /\ Recovered.whole
    BY DEF OneSaveLostWithoutFaults, OneSaveLostAtMost
  <2>1. TypeOK
    BY DEF IInv
  <2>2. CASE Intact
    BY <2>1, <2>2, RecoveredFrom DEF Sheltered
  <2>3. CASE ~Intact
    BY <2>1, <2>3, RecoveredFrom DEF Sheltered, Snapshot
  <2>4. QED
    BY <2>2, <2>3
<1>4. QED
  <2> HIDE DEF Safe
  <2> QED
    BY <1>1, <1>2, <1>3, PTL DEF Spec

=============================================================================
