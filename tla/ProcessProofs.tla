--------------------------- MODULE ProcessProofs ---------------------------
(***************************************************************************)
(* The threads of the bot's process, for every instance of the two modules *)
(* that model them.  Gateway: the client's threads never overlap, outlive  *)
(* what they use or stay behind, for any number of attempts and heartbeat  *)
(* threads and whatever the gateway answers, early or late.  Plugins:      *)
(* nobody runs code that is gone, whatever files are replaced and modules  *)
(* reloaded, and the commands are published once, for any extensions,      *)
(* modules and needs.                                                      *)
(***************************************************************************)
EXTENDS GatewayProperties, PluginsProperties, TLAPS

-----------------------------------------------------------------------------
(* Gateway: the inductive invariant *)

Tearing == {"d1", "d2", "d3", "d4", "d5"}

\* HELLO is being handled.
Helloing == service \in {"join", "arm", "spawn"} \cup Beats

\* Where disconnect() returns to, and how many attempts that may have taken.
Returns ==
  /\ main \in {"connect", "await"} => after \in {"run", "loop"}
  /\ main \in Tearing => after \in {"retry", "destroy", "pause", "destroyclient", "exited"}
  /\ main = "retry" \/ (main \in Tearing /\ after = "retry") => attempt <= MaxAttempts + 1
  /\ main = "pause" \/ (main \in Tearing /\ after = "pause") => attempt <= MaxAttempts
  /\ main \in {"connect", "await"} /\ after = "loop" => attempt <= MaxAttempts

\* A heartbeat thread that was not joined is either stored, or the one that the
\* service thread has just started; a connection starts with neither.
Known ==
  /\ \A b \in Beats : beat[b] # "none" => b = handle \/ b = service
  /\ Helloing => handle = "none" /\ net = "greeted"
  /\ net \in {"opening", "open"} => handle = "none"

\* What the client believes of the connection.
Believed ==
  /\ net \in {"none", "opening", "closed"} => ~connected
  /\ ~context => net = "none" /\ service = "none"
  /\ main \in {"run", "enter", "loop"} => net # "opening"
  /\ main \in {"await", "run", "enter", "loop"} /\ ~connected => net \notin Live

\* No HELLO can be handled any more.
Quiet == net \notin {"opening", "open"} /\ ~Helloing

Down == service = "none" /\ ~context /\ net = "none"

\* What disconnect() has achieved where.
TornDown ==
  /\ main = "d5" => service = "none"
  /\ main = "retry" \/ (main \in Tearing /\ after = "pause") => Quiet
  /\ main \in {"connect", "pause", "destroy", "destroyclient", "exited"} => Down
  /\ main \in Tearing /\ after \in {"destroyclient", "exited"} => Down
  /\ main \in {"connect", "pause", "exited"} => handle = "none"
  /\ main \in {"d4", "d5"} /\ after \in {"pause", "exited"} => handle = "none"

\* The heartbeat thread of a greeted connection goes on: its flag is set, and
\* stays so until somebody tears down.
Covered ==
  /\ ws_running => main \notin {"d2", "d3", "d4", "d5"}
  /\ net = "greeted" /\ ws_running /\ connected =>
       /\ service \notin {"join", "arm"} => should_heartbeat
       /\ service \in Beats => beat[service] # "done"
       /\ ~Helloing => handle # "none" /\ beat[handle] # "done"

\* A heartbeat thread sends only once its handle is stored, and not while its
\* context is destroyed.
Sending ==
  /\ \A b \in Beats : beat[b] \in {"send", "wake"} => service # b
  /\ ~SlowTurns /\ main \in {"d4", "d5"} =>
       \A b \in Beats : beat[b] \notin {"send", "wake"}
  /\ ~SlowTurns /\ ~context => \A b \in Beats : beat[b] # "wake"

IInv == TypeOK /\ Returns /\ Known /\ Believed /\ TornDown /\ Covered /\ Sending

\* TypeOK in two parts: the flags, and where the threads are.
Flags ==
  /\ bot_running \in BOOLEAN /\ shutdown_requested \in BOOLEAN
  /\ connected \in BOOLEAN /\ should_heartbeat \in BOOLEAN
  /\ ws_running \in BOOLEAN /\ context \in BOOLEAN
  /\ reconnect_allowed \in BOOLEAN /\ reconnect_requested \in BOOLEAN
  /\ complete \in BOOLEAN /\ late \in LateAnswers

ThreadPlaces ==
  /\ watcher \in {"none", "watching", "ended"}
  /\ main \in MainPlaces /\ after \in MainPlaces
  /\ attempt \in 0..(MaxAttempts + 2)
  /\ service \in ServicePlaces
  /\ beat \in [Beats -> BeatPlaces]
  /\ handle \in Beats \cup {"none"}
  /\ net \in {"none", "opening", "open", "greeted", "closing", "closed"}

-----------------------------------------------------------------------------
\* A client that never connected satisfies it.
LEMMA Starts == Init => IInv
<1> SUFFICES ASSUME Init PROVE IInv
  OBVIOUS
<1> USE AttemptsAssumption, TimingAssumption, BeatsAssumption DEF Init
<1>1. TypeOK
  <2>1. Flags
    BY DEF Flags
  <2>2. ThreadPlaces
    BY DEF ThreadPlaces, MainPlaces, ServicePlaces, BeatPlaces
  <2>3. QED
    BY <2>1, <2>2 DEF Flags, ThreadPlaces, TypeOK
<1>2. Returns /\ Known /\ Believed
  BY DEF Returns, Known, Believed, Tearing, Helloing, Live
<1>3. TornDown /\ Covered /\ Sending
  BY DEF TornDown, Covered, Sending, Tearing, Helloing, Quiet, Down
<1>4. QED
  BY <1>1, <1>2, <1>3 DEF IInv

\* Every step of every thread keeps it.
LEMMA Preserved == IInv /\ [Next]_vars => IInv'
<1> SUFFICES ASSUME IInv, [Next]_vars PROVE IInv'
  OBVIOUS
<1> USE AttemptsAssumption, TimingAssumption, BeatsAssumption
    DEF IInv, TypeOK, Returns, Known, Believed, TornDown, Covered, Sending,
        Tearing, Helloing, Quiet, Down, MainPlaces, ServicePlaces, BeatPlaces,
        Live, Connections, botVars, mainVars, wsFlags, MayBeat, Flags, ThreadPlaces
<1>1. ASSUME StartAttempt, UNCHANGED late PROVE IInv'
  <2>1. Flags'
    BY <1>1 DEF StartAttempt, AttemptFailed, AfterFailure
  <2>2. ThreadPlaces'
    BY <1>1 DEF StartAttempt, AttemptFailed, AfterFailure
  <2>3. Returns' /\ Known' /\ Believed'
    BY <1>1 DEF StartAttempt, AttemptFailed, AfterFailure
  <2>4. TornDown' /\ Covered' /\ Sending'
    BY <1>1 DEF StartAttempt, AttemptFailed, AfterFailure
  <2>5. QED
    BY <2>1, <2>2, <2>3, <2>4
<1>2. ASSUME AttemptSucceeds, UNCHANGED late PROVE IInv'
  BY <1>2 DEF AttemptSucceeds
<1>3. ASSUME AttemptFails, UNCHANGED late PROVE IInv'
  BY <1>3 DEF AttemptFails, AttemptFailed, AfterFailure
<1>4. ASSUME Disconnect1, UNCHANGED late PROVE IInv'
  <2>1. Flags'
    BY <1>4 DEF Disconnect1
  <2>2. ThreadPlaces'
    BY <1>4 DEF Disconnect1
  <2>3. Returns' /\ Known' /\ Believed'
    BY <1>4 DEF Disconnect1
  <2>4. TornDown' /\ Covered' /\ Sending'
    BY <1>4 DEF Disconnect1
  <2>5. QED
    BY <2>1, <2>2, <2>3, <2>4
<1>5. ASSUME Disconnect2, UNCHANGED late PROVE IInv'
  <2>1. Flags'
    BY <1>5 DEF Disconnect2, NotifyBeats, Notified
  <2>2. ThreadPlaces'
    BY <1>5 DEF Disconnect2, NotifyBeats, Notified
  <2>3. Returns' /\ Known' /\ Believed'
    BY <1>5 DEF Disconnect2, NotifyBeats, Notified
  <2>4. TornDown' /\ Covered' /\ Sending'
    BY <1>5 DEF Disconnect2, NotifyBeats, Notified
  <2>5. QED
    BY <2>1, <2>2, <2>3, <2>4
<1>6. ASSUME Disconnect3, UNCHANGED late PROVE IInv'
  BY <1>6 DEF Disconnect3, JoinBeat
<1>7. ASSUME Disconnect4, UNCHANGED late PROVE IInv'
  BY <1>7 DEF Disconnect4
<1>8. ASSUME Disconnect5, UNCHANGED late PROVE IInv'
  <2>1. Flags'
    BY <1>8 DEF Disconnect5, OnClientClosed, NotifyBeats, Notified
  <2>2. ThreadPlaces'
    BY <1>8 DEF Disconnect5, OnClientClosed, NotifyBeats, Notified
  <2>3. Returns' /\ Known' /\ Believed'
    BY <1>8 DEF Disconnect5, OnClientClosed, NotifyBeats, Notified
  <2>4. TornDown' /\ Covered' /\ Sending'
    BY <1>8 DEF Disconnect5, OnClientClosed, NotifyBeats, Notified
  <2>5. QED
    BY <2>1, <2>2, <2>3, <2>4
<1>9. ASSUME StartRun, UNCHANGED late PROVE IInv'
  BY <1>9 DEF StartRun
<1>10. ASSUME EnterRun, UNCHANGED late PROVE IInv'
  BY <1>10 DEF EnterRun
<1>11. ASSUME Monitor, UNCHANGED late PROVE IInv'
  BY <1>11 DEF Monitor
<1>12. ASSUME Retry, UNCHANGED late PROVE IInv'
  BY <1>12 DEF Retry
<1>13. ASSUME Pause, UNCHANGED late PROVE IInv'
  BY <1>13 DEF Pause
<1>14. ASSUME Leave, UNCHANGED late PROVE IInv'
  <2>1. Flags'
    BY <1>14 DEF Leave
  <2>2. ThreadPlaces'
    BY <1>14 DEF Leave
  <2>3. Returns' /\ Known' /\ Believed'
    BY <1>14 DEF Leave
  <2>4. TornDown' /\ Covered' /\ Sending'
    BY <1>14 DEF Leave
  <2>5. QED
    BY <2>1, <2>2, <2>3, <2>4
<1>15. ASSUME Destroy, UNCHANGED late PROVE IInv'
  BY <1>15 DEF Destroy
<1>16. ASSUME ServiceTop, UNCHANGED late PROVE IInv'
  BY <1>16 DEF ServiceTop
<1>17. ASSUME EndPoll, UNCHANGED late PROVE IInv'
  BY <1>17 DEF EndPoll
<1>18. ASSUME Established, UNCHANGED late PROVE IInv'
  BY <1>18 DEF Established
<1>19. ASSUME Closed, UNCHANGED late PROVE IInv'
  <2>1. Flags'
    BY <1>19 DEF Closed, OnClientClosed, NotifyBeats, Notified
  <2>2. ThreadPlaces'
    BY <1>19 DEF Closed, OnClientClosed, NotifyBeats, Notified
  <2>3. Returns' /\ Known' /\ Believed'
    BY <1>19 DEF Closed, OnClientClosed, NotifyBeats, Notified
  <2>4. TornDown' /\ Covered' /\ Sending'
    BY <1>19 DEF Closed, OnClientClosed, NotifyBeats, Notified
  <2>5. QED
    BY <2>1, <2>2, <2>3, <2>4
<1>20. ASSUME PeerClose, UNCHANGED late PROVE IInv'
  <2>1. Flags'
    BY <1>20 DEF PeerClose
  <2>2. ThreadPlaces'
    BY <1>20 DEF PeerClose
  <2>3. Returns' /\ Known' /\ Believed'
    BY <1>20 DEF PeerClose
  <2>4. TornDown' /\ Covered' /\ Sending'
    BY <1>20 DEF PeerClose
  <2>5. QED
    BY <2>1, <2>2, <2>3, <2>4
<1>21. ASSUME ServerAsksReconnect, UNCHANGED late PROVE IInv'
  BY <1>21 DEF ServerAsksReconnect
<1>22. ASSUME ServiceTail, UNCHANGED late PROVE IInv'
  <2>1. Flags'
    BY <1>22 DEF ServiceTail
  <2>2. ThreadPlaces'
    BY <1>22 DEF ServiceTail
  <2>3. Returns' /\ Known' /\ Believed'
    BY <1>22 DEF ServiceTail
  <2>4. TornDown' /\ Covered' /\ Sending'
    BY <1>22 DEF ServiceTail
  <2>5. QED
    BY <2>1, <2>2, <2>3, <2>4
<1>23. ASSUME Hello, UNCHANGED late PROVE IInv'
  <2>1. Flags'
    BY <1>23 DEF Hello, NotifyBeats, Notified
  <2>2. ThreadPlaces'
    BY <1>23 DEF Hello, NotifyBeats, Notified
  <2>3. Returns' /\ Known' /\ Believed'
    BY <1>23 DEF Hello, NotifyBeats, Notified
  <2>4. TornDown' /\ Covered' /\ Sending'
    BY <1>23 DEF Hello, NotifyBeats, Notified
  <2>5. QED
    BY <2>1, <2>2, <2>3, <2>4
<1>24. ASSUME HelloJoins, UNCHANGED late PROVE IInv'
  BY <1>24 DEF HelloJoins, JoinBeat
<1>25. ASSUME HelloArms, UNCHANGED late PROVE IInv'
  BY <1>25 DEF HelloArms
<1>26. ASSUME HelloSpawns, UNCHANGED late PROVE IInv'
  BY <1>26 DEF HelloSpawns
<1>27. ASSUME HelloStores, UNCHANGED late PROVE IInv'
  BY <1>27 DEF HelloStores
<1>28. ASSUME NEW b \in Beats, BeatChecks(b), UNCHANGED late PROVE IInv'
  BY <1>28 DEF BeatChecks, BeatMoves
<1>29. ASSUME NEW b \in Beats, BeatEnters(b), UNCHANGED late PROVE IInv'
  BY <1>29 DEF BeatEnters, BeatMoves
<1>30. ASSUME NEW b \in Beats, BeatBlocks(b), UNCHANGED late PROVE IInv'
  BY <1>30 DEF BeatBlocks, BeatMoves
<1>31. ASSUME NEW b \in Beats, BeatWakes(b), UNCHANGED late PROVE IInv'
  BY <1>31 DEF BeatWakes, BeatMoves
<1>32. ASSUME NEW b \in Beats, BeatTimesOut(b), UNCHANGED late PROVE IInv'
  BY <1>32 DEF BeatTimesOut, BeatMoves
<1>33. ASSUME NEW b \in Beats, BeatSends(b), UNCHANGED late PROVE IInv'
  BY <1>33 DEF BeatSends, BeatMoves
<1>34. ASSUME NEW b \in Beats, BeatWakesService(b), UNCHANGED late PROVE IInv'
  BY <1>34 DEF BeatWakesService, BeatMoves
<1>35. ASSUME Signal, UNCHANGED late PROVE IInv'
  BY <1>35 DEF Signal
<1>36. ASSUME WatcherStops, UNCHANGED late PROVE IInv'
  <2>1. Flags'
    BY <1>36 DEF WatcherStops
  <2>2. ThreadPlaces'
    BY <1>36 DEF WatcherStops
  <2>3. Returns' /\ Known' /\ Believed'
    BY <1>36 DEF WatcherStops
  <2>4. TornDown' /\ Covered' /\ Sending'
    BY <1>36 DEF WatcherStops
  <2>5. QED
    BY <2>1, <2>2, <2>3, <2>4
<1>37. CASE UNCHANGED vars
  BY <1>37 DEF vars
<1>38. QED
  BY <1>1, <1>2, <1>3, <1>4, <1>5, <1>6, <1>7, <1>8, <1>9, <1>10, <1>11,
     <1>12, <1>13, <1>14, <1>15, <1>16, <1>17, <1>18, <1>19, <1>20, <1>21,
     <1>22, <1>23, <1>24, <1>25, <1>26, <1>27, <1>28, <1>29, <1>30, <1>31,
     <1>32, <1>33, <1>34, <1>35, <1>36, <1>37
     DEF Next, MainStep, ServiceStep, BeatStep, WatcherStep

\* So every reachable state has it.
LEMMA Invariant == Spec => []IInv
BY Starts, Preserved, PTL DEF Spec

-----------------------------------------------------------------------------
(* Gateway: what it gives *)

\* The flags and the places of the threads keep their shape: above all, the
\* reconnect loop counts its attempts out.
THEOREM TypeCorrect == Spec => []TypeOK
<1>1. IInv => TypeOK
  BY DEF IInv
<1>2. QED
  BY <1>1, Invariant, PTL

\* Two heartbeat threads never run side by side and no thread handle is joined
\* from two threads, however reconnects, HELLOs and disconnect() interleave:
\* a thread that was not joined is the stored one or the one being started,
\* and while one is being started none is stored.
THEOREM OneHeartbeatOnly == Spec => []OneHeartbeat
<1>1. IInv => OneHeartbeat
  BY BeatsAssumption
     DEF IInv, TypeOK, BeatPlaces, Known, Helloing, OneHeartbeat
<1>2. QED
  BY <1>1, Invariant, PTL

\* Behind the last disconnect() there is no thread, no context and no
\* connection, also when a heartbeat thread slipped through the one before.
THEOREM NothingLeft == Spec => []NothingLeftAtExit
<1>1. IInv => NothingLeftAtExit
  BY BeatsAssumption
     DEF IInv, TypeOK, Known, Believed, TornDown, Down, NothingLeftAtExit
<1>2. QED
  BY <1>1, Invariant, PTL

\* A connection past HELLO has a heartbeat thread that goes on, whatever the
\* flags were that the connection before it left behind.
THEOREM HeartbeatAlwaysCovers == Spec => []HeartbeatCovers
<1>1. IInv => HeartbeatCovers
  BY BeatsAssumption DEF IInv, Covered, Helloing, HeartbeatCovers
<1>2. QED
  BY <1>1, Invariant, PTL

\* The context is destroyed behind the last thread that uses it, as long as no
\* handler holds the service thread for a whole heartbeat interval: without
\* that assumption a heartbeat thread may be in lws_cancel_service.
THEOREM ContextOutlives ==
  ASSUME ~SlowTurns PROVE Spec => []ContextOutlivesUsers
<1>1. IInv => ContextOutlivesUsers
  BY DEF IInv, Believed, Sending, ContextOutlivesUsers
<1>2. QED
  BY <1>1, Invariant, PTL

-----------------------------------------------------------------------------
(* Plugins: the inductive invariant *)

Typed ==
  /\ PluginsTypeOK
  /\ extensions \in Seq(Extensions)
  /\ visit \in [Threads -> SUBSET Modules]
  /\ identity \in BOOLEAN /\ registers \in BOOLEAN /\ stale \in BOOLEAN
  /\ catalogue \subseteq Modules

\* Who holds a mutex is where it takes one, and the extensions are unloaded
\* after the service thread was joined.
Places ==
  /\ owner["native"] = "service" <=> serviceAt \in {"hear", "search", "run"}
  /\ owner["lua"] = "service" <=> serviceAt \in {"hearlua", "runlua"}
  /\ mainAt = "unload" <=> serviceAt = "joined"

\* The mutex that keeps m loaded is t's.
Guards(t, m) ==
  /\ m \in loaded
  /\ \/ m \in Natives /\ owner["native"] = t
     \/ m \in Luas /\ owner["lua"] = t

Guarded ==
  \A t \in Threads :
    /\ \A m \in visit[t] : Guards(t, m)
    /\ inside[t] # Nobody => Guards(t, inside[t])

\* The main thread has not handed the catalogue over yet.
Early == mainAt \in {"extensions", "natives", "luas", "list", "listluas", "sync", "put"}

\* The catalogue is in one place: with the main thread until it synchronises,
\* then parked, then with the service thread, then with Discord.
OnePlace ==
  /\ mainAt = "put" => registers /\ identity
  /\ Early => published = <<>> /\ serviceAt # "publish"
  /\ pending = IF Early \/ identity \/ ~registers THEN NoPayload ELSE catalogue
  /\ ~Early /\ ~(registers /\ identity) => published = <<>>
  /\ serviceAt = "publish" =>
       registers /\ identity /\ published = <<>> /\ taken = catalogue
  /\ ~Early /\ registers /\ identity /\ serviceAt # "publish" => published = <<catalogue>>

\* What it holds is what is loaded, as long as nothing changed.
Current ==
  ~stale =>
    /\ mainAt = "listluas" => catalogue = loaded \cap Natives
    /\ mainAt \notin {"extensions", "natives", "luas", "list", "listluas", "unload"} =>
         catalogue = loaded

Needed == ExtensionsOutliveModules

PluginsInv == Typed /\ Places /\ Guarded /\ OnePlace /\ Current /\ Needed

-----------------------------------------------------------------------------
LEMMA PluginsStart == PluginsInit => PluginsInv
<1> SUFFICES ASSUME PluginsInit PROVE PluginsInv
  OBVIOUS
<1> USE PluginsAssumption DEF PluginsInit, Threads, Kinds
<1>1. LiveExtensions = {}
  BY DEF LiveExtensions
<1>2. Typed
  <2>1. PluginsTypeOK
    BY <1>1 DEF PluginsTypeOK
  <2>2. extensions \in Seq(Extensions)
    OBVIOUS
  <2>3. identity \in BOOLEAN /\ registers \in BOOLEAN /\ stale \in BOOLEAN
    OBVIOUS
  <2>4. QED
    BY <2>1, <2>2, <2>3 DEF Typed
<1>3. Places /\ Guarded
  BY DEF Places, Guarded
<1>4. OnePlace /\ Current /\ Needed
  BY DEF OnePlace, Early, Current, Needed, ExtensionsOutliveModules
<1>5. QED
  BY <1>2, <1>3, <1>4 DEF PluginsInv

LEMMA Grows == ASSUME NEW e, extensions \in Seq(Extensions), e \in Extensions,
                      extensions' = Append(extensions, e)
               PROVE LiveExtensions \subseteq LiveExtensions'
  BY DEF LiveExtensions

LEMMA PluginsPreserved == PluginsInv /\ [PluginsNext]_pluginsVars => PluginsInv'
<1> SUFFICES ASSUME PluginsInv, [PluginsNext]_pluginsVars PROVE PluginsInv'
  OBVIOUS
<1> USE PluginsAssumption
    DEF PluginsInv, Typed, PluginsTypeOK, Places, Guards, Guarded, Early, OnePlace,
        Current, Needed, ExtensionsOutliveModules, Threads, Kinds, Modules, NoPayload,
        LoadedOf, FilesOf, threadVars, moduleVars, commandVars, outsideVars
<1>1. CASE UNCHANGED pluginsVars
  BY <1>1 DEF pluginsVars, LiveExtensions
<1>2. ASSUME LoadExtension PROVE PluginsInv'
  <2> USE <1>2 DEF LoadExtension, LiveExtensions
  <2>1. Typed'
    OBVIOUS
  <2>2. Places'
    OBVIOUS
  <2>3. Guarded'
    OBVIOUS
  <2>4. OnePlace'
    OBVIOUS
  <2>5. Current'
    OBVIOUS
  <2>6. Needed'
    OBVIOUS
  <2>7. QED
    BY <2>1, <2>2, <2>3, <2>4, <2>5, <2>6
<1>3. ASSUME ExtensionsLoaded PROVE PluginsInv'
  BY <1>3 DEF ExtensionsLoaded, LiveExtensions
<1>4. ASSUME LoadNatives PROVE PluginsInv'
  BY <1>4 DEF LoadNatives, Scan, Loads, Image, LiveExtensions
<1>5. ASSUME LoadLuas PROVE PluginsInv'
  BY <1>5 DEF LoadLuas, Scan, Loads, Image, LiveExtensions
<1>6. ASSUME ListNatives PROVE PluginsInv'
  <2> USE <1>6 DEF ListNatives, LiveExtensions
  <2>1. Typed'
    OBVIOUS
  <2>2. Places'
    OBVIOUS
  <2>3. Guarded'
    OBVIOUS
  <2>4. OnePlace'
    OBVIOUS
  <2>5. Current'
    OBVIOUS
  <2>6. Needed'
    OBVIOUS
  <2>7. QED
    BY <2>1, <2>2, <2>3, <2>4, <2>5, <2>6
<1>7. ASSUME ListLuas PROVE PluginsInv'
  BY <1>7 DEF ListLuas, LiveExtensions
<1>8. ASSUME SyncCommands PROVE PluginsInv'
  BY <1>8 DEF SyncCommands, LiveExtensions
<1>9. ASSUME PutCommands PROVE PluginsInv'
  BY <1>9 DEF PutCommands, LiveExtensions
<1>10. ASSUME BeginTick PROVE PluginsInv'
  BY <1>10 DEF BeginTick, Enter, LiveExtensions
<1>11. ASSUME EndTick PROVE PluginsInv'
  BY <1>11 DEF EndTick, Release, LiveExtensions
<1>12. ASSUME Disconnect PROVE PluginsInv'
  BY <1>12 DEF Disconnect, LiveExtensions
<1>13. ASSUME UnloadModule PROVE PluginsInv'
  BY <1>13 DEF UnloadModule, LiveExtensions
<1>14. ASSUME UnloadExtension PROVE PluginsInv'
  BY <1>14 DEF UnloadExtension, LiveExtensions
<1>15. ASSUME PublishTaken PROVE PluginsInv'
  BY <1>15 DEF PublishTaken, LiveExtensions
<1>16. ASSUME HearLuas PROVE PluginsInv'
  BY <1>16 DEF HearLuas, Enter, LiveExtensions
<1>17. ASSUME Dispatch PROVE PluginsInv'
  BY <1>17 DEF Dispatch, Enter, LiveExtensions
<1>18. ASSUME EndCallbacks PROVE PluginsInv'
  BY <1>18 DEF EndCallbacks, Release, LiveExtensions
<1>19. ASSUME ScanAgain PROVE PluginsInv'
  <2> USE <1>19 DEF ScanAgain, Scan, Loads, Image, LiveExtensions
  <2>1. Typed'
    <3>1. PluginsTypeOK'
      OBVIOUS
    <3>2. stale' \in BOOLEAN
      OBVIOUS
    <3>3. QED
      BY <3>1, <3>2
  <2>2. Places'
    OBVIOUS
  <2>3. Guarded'
    OBVIOUS
  <2>4. OnePlace'
    OBVIOUS
  <2>5. Current'
    OBVIOUS
  <2>6. Needed'
    OBVIOUS
  <2>7. QED
    BY <2>1, <2>2, <2>3, <2>4, <2>5, <2>6
<1>20. ASSUME ReloadNext PROVE PluginsInv'
  BY <1>20 DEF ReloadNext, ReloadModule, Loads, Image, LiveExtensions
<1>21. ASSUME Reloaded PROVE PluginsInv'
  BY <1>21 DEF Reloaded, LiveExtensions
<1>22. ASSUME Ready PROVE PluginsInv'
  BY <1>22 DEF Ready, Event, LiveExtensions
<1>23. ASSUME Message PROVE PluginsInv'
  BY <1>23 DEF Message, Event, Enter, LiveExtensions
<1>24. ASSUME Interaction PROVE PluginsInv'
  BY <1>24 DEF Interaction, Event, LiveExtensions
<1>25. ASSUME Reload PROVE PluginsInv'
  BY <1>25 DEF Reload, LiveExtensions
<1>26. ASSUME Rebuild PROVE PluginsInv'
  BY <1>26 DEF Rebuild, LiveExtensions
<1>27. ASSUME NEW t \in Threads, Callback(t) PROVE PluginsInv'
  BY <1>27 DEF Callback, LiveExtensions
<1>28. ASSUME NEW t \in Threads, Returned(t) PROVE PluginsInv'
  BY <1>28 DEF Returned, LiveExtensions
<1>29. QED
  BY <1>1, <1>2, <1>3, <1>4, <1>5, <1>6, <1>7, <1>8, <1>9, <1>10, <1>11,
     <1>12, <1>13, <1>14, <1>15, <1>16, <1>17, <1>18, <1>19, <1>20,
     <1>21, <1>22, <1>23, <1>24, <1>25, <1>26, <1>27, <1>28
     DEF PluginsNext, Main, Service

-----------------------------------------------------------------------------
(* Plugins: what it gives *)

LEMMA PluginsInvariant == PluginsSpec => []PluginsInv
  BY PluginsStart, PluginsPreserved, PTL DEF PluginsSpec

\* PluginsTypeOK, for every instance: in particular a mutex is held by the main thread
\* exactly while it ticks.
THEOREM PluginsTypeCorrect == PluginsSpec => []PluginsTypeOK
<1>1. PluginsInv => PluginsTypeOK
  BY DEF PluginsInv, Typed
<1>2. QED
  BY <1>1, PluginsInvariant, PTL

\* CallbackInLoaded, for every instance: a reload never takes a module away
\* from under a thread, since whoever calls a module keeps it with its mutex.
THEOREM CallbacksStayLoaded == PluginsSpec => []CallbackInLoaded
<1>1. PluginsInv => CallbackInLoaded
  BY DEF PluginsInv, Guarded, Guards, CallbackInLoaded
<1>2. QED
  BY <1>1, PluginsInvariant, PTL

\* ExtensionsOutliveModules, for every instance: the destructor's order is
\* enough, because a reload looks up again what its module needs.
THEOREM ExtensionsStay == PluginsSpec => []ExtensionsOutliveModules
<1>1. PluginsInv => ExtensionsOutliveModules
  BY DEF PluginsInv, Needed
<1>2. QED
  BY <1>1, PluginsInvariant, PTL

\* CataloguePublishedOnce, for every instance: however often READY comes, and
\* whether before or after the end of loading.
THEOREM PublishedOnce == PluginsSpec => []CataloguePublishedOnce
<1>1. PluginsInv => CataloguePublishedOnce
  <2> SUFFICES ASSUME PluginsInv PROVE CataloguePublishedOnce
    OBVIOUS
  <2>1. published = <<>> \/ (published = <<catalogue>> /\ ~Early)
    BY DEF PluginsInv, OnePlace
  <2>2. Len(published) <= 1
    <3>1. CASE published = <<>>
      BY <3>1
    <3>2. CASE published = <<catalogue>>
      BY <3>2
    <3>3. QED
      BY <2>1, <3>1, <3>2
  <2>3. mainAt \in {"loop", "ticking", "ticked", "tickinglua"} /\ serviceAt # "publish" =>
          (published # <<>> <=> registers /\ identity)
    BY DEF PluginsInv, OnePlace, Early
  <2>4. mainAt \notin {"unload", "listluas"} /\ ~stale =>
          \A k \in DOMAIN published : published[k] = loaded
    BY <2>1 DEF PluginsInv, Current, Early
  <2>5. QED
    BY <2>2, <2>3, <2>4 DEF CataloguePublishedOnce
<1>2. QED
  BY <1>1, PluginsInvariant, PTL
=============================================================================
