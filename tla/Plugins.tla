------------------------------ MODULE Plugins ------------------------------
(***************************************************************************)
(* Extensions, native modules and Lua modules: DiscordBot::run loads them, *)
(* announces their commands and ticks them on the main thread, while the   *)
(* gateway's service thread, which connect() started before run(), hands   *)
(* messages and commands to them, reloads them for an administrator, and   *)
(* learns from READY which application the commands belong to.             *)
(*                                                                         *)
(* Each loader of modules has one recursive mutex; a thread keeps it for   *)
(* all the callbacks of one message, command or tick.  What a scan or a    *)
(* reload does to one loader it does under that mutex, in one step here.   *)
(***************************************************************************)
EXTENDS Naturals, Sequences, FiniteSets

CONSTANTS
  Extensions, \* the extension files in lib/
  Natives,    \* the native module files in modules/
  Luas,       \* the Lua module files in modules/
  Needs,      \* external: the extensions whose functions a module resolves
  Nobody,     \* no thread, or no module
  MaxRebuilds, \* bound: how many files are replaced while the bot runs
  MaxEvents    \* bound: how many READYs and messages the gateway delivers

Modules == Natives \cup Luas
Kinds == {"native", "lua"}
Threads == {"main", "service"}

\* External: what a file holds.  A broken one fails the checks of symbols,
\* metadata or API version, a bad one its own initialisation or the check of
\* its command table; of a script or an extension only good and bad matter.
Builds == {"good", "bad", "broken"}

ASSUME PluginsAssumption ==
  /\ Needs \in [Natives -> SUBSET Extensions]
  /\ Natives \cap Luas = {} /\ Nobody \notin Modules \cup Threads
  /\ MaxRebuilds \in Nat /\ MaxEvents \in Nat

VARIABLES
  mainAt,     \* where the main thread is
  scan,       \* the extension files it has not tried yet
  serviceAt,  \* where the service thread is
  extensions, \* extensions_, in the order they were initialised
  loaded,     \* modules_ of both loaders
  leaked,     \* libraries that nobody will close
  owner,      \* who holds the mutex of each loader
  visit,      \* the modules whose callbacks a thread has yet to call
  inside,     \* the module whose callback a thread executes
  reloading,  \* the modules a reload has yet to come to
  identity,   \* application_id_ is known
  catalogue,  \* the command payload the main thread has built
  pending,    \* pending_application_commands_
  taken,      \* the payload READY took from there
  published,  \* history: the payloads put to Discord
  stale,      \* history: modules changed since the payload was begun
  registers,  \* the configuration: commands are registered on start
  files,      \* external: what each file holds
  rebuilds,
  events

threadVars == <<mainAt, scan, serviceAt, owner, visit, inside, reloading>>
moduleVars == <<extensions, loaded, leaked>>
commandVars == <<identity, catalogue, pending, taken, published, stale>>
outsideVars == <<registers, files, rebuilds, events>>
pluginsVars == <<threadVars, moduleVars, commandVars, outsideVars>>

FilesOf(kind) == IF kind = "native" THEN Natives ELSE Luas
LoadedOf(kind) == loaded \cap FilesOf(kind)
LiveExtensions == {extensions[k] : k \in DOMAIN extensions}
NoPayload == Modules \cup {Nobody}

-----------------------------------------------------------------------------
(* ExtensionLoader::load_extension, ModuleLoader and LuaModuleLoader *)

\* A failed extension is closed again by its destructor, which calls its
\* shutdown only if its initialisation went well.
LoadExtension ==
  /\ mainAt = "extensions"
  /\ \E e \in scan :
       /\ scan' = scan \ {e}
       /\ extensions' = IF files[e] = "good" THEN Append(extensions, e) ELSE extensions
  /\ UNCHANGED <<mainAt, serviceAt, owner, visit, inside, reloading, loaded, leaked,
                 commandVars, outsideVars>>

\* External: dlopen of a library that is still open returns that image again,
\* whatever the file holds now.
Image(m) == IF m \in leaked THEN "broken" ELSE files[m]

\* A module refuses to initialise without the functions it needs.
Loads(m) == Image(m) = "good" /\ (m \in Natives => Needs[m] \subseteq LiveExtensions)

\* load_modules_from_directory: what is loaded already is not loaded again.
\* unload() does nothing before loaded_ is set, so that a library which fails
\* the first checks is never closed.
Scan(kind) ==
  LET new == FilesOf(kind) \ loaded
  IN /\ owner[kind] = Nobody
     /\ loaded' = loaded \cup {m \in new : Loads(m)}
     /\ leaked' = leaked \cup {m \in new \cap Natives : Image(m) = "broken"}
     /\ stale' = (stale \/ loaded' # loaded)

\* Mutated: a reload takes the module away without taking the mutex.
ReloadModuleUnlocked(m) ==
  LET keeps == m \in loaded /\ Loads(m)
  IN /\ loaded' = IF keeps THEN loaded ELSE loaded \ {m}
     /\ leaked' = IF m \in loaded \cap Natives /\ Image(m) = "broken"
                  THEN leaked \cup {m} ELSE leaked
     /\ stale' = TRUE

\* reload_module: the module is gone before its successor is tried.
ReloadModule(m) ==
  LET keeps == m \in loaded /\ Loads(m)
  IN /\ \A kind \in Kinds : m \in FilesOf(kind) => owner[kind] = Nobody
     /\ loaded' = IF keeps THEN loaded ELSE loaded \ {m}
     /\ leaked' = IF m \in loaded \cap Natives /\ Image(m) = "broken"
                  THEN leaked \cup {m} ELSE leaked
     /\ stale' = TRUE

\* on_message, on_tick and dispatch_command: under the mutex, the callbacks of
\* some modules, one after the other.
Enter(t, kind, modules) ==
  /\ owner[kind] = Nobody
  /\ owner' = [owner EXCEPT ![kind] = t]
  /\ visit' = [visit EXCEPT ![t] = modules]

Callback(t) ==
  /\ inside[t] = Nobody
  /\ \E m \in visit[t] :
       /\ inside' = [inside EXCEPT ![t] = m]
       /\ visit' = [visit EXCEPT ![t] = @ \ {m}]
  /\ UNCHANGED <<mainAt, scan, serviceAt, owner, reloading, moduleVars, commandVars,
                 outsideVars>>

Returned(t) ==
  /\ inside[t] # Nobody
  /\ inside' = [inside EXCEPT ![t] = Nobody]
  /\ UNCHANGED <<mainAt, scan, serviceAt, owner, visit, reloading, moduleVars,
                 commandVars, outsideVars>>

\* Mutated: a failed Lua callback returns without releasing the mutex.
ReleaseKeepsLua(t, kind) ==
  /\ owner[kind] = t
  /\ visit[t] = {} /\ inside[t] = Nobody
  /\ owner' = [owner EXCEPT ![kind] = IF kind = "lua" THEN t ELSE Nobody]

Release(t, kind) ==
  /\ owner[kind] = t
  /\ visit[t] = {} /\ inside[t] = Nobody
  /\ owner' = [owner EXCEPT ![kind] = Nobody]

-----------------------------------------------------------------------------
(* The main thread: DiscordBot::run and the destructor *)

ExtensionsLoaded ==
  /\ mainAt = "extensions" /\ scan = {}
  /\ mainAt' = "natives"
  /\ UNCHANGED <<scan, serviceAt, owner, visit, inside, reloading, moduleVars,
                 commandVars, outsideVars>>

LoadNatives ==
  /\ mainAt = "natives"
  /\ Scan("native")
  /\ mainAt' = "luas"
  /\ UNCHANGED <<scan, serviceAt, owner, visit, inside, reloading, extensions,
                 identity, catalogue, pending, taken, published, outsideVars>>

LoadLuas ==
  /\ mainAt = "luas"
  /\ Scan("lua")
  /\ mainAt' = "list"
  /\ UNCHANGED <<scan, serviceAt, owner, visit, inside, reloading, extensions,
                 identity, catalogue, pending, taken, published, outsideVars>>

\* ROUTINE_MODULES_LOADED: build_application_commands asks the native loader
\* and then, under another mutex, the Lua loader.
ListNatives ==
  /\ mainAt = "list" /\ owner["native"] = Nobody
  /\ catalogue' = LoadedOf("native")
  /\ stale' = FALSE
  /\ mainAt' = "listluas"
  /\ UNCHANGED <<scan, serviceAt, owner, visit, inside, reloading, moduleVars,
                 identity, pending, taken, published, outsideVars>>

ListLuas ==
  /\ mainAt = "listluas" /\ owner["lua"] = Nobody
  /\ catalogue' = catalogue \cup LoadedOf("lua")
  /\ mainAt' = "sync"
  /\ UNCHANGED <<scan, serviceAt, owner, visit, inside, reloading, moduleVars,
                 identity, pending, taken, published, stale, outsideVars>>

\* sync_application_commands: nothing unless the configuration registers them.
\* Without an identity the payload is parked under application_command_mutex_,
\* with one it is put after the mutex is left.
SyncCommands ==
  /\ mainAt = "sync"
  /\ mainAt' = IF registers /\ identity THEN "put" ELSE "loop"
  /\ pending' = IF registers /\ ~identity THEN catalogue ELSE pending
  /\ UNCHANGED <<scan, serviceAt, owner, visit, inside, reloading, moduleVars,
                 identity, catalogue, taken, published, stale, outsideVars>>

PutCommands ==
  /\ mainAt = "put"
  /\ published' = Append(published, catalogue)
  /\ mainAt' = "loop"
  /\ UNCHANGED <<scan, serviceAt, owner, visit, inside, reloading, moduleVars,
                 identity, catalogue, pending, taken, stale, outsideVars>>

\* Every second on_tick of the native loader, then of the Lua loader.
BeginTick ==
  /\ \/ mainAt = "loop" /\ Enter("main", "native", LoadedOf("native")) /\ mainAt' = "ticking"
     \/ mainAt = "ticked" /\ Enter("main", "lua", LoadedOf("lua")) /\ mainAt' = "tickinglua"
  /\ UNCHANGED <<scan, serviceAt, inside, reloading, moduleVars, commandVars, outsideVars>>

\* Mutated: the mutex is released before the last callback has returned.
EndTickEarly ==
  /\ mainAt = "ticking" /\ visit["main"] = {}
  /\ owner' = [owner EXCEPT !["native"] = Nobody]
  /\ mainAt' = IF inside["main"] = Nobody THEN "ticked" ELSE "ticking"
  /\ UNCHANGED <<scan, serviceAt, visit, inside, reloading, moduleVars, commandVars,
                 outsideVars>>

EndTick ==
  /\ \/ mainAt = "ticking" /\ Release("main", "native") /\ mainAt' = "ticked"
     \/ mainAt = "tickinglua" /\ Release("main", "lua") /\ mainAt' = "loop"
  /\ UNCHANGED <<scan, serviceAt, visit, inside, reloading, moduleVars, commandVars,
                 outsideVars>>

\* disconnect() joins the service thread.
Disconnect ==
  /\ mainAt = "loop" /\ serviceAt = "idle"
  /\ mainAt' = "unload" /\ serviceAt' = "joined"
  /\ UNCHANGED <<scan, owner, visit, inside, reloading, moduleVars, commandVars,
                 outsideVars>>

\* ~DiscordBot: the Lua modules, the native ones, then the extensions, the
\* last initialised first.
UnloadModule ==
  /\ mainAt = "unload"
  /\ \E m \in IF LoadedOf("lua") # {} THEN LoadedOf("lua") ELSE loaded :
       loaded' = loaded \ {m}
  /\ UNCHANGED <<threadVars, extensions, leaked, commandVars, outsideVars>>

\* Mutated: the extensions do not wait for the modules.
UnloadExtensionEarly ==
  /\ mainAt = "unload" /\ extensions # <<>>
  /\ extensions' = SubSeq(extensions, 1, Len(extensions) - 1)
  /\ UNCHANGED <<threadVars, loaded, leaked, commandVars, outsideVars>>

UnloadExtension ==
  /\ mainAt = "unload" /\ loaded = {} /\ extensions # <<>>
  /\ extensions' = SubSeq(extensions, 1, Len(extensions) - 1)
  /\ UNCHANGED <<threadVars, loaded, leaked, commandVars, outsideVars>>

-----------------------------------------------------------------------------
(* The service thread: READY, messages, commands and reloads *)

Event ==
  /\ serviceAt = "idle"
  /\ events < MaxEvents
  /\ events' = events + 1
  /\ UNCHANGED <<registers, files, rebuilds>>

\* Mutated: the parked payload is looked at before the identity is set.
ReadyTakesFirst ==
  /\ Event
  /\ \/ UNCHANGED <<identity, taken, pending, serviceAt>>
     \/ \E known \in BOOLEAN :
          /\ identity' = (identity \/ known)
          /\ IF identity /\ pending # NoPayload
             THEN taken' = pending /\ pending' = NoPayload /\ serviceAt' = "publish"
             ELSE UNCHANGED <<taken, pending, serviceAt>>
  /\ UNCHANGED <<mainAt, scan, owner, visit, inside, reloading, moduleVars,
                 catalogue, published, stale>>

\* handle_dispatch_event: the identity and the parked payload under one
\* mutex, the request after it is left.  A second READY finds no payload, one
\* that cannot be read or has no user looks for none, and a user may come
\* without an id.
Ready ==
  /\ Event
  /\ \/ UNCHANGED <<identity, taken, pending, serviceAt>>
     \/ \E known \in BOOLEAN :
          /\ identity' = (identity \/ known)
          /\ IF identity' /\ pending # NoPayload
             THEN taken' = pending /\ pending' = NoPayload /\ serviceAt' = "publish"
             ELSE UNCHANGED <<taken, pending, serviceAt>>
  /\ UNCHANGED <<mainAt, scan, owner, visit, inside, reloading, moduleVars,
                 catalogue, published, stale>>

PublishTaken ==
  /\ serviceAt = "publish"
  /\ published' = Append(published, taken)
  /\ serviceAt' = "idle"
  /\ UNCHANGED <<mainAt, scan, owner, visit, inside, reloading, moduleVars,
                 identity, catalogue, pending, taken, stale, outsideVars>>

\* on_message_create: all modules hear the message, then it may be a command.
Message ==
  /\ Event
  /\ Enter("service", "native", LoadedOf("native"))
  /\ serviceAt' = "hear"
  /\ UNCHANGED <<mainAt, scan, inside, reloading, moduleVars, commandVars>>

\* on_interaction_create: a slash command is not heard as a message.
Interaction ==
  /\ Event
  /\ serviceAt' = "command"
  /\ UNCHANGED <<mainAt, scan, owner, visit, inside, reloading, moduleVars, commandVars>>

HearLuas ==
  /\ serviceAt = "heard"
  /\ Enter("service", "lua", LoadedOf("lua"))
  /\ serviceAt' = "hearlua"
  /\ UNCHANGED <<mainAt, scan, inside, reloading, moduleVars, commandVars, outsideVars>>

\* dispatch_command: the first module that has the command, or none.
Dispatch ==
  /\ \E kind \in Kinds, m \in Modules \cup {Nobody} :
       /\ serviceAt = IF kind = "native" THEN "command" ELSE "commandlua"
       /\ m \in LoadedOf(kind) \cup {Nobody}
       /\ Enter("service", kind, {m} \ {Nobody})
       /\ serviceAt' = IF kind = "lua" THEN "runlua" ELSE IF m = Nobody THEN "search" ELSE "run"
  /\ UNCHANGED <<mainAt, scan, inside, reloading, moduleVars, commandVars, outsideVars>>

EndCallbacks ==
  /\ \/ serviceAt = "hear" /\ Release("service", "native") /\ serviceAt' = "heard"
     \/ serviceAt = "hearlua" /\ Release("service", "lua") /\ serviceAt' = "command"
     \/ serviceAt = "search" /\ Release("service", "native") /\ serviceAt' = "commandlua"
     \/ serviceAt = "run" /\ Release("service", "native") /\ serviceAt' = "idle"
     \/ serviceAt = "runlua" /\ Release("service", "lua") /\ serviceAt' = "idle"
  /\ UNCHANGED <<mainAt, scan, visit, inside, reloading, moduleVars, commandVars,
                 outsideVars>>

\* reload_command: of one module, or a scan for new files and then all that
\* are loaded by then.
Reload ==
  /\ serviceAt = "command"
  /\ \/ serviceAt' = "scan" /\ UNCHANGED reloading
     \/ \E m \in loaded : reloading' = {m} /\ serviceAt' = "reload"
  /\ UNCHANGED <<mainAt, scan, owner, visit, inside, moduleVars, commandVars,
                 outsideVars>>

ScanAgain ==
  /\ \/ serviceAt = "scan" /\ Scan("native") /\ serviceAt' = "scanlua"
        /\ UNCHANGED reloading
     \/ serviceAt = "scanlua" /\ Scan("lua") /\ serviceAt' = "reload"
        /\ reloading' = loaded'
  /\ UNCHANGED <<mainAt, scan, owner, visit, inside, extensions, identity,
                 catalogue, pending, taken, published, outsideVars>>

ReloadNext ==
  /\ serviceAt = "reload"
  /\ \E m \in IF reloading \cap Natives # {} THEN reloading \cap Natives ELSE reloading :
       /\ ReloadModule(m)
       /\ reloading' = reloading \ {m}
  /\ UNCHANGED <<mainAt, scan, serviceAt, owner, visit, inside, extensions, identity,
                 catalogue, pending, taken, published, outsideVars>>

Reloaded ==
  /\ serviceAt = "reload" /\ reloading = {}
  /\ serviceAt' = "idle"
  /\ UNCHANGED <<mainAt, scan, owner, visit, inside, reloading, moduleVars,
                 commandVars, outsideVars>>

-----------------------------------------------------------------------------
\* External: somebody replaces a file in modules/.
Rebuild ==
  /\ rebuilds < MaxRebuilds
  /\ \E m \in Modules, b \in Builds : files[m] # b /\ files' = [files EXCEPT ![m] = b]
  /\ rebuilds' = rebuilds + 1
  /\ UNCHANGED <<threadVars, moduleVars, commandVars, registers, events>>

PluginsInit ==
  /\ mainAt = "extensions" /\ scan = Extensions
  /\ serviceAt = "idle"
  /\ extensions = <<>> /\ loaded = {} /\ leaked = {}
  /\ owner = [kind \in Kinds |-> Nobody]
  /\ visit = [t \in Threads |-> {}]
  /\ inside = [t \in Threads |-> Nobody]
  /\ reloading = {}
  /\ registers \in BOOLEAN /\ identity \in BOOLEAN
  /\ catalogue = {} /\ pending = NoPayload /\ taken = NoPayload
  /\ published = <<>> /\ stale = FALSE
  /\ files \in [Extensions \cup Modules -> {"good", "bad"}]
  /\ rebuilds = 0 /\ events = 0

Main ==
  \/ LoadExtension \/ ExtensionsLoaded \/ LoadNatives \/ LoadLuas
  \/ ListNatives \/ ListLuas \/ SyncCommands \/ PutCommands
  \/ BeginTick \/ Callback("main") \/ Returned("main") \/ EndTick
  \/ Disconnect \/ UnloadModule \/ UnloadExtension

Service ==
  \/ PublishTaken \/ HearLuas \/ Dispatch \/ Callback("service") \/ Returned("service")
  \/ EndCallbacks \/ ScanAgain \/ ReloadNext \/ Reloaded

PluginsNext == Main \/ Service \/ Ready \/ Message \/ Interaction \/ Reload \/ Rebuild

PluginsSpec == PluginsInit /\ [][PluginsNext]_pluginsVars

\* Both threads are scheduled, and a module's callback returns.  The main thread
\* ticks once a second and sleeps 100 ms in each turn of its loop, so the
\* service thread gets a mutex that becomes free again and again.
PluginsFairSpec == PluginsSpec /\ WF_pluginsVars(Main) /\ SF_pluginsVars(Service)
=============================================================================
