------------------------- MODULE PluginsProperties -------------------------
(***************************************************************************)
(* What the loaders promise to the modules, and the bot to Discord.        *)
(***************************************************************************)
EXTENDS Plugins

\* Shape of the state: the places of both threads, and mutexes that are held
\* exactly while callbacks run under them.
PluginsTypeOK ==
  /\ mainAt \in {"extensions", "natives", "luas", "list", "listluas", "sync", "put",
              "loop", "ticking", "ticked", "tickinglua", "unload"}
  /\ serviceAt \in {"idle", "publish", "hear", "heard", "hearlua", "command",
                 "commandlua", "search", "run", "runlua", "scan", "scanlua",
                 "reload", "joined"}
  /\ scan \subseteq Extensions /\ LiveExtensions \subseteq Extensions
  /\ loaded \subseteq Modules /\ leaked \subseteq Natives /\ reloading \subseteq Modules
  /\ owner \in [Kinds -> Threads \cup {Nobody}]
  /\ owner["native"] = "main" <=> mainAt = "ticking"
  /\ owner["lua"] = "main" <=> mainAt = "tickinglua"
  /\ inside \in [Threads -> Modules \cup {Nobody}]
  /\ \A t \in Threads : visit[t] \subseteq Modules

\* MODULE_SYSTEM.md: "Never unload a native library while its callback is
\* executing."  Whatever tick, message, command and reload coincide, a module
\* that a thread executes, or is about to call, is loaded.
CallbackInLoaded ==
  \A t \in Threads : visit[t] \cup ({inside[t]} \ {Nobody}) \subseteq loaded

\* A module holds addresses of functions in extensions, and may use them until
\* its own shutdown is over: reloads in any order, an early one while the
\* extensions are still being loaded, and the destructor keep all of them.
ExtensionsOutliveModules == \A m \in loaded \cap Natives : Needs[m] \subseteq LiveExtensions

\* READY and the end of loading come in either order, and READY comes again
\* after every reconnect: the commands are put to Discord once, never twice,
\* and when neither thread is on its way to it they have been, or wait for an
\* identity; a configuration that does not register them sees none.  Until a
\* module changes they are those of the loaded modules.
CataloguePublishedOnce ==
  /\ Len(published) <= 1
  /\ mainAt \in {"loop", "ticking", "ticked", "tickinglua"} /\ serviceAt # "publish" =>
       (published # <<>> <=> registers /\ identity)
  /\ mainAt \notin {"unload", "listluas"} /\ ~stale =>
       \A k \in DOMAIN published : published[k] = loaded

\* However the two mutexes are passed between the threads, nobody waits for
\* ever: what the service thread has begun it ends, so that it can be joined.
EventsEnd == (serviceAt # "idle") ~> (serviceAt \in {"idle", "joined"})
=============================================================================
