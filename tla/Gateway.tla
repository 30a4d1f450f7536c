------------------------------ MODULE Gateway ------------------------------
(***************************************************************************)
(* The gateway connection and its threads: WebSocketClient together with   *)
(* the reconnect loop of DiscordBot::run and the signal watcher of main(). *)
(*                                                                         *)
(*   main       connects, runs the monitoring loop, reconnects, destroys   *)
(*   service    owns libwebsockets: every callback runs on it              *)
(*   heartbeat  one thread per HELLO, started and joined by the others     *)
(*   watcher    turns the signal flag into request_stop()                  *)
(*                                                                         *)
(* A step is one access, or a run of accesses nobody can separate, to the  *)
(* atomics and thread handles the threads share.  Frames and payloads are  *)
(* left out: a HELLO is only what it does to the threads.                  *)
(***************************************************************************)
EXTENDS Naturals

CONSTANTS
  MaxAttempts,   \* config reconnect_attempts
  Beats,         \* names of heartbeat thread instances
  LateAnswers,   \* the values of late to explore
  SlowTurns      \* may a turn of service_loop outlast a heartbeat interval?

ASSUME AttemptsAssumption == MaxAttempts \in Nat
ASSUME TimingAssumption == LateAnswers \subseteq BOOLEAN /\ SlowTurns \in BOOLEAN
ASSUME BeatsAssumption ==
  Beats \cap {"none", "top", "poll", "tail", "join", "arm", "spawn", "exited"} = {}

VARIABLES
  bot_running,         \* DiscordBot::running_
  shutdown_requested,  \* the flag of signal_handler
  watcher,             \* the signal watcher thread
  main,                \* where the main thread is
  attempt,             \* the reconnect loop's counter
  after,               \* where the main thread goes when disconnect() is done
  connected,           \* connected_
  should_heartbeat,    \* should_heartbeat_
  ws_running,          \* WebSocketClient::running_
  reconnect_allowed,   \* reconnect_allowed_
  reconnect_requested, \* reconnect_requested_
  complete,            \* connection_attempt_complete_
  context,             \* context_ is not null
  service,             \* where the service thread is
  beat,                \* where each heartbeat thread is
  handle,              \* heartbeat_thread_: the joinable instance, or "none"
  net,                 \* the connection as libwebsockets sees it
  late                 \* may this gateway answer when connect() has given up?

wsFlags == <<reconnect_allowed, reconnect_requested, complete>>
botVars == <<bot_running, shutdown_requested, watcher>>
mainVars == <<main, attempt, after>>
vars == <<botVars, mainVars, connected, should_heartbeat, ws_running, wsFlags,
          context, service, beat, handle, net, late>>

\* notify_all wakes the heartbeat thread only if it already waits: the flags
\* are changed without heartbeat_mutex_, so a thread between its predicate
\* and its wait misses the notification.
Notified(b) == IF b = "wait" THEN "woken" ELSE b

\* A connection a peer can speak on, and one libwebsockets has yet to close.
Live == {"open", "greeted"}
Connections == Live \cup {"opening", "closing"}

NotifyBeats == beat' = [b \in Beats |-> Notified(beat[b])]

-----------------------------------------------------------------------------
(* The main thread: connect() *)

\* A failed first connection ends main(); in run() the next attempt follows.
AfterFailure == IF after = "run" THEN "destroy" ELSE "retry"
AttemptFailed == attempt' = IF after = "run" THEN attempt ELSE attempt + 1

\* connect() resets the flags, creates the context and starts the service
\* thread; both libwebsockets calls may fail.
StartAttempt ==
  /\ main = "connect"
  /\ connected' = FALSE
  /\ reconnect_allowed' = TRUE
  /\ reconnect_requested' = FALSE
  /\ complete' = FALSE
  /\ \/ /\ context' = TRUE
        /\ ws_running' = TRUE
        /\ service' = "poll"
        /\ net' = "opening"
        /\ main' = "await"
        /\ UNCHANGED <<attempt, after>>
     \/ /\ AttemptFailed
        /\ main' = AfterFailure
        /\ UNCHANGED <<after, context, ws_running, service, net>>
  /\ UNCHANGED <<botVars, should_heartbeat, beat, handle>>

AttemptSucceeds ==
  /\ main = "await"
  /\ complete /\ connected
  /\ main' = after
  /\ UNCHANGED <<botVars, attempt, after, connected, should_heartbeat,
                 ws_running, wsFlags, context, service, beat, handle, net>>

\* Closed before the waiter looked, refused, or 15 seconds without an answer.
AttemptFails ==
  /\ main = "await"
  /\ ~complete \/ ~connected
  /\ AttemptFailed
  /\ main' = "d1"
  /\ after' = AfterFailure
  /\ UNCHANGED <<botVars, connected, should_heartbeat, ws_running, wsFlags,
                 context, service, beat, handle, net>>

-----------------------------------------------------------------------------
(* The main thread: disconnect() *)

\* Mutated: a heartbeat thread alone does not count as something to tear down.
Disconnect1Hasty ==
  /\ main = "d1"
  /\ IF ~ws_running /\ ~context /\ service = "none"
     THEN /\ main' = after
          /\ UNCHANGED <<connected, ws_running>>
     ELSE /\ main' = "d2"
          /\ ws_running' = FALSE
          /\ connected' = FALSE
  /\ UNCHANGED <<botVars, attempt, after, should_heartbeat, wsFlags, context,
                 service, beat, handle, net>>

Disconnect1 ==
  /\ main = "d1"
  /\ IF ~ws_running /\ ~context /\ service = "none" /\ handle = "none"
     THEN /\ main' = after
          /\ UNCHANGED <<connected, ws_running>>
     ELSE /\ main' = "d2"
          /\ ws_running' = FALSE
          /\ connected' = FALSE
  /\ UNCHANGED <<botVars, attempt, after, should_heartbeat, wsFlags, context,
                 service, beat, handle, net>>

\* stop_heartbeat(), on the main thread.
Disconnect2 ==
  /\ main = "d2"
  /\ should_heartbeat' = FALSE
  /\ NotifyBeats
  /\ main' = "d3"
  /\ UNCHANGED <<botVars, attempt, after, connected, ws_running, wsFlags,
                 context, service, handle, net>>

\* A joinable handle is joined, which waits for its thread to end.
JoinBeat ==
  /\ handle # "none" => beat[handle] = "done"
  /\ handle' = "none"
  /\ beat' = [b \in Beats |-> IF b = handle THEN "none" ELSE beat[b]]

Disconnect3 ==
  /\ main = "d3"
  /\ JoinBeat
  /\ main' = "d4"
  /\ UNCHANGED <<botVars, attempt, after, connected, should_heartbeat,
                 ws_running, wsFlags, context, service, net>>

\* Mutated: the service thread is not joined.
Disconnect4Detached ==
  /\ main = "d4"
  /\ service' = "none"
  /\ main' = "d5"
  /\ UNCHANGED <<botVars, attempt, after, connected, should_heartbeat,
                 ws_running, wsFlags, context, beat, handle, net>>

Disconnect4 ==
  /\ main = "d4"
  /\ service \in {"none", "exited"}
  /\ service' = "none"
  /\ main' = "d5"
  /\ UNCHANGED <<botVars, attempt, after, connected, should_heartbeat,
                 ws_running, wsFlags, context, beat, handle, net>>

\* What on_client_closed does, on whichever thread the callback fires.
OnClientClosed ==
  /\ connected' = FALSE
  /\ complete' = TRUE
  /\ should_heartbeat' = FALSE
  /\ NotifyBeats

\* lws_context_destroy closes a connection that is still there, and its
\* callback fires on the main thread.
Disconnect5 ==
  /\ main = "d5"
  /\ IF net \in Connections
     THEN OnClientClosed
     ELSE UNCHANGED <<connected, complete, should_heartbeat, beat>>
  /\ context' = FALSE
  /\ net' = "none"
  /\ main' = after
  /\ UNCHANGED <<botVars, attempt, after, ws_running, reconnect_allowed,
                 reconnect_requested, service, handle>>

-----------------------------------------------------------------------------
(* The main thread: run() and main() *)

\* main() starts the watcher after the first connect() and before run().
StartRun ==
  /\ main = "run"
  /\ watcher' = "watching"
  /\ main' = "enter"
  /\ UNCHANGED <<bot_running, shutdown_requested, attempt, after, connected,
                 should_heartbeat, ws_running, wsFlags, context, service, beat,
                 handle, net>>

\* run() sets running_; extensions and modules are loaded from here.
EnterRun ==
  /\ main = "enter"
  /\ bot_running' = TRUE
  /\ main' = "loop"
  /\ UNCHANGED <<shutdown_requested, watcher, attempt, after, connected,
                 should_heartbeat, ws_running, wsFlags, context, service, beat,
                 handle, net>>

\* Mutated: the loop is left only when the connection is lost.
MonitorUntilLost ==
  /\ main = "loop"
  /\ ~connected
  /\ \/ /\ ~bot_running \/ ~reconnect_allowed
        /\ main' = "leave"
        /\ UNCHANGED attempt
     \/ /\ bot_running /\ reconnect_allowed
        /\ main' = "retry"
        /\ attempt' = 1
  /\ UNCHANGED <<botVars, after, connected, should_heartbeat, ws_running,
                 wsFlags, context, service, beat, handle, net>>

\* One pass of the monitoring loop: leave it, stay, or start reconnecting.
Monitor ==
  /\ main = "loop"
  /\ ~bot_running \/ ~connected
  /\ \/ /\ ~bot_running \/ ~reconnect_allowed
        /\ main' = "leave"
        /\ UNCHANGED attempt
     \/ /\ bot_running /\ reconnect_allowed
        /\ main' = "retry"
        /\ attempt' = 1
  /\ UNCHANGED <<botVars, after, connected, should_heartbeat, ws_running,
                 wsFlags, context, service, beat, handle, net>>

\* Mutated: the attempts are not counted out.
RetryUnbounded ==
  /\ main = "retry"
  /\ IF bot_running
     THEN main' = "d1" /\ after' = "pause"
     ELSE main' = "leave" /\ UNCHANGED after
  /\ UNCHANGED <<botVars, attempt, connected, should_heartbeat, ws_running,
                 wsFlags, context, service, beat, handle, net>>

\* The head of the reconnect loop.
Retry ==
  /\ main = "retry"
  /\ IF bot_running /\ attempt <= MaxAttempts
     THEN main' = "d1" /\ after' = "pause"
     ELSE main' = "leave" /\ UNCHANGED after
  /\ UNCHANGED <<botVars, attempt, connected, should_heartbeat, ws_running,
                 wsFlags, context, service, beat, handle, net>>

\* The delay is over, or was cut short by request_stop.
Pause ==
  /\ main = "pause"
  /\ IF bot_running
     THEN main' = "connect" /\ after' = "loop"
     ELSE main' = "leave" /\ UNCHANGED after
  /\ UNCHANGED <<botVars, attempt, connected, should_heartbeat, ws_running,
                 wsFlags, context, service, beat, handle, net>>

\* Behind run(): the watcher is joined and bot->disconnect() is called.
Leave ==
  /\ main = "leave"
  /\ bot_running' = FALSE
  /\ watcher' = "none"
  /\ main' = "d1"
  /\ after' = "destroy"
  /\ UNCHANGED <<shutdown_requested, attempt, connected, should_heartbeat,
                 ws_running, wsFlags, context, service, beat, handle, net>>

\* ~DiscordBot disconnects, and ~WebSocketClient once more.
Destroy ==
  /\ main \in {"destroy", "destroyclient"}
  /\ main' = "d1"
  /\ after' = IF main = "destroy" THEN "destroyclient" ELSE "exited"
  /\ UNCHANGED <<botVars, attempt, connected, should_heartbeat, ws_running,
                 wsFlags, context, service, beat, handle, net>>

-----------------------------------------------------------------------------
(* The service thread: each turn of service_loop calls lws_service, which  *)
(* fires any number of callbacks, and then looks at the reconnect request. *)

ServiceTop ==
  /\ service = "top"
  /\ service' = IF ws_running /\ context THEN "poll" ELSE "exited"
  /\ UNCHANGED <<botVars, mainVars, connected, should_heartbeat, ws_running,
                 wsFlags, context, beat, handle, net>>

EndPoll ==
  /\ service = "poll"
  /\ service' = "tail"
  /\ UNCHANGED <<botVars, mainVars, connected, should_heartbeat, ws_running,
                 wsFlags, context, beat, handle, net>>

Established ==
  /\ service = "poll" /\ net = "opening"
  /\ late \/ main = "await"
  /\ net' = "open"
  /\ connected' = TRUE
  /\ complete' = TRUE
  /\ UNCHANGED <<botVars, mainVars, should_heartbeat, ws_running, service,
                 reconnect_allowed, reconnect_requested, context, beat, handle>>

\* A connection error, or the end of an open connection.
Closed ==
  /\ service = "poll" /\ net \in Connections
  /\ net' = "closed"
  /\ OnClientClosed
  /\ UNCHANGED <<botVars, mainVars, ws_running, service, reconnect_allowed,
                 reconnect_requested, context, handle>>

\* on_peer_close: the codes 4004 and 4010..4014 forbid a reconnect.
PeerClose ==
  /\ service = "poll" /\ net \in Live
  /\ net' = "closing"
  /\ reconnect_allowed' \in {reconnect_allowed, FALSE}
  /\ UNCHANGED <<botVars, mainVars, connected, service, should_heartbeat, ws_running,
                 reconnect_requested, complete, context, beat, handle>>

\* RECONNECT or INVALID_SESSION.
ServerAsksReconnect ==
  /\ service = "poll" /\ net \in Live
  /\ reconnect_requested' = TRUE
  /\ UNCHANGED <<botVars, mainVars, connected, service, should_heartbeat, ws_running,
                 reconnect_allowed, complete, context, beat, handle, net>>

\* HELLO, which Discord sends once per connection: start_heartbeat stops the
\* previous thread first.
Hello ==
  /\ service = "poll" /\ net = "open"
  /\ net' = "greeted"
  /\ should_heartbeat' = FALSE
  /\ NotifyBeats
  /\ service' = "join"
  /\ UNCHANGED <<botVars, mainVars, connected, ws_running, wsFlags, context,
                 handle>>

HelloJoins ==
  /\ service = "join"
  /\ JoinBeat
  /\ service' = "arm"
  /\ UNCHANGED <<botVars, mainVars, connected, should_heartbeat, ws_running,
                 wsFlags, context, net>>

\* Mutated: should_heartbeat_ is not set again.
HelloStaysUnarmed ==
  /\ service = "arm"
  /\ UNCHANGED should_heartbeat
  /\ service' = "spawn"
  /\ UNCHANGED <<botVars, mainVars, connected, ws_running, wsFlags, context,
                 beat, handle, net>>

HelloArms ==
  /\ service = "arm"
  /\ should_heartbeat' = TRUE
  /\ service' = "spawn"
  /\ UNCHANGED <<botVars, mainVars, connected, ws_running, wsFlags, context,
                 beat, handle, net>>

\* The new thread runs before its handle is stored in heartbeat_thread_.
HelloSpawns ==
  /\ service = "spawn"
  /\ \E b \in Beats :
       /\ beat[b] = "none"
       /\ beat' = [beat EXCEPT ![b] = "check"]
       /\ service' = b
  /\ UNCHANGED <<botVars, mainVars, connected, should_heartbeat, ws_running,
                 wsFlags, context, handle, net>>

\* ... and then IDENTIFY is queued.
HelloStores ==
  /\ service \in Beats
  /\ handle' = service
  /\ service' = "poll"
  /\ UNCHANGED <<botVars, mainVars, connected, should_heartbeat, ws_running,
                 wsFlags, context, beat, net>>

\* reconnect_requested_.exchange(false): the connection is killed.
ServiceTail ==
  /\ service = "tail"
  /\ reconnect_requested' = FALSE
  /\ net' = IF reconnect_requested /\ net \in Connections THEN "closing" ELSE net
  /\ service' = "top"
  /\ UNCHANGED <<botVars, mainVars, connected, should_heartbeat, ws_running,
                 reconnect_allowed, complete, context, beat, handle>>

-----------------------------------------------------------------------------
(* heartbeat_loop *)

MayBeat == should_heartbeat /\ connected

BeatMoves(b, from, to) ==
  /\ beat[b] = from
  /\ beat' = [beat EXCEPT ![b] = to]
  /\ UNCHANGED <<botVars, mainVars, connected, should_heartbeat, ws_running,
                 wsFlags, context, service, handle, net>>

\* The loop's condition, then the predicate of wait_for before it blocks.
BeatChecks(b) == BeatMoves(b, "check", IF MayBeat THEN "enter" ELSE "done")
BeatEnters(b) == BeatMoves(b, "enter", IF MayBeat THEN "block" ELSE "done")
BeatBlocks(b) == BeatMoves(b, "block", "wait")
BeatWakes(b) == BeatMoves(b, "woken", IF MayBeat THEN "block" ELSE "done")

\* The interval is over.  It is far longer than the service thread takes to
\* store the handle of the thread it has just started; and, unless a handler
\* holds that thread up, than disconnect() takes to join it.
BeatTimesOut(b) ==
  /\ service # b
  /\ ~SlowTurns /\ main \in {"d4", "d5"} => ~MayBeat
  /\ BeatMoves(b, "wait", IF MayBeat THEN "send" ELSE "done")

\* send(): a frame is queued when connected, and lws is woken through the
\* context pointer that was just read.
BeatSends(b) ==
  BeatMoves(b, "send", IF connected /\ context THEN "wake" ELSE "check")
BeatWakesService(b) == BeatMoves(b, "wake", "check")

-----------------------------------------------------------------------------
(* The signal and its watcher *)

Signal ==
  /\ ~shutdown_requested
  /\ main # "exited"
  /\ shutdown_requested' = TRUE
  /\ UNCHANGED <<bot_running, watcher, mainVars, connected, should_heartbeat,
                 ws_running, wsFlags, context, service, beat, handle, net>>

WatcherStops ==
  /\ watcher = "watching"
  /\ shutdown_requested
  /\ bot_running' = FALSE
  /\ watcher' = "ended"
  /\ UNCHANGED <<shutdown_requested, mainVars, connected, should_heartbeat,
                 ws_running, wsFlags, context, service, beat, handle, net>>

-----------------------------------------------------------------------------
Init ==
  /\ bot_running = FALSE
  /\ shutdown_requested = FALSE
  /\ watcher = "none"
  /\ main = "connect"
  /\ attempt = 0
  /\ after = "run"
  /\ connected = FALSE
  /\ should_heartbeat = FALSE
  /\ ws_running = FALSE
  /\ reconnect_allowed = TRUE
  /\ reconnect_requested = FALSE
  /\ complete = FALSE
  /\ context = FALSE
  /\ service = "none"
  /\ beat = [b \in Beats |-> "none"]
  /\ handle = "none"
  /\ net = "none"
  /\ late \in LateAnswers

MainStep ==
  /\ \/ StartAttempt \/ AttemptSucceeds \/ AttemptFails
     \/ Disconnect1 \/ Disconnect2 \/ Disconnect3 \/ Disconnect4 \/ Disconnect5
     \/ StartRun \/ EnterRun \/ Monitor \/ Retry \/ Pause \/ Leave \/ Destroy
  /\ UNCHANGED late

ServiceStep ==
  /\ \/ ServiceTop \/ EndPoll \/ Established \/ Closed \/ PeerClose
     \/ ServerAsksReconnect \/ ServiceTail
     \/ Hello \/ HelloJoins \/ HelloArms \/ HelloSpawns \/ HelloStores
  /\ UNCHANGED late

BeatStep(b) ==
  /\ \/ BeatChecks(b) \/ BeatEnters(b) \/ BeatBlocks(b) \/ BeatWakes(b)
     \/ BeatTimesOut(b) \/ BeatSends(b) \/ BeatWakesService(b)
  /\ UNCHANGED late

WatcherStep == WatcherStops /\ UNCHANGED late

Next ==
  \/ MainStep
  \/ ServiceStep
  \/ \E b \in Beats : BeatStep(b)
  \/ Signal /\ UNCHANGED late
  \/ WatcherStep

Spec == Init /\ [][Next]_vars

\* Every thread of the process keeps running, and time passes: timeouts are
\* steps of the thread that waits.  Discord and the user owe nothing.
FairSpec ==
  /\ Spec
  /\ WF_vars(MainStep)
  /\ WF_vars(ServiceStep)
  /\ \A b \in Beats : WF_vars(BeatStep(b))
  /\ WF_vars(WatcherStep)
=============================================================================
