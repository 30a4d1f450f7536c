------------------------- MODULE GatewayProperties -------------------------
(***************************************************************************)
(* What the gateway client promises its own process.                       *)
(***************************************************************************)
EXTENDS Gateway

MainPlaces == {"connect", "await", "d1", "d2", "d3", "d4", "d5", "run",
               "enter", "loop", "retry", "pause", "leave", "destroy", "destroyclient", "exited"}
ServicePlaces == {"none", "top", "poll", "tail", "join", "arm", "spawn",
                  "exited"} \cup Beats
BeatPlaces == {"none", "check", "enter", "block", "wait", "woken", "send",
               "wake", "done"}

\* Shape of the state: flags, and the places the threads can be at.
TypeOK ==
  /\ bot_running \in BOOLEAN /\ shutdown_requested \in BOOLEAN
  /\ watcher \in {"none", "watching", "ended"}
  /\ main \in MainPlaces /\ after \in MainPlaces
  /\ attempt \in 0..(MaxAttempts + 2)
  /\ connected \in BOOLEAN /\ should_heartbeat \in BOOLEAN
  /\ ws_running \in BOOLEAN /\ context \in BOOLEAN
  /\ reconnect_allowed \in BOOLEAN /\ reconnect_requested \in BOOLEAN
  /\ complete \in BOOLEAN
  /\ service \in ServicePlaces
  /\ beat \in [Beats -> BeatPlaces]
  /\ handle \in Beats \cup {"none"}
  /\ net \in {"none", "opening", "open", "greeted", "closing", "closed"}
  /\ late \in LateAnswers

\* "Destroying the context while lws_service() is active is a use-after-free":
\* no thread still uses the context once disconnect() has destroyed it, the
\* heartbeat thread's wake-up through a pointer it read before included.
ContextOutlivesUsers ==
  ~context => /\ service = "none"
              /\ \A b \in Beats : beat[b] # "wake"

\* Heartbeat threads follow one another, across reconnects and HELLOs that
\* race a disconnect: two never run side by side (start_heartbeat joins before
\* it starts), and the main thread and the service thread never join one of
\* them both, which is undefined (stop_heartbeat runs on either).
OneHeartbeat ==
  /\ \A a, b \in Beats :
       a # b => beat[a] \in {"none", "done"} \/ beat[b] \in {"none", "done"}
  /\ main = "d3" /\ service = "join" => handle = "none"

\* main() returns with no thread of the client left behind: a later
\* disconnect() collects a heartbeat thread that an earlier one missed.
NothingLeftAtExit ==
  main = "exited" =>
    /\ service = "none" /\ handle = "none" /\ ~context /\ ~connected
    /\ \A b \in Beats : beat[b] = "none"

\* A connection past HELLO that nobody is tearing down is kept alive: the
\* heartbeat thread does not die of flags that an earlier connection left.
HeartbeatCovers ==
  net = "greeted" /\ connected /\ ws_running /\ service = "poll" =>
    handle # "none" /\ beat[handle] # "done"

\* Once run() is to end the process ends, whichever threads beat, service or
\* greet at that moment: no join waits for ever.  The reconnect loop gives up
\* or succeeds: its attempts are bounded, and so is each of them.  Both as long
\* as the gateway does not answer after connect() gave up.
RunEnds ==
  /\ ~late /\ (main = "leave" \/ (main \in {"loop", "retry", "pause"} /\ ~bot_running))
       ~> (main = "exited")
  /\ ~late /\ main = "retry" ~> (main \in {"loop", "exited"})

\* signal_handler: "The watcher thread below translates this flag into a
\* normal C++ shutdown."
SignalShutsDown == shutdown_requested ~> (main = "exited")
=============================================================================
