------------------------------ MODULE Outbound ------------------------------
(***************************************************************************)
(* The kernel's REST path: DiscordBot::send_message puts the chunks of a   *)
(* text on a bounded queue, one worker thread takes them off and performs  *)
(* the HTTP requests, and an application command that was deferred gets    *)
(* its "original" response through the same queue.                         *)
(*                                                                         *)
(* Threads: the gateway's service thread (event handlers, hence every      *)
(* interaction), the main thread (module ticks, then destruction) and the  *)
(* worker.  A step is what a thread does between two points where another  *)
(* thread can observe it: one critical section on outbound_mutex_, one     *)
(* HTTP call, or one use of the thread-local interaction.                  *)
(*                                                                         *)
(* The texts are abstracted to their number of chunks, routes to the kind  *)
(* of message; a failed HTTP request is only logged by the worker, so      *)
(* success and failure are the same step here.                             *)
(***************************************************************************)
EXTENDS Naturals, Sequences

CONSTANTS
  Channels,      \* channel ids
  Interactions,  \* interactions Discord may deliver, each at most once
  MaxQueue,      \* maximum_queued_messages, 1000 in the code
  MaxChunks,     \* bound: chunks of one text
  MaxLog,        \* bound: messages accepted, fallback texts excepted
  Nil            \* the empty active_interaction

ASSUME QueueAssumption == MaxQueue \in Nat \ {0}
ASSUME BoundAssumption == MaxChunks \in Nat \ {0} /\ MaxLog \in Nat
ASSUME NilAssumption == Nil \notin Interactions \cup Channels

VARIABLES
  queue,      \* outbound_messages_
  running,    \* outbound_running_
  active,     \* active_interaction of the service thread
  service,    \* where the service thread is in handle_interaction
  phase,      \* where the main thread is in the life of the bot
  worker,     \* where outbound_loop is
  current,    \* the message the worker holds
  log,        \* history: every message send_message accepted
  sent,       \* history: every request the worker performed
  finished,   \* history: interactions whose handler has returned
  refused     \* history: <<interaction, reason>> of each refusal

vars == <<queue, running, active, service, phase, worker, current, log, sent,
          finished, refused>>

ChannelMessage == "ChannelMessage"
InteractionOriginal == "InteractionOriginal"
InteractionFollowup == "InteractionFollowup"
Kinds == {ChannelMessage, InteractionOriginal, InteractionFollowup}

Threads == {"service", "main"}

Messages == [kind : Kinds, channel : Channels, thread : Threads,
             interaction : Interactions \cup {Nil}]

ActiveInteraction == [interaction : Interactions \cup {Nil},
                      channel : Channels \cup {Nil},
                      original_response_queued : BOOLEAN]

None == [interaction |-> Nil, channel |-> Nil,
         original_response_queued |-> FALSE]

-----------------------------------------------------------------------------
\* active_interaction is thread_local: only the service thread has one.
ActiveOf(t) == IF t = "service" THEN active ELSE None

\* The interaction that a text to channel c by thread t answers.
Answers(t, c) ==
  /\ ActiveOf(t).interaction # Nil
  /\ ActiveOf(t).channel = c

\* Mutated form: the flag is set once per text, not once per chunk.
KindOfPerText(t, c, k) ==
  IF ~Answers(t, c) THEN ChannelMessage
  ELSE IF ActiveOf(t).original_response_queued
       THEN InteractionFollowup ELSE InteractionOriginal

\* The kind of the k-th chunk of a text.
KindOf(t, c, k) ==
  IF ~Answers(t, c) THEN ChannelMessage
  ELSE IF k = 1 /\ ~ActiveOf(t).original_response_queued
       THEN InteractionOriginal ELSE InteractionFollowup

Chunks(t, c, n) ==
  [k \in 1..n |->
     [kind |-> KindOf(t, c, k), channel |-> c, thread |-> t,
      interaction |-> IF Answers(t, c) THEN ActiveOf(t).interaction
                      ELSE Nil]]

\* Mutated form: the limit itself still has room.
HasRoomForOneMore(n) == n <= MaxQueue - Len(queue) + 1

\* send_message takes all the chunks or none of them.
HasRoom(n) == n <= MaxQueue - Len(queue)

Accept(t, c, n) ==
  /\ running
  /\ HasRoom(n)
  /\ queue' = queue \o Chunks(t, c, n)
  /\ log' = log \o Chunks(t, c, n)
  /\ active' = IF Answers(t, c)
               THEN [active EXCEPT !.original_response_queued = TRUE]
               ELSE active
  /\ UNCHANGED refused

Refuse(t, c, n) ==
  /\ ~running \/ ~HasRoom(n)
  /\ refused' = refused \cup
       {<<ActiveOf(t).interaction, IF running THEN "full" ELSE "stopped">>}
  /\ UNCHANGED <<queue, log, active>>

\* send_message, by thread t, of a text of n chunks to channel c.
SendMessage(t, c, n) == Accept(t, c, n) \/ Refuse(t, c, n)

-----------------------------------------------------------------------------
(* The service thread: prefixed commands and events answer with plain      *)
(* channel messages; handle_interaction defers, runs the command, and its  *)
(* InteractionScope makes sure that something was queued.                  *)

EventHandlerSends(c, n) ==
  /\ service = "idle"
  /\ Len(log) + n <= MaxLog
  /\ SendMessage("service", c, n)
  /\ UNCHANGED <<running, service, phase, worker, current, sent, finished>>

Started == finished \cup {active.interaction}
             \cup {log[k].interaction : k \in DOMAIN log}

\* begin_interaction_response: the deferral is posted by this thread itself;
\* when Discord refuses it the handler returns without a scope.
BeginInteraction(i, c) ==
  /\ service = "idle"
  /\ i \notin Started
  /\ \/ /\ active' = [interaction |-> i, channel |-> c,
                      original_response_queued |-> FALSE]
        /\ service' = "dispatch"
        /\ UNCHANGED finished
        /\ UNCHANGED refused
     \/ /\ finished' = finished \cup {i}
        /\ refused' = refused \cup {<<i, "deferral">>}
        /\ UNCHANGED <<active, service>>
  /\ UNCHANGED <<queue, running, phase, worker, current, log, sent>>

\* A built-in, native or Lua command of that name takes the interaction.
CommandFound ==
  /\ service = "dispatch"
  /\ service' = "command"
  /\ UNCHANGED <<queue, running, active, phase, worker, current, log, sent,
                 finished, refused>>

\* No table knows the command: the fallback text is sent in any case.
CommandUnknown ==
  /\ service = "dispatch"
  /\ SendMessage("service", active.channel, 1)
  /\ service' = "scope"
  /\ UNCHANGED <<running, phase, worker, current, sent, finished>>

CommandSends(c, n) ==
  /\ service = "command"
  /\ Len(log) + n <= MaxLog
  /\ SendMessage("service", c, n)
  /\ UNCHANGED <<running, service, phase, worker, current, sent, finished>>

\* The callback returned: "Command completed." unless it answered itself.
CommandReturns ==
  /\ service = "command"
  /\ IF active.original_response_queued
     THEN UNCHANGED <<queue, log, active, refused>>
     ELSE SendMessage("service", active.channel, 1)
  /\ service' = "scope"
  /\ UNCHANGED <<running, phase, worker, current, sent, finished>>

\* The callback threw: the scope is left with whatever was queued so far.
CommandThrows ==
  /\ service = "command"
  /\ service' = "scope"
  /\ UNCHANGED <<queue, running, active, phase, worker, current, log, sent,
                 finished, refused>>

\* Mutated form: the scope trusts the command to have answered.
ScopeSendsNothing ==
  /\ service = "scope"
  /\ service' = "end"
  /\ UNCHANGED <<queue, log, active, refused, running, phase, worker, current,
                 sent, finished>>

\* ~InteractionScope, first half: the last attempt at an original response.
ScopeSends ==
  /\ service = "scope"
  /\ IF active.original_response_queued
     THEN UNCHANGED <<queue, log, active, refused>>
     ELSE SendMessage("service", active.channel, 1)
  /\ service' = "end"
  /\ UNCHANGED <<running, phase, worker, current, sent, finished>>

\* ~InteractionScope, second half: end_interaction_response.
EndInteraction ==
  /\ service = "end"
  /\ finished' = finished \cup {active.interaction}
  /\ active' = None
  /\ service' = "idle"
  /\ UNCHANGED <<queue, running, phase, worker, current, log, sent, refused>>

-----------------------------------------------------------------------------
(* The main thread: module ticks, then ~DiscordBot in its order.           *)

TickSends(c, n) ==
  /\ phase = "running"
  /\ Len(log) + n <= MaxLog
  /\ SendMessage("main", c, n)
  /\ UNCHANGED <<running, service, phase, worker, current, sent, finished>>

\* disconnect() joins the service thread, so a handler is never cut short.
Disconnect ==
  /\ phase = "running"
  /\ service = "idle"
  /\ service' = "joined"
  /\ phase' = "unloading"
  /\ UNCHANGED <<queue, running, active, worker, current, log, sent, finished,
                 refused>>

\* A module that says goodbye in its shutdown.
UnloadSends(c, n) ==
  /\ phase = "unloading"
  /\ Len(log) + n <= MaxLog
  /\ SendMessage("main", c, n)
  /\ UNCHANGED <<running, service, phase, worker, current, sent, finished>>

\* stop_outbound_worker: from here on the main thread only joins.
StopWorker ==
  /\ phase = "unloading"
  /\ running' = FALSE
  /\ phase' = "stopping"
  /\ UNCHANGED <<queue, active, service, worker, current, log, sent, finished,
                 refused>>

JoinWorker ==
  /\ phase = "stopping"
  /\ worker = "exited"
  /\ phase' = "destroyed"
  /\ UNCHANGED <<queue, running, active, service, worker, current, log, sent,
                 finished, refused>>

-----------------------------------------------------------------------------
(* outbound_loop *)

\* Mutated form: the newest message is taken first.
WorkerTakeNewest ==
  /\ worker = "waiting"
  /\ queue # <<>>
  /\ current' = <<queue[Len(queue)]>>
  /\ queue' = SubSeq(queue, 1, Len(queue) - 1)
  /\ worker' = "sending"
  /\ UNCHANGED <<running, active, service, phase, log, sent, finished, refused>>

WorkerTake ==
  /\ worker = "waiting"
  /\ queue # <<>>
  /\ current' = <<Head(queue)>>
  /\ queue' = Tail(queue)
  /\ worker' = "sending"
  /\ UNCHANGED <<running, active, service, phase, log, sent, finished, refused>>

WorkerSend ==
  /\ worker = "sending"
  /\ sent' = sent \o current
  /\ current' = <<>>
  /\ worker' = "waiting"
  /\ UNCHANGED <<queue, running, active, service, phase, log, finished, refused>>

\* Mutated form: a stopped worker leaves the queue behind.
MayExitAtOnce == ~running

\* Mutated form: the emptiness test is inverted.
MayExitNonEmpty == ~running /\ queue # <<>>

\* The loop ends only once it is stopped and the queue is empty.
MayExit == ~running /\ queue = <<>>

WorkerExit ==
  /\ worker = "waiting"
  /\ MayExit
  /\ worker' = "exited"
  /\ UNCHANGED <<queue, running, active, service, phase, current, log, sent,
                 finished, refused>>

-----------------------------------------------------------------------------
Init ==
  /\ queue = <<>>
  /\ running = TRUE
  /\ active = None
  /\ service = "idle"
  /\ phase = "running"
  /\ worker = "waiting"
  /\ current = <<>>
  /\ log = <<>>
  /\ sent = <<>>
  /\ finished = {}
  /\ refused = {}

InteractionStep ==
  \/ CommandFound
  \/ CommandUnknown
  \/ CommandReturns
  \/ CommandThrows
  \/ ScopeSends
  \/ EndInteraction

WorkerStep == WorkerTake \/ WorkerSend \/ WorkerExit

Sends ==
  \E c \in Channels, n \in 1..MaxChunks :
    \/ EventHandlerSends(c, n)
    \/ CommandSends(c, n)
    \/ TickSends(c, n)
    \/ UnloadSends(c, n)

Destruction == Disconnect \/ StopWorker \/ JoinWorker

Next ==
  \/ Sends
  \/ \E i \in Interactions, c \in Channels : BeginInteraction(i, c)
  \/ InteractionStep
  \/ WorkerStep
  \/ Destruction

Spec == Init /\ [][Next]_vars

\* The worker is a thread of its own, and stop_outbound_worker a straight
\* line; nothing is assumed of the commands, of Discord or of the user.
FairSpec == Spec /\ WF_vars(WorkerStep)
=============================================================================
