------------------------- MODULE OutboundProperties -------------------------
(***************************************************************************)
(* The correctness properties of the REST path.                            *)
(***************************************************************************)
EXTENDS Outbound, FiniteSets

\* Shape of the state: the queue within its limit, the worker holding exactly
\* one message while it sends (outbound_loop).
TypeOK ==
  /\ queue \in Seq(Messages)
  /\ Len(queue) <= MaxQueue
  /\ running \in BOOLEAN
  /\ active \in ActiveInteraction
  /\ service \in {"idle", "dispatch", "command", "scope", "end", "joined"}
  /\ phase \in {"running", "unloading", "stopping", "destroyed"}
  /\ worker \in {"waiting", "sending", "exited"}
  /\ current \in Seq(Messages)
  /\ Len(current) = IF worker = "sending" THEN 1 ELSE 0
  /\ log \in Seq(Messages)
  /\ sent \in Seq(Messages)
  /\ finished \subseteq Interactions
  /\ refused \subseteq
       (Interactions \cup {Nil}) \X {"full", "stopped", "deferral"}

-----------------------------------------------------------------------------
\* The deferred response of an interaction is edited once, and before any
\* follow-up of the same interaction is posted: whatever the threads
\* interleave, the requests for one interaction are one "original" followed
\* by follow-ups only (send_message chooses the kind, the queue keeps it).
OneOriginalThenFollowups ==
  \A k \in DOMAIN log :
    log[k].kind # ChannelMessage =>
      (log[k].kind = InteractionOriginal
         <=> \A j \in 1..(k - 1) : log[j].interaction # log[k].interaction)

\* A module tick or a goodbye on the main thread never consumes the response
\* of the interaction that the service thread is serving, even to the same
\* channel: the interaction is thread-local.
MainNeverAnswers ==
  \A k \in DOMAIN log :
    log[k].thread = "main" => log[k].kind = ChannelMessage

\* InteractionScope: an interaction whose handler has returned was answered,
\* or was not deferred in the first place, or met a full queue.
EveryInteractionAnswered ==
  \A i \in finished :
    \/ \E k \in DOMAIN log : /\ log[k].kind = InteractionOriginal
                             /\ log[k].interaction = i
    \/ <<i, "deferral">> \in refused
    \/ <<i, "full">> \in refused

\* Nothing that was accepted is dropped or reordered on its way through the
\* queue and the worker's hands, not even by the shutdown.
NothingLost == log = sent \o current \o queue

\* The worker of a destroyed bot has sent everything it accepted: destruction
\* drains the queue (stop_outbound_worker, outbound_loop).
DrainedAtDestruction == phase = "destroyed" => sent = log

\* "Modules may use the send-message bridge during shutdown": no thread of
\* the program ever meets a stopped worker.
NeverRefusedByStop == \A r \in refused : r[2] # "stopped"

\* Every message that send_message accepted is eventually put to Discord,
\* also when the bot is being destroyed.
AcceptedIsAttempted ==
  \A n \in 1..(MaxLog + 2 * Cardinality(Interactions)) :
    (Len(log) >= n) ~> (Len(sent) >= n)

\* The worker ends what it has begun: what was accepted is attempted, and the
\* destructor does not hang, since a worker told to stop exits.
WorkerFinishes ==
  AcceptedIsAttempted /\ ((phase = "stopping") ~> (worker = "exited"))

\* The path implements an in-order exactly-once attempt of each message.
Abstract == INSTANCE FifoDelivery WITH
  accepted <- log, performed <- sent, open <- worker # "exited"

DeliversInOrder == Abstract!Spec
=============================================================================
