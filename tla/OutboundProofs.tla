--------------------------- MODULE OutboundProofs ---------------------------
(***************************************************************************)
(* The REST path is correct for every number of channels, interactions and *)
(* chunks and every limit of the queue.                                    *)
(***************************************************************************)
EXTENDS OutboundProperties, SequenceTheorems, TLAPS

(***************************************************************************)
(* The inductive invariant.  Accounting ties the history to the queue;     *)
(* Lifecycle orders the end of the service thread, of the modules and of   *)
(* the worker; Flag says that the thread-local flag remembers exactly      *)
(* whether the interaction is already in the history.                      *)
(***************************************************************************)
Lifecycle ==
  /\ running <=> phase \in {"running", "unloading"}
  /\ service = "joined" <=> phase # "running"
  /\ worker = "exited" => ~running /\ queue = <<>>
  /\ phase = "destroyed" => worker = "exited"

Serving == service \in {"dispatch", "command", "scope", "end"}

ServingWhom ==
  Serving => active.interaction \in Interactions /\ active.channel \in Channels

Flag ==
  /\ Serving <=> active.interaction # Nil
  /\ active.interaction = Nil <=> active.channel = Nil
  /\ active.original_response_queued => active.interaction # Nil
  /\ active.interaction # Nil =>
       (active.original_response_queued
          <=> \E k \in DOMAIN log : log[k].interaction = active.interaction)

KindMatches ==
  \A k \in DOMAIN log :
    log[k].kind = ChannelMessage <=> log[k].interaction = Nil

Inv ==
  /\ TypeOK
  /\ NothingLost
  /\ Lifecycle
  /\ ServingWhom
  /\ NeverRefusedByStop

AnswerInv ==
  /\ Flag
  /\ KindMatches
  /\ OneOriginalThenFollowups
  /\ MainNeverAnswers

-----------------------------------------------------------------------------
\* The chunks of a text are messages, one for each chunk.
LEMMA ChunksType ==
  ASSUME TypeOK, NEW t \in Threads, NEW c \in Channels, NEW n \in Nat
  PROVE  /\ Chunks(t, c, n) \in Seq(Messages)
         /\ Len(Chunks(t, c, n)) = n
<1>1. ActiveOf(t) \in ActiveInteraction
  BY NilAssumption DEF ActiveOf, None, ActiveInteraction, TypeOK
<1>2. ASSUME NEW k \in 1..n
      PROVE  Chunks(t, c, n)[k] \in Messages
  <2>1. KindOf(t, c, k) \in Kinds
    BY DEF KindOf, Kinds
  <2>2. (IF Answers(t, c) THEN ActiveOf(t).interaction ELSE Nil)
          \in Interactions \cup {Nil}
    BY <1>1 DEF ActiveInteraction
  <2>. QED  BY <2>1, <2>2 DEF Chunks, Messages
<1>3. Chunks(t, c, n) \in [1..n -> Messages]
  BY <1>2 DEF Chunks
<1>. QED  BY <1>3, SeqDef

\* Concatenation is associative, in the form the provers can instantiate.
LEMMA Associative ==
  ASSUME NEW S
  PROVE  \A a, b, c \in Seq(S) : (a \o b) \o c = a \o (b \o c)
<1>. TAKE a, b, c \in Seq(S)
<1>. QED  BY ConcatAssociative

\* A sequence is its head followed by its tail.
LEMMA HeadThenTail ==
  ASSUME NEW S, NEW q \in Seq(S), q # <<>>
  PROVE  /\ <<Head(q)>> \in Seq(S)
         /\ Tail(q) \in Seq(S)
         /\ Len(Tail(q)) = Len(q) - 1
         /\ q = <<Head(q)>> \o Tail(q)
<1>1. /\ Len(q) \in Nat \ {0}
      /\ 1 \in 1..Len(q) /\ Len(q) \in 1..Len(q)
  BY EmptySeq, LenProperties
<1>2. /\ Head(q) = q[1] /\ Tail(q) = SubSeq(q, 1 + 1, Len(q))
      /\ SubSeq(q, 1, Len(q)) = q
  BY <1>1, TailIsSubSeq, SubSeqFull
<1>3. SubSeq(q, 1, Len(q)) = <<q[1]>> \o SubSeq(q, 1 + 1, Len(q))
  BY <1>1, SubSeqRecursiveFirst
<1>. QED  BY <1>2, <1>3, HeadTailProperties

\* A refusal names a full queue while the worker runs, and an accepted text
\* extends queue and history alike (send_message).
LEMMA SendPreserves ==
  ASSUME Inv, NEW t \in Threads, NEW c \in Channels, NEW n \in Nat,
         SendMessage(t, c, n), running, worker # "exited",
         UNCHANGED <<current, sent>>
  PROVE  /\ queue' \in Seq(Messages) /\ Len(queue') <= MaxQueue
         /\ log' \in Seq(Messages)
         /\ NothingLost'
         /\ active' \in ActiveInteraction
         /\ NeverRefusedByStop'
         /\ refused' \subseteq
              (Interactions \cup {Nil}) \X {"full", "stopped", "deferral"}
<1>. DEFINE ch == Chunks(t, c, n)
<1>. USE DEF Inv
<1>1. ch \in Seq(Messages) /\ Len(ch) = n
  BY ChunksType
<1>2. /\ queue \in Seq(Messages) /\ log \in Seq(Messages)
      /\ sent \in Seq(Messages) /\ current \in Seq(Messages)
      /\ active \in ActiveInteraction /\ Len(queue) <= MaxQueue
  BY DEF TypeOK
<1>3. CASE Accept(t, c, n)
  <2>1. queue' = queue \o ch /\ log' = log \o ch
    BY <1>3 DEF Accept
  <2>2. queue' \in Seq(Messages) /\ log' \in Seq(Messages)
    BY <1>1, <1>2, <2>1, ConcatProperties
  <2>3. Len(queue') <= MaxQueue
    <3>1. Len(queue') = Len(queue) + n
      BY <1>1, <1>2, <2>1, ConcatProperties
    <3>2. n <= MaxQueue - Len(queue)
      BY <1>3 DEF Accept, HasRoom
    <3>. QED  BY <3>1, <3>2, <1>2, LenProperties, QueueAssumption
  <2>4. NothingLost'
    <3>1. log \o ch = sent \o current \o (queue \o ch)
      <4>. DEFINE done == sent \o current
      <4>1. done \in Seq(Messages) /\ log = done \o queue
        BY <1>2, ConcatProperties DEF NothingLost
      <4>. HIDE DEF ch, done
      <4>2. (done \o queue) \o ch = done \o (queue \o ch)
        BY <1>1, <1>2, <4>1, Associative
      <4>3. log \o ch = done \o (queue \o ch)
        BY <4>1, <4>2
      <4>. QED  BY <4>3 DEF done
    <3>. QED  BY <2>1, <3>1 DEF NothingLost
  <2>5. active' \in ActiveInteraction
    BY <1>2, <1>3 DEF Accept, ActiveInteraction
  <2>. QED
    BY <1>3, <2>2, <2>3, <2>4, <2>5 DEF Accept, NeverRefusedByStop, TypeOK
<1>4. CASE Refuse(t, c, n)
  <2>1. ActiveOf(t).interaction \in Interactions \cup {Nil}
    BY <1>2 DEF ActiveOf, None, ActiveInteraction
  <2>2. UNCHANGED <<queue, log, active>>
        /\ refused' = refused \cup {<<ActiveOf(t).interaction, "full">>}
    BY <1>4 DEF Refuse
  <2>3. NeverRefusedByStop'
    BY <2>2 DEF NeverRefusedByStop
  <2>4. refused' \subseteq
          (Interactions \cup {Nil}) \X {"full", "stopped", "deferral"}
    BY <2>1, <2>2 DEF TypeOK
  <2>. QED  BY <1>2, <2>2, <2>3, <2>4 DEF NothingLost, TypeOK
<1>. QED  BY <1>3, <1>4 DEF SendMessage

\* Every step of a thread that calls send_message keeps the invariant.
LEMMA SendStep ==
  ASSUME Inv, NEW t \in Threads, NEW c \in Channels, NEW n \in Nat,
         SendMessage(t, c, n), running,
         UNCHANGED <<running, phase, worker, current, sent, finished>>,
         \/ service' = service
         \/ service' \in {"scope", "end"} /\ Serving
  PROVE  Inv'
<1>1. worker # "exited"
  BY DEF Inv, Lifecycle
<1>2. /\ queue' \in Seq(Messages) /\ Len(queue') <= MaxQueue
      /\ log' \in Seq(Messages)
      /\ NothingLost'
      /\ active' \in ActiveInteraction
      /\ NeverRefusedByStop'
      /\ refused' \subseteq
           (Interactions \cup {Nil}) \X {"full", "stopped", "deferral"}
  BY <1>1, SendPreserves
<1>3. TypeOK'
  BY <1>2 DEF Inv, TypeOK, Serving
<1>4. Lifecycle'
  BY <1>1 DEF Inv, Lifecycle, Serving
<1>5. ServingWhom'
  <2>1. /\ active'.channel = active.channel
        /\ active'.interaction = active.interaction
    BY DEF SendMessage, Accept, Refuse, Inv, TypeOK, ActiveInteraction
  <2>2. Serving' => Serving
    BY DEF Serving
  <2>. QED  BY <2>1, <2>2 DEF Inv, ServingWhom
<1>. QED  BY <1>2, <1>3, <1>4, <1>5 DEF Inv

LEMMA InitInv == Init => Inv
<1>. SUFFICES ASSUME Init PROVE Inv
  OBVIOUS
<1>1. TypeOK
  BY EmptySeq, QueueAssumption DEF Init, TypeOK, None, ActiveInteraction
<1>2. NothingLost
  <2>1. <<>> \o <<>> = <<>> /\ <<>> \in Seq(Messages)
    BY EmptySeq, ConcatEmptySeq
  <2>. QED  BY <2>1 DEF Init, NothingLost
<1>. QED
  BY <1>1, <1>2 DEF Init, Inv, Lifecycle, ServingWhom, Serving,
                    NeverRefusedByStop

\* Moving a message from the queue to the worker, and from the worker to
\* Discord, loses nothing.
LEMMA WorkerStepInv == Inv /\ WorkerStep => Inv'
<1>. SUFFICES ASSUME Inv, WorkerStep PROVE Inv'
  OBVIOUS
<1>0. /\ queue \in Seq(Messages) /\ log \in Seq(Messages)
      /\ sent \in Seq(Messages) /\ current \in Seq(Messages)
      /\ Len(queue) <= MaxQueue
      /\ Len(current) = IF worker = "sending" THEN 1 ELSE 0
      /\ worker # "sending" => current = <<>>
  BY EmptySeq DEF Inv, TypeOK
<1>1. CASE WorkerTake
  <2>1. /\ <<Head(queue)>> \in Seq(Messages) /\ Tail(queue) \in Seq(Messages)
        /\ Len(Tail(queue)) = Len(queue) - 1
        /\ queue = <<Head(queue)>> \o Tail(queue)
    BY <1>0, <1>1, HeadThenTail DEF WorkerTake
  <2>2. TypeOK'
    <3>1. Len(queue') <= MaxQueue
      BY <1>0, <1>1, <2>1, LenProperties, QueueAssumption DEF WorkerTake
    <3>. QED  BY <1>1, <2>1, <3>1 DEF WorkerTake, Inv, TypeOK
  <2>3. NothingLost'
    <3>1. sent \o <<>> = sent
      BY <1>0, ConcatEmptySeq
    <3>2. sent \o (<<Head(queue)>> \o Tail(queue))
            = (sent \o <<Head(queue)>>) \o Tail(queue)
      <4>1. \A a, b, c \in Seq(Messages) : (a \o b) \o c = a \o (b \o c)
        <5>. TAKE a, b, c \in Seq(Messages)
        <5>. QED  BY Associative
      <4>. QED  BY <4>1, <1>0, <2>1
    <3>3. log = sent \o queue
      BY <1>0, <1>1, <3>1 DEF WorkerTake, Inv, NothingLost
    <3>. QED  BY <1>1, <2>1, <3>2, <3>3 DEF WorkerTake, NothingLost
  <2>. QED
    BY <1>1, <2>2, <2>3 DEF WorkerTake, Inv, Lifecycle, ServingWhom,
                            Serving, NeverRefusedByStop
<1>2. CASE WorkerSend
  <2>1. TypeOK'
    <3>1. sent \o current \in Seq(Messages)
      BY <1>0, ConcatProperties
    <3>. QED  BY <1>2, <3>1, EmptySeq DEF WorkerSend, Inv, TypeOK
  <2>2. NothingLost'
    <3>1. (sent \o current) \o <<>> = sent \o current
      BY <1>0, ConcatProperties, ConcatEmptySeq
    <3>. QED  BY <1>2, <3>1 DEF WorkerSend, Inv, NothingLost
  <2>. QED
    BY <1>2, <2>1, <2>2 DEF WorkerSend, Inv, Lifecycle, ServingWhom,
                            Serving, NeverRefusedByStop
<1>3. CASE WorkerExit
  BY <1>3 DEF WorkerExit, MayExit, Inv, TypeOK, NothingLost, Lifecycle,
              ServingWhom, Serving, NeverRefusedByStop
<1>. QED  BY <1>1, <1>2, <1>3 DEF WorkerStep

\* The steps of the service and main threads that send nothing.
LEMMA QuietStepInv ==
  ASSUME Inv, UNCHANGED <<queue, worker, current, log, sent>>,
         \/ \E i \in Interactions, c \in Channels : BeginInteraction(i, c)
         \/ CommandFound \/ CommandThrows \/ EndInteraction
         \/ Disconnect \/ StopWorker \/ JoinWorker
  PROVE  Inv'
<1>1. NothingLost'
  BY DEF Inv, NothingLost
<1>2. ASSUME NEW i \in Interactions, NEW c \in Channels,
             BeginInteraction(i, c)
      PROVE  Inv'
  <2>1. CASE /\ active' = [interaction |-> i, channel |-> c,
                          original_response_queued |-> FALSE]
             /\ service' = "dispatch"
             /\ UNCHANGED <<finished, refused>>
    <3>1. active' \in ActiveInteraction
      BY <2>1 DEF ActiveInteraction
    <3>. QED
      BY <1>1, <1>2, <2>1, <3>1 DEF BeginInteraction, Inv, TypeOK, Lifecycle,
        ServingWhom, Serving, NeverRefusedByStop
  <2>2. CASE /\ finished' = finished \cup {i}
             /\ refused' = refused \cup {<<i, "deferral">>}
             /\ UNCHANGED <<active, service>>
    <3>1. /\ refused' \subseteq
               (Interactions \cup {Nil}) \X {"full", "stopped", "deferral"}
          /\ NeverRefusedByStop'
      BY <2>2 DEF Inv, TypeOK, NeverRefusedByStop
    <3>. QED
      BY <1>1, <1>2, <2>2, <3>1 DEF BeginInteraction, Inv, TypeOK, Lifecycle,
        ServingWhom, Serving
  <2>. QED  BY <1>2, <2>1, <2>2 DEF BeginInteraction
<1>3. CASE CommandFound
  BY <1>1, <1>3 DEF CommandFound, Inv, TypeOK, Lifecycle, ServingWhom,
    Serving, NeverRefusedByStop
<1>4. CASE CommandThrows
  BY <1>1, <1>4 DEF CommandThrows, Inv, TypeOK, Lifecycle, ServingWhom,
    Serving, NeverRefusedByStop
<1>5. CASE EndInteraction
  <2>1. active.interaction \in Interactions
    BY <1>5 DEF EndInteraction, Inv, ServingWhom, Serving
  <2>2. None \in ActiveInteraction
    BY DEF None, ActiveInteraction
  <2>. QED
    BY <1>1, <1>5, <2>1, <2>2 DEF EndInteraction, Inv, TypeOK, Lifecycle,
      ServingWhom, Serving, NeverRefusedByStop
<1>6. CASE Disconnect
  BY <1>1, <1>6 DEF Disconnect, Inv, TypeOK, Lifecycle, ServingWhom,
    Serving, NeverRefusedByStop
<1>7. CASE StopWorker
  BY <1>1, <1>7 DEF StopWorker, Inv, TypeOK, Lifecycle, ServingWhom,
    Serving, NeverRefusedByStop
<1>8. CASE JoinWorker
  BY <1>1, <1>8 DEF JoinWorker, Inv, TypeOK, Lifecycle, ServingWhom,
    Serving, NeverRefusedByStop
<1>. QED  BY <1>2, <1>3, <1>4, <1>5, <1>6, <1>7, <1>8

LEMMA InvNext == Inv /\ [Next]_vars => Inv'
<1>. SUFFICES ASSUME Inv, [Next]_vars PROVE Inv'
  OBVIOUS
<1>0. "service" \in Threads /\ "main" \in Threads
  BY DEF Threads
<1>1. ASSUME NEW c \in Channels, NEW n \in 1..MaxChunks,
             EventHandlerSends(c, n) \/ CommandSends(c, n)
             \/ TickSends(c, n) \/ UnloadSends(c, n)
      PROVE  Inv'
  <2>1. running
    BY <1>1 DEF EventHandlerSends, CommandSends, TickSends, UnloadSends, Inv,
                Lifecycle, TypeOK
  <2>2. n \in Nat
    BY BoundAssumption
  <2>3. PICK t \in Threads : SendMessage(t, c, n)
    BY <1>0, <1>1 DEF EventHandlerSends, CommandSends, TickSends, UnloadSends
  <2>4. /\ UNCHANGED <<running, phase, worker, current, sent, finished>>
        /\ service' = service
    BY <1>1 DEF EventHandlerSends, CommandSends, TickSends, UnloadSends
  <2>. QED  BY <2>1, <2>2, <2>3, <2>4, SendStep
<1>2. CASE CommandUnknown \/ CommandReturns \/ ScopeSends
  <2>1. Serving /\ service' \in {"scope", "end"} /\ running
    BY <1>2 DEF CommandUnknown, CommandReturns, ScopeSends, Serving, Inv,
                Lifecycle, TypeOK
  <2>2. UNCHANGED <<running, phase, worker, current, sent, finished>>
    BY <1>2 DEF CommandUnknown, CommandReturns, ScopeSends
  <2>3. active.channel \in Channels
    BY <2>1 DEF Inv, ServingWhom
  <2>4. CASE SendMessage("service", active.channel, 1)
    BY <1>0, <2>1, <2>2, <2>3, <2>4, SendStep
  <2>5. CASE UNCHANGED <<queue, log, active, refused>>
    BY <2>1, <2>2, <2>5 DEF Inv, TypeOK, NothingLost, Lifecycle, ServingWhom,
                            Serving, NeverRefusedByStop
  <2>. QED
    BY <1>2, <2>4, <2>5 DEF CommandUnknown, CommandReturns, ScopeSends
<1>3. CASE WorkerStep
  BY <1>3, WorkerStepInv
<1>4. ASSUME \/ \E i \in Interactions, c \in Channels : BeginInteraction(i, c)
             \/ CommandFound \/ CommandThrows \/ EndInteraction
             \/ Disconnect \/ StopWorker \/ JoinWorker
      PROVE  Inv'
  <2>1. UNCHANGED <<queue, worker, current, log, sent>>
    BY <1>4 DEF BeginInteraction, CommandFound, CommandThrows, EndInteraction,
                Disconnect, StopWorker, JoinWorker
  <2>. QED  BY <1>4, <2>1, QuietStepInv
<1>5. CASE UNCHANGED vars
  BY <1>5 DEF vars, Inv, TypeOK, NothingLost, Lifecycle, ServingWhom, Serving,
              NeverRefusedByStop
<1>. QED
  BY <1>1, <1>2, <1>3, <1>4, <1>5
    DEF Next, Sends, InteractionStep, Destruction

\* The whole state keeps its shape, nothing accepted is lost on its way to
\* Discord, and no caller ever meets a stopped worker (send_message,
\* outbound_loop, ~DiscordBot).
THEOREM InvIsInvariant == Spec => []Inv
BY InitInv, InvNext, PTL DEF Spec

\* Type correctness of the REST path, its queue limit included.
THEOREM TypeCorrect == Spec => []TypeOK
<1>1. Inv => TypeOK
  BY DEF Inv
<1>. QED  BY <1>1, InvIsInvariant, PTL

\* Every accepted message is sent, held or queued, in order of acceptance.
THEOREM NoMessageLost == Spec => []NothingLost
<1>1. Inv => NothingLost
  BY DEF Inv
<1>. QED  BY <1>1, InvIsInvariant, PTL

\* Destruction drains the queue: a destroyed bot has sent all it accepted.
THEOREM DestructionDrains == Spec => []DrainedAtDestruction
<1>1. Inv => DrainedAtDestruction
  <2>. SUFFICES ASSUME Inv, phase = "destroyed" PROVE sent = log
    BY DEF DrainedAtDestruction
  <2>1. worker = "exited" /\ queue = <<>> /\ current = <<>>
    BY EmptySeq DEF Inv, Lifecycle, TypeOK
  <2>2. sent \in Seq(Messages) /\ (sent \o <<>>) \o <<>> = sent
    BY ConcatEmptySeq DEF Inv, TypeOK
  <2>. QED  BY <2>1, <2>2 DEF Inv, NothingLost
<1>. QED  BY <1>1, InvIsInvariant, PTL

\* The order of ~DiscordBot: modules are unloaded while the worker still runs.
THEOREM NoSendAfterStop == Spec => []NeverRefusedByStop
<1>1. Inv => NeverRefusedByStop
  BY DEF Inv
<1>. QED  BY <1>1, InvIsInvariant, PTL

-----------------------------------------------------------------------------
(* The responses of interactions. *)

\* What accepting a text does to the history, chunk by chunk.
LEMMA AcceptLog ==
  ASSUME Inv, NEW t \in Threads, NEW c \in Channels, NEW n \in Nat,
         Accept(t, c, n)
  PROVE  /\ DOMAIN log = 1..Len(log) /\ Len(log) \in Nat
         /\ DOMAIN log' = 1..(Len(log) + n)
         /\ \A k \in 1..Len(log) : log'[k] = log[k]
         /\ \A k \in (Len(log) + 1)..(Len(log) + n) :
              log'[k] = Chunks(t, c, n)[k - Len(log)]
<1>. DEFINE ch == Chunks(t, c, n)
<1>1. ch \in Seq(Messages) /\ Len(ch) = n /\ log \in Seq(Messages)
  BY ChunksType DEF Inv, TypeOK
<1>2. log' = log \o ch
  BY DEF Accept
<1>. HIDE DEF ch
<1>3. /\ log' \in Seq(Messages) /\ Len(log') = Len(log) + n
      /\ \A k \in 1..(Len(log) + n) :
           log'[k] = IF k <= Len(log) THEN log[k] ELSE ch[k - Len(log)]
  BY <1>1, <1>2, ConcatProperties
<1>4. Len(log) \in Nat /\ DOMAIN log = 1..Len(log) /\ DOMAIN log' = 1..Len(log')
  BY <1>1, <1>3, LenProperties
<1>. QED  BY <1>3, <1>4 DEF ch

\* The record that becomes the j-th chunk of a text.
LEMMA ChunkAt ==
  ASSUME NEW t, NEW c, NEW n \in Nat, NEW j \in 1..n
  PROVE  /\ Chunks(t, c, n)[j].kind = KindOf(t, c, j)
         /\ Chunks(t, c, n)[j].thread = t
         /\ Chunks(t, c, n)[j].interaction =
              IF Answers(t, c) THEN ActiveOf(t).interaction ELSE Nil
BY DEF Chunks

\* A text that answers no interaction adds plain channel messages.
LEMMA AcceptPlain ==
  ASSUME Inv, AnswerInv, NEW t \in Threads, NEW c \in Channels, NEW n \in Nat,
         Accept(t, c, n), ~Answers(t, c), Serving' <=> Serving
  PROVE  AnswerInv'
<1>1. /\ DOMAIN log = 1..Len(log) /\ Len(log) \in Nat
      /\ DOMAIN log' = 1..(Len(log) + n)
      /\ \A k \in 1..Len(log) : log'[k] = log[k]
      /\ \A k \in (Len(log) + 1)..(Len(log) + n) :
           /\ log'[k].kind = ChannelMessage
           /\ log'[k].interaction = Nil
  <2>1. ASSUME NEW k \in (Len(log) + 1)..(Len(log) + n)
        PROVE  /\ log'[k].kind = ChannelMessage
               /\ log'[k].interaction = Nil
    <3>1. /\ log'[k] = Chunks(t, c, n)[k - Len(log)]
          /\ k - Len(log) \in 1..n
      BY AcceptLog
    <3>2. /\ Chunks(t, c, n)[k - Len(log)].kind = ChannelMessage
          /\ Chunks(t, c, n)[k - Len(log)].interaction = Nil
      BY <3>1, ChunkAt DEF KindOf
    <3>. QED  BY <3>1, <3>2
  <2>. QED  BY <2>1, AcceptLog
<1>2. active' = active
  BY DEF Accept
<1>3. Flag'
  BY <1>1, <1>2 DEF AnswerInv, Flag
<1>4. KindMatches' /\ MainNeverAnswers'
  BY <1>1 DEF AnswerInv, KindMatches, MainNeverAnswers
<1>5. OneOriginalThenFollowups'
  BY <1>1 DEF AnswerInv, OneOriginalThenFollowups
<1>. QED  BY <1>3, <1>4, <1>5 DEF AnswerInv

\* A text that answers the interaction adds its original response first if
\* there is none yet, and follow-ups after it.
LEMMA AcceptAnswer ==
  ASSUME Inv, AnswerInv, NEW t \in Threads, NEW c \in Channels,
         NEW n \in Nat \ {0}, Accept(t, c, n), Answers(t, c), Serving'
  PROVE  AnswerInv'
<1>. DEFINE i == active.interaction
            flag == active.original_response_queued
            L == Len(log)
<1>0. t = "service" /\ i # Nil /\ ActiveOf(t) = active /\ t # "main"
  BY DEF Answers, ActiveOf, None
<1>1. /\ DOMAIN log = 1..L /\ L \in Nat
      /\ DOMAIN log' = 1..(L + n)
      /\ \A k \in 1..L : log'[k] = log[k]
  BY AcceptLog
<1>2. \A k \in (L + 1)..(L + n) :
        /\ log'[k].interaction = i
        /\ log'[k].thread # "main"
        /\ log'[k].kind = IF k = L + 1 /\ ~flag THEN InteractionOriginal
                          ELSE InteractionFollowup
  <2>. SUFFICES ASSUME NEW k \in (L + 1)..(L + n)
                PROVE  /\ log'[k].interaction = i
                       /\ log'[k].thread # "main"
                       /\ log'[k].kind = IF k = L + 1 /\ ~flag
                                         THEN InteractionOriginal
                                         ELSE InteractionFollowup
    OBVIOUS
  <2>1. log'[k] = Chunks(t, c, n)[k - L] /\ k - L \in 1..n
    BY <1>1, AcceptLog
  <2>2. /\ Chunks(t, c, n)[k - L].kind = KindOf(t, c, k - L)
        /\ Chunks(t, c, n)[k - L].thread = t
        /\ Chunks(t, c, n)[k - L].interaction = i
    BY <1>0, <2>1, ChunkAt
  <2>3. KindOf(t, c, k - L) = IF k = L + 1 /\ ~flag THEN InteractionOriginal
                              ELSE InteractionFollowup
    BY <1>0, <1>1 DEF KindOf
  <2>. QED  BY <1>0, <2>1, <2>2, <2>3
<1>3. active' = [active EXCEPT !.original_response_queued = TRUE]
  BY DEF Accept
<1>4. /\ active'.interaction = i /\ active'.channel = active.channel
      /\ active'.original_response_queued = TRUE
  BY <1>3 DEF Inv, TypeOK, ActiveInteraction
<1>5. flag <=> \E k \in 1..L : log[k].interaction = i
  BY <1>0, <1>1 DEF AnswerInv, Flag
<1>. HIDE DEF i, flag, L
<1>6. L + 1 \in (L + 1)..(L + n) /\ L + 1 \in 1..(L + n)
  BY <1>1
<1>7. Flag'
  <2>1. \E k \in DOMAIN log' : log'[k].interaction = i
    BY <1>1, <1>2, <1>6
  <2>2. i # Nil /\ active.channel # Nil
    BY <1>0 DEF AnswerInv, Flag, i
  <2>. QED  BY <1>4, <2>1, <2>2 DEF Flag
<1>8. KindMatches' /\ MainNeverAnswers'
  BY <1>0, <1>1, <1>2 DEF AnswerInv, KindMatches, MainNeverAnswers,
    ChannelMessage, InteractionOriginal, InteractionFollowup
<1>9. OneOriginalThenFollowups'
  <2>. SUFFICES ASSUME NEW k \in DOMAIN log', log'[k].kind # ChannelMessage
                PROVE  log'[k].kind = InteractionOriginal
                         <=> \A j \in 1..(k - 1) :
                               log'[j].interaction # log'[k].interaction
    BY DEF OneOriginalThenFollowups
  <2>1. CASE k \in 1..L
    BY <1>1, <2>1 DEF AnswerInv, OneOriginalThenFollowups
  <2>2. CASE k = L + 1
    <3>1. log'[k].interaction = i
          /\ (log'[k].kind = InteractionOriginal <=> ~flag)
      BY <1>2, <1>6, <2>2 DEF InteractionOriginal, InteractionFollowup
    <3>2. (\A j \in 1..(k - 1) : log'[j].interaction # i)
             <=> (\A j \in 1..L : log[j].interaction # i)
      BY <1>1, <2>2
    <3>. QED  BY <1>5, <3>1, <3>2
  <2>3. CASE k \in (L + 2)..(L + n)
    <3>1. k \in (L + 1)..(L + n) /\ k # L + 1 /\ L + 1 \in 1..(k - 1)
      BY <1>1, <2>3
    <3>2. log'[k].kind = InteractionFollowup /\ log'[k].interaction = i
      BY <1>2, <3>1
    <3>3. log'[L + 1].interaction = i
      BY <1>2, <1>6
    <3>. QED
      BY <3>1, <3>2, <3>3 DEF InteractionOriginal, InteractionFollowup
  <2>. QED  BY <1>1, <2>1, <2>2, <2>3
<1>. QED  BY <1>7, <1>8, <1>9 DEF AnswerInv

LEMMA SendAnswerInv ==
  ASSUME Inv, AnswerInv, NEW t \in Threads, NEW c \in Channels,
         NEW n \in Nat \ {0}, SendMessage(t, c, n),
         Serving' <=> Serving
  PROVE  AnswerInv'
<1>1. CASE Accept(t, c, n) /\ Answers(t, c)
  <2>1. Serving
    BY <1>1 DEF Answers, ActiveOf, None, AnswerInv, Flag
  <2>. QED  BY <1>1, <2>1, AcceptAnswer
<1>2. CASE Accept(t, c, n) /\ ~Answers(t, c)
  BY <1>2, AcceptPlain
<1>3. CASE Refuse(t, c, n)
  BY <1>3 DEF Refuse, AnswerInv, Flag, KindMatches,
    OneOriginalThenFollowups, MainNeverAnswers
<1>. QED  BY <1>1, <1>2, <1>3 DEF SendMessage

LEMMA InitAnswerInv == Init => AnswerInv
BY DEF Init, None, AnswerInv, Flag, Serving, KindMatches,
  OneOriginalThenFollowups, MainNeverAnswers

\* A new interaction is not in the history yet.
LEMMA BeginAnswerInv ==
  ASSUME Inv, AnswerInv, NEW i \in Interactions, NEW c \in Channels,
         BeginInteraction(i, c)
  PROVE  AnswerInv'
<1>1. i # Nil /\ c # Nil /\ log' = log
  BY NilAssumption DEF BeginInteraction
<1>2. \A k \in DOMAIN log : log[k].interaction # i
  BY DEF BeginInteraction, Started
<1>3. CASE UNCHANGED <<active, service>>
  BY <1>1, <1>3 DEF AnswerInv, Flag, Serving, KindMatches,
    OneOriginalThenFollowups, MainNeverAnswers
<1>4. CASE /\ active' = [interaction |-> i, channel |-> c,
                         original_response_queued |-> FALSE]
           /\ service' = "dispatch"
  BY <1>1, <1>2, <1>4 DEF AnswerInv, Flag, Serving, KindMatches,
    OneOriginalThenFollowups, MainNeverAnswers
<1>. QED  BY <1>3, <1>4 DEF BeginInteraction

LEMMA AnswerNext == Inv /\ AnswerInv /\ [Next]_vars => AnswerInv'
<1>. SUFFICES ASSUME Inv, AnswerInv, [Next]_vars PROVE AnswerInv'
  OBVIOUS
<1>0. "service" \in Threads /\ "main" \in Threads
  BY DEF Threads
<1>1. ASSUME NEW c \in Channels, NEW n \in 1..MaxChunks,
             EventHandlerSends(c, n) \/ CommandSends(c, n)
             \/ TickSends(c, n) \/ UnloadSends(c, n)
      PROVE  AnswerInv'
  <2>1. n \in Nat \ {0}
    BY BoundAssumption
  <2>2. PICK t \in Threads : SendMessage(t, c, n)
    BY <1>0, <1>1 DEF EventHandlerSends, CommandSends, TickSends, UnloadSends
  <2>3. Serving' <=> Serving
    BY <1>1 DEF EventHandlerSends, CommandSends, TickSends, UnloadSends,
                Serving
  <2>. QED  BY <2>1, <2>2, <2>3, SendAnswerInv
<1>2. CASE CommandUnknown \/ CommandReturns \/ ScopeSends
  <2>1. Serving' /\ Serving
    BY <1>2 DEF CommandUnknown, CommandReturns, ScopeSends, Serving
  <2>2. active.channel \in Channels
    BY <2>1 DEF Inv, ServingWhom
  <2>3. CASE SendMessage("service", active.channel, 1)
    BY <1>0, <2>1, <2>2, <2>3, SendAnswerInv
  <2>4. CASE UNCHANGED <<queue, log, active, refused>>
    BY <2>1, <2>4 DEF AnswerInv, Flag, KindMatches,
      OneOriginalThenFollowups, MainNeverAnswers
  <2>. QED
    BY <1>2, <2>3, <2>4 DEF CommandUnknown, CommandReturns, ScopeSends
<1>3. ASSUME NEW i \in Interactions, NEW c \in Channels,
             BeginInteraction(i, c)
      PROVE  AnswerInv'
  BY <1>3, BeginAnswerInv
<1>4. CASE EndInteraction
  BY <1>4 DEF EndInteraction, None, AnswerInv, Flag, Serving, KindMatches,
    OneOriginalThenFollowups, MainNeverAnswers
<1>5. CASE \/ CommandFound \/ CommandThrows \/ WorkerStep
           \/ Disconnect \/ StopWorker \/ JoinWorker \/ UNCHANGED vars
  <2>1. UNCHANGED <<active, log>> /\ (Serving' <=> Serving)
    BY <1>5 DEF CommandFound, CommandThrows, WorkerStep, WorkerTake,
      WorkerSend, WorkerExit, Disconnect, StopWorker, JoinWorker, vars, Serving
  <2>. QED
    BY <2>1 DEF AnswerInv, Flag, KindMatches, OneOriginalThenFollowups,
      MainNeverAnswers
<1>. QED
  BY <1>1, <1>2, <1>3, <1>4, <1>5
    DEF Next, Sends, InteractionStep, Destruction

\* However the threads interleave, Discord gets one edit of the deferred
\* response and only then follow-ups, and a text of the main thread never
\* consumes the response (send_message, active_interaction).
THEOREM AnswersInOrder == Spec => [](OneOriginalThenFollowups /\ MainNeverAnswers)
<1>1. Init => Inv /\ AnswerInv
  BY InitInv, InitAnswerInv
<1>2. Inv /\ AnswerInv /\ [Next]_vars => (Inv /\ AnswerInv)'
  BY InvNext, AnswerNext
<1>3. Inv /\ AnswerInv => OneOriginalThenFollowups /\ MainNeverAnswers
  BY DEF AnswerInv
<1>. QED  BY <1>1, <1>2, <1>3, PTL DEF Spec

-----------------------------------------------------------------------------
(* No interaction is left without an answer. *)

Original(i) ==
  \E k \in DOMAIN log : /\ log[k].kind = InteractionOriginal
                        /\ log[k].interaction = i

\* The scope's debt: the flag is raised by an original response only, and a
\* handler leaves its scope with the flag up or after a full queue.
Owed ==
  /\ active.original_response_queued => Original(active.interaction)
  /\ service = "end" =>
       \/ active.original_response_queued
       \/ <<active.interaction, "full">> \in refused

ScopeInv == Owed /\ EveryInteractionAnswered

\* What was answered stays answered when the histories only grow.
LEMMA AnswersStay ==
  ASSUME \A k \in DOMAIN log : k \in DOMAIN log' /\ log'[k] = log[k],
         refused \subseteq refused'
  PROVE  /\ \A i : Original(i) => Original(i)'
         /\ EveryInteractionAnswered /\ finished' = finished
              => EveryInteractionAnswered'
<1>1. \A i : Original(i) => Original(i)'
  BY DEF Original
<1>. QED  BY <1>1 DEF EveryInteractionAnswered, Original

\* A text keeps every answer, raises the flag only with an original response,
\* and, sent to the interaction's own channel, raises it or meets the limit.
LEMMA SendKeepsOwed ==
  ASSUME Inv, AnswerInv, ScopeInv, NEW t \in Threads, NEW c \in Channels,
         NEW n \in Nat \ {0}, SendMessage(t, c, n), running,
         finished' = finished
  PROVE  /\ EveryInteractionAnswered'
         /\ active'.original_response_queued => Original(active.interaction)'
         /\ active'.interaction = active.interaction
         /\ active.original_response_queued => active'.original_response_queued
         /\ refused \subseteq refused'
         /\ Serving /\ t = "service" /\ c = active.channel =>
              \/ active'.original_response_queued
              \/ <<active.interaction, "full">> \in refused'
<1>. DEFINE L == Len(log)
<1>1. CASE Refuse(t, c, n)
  <2>1. UNCHANGED <<log, active>> /\ refused \subseteq refused'
    BY <1>1 DEF Refuse
  <2>2. /\ EveryInteractionAnswered'
        /\ active'.original_response_queued => Original(active.interaction)'
    BY <2>1, AnswersStay DEF ScopeInv, Owed
  <2>3. t = "service" => <<active.interaction, "full">> \in refused'
    BY <1>1 DEF Refuse, ActiveOf
  <2>. QED  BY <2>1, <2>2, <2>3
<1>2. CASE Accept(t, c, n)
  <2>1. /\ DOMAIN log = 1..L /\ L \in Nat /\ DOMAIN log' = 1..(L + n)
        /\ \A k \in 1..L : log'[k] = log[k]
        /\ \A k \in (L + 1)..(L + n) : log'[k] = Chunks(t, c, n)[k - L]
    BY <1>2, AcceptLog
  <2>2. \A k \in DOMAIN log : k \in DOMAIN log' /\ log'[k] = log[k]
    BY <2>1
  <2>3. refused' = refused
    BY <1>2 DEF Accept
  <2>4. EveryInteractionAnswered' /\ \A i : Original(i) => Original(i)'
    BY <2>2, <2>3, AnswersStay DEF ScopeInv
  <2>5. active \in ActiveInteraction
    BY DEF Inv, TypeOK
  <2>6. CASE ~Answers(t, c)
    <3>1. active' = active
      BY <1>2, <2>6 DEF Accept
    <3>2. ~(Serving /\ t = "service" /\ c = active.channel)
      BY <2>6 DEF Answers, ActiveOf, AnswerInv, Flag
    <3>. QED  BY <2>3, <2>4, <3>1, <3>2 DEF ScopeInv, Owed
  <2>7. CASE Answers(t, c)
    <3>1. active' = [active EXCEPT !.original_response_queued = TRUE]
      BY <1>2, <2>7 DEF Accept
    <3>2. /\ active'.interaction = active.interaction
          /\ active'.original_response_queued = TRUE
      BY <2>5, <3>1 DEF ActiveInteraction
    <3>3. ActiveOf(t) = active
      BY <2>7 DEF Answers, ActiveOf, None
    <3>4. CASE active.original_response_queued
      BY <2>3, <2>4, <3>2, <3>4 DEF ScopeInv, Owed
    <3>5. CASE ~active.original_response_queued
      <4>1. /\ L + 1 \in (L + 1)..(L + n) /\ L + 1 \in 1..(L + n)
            /\ (L + 1) - L = 1 /\ 1 \in 1..n
        BY <2>1
      <4>2. log'[L + 1] = Chunks(t, c, n)[1]
        BY <2>1, <4>1
      <4>3. KindOf(t, c, 1) = InteractionOriginal
        BY <2>7, <3>3, <3>5 DEF KindOf
      <4>4. /\ log'[L + 1].kind = InteractionOriginal
            /\ log'[L + 1].interaction = active.interaction
        BY <2>7, <3>3, <4>1, <4>2, <4>3, ChunkAt
      <4>5. Original(active.interaction)'
        BY <2>1, <3>2, <4>1, <4>4 DEF Original
      <4>. QED  BY <2>3, <2>4, <3>2, <4>5
    <3>. QED  BY <3>4, <3>5
  <2>. QED  BY <2>6, <2>7
<1>. QED  BY <1>1, <1>2 DEF SendMessage

\* Every step keeps the scope's debt.
LEMMA ScopeNext == Inv /\ AnswerInv /\ ScopeInv /\ [Next]_vars => ScopeInv'
<1>. SUFFICES ASSUME Inv, AnswerInv, ScopeInv, [Next]_vars PROVE ScopeInv'
  OBVIOUS
<1>0. "service" \in Threads /\ "main" \in Threads
  BY DEF Threads
<1>1. ASSUME NEW c \in Channels, NEW n \in 1..MaxChunks,
             EventHandlerSends(c, n) \/ CommandSends(c, n)
             \/ TickSends(c, n) \/ UnloadSends(c, n)
      PROVE  ScopeInv'
  <2>1. n \in Nat \ {0}
    BY BoundAssumption
  <2>2. PICK t \in Threads : SendMessage(t, c, n)
    BY <1>0, <1>1 DEF EventHandlerSends, CommandSends, TickSends, UnloadSends
  <2>3. UNCHANGED <<service, finished>> /\ running
    BY <1>1 DEF EventHandlerSends, CommandSends, TickSends, UnloadSends,
                Inv, Lifecycle
  <2>4. /\ EveryInteractionAnswered'
        /\ active'.original_response_queued => Original(active.interaction)'
        /\ active'.interaction = active.interaction
        /\ active.original_response_queued => active'.original_response_queued
        /\ refused \subseteq refused'
    BY <2>1, <2>2, <2>3, SendKeepsOwed
  <2>. QED  BY <2>3, <2>4 DEF ScopeInv, Owed, Original
<1>2. CASE CommandUnknown \/ CommandReturns \/ ScopeSends
  <2>1. Serving /\ running /\ finished' = finished
    BY <1>2 DEF CommandUnknown, CommandReturns, ScopeSends, Serving, Inv,
      Lifecycle
  <2>2. active.channel \in Channels
    BY <2>1 DEF Inv, ServingWhom
  <2>3. CASE SendMessage("service", active.channel, 1)
    <3>1. /\ EveryInteractionAnswered'
          /\ active'.original_response_queued => Original(active.interaction)'
          /\ active'.interaction = active.interaction
          /\ \/ active'.original_response_queued
             \/ <<active.interaction, "full">> \in refused'
      BY <1>0, <2>1, <2>2, <2>3, SendKeepsOwed
    <3>. QED  BY <3>1 DEF ScopeInv, Owed, Original
  <2>4. CASE /\ active.original_response_queued
             /\ UNCHANGED <<queue, log, active, refused>>
    BY <2>1, <2>4 DEF ScopeInv, Owed, Original, EveryInteractionAnswered
  <2>. QED
    BY <1>2, <2>3, <2>4 DEF CommandUnknown, CommandReturns, ScopeSends
<1>3. ASSUME NEW i \in Interactions, NEW c \in Channels,
             BeginInteraction(i, c)
      PROVE  ScopeInv'
  <2>1. CASE /\ active' = [interaction |-> i, channel |-> c,
                           original_response_queued |-> FALSE]
             /\ service' = "dispatch"
             /\ UNCHANGED <<finished, refused, log>>
    BY <2>1 DEF ScopeInv, Owed, EveryInteractionAnswered
  <2>2. CASE /\ finished' = finished \cup {i}
             /\ refused' = refused \cup {<<i, "deferral">>}
             /\ UNCHANGED <<active, service, log>>
    <3>1. Owed'
      BY <2>2 DEF ScopeInv, Owed, Original
    <3>2. EveryInteractionAnswered'
      BY <2>2 DEF ScopeInv, EveryInteractionAnswered
    <3>. QED  BY <3>1, <3>2 DEF ScopeInv
  <2>. QED  BY <1>3, <2>1, <2>2 DEF BeginInteraction
<1>4. CASE EndInteraction
  <2>1. /\ service = "end" /\ service' = "idle" /\ active' = None
        /\ finished' = finished \cup {active.interaction}
        /\ UNCHANGED <<log, refused>>
    BY <1>4 DEF EndInteraction
  <2>2. \/ Original(active.interaction)
        \/ <<active.interaction, "full">> \in refused
    BY <2>1 DEF ScopeInv, Owed
  <2>3. EveryInteractionAnswered'
    BY <2>1, <2>2 DEF ScopeInv, EveryInteractionAnswered, Original
  <2>4. Owed'
    BY <2>1 DEF Owed, None
  <2>. QED  BY <2>3, <2>4 DEF ScopeInv
<1>5. CASE \/ CommandFound \/ CommandThrows \/ WorkerStep
           \/ Disconnect \/ StopWorker \/ JoinWorker \/ UNCHANGED vars
  <2>1. /\ UNCHANGED <<active, log, refused, finished>>
        /\ service' = "end" => service = "end"
    BY <1>5 DEF CommandFound, CommandThrows, WorkerStep, WorkerTake,
      WorkerSend, WorkerExit, Disconnect, StopWorker, JoinWorker, vars
  <2>. QED
    BY <2>1 DEF ScopeInv, Owed, Original, EveryInteractionAnswered
<1>. QED
  BY <1>1, <1>2, <1>3, <1>4, <1>5
    DEF Next, Sends, InteractionStep, Destruction

\* Every interaction whose handler has returned has its original response in
\* the queue's history, or Discord had refused the deferral, or the queue was
\* full when the scope tried for the last time (InteractionScope).
THEOREM NoInteractionForgotten == Spec => []EveryInteractionAnswered
<1>1. Init => Inv /\ AnswerInv /\ ScopeInv
  <2>1. Init => ScopeInv
    BY DEF Init, None, ScopeInv, Owed, EveryInteractionAnswered
  <2>. QED  BY <2>1, InitInv, InitAnswerInv
<1>2. Inv /\ AnswerInv /\ ScopeInv /\ [Next]_vars
        => (Inv /\ AnswerInv /\ ScopeInv)'
  BY InvNext, AnswerNext, ScopeNext
<1>3. ScopeInv => EveryInteractionAnswered
  BY DEF ScopeInv
<1>. QED  BY <1>1, <1>2, <1>3, PTL DEF Spec

-----------------------------------------------------------------------------
(* The path implements the abstract FIFO delivery. *)

LEMMA RefineInit == Init => Abstract!Init
BY DEF Init, Abstract!Init

\* A send either leaves the history alone or extends it while the path is open.
LEMMA RefineSend ==
  ASSUME Inv, NEW t \in Threads, NEW c \in Channels, NEW n \in Nat \ {0},
         SendMessage(t, c, n), running, UNCHANGED <<sent, worker>>
  PROVE  [Abstract!Next]_Abstract!vars
<1>1. worker # "exited"
  BY DEF Inv, Lifecycle
<1>2. CASE Accept(t, c, n)
  <2>. DEFINE ch == Chunks(t, c, n)
  <2>1. ch \in Seq(Messages) /\ Len(ch) = n /\ log \in Seq(Messages)
    BY ChunksType DEF Inv, TypeOK
  <2>2. log' = log \o ch
    BY <1>2 DEF Accept
  <2>. HIDE DEF ch
  <2>3. Len(log') = Len(log) + n /\ Len(log) \in Nat
    BY <2>1, <2>2, ConcatProperties, LenProperties
  <2>4. SubSeq(log \o ch, Len(log) + 1, Len(log) + Len(ch)) = ch
    BY <2>1, SubSeqOfConcat2, SubSeqFull
  <2>5. Abstract!Accept
    BY <1>1, <2>1, <2>2, <2>3, <2>4 DEF Abstract!Accept
  <2>. QED  BY <2>5 DEF Abstract!Next
<1>3. CASE Refuse(t, c, n)
  BY <1>3 DEF Refuse, Abstract!vars
<1>. QED  BY <1>2, <1>3 DEF SendMessage

LEMMA RefineWorker ==
  ASSUME Inv, WorkerStep
  PROVE  [Abstract!Next]_Abstract!vars
<1>0. /\ queue \in Seq(Messages) /\ log \in Seq(Messages)
      /\ sent \in Seq(Messages) /\ current \in Seq(Messages)
      /\ Len(current) = IF worker = "sending" THEN 1 ELSE 0
  BY DEF Inv, TypeOK
<1>1. CASE WorkerTake
  BY <1>1 DEF WorkerTake, Abstract!vars
<1>2. CASE WorkerSend
  <2>1. Len(current) = 1 /\ current[1] \in Messages /\ Len(sent) \in Nat
    <3>1. Len(current) = 1 /\ Len(sent) \in Nat
      BY <1>0, <1>2, LenProperties DEF WorkerSend
    <3>2. 1 \in 1..Len(current)
      BY <3>1
    <3>. QED  BY <1>0, <3>1, <3>2, ElementOfSeq
  <2>2. current = <<current[1]>>
    BY <1>0, <2>1, SeqEqual
  <2>3. sent' = Append(sent, current[1])
    BY <1>0, <1>2, <2>1, <2>2, AppendIsConcat DEF WorkerSend
  <2>. DEFINE held == sent \o current
  <2>4. /\ held \in Seq(Messages) /\ Len(held) = Len(sent) + 1
        /\ held[Len(sent) + 1] = current[1]
    <3>1. Len(held) = Len(sent) + 1 /\ held \in Seq(Messages)
      <4>1. /\ Len(sent \o current) = Len(sent) + Len(current)
            /\ sent \o current \in Seq(Messages)
        BY <1>0, ConcatProperties
      <4>. QED  BY <2>1, <4>1
    <3>2. /\ Len(sent) + 1 \in 1..(Len(sent) + Len(current))
          /\ ~(Len(sent) + 1 <= Len(sent))
          /\ Len(sent) + 1 - Len(sent) = 1
      BY <2>1
    <3>3. held[Len(sent) + 1] = current[Len(sent) + 1 - Len(sent)]
      BY <1>0, <3>2, ConcatProperties
    <3>. QED  BY <3>1, <3>2, <3>3
  <2>5. log = held \o queue
    BY DEF Inv, NothingLost
  <2>. HIDE DEF held
  <2>6. /\ Len(log) = Len(sent) + 1 + Len(queue) /\ Len(queue) \in Nat
        /\ log[Len(sent) + 1] = current[1]
    <3>1. Len(log) = Len(held) + Len(queue) /\ Len(queue) \in Nat
      BY <1>0, <2>4, <2>5, ConcatProperties, LenProperties
    <3>2. Len(held) \in 1..(Len(held) + Len(queue)) /\ Len(held) <= Len(held)
      BY <2>1, <2>4, <3>1
    <3>3. log[Len(held)] = held[Len(held)]
      BY <1>0, <2>4, <2>5, <3>2, ConcatProperties
    <3>. QED  BY <2>1, <2>4, <3>1, <3>3
  <2>7. Abstract!Perform
    BY <1>2, <2>1, <2>3, <2>6 DEF WorkerSend, Abstract!Perform
  <2>. QED  BY <2>7 DEF Abstract!Next
<1>3. CASE WorkerExit
  <2>1. queue = <<>> /\ current = <<>>
    BY <1>0, <1>3, EmptySeq DEF WorkerExit, MayExit
  <2>2. log = sent
    BY <1>0, <2>1, ConcatEmptySeq DEF Inv, NothingLost
  <2>3. Abstract!Close
    BY <1>3, <2>2 DEF WorkerExit, Abstract!Close
  <2>. QED  BY <2>3 DEF Abstract!Next
<1>. QED  BY <1>1, <1>2, <1>3 DEF WorkerStep

LEMMA RefineNext == Inv /\ [Next]_vars => [Abstract!Next]_Abstract!vars
<1>. SUFFICES ASSUME Inv, [Next]_vars PROVE [Abstract!Next]_Abstract!vars
  OBVIOUS
<1>0. "service" \in Threads /\ "main" \in Threads
  BY DEF Threads
<1>1. ASSUME NEW c \in Channels, NEW n \in 1..MaxChunks,
             EventHandlerSends(c, n) \/ CommandSends(c, n)
             \/ TickSends(c, n) \/ UnloadSends(c, n)
      PROVE  [Abstract!Next]_Abstract!vars
  <2>1. running
    BY <1>1 DEF EventHandlerSends, CommandSends, TickSends, UnloadSends, Inv,
                Lifecycle, TypeOK
  <2>2. n \in Nat \ {0}
    BY BoundAssumption
  <2>3. PICK t \in Threads : SendMessage(t, c, n)
    BY <1>0, <1>1 DEF EventHandlerSends, CommandSends, TickSends, UnloadSends
  <2>4. UNCHANGED <<sent, worker>>
    BY <1>1 DEF EventHandlerSends, CommandSends, TickSends, UnloadSends
  <2>. QED  BY <2>1, <2>2, <2>3, <2>4, RefineSend
<1>2. CASE CommandUnknown \/ CommandReturns \/ ScopeSends
  <2>1. Serving /\ running /\ UNCHANGED <<sent, worker>>
    BY <1>2 DEF CommandUnknown, CommandReturns, ScopeSends, Serving, Inv,
                Lifecycle, TypeOK
  <2>2. active.channel \in Channels
    BY <2>1 DEF Inv, ServingWhom
  <2>3. CASE SendMessage("service", active.channel, 1)
    BY <1>0, <2>1, <2>2, <2>3, RefineSend
  <2>4. CASE UNCHANGED <<queue, log, active, refused>>
    BY <2>1, <2>4 DEF Abstract!vars
  <2>. QED
    BY <1>2, <2>3, <2>4 DEF CommandUnknown, CommandReturns, ScopeSends
<1>3. CASE WorkerStep
  BY <1>3, RefineWorker
<1>4. ASSUME \/ \E i \in Interactions, c \in Channels : BeginInteraction(i, c)
             \/ CommandFound \/ CommandThrows \/ EndInteraction
             \/ Disconnect \/ StopWorker \/ JoinWorker \/ UNCHANGED vars
      PROVE  [Abstract!Next]_Abstract!vars
  BY <1>4 DEF BeginInteraction, CommandFound, CommandThrows, EndInteraction,
    Disconnect, StopWorker, JoinWorker, vars, Abstract!vars
<1>. QED
  BY <1>1, <1>2, <1>3, <1>4 DEF Next, Sends, InteractionStep, Destruction

\* The REST path implements FIFO delivery: every step of its threads is an
\* acceptance, an attempt in order, the closing of a drained path, or nothing
\* that a caller or Discord can see.
THEOREM OutboundImplementsFifo == Spec => DeliversInOrder
<1>1. Inv /\ [Next]_vars => [Abstract!Next]_Abstract!vars
  BY RefineNext
<1>. QED
  BY <1>1, RefineInit, InvIsInvariant, PTL
    DEF Spec, DeliversInOrder, Abstract!Spec
=============================================================================
