--------------------------- MODULE OutboxWorker ---------------------------
(***************************************************************************)
(* The outbox worker (worker/impl/msg_consumer_worker.py): StreamConsumer  *)
(* and MessagePacer composed by on_message.  A message of the stream is    *)
(* admitted by the limiter, filtered by the pacer, written to the session  *)
(* table and to the read model, each failing write replaced by an entry in *)
(* the dead letter queue, then acknowledged and reported to the pacer.     *)
(* Everything between two awaits of a task is one step.  In some setups    *)
(* one of the two components runs alone, with a callback that may do       *)
(* anything its interface allows, instead of under on_message.             *)
(***************************************************************************)
EXTENDS StreamConsumer, MessagePacer

VARIABLES
    job,       \* worker -> offset -> where its on_message is
    write,     \* worker -> offset -> its write_to_session task
    slots,     \* worker -> slots taken in the limiter
    shutdown,  \* worker -> OutboxWorker.shutdown, and TaskManager.tasks is None
    session,   \* ids in the session table
    inbox,     \* ids the read model was told of
    dlq        \* <<id, action>> in the dead letter queue

(***************************************************************************)
(* part         "worker", or the component that runs alone: "stream",      *)
(*              "pacer"                                                    *)
(* limit        maximum_concurrent_rpcs of the limiter (1024 in the code)  *)
(* dlqMayFail   whether publishing to the dead letter queue may fail       *)
(* mayCrash     whether a process may die at any point                     *)
(* mayShutdown  whether a process may be asked to exit                     *)
(* A process that lost the partition does not get it back before a restart *)
(* (activations = 1): there is one on_message per offset and process.      *)
(***************************************************************************)
ASSUME OutboxAssumption ==
    /\ MaxOffset \in Nat /\ MaxFrames \in Nat \ {0}
    /\ NoOwner \notin Consumers
    /\ \A s \in Setups :
          /\ s.stored \in Offsets \cup {NoOffset}
          /\ s.last \in Offsets
          /\ s.members \subseteq Consumers
          /\ {s.threshold, s.activations, s.crashes} \subseteq Nat
          /\ DOMAIN s.ids \subseteq Offsets
          /\ \A m \in DOMAIN s.ids : s.ids[m] \in Nat \ {0}
          /\ \E n \in {0} \cup {s.ids[m] : m \in DOMAIN s.ids} : \A m \in DOMAIN s.ids : s.ids[m] <= n
          /\ s.limit \in Nat \ {0}
          /\ {s.queryMayFail, s.concurrent, s.getMayFail, s.setMayFail,
              s.dlqMayFail, s.mayCrash, s.mayShutdown} \subseteq BOOLEAN
          /\ s.part \in {"worker", "stream", "pacer"}
          /\ s.part = "worker" => s.activations = 1 /\ s.concurrent /\ DOMAIN s.ids = 0 .. s.last

effects  == <<session, inbox, dlq>>
workVars == <<job, write, slots, shutdown, effects>>
vars     == <<setup, streamVars, pacerVars, crashes, workVars>>

Init ==
    /\ StreamInit
    /\ PacerInit
    /\ job = [w \in Consumers |-> [m \in Offsets |-> "none"]]
    /\ write = [w \in Consumers |-> [m \in Offsets |-> "none"]]
    /\ slots = [w \in Consumers |-> 0]
    /\ shutdown = [w \in Consumers |-> FALSE]
    /\ session = {}
    /\ inbox = {}
    /\ dlq = {}

JobGoto(w, m, pc) == job' = [job EXCEPT ![w][m] = pc]

\* The on_message task of m ends and gives its slot back.
TaskEnds(w, m) ==
    /\ JobGoto(w, m, "none")
    /\ slots' = [slots EXCEPT ![w] = @ - 1]

-----------------------------------------------------------------------------
(* Steps of the stream consumer alone *)

StreamStep(w) ==
    /\ \/ Activate(w)
       \/ OffsetFound(w)
       \/ OffsetUnknown(w)
       \/ TimerStore(w)
       \/ \E ok \in BOOLEAN : StoreTaskDone(w, ok) \/ DeactivateDone(w, ok)
       \/ Deactivate(w)
       \/ BrokerStore(w)
    /\ UNCHANGED <<pacerVars, workVars>>

\* subscribe_cb_wrapper and the entry of on_message_wrapper.
DeliverMessage(w) ==
    /\ Deliver(w)
    /\ IF record[w].frozen \/ shutdown[w]
       THEN UNCHANGED job
       ELSE JobGoto(w, pos, "waiting")
    /\ UNCHANGED <<pacerVars, write, slots, shutdown, effects>>

(***************************************************************************)
(* The limiter lets the longest waiting message in.  A shutdown or a       *)
(* freeze in the meantime drops the message, and its slot with it.         *)
(***************************************************************************)
Admit(w, m) ==
    /\ job[w][m] = "waiting"
    /\ \A k \in Offsets : job[w][k] = "waiting" => m <= k
    /\ slots[w] < setup.limit
    /\ slots' = [slots EXCEPT ![w] = @ + 1]
    /\ IF shutdown[w] \/ record[w].frozen THEN JobGoto(w, m, "none") ELSE JobGoto(w, m, "task")
    /\ UNCHANGED <<setup, streamVars, pacerVars, crashes, write, shutdown, effects>>

-----------------------------------------------------------------------------
(* on_message *)

(***************************************************************************)
(* What on_message does with the answer of filter_or_not, before its next  *)
(* await.  After wait_for_termination TaskManager.tasks is None: the write *)
(* task is started, but create_task raises and on_message with it.         *)
(***************************************************************************)
Continue(w, m, v) ==
    \/ /\ v = "none"
       /\ JobGoto(w, m, "filter")
       /\ UNCHANGED <<streamVars, write, slots>>
    \/ /\ v = "new"
       /\ write' = [write EXCEPT ![w][m] = "running"]
       /\ IF shutdown[w]
          THEN JobGoto(w, m, "raised") /\ slots' = [slots EXCEPT ![w] = @ - 1]
          ELSE JobGoto(w, m, "notify") /\ UNCHANGED slots
       /\ UNCHANGED streamVars
    \/ /\ v \in {"old", "dup"}
       /\ Ack(w, m)
       /\ TaskEnds(w, m)
       /\ UNCHANGED write
    \/ /\ v = "retry"
       /\ JobGoto(w, m, "dlqAll")
       /\ UNCHANGED <<streamVars, write, slots>>

Start(w, m) ==
    /\ job[w][m] = "task"
    /\ IF record[w].frozen
       THEN Discard(w, m) /\ TaskEnds(w, m) /\ UNCHANGED <<pacerVars, write>>
       ELSE FilterOrNot(w, m) /\ Continue(w, m, verdict'[w][m])
    /\ UNCHANGED <<crashes, shutdown, effects>>

Filter(w, m) ==
    /\ job[w][m] = "filter"
    /\ LockForFilter(w, m) \/ RedisGet(w, m) \/ GetReply(w, m) \/ GetFailed(w, m)
    /\ Continue(w, m, verdict'[w][m])
    /\ UNCHANGED <<crashes, shutdown, effects>>

\* write_to_session runs beside on_message.
WriteToSession(w, m, ok) ==
    /\ write[w][m] = "running"
    /\ write' = [write EXCEPT ![w][m] = IF ok THEN "ok" ELSE "failed"]
    /\ session' = IF ok THEN session \cup {DeliveryId(m)} ELSE session
    /\ UNCHANGED <<setup, streamVars, pacerVars, crashes, job, slots, shutdown, inbox, dlq>>

\* Mutant: a failed notification is not sent to the dead letter queue.
NotifyIgnoresFailure(w, m, ok) ==
    /\ job[w][m] = "notify"
    /\ inbox' = IF ok THEN inbox \cup {DeliveryId(m)} ELSE inbox
    /\ JobGoto(w, m, "session")
    /\ UNCHANGED <<setup, streamVars, pacerVars, crashes, write, slots, shutdown, session, dlq>>

NotifyReadModel(w, m, ok) ==
    /\ job[w][m] = "notify"
    /\ inbox' = IF ok THEN inbox \cup {DeliveryId(m)} ELSE inbox
    /\ JobGoto(w, m, IF ok THEN "session" ELSE "dlqInbox")
    /\ UNCHANGED <<setup, streamVars, pacerVars, crashes, write, slots, shutdown, session, dlq>>

\* push_to_dlq: its result is not looked at.
PushToDlq(m, actions) ==
    /\ dlq' \in {dlq \cup ({DeliveryId(m)} \X actions)} \cup IF setup.dlqMayFail THEN {dlq} ELSE {}
    /\ UNCHANGED <<session, inbox>>

DlqInboxOnly(w, m) ==
    /\ job[w][m] = "dlqInbox"
    /\ PushToDlq(m, {"inbox"})
    /\ JobGoto(w, m, "session")
    /\ UNCHANGED <<setup, streamVars, pacerVars, crashes, write, slots, shutdown>>

\* ack, and on_handled_new_item up to its first await.
Acknowledge(w, m) ==
    /\ Ack(w, m)
    /\ OnHandledNewItem(w, m)
    /\ IF call'[w][m] = "done"
       THEN TaskEnds(w, m)
       ELSE JobGoto(w, m, "mark") /\ UNCHANGED slots
    /\ UNCHANGED <<crashes, write, shutdown>>

\* Mutant: the result of the write task is not looked at.
SessionUnchecked(w, m) ==
    /\ job[w][m] = "session"
    /\ write[w][m] # "running"
    /\ Acknowledge(w, m)
    /\ UNCHANGED effects

SessionWritten(w, m) ==
    /\ job[w][m] = "session"
    /\ write[w][m] = "ok"
    /\ Acknowledge(w, m)
    /\ UNCHANGED effects

SessionFailed(w, m) ==
    /\ job[w][m] = "session"
    /\ write[w][m] = "failed"
    /\ JobGoto(w, m, "dlqSession")
    /\ UNCHANGED <<setup, streamVars, pacerVars, crashes, write, slots, shutdown, effects>>

DlqSessionOnly(w, m) ==
    /\ job[w][m] = "dlqSession"
    /\ PushToDlq(m, {"session"})
    /\ Acknowledge(w, m)

DlqAll(w, m) ==
    /\ job[w][m] = "dlqAll"
    /\ PushToDlq(m, {"session", "inbox"})
    /\ Acknowledge(w, m)

Mark(w, m) ==
    /\ job[w][m] = "mark"
    /\ LockForSet(w, m) \/ SetReply(w, m) \/ SetFailed(w, m)
    /\ IF call'[w][m] = "done" THEN TaskEnds(w, m) ELSE UNCHANGED <<job, slots>>
    /\ UNCHANGED <<streamVars, crashes, write, shutdown, effects>>

LateWrite(w) ==
    /\ LateEffect(w)
    /\ UNCHANGED <<streamVars, crashes, workVars>>

-----------------------------------------------------------------------------
(* The process *)

Restart(w) ==
    /\ ConsumerDies(w)
    /\ PacerDies(w)
    /\ job' = [job EXCEPT ![w] = [m \in Offsets |-> "none"]]
    /\ write' = [write EXCEPT ![w] = [m \in Offsets |-> "none"]]
    /\ slots' = [slots EXCEPT ![w] = 0]
    /\ shutdown' = [shutdown EXCEPT ![w] = FALSE]
    /\ UNCHANGED effects

Crash(w) == setup.mayCrash /\ Restart(w)

\* run: the shutdown event is set and the tasks that exist are awaited.
Shutdown(w) ==
    /\ setup.mayShutdown
    /\ w \in setup.members
    /\ crashes < setup.crashes
    /\ ~shutdown[w]
    /\ shutdown' = [shutdown EXCEPT ![w] = TRUE]
    /\ UNCHANGED <<setup, streamVars, pacerVars, crashes, job, write, slots, effects>>

Exit(w) ==
    /\ shutdown[w]
    /\ \A m \in Offsets : job[w][m] \in {"none", "waiting", "raised"}
    /\ Restart(w)

OnMessage(w, m) ==
    \/ Admit(w, m)
    \/ Start(w, m)
    \/ Filter(w, m)
    \/ NotifyReadModel(w, m, TRUE)
    \/ NotifyReadModel(w, m, FALSE)
    \/ DlqInboxOnly(w, m)
    \/ SessionWritten(w, m)
    \/ SessionFailed(w, m)
    \/ DlqSessionOnly(w, m)
    \/ DlqAll(w, m)
    \/ Mark(w, m)

Next ==
    \/ /\ setup.part = "worker"
       /\ \E w \in setup.members :
              \/ StreamStep(w)
              \/ DeliverMessage(w)
              \/ \E m \in Published :
                    OnMessage(w, m) \/ WriteToSession(w, m, TRUE) \/ WriteToSession(w, m, FALSE)
              \/ LateWrite(w)
              \/ Crash(w)
              \/ Shutdown(w)
              \/ Exit(w)
    \/ setup.part = "stream" /\ StreamNext /\ UNCHANGED <<pacerVars, workVars>>
    \/ setup.part = "pacer" /\ PacerNext /\ UNCHANGED <<streamVars, workVars>>

\* What runs by itself: the broker elects and delivers, awaited calls return,
\* ready tasks run, a process asked to exit does.
Progress ==
    \/ /\ setup.part = "worker"
       /\ \E w \in setup.members :
              \/ /\ \/ Activate(w)
                    \/ OffsetFound(w)
                    \/ OffsetUnknown(w)
                    \/ \E ok \in BOOLEAN : DeactivateDone(w, ok)
                 /\ UNCHANGED <<pacerVars, workVars>>
              \/ DeliverMessage(w)
              \/ \E m \in Published :
                    OnMessage(w, m) \/ WriteToSession(w, m, TRUE) \/ WriteToSession(w, m, FALSE)
              \/ Exit(w)
    \/ /\ setup.part = "pacer"
       /\ \E w \in setup.members, m \in Published : PacerStep(w, m)
       /\ UNCHANGED <<streamVars, workVars>>

\* The event loops do not stop while one of them has work; the store timer, late
\* effects and faults are free.
Spec == Init /\ [][Next]_vars /\ WF_vars(Progress)

-----------------------------------------------------------------------------
TypeOK ==
    /\ StreamTypeOK
    /\ PacerTypeOK
    /\ job \in [Consumers -> [Offsets ->
          {"none", "waiting", "task", "filter", "notify", "dlqInbox", "session",
           "dlqSession", "dlqAll", "mark", "raised"}]]
    /\ write \in [Consumers -> [Offsets -> {"none", "running", "ok", "failed"}]]
    /\ slots \in [Consumers -> 0 .. setup.limit]
    /\ shutdown \in [Consumers -> BOOLEAN]
    /\ session \subseteq Ids
    /\ inbox \subseteq Ids
    /\ dlq \subseteq Ids \X {"session", "inbox"}

\* An offset is stored only when it and every offset before it was acknowledged,
\* and `expected_offset` of a consumer that consumes is the first offset it may
\* still be waiting for: for a callback that handles one message at a time, or when
\* the record is anchored at an offset the broker knows and no task of an earlier
\* activation acknowledges an offset below it.
StoredIsAcked == Orderly => StoredPrefixAcked /\ ExpectedIsAcked

\* A pacer's watermark never moves back while its process lives.
WatermarkAscends ==
    [][crashes' = crashes => \A w \in Consumers : next'[w] >= next[w]]_vars

\* As long as no write fails, the watermark one process stores never moves back,
\* restarts included: its writes reach Redis in the order in which its watermark
\* advanced.
RedisAscends ==
    [][setup.setMayFail \/ (\E v, w \in setup.members : v # w) \/ redis' >= redis]_vars

\* Neither the watermark in a process nor the one in Redis moves back.
WatermarksAscend == WatermarkAscends /\ RedisAscends

\* Both effects of a message are done or waiting in the dead letter queue.
Delivered(d) ==
    /\ d \in session \/ <<d, "session">> \in dlq
    /\ d \in inbox \/ <<d, "inbox">> \in dlq

InProgress(d) ==
    \E w \in Consumers : \E m \in Offsets :
        job[w][m] \in {"notify", "dlqInbox", "session", "dlqSession", "dlqAll"} /\ DeliveryId(m) = d

\* A message acknowledged to the stream has been delivered, or a copy of it is
\* still being handled: the duplicate of a slow message is acknowledged early.
AckedIsCovered == setup.part = "worker" => \A o \in acked : Delivered(DeliveryId(o)) \/ InProgress(DeliveryId(o))

\* ... and what the broker will not deliver again has been delivered.
StoredIsDelivered ==
    /\ AckedIsCovered
    /\ setup.part = "worker" => \A o \in 0 .. stored : Delivered(DeliveryId(o))

\* Every message of the stream ends up delivered; and where nothing fails, the
\* stored watermark of one process passes the last id.
AllDelivered ==
    /\ <>[](setup.part = "worker" => \A o \in Published : Delivered(DeliveryId(o)))
    /\ setup.part = "pacer" => WatermarkCatchesUp
=============================================================================
