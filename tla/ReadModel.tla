----------------------------- MODULE ReadModel -----------------------------
(***************************************************************************)
(* From the outbox worker to the receiver: the dead letter worker          *)
(* (worker/impl/dlq_worker.py), the downstream service                     *)
(* (microservices/downstream) that fills the inbox and pushes, called      *)
(* directly or through the read model queue, and the receiver, who         *)
(* connects, pulls the inbox and is pushed to.  A message has an id of its *)
(* own; a call that the client repeated makes two messages with one key    *)
(* (sender and delivery id).                                               *)
(***************************************************************************)
EXTENDS Upstream

CONSTANT
    Actions      \* of a dead letter: "inbox", "session", "all"

VARIABLES
    modelPlan,  \* [key: message -> key, letters: there at the start, faults, visits]
    letters,    \* <<message, action>> in the dead letter queue
    task,       \* the letters that are handled: letter -> "notify", "enqueue" or "await"
    writing,    \* letter -> write_to_session beside it: "none", "runs", "ok" or "failed"
    done,       \* letters that are acknowledged
    events,     \* messages in the read model queue
    serving,    \* the handlers of the downstream service: handler -> step
    late,       \* writes into the inbox whose caller has given up
    inbox, session,
    settled,    \* messages whose event was handled successfully
    pushQueue,  \* the queue of the push service
    online,     \* whether the receiver has a gateway
    pulled,     \* and has pulled the inbox since
    seen,       \* messages they have got since they logged in
    last,       \* last_max_msg_id: the id of the last of them
    full,       \* whether the last pull asked for the whole inbox
    visits,     \* how often they may still connect
    faults      \* how many steps may still fail

modelVars == <<letters, task, writing, done, events, serving, late, inbox, session, settled, pushQueue, online, pulled,
               seen, last, full, visits, faults>>
letterVars == <<letters, task, writing, done>>
receiver == <<online, pulled, seen, last, full, visits>>

Letters == Msgs \X Actions
Handlers == Msgs \X (Actions \cup {"queue"})    \* called for a letter, or by the queue
ByQueue(h) == h[2] = "queue"
NeedsInbox(x) == x[2] \in {"inbox", "all"}
NeedsSession(x) == x[2] \in {"session", "all"}

ModelInit ==
    /\ letters = modelPlan.letters /\ done = {}
    /\ task = [x \in Letters |-> "none"] /\ writing = [x \in Letters |-> "none"]
    /\ events = {} /\ serving = [h \in Handlers |-> "idle"] /\ late = {}
    /\ inbox = {} /\ session = {} /\ settled = {} /\ pushQueue = {}
    /\ online = FALSE /\ pulled = FALSE /\ seen = {} /\ last = 0 /\ full = FALSE /\ visits = modelPlan.visits
    /\ faults = modelPlan.faults

\* A step that fails, or, if ok, does not.
Outcome(ok) == IF ok THEN UNCHANGED faults ELSE faults > 0 /\ faults' = faults - 1

\* What a queue or table may hold after a publication (of three tries) or a write:
\* one that fails may have taken effect.
Sent(held, m, ok) == IF ok THEN {held \cup {m}} ELSE {held, held \cup {m}}
WriteToSession(x, ok) == IF ok THEN {session \cup {x[1]}} ELSE {session, session \cup {x[1]}}

\* One part of what on_message does for a message: the row of the session is written,
\* or the event is given to the downstream service, directly or through its queue.  A part
\* that failed is a dead letter, if push_to_dlq can store it.
Arrive(m, part, ok, stored) ==
    /\ session' \in IF part = "session" THEN WriteToSession(<<m, part>>, ok) ELSE {session}
    /\ events' \in IF part = "inbox" THEN Sent(events, m, ok) ELSE {events}
    /\ letters' = IF ok \/ ~stored THEN letters ELSE letters \cup {<<m, part>>}
    /\ UNCHANGED <<task, writing, done, serving, late, inbox, settled, pushQueue, receiver>>

-----------------------------------------------------------------------------
(* The dead letter worker *)

\* on_consume and the start of event_handler.
OnLetter(x) ==
    /\ x \in letters
    /\ letters' = letters \ {x}
    /\ task' = [task EXCEPT ![x] = IF NeedsInbox(x) THEN "notify" ELSE "await"]
    /\ writing' = [writing EXCEPT ![x] = IF NeedsSession(x) THEN "runs" ELSE "none"]
    /\ UNCHANGED <<done, events, serving, late, inbox, session, settled, pushQueue, receiver, faults>>

\* write_to_session has returned; without success the row may be there all the same.
SessionWritten(x, ok) ==
    /\ writing[x] = "runs" /\ Outcome(ok)
    /\ writing' = [writing EXCEPT ![x] = IF ok THEN "ok" ELSE "failed"]
    /\ session' \in WriteToSession(x, ok)
    /\ UNCHANGED <<letters, task, done, events, serving, late, inbox, settled, pushQueue, receiver>>

\* reject(requeue=True) after notify_read_model: nobody waits for the write any more.
Reject(x) ==
    /\ task' = [task EXCEPT ![x] = "none"]
    /\ letters' = letters \cup {x}
    /\ session' \in IF writing[x] = "runs" THEN WriteToSession(x, FALSE) ELSE {session}
    /\ writing' = [writing EXCEPT ![x] = "none"]

\* notify_read_model without a downstream service.
NoService(x) ==
    /\ task[x] = "notify" /\ serving[x] = "idle" /\ Outcome(FALSE)
    /\ Reject(x)
    /\ UNCHANGED <<done, events, serving, late, inbox, settled, pushQueue, receiver>>

\* deliver_read_event has failed or timed out: push_to_read_model.  A publication
\* that fails may have reached the queue.
Enqueue(x, ok) ==
    /\ task[x] = "enqueue" /\ Outcome(ok)
    /\ events' \in Sent(events, x[1], ok)
    /\ IF ok THEN task' = [task EXCEPT ![x] = "await"] /\ UNCHANGED <<letters, session, writing>>
             ELSE Reject(x)
    /\ UNCHANGED <<done, serving, late, inbox, settled, pushQueue, receiver>>

\* Mutant: the result of the read model is enough.
FinishEither(x) ==
    /\ task[x] = "await" /\ writing[x] # "runs"
    /\ task' = [task EXCEPT ![x] = "none"]
    /\ writing' = [writing EXCEPT ![x] = "none"]
    /\ IF NeedsInbox(x) \/ writing[x] = "ok"
       THEN done' = done \cup {x} /\ UNCHANGED letters
       ELSE letters' = letters \cup {x} /\ UNCHANGED done
    /\ UNCHANGED <<events, serving, late, inbox, session, settled, pushQueue, receiver, faults>>

\* Both results are there: ack, or reject(requeue=True).
Finish(x) ==
    /\ task[x] = "await" /\ writing[x] # "runs"
    /\ task' = [task EXCEPT ![x] = "none"]
    /\ writing' = [writing EXCEPT ![x] = "none"]
    /\ IF NeedsSession(x) => writing[x] = "ok"
       THEN done' = done \cup {x} /\ UNCHANGED letters
       ELSE letters' = letters \cup {x} /\ UNCHANGED done
    /\ UNCHANGED <<events, serving, late, inbox, session, settled, pushQueue, receiver, faults>>

\* The worker dies, and its calls are cancelled: the queue delivers again what
\* was not acknowledged.
WorkerCrashes ==
    /\ Outcome(FALSE)
    /\ LET held == {x \in Letters : task[x] # "none"}
       IN /\ held # {} /\ letters' = letters \cup held
          /\ late' \in {late, late \cup {x[1] : x \in {y \in held : serving[y] = "inbox"}}}
          /\ session' \in {session, session \cup {x[1] : x \in {y \in held : writing[y] = "runs"}}}
    /\ task' = [x \in Letters |-> "none"] /\ writing' = [x \in Letters |-> "none"]
    /\ serving' = [h \in Handlers |-> IF ByQueue(h) THEN serving[h] ELSE "idle"]
    /\ UNCHANGED <<done, events, inbox, settled, pushQueue, receiver>>

-----------------------------------------------------------------------------
(* The downstream service *)

Step(h, step) == serving' = [serving EXCEPT ![h] = step]

\* A handler starts: DeliverReadEvent for a letter, consume_event for the queue.
Serve(h) ==
    /\ serving[h] = "idle"
    /\ IF ByQueue(h) THEN h[1] \in events /\ events' = events \ {h[1]}
                     ELSE task[h] = "notify" /\ UNCHANGED events
    /\ Step(h, "inbox")
    /\ UNCHANGED <<letterVars, late, inbox, session, settled, pushQueue, receiver, faults>>

\* The handler returns: the event is acknowledged, or the caller goes on.
Succeeds(h) ==
    /\ Step(h, "idle")
    /\ settled' = settled \cup {h[1]}
    /\ task' = IF ByQueue(h) THEN task ELSE [task EXCEPT ![h] = "await"]
    /\ UNCHANGED events

\* It fails: back into the queue, or READ_MODEL_FAILED to the caller.
Fails(h) ==
    /\ Step(h, "idle")
    /\ events' = IF ByQueue(h) THEN events \cup {h[1]} ELSE events
    /\ task' = IF ByQueue(h) THEN task ELSE [task EXCEPT ![h] = "enqueue"]
    /\ UNCHANGED settled

\* It goes on with another step.
GoesOn(h, step) == Step(h, step) /\ UNCHANGED <<task, events, settled>>

\* write_to_inbox; a write that failed for the caller may still be executed.
WriteToInbox(m, ok) ==
    /\ inbox' = IF ok THEN inbox \cup {m} ELSE inbox
    /\ late' \in IF ok THEN {late} ELSE {late, late \cup {m}}

\* handle_inbox
HandleInbox(h, ok) ==
    /\ serving[h] = "inbox" /\ Outcome(ok)
    /\ WriteToInbox(h[1], ok)
    /\ IF ok THEN GoesOn(h, "check") ELSE Fails(h)
    /\ UNCHANGED <<letters, writing, done, session, pushQueue, receiver>>

\* WriteToInbox finishes behind its shield.
LateWrite(m) ==
    /\ m \in late
    /\ late' = late \ {m} /\ inbox' = inbox \cup {m}
    /\ UNCHANGED <<letterVars, events, serving, session, settled, pushQueue, receiver, faults>>

\* user_online_check: nothing is pushed to one who is offline; Redis may not answer.
OnlineCheck(h, ok) ==
    /\ serving[h] = "check" /\ Outcome(ok)
    /\ IF ~ok THEN GoesOn(h, "publish") ELSE IF online THEN GoesOn(h, "push") ELSE Succeeds(h)
    /\ UNCHANGED <<letters, writing, done, late, inbox, session, pushQueue, receiver>>

\* A push arrives, if there is a connection.
Pushed(m) ==
    /\ seen' = IF online THEN seen \cup {m} ELSE seen
    /\ last' = IF online THEN m ELSE last

\* push_to_gateway: pushed or PUSH_OFFLINE; or it fails, whether it was pushed or not.
PushToGateway(h, ok) ==
    /\ serving[h] = "push" /\ Outcome(ok)
    /\ Pushed(h[1]) \/ (~ok /\ UNCHANGED <<seen, last>>)
    /\ IF ok THEN Succeeds(h) ELSE GoesOn(h, "publish")
    /\ UNCHANGED <<letters, writing, done, late, inbox, session, pushQueue, online, pulled, full, visits>>

\* push_message: the queue of the push service, up to three tries.
PushMessage(h, ok) ==
    /\ serving[h] = "publish" /\ Outcome(ok)
    /\ pushQueue' \in Sent(pushQueue, h[1], ok)
    /\ IF ok THEN Succeeds(h) ELSE Fails(h)
    /\ UNCHANGED <<letters, writing, done, late, inbox, session, receiver>>

\* The deadline of the caller cancels the handler (notify_read_model goes on), or
\* the service dies and the queue delivers the event again.
HandlerEnds(h) ==
    /\ serving[h] # "idle" /\ Outcome(FALSE)
    /\ late' \in {late} \cup IF serving[h] = "inbox" THEN {late \cup {h[1]}} ELSE {}
    /\ Fails(h)
    /\ UNCHANGED <<letters, writing, done, inbox, session, pushQueue, receiver>>

-----------------------------------------------------------------------------
(* The receiver, and the push service as far as it is seen here *)

PushConsumes(m) ==
    /\ m \in pushQueue
    /\ pushQueue' = pushQueue \ {m}
    /\ Pushed(m)
    /\ UNCHANGED <<letterVars, events, serving, late, inbox, session, settled, online, pulled, full, visits, faults>>

\* They log in, or a client that lost its connection comes back.
Connect(anew) ==
    /\ ~online /\ visits > 0
    /\ online' = TRUE /\ visits' = visits - 1 /\ pulled' = FALSE
    /\ seen' = IF anew THEN {} ELSE seen
    /\ last' = IF anew THEN 0 ELSE last
    /\ UNCHANGED <<letterVars, events, serving, late, inbox, session, settled, pushQueue, full, faults>>

\* read_inbox.cql
Rows(after) == {m \in inbox : m > after}

\* ReadInbox: the newest of the messages with one key.
ReadInbox(after) == {m \in Rows(after) : \A n \in Rows(after) : modelPlan.key[n] = modelPlan.key[m] => n <= m}

\* PullInboxMsg; one that fails is tried again.
Pull ==
    /\ online /\ ~pulled
    /\ pulled' = TRUE /\ full' = (last = 0)
    /\ seen' = seen \cup ReadInbox(last)
    /\ last' = IF ReadInbox(last) = {} THEN last ELSE CHOOSE m \in ReadInbox(last) : \A n \in ReadInbox(last) : n <= m
    /\ UNCHANGED <<letterVars, events, serving, late, inbox, session, settled, pushQueue, online, visits, faults>>

Disconnect ==
    /\ online
    /\ online' = FALSE /\ pulled' = FALSE
    /\ UNCHANGED <<letterVars, events, serving, late, inbox, session, settled, pushQueue, seen, last, full, visits, faults>>

LetterStep(x) ==
    \/ OnLetter(x) \/ NoService(x) \/ Finish(x)
    \/ \E ok \in BOOLEAN : SessionWritten(x, ok) \/ Enqueue(x, ok)

HandlerStep(h) ==
    \/ Serve(h) \/ HandlerEnds(h)
    \/ \E ok \in BOOLEAN :
           HandleInbox(h, ok) \/ OnlineCheck(h, ok) \/ PushToGateway(h, ok) \/ PushMessage(h, ok)

ModelNext ==
    \/ \E x \in Letters : LetterStep(x)
    \/ \E h \in Handlers : HandlerStep(h)
    \/ \E m \in Msgs : LateWrite(m) \/ PushConsumes(m)
    \/ WorkerCrashes \/ (\E anew \in BOOLEAN : Connect(anew)) \/ Pull \/ Disconnect

ModelTypeOK ==
    /\ letters \subseteq Letters /\ done \subseteq Letters
    /\ task \in [Letters -> {"none", "notify", "enqueue", "await"}]
    /\ writing \in [Letters -> {"none", "runs", "ok", "failed"}]
    /\ serving \in [Handlers -> {"idle", "inbox", "check", "push", "publish"}]
    /\ online \in BOOLEAN /\ pulled \in BOOLEAN /\ full \in BOOLEAN /\ last \in Nat /\ visits \in Nat /\ faults \in Nat
    /\ UNION {events, late, inbox, session, settled, pushQueue, seen} \subseteq Msgs

\* A dead letter that was acknowledged has been put right: its message is in the
\* session table, and in the inbox or on its way there.
LetterIsSettled ==
    \A x \in done :
        /\ NeedsSession(x) => x[1] \in session
        /\ NeedsInbox(x) => x[1] \in inbox \cup events \/ serving[<<x[1], "queue">>] # "idle"

\* The inbox is written before the receiver is looked for: one who is online and
\* has pulled has every message whose event was handled, or the push service has
\* it.  A pull asks only for ids beyond the last one they got: after a push, or on
\* reconnecting, they may miss a message with a smaller id.
NothingMissed ==
    online /\ pulled =>
        \A m \in settled :
            \/ m \in pushQueue
            \/ \E n \in seen : modelPlan.key[n] = modelPlan.key[m]
            \/ ~full /\ \E n \in seen : n > m

\* A dead letter is put right in the end: once nothing fails any more, no round of
\* rejecting and redelivering goes on for ever.
LetterEnds == <>[](modelPlan.letters \subseteq done)
=============================================================================
