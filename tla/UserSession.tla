---------------------------- MODULE UserSession ----------------------------
(***************************************************************************)
(* A chat with one friend over the websocket, from the terminal client     *)
(* (front/sessions/user.py and chat.py, chatp/message/sender.py,           *)
(* receiver.py and stream.py, front/app.py) to the task of the gateway     *)
(* that passes messages on (ws_gateway/manager/session.py, read_messages). *)
(* Local ids number the messages of the chat in both directions.  The      *)
(* texts, the screen and last_max_msg_id, which only pull_inbox would use, *)
(* are left out.  A session reads one connection in its life: a lost one   *)
(* is never taken over again (ClientLogin).                                *)
(***************************************************************************)
EXTENDS Integers, Sequences, FiniteSets

CONSTANTS
    Texts,     \* messages of the friend
    MaxId      \* bound on local ids

VARIABLES
    plan,         \* [sends, resends, pushes, channel, mayFail, pages]
    app,          \* "running", or "exited": the pages of the session are left
    page,         \* "chat": the page of this friend; "main"; "other": the page of another friend
    up,           \* whether reader and writer run
    nextId,       \* sender.delivery_id
    waiters,      \* sender.waiters
    timers,       \* ids whose expire timer runs
    timeoutLogs,  \* UserSession.timeout_logs
    timeoutIds,   \* ChatSession.timeout_ids
    sessionOf,    \* keys of local_id_to_session
    minId, maxId, \* min_local_id, max_local_id
    mine,         \* outbound ids in the timeline
    acked,        \* those with a message id
    shown,        \* texts of the friend in the timeline
    outgoing,     \* _writer_channel
    logs,         \* operation_log: [channel number -> delivery ids handled]
    unconfirmed,  \* receiver.pending_queue
    ackTimer,     \* whether ack_timer is set
    resent,       \* how often a message was sent again
    (* the gateway *)
    toDeliver,    \* pending_deliver
    inflight,     \* the id the deliver task works on, 0: none, -1: the task is dead
    incoming,     \* frames on their way to the client
    pushed,       \* delivery id -> text
    confirmed     \* delivery ids the client has confirmed

sendVars == <<nextId, waiters, timers, timeoutLogs, timeoutIds, sessionOf, minId, maxId, mine, acked, resent>>
readVars == <<shown, logs, unconfirmed, ackTimer>>
gatewayVars == <<toDeliver, inflight, incoming, pushed, confirmed>>
chatVars == <<app, page, up, outgoing, sendVars, readVars, gatewayVars>>

Ids == 1 .. MaxId
Channels == {0, 1}

ChatInit ==
    /\ app = "running" /\ page \in plan.pages /\ up = TRUE
    /\ nextId = 0 /\ minId = 1 /\ maxId = 1 /\ resent = 0
    /\ waiters = {} /\ timers = {} /\ timeoutLogs = {} /\ timeoutIds = {} /\ sessionOf = {}
    /\ mine = {} /\ acked = {} /\ shown = {}
    /\ logs = [c \in Channels |-> {}] /\ unconfirmed = {} /\ ackTimer = FALSE
    /\ outgoing = <<>> /\ toDeliver = <<>> /\ incoming = <<>> /\ pushed = <<>>
    /\ inflight = 0 /\ confirmed = {}

-----------------------------------------------------------------------------
(* The pages *)

SwitchPage(p) ==
    /\ app = "running" /\ page # p
    /\ page' = p
    /\ UNCHANGED <<app, up, outgoing, sendVars, readVars, gatewayVars>>

\* MessageStream.write: the message waits for its acknowledgement.
Write(id) ==
    /\ waiters' = waiters \cup {id}
    /\ timers' = timers \cup {id}
    /\ sessionOf' = sessionOf \cup {id}
    /\ outgoing' = Append(outgoing, [tp |-> "message", ids |-> {id}])

\* max_local_id is the largest local id so far.
Larger(a, b) == IF a < b THEN b ELSE a

SendMessage ==
    /\ app = "running" /\ page = "chat"
    /\ Cardinality(mine) < plan.sends /\ nextId < MaxId
    /\ LET id == nextId + 1
       IN  /\ nextId' = id
           /\ maxId' = Larger(maxId, id)
           /\ mine' = mine \cup {id}
           /\ Write(id)
    /\ UNCHANGED <<app, page, up, timeoutLogs, timeoutIds, minId, acked, resent, readVars, gatewayVars>>

ResendMessage(id) ==
    /\ app = "running" /\ page = "chat"
    /\ id \in timeoutIds /\ id \in timeoutLogs /\ id \notin waiters
    /\ resent < plan.resends
    /\ resent' = resent + 1
    /\ Write(id)
    /\ UNCHANGED <<app, page, up, nextId, timeoutLogs, timeoutIds, minId, maxId, mine, acked, readVars, gatewayVars>>

\* A message without a log, or one that is still on its way: the exception
\* ends the page, ui_loop and the program.
ResendRaises(id) ==
    /\ app = "running" /\ page = "chat"
    /\ id \in timeoutIds /\ (id \notin timeoutLogs \/ id \in waiters)
    /\ resent < plan.resends
    /\ app' = "exited" /\ up' = FALSE /\ timers' = {}
    /\ UNCHANGED <<page, outgoing, nextId, waiters, timeoutLogs, timeoutIds, sessionOf, minId, maxId, mine, acked, resent,
                   readVars, gatewayVars>>

\* Mutant: a timeout is shown, but the message cannot be sent again.
OnTimeoutForgets(id) ==
    /\ app = "running" /\ id \in timers
    /\ timers' = timers \ {id}
    /\ waiters' = waiters \ {id}
    /\ timeoutLogs' = timeoutLogs \cup {id}
    /\ UNCHANGED <<app, page, up, outgoing, nextId, timeoutIds, sessionOf, minId, maxId, mine, acked, resent, readVars, gatewayVars>>

\* on_timeout and ack_timeout.
OnTimeout(id) ==
    /\ app = "running" /\ id \in timers
    /\ timers' = timers \ {id}
    /\ waiters' = waiters \ {id}
    /\ timeoutLogs' = timeoutLogs \cup {id}
    /\ timeoutIds' = IF id \in timeoutLogs THEN timeoutIds ELSE timeoutIds \cup {id}
    /\ UNCHANGED <<app, page, up, outgoing, nextId, sessionOf, minId, maxId, mine, acked, resent, readVars, gatewayVars>>

-----------------------------------------------------------------------------
(* The writer and the acknowledgements of pushed events *)

Frame == Head(outgoing)

\* The writer sends a frame; read_messages queues a message, or passes an
\* acknowledgement on to the channel of the push service.
WriterSend ==
    /\ up /\ outgoing # <<>>
    /\ outgoing' = Tail(outgoing)
    /\ IF Frame.tp = "message"
       THEN toDeliver' = toDeliver \o <<CHOOSE id \in Frame.ids : TRUE>> /\ UNCHANGED confirmed
       ELSE confirmed' = confirmed \cup Frame.ids /\ UNCHANGED toDeliver
    /\ UNCHANGED <<app, page, up, sendVars, readVars, inflight, incoming, pushed>>

\* ack_timer fires, schedule_ack and collect_to_ack.
ScheduleAck ==
    /\ app = "running" /\ ackTimer
    /\ outgoing' = Append(outgoing, [tp |-> "acks", ids |-> unconfirmed])
    /\ unconfirmed' = {}
    /\ ackTimer' = FALSE
    /\ UNCHANGED <<app, page, up, sendVars, shown, logs, gatewayVars>>

-----------------------------------------------------------------------------
(* The reader *)

Received == Head(incoming)
Fresh == Received.id \notin logs[Received.channel]

Handled == logs' = [logs EXCEPT ![Received.channel] = @ \cup {Received.id}]

\* The reader ends with the exception of a handler, and the connection with it.
ReaderDies ==
    /\ up' = FALSE
    /\ toDeliver' = <<>> /\ inflight' = 0 /\ incoming' = <<>>
    /\ UNCHANGED <<logs, unconfirmed, ackTimer>>

ReaderGoesOn ==
    /\ UNCHANGED <<up, toDeliver, inflight>>
    /\ incoming' = Tail(incoming)

\* maybe_decay_local_ids: the ids below are forgotten, acknowledged or not.
Decays(id) == (id - minId) * 100 > 65 * maxId
Decay(id) ==
    IF Decays(id) THEN sessionOf' = sessionOf \ (minId .. id - 1) /\ minId' = id
                  ELSE UNCHANGED <<sessionOf, minId>>

AckedSuccess(id) ==
    /\ timeoutLogs' = timeoutLogs \ {id}
    /\ timeoutIds' = timeoutIds \ {id}
    /\ acked' = acked \cup {id}

\* _on_ack_user_message: the timer is cancelled before the session is looked up.
\* On any other page append_log is called with a wrong keyword.
OnAckUserMessage ==
    LET id == Received.id
    IN  /\ Received.tp = "ack" /\ Fresh
        /\ waiters' = waiters \ {id} /\ timers' = timers \ {id}
        /\ IF id \notin sessionOf
           THEN ReaderDies /\ UNCHANGED <<timeoutLogs, timeoutIds, sessionOf, minId, acked>>
           ELSE /\ Decay(id)
                /\ AckedSuccess(id)
                /\ IF page = "chat" THEN Handled /\ ReaderGoesOn /\ UNCHANGED <<unconfirmed, ackTimer>>
                                    ELSE ReaderDies
        /\ UNCHANGED <<nextId, maxId, mine, resent, shown>>

\* MessageStream.read: collected until the timer fires.
ReadyToAck ==
    /\ unconfirmed' = unconfirmed \cup {Received.id}
    /\ ackTimer' = TRUE

\* Mutant: an event is acknowledged although its handler failed.
PushAckedFirst ==
    /\ Received.tp = "push" /\ Fresh /\ nextId < MaxId
    /\ nextId' = nextId + 1
    /\ maxId' = Larger(maxId, nextId + 1)
    /\ shown' = IF page = "other" THEN shown ELSE shown \cup {pushed[Received.id]}
    /\ Handled /\ ReadyToAck /\ ReaderGoesOn
    /\ UNCHANGED <<waiters, timers, timeoutLogs, timeoutIds, sessionOf, minId, mine, acked, resent>>

\* on_push_user_message; on the page of another friend its session is asked for the text.
OnPushUserMessage ==
    /\ Received.tp = "push" /\ Fresh /\ nextId < MaxId
    /\ nextId' = nextId + 1
    /\ maxId' = Larger(maxId, nextId + 1)
    /\ shown' = shown \cup {pushed[Received.id]}
    /\ IF page = "other" THEN ReaderDies ELSE Handled /\ ReadyToAck /\ ReaderGoesOn
    /\ UNCHANGED <<waiters, timers, timeoutLogs, timeoutIds, sessionOf, minId, mine, acked, resent>>

\* An event handled before; only pushed ones are acknowledged again.
Repeated ==
    /\ ~Fresh
    /\ IF Received.tp = "push" THEN ReadyToAck ELSE UNCHANGED <<unconfirmed, ackTimer>>
    /\ ReaderGoesOn
    /\ UNCHANGED <<logs, shown, sendVars>>

Read ==
    /\ up /\ incoming # <<>>
    /\ OnAckUserMessage \/ OnPushUserMessage \/ Repeated
    /\ UNCHANGED <<app, page, outgoing, pushed, confirmed>>

-----------------------------------------------------------------------------
(* The gateway *)

Deliver ==
    /\ up /\ inflight = 0 /\ toDeliver # <<>>
    /\ inflight' = Head(toDeliver)
    /\ toDeliver' = Tail(toDeliver)
    /\ UNCHANGED <<app, page, up, outgoing, sendVars, readVars, incoming, pushed, confirmed>>

\* deliver_message returns a message id.
Delivered ==
    /\ up /\ inflight > 0
    /\ inflight' = 0
    /\ incoming' = Append(incoming, [tp |-> "ack", channel |-> 0, id |-> inflight])
    /\ UNCHANGED <<app, page, up, outgoing, sendVars, readVars, toDeliver, pushed, confirmed>>

\* It returns 0; or there is no service, and the exception ends the task.
NotDelivered ==
    /\ up /\ inflight > 0 /\ plan.mayFail
    /\ inflight' \in {0, -1}
    /\ UNCHANGED <<app, page, up, outgoing, sendVars, readVars, toDeliver, incoming, pushed, confirmed>>

\* The push service pushes a text, again under a new id if it was not confirmed.
Push(t) ==
    /\ up /\ Len(pushed) < plan.pushes
    /\ \A d \in 1 .. Len(pushed) : pushed[d] = t => d \notin confirmed
    /\ pushed' = Append(pushed, t)
    /\ incoming' = Append(incoming, [tp |-> "push", channel |-> plan.channel, id |-> Len(pushed) + 1])
    /\ UNCHANGED <<app, page, up, outgoing, sendVars, readVars, toDeliver, inflight, confirmed>>

\* The pages end and the connection with them: a kick, an exception in a page.
SessionEnds ==
    /\ app = "running"
    /\ up' = FALSE /\ app' = "exited"
    /\ toDeliver' = <<>> /\ inflight' = 0 /\ incoming' = <<>>
    /\ UNCHANGED <<page, outgoing, sendVars, readVars, pushed, confirmed>>

\* The connection ends; the writer may have taken a frame it cannot send any more.
Disconnect ==
    /\ up
    /\ up' = FALSE
    /\ outgoing' \in {outgoing} \cup {Tail(s) : s \in {outgoing} \ {<<>>}}
    /\ toDeliver' = <<>> /\ inflight' = 0 /\ incoming' = <<>>
    /\ UNCHANGED <<app, page, sendVars, readVars, pushed, confirmed>>

\* Steps that leave the connection alone.
ChatNext ==
    \/ \E p \in plan.pages : SwitchPage(p)
    \/ SendMessage
    \/ \E id \in Ids : ResendMessage(id) \/ OnTimeout(id)
    \/ WriterSend
    \/ ScheduleAck
    \/ Deliver
    \/ Delivered
    \/ NotDelivered
    \/ \E t \in Texts : Push(t)

ChatTypeOK ==
    /\ app \in {"running", "exited"} /\ page \in {"chat", "main", "other"} /\ up \in BOOLEAN
    /\ nextId \in 0 .. MaxId /\ minId \in Ids /\ maxId \in Ids /\ resent \in Nat
    /\ waiters \cup timers \cup timeoutLogs \cup timeoutIds \cup sessionOf \cup mine \cup acked \subseteq Ids
    /\ shown \subseteq Texts
    /\ logs \in [Channels -> SUBSET (Ids \cup DOMAIN pushed)]
    /\ unconfirmed \subseteq DOMAIN pushed /\ confirmed \subseteq DOMAIN pushed
    /\ ackTimer \in BOOLEAN
    /\ inflight \in Ids \cup {0, -1}

\* A message without an acknowledgement is waiting for one, or the user can send
\* it again: an acknowledgement that meets a forgotten id stops the timer, and
\* only the order in which the gateway delivers keeps the message from being
\* stranded.
UnackedIsOffered == app = "running" => mine \ acked \subseteq timers \cup timeoutIds

\* What the chat offers to send again can be sent again: resend_message finds its log.
OfferedHasLog == timeoutIds \subseteq timeoutLogs

\* A pushed message that was confirmed to the push service is in the timeline,
\* unless the push channel has the number the acknowledgements use (0).
ConfirmedIsShown == plan.channel # 0 => \A d \in confirmed : pushed[d] \in shown

\* A message that was sent ends up acknowledged or offered again.
SentIsSettled == \A id \in Ids : (id \in mine) ~> (id \in acked \cup timeoutIds \/ app = "exited")

\* While the connection lasts, every pushed message is confirmed.
PushIsConfirmed == \A d \in Ids : (d \in DOMAIN pushed) ~> (d \in confirmed \/ ~up)
=============================================================================
