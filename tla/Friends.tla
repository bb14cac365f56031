------------------------------- MODULE Friends -------------------------------
(***************************************************************************)
(* Friend requests and their answers: the HTTP gateway publishes an event  *)
(* in a background task, a fanout exchange of RabbitMQ copies it into two  *)
(* queues, the worker of the one calls the user service, which writes      *)
(* Postgres, and the worker of the other pushes the event to its addressee.*)
(***************************************************************************)
EXTENDS Naturals, FiniteSets

CONSTANTS
    Users,
    Events,       \* what clients submit; an accepting answer is also its session id
    NoEvent,
    Tries,        \* max_tries of the publishing tasks
    Prefetch,     \* initial_qos of the consumer
    QueueSize     \* maxsize of the worker's request and confirm queues

VARIABLES
    plan,         \* [kind, from, to : per event], which queues are looked at, who may stop
    failures,     \* how many steps may still fail
    gateway,      \* "up" or "stopped"
    posted,       \* per event, [pc, try]: the request and its publishing task
    ready,        \* per queue, the copies <<event, try>> that wait in RabbitMQ
    task,         \* the deliveries at the workers, [queue, copy, era, pc, status]
    era,          \* per queue, how often its channel was opened
    worker,       \* per queue, "up", "closing" or "down"
    settled,      \* per queue, the copies that were acknowledged
    discarded,    \* per queue, the copies that were rejected for good
    orphans,      \* events that the user service still handles for a worker that gave up
    session,      \* the friends and sessions tables: per pair, its session id
    status,       \* the friend_requests table: per ordered pair, the status of its row
    written,      \* history: events that were written
    unwritten,    \* history: answers that were reported as written without a connection
    pushed,       \* history: events that were pushed
    offline       \* history: events whose addressee was found offline

friendVars == <<plan, failures, gateway, posted, ready, task, era, worker, settled, discarded,
                orphans, session, status, written, unwritten, pushed, offline>>

Queues == {"psql", "push"}
Copies == Events \X (1..Tries)
Pairs == {p \in SUBSET Users : \E u, v \in p : u # v /\ p = {u, v}}
PairOf(e) == {plan.from[e], plan.to[e]}
LinkOf(e) == <<plan.from[e], plan.to[e]>>

FriendsInit ==
    /\ gateway = "up"
    /\ posted = [e \in Events |-> [pc |-> IF e \in plan.events THEN "idle" ELSE "unsent", try |-> 1]]
    /\ ready = [q \in Queues |-> {}]
    /\ task = {}
    /\ era = [q \in Queues |-> 0]
    /\ worker = [q \in Queues |-> "up"]
    /\ settled = [q \in Queues |-> {}]
    /\ discarded = [q \in Queues |-> {}]
    /\ orphans = {}
    /\ session = [p \in Pairs |-> NoEvent]
    /\ status = [l \in Users \X Users |-> "none"]
    /\ written = {} /\ unwritten = {} /\ pushed = {} /\ offline = {}

Fails == failures > 0 /\ failures' = failures - 1

gatewayVars == <<gateway, posted, ready>>
brokerVars == <<settled, discarded>>
userVars == <<orphans, session, status, written, unwritten>>
pushVars == <<pushed, offline>>

-----------------------------------------------------------------------------
(* The HTTP gateway *)

Posted(e, pc) == posted' = [posted EXCEPT ![e].pc = pc]

\* friend_request: 200 at once, and a task that publishes.
FriendRequest(e) ==
    /\ gateway = "up" /\ posted[e].pc = "idle" /\ plan.kind[e] = "request"
    /\ Posted(e, "publishing")
    /\ UNCHANGED <<plan, failures, gateway, ready, task, era, worker, brokerVars, userVars, pushVars>>

\* friend_confirm: an accepting answer needs a session id from the snowflake service first.
FriendConfirm(e) ==
    /\ gateway = "up" /\ posted[e].pc = "idle" /\ plan.kind[e] # "request"
    /\ Posted(e, IF plan.kind[e] = "accept" THEN "flick" ELSE "publishing")
    /\ UNCHANGED <<plan, failures, gateway, ready, task, era, worker, brokerVars, userVars, pushVars>>

\* flickClock answers, and the client is told the id; or the answer is 500, 504 or 400.
FlickClock(e) ==
    /\ gateway = "up" /\ posted[e].pc = "flick"
    /\ \/ Posted(e, "publishing") /\ UNCHANGED failures
       \/ Posted(e, "refused") /\ Fails
    /\ UNCHANGED <<plan, gateway, ready, task, era, worker, brokerVars, userVars, pushVars>>

\* The exchange copies what it gets into the queues bound to it.
Fanout(c) == ready' = [q \in Queues |-> IF q \in plan.queues THEN ready[q] \cup {c} ELSE ready[q]]

\* After a failed try another, with a pause, or the exception that nobody looks at.
NextTry(e) ==
    posted' = [posted EXCEPT ![e] = IF @.try < Tries THEN [pc |-> "publishing", try |-> @.try + 1]
                                                     ELSE [@ EXCEPT !.pc = "lost"]]

\* publish_friend_request, publish_friend_confirm: kick() under asyncretry.  The broker may
\* have the message although the try failed.
Publish(e) ==
    /\ gateway = "up" /\ posted[e].pc = "publishing"
    /\ \/ Posted(e, "published") /\ Fanout(<<e, posted[e].try>>) /\ UNCHANGED failures
       \/ Fails /\ NextTry(e) /\ Fanout(<<e, posted[e].try>>)
       \/ Fails /\ NextTry(e) /\ UNCHANGED ready
    /\ UNCHANGED <<plan, gateway, task, era, worker, brokerVars, userVars, pushVars>>

\* BackgroundTaskManager.close: the tasks that still publish are cancelled.
StopGateway ==
    /\ plan.gatewayStops /\ gateway = "up"
    /\ gateway' = "stopped"
    /\ posted' = [e \in Events |-> IF posted[e].pc = "publishing" THEN [posted[e] EXCEPT !.pc = "lost"] ELSE posted[e]]
    /\ UNCHANGED <<plan, failures, ready, task, era, worker, brokerVars, userVars, pushVars>>

-----------------------------------------------------------------------------
(* The consumers of the workers *)

\* The deliveries of the present channel of q, which RabbitMQ counts as not acknowledged.
Live(q) == {t \in task : t.queue = q /\ t.era = era[q]}

KindQueue(e) == IF plan.kind[e] = "request" THEN "request" ELSE "confirm"

QueuedAt(q, k) == {t \in task : t.queue = q /\ t.pc = "queued" /\ KindQueue(t.copy[1]) = k}

Delivery(q, c, pc) == [queue |-> q, copy |-> c, era |-> era[q], pc |-> pc, status |-> "none"]

\* on_consume: a message of an unknown source is rejected for good; the others are put into
\* the queue of their kind.  QueueFull leaves the delivery where nobody sees it.
OnConsume(q, c) ==
    /\ worker[q] # "down" /\ c \in ready[q] /\ Cardinality(Live(q)) < Prefetch
    /\ ready' = [ready EXCEPT ![q] = @ \ {c}]
    /\ \/ /\ c[1] \in plan.foreign
          /\ discarded' = [discarded EXCEPT ![q] = @ \cup {c}]
          /\ UNCHANGED task
       \/ /\ c[1] \notin plan.foreign
          /\ task' = task \cup {Delivery(q, c, IF Cardinality(QueuedAt(q, KindQueue(c[1]))) < QueueSize
                                               THEN "queued" ELSE "stuck")}
          /\ UNCHANGED discarded
    /\ UNCHANGED <<plan, failures, gateway, posted, era, worker, settled, userVars, pushVars>>

Moves(t, pc, s) == task' = (task \ {t}) \cup {[t EXCEPT !.pc = pc, !.status = s]}

\* friend_handler takes from its queue, and runs _handler in a task of its own.
Take(t) ==
    /\ t.pc = "queued" /\ worker[t.queue] = "up"
    /\ Moves(t, "handling", "none")
    /\ UNCHANGED <<plan, failures, gatewayVars, era, worker, brokerVars, userVars, pushVars>>

\* Mutant: a message that was not handled is neither acknowledged nor put back.
SettleForgets(t) ==
    /\ t.pc = "answered" /\ (t.era # era[t.queue] \/ t.status = "SUCCESS")
    /\ task' = task \ {t}
    /\ IF t.era # era[t.queue] THEN UNCHANGED <<ready, settled>>
       ELSE settled' = [settled EXCEPT ![t.queue] = @ \cup {t.copy}] /\ UNCHANGED ready
    /\ UNCHANGED <<plan, failures, gateway, posted, era, worker, discarded, userVars, pushVars>>

\* message.ack, message.reject(requeue=True).  On a channel that is gone neither has an
\* effect, and the broker delivers the message again.
Ack(t) ==
    /\ settled' = IF t.era = era[t.queue] THEN [settled EXCEPT ![t.queue] = @ \cup {t.copy}] ELSE settled
    /\ UNCHANGED ready

Reject(t) ==
    /\ ready' = IF t.era = era[t.queue] THEN [ready EXCEPT ![t.queue] = @ \cup {t.copy}] ELSE ready
    /\ UNCHANGED settled

\* The end of _handler.
Settle(t) ==
    /\ t.pc = "answered"
    /\ task' = task \ {t}
    /\ IF t.status = "SUCCESS" THEN Ack(t) ELSE Reject(t)
    /\ UNCHANGED <<plan, failures, gateway, posted, era, worker, discarded, userVars, pushVars>>

Requeued(q) == ready' = [ready EXCEPT ![q] = @ \cup {t.copy : t \in Live(q)}]

\* The channel is lost and opened again: every delivery is back in the queue of RabbitMQ,
\* while the worker goes on with those it has taken.
LoseChannel(q) ==
    /\ Fails /\ worker[q] = "up"
    /\ Requeued(q)
    /\ era' = [era EXCEPT ![q] = @ + 1]
    /\ task' = task \ {t \in Live(q) : t.pc = "stuck"}
    /\ UNCHANGED <<plan, gateway, posted, worker, brokerVars, userVars, pushVars>>

\* The run task is cancelled: friend_handler takes nothing more and waits for its tasks.
StopWorker(q) ==
    /\ plan.workersStop /\ worker[q] = "up" /\ q \in plan.queues /\ Fails
    /\ worker' = [worker EXCEPT ![q] = "closing"]
    /\ UNCHANGED <<plan, gatewayVars, task, era, brokerVars, userVars, pushVars>>

\* Mutant: what was not handled yet is not put back.
CloseDropping(q) ==
    /\ worker[q] = "closing"
    /\ \A t \in task : t.queue = q => t.pc \in {"queued", "stuck"}
    /\ task' = {t \in task : t.queue # q}
    /\ era' = [era EXCEPT ![q] = @ + 1]
    /\ worker' = [worker EXCEPT ![q] = "down"]
    /\ UNCHANGED <<plan, failures, gatewayVars, brokerVars, userVars, pushVars>>

\* The end of start_listen: the consumer is cancelled and on_completed names the last
\* delivery of the queues for a nack of all up to it (or fails, when one queue is empty);
\* then the backend closes the channel, which puts back whatever was not acknowledged.
CloseConsumer(q) ==
    /\ worker[q] = "closing"
    /\ \A t \in task : t.queue = q => t.pc \in {"queued", "stuck"}
    /\ Requeued(q)
    /\ task' = {t \in task : t.queue # q}
    /\ era' = [era EXCEPT ![q] = @ + 1]
    /\ worker' = [worker EXCEPT ![q] = "down"]
    /\ UNCHANGED <<plan, failures, gateway, posted, brokerVars, userVars, pushVars>>

\* The worker is started again; startup declares the queue, which is still there.
StartWorker(q) ==
    /\ worker[q] = "down"
    /\ worker' = [worker EXCEPT ![q] = "up"]
    /\ UNCHANGED <<plan, failures, gatewayVars, task, era, brokerVars, userVars, pushVars>>

-----------------------------------------------------------------------------
(* The worker to Postgres, and the user service *)

\* Mutant: the conflict clause takes the new session id.
CreateFriendAnew(p, e) == [session EXCEPT ![p] = e]
\* create_friend.sql: both rows and their session, or nothing new when the pair has one.
CreateFriend(p, e) == [session EXCEPT ![p] = IF @ = NoEvent THEN e ELSE @]

\* create_friend_request.sql: a new row is Pending, and so is one that was turned down.
CreateFriendRequest(l) ==
    [status EXCEPT ![l] = IF @ \in {"none", "Rejected", "Ignored"} THEN "Pending" ELSE @]

\* respond_friend_request.sql: only a row that exists.
RespondFriendRequest(l, answer) == [status EXCEPT ![l] = IF @ = "none" THEN @ ELSE answer]

\* executor.create_friend_request
WriteRequest(e) == status' = CreateFriendRequest(LinkOf(e)) /\ UNCHANGED session

\* executor.reject_friend_request, ignore_friend_request: the link of an answer is from the
\* one who answers.
WriteRefusal(e) ==
    /\ status' = RespondFriendRequest(LinkOf(e), IF plan.kind[e] = "reject" THEN "Rejected" ELSE "Ignored")
    /\ UNCHANGED session

\* executor.create_friend: the friends and the status in one transaction.
WriteFriend(e) ==
    /\ session' = CreateFriend(PairOf(e), e)
    /\ status' = RespondFriendRequest(LinkOf(e), "Accepted")

\* What the statement or the transaction for event e leaves in the tables.
Write(e) ==
    /\ \/ plan.kind[e] = "request" /\ WriteRequest(e)
       \/ plan.kind[e] = "accept" /\ WriteFriend(e)
       \/ plan.kind[e] \in {"reject", "ignore"} /\ WriteRefusal(e)
    /\ written' = written \cup {e}

\* add_friend, confirm_friend: without a stub the message waits two seconds and goes back.
CallUserService(t) ==
    /\ t.pc = "handling" /\ t.queue = "psql"
    /\ \/ Moves(t, "calling", "none") /\ UNCHANGED failures
       \/ Moves(t, "answered", "none") /\ Fails
    /\ UNCHANGED <<plan, gatewayVars, era, worker, brokerVars, userVars, pushVars>>

Calling(t, kinds) == t.pc = "calling" /\ t.queue = "psql" /\ plan.kind[t.copy[1]] \in kinds

\* The statement is executed and its result is the answer.
Succeeds(t) ==
    /\ Write(t.copy[1]) /\ Moves(t, "answered", "SUCCESS")
    /\ UNCHANGED <<failures, unwritten>>

\* FRIEND_TIMEOUT, FRIEND_FAILED or no reply at all: nothing is written.
Refused(t) ==
    /\ Fails /\ Moves(t, "answered", "FAILED")
    /\ UNCHANGED <<session, status, written, unwritten>>

\* AddFriend: the statement fails, takes too long and is rolled back, or the pool has no
\* connection for it.
AddFriend(t) ==
    /\ Calling(t, {"request"})
    /\ Succeeds(t) \/ Refused(t)
    /\ UNCHANGED <<plan, gatewayVars, era, worker, brokerVars, orphans, pushVars>>

\* ConfirmFriend does not look at the result of create_friend: when the pool has no
\* connection in time the answer is FRIEND_SUCCESS.
ConfirmFriend(t) ==
    /\ Calling(t, {"accept", "reject", "ignore"})
    /\ \/ Succeeds(t) \/ Refused(t)
       \/ /\ plan.busyPool /\ plan.kind[t.copy[1]] = "accept" /\ Fails
          /\ Moves(t, "answered", "SUCCESS") /\ unwritten' = unwritten \cup {t.copy[1]}
          /\ UNCHANGED <<session, status, written>>
    /\ UNCHANGED <<plan, gatewayVars, era, worker, brokerVars, orphans, pushVars>>

\* GRPC_TIMEOUT, or the connection breaks: the call goes on at the service for a while.
CallLost(t) ==
    /\ t.pc = "calling" /\ t.queue = "psql" /\ Fails
    /\ orphans' = orphans \cup {t.copy[1]}
    /\ Moves(t, "answered", "none")
    /\ UNCHANGED <<plan, gatewayVars, era, worker, brokerVars, session, status, written, unwritten, pushVars>>

\* The call that nobody waits for is executed all the same, or was cancelled in time.
OrphanEnds(e) ==
    /\ e \in orphans
    /\ orphans' = orphans \ {e}
    /\ Write(e) \/ UNCHANGED <<session, status, written>>
    /\ UNCHANGED <<plan, failures, gatewayVars, task, era, worker, brokerVars, unwritten, pushVars>>

-----------------------------------------------------------------------------
(* The worker to the push service *)

\* user_online_check: online; offline, and the event needs no push; or Redis fails.
UserOnlineCheck(t) ==
    /\ t.pc = "handling" /\ t.queue = "push"
    /\ \/ Moves(t, "calling", "none") /\ UNCHANGED <<failures, offline>>
       \/ /\ plan.to[t.copy[1]] \in plan.away
          /\ Moves(t, "answered", "SUCCESS")
          /\ offline' = offline \cup {t.copy[1]}
          /\ UNCHANGED failures
       \/ Fails /\ Moves(t, "answered", "none") /\ UNCHANGED offline
    /\ UNCHANGED <<plan, gatewayVars, era, worker, brokerVars, userVars, pushed>>

\* push_data: pushed; offline by now; or failed, after the push perhaps.
PushData(t) ==
    /\ t.pc = "calling" /\ t.queue = "push"
    /\ \/ /\ Moves(t, "answered", "SUCCESS")
          /\ pushed' = pushed \cup {t.copy[1]}
          /\ UNCHANGED <<failures, offline>>
       \/ /\ plan.to[t.copy[1]] \in plan.away
          /\ Moves(t, "answered", "SUCCESS")
          /\ offline' = offline \cup {t.copy[1]}
          /\ UNCHANGED <<failures, pushed>>
       \/ /\ Fails
          /\ Moves(t, "answered", "none")
          /\ pushed' \in {pushed, pushed \cup {t.copy[1]}}
          /\ UNCHANGED offline
    /\ UNCHANGED <<plan, gatewayVars, era, worker, brokerVars, userVars>>

-----------------------------------------------------------------------------
TaskStep(t) ==
    \/ Take(t) \/ CallUserService(t) \/ AddFriend(t) \/ ConfirmFriend(t) \/ CallLost(t)
    \/ UserOnlineCheck(t) \/ PushData(t) \/ Settle(t)

GatewayStep(e) == FriendRequest(e) \/ FriendConfirm(e) \/ FlickClock(e) \/ Publish(e)

FriendsNext ==
    \/ \E e \in Events : GatewayStep(e) \/ OrphanEnds(e)
    \/ \E q \in Queues : \/ \E c \in Copies : OnConsume(q, c)
                         \/ LoseChannel(q) \/ StopWorker(q) \/ CloseConsumer(q) \/ StartWorker(q)
    \/ \E t \in task : TaskStep(t)
    \/ StopGateway

\* Tasks run, the broker delivers, calls end, and a stopped worker is started again.
FriendsFairness ==
    /\ \A e \in Events : WF_friendVars(GatewayStep(e)) /\ WF_friendVars(OrphanEnds(e))
    /\ \A q \in Queues : /\ WF_friendVars(\E c \in Copies : OnConsume(q, c))
                         /\ WF_friendVars(\E t \in task : t.queue = q /\ TaskStep(t))
                         /\ WF_friendVars(CloseConsumer(q)) /\ WF_friendVars(StartWorker(q))

-----------------------------------------------------------------------------
TaskOK(t) ==
    /\ t.queue \in Queues /\ t.copy \in Copies /\ t.era \in Nat
    /\ t.pc \in {"queued", "stuck", "handling", "calling", "answered"}
    /\ t.status \in {"none", "SUCCESS", "FAILED"}

FriendsTypeOK ==
    /\ failures \in Nat /\ gateway \in {"up", "stopped"}
    /\ posted \in [Events -> [pc : {"unsent", "idle", "flick", "publishing", "published", "lost", "refused"}, try : 1..Tries]]
    /\ \A q \in Queues : ready[q] \cup settled[q] \cup discarded[q] \subseteq Copies
    /\ \A t \in task : TaskOK(t)
    /\ era \in [Queues -> Nat] /\ worker \in [Queues -> {"up", "closing", "down"}]
    /\ session \in [Pairs -> Events \cup {NoEvent}]
    /\ status \in [Users \X Users -> {"none", "Pending", "Accepted", "Rejected", "Ignored"}]
    /\ orphans \cup written \cup unwritten \cup pushed \cup offline \subseteq Events

\* A queue forgets an event only when its work is done: written to Postgres, or pushed
\* unless its addressee is offline; whichever calls, channels and workers failed.  An
\* accepting answer for which the pool had no connection is the exception, against the
\* comment on FRIEND_TIMEOUT in the worker.
SettledIsDone ==
    /\ \A c \in settled["psql"] : c[1] \in written \cup unwritten
    /\ \A c \in settled["push"] : c[1] \in pushed \cup offline

\* Every event that the gateway published is somewhere: in its queue, at the worker on the
\* present channel, or settled; also after lost channels and stopped workers.
NothingLost ==
    \A q \in plan.queues, e \in Events :
        posted[e].pc = "published" =>
            <<e, posted[e].try>> \in ready[q] \cup settled[q] \cup discarded[q] \cup {t.copy : t \in Live(q)}

\* One answer makes one friendship: the session of a pair never changes once it is written,
\* with answers delivered twice, written late and sent by both sides.
SessionKept == [][\A p \in Pairs : session[p] # NoEvent => session'[p] = session[p]]_friendVars

\* The session id that a client was told when it accepted is the session of the pair, once
\* its answer is written; unless the pair has another accepting answer, which came first.
ToldIsSession ==
    \A e \in written : plan.kind[e] = "accept" /\ session[PairOf(e)] # e =>
        \E d \in written \ {e} : plan.kind[d] = "accept" /\ session[PairOf(e)] = d

\* Deliveries that the worker's full queue turned away: nobody settles them, and they use up
\* the prefetch of the channel.
Clogged(q) == \E t \in Live(q) : t.pc = "stuck"

\* An event that the gateway published is written or discarded in the end; unless deliveries
\* are left aside for ever because the queue of the worker was full.
PublishedIsWritten ==
    []<>~Clogged("psql") =>
        \A e \in Events : (posted[e].pc = "published" /\ "psql" \in plan.queues)
                              ~> e \in written \cup unwritten \cup plan.foreign

\* ... and pushed to its addressee, unless they are offline.
PublishedIsPushed ==
    []<>~Clogged("push") =>
        \A e \in Events : (posted[e].pc = "published" /\ "push" \in plan.queues)
                              ~> e \in pushed \cup offline \cup plan.foreign
=============================================================================
