# Verification of the chat services

This directory holds a TLA+ development of the chat system under `src/chat`: models of its components
and of their compositions, TLC configurations that check them on small instances, and TLAPS proofs for
every instance. `PROJECT.json` is its index: for every definition the lines it models, for every run its
properties, for every property a mutation of the model that violates it, the hazards of the code with
their places, and the theorems.

## 1. The system

Every process is a Python asyncio program; several worker processes of one kind may run beside each
other. The path of a message is the backbone:

```
 client --websocket--> ws_gateway --DeliverMessage--> upstream --super stream--> outbox worker
                                                                                   |      |
                              session table (Cassandra) <---- write_to_session ----+      | notify_read_model
                                                                                          v
 client <--websocket-- ws_gateway <--SubscribeStream-- push service <---push--- downstream (inbox)
                         |   ^ acks in ranges                 ^
                         v   |                                | push queue (RabbitMQ), kick-offs
                       Redis: addresses, login locks    friend worker, other gateways

 client --HTTP--> http_gateway --> auth --> user service (Postgres), mail worker
                       |  ^ limits in Redis
                       +--> friend queues (RabbitMQ) --> friend workers --> Postgres, push service
```

Failed writes of the outbox worker go to a dead letter queue that the dead letter worker empties.
Processes find each other through etcd and call each other by gRPC; message ids come from a snowflake
service. The repository has no tests, and its README describes only how to install it: the code and its
comments are the reference.

| Part | Modules | Run |
|---|---|---|
| AckQueue | `AckQueue`, `AckQueueMachine`, `AckQueueList`, `MCAckQueue` | `ack_queue` |
| Outbox worker: stream consumer, message pacer | `OutboxGroup`, `StreamConsumer`, `MessagePacer`, `OutboxWorker`, `MessagePacerProofs`, `OutboxWorkerProofs`, `MCOutboxWorker` | `outbox`, `pacer_ignored` |
| Push service and push channel of the gateway | `PushStream`, `PushChannel`, `MCPushStream` | `push` |
| Sessions of the gateway | `WsSession`, `MCWsSession` | `session` |
| Redis client, aggregator | `RedisService`, `RedisClient`, `MCRedisClient` | `redis` |
| Service discovery, gRPC client layer | `Registry`, `StubRepository`, `MCRegistry` | `registry` |
| Process supervision, snowflake service | `Processes`, `ProcessesProofs`, `MCProcesses` | `processes` |
| HTTP requests: connection pool, limits, friends and their workers | `ConnectionPool`, `RateLimiter`, `Friends`, `UserRequests`, `UserRequestsProofs`, `MCUserRequests` | `requests` |
| Accounts: auth and user services, mail worker | `Accounts`, `AccountsProofs`, `MCAccounts` | `accounts` |
| Terminal client | `ClientLogin`, `UserSession`, `Contacts`, `FrontClient`, `MCFrontClient` | `client` |
| Path of a message: upstream, storage, dead letters, read model | `Upstream`, `Storage`, `ReadModel`, `MessagePath`, `MessagePathProofs`, `StorageProofs`, `MCMessagePath` | `messages` |

`PROJECT.json` lists the components one by one with their sources and with what is left out of each.

## 2. Conventions of the models

* Everything a coroutine does between two awaits is one step. An awaited call is a step that sends it
  and a step for each way it may return. The done callbacks of a task and the wake-up of the coroutine
  that awaits it are consecutive in the event loop and are one step where both change modelled state.
* A call that fails at its caller (a timeout) may still take effect later, and the client's rollback
  may follow it. Variables named `late...` and actions named `Late...` are about that.
* Services outside `src/` (RabbitMQ, Redis, etcd, Postgres, Cassandra, the devices) are kept to what the
  code sees of them.
* Most modules have a constant `Setups` and a variable `setup` (`plan`, `upPlan`, `tablePlan`, `modelPlan` in parts of compositions), chosen
  in `Init` and never changed: the situations a run starts from (who takes part, what may fail, how
  often). One run therefore covers several situations. The MC modules define and describe them.
* Real time appears only where the code compares times (`RateLimiter`); elsewhere a timeout is a step
  that may happen whenever the code waits with one.
* Payloads, texts, hashes and signatures are left out or are numbers.
* Mutants, marked as such in comments, stand before the definition they replace; nothing uses them.
* Deadlock is checked for AckQueue only: the other setups have finitely many requests, and a system
  that has served them may stop.
* Variables described as histories (`added`, `handled`, `stale`, `missed`, ...) record what happened so
  that a property can speak of it.

## 3. Modules and runs

Numbers of states are those of complete searches. Where a property has an exception, the exception is
something the code really does; section 6 collects them.

### AckQueue (`chatp/message/queue.py`)

`AckQueue` has the data structure as operators: a queue is a record of functions from *stamps* to the
start and end of a span, where a stamp is the position at which a span was appended, and the two lookup
tables. The list order is the order of the stamps, because spans are only ever appended at the tail.
`Add` distinguishes the code's four cases (merge, grow left, grow right, append).
`AckQueueMachine` is its state machine, with histories for the ids added, the first one, whether a
smaller one came later (`low`) and whether one came twice (`dup`). `AckQueueList` models the same calls on
the circular doubly linked list with its root, counter and deque of nodes to reuse, and the iterator's
reading of it. `MCAckQueue` runs both in lockstep.

Run `ack_queue` (195,399 states): every sequence of adds and clears of the ids 0..3 and of -1, three stamps
between two clears, a cache of two nodes. `FirstEndIsFrontier`: `first_end` is the first missing id.
`IInv`: the inductive invariant of the proof, which contains that the spans hold exactly the added ids.
`ListIsQueue`: the linked list implements the spans. Four ids are enough for every pair of the four cases,
for two spans apart and for merges in the head, at the tail and in between; the proof removes the bound.

### Outbox worker (`chatp/rmq/stream`, `worker/utils/pacer.py`, `worker/impl/msg_consumer_worker.py`)

`OutboxGroup` declares what the processes of a group share. `StreamConsumer` models
`consumer_update_listener`, `subscribe_cb_wrapper`, `StreamMessage.ack`, the store timer and `OffsetRecord` of
the processes on one partition, and a broker that keeps one of them active, delivers in order, and may
lose or delay `StoreOffset` frames. A process dies as a whole. A connection that breaks in a process that lives on is
not modelled: `on_closed` (`rmq/stream/connection.py:48`) starts the worker again without subscribing, and it then gets
nothing until the process is started again. `MessagePacer` is one sender's `DeliveryInfo` in several processes and its
key in Redis; `next_delivery_id` is read before the lock is awaited, as in the code. `OutboxWorker` extends
both with `on_message`: limiter, filter, write task beside the notification, dead letter entries,
ack, watermark; shutdown, exit and restart are actions.

Run `outbox` (549,315 states; two processes, offsets 0..3, one store frame under way). The setups with
part `worker` are two concurrent handlers with a repeated message and failing Redis reads, one message at
a time with a crash or shutdown at any point, failing Redis writes, and a takeover. Those with part
`stream` and `pacer` explore one component alone and deeper: hand-over, one process that loses the
partition and gets it back, a fresh stream; repeated ids, Redis faults with late effects, a restart, two
processes.

* `StoredIsAcked`: neither the offset stored at the broker nor the one an active consumer would store next
  passes a message nobody acknowledged. It is stated for *orderly* behaviours (`Orderly`): the callback
  handles one message at a time, or the record began with a stored offset and nothing below that offset
  was acknowledged afterwards (`stale`).
* `OneUnfrozen`: one process at a time counts offsets.
* `NewItemOnce`, `WatermarkIsClaimed`: a process answers NEW_ITEM once for an id; a watermark, in a process,
  in Redis or on its way there, passes only ids that were given to a task.
* `WatermarksAscend`: no watermark in a process moves back unless a process dies; neither does the one in
  Redis while one process writes it and writes do not fail.
* `StoredIsDelivered`: what is acknowledged is delivered or in the hands of another copy, and what is
  stored is delivered. The timer stores only in the setup with one message at a time, because of the
  first two exceptions of section 6; the dead letter queue accepts what it is given, as the code says
  (`Assume that MQ Delivery will not fail`). No setup of the run sets `dlqMayFail`; the proved
  properties hold with it too, and run `messages` has dead letters that are lost.
* `AllDelivered`: every message is delivered in the end.

Four messages with up to three ids are the least at which the watermark jumps over more than one id that
finished early; four offsets allow an anchor, a gap, and spans on both sides of it.

Run `pacer_ignored` expects a violation of `IgnoredWasHandled`: `while delivery_id in ids`
(`worker/utils/pacer.py:112`) advances the watermark over ids that are still in handling; after a crash
their replay is dropped and logged as `previously handled`.

### Push service and push channel of the gateway (`microservices/push`, `ws_gateway/manager/push.py`)

`PushStream` has the push service: channels, ids modulo `MAX_INT32`, waiters, the bounded queue, the calls
that publish and wait. `PushChannel` is the gateway's end: handlers, acks of devices, the delayed
trigger, and the generator `consumer_feedback`, suspended at each yield, over the linked list of
`AckQueueList`. `PushStream` joins them by the two directions of one call, with ends of calls,
reconnects, a handler that has not noticed the end of its call, and a second gateway.

Run `push` (148,020 states): three events whose acks merge, the same three on a channel that has counted up to the end of
the delivery ids, lost calls and timeouts with two tries and two connections, two gateways. Three events let acks merge
two spans around a third, and a queue of two fills up. The delivery ids are 0..4; the second setup uses 4, 0 and 1. An
acknowledgement of 4 gives a range whose end does not fit its field, as in the code, and ends the feedback. `ConfirmedHasArrived`: a confirmed event was acknowledged by a device,
had no active session, or kicked its session off, and a queue entry that was acknowledged has reached
every gateway of its user. `AckIsFlushed`: no ack stays in the queue of the gateway.

### Sessions of the gateway (`ws_gateway/manager/session.py`, `ws_gateway/routes/ws.py`)

`WsSession` has the tables of `SessionManager` (sessions by key, the ordered idle pool, the waiters for
recycling) and `websocket_endpoint` from the login lock to `deactivate`, the kick-off in the same process
and through the push service, events put into write queues, shutdown.

Run `session` (173,772 states): three connections of one device on two gateways; two devices sharing a
pool; failing Redis calls with shutdowns and events. `OneOwner`: a session object serves one connection,
unless a late call of an earlier login has deleted the lock (`stolen`). `ReaderIsReached`: two connections of
a device never both read, and a connected device is found under its address. It is stated for orderly
setups, where a session ends by itself only while no login of its key is under way, for Redis calls that
do not fail (the address), and without a kick-off between a login's unlock and its reader (`missed`).
`LockIsReleased`: every login gives its lock back, while Redis calls do not fail.

### Redis client and aggregator (`chatp/redis`, `chatp/utils/aggregator.py`)

`RedisService` models the two channels, reader and writer consumers, commands that the library sends again, calls that
time out and the rollback of what they wrote, rebalancing and spawning, start and shutdown; GET, SET and SETNX stand for
reads, writes with a rollback and writes without one. The server has a value per key: a SETNX on an occupied
key changes nothing, and a rollback deletes the keys of its call, whoever wrote them last. `RedisClient` adds
the aggregator: callers join a batch, one of them executes it for all.

Run `redis` (153,858 states): three calls on one key or two, one repetition of a command, three callers of batches, seven
consumers, channels of two. `SuccessIsWritten`: a write that succeeded at its caller is at its keys until another call writes
them or is rolled back there, and is never rolled back itself, except during the shutdown.
`PoolServes`: no waiting task is dropped but by a consumer that was moved while executing it, and one
reader and two writers stay; three checks of the timer are the least after which a side has a consumer to
move. `CallsEnd`: a SET whose caller was told of a timeout is undone in the end,
except when commands fail, during the shutdown and when a rebalancing cut it off; and every caller of a
batch returns, unless a batched read fails or a caller is cancelled.

### Service discovery and gRPC clients (`chatp/discovery`, `chatp/manager`, `chatp/rpc/grpc_service.py`)

`Registry` models the manager of a main process: lease and its refresh, registration, the first listing,
the watch, the announcements to the workers, monitor and stop. `StubRepository` is a worker: stub groups with
their flags and channels, the tables `services`, round robin and hash ring, the monitor, the close.

Run `registry` (110,988 states): two addresses, three stub groups, three retries; services that come,
are deleted or go down, broken channels, a failing etcd, a shutdown. `TablesAgree`: the three tables of the worker
agree, except for groups that came back while the monitor had them out of `services`. `RoutingFollows`: the
manager remembers what it announced, a worker lists the running services it was told of, a registered
service is listed in the end, and a deleted and dead one is dropped. The listing parts are stated while
nothing fails and no key is deleted (`Calm`), and except keys that came between listing and watching (`missed`).

### Process supervision and snowflake service (`chatp/multiprocess`, `microservices/snowflake`)

`Processes` models main processes (platforms) and workers, as child processes or inside the main process:
spawning, pipes, feeding of events, reaping and replacing, signals, failures of the start, the close; and the
snowflake service on top: the lock in etcd, the counter in Redis, the range kept in etcd, single ids
handed out through `shared_array`, byte by byte.

Run `processes` (30,502 states): two platforms with up to two workers, a counter that wraps at four.
`SeqsPartition`: every sequence number belongs to one process or is available. `IdsDistinct`: two serving
snowflake workers never share an instance id, except workers that read `shared_array` half written or
cleared, a platform with child processes beside one without, and a counter that has wrapped around. `PlatformsWork`:
workers come to serve, announced events are handled, dead workers are replaced, a platform that closes stops.

### Requests of users (`chatp/database/postgres`, `http_gateway/middlewares`, `routes/friend.py`, friend workers)

`UserRequests` puts three modules beside each other. `ConnectionPool` is `AsyncMyConnectionPool`: acquire, waiting,
handing over, release with its await in the middle, close. `RateLimiter` has the Lua scripts of the gateway
line by line, called with times read before the call. `Friends` follows friend requests and answers from
the publishing task of the gateway through RabbitMQ to the two workers, with prefetch, bounded queues, acks
on present and lost channels, workers that are stopped, and the statements of the user service with their
idempotence. A request to oneself is outside: Postgres refuses the two equal rows of `create_friend.sql`.

Run `requests` (117,692 states): three handlers and two connections; eight ticks of time with windows of
one to four, a script that runs up to two ticks after its call was sent, or twice; two users and two events, two tries, prefetch two, queues of one. `PoolIsKept`: no connection
has two holders, none is lost, nobody waits beside a free one but those who began to wait during a transit,
`close` gives all back. `WithinQuota`: two requests of an address that are let through within a sliding window are one that
overtook the other on the way to Redis, or the trace expired between them (the comment on the window at `ratelimiter.py:28`,
one request in it, holds for requests that arrive in order); an address gets at most twice the threshold per trace cycle for
each request it has on the way at once; an endpoint gets, per window, less than two capacities and one for each window by which a
call may be late. The run reaches the last two bounds. With the code's timeout of 5 s and window of 1 s the last one is seven capacities. `EventsKept`: a published event is
in its queue, at its worker or settled, and is settled only when its work is done. `SessionKept`: two
friends keep the chat they were given. `RequestsEnd`: calls of the pool return, events are written and
pushed in the end unless the queue of a worker stays clogged.

### Accounts (`microservices/auth`, `microservices/user`, `http_gateway/routes/user.py`, `worker/impl/email_worker.py`)

`Accounts` follows requests about one account through gateway, auth service, user service, Postgres, Redis and
mail worker; every call may fail, be given up, or act late. A token is a number, a password the
registration that set it.

There is no request to refresh a token: the handler at `routes/user.py:215` is not among the routes that `creator.py:77`
registers, and nothing else reaches the refresh call of the auth service.

Run `accounts` (76,747 states): three requests, two auth workers, two tries of a mail. `SuccessIsSo`: what the
gateway answers with 200 is so; a registration may have been overtaken by a confirmation while its statement
ran. `HeldIsCurrent`: a device holds only tokens whose store was confirmed, and the token in Redis if it is the only
device, no request is under way, every token made so far was stored and no two requests made tokens at the same time. `ConfirmedIsFrozen`: a confirmed
account keeps its password, however late a registration is executed. `ClientArrives`: a client that
persists gets its tokens unless the mail is given up, and every request is answered.

### Terminal client (`front`, `chatp/message`)

`ClientLogin` is the login form and the task that connects, with the futures between them; `UserSession` the
sending, acknowledging, timing out and sending again of messages and the delayed confirmation of received
ones, and the gateway's task that passes them on; `Contacts` the pages for friend requests and the loading of friends and chats.
A chunk of a chat is what `ReadSession` returns: the first bucket only (`read_session.cql:6`) and at most 200 messages
(`db_service.py:152`); the model's chats stay below both.
`FrontClient` composes them.

Run `client` (113,740 states): three attempts of two users to log in, three messages with a repetition, three
pushes on changing pages, both directions, requests from both sides, loading while messages arrive; four ids. `ReadingIsOwn`: a
connection is read for a page that is told of it and for the user who is logged in (`must make sure the same
login user`), unless an attempt of another user failed in between. `ChatIsKept`: a message without an
acknowledgement waits for one or is offered again; a confirmed push is in the timeline. `FriendsAgree`: friends
of the client are friends for the server, and loaded chats show what was stored. `MessagesSettle`: what was
sent ends acknowledged or offered, and what was pushed is confirmed while the connection lasts.

### Path of a message (`microservices/upstream`, `cass_msg_storage`, `downstream`, `worker/impl/dlq_worker.py`)

`Upstream` is `DeliverMessage` and the stream producer with its table of waiting messages; `Storage` the
buckets of a chat on several servers with cache lines, line locks, blocks taken from a counter in Redis and
rollbacks; `ReadModel` the dead letter worker, the downstream service, the inbox and the receiver who comes
online. `MessagePath` joins them by the outbox worker: `on_message` in steps (filter, the two deliveries with their dead
letters, acknowledgement, watermark), several messages at a time, and a process that dies at any of them; what the
stored offset does not cover is delivered again. The lock and the late Redis writes of the pacer and the offsets of the stream are
in `OutboxWorker`.

Run `messages` (121,563 states): calls to one and two partitions, two servers with five
writes into buckets of two, dead letters of each kind with two faults, two visits of the receiver; the whole way of a message with
two faults, and from the stream on, of a call and its repetition and of two calls in a row with one fault or crash.
`SuccessIsStored`: a sender told of success has the message in the stream, if the producer uses one
partition. `BucketIsBounded`: a bucket holds no more than its size, save numbers given back and blocks rolled
back. `EffectsAreDone`: an acknowledged dead letter has been put right, and a receiver who is online and has
pulled misses no handled message, unless they had one with a larger id before. The TODO at `downstream_service.py:70` says
that a receiver who comes online beside the check may miss a message; it is outdated, since the inbox is written before the check.
`SuccessIsDelivered`: what a sender was told is stored ends in the inbox. It has two exceptions: a dead letter was lost;
or the handling died with the process after a smaller id of the sender had moved the watermark in Redis past it, and the
replay was ignored (the loss that `pacer_ignored` shows; two calls in a row and one crash reach it). Dead letters and writes come to
their ends, unless a cancelled call has kept the lock of a cache line.

## 4. Fairness

All fairness is weak and rests on three facts about asyncio programs: the event loop runs every ready task,
every awaited call returns or times out, and timers fire. Faults, crashes, users, late effects, store timers and
signals are never fair, except that a persisting client of `Accounts` sends and repeats its requests.

| Specification | Fair steps |
|---|---|
| `OutboxWorker` | the disjunction of all steps that run by themselves (`Progress`): the loops do not all stop while one has work |
| `PushStream` | the gateway's own steps (timer, generator, handlers); neither devices nor push service have to act |
| `WsSession` | the login of each endpoint: its own timeouts suffice |
| `RedisClient` | every consumer, the rollback task, enqueued calls, the end of a batch's leeway, returns |
| `Registry` | delivery of watch events, manager and worker tasks; channels notice that they are connected, and that their server is down |
| `Processes` | every process and its worker steps, the monitor, delivery through the pipes |
| `UserRequests` | every call of the pool, `close`; every publishing task, consumer, worker task and restart; the limits have safety properties only |
| `Accounts` | every step of a request at a service, the mail and its worker |
| `FrontClient` | reading, writing, the ack timer, timeouts and the connecting task |
| `MessagePath` | outbox worker, dead letter worker and downstream service; a free lock is taken; Redis answers |

`AckQueueMachine` has safety properties only.

## 5. Proofs

The proofs hold for every value of the constants: any number of processes, messages, requests, users and
repetitions, any limits, any assignment of ids, and every combination of faults the setups can switch on.

| Module | Theorem | States |
|---|---|---|
| `AckQueueMachine` | `Invariance` | `QueueSpec => []IInv` |
| | `TypeCorrect`, `ContentCorrect`, `FrontierCorrect`, `SeparationCorrect` | `QueueTypeOK`, `ContentIsAdded`, `FirstEndIsFrontier`, `SpansAreSeparate` |
| `OutboxWorkerProofs` | `WorkerInvariant` | `Spec => []WorkerInv` |
| | `StoredCorrect`, `OneUnfrozenCorrect` | `StoredIsAcked`, `OneUnfrozen` |
| | `NewItemCorrect`, `WatermarkCorrect`, `LockCorrect` | `NewItemOnce`, `WatermarkIsClaimed`, `LockExcludes` |
| | `AscentCorrect`, `WatermarksCorrect` | the action properties `WatermarkAscends`, `WatermarksAscend` |
| `UserRequestsProofs` | `PoolCorrect` | `PoolIsKept` |
| | `EventsCorrect`, `SessionCorrect` | `EventsKept`, the action property `SessionKept` |
| `AccountsProofs` | `AccountsInvariant` | `Spec => []AInv` |
| | `SuccessCorrect`, `HeldCorrect`, `FrozenCorrect` | `SuccessIsSo`, `HeldIsCurrent`, the action property `ConfirmedIsFrozen` |
| `ProcessesProofs` | `ProcessesInvariant` | `Spec => []PInv` |
| | `SeqsCorrect`, `IdsCorrect` | `SeqsPartition`, `IdsDistinct` |
| `MessagePathProofs` | `PathInvariant` | `Spec => []PathInv` |
| | `SuccessStored`, `EffectsCorrect` | `SuccessIsStored`, `EffectsAreDone` |
| `StorageProofs` | `TableInvariant` | `Spec => [](TableFits /\ TableInv)` |
| | `BucketCorrect` | `BucketIsBounded` |

`MessagePacerProofs` and the first part of `AckQueueMachine` hold lemmas they rest on.

Assumptions on the constants: ids are natural numbers (`AckIdsAssumption`); values that stand for *nobody* or
*nothing* are not among the processes, connections, events, writes or requests (`NoConnAssumption`, parts of the
others); setups are records of the right shape (`OutboxAssumption`, `UserRequestsAssumption`,
`AccountsAssumption`, `ProcessesAssumption`, `PathAssumption`). Some say more. Senders number their messages from 1, as the client
does, and there is a largest number. A stream is finite. In the whole worker a process gets a partition once between two
restarts, so that there is one `on_message` per offset and process; the `part` that has the stream consumers alone has no such
bound. A friend event goes from one user to another. A platform without child processes has one worker. Message
ids are positive and there is a largest one; servers and writes are finitely many; a bucket is a whole number of blocks (100 and
1,000,000 in the code). TLC evaluates all of them in the runs.

TLC has checked `IInv` (in `ack_queue`), the `PInv` of the pool, `FInv`, `AInv` and the parts of `PathInv` as invariants of the same
instances; the other invariants quantify over all natural numbers. The proofs follow one plan: the
invariant holds at the start, one lemma per action (or per case of an operator) shows that it is kept, and
the property follows from it.

**AckQueue.** None of its properties is inductive by itself: whether `add` extends the right span depends on
the tables. `IInv` adds that a table leads to a linked span that really starts or ends at its key
(`Consistent`), that the first id's span keeps the least stamp while nothing smaller arrives
(`Anchored`), and that without duplicates the tables reach every span (`Separate`). With duplicates the
last part fails, since an overwritten table entry hides a span, and the properties say no more than what
survives that. There is one lemma per case of `add`, for a queue of whatever owner: the stream consumers use them too.

**Stream consumers.** `StreamInv` says who owns the partition (`Owned`: whoever is in the listener or consumes is
the one the broker picked, and a record is unfrozen exactly while its consumer consumes), that the queue of a
consumer went through `add` only (`Sound`, so that the lemmas on AckQueue apply), and why what it will
store is acknowledged: with one message at a time because deliveries come in order (`InOrder`), with many
because the head of the queue starts at an offset before which all is acknowledged (`FromAnchor`). `Sent`
carries that over to the frames on the wire, which may arrive late or be lost, and to the broker.

**Message pacer.** `PacerInv` says that the lock has one holder and that waiting tasks are in its queue, that Redis is
asked only before the pacer is set up (`Fresh`), that a new item stays remembered (`Remembered`), and that
what is remembered was claimed (`Claims`). The watermark is the first gap in the remembered ids; that the
loop of `on_handled_new_item` finds it is shown from the existence of a least natural number.
`OrderInv` is why the watermark in Redis rises: the tasks that write it stand in the queue of the lock in the
order of the values they write (`Line`), although each computes its value before it waits.

**Outbox worker.** Every step of the worker is a step of `MessagePacer` or leaves the pacers alone, and a step of
`StreamConsumer` or leaves the stream alone; the invariants of the two carry over (`WorkerInv`).

**Connection pool.** `PInv` accounts for every connection (`OneHolder`, `ConnectionsAccounted`), ties the place of a
handler in the code to what it holds (`PlacesAgree`), says that pending callers are among the waiters, and
that for those who began to wait while nothing was in transit nothing is free (`SureWaiters`); `BoundIsKnown` is what
`close` has to give back.

**Friend events.** `FInv`: every published event has a place (`NothingLost`), a delivery about to be acknowledged is
done (`WorkDone`), and a chat carries the id of an accepting answer that was written (`SessionsWritten`).

**Accounts.** `AInv` follows each request: whatever is on its way to become a success is so by then (`Sound`), and stays
so, because the statements never change a confirmed row. A token is generated once and then in the hands of one request, or
confirmed as stored, or given up (`Counted`). While none was given up (`Settled`) and no two requests made tokens at a time, `Current` says
that Redis has the tokens the device has or is about to get.

**Processes.** `PInv` says per platform that its numbers are split between its processes and the free ones, and that between two rounds
of the monitor exactly the running ones have a pipe task (`Crew`); and that `shared_array` is filled from the range the platform has in etcd
and cleared before the next start (`Ids`). That ids of two platforms differ comes from the counter: every range that is in etcd or
about to be put there lies below it (`Below`), and two of them do not meet (`Apart`).

**Upstream and read model.** In `UpInv` publishing ids rise from the confirmations to the wire (`Numbers`), so that an id leads to its message
while one partition is used (`Awaits`). `ModelInv` ties the place of a handler to what it has written: who looks for the receiver has filled the
inbox, and a letter whose results are there is in the session table and in the inbox or on its way (`LetterInv`). `ReceiverInv` adds that
handled messages are in the inbox and that the receiver has the message they count from. The steps of the outbox worker, its
death included, only add to the tables and queues (`ArriveKeeps`).

**Storage.** `BucketIsBounded` counts rows, and the proof counts numbers: those that writes hold and those the cache lines can still give are,
bucket by bucket, no more than the counter gave out and what was given back (`Counted`). A new block lies in one bucket because
the counter is a whole number of blocks (`WholeBlocks`); a write waits once and at its own server (`InLine`), so that it takes one number.

### Only model-checked

* All liveness properties (`AllDelivered`, `AckIsFlushed`, `LockIsReleased`, `CallsEnd`, the temporal parts of
  `RoutingFollows`, `PlatformsWork`, `RequestsEnd`, `ClientArrives`, `MessagesSettle`, `SuccessIsDelivered`):
  liveness under fairness is outside the prover.
* `ListIsQueue`: the walk along the linked list is recursive, and what it computes needs induction over data.
* `WithinQuota`: the quotas count requests in every window; the count of a sequence that grows in several
  steps needs induction as well. `ConfirmedHasArrived` rests on the walk along the list of acks, `TablesAgree` on
  filtered sequences.
* `StoredIsDelivered` depends on the setups in which the timer stores.
* `OneOwner`, `ReaderIsReached`, `SuccessIsWritten`, `PoolServes`, `ReadingIsOwn`, `ChatIsKept`, `FriendsAgree` and the safety part of
  `RoutingFollows` are checked on the instances of their runs only.

## 6. What the code does not keep

Met while modelling. Properties are stated around them, and the hazards of `PROJECT.json` give the lines.

* On a fresh stream the offset record has no anchor: with concurrent handlers the first acknowledgement
  decides what is stored. An acknowledgement of an earlier activation below the new anchor moves the head of
  the queue.
* The watermark passes ids in handling, and after a crash their replay is ignored (`pacer_ignored`, and the exception of
  `SuccessIsDelivered`).
* The rollback of a SET that was late deletes its keys, also when another call has written them since.
* A request that overtakes an earlier one on its way to Redis is not counted by the limit per address.
* No route leads to `refresh_token`; if one did, the form's string would not fit the call's integer, and `info` be unbound.
* A stream connection that breaks is opened again without a subscription.
* A failed write of a cancelled call gives its number back twice.
* A lost dead letter is not noticed; a call cancelled while it asks Redis for a block keeps the lock of its cache line.
* An ack that merges the yielded span with the next one leads the feedback iterator to the root of the
  list, whose range starts at -1 and does not fit its field: the feedback ends.
* A kicked-off endpoint reads the state of its pooled session object after an await and may delete the address of the
  connection that replaced it; frames left in the queue of a recycled object go to its next user.
* The producer keeps waiting messages by publishing id alone, while each partition counts its own.
* The bound handlers of the gateway's stream use a loop variable in a lambda (modelled as it behaves).
* A friend answer for which the pool had no connection is acknowledged unwritten, against the comment on `FRIEND_TIMEOUT`.
* After an exception other than a timeout all callers of a batch but one wait for ever.
* A group that comes back while the monitor has it out of `services` stays in the ring unmonitored.
* `shared_array` is read while it is written; ids then may coincide.

## 7. Not modelled

* Start-up and wiring, Cassandra driver adapters, drawing and single HTTP calls of the terminal client, the
  stream processors nobody uses, generated code.
* The gateway's limiter of 512 events, eviction of cache lines, paging of queries, routes that only read.
* Payloads, serialisation, logging, metrics (but for the lock file), the arithmetic of snowflake ids (a library's).
* Defects of straight-line code that no interleaving is needed for: the gateway's handler table
  has no entry for `PUSH_FRIEND_SESSION`; `TaskManager.close` passes a dictionary keyed by integers to
  `asyncio.wait`; `on_completed` of the friend worker tests a queue object instead of its emptiness;
  `AddFriendBatch` calls a method that does not exist; `base_worker.py` imports modules that do not exist;
  `pull_offline_messages` is never called.

## 8. Running the checks

```
tlc -config WsSession.cfg MCWsSession      # likewise for every run of PROJECT.json
tlapm OutboxWorkerProofs.tla               # likewise for every module of section 5
```
