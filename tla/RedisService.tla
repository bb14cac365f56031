---------------------------- MODULE RedisService ----------------------------
(***************************************************************************)
(* RedisCacheService: callers put tasks into a read and a write channel;   *)
(* a changing pool of reader and writer consumers takes them out and       *)
(* executes them at the Redis server; a write that succeeds after its      *)
(* caller has given up is handed to the rollback consumer.  A timer moves  *)
(* consumers between the two sides and starts new ones.                    *)
(*                                                                         *)
(* The server keeps one value per key.  The rollback of a SET deletes the  *)
(* keys, whoever has written them since.                                   *)
(***************************************************************************)
EXTENDS Integers, Sequences, FiniteSets, FiniteSetsExt, Functions

CONSTANTS
    Calls,             \* the calls of redis_read and redis_write, one task each
    Keys,              \* the keys at the server
    MaxConsumers,      \* bound on the consumers ever created
    TotalConnections,  \* max_connections + reserve_connections
    ChannelLimit,      \* READ_LIMIT and WRITE_LIMIT
    Retries,           \* how often the client library sends a command again
    Setups             \* the situations to start from

Ops == {"get", "set", "setnx"}
Consumers == 1 .. MaxConsumers

\* op       call -> its task type
\* keys     call -> the keys it reads or writes
\* errors   whether commands may fail at the server or at the circuit breaker
\* timeouts whether callers may give up
\* checks   how often delay_checker may run
\* mayClose whether the service is shut down
\* warm     whether the consumers of the start have already begun to wait
ASSUME ServiceAssumption ==
    /\ MaxConsumers \in Nat \ 0 .. 2       \* the start takes three
    /\ TotalConnections \in Nat \ 0 .. 2   \* RESERVE_CONNECTIONS alone is three
    /\ ChannelLimit \in Nat \ {0} /\ Retries \in Nat
    /\ \A s \in Setups :
          /\ DOMAIN s.op \subseteq Calls
          /\ \A c \in DOMAIN s.op : s.op[c] \in Ops /\ s.keys[c] \subseteq Keys
          /\ {s.errors, s.timeouts, s.mayClose, s.warm} \subseteq BOOLEAN
          /\ s.checks \in Nat

NoCall == "no call"
NoReply == "no reply"

VARIABLES
    setup,      \* the situation, fixed at the start
    state,      \* ConnectionState
    call,       \* call -> where its caller is, and its waiter
    channel,    \* side -> the tasks queued
    rollbacks,  \* _rollback_channel: the calls to undo
    roller,     \* the rollback consumer and the call it undoes
    consumer,   \* consumer -> its coroutine
    members,    \* side -> _readers, _writers
    lastSpawn,  \* last_spawn_type: the sides that got consumers last
    checks,     \* how often delay_checker has run
    store       \* key -> whose command was executed last, and whether it left a value

poolVars == <<consumer, members>>
serviceVars == <<state, call, channel, rollbacks, roller, consumer, members, lastSpawn, checks, store>>

Sides == {"reader", "writer"}
Other(side) == IF side = "reader" THEN "writer" ELSE "reader"
SideOf(c) == IF setup.op[c] = "get" THEN "reader" ELSE "writer"
\* The handler table pairs SET with DELETE, and SETNX with no rollback.
HasRollback(c) == setup.op[c] = "set"
Made == DOMAIN setup.op
Accepting == state \in {"connected", "disconnected"}

\* side     the coroutine that runs, reader or writer
\* status   TaskStatus; "none" before the spawn, "gone" after the return,
\*          "draining" and "last" while the rest of a channel is worked off
\* data     the call that task_data belongs to
\* last     the call executed while draining
\* reply    the answer of the server to the command in hand, NoReply before it
\* sent     how often the server has executed that command
\* rollback whether the variable `rollback` holds an operation
\* trap     rebalance_trap;  cancel: cancelled, and not yet noticed
Unspawned == [side |-> "reader", status |-> "none", data |-> NoCall, last |-> NoCall,
              reply |-> NoReply, sent |-> 0, rollback |-> FALSE, trap |-> FALSE, cancel |-> FALSE]

\* A new coroutine pings the server (INITIALIZED, READY) before its loop.
Started(side) == [Unspawned EXCEPT !.side = side, !.status = "ready"]

\* __aenter__: one reader, two writers and the rollback consumer.
ServiceInit ==
    /\ setup \in Setups
    /\ state = "connected"
    /\ call = [c \in Calls |-> [pc |-> "idle", done |-> FALSE, cut |-> FALSE]]
    /\ channel = [s \in Sides |-> << >>]
    /\ rollbacks = << >>
    /\ roller = [pc |-> "idle", undoes |-> NoCall]
    /\ members = [s \in Sides |-> IF s = "reader" THEN {1} ELSE {2, 3}]
    /\ consumer = [w \in Consumers |->
          IF w > 3 THEN Unspawned
          ELSE [Started(IF w = 1 THEN "reader" ELSE "writer") EXCEPT
                  !.status = IF setup.warm THEN "idle" ELSE "ready"]]
    /\ lastSpawn = {}
    /\ checks = 0
    /\ store = [k \in Keys |-> [by |-> NoCall, there |-> FALSE]]

-----------------------------------------------------------------------------
(* redis_read and redis_write *)

\* The waiter of c gets a result; a caller that waits for it is answered.
Resolve(c, answer) ==
    [call EXCEPT ![c].pc = IF @ = "waiting" THEN answer ELSE @, ![c].done = TRUE]

ResolveUnlessDone(c, answer) == IF call[c].done THEN call ELSE Resolve(c, answer)

Enqueue(c, pc) ==
    /\ channel' = [channel EXCEPT ![SideOf(c)] = Append(@, c)]
    /\ call' = [call EXCEPT ![c].pc = pc]

HasRoom(c) == Len(channel[SideOf(c)]) < ChannelLimit

\* A call: None at once while closing; otherwise the task is put, which suspends
\* the caller when the channel is full.
Request(c) ==
    /\ call[c].pc = "idle"
    /\ \/ ~Accepting /\ call' = [call EXCEPT ![c].pc = "refused"] /\ UNCHANGED channel
       \/ Accepting /\ HasRoom(c) /\ Enqueue(c, "waiting")
       \/ Accepting /\ ~HasRoom(c) /\ call' = [call EXCEPT ![c].pc = "putting"] /\ UNCHANGED channel
    /\ UNCHANGED <<setup, state, rollbacks, roller, poolVars, lastSpawn, checks, store>>

\* The task is queued after a suspension.  When less time than the reserve is left
\* the caller returns None, and the task with its pending waiter stays queued.
Enqueued(c) ==
    /\ call[c].pc = "putting"
    /\ HasRoom(c)
    /\ \E pc \in {"waiting", "blocked"} : Enqueue(c, pc)
    /\ UNCHANGED <<setup, state, rollbacks, roller, poolVars, lastSpawn, checks, store>>

\* wait_for runs out of time and cancels the waiter.
GiveUp(c) ==
    /\ setup.timeouts
    /\ call[c].pc = "waiting"
    /\ call' = Resolve(c, "timeout")
    /\ UNCHANGED <<setup, state, channel, rollbacks, roller, poolVars, lastSpawn, checks, store>>

-----------------------------------------------------------------------------
(* The reader and writer coroutines *)

\* Mutant: the done callback starts the coroutine that has just returned.
FinishedInPlace(k) ==
    IF k.trap THEN Started(k.side) ELSE [k EXCEPT !.status = "gone", !.cancel = FALSE]

\* The coroutine returns; the done callback of the rebalancing starts a trapped
\* consumer on the other side, without a ping.
Finished(k) ==
    IF k.trap THEN Started(Other(k.side)) ELSE [k EXCEPT !.status = "gone", !.cancel = FALSE]

\* The head of the loop.
Looped(k) == IF state # "closing" /\ ~k.trap THEN [k EXCEPT !.status = "idle"] ELSE Finished(k)

SetConsumer(w, k) == consumer' = [consumer EXCEPT ![w] = k]

\* rollback_channel.put_nowait, which raises when the channel is full.
PutRollback(c) == rollbacks' = IF Len(rollbacks) < ChannelLimit THEN Append(rollbacks, c) ELSE rollbacks

\* The ping is over; a coroutine cancelled before that is dropped.
Ready(w) ==
    /\ consumer[w].status = "ready"
    /\ SetConsumer(w, IF consumer[w].cancel THEN Finished(consumer[w]) ELSE Looped(consumer[w]))
    /\ UNCHANGED <<setup, state, call, channel, rollbacks, roller, members, lastSpawn, checks, store>>

\* The next task is taken out of the channel; one whose waiter is done is dropped.
Take(w) ==
    LET k == consumer[w]
        c == Head(channel[k.side])
    IN  /\ k.status \in {"idle", "draining"} /\ ~k.cancel
        /\ channel[k.side] # << >>
        /\ channel' = [channel EXCEPT ![k.side] = Tail(@)]
        /\ \/ /\ call[c].done
              /\ SetConsumer(w, IF k.status = "idle" THEN Looped(k) ELSE k)
           \/ /\ ~call[c].done /\ k.status = "idle"
              /\ SetConsumer(w, [k EXCEPT !.status = "running", !.data = c, !.reply = NoReply, !.sent = 0,
                                          !.rollback = HasRollback(c)])
           \/ /\ ~call[c].done /\ k.status = "draining"
              /\ SetConsumer(w, [k EXCEPT !.status = "last", !.last = c, !.reply = NoReply, !.sent = 0])
        /\ UNCHANGED <<setup, state, call, rollbacks, roller, members, lastSpawn, checks, store>>

\* The circuit is broken: the waiter gets None, and `rollback` still belongs to the
\* task before, while task_data is this one.
Broken(w) ==
    LET k == consumer[w]
        c == Head(channel[k.side])
    IN  /\ setup.errors
        /\ k.status = "idle" /\ ~k.cancel
        /\ channel[k.side] # << >> /\ ~call[c].done
        /\ channel' = [channel EXCEPT ![k.side] = Tail(@)]
        /\ call' = Resolve(c, "none")
        /\ SetConsumer(w, Looped([k EXCEPT !.data = c]))
        /\ UNCHANGED <<setup, state, rollbacks, roller, members, lastSpawn, checks, store>>

Executes(w) == IF consumer[w].status = "running" THEN consumer[w].data ELSE consumer[w].last

\* SETNX writes only a key without a value, and tells whether it did.
Occupied(c) == setup.op[c] = "setnx" /\ \E k \in setup.keys[c] : store[k].there

\* The keys after the write of c.
Written(c) ==
    [k \in Keys |-> IF k \in setup.keys[c] /\ ~Occupied(c) THEN [by |-> c, there |-> TRUE] ELSE store[k]]

\* The server executes the command; after a lost connection the client library, set
\* up with three retries, sends it again.
Apply(w) ==
    /\ consumer[w].status \in {"running", "last"}
    /\ consumer[w].side = "writer" /\ consumer[w].sent <= (IF setup.errors THEN Retries ELSE 0)
    /\ SetConsumer(w, [consumer[w] EXCEPT !.reply = IF Occupied(Executes(w)) THEN "taken" ELSE "ok",
                                          !.sent = @ + 1])
    /\ store' = Written(Executes(w))
    /\ UNCHANGED <<setup, state, call, channel, rollbacks, roller, members, lastSpawn, checks>>

\* What the caller is told when the reply arrives.
Outcome(k) == IF k.side = "writer" THEN k.reply ELSE "ok"

\* Mutant: the rollback is queued although the caller got its answer.
ReplyRollsBack(w) ==
    LET k == consumer[w]
    IN  /\ k.status = "running" /\ ~k.cancel
        /\ k.side = "writer" => k.reply # NoReply
        /\ call' = ResolveUnlessDone(k.data, Outcome(k))
        /\ IF k.rollback THEN PutRollback(k.data) ELSE UNCHANGED rollbacks
        /\ SetConsumer(w, Looped([k EXCEPT !.rollback = FALSE]))
        /\ UNCHANGED <<setup, state, channel, roller, members, lastSpawn, checks, store>>

\* Mutant: a late write is left as it is.
ReplyKeepsLate(w) ==
    LET k == consumer[w]
    IN  /\ k.status = "running" /\ ~k.cancel
        /\ k.side = "writer" => k.reply # NoReply
        /\ call' = ResolveUnlessDone(k.data, Outcome(k))
        /\ SetConsumer(w, Looped(k))
        /\ UNCHANGED <<setup, state, channel, rollbacks, roller, members, lastSpawn, checks, store>>

\* The reply arrives in the loop: the waiter gets it, or, when the caller has given
\* up, the operation that undoes the write is queued.
Reply(w) ==
    LET k == consumer[w]
        late == call[k.data].done /\ k.rollback
    IN  /\ k.status = "running" /\ ~k.cancel
        /\ k.side = "writer" => k.reply # NoReply
        /\ call' = ResolveUnlessDone(k.data, Outcome(k))
        /\ IF late THEN PutRollback(k.data) ELSE UNCHANGED rollbacks
        /\ SetConsumer(w, Looped([k EXCEPT !.rollback = @ /\ ~(late /\ Len(rollbacks) < ChannelLimit)]))
        /\ UNCHANGED <<setup, state, channel, roller, members, lastSpawn, checks, store>>

\* The reply arrives while draining.  What is queued for a late write is the
\* rollback of task_data, the last task of the loop; without one the coroutine ends
\* with an unbound variable.
ReplyLast(w) ==
    LET k == consumer[w]
        late == call[k.last].done /\ k.side = "writer" /\ HasRollback(k.last)
    IN  /\ k.status = "last"
        /\ k.side = "writer" => k.reply # NoReply
        /\ call' = ResolveUnlessDone(k.last, Outcome(k))
        /\ IF late /\ k.data # NoCall THEN PutRollback(k.data) ELSE UNCHANGED rollbacks
        /\ SetConsumer(w, IF late /\ k.data = NoCall THEN Finished(k)
                                                     ELSE [k EXCEPT !.status = "draining"])
        /\ UNCHANGED <<setup, state, channel, roller, members, lastSpawn, checks, store>>

\* The command fails, executed by the server or not: the waiter gets None.
Fail(w) ==
    LET k == consumer[w]
    IN  /\ setup.errors
        /\ k.status \in {"running", "last"} /\ ~k.cancel
        /\ call' = ResolveUnlessDone(Executes(w), "none")
        /\ SetConsumer(w, IF k.status = "running" THEN Looped(k) ELSE [k EXCEPT !.status = "draining"])
        /\ UNCHANGED <<setup, state, channel, rollbacks, roller, members, lastSpawn, checks, store>>

\* CancelledError, for a rebalancing: the coroutine breaks out of its loop and leaves
\* the waiter of the command in hand alone, executed by the server or not.
Trapped(w) ==
    LET k == consumer[w]
        c == k.data
        unsettled == k.status = "running" /\ k.side = "writer" /\ k.reply = NoReply
    IN  /\ k.cancel /\ k.trap /\ k.status \in {"idle", "running"}
        /\ SetConsumer(w, Finished(k))
        /\ call' = IF k.status = "running" THEN [call EXCEPT ![c].cut = TRUE] ELSE call
        /\ \/ UNCHANGED store
           \/ unsettled /\ store' = Written(c)
        /\ UNCHANGED <<setup, state, channel, rollbacks, roller, members, lastSpawn, checks>>

\* CancelledError, at shutdown: a rollback still in the variable is queued, then the
\* rest of the channel is worked off.
Cancelled(w) ==
    LET k == consumer[w]
    IN  /\ k.cancel /\ ~k.trap /\ k.status = "idle"
        /\ IF k.rollback THEN PutRollback(k.data) ELSE UNCHANGED rollbacks
        /\ SetConsumer(w, [k EXCEPT !.status = "draining", !.cancel = FALSE])
        /\ UNCHANGED <<setup, state, call, channel, roller, members, lastSpawn, checks, store>>

Drained(w) ==
    /\ consumer[w].status = "draining"
    /\ channel[consumer[w].side] = << >>
    /\ SetConsumer(w, Finished(consumer[w]))
    /\ UNCHANGED <<setup, state, call, channel, rollbacks, roller, members, lastSpawn, checks, store>>
-----------------------------------------------------------------------------
(* The rollback consumer *)

RollbackTake ==
    /\ roller.pc \in {"idle", "draining"}
    /\ rollbacks # << >>
    /\ roller' = [pc |-> IF roller.pc = "idle" THEN "running" ELSE "last", undoes |-> Head(rollbacks)]
    /\ rollbacks' = Tail(rollbacks)
    /\ UNCHANGED <<setup, state, call, channel, poolVars, lastSpawn, checks, store>>

\* The keys are deleted, or the operation fails and is given up.
RollbackDone ==
    /\ roller.pc \in {"running", "last"}
    /\ \/ store' = [k \in Keys |-> IF k \in setup.keys[roller.undoes]
                                   THEN [by |-> roller.undoes, there |-> FALSE] ELSE store[k]]
       \/ setup.errors /\ UNCHANGED store
    /\ roller' = [roller EXCEPT !.pc = IF roller.pc = "running" /\ state # "closing" THEN "idle"
                                                                                   ELSE "draining"]
    /\ UNCHANGED <<setup, state, call, channel, rollbacks, poolVars, lastSpawn, checks>>

RollbackDrained ==
    /\ roller.pc = "draining"
    /\ rollbacks = << >>
    /\ roller' = [roller EXCEPT !.pc = "gone"]
    /\ UNCHANGED <<setup, state, call, channel, rollbacks, poolVars, lastSpawn, checks, store>>

-----------------------------------------------------------------------------
(* The timer: maybe_rebalance and delay_checker *)

\* A pool is a pair of consumers and members.  Spawned adds n new consumers.
Spawned(pool, side, n) ==
    LET unused == {w \in Consumers : pool.consumer[w].status = "none"}
        new == {w \in unused : Cardinality({v \in unused : v <= w}) <= n}
    IN  [consumer |-> [w \in Consumers |-> IF w \in new THEN Started(side) ELSE pool.consumer[w]],
         members  |-> [pool.members EXCEPT ![side] = @ \cup new]]

\* Consumers that wait or execute are trapped, cancelled and listed on the other side.
Moved(pool, from, chosen) ==
    [consumer |-> [w \in Consumers |-> IF w \in chosen
                     THEN [pool.consumer[w] EXCEPT !.trap = TRUE, !.cancel = TRUE] ELSE pool.consumer[w]],
     members  |-> [s \in Sides |-> IF s = from THEN pool.members[s] \ chosen
                                              ELSE pool.members[s] \cup chosen]]

Size(pool, side) == Cardinality(pool.members[side])
Workers(pool) == Size(pool, "reader") + Size(pool, "writer")

\* How many consumers may leave a side.
CanMove(pool, from) ==
    IF from \in lastSpawn THEN Size(pool, from) \div 4
                          ELSE Size(pool, from) - (IF from = "writer" THEN 2 ELSE 1)

\* The pools after `need` more consumers were asked for on side `to`; the deque order
\* that picks the ones to move is left open.
Rebalanced(pool, to, need) ==
    LET from == Other(to)
        movable == {w \in pool.members[from] : pool.consumer[w].status \in {"idle", "running"}}
        wanted == Min({need, CanMove(pool, from)})
        moved == IF wanted > 0 THEN Min({wanted, Cardinality(movable)}) ELSE 0
        spawned == Min({TotalConnections - Workers(pool), need - moved})
    IN  {Spawned(Moved(pool, from, chosen), to, Max({spawned, 0})) : chosen \in kSubset(moved, movable)}

\* maybe_rebalance: the delays decide which side needs how many, or none.
MaybeRebalance(pool) ==
    {pool} \cup UNION {Rebalanced(pool, to, need) :
                         to \in Sides, need \in 1 .. Workers(pool)}

\* READER_RATIO is 0.3.
ReaderShare(n) == (3 * n) \div 10
WriterShare(n) == (7 * n) \div 10

\* More consumers for the sides whose average delay is too long (slow); busy tells
\* whether more than ten calls came in on that side since the last check.
Grown(pool, slow, busy) ==
    LET room == 2 * TotalConnections - Workers(pool)
        half(side) == Size(pool, side) \div 2
        readers == IF "reader" \in lastSpawn THEN Max({ReaderShare(room), 1})
                                             ELSE Max({Min({ReaderShare(room), half("reader")}), 1})
        writers == IF "writer" \in lastSpawn THEN Max({WriterShare(room), 1})
                                             ELSE Max({Min({WriterShare(room), half("writer")}), 1})
    IN  CASE room = 0 -> pool
          [] room # 0 /\ slow = Sides ->
                Spawned(Spawned(pool, "reader", Min({ReaderShare(room), Max({half("reader"), 1})})),
                        "writer", Min({room - ReaderShare(room), Max({half("writer"), 1})}))
          [] room # 0 /\ slow = {"reader"} /\ ("reader" \in lastSpawn => "reader" \in busy) ->
                Spawned(pool, "reader", readers)
          [] room # 0 /\ slow = {"writer"} /\ ("writer" \in lastSpawn => "writer" \in busy) ->
                Spawned(pool, "writer", writers)
          [] OTHER -> pool

\* One run of the timer; the cancellations of the run before have been delivered.
DelayChecker ==
    /\ Accepting
    /\ checks < setup.checks
    /\ \A w \in Consumers : ~consumer[w].cancel
    /\ checks' = checks + 1
    /\ \E pool \in MaybeRebalance([consumer |-> consumer, members |-> members]),
          slow, busy \in SUBSET Sides :
          LET grown == Grown(pool, slow, busy)
          IN  /\ consumer' = grown.consumer
              /\ members' = grown.members
              /\ lastSpawn' = IF \/ Workers(pool) = 2 * TotalConnections
                                 \/ slow # Sides /\ slow \cap lastSpawn # {} /\ ~(slow \subseteq busy)
                              THEN lastSpawn ELSE slow
    /\ UNCHANGED <<setup, state, call, channel, rollbacks, roller, store>>

\* monitor: every five seconds the outcome of a ping.  It is left out of the situations
\* that start warm: no other code tells the two states apart.
Monitor ==
    /\ Accepting /\ setup.errors /\ ~setup.warm
    /\ state' = IF state = "connected" THEN "disconnected" ELSE "connected"
    /\ UNCHANGED <<setup, call, channel, rollbacks, roller, poolVars, lastSpawn, checks, store>>

-----------------------------------------------------------------------------
(* __aexit__ *)

\* Consumers that are waiting are cancelled; the ones that execute are left alone.
Close ==
    /\ setup.mayClose /\ Accepting
    /\ state' = "closing"
    /\ consumer' = [w \in Consumers |-> IF consumer[w].status \in {"ready", "idle"}
                                        THEN [consumer[w] EXCEPT !.cancel = TRUE] ELSE consumer[w]]
    /\ UNCHANGED <<setup, call, channel, rollbacks, roller, members, lastSpawn, checks, store>>

\* After the cancelled consumers, or five seconds, the rollback consumer is told to
\* finish: cancelled when it waits, otherwise it sees the state itself.
StopRollback ==
    /\ state = "closing" /\ roller.pc = "idle"
    /\ roller' = [roller EXCEPT !.pc = "draining"]
    /\ UNCHANGED <<setup, state, call, channel, rollbacks, poolVars, lastSpawn, checks, store>>

\* The rollback consumer is done, or the fifteen seconds given to it are over.
Closed ==
    /\ state = "closing" /\ roller.pc # "idle"
    /\ state' = "closed"
    /\ roller' = [roller EXCEPT !.pc = "gone"]
    /\ UNCHANGED <<setup, call, channel, rollbacks, poolVars, lastSpawn, checks, store>>

Step(w) ==
    \/ Ready(w) \/ Take(w) \/ Broken(w) \/ Apply(w) \/ Reply(w) \/ ReplyLast(w) \/ Fail(w)
    \/ Trapped(w) \/ Cancelled(w) \/ Drained(w)

Rollback == RollbackTake \/ RollbackDone \/ RollbackDrained

ServiceNext ==
    \/ \E c \in Made : Enqueued(c) \/ GiveUp(c)
    \/ \E w \in Consumers : Step(w)
    \/ Rollback \/ DelayChecker \/ Monitor
    \/ Close \/ StopRollback \/ Closed
=============================================================================
