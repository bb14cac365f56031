----------------------------- MODULE RedisClient -----------------------------
(***************************************************************************)
(* RedisClient: GET and SET go through an Aggregator, which collects       *)
(* callers for a few milliseconds, lets one of them execute the batch as   *)
(* one task of the RedisService and hands the results to all of them; the  *)
(* other commands are tasks of their own.                                  *)
(***************************************************************************)
EXTENDS RedisService

CONSTANTS
    Members,   \* the callers of redis_get or redis_set
    MaxCount   \* max_count of the aggregator

\* batched  the calls that stand for batches; the others are made directly
\* members  the callers of the aggregator
\* cancels  whether a caller may be cancelled
ASSUME ClientAssumption ==
    /\ MaxCount \in Nat \ {0}
    /\ \A s \in Setups :
          /\ s.batched \subseteq DOMAIN s.op
          /\ s.members \subseteq Members
          /\ s.cancels \in BOOLEAN
          /\ \A b, d \in s.batched : s.op[b] = s.op[d] /\ s.op[b] # "setnx"

VARIABLES
    member,    \* caller -> where it is and the batch it joined
    open       \* _args, _futures: the batch that is being collected

clientVars == <<member, open>>
vars == <<setup, serviceVars, clientVars>>

Init ==
    /\ ServiceInit
    /\ member = [m \in Members |-> [pc |-> "idle", batch |-> NoCall]]
    /\ open = NoCall

Joined(b) == {m \in Members : member[m].batch = b}
Answered == {"ok", "none", "timeout"}

\* A command that is not aggregated.
Direct(c) ==
    /\ c \notin setup.batched
    /\ Request(c)
    /\ UNCHANGED clientVars

\* The batch is closed and m, who has taken its lock, executes it; the others wait
\* for their futures.
Run(b, m) ==
    /\ open' = NoCall
    /\ member' = [x \in Members |->
          CASE x = m -> [pc |-> "executing", batch |-> b]
            [] x # m /\ member[x] = [pc |-> "joined", batch |-> b] -> [pc |-> "awaiting", batch |-> b]
            [] OTHER -> member[x]]

\* A caller joins the open batch, or the first unused one; with max_count callers it
\* executes the batch itself.
Join(m) ==
    \E b \in setup.batched :
        /\ m \in setup.members /\ member[m].pc = "idle"
        /\ IF open = NoCall THEN call[b].pc = "idle" /\ Joined(b) = {} ELSE b = open
        /\ \/ /\ Cardinality(Joined(b)) + 1 = MaxCount
              /\ Run(b, m)
              /\ Request(b)
           \/ /\ Cardinality(Joined(b)) + 1 < MaxCount
              /\ open' = b
              /\ member' = [member EXCEPT ![m] = [pc |-> "joined", batch |-> b]]
              /\ UNCHANGED <<setup, serviceVars>>

\* The batch was begun by a caller that is gone, long ago: too little of its time is
\* left, so that the caller is answered before the task is executed.
RequestLate(b) ==
    /\ \E x \in Joined(b) : member[x].pc = "gone"
    /\ Accepting /\ HasRoom(b) /\ Enqueue(b, "blocked")
    /\ UNCHANGED <<setup, state, rollbacks, roller, poolVars, lastSpawn, checks, store>>

\* The leeway is over; the first caller to wake up executes the batch.
Fire(m) ==
    /\ open # NoCall /\ member[m] = [pc |-> "joined", batch |-> open]
    /\ Run(open, m)
    /\ Request(open) \/ RequestLate(open)

\* What the callers of a batch are told.
Answer(b) == CASE call[b].pc = "ok" -> "ok"
               [] call[b].pc = "timeout" -> "timeout"
               [] OTHER -> "none"

\* A batched read that failed yields None where _execute expects one result per
\* future: the executing caller gets a TypeError, and the futures stay pending.
NoResults(b) == setup.op[b] = "get" /\ Cardinality(Joined(b)) > 1 /\ call[b].pc = "none"

\* _execute is over: every future is resolved.
Return(m) ==
    LET b == member[m].batch
    IN  /\ member[m].pc = "executing"
        /\ call[b].pc \in {"ok", "none", "timeout", "blocked", "refused"}
        /\ member' = IF NoResults(b)
                     THEN [member EXCEPT ![m].pc = "raised"]
                     ELSE [x \in Members |-> IF x \in Joined(b) /\ member[x].pc \in {"awaiting", "executing"}
                                             THEN [member[x] EXCEPT !.pc = Answer(b)] ELSE member[x]]
        /\ UNCHANGED <<setup, serviceVars, open>>

\* The task of a caller is cancelled.  When it executes the batch, the task of the
\* batch loses its waiter, or is never queued, and nobody resolves the futures.
Cancel(m) ==
    LET b == member[m].batch
    IN  /\ setup.cancels
        /\ member[m].pc \in {"joined", "awaiting", "executing"}
        /\ member' = [member EXCEPT ![m].pc = "gone"]
        /\ call' = IF member[m].pc = "executing" /\ call[b].pc \in {"putting", "waiting"}
                   THEN [call EXCEPT ![b].pc = "timeout", ![b].done = TRUE] ELSE call
        /\ UNCHANGED <<setup, state, channel, rollbacks, roller, poolVars, lastSpawn, checks, store, open>>

Next ==
    \/ \E c \in Made : Direct(c)
    \/ \E m \in Members : Join(m) \/ Fire(m) \/ Return(m) \/ Cancel(m)
    \/ ServiceNext /\ UNCHANGED clientVars

\* Every coroutine that can go on does; the leeway of a batch ends.
Fairness ==
    /\ \A w \in Consumers : WF_vars(Step(w) /\ UNCHANGED clientVars)
    /\ WF_vars(Rollback /\ UNCHANGED clientVars)
    /\ \A c \in Calls : WF_vars(c \in Made /\ Enqueued(c) /\ UNCHANGED clientVars)
    /\ \A m \in Members : WF_vars(Fire(m)) /\ WF_vars(Return(m))

Spec == Init /\ [][Next]_vars /\ Fairness

-----------------------------------------------------------------------------
(* Properties *)

CallState == {"idle", "putting", "waiting", "blocked", "ok", "taken", "none", "timeout", "refused"}

\* Every variable has its type.
TypeOK ==
    /\ state \in {"connected", "disconnected", "closing", "closed"}
    /\ call \in [Calls -> [pc : CallState, done : BOOLEAN, cut : BOOLEAN]]
    /\ \A s \in Sides : Len(channel[s]) <= ChannelLimit
    /\ Len(rollbacks) <= ChannelLimit
    /\ members \in [Sides -> SUBSET Consumers]
    /\ store \in [Keys -> [by : Calls \cup {NoCall}, there : BOOLEAN]]
    /\ member \in [Members -> [pc : {"idle", "joined", "executing", "awaiting", "raised", "gone"} \cup Answered,
                               batch : Calls \cup {NoCall}]]

\* The write of c is at key k.  Otherwise the last command there belongs to another
\* call, and when that one deleted the key it was the rollback of a write whose caller
\* was not told of success ("this will cause inconsistency", cache_service.writer).
StandsAt(c, k) ==
    IF store[k].by = c THEN store[k].there
                       ELSE store[k].by # NoCall /\ (store[k].there \/ call[store[k].by].pc # "ok")

\* A caller that was told of success finds its write at the server, until another
\* call writes the key or is rolled back there: the write was executed, it is never
\* rolled back itself, and no other successful write is (cache_service.writer).  The
\* shutdown, which queues the rollback of the last write of each waiting writer, is
\* excepted.
SuccessIsWritten ==
    Accepting =>
        /\ \A c \in Made : call[c].pc = "ok" /\ SideOf(c) = "writer" =>
              \A k \in setup.keys[c] : StandsAt(c, k)
        /\ \A m \in Members : member[m].pc = "ok" /\ SideOf(member[m].batch) = "writer" =>
              \A k \in setup.keys[member[m].batch] : StandsAt(member[m].batch, k)

\* A task whose caller still waits is in its channel or in the hands of a consumer
\* that will answer it; only a consumer that was moved to the other side while it
\* executed the task drops one (maybe_rebalance).
WaitingIsHeld ==
    Accepting =>
        \A c \in Made : call[c].pc = "waiting" /\ ~call[c].cut =>
            \/ c \in Range(channel[SideOf(c)])
            \/ \E w \in Consumers : consumer[w].status = "running" /\ consumer[w].data = c

\* Rebalancing and spawning keep at least one reader and two writers listed, every
\* listed consumer runs on its side or is on its way there, and never more consumers
\* than twice the connections exist ("at least two writers available").
PoolIsSound ==
    Accepting =>
        /\ Cardinality(members["reader"]) >= 1 /\ Cardinality(members["writer"]) >= 2
        /\ Cardinality(members["reader"]) + Cardinality(members["writer"]) <= 2 * TotalConnections
        /\ \A s \in Sides : \A w \in members[s] :
              /\ consumer[w].status \notin {"none", "gone"}
              /\ consumer[w].side = (IF consumer[w].trap THEN Other(s) ELSE s)

\* Both: whoever waits is served by a pool that keeps its shape.
PoolServes == WaitingIsHeld /\ PoolIsSound

\* A SET whose caller was told of a timeout is in the end not at the server: dropped
\* before the execution, or rolled back after it.  Excepted are failing commands, the
\* shutdown and tasks cut off by a rebalancing.
TimeoutIsUndone ==
    \A c \in Calls :
        <>[](c \in Made /\ HasRollback(c) /\ call[c].pc = "timeout" /\ ~call[c].cut
               /\ ~setup.errors /\ ~setup.mayClose
               => \A k \in setup.keys[c] : store[k] # [by |-> c, there |-> TRUE])

\* Every caller of an aggregated command returns, in the batch of others or alone,
\* unless a caller is cancelled or a batched read fails.
EveryCallerReturns ==
    \A m \in Members :
        (member[m].pc # "idle" /\ ~setup.cancels /\ ~setup.mayClose
           /\ ~(setup.errors /\ setup.op[member[m].batch] = "get"))
           ~> member[m].pc \in Answered

\* Both: every call comes to an end, and what was given up leaves nothing behind.
CallsEnd == TimeoutIsUndone /\ EveryCallerReturns
=============================================================================
