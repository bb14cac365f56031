---------------------------- MODULE WsSession ----------------------------
(***************************************************************************)
(* The life of a websocket connection (ws_gateway): websocket_endpoint     *)
(* with the SessionManager and TaskManager of its gateway process, and     *)
(* what the processes share, the Redis hash of gateway addresses and the   *)
(* login lock.  A device that logs in while another connection of the same *)
(* kind is open kicks that one off: in the same process through its        *)
(* SessionManager, elsewhere through the push service.                     *)
(*                                                                         *)
(* Everything between two awaits is one step.  The done callbacks of a     *)
(* reader task and the wake-up of its endpoint run one after the other in  *)
(* the event loop, so they are one step as well.                           *)
(***************************************************************************)
EXTENDS Integers, Sequences, FiniteSets, TLC

LOCAL F == INSTANCE Functions

CONSTANTS
    Endpoints,   \* the connections that are made
    Gateways,    \* the gateway processes
    Keys,        \* session keys: a user and a kind of device
    Objects,     \* identities of WebsocketSession objects, a range 1 .. n
    IdleCapacity,\* __idle_capacity__ (1024 in the code)
    Setups       \* the situations to start from, described below

-----------------------------------------------------------------------------
(***************************************************************************)
(* The SessionManager and the TaskManager of a gateway process as a value. *)
(* A session object serves one session key (a user's device) at a time and *)
(* is kept in an ordered dictionary of idle objects afterwards, from which *)
(* the next login of any user may take it.                                 *)
(***************************************************************************)

NoEntry == [x \in {} |-> 0]

Without(d, k) == F!Restrict(d, DOMAIN d \ {k})

(***************************************************************************)
(* sessions  key -> session object                          (_sessions)    *)
(* idle      pairs of a key and an object, oldest first     (_idle_sessions)*)
(* waiters   key -> who waits for its session to be recycled (_waiters)    *)
(* fired     the waiters whose future has its result                       *)
(* tasks     key -> the endpoint whose reader task it is    (_tasks)       *)
(***************************************************************************)
EmptyPool ==
    [sessions |-> NoEntry, idle |-> << >>, waiters |-> NoEntry, fired |-> {},
     tasks |-> NoEntry]

IsIdle(p, k) == \E i \in DOMAIN p.idle : p.idle[i][1] = k

IdleObject(p, k) == (CHOOSE x \in {p.idle[i] : i \in DOMAIN p.idle} : x[1] = k)[2]

\* Assignment to an OrderedDict keeps the place of a key it already has.
IdlePut(idle, k, o) ==
    IF \E i \in DOMAIN idle : idle[i][1] = k
    THEN [i \in DOMAIN idle |-> IF idle[i][1] = k THEN <<k, o>> ELSE idle[i]]
    ELSE Append(idle, <<k, o>>)

IdleWithout(idle, k) == SelectSeq(idle, LAMBDA x : x[1] # k)

\* recycle_session, but for what it does to the object.
Recycle(p, k) ==
    IF k \in DOMAIN p.sessions
    THEN [p EXCEPT !.sessions = Without(@, k),
                   !.idle = IF Len(@) < IdleCapacity THEN IdlePut(@, k, p.sessions[k]) ELSE @,
                   !.fired = IF k \in DOMAIN p.waiters THEN @ \cup {p.waiters[k]} ELSE @]
    ELSE p

\* create_session: the object the key had, the oldest idle one, or a new one.
Chosen(p, k, used) ==
    CASE p.idle = << >> -> CHOOSE o \in Objects \ used : \A x \in Objects \ used : o <= x
      [] p.idle # << >> /\ IsIdle(p, k) -> IdleObject(p, k)
      [] p.idle # << >> /\ ~IsIdle(p, k) -> Head(p.idle)[2]

\* Mutant: the object stays in the pool.
CreateKeepsIdle(p, k, o) == [p EXCEPT !.sessions = (k :> o) @@ @]

Create(p, k, o) ==
    [p EXCEPT !.sessions = (k :> o) @@ @,
              !.idle = SelectSeq(@, LAMBDA x : x[2] # o)]

Reuse(p, k) ==
    [p EXCEPT !.sessions = (k :> IdleObject(p, k)) @@ @,
              !.idle = IdleWithout(@, k)]

Retrieve(p, k) ==
    IF k \in DOMAIN p.sessions
    THEN [p EXCEPT !.sessions = Without(@, k),
                   !.idle = IdlePut(@, k, p.sessions[k])]
    ELSE p

WaitFor(p, k, w) == [p EXCEPT !.waiters = (k :> w) @@ @]

\* The finally clause of wait_for_recycle drops whatever waiter the key has now.
EndWait(p, k, w) == [p EXCEPT !.waiters = Without(@, k), !.fired = @ \ {w}]

InUse(p) == {p.sessions[k] : k \in DOMAIN p.sessions} \cup {x[2] : x \in {p.idle[i] : i \in DOMAIN p.idle}}

-----------------------------------------------------------------------------
NoGateway == "none"
NoKey == "nobody"

(***************************************************************************)
(* key         endpoint -> its session key, for the connections made       *)
(* gateways    the gateways that take part                                 *)
(* orderly     whether a session ends by itself only while no login of its *)
(*             key is under way, and is over before the next one begins    *)
(* faults      whether calls of Redis may fail                             *)
(* mayShutdown whether a gateway may shut down                             *)
(* pushes      whether events are pushed to the users                      *)
(***************************************************************************)
ASSUME SessionAssumption ==
    /\ NoGateway \notin Gateways /\ NoKey \notin Keys
    /\ IdleCapacity \in Nat
    /\ \A s \in Setups :
          /\ DOMAIN s.key \subseteq Endpoints
          /\ \A e \in DOMAIN s.key : s.key[e] \in Keys
          /\ s.gateways \subseteq Gateways
          /\ {s.orderly, s.faults, s.mayShutdown, s.pushes} \subseteq BOOLEAN

VARIABLES
    setup,    \* the situation, fixed at the start
    addr,     \* Redis: key -> the gateway it is on
    lock,     \* Redis: key -> whether its login lock is set
    late,     \* Redis: writes that may still take effect after they failed
    down,     \* gateway -> SessionManager.shutdown
    pool,     \* gateway -> its SessionManager and TaskManager
    objs,     \* session object -> its state, its key and its write queue
    conn,     \* endpoint -> its coroutine
    kick,     \* endpoint -> the kick-off it asked the push service for
    missed,   \* history: a kick-off came after a login's unlock and before its reader
    stolen    \* history: a late delete has removed the lock of another login

redisVars == <<addr, lock, late>>
histories == <<missed, stolen>>
vars == <<setup, redisVars, down, pool, objs, conn, kick, histories>>

NoObject == 0

Fresh == [state |-> "idle", key |-> NoKey, queue |-> {}]
Unborn == [pc |-> "unborn", gw |-> NoGateway, obj |-> NoObject, then |-> "gone", cancelled |-> FALSE]
Gone == [Unborn EXCEPT !.pc = "gone"]
NoKick == [pc |-> "none", gw |-> NoGateway]

Init ==
    /\ setup \in Setups
    /\ addr = [k \in Keys |-> NoGateway]
    /\ lock = [k \in Keys |-> FALSE]
    /\ late = {}
    /\ down = [g \in Gateways |-> FALSE]
    /\ pool = [g \in Gateways |-> EmptyPool]
    /\ objs = [o \in Objects |-> Fresh]
    /\ conn = [e \in Endpoints |-> Unborn]
    /\ kick = [e \in Endpoints |-> NoKick]
    /\ missed = FALSE
    /\ stolen = FALSE

-----------------------------------------------------------------------------
KeyOf(e) == setup.key[e]
GwOf(e)  == conn[e].gw
Made     == DOMAIN setup.key

LoginPcs == {"authing", "checking", "asking", "kicking", "activating", "greeting",
             "withdrawing", "askingLocal", "waiting", "rebinding", "unlocking"}

LoggingIn(k) == {e \in Made : KeyOf(e) = k /\ conn[e].pc \in LoginPcs \cup {"locking", "unlocked"}}
Ending(k)    == {e \in Made : KeyOf(e) = k /\ conn[e].pc \in {"closing", "deactivating"}}
Reading(e)   == e \in Made /\ conn[e].pc = "reading"

Used == UNION {InUse(pool[g]) : g \in Gateways} \cup {conn[e].obj : e \in Endpoints}

At(e, pc) == conn[e].pc = pc
Goto(e, pc) == conn' = [conn EXCEPT ![e].pc = pc]

\* `return` inside the block of lock_session: the lock is still to be released.
Leave(e) == conn' = [conn EXCEPT ![e].pc = "unlocking", ![e].then = "gone"]

\* session.clear(), for the object that k has at g.
Cleared(g, k) ==
    IF k \in DOMAIN pool[g].sessions
    THEN [objs EXCEPT ![pool[g].sessions[k]].state = "idle", ![pool[g].sessions[k]].key = NoKey]
    ELSE objs

RecycleSession(g, k) ==
    /\ pool' = [pool EXCEPT ![g] = Recycle(@, k)]
    /\ objs' = Cleared(g, k)

\* A login that has a session registered gives it back and returns.
Abandon(e) ==
    /\ RecycleSession(GwOf(e), KeyOf(e))
    /\ Leave(e)

-----------------------------------------------------------------------------
(* The login, under the lock of the session key *)

\* Headers that before_handshake rejects change nothing and are left out.
Connect(e, g) ==
    /\ e \in Made /\ At(e, "unborn")
    /\ g \in setup.gateways /\ ~down[g]
    /\ setup.orderly => Ending(KeyOf(e)) = {}
    /\ conn' = [conn EXCEPT ![e].pc = "locking", ![e].gw = g]
    /\ UNCHANGED <<setup, redisVars, down, pool, objs, kick, histories>>

SetLock(e) ==
    /\ At(e, "locking")
    /\ lock' = [lock EXCEPT ![KeyOf(e)] = TRUE]
    /\ conn' = [conn EXCEPT ![e] = CASE lock[KeyOf(e)] -> Gone
                                     [] ~lock[KeyOf(e)] /\ ~down[GwOf(e)] -> [@ EXCEPT !.pc = "authing"]
                                     [] ~lock[KeyOf(e)] /\ down[GwOf(e)] -> [@ EXCEPT !.pc = "unlocking"]]
    /\ UNCHANGED <<setup, addr, late, down, pool, objs, kick, histories>>

\* The call fails, with or without having set the key.
SetLockFails(e) ==
    /\ At(e, "locking") /\ setup.faults
    /\ lock' \in {lock, [lock EXCEPT ![KeyOf(e)] = TRUE]}
    /\ conn' = [conn EXCEPT ![e] = Gone]
    /\ UNCHANGED <<setup, addr, late, down, pool, objs, kick, histories>>

\* websocket_upgrade succeeds: the key's session is found, or one is created.
Upgrade(e) ==
    LET g == GwOf(e)
        k == KeyOf(e)
        o == IF k \in DOMAIN pool[g].sessions THEN pool[g].sessions[k] ELSE Chosen(pool[g], k, Used)
    IN  /\ At(e, "authing")
        /\ IF k \in DOMAIN pool[g].sessions
           THEN /\ conn' = [conn EXCEPT ![e].pc = "askingLocal", ![e].obj = o]
                /\ UNCHANGED <<pool, objs>>
           ELSE /\ conn' = [conn EXCEPT ![e].pc = "checking", ![e].obj = o]
                /\ pool' = [pool EXCEPT ![g] = Create(@, k, o)]
                /\ objs' = [objs EXCEPT ![o] = IF pool[g].idle = << >> THEN [Fresh EXCEPT !.key = k]
                                               ELSE [@ EXCEPT !.key = k]]
        /\ UNCHANGED <<setup, redisVars, down, kick, histories>>

\* The token is not accepted, or the device declines to replace a session of this
\* process, does not answer or is lost.
TurnAway(e) ==
    /\ conn[e].pc \in {"authing", "askingLocal"}
    /\ Leave(e)
    /\ UNCHANGED <<setup, redisVars, down, pool, objs, kick, histories>>

\* check_multi_devices up to the negotiation.
CheckMultiDevices(e) ==
    /\ At(e, "checking")
    /\ Goto(e, IF addr[KeyOf(e)] = NoGateway THEN "activating" ELSE "asking")
    /\ UNCHANGED <<setup, redisVars, down, pool, objs, kick, histories>>

\* negotiate_kick_off: the device agrees, and the push service is called.
KickOffElsewhere(e) ==
    /\ At(e, "asking")
    /\ Goto(e, "kicking")
    /\ kick' = [kick EXCEPT ![e].pc = "called"]
    /\ UNCHANGED <<setup, redisVars, down, pool, objs, histories>>

\* push_data returns True: PUSH_SUCCESS or PUSH_OFFLINE.
KickedElsewhere(e) ==
    /\ At(e, "kicking") /\ kick[e].pc = "done"
    /\ kick' = [kick EXCEPT ![e] = NoKick]
    /\ IF down[GwOf(e)] THEN Abandon(e) ELSE Goto(e, "activating") /\ UNCHANGED <<pool, objs>>
    /\ UNCHANGED <<setup, redisVars, down, histories>>

\* hget fails; the device declines, does not answer or is lost; or push_data
\* fails or times out, in which case what it began goes on.
GiveUp(e) ==
    /\ \/ At(e, "checking") /\ setup.faults
       \/ At(e, "asking")
       \/ At(e, "kicking") /\ kick[e].pc # "done"
    /\ Abandon(e)
    /\ UNCHANGED <<setup, redisVars, down, kick, histories>>

Activate(e) ==
    /\ At(e, "activating")
    /\ addr' = [addr EXCEPT ![KeyOf(e)] = GwOf(e)]
    /\ IF down[GwOf(e)] THEN Abandon(e) ELSE Goto(e, "greeting") /\ UNCHANGED <<pool, objs>>
    /\ UNCHANGED <<setup, lock, late, down, kick, histories>>

\* A write that timed out may be carried out later and is rolled back then.
ActivateFails(e) ==
    /\ At(e, "activating") /\ setup.faults
    /\ late' \in {late, late \cup {<<"hset", KeyOf(e), GwOf(e)>>}}
    /\ Abandon(e)
    /\ UNCHANGED <<setup, addr, lock, down, kick, histories>>

\* The device is told that it is logged in.
Greet(e) ==
    /\ At(e, "greeting")
    /\ conn' = [conn EXCEPT ![e].pc = "unlocking", ![e].then = "unlocked"]
    /\ UNCHANGED <<setup, redisVars, down, pool, objs, kick, histories>>

GreetFails(e) ==
    /\ At(e, "greeting")
    /\ RecycleSession(GwOf(e), KeyOf(e))
    /\ Goto(e, "withdrawing")
    /\ UNCHANGED <<setup, redisVars, down, kick, histories>>

(* A session of the key is registered in this process *)

\* The reader of the key's session, if it has one, is cancelled.
Cancelled(g, k) ==
    IF k \in DOMAIN pool[g].tasks
    THEN [conn EXCEPT ![pool[g].tasks[k]].cancelled = TRUE]
    ELSE conn

\* negotiate_kick_off, cancel, SESSION_CLOSING and wait_for_recycle, which
\* returns at once when the session is gone by now.
KickOffHere(e) ==
    LET g == GwOf(e)
        k == KeyOf(e)
        waits == k \in DOMAIN pool[g].sessions
    IN  /\ At(e, "askingLocal")
        /\ objs' = [objs EXCEPT ![conn[e].obj].state = "closing"]
        /\ pool' = IF waits THEN [pool EXCEPT ![g] = WaitFor(@, k, <<"login", e>>)] ELSE pool
        /\ conn' = [Cancelled(g, k) EXCEPT ![e].pc = IF waits THEN "waiting" ELSE "unlocking"]
        /\ UNCHANGED <<setup, redisVars, down, kick, histories>>

\* wait_for_recycle returns True: the object is taken out of the pool again,
\* unless another login was faster or the pool had no room for it.
Recycled(e) ==
    LET g == GwOf(e)
        k == KeyOf(e)
        p == EndWait(pool[g], k, <<"login", e>>)
    IN  /\ At(e, "waiting") /\ <<"login", e>> \in pool[g].fired
        /\ IF IsIdle(p, k)
           THEN /\ pool' = [pool EXCEPT ![g] = Reuse(p, k)]
                /\ conn' = [conn EXCEPT ![e].pc = "rebinding", ![e].obj = IdleObject(p, k)]
           ELSE /\ pool' = [pool EXCEPT ![g] = p]
                /\ Leave(e)
        /\ UNCHANGED <<setup, redisVars, down, objs, kick, histories>>

WaitTimeout(e) ==
    /\ At(e, "waiting") /\ <<"login", e>> \notin pool[GwOf(e)].fired
    /\ pool' = [pool EXCEPT ![GwOf(e)] = EndWait(@, KeyOf(e), <<"login", e>>)]
    /\ Leave(e)
    /\ UNCHANGED <<setup, redisVars, down, objs, kick, histories>>

Rebind(e) ==
    /\ At(e, "rebinding")
    /\ objs' = [objs EXCEPT ![conn[e].obj].key = KeyOf(e)]
    /\ conn' = [conn EXCEPT ![e].pc = "unlocking", ![e].then = "unlocked"]
    /\ UNCHANGED <<setup, redisVars, down, pool, kick, histories>>

RebindFails(e) ==
    /\ At(e, "rebinding")
    /\ pool' = [pool EXCEPT ![GwOf(e)] = Retrieve(@, KeyOf(e))]
    /\ Leave(e)
    /\ UNCHANGED <<setup, redisVars, down, objs, kick, histories>>

(* The end of the login *)

AfterUnlock(e) ==
    conn' = [conn EXCEPT ![e] = IF @.then = "gone" THEN Gone ELSE [@ EXCEPT !.pc = conn[e].then]]

\* Mutant: a login that gives up keeps the lock.
UnlockOnSuccess(e) ==
    /\ At(e, "unlocking")
    /\ lock' = [lock EXCEPT ![KeyOf(e)] = @ /\ conn[e].then = "gone"]
    /\ AfterUnlock(e)
    /\ UNCHANGED <<setup, addr, late, down, pool, objs, kick, histories>>

Unlock(e) ==
    /\ At(e, "unlocking")
    /\ lock' = [lock EXCEPT ![KeyOf(e)] = FALSE]
    /\ AfterUnlock(e)
    /\ UNCHANGED <<setup, addr, late, down, pool, objs, kick, histories>>

\* The delete fails, having had its effect or not, and is tried once more by a
\* task of its own.
UnlockFails(e) ==
    /\ At(e, "unlocking") /\ setup.faults
    /\ lock' \in {lock, [lock EXCEPT ![KeyOf(e)] = FALSE]}
    /\ late' = late \cup {<<"unlock", KeyOf(e), NoGateway>>}
    /\ AfterUnlock(e)
    /\ UNCHANGED <<setup, addr, down, pool, objs, kick, histories>>

\* The reader task is created.  A closed TaskManager has no table to put it in.
Enter(e) ==
    LET g == GwOf(e)
    IN  /\ At(e, "unlocked")
        /\ IF down[g]
           THEN /\ conn' = [conn EXCEPT ![e] = Gone]
                /\ UNCHANGED <<pool, objs>>
           ELSE /\ Goto(e, "reading")
                /\ pool' = [pool EXCEPT ![g].tasks = (KeyOf(e) :> e) @@ @]
                /\ objs' = [objs EXCEPT ![conn[e].obj].state = "active"]
        /\ UNCHANGED <<setup, redisVars, down, kick, histories>>

-----------------------------------------------------------------------------
(* The session *)

(***************************************************************************)
(* The reader task ends: the TaskManager forgets it, the writer is         *)
(* cancelled and empties its queue, the session is recycled, and the       *)
(* endpoint wakes up and runs to its next await.  A cancelled task may     *)
(* have been about to end by itself.                                       *)
(***************************************************************************)
ReaderEnds(e, why) ==
    LET g == GwOf(e)
        k == KeyOf(e)
        o == conn[e].obj
        closed == why # "cancelled" \/ down[g]
    IN  /\ At(e, "reading")
        /\ IF why = "cancelled" THEN conn[e].cancelled
           ELSE setup.orderly => LoggingIn(k) = {}
        /\ pool' = [pool EXCEPT ![g] = [Recycle(@, k) EXCEPT !.tasks = Without(@, k)]]
        /\ objs' = [Cleared(g, k) EXCEPT ![o].queue = {},
                                         ![o].state = IF closed THEN "closed" ELSE @]
        /\ Goto(e, IF why = "disconnect" \/ (why = "cancelled" /\ down[g])
                   THEN "deactivating" ELSE "closing")
        /\ UNCHANGED <<setup, redisVars, down, kick, histories>>

\* websocket.close returns; the state of the object decides what is left to do.
Closed(e) ==
    /\ At(e, "closing")
    /\ conn' = [conn EXCEPT ![e] = IF objs[@.obj].state = "closed"
                                   THEN [@ EXCEPT !.pc = "deactivating"] ELSE Gone]
    /\ UNCHANGED <<setup, redisVars, down, pool, objs, kick, histories>>

AfterDeactivate(e) ==
    IF At(e, "withdrawing") THEN Leave(e) ELSE conn' = [conn EXCEPT ![e] = Gone]

Deactivate(e) ==
    /\ conn[e].pc \in {"deactivating", "withdrawing"}
    /\ addr' = [addr EXCEPT ![KeyOf(e)] = NoGateway]
    /\ AfterDeactivate(e)
    /\ UNCHANGED <<setup, lock, late, down, pool, objs, kick, histories>>

\* The delete fails and is tried once more by a task of its own; a gateway that
\* shuts down may have closed its Redis client by now.
DeactivateFails(e) ==
    /\ conn[e].pc \in {"deactivating", "withdrawing"}
    /\ setup.faults \/ down[GwOf(e)]
    /\ late' \in {late, late \cup {<<"hdel", KeyOf(e), NoGateway>>}}
    /\ AfterDeactivate(e)
    /\ UNCHANGED <<setup, addr, lock, down, pool, objs, kick, histories>>

-----------------------------------------------------------------------------
(* The kick-off of another gateway, and events for the users *)

\* The push service looks up where the key is and sends the event there.
LookUp(e) ==
    LET g == addr[KeyOf(e)]
    IN  /\ kick[e].pc = "called"
        /\ kick' = [kick EXCEPT ![e] = [pc |-> IF g = NoGateway THEN "done" ELSE "sent", gw |-> g]]
        /\ UNCHANGED <<setup, redisVars, down, pool, objs, conn, histories>>

\* Mutant: the event is confirmed without waiting for the session to be recycled.
KickOffAtOnce(e) ==
    LET g == kick[e].gw
        k == KeyOf(e)
    IN  /\ kick[e].pc = "sent" /\ ~down[g]
        /\ conn' = Cancelled(g, k)
        /\ kick' = [kick EXCEPT ![e].pc = "done"]
        /\ UNCHANGED <<setup, redisVars, down, pool, objs, histories>>

\* _user_kicked_off_handler: without a reader task the event is confirmed at once.
KickOff(e) ==
    LET g == kick[e].gw
        k == KeyOf(e)
        found == k \in DOMAIN pool[g].tasks
    IN  /\ kick[e].pc = "sent" /\ ~down[g]
        /\ conn' = Cancelled(g, k)
        /\ IF found
           THEN /\ objs' = [objs EXCEPT ![pool[g].sessions[k]].state = "closing"]
                /\ pool' = [pool EXCEPT ![g] = WaitFor(@, k, <<"kick", e>>)]
                /\ UNCHANGED missed
           ELSE /\ missed' = (missed \/ \E x \in LoggingIn(k) : At(x, "unlocked") /\ GwOf(x) = g)
                /\ UNCHANGED <<objs, pool>>
        /\ kick' = [kick EXCEPT ![e].pc = IF found THEN "waiting" ELSE "done"]
        /\ UNCHANGED <<setup, redisVars, down, stolen>>

\* wait_for_recycle of the handler: confirmed, or given up after five seconds.
KickOffEnds(e) ==
    LET g == kick[e].gw
        w == <<"kick", e>>
    IN  /\ kick[e].pc = "waiting"
        /\ kick' = [kick EXCEPT ![e].pc = IF w \in pool[g].fired THEN "done" ELSE "lost"]
        /\ pool' = [pool EXCEPT ![g] = EndWait(@, KeyOf(e), w)]
        /\ UNCHANGED <<setup, redisVars, down, objs, conn, histories>>

\* A user handler puts an event into the queue of the key's session, if that is
\* `active`.  A user with another device here gets events at any time.
Push(g, k) ==
    /\ setup.pushes /\ ~down[g]
    /\ k \in DOMAIN pool[g].sessions
    /\ objs[pool[g].sessions[k]].state \in {"idle", "active"}
    /\ objs' = [objs EXCEPT ![pool[g].sessions[k]].queue = @ \cup {k}]
    /\ UNCHANGED <<setup, redisVars, down, pool, conn, kick, histories>>

WriteMessages(e) ==
    /\ At(e, "reading")
    /\ objs[conn[e].obj].queue # {}
    /\ objs' = [objs EXCEPT ![conn[e].obj].queue = {}]
    /\ UNCHANGED <<setup, redisVars, down, pool, conn, kick, histories>>

-----------------------------------------------------------------------------
(* Redis and the process *)

LateEffect ==
    \E w \in late :
        LET op == w[1]
            k  == w[2]
        IN  /\ addr' = CASE op = "hset" -> [addr EXCEPT ![k] = w[3]]
                         [] op = "hdel" -> [addr EXCEPT ![k] = NoGateway]
                         [] op = "unlock" -> addr
            /\ lock' = IF op = "unlock" THEN [lock EXCEPT ![k] = FALSE] ELSE lock
            /\ late' = (late \ {w}) \cup IF op = "hset" THEN {<<"hdel", k, NoGateway>>} ELSE {}
            /\ stolen' = (stolen \/ (op = "unlock" /\ \E e \in Made : KeyOf(e) = k /\ conn[e].pc \in LoginPcs))
            /\ UNCHANGED <<setup, down, pool, objs, conn, kick, missed>>

\* lifespan: shutdown is set, then the TaskManager cancels every reader.
Shutdown(g) ==
    /\ setup.mayShutdown
    /\ g \in setup.gateways /\ ~down[g]
    /\ down' = [down EXCEPT ![g] = TRUE]
    /\ conn' = [e \in Endpoints |-> [conn[e] EXCEPT !.cancelled = @ \/ (conn[e].pc = "reading" /\ conn[e].gw = g)]]
    /\ UNCHANGED <<setup, redisVars, pool, objs, kick, histories>>

Login(e) ==
    \/ SetLock(e) \/ SetLockFails(e)
    \/ Upgrade(e) \/ TurnAway(e)
    \/ CheckMultiDevices(e) \/ KickOffElsewhere(e) \/ KickedElsewhere(e) \/ GiveUp(e)
    \/ Activate(e) \/ ActivateFails(e)
    \/ Greet(e) \/ GreetFails(e)
    \/ KickOffHere(e) \/ Recycled(e) \/ WaitTimeout(e)
    \/ Rebind(e) \/ RebindFails(e)
    \/ Deactivate(e) \/ DeactivateFails(e)
    \/ Unlock(e) \/ UnlockFails(e)

Next ==
    \/ \E e \in Endpoints :
          \/ \E g \in Gateways : Connect(e, g)
          \/ Login(e)
          \/ Enter(e)
          \/ \E why \in {"cancelled", "disconnect", "error"} : ReaderEnds(e, why)
          \/ Closed(e)
          \/ LookUp(e) \/ KickOff(e) \/ KickOffEnds(e)
          \/ WriteMessages(e)
    \/ \E g \in Gateways, k \in Keys : Push(g, k)
    \/ LateEffect
    \/ \E g \in Gateways : Shutdown(g)

\* Every call a login awaits returns or times out.
Spec == Init /\ [][Next]_vars /\ \A e \in Endpoints : WF_vars(Login(e))

-----------------------------------------------------------------------------
Pcs == LoginPcs \cup {"unborn", "locking", "unlocked", "reading", "closing", "deactivating", "gone"}

TypeOK ==
    /\ addr \in [Keys -> Gateways \cup {NoGateway}]
    /\ lock \in [Keys -> BOOLEAN]
    /\ late \subseteq {"hset", "hdel", "unlock"} \X Keys \X (Gateways \cup {NoGateway})
    /\ \A e \in Endpoints :
          /\ conn[e].pc \in Pcs
          /\ conn[e].gw \in Gateways \cup {NoGateway}
          /\ conn[e].obj \in Objects \cup {NoObject}
    /\ \A o \in Objects :
          /\ objs[o].state \in {"idle", "active", "closing", "closed"}
          /\ objs[o].key \in Keys \cup {NoKey}
          /\ objs[o].queue \subseteq Keys
    /\ \A g \in Gateways : Len(pool[g].idle) <= Cardinality(Objects)

\* A session object serves one connection at a time: the one registered under a
\* key is the one whose reader and writer run for that key, and it is in no pool
\* from which another login could take it.
OneOwner ==
    ~stolen => \A g \in Gateways :
        LET p == pool[g]
        IN  /\ \A k, l \in DOMAIN p.sessions : k # l => p.sessions[k] # p.sessions[l]
            /\ \A i \in DOMAIN p.idle :
                  /\ \A k \in DOMAIN p.sessions : p.sessions[k] # p.idle[i][2]
                  /\ \A j \in DOMAIN p.idle : i # j => p.idle[i][2] # p.idle[j][2]
            /\ \A e \in Made : Reading(e) /\ GwOf(e) = g =>
                  /\ KeyOf(e) \in DOMAIN p.sessions
                  /\ p.sessions[KeyOf(e)] = conn[e].obj
                  /\ objs[conn[e].obj].key = KeyOf(e)

\* Two connections of a key never both read, in whatever process they are: the
\* one that was kicked off is gone before the other one begins.  A kick-off that
\* arrives between a login's unlock and its reader is the exception.
OneReader ==
    setup.orderly /\ ~stolen /\ ~missed =>
        \A e, f \in Made : Reading(e) /\ Reading(f) /\ KeyOf(e) = KeyOf(f) => e = f

\* Events find a connected device: while its connection reads, Redis has its
\* gateway under its key, also after it has kicked another connection off.
ReaderHasAddress ==
    setup.orderly /\ ~setup.faults /\ ~missed =>
        \A e \in Made : Reading(e) /\ ~conn[e].cancelled => addr[KeyOf(e)] = GwOf(e)

\* Both: a device has one reading connection, and events find it there.
ReaderIsReached == OneReader /\ ReaderHasAddress

\* The login lock has no expiry: every way out of a login releases it.
LockIsReleased ==
    \A k \in Keys : (lock[k] /\ ~setup.faults) ~> ~lock[k]
=============================================================================
