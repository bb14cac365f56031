--------------------------- MODULE ConnectionPool ---------------------------
(***************************************************************************)
(* AsyncMyConnectionPool: the Postgres connections of the user service,    *)
(* which the handlers of its calls share.  A handler takes a free          *)
(* connection and binds it to one of asyncpg, or waits for a handler to    *)
(* hand its own over; it runs its statement, and releases.                 *)
(***************************************************************************)
EXTENDS Naturals, Sequences

CONSTANTS
    Callers,     \* the handlers that need a connection, each once
    Conns,       \* the AsyncMyConnection objects
    NoConn

ASSUME NoConnAssumption == NoConn \notin Conns

VARIABLES
    open,        \* the pool: "active", "closing", "closed"
    free,        \* _free
    used,        \* _used
    waiters,     \* _waiters, by caller
    bound,       \* the connections with an asyncpg connection behind them
    ending,      \* the connections a wait_for_terminate of close still sleeps for
    call,        \* per caller, [pc, conn, fut, result]
    unsure,      \* history: callers that began to wait while a connection was in transit
    late,        \* history: connections that were bound after close() began
    mayFail,     \* whether connecting may fail
    mayClose     \* whether the service stops

poolVars == <<open, free, used, waiters, bound, ending, call, unsure, late, mayFail, mayClose>>

\* What a call comes to: the result of its statement, no statement, or an exception.
Results == {"pending", "answered", "None", "raised"}

Idle == [pc |-> "idle", conn |-> NoConn, fut |-> "none", result |-> "pending"]

\* initialize(): `capacity` connections, none of them bound; and the callers that come.
PoolInit(comers) ==
    /\ open = "active"
    /\ free = Conns
    /\ used = {}
    /\ waiters = << >>
    /\ bound = {}
    /\ ending = {}
    /\ call = [c \in Callers |-> IF c \in comers THEN Idle ELSE [Idle EXCEPT !.pc = "done"]]
    /\ unsure = {} /\ late = {}

Ends(c, r) == [call EXCEPT ![c].pc = "done", ![c].conn = NoConn, ![c].result = r]

\* The connections that some acquire is binding, or some release is detaching.
InTransit == {k \in Conns : \E c \in Callers : call[c].conn = k /\ call[c].pc \in {"binding", "detaching"}}

-----------------------------------------------------------------------------
(* acquire *)

\* A connection is free: it leaves the deque, and is bound under the circuit breaker.
AcquireFree(c) ==
    /\ open = "active" /\ call[c].pc = "idle"
    /\ \E k \in free :
          /\ free' = free \ {k}
          /\ call' = [call EXCEPT ![c].pc = "binding", ![c].conn = k]
    /\ UNCHANGED <<open, used, waiters, bound, ending, unsure, late, mayFail, mayClose>>

\* Nothing is free: a future at the end of the waiters.
AcquireWait(c) ==
    /\ open = "active" /\ call[c].pc = "idle" /\ free = {}
    /\ waiters' = Append(waiters, c)
    /\ call' = [call EXCEPT ![c].pc = "waiting", ![c].fut = "pending"]
    /\ unsure' = IF InTransit = {} THEN unsure ELSE unsure \cup {c}
    /\ UNCHANGED <<open, free, used, bound, ending, late, mayFail, mayClose>>

\* The pool does not take calls any more, or the circuit is broken: None.
AcquireRefused(c) ==
    /\ call[c].pc = "idle"
    /\ open # "active" \/ (mayFail /\ free # {})
    /\ call' = Ends(c, "None")
    /\ UNCHANGED <<open, free, used, waiters, bound, ending, unsure, late, mayFail, mayClose>>

BindDone(c) ==
    /\ call[c].pc = "binding"
    /\ bound' = bound \cup {call[c].conn}
    /\ used' = IF open = "active" THEN used \cup {call[c].conn} ELSE used
    /\ late' = IF open = "active" THEN late ELSE late \cup {call[c].conn}
    /\ call' = [call EXCEPT ![c].pc = "using"]
    /\ UNCHANGED <<open, free, waiters, ending, unsure, mayFail, mayClose>>

\* The connection is refused, or not made in time: it goes back, and nobody is woken.
BindFails(c) ==
    /\ mayFail /\ call[c].pc = "binding"
    /\ free' = IF open = "active" THEN free \cup {call[c].conn} ELSE free
    /\ call' = Ends(c, "None")
    /\ UNCHANGED <<open, used, waiters, bound, ending, unsure, late, mayFail, mayClose>>

\* wait_for: the time is up, or the peer cancels; the future stays in the deque.
WaitEnds(c) ==
    /\ call[c].pc = "waiting" /\ call[c].fut = "pending"
    /\ call' = [Ends(c, "None") EXCEPT ![c].fut = "cancelled"]
    /\ UNCHANGED <<open, free, used, waiters, bound, ending, unsure, late, mayFail, mayClose>>

\* The future is done: the caller goes on with the connection it was handed, also when its
\* time is up at that moment, or with None when the service shuts down.
WaitDone(c) ==
    /\ call[c].pc = "waiting"
    /\ \/ /\ call[c].fut = "set"
          /\ used' = IF open = "active" THEN used \cup {call[c].conn} ELSE used
          /\ call' = [call EXCEPT ![c].pc = "using"]
       \/ /\ call[c].fut = "failed"
          /\ call' = Ends(c, "None")
          /\ UNCHANGED used
    /\ UNCHANGED <<open, free, waiters, bound, ending, unsure, late, mayFail, mayClose>>

-----------------------------------------------------------------------------
(* release *)

Pending(c) == call[c].fut = "pending"

\* The waiters that are left when `release` has popped up to the first that still waits.
FirstPending == {i \in 1..Len(waiters) : Pending(waiters[i]) /\ \A j \in 1..(i - 1) : ~Pending(waiters[j])}

\* Mutant: the waiters are not looked at.
ReleasePast(c, r) ==
    /\ waiters' = waiters
    /\ bound' = bound \ {call[c].conn}
    /\ call' = [call EXCEPT ![c].pc = "detaching", ![c].result = r]

\* release(conn) up to its first await, by a caller whose statement came to `r`: the first
\* waiter that still waits gets the connection as it is; else it is detached.
ReleaseWith(c, r) ==
    \/ \E i \in FirstPending :
          /\ waiters' = SubSeq(waiters, i + 1, Len(waiters))
          /\ call' = [Ends(c, r) EXCEPT ![waiters[i]].fut = "set", ![waiters[i]].conn = call[c].conn]
          /\ UNCHANGED bound
    \/ /\ \A i \in 1..Len(waiters) : ~Pending(waiters[i])
       /\ waiters' = << >>
       /\ bound' = bound \ {call[c].conn}
       /\ call' = [call EXCEPT ![c].pc = "detaching", ![c].result = r]

\* A statement on connection k: create, read and update turn every error of the driver into
\* a result, but close() may have taken k away under a transaction.
Outcome(k) == IF k \in bound THEN {"answered"} ELSE {"answered", "raised"}

\* time_reserve: the statement when enough time is left, else no statement; then release.
RunStatement(c) ==
    /\ call[c].pc = "using"
    /\ \E r \in Outcome(call[c].conn) \cup {"None"} : ReleaseWith(c, r)
    /\ UNCHANGED <<open, free, used, ending, unsure, late, mayFail, mayClose>>

\* The end of release, when asyncpg has its connection back.  After close(), `_used` or
\* `_free` is None, and the AttributeError takes the place of the result.
Detached(c) ==
    /\ call[c].pc = "detaching"
    /\ \/ /\ open = "active"
          /\ used' = used \ {call[c].conn}
          /\ free' = free \cup {call[c].conn}
          /\ call' = Ends(c, call[c].result)
       \/ /\ open # "active"
          /\ call' = Ends(c, "raised")
          /\ UNCHANGED <<used, free>>
    /\ UNCHANGED <<open, waiters, bound, ending, unsure, late, mayFail, mayClose>>

-----------------------------------------------------------------------------
(* close *)

\* No call is taken any more, and every connection in use is given five seconds.
Close ==
    /\ mayClose /\ open = "active"
    /\ open' = "closing"
    /\ free' = {} /\ used' = {}
    /\ ending' = used \cap bound
    /\ UNCHANGED <<waiters, bound, call, unsure, late, mayFail, mayClose>>

\* wait_for_terminate: the connection is given back under whoever still uses it.
Terminate(k) ==
    /\ k \in ending
    /\ ending' = ending \ {k}
    /\ bound' = bound \ {k}
    /\ UNCHANGED <<open, free, used, waiters, call, unsure, late, mayFail, mayClose>>

\* Whoever still waits is told that the service shuts down, and the backend is closed.
CloseEnds ==
    /\ open = "closing" /\ ending = {}
    /\ open' = "closed"
    /\ waiters' = << >>
    /\ call' = [c \in Callers |-> IF Pending(c) THEN [call[c] EXCEPT !.fut = "failed"] ELSE call[c]]
    /\ UNCHANGED <<free, used, bound, ending, unsure, late, mayFail, mayClose>>

-----------------------------------------------------------------------------
CallStep(c) ==
    \/ AcquireFree(c) \/ AcquireWait(c) \/ AcquireRefused(c)
    \/ BindDone(c) \/ BindFails(c) \/ WaitEnds(c) \/ WaitDone(c)
    \/ RunStatement(c) \/ Detached(c)

PoolNext ==
    \/ \E c \in Callers : CallStep(c)
    \/ \E k \in Conns : Terminate(k)
    \/ Close \/ CloseEnds

\* Every operation of the pool ends, and the five seconds of wait_for_terminate.
PoolFairness ==
    /\ \A c \in Callers : WF_poolVars(CallStep(c))
    /\ \A k \in Conns : WF_poolVars(Terminate(k))
    /\ WF_poolVars(CloseEnds)

-----------------------------------------------------------------------------
PoolTypeOK ==
    /\ open \in {"active", "closing", "closed"}
    /\ free \subseteq Conns /\ used \subseteq Conns /\ bound \subseteq Conns /\ ending \subseteq Conns
    /\ waiters \in Seq(Callers) /\ unsure \subseteq Callers /\ late \subseteq Conns
    /\ call \in [Callers -> [pc : {"idle", "binding", "waiting", "using", "detaching", "done"},
                             conn : Conns \cup {NoConn},
                             fut : {"none", "pending", "set", "failed", "cancelled"},
                             result : Results]]
    /\ mayFail \in BOOLEAN /\ mayClose \in BOOLEAN

\* No two handlers ever have one connection (a waiter has it from the moment its future is
\* set), and none is in the free deque while a handler has it: no statement runs on the
\* connection, or in the transaction, of another call.
OneHolder ==
    /\ \A c, d \in Callers : c # d /\ call[c].conn # NoConn => call[c].conn # call[d].conn
    /\ \A c \in Callers : call[c].conn \notin free

\* While the pool is open no connection is lost: each is in the free deque or a handler
\* has it, whichever waits ended, binds failed or futures were set in between; and `_used`
\* is the connections that are bound or about to be given back.
ConnectionsAccounted ==
    open = "active" =>
        /\ \A k \in Conns : k \in free \/ \E c \in Callers : call[c].conn = k
        /\ used = {k \in Conns : \E c \in Callers :
                      call[c].conn = k /\ call[c].pc \in {"using", "waiting", "detaching"}}

\* A handler waits while a connection is free only when it began to wait while an acquire
\* was binding or a release was detaching a connection: these put it back without a look at
\* the waiters.  Every other waiter is served by the next release.
IdleOnlyIfUnsure ==
    \A c \in Callers : open = "active" /\ Pending(c) /\ free # {} => c \in unsure

\* Every call that asks for a connection returns, also when it was overlooked and while the
\* pool closes.
CallersReturn == \A c \in Callers : call[c].pc # "idle" ~> call[c].pc = "done"

\* When close() has ended, every connection is back at asyncpg, also one whose statement was
\* still running after five seconds; except one that an acquire was binding meanwhile.
CloseReleasesAll == open = "closed" => bound \subseteq late
=============================================================================
