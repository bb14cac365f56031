---------------------------- MODULE UserRequests ----------------------------
(***************************************************************************)
(* What the HTTP requests of users pass through, side by side: the limits  *)
(* of the gateway, the connection pool of the user service, and friend    *)
(* requests on their way through RabbitMQ.  A setup says which requests    *)
(* there are, and what may go wrong.                                       *)
(***************************************************************************)
EXTENDS ConnectionPool, RateLimiter, Friends

CONSTANT
    Setups        \* records [pool, limits, friends]

\* A friend event goes from one user to another: Postgres refuses a friendship with oneself.
ASSUME UserRequestsAssumption ==
    /\ NoEvent \notin Events
    /\ Tries \in Nat \ {0} /\ Prefetch \in Nat \ {0} /\ QueueSize \in Nat \ {0}
    /\ \A s \in Setups :
          /\ s.friends.events \subseteq Events /\ s.friends.queues \subseteq Queues
          /\ \A e \in Events : s.friends.from[e] \in Users /\ s.friends.to[e] \in Users \ {s.friends.from[e]}

vars == <<poolVars, limiterVars, friendVars>>

Init ==
    \E s \in Setups :
        /\ PoolInit(s.pool.callers) /\ mayFail = s.pool.mayFail /\ mayClose = s.pool.mayClose
        /\ limits = s.limits /\ LimiterInit
        /\ plan = s.friends /\ failures = s.friends.failures /\ FriendsInit

Next ==
    \/ PoolNext /\ UNCHANGED <<limiterVars, friendVars>>
    \/ LimiterNext /\ UNCHANGED <<poolVars, friendVars>>
    \/ FriendsNext /\ UNCHANGED <<poolVars, limiterVars>>

Spec == Init /\ [][Next]_vars /\ PoolFairness /\ FriendsFairness

-----------------------------------------------------------------------------
(* The properties of the parts *)

TypeOK == PoolTypeOK /\ LimiterTypeOK /\ FriendsTypeOK

\* The connection pool: no connection has two holders, none is lost while the pool is
\* open, no waiter that saw nothing in transit waits beside a free one, and close()
\* gives all of them back.
PoolIsKept == OneHolder /\ ConnectionsAccounted /\ IdleOnlyIfUnsure /\ CloseReleasesAll

\* The limits of the gateway, with calls of Redis that are held up, overtake each other
\* or are run twice: one request of an address per sliding window unless it is overtaken,
\* twice the threshold per trace cycle for each request on the way at once, and one
\* capacity of an endpoint per inflow window more for every window a call may be late.
WithinQuota == Spaced /\ AddressQuota /\ TokenQuota

\* Friend events: a published one is in its queue, at its worker or settled, is settled
\* only when its work is done, and the session id told to the client is the one in the
\* table.
EventsKept == NothingLost /\ SettledIsDone /\ ToldIsSession

\* Every call of the pool returns, and a published friend event is written and pushed
\* in the end.
RequestsEnd == CallersReturn /\ PublishedIsWritten /\ PublishedIsPushed
=============================================================================
