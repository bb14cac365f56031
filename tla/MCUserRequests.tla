--------------------------- MODULE MCUserRequests ---------------------------
(* Small instances of UserRequests: each setup sends requests to one part. *)
EXTENDS UserRequests, TLC

CONSTANTS h1, h2, h3, k1, k2, anna, ben, e1, e2

NoFriends ==
    [events |-> {}, kind |-> e1 :> "request" @@ e2 :> "accept", from |-> e1 :> anna @@ e2 :> ben,
     to |-> e1 :> ben @@ e2 :> anna, queues |-> {"psql"}, foreign |-> {}, away |-> {}, gatewayStops |-> FALSE,
     workersStop |-> FALSE, busyPool |-> FALSE, failures |-> 0]

Quiet == [pool |-> [callers |-> {}, mayFail |-> FALSE, mayClose |-> FALSE], limits |-> {}, friends |-> NoFriends]

\* Three handlers want one of two connections; connecting fails, or the pool is closed.
Busy == [Quiet EXCEPT !.pool = [callers |-> Callers, mayFail |-> TRUE, mayClose |-> FALSE]]
Closing == [Quiet EXCEPT !.pool = [callers |-> {h1, h2}, mayFail |-> TRUE, mayClose |-> TRUE]]

\* Requests of one address, and requests of many for one endpoint.
OneAddress == [Quiet EXCEPT !.limits = {"address"}]
OneEndpoint == [Quiet EXCEPT !.limits = {"tokens"}]

\* A request and an answer, with calls, channels and publishing that fail.
Befriend == [Quiet EXCEPT !.friends = [NoFriends EXCEPT !.events = Events, !.failures = 1]]
\* ... while the pool of the user service has no connection in time.
BusyPool == [Befriend EXCEPT !.friends.busyPool = TRUE]
\* Both accept at a time.
Cross == [Befriend EXCEPT !.friends.kind = e1 :> "accept" @@ e2 :> "accept"]
\* One of them turns the other down, in both ways; one event has an unknown source.
Down == [Befriend EXCEPT !.friends.kind = e1 :> "ignore" @@ e2 :> "reject", !.friends.foreign = {e1}]
\* The gateway and the workers are stopped.
Stopping == [Befriend EXCEPT !.friends.gatewayStops = TRUE, !.friends.workersStop = TRUE]
\* The queue of the push service; one addressee is offline.
Pushing == [Befriend EXCEPT !.friends.queues = {"push"}, !.friends.away = {anna}]

MCSetups == {Busy, Closing, OneAddress, OneEndpoint, Befriend, BusyPool, Cross, Down, Stopping, Pushing}
=============================================================================
