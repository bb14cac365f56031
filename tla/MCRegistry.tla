------------------------------ MODULE MCRegistry ------------------------------
(* Small instances of Registry. *)
EXTENDS Registry

CONSTANTS a1, a2

MCAddrs == {a1, a2}

Steady == [before |-> {a1}, arrivals |-> {}, purges |-> FALSE, failures |-> 0, mayStop |-> FALSE,
           channels |-> 1, createFails |-> FALSE, mayClose |-> FALSE, outages |-> 0]

\* A service comes, at any moment of the start of the manager.
Arriving == [Steady EXCEPT !.arrivals = {a2}]

\* A service comes, and keys are deleted.
Purging == [Steady EXCEPT !.arrivals = {a2}, !.purges = TRUE]

\* The key of a service is deleted while its server goes down.
Leaving == [Steady EXCEPT !.purges = TRUE, !.outages = 1]

\* Channels that cannot be created, break and come back.
Flapping == [Steady EXCEPT !.channels = 2, !.createFails = TRUE, !.outages = 1]

\* Two addresses with connections that come and go.
TwoAddresses == [Steady EXCEPT !.before = {a1, a2}, !.outages = 2]

\* The lease, the watch and requests to etcd fail.
BrokenEtcd == [Steady EXCEPT !.purges = TRUE, !.failures = 2]

\* Everything stops.
Stopping == [Steady EXCEPT !.mayStop = TRUE, !.mayClose = TRUE, !.failures = 1]

MCSetups == {Arriving, Purging, Leaving, Flapping, TwoAddresses, BrokenEtcd, Stopping}
=============================================================================
