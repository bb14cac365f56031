---------------------------- MODULE MCProcesses ----------------------------
(* Processes on small instances. *)
EXTENDS Processes

Two == [p \in Platforms |-> IF p = "p" THEN 2 ELSE 1]
One == [p \in Platforms |-> 1]
Plain == [on |-> {"p"}, workers |-> Two, single |-> {}, ids |-> FALSE, events |-> {}, crashes |-> 0,
          restarts |-> 0, faults |-> 0, stops |-> {}]

\* A service whose workers die, or that is stopped or fails to start.
Supervised == [Plain EXCEPT !.crashes = 3, !.events = Events]
Stopped == [Plain EXCEPT !.crashes = 1, !.faults = 1, !.events = Events, !.stops = {"p"}]
InsideStopped == [Stopped EXCEPT !.on = {"q"}, !.single = {"q"}, !.stops = {"q"}, !.restarts = 1]

\* Snowflake services on two platforms: all with child processes, none, or one of them;
\* with failures of etcd and Redis, with a restart.
Forked == [Plain EXCEPT !.on = Platforms, !.ids = TRUE]
Inside == [Forked EXCEPT !.workers = One, !.single = Platforms, !.faults = 2]
Mixed == [Forked EXCEPT !.single = {"q"}]
Faulty == [Forked EXCEPT !.workers = One, !.faults = 2]
Restarted == [Forked EXCEPT !.workers = One, !.restarts = 1, !.stops = {"p"}]

\* A snowflake service whose workers die.
Dying == [Plain EXCEPT !.ids = TRUE, !.crashes = 2]

MCSetups == {Supervised, Stopped, InsideStopped, Forked, Inside, Mixed, Faulty, Restarted, Dying}
=============================================================================
