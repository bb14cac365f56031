-------------------------- MODULE MCOutboxWorker --------------------------
(* OutboxWorker for TLC: the whole worker, the stream consumer alone, and   *)
(* the pacer alone.                                                         *)
EXTENDS OutboxWorker

CONSTANTS w1, w2

Unset == -1

Base == [part |-> "worker",
         stored |-> Unset, queryMayFail |-> FALSE, concurrent |-> TRUE, threshold |-> 0,
         members |-> {w1}, last |-> 1, activations |-> 1, crashes |-> 0,
         ids |-> [o \in 0 .. 1 |-> o + 1], getMayFail |-> FALSE, setMayFail |-> FALSE,
         limit |-> 1, dlqMayFail |-> FALSE, mayCrash |-> FALSE, mayShutdown |-> FALSE]

\* Ids of a stream in which the third message is a second copy of the first.
Repeating(last) == [o \in 0 .. last |-> CASE o = 2 -> 1 [] o = 3 -> 3 [] OTHER -> o + 1]

-----------------------------------------------------------------------------
(* The worker *)

\* Two messages at a time, the last one a second copy of the first.
Concurrently == [Base EXCEPT !.last = 2, !.limit = 2, !.threshold = 9, !.getMayFail = TRUE, !.ids = Repeating(2)]

\* One message at a time, a crash or a shutdown at any point.
SerialCrash == [Base EXCEPT !.crashes = 1, !.mayCrash = TRUE, !.mayShutdown = TRUE]

\* Two messages at a time and failing writes to Redis.
RedisFaults == [Base EXCEPT !.limit = 2, !.threshold = 9, !.setMayFail = TRUE]

\* A second worker takes the partition over.
Takeover == [Base EXCEPT !.members = {w1, w2}, !.threshold = 9]

-----------------------------------------------------------------------------
(* The stream consumer *)

Stream == [Base EXCEPT !.part = "stream", !.stored = 0, !.threshold = 1, !.last = MaxOffset,
                       !.members = {w1, w2}, !.crashes = 1]

\* Two processes, each active once between two restarts.
Failover == Stream

\* One process that loses the partition and gets it back.
Reactivation == [Stream EXCEPT !.members = {w1}, !.activations = 2, !.crashes = 0]
Reactivations == [Stream EXCEPT !.members = {w1}, !.activations = 3, !.last = 2]

\* A fresh stream and failing queries, one message in the callback at a time.
Serial == [Stream EXCEPT !.stored = Unset, !.queryMayFail = TRUE, !.concurrent = FALSE, !.last = 2]

-----------------------------------------------------------------------------
(* The pacer *)

\* A second copy of id 1 among its successors, and Redis failing under it.
Faults == [Base EXCEPT !.part = "pacer", !.ids = Repeating(2), !.crashes = 1,
                       !.getMayFail = TRUE, !.setMayFail = TRUE]

\* The same copy with nothing failing.
Retried == [Base EXCEPT !.part = "pacer", !.ids = Repeating(3)]

\* Restarts only.
Restarted == [Base EXCEPT !.part = "pacer", !.ids = Repeating(2), !.crashes = 1]

\* Two processes that read the same messages, one after a takeover.
BothRead == [Base EXCEPT !.part = "pacer", !.members = {w1, w2}, !.setMayFail = TRUE]

MCSetups == {Concurrently, SerialCrash, RedisFaults, Takeover, Failover, Reactivation, Reactivations, Serial,
             Faults, Retried, Restarted, BothRead}

\* Two messages and one restart.
RestartSetups == {[Restarted EXCEPT !.ids = [o \in 0 .. 1 |-> o + 1]]}
=============================================================================
