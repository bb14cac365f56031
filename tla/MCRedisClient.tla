---------------------------- MODULE MCRedisClient ----------------------------
(* Small instances of RedisClient. *)
EXTENDS RedisClient, TLC

CONSTANTS c1, c2, c3, m1, m2, m3, k1, k2

MCCalls == {c1, c2, c3}
MCMembers == {m1, m2, m3}
MCKeys == {k1, k2}

\* All calls use one key.
OneKey == c1 :> {k1} @@ c2 :> {k1} @@ c3 :> {k1}

Quiet == [op |-> << >>, keys |-> OneKey, errors |-> FALSE, timeouts |-> FALSE, checks |-> 0,
          mayClose |-> FALSE, batched |-> {}, members |-> {}, cancels |-> FALSE, warm |-> TRUE]

\* Three direct calls on one key fill a channel; their callers give up at any time.
LateWrites == [Quiet EXCEPT !.op = c1 :> "set" @@ c2 :> "set" @@ c3 :> "setnx", !.timeouts = TRUE]

\* Commands that fail or are executed more than once.
Failing == [Quiet EXCEPT !.op = c1 :> "set" @@ c2 :> "setnx", !.timeouts = TRUE,
                         !.errors = TRUE]

\* A late write while the service closes.
Closing == [Quiet EXCEPT !.op = c1 :> "set" @@ c2 :> "set", !.timeouts = TRUE, !.mayClose = TRUE]

\* The timer starts consumers and moves them, with one call in flight: the third run is
\* the first that finds a side with a consumer to spare.
Pool == [Quiet EXCEPT !.op = c1 :> "get", !.checks = 3, !.warm = FALSE]

\* The service fails its pings and closes right after its start.
Startup == [Quiet EXCEPT !.op = c1 :> "set", !.warm = FALSE, !.errors = TRUE, !.mayClose = TRUE]

\* A write that may be late while consumers change sides.
Rebalance == [Quiet EXCEPT !.op = c1 :> "set", !.timeouts = TRUE, !.checks = 3]

\* Aggregated reads, and aggregated writes that time out, fail or are cancelled.
BatchedReads == [Quiet EXCEPT !.op = c1 :> "get" @@ c2 :> "get", !.batched = {c1, c2},
                              !.members = {m1, m2, m3}, !.timeouts = TRUE]
BatchedWrites == [Quiet EXCEPT !.op = c1 :> "set" @@ c2 :> "set",
                               !.keys = c1 :> {k1, k2} @@ c2 :> {k2}, !.batched = {c1, c2},
                               !.members = {m1, m2}, !.timeouts = TRUE, !.errors = TRUE]
CancelledReads == [Quiet EXCEPT !.op = c1 :> "get" @@ c2 :> "get", !.batched = {c1, c2},
                                !.members = {m1, m2, m3}, !.cancels = TRUE, !.errors = TRUE]
CancelledWrites == [Quiet EXCEPT !.op = c1 :> "set" @@ c2 :> "set", !.batched = {c1, c2},
                                 !.members = {m1, m2}, !.cancels = TRUE]

MCSetups == {LateWrites, Failing, Closing, Pool, Startup, Rebalance,
             BatchedReads, BatchedWrites, CancelledReads, CancelledWrites}
=============================================================================
