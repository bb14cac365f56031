----------------------------- MODULE Upstream -----------------------------
(***************************************************************************)
(* The upstream service (microservices/upstream): a message of a client    *)
(* becomes an entry of the stream.  DeliverMessage gets an id, gives the   *)
(* message to the producer (chatp/rmq/stream/producer.py) and waits for    *)
(* the confirmation of the broker, which names only the publishing id.     *)
(* on_publish_start drops the record it makes, so the cache stays empty    *)
(* and conflict_check lets every call through: a call that is repeated is  *)
(* a second entry with an id of its own.                                   *)
(***************************************************************************)
EXTENDS Integers, Sequences, FiniteSets, Functions

CONSTANTS
    Msgs,      \* calls of DeliverMessage; each gets a message id of its own
    Streams    \* partitions of the super stream

VARIABLES
    upPlan,       \* [calls: which are made, stored: which of them have ended with success, key: message -> sender and delivery id, route: message -> partition, mayClose]
    cache,        \* MessageTracer: key -> [msg, state]
    call,         \* "none", "id", "sent"; then "success", "timeout", "failed" or "gone"
    sequence,     \* _sequence_recorder: partition -> last publishing id
    sendWaiters,  \* _send_waiters: publishing id -> message, for all partitions
    wire,         \* partition -> messages the broker has not taken yet, with their ids
    confirms,     \* partition -> confirmations that are not handled yet
    stream,       \* messages in the stream
    closing       \* RMQState.CLOSING

UpstreamInit ==
    /\ cache = <<>> /\ call = [m \in Msgs |-> IF m \in upPlan.stored THEN "success" ELSE "none"]
    /\ sequence = [p \in Streams |-> 0]
    /\ sendWaiters = <<>>
    /\ wire = [p \in Streams |-> <<>>] /\ confirms = [p \in Streams |-> <<>>]
    /\ stream = upPlan.stored /\ closing = FALSE

Route(m) == upPlan.route[m]      \* HashRoutingMurmurStrategy: of the session

Becomes(m, state) == call' = [call EXCEPT ![m] = state]

Metadata(m) == [msg |-> m, state |-> "inflight"]      \* MessageMetadata, new or reset

\* MessageTracer.on_publish_start: a record that is there is reset, a new one is dropped.
OnPublishStart(m) ==
    cache' = [k \in DOMAIN cache |-> IF k = upPlan.key[m] THEN Metadata(m) ELSE cache[k]]

\* MessageTracer.conflict_check: the id that was published, -1 after waiting in
\* vain for one on its way, 0 when the call is to be published.
ConflictCheck(m) ==
    IF upPlan.key[m] \notin DOMAIN cache \/ cache[upPlan.key[m]].state = "failure" THEN 0
    ELSE IF cache[upPlan.key[m]].state = "success" THEN cache[upPlan.key[m]].msg ELSE -1

\* Without an id service the call fails at once.
DeliverMessage(m) ==
    /\ m \in upPlan.calls /\ call[m] = "none"
    /\ IF ConflictCheck(m) = 0 THEN Becomes(m, "id") \/ Becomes(m, "failed")
       ELSE Becomes(m, IF ConflictCheck(m) > 0 THEN "success" ELSE "timeout")
    /\ UNCHANGED <<cache, sequence, sendWaiters, wire, confirms, stream, closing>>

\* flickClock is too late or fails.
NoId(m) ==
    /\ call[m] = "id"
    /\ Becomes(m, "timeout") \/ Becomes(m, "failed")
    /\ UNCHANGED <<cache, sequence, sendWaiters, wire, confirms, stream, closing>>

\* RMQStreamProducer.send: one sequence per partition, one table for all.
Send(m) ==
    LET p == Route(m)
        id == sequence[p] + 1
    IN  /\ sequence' = [sequence EXCEPT ![p] = id]
        /\ sendWaiters' = [i \in DOMAIN sendWaiters \cup {id} |-> IF i = id THEN m ELSE sendWaiters[i]]
        /\ wire' = [wire EXCEPT ![p] = Append(@, [msg |-> m, id |-> id])]

\* publish_message
Publish(m) ==
    /\ call[m] = "id"
    /\ IF closing
       THEN Becomes(m, "timeout") /\ UNCHANGED <<cache, sequence, sendWaiters, wire>>
       ELSE Becomes(m, "sent") /\ OnPublishStart(m) /\ Send(m)
    /\ UNCHANGED <<confirms, stream, closing>>

\* The broker takes a message, or refuses it.
Broker(p, ok) ==
    /\ wire[p] # <<>>
    /\ wire' = [wire EXCEPT ![p] = Tail(@)]
    /\ stream' = IF ok THEN stream \cup {Head(wire[p]).msg} ELSE stream
    /\ confirms' = [confirms EXCEPT ![p] = Append(@, [id |-> Head(wire[p]).id, ok |-> ok])]
    /\ UNCHANGED <<cache, call, sequence, sendWaiters, closing>>

\* Mutant: a refusal is taken for a confirmation.
ConfirmedAnyway(m, ok) == IF call[m] = "sent" THEN Becomes(m, "success") ELSE UNCHANGED call

\* publish_confirm_cb: a refusal is left to the timeout of the caller.
Confirmed(m, ok) == IF ok /\ call[m] = "sent" THEN Becomes(m, "success") ELSE UNCHANGED call

\* publish_cb_wrapper takes the message out of the table.
OnConfirm(p) ==
    /\ confirms[p] # <<>>
    /\ confirms' = [confirms EXCEPT ![p] = Tail(@)]
    /\ LET c == Head(confirms[p])
       IN  IF c.id \in DOMAIN sendWaiters
           THEN /\ Confirmed(sendWaiters[c.id], c.ok)
                /\ sendWaiters' = Restrict(sendWaiters, DOMAIN sendWaiters \ {c.id})
           ELSE UNCHANGED <<call, sendWaiters>>
    /\ UNCHANGED <<cache, sequence, wire, stream, closing>>

\* wait_for gives up; the message stays on its way.
PublishTimeout(m) ==
    /\ call[m] = "sent"
    /\ Becomes(m, "timeout")
    /\ UNCHANGED <<cache, sequence, sendWaiters, wire, confirms, stream, closing>>

\* The peer cancels the call: nothing is answered.
Cancelled(m) ==
    /\ call[m] \in {"id", "sent"}
    /\ Becomes(m, "gone")
    /\ UNCHANGED <<cache, sequence, sendWaiters, wire, confirms, stream, closing>>

Close ==
    /\ upPlan.mayClose /\ ~closing
    /\ closing' = TRUE
    /\ UNCHANGED <<cache, call, sequence, sendWaiters, wire, confirms, stream>>

UpstreamNext ==
    \/ \E m \in Msgs : DeliverMessage(m) \/ NoId(m) \/ Publish(m) \/ PublishTimeout(m) \/ Cancelled(m)
    \/ \E p \in Streams : OnConfirm(p) \/ \E ok \in BOOLEAN : Broker(p, ok)
    \/ Close

UpstreamTypeOK ==
    /\ call \in [Msgs -> {"none", "id", "sent", "success", "timeout", "failed", "gone"}]
    /\ sequence \in [Streams -> 0 .. Cardinality(Msgs)]
    /\ DOMAIN cache \subseteq {upPlan.key[m] : m \in Msgs} /\ Range(sendWaiters) \subseteq Msgs /\ stream \subseteq Msgs

\* Publishing ids of different partitions meet in one table: the two properties
\* below are those of a producer that uses one of them.
OnePartition == \A m, n \in upPlan.calls : Route(m) = Route(n)

\* A client that is told "success" has its message in the stream.
ToldIsStored == OnePartition => \A m \in Msgs : call[m] = "success" => m \in stream

\* A call that waits for its confirmation is the one the confirmation will find.
SentIsAwaited ==
    OnePartition =>
        \A p \in Streams : \A i \in 1 .. Len(wire[p]) :
            call[wire[p][i].msg] = "sent" => sendWaiters[wire[p][i].id] = wire[p][i].msg
=============================================================================
