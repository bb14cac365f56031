-------------------------- MODULE StreamConsumer --------------------------
(***************************************************************************)
(* chatp.rmq.stream: a group of RMQStreamConsumers on one partition of a   *)
(* super stream.  The broker keeps one of them active, tells it so through *)
(* consumer_update_listener, and remembers one stored offset for the       *)
(* group.  A consumer counts the acknowledged offsets in an OffsetRecord   *)
(* and stores the end of the record's first span, from a timer or when it  *)
(* becomes inactive.  Messages are handled concurrently and out of order   *)
(* and are never redelivered once an offset at or after them is stored.    *)
(***************************************************************************)
EXTENDS OutboxGroup, AckQueue

CONSTANT
    MaxFrames         \* bound: StoreOffset frames a timer leaves on the wire

NoOffset == -1
NoOwner  == "none"

(***************************************************************************)
(* stored       the offset stored before, or NoOffset                      *)
(* queryMayFail whether query_offset may raise                             *)
(* concurrent   whether the callback handles messages in tasks of their own*)
(* threshold    OFFSET_STORE_MINIMUM_MESSAGES                              *)
(* members      the consumers that take part                               *)
(* last         the offset of the last message of the stream               *)
(* activations  bound: activations of one process between two restarts     *)
(* crashes      bound: process crashes                                     *)
(***************************************************************************)

VARIABLES
    stored,      \* broker: the stored offset of the group
    owner,       \* broker: the consumer it treats as the active one
    pos,         \* broker: the next offset it delivers to the owner
    wire,        \* consumer -> StoreOffset frames sent and not yet processed
    phase,       \* consumer -> where its consumer_update_listener is
    record,      \* consumer -> its OffsetRecord
    storeTask,   \* consumer -> offset of the timer's store_offset task
    tasks,       \* consumer -> offset -> messages in the user callback
    acked,       \* history: offsets some consumer acknowledged
    stale,       \* history: an offset below the one its consumer resumed from was acknowledged
    activations  \* consumer -> activations since its start

brokerVars == <<stored, owner, pos, wire>>
streamVars == <<brokerVars, phase, record, storeTask, tasks, acked, stale, activations>>

-----------------------------------------------------------------------------
(* OffsetRecord *)

NewRecord == [queue |-> Add(EmptyQueue, NoOffset), frozen |-> TRUE,
              storing |-> NoOffset, last |-> NoOffset]

\* Mutant: a freeze that only clears.
FreezeOnlyClears(r) == [r EXCEPT !.queue = EmptyQueue]

Freeze(r)   == [r EXCEPT !.frozen = TRUE, !.queue = EmptyQueue]
Unfreeze(r) == [r EXCEPT !.frozen = FALSE, !.queue = EmptyQueue]

ExpectedOffset(r) == FirstEnd(r.queue)

-----------------------------------------------------------------------------
StreamInit ==
    /\ setup \in Setups
    /\ stored = setup.stored
    /\ owner = NoOwner
    /\ pos = 0
    /\ wire = [c \in Consumers |-> << >>]
    /\ phase = [c \in Consumers |-> "inactive"]
    /\ record = [c \in Consumers |-> NewRecord]
    /\ storeTask = [c \in Consumers |-> NoOffset]
    /\ tasks = [c \in Consumers |-> [o \in Offsets |-> 0]]
    /\ acked = 0 .. setup.stored
    /\ stale = FALSE
    /\ activations = [c \in Consumers |-> 0]
    /\ crashes = 0

\* The broker picks a new active consumer; its listener sends query_offset.
Activate(c) ==
    /\ owner = NoOwner
    /\ c \in setup.members
    /\ phase[c] = "inactive"
    /\ activations[c] < setup.activations
    /\ owner' = c
    /\ phase' = [phase EXCEPT ![c] = "querying"]
    /\ activations' = [activations EXCEPT ![c] = @ + 1]
    /\ UNCHANGED <<setup, stored, pos, wire, record, storeTask, tasks, acked, stale, crashes>>

BecomeActive(c, r, next) ==
    /\ phase[c] = "querying"
    /\ record' = [record EXCEPT ![c] = r]
    /\ pos' = next
    /\ phase' = [phase EXCEPT ![c] = "active"]
    /\ UNCHANGED <<setup, stored, owner, wire, storeTask, tasks, acked, stale, activations, crashes>>

\* Mutant: the stored offset does not anchor the record.
OffsetFoundUnanchored(c) ==
    /\ stored # NoOffset
    /\ BecomeActive(c, [Unfreeze(record[c]) EXCEPT !.last = stored], stored + 1)

OffsetFound(c) ==
    /\ stored # NoOffset
    /\ BecomeActive(c,
           [Unfreeze(record[c]) EXCEPT !.queue = Add(@, stored), !.last = stored],
           stored + 1)

\* OffsetNotFound, and any other exception of query_offset: replay from 0.
OffsetUnknown(c) ==
    /\ stored = NoOffset \/ setup.queryMayFail
    /\ BecomeActive(c, Unfreeze(record[c]), 0)

\* subscribe_cb_wrapper: a frozen record drops the message.  The callback is
\* awaited, so without tasks of its own it sees one message at a time.
Deliver(c) ==
    /\ owner = c
    /\ setup.concurrent \/ \A o \in Offsets : tasks[c][o] = 0
    /\ phase[c] \in {"active", "storing"}
    /\ pos <= setup.last
    /\ pos' = pos + 1
    /\ tasks' = IF record[c].frozen THEN tasks ELSE [tasks EXCEPT ![c][pos] = @ + 1]
    /\ UNCHANGED <<setup, stored, owner, wire, phase, record, storeTask, acked, stale, activations, crashes>>

\* The queue has an id before the one it was anchored at.
Below(q, o) == 1 \in Linked(q) /\ o < q.start[1]

\* StreamMessage.ack: the record's queue grows, frozen or not.
Ack(c, o) ==
    /\ tasks[c][o] > 0
    /\ tasks' = [tasks EXCEPT ![c][o] = @ - 1]
    /\ record' = [record EXCEPT ![c].queue = Add(@, o)]
    /\ acked' = acked \cup {o}
    /\ stale' = (stale \/ (~record[c].frozen /\ Below(record[c].queue, o)))
    /\ UNCHANGED <<setup, brokerVars, phase, storeTask, activations, crashes>>

\* The user callback gives up a message only when it finds the record frozen.
Discard(c, o) ==
    /\ tasks[c][o] > 0
    /\ record[c].frozen
    /\ tasks' = [tasks EXCEPT ![c][o] = @ - 1]
    /\ UNCHANGED <<setup, brokerVars, phase, record, storeTask, acked, stale, activations, crashes>>

\* store_offset_timer: one round awaits its tasks before the next one sleeps.
\* Five minutes may have passed, so the lower threshold is the one that counts.
TimerStore(c) ==
    LET r == record[c]
        currMax == ExpectedOffset(r) - 1
    IN  /\ ~r.frozen
        /\ storeTask[c] = NoOffset
        /\ currMax - r.last > setup.threshold
        /\ Len(wire[c]) < MaxFrames
        /\ storeTask' = [storeTask EXCEPT ![c] = currMax]
        /\ record' = [record EXCEPT ![c].storing = currMax]
        /\ wire' = [wire EXCEPT ![c] = Append(@, currMax)]
        /\ UNCHANGED <<setup, stored, owner, pos, phase, tasks, acked, stale, activations, crashes>>

\* on_store_offset: ignored when the record is not storing this offset any more.
StoreTaskDone(c, ok) ==
    LET r == record[c]
        mine == r.storing = storeTask[c]
    IN  /\ storeTask[c] # NoOffset
        /\ storeTask' = [storeTask EXCEPT ![c] = NoOffset]
        /\ record' = [record EXCEPT ![c].storing = IF mine THEN NoOffset ELSE @,
                                    ![c].last = IF mine /\ ok THEN storeTask[c] ELSE @]
        /\ UNCHANGED <<setup, brokerVars, phase, tasks, acked, stale, activations, crashes>>

\* The broker sees that c does not consume any more.
Release(c) ==
    IF owner = c THEN owner' = NoOwner /\ pos' = 0 ELSE UNCHANGED <<owner, pos>>

\* consumer_update_listener(False): freeze, then store what was handled since.
\* The broker waits for the answer before it picks another consumer.
Deactivate(c) ==
    LET r == record[c]
        pending == ExpectedOffset(r) - 1
    IN  /\ phase[c] = "active"
        /\ \E d \in setup.members : activations[d] < setup.activations
        /\ IF r.last < pending /\ r.storing < pending
           THEN /\ record' = [record EXCEPT ![c] = [Freeze(r) EXCEPT !.storing = pending]]
                /\ wire' = [wire EXCEPT ![c] = Append(@, pending)]
                /\ phase' = [phase EXCEPT ![c] = "storing"]
                /\ UNCHANGED <<owner, pos>>
           ELSE /\ record' = [record EXCEPT ![c] = Freeze(r)]
                /\ wire' = wire
                /\ phase' = [phase EXCEPT ![c] = "inactive"]
                /\ Release(c)
        /\ UNCHANGED <<setup, stored, storeTask, tasks, acked, stale, activations, crashes>>

\* The store of a deactivation returns or raises; the listener then answers.
DeactivateDone(c, ok) ==
    LET r == record[c]
    IN  /\ phase[c] = "storing"
        /\ record' = [record EXCEPT ![c] = [r EXCEPT !.last = IF ok THEN r.storing ELSE @, !.storing = NoOffset]]
        /\ phase' = [phase EXCEPT ![c] = "inactive"]
        /\ Release(c)
        /\ UNCHANGED <<setup, stored, wire, storeTask, tasks, acked, stale, activations, crashes>>

\* The broker processes a StoreOffset frame, or the frame never reaches it.
BrokerStore(c) ==
    /\ wire[c] # << >>
    /\ stored' \in {Head(wire[c]), stored}
    /\ wire' = [wire EXCEPT ![c] = Tail(@)]
    /\ UNCHANGED <<setup, owner, pos, phase, record, storeTask, tasks, acked, stale, activations, crashes>>

\* The process dies and is started again: only what the broker has survives.
ConsumerDies(c) ==
    /\ c \in setup.members
    /\ crashes < setup.crashes
    /\ crashes' = crashes + 1
    /\ Release(c)
    /\ phase' = [phase EXCEPT ![c] = "inactive"]
    /\ record' = [record EXCEPT ![c] = NewRecord]
    /\ storeTask' = [storeTask EXCEPT ![c] = NoOffset]
    /\ tasks' = [tasks EXCEPT ![c] = [o \in Offsets |-> 0]]
    /\ activations' = [activations EXCEPT ![c] = 0]
    /\ UNCHANGED <<setup, stored, wire, acked, stale>>

StreamNext ==
    \E c \in Consumers :
        \/ Activate(c)
        \/ OffsetFound(c)
        \/ OffsetUnknown(c)
        \/ Deliver(c)
        \/ \E o \in Offsets : Ack(c, o) \/ Discard(c, o)
        \/ TimerStore(c)
        \/ \E ok \in BOOLEAN : StoreTaskDone(c, ok) \/ DeactivateDone(c, ok)
        \/ Deactivate(c)
        \/ BrokerStore(c)
        \/ ConsumerDies(c)

-----------------------------------------------------------------------------
StreamTypeOK ==
    /\ stored \in Offsets \cup {NoOffset}
    /\ owner \in Consumers \cup {NoOwner}
    /\ pos \in 0 .. MaxOffset + 1
    /\ wire \in [Consumers -> Seq(Offsets)]
    /\ phase \in [Consumers -> {"inactive", "querying", "active", "storing"}]
    /\ \A c \in Consumers :
          /\ record[c].frozen \in BOOLEAN
          /\ record[c].storing \in Offsets \cup {NoOffset}
          /\ record[c].last \in Offsets \cup {NoOffset}
          /\ Content(record[c].queue) \subseteq Offsets
    /\ storeTask \in [Consumers -> Offsets \cup {NoOffset}]
    /\ tasks \in [Consumers -> [Offsets -> Nat]]
    /\ acked \subseteq Offsets
    /\ stale \in BOOLEAN
    /\ \A c \in Consumers : activations[c] \in 0 .. setup.activations
    /\ crashes \in 0 .. setup.crashes

\* A record counts from an offset all of whose predecessors are acknowledged: the
\* callback handles one message at a time; or the broker knows an offset, and no
\* task of an earlier activation acknowledges below it.
Orderly == ~setup.concurrent \/ (setup.stored # NoOffset /\ ~setup.queryMayFail /\ ~stale)

\* An offset is stored only when it and every offset before it has been
\* acknowledged by some consumer: what the broker will never deliver again was
\* handled, whatever crashed or was replaced in between.
StoredPrefixAcked == 0 .. stored \subseteq acked

\* `expected_offset` of a consumer that consumes is the first offset it may
\* still be waiting for: every smaller one has been acknowledged.
ExpectedIsAcked ==
    \A c \in Consumers : phase[c] = "active" =>
        0 .. (ExpectedOffset(record[c]) - 1) \subseteq acked

\* The consumer the broker delivers to has an unfrozen record and every other
\* one a frozen record, so one partition has one consumer at a time.
OneUnfrozen ==
    \A c \in Consumers : ~record[c].frozen => owner = c /\ phase[c] = "active"
=============================================================================
