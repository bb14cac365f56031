---------------------------- MODULE PushChannel ----------------------------
(***************************************************************************)
(* ws_gateway/manager/push.py: a gateway's PushChannel to one push service *)
(* instance.  Every event of the stream is handled by a task that hands it *)
(* to the user's devices; the devices' acks collect in an AckQueue that a  *)
(* 20 ms timer makes consumer_feedback send back, span by span.  The       *)
(* generator is suspended at each yield, while acks keep coming.           *)
(***************************************************************************)
EXTENDS AckQueueList, FiniteSets

CONSTANTS
    Devices,       \* the devices of the user
    MaxUint32,     \* largest value of the fields start_id and end_id
    MaxConnects    \* bound: channels opened one after the other

VARIABLES
    chan,      \* the PushChannel
    down, up,  \* events and ranges in the two directions of the call
    outbox,    \* <<device, id>> written to a device and not yet acknowledged
    stale,     \* a device still holds an event of a deleted channel
    reader,    \* whether the ack_to_rpc task is alive
    added,     \* history: ids put into an ack queue
    byUser,    \* history: ids of the present channel acknowledged by a device
    connects

pushVars == <<chan, down, up, outbox, stale, reader, added, byUser, connects>>

(***************************************************************************)
(* pc        "open", "closing" (connect is clearing up), "closed"          *)
(* stream    whether the call SubscribeStream is alive                     *)
(* handlers  events in their handler tasks                                 *)
(* consumers the same as far as `consumers` knows: the callback of a task  *)
(*           removes the event that was received last, not its own         *)
(* waiter    whether ack_waiter has a result                               *)
(* handle    whether ack_trigger_handle is set; timers, the armed timers   *)
(* feedback  where consumer_feedback is, the node it yielded, and how many *)
(*           more its iterator will visit                                  *)
(* cancel    whether cancel_writing_waiter has a result                    *)
(***************************************************************************)
Closed ==
    [pc |-> "closed", stream |-> FALSE, handlers |-> {}, consumers |-> {}, latest |-> << >>,
     list |-> EmptyList,
     waiter |-> FALSE, handle |-> FALSE, timers |-> 0,
     feedback |-> "dead", node |-> Root, left |-> 0, cancel |-> FALSE]

Opened == [Closed EXCEPT !.pc = "open", !.stream = TRUE, !.feedback = "wait"]

PushInit ==
    /\ chan = Closed
    /\ down = << >>
    /\ up = << >>
    /\ outbox = {}
    /\ stale = FALSE
    /\ reader = TRUE
    /\ added = {}
    /\ byUser = {}
    /\ connects = 0

Held == IF chan.feedback = "yield" THEN {chan.node} ELSE {}

AckAdd(c, id) == [c EXCEPT !.list = ListAdd(@, id, Held)]

-----------------------------------------------------------------------------
\* connect_push_channel
Connect ==
    /\ chan.pc = "closed"
    /\ connects < MaxConnects
    /\ chan' = Opened
    /\ connects' = connects + 1
    /\ byUser' = {}
    /\ UNCHANGED <<down, up, outbox, stale, reader, added>>

\* stream_handler starts a task for the event.
Receive ==
    /\ chan.stream
    /\ down # << >>
    /\ chan' = [chan EXCEPT !.handlers = @ \cup {Head(down)}, !.latest = Head(down),
                            !.consumers = @ \cup {Head(down)}]
    /\ down' = Tail(down)
    /\ UNCHANGED <<up, outbox, stale, reader, added, byUser, connects>>

TaskEnds(event) ==
    [chan EXCEPT !.handlers = @ \ {event}, !.consumers = @ \ {chan.latest}]

Handled(event) ==
    /\ event \in chan.handlers
    /\ UNCHANGED <<down, up, stale, reader, byUser, connects>>

\* _user_message_handler, _friend_handler_helper: the active sessions get the event.
ToDevices(event, targets) ==
    /\ Handled(event)
    /\ targets # {}
    /\ outbox' = outbox \cup (targets \X {event[1]})
    /\ chan' = TaskEnds(event)
    /\ UNCHANGED added

\* No active session: the id is confirmed, at the next occasion.
NoTarget(event) ==
    /\ Handled(event)
    /\ chan' = AckAdd(TaskEnds(event), event[1])
    /\ added' = added \cup {event[1]}
    /\ UNCHANGED outbox

(***************************************************************************)
(* _user_kicked_off_handler: the session is gone, or its task has ended    *)
(* within 5 s.  set_result on a waiter that has a result raises, after the *)
(* id was added.                                                           *)
(***************************************************************************)
KickedOff(event) ==
    /\ Handled(event)
    /\ chan' = [AckAdd(TaskEnds(event), event[1]) EXCEPT !.waiter = TRUE]
    /\ added' = added \cup {event[1]}
    /\ UNCHANGED outbox

RecycleTimeout(event) ==
    /\ Handled(event)
    /\ chan' = TaskEnds(event)
    /\ UNCHANGED <<outbox, added>>

\* ack_to_rpc, for an event of the present channel.
UserAck(d, id) ==
    /\ reader
    /\ <<d, id>> \in outbox
    /\ chan' = [AckAdd(chan, id) EXCEPT !.handle = TRUE,
                                        !.timers = IF chan.handle THEN @ ELSE @ + 1]
    /\ outbox' = outbox \ {<<d, id>>}
    /\ added' = added \cup {id}
    /\ byUser' = byUser \cup {id}
    /\ UNCHANGED <<down, up, stale, reader, connects>>

\* ack_to_rpc, for an event of a deleted channel: the KeyError ends the task.
StaleAck ==
    /\ reader
    /\ stale
    /\ reader' = FALSE
    /\ UNCHANGED <<down, up, chan, outbox, stale, added, byUser, connects>>

\* ack_cb
Timer ==
    /\ chan.timers > 0
    /\ chan' = [chan EXCEPT !.timers = @ - 1, !.waiter = TRUE]
    /\ UNCHANGED <<down, up, outbox, stale, reader, added, byUser, connects>>

-----------------------------------------------------------------------------
(* consumer_feedback *)

Valid(n) == chan.list.start[n] \in 0 .. MaxUint32 /\ chan.list.end[n] \in 0 .. MaxUint32

\* Mutant: acks are sent without clearing the handle of their timer.
FlushedKeepsHandle(c) ==
    [c EXCEPT !.list = ListClear(@), !.waiter = FALSE,
              !.feedback = IF c.cancel THEN "done" ELSE "wait"]

\* The spans were sent: clear, a new waiter or the end.
Flushed(c) ==
    [c EXCEPT !.list = ListClear(@), !.handle = FALSE,
              !.waiter = IF c.cancel THEN @ ELSE FALSE,
              !.feedback = IF c.cancel THEN "done" ELSE "wait"]

(***************************************************************************)
(* The generator is asked for its next span, node, with left visits to go. *)
(* A bound outside uint32 raises ValueError when the message is built; the *)
(* exception leaves the generator, and the call is cancelled for it.       *)
(***************************************************************************)
Yield(node, left) ==
    /\ \/ /\ left = 0
          /\ chan' = Flushed(chan)
          /\ UNCHANGED up
       \/ /\ left > 0 /\ Valid(node)
          /\ up' = Append(up, <<chan.list.start[node], chan.list.end[node]>>)
          /\ chan' = [chan EXCEPT !.feedback = "yield", !.node = node, !.left = left - 1]
       \/ /\ left > 0 /\ ~Valid(node)
          /\ chan' = [chan EXCEPT !.feedback = "raised"]
          /\ UNCHANGED up
    /\ UNCHANGED <<down, outbox, stale, reader, added, byUser, connects>>

WakeUp ==
    /\ chan.feedback = "wait"
    /\ chan.waiter \/ chan.cancel
    /\ Yield(chan.list.next[Root], chan.list.cnt)

Resume ==
    /\ chan.feedback = "yield"
    /\ Yield(chan.list.next[chan.node], chan.left)

-----------------------------------------------------------------------------
\* The call ends: the peer left, the connection broke, the generator raised, or
\* the gateway shuts down.  What is on its way is lost.
StreamEnds ==
    /\ chan.stream
    /\ chan' = [chan EXCEPT !.stream = FALSE,
                            !.feedback = IF @ = "done" THEN @ ELSE "dead"]
    /\ down' = << >>
    /\ up' = << >>
    /\ UNCHANGED <<outbox, stale, reader, added, byUser, connects>>

\* connect after its first wait: the stream ended or the service was given up.
Closing ==
    /\ chan.pc = "open"
    /\ chan' = [chan EXCEPT !.pc = "closing", !.cancel = TRUE,
                            !.handlers = @ \ chan.consumers, !.consumers = {}]
    /\ UNCHANGED <<down, up, outbox, stale, reader, added, byUser, connects>>

(***************************************************************************)
(* connect ends, after done_writing_waiter and after the stream or 5 s.    *)
(* A handler that was not cancelled may still write to a device.           *)
(***************************************************************************)
Delete ==
    /\ chan.pc = "closing"
    /\ ~chan.stream
    /\ chan' = Closed
    /\ \/ stale' = (stale \/ outbox # {})
       \/ chan.handlers # {} /\ stale' = TRUE
    /\ outbox' = {}
    /\ UNCHANGED <<down, up, reader, added, byUser, connects>>
=============================================================================
