---------------------------- MODULE PushStream ----------------------------
(***************************************************************************)
(* The push service (microservices/push) and, through the call             *)
(* SubscribeStream, a websocket gateway: its side of the call is           *)
(* PushChannel.  The service has one EventChannel per gateway, through     *)
(* which the notifications are sent.  A notification is an entry of the    *)
(* message queue: consume_event looks up where the user is, publishes one  *)
(* event per gateway, waits for the gateways' feedback and acknowledges or *)
(* requeues the entry.  A kick-off is a call of PublishNotification: one   *)
(* gateway, and an answer instead.  A second gateway, There, is kept to    *)
(* what the push service sees of a gateway: it confirms events it has      *)
(* received.                                                               *)
(***************************************************************************)
EXTENDS PushChannel

CONSTANTS
    Here, There,
    Gateways,     \* the gateway addresses
    Notes,        \* the notifications
    Kicks,        \* those of them that kick a session off
    MaxInt32,     \* MAX_INT32, the modulus of delivery ids
    QueueSize,    \* maxsize of EventChannel._queue (1024 in the code)
    MaxTries,     \* bound: deliveries of one notification by the message queue
    Setups        \* the situations to start from

ASSUME ChannelAssumption ==
    /\ Kicks \subseteq Notes
    /\ MaxInt32 \in Nat \ {0, 1}
    /\ QueueSize \in Nat \ {0}
    /\ MaxTries \in Nat

VARIABLES
    channels,   \* gateway -> its EventChannel, as far as registered
    calls,      \* notification -> its consume_event
    tries       \* notification -> how often it was delivered

eventVars == <<channels, calls, tries>>

NewChannel == [registered |-> FALSE, id |-> 0, queue |-> << >>, pending |-> {}, confirmed |-> {}]

NoIds == [g \in {} |-> 0]

\* A channel outlives the calls of its gateway: one that was there before has counted on.
EventInit(counted) ==
    /\ channels = [g \in Gateways |-> [NewChannel EXCEPT !.id = counted, !.registered = counted > 0]]
    /\ calls = [n \in Notes |-> [pc |-> "queued", ids |-> NoIds, putting |-> {}]]
    /\ tries = [n \in Notes |-> 0]

DeliveryIds == 0 .. MaxInt32 - 1

NextId(c) == (c.id + 1) % MaxInt32

\* publish up to `queue.put`, which waits while the queue is full.
Publish(c, n) ==
    [c EXCEPT !.id = NextId(c),
              !.pending = @ \cup {NextId(c)},
              !.queue = IF Len(@) < QueueSize THEN Append(@, <<NextId(c), n>>) ELSE @]

Finish(n, pc) == calls' = [calls EXCEPT ![n] = [pc |-> pc, ids |-> NoIds, putting |-> {}]]

\* reject(requeue=True), or the answer PUSH_FAILED or PUSH_TIMEOUT.
GiveUp(n) == Finish(n, IF n \in Kicks THEN "failed" ELSE "queued")

Begin(n) ==
    /\ calls[n].pc = "queued"
    /\ tries[n] < MaxTries
    /\ tries' = [tries EXCEPT ![n] = @ + 1]

RedisFailed(n) ==
    /\ Begin(n)
    /\ GiveUp(n)
    /\ UNCHANGED channels

Offline(n) ==
    /\ Begin(n)
    /\ Finish(n, "offline")
    /\ UNCHANGED channels

(***************************************************************************)
(* The user is on the gateways addrs.  An address without a channel raises *)
(* KeyError, after events for some of the others may have been published   *)
(* that nobody waits for.                                                  *)
(***************************************************************************)
Send(n, addrs) ==
    LET known == {g \in addrs : channels[g].registered}
        full  == {g \in addrs : Len(channels[g].queue) = QueueSize}
    IN  /\ Begin(n)
        /\ n \in Kicks => Cardinality(addrs) = 1
        /\ IF known = addrs
           THEN /\ channels' = [g \in Gateways |-> IF g \in addrs THEN Publish(channels[g], n)
                                                                  ELSE channels[g]]
                /\ calls' = [calls EXCEPT ![n] =
                      [pc |-> "wait", ids |-> [g \in addrs |-> NextId(channels[g])],
                       putting |-> full]]
           ELSE \E before \in SUBSET (known \ full) :
                /\ channels' = [g \in Gateways |-> IF g \in before THEN Publish(channels[g], n)
                                                                   ELSE channels[g]]
                /\ Finish(n, "raised")

\* A publisher that waited for room in the queue gets it.
Put(n, g) ==
    /\ g \in calls[n].putting
    /\ Len(channels[g].queue) < QueueSize
    /\ channels' = [channels EXCEPT ![g].queue = Append(@, <<calls[n].ids[g], n>>)]
    /\ calls' = [calls EXCEPT ![n].putting = @ \ {g}]
    /\ UNCHANGED tries

Pending(n) == {g \in DOMAIN calls[n].ids : calls[n].ids[g] \in channels[g].pending}

\* Mutant: one confirmation is enough.
AnsweredByOne(n) ==
    /\ calls[n].pc = "wait"
    /\ calls[n].putting = {}
    /\ Pending(n) # DOMAIN calls[n].ids
    /\ calls' = [calls EXCEPT ![n].pc = "acked"]
    /\ UNCHANGED <<channels, tries>>

\* All waiters have PUSH_SUCCESS, the only status a gateway sends.
Answered(n) ==
    /\ calls[n].pc = "wait"
    /\ calls[n].putting = {}
    /\ Pending(n) = {}
    /\ calls' = [calls EXCEPT ![n].pc = "acked"]
    /\ UNCHANGED <<channels, tries>>

\* The pending waiters are cancelled or set to PUSH_TIMEOUT.
Timeout(n) ==
    /\ calls[n].pc = "wait"
    /\ calls[n].putting = {}
    /\ Pending(n) # {}
    /\ channels' = [g \in Gateways |->
                       IF g \in Pending(n)
                       THEN [channels[g] EXCEPT !.pending = @ \ {calls[n].ids[g]}]
                       ELSE channels[g]]
    /\ GiveUp(n)
    /\ UNCHANGED tries

\* collector.register: a gateway that comes back finds its old channel.
Register(g) ==
    /\ channels' = [channels EXCEPT ![g].registered = TRUE]
    /\ UNCHANGED <<calls, tries>>

\* SubscribeStream sends an event only while its waiter is pending.
Outgoing(g) ==
    LET event == Head(channels[g].queue)
    IN  IF event[1] \in channels[g].pending THEN <<event>> ELSE << >>

\* dispatch takes the oldest event.
Dispatch(g) ==
    /\ channels[g].queue # << >>
    /\ channels' = [channels EXCEPT ![g].queue = Tail(@)]
    /\ UNCHANGED <<calls, tries>>

OnDelivery(g, start, end) ==
    LET ids == channels[g].pending \cap (start .. end - 1)
    IN  /\ channels' = [channels EXCEPT ![g].pending = @ \ ids, ![g].confirmed = @ \cup ids]
        /\ UNCHANGED <<calls, tries>>

Serve(n, gateways) ==
    \/ \E addrs \in (SUBSET gateways) \ {{}} : Send(n, addrs)
    \/ \E g \in gateways : Put(n, g)
    \/ Answered(n)

NotServed(n) == RedisFailed(n) \/ Offline(n) \/ Timeout(n)

-----------------------------------------------------------------------------
(***************************************************************************)
(* notes     the notifications that are sent                               *)
(* gateways  the gateways that take part                                   *)
(* faults    whether Redis, the call and the devices may fail              *)
(***************************************************************************)
ASSUME StreamAssumption ==
    \A s \in Setups :
        /\ s.notes \subseteq Notes
        /\ s.gateways \subseteq Gateways
        /\ s.counted \in 0 .. MaxInt32 - 1
        /\ s.faults \in BOOLEAN

VARIABLES
    setup,   \* the situation, fixed at the start
    ghost,   \* a handler of an ended call has not noticed yet
    peer     \* the ids There has received

others == <<setup, ghost, peer>>
vars == <<eventVars, pushVars, others>>

Init ==
    /\ setup \in Setups
    /\ EventInit(setup.counted)
    /\ PushInit
    /\ ghost = FALSE
    /\ peer = {}

Publishing ==
    /\ \E n \in setup.notes : Serve(n, setup.gateways) \/ (setup.faults /\ NotServed(n))
    /\ UNCHANGED <<pushVars, others>>

Subscribe ==
    /\ Connect
    /\ Register(Here)
    /\ UNCHANGED others

DispatchHere ==
    /\ chan.stream
    /\ Dispatch(Here)
    /\ down' = down \o Outgoing(Here)
    /\ UNCHANGED <<chan, up, outbox, stale, reader, added, byUser, connects, others>>

\* The handler of an ended call takes an event from the channel: it is lost.
DispatchGhost ==
    /\ ghost
    /\ Dispatch(Here)
    /\ UNCHANGED <<pushVars, others>>

GhostEnds ==
    /\ ghost
    /\ ghost' = FALSE
    /\ UNCHANGED <<eventVars, pushVars, setup, peer>>

Feedback ==
    /\ up # << >>
    /\ OnDelivery(Here, Head(up)[1], Head(up)[2])
    /\ up' = Tail(up)
    /\ UNCHANGED <<chan, down, outbox, stale, reader, added, byUser, connects, others>>

Disconnect ==
    /\ setup.faults \/ chan.feedback = "raised" \/ chan.pc = "closing"
    /\ StreamEnds
    /\ ghost' = TRUE
    /\ UNCHANGED <<eventVars, setup, peer>>

PeerSubscribes ==
    /\ There \in setup.gateways
    /\ ~channels[There].registered
    /\ Register(There)
    /\ UNCHANGED <<pushVars, others>>

PeerReceives ==
    /\ There \in setup.gateways
    /\ Dispatch(There)
    /\ peer' = peer \cup {e[1] : e \in {Outgoing(There)[i] : i \in 1 .. Len(Outgoing(There))}}
    /\ UNCHANGED <<pushVars, setup, ghost>>

PeerConfirms ==
    /\ There \in setup.gateways
    /\ \E id \in peer : OnDelivery(There, id, id + 1)
    /\ UNCHANGED <<pushVars, others>>

Handle ==
    \E event \in chan.handlers :
        \/ /\ event[2] \notin Kicks
           /\ NoTarget(event) \/ \E targets \in SUBSET Devices : ToDevices(event, targets)
        \/ /\ event[2] \in Kicks
           /\ KickedOff(event) \/ RecycleTimeout(event)

Gateway ==
    /\ \/ Receive
       \/ Handle
       \/ Timer
       \/ WakeUp
       \/ Resume
    /\ UNCHANGED <<eventVars, others>>

Environment ==
    /\ \/ \E d \in Devices, id \in DeliveryIds : UserAck(d, id)
       \/ StaleAck
       \/ (setup.faults \/ ~chan.stream) /\ Closing
       \/ Delete
    /\ UNCHANGED <<eventVars, others>>

Next ==
    \/ Publishing
    \/ Subscribe
    \/ DispatchHere
    \/ DispatchGhost
    \/ GhostEnds
    \/ Feedback
    \/ Disconnect
    \/ PeerSubscribes
    \/ PeerReceives
    \/ PeerConfirms
    \/ Gateway
    \/ Environment

\* The gateway's event loop runs its timers and its tasks.
Spec == Init /\ [][Next]_vars /\ WF_vars(Gateway)

-----------------------------------------------------------------------------
TypeOK ==
    /\ \A g \in Gateways :
          /\ channels[g].registered \in BOOLEAN
          /\ channels[g].id \in DeliveryIds
          /\ channels[g].queue \in Seq(DeliveryIds \X Notes) /\ Len(channels[g].queue) <= QueueSize
          /\ channels[g].pending \cup channels[g].confirmed \subseteq DeliveryIds
    /\ \A n \in Notes :
          /\ calls[n].pc \in {"queued", "wait", "acked", "offline", "failed", "raised"}
          /\ calls[n].putting \subseteq DOMAIN calls[n].ids
          /\ DOMAIN calls[n].ids \subseteq Gateways
          /\ tries[n] \in 0 .. MaxTries
    /\ chan.pc \in {"open", "closing", "closed"}
    /\ chan.feedback \in {"wait", "yield", "done", "raised", "dead"}
    /\ chan.handlers \cup chan.consumers \subseteq DeliveryIds \X Notes
    /\ chan.timers \in Nat
    /\ outbox \subseteq Devices \X DeliveryIds
    /\ added \cup byUser \cup peer \subseteq DeliveryIds

\* A confirmed event was acknowledged by a device, had no active session, or
\* kicked its session off: no interleaving of acks with the suspended feedback
\* generator, whose list nodes are merged, unlinked and recycled under it,
\* confirms anything else.
ConfirmedWasAdded == channels[Here].confirmed \subseteq added

\* A queue entry that was acknowledged has reached every gateway of its user.
AckedReachedAll ==
    \A n \in Notes : calls[n].pc = "acked" =>
        \A g \in DOMAIN calls[n].ids :
            calls[n].ids[g] \in IF g = Here THEN added ELSE peer

\* Both: what is confirmed to the push service, and through it to the queue, has
\* reached the gateways and their devices.
ConfirmedHasArrived == ConfirmedWasAdded /\ AckedReachedAll

\* An ack of a device does not stay in the queue for ever: the timer handshake
\* between ack_to_rpc and consumer_feedback loses no wake-up.
AckIsFlushed ==
    \A id \in DeliveryIds :
        chan.pc = "open" /\ id \in byUser /\ ListContains(chan.list, id)
            ~> chan.pc # "open" \/ chan.feedback \in {"raised", "dead"} \/ ~ListContains(chan.list, id)
=============================================================================
