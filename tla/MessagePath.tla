---------------------------- MODULE MessagePath ----------------------------
(***************************************************************************)
(* The way of a message from the sender's call to the receiver's inbox:    *)
(* the upstream service, the outbox worker (worker/impl/                   *)
(* msg_consumer_worker.py) with its pacer, the dead letter worker, the     *)
(* downstream service, and beside them the table of a chat, which the      *)
(* storage service splits into buckets.  The offsets of the stream and the *)
(* lock of the pacer have modules of their own.                            *)
(***************************************************************************)
EXTENDS Storage, ReadModel

CONSTANT
    Setups       \* [up, storage, model: plans of the parts, worker: whether the outbox worker runs]

VARIABLES
    worker,      \* whether the outbox worker runs
    consumed,    \* stream entries that are acknowledged and will not be delivered again
    job,         \* message -> [at: step of its on_message, todo: parts to be done, target: the watermark to store]
    pacer,       \* MessagePacer.cache: sender -> [next: next_delivery_id, ids: delivery_ids]
    mark,        \* the watermark of a sender in Redis; 0 if there is none
    lost,        \* messages with a dead letter that push_to_dlq could not store
    handled,     \* keys whose handling came to its end
    cut,         \* keys whose handling ended with the process
    skipped      \* messages the pacer took for handled though they were only cut

ASSUME PathAssumption ==
    /\ Block \in Nat \ {0} /\ BucketSize \in Nat \ {0} /\ BucketSize % Block = 0
    /\ None \notin Writes
    /\ Msgs \subseteq Nat \ {0} /\ \E n \in {0} \cup Msgs : \A m \in Msgs : m <= n
    /\ IsFiniteSet(Servers) /\ IsFiniteSet(Writes)
    /\ Actions = {"inbox", "session", "all"}
    /\ \A s \in Setups :
          /\ s.up.stored \subseteq s.up.calls /\ s.up.calls \subseteq Msgs /\ \A m \in s.up.calls : s.up.route[m] \in Streams
          /\ \A w \in DOMAIN s.storage.at : w \in Writes /\ s.storage.at[w] \in Servers
          /\ s.model.letters \subseteq Msgs \X Actions
          /\ s.model.visits \in Nat /\ s.model.faults \in Nat

plans == <<upPlan, tablePlan, modelPlan, worker>>
upVars == <<cache, call, sequence, sendWaiters, wire, confirms, stream, closing>>
tableVars == <<line, holder, waiters, count, undo, write, written, slack>>
outbox == <<consumed, job, pacer, mark, lost, handled, cut, skipped>>
vars == <<plans, upVars, tableVars, modelVars, outbox>>

Key(m) == modelPlan.key[m]
Sender(m) == Key(m).sender
DeliveryId(m) == Key(m).seq
Senders == {Sender(m) : m \in Msgs}

NoJob == [at |-> "none", todo |-> {}, target |-> 0]

OutboxInit ==
    /\ consumed = {} /\ job = [m \in Msgs |-> NoJob]
    /\ pacer = [s \in Senders |-> [next |-> 0, ids |-> {}]] /\ mark = [s \in Senders |-> 0]
    /\ lost = {} /\ handled = {} /\ cut = {} /\ skipped = {}

Init ==
    /\ \E s \in Setups : upPlan = s.up /\ tablePlan = s.storage /\ modelPlan = s.model /\ worker = s.worker
    /\ UpstreamInit /\ StorageInit /\ ModelInit
    /\ OutboxInit

-----------------------------------------------------------------------------
(* The outbox worker *)

Handling(parts) == [at |-> "handling", todo |-> parts, target |-> 0]

\* CAN_IGNORE: the entry is acknowledged.  It is skipped if no handling of its key came to
\* the end or is under way.
Ignore(m) ==
    /\ consumed' = consumed \cup {m}
    /\ job' = [job EXCEPT ![m] = NoJob]
    /\ skipped' = IF /\ Key(m) \in cut \ handled
                     /\ \A n \in Msgs : job[n].at = "handling" => Key(n) # Key(m)
                  THEN skipped \cup {m} ELSE skipped

\* filter_or_not compares the delivery id with the watermark it has read, then with the
\* ids it knows; it has found out that the sender's watermark is next.
Judge(m, read, next) ==
    LET ids == pacer[Sender(m)].ids
    IN  IF DeliveryId(m) < read \/ DeliveryId(m) \in ids
        THEN /\ Ignore(m)
             /\ pacer' = [pacer EXCEPT ![Sender(m)].next = next]
        ELSE /\ pacer' = [pacer EXCEPT ![Sender(m)] = [next |-> next, ids |-> ids \cup {DeliveryId(m)}]]
             /\ job' = [job EXCEPT ![m] = Handling({"inbox", "session"})]
             /\ UNCHANGED <<consumed, skipped>>

\* on_message starts; without the sender's watermark it waits for the lock and for Redis.
OnMessage(m) ==
    /\ worker /\ m \in stream \ consumed /\ job[m].at = "none"
    /\ LET next == pacer[Sender(m)].next
       IN  IF next > 0 THEN Judge(m, next, next)
           ELSE job' = [job EXCEPT ![m].at = "filter"] /\ UNCHANGED <<consumed, pacer, skipped>>
    /\ UNCHANGED <<upVars, tableVars, modelVars, mark, lost, handled, cut>>

\* It has the lock.  Another task may have read the watermark meanwhile, and the one this
\* task has read is still 0; else Redis answers, or the item is one dead letter for all.
Filter(m, ok) ==
    /\ job[m].at = "filter"
    /\ LET next == pacer[Sender(m)].next
           stored == IF mark[Sender(m)] = 0 THEN 1 ELSE mark[Sender(m)]
       IN  IF next > 0 THEN ok /\ UNCHANGED faults /\ Judge(m, 0, next)
           ELSE /\ Outcome(ok)
                /\ IF ok THEN Judge(m, stored, stored)
                   ELSE job' = [job EXCEPT ![m] = Handling({"all"})] /\ UNCHANGED <<consumed, pacer, skipped>>
    /\ UNCHANGED <<letterVars, events, serving, late, inbox, session, settled, pushQueue, receiver>>
    /\ UNCHANGED <<upVars, tableVars, mark, lost, handled, cut>>

\* notify_read_model and write_to_session, which run side by side, and the dead letter of
\* each one that failed or of an item to retry.
Deliver(m, part, ok, stored) ==
    /\ job[m].at = "handling" /\ part \in job[m].todo
    /\ ok => stored
    /\ IF part = "all" THEN ~ok /\ UNCHANGED faults ELSE Outcome(ok)
    /\ Arrive(m, part, ok, stored)
    /\ lost' = IF stored THEN lost ELSE lost \cup {m}
    /\ job' = [job EXCEPT ![m].todo = @ \ {part}]
    /\ UNCHANGED <<upVars, tableVars, consumed, pacer, mark, handled, cut, skipped>>

\* Mutant: the watermark is one too large.
PastOneMore(id, ids) ==
    CHOOSE k \in id + 2 .. id + 2 + Cardinality(ids) : k - 1 \notin ids /\ \A j \in id + 1 .. k - 2 : j \in ids

\* The first id after this one that has not been seen.
Past(id, ids) == CHOOSE k \in id + 1 .. id + 1 + Cardinality(ids) : k \notin ids /\ \A j \in id + 1 .. k - 1 : j \in ids

\* ack and on_handled_new_item: the watermark moves over every id that was seen, the ones
\* that are still being handled included.
OnHandled(m) ==
    /\ job[m].at = "handling" /\ job[m].todo = {}
    /\ consumed' = consumed \cup {m} /\ handled' = handled \cup {Key(m)}
    /\ LET p == pacer[Sender(m)]
           next == Past(DeliveryId(m), p.ids)
       IN  IF DeliveryId(m) = p.next
           THEN /\ pacer' = [pacer EXCEPT ![Sender(m)].next = next]
                /\ job' = [job EXCEPT ![m] = [at |-> "marking", todo |-> {}, target |-> next]]
           ELSE job' = [job EXCEPT ![m] = NoJob] /\ UNCHANGED pacer
    /\ UNCHANGED <<upVars, tableVars, modelVars, mark, lost, cut, skipped>>

\* redis_set, in the order of the lock; one that fails may have been executed, and may have
\* been rolled back.
Mark(m, ok) ==
    /\ job[m].at = "marking"
    /\ \A n \in Msgs : job[n].at = "marking" /\ Sender(n) = Sender(m) => job[n].target >= job[m].target
    /\ Outcome(ok)
    /\ \E stands \in {job[m].target} \cup IF ok THEN {} ELSE {mark[Sender(m)], 0} :
           mark' = [mark EXCEPT ![Sender(m)] = stands]
    /\ job' = [job EXCEPT ![m] = NoJob]
    /\ UNCHANGED <<letterVars, events, serving, late, inbox, session, settled, pushQueue, receiver>>
    /\ UNCHANGED <<upVars, tableVars, consumed, pacer, lost, handled, cut, skipped>>

\* The process dies and another one takes the stream over from the offset that was stored:
\* what was not acknowledged is delivered again, and of the rest what the offset does not
\* cover.  What was under way may have taken effect.
WorkerDies ==
    /\ worker /\ Outcome(FALSE)
    /\ LET held == {m \in Msgs : job[m].at = "handling"}
       IN  /\ cut' = cut \cup {Key(m) : m \in held}
           /\ session' \in {session, session \cup {m \in held : "session" \in job[m].todo}}
           /\ events' \in {events, events \cup {m \in held : "inbox" \in job[m].todo}}
    /\ mark' \in {mark} \cup {[mark EXCEPT ![Sender(m)] = job[m].target] : m \in {n \in Msgs : job[n].at = "marking"}}
    /\ consumed' \in SUBSET consumed
    /\ job' = [m \in Msgs |-> NoJob]
    /\ pacer' = [s \in Senders |-> [next |-> 0, ids |-> {}]]
    /\ UNCHANGED <<letterVars, serving, late, inbox, settled, pushQueue, receiver>>
    /\ UNCHANGED <<upVars, tableVars, lost, handled, skipped>>

OutboxStep(m) ==
    \/ OnMessage(m) \/ OnHandled(m)
    \/ \E ok \in BOOLEAN : Filter(m, ok) \/ Mark(m, ok)
    \/ \E part \in Actions, ok, stored \in BOOLEAN : Deliver(m, part, ok, stored)

UpStep == UpstreamNext /\ UNCHANGED <<plans, tableVars, modelVars, outbox>>
TableStep == StorageNext /\ UNCHANGED <<plans, upVars, modelVars, outbox>>
ModelStep == ModelNext /\ UNCHANGED <<plans, upVars, tableVars, outbox>>

Next ==
    /\ UNCHANGED plans
    /\ \/ UpStep \/ TableStep \/ ModelStep
       \/ (\E m \in Msgs : OutboxStep(m)) \/ WorkerDies

-----------------------------------------------------------------------------
(* Fairness: the outbox worker, the dead letter worker and the downstream service
   go on while they have something to do, a lock that is free is taken, and Redis
   answers or the call times out. *)

Consumes == UNCHANGED plans /\ \E m \in Msgs : OutboxStep(m)
LettersRun == (\E x \in Msgs \X Actions : LetterStep(x)) /\ UNCHANGED <<plans, upVars, tableVars, outbox>>
HandlersRun ==
    /\ \E h \in Msgs \X (Actions \cup {"queue"}) : HandlerStep(h)
    /\ UNCHANGED <<plans, upVars, tableVars, outbox>>
LocksAreTaken == (\E s \in Servers : Locked(s)) /\ UNCHANGED <<plans, upVars, modelVars, outbox>>
RedisAnswers ==
    /\ \E w \in Writes : Incremented(w) \/ NotIncremented(w)
    /\ UNCHANGED <<plans, upVars, modelVars, outbox>>

Fairness ==
    /\ WF_vars(Consumes)
    /\ WF_vars(LettersRun)
    /\ WF_vars(HandlersRun)
    /\ WF_vars(LocksAreTaken)
    /\ WF_vars(RedisAnswers)

Spec == Init /\ [][Next]_vars /\ Fairness

-----------------------------------------------------------------------------
(* Properties *)

\* The variables have their types.
TypeOK ==
    /\ UpstreamTypeOK /\ StorageTypeOK /\ ModelTypeOK
    /\ consumed \subseteq stream /\ lost \subseteq stream /\ skipped \subseteq stream
    /\ \A m \in Msgs : job[m].at \in {"none", "filter", "handling", "marking"} /\ job[m].todo \subseteq Actions /\ job[m].target \in Nat
    /\ \A s \in Senders : pacer[s].next \in Nat /\ pacer[s].ids \subseteq {DeliveryId(m) : m \in Msgs} /\ mark[s] \in Nat
    /\ handled \cup cut \subseteq {Key(m) : m \in Msgs}

\* A client that DeliverMessage answers with success has its message in the stream, and
\* a call that waits for its confirmation is the one that confirmation will find.
SuccessIsStored == ToldIsStored /\ SentIsAwaited

\* A dead letter that is acknowledged has been put right; and a receiver who is online
\* and has pulled the inbox misses no message whose event was handled, unless they had
\* one with a larger id before they pulled.  (The TODO at downstream_service.py:70-72 fears
\* for a receiver who comes online between the check and the write; since the inbox is written
\* before ready_to_push looks for them, they have the message from their pull.)
EffectsAreDone == LetterIsSettled /\ NothingMissed

\* What the sender was told is stored ends in the receiver's inbox, under the id of this
\* call or of one that it repeats, whatever fails and whenever the outbox worker dies.  There
\* are two exceptions: push_to_dlq could not store its dead letter; or its handling died with
\* the process after a smaller id of the sender had moved the watermark in Redis past it, and
\* CAN_IGNORE drops it when it is delivered again.  A dead letter is put right in the end,
\* and a write that waits for the lock of its cache line goes on, unless a cancelled call has
\* kept the lock.
SuccessIsDelivered ==
    /\ <>[](worker /\ OnePartition =>
            \A m \in Msgs :
                call[m] = "success" => \E n \in inbox \cup lost \cup skipped : Key(n) = Key(m))
    /\ LetterEnds
    /\ WritersProceed
=============================================================================
