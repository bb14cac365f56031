------------------------- MODULE OutboxWorkerProofs -------------------------
(***************************************************************************)
(* The outbox worker for every number of processes, every stream and every *)
(* limit.  A step of the worker is a step of MessagePacer or leaves the    *)
(* pacers alone, so what MessagePacerProofs shows of the pacers holds in   *)
(* the worker; it is a step of StreamConsumer or leaves the stream alone,  *)
(* so what is shown here of the stored offset and of the owner of the      *)
(* partition holds as well.                                                *)
(***************************************************************************)
EXTENDS OutboxWorker, AckQueueMachine, MessagePacerProofs

SetupFits(s) ==
    /\ s.stored \in Offsets \cup {NoOffset}
    /\ s.last \in Offsets
    /\ s.threshold \in Nat

StreamAssumption ==
    /\ MaxOffset \in Nat
    /\ NoOwner \notin Consumers
    /\ \A s \in Setups : SetupFits(s)

-----------------------------------------------------------------------------
(* The inductive invariant *)

Phases == {"inactive", "querying", "active", "storing"}

\* Offsets as a record keeps them.
Marks == Nat \cup {NoOffset}

IsRecord(r) == r \in [queue : {r.queue}, frozen : BOOLEAN, storing : Marks, last : Marks]

StreamTyped ==
    /\ setup \in Setups
    /\ stored \in Marks
    /\ pos \in Nat
    /\ wire \in [Consumers -> Seq(Nat)]
    /\ phase \in [Consumers -> Phases]
    /\ record = [c \in Consumers |-> record[c]]
    /\ \A c \in Consumers : IsRecord(record[c])
    /\ storeTask \in [Consumers -> Marks]
    /\ tasks \in [Consumers -> [Offsets -> Nat]]
    /\ stale \in BOOLEAN

\* Whoever is in the listener or consumes is the one the broker picked, and an
\* unfrozen record is the record of a consumer that consumes.
Owned ==
    \A c \in Consumers :
        /\ phase[c] # "inactive" => owner = c
        /\ ~record[c].frozen <=> phase[c] = "active"

\* The queue of a consumer that consumes went through `add` only.
Sound ==
    \A c \in Consumers : phase[c] = "active" => QueueType(record[c].queue) /\ Consistent(record[c].queue)

\* One message at a time: whatever is in the callback or in the queue comes after
\* nothing but acknowledged offsets.
InOrder ==
    ~setup.concurrent => \A c \in Consumers :
        /\ \A o \in Offsets : tasks[c][o] > 0 => \A x \in Nat : x < o => x \in acked
        /\ phase[c] = "active" =>
              /\ \A x \in Nat : x < pos => x \in acked \/ (x \in Offsets /\ tasks[c][x] > 0)
              /\ \A y \in Content(record[c].queue) : \A x \in Nat : x <= y => x \in acked

\* Many at a time: the head of the queue starts at an offset before which all is
\* acknowledged, and the queue has only acknowledged offsets.
Anchors(q) ==
    /\ Content(q) \subseteq acked
    /\ \E a \in Nat : Anchored(q, a) /\ \A x \in Nat : x <= a => x \in acked

FromAnchor ==
    setup.concurrent /\ Orderly => \A c \in Consumers : phase[c] = "active" => Anchors(record[c].queue)

\* What was sent to the broker, and what it has, was acknowledged.
Sent ==
    Orderly => /\ \A x \in Nat : x <= stored => x \in acked
               /\ \A c \in Consumers : \A i \in 1 .. Len(wire[c]) : \A x \in Nat : x <= wire[c][i] => x \in acked

\* A stream with an offset keeps one.
StaysKnown == setup.stored # NoOffset => stored # NoOffset

StreamInv == StreamTyped /\ Owned /\ Sound /\ InOrder /\ FromAnchor /\ Sent /\ StaysKnown

-----------------------------------------------------------------------------
(* Records *)

\* freeze, unfreeze and a new record.
LEMMA RecordFlags ==
    ASSUME NEW r, IsRecord(r)
    PROVE  /\ IsRecord(Freeze(r)) /\ Freeze(r).frozen = TRUE
           /\ IsRecord(Unfreeze(r)) /\ Unfreeze(r).frozen = FALSE /\ Unfreeze(r).queue = EmptyQueue
           /\ IsRecord(NewRecord) /\ NewRecord.frozen = TRUE
BY Zenon DEF IsRecord, Freeze, Unfreeze, NewRecord, Marks

\* `expected_offset` follows acknowledged offsets only.
LEMMA ExpectedFollows ==
    ASSUME StreamInv, NEW c \in Consumers, phase[c] = "active"
    PROVE  /\ ExpectedOffset(record[c]) \in Nat
           /\ Orderly => \A x \in Nat : x < ExpectedOffset(record[c]) => x \in acked
<1> DEFINE q == record[c].queue
<1>1. QueueType(q) /\ Consistent(q)
  BY Zenon DEF StreamInv, Sound
<1>2. FirstEnd(q) \in Nat
  BY <1>1, FirstEndFollows, Zenon
<1>3. ASSUME ~setup.concurrent
      PROVE  \A x \in Nat : x < FirstEnd(q) => x \in acked
  <2>1. \A y \in Content(q) : \A x \in Nat : x <= y => x \in acked
    BY <1>3, Zenon DEF StreamInv, InOrder
  <2>2. FirstEnd(q) = 0 \/ FirstEnd(q) - 1 \in Content(q)
    BY <1>1, FirstEndFollows, Zenon
  <2> HIDE DEF q
  <2>3. QED
    BY <1>2, <2>1, <2>2
<1>4. ASSUME setup.concurrent, Orderly
      PROVE  \A x \in Nat : x < FirstEnd(q) => x \in acked
  <2>1. Anchors(q)
    BY <1>4, Zenon DEF StreamInv, FromAnchor
  <2>2. PICK a \in Nat : Anchored(q, a) /\ \A x \in Nat : x <= a => x \in acked
    BY <2>1, Zenon DEF Anchors
  <2>3. a .. (FirstEnd(q) - 1) \subseteq acked
    BY <1>1, <2>1, <2>2, AnchoredFrontier, Zenon DEF Anchors
  <2> HIDE DEF q
  <2>4. QED
    BY <1>2, <2>2, <2>3
<1>5. QED
  BY <1>2, <1>3, <1>4, Zenon DEF ExpectedOffset

-----------------------------------------------------------------------------
(* What the steps have in common *)

\* A step of consumer c writes its own record and phase.
Touches(c, r, p) ==
    /\ record' = [record EXCEPT ![c] = r]
    /\ IsRecord(r)
    /\ phase' = [phase EXCEPT ![c] = p]
    /\ p \in Phases

\* The record and the phase of every consumer after such a step.
LEMMA Touched ==
    ASSUME StreamTyped, NEW c \in Consumers, NEW r, NEW p, Touches(c, r, p)
    PROVE  /\ record'[c] = r /\ phase'[c] = p
           /\ \A d \in Consumers : d # c => record'[d] = record[d] /\ phase'[d] = phase[d]
           /\ record' = [d \in Consumers |-> record'[d]]
           /\ phase' \in [Consumers -> Phases]
           /\ \A d \in Consumers : IsRecord(record'[d])
<1>1. /\ record'[c] = r /\ phase'[c] = p
      /\ \A d \in Consumers : d # c => record'[d] = record[d] /\ phase'[d] = phase[d]
      /\ record' = [d \in Consumers |-> record'[d]]
      /\ phase' \in [Consumers -> Phases]
  BY Zenon DEF StreamTyped, Touches
<1>2. \A d \in Consumers : IsRecord(record[d])
  BY Zenon DEF StreamTyped
<1>3. IsRecord(record'[c])
  BY <1>1, Zenon DEF Touches
<1>4. ASSUME NEW d \in Consumers, d # c PROVE IsRecord(record'[d])
  BY <1>1, <1>2, <1>4, Zenon
<1>5. QED
  BY <1>1, <1>3, <1>4, Zenon

\* A step that writes neither record nor phase.
LEMMA TouchesNothing ==
    ASSUME StreamTyped, NEW c \in Consumers, UNCHANGED <<record, phase>>
    PROVE  Touches(c, record[c], phase[c])
<1>1. record = [record EXCEPT ![c] = record[c]] /\ phase = [phase EXCEPT ![c] = phase[c]]
  BY Zenon DEF StreamTyped
<1>2. IsRecord(record[c]) /\ phase[c] \in Phases
  BY Zenon DEF StreamTyped
<1>3. QED
  BY <1>1, <1>2, Zenon DEF Touches

\* A step that counts nothing and changes nobody's phase.
LEMMA QuietKeeps ==
    ASSUME StreamInv, NEW c \in Consumers, NEW r, Touches(c, r, phase[c]),
           r.frozen = record[c].frozen, r.queue = record[c].queue,
           UNCHANGED <<setup, owner, pos, tasks, acked, stale>>
    PROVE  Owned' /\ Sound' /\ InOrder' /\ FromAnchor'
<1>1. \A d \in Consumers : /\ phase'[d] = phase[d] /\ record'[d].queue = record[d].queue
                           /\ record'[d].frozen = record[d].frozen
  BY Touched DEF StreamInv
<1>2. Owned'
  BY <1>1, Zenon DEF StreamInv, Owned
<1>3. Sound'
  BY <1>1, Zenon DEF StreamInv, Sound
<1>4. InOrder'
  BY <1>1, Zenon DEF StreamInv, InOrder
<1>5. FromAnchor'
  BY <1>1, Zenon DEF StreamInv, FromAnchor, Orderly, Anchors
<1>6. QED
  BY <1>2, <1>3, <1>4, <1>5, Zenon

\* A step after which the consumer does not consume.
LEMMA LeaveKeeps ==
    ASSUME StreamInv, NEW c \in Consumers, NEW r, NEW p, Touches(c, r, p), p # "active", r.frozen = TRUE,
           owner = c \/ p = "inactive",
           \/ owner' = owner /\ pos' = pos /\ owner = c
           \/ Release(c) /\ p = "inactive",
           tasks' \in [Consumers -> [Offsets -> Nat]],
           \A d \in Consumers : d # c => tasks'[d] = tasks[d],
           \A o \in Offsets : tasks'[c][o] > 0 => tasks[c][o] > 0,
           UNCHANGED <<setup, acked, stale>>
    PROVE  Owned' /\ Sound' /\ InOrder' /\ FromAnchor'
<1>1. /\ phase'[c] = p /\ record'[c] = r
      /\ \A d \in Consumers : d # c => phase'[d] = phase[d] /\ record'[d] = record[d]
  BY Touched, Zenon DEF StreamInv
<1>2. Owned'
  BY <1>1, Zenon DEF StreamInv, Owned, Release
<1>3. Sound'
  BY <1>1, Zenon DEF StreamInv, Sound
<1>4. InOrder'
  <2>1. \A d \in Consumers : phase'[d] = "active" => d # c /\ pos' = pos
    BY <1>1, Zenon DEF StreamInv, Owned, Release
  <2>2. \A d \in Consumers : \A o \in Offsets : tasks'[d][o] > 0 => tasks[d][o] > 0
    BY Zenon
  <2>3. QED
    BY <1>1, <2>1, <2>2, Zenon DEF StreamInv, InOrder
<1>5. FromAnchor'
  BY <1>1, Zenon DEF StreamInv, FromAnchor, Orderly, Anchors
<1>6. QED
  BY <1>2, <1>3, <1>4, <1>5, Zenon

\* A step that sends nothing.
LEMMA SentStays ==
    ASSUME StreamInv, UNCHANGED <<setup, stored, wire>>, acked \subseteq acked', Orderly' => Orderly
    PROVE  Sent' /\ StaysKnown'
BY Zenon DEF StreamInv, Sent, StaysKnown

-----------------------------------------------------------------------------
(* The steps *)

\* The broker picks a consumer.
LEMMA ActivateKeeps ==
    ASSUME StreamAssumption, StreamInv, NEW c \in Consumers, Activate(c)
    PROVE  StreamInv'
<1>1. /\ owner = NoOwner /\ owner' = c /\ phase[c] = "inactive" /\ phase' = [phase EXCEPT ![c] = "querying"]
      /\ UNCHANGED <<setup, stored, pos, wire, record, storeTask, tasks, acked, stale>>
  BY Zenon DEF Activate
<1>2. \A d \in Consumers : phase[d] = "inactive"
  BY <1>1, Zenon DEF StreamInv, Owned, StreamAssumption
<1>3. /\ \A d \in Consumers : d # c => phase'[d] = "inactive"
      /\ phase'[c] = "querying" /\ phase' \in [Consumers -> Phases]
  BY <1>1, <1>2, Zenon DEF StreamInv, StreamTyped, Phases
<1>4. StreamTyped'
  BY <1>1, <1>3, Zenon DEF StreamInv, StreamTyped
<1>5. Owned' /\ Sound' /\ InOrder' /\ FromAnchor'
  BY <1>1, <1>2, <1>3, Zenon DEF StreamInv, Owned, Sound, InOrder, FromAnchor
<1>6. Sent' /\ StaysKnown'
  BY <1>1, SentStays, Zenon DEF Orderly
<1>7. QED
  BY <1>4, <1>5, <1>6, Zenon DEF StreamInv

\* A consumer starts to consume at `next`, with a queue that counts from there.
LEMMA BecomeActiveKeeps ==
    ASSUME StreamInv, NEW c \in Consumers, NEW r, NEW n \in Nat, BecomeActive(c, r, n),
           IsRecord(r), r.frozen = FALSE, QueueType(r.queue), Consistent(r.queue),
           ~setup.concurrent => /\ \A x \in Nat : x < n => x \in acked
                                /\ \A y \in Content(r.queue) : \A x \in Nat : x <= y => x \in acked,
           setup.concurrent /\ Orderly => Anchors(r.queue)
    PROVE  StreamInv'
<1>1. /\ phase[c] = "querying" /\ pos' = n /\ record' = [record EXCEPT ![c] = r]
      /\ phase' = [phase EXCEPT ![c] = "active"]
      /\ UNCHANGED <<setup, stored, owner, wire, storeTask, tasks, acked, stale>>
  BY Zenon DEF BecomeActive
<1>2. Touches(c, r, "active")
  BY <1>1, Zenon DEF Touches, Phases
<1>3. /\ record'[c] = r /\ phase'[c] = "active"
      /\ \A d \in Consumers : d # c => record'[d] = record[d] /\ phase'[d] = phase[d]
  BY <1>2, Touched, Zenon DEF StreamInv
<1>4. owner = c /\ \A d \in Consumers : d # c => phase[d] = "inactive"
  BY <1>1, Zenon DEF StreamInv, Owned
<1>5. StreamTyped'
  BY <1>1, <1>2, Touched, Zenon DEF StreamInv, StreamTyped
<1>6. Owned'
  BY <1>1, <1>3, <1>4, Zenon DEF StreamInv, Owned
<1>7. Sound'
  BY <1>3, <1>4, Zenon DEF Sound
<1>8. InOrder'
  BY <1>1, <1>3, <1>4, Zenon DEF StreamInv, InOrder
<1>9. FromAnchor'
  BY <1>1, <1>3, <1>4, Zenon DEF FromAnchor, Orderly, Anchors
<1>10. Sent' /\ StaysKnown'
  BY <1>1, SentStays, Zenon DEF Orderly
<1>11. QED
  BY <1>5, <1>6, <1>7, <1>8, <1>9, <1>10, Zenon DEF StreamInv

\* query_offset answers: the stored offset anchors the queue.
LEMMA OffsetFoundKeeps ==
    ASSUME StreamInv, NEW c \in Consumers, OffsetFound(c)
    PROVE  StreamInv'
<1> DEFINE u == Unfreeze(record[c])
           q == Add(EmptyQueue, stored)
           r == [u EXCEPT !.queue = q, !.last = stored]
<1>1. stored \in Nat
  BY Zenon DEF OffsetFound, StreamInv, StreamTyped, Marks
<1>2. IsRecord(u) /\ u.frozen = FALSE /\ u.queue = EmptyQueue
  BY RecordFlags, Zenon DEF StreamInv, StreamTyped
<1>3. BecomeActive(c, r, stored + 1)
  BY <1>2, Zenon DEF OffsetFound
<1> HIDE DEF u
<1>4. IsRecord(r) /\ r.frozen = FALSE /\ r.queue = q
  <2>1. stored \in Marks
    BY <1>1, Zenon DEF Marks
  <2> HIDE DEF q
  <2>2. QED
    BY <1>2, <2>1, Zenon DEF IsRecord
<1>5. /\ QueueType(q) /\ Consistent(q) /\ Content(q) = {stored} /\ Anchored(q, stored)
  BY <1>1, EmptyQueueFacts, AddPreserves, FirstAdd
<1> HIDE DEF r, q
<1>6. Orderly => \A x \in Nat : x <= stored => x \in acked
  BY Zenon DEF StreamInv, Sent
<1>7. ~setup.concurrent => /\ \A x \in Nat : x < stored + 1 => x \in acked
                           /\ \A y \in Content(q) : \A x \in Nat : x <= y => x \in acked
  BY <1>1, <1>5, <1>6 DEF Orderly
<1>8. setup.concurrent /\ Orderly => Anchors(q)
  BY <1>1, <1>5, <1>6 DEF Anchors
<1>9. stored + 1 \in Nat /\ QueueType(r.queue) /\ Consistent(r.queue)
  BY <1>1, <1>4, <1>5
<1>10. ~setup.concurrent => /\ \A x \in Nat : x < stored + 1 => x \in acked
                            /\ \A y \in Content(r.queue) : \A x \in Nat : x <= y => x \in acked
  BY <1>4, <1>7, Zenon
<1>11. setup.concurrent /\ Orderly => Anchors(r.queue)
  BY <1>4, <1>8, Zenon
<1>12. QED
  BY <1>3, <1>4, <1>9, <1>10, <1>11, BecomeActiveKeeps, Zenon

\* query_offset fails: the stream is replayed.
LEMMA OffsetUnknownKeeps ==
    ASSUME StreamInv, NEW c \in Consumers, OffsetUnknown(c)
    PROVE  StreamInv'
<1> DEFINE u == Unfreeze(record[c])
<1>1. BecomeActive(c, u, 0) /\ (stored = NoOffset \/ setup.queryMayFail)
  BY Zenon DEF OffsetUnknown
<1>2. IsRecord(u) /\ u.frozen = FALSE /\ u.queue = EmptyQueue
  BY RecordFlags, Zenon DEF StreamInv, StreamTyped
<1>3. QueueType(u.queue) /\ Consistent(u.queue) /\ Content(u.queue) = {}
  BY <1>2, EmptyQueueFacts, Zenon
<1>4. ~(setup.concurrent /\ Orderly)
  BY <1>1, Zenon DEF Orderly, StreamInv, StaysKnown
<1> HIDE DEF u
<1>5. ~setup.concurrent => /\ \A x \in Nat : x < 0 => x \in acked
                           /\ \A y \in Content(u.queue) : \A x \in Nat : x <= y => x \in acked
  BY <1>3
<1>6. setup.concurrent /\ Orderly => Anchors(u.queue)
  BY <1>4, Zenon
<1>7. QED
  BY <1>1, <1>2, <1>3, <1>5, <1>6, BecomeActiveKeeps, Zenon

\* A message enters the callback, or a frozen record drops it.
LEMMA DeliverKeeps ==
    ASSUME StreamAssumption, StreamInv, NEW c \in Consumers, Deliver(c)
    PROVE  StreamInv'
<1>1. /\ owner = c /\ pos <= setup.last /\ pos' = pos + 1
      /\ setup.concurrent \/ \A o \in Offsets : tasks[c][o] = 0
      /\ UNCHANGED <<setup, stored, owner, wire, phase, record, storeTask, acked, stale>>
  BY Zenon DEF Deliver
<1>2. pos \in Offsets
  BY <1>1 DEF StreamInv, StreamTyped, StreamAssumption, SetupFits, Offsets
<1>3. /\ tasks' \in [Consumers -> [Offsets -> Nat]]
      /\ \A d \in Consumers : d # c => tasks'[d] = tasks[d]
      /\ \A o \in Offsets : o # pos => tasks'[c][o] = tasks[c][o]
      /\ ~record[c].frozen => tasks'[c][pos] > 0
  BY <1>2 DEF Deliver, StreamInv, StreamTyped
<1>4. StreamTyped'
  BY <1>1, <1>3 DEF StreamInv, StreamTyped
<1>5. Owned' /\ Sound' /\ FromAnchor'
  BY <1>1, Zenon DEF StreamInv, Owned, Sound, FromAnchor, Orderly, Anchors
<1>6. InOrder'
  <2> SUFFICES ASSUME ~setup.concurrent PROVE InOrder'
    BY <1>1, Zenon DEF InOrder
  <2>1. \A d \in Consumers : d # c => phase[d] = "inactive"
    BY <1>1, Zenon DEF StreamInv, Owned
  <2>2. CASE phase[c] = "active"
    <3>1. \A x \in Nat : x < pos => x \in acked
      BY <1>1, <2>2 DEF StreamInv, InOrder
    <3>2. ~record[c].frozen /\ pos \in Nat
      BY <2>2, Zenon DEF StreamInv, Owned, StreamTyped
    <3>3. \A x \in Nat : x < pos' => x \in acked \/ (x \in Offsets /\ tasks'[c][x] > 0)
      BY <1>1, <1>2, <1>3, <3>1, <3>2
    <3>4. \A o \in Offsets : tasks'[c][o] > 0 => \A x \in Nat : x < o => x \in acked
      BY <1>1, <1>3, <3>1
    <3>5. QED
      BY <1>1, <1>3, <2>1, <3>3, <3>4, Zenon DEF StreamInv, InOrder
  <2>3. CASE phase[c] # "active"
    <3>1. tasks' = tasks
      BY <2>3, Zenon DEF Deliver, StreamInv, Owned
    <3>2. QED
      BY <1>1, <2>1, <2>3, <3>1, Zenon DEF StreamInv, InOrder
  <2>4. QED
    BY <2>2, <2>3, Zenon
<1>7. Sent' /\ StaysKnown'
  BY <1>1, SentStays, Zenon DEF Orderly
<1>8. QED
  BY <1>4, <1>5, <1>6, <1>7, Zenon DEF StreamInv

\* A message leaves the callback.
LEMMA TaskLeaves ==
    ASSUME StreamTyped, NEW c \in Consumers, NEW o \in Offsets, tasks[c][o] > 0,
           tasks' = [tasks EXCEPT ![c][o] = @ - 1]
    PROVE  /\ tasks' \in [Consumers -> [Offsets -> Nat]]
           /\ \A d \in Consumers : d # c => tasks'[d] = tasks[d]
           /\ \A d \in Consumers : \A x \in Offsets : tasks'[d][x] > 0 => tasks[d][x] > 0
           /\ \A x \in Offsets : x # o => tasks'[c][x] = tasks[c][x]
BY DEF StreamTyped

\* ack: the queue grows, frozen or not.
LEMMA AckKeeps ==
    ASSUME StreamAssumption, StreamInv, NEW c \in Consumers, NEW o \in Offsets, Ack(c, o)
    PROVE  StreamInv'
<1> DEFINE q == record[c].queue
           r == [record[c] EXCEPT !.queue = Add(q, o)]
<1>1. /\ tasks[c][o] > 0 /\ tasks' = [tasks EXCEPT ![c][o] = @ - 1] /\ acked' = acked \cup {o}
      /\ record' = [record EXCEPT ![c] = r]
      /\ stale' = (stale \/ (~record[c].frozen /\ Below(q, o)))
      /\ UNCHANGED <<setup, stored, owner, pos, wire, phase, storeTask>>
  BY Zenon DEF Ack, brokerVars
<1>2. /\ tasks' \in [Consumers -> [Offsets -> Nat]]
      /\ \A d \in Consumers : \A x \in Offsets : tasks'[d][x] > 0 => tasks[d][x] > 0
      /\ \A d \in Consumers : \A x \in Offsets : tasks[d][x] > 0 => tasks'[d][x] > 0 \/ x \in acked'
  <2>1. /\ tasks' \in [Consumers -> [Offsets -> Nat]]
        /\ \A d \in Consumers : d # c => tasks'[d] = tasks[d]
        /\ \A d \in Consumers : \A x \in Offsets : tasks'[d][x] > 0 => tasks[d][x] > 0
        /\ \A x \in Offsets : x # o => tasks'[c][x] = tasks[c][x]
    <3>1. StreamTyped /\ tasks[c][o] > 0 /\ tasks' = [tasks EXCEPT ![c][o] = @ - 1]
      BY <1>1, Zenon DEF StreamInv
    <3>2. QED
      BY <3>1 DEF StreamTyped
  <2>2. o \in acked'
    BY <1>1, Zenon
  <2>3. QED
    BY <2>1, <2>2, Zenon
<1>3. IsRecord(r) /\ r.frozen = record[c].frozen /\ r.queue = Add(q, o)
  BY Zenon DEF IsRecord, StreamInv, StreamTyped
<1> HIDE DEF r
<1>4. Touches(c, r, phase[c])
  BY <1>1, <1>3, Zenon DEF Touches, StreamInv, StreamTyped
<1>5. /\ record'[c] = r
      /\ \A d \in Consumers : d # c => record'[d] = record[d]
  BY <1>4, Touched, Zenon DEF StreamInv
<1>6. o \in Nat /\ stale' \in BOOLEAN /\ (Orderly' => Orderly)
  BY <1>1 DEF Offsets, StreamAssumption, StreamInv, StreamTyped, Orderly
<1>7. phase[c] = "active" =>
         /\ QueueType(q) /\ Consistent(q) /\ QueueType(Add(q, o)) /\ Consistent(Add(q, o))
         /\ Content(Add(q, o)) = Content(q) \cup {o}
         /\ \A f \in Nat : Anchored(q, f) /\ f <= o => Anchored(Add(q, o), f)
  BY <1>6, AddPreserves, Zenon DEF StreamInv, Sound
<1>8. StreamTyped'
  BY <1>1, <1>2, <1>4, <1>6, Touched, Zenon DEF StreamInv, StreamTyped
<1>9. Owned'
  BY <1>1, <1>3, <1>5, Zenon DEF StreamInv, Owned
<1>10. Sound'
  BY <1>1, <1>3, <1>5, <1>7, Zenon DEF StreamInv, Sound
<1> HIDE DEF q
<1>11. InOrder'
  <2> SUFFICES ASSUME ~setup.concurrent PROVE InOrder'
    BY <1>1, Zenon DEF InOrder
  <2>1. \A d \in Consumers : \A k \in Offsets : tasks'[d][k] > 0 => \A x \in Nat : x < k => x \in acked'
    BY <1>1, <1>2, Zenon DEF StreamInv, InOrder
  <2>2. \A d \in Consumers : phase[d] = "active" =>
           \A x \in Nat : x < pos => x \in acked' \/ (x \in Offsets /\ tasks'[d][x] > 0)
    BY <1>1, <1>2, Zenon DEF StreamInv, InOrder
  <2>3. \A x \in Nat : x <= o => x \in acked'
    BY <1>1, <1>6 DEF StreamInv, InOrder
  <2>4. ASSUME NEW d \in Consumers, phase[d] = "active", d # c
        PROVE  \A y \in Content(record[d].queue) : \A x \in Nat : x <= y => x \in acked'
    BY <1>1, <2>4, Zenon DEF StreamInv, InOrder
  <2>5. phase[c] = "active" => \A y \in Content(q) : \A x \in Nat : x <= y => x \in acked'
    BY <1>1, Zenon DEF StreamInv, InOrder, q
  <2>6. phase[c] = "active" => \A y \in Content(r.queue) : \A x \in Nat : x <= y => x \in acked'
    BY <1>3, <1>7, <2>3, <2>5, Zenon
  <2>7. ASSUME NEW d \in Consumers, phase'[d] = "active"
        PROVE  \A y \in Content(record'[d].queue) : \A x \in Nat : x <= y => x \in acked'
    BY <1>1, <1>5, <2>4, <2>6, <2>7, Zenon
  <2>8. QED
    BY <1>1, <2>1, <2>2, <2>7, Zenon DEF InOrder
<1>12. FromAnchor'
  <2> SUFFICES ASSUME setup.concurrent, Orderly', NEW d \in Consumers, phase[d] = "active"
               PROVE  Anchors(record[d].queue)'
    BY <1>1, Zenon DEF FromAnchor
  <2>1. Anchors(record[d].queue) /\ acked \subseteq acked'
    BY <1>1, <1>6, Zenon DEF StreamInv, FromAnchor
  <2>2. CASE d # c
    BY <1>5, <2>1, <2>2, Zenon DEF Anchors
  <2>3. CASE d = c
    <3>1. PICK a \in Nat : Anchored(q, a) /\ \A x \in Nat : x <= a => x \in acked
      BY <2>1, <2>3, Zenon DEF Anchors, q
    <3>2. ~Below(q, o)
      BY <1>1, <2>3, Zenon DEF StreamInv, Owned, Orderly
    <3>3. a <= o
      BY <1>6, <3>1, <3>2 DEF Below, Anchored
    <3>4. Anchored(Add(q, o), a) /\ Content(Add(q, o)) \subseteq acked'
      BY <1>1, <1>7, <2>1, <2>3, <3>1, <3>3, Zenon DEF Anchors, q
    <3>5. record'[d].queue = Add(q, o)
      BY <1>3, <1>5, <2>3, Zenon
    <3>6. QED
      BY <2>1, <3>1, <3>4, <3>5, Zenon DEF Anchors
  <2>4. QED
    BY <2>2, <2>3, Zenon
<1>13. Sent' /\ StaysKnown'
  BY <1>1, <1>6, SentStays, Zenon
<1>14. QED
  BY <1>8, <1>9, <1>10, <1>11, <1>12, <1>13, Zenon DEF StreamInv

\* A frozen consumer gives a message up.
LEMMA DiscardKeeps ==
    ASSUME StreamInv, NEW c \in Consumers, NEW o \in Offsets, Discard(c, o)
    PROVE  StreamInv'
<1>1. /\ tasks[c][o] > 0 /\ tasks' = [tasks EXCEPT ![c][o] = @ - 1] /\ record[c].frozen
      /\ UNCHANGED <<setup, stored, owner, pos, wire, phase, record, storeTask, acked, stale>>
  BY Zenon DEF Discard, brokerVars
<1>2. /\ tasks' \in [Consumers -> [Offsets -> Nat]]
      /\ \A d \in Consumers : d # c => tasks'[d] = tasks[d]
      /\ \A d \in Consumers : \A x \in Offsets : tasks'[d][x] > 0 => tasks[d][x] > 0
  BY <1>1, TaskLeaves, Zenon DEF StreamInv
<1>3. StreamTyped'
  BY <1>1, <1>2, Zenon DEF StreamInv, StreamTyped
<1>4. Owned' /\ Sound' /\ FromAnchor'
  BY <1>1, Zenon DEF StreamInv, Owned, Sound, FromAnchor, Orderly, Anchors
<1>5. InOrder'
  <2>1. phase[c] # "active"
    BY <1>1, Zenon DEF StreamInv, Owned
  <2>2. QED
    BY <1>1, <1>2, <2>1, Zenon DEF StreamInv, InOrder
<1>6. Sent' /\ StaysKnown'
  BY <1>1, SentStays, Zenon DEF Orderly
<1>7. QED
  BY <1>3, <1>4, <1>5, <1>6, Zenon DEF StreamInv

\* A StoreOffset frame for acknowledged offsets is sent.
LEMMA SendKeeps ==
    ASSUME StreamInv, NEW c \in Consumers, NEW v \in Nat, wire' = [wire EXCEPT ![c] = Append(@, v)],
           Orderly => \A x \in Nat : x <= v => x \in acked,
           UNCHANGED <<setup, stored, acked, stale>>
    PROVE  wire' \in [Consumers -> Seq(Nat)] /\ Sent' /\ StaysKnown'
<1>1. /\ wire' \in [Consumers -> Seq(Nat)]
      /\ wire'[c] = Append(wire[c], v) /\ wire[c] \in Seq(Nat)
      /\ \A d \in Consumers : d # c => wire'[d] = wire[d]
  BY DEF StreamInv, StreamTyped
<1>2. Orderly' = Orderly
  BY Zenon DEF Orderly
<1>3. ASSUME Orderly
      PROVE  \A i \in 1 .. Len(wire'[c]) : \A x \in Nat : x <= wire'[c][i] => x \in acked
  <2>1. \A i \in 1 .. Len(wire[c]) : \A x \in Nat : x <= wire[c][i] => x \in acked
    BY <1>3, Zenon DEF StreamInv, Sent
  <2>2. \A i \in 1 .. Len(wire'[c]) : wire'[c][i] = v \/ (i \in 1 .. Len(wire[c]) /\ wire'[c][i] = wire[c][i])
    BY <1>1
  <2>3. QED
    BY <1>3, <2>1, <2>2, Zenon
<1>4. Sent' /\ StaysKnown'
  BY <1>1, <1>2, <1>3, Zenon DEF StreamInv, Sent, StaysKnown
<1>5. QED
  BY <1>1, <1>4, Zenon

\* The timer stores the end of the first span.
LEMMA TimerStoreKeeps ==
    ASSUME StreamAssumption, StreamInv, NEW c \in Consumers, TimerStore(c)
    PROVE  StreamInv'
<1> DEFINE e == ExpectedOffset(record[c])
           v == e - 1
           r == [record[c] EXCEPT !.storing = v]
<1>1. /\ ~record[c].frozen /\ v - record[c].last > setup.threshold
      /\ storeTask' = [storeTask EXCEPT ![c] = v] /\ record' = [record EXCEPT ![c] = r]
      /\ wire' = [wire EXCEPT ![c] = Append(@, v)]
      /\ UNCHANGED <<setup, stored, owner, pos, phase, tasks, acked, stale>>
  BY Zenon DEF TimerStore
<1>2. phase[c] = "active"
  BY <1>1, Zenon DEF StreamInv, Owned
<1>3. e \in Nat /\ (Orderly => \A x \in Nat : x < e => x \in acked)
  BY <1>2, ExpectedFollows, Zenon
<1>4. IsRecord(record[c]) /\ phase[c] \in Phases
  BY Zenon DEF StreamInv, StreamTyped
<1>5. record[c].last \in Marks /\ setup.threshold \in Nat
  BY <1>4, Zenon DEF IsRecord, StreamAssumption, SetupFits, StreamInv, StreamTyped
<1> HIDE DEF e
<1>6. v \in Nat /\ (Orderly => \A x \in Nat : x <= v => x \in acked)
  BY <1>1, <1>3, <1>5 DEF Marks, NoOffset
<1> HIDE DEF v
<1>7. IsRecord(r) /\ r.frozen = record[c].frozen /\ r.queue = record[c].queue
  BY <1>4, <1>6, Zenon DEF IsRecord, Marks
<1> HIDE DEF r
<1>8. Touches(c, r, phase[c])
  BY <1>1, <1>4, <1>7, Zenon DEF Touches, StreamInv, StreamTyped
<1>9. wire' \in [Consumers -> Seq(Nat)] /\ Sent' /\ StaysKnown'
  BY <1>1, <1>6, SendKeeps, Zenon
<1>10. StreamTyped'
  <2>1. storeTask' \in [Consumers -> Marks]
    BY <1>1, <1>6, Zenon DEF StreamInv, StreamTyped, Marks
  <2>2. QED
    BY <1>1, <1>8, <1>9, <2>1, Touched, Zenon DEF StreamInv, StreamTyped
<1>11. Owned' /\ Sound' /\ InOrder' /\ FromAnchor'
  BY <1>1, <1>7, <1>8, QuietKeeps, Zenon
<1>12. QED
  BY <1>9, <1>10, <1>11, Zenon DEF StreamInv

\* The timer's store returns or raises.
LEMMA StoreTaskDoneKeeps ==
    ASSUME StreamInv, NEW c \in Consumers, NEW ok \in BOOLEAN, StoreTaskDone(c, ok)
    PROVE  StreamInv'
<1> DEFINE mine == record[c].storing = storeTask[c]
           a == IF mine THEN NoOffset ELSE record[c].storing
           b == IF mine /\ ok THEN storeTask[c] ELSE record[c].last
           r == [record[c] EXCEPT !.storing = a, !.last = b]
<1>1. /\ storeTask' = [storeTask EXCEPT ![c] = NoOffset] /\ record' = [record EXCEPT ![c] = r]
      /\ UNCHANGED <<setup, stored, owner, pos, wire, phase, tasks, acked, stale>>
  BY Zenon DEF StoreTaskDone, brokerVars
<1>2. IsRecord(record[c]) /\ phase[c] \in Phases /\ storeTask[c] \in Marks
  BY Zenon DEF StreamInv, StreamTyped
<1>3. a \in Marks /\ b \in Marks
  BY <1>2, Zenon DEF IsRecord, Marks
<1> HIDE DEF a, b
<1>4. IsRecord(r) /\ r.frozen = record[c].frozen /\ r.queue = record[c].queue
  BY <1>2, <1>3, Zenon DEF IsRecord
<1> HIDE DEF r
<1>5. Touches(c, r, phase[c])
  BY <1>1, <1>2, <1>4, Zenon DEF Touches, StreamInv, StreamTyped
<1>6. StreamTyped'
  <2>1. storeTask' \in [Consumers -> Marks]
    BY <1>1, Zenon DEF StreamInv, StreamTyped, Marks
  <2>2. QED
    BY <1>1, <1>5, <2>1, Touched, Zenon DEF StreamInv, StreamTyped
<1>7. Owned' /\ Sound' /\ InOrder' /\ FromAnchor'
  BY <1>1, <1>4, <1>5, QuietKeeps, Zenon
<1>8. Sent' /\ StaysKnown'
  BY <1>1, SentStays, Zenon DEF Orderly
<1>9. QED
  BY <1>6, <1>7, <1>8, Zenon DEF StreamInv

\* A consumer is deactivated: it freezes, and stores what it handled since.
LEMMA DeactivateKeeps ==
    ASSUME StreamInv, NEW c \in Consumers, Deactivate(c)
    PROVE  StreamInv'
<1> DEFINE e == ExpectedOffset(record[c])
           v == e - 1
           f == Freeze(record[c])
           r == [f EXCEPT !.storing = v]
<1>1. /\ phase[c] = "active" /\ UNCHANGED <<setup, stored, storeTask, tasks, acked, stale>>
      /\ \/ /\ record[c].last < v /\ record' = [record EXCEPT ![c] = r]
            /\ wire' = [wire EXCEPT ![c] = Append(@, v)] /\ phase' = [phase EXCEPT ![c] = "storing"]
            /\ UNCHANGED <<owner, pos>>
         \/ /\ record' = [record EXCEPT ![c] = f] /\ wire' = wire
            /\ phase' = [phase EXCEPT ![c] = "inactive"] /\ Release(c)
  BY Zenon DEF Deactivate
<1>2. e \in Nat /\ (Orderly => \A x \in Nat : x < e => x \in acked)
  BY <1>1, ExpectedFollows, Zenon
<1>3. IsRecord(record[c]) /\ owner = c
  BY <1>1, Zenon DEF StreamInv, StreamTyped, Owned
<1>4. IsRecord(f) /\ f.frozen = TRUE
  BY <1>3, RecordFlags, Zenon
<1>5. record[c].last \in Marks
  BY <1>3, Zenon DEF IsRecord
<1> HIDE DEF e, f
<1>6. /\ tasks' \in [Consumers -> [Offsets -> Nat]]
      /\ \A d \in Consumers : d # c => tasks'[d] = tasks[d]
      /\ \A o \in Offsets : tasks'[c][o] > 0 => tasks[c][o] > 0
  BY <1>1, Zenon DEF StreamInv, StreamTyped
<1>7. ASSUME /\ record[c].last < v /\ record' = [record EXCEPT ![c] = r]
             /\ wire' = [wire EXCEPT ![c] = Append(@, v)] /\ phase' = [phase EXCEPT ![c] = "storing"]
             /\ UNCHANGED <<owner, pos>>
      PROVE  StreamInv'
  <2>1. v \in Nat /\ (Orderly => \A x \in Nat : x <= v => x \in acked)
    BY <1>2, <1>5, <1>7 DEF Marks, NoOffset
  <2> HIDE DEF v
  <2>2. IsRecord(r) /\ r.frozen = TRUE
    BY <1>4, <2>1, Zenon DEF IsRecord, Marks
  <2> HIDE DEF r
  <2>3. Touches(c, r, "storing")
    BY <1>7, <2>2, Zenon DEF Touches, Phases
  <2>4. wire' \in [Consumers -> Seq(Nat)] /\ Sent' /\ StaysKnown'
    BY <1>1, <1>7, <2>1, SendKeeps, Zenon
  <2>5. StreamTyped'
    BY <1>1, <1>7, <2>3, <2>4, Touched, Zenon DEF StreamInv, StreamTyped
  <2>6. Owned' /\ Sound' /\ InOrder' /\ FromAnchor'
    BY <1>1, <1>3, <1>6, <1>7, <2>2, <2>3, LeaveKeeps, Zenon
  <2>7. QED
    BY <2>4, <2>5, <2>6, Zenon DEF StreamInv
<1>8. ASSUME /\ record' = [record EXCEPT ![c] = f] /\ wire' = wire
             /\ phase' = [phase EXCEPT ![c] = "inactive"] /\ Release(c)
      PROVE  StreamInv'
  <2>1. Touches(c, f, "inactive")
    BY <1>4, <1>8, Zenon DEF Touches, Phases
  <2>2. StreamTyped'
    <3>1. pos' \in Nat
      BY <1>8 DEF Release, StreamInv, StreamTyped
    <3>2. QED
      BY <1>1, <1>8, <2>1, <3>1, Touched, Zenon DEF StreamInv, StreamTyped
  <2>3. Owned' /\ Sound' /\ InOrder' /\ FromAnchor'
    BY <1>1, <1>4, <1>6, <1>8, <2>1, LeaveKeeps, Zenon
  <2>4. Sent' /\ StaysKnown'
    BY <1>1, <1>8, SentStays, Zenon DEF Orderly
  <2>5. QED
    BY <2>2, <2>3, <2>4, Zenon DEF StreamInv
<1>9. QED
  BY <1>1, <1>7, <1>8, Zenon

\* The listener answers, or the process dies: the consumer is out.
LEMMA OutKeeps ==
    ASSUME StreamInv, NEW c \in Consumers, NEW r, Touches(c, r, "inactive"), r.frozen = TRUE, Release(c),
           storeTask' \in [Consumers -> Marks],
           tasks' \in [Consumers -> [Offsets -> Nat]],
           \A d \in Consumers : d # c => tasks'[d] = tasks[d],
           \A o \in Offsets : tasks'[c][o] > 0 => tasks[c][o] > 0,
           UNCHANGED <<setup, stored, wire, acked, stale>>
    PROVE  StreamInv'
<1>1. pos' \in Nat
  BY DEF Release, StreamInv, StreamTyped
<1>2. StreamTyped'
  BY <1>1, Touched, Zenon DEF StreamInv, StreamTyped
<1>3. Owned' /\ Sound' /\ InOrder' /\ FromAnchor'
  BY LeaveKeeps, Zenon
<1>4. Sent' /\ StaysKnown'
  BY SentStays, Zenon DEF Orderly
<1>5. QED
  BY <1>2, <1>3, <1>4, Zenon DEF StreamInv

\* The store of a deactivation returns or raises.
LEMMA DeactivateDoneKeeps ==
    ASSUME StreamInv, NEW c \in Consumers, NEW ok \in BOOLEAN, DeactivateDone(c, ok)
    PROVE  StreamInv'
<1> DEFINE b == IF ok THEN record[c].storing ELSE record[c].last
           r == [record[c] EXCEPT !.last = b, !.storing = NoOffset]
<1>1. /\ phase[c] = "storing" /\ record' = [record EXCEPT ![c] = r]
      /\ phase' = [phase EXCEPT ![c] = "inactive"] /\ Release(c)
      /\ UNCHANGED <<setup, stored, wire, storeTask, tasks, acked, stale>>
  BY Zenon DEF DeactivateDone
<1>2. IsRecord(record[c]) /\ record[c].frozen = TRUE
  <2>1. IsRecord(record[c]) /\ record[c].frozen
    BY <1>1, Zenon DEF StreamInv, StreamTyped, Owned
  <2>2. QED
    BY <2>1, Zenon DEF IsRecord
<1>3. b \in Marks
  BY <1>2, Zenon DEF IsRecord
<1> HIDE DEF b
<1>4. IsRecord(r) /\ r.frozen = TRUE
  BY <1>2, <1>3, Zenon DEF IsRecord, Marks
<1> HIDE DEF r
<1>5. Touches(c, r, "inactive")
  BY <1>1, <1>4, Zenon DEF Touches, Phases
<1>6. storeTask' \in [Consumers -> Marks] /\ tasks' \in [Consumers -> [Offsets -> Nat]]
  BY <1>1, Zenon DEF StreamInv, StreamTyped
<1>7. QED
  BY <1>1, <1>4, <1>5, <1>6, OutKeeps, Zenon

\* A process dies and is started again.
LEMMA ConsumerDiesKeeps ==
    ASSUME StreamInv, NEW c \in Consumers, ConsumerDies(c)
    PROVE  StreamInv'
<1>1. /\ record' = [record EXCEPT ![c] = NewRecord] /\ phase' = [phase EXCEPT ![c] = "inactive"] /\ Release(c)
      /\ storeTask' = [storeTask EXCEPT ![c] = NoOffset]
      /\ tasks' = [tasks EXCEPT ![c] = [o \in Offsets |-> 0]]
      /\ UNCHANGED <<setup, stored, wire, acked, stale>>
  BY Zenon DEF ConsumerDies
<1>2. IsRecord(NewRecord) /\ NewRecord.frozen = TRUE
  BY RecordFlags, Zenon DEF StreamInv, StreamTyped
<1>3. Touches(c, NewRecord, "inactive")
  BY <1>1, <1>2, Zenon DEF Touches, Phases
<1>4. storeTask' \in [Consumers -> Marks]
  BY <1>1, Zenon DEF StreamInv, StreamTyped, Marks
<1>5. /\ tasks' \in [Consumers -> [Offsets -> Nat]]
      /\ \A d \in Consumers : d # c => tasks'[d] = tasks[d]
      /\ \A o \in Offsets : ~(tasks'[c][o] > 0)
  BY <1>1 DEF StreamInv, StreamTyped
<1>6. QED
  BY <1>1, <1>2, <1>3, <1>4, <1>5, OutKeeps, Zenon

\* The broker processes a frame or loses it.
LEMMA BrokerStoreKeeps ==
    ASSUME StreamInv, NEW c \in Consumers, BrokerStore(c)
    PROVE  StreamInv'
<1>1. /\ wire[c] # << >> /\ stored' \in {Head(wire[c]), stored} /\ wire' = [wire EXCEPT ![c] = Tail(@)]
      /\ UNCHANGED <<setup, owner, pos, phase, record, storeTask, tasks, acked, stale>>
  BY Zenon DEF BrokerStore
<1>2. wire[c] \in Seq(Nat) /\ stored \in Marks
  BY Zenon DEF StreamInv, StreamTyped
<1>3. /\ Len(wire[c]) \in Nat \ {0} /\ Head(wire[c]) = wire[c][1] /\ wire[c][1] \in Nat
      /\ Tail(wire[c]) \in Seq(Nat) /\ Len(Tail(wire[c])) = Len(wire[c]) - 1
      /\ \A i \in 1 .. Len(Tail(wire[c])) : i + 1 \in 1 .. Len(wire[c]) /\ Tail(wire[c])[i] = wire[c][i + 1]
  BY <1>1, <1>2
<1>4. /\ wire' \in [Consumers -> Seq(Nat)] /\ wire'[c] = Tail(wire[c])
      /\ \A d \in Consumers : d # c => wire'[d] = wire[d]
  BY <1>1, <1>3, Zenon DEF StreamInv, StreamTyped
<1>5. stored' \in Marks /\ (stored' # stored => stored' = wire[c][1])
  BY <1>1, <1>2, <1>3, Zenon DEF Marks
<1>6. StreamTyped'
  BY <1>1, <1>4, <1>5, Zenon DEF StreamInv, StreamTyped
<1>7. Owned' /\ Sound' /\ InOrder' /\ FromAnchor'
  BY <1>1, Zenon DEF StreamInv, Owned, Sound, InOrder, FromAnchor, Anchors, Orderly
<1>8. StaysKnown'
  BY <1>1, <1>3, <1>5 DEF StreamInv, StaysKnown, NoOffset
<1>9. Sent'
  <2> SUFFICES ASSUME Orderly PROVE Sent'
    BY <1>1, Zenon DEF Sent, Orderly
  <2>1. /\ \A x \in Nat : x <= stored => x \in acked
        /\ \A d \in Consumers : \A i \in 1 .. Len(wire[d]) : \A x \in Nat : x <= wire[d][i] => x \in acked
    BY Zenon DEF StreamInv, Sent
  <2>2. \A x \in Nat : x <= stored' => x \in acked
    BY <1>3, <1>5, <2>1
  <2>3. \A i \in 1 .. Len(wire'[c]) : \A x \in Nat : x <= wire'[c][i] => x \in acked
    BY <1>3, <1>4, <2>1, Zenon
  <2>4. QED
    BY <1>1, <1>4, <2>1, <2>2, <2>3, Zenon DEF Sent
<1>10. QED
  BY <1>6, <1>7, <1>8, <1>9, Zenon DEF StreamInv

-----------------------------------------------------------------------------
(* The results *)

\* A group that starts satisfies the invariant.
LEMMA StreamInitHolds ==
    ASSUME StreamAssumption, StreamInit
    PROVE  StreamInv
<1>1. setup.stored \in Marks
  BY DEF StreamInit, StreamAssumption, SetupFits, Offsets, Marks
<1>2. IsRecord(NewRecord) /\ NewRecord.frozen = TRUE
  BY Zenon DEF IsRecord, NewRecord, Marks
<1>3. /\ \A c \in Consumers : record[c] = NewRecord /\ phase[c] = "inactive"
      /\ \A c \in Consumers : wire[c] = << >> /\ \A o \in Offsets : tasks[c][o] = 0
  BY Zenon DEF StreamInit
<1>4. StreamTyped
  <2>1. record = [c \in Consumers |-> record[c]] /\ \A c \in Consumers : IsRecord(record[c])
    BY <1>2, <1>3, Zenon DEF StreamInit
  <2>2. wire \in [Consumers -> Seq(Nat)]
    BY DEF StreamInit
  <2>3. /\ phase \in [Consumers -> Phases] /\ storeTask \in [Consumers -> Marks]
        /\ tasks \in [Consumers -> [Offsets -> Nat]]
    BY Zenon DEF StreamInit, Phases, Marks
  <2>4. QED
    BY <1>1, <2>1, <2>2, <2>3, Zenon DEF StreamInit, StreamTyped
<1>5. Owned /\ Sound /\ InOrder /\ FromAnchor
  BY <1>2, <1>3 DEF Owned, Sound, InOrder, FromAnchor
<1>6. Sent /\ StaysKnown
  BY <1>1, <1>3 DEF StreamInit, Sent, StaysKnown, Marks, NoOffset
<1>7. QED
  BY <1>4, <1>5, <1>6, Zenon DEF StreamInv

\* Every step of a consumer or of the broker keeps it.
LEMMA StreamKeeps ==
    ASSUME StreamAssumption, StreamInv, NEW c \in Consumers,
           \/ Activate(c) \/ OffsetFound(c) \/ OffsetUnknown(c) \/ Deliver(c)
           \/ \E o \in Offsets : Ack(c, o) \/ Discard(c, o)
           \/ TimerStore(c)
           \/ \E ok \in BOOLEAN : StoreTaskDone(c, ok) \/ DeactivateDone(c, ok)
           \/ Deactivate(c) \/ BrokerStore(c) \/ ConsumerDies(c)
    PROVE  StreamInv'
BY ActivateKeeps, OffsetFoundKeeps, OffsetUnknownKeeps, DeliverKeeps, AckKeeps, DiscardKeeps, TimerStoreKeeps,
   StoreTaskDoneKeeps, DeactivateDoneKeeps, DeactivateKeeps, BrokerStoreKeeps, ConsumerDiesKeeps, Zenon

\* Every step of the group keeps it.
LEMMA StreamNextKeeps ==
    ASSUME StreamAssumption, StreamInv, StreamNext
    PROVE  StreamInv'
BY StreamKeeps, Zenon DEF StreamNext

\* A step that does not touch the group keeps it.
LEMMA StreamRests ==
    ASSUME StreamInv,
           UNCHANGED <<setup, stored, owner, pos, wire, phase, record, storeTask, tasks, acked, stale>>
    PROVE  StreamInv'
BY Zenon DEF StreamInv, StreamTyped, Owned, Sound, InOrder, FromAnchor, Anchors, Sent, StaysKnown, Orderly

\* What the broker stores was acknowledged, and so was what a consumer expects
\* to be able to store.
LEMMA StreamIsSafe ==
    ASSUME StreamInv
    PROVE  (Orderly => StoredPrefixAcked /\ ExpectedIsAcked) /\ OneUnfrozen
<1>1. OneUnfrozen
  BY Zenon DEF StreamInv, Owned, OneUnfrozen
<1>2. ASSUME Orderly PROVE StoredPrefixAcked
  BY <1>2 DEF StreamInv, StreamTyped, Sent, StoredPrefixAcked, Marks, NoOffset
<1>3. ASSUME Orderly PROVE ExpectedIsAcked
  <2> SUFFICES ASSUME NEW c \in Consumers, phase[c] = "active"
               PROVE  0 .. (ExpectedOffset(record[c]) - 1) \subseteq acked
    BY Zenon DEF ExpectedIsAcked
  <2>1. /\ ExpectedOffset(record[c]) \in Nat
        /\ \A x \in Nat : x < ExpectedOffset(record[c]) => x \in acked
    BY <1>3, ExpectedFollows, Zenon
  <2>2. QED
    BY <2>1
<1>4. QED
  BY <1>1, <1>2, <1>3, Zenon

-----------------------------------------------------------------------------
(* The steps of the worker, seen from the pacers *)

PacersIdle == UNCHANGED <<setup, next, ids, lock, call, verdict, target, redis, late, claimed>>

\* The stream consumer shares only the setup and the number of crashes.
LEMMA StreamIdle ==
    ASSUME NEW w
    PROVE  /\ Activate(w) \/ OffsetFound(w) \/ OffsetUnknown(w) \/ Deliver(w) \/ TimerStore(w)
                 => UNCHANGED <<setup, crashes>>
           /\ Deactivate(w) \/ BrokerStore(w) => UNCHANGED <<setup, crashes>>
           /\ \A ok \in BOOLEAN : StoreTaskDone(w, ok) \/ DeactivateDone(w, ok) => UNCHANGED <<setup, crashes>>
           /\ \A m : Ack(w, m) \/ Discard(w, m) => UNCHANGED <<setup, crashes>>
           /\ ConsumerDies(w) => setup' = setup /\ crashes' = crashes + 1
<1>1. Activate(w) \/ OffsetFound(w) \/ OffsetUnknown(w) => UNCHANGED <<setup, crashes>>
  BY Zenon DEF Activate, OffsetFound, OffsetUnknown, BecomeActive
<1>2. Deliver(w) \/ TimerStore(w) => UNCHANGED <<setup, crashes>>
  BY Zenon DEF Deliver, TimerStore
<1>3. Deactivate(w) \/ BrokerStore(w) => UNCHANGED <<setup, crashes>>
  BY Zenon DEF Deactivate, BrokerStore
<1>4. \A ok \in BOOLEAN : StoreTaskDone(w, ok) \/ DeactivateDone(w, ok) => UNCHANGED <<setup, crashes>>
  BY Zenon DEF StoreTaskDone, DeactivateDone
<1>5. \A m : Ack(w, m) \/ Discard(w, m) => UNCHANGED <<setup, crashes>>
  BY Zenon DEF Ack, Discard
<1>6. ConsumerDies(w) => setup' = setup /\ crashes' = crashes + 1
  BY Zenon DEF ConsumerDies
<1>7. QED
  BY <1>1, <1>2, <1>3, <1>4, <1>5, <1>6, Zenon

\* The pacer leaves the setup alone.
LEMMA PacerFixes ==
    ASSUME NEW w
    PROVE  (\A m : PacerStep(w, m) => setup' = setup) /\ (LateEffect(w) \/ PacerDies(w) => setup' = setup)
<1>1. \A m : FilterOrNot(w, m) \/ LockForFilter(w, m) \/ RedisGet(w, m) => setup' = setup
  BY Zenon DEF FilterOrNot, LockForFilter, RedisGet
<1>2. \A m : GetReply(w, m) \/ GetFailed(w, m) \/ OnHandledNewItem(w, m) => setup' = setup
  BY Zenon DEF GetReply, GetFailed, OnHandledNewItem
<1>3. \A m : LockForSet(w, m) \/ SetReply(w, m) \/ SetFailed(w, m) => setup' = setup
  BY Zenon DEF LockForSet, SetReply, SetFailed
<1>4. LateEffect(w) \/ PacerDies(w) => setup' = setup
  BY Zenon DEF LateEffect, PacerDies
<1>5. QED
  BY <1>1, <1>2, <1>3, <1>4, Zenon DEF PacerStep

\* A step of on_message is a step of its pacer, or the pacers do not see it.
LEMMA WorkerStepsPacer ==
    ASSUME NEW w, NEW m, OnMessage(w, m) \/ WriteToSession(w, m, TRUE) \/ WriteToSession(w, m, FALSE)
    PROVE  (PacerStep(w, m) \/ PacersIdle) /\ crashes' = crashes
<1>1. CASE \/ Admit(w, m) \/ NotifyReadModel(w, m, TRUE) \/ NotifyReadModel(w, m, FALSE)
           \/ DlqInboxOnly(w, m) \/ SessionFailed(w, m)
           \/ WriteToSession(w, m, TRUE) \/ WriteToSession(w, m, FALSE)
  BY <1>1, Zenon DEF Admit, NotifyReadModel, DlqInboxOnly, SessionFailed, WriteToSession, PacersIdle, pacerVars
<1>2. CASE Start(w, m)
  <2>1. CASE record[w].frozen
    BY <1>2, <2>1, StreamIdle, Zenon DEF Start, PacersIdle, pacerVars
  <2>2. CASE ~record[w].frozen
    BY <1>2, <2>2, Zenon DEF Start, PacerStep
  <2>3. QED
    BY <2>1, <2>2, Zenon
<1>3. CASE Filter(w, m)
  BY <1>3, Zenon DEF Filter, PacerStep
<1>4. CASE SessionWritten(w, m) \/ DlqSessionOnly(w, m) \/ DlqAll(w, m)
  BY <1>4, Zenon DEF SessionWritten, DlqSessionOnly, DlqAll, Acknowledge, PacerStep
<1>5. CASE Mark(w, m)
  BY <1>5, Zenon DEF Mark, PacerStep
<1>6. QED
  BY <1>1, <1>2, <1>3, <1>4, <1>5, Zenon DEF OnMessage

\* A step of the worker is a step of the pacers, or they do not see it.
LEMMA WorkerSimulates ==
    ASSUME Next
    PROVE  /\ PacerNext \/ PacersIdle
           /\ crashes' \in {crashes, crashes + 1}
<1>1. CASE setup.part = "stream" /\ StreamNext /\ UNCHANGED <<pacerVars, workVars>>
  <2>1. setup' = setup /\ crashes' \in {crashes, crashes + 1}
    BY <1>1, StreamIdle, Zenon DEF StreamNext
  <2>2. QED
    BY <1>1, <2>1, Zenon DEF PacersIdle, pacerVars
<1>2. CASE setup.part = "pacer" /\ PacerNext /\ UNCHANGED <<streamVars, workVars>>
  <2>1. ASSUME NEW w, NEW m, PacerStep(w, m) PROVE crashes' = crashes
    BY <2>1, Zenon DEF PacerStep, FilterOrNot, LockForFilter, RedisGet, GetReply, GetFailed, OnHandledNewItem, LockForSet,
       SetReply, SetFailed
  <2>2. ASSUME NEW w, LateEffect(w) PROVE crashes' = crashes
    BY <2>2, Zenon DEF LateEffect
  <2>3. ASSUME NEW w, PacerDies(w) PROVE crashes' \in {crashes, crashes + 1}
    BY <2>3, Zenon DEF PacerDies
  <2>4. crashes' \in {crashes, crashes + 1}
    BY <1>2, <2>1, <2>2, <2>3, Zenon DEF PacerNext
  <2>5. QED
    BY <1>2, <2>4, Zenon
<1>3. ASSUME NEW w \in setup.members, StreamStep(w) \/ DeliverMessage(w) \/ Shutdown(w)
      PROVE  PacersIdle /\ crashes' = crashes
  <2>1. CASE StreamStep(w)
    BY <2>1, StreamIdle, Zenon DEF StreamStep, PacersIdle, pacerVars
  <2>2. CASE DeliverMessage(w)
    BY <2>2, StreamIdle, Zenon DEF DeliverMessage, PacersIdle, pacerVars
  <2>3. CASE Shutdown(w)
    BY <2>3, Zenon DEF Shutdown, PacersIdle, pacerVars
  <2>4. QED
    BY <1>3, <2>1, <2>2, <2>3, Zenon
<1>4. ASSUME NEW w \in setup.members, LateWrite(w) \/ Crash(w) \/ Exit(w)
      PROVE  PacerNext /\ crashes' \in {crashes, crashes + 1}
  <2>1. LateEffect(w) \/ PacerDies(w)
    BY <1>4, Zenon DEF LateWrite, Crash, Exit, Restart
  <2>2. PacerNext
    BY <2>1, Zenon DEF PacerNext
  <2>3. crashes' \in {crashes, crashes + 1}
    BY <2>1, Zenon DEF LateEffect, PacerDies
  <2>4. QED
    BY <2>2, <2>3, Zenon
<1>5. ASSUME NEW w \in setup.members, NEW m \in Published,
             OnMessage(w, m) \/ WriteToSession(w, m, TRUE) \/ WriteToSession(w, m, FALSE)
      PROVE  (PacerStep(w, m) \/ PacersIdle) /\ crashes' = crashes
  BY <1>5, WorkerStepsPacer, Zenon
<1>6. QED
  BY <1>1, <1>2, <1>3, <1>4, <1>5, Zenon DEF Next, PacerNext

-----------------------------------------------------------------------------
(* The theorems *)

\* The setups of the worker are setups of the pacer: a stream is finite and its
\* senders count from 1.
LEMMA SetupsFit == PacerAssumption
<1>1. SUFFICES ASSUME NEW s \in Setups PROVE SetupOK(s)
  BY Zenon DEF PacerAssumption
<1>2. s.members \subseteq Consumers /\ DOMAIN s.ids \subseteq Offsets /\ \A m \in DOMAIN s.ids : s.ids[m] \in Nat \ {0}
  BY OutboxAssumption, Zenon
<1>3. Bounded(s)
  <2>1. PICK n \in {0} \cup {s.ids[m] : m \in DOMAIN s.ids} : \A m \in DOMAIN s.ids : s.ids[m] <= n
    BY OutboxAssumption, Zenon
  <2>2. n \in Nat
    BY <1>2, <2>1
  <2>3. QED
    BY <2>1, <2>2, Zenon DEF Bounded
<1>4. QED
  BY <1>2, <1>3, Zenon DEF SetupOK

\* They are setups of the stream consumers too.
LEMMA StreamFits == StreamAssumption
BY OutboxAssumption, Zenon DEF StreamAssumption, SetupFits

WorkerInv == PacerInv /\ OrderInv /\ StreamInv /\ crashes \in Nat

\* The invariants of the pacers and of the stream consumers hold at the start.
LEMMA WorkerInit == Init => WorkerInv
<1>1. Init => PacerInit /\ StreamInit
  BY Zenon DEF Init
<1>2. Init => PacerInv /\ OrderInv
  BY <1>1, SetupsFit, PacerInitHolds, OrderInit, Zenon
<1>3. Init => StreamInv
  BY <1>1, StreamFits, StreamInitHolds, Zenon
<1>4. Init => crashes \in Nat
  BY <1>1 DEF PacerInit
<1>5. QED
  BY <1>2, <1>3, <1>4, Zenon DEF WorkerInv

StreamStays == UNCHANGED <<setup, stored, owner, pos, wire, phase, record, storeTask, tasks, acked, stale>>

\* What a consumer or the broker does to the stream keeps the invariant of the
\* stream consumers.
LEMMA StreamSteps ==
    ASSUME StreamInv, NEW c \in Consumers,
           \/ Activate(c) \/ OffsetFound(c) \/ OffsetUnknown(c) \/ Deliver(c)
           \/ \E o \in Offsets : Ack(c, o) \/ Discard(c, o)
           \/ TimerStore(c)
           \/ \E ok \in BOOLEAN : StoreTaskDone(c, ok) \/ DeactivateDone(c, ok)
           \/ Deactivate(c) \/ BrokerStore(c) \/ ConsumerDies(c)
           \/ StreamStays
    PROVE  StreamInv'
<1>1. CASE StreamStays
  BY <1>1, StreamRests, Zenon DEF StreamStays
<1>2. CASE ~StreamStays
  BY <1>2, StreamFits, StreamKeeps, Zenon
<1>3. QED
  BY <1>1, <1>2, Zenon

\* Every step of the worker keeps the invariant of the stream consumers.
LEMMA WorkerKeepsStream ==
    ASSUME WorkerInv, Next
    PROVE  StreamInv'
<1>1. setup.members \subseteq Consumers /\ StreamInv
  BY PublishedFacts, Zenon DEF WorkerInv, PacerInv
<1>2. CASE setup.part = "stream" /\ StreamNext
  BY <1>1, <1>2, StreamSteps, Zenon DEF StreamNext
<1>3. CASE setup.part = "pacer" /\ PacerNext /\ UNCHANGED <<streamVars, workVars>>
  <2>1. StreamStays
    BY <1>3, PacerFixes, Zenon DEF StreamStays, streamVars, brokerVars, PacerNext
  <2>2. QED
    BY <1>1, <2>1, StreamRests, Zenon DEF StreamStays
<1>4. ASSUME NEW w \in setup.members, StreamStep(w) \/ DeliverMessage(w) \/ Crash(w) \/ Exit(w) PROVE StreamInv'
  BY <1>1, <1>4, StreamSteps, Zenon DEF StreamStep, DeliverMessage, Crash, Exit, Restart
<1>5. ASSUME NEW w \in setup.members, LateWrite(w) \/ Shutdown(w) PROVE StreamInv'
  <2>1. StreamStays
    BY <1>5, Zenon DEF LateWrite, Shutdown, LateEffect, pacerVars, streamVars, brokerVars, StreamStays
  <2>2. QED
    BY <1>1, <2>1, StreamRests, Zenon DEF StreamStays
<1>6. ASSUME NEW w \in setup.members, NEW m \in Published,
             OnMessage(w, m) \/ WriteToSession(w, m, TRUE) \/ WriteToSession(w, m, FALSE)
      PROVE  StreamInv'
  <2>1. setup' = setup
    BY <1>6, PacerFixes, WorkerStepsPacer, Zenon DEF PacersIdle
  <2>2. StreamStays \/ Ack(w, m) \/ Discard(w, m)
    <3>1. \A v : Continue(w, m, v) => StreamStays \/ Ack(w, m)
      BY <2>1, Zenon DEF Continue, streamVars, brokerVars, StreamStays
    <3>2. CASE Start(w, m) \/ Filter(w, m)
      BY <3>1, <3>2, Zenon DEF Start, Filter
    <3>3. CASE SessionWritten(w, m) \/ DlqSessionOnly(w, m) \/ DlqAll(w, m)
      BY <3>3, Zenon DEF SessionWritten, DlqSessionOnly, DlqAll, Acknowledge
    <3>4. CASE \/ Admit(w, m) \/ DlqInboxOnly(w, m) \/ SessionFailed(w, m) \/ Mark(w, m)
      BY <2>1, <3>4, Zenon DEF Admit, DlqInboxOnly, SessionFailed, Mark, streamVars, brokerVars, StreamStays
    <3>5. CASE \/ NotifyReadModel(w, m, TRUE) \/ NotifyReadModel(w, m, FALSE)
               \/ WriteToSession(w, m, TRUE) \/ WriteToSession(w, m, FALSE)
      BY <2>1, <3>5, Zenon DEF NotifyReadModel, WriteToSession, streamVars, brokerVars, StreamStays
    <3>6. QED
      BY <1>6, <3>2, <3>3, <3>4, <3>5, Zenon DEF OnMessage
  <2>3. m \in Offsets
    BY PublishedFacts, Zenon DEF WorkerInv, PacerInv
  <2>4. QED
    BY <1>1, <2>2, <2>3, StreamSteps, Zenon
<1>7. QED
  BY <1>2, <1>3, <1>4, <1>5, <1>6, Zenon DEF Next

\* Every step of the worker keeps them all.
LEMMA WorkerStep == WorkerInv /\ [Next]_vars => WorkerInv'
<1>1. CASE WorkerInv /\ Next
  <2>1. crashes' \in Nat /\ StreamInv'
    BY <1>1, WorkerSimulates, WorkerKeepsStream DEF WorkerInv
  <2>2. CASE PacerNext
    BY <1>1, <2>1, <2>2, PacerKeeps, OrderKeeps, Zenon DEF WorkerInv
  <2>3. CASE PacersIdle
    BY <1>1, <2>1, <2>3, PacerRests, OrderRests, Zenon DEF WorkerInv, PacersIdle
  <2>4. QED
    BY <1>1, <2>2, <2>3, WorkerSimulates, Zenon
<1>2. CASE WorkerInv /\ UNCHANGED vars
  <2>1. PacersIdle /\ crashes' = crashes /\ StreamStays
    BY <1>2, Zenon DEF vars, pacerVars, streamVars, brokerVars, PacersIdle, StreamStays
  <2>2. PacerInv' /\ OrderInv'
    BY <1>2, <2>1, PacerRests, OrderRests, Zenon DEF WorkerInv, PacersIdle
  <2>3. StreamInv'
    BY <1>2, <2>1, StreamRests, Zenon DEF WorkerInv, StreamStays
  <2>4. QED
    BY <1>2, <2>1, <2>2, <2>3, Zenon DEF WorkerInv
<1>3. QED
  BY <1>1, <1>2, Zenon

\* It holds whatever the stream, the broker, Redis, the callbacks, crashes and
\* shutdowns do.
THEOREM WorkerInvariant == Spec => []WorkerInv
BY WorkerInit, WorkerStep, PTL DEF Spec

\* on_message never handles one id twice as a new item in one process, although
\* filter_or_not awaits a lock and Redis between its looks at the remembered ids.
THEOREM NewItemCorrect == Spec => []NewItemOnce
<1>1. WorkerInv => NewItemOnce
  BY Zenon DEF WorkerInv, PacerInv
<1>2. QED
  BY <1>1, WorkerInvariant, PTL

\* The watermark of a sender, in a pacer, in Redis or in a write that may still be
\* applied, passes only ids that some process was told to handle: a failed write,
\* its late effect or its rollback cannot make a message count as handled that
\* nobody has seen.
THEOREM WatermarkCorrect == Spec => []WatermarkIsClaimed
<1>1. WorkerInv => WatermarkIsClaimed
  BY Zenon DEF WorkerInv, PacerInv
<1>2. QED
  BY <1>1, WorkerInvariant, PTL

\* DeliveryInfo.lock has one holder, and only its holder talks to Redis.
THEOREM LockCorrect == Spec => []LockExcludes
<1>1. WorkerInv => LockExcludes
  BY Zenon DEF WorkerInv, PacerInv
<1>2. QED
  BY <1>1, WorkerInvariant, PTL

\* The watermark a pacer holds in memory never moves back while no process dies.
THEOREM AscentCorrect == Spec => WatermarkAscends
<1>1. ASSUME WorkerInv, [Next]_vars, crashes' = crashes
      PROVE  \A w \in Consumers : next'[w] >= next[w]
  <2>1. next \in [Consumers -> Nat]
    BY <1>1, Zenon DEF WorkerInv, PacerInv, PacerTyped
  <2>2. CASE PacerNext
    BY <1>1, <2>2, NextAscends, Zenon DEF WorkerInv
  <2>3. CASE PacersIdle \/ UNCHANGED vars
    <3>1. next' = next
      BY <2>3, Zenon DEF PacersIdle, vars, pacerVars
    <3>2. QED
      BY <2>1, <3>1
  <2>4. QED
    BY <1>1, <2>2, <2>3, WorkerSimulates, Zenon
<1>2. WorkerInv /\ [Next]_vars => [crashes' = crashes => \A w \in Consumers : next'[w] >= next[w]]_vars
  BY <1>1, Zenon
<1>3. QED
  BY <1>2, WorkerInvariant, PTL DEF Spec, WatermarkAscends

\* Nor does the watermark in Redis while one process writes it and its writes
\* succeed: on_handled_new_item computes what it writes before it waits for the
\* lock, and a process that dies leaves at most the write under way.
THEOREM WatermarksCorrect == Spec => WatermarksAscend
<1>1. ASSUME WorkerInv, [Next]_vars, ~setup.setMayFail, ~\E v, w \in setup.members : v # w
      PROVE  redis' >= redis
  <2>1. redis \in Nat /\ Alone
    BY <1>1, Zenon DEF WorkerInv, PacerInv, PacerTyped, Alone
  <2>2. CASE PacerNext
    BY <1>1, <2>1, <2>2, RedisRises, Zenon DEF WorkerInv
  <2>3. CASE PacersIdle \/ UNCHANGED vars
    <3>1. redis' = redis
      BY <2>3, Zenon DEF PacersIdle, vars, pacerVars
    <3>2. QED
      BY <2>1, <3>1
  <2>4. QED
    BY <1>1, <2>2, <2>3, WorkerSimulates, Zenon
<1>2. WorkerInv /\ [Next]_vars
        => [setup.setMayFail \/ (\E v, w \in setup.members : v # w) \/ redis' >= redis]_vars
  BY <1>1, Zenon
<1>3. Spec => RedisAscends
  BY <1>2, WorkerInvariant, PTL DEF Spec, RedisAscends
<1>4. QED
  BY <1>3, AscentCorrect, PTL DEF WatermarksAscend

\* What the broker stores for the group was acknowledged, and so was what an active
\* consumer expects to be able to store: callbacks that finish out of order, the
\* timer, a deactivation that races with a store in flight and a new owner never
\* let the stored offset pass a message nobody has acknowledged, while the
\* acknowledgements come in the terms of Orderly.
THEOREM StoredCorrect == Spec => []StoredIsAcked
<1>1. WorkerInv => StoredIsAcked
  BY StreamIsSafe, Zenon DEF WorkerInv, StoredIsAcked
<1>2. QED
  BY <1>1, WorkerInvariant, PTL

\* Of all processes of the group, only the one the broker picked counts offsets in
\* an unfrozen record, and only between becoming active and being deactivated:
\* two consumers never store offsets of one partition at the same time.
THEOREM OneUnfrozenCorrect == Spec => []OneUnfrozen
<1>1. WorkerInv => OneUnfrozen
  BY StreamIsSafe, Zenon DEF WorkerInv
<1>2. QED
  BY <1>1, WorkerInvariant, PTL
=============================================================================
