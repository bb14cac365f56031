------------------------- MODULE MessagePathProofs -------------------------
(***************************************************************************)
(* The way of a message for every number of calls, partitions and faults:  *)
(* what the sender is told, what an acknowledged dead letter means, and    *)
(* what a receiver who is online may miss.                                 *)
(***************************************************************************)
EXTENDS MessagePath, WellFoundedInduction, TLAPS

\* The plans of the parts are those of a setup.
UpFits == upPlan.stored \subseteq upPlan.calls /\ upPlan.calls \subseteq Msgs /\ \A m \in upPlan.calls : upPlan.route[m] \in Streams
ModelFits == modelPlan.letters \subseteq Msgs \X Actions /\ modelPlan.visits \in Nat /\ modelPlan.faults \in Nat

-----------------------------------------------------------------------------
(* The upstream service *)

CallStates == {"none", "id", "sent", "success", "timeout", "failed", "gone"}
OnWire == [msg : Msgs, id : Nat]
Confirmations == [id : Nat, ok : BOOLEAN]

\* A partition that a call is routed to.
Used(p) == \E m \in upPlan.calls : Route(m) = p

\* Publishing ids rise along the confirmations and on along the wire, up to the last one.
Numbers(w, c, n) ==
    /\ \A i \in 1 .. Len(w) : w[i].id <= n
    /\ \A i, j \in 1 .. Len(w) : i < j => w[i].id < w[j].id
    /\ \A i \in 1 .. Len(c) : c[i].id <= n
    /\ \A i, j \in 1 .. Len(c) : i < j => c[i].id < c[j].id
    /\ \A i \in 1 .. Len(w), j \in 1 .. Len(c) : c[j].id < w[i].id

\* The table t of waiters leads from the id of a message to the message, and from a
\* good confirmation to a message that is stored.
Awaits(w, c, t, kept) ==
    /\ \A i \in 1 .. Len(w) : w[i].id \in DOMAIN t /\ t[w[i].id] = w[i].msg
    /\ \A i \in 1 .. Len(c) : c[i].ok /\ c[i].id \in DOMAIN t => t[c[i].id] \in kept

UpTyped ==
    /\ DOMAIN cache = {}
    /\ call \in [Msgs -> CallStates]
    /\ sequence \in [Streams -> Nat]
    /\ wire \in [Streams -> Seq(OnWire)]
    /\ confirms \in [Streams -> Seq(Confirmations)]
    /\ \A i \in DOMAIN sendWaiters : sendWaiters[i] \in Msgs

\* The inductive invariant.  With one partition an id leads to its message; with
\* several the ids of two partitions collide, and the table says nothing.
UpInv ==
    /\ UpTyped
    /\ \A m \in Msgs : call[m] # "none" => m \in upPlan.calls
    /\ \A p \in Streams : Used(p) \/ (wire[p] = <<>> /\ confirms[p] = <<>>)
    /\ \A p \in Streams : Numbers(wire[p], confirms[p], sequence[p])
    /\ OnePartition => \A p \in Streams : Awaits(wire[p], confirms[p], sendWaiters, stream)
    /\ ToldIsStored

\* send takes the next id.
LEMMA SendKeeps ==
    ASSUME NEW w \in Seq(OnWire), NEW c \in Seq(Confirmations), NEW n \in Nat, NEW m \in Msgs, NEW t, NEW kept,
           Numbers(w, c, n)
    PROVE  LET v == Append(w, [msg |-> m, id |-> n + 1])
           IN  /\ Numbers(v, c, n + 1)
               /\ Awaits(w, c, t, kept)
                     => Awaits(v, c, [i \in DOMAIN t \cup {n + 1} |-> IF i = n + 1 THEN m ELSE t[i]], kept)
<1> DEFINE v == Append(w, [msg |-> m, id |-> n + 1])
           u == [i \in DOMAIN t \cup {n + 1} |-> IF i = n + 1 THEN m ELSE t[i]]
<1>1. /\ Len(v) = Len(w) + 1 /\ v[Len(w) + 1] = [msg |-> m, id |-> n + 1]
      /\ \A i \in 1 .. Len(w) : v[i] = w[i] /\ w[i] \in OnWire
      /\ \A i \in 1 .. Len(c) : c[i] \in Confirmations
      /\ Len(w) \in Nat
  OBVIOUS
<1>2. \A i \in 1 .. Len(v) : i \in 1 .. Len(w) \/ i = Len(w) + 1
  BY <1>1
<1>3. v[Len(w) + 1].id = n + 1 /\ v[Len(w) + 1].msg = m
  BY <1>1
<1>4. (\A i \in 1 .. Len(w) : w[i].id \in Nat) /\ (\A i \in 1 .. Len(c) : c[i].id \in Nat)
  BY <1>1, Zenon DEF OnWire, Confirmations
<1> HIDE DEF v
<1>5. Numbers(v, c, n + 1)
  <2>1. \A i \in 1 .. Len(v) : v[i].id <= n + 1
    BY <1>1, <1>2, <1>3, <1>4 DEF Numbers
  <2>2. ASSUME NEW i \in 1 .. Len(v), NEW j \in 1 .. Len(v), i < j PROVE v[i].id < v[j].id
    <3>1. i \in 1 .. Len(w)
      BY <1>1, <2>2
    <3>2. CASE j \in 1 .. Len(w)
      BY <1>1, <2>2, <3>1, <3>2, Zenon DEF Numbers
    <3>3. CASE j = Len(w) + 1
      BY <1>1, <1>3, <1>4, <3>1, <3>3 DEF Numbers
    <3>4. QED
      BY <1>2, <3>2, <3>3, Zenon
  <2>3. \A i \in 1 .. Len(c) : c[i].id <= n + 1
    BY <1>4 DEF Numbers
  <2>4. \A i \in 1 .. Len(v), j \in 1 .. Len(c) : c[j].id < v[i].id
    BY <1>1, <1>2, <1>3, <1>4 DEF Numbers
  <2>5. QED
    BY <2>1, <2>2, <2>3, <2>4, Zenon DEF Numbers
<1>6. ASSUME Awaits(w, c, t, kept) PROVE Awaits(v, c, u, kept)
  <2>1. \A i \in 1 .. Len(w) : w[i].id # n + 1
    BY <1>4 DEF Numbers
  <2>2. \A i \in 1 .. Len(c) : c[i].id # n + 1
    BY <1>4 DEF Numbers
  <2>3. \A i \in 1 .. Len(v) : v[i].id \in DOMAIN u /\ u[v[i].id] = v[i].msg
    BY <1>1, <1>2, <1>3, <1>6, <2>1, Zenon DEF Awaits
  <2>4. \A i \in 1 .. Len(c) : c[i].ok /\ c[i].id \in DOMAIN u => u[c[i].id] \in kept
    BY <1>6, <2>2, Zenon DEF Awaits
  <2>5. QED
    BY <2>3, <2>4, Zenon DEF Awaits
<1>7. QED
  BY <1>5, <1>6, Zenon DEF v

\* The broker answers for the first message on the wire.
LEMMA BrokerKeeps ==
    ASSUME NEW w \in Seq(OnWire), NEW c \in Seq(Confirmations), NEW n \in Nat, NEW ok \in BOOLEAN, NEW t, NEW kept,
           Numbers(w, c, n), w # <<>>
    PROVE  LET d == Append(c, [id |-> Head(w).id, ok |-> ok])
               more == IF ok THEN kept \cup {Head(w).msg} ELSE kept
           IN  /\ Numbers(Tail(w), d, n)
               /\ Awaits(w, c, t, kept) => Awaits(Tail(w), d, t, more)
<1> DEFINE v == Tail(w)
           d == Append(c, [id |-> Head(w).id, ok |-> ok])
           more == IF ok THEN kept \cup {Head(w).msg} ELSE kept
<1>1. /\ Len(d) = Len(c) + 1 /\ d[Len(c) + 1] = [id |-> w[1].id, ok |-> ok]
      /\ \A i \in 1 .. Len(c) : d[i] = c[i] /\ c[i] \in Confirmations
      /\ \A i \in 1 .. Len(w) : w[i] \in OnWire
      /\ Len(w) \in Nat \ {0} /\ Len(v) = Len(w) - 1 /\ Len(c) \in Nat
      /\ \A i \in 1 .. Len(v) : v[i] = w[i + 1]
      /\ Head(w) = w[1]
  OBVIOUS
<1>2. \A i \in 1 .. Len(d) : i \in 1 .. Len(c) \/ i = Len(c) + 1
  BY <1>1
<1>3. d[Len(c) + 1].id = w[1].id /\ d[Len(c) + 1].ok = ok
  BY <1>1
<1>4. (\A i \in 1 .. Len(w) : w[i].id \in Nat) /\ (\A i \in 1 .. Len(c) : c[i].id \in Nat)
  BY <1>1, Zenon DEF OnWire, Confirmations
<1>5. \A i \in 1 .. Len(v) : i + 1 \in 1 .. Len(w) /\ 1 < i + 1 /\ 1 \in 1 .. Len(w)
  BY <1>1
<1>6. 1 \in 1 .. Len(w)
  BY <1>1
<1> HIDE DEF v, d
<1>7. Numbers(v, d, n)
  <2>1. \A i \in 1 .. Len(v) : v[i].id <= n
    BY <1>1, <1>5, Zenon DEF Numbers
  <2>2. \A i, j \in 1 .. Len(v) : i < j => v[i].id < v[j].id
    <3>1. \A i, j \in 1 .. Len(v) : i < j => i + 1 < j + 1
      BY <1>1
    <3>2. QED
      BY <1>1, <1>5, <3>1, Zenon DEF Numbers
  <2>3. \A i \in 1 .. Len(d) : d[i].id <= n
    BY <1>1, <1>2, <1>3, <1>6, Zenon DEF Numbers
  <2>4. ASSUME NEW i \in 1 .. Len(d), NEW j \in 1 .. Len(d), i < j PROVE d[i].id < d[j].id
    <3>1. i \in 1 .. Len(c)
      BY <1>1, <2>4
    <3>2. CASE j \in 1 .. Len(c)
      BY <1>1, <2>4, <3>1, <3>2, Zenon DEF Numbers
    <3>3. CASE j = Len(c) + 1
      BY <1>1, <1>3, <1>6, <3>1, <3>3, Zenon DEF Numbers
    <3>4. QED
      BY <1>2, <3>2, <3>3, Zenon
  <2>5. ASSUME NEW i \in 1 .. Len(v), NEW j \in 1 .. Len(d) PROVE d[j].id < v[i].id
    <3>1. v[i].id = w[i + 1].id /\ i + 1 \in 1 .. Len(w) /\ 1 < i + 1
      BY <1>1, <1>5, Zenon
    <3>2. CASE j \in 1 .. Len(c)
      BY <1>1, <3>1, <3>2, Zenon DEF Numbers
    <3>3. CASE j = Len(c) + 1
      BY <1>3, <1>6, <3>1, <3>3, Zenon DEF Numbers
    <3>4. QED
      BY <1>2, <3>2, <3>3, Zenon
  <2>6. QED
    BY <2>1, <2>2, <2>3, <2>4, <2>5, Zenon DEF Numbers
<1>8. ASSUME Awaits(w, c, t, kept) PROVE Awaits(v, d, t, more)
  <2>1. ASSUME NEW i \in 1 .. Len(v) PROVE v[i].id \in DOMAIN t /\ t[v[i].id] = v[i].msg
    <3>1. v[i] = w[i + 1] /\ i + 1 \in 1 .. Len(w)
      BY <1>1, <1>5, Zenon
    <3>2. QED
      BY <1>8, <3>1, Zenon DEF Awaits
  <2>2. \A i \in 1 .. Len(d) : d[i].ok /\ d[i].id \in DOMAIN t => t[d[i].id] \in more
    BY <1>1, <1>2, <1>3, <1>6, <1>8 DEF Awaits
  <2>3. QED
    BY <2>1, <2>2, Zenon DEF Awaits
<1>9. QED
  BY <1>7, <1>8, Zenon DEF v, d

\* The producer takes the first confirmation; nothing else has its id.
LEMMA ConfirmKeeps ==
    ASSUME NEW w \in Seq(OnWire), NEW c \in Seq(Confirmations), NEW n \in Nat, NEW t, NEW kept,
           Numbers(w, c, n), c # <<>>
    PROVE  /\ Numbers(w, Tail(c), n)
           /\ Awaits(w, c, t, kept)
                 => /\ Awaits(w, Tail(c), t, kept)
                    /\ Awaits(w, Tail(c), Restrict(t, DOMAIN t \ {Head(c).id}), kept)
<1> DEFINE d == Tail(c)
           u == Restrict(t, DOMAIN t \ {Head(c).id})
<1>1. /\ \A i \in 1 .. Len(c) : c[i] \in Confirmations
      /\ \A i \in 1 .. Len(w) : w[i] \in OnWire
      /\ Len(c) \in Nat \ {0} /\ Len(d) = Len(c) - 1
      /\ \A i \in 1 .. Len(d) : d[i] = c[i + 1]
      /\ Head(c) = c[1]
  OBVIOUS
<1>2. (\A i \in 1 .. Len(w) : w[i].id \in Nat) /\ (\A i \in 1 .. Len(c) : c[i].id \in Nat)
  BY <1>1, Zenon DEF OnWire, Confirmations
<1>3. \A i \in 1 .. Len(d) : i + 1 \in 1 .. Len(c) /\ 1 < i + 1
  BY <1>1
<1>4. 1 \in 1 .. Len(c)
  BY <1>1
<1>5. DOMAIN u = DOMAIN t \ {c[1].id} /\ \A x \in DOMAIN u : u[x] = t[x]
  BY <1>1, Zenon DEF Restrict
<1> HIDE DEF d, u
<1>6. Numbers(w, d, n)
  <2>1. \A i, j \in 1 .. Len(d) : i < j => i + 1 < j + 1
    BY <1>1
  <2>2. QED
    BY <1>1, <1>3, <2>1, Zenon DEF Numbers
<1>7. ASSUME Awaits(w, c, t, kept) PROVE Awaits(w, d, t, kept) /\ Awaits(w, d, u, kept)
  <2>1. \A i \in 1 .. Len(d) : d[i].ok /\ d[i].id \in DOMAIN t => t[d[i].id] \in kept
    BY <1>1, <1>3, <1>7, Zenon DEF Awaits
  <2>2. \A i \in 1 .. Len(w) : w[i].id # c[1].id
    BY <1>2, <1>4 DEF Numbers
  <2>3. QED
    BY <1>5, <1>7, <2>1, <2>2, Zenon DEF Awaits
<1>8. QED
  BY <1>1, <1>6, <1>7, Zenon DEF d, u

\* The invariant holds at the start.
LEMMA UpInitHolds == UpFits /\ UpstreamInit => UpInv
<1> SUFFICES ASSUME UpFits, UpstreamInit PROVE UpInv
  BY Zenon
<1>1. UpTyped
  BY DEF UpstreamInit, UpTyped, CallStates
<1>2. \A p \in Streams : wire[p] = <<>> /\ confirms[p] = <<>> /\ Len(wire[p]) = 0 /\ Len(confirms[p]) = 0
  BY Zenon DEF UpstreamInit
<1>3. \A p \in Streams : Numbers(wire[p], confirms[p], sequence[p]) /\ Awaits(wire[p], confirms[p], sendWaiters, stream)
  BY <1>2 DEF Numbers, Awaits
<1>4. \A m \in Msgs : call[m] = IF m \in upPlan.stored THEN "success" ELSE "none"
  BY Zenon DEF UpstreamInit
<1>5. (\A m \in Msgs : call[m] # "none" => m \in upPlan.calls) /\ (\A m \in Msgs : call[m] = "success" => m \in stream)
  BY <1>4 DEF UpFits, UpstreamInit
<1>6. QED
  BY <1>1, <1>2, <1>3, <1>5, Zenon DEF UpInv, ToldIsStored

UpStays == UNCHANGED <<cache, sequence, sendWaiters, wire, confirms, stream>>

\* A call goes on, and none is told "success".
LEMMA CallKeeps ==
    ASSUME UpInv, upPlan' = upPlan, UpStays, call' \in [Msgs -> CallStates],
           \A m \in Msgs : call'[m] = call[m] \/ (m \in upPlan.calls /\ call'[m] # "success")
    PROVE  UpInv'
<1>1. UpTyped'
  BY Zenon DEF UpInv, UpTyped, UpStays
<1>2. \A p \in Streams :
          /\ (Used(p) \/ (wire[p] = <<>> /\ confirms[p] = <<>>))'
          /\ Numbers(wire[p], confirms[p], sequence[p])'
          /\ OnePartition' => Awaits(wire[p], confirms[p], sendWaiters, stream)'
  BY Zenon DEF UpInv, UpStays, Used, OnePartition, Route, Numbers, Awaits
<1>3. ToldIsStored'
  BY Zenon DEF UpInv, UpStays, ToldIsStored, OnePartition, Route
<1>4. \A m \in Msgs : call'[m] # "none" => m \in upPlan'.calls
  BY Zenon DEF UpInv
<1>5. QED
  BY <1>1, <1>2, <1>3, <1>4, Zenon DEF UpInv

\* DeliverMessage gets no further than the id service, flickClock fails, wait_for
\* gives up, or the peer cancels the call.
LEMMA CallSteps ==
    ASSUME UpInv, UpFits, upPlan' = upPlan, NEW m \in Msgs,
           \/ DeliverMessage(m) \/ NoId(m) \/ PublishTimeout(m) \/ Cancelled(m)
           \/ Publish(m) /\ closing
    PROVE  UpInv'
<1>1. call \in [Msgs -> CallStates] /\ DOMAIN cache = {}
  BY Zenon DEF UpInv, UpTyped
<1>2. UpStays
  BY Zenon DEF UpStays, DeliverMessage, NoId, PublishTimeout, Cancelled, Publish
<1>3. PICK s \in CallStates \ {"success"} : call' = [call EXCEPT ![m] = s]
  <2>1. CASE DeliverMessage(m)
    <3>1. ConflictCheck(m) = 0
      BY <1>1, Zenon DEF ConflictCheck
    <3>2. QED
      BY <2>1, <3>1, Zenon DEF DeliverMessage, Becomes, CallStates
  <2>2. CASE NoId(m) \/ PublishTimeout(m) \/ Cancelled(m) \/ (Publish(m) /\ closing)
    BY <2>2, Zenon DEF NoId, PublishTimeout, Cancelled, Publish, Becomes, CallStates
  <2>3. QED
    BY <2>1, <2>2, Zenon
<1>4. m \in upPlan.calls
  BY Zenon DEF UpInv, DeliverMessage, NoId, PublishTimeout, Cancelled, Publish
<1>5. call' \in [Msgs -> CallStates] /\ \A n \in Msgs : call'[n] = call[n] \/ (n \in upPlan.calls /\ call'[n] # "success")
  BY <1>1, <1>3, <1>4, Zenon
<1>6. QED
  BY <1>2, <1>5, CallKeeps, Zenon

\* Only one partition is used when all calls go to one.
LEMMA OneUsed ==
    ASSUME OnePartition, NEW p, NEW q, Used(p), Used(q)
    PROVE  p = q
BY Zenon DEF OnePartition, Used

\* A partition that is not used has nothing to wait for.
LEMMA NothingAwaited ==
    ASSUME NEW t, NEW kept
    PROVE  Awaits(<<>>, <<>>, t, kept)
BY DEF Awaits

\* publish_message gives a message to the producer.
LEMMA PublishKeeps ==
    ASSUME UpInv, UpFits, upPlan' = upPlan, NEW m \in Msgs, Publish(m), ~closing
    PROVE  UpInv'
<1> DEFINE q == Route(m)
           n == sequence[q]
           t == [i \in DOMAIN sendWaiters \cup {n + 1} |-> IF i = n + 1 THEN m ELSE sendWaiters[i]]
<1>1. m \in upPlan.calls /\ q \in Streams /\ Used(q)
  <2>1. call[m] = "id"
    BY Zenon DEF Publish
  <2>2. m \in upPlan.calls
    BY <2>1, Zenon DEF UpInv
  <2>3. QED
    BY <2>2, Zenon DEF UpFits, Used, Route
<1>2. /\ call' = [call EXCEPT ![m] = "sent"]
      /\ sequence' = [sequence EXCEPT ![q] = n + 1]
      /\ sendWaiters' = t
      /\ wire' = [wire EXCEPT ![q] = Append(@, [msg |-> m, id |-> n + 1])]
      /\ confirms' = confirms /\ stream' = stream
      /\ cache' = [k \in DOMAIN cache |-> IF k = upPlan.key[m] THEN Metadata(m) ELSE cache[k]]
  BY Zenon DEF Publish, Becomes, OnPublishStart, Send
<1>3. n \in Nat /\ wire[q] \in Seq(OnWire) /\ confirms[q] \in Seq(Confirmations) /\ UpTyped
  BY <1>1, Zenon DEF UpInv, UpTyped
<1>4. UpTyped'
  <2>1. DOMAIN cache' = {} /\ call' \in [Msgs -> CallStates] /\ sequence' \in [Streams -> Nat]
    <3>1. DOMAIN cache' = {}
      BY <1>2, <1>3, Zenon DEF UpTyped
    <3>2. call' \in [Msgs -> CallStates]
      BY <1>2, <1>3, Zenon DEF UpTyped, CallStates
    <3>3. sequence' \in [Streams -> Nat]
      <4>1. n + 1 \in Nat /\ sequence \in [Streams -> Nat]
        BY <1>3 DEF UpTyped
      <4>2. QED
        BY <1>2, <4>1, Zenon
    <3>4. QED
      BY <3>1, <3>2, <3>3, Zenon
  <2>2. wire' \in [Streams -> Seq(OnWire)] /\ confirms' \in [Streams -> Seq(Confirmations)]
    <3>1. Append(wire[q], [msg |-> m, id |-> n + 1]) \in Seq(OnWire)
      BY <1>3 DEF OnWire
    <3>2. QED
      BY <1>2, <1>3, <3>1, Zenon DEF UpTyped
  <2>3. \A i \in DOMAIN sendWaiters' : sendWaiters'[i] \in Msgs
    BY <1>2, <1>3, Zenon DEF UpTyped
  <2>4. QED
    BY <2>1, <2>2, <2>3, Zenon DEF UpTyped
<1>5. OnePartition' = OnePartition /\ \A p : Used(p)' = Used(p)
  BY Zenon DEF OnePartition, Used, Route
<1>6. \A p \in Streams : p # q => wire'[p] = wire[p] /\ sequence'[p] = sequence[p]
  BY <1>1, <1>2, <1>3, Zenon DEF UpTyped
<1>7. wire'[q] = Append(wire[q], [msg |-> m, id |-> n + 1]) /\ sequence'[q] = n + 1
  BY <1>1, <1>2, <1>3, Zenon DEF UpTyped
<1>8. Numbers(wire[q], confirms[q], n)
  BY <1>1, Zenon DEF UpInv
<1>9. ASSUME NEW p \in Streams PROVE (Used(p) \/ (wire[p] = <<>> /\ confirms[p] = <<>>))' /\ Numbers(wire'[p], confirms'[p], sequence'[p])
  <2>1. CASE p = q
    BY <1>1, <1>2, <1>3, <1>5, <1>7, <1>8, <2>1, SendKeeps, Zenon
  <2>2. CASE p # q
    BY <1>2, <1>5, <1>6, <2>2, Zenon DEF UpInv
  <2>3. QED
    BY <2>1, <2>2, Zenon
<1>10. ASSUME OnePartition', NEW p \in Streams PROVE Awaits(wire'[p], confirms'[p], sendWaiters', stream')
  <2>1. CASE p = q
    <3>1. Awaits(wire[q], confirms[q], sendWaiters, stream)
      BY <1>1, <1>5, <1>10, Zenon DEF UpInv
    <3>2. Awaits(Append(wire[q], [msg |-> m, id |-> n + 1]), confirms[q], t, stream)
      BY <1>3, <1>8, <3>1, SendKeeps, Zenon
    <3>3. QED
      BY <1>2, <1>7, <2>1, <3>2, Zenon
  <2>2. CASE p # q
    <3>1. ~Used(p)
      BY <1>1, <1>5, <1>10, <2>2, OneUsed, Zenon
    <3>2. QED
      BY <1>2, <1>6, <2>2, <3>1, NothingAwaited, ZenonT(30) DEF UpInv
  <2>3. QED
    BY <2>1, <2>2, Zenon
<1>11. ToldIsStored'
  BY <1>2, <1>3, <1>5, Zenon DEF UpInv, UpTyped, ToldIsStored
<1>12. \A k \in Msgs : call'[k] # "none" => k \in upPlan'.calls
  BY <1>1, <1>2, <1>3, Zenon DEF UpInv, UpTyped
<1>13. QED
  BY <1>4, <1>9, <1>10, <1>11, <1>12, Zenon DEF UpInv

\* The broker takes a message or refuses it.
LEMMA BrokerStep ==
    ASSUME UpInv, UpFits, upPlan' = upPlan, NEW q \in Streams, NEW ok \in BOOLEAN, Broker(q, ok)
    PROVE  UpInv'
<1> DEFINE d == Append(confirms[q], [id |-> Head(wire[q]).id, ok |-> ok])
           more == IF ok THEN stream \cup {Head(wire[q]).msg} ELSE stream
<1>1. /\ wire[q] # <<>>
      /\ wire' = [wire EXCEPT ![q] = Tail(@)]
      /\ stream' = more
      /\ confirms' = [confirms EXCEPT ![q] = d]
      /\ cache' = cache /\ call' = call /\ sequence' = sequence /\ sendWaiters' = sendWaiters
  BY Zenon DEF Broker
<1>2. wire[q] \in Seq(OnWire) /\ confirms[q] \in Seq(Confirmations) /\ sequence[q] \in Nat /\ UpTyped
  BY Zenon DEF UpInv, UpTyped
<1>3. Used(q) /\ Numbers(wire[q], confirms[q], sequence[q])
  BY <1>1, Zenon DEF UpInv
<1>4. UpTyped'
  <2>1. Tail(wire[q]) \in Seq(OnWire)
    BY <1>1, <1>2
  <2>2. d \in Seq(Confirmations)
    <3>1. Head(wire[q]) \in OnWire
      BY <1>1, <1>2
    <3>2. [id |-> Head(wire[q]).id, ok |-> ok] \in Confirmations
      BY <3>1, Zenon DEF OnWire, Confirmations
    <3>3. QED
      BY <1>2, <3>2
  <2>3. QED
    BY <1>1, <1>2, <2>1, <2>2, Zenon DEF UpTyped
<1>5. OnePartition' = OnePartition /\ \A p : Used(p)' = Used(p)
  BY Zenon DEF OnePartition, Used, Route
<1>6. \A p \in Streams : p # q => wire'[p] = wire[p] /\ confirms'[p] = confirms[p]
  BY <1>1, <1>2, Zenon DEF UpTyped
<1>7. wire'[q] = Tail(wire[q]) /\ confirms'[q] = d
  BY <1>1, <1>2, Zenon DEF UpTyped
<1>8. ASSUME NEW p \in Streams PROVE (Used(p) \/ (wire[p] = <<>> /\ confirms[p] = <<>>))' /\ Numbers(wire'[p], confirms'[p], sequence'[p])
  <2>1. CASE p = q
    BY <1>1, <1>2, <1>3, <1>5, <1>7, <2>1, BrokerKeeps, Zenon
  <2>2. CASE p # q
    BY <1>1, <1>5, <1>6, <2>2, Zenon DEF UpInv
  <2>3. QED
    BY <2>1, <2>2, Zenon
<1>9. ASSUME OnePartition', NEW p \in Streams PROVE Awaits(wire'[p], confirms'[p], sendWaiters', stream')
  <2>1. CASE p = q
    <3>1. Awaits(wire[q], confirms[q], sendWaiters, stream)
      BY <1>5, <1>9, Zenon DEF UpInv
    <3>2. Awaits(Tail(wire[q]), d, sendWaiters, more)
      BY <1>1, <1>2, <1>3, <3>1, BrokerKeeps, Zenon
    <3>3. QED
      BY <1>1, <1>7, <2>1, <3>2, Zenon
  <2>2. CASE p # q
    <3>1. ~Used(p)
      BY <1>3, <1>5, <1>9, <2>2, OneUsed, Zenon
    <3>2. QED
      BY <1>1, <1>6, <2>2, <3>1, NothingAwaited, ZenonT(30) DEF UpInv
  <2>3. QED
    BY <2>1, <2>2, Zenon
<1>10. ToldIsStored'
  BY <1>1, <1>5, Zenon DEF UpInv, ToldIsStored
<1>11. \A k \in Msgs : call'[k] # "none" => k \in upPlan'.calls
  BY <1>1, Zenon DEF UpInv
<1>12. QED
  BY <1>4, <1>8, <1>9, <1>10, <1>11, Zenon DEF UpInv

\* publish_cb_wrapper handles a confirmation: the call it answers with success has
\* its message in the stream.
LEMMA ConfirmStep ==
    ASSUME UpInv, UpFits, upPlan' = upPlan, NEW q \in Streams, OnConfirm(q)
    PROVE  UpInv'
<1> DEFINE c == Head(confirms[q])
           less == Restrict(sendWaiters, DOMAIN sendWaiters \ {c.id})
           m == sendWaiters[c.id]
<1>1. /\ confirms[q] # <<>>
      /\ confirms' = [confirms EXCEPT ![q] = Tail(@)]
      /\ \/ /\ c.id \in DOMAIN sendWaiters /\ sendWaiters' = less
            /\ call' = call \/ (c.ok /\ call[m] = "sent" /\ call' = [call EXCEPT ![m] = "success"])
         \/ sendWaiters' = sendWaiters /\ call' = call
      /\ cache' = cache /\ sequence' = sequence /\ wire' = wire /\ stream' = stream
  <2>1. Confirmed(m, c.ok) => call' = call \/ (c.ok /\ call[m] = "sent" /\ call' = [call EXCEPT ![m] = "success"])
    BY Zenon DEF Confirmed, Becomes
  <2>2. IF c.id \in DOMAIN sendWaiters THEN Confirmed(m, c.ok) /\ sendWaiters' = less
        ELSE call' = call /\ sendWaiters' = sendWaiters
    BY Zenon DEF OnConfirm, Restrict
  <2>3. /\ confirms[q] # <<>> /\ confirms' = [confirms EXCEPT ![q] = Tail(@)]
        /\ cache' = cache /\ sequence' = sequence /\ wire' = wire /\ stream' = stream
    BY Zenon DEF OnConfirm
  <2>4. QED
    BY <2>1, <2>2, <2>3, Zenon
<1>2. wire[q] \in Seq(OnWire) /\ confirms[q] \in Seq(Confirmations) /\ sequence[q] \in Nat /\ UpTyped
  BY Zenon DEF UpInv, UpTyped
<1>3. Used(q) /\ Numbers(wire[q], confirms[q], sequence[q])
  BY <1>1, Zenon DEF UpInv
<1>4. c = confirms[q][1] /\ 1 \in 1 .. Len(confirms[q])
  <2>1. confirms[q] \in Seq(Confirmations) /\ confirms[q] # <<>>
    BY <1>1, <1>2, Zenon
  <2>2. QED
    BY <2>1
<1> HIDE DEF c
<1>5. DOMAIN less \subseteq DOMAIN sendWaiters /\ \A i \in DOMAIN less : less[i] = sendWaiters[i]
  BY Zenon DEF Restrict
<1> HIDE DEF less
<1>6. \A i \in DOMAIN sendWaiters' : sendWaiters'[i] \in Msgs
  BY <1>1, <1>2, <1>5, Zenon DEF UpTyped
<1>7. c.id \in DOMAIN sendWaiters => m \in Msgs
  BY <1>2, Zenon DEF UpTyped
<1>8. call' \in [Msgs -> CallStates]
  BY <1>1, <1>2, <1>7, Zenon DEF UpTyped, CallStates
<1>9. UpTyped'
  <2>1. Tail(confirms[q]) \in Seq(Confirmations)
    BY <1>1, <1>2
  <2>2. confirms' \in [Streams -> Seq(Confirmations)]
    BY <1>1, <1>2, <2>1, Zenon DEF UpTyped
  <2>3. QED
    BY <1>1, <1>2, <1>6, <1>8, <2>2, Zenon DEF UpTyped
<1>10. OnePartition' = OnePartition /\ \A p : Used(p)' = Used(p)
  BY Zenon DEF OnePartition, Used, Route
<1>11. \A p \in Streams : p # q => confirms'[p] = confirms[p]
  BY <1>1, <1>2, Zenon DEF UpTyped
<1>12. confirms'[q] = Tail(confirms[q])
  BY <1>1, <1>2, Zenon DEF UpTyped
<1>13. ASSUME NEW p \in Streams PROVE (Used(p) \/ (wire[p] = <<>> /\ confirms[p] = <<>>))' /\ Numbers(wire'[p], confirms'[p], sequence'[p])
  <2>1. CASE p = q
    BY <1>1, <1>2, <1>3, <1>10, <1>12, <2>1, ConfirmKeeps, Zenon
  <2>2. CASE p # q
    BY <1>1, <1>10, <1>11, <2>2, Zenon DEF UpInv
  <2>3. QED
    BY <2>1, <2>2, Zenon
<1>14. OnePartition' => Awaits(wire[q], confirms[q], sendWaiters, stream)
  BY <1>10, Zenon DEF UpInv
<1>15. ASSUME OnePartition', NEW p \in Streams PROVE Awaits(wire'[p], confirms'[p], sendWaiters', stream')
  <2>1. CASE p = q
    <3>1. Awaits(wire[q], Tail(confirms[q]), sendWaiters, stream) /\ Awaits(wire[q], Tail(confirms[q]), less, stream)
      BY <1>1, <1>2, <1>3, <1>14, <1>15, ConfirmKeeps, Zenon DEF less, c
    <3>2. QED
      BY <1>1, <1>12, <2>1, <3>1, Zenon
  <2>2. CASE p # q
    <3>1. ~Used(p)
      BY <1>3, <1>10, <1>15, <2>2, OneUsed, Zenon
    <3>2. QED
      BY <1>1, <1>11, <2>2, <3>1, NothingAwaited, ZenonT(30) DEF UpInv
  <2>3. QED
    BY <2>1, <2>2, Zenon
<1>16. ToldIsStored'
  <2>1. OnePartition /\ c.id \in DOMAIN sendWaiters /\ c.ok => m \in stream
    BY <1>4, <1>10, <1>14, Zenon DEF Awaits
  <2>2. QED
    BY <1>1, <1>2, <1>7, <1>10, <2>1, Zenon DEF UpInv, UpTyped, ToldIsStored
<1>17. \A k \in Msgs : call'[k] # "none" => k \in upPlan'.calls
  <2>1. call' = call \/ (m \in Msgs /\ call[m] = "sent" /\ call' = [call EXCEPT ![m] = "success"])
    BY <1>1, <1>7, Zenon
  <2>2. QED
    BY <1>2, <2>1, Zenon DEF UpInv, UpTyped
<1>18. QED
  BY <1>9, <1>13, <1>15, <1>16, <1>17, Zenon DEF UpInv

\* A step of the upstream service keeps the invariant.
LEMMA UpKeeps ==
    ASSUME UpInv, UpFits, upPlan' = upPlan, UpstreamNext
    PROVE  UpInv'
<1>1. ASSUME NEW m \in Msgs, Publish(m) PROVE UpInv'
  BY <1>1, CallSteps, PublishKeeps, Zenon
<1>2. ASSUME Close PROVE UpInv'
  BY <1>2, CallKeeps, Zenon DEF Close, UpStays, UpInv, UpTyped
<1>3. QED
  BY <1>1, <1>2, CallSteps, BrokerStep, ConfirmStep, Zenon DEF UpstreamNext

\* The other parts leave it alone.
LEMMA UpRests ==
    ASSUME UpInv, upPlan' = upPlan, UNCHANGED upVars
    PROVE  UpInv'
BY CallKeeps, Zenon DEF upVars, UpStays, UpInv, UpTyped

\* It implies what the upstream service promises.
LEMMA UpIsSafe == UpInv => SuccessIsStored
<1> SUFFICES ASSUME UpInv PROVE SuccessIsStored
  BY Zenon
<1>1. SentIsAwaited
  BY Zenon DEF UpInv, Awaits, SentIsAwaited
<1>2. QED
  BY <1>1, Zenon DEF UpInv, SuccessIsStored, ToldIsStored

-----------------------------------------------------------------------------
(* The read model *)

TaskSteps == {"none", "notify", "enqueue", "await"}
WriteSteps == {"none", "runs", "ok", "failed"}
ServiceSteps == {"idle", "inbox", "check", "push", "publish"}
Filed == {"check", "push", "publish"}      \* the inbox is written

ModelTyped ==
    /\ letters \subseteq Letters /\ done \subseteq Letters
    /\ task \in [Letters -> TaskSteps]
    /\ writing \in [Letters -> WriteSteps]
    /\ serving \in [Handlers -> ServiceSteps]
    /\ inbox \subseteq Msgs /\ seen \subseteq Msgs /\ last \in Nat

\* A message is in the inbox, or its event is queued or handled.
OnItsWay(m) == m \in inbox \cup events \/ serving[<<m, "queue">>] # "idle"

\* A handler that goes on has written the inbox; a letter whose results are all there
\* has been put right.
LetterInv ==
    /\ \A h \in Handlers : serving[h] \in Filed => h[1] \in inbox
    /\ \A x \in Letters :
          /\ writing[x] = "ok" => x[1] \in session
          /\ task[x] = "await" /\ NeedsInbox(x) => OnItsWay(x[1])
    /\ LetterIsSettled

\* What was handled is in the inbox, and the receiver has the message they count from.
ReceiverInv ==
    /\ settled \subseteq inbox
    /\ last # 0 => last \in seen
    /\ NothingMissed

ModelInv == ModelTyped /\ LetterInv /\ ReceiverInv

\* A set of messages has a newest one.
LEMMA NewestExists ==
    ASSUME NEW T \in SUBSET Msgs, T # {}
    PROVE  \E x \in T : \A y \in T : y <= x
<1>1. PICK n \in {0} \cup Msgs : \A m \in Msgs : m <= n
  BY PathAssumption, Zenon
<1>2. T \subseteq Nat /\ n \in Nat /\ \A y \in T : y <= n
  BY <1>1, PathAssumption
<1> DEFINE D == {k \in Nat : \E y \in T : k = n - y}
           R == {ss \in Nat \X Nat : ss[1] < ss[2]}
<1>3. \A y \in T : n - y \in D
  BY <1>2
<1>4. OpToRel(<, Nat) = R
  BY DEF OpToRel
<1>5. IsWellFoundedOn(R, Nat)
  BY <1>4, NatLessThanWellFounded, Zenon
<1>6. D \subseteq Nat /\ D # {}
  BY <1>3, Zenon
<1>7. PICK k \in D : \A j \in D : <<j, k>> \notin R
  <2> HIDE DEF D, R
  <2>1. QED
    BY <1>5, <1>6, WFMin, Zenon
<1>8. PICK x \in T : k = n - x
  BY <1>7, Zenon
<1>9. ASSUME NEW y \in T PROVE y <= x
  <2>1. n - y \in D /\ n - y \in Nat /\ k \in Nat
    BY <1>2, <1>3, <1>7
  <2>2. ~(n - y < k)
    BY <1>7, <2>1
  <2>3. QED
    BY <1>2, <1>8, <2>2
<1>10. QED
  BY <1>9

\* What keeps the part of the invariant about letters.
LEMMA LettersKeep ==
    ASSUME LetterInv, ModelTyped, done' \subseteq Letters,
           session \subseteq session', inbox \subseteq inbox',
           \A m \in Msgs : OnItsWay(m) => OnItsWay(m)',
           \A h \in Handlers : serving'[h] \in Filed => serving[h] \in Filed \/ h[1] \in inbox',
           \A x \in Letters :
               /\ writing'[x] = "ok" => writing[x] = "ok" \/ x[1] \in session'
               /\ task'[x] = "await" /\ NeedsInbox(x) => task[x] = "await" \/ OnItsWay(x[1])',
           \A x \in done' :
               \/ x \in done
               \/ (NeedsSession(x) => x[1] \in session') /\ (NeedsInbox(x) => OnItsWay(x[1])')
    PROVE  LetterInv'
<1>1. \A x \in Letters : x[1] \in Msgs
  BY Zenon DEF Letters
<1>2. \A h \in Handlers : serving'[h] \in Filed => h[1] \in inbox'
  BY Zenon DEF LetterInv
<1>3. \A x \in Letters :
          /\ writing'[x] = "ok" => x[1] \in session'
          /\ task'[x] = "await" /\ NeedsInbox(x) => OnItsWay(x[1])'
  BY <1>1, Zenon DEF LetterInv
<1>4. \A x \in done : (NeedsSession(x) => x[1] \in session) /\ (NeedsInbox(x) => OnItsWay(x[1]))
  BY Zenon DEF LetterInv, LetterIsSettled, OnItsWay
<1>5. \A x \in done' : (NeedsSession(x) => x[1] \in session') /\ (NeedsInbox(x) => OnItsWay(x[1])')
  BY <1>1, <1>4, Zenon
<1>6. LetterIsSettled'
  BY <1>5, Zenon DEF LetterIsSettled, OnItsWay, NeedsSession, NeedsInbox
<1>7. QED
  BY <1>2, <1>3, <1>6, Zenon DEF LetterInv

\* What the receiver has stays, and every event that is newly handled is in the queue of
\* the push service, unless the receiver is offline.
LEMMA ReceiverStays ==
    ASSUME ReceiverInv, modelPlan' = modelPlan, inbox \subseteq inbox', settled' \subseteq inbox', pushQueue \subseteq pushQueue',
           UNCHANGED <<online, pulled, seen, last, full>>,
           \A m \in settled' : m \in settled \/ m \in pushQueue' \/ ~online
    PROVE  ReceiverInv'
<1>1. NothingMissed'
  BY Zenon DEF ReceiverInv, NothingMissed
<1>2. QED
  BY <1>1, Zenon DEF ReceiverInv

\* A push reaches a receiver who is connected.
LEMMA PushArrives ==
    ASSUME ReceiverInv, modelPlan' = modelPlan, NEW m \in Msgs, Pushed(m), inbox \subseteq inbox', settled' \subseteq inbox',
           settled' \subseteq settled \cup {m}, pushQueue \ {m} \subseteq pushQueue', UNCHANGED <<online, pulled, full>>
    PROVE  ReceiverInv'
<1>1. last' # 0 => last' \in seen'
  BY Zenon DEF ReceiverInv, Pushed
<1>2. ASSUME online, pulled PROVE NothingMissed'
  <2>1. seen' = seen \cup {m}
    BY <1>2, Zenon DEF Pushed
  <2>2. QED
    BY <1>2, <2>1, Zenon DEF ReceiverInv, NothingMissed
<1>3. NothingMissed'
  BY <1>2, Zenon DEF NothingMissed
<1>4. QED
  BY <1>1, <1>3, Zenon DEF ReceiverInv

\* A pull brings what was handled so far, or the receiver has something newer.
LEMMA PullBrings ==
    ASSUME ModelTyped, ReceiverInv, modelPlan' = modelPlan, Pull
    PROVE  ReceiverInv' /\ seen' \subseteq Msgs /\ last' \in Nat
<1> DEFINE new == ReadInbox(last)
<1>1. /\ seen' = seen \cup new /\ full' = (last = 0)
      /\ last' = IF new = {} THEN last ELSE CHOOSE m \in new : \A n \in new : n <= m
      /\ settled' = settled /\ inbox' = inbox /\ pushQueue' = pushQueue
  BY Zenon DEF Pull
<1>2. new \subseteq Msgs /\ inbox \subseteq Msgs /\ seen \subseteq Msgs /\ last \in Nat /\ Msgs \subseteq Nat \ {0}
  BY PathAssumption, Zenon DEF ModelTyped, ReadInbox, Rows
<1>3. ASSUME NEW m \in inbox, m > last PROVE \E n \in new : modelPlan.key[n] = modelPlan.key[m]
  <2> DEFINE T == {n \in inbox : n > last /\ modelPlan.key[n] = modelPlan.key[m]}
  <2>1. T \subseteq Msgs /\ m \in T
    BY <1>2, <1>3, Zenon
  <2>2. PICK n \in T : \A k \in T : k <= n
    <3> HIDE DEF T
    <3>1. QED
      BY <2>1, NewestExists, Zenon
  <2>3. n \in new
    BY <2>2, Zenon DEF ReadInbox, Rows
  <2>4. QED
    BY <2>2, <2>3, Zenon
<1> HIDE DEF new
<1>4. last' \in Nat /\ (last' # 0 => last' \in seen')
  <2>1. CASE new = {}
    BY <1>1, <1>2, <2>1, Zenon DEF ReceiverInv
  <2>2. CASE new # {}
    <3>1. \E m \in new : \A n \in new : n <= m
      BY <1>2, <2>2, NewestExists, Zenon
    <3>2. last' \in new
      BY <1>1, <2>2, <3>1, Zenon
    <3>3. last' \in Nat
      BY <1>2, <3>2, Zenon
    <3>4. last' \in seen'
      <4>1. seen' = seen \cup new
        BY <1>1, Zenon
      <4>2. QED
        BY <3>2, <4>1, Zenon
    <3>5. QED
      BY <3>3, <3>4, Zenon
  <2>3. QED
    BY <2>1, <2>2, Zenon
<1>5. ASSUME NEW m \in settled
      PROVE  (\E n \in seen' : modelPlan.key[n] = modelPlan.key[m]) \/ (~full' /\ \E n \in seen' : n > m)
  <2>1. m \in inbox /\ m \in Nat \ {0}
    BY <1>2, <1>5, Zenon DEF ReceiverInv
  <2>2. CASE m > last
    BY <1>1, <1>3, <2>1, <2>2, Zenon
  <2>3. CASE m = last
    BY <1>1, <2>1, <2>3, Zenon DEF ReceiverInv
  <2>4. CASE m < last
    <3>1. last # 0 /\ last > m
      BY <1>2, <2>1, <2>4
    <3>2. last \in seen'
      BY <1>1, <3>1, Zenon DEF ReceiverInv
    <3>3. ~full'
      BY <1>1, <3>1, Zenon
    <3>4. QED
      BY <3>1, <3>2, <3>3, Zenon
  <2>5. QED
    BY <1>2, <2>1, <2>2, <2>3, <2>4
<1>6. NothingMissed'
  BY <1>1, <1>5, Zenon DEF NothingMissed
<1>7. QED
  BY <1>1, <1>2, <1>4, <1>6, Zenon DEF ReceiverInv

\* The invariant holds at the start.
LEMMA ModelInitHolds == ModelFits /\ ModelInit => ModelInv
<1> SUFFICES ASSUME ModelFits, ModelInit PROVE ModelInv
  BY Zenon
<1>1. ModelTyped
  BY PathAssumption, Zenon DEF ModelFits, ModelInit, ModelTyped, Letters, TaskSteps, WriteSteps, ServiceSteps
<1>2. LetterInv
  BY Zenon DEF ModelInit, LetterInv, LetterIsSettled, Filed
<1>3. ReceiverInv
  BY Zenon DEF ModelInit, ReceiverInv, NothingMissed
<1>4. QED
  BY <1>1, <1>2, <1>3, Zenon DEF ModelInv

\* The outbox worker hands a message on, or dies.
LEMMA ArriveKeeps ==
    ASSUME ModelInv, modelPlan' = modelPlan, letters' \subseteq Letters,
           session \subseteq session', events \subseteq events',
           UNCHANGED <<task, writing, done, serving, inbox, settled, pushQueue, online, pulled, seen, last, full>>
    PROVE  ModelInv'
<1>1. ModelTyped'
  BY Zenon DEF ModelInv, ModelTyped
<1>2. LetterInv'
  BY LettersKeep, Zenon DEF ModelInv, ModelTyped, OnItsWay
<1>3. ReceiverInv'
  BY ReceiverStays, Zenon DEF ModelInv, ReceiverInv
<1>4. QED
  BY <1>1, <1>2, <1>3, Zenon DEF ModelInv

ReceiverRests == UNCHANGED <<inbox, settled, pushQueue, online, pulled, seen, last, full>>

\* A step that touches nothing the receiver sees.
LEMMA NothingToSee == ASSUME ModelInv, modelPlan' = modelPlan, ReceiverRests PROVE ReceiverInv'
BY ReceiverStays, Zenon DEF ModelInv, ReceiverInv, ReceiverRests

\* The dead letter worker takes a letter, its write returns, or both results are there.
LEMMA LetterKeeps ==
    ASSUME ModelInv, modelPlan' = modelPlan, NEW x \in Letters,
           OnLetter(x) \/ Finish(x) \/ \E ok \in BOOLEAN : SessionWritten(x, ok)
    PROVE  ModelInv'
<1>1. ReceiverInv'
  BY NothingToSee, Zenon DEF ReceiverRests, OnLetter, Finish, SessionWritten, receiver
<1>2. x \in Letters /\ ModelTyped /\ LetterInv
  BY Zenon DEF ModelInv
<1>3. CASE OnLetter(x)
  <2>1. ModelTyped'
    BY <1>2, <1>3, Zenon DEF ModelTyped, OnLetter, receiver, TaskSteps, WriteSteps
  <2>2. LetterInv'
    BY <1>2, <1>3, LettersKeep, Zenon DEF OnLetter, ModelTyped, OnItsWay
  <2>3. QED
    BY <1>1, <2>1, <2>2, Zenon DEF ModelInv
<1>4. CASE Finish(x)
  <2>1. ModelTyped'
    BY <1>2, <1>4, Zenon DEF ModelTyped, Finish, receiver, TaskSteps, WriteSteps
  <2>2. LetterInv'
    <3>1. (OnItsWay(x[1]) => OnItsWay(x[1])') /\ session' = session /\ inbox' = inbox /\ serving' = serving
      BY <1>4, Zenon DEF Finish, OnItsWay
    <3>2. \A y \in done' :
              y \in done \/ ((NeedsSession(y) => y[1] \in session') /\ (NeedsInbox(y) => OnItsWay(y[1])'))
      <4>1. task[x] = "await" /\ (done' = done \/ (done' = done \cup {x} /\ (NeedsSession(x) => writing[x] = "ok")))
        BY <1>4, Zenon DEF Finish
      <4>2. (NeedsInbox(x) => OnItsWay(x[1])) /\ (writing[x] = "ok" => x[1] \in session)
        BY <1>2, <4>1, Zenon DEF LetterInv
      <4>3. \A y \in done' : y \in done \/ (y = x /\ (NeedsSession(x) => writing[x] = "ok"))
        BY <4>1
      <4>4. QED
        BY <3>1, <4>2, <4>3, Zenon
    <3>3. \A y \in Letters :
              /\ writing'[y] = "ok" => writing[y] = "ok"
              /\ task'[y] = "await" => task[y] = "await"
      BY <1>2, <1>4, Zenon DEF Finish, ModelTyped
    <3>4. QED
      BY <1>2, <1>4, <2>1, <3>1, <3>2, <3>3, LettersKeep, Zenon DEF Finish, ModelTyped, OnItsWay
  <2>3. QED
    BY <1>1, <2>1, <2>2, Zenon DEF ModelInv
<1>5. ASSUME NEW ok \in BOOLEAN, SessionWritten(x, ok) PROVE ModelInv'
  <2>1. session \subseteq session' /\ (ok => x[1] \in session')
    BY <1>5, Zenon DEF SessionWritten, WriteToSession
  <2>2. writing' = [writing EXCEPT ![x] = IF ok THEN "ok" ELSE "failed"]
    BY <1>5, Zenon DEF SessionWritten
  <2>3. UNCHANGED <<letters, task, done, events, serving, inbox, seen, last>>
    BY <1>5, Zenon DEF SessionWritten, receiver
  <2>4. ModelTyped'
    BY <1>2, <2>2, <2>3, Zenon DEF ModelTyped, WriteSteps
  <2>5. \A y \in Letters : writing'[y] = "ok" => writing[y] = "ok" \/ y[1] \in session'
    BY <1>2, <2>1, <2>2, Zenon DEF ModelTyped
  <2>6. LetterInv'
    BY <1>2, <2>1, <2>3, <2>4, <2>5, LettersKeep, Zenon DEF ModelTyped, OnItsWay
  <2>7. QED
    BY <1>1, <2>4, <2>6, Zenon DEF ModelInv
<1>6. QED
  BY <1>3, <1>4, <1>5, Zenon

\* The letter goes back into the queue; its write may have taken effect.
LEMMA RejectTypes ==
    ASSUME ModelTyped, NEW x \in Letters, Reject(x)
    PROVE  /\ letters' \subseteq Letters /\ session \subseteq session'
           /\ task' = [task EXCEPT ![x] = "none"] /\ writing' = [writing EXCEPT ![x] = "none"]
           /\ task' \in [Letters -> TaskSteps] /\ writing' \in [Letters -> WriteSteps]
           /\ \A y \in Letters :
                 (writing'[y] = "ok" => writing[y] = "ok") /\ (task'[y] = "await" => task[y] = "await")
<1>1. task' = [task EXCEPT ![x] = "none"] /\ writing' = [writing EXCEPT ![x] = "none"] /\ letters' = letters \cup {x}
  BY Zenon DEF Reject
<1>2. session \subseteq session'
  BY Zenon DEF Reject, WriteToSession
<1>3. task' \in [Letters -> TaskSteps] /\ writing' \in [Letters -> WriteSteps]
  BY <1>1, Zenon DEF ModelTyped, TaskSteps, WriteSteps
<1>4. QED
  BY <1>1, <1>2, <1>3, Zenon DEF ModelTyped

\* There is no downstream service, or the event goes into its queue, or not.
LEMMA NotifyKeeps ==
    ASSUME ModelInv, modelPlan' = modelPlan, NEW x \in Letters,
           NoService(x) \/ \E ok \in BOOLEAN : Enqueue(x, ok)
    PROVE  ModelInv'
<1>1. ReceiverInv'
  BY NothingToSee, Zenon DEF ReceiverRests, NoService, Enqueue, receiver
<1>2. ModelTyped /\ LetterInv
  BY Zenon DEF ModelInv
<1>3. UNCHANGED <<done, serving, inbox, seen, last>>
  BY Zenon DEF NoService, Enqueue, receiver
<1>4. events \subseteq events'
  BY Zenon DEF NoService, Enqueue, Sent
<1>5. CASE Reject(x)
  <2>1. ModelTyped'
    BY <1>2, <1>3, <1>5, RejectTypes, Zenon DEF ModelTyped
  <2>2. LetterInv'
    BY <1>2, <1>3, <1>4, <1>5, RejectTypes, LettersKeep, Zenon DEF ModelTyped, OnItsWay
  <2>3. QED
    BY <1>1, <2>1, <2>2, Zenon DEF ModelInv
<1>6. CASE task' = [task EXCEPT ![x] = "await"] /\ UNCHANGED <<letters, session, writing>> /\ x[1] \in events'
  <2>1. ModelTyped'
    BY <1>2, <1>3, <1>6, Zenon DEF ModelTyped, TaskSteps
  <2>2. \A y \in Letters : task'[y] = "await" => task[y] = "await" \/ y = x
    BY <1>2, <1>6, Zenon DEF ModelTyped
  <2>3. OnItsWay(x[1])'
    BY <1>6, Zenon DEF OnItsWay
  <2>4. \A m \in Msgs : OnItsWay(m) => OnItsWay(m)'
    BY <1>3, <1>4, Zenon DEF OnItsWay
  <2>5. LetterInv'
    BY <1>2, <1>3, <1>6, <2>1, <2>2, <2>3, <2>4, LettersKeep, Zenon DEF ModelTyped
  <2>6. QED
    BY <1>1, <2>1, <2>5, Zenon DEF ModelInv
<1>7. QED
  BY <1>5, <1>6, Zenon DEF NoService, Enqueue, Sent

\* The dead letter worker dies.
LEMMA CrashKeeps ==
    ASSUME ModelInv, modelPlan' = modelPlan, WorkerCrashes
    PROVE  ModelInv'
<1>1. ReceiverInv'
  BY NothingToSee, Zenon DEF ReceiverRests, WorkerCrashes, receiver
<1>2. /\ letters' \subseteq Letters /\ session \subseteq session'
      /\ task' = [x \in Letters |-> "none"] /\ writing' = [x \in Letters |-> "none"]
      /\ serving' = [h \in Handlers |-> IF ByQueue(h) THEN serving[h] ELSE "idle"]
      /\ UNCHANGED <<done, events, inbox, seen, last>>
  BY Zenon DEF ModelInv, ModelTyped, WorkerCrashes, receiver
<1>3. ModelTyped'
  BY <1>2, Zenon DEF ModelInv, ModelTyped, TaskSteps, WriteSteps, ServiceSteps
<1>4. \A m \in Msgs : <<m, "queue">> \in Handlers /\ serving'[<<m, "queue">>] = serving[<<m, "queue">>]
  BY <1>2, Zenon DEF Handlers, ByQueue
<1>5. \A h \in Handlers : serving'[h] \in Filed => serving[h] \in Filed
  BY <1>2, Zenon DEF Filed
<1>6. \A m \in Msgs : OnItsWay(m) => OnItsWay(m)'
  BY <1>2, <1>4, Zenon DEF OnItsWay
<1>7. LetterInv'
  BY <1>2, <1>3, <1>5, <1>6, LettersKeep, Zenon DEF ModelInv, ModelTyped
<1>8. QED
  BY <1>1, <1>3, <1>7, Zenon DEF ModelInv

\* A handler is called for a letter or by the queue.
LEMMA HandlerFacts ==
    ASSUME NEW h \in Handlers
    PROVE  /\ h[1] \in Msgs
           /\ ByQueue(h) => h = <<h[1], "queue">>
           /\ ~ByQueue(h) => h \in Letters
           /\ \A m : h = <<m, "queue">> => ByQueue(h) /\ h[1] = m
           /\ \A m \in Msgs : <<m, "queue">> \in Handlers
BY DEF Handlers, ByQueue, Letters

\* A handler goes on once the inbox is written, succeeds after that, or fails.
LEMMA HandlerReturns ==
    ASSUME ModelInv, NEW h \in Handlers, inbox \subseteq inbox', inbox' \subseteq Msgs,
           UNCHANGED <<letters, writing, done, session>>, seen' \subseteq Msgs, last' \in Nat,
           \/ h[1] \in inbox' /\ \E step \in Filed : GoesOn(h, step)
           \/ h[1] \in inbox' /\ Succeeds(h)
           \/ Fails(h)
    PROVE  ModelTyped' /\ LetterInv'
<1>1. ModelTyped /\ LetterInv /\ h[1] \in Msgs
  BY HandlerFacts, Zenon DEF ModelInv
<1>2. PICK step \in ServiceSteps : serving' = [serving EXCEPT ![h] = step] /\ (step \in Filed => h[1] \in inbox')
  BY Zenon DEF GoesOn, Succeeds, Fails, Step, Filed, ServiceSteps
<1>3. \/ task' = task
      \/ h \in Letters /\ task' = [task EXCEPT ![h] = "enqueue"]
      \/ h \in Letters /\ task' = [task EXCEPT ![h] = "await"] /\ h[1] \in inbox'
  BY HandlerFacts, Zenon DEF GoesOn, Succeeds, Fails
<1>4. events \subseteq events' /\ (ByQueue(h) => step # "idle" \/ h[1] \in inbox' \/ h[1] \in events')
  <2>1. CASE \E st \in Filed : GoesOn(h, st)
    <3>1. PICK st \in Filed : GoesOn(h, st)
      BY <2>1, Zenon
    <3>2. serving' = [serving EXCEPT ![h] = st] /\ events' = events /\ st # "idle"
      BY <3>1, Zenon DEF GoesOn, Step, Filed
    <3>3. step = st
      BY <1>1, <1>2, <3>2 DEF ModelTyped
    <3>4. QED
      BY <3>2, <3>3, Zenon
  <2>2. CASE h[1] \in inbox' /\ Succeeds(h)
    BY <2>2, Zenon DEF Succeeds
  <2>3. CASE Fails(h)
    BY <2>3, Zenon DEF Fails
  <2>4. QED
    BY <2>1, <2>2, <2>3, Zenon
<1>5. ModelTyped'
  <2>1. serving' \in [Handlers -> ServiceSteps]
    BY <1>1, <1>2, Zenon DEF ModelTyped
  <2>2. task' \in [Letters -> TaskSteps]
    BY <1>1, <1>3, Zenon DEF ModelTyped, TaskSteps
  <2>3. QED
    BY <1>1, <2>1, <2>2, Zenon DEF ModelTyped
<1>6. ASSUME NEW m \in Msgs, OnItsWay(m) PROVE OnItsWay(m)'
  <2>1. CASE m \in inbox \cup events
    BY <1>4, <2>1, Zenon DEF OnItsWay
  <2>2. CASE serving[<<m, "queue">>] # "idle"
    <3>1. CASE h = <<m, "queue">>
      <4>1. ByQueue(h) /\ h[1] = m /\ serving'[<<m, "queue">>] = step
        BY <1>1, <1>2, <3>1, HandlerFacts, Zenon DEF ModelTyped
      <4>2. QED
        BY <1>4, <4>1, Zenon DEF OnItsWay
    <3>2. CASE h # <<m, "queue">>
      <4>1. serving'[<<m, "queue">>] = serving[<<m, "queue">>]
        BY <1>1, <1>2, <3>2, HandlerFacts, Zenon DEF ModelTyped
      <4>2. QED
        BY <2>2, <4>1, Zenon DEF OnItsWay
    <3>3. QED
      BY <3>1, <3>2, Zenon
  <2>3. QED
    BY <1>6, <2>1, <2>2, Zenon DEF OnItsWay
<1>7. \A g \in Handlers : serving'[g] \in Filed => serving[g] \in Filed \/ g[1] \in inbox'
  BY <1>1, <1>2, Zenon DEF ModelTyped
<1>8. \A x \in Letters : task'[x] = "await" => task[x] = "await" \/ x[1] \in inbox'
  BY <1>1, <1>3, Zenon DEF ModelTyped
<1>9. \A x \in Letters : task'[x] = "await" => task[x] = "await" \/ OnItsWay(x[1])'
  BY <1>8, Zenon DEF OnItsWay
<1>10. LetterInv'
  BY <1>1, <1>6, <1>7, <1>9, LettersKeep, Zenon DEF ModelTyped
<1>11. QED
  BY <1>5, <1>10, Zenon

\* The handler of an event starts.
LEMMA ServeKeeps ==
    ASSUME ModelInv, modelPlan' = modelPlan, NEW h \in Handlers, Serve(h)
    PROVE  ModelInv'
<1>1. ReceiverInv'
  BY NothingToSee, Zenon DEF ReceiverRests, Serve, receiver
<1>2. /\ ModelTyped /\ LetterInv
      /\ serving' = [serving EXCEPT ![h] = "inbox"]
      /\ UNCHANGED <<letters, task, writing, done, inbox, session, seen, last>>
      /\ events' = events \/ (ByQueue(h) /\ events' = events \ {h[1]})
  BY Zenon DEF ModelInv, Serve, Step, letterVars, receiver
<1>3. ModelTyped'
  BY <1>2, Zenon DEF ModelTyped, ServiceSteps
<1>4. ASSUME NEW m \in Msgs, OnItsWay(m) PROVE OnItsWay(m)'
  <2>1. CASE h = <<m, "queue">>
    <3>1. serving'[<<m, "queue">>] = "inbox"
      BY <1>2, <2>1, Zenon DEF ModelTyped
    <3>2. QED
      BY <3>1, Zenon DEF OnItsWay
  <2>2. CASE h # <<m, "queue">>
    <3>1. serving'[<<m, "queue">>] = serving[<<m, "queue">>]
      BY <1>2, <2>2, HandlerFacts, Zenon DEF ModelTyped
    <3>2. ByQueue(h) => h[1] # m
      BY <2>2, HandlerFacts, Zenon
    <3>3. QED
      BY <1>2, <1>4, <3>1, <3>2, Zenon DEF OnItsWay
  <2>3. QED
    BY <2>1, <2>2, Zenon
<1>5. \A g \in Handlers : serving'[g] \in Filed => serving[g] \in Filed
  BY <1>2, Zenon DEF ModelTyped, Filed
<1>6. LetterInv'
  BY <1>2, <1>3, <1>4, <1>5, LettersKeep, Zenon DEF ModelTyped
<1>7. QED
  BY <1>1, <1>3, <1>6, Zenon DEF ModelInv

\* handle_inbox, user_online_check, push_message, and the end of a handler that is
\* cancelled or whose service dies.
LEMMA HandlerKeeps ==
    ASSUME ModelInv, modelPlan' = modelPlan, NEW h \in Handlers, NEW ok \in BOOLEAN,
           \/ HandleInbox(h, ok) \/ OnlineCheck(h, ok) \/ PushMessage(h, ok) \/ HandlerEnds(h)
    PROVE  ModelInv'
<1>1. ModelTyped /\ LetterInv /\ ReceiverInv /\ h[1] \in Msgs
  BY HandlerFacts, Zenon DEF ModelInv
<1>2. UNCHANGED <<letters, writing, done, session, online, pulled, seen, last, full>>
  BY Zenon DEF HandleInbox, OnlineCheck, PushMessage, HandlerEnds, receiver
<1>3. /\ inbox \subseteq inbox' /\ inbox' \subseteq inbox \cup {h[1]}
      /\ \/ h[1] \in inbox' /\ \E step \in Filed : GoesOn(h, step)
         \/ h[1] \in inbox' /\ Succeeds(h) /\ (h[1] \in pushQueue' \/ ~online)
         \/ Fails(h)
      /\ pushQueue \subseteq pushQueue'
  <2>1. CASE HandleInbox(h, ok)
    BY <2>1, Zenon DEF HandleInbox, WriteToInbox, Filed
  <2>2. CASE OnlineCheck(h, ok)
    <3>1. serving[h] = "check" /\ h[1] \in inbox /\ inbox' = inbox /\ pushQueue' = pushQueue
      BY <1>1, <2>2, Zenon DEF OnlineCheck, LetterInv, Filed
    <3>2. GoesOn(h, "publish") \/ GoesOn(h, "push") \/ (~online /\ Succeeds(h))
      BY <2>2, Zenon DEF OnlineCheck
    <3>3. QED
      BY <3>1, <3>2, Zenon DEF Filed
  <2>3. CASE PushMessage(h, ok)
    <3>1. serving[h] = "publish" /\ h[1] \in inbox /\ inbox' = inbox
      BY <1>1, <2>3, Zenon DEF PushMessage, LetterInv, Filed
    <3>2. pushQueue \subseteq pushQueue' /\ (ok => h[1] \in pushQueue')
      BY <2>3, Zenon DEF PushMessage, Sent
    <3>3. QED
      BY <2>3, <3>1, <3>2, Zenon DEF PushMessage
  <2>4. CASE HandlerEnds(h)
    BY <2>4, Zenon DEF HandlerEnds
  <2>5. QED
    BY <2>1, <2>2, <2>3, <2>4, Zenon
<1>4. settled' = settled \/ (settled' = settled \cup {h[1]} /\ h[1] \in inbox' /\ (h[1] \in pushQueue' \/ ~online))
  BY <1>3, Zenon DEF GoesOn, Succeeds, Fails
<1>5. ReceiverInv'
  <2>1. settled' \subseteq inbox' /\ \A m \in settled' : m \in settled \/ m \in pushQueue' \/ ~online
    BY <1>1, <1>3, <1>4, Zenon DEF ReceiverInv
  <2>2. QED
    BY <1>1, <1>2, <1>3, <2>1, ReceiverStays, Zenon
<1>6. inbox' \subseteq Msgs /\ seen' \subseteq Msgs /\ last' \in Nat
  BY <1>1, <1>2, <1>3, Zenon DEF ModelTyped
<1>7. ModelTyped' /\ LetterInv'
  BY <1>2, <1>3, <1>6, HandlerReturns, Zenon
<1>8. QED
  BY <1>5, <1>7, Zenon DEF ModelInv

\* push_to_gateway
LEMMA GatewayKeeps ==
    ASSUME ModelInv, modelPlan' = modelPlan, NEW h \in Handlers, NEW ok \in BOOLEAN, PushToGateway(h, ok)
    PROVE  ModelInv'
<1>1. ModelTyped /\ LetterInv /\ ReceiverInv /\ h[1] \in Msgs /\ h[1] \in Nat
  BY HandlerFacts, PathAssumption, Zenon DEF ModelInv
<1>2. UNCHANGED <<letters, writing, done, inbox, session, pushQueue, online, pulled, full>>
  BY Zenon DEF PushToGateway
<1>3. h[1] \in inbox
  BY <1>1, Zenon DEF PushToGateway, LetterInv, Filed
<1>4. Succeeds(h) \/ GoesOn(h, "publish")
  BY Zenon DEF PushToGateway
<1>5. seen' \subseteq Msgs /\ last' \in Nat
  BY <1>1, Zenon DEF PushToGateway, Pushed, ModelTyped
<1>6. ModelTyped' /\ LetterInv'
  BY <1>1, <1>2, <1>3, <1>4, <1>5, HandlerReturns, Zenon DEF Filed, ModelTyped
<1>7. settled' \subseteq settled \cup {h[1]} /\ settled' \subseteq inbox'
  BY <1>1, <1>2, <1>3, <1>4, Zenon DEF Succeeds, GoesOn, ReceiverInv
<1>8. CASE Pushed(h[1])
  BY <1>1, <1>2, <1>6, <1>7, <1>8, PushArrives, Zenon DEF ModelInv
<1>9. CASE ~Pushed(h[1])
  <2>1. ~ok /\ seen' = seen /\ last' = last
    BY <1>9, Zenon DEF PushToGateway
  <2>2. settled' = settled
    BY <2>1, Zenon DEF PushToGateway, GoesOn
  <2>3. QED
    BY <1>1, <1>2, <1>6, <1>7, <2>1, <2>2, ReceiverStays, Zenon DEF ModelInv
<1>10. QED
  BY <1>8, <1>9, Zenon

\* A write behind its shield is executed after all.
LEMMA LateKeeps ==
    ASSUME ModelInv, modelPlan' = modelPlan, NEW m \in Msgs, LateWrite(m)
    PROVE  ModelInv'
<1>1. /\ inbox' = inbox \cup {m}
      /\ UNCHANGED <<letters, task, writing, done, events, serving, session, settled, pushQueue, online, pulled, seen, last, full>>
  BY Zenon DEF LateWrite, letterVars, receiver
<1>2. ModelTyped'
  BY <1>1, Zenon DEF ModelInv, ModelTyped
<1>3. LetterInv'
  BY <1>1, <1>2, LettersKeep, Zenon DEF ModelInv, ModelTyped, OnItsWay
<1>4. ReceiverInv'
  BY <1>1, ReceiverStays, Zenon DEF ModelInv, ReceiverInv
<1>5. QED
  BY <1>2, <1>3, <1>4, Zenon DEF ModelInv

LettersRest == UNCHANGED <<letters, task, writing, done, events, serving, inbox, session>>

\* A step of the receiver or of the push service touches no letter.
LEMMA NoLetter ==
    ASSUME ModelInv, LettersRest, seen' \subseteq Msgs, last' \in Nat, ReceiverInv'
    PROVE  ModelInv'
<1>1. ModelTyped'
  BY Zenon DEF ModelInv, ModelTyped, LettersRest
<1>2. LetterInv'
  BY <1>1, LettersKeep, Zenon DEF ModelInv, ModelTyped, LettersRest, OnItsWay
<1>3. QED
  BY <1>1, <1>2, Zenon DEF ModelInv

\* The push service consumes, and the receiver comes, pulls and goes.
LEMMA ReceiverKeeps ==
    ASSUME ModelInv, modelPlan' = modelPlan,
           \/ \E m \in Msgs : PushConsumes(m)
           \/ \E anew \in BOOLEAN : Connect(anew)
           \/ Pull \/ Disconnect
    PROVE  ModelInv'
<1>1. LettersRest /\ settled' = settled
  BY Zenon DEF LettersRest, PushConsumes, Connect, Pull, Disconnect, letterVars
<1>2. ModelTyped /\ ReceiverInv /\ Msgs \subseteq Nat
  BY PathAssumption, Zenon DEF ModelInv
<1>3. ASSUME NEW m \in Msgs, PushConsumes(m) PROVE ModelInv'
  <2>1. seen' \subseteq Msgs /\ last' \in Nat
    BY <1>2, <1>3, Zenon DEF PushConsumes, Pushed, ModelTyped
  <2>2. ReceiverInv'
    <3>1. Pushed(m) /\ pushQueue' = pushQueue \ {m} /\ inbox' = inbox /\ UNCHANGED <<online, pulled, full>>
      BY <1>3, Zenon DEF PushConsumes
    <3>2. settled' \subseteq inbox'
      BY <1>1, <1>2, <3>1, Zenon DEF ReceiverInv
    <3>3. QED
      BY <1>1, <1>2, <3>1, <3>2, PushArrives, Zenon
  <2>3. QED
    BY <1>1, <2>1, <2>2, NoLetter, Zenon
<1>4. ASSUME NEW anew \in BOOLEAN, Connect(anew) PROVE ModelInv'
  <2>1. seen' \subseteq Msgs /\ last' \in Nat /\ ~pulled' /\ (last' # 0 => last' \in seen')
    BY <1>2, <1>4, Zenon DEF Connect, ModelTyped, ReceiverInv
  <2>2. ReceiverInv'
    BY <1>1, <1>2, <2>1, Zenon DEF ReceiverInv, NothingMissed, LettersRest
  <2>3. QED
    BY <1>1, <2>1, <2>2, NoLetter, Zenon
<1>5. CASE Pull
  BY <1>1, <1>2, <1>5, PullBrings, NoLetter, Zenon
<1>6. CASE Disconnect
  <2>1. seen' = seen /\ last' = last /\ ~pulled'
    BY <1>6, Zenon DEF Disconnect
  <2>2. ReceiverInv'
    BY <1>1, <1>2, <2>1, Zenon DEF ReceiverInv, NothingMissed, LettersRest
  <2>3. QED
    BY <1>1, <1>2, <2>1, <2>2, NoLetter, Zenon DEF ModelTyped
<1>7. QED
  BY <1>3, <1>4, <1>5, <1>6, Zenon

\* A step of the read model keeps the invariant.
LEMMA ModelKeeps ==
    ASSUME ModelInv, modelPlan' = modelPlan, ModelNext
    PROVE  ModelInv'
<1>1. ASSUME NEW x \in Letters, LetterStep(x) PROVE ModelInv'
  BY <1>1, LetterKeeps, NotifyKeeps, Zenon DEF LetterStep
<1>2. ASSUME NEW h \in Handlers, HandlerStep(h) PROVE ModelInv'
  BY <1>2, ServeKeeps, HandlerKeeps, GatewayKeeps, Zenon DEF HandlerStep
<1>3. QED
  BY <1>1, <1>2, LateKeeps, CrashKeeps, ReceiverKeeps, Zenon DEF ModelNext

\* The other parts leave it alone.
LEMMA ModelRests ==
    ASSUME ModelInv, modelPlan' = modelPlan, UNCHANGED modelVars
    PROVE  ModelInv'
<1>1. LettersRest /\ ReceiverRests
  BY Zenon DEF modelVars, LettersRest, ReceiverRests
<1>2. ReceiverInv'
  BY <1>1, NothingToSee, Zenon
<1>3. QED
  BY <1>1, <1>2, NoLetter, Zenon DEF ModelInv, ModelTyped, ReceiverRests

\* It implies what the dead letter worker and the downstream service promise.
LEMMA ModelIsSafe == ModelInv => EffectsAreDone
BY Zenon DEF ModelInv, LetterInv, ReceiverInv, EffectsAreDone

-----------------------------------------------------------------------------
(* The way of a message *)

PathInv == UpFits /\ UpInv /\ ModelInv

\* No step of a part disturbs another one.
LEMMA PathKeeps ==
    ASSUME PathInv, Next
    PROVE  PathInv'
<1>1. /\ upPlan' = upPlan /\ modelPlan' = modelPlan
      /\ UpFits /\ UpFits' /\ UpInv /\ ModelInv
  BY Zenon DEF PathInv, Next, plans, UpFits
<1>2. CASE UpStep
  <2>1. UpstreamNext /\ UNCHANGED modelVars
    BY <1>2, Zenon DEF UpStep
  <2>2. QED
    BY <1>1, <2>1, UpKeeps, ModelRests, Zenon DEF PathInv
<1>3. CASE TableStep
  <2>1. UNCHANGED upVars /\ UNCHANGED modelVars
    BY <1>3, Zenon DEF TableStep
  <2>2. QED
    BY <1>1, <2>1, UpRests, ModelRests, Zenon DEF PathInv
<1>4. CASE ModelStep
  <2>1. ModelNext /\ UNCHANGED upVars
    BY <1>4, Zenon DEF ModelStep
  <2>2. QED
    BY <1>1, <2>1, UpRests, ModelKeeps, Zenon DEF PathInv
<1>5. ASSUME NEW m \in Msgs, OutboxStep(m) PROVE PathInv'
  <2>1. UNCHANGED upVars
    BY <1>5, Zenon DEF OutboxStep, OnMessage, OnHandled, Filter, Mark, Deliver
  <2>2. ModelInv'
    <3>1. CASE OnMessage(m) \/ OnHandled(m)
      BY <1>1, <3>1, ModelRests, Zenon DEF OnMessage, OnHandled
    <3>2. ASSUME NEW ok \in BOOLEAN, Filter(m, ok) \/ Mark(m, ok) PROVE ModelInv'
      <4>1. UNCHANGED <<letters, task, writing, done, events, serving, inbox, session, settled, pushQueue, online, pulled, seen, last, full>>
        BY <3>2, Zenon DEF Filter, Mark, letterVars, receiver
      <4>2. QED
        BY <1>1, <4>1, ArriveKeeps, Zenon DEF ModelInv, ModelTyped
    <3>3. ASSUME NEW part \in Actions, NEW ok \in BOOLEAN, NEW stored \in BOOLEAN, Deliver(m, part, ok, stored)
          PROVE  ModelInv'
      <4>1. Arrive(m, part, ok, stored)
        BY <3>3, Zenon DEF Deliver
      <4>2. session \subseteq session' /\ events \subseteq events'
        BY <4>1, Zenon DEF Arrive, Sent, WriteToSession
      <4>3. letters \subseteq Letters /\ <<m, part>> \in Letters
        BY <1>1, Zenon DEF ModelInv, ModelTyped, Letters
      <4>4. letters' \subseteq Letters
        BY <4>1, <4>3, Zenon DEF Arrive
      <4>5. UNCHANGED <<task, writing, done, serving, inbox, settled, pushQueue, online, pulled, seen, last, full>>
        BY <4>1, Zenon DEF Arrive, receiver
      <4>6. QED
        BY <1>1, <4>2, <4>4, <4>5, ArriveKeeps, Zenon
    <3>4. QED
      BY <1>5, <3>1, <3>2, <3>3, Zenon DEF OutboxStep
  <2>3. QED
    BY <1>1, <2>1, <2>2, UpRests, Zenon DEF PathInv
<1>6. CASE WorkerDies
  <2>1. session \subseteq session' /\ events \subseteq events'
    BY <1>6, Zenon DEF WorkerDies
  <2>2. UNCHANGED <<letters, task, writing, done, serving, inbox, settled, pushQueue, online, pulled, seen, last, full>>
    BY <1>6, Zenon DEF WorkerDies, letterVars, receiver
  <2>3. UNCHANGED upVars
    BY <1>6, Zenon DEF WorkerDies
  <2>4. ModelInv'
    BY <1>1, <2>1, <2>2, ArriveKeeps, Zenon DEF ModelInv, ModelTyped
  <2>5. QED
    BY <1>1, <2>3, <2>4, UpRests, Zenon DEF PathInv
<1>7. QED
  BY <1>2, <1>3, <1>4, <1>5, <1>6, Zenon DEF Next

\* The invariant of the way of a message: the producer of the upstream service finds the
\* call that waits for a confirmation, letters and events are where their handlers say,
\* and the receiver has what they count from.
THEOREM PathInvariant == Spec => []PathInv
<1>1. Init => PathInv
  <2>1. Init => UpFits /\ ModelFits
    BY PathAssumption, Zenon DEF Init, UpFits, ModelFits
  <2>2. QED
    BY <2>1, UpInitHolds, ModelInitHolds, Zenon DEF Init, PathInv
<1>2. ASSUME PathInv, UNCHANGED vars PROVE PathInv'
  <2>1. upPlan' = upPlan /\ modelPlan' = modelPlan /\ UNCHANGED upVars /\ UNCHANGED modelVars
    BY <1>2, Zenon DEF vars, plans
  <2>2. UpFits'
    BY <1>2, <2>1, Zenon DEF PathInv, UpFits
  <2>3. QED
    BY <1>2, <2>1, <2>2, UpRests, ModelRests, Zenon DEF PathInv
<1>3. PathInv /\ [Next]_vars => PathInv'
  BY <1>2, PathKeeps, Zenon
<1>4. QED
  BY <1>1, <1>3, PTL DEF Spec

\* DeliverMessage answers success only for a message that is in the stream, and a call that
\* waits for its confirmation is the one the confirmation will find; for every number of
\* calls, whichever of them time out, are cancelled or refused.
THEOREM SuccessStored == Spec => []SuccessIsStored
<1>1. PathInv => SuccessIsStored
  BY UpIsSafe, Zenon DEF PathInv
<1>2. QED
  BY <1>1, PathInvariant, PTL

\* A dead letter is acknowledged only when it was put right, and a receiver who is online
\* and has pulled misses no message whose event was handled, unless they had one with a
\* larger id before they pulled.
THEOREM EffectsCorrect == Spec => []EffectsAreDone
<1>1. PathInv => EffectsAreDone
  BY ModelIsSafe, Zenon DEF PathInv
<1>2. QED
  BY <1>1, PathInvariant, PTL
=============================================================================
