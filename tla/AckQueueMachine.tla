------------------------- MODULE AckQueueMachine -------------------------
(***************************************************************************)
(* One AckQueue under every sequence of calls its owners make: ids are     *)
(* added in any order and more than once (several devices confirm one      *)
(* event, a task of an earlier activation acknowledges late), and the      *)
(* queue is cleared between two rounds.  First what `add` does to a queue, *)
(* whoever owns it: the proofs about the stream consumers rest on the same *)
(* lemmas.                                                                 *)
(***************************************************************************)
EXTENDS AckQueue, FiniteSets, NaturalsInduction, WellFoundedInduction, TLAPS

\* The type of a queue value.
QueueType(q) ==
    /\ q.last \in Nat
    /\ Linked(q) \subseteq 1 .. q.last
    /\ q.start \in [Linked(q) -> Nat]
    /\ q.end \in [Linked(q) -> Nat]
    /\ DOMAIN q.left \subseteq Nat
    /\ q.left \in [DOMAIN q.left -> Linked(q)]
    /\ DOMAIN q.right \subseteq Nat
    /\ q.right \in [DOMAIN q.right -> Linked(q)]

\* A table leads to a linked span that really starts, or ends, at its key.
Consistent(q) ==
    /\ DOMAIN q.end = Linked(q)
    /\ \A s \in Linked(q) : q.start[s] < q.end[s]
    /\ \A k \in DOMAIN q.left : q.start[q.left[k]] = k
    /\ \A k \in DOMAIN q.right : q.end[q.right[k]] = k

\* The span of the first id is still linked: it has the least stamp of all.
Anchored(q, id) == 1 \in Linked(q) /\ q.start[1] = id

\* The tables lead to every span, and the spans neither touch nor overlap.
Separate(q) ==
    /\ \A s \in Linked(q) :
          /\ q.start[s] \in DOMAIN q.left /\ q.left[q.start[s]] = s
          /\ q.end[s] \in DOMAIN q.right /\ q.right[q.end[s]] = s
    /\ \A s, t \in Linked(q) : s # t => q.end[s] < q.start[t] \/ q.end[t] < q.start[s]

-----------------------------------------------------------------------------
(* What `add` does *)

\* An id is in a queue when it lies in one of its spans.
LEMMA InContent ==
    ASSUME NEW q, QueueType(q), NEW x
    PROVE  x \in Content(q) <=>
              /\ x \in Int
              /\ \E s \in Linked(q) : q.start[s] <= x /\ x < q.end[s]
BY DEF Content, QueueType

\* One of the four branches of `add` is taken.
LEMMA AddCases ==
    ASSUME NEW q, NEW id \in Nat
    PROVE  \/ id \in DOMAIN q.right /\ id + 1 \in DOMAIN q.left /\ Add(q, id) = MergeSpans(q, id)
           \/ id \in DOMAIN q.right /\ id + 1 \notin DOMAIN q.left /\ Add(q, id) = GrowLeftSpan(q, id)
           \/ id \notin DOMAIN q.right /\ id + 1 \in DOMAIN q.left /\ Add(q, id) = GrowRightSpan(q, id)
           \/ id \notin DOMAIN q.right /\ id + 1 \notin DOMAIN q.left /\ Add(q, id) = AppendSpan(q, id)
BY DEF Add

-----------------------------------------------------------------------------
(* What each branch preserves *)

\* Merging two spans keeps the tables true, moves no id in or out but the new
\* one, keeps the head while no smaller id arrives, and keeps spans apart.
LEMMA MergePreserves ==
    ASSUME NEW q, QueueType(q), Consistent(q), NEW id \in Nat,
           id \in DOMAIN q.right, id + 1 \in DOMAIN q.left,
           NEW p, p = MergeSpans(q, id)
    PROVE  /\ QueueType(p) /\ Consistent(p)
           /\ \A x \in Int : (\E s \in Linked(p) : p.start[s] <= x /\ x < p.end[s])
                 <=> x = id \/ \E s \in Linked(q) : q.start[s] <= x /\ x < q.end[s]
           /\ \A f \in Nat : Anchored(q, f) /\ f <= id => Anchored(p, f)
           /\ Separate(q) => Separate(p)
<1>1. PICK l : l = q.right[id]
  OBVIOUS
<1>2. PICK r : r = q.left[id + 1]
  OBVIOUS
<1>3. /\ l \in Linked(q) /\ r \in Linked(q) /\ l # r
      /\ q.end[l] = id /\ q.start[r] = id + 1
      /\ p.last = q.last
      /\ p.start = [x \in Linked(q) \ {r} |-> q.start[x]]
      /\ p.end = [x \in Linked(q) \ {r} |-> IF x = l THEN q.end[r] ELSE q.end[x]]
      /\ p.left = [x \in DOMAIN q.left \ {id + 1} |-> q.left[x]]
      /\ p.right = [x \in (DOMAIN q.right \ {id}) \cup {q.end[r]} |->
                      IF x = q.end[r] THEN l ELSE q.right[x]]
  <2>1. l \in Linked(q) /\ r \in Linked(q) /\ q.end[l] = id /\ q.start[r] = id + 1
    BY <1>1, <1>2 DEF QueueType, Consistent
  <2>2. q.start[l] < q.end[l] /\ q.start[l] \in Nat
    BY <2>1 DEF QueueType, Consistent
  <2>3. l # r
    BY <2>1, <2>2
  <2>4. (DOMAIN q.end \ {r}) \cup {l} = Linked(q) \ {r}
    BY <2>1, <2>3 DEF Consistent
  <2>5. /\ p.last = q.last
        /\ p.start = Drop(q.start, r)
        /\ p.end = Move(q.end, r, l, q.end[r])
        /\ p.left = Drop(q.left, id + 1)
        /\ p.right = Move(q.right, id, q.end[r], l)
    BY <1>1, <1>2 DEF MergeSpans
  <2>6. /\ p.start = [x \in Linked(q) \ {r} |-> q.start[x]]
        /\ p.left = [x \in DOMAIN q.left \ {id + 1} |-> q.left[x]]
    BY <2>5 DEF Drop, Linked
  <2>7. p.end = [x \in Linked(q) \ {r} |-> IF x = l THEN q.end[r] ELSE q.end[x]]
    BY <2>4, <2>5 DEF Move
  <2>8. p.right = [x \in (DOMAIN q.right \ {id}) \cup {q.end[r]} |-> IF x = q.end[r] THEN l ELSE q.right[x]]
    BY <2>5 DEF Move
  <2>9. QED
    BY <2>1, <2>3, <2>5, <2>6, <2>7, <2>8
<1>4. Linked(p) = Linked(q) \ {r}
  BY <1>3 DEF Linked
<1>5. /\ q.end[r] \in Nat /\ id + 1 < q.end[r]
      /\ q.start[l] \in Nat /\ q.start[l] < id
      /\ \A s \in Linked(q) : q.start[s] \in Nat /\ q.end[s] \in Nat /\ q.start[s] < q.end[s]
  BY <1>3 DEF QueueType, Consistent
<1>6. \A k \in DOMAIN p.left : k \in Nat /\ p.left[k] \in Linked(p) /\ p.start[p.left[k]] = k
  BY <1>3, <1>4 DEF QueueType, Consistent
<1>7. \A k \in DOMAIN p.right : k \in Nat /\ p.right[k] \in Linked(p) /\ p.end[p.right[k]] = k
  <2> SUFFICES ASSUME NEW k \in DOMAIN p.right
               PROVE  k \in Nat /\ p.right[k] \in Linked(p) /\ p.end[p.right[k]] = k
    OBVIOUS
  <2>1. CASE k = q.end[r]
    BY <2>1, <1>3, <1>4, <1>5
  <2>2. CASE k # q.end[r]
    BY <2>2, <1>3, <1>4, <1>5 DEF QueueType, Consistent
  <2>3. QED
    BY <2>1, <2>2
<1>8. QueueType(p)
  <2>1. p.last \in Nat /\ Linked(p) \subseteq 1 .. p.last
    BY <1>3, <1>4 DEF QueueType
  <2>2. p.start \in [Linked(p) -> Nat] /\ p.end \in [Linked(p) -> Nat]
    BY <1>3, <1>4, <1>5
  <2>3. p.left \in [DOMAIN p.left -> Linked(p)] /\ p.right \in [DOMAIN p.right -> Linked(p)]
    BY <1>3, <1>6, <1>7, Zenon
  <2>4. QED
    BY <1>6, <1>7, <2>1, <2>2, <2>3 DEF QueueType
<1>9. Consistent(p)
  <2>1. DOMAIN p.end = Linked(p)
    BY <1>3, <1>4
  <2>2. \A s \in Linked(p) : p.start[s] < p.end[s]
    BY <1>3, <1>4, <1>5
  <2>3. QED
    BY <1>6, <1>7, <2>1, <2>2 DEF Consistent
<1>10. ASSUME NEW x \in Int
       PROVE  (\E s \in Linked(p) : p.start[s] <= x /\ x < p.end[s])
                 <=> x = id \/ \E s \in Linked(q) : q.start[s] <= x /\ x < q.end[s]
  <2>1. ASSUME NEW s \in Linked(p), p.start[s] <= x, x < p.end[s]
        PROVE  x = id \/ \E t \in Linked(q) : q.start[t] <= x /\ x < q.end[t]
    BY <2>1, <1>3, <1>4, <1>5
  <2>2. ASSUME NEW s \in Linked(q), q.start[s] <= x, x < q.end[s]
        PROVE  \E t \in Linked(p) : p.start[t] <= x /\ x < p.end[t]
    <3>1. CASE s = l \/ s = r
      BY <2>2, <3>1, <1>3, <1>4, <1>5
    <3>2. CASE s # l /\ s # r
      BY <2>2, <3>2, <1>3, <1>4, <1>5
    <3>3. QED
      BY <3>1, <3>2
  <2>3. x = id => \E t \in Linked(p) : p.start[t] <= x /\ x < p.end[t]
    BY <1>3, <1>4, <1>5
  <2>4. QED
    BY <2>1, <2>2, <2>3
<1>11. \A f \in Nat : Anchored(q, f) /\ f <= id => Anchored(p, f)
  BY <1>3, <1>4 DEF Anchored
<1>12. ASSUME Separate(q)
       PROVE  Separate(p)
  <2>1. \A s \in Linked(p) : p.start[s] \in DOMAIN p.left /\ p.left[p.start[s]] = s
    BY <1>12, <1>3, <1>4, <1>5 DEF Separate
  <2>2. \A s \in Linked(p) : p.end[s] \in DOMAIN p.right /\ p.right[p.end[s]] = s
    <3> SUFFICES ASSUME NEW s \in Linked(p)
                 PROVE  p.end[s] \in DOMAIN p.right /\ p.right[p.end[s]] = s
      OBVIOUS
    <3>1. CASE s = l
      BY <3>1, <1>3, <1>4
    <3>2. CASE s # l
      <4>1. p.end[s] = q.end[s] /\ s \in Linked(q) /\ s # r
        BY <3>2, <1>3, <1>4
      <4>2. q.end[s] # q.end[r] /\ q.end[s] # id
        BY <3>2, <4>1, <1>12, <1>3 DEF Separate
      <4>3. q.end[s] \in DOMAIN q.right /\ q.right[q.end[s]] = s
        BY <4>1, <1>12 DEF Separate
      <4>4. QED
        BY <4>1, <4>2, <4>3, <1>3
    <3>3. QED
      BY <3>1, <3>2
  <2>3. \A s, t \in Linked(p) : s # t => p.end[s] < p.start[t] \/ p.end[t] < p.start[s]
    <3> SUFFICES ASSUME NEW s \in Linked(p), NEW t \in Linked(p), s # t
                 PROVE  p.end[s] < p.start[t] \/ p.end[t] < p.start[s]
      OBVIOUS
    <3>1. s \in Linked(q) /\ t \in Linked(q) /\ s # r /\ t # r
      BY <1>4
    <3>2. \A u, v \in Linked(q) : u # v => q.end[u] < q.start[v] \/ q.end[v] < q.start[u]
      BY <1>12 DEF Separate
    <3>3. p.start[s] = q.start[s] /\ p.start[t] = q.start[t]
      BY <1>3, <1>4
    <3>4. CASE s = l
      <4>1. p.end[s] = q.end[r] /\ p.end[t] = q.end[t]
        BY <3>4, <1>3, <1>4
      <4>2. QED
        BY <3>1, <3>2, <3>3, <3>4, <4>1, <1>3, <1>5
    <3>5. CASE t = l
      <4>1. p.end[t] = q.end[r] /\ p.end[s] = q.end[s]
        BY <3>5, <1>3, <1>4
      <4>2. QED
        BY <3>1, <3>2, <3>3, <3>5, <4>1, <1>3, <1>5
    <3>6. CASE s # l /\ t # l
      <4>1. p.end[t] = q.end[t] /\ p.end[s] = q.end[s]
        BY <3>6, <1>3, <1>4
      <4>2. QED
        BY <3>1, <3>2, <3>3, <4>1
    <3>7. QED
      BY <3>4, <3>5, <3>6
  <2>4. QED
    BY <2>1, <2>2, <2>3 DEF Separate
<1>13. QED
  BY <1>8, <1>9, <1>10, <1>11, <1>12

\* Lengthening the span on the left of the id preserves the same parts; spans
\* stay apart when the id is new.
LEMMA GrowLeftPreserves ==
    ASSUME NEW q, QueueType(q), Consistent(q), NEW id \in Nat,
           id \in DOMAIN q.right, id + 1 \notin DOMAIN q.left,
           NEW p, p = GrowLeftSpan(q, id)
    PROVE  /\ QueueType(p) /\ Consistent(p)
           /\ \A x \in Int : (\E s \in Linked(p) : p.start[s] <= x /\ x < p.end[s])
                 <=> x = id \/ \E s \in Linked(q) : q.start[s] <= x /\ x < q.end[s]
           /\ \A f \in Nat : Anchored(q, f) => Anchored(p, f)
           /\ Separate(q) /\ (\A s \in Linked(q) : ~(q.start[s] <= id /\ id < q.end[s]))
                 => Separate(p)
<1>1. PICK l : l = q.right[id]
  OBVIOUS
<1>2. /\ l \in Linked(q) /\ q.end[l] = id
      /\ p.last = q.last
      /\ p.start = q.start
      /\ p.end = [x \in Linked(q) |-> IF x = l THEN id + 1 ELSE q.end[x]]
      /\ p.left = q.left
      /\ p.right = [x \in (DOMAIN q.right \ {id}) \cup {id + 1} |->
                      IF x = id + 1 THEN l ELSE q.right[x]]
  <2>1. l \in Linked(q) /\ q.end[l] = id
    BY <1>1 DEF QueueType, Consistent
  <2>2. DOMAIN q.end \cup {l} = Linked(q)
    BY <2>1 DEF Consistent
  <2>3. /\ p.last = q.last /\ p.start = q.start /\ p.left = q.left
        /\ p.end = Put(q.end, l, id + 1)
        /\ p.right = Move(q.right, id, id + 1, l)
    BY <1>1 DEF GrowLeftSpan
  <2>4. p.end = [x \in Linked(q) |-> IF x = l THEN id + 1 ELSE q.end[x]]
    BY <2>2, <2>3 DEF Put
  <2>5. QED
    BY <2>1, <2>3, <2>4 DEF Move
<1>3. Linked(p) = Linked(q)
  BY <1>2 DEF Linked
<1>4. /\ q.start[l] \in Nat /\ q.start[l] < id
      /\ \A s \in Linked(q) : q.start[s] \in Nat /\ q.end[s] \in Nat /\ q.start[s] < q.end[s]
      /\ id + 1 \notin DOMAIN q.left
  BY <1>2 DEF QueueType, Consistent
<1>5. \A k \in DOMAIN p.left : k \in Nat /\ p.left[k] \in Linked(p) /\ p.start[p.left[k]] = k
  BY <1>2, <1>3 DEF QueueType, Consistent
<1>6. \A k \in DOMAIN p.right : k \in Nat /\ p.right[k] \in Linked(p) /\ p.end[p.right[k]] = k
  <2> SUFFICES ASSUME NEW k \in DOMAIN p.right
               PROVE  k \in Nat /\ p.right[k] \in Linked(p) /\ p.end[p.right[k]] = k
    OBVIOUS
  <2>1. CASE k = id + 1
    BY <2>1, <1>2, <1>3
  <2>2. CASE k # id + 1
    BY <2>2, <1>2, <1>3 DEF QueueType, Consistent
  <2>3. QED
    BY <2>1, <2>2
<1>7. QueueType(p)
  <2>1. p.last \in Nat /\ Linked(p) \subseteq 1 .. p.last
    BY <1>2, <1>3 DEF QueueType
  <2>2. p.start \in [Linked(p) -> Nat] /\ p.end \in [Linked(p) -> Nat]
    BY <1>2, <1>3, <1>4 DEF QueueType
  <2>3. p.left \in [DOMAIN p.left -> Linked(p)] /\ p.right \in [DOMAIN p.right -> Linked(p)]
    BY <1>2, <1>3, <1>5, <1>6 DEF QueueType
  <2>4. QED
    BY <1>5, <1>6, <2>1, <2>2, <2>3 DEF QueueType
<1>8. Consistent(p)
  <2>1. DOMAIN p.end = Linked(p)
    BY <1>2, <1>3 DEF Consistent
  <2>2. \A s \in Linked(p) : p.start[s] < p.end[s]
    BY <1>2, <1>3, <1>4
  <2>3. QED
    BY <1>5, <1>6, <2>1, <2>2 DEF Consistent
<1>9. ASSUME NEW x \in Int
      PROVE  (\E s \in Linked(p) : p.start[s] <= x /\ x < p.end[s])
                <=> x = id \/ \E s \in Linked(q) : q.start[s] <= x /\ x < q.end[s]
  <2>1. ASSUME NEW s \in Linked(p), p.start[s] <= x, x < p.end[s]
        PROVE  x = id \/ \E t \in Linked(q) : q.start[t] <= x /\ x < q.end[t]
    BY <2>1, <1>2, <1>3, <1>4
  <2>2. ASSUME NEW s \in Linked(q), q.start[s] <= x, x < q.end[s]
        PROVE  \E t \in Linked(p) : p.start[t] <= x /\ x < p.end[t]
    BY <2>2, <1>2, <1>3, <1>4
  <2>3. x = id => \E t \in Linked(p) : p.start[t] <= x /\ x < p.end[t]
    BY <1>2, <1>3, <1>4
  <2>4. QED
    BY <2>1, <2>2, <2>3
<1>10. \A f \in Nat : Anchored(q, f) => Anchored(p, f)
  BY <1>2, <1>3 DEF Anchored
<1>11. ASSUME Separate(q), \A s \in Linked(q) : ~(q.start[s] <= id /\ id < q.end[s])
       PROVE  Separate(p)
  <2>1. \A s \in Linked(q) :
           /\ q.start[s] \in DOMAIN q.left /\ q.left[q.start[s]] = s
           /\ q.end[s] \in DOMAIN q.right /\ q.right[q.end[s]] = s
    BY <1>11 DEF Separate
  <2>2. \A s, t \in Linked(q) : s # t => q.end[s] < q.start[t] \/ q.end[t] < q.start[s]
    BY <1>11 DEF Separate
  <2>3. \A s \in Linked(p) : p.start[s] \in DOMAIN p.left /\ p.left[p.start[s]] = s
    <3> SUFFICES ASSUME NEW s \in Linked(p)
                 PROVE  p.start[s] \in DOMAIN p.left /\ p.left[p.start[s]] = s
      OBVIOUS
    <3>1. CASE s = l
      BY <3>1, <2>1, <1>2, <1>3, <1>4
    <3>2. CASE s # l
      BY <3>2, <2>1, <2>2, <1>2, <1>3, <1>4, <1>11
    <3>3. QED
      BY <3>1, <3>2
  <2>4. \A s \in Linked(p) : p.end[s] \in DOMAIN p.right /\ p.right[p.end[s]] = s
    <3> SUFFICES ASSUME NEW s \in Linked(p)
                 PROVE  p.end[s] \in DOMAIN p.right /\ p.right[p.end[s]] = s
      OBVIOUS
    <3>1. CASE s = l
      BY <3>1, <2>1, <1>2, <1>3, <1>4
    <3>2. CASE s # l
      BY <3>2, <2>1, <2>2, <1>2, <1>3, <1>4, <1>11
    <3>3. QED
      BY <3>1, <3>2
  <2>5. \A s \in Linked(p) : s # l => p.end[s] < p.start[l] \/ p.end[l] < p.start[s]
    BY <2>1, <2>2, <1>2, <1>3, <1>4, <1>11
  <2>6. \A s, t \in Linked(p) : s # l /\ t # l /\ s # t
            => p.end[s] < p.start[t] \/ p.end[t] < p.start[s]
    BY <2>2, <1>2, <1>3
  <2>7. \A s, t \in Linked(p) : s # t => p.end[s] < p.start[t] \/ p.end[t] < p.start[s]
    BY <2>5, <2>6
  <2>8. QED
    BY <2>3, <2>4, <2>7 DEF Separate
<1>12. QED
  BY <1>7, <1>8, <1>9, <1>10, <1>11

\* Extending the span on the right of the id: the head keeps its start unless
\* the id is smaller than it.
LEMMA GrowRightPreserves ==
    ASSUME NEW q, QueueType(q), Consistent(q), NEW id \in Nat,
           id \notin DOMAIN q.right, id + 1 \in DOMAIN q.left,
           NEW p, p = GrowRightSpan(q, id)
    PROVE  /\ QueueType(p) /\ Consistent(p)
           /\ \A x \in Int : (\E s \in Linked(p) : p.start[s] <= x /\ x < p.end[s])
                 <=> x = id \/ \E s \in Linked(q) : q.start[s] <= x /\ x < q.end[s]
           /\ \A f \in Nat : Anchored(q, f) /\ f <= id => Anchored(p, f)
           /\ Separate(q) /\ (\A s \in Linked(q) : ~(q.start[s] <= id /\ id < q.end[s]))
                 => Separate(p)
<1>1. PICK r : r = q.left[id + 1]
  OBVIOUS
<1>2. /\ r \in Linked(q) /\ q.start[r] = id + 1
      /\ p.last = q.last
      /\ p.start = [x \in Linked(q) |-> IF x = r THEN id ELSE q.start[x]]
      /\ p.end = q.end
      /\ p.left = [x \in (DOMAIN q.left \ {id + 1}) \cup {id} |->
                     IF x = id THEN r ELSE q.left[x]]
      /\ p.right = q.right
  <2>1. r \in Linked(q) /\ q.start[r] = id + 1
    BY <1>1 DEF QueueType, Consistent
  <2>2. DOMAIN q.start \cup {r} = Linked(q)
    BY <2>1 DEF Linked
  <2>3. /\ p.last = q.last /\ p.end = q.end /\ p.right = q.right
        /\ p.start = Put(q.start, r, id)
        /\ p.left = Move(q.left, id + 1, id, r)
    BY <1>1 DEF GrowRightSpan
  <2>4. p.start = [x \in Linked(q) |-> IF x = r THEN id ELSE q.start[x]]
    BY <2>2, <2>3 DEF Put
  <2>5. QED
    BY <2>1, <2>3, <2>4 DEF Move
<1>3. Linked(p) = Linked(q)
  BY <1>2 DEF Linked
<1>4. /\ q.end[r] \in Nat /\ id + 1 < q.end[r]
      /\ \A s \in Linked(q) : q.start[s] \in Nat /\ q.end[s] \in Nat /\ q.start[s] < q.end[s]
      /\ id \notin DOMAIN q.right
  BY <1>2 DEF QueueType, Consistent
<1>5. \A k \in DOMAIN p.left : k \in Nat /\ p.left[k] \in Linked(p) /\ p.start[p.left[k]] = k
  <2> SUFFICES ASSUME NEW k \in DOMAIN p.left
               PROVE  k \in Nat /\ p.left[k] \in Linked(p) /\ p.start[p.left[k]] = k
    OBVIOUS
  <2>1. CASE k = id
    BY <2>1, <1>2, <1>3
  <2>2. CASE k # id
    BY <2>2, <1>2, <1>3 DEF QueueType, Consistent
  <2>3. QED
    BY <2>1, <2>2
<1>6. \A k \in DOMAIN p.right : k \in Nat /\ p.right[k] \in Linked(p) /\ p.end[p.right[k]] = k
  BY <1>2, <1>3 DEF QueueType, Consistent
<1>7. QueueType(p)
  <2>1. p.last \in Nat /\ Linked(p) \subseteq 1 .. p.last
    BY <1>2, <1>3 DEF QueueType
  <2>2. p.start \in [Linked(p) -> Nat] /\ p.end \in [Linked(p) -> Nat]
    BY <1>2, <1>3, <1>4 DEF QueueType
  <2>3. p.left \in [DOMAIN p.left -> Linked(p)] /\ p.right \in [DOMAIN p.right -> Linked(p)]
    BY <1>2, <1>3, <1>5, <1>6 DEF QueueType
  <2>4. QED
    BY <1>5, <1>6, <2>1, <2>2, <2>3 DEF QueueType
<1>8. Consistent(p)
  <2>1. DOMAIN p.end = Linked(p)
    BY <1>2, <1>3 DEF Consistent
  <2>2. \A s \in Linked(p) : p.start[s] < p.end[s]
    BY <1>2, <1>3, <1>4
  <2>3. QED
    BY <1>5, <1>6, <2>1, <2>2 DEF Consistent
<1>9. ASSUME NEW x \in Int
      PROVE  (\E s \in Linked(p) : p.start[s] <= x /\ x < p.end[s])
                <=> x = id \/ \E s \in Linked(q) : q.start[s] <= x /\ x < q.end[s]
  <2>1. ASSUME NEW s \in Linked(p), p.start[s] <= x, x < p.end[s]
        PROVE  x = id \/ \E t \in Linked(q) : q.start[t] <= x /\ x < q.end[t]
    BY <2>1, <1>2, <1>3, <1>4
  <2>2. ASSUME NEW s \in Linked(q), q.start[s] <= x, x < q.end[s]
        PROVE  \E t \in Linked(p) : p.start[t] <= x /\ x < p.end[t]
    BY <2>2, <1>2, <1>3, <1>4
  <2>3. x = id => \E t \in Linked(p) : p.start[t] <= x /\ x < p.end[t]
    BY <1>2, <1>3, <1>4
  <2>4. QED
    BY <2>1, <2>2, <2>3
<1>10. \A f \in Nat : Anchored(q, f) /\ f <= id => Anchored(p, f)
  BY <1>2, <1>3 DEF Anchored
<1>11. ASSUME Separate(q), \A s \in Linked(q) : ~(q.start[s] <= id /\ id < q.end[s])
       PROVE  Separate(p)
  <2>1. \A s \in Linked(q) :
           /\ q.start[s] \in DOMAIN q.left /\ q.left[q.start[s]] = s
           /\ q.end[s] \in DOMAIN q.right /\ q.right[q.end[s]] = s
    BY <1>11 DEF Separate
  <2>2. \A s, t \in Linked(q) : s # t => q.end[s] < q.start[t] \/ q.end[t] < q.start[s]
    BY <1>11 DEF Separate
  <2>3. \A s \in Linked(p) : p.start[s] \in DOMAIN p.left /\ p.left[p.start[s]] = s
    <3> SUFFICES ASSUME NEW s \in Linked(p)
                 PROVE  p.start[s] \in DOMAIN p.left /\ p.left[p.start[s]] = s
      OBVIOUS
    <3>1. CASE s = r
      BY <3>1, <2>1, <1>2, <1>3, <1>4
    <3>2. CASE s # r
      BY <3>2, <2>1, <2>2, <1>2, <1>3, <1>4, <1>11
    <3>3. QED
      BY <3>1, <3>2
  <2>4. \A s \in Linked(p) : p.end[s] \in DOMAIN p.right /\ p.right[p.end[s]] = s
    <3> SUFFICES ASSUME NEW s \in Linked(p)
                 PROVE  p.end[s] \in DOMAIN p.right /\ p.right[p.end[s]] = s
      OBVIOUS
    <3>1. CASE s = r
      BY <3>1, <2>1, <1>2, <1>3, <1>4
    <3>2. CASE s # r
      BY <3>2, <2>1, <2>2, <1>2, <1>3, <1>4, <1>11
    <3>3. QED
      BY <3>1, <3>2
  <2>5. \A s \in Linked(p) : s # r => p.end[s] < p.start[r] \/ p.end[r] < p.start[s]
    BY <2>1, <2>2, <1>2, <1>3, <1>4, <1>11
  <2>6. \A s, t \in Linked(p) : s # r /\ t # r /\ s # t
            => p.end[s] < p.start[t] \/ p.end[t] < p.start[s]
    BY <2>2, <1>2, <1>3
  <2>7. \A s, t \in Linked(p) : s # t => p.end[s] < p.start[t] \/ p.end[t] < p.start[s]
    BY <2>5, <2>6
  <2>8. QED
    BY <2>3, <2>4, <2>7 DEF Separate
<1>12. QED
  BY <1>7, <1>8, <1>9, <1>10, <1>11

\* Linking a fresh span at the tail leaves the head alone; an old entry of a
\* table that it overwrites belonged to a span holding the same id.
LEMMA AppendPreserves ==
    ASSUME NEW q, QueueType(q), Consistent(q), NEW id \in Nat,
           id \notin DOMAIN q.right, id + 1 \notin DOMAIN q.left,
           NEW p, p = AppendSpan(q, id)
    PROVE  /\ QueueType(p) /\ Consistent(p)
           /\ \A x \in Int : (\E s \in Linked(p) : p.start[s] <= x /\ x < p.end[s])
                 <=> x = id \/ \E s \in Linked(q) : q.start[s] <= x /\ x < q.end[s]
           /\ \A f \in Nat : Anchored(q, f) => Anchored(p, f)
           /\ Separate(q) /\ (\A s \in Linked(q) : ~(q.start[s] <= id /\ id < q.end[s]))
                 => Separate(p)
<1>1. PICK n : n = q.last + 1
  OBVIOUS
<1>2. /\ n \notin Linked(q) /\ n \in Nat /\ n > 0
      /\ p.last = n
      /\ p.start = [x \in Linked(q) \cup {n} |-> IF x = n THEN id ELSE q.start[x]]
      /\ p.end = [x \in Linked(q) \cup {n} |-> IF x = n THEN id + 1 ELSE q.end[x]]
      /\ p.left = [x \in DOMAIN q.left \cup {id} |-> IF x = id THEN n ELSE q.left[x]]
      /\ p.right = [x \in DOMAIN q.right \cup {id + 1} |->
                      IF x = id + 1 THEN n ELSE q.right[x]]
  <2>1. n \notin Linked(q) /\ n \in Nat /\ n > 0
    BY <1>1 DEF QueueType
  <2>2. /\ p.last = n
        /\ p.start = Put(q.start, n, id) /\ p.end = Put(q.end, n, id + 1)
        /\ p.left = Put(q.left, id, n) /\ p.right = Put(q.right, id + 1, n)
    BY <1>1 DEF AppendSpan
  <2>3. DOMAIN q.start = Linked(q) /\ DOMAIN q.end = Linked(q)
    BY DEF Linked, Consistent
  <2>4. QED
    BY <2>1, <2>2, <2>3 DEF Put
<1>3. Linked(p) = Linked(q) \cup {n}
  BY <1>2 DEF Linked
<1>4. /\ \A s \in Linked(q) : q.start[s] \in Nat /\ q.end[s] \in Nat /\ q.start[s] < q.end[s]
      /\ id \notin DOMAIN q.right /\ id + 1 \notin DOMAIN q.left
  BY <1>2 DEF QueueType, Consistent
<1>5. \A k \in DOMAIN p.left : k \in Nat /\ p.left[k] \in Linked(p) /\ p.start[p.left[k]] = k
  <2> SUFFICES ASSUME NEW k \in DOMAIN p.left
               PROVE  k \in Nat /\ p.left[k] \in Linked(p) /\ p.start[p.left[k]] = k
    OBVIOUS
  <2>1. CASE k = id
    BY <2>1, <1>2, <1>3
  <2>2. CASE k # id
    BY <2>2, <1>2, <1>3 DEF QueueType, Consistent
  <2>3. QED
    BY <2>1, <2>2
<1>6. \A k \in DOMAIN p.right : k \in Nat /\ p.right[k] \in Linked(p) /\ p.end[p.right[k]] = k
  <2> SUFFICES ASSUME NEW k \in DOMAIN p.right
               PROVE  k \in Nat /\ p.right[k] \in Linked(p) /\ p.end[p.right[k]] = k
    OBVIOUS
  <2>1. CASE k = id + 1
    BY <2>1, <1>2, <1>3
  <2>2. CASE k # id + 1
    BY <2>2, <1>2, <1>3 DEF QueueType, Consistent
  <2>3. QED
    BY <2>1, <2>2
<1>7. QueueType(p)
  <2>1. p.last \in Nat /\ Linked(p) \subseteq 1 .. p.last
    BY <1>1, <1>2, <1>3 DEF QueueType
  <2>2. p.start \in [Linked(p) -> Nat] /\ p.end \in [Linked(p) -> Nat]
    BY <1>2, <1>3, <1>4 DEF QueueType
  <2>3. p.left \in [DOMAIN p.left -> Linked(p)] /\ p.right \in [DOMAIN p.right -> Linked(p)]
    BY <1>2, <1>3, <1>5, <1>6 DEF QueueType
  <2>4. QED
    BY <1>5, <1>6, <2>1, <2>2, <2>3 DEF QueueType
<1>8. Consistent(p)
  <2>1. DOMAIN p.end = Linked(p)
    BY <1>2, <1>3 DEF Consistent
  <2>2. \A s \in Linked(p) : p.start[s] < p.end[s]
    BY <1>2, <1>3, <1>4
  <2>3. QED
    BY <1>5, <1>6, <2>1, <2>2 DEF Consistent
<1>9. ASSUME NEW x \in Int
      PROVE  (\E s \in Linked(p) : p.start[s] <= x /\ x < p.end[s])
                <=> x = id \/ \E s \in Linked(q) : q.start[s] <= x /\ x < q.end[s]
  <2>1. ASSUME NEW s \in Linked(p), p.start[s] <= x, x < p.end[s]
        PROVE  x = id \/ \E t \in Linked(q) : q.start[t] <= x /\ x < q.end[t]
    BY <2>1, <1>2, <1>3, <1>4
  <2>2. ASSUME NEW s \in Linked(q), q.start[s] <= x, x < q.end[s]
        PROVE  \E t \in Linked(p) : p.start[t] <= x /\ x < p.end[t]
    BY <2>2, <1>2, <1>3, <1>4
  <2>3. x = id => \E t \in Linked(p) : p.start[t] <= x /\ x < p.end[t]
    BY <1>2, <1>3, <1>4
  <2>4. QED
    BY <2>1, <2>2, <2>3
<1>10. \A f \in Nat : Anchored(q, f) => Anchored(p, f)
  BY <1>2, <1>3 DEF Anchored
<1>11. ASSUME Separate(q), \A s \in Linked(q) : ~(q.start[s] <= id /\ id < q.end[s])
       PROVE  Separate(p)
  <2>1. \A s \in Linked(q) :
           /\ q.start[s] \in DOMAIN q.left /\ q.left[q.start[s]] = s
           /\ q.end[s] \in DOMAIN q.right /\ q.right[q.end[s]] = s
    BY <1>11 DEF Separate
  <2>2. \A s, t \in Linked(q) : s # t => q.end[s] < q.start[t] \/ q.end[t] < q.start[s]
    BY <1>11 DEF Separate
  <2>3. \A s \in Linked(p) : p.start[s] \in DOMAIN p.left /\ p.left[p.start[s]] = s
    <3> SUFFICES ASSUME NEW s \in Linked(p)
                 PROVE  p.start[s] \in DOMAIN p.left /\ p.left[p.start[s]] = s
      OBVIOUS
    <3>1. CASE s = n
      BY <3>1, <2>1, <1>2, <1>3, <1>4
    <3>2. CASE s # n
      BY <3>2, <2>1, <2>2, <1>2, <1>3, <1>4, <1>11
    <3>3. QED
      BY <3>1, <3>2
  <2>4. \A s \in Linked(p) : p.end[s] \in DOMAIN p.right /\ p.right[p.end[s]] = s
    <3> SUFFICES ASSUME NEW s \in Linked(p)
                 PROVE  p.end[s] \in DOMAIN p.right /\ p.right[p.end[s]] = s
      OBVIOUS
    <3>1. CASE s = n
      BY <3>1, <2>1, <1>2, <1>3, <1>4
    <3>2. CASE s # n
      BY <3>2, <2>1, <2>2, <1>2, <1>3, <1>4, <1>11
    <3>3. QED
      BY <3>1, <3>2
  <2>5. \A s \in Linked(p) : s # n => p.end[s] < p.start[n] \/ p.end[n] < p.start[s]
    BY <2>1, <2>2, <1>2, <1>3, <1>4, <1>11
  <2>6. \A s, t \in Linked(p) : s # n /\ t # n /\ s # t
            => p.end[s] < p.start[t] \/ p.end[t] < p.start[s]
    BY <2>2, <1>2, <1>3
  <2>7. \A s, t \in Linked(p) : s # t => p.end[s] < p.start[t] \/ p.end[t] < p.start[s]
    BY <2>5, <2>6
  <2>8. QED
    BY <2>3, <2>4, <2>7 DEF Separate
<1>12. QED
  BY <1>7, <1>8, <1>9, <1>10, <1>11

\* `add` puts exactly its id into the queue and keeps every part of the
\* inductive invariant, whichever branch it takes.
LEMMA AddPreserves ==
    ASSUME NEW q, QueueType(q), Consistent(q), NEW id \in Nat
    PROVE  /\ QueueType(Add(q, id)) /\ Consistent(Add(q, id))
           /\ Content(Add(q, id)) = Content(q) \cup {id}
           /\ \A f \in Nat : Anchored(q, f) /\ f <= id => Anchored(Add(q, id), f)
           /\ Separate(q) /\ id \notin Content(q) => Separate(Add(q, id))
<1>1. PICK p : p = Add(q, id)
  OBVIOUS
<1>2. /\ QueueType(p) /\ Consistent(p)
      /\ \A x \in Int : (\E s \in Linked(p) : p.start[s] <= x /\ x < p.end[s])
            <=> x = id \/ \E s \in Linked(q) : q.start[s] <= x /\ x < q.end[s]
      /\ \A f \in Nat : Anchored(q, f) /\ f <= id => Anchored(p, f)
      /\ Separate(q) /\ (\A s \in Linked(q) : ~(q.start[s] <= id /\ id < q.end[s]))
            => Separate(p)
  <2>1. CASE id \in DOMAIN q.right /\ id + 1 \in DOMAIN q.left /\ p = MergeSpans(q, id)
    BY <2>1, MergePreserves
  <2>2. CASE id \in DOMAIN q.right /\ id + 1 \notin DOMAIN q.left /\ p = GrowLeftSpan(q, id)
    BY <2>2, GrowLeftPreserves
  <2>3. CASE id \notin DOMAIN q.right /\ id + 1 \in DOMAIN q.left /\ p = GrowRightSpan(q, id)
    BY <2>3, GrowRightPreserves
  <2>4. CASE id \notin DOMAIN q.right /\ id + 1 \notin DOMAIN q.left /\ p = AppendSpan(q, id)
    BY <2>4, AppendPreserves
  <2>5. QED
    BY <2>1, <2>2, <2>3, <2>4, <1>1, AddCases, Zenon
<1>3. \A x : x \in Content(p) <=> x \in Int /\ \E s \in Linked(p) : p.start[s] <= x /\ x < p.end[s]
  BY <1>2, InContent
<1>4. \A x : x \in Content(q) <=> x \in Int /\ \E s \in Linked(q) : q.start[s] <= x /\ x < q.end[s]
  BY InContent
<1>5. Content(p) = Content(q) \cup {id}
  BY <1>2, <1>3, <1>4
<1>6. id \notin Content(q) => \A s \in Linked(q) : ~(q.start[s] <= id /\ id < q.end[s])
  BY <1>4
<1>7. QED
  BY <1>1, <1>2, <1>5, <1>6

\* The first span of an empty queue holds its first id.
LEMMA FirstAdd ==
    ASSUME NEW id \in Nat
    PROVE  Anchored(Add(EmptyQueue, id), id)
<1>1. id \notin DOMAIN EmptyQueue.right /\ id + 1 \notin DOMAIN EmptyQueue.left
  BY DEF EmptyQueue, NoEntries
<1>2. Add(EmptyQueue, id) = AppendSpan(EmptyQueue, id)
  BY <1>1, AddCases
<1>3. QED
  BY <1>2 DEF AppendSpan, EmptyQueue, NoEntries, Put, Anchored, Linked

\* An empty queue satisfies every part of the inductive invariant.
LEMMA EmptyQueueFacts ==
    /\ QueueType(EmptyQueue) /\ Consistent(EmptyQueue)
    /\ Content(EmptyQueue) = {} /\ Separate(EmptyQueue)
BY DEF EmptyQueue, NoEntries, QueueType, Consistent, Content, Separate, Linked

\* Adding a negative id changes nothing.
LEMMA AddNegative ==
    ASSUME NEW q
    PROVE  Add(q, -1) = q
BY DEF Add

\* The head of the list is the span with stamp 1 while it is linked.
LEMMA AnchoredFirstEnd ==
    ASSUME NEW q, QueueType(q), NEW f, Anchored(q, f)
    PROVE  FirstEnd(q) = q.end[1]
<1>1. 1 \in Linked(q) /\ Linked(q) \subseteq Nat \ {0}
  BY DEF Anchored, QueueType
<1>2. IsHead(q, 1)
  BY <1>1 DEF IsHead
<1>3. \A s \in Linked(q) : IsHead(q, s) => s = 1
  BY <1>1 DEF IsHead
<1>4. (CHOOSE s \in Linked(q) : IsHead(q, s)) = 1
  BY <1>1, <1>2, <1>3
<1>5. QED
  BY <1>1, <1>4, Zenon DEF FirstEnd

\* Every id from the first one up to `first_end` is in an anchored queue.
LEMMA AnchoredFrontier ==
    ASSUME NEW q, QueueType(q), Consistent(q), NEW f \in Nat, Anchored(q, f)
    PROVE  /\ FirstEnd(q) \in Nat /\ f < FirstEnd(q)
           /\ f .. (FirstEnd(q) - 1) \subseteq Content(q)
<1>1. FirstEnd(q) = q.end[1]
  BY AnchoredFirstEnd
<1>2. 1 \in Linked(q) /\ q.start[1] = f /\ q.end[1] \in Nat /\ f < q.end[1]
  BY DEF Anchored, QueueType, Consistent
<1>3. f .. (q.end[1] - 1) \subseteq Content(q)
  BY <1>2, InContent
<1>4. QED
  BY <1>1, <1>2, <1>3

\* A set of natural numbers that is not empty has a least element.
LEMMA LeastNumber ==
    ASSUME NEW T \in SUBSET Nat, T # {}
    PROVE  \E x \in T : \A y \in T : x <= y
<1> DEFINE R == {ss \in Nat \X Nat : ss[1] < ss[2]}
<1>1. OpToRel(<, Nat) = R
  BY DEF OpToRel
<1>2. IsWellFoundedOn(R, Nat)
  BY <1>1, NatLessThanWellFounded, Zenon
<1>3. PICK x \in T : \A y \in T : ~ (<<y, x>> \in R)
  BY <1>2, WFMin, Zenon
<1>4. \A y \in T : ~ (y < x)
  BY <1>3, Zenon
<1>5. QED
  BY <1>4

\* `first_end` of any queue is 0 or follows an id that was added.
LEMMA FirstEndFollows ==
    ASSUME NEW q, QueueType(q), Consistent(q)
    PROVE  /\ FirstEnd(q) \in Nat
           /\ FirstEnd(q) = 0 \/ FirstEnd(q) - 1 \in Content(q)
<1>1. CASE Linked(q) = {}
  BY <1>1 DEF FirstEnd
<1>2. CASE Linked(q) # {}
  <2>1. Linked(q) \subseteq Nat
    BY DEF QueueType
  <2>2. \E s \in Linked(q) : IsHead(q, s)
    BY <1>2, <2>1, LeastNumber DEF IsHead
  <2>3. PICK s \in Linked(q) : s = (CHOOSE t \in Linked(q) : IsHead(q, t))
    BY <2>2
  <2>4. FirstEnd(q) = q.end[s]
    BY <1>2, <2>3 DEF FirstEnd
  <2>5. q.end[s] \in Nat /\ q.start[s] \in Nat /\ q.start[s] < q.end[s]
    BY DEF QueueType, Consistent
  <2>6. QED
    BY <2>4, <2>5, InContent
<1>3. QED
  BY <1>1, <1>2

-----------------------------------------------------------------------------
(* The machine *)

CONSTANTS AckIds      \* the delivery ids or stream offsets that are added

ASSUME AckIdsAssumption == AckIds \subseteq Nat

NoId == -1

VARIABLES
    queue,
    added,   \* history: the ids added since the last clear
    first,   \* history: the first of them, or NoId
    low,     \* history: an id below the first one was added
    dup      \* history: an id was added twice

queueVars == <<queue, added, first, low, dup>>

QueueInit ==
    /\ queue = EmptyQueue
    /\ added = {}
    /\ first = NoId
    /\ low = FALSE
    /\ dup = FALSE

AddId(id) ==
    /\ queue' = Add(queue, id)
    /\ added' = added \cup {id}
    /\ first' = IF added = {} THEN id ELSE first
    /\ low' = (low \/ (added # {} /\ id < first))
    /\ dup' = (dup \/ id \in added)

\* OffsetRecord(stream, -1) adds the offset -1: only ids >= 0 are kept.
AddNothing ==
    /\ queue' = Add(queue, -1)
    /\ UNCHANGED <<added, first, low, dup>>

Clear ==
    /\ queue' = EmptyQueue
    /\ added' = {}
    /\ first' = NoId
    /\ low' = FALSE
    /\ dup' = FALSE

QueueNext ==
    \/ \E id \in AckIds : AddId(id)
    \/ AddNothing
    \/ Clear

QueueSpec == QueueInit /\ [][QueueNext]_queueVars

-----------------------------------------------------------------------------
QueueTypeOK ==
    /\ QueueType(queue)
    /\ added \subseteq AckIds
    /\ first \in AckIds \cup {NoId}
    /\ low \in BOOLEAN
    /\ dup \in BOOLEAN

\* The spans hold exactly the ids that were added: `add` with its two lookup
\* tables neither confirms an id nobody acknowledged nor forgets one, also when
\* an id is added twice and the tables no longer reach every span.
ContentIsAdded == Content(queue) = added

\* As long as no id below the first one arrives, every id from the first one up
\* to `first_end` was added; and `first_end` itself was not, unless an id was
\* added twice.  The stream consumer stores `first_end - 1` on this ground.
FirstEndIsFrontier ==
    added # {} /\ ~low =>
        /\ first .. (FirstEnd(queue) - 1) \subseteq added
        /\ first < FirstEnd(queue)
        /\ ~dup => FirstEnd(queue) \notin added

\* Without duplicates the spans are as few as they can be: no two of them touch
\* or overlap, so one feedback message per span confirms every id once.
SpansAreSeparate ==
    ~dup => \A s, t \in Linked(queue) : s # t =>
                queue.end[s] < queue.start[t] \/ queue.end[t] < queue.start[s]

-----------------------------------------------------------------------------
(* The inductive invariant *)

\* The lookup tables of `add` stay true of the spans, the span that holds the
\* first id stays the head of the list while no smaller id arrives, and without
\* duplicates the tables reach every span: why the properties above persist.
IInv ==
    /\ QueueTypeOK
    /\ Consistent(queue)
    /\ ContentIsAdded
    /\ added = {} => queue = EmptyQueue /\ ~low
    /\ added # {} => first \in AckIds
    /\ added # {} /\ ~low => Anchored(queue, first)
    /\ ~dup => Separate(queue)

-----------------------------------------------------------------------------
(* The theorems, for every set of ids and every sequence of calls *)

\* The parts of IInv, with the queue conjuncts of TypeOK under one name.
LEMMA IInvParts ==
    IInv <=> /\ QueueType(queue) /\ Consistent(queue)
             /\ added \subseteq AckIds /\ first \in AckIds \cup {NoId}
             /\ low \in BOOLEAN /\ dup \in BOOLEAN
             /\ Content(queue) = added
             /\ added = {} => queue = EmptyQueue /\ ~low
             /\ added # {} => first \in AckIds
             /\ added # {} /\ ~low => Anchored(queue, first)
             /\ ~dup => Separate(queue)
BY DEF IInv, QueueTypeOK, ContentIsAdded

\* A fresh queue satisfies the inductive invariant.
LEMMA InitInv == QueueInit => IInv
<1> SUFFICES ASSUME QueueInit PROVE IInv
  OBVIOUS
<1>1. queue = EmptyQueue /\ added = {} /\ first = NoId /\ low = FALSE /\ dup = FALSE
  BY DEF QueueInit
<1>2. QED
  BY <1>1, EmptyQueueFacts, IInvParts, Zenon

\* Every call on the queue preserves the inductive invariant.
LEMMA NextInv == IInv /\ [QueueNext]_queueVars => IInv'
<1> SUFFICES ASSUME IInv, [QueueNext]_queueVars PROVE IInv'
  OBVIOUS
<1>1. /\ QueueType(queue) /\ Consistent(queue)
      /\ added \subseteq AckIds /\ first \in AckIds \cup {NoId}
      /\ low \in BOOLEAN /\ dup \in BOOLEAN
      /\ Content(queue) = added
      /\ added = {} => queue = EmptyQueue /\ ~low
      /\ added # {} => first \in AckIds
      /\ added # {} /\ ~low => Anchored(queue, first)
      /\ ~dup => Separate(queue)
  BY IInvParts
<1>2. ASSUME /\ QueueType(queue') /\ Consistent(queue')
             /\ added' \subseteq AckIds /\ first' \in AckIds \cup {NoId}
             /\ low' \in BOOLEAN /\ dup' \in BOOLEAN
             /\ Content(queue') = added'
             /\ added' = {} => queue' = EmptyQueue /\ ~low'
             /\ added' # {} => first' \in AckIds
             /\ added' # {} /\ ~low' => Anchored(queue', first')
             /\ ~dup' => Separate(queue')
      PROVE  IInv'
  BY <1>2 DEF IInv, QueueTypeOK, QueueType, ContentIsAdded, Consistent, Anchored,
              Separate, Content, Linked
<1>3. ASSUME NEW id \in AckIds, AddId(id)
      PROVE  IInv'
  <2>1. id \in Nat
    BY AckIdsAssumption
  <2>2. /\ queue' = Add(queue, id) /\ added' = added \cup {id}
        /\ first' = (IF added = {} THEN id ELSE first)
        /\ low' = (low \/ (added # {} /\ id < first))
        /\ dup' = (dup \/ id \in added)
    BY <1>3 DEF AddId
  <2>3. /\ QueueType(queue') /\ Consistent(queue')
        /\ Content(queue') = Content(queue) \cup {id}
        /\ \A f \in Nat : Anchored(queue, f) /\ f <= id => Anchored(queue', f)
        /\ Separate(queue) /\ id \notin Content(queue) => Separate(queue')
    BY <1>1, <2>1, <2>2, AddPreserves
  <2>4. added' \subseteq AckIds /\ first' \in AckIds /\ low' \in BOOLEAN /\ dup' \in BOOLEAN
    BY <1>1, <2>2
  <2>5. Content(queue') = added' /\ added' # {}
    BY <1>1, <2>2, <2>3
  <2>6. ~low' => Anchored(queue', first')
    <3>1. CASE added = {}
      BY <3>1, <1>1, <2>1, <2>2, FirstAdd
    <3>2. CASE added # {}
      <4>1. first \in Nat /\ first' = first
        BY <3>2, <1>1, <2>2, AckIdsAssumption, Zenon
      <4>2. ~low' => ~low /\ first <= id
        <5>1. ~low' => ~low /\ ~(id < first)
          BY <3>2, <2>2, Zenon
        <5>2. ~(id < first) => first <= id
          BY <4>1, <2>1
        <5>3. QED
          BY <5>1, <5>2, Zenon
      <4>3. QED
        BY <3>2, <4>1, <4>2, <1>1, <2>3
    <3>3. QED
      BY <3>1, <3>2
  <2>7. ~dup' => Separate(queue')
    BY <1>1, <2>2, <2>3, Zenon
  <2>8. QED
    BY <1>2, <2>3, <2>4, <2>5, <2>6, <2>7
<1>4. CASE AddNothing
  <2>1. queue' = queue /\ added' = added /\ first' = first /\ low' = low /\ dup' = dup
    BY <1>4, AddNegative DEF AddNothing
  <2>2. QED
    BY <2>1, <1>1, <1>2
<1>5. CASE Clear
  <2>1. queue' = EmptyQueue /\ added' = {} /\ first' = NoId /\ low' = FALSE /\ dup' = FALSE
    BY <1>5 DEF Clear
  <2>2. QED
    BY <2>1, <1>2, EmptyQueueFacts, Zenon
<1>6. CASE UNCHANGED queueVars
  <2>1. queue' = queue /\ added' = added /\ first' = first /\ low' = low /\ dup' = dup
    BY <1>6 DEF queueVars
  <2>2. QED
    BY <2>1, <1>1, <1>2
<1>7. QED
  BY <1>3, <1>4, <1>5, <1>6 DEF QueueNext

\* The end of the head span is the frontier the stream consumer takes it for.
LEMMA FrontierFromInv == IInv => FirstEndIsFrontier
<1> SUFFICES ASSUME IInv, added # {}, ~low
             PROVE  /\ first .. (FirstEnd(queue) - 1) \subseteq added
                    /\ first < FirstEnd(queue)
                    /\ ~dup => FirstEnd(queue) \notin added
  BY DEF FirstEndIsFrontier
<1>1. /\ QueueType(queue) /\ Consistent(queue) /\ Content(queue) = added
      /\ first \in Nat /\ Anchored(queue, first) /\ (~dup => Separate(queue))
  BY IInvParts, AckIdsAssumption, Zenon
<1>2. FirstEnd(queue) = queue.end[1]
  BY <1>1, AnchoredFirstEnd
<1>3. 1 \in Linked(queue) /\ queue.start[1] = first /\ queue.end[1] \in Nat /\ first < queue.end[1]
  BY <1>1 DEF Anchored, QueueType, Consistent
<1>4. \A x : x \in added <=>
         x \in Int /\ \E s \in Linked(queue) : queue.start[s] <= x /\ x < queue.end[s]
  BY <1>1, InContent
<1>5. first .. (queue.end[1] - 1) \subseteq added
  BY <1>1, <1>2, AnchoredFrontier
<1>6. ASSUME ~dup, queue.end[1] \in added
      PROVE  FALSE
  <2>1. PICK s \in Linked(queue) : queue.start[s] <= queue.end[1] /\ queue.end[1] < queue.end[s]
    BY <1>4, <1>6
  <2>2. s # 1 /\ queue.start[s] \in Nat /\ queue.end[s] \in Nat
    BY <2>1, <1>1, <1>3 DEF QueueType
  <2>3. queue.end[1] < queue.start[s] \/ queue.end[s] < queue.start[1]
    BY <2>1, <2>2, <1>1, <1>3, <1>6 DEF Separate
  <2>4. QED
    BY <2>1, <2>2, <2>3, <1>1, <1>3
<1>7. QED
  BY <1>2, <1>3, <1>5, <1>6

\* The inductive invariant holds in every state of every run of calls on `add`
\* and `clear`.
THEOREM Invariance == QueueSpec => []IInv
BY InitInv, NextInv, PTL DEF QueueSpec

\* Every reachable queue is well-typed: its tables lead to linked spans only.
THEOREM TypeCorrect == QueueSpec => []QueueTypeOK
<1>1. IInv => QueueTypeOK
  BY DEF IInv
<1>2. QED
  BY <1>1, Invariance, PTL

\* `add` confirms exactly what was acknowledged, duplicates included.
THEOREM ContentCorrect == QueueSpec => []ContentIsAdded
<1>1. IInv => ContentIsAdded
  BY DEF IInv
<1>2. QED
  BY <1>1, Invariance, PTL

\* `first_end` is the first id that is still missing, as long as no id below
\* the first one was added.
THEOREM FrontierCorrect == QueueSpec => []FirstEndIsFrontier
BY FrontierFromInv, Invariance, PTL

\* Without duplicates the spans neither touch nor overlap.
THEOREM SeparationCorrect == QueueSpec => []SpansAreSeparate
<1>1. IInv => SpansAreSeparate
  BY DEF IInv, Separate, SpansAreSeparate
<1>2. QED
  BY <1>1, Invariance, PTL
=============================================================================
