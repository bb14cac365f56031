------------------------ MODULE UserRequestsProofs ------------------------
(***************************************************************************)
(* The connection pool keeps its promises among the other requests, for    *)
(* every number of handlers and connections, and the friend events keep    *)
(* theirs, for every set of users and events: for each of them the         *)
(* inductive invariant, that every step keeps it, and what follows.        *)
(***************************************************************************)
EXTENDS UserRequests, TLAPS

\* A publication may be tried once.
LEMMA OneTry == 1 \in 1 .. Tries
BY UserRequestsAssumption

\* A try that is not the last has a next one.
LEMMA AnotherTry ==
    ASSUME NEW n \in 1 .. Tries, n < Tries
    PROVE  n + 1 \in 1 .. Tries
BY UserRequestsAssumption

\* One count of a family goes up.
LEMMA CountUp ==
    ASSUME NEW n \in Nat
    PROVE  n + 1 \in Nat
OBVIOUS

-----------------------------------------------------------------------------
(* The connection pool *)

\* What lies behind position i of a sequence is what is left when it is cut there.
LEMMA BehindCut ==
    ASSUME NEW s \in Seq(Callers), NEW i \in 1 .. Len(s), NEW j \in 1 .. Len(s), j > i
    PROVE  \E l \in 1 .. Len(SubSeq(s, i + 1, Len(s))) : SubSeq(s, i + 1, Len(s))[l] = s[j]
<1> DEFINE t == SubSeq(s, i + 1, Len(s))
<1>1. Len(t) = Len(s) - i /\ \A l \in 1 .. Len(s) - i : t[l] = s[i + l]
  OBVIOUS
<1>2. j - i \in 1 .. Len(s) - i /\ i + (j - i) = j
  OBVIOUS
<1> HIDE DEF t
<1>3. j - i \in 1 .. Len(t) /\ t[j - i] = s[j]
  BY <1>1, <1>2
<1>4. \E l \in 1 .. Len(t) : t[l] = s[j]
  BY <1>3, Zenon
<1>5. QED
  BY <1>4, Zenon DEF t

Pcs == {"idle", "binding", "waiting", "using", "detaching", "done"}
Futs == {"none", "pending", "set", "failed", "cancelled"}
CallType == [pc : Pcs, conn : Conns \cup {NoConn}, fut : Futs, result : Results]

\* The part of PoolTypeOK that the argument needs.
Typed ==
    /\ free \subseteq Conns /\ used \subseteq Conns /\ bound \subseteq Conns
    /\ waiters \in Seq(Callers)
    /\ call \in [Callers -> CallType]

\* Who has a connection: a handler that binds, uses or detaches one, and a waiter
\* whose future is set.
Holds(e) == e.pc \in {"binding", "using", "detaching"} \/ (e.pc = "waiting" /\ e.fut = "set")

\* A future exists while its caller waits; the caller has a connection where its
\* place in the code says so.
PlacesAgree ==
    \A c \in Callers :
        /\ call[c].conn \in Conns <=> Holds(call[c])
        /\ call[c].fut = "pending" => call[c].pc = "waiting"
        /\ call[c].pc = "waiting" => call[c].fut \in {"pending", "set", "failed"}

\* A caller whose future is pending is among the waiters, so that release finds it.
WaitersListed == open # "closed" => \A c \in Callers : Pending(c) => \E i \in 1 .. Len(waiters) : waiters[i] = c

\* For a caller that began to wait while nothing was in transit nothing is free, and
\* nothing comes into transit either.
SureWaiters ==
    open = "active" =>
        \A c \in Callers : Pending(c) /\ c \notin unsure => free = {} /\ InTransit = {}

\* What close() has to give back: the connections in use, later those it sleeps for.
BoundIsKnown ==
    /\ open = "active" => bound \subseteq used
    /\ open # "active" => bound \subseteq ending \cup late
    /\ open = "closed" => ending = {}
    /\ \A c \in Callers : call[c].pc = "detaching" => call[c].conn \notin bound

PInv == Typed /\ OneHolder /\ ConnectionsAccounted /\ PlacesAgree /\ WaitersListed /\ SureWaiters /\ BoundIsKnown

\* The entry of caller c changes to what is given, and no other entry.
Becomes(c, p, k, g) ==
    /\ call' \in [Callers -> CallType]
    /\ call'[c].pc = p /\ call'[c].conn = k /\ call'[c].fut = g
    /\ \A d \in Callers \ {c} : call'[d] = call[d]

\* The connection of c goes to n, who waits.
HandsOver(c, n) ==
    /\ call' \in [Callers -> CallType]
    /\ call'[c].pc = "done" /\ call'[c].conn = NoConn /\ call'[c].fut = call[c].fut
    /\ call'[n].pc = "waiting" /\ call'[n].conn = call[c].conn /\ call'[n].fut = "set"
    /\ \A d \in Callers \ {c, n} : call'[d] = call[d]

\* n is the first in the queue who still waits, and leaves it with those before.
Dequeued(n) ==
    \E i \in 1 .. Len(waiters) :
        /\ waiters[i] = n /\ \A j \in 1 .. i - 1 : ~Pending(waiters[j])
        /\ waiters' = SubSeq(waiters, i + 1, Len(waiters))

-----------------------------------------------------------------------------
\* PoolInit: all connections are free and nobody has begun.
LEMMA PoolInitInv ==
    ASSUME NEW comers, PoolInit(comers)
    PROVE  PInv
<1>1. Typed
  BY DEF PoolInit, Typed, CallType, Pcs, Futs, Idle, Results
<1>2. \A c \in Callers : call[c].pc \in {"idle", "done"} /\ call[c].conn = NoConn /\ call[c].fut = "none"
  BY Zenon DEF PoolInit, Idle
<1>3. OneHolder /\ ConnectionsAccounted /\ PlacesAgree
  BY <1>2, NoConnAssumption DEF PoolInit, OneHolder, ConnectionsAccounted, PlacesAgree, Holds
<1>4. WaitersListed /\ SureWaiters /\ BoundIsKnown
  BY <1>2, Zenon DEF PoolInit, WaitersListed, SureWaiters, BoundIsKnown, Pending
<1>5. QED
  BY <1>1, <1>3, <1>4, Zenon DEF PInv

\* What the entry of a caller may be follows from its place.
LEMMA EntryFacts ==
    ASSUME PInv, NEW c \in Callers
    PROVE  /\ call[c] \in CallType
           /\ call[c].pc \in {"idle", "done"} => call[c].conn = NoConn /\ call[c].fut # "pending"
           /\ call[c].pc = "waiting" /\ call[c].fut # "set" => call[c].conn = NoConn
           /\ Holds(call[c]) => call[c].conn \in Conns /\ call[c].fut # "pending"
BY Zenon DEF PInv, PlacesAgree, Holds, Typed, CallType, Pcs, Futs

\* The entry of a caller that ends.
LEMMA EndsEntry ==
    ASSUME call \in [Callers -> CallType], NEW c \in Callers, NEW r \in Results, call' = Ends(c, r)
    PROVE  Becomes(c, "done", NoConn, call[c].fut)
<1>1. "done" \in Pcs
  BY Zenon DEF Pcs
<1>2. call' \in [Callers -> CallType]
  BY <1>1, ZenonT(30) DEF Ends, CallType
<1>3. call'[c].pc = "done" /\ call'[c].conn = NoConn /\ call'[c].fut = call[c].fut
  BY Zenon DEF Ends, CallType
<1>4. \A d \in Callers \ {c} : call'[d] = call[d]
  BY Zenon DEF Ends
<1>5. QED
  BY <1>2, <1>3, <1>4, Zenon DEF Becomes

\* A caller without a connection leaves: refused, given up, or told of the shutdown.
LEMMA LeavesInv ==
    ASSUME PInv, NEW c \in Callers, NEW g \in Futs, g # "pending", call[c].conn = NoConn,
           Becomes(c, "done", NoConn, g),
           UNCHANGED <<open, free, used, waiters, bound, ending, unsure, late>>
    PROVE  PInv'
<1>2. Typed'
  BY Zenon DEF PInv, Typed, Becomes
<1>3. OneHolder'
  BY NoConnAssumption, Zenon DEF PInv, OneHolder, Becomes, Typed
<1>4. ConnectionsAccounted'
  BY NoConnAssumption DEF PInv, ConnectionsAccounted, Becomes
<1>5. PlacesAgree'
  BY NoConnAssumption, Zenon DEF PInv, PlacesAgree, Becomes, Holds
<1>6. WaitersListed' /\ BoundIsKnown'
  BY Zenon DEF PInv, WaitersListed, BoundIsKnown, Becomes, Pending
<1>7. InTransit' = InTransit
  BY NoConnAssumption, Zenon DEF PInv, InTransit, Becomes
<1>8. SureWaiters'
  BY <1>7, Zenon DEF PInv, SureWaiters, Becomes, Pending
<1>9. QED
  BY <1>2, <1>3, <1>4, <1>5, <1>6, <1>8, Zenon DEF PInv

\* A closing pool, or one whose circuit is broken, returns None.
LEMMA RefusedInv ==
    ASSUME PInv, NEW c \in Callers, AcquireRefused(c)
    PROVE  PInv'
<1>1. call[c].conn = NoConn /\ call[c].fut # "pending" /\ call[c].fut \in Futs
  BY EntryFacts, Zenon DEF AcquireRefused, CallType
<1>2. Becomes(c, "done", NoConn, call[c].fut)
  BY EndsEntry, Zenon DEF AcquireRefused, PInv, Typed, Results
<1>3. QED
  BY <1>1, <1>2, LeavesInv, Zenon DEF AcquireRefused

\* The wait of a caller times out or is cancelled.
LEMMA WaitEndsInv ==
    ASSUME PInv, NEW c \in Callers, WaitEnds(c)
    PROVE  PInv'
<1>1. call[c].conn = NoConn
  BY EntryFacts, Zenon DEF WaitEnds
<1>2. Becomes(c, "done", NoConn, "cancelled")
  BY DEF WaitEnds, Ends, Becomes, PInv, Typed, CallType, Pcs, Futs, Results
<1>3. QED
  BY <1>1, <1>2, LeavesInv, Zenon DEF WaitEnds, Futs

\* acquire takes a free connection: it has no other holder.
LEMMA AcquireFreeInv ==
    ASSUME PInv, NEW c \in Callers, AcquireFree(c)
    PROVE  PInv'
<1>1. PICK k \in free : free' = free \ {k} /\ call' = [call EXCEPT ![c].pc = "binding", ![c].conn = k]
  BY Zenon DEF AcquireFree
<1>2. k \in Conns /\ call[c].conn = NoConn /\ call[c].fut # "pending"
  BY EntryFacts, Zenon DEF AcquireFree, PInv, Typed
<1>3. Becomes(c, "binding", k, call[c].fut)
  BY <1>1, <1>2, Zenon DEF Becomes, PInv, Typed, CallType, Pcs
<1>4. /\ open = "active" /\ call[c].pc = "idle" /\ free' = free \ {k}
      /\ UNCHANGED <<open, used, waiters, bound, ending, unsure, late>>
  BY <1>1, Zenon DEF AcquireFree
<1> HIDE DEF AcquireFree
<1>5. Typed'
  BY <1>3, <1>4, Zenon DEF PInv, Typed, Becomes
<1>6. OneHolder'
  BY <1>2, <1>3, <1>4, NoConnAssumption DEF PInv, OneHolder, Becomes
<1>7. ConnectionsAccounted'
  BY <1>2, <1>3, <1>4, NoConnAssumption DEF PInv, ConnectionsAccounted, Becomes
<1>8. PlacesAgree'
  BY <1>2, <1>3, <1>4, Zenon DEF PInv, PlacesAgree, Becomes, Holds
<1>9. WaitersListed' /\ BoundIsKnown'
  BY <1>2, <1>3, <1>4, Zenon DEF PInv, WaitersListed, BoundIsKnown, Becomes, Pending
<1>10. SureWaiters'
  BY <1>1, <1>2, <1>3, <1>4, Zenon DEF PInv, SureWaiters, Becomes, Pending
<1>11. QED
  BY <1>5, <1>6, <1>7, <1>8, <1>9, <1>10, Zenon DEF PInv

\* acquire appends a future to the waiters: nothing is free at that moment.
LEMMA AcquireWaitInv ==
    ASSUME PInv, NEW c \in Callers, AcquireWait(c)
    PROVE  PInv'
<1>1. call[c].conn = NoConn
  BY EntryFacts, Zenon DEF AcquireWait
<1>2. Becomes(c, "waiting", NoConn, "pending")
  <2>1. "waiting" \in Pcs /\ "pending" \in Futs /\ call \in [Callers -> CallType]
    BY Zenon DEF Pcs, Futs, PInv, Typed
  <2>2. call' = [call EXCEPT ![c].pc = "waiting", ![c].fut = "pending"]
    BY Zenon DEF AcquireWait
  <2>3. call' \in [Callers -> CallType]
    BY <2>1, <2>2, Zenon DEF CallType
  <2>4. QED
    BY <1>1, <2>1, <2>2, <2>3, Zenon DEF Becomes, CallType
<1>3. /\ open = "active" /\ call[c].pc = "idle" /\ free = {}
      /\ waiters' = Append(waiters, c)
      /\ unsure' = IF InTransit = {} THEN unsure ELSE unsure \cup {c}
      /\ UNCHANGED <<open, free, used, bound, ending, late>>
  BY Zenon DEF AcquireWait
<1>4. Typed'
  BY <1>2, <1>3 DEF PInv, Typed, Becomes
<1>5. OneHolder'
  BY <1>1, <1>2, <1>3, NoConnAssumption, Zenon DEF PInv, OneHolder, Becomes
<1>6. ConnectionsAccounted'
  BY <1>1, <1>2, <1>3, NoConnAssumption DEF PInv, ConnectionsAccounted, Becomes
<1>7. PlacesAgree' /\ BoundIsKnown'
  BY <1>1, <1>2, <1>3, NoConnAssumption, Zenon DEF PInv, PlacesAgree, BoundIsKnown, Becomes, Holds
<1>8. WaitersListed'
  <2>1. /\ Len(waiters') = Len(waiters) + 1 /\ waiters'[Len(waiters) + 1] = c /\ Len(waiters) \in Nat
        /\ \A i \in 1 .. Len(waiters) : waiters'[i] = waiters[i]
    BY <1>3 DEF PInv, Typed
  <2>2. QED
    BY <1>2, <1>3, <2>1 DEF PInv, WaitersListed, Becomes, Pending
<1>9. InTransit' = InTransit
  BY <1>1, <1>2, NoConnAssumption, Zenon DEF InTransit, Becomes
<1>10. SureWaiters'
  BY <1>2, <1>3, <1>9, Zenon DEF PInv, SureWaiters, Becomes, Pending
<1>11. QED
  BY <1>4, <1>5, <1>6, <1>7, <1>8, <1>10, Zenon DEF PInv

\* The free connection is bound to one of asyncpg.
LEMMA BindDoneInv ==
    ASSUME PInv, NEW c \in Callers, BindDone(c)
    PROVE  PInv'
<1>1. PICK k \in Conns : k = call[c].conn
  BY EntryFacts, Zenon DEF BindDone, Holds
<1>2. Becomes(c, "using", k, call[c].fut) /\ call[c].fut # "pending"
  BY <1>1, EntryFacts, Zenon DEF BindDone, Holds, Becomes, PInv, Typed, CallType, Pcs
<1>3. /\ call[c].pc = "binding"
      /\ bound' = bound \cup {k}
      /\ used' = IF open = "active" THEN used \cup {k} ELSE used
      /\ late' = IF open = "active" THEN late ELSE late \cup {k}
      /\ UNCHANGED <<open, free, waiters, ending, unsure>>
  BY <1>1, Zenon DEF BindDone
<1>4. Typed'
  BY <1>2, <1>3, Zenon DEF PInv, Typed, Becomes
<1>5. OneHolder'
  BY <1>1, <1>2, <1>3 DEF PInv, OneHolder, Becomes
<1>6. ConnectionsAccounted'
  BY <1>1, <1>2, <1>3 DEF PInv, ConnectionsAccounted, Becomes
<1>7. PlacesAgree'
  BY <1>1, <1>2, <1>3, Zenon DEF PInv, PlacesAgree, Becomes, Holds
<1>8. WaitersListed'
  BY <1>2, <1>3, Zenon DEF PInv, WaitersListed, Becomes, Pending
<1>9. SureWaiters'
  <2>1. k \in InTransit
    BY <1>1, <1>3, Zenon DEF InTransit
  <2>2. QED
    BY <1>2, <1>3, <2>1, Zenon DEF PInv, SureWaiters, Becomes, Pending
<1>10. BoundIsKnown'
  <2>1. \A d \in Callers \ {c} : call[d].conn # k
    BY <1>1, NoConnAssumption, Zenon DEF PInv, OneHolder
  <2>2. QED
    BY <1>2, <1>3, <2>1, Zenon DEF PInv, BoundIsKnown, Becomes
<1>11. QED
  BY <1>4, <1>5, <1>6, <1>7, <1>8, <1>9, <1>10, Zenon DEF PInv

\* Binding fails, and the connection goes back without a look at the waiters.
LEMMA BindFailsInv ==
    ASSUME PInv, NEW c \in Callers, BindFails(c)
    PROVE  PInv'
<1>1. PICK k \in Conns : k = call[c].conn
  BY EntryFacts, Zenon DEF BindFails, Holds
<1>2. Becomes(c, "done", NoConn, call[c].fut) /\ call[c].fut # "pending"
  BY <1>1, EntryFacts, EndsEntry, Zenon DEF BindFails, Holds, PInv, Typed, Results
<1>3. /\ call[c].pc = "binding"
      /\ free' = IF open = "active" THEN free \cup {k} ELSE free
      /\ UNCHANGED <<open, used, waiters, bound, ending, unsure, late>>
  BY <1>1, Zenon DEF BindFails
<1>4. Typed'
  BY <1>2, <1>3, Zenon DEF PInv, Typed, Becomes
<1>5. OneHolder'
  <2>1. NoConn \notin free'
    BY <1>1, <1>3, NoConnAssumption, Zenon DEF PInv, Typed
  <2>2. \A d \in Callers \ {c} : call[d].conn # k
    BY <1>1, NoConnAssumption, Zenon DEF PInv, OneHolder
  <2>3. QED
    BY <1>2, <1>3, <2>1, <2>2 DEF PInv, OneHolder, Becomes
<1>6. ConnectionsAccounted'
  BY <1>1, <1>2, <1>3, NoConnAssumption DEF PInv, OneHolder, ConnectionsAccounted, Becomes
<1>7. PlacesAgree'
  BY <1>1, <1>2, <1>3, NoConnAssumption, Zenon DEF PInv, PlacesAgree, Becomes, Holds
<1>8. WaitersListed' /\ BoundIsKnown'
  BY <1>2, <1>3, Zenon DEF PInv, WaitersListed, BoundIsKnown, Becomes, Pending
<1>9. SureWaiters'
  <2>1. k \in InTransit
    BY <1>1, <1>3, Zenon DEF InTransit
  <2>2. QED
    BY <1>2, <1>3, <2>1, Zenon DEF PInv, SureWaiters, Becomes, Pending
<1>10. QED
  BY <1>4, <1>5, <1>6, <1>7, <1>8, <1>9, Zenon DEF PInv

\* A waiter goes on with what its future was set to.
LEMMA WaitDoneInv ==
    ASSUME PInv, NEW c \in Callers, WaitDone(c)
    PROVE  PInv'
<1>1. /\ call[c].pc = "waiting"
      /\ UNCHANGED <<open, free, waiters, bound, ending, unsure, late>>
  BY Zenon DEF WaitDone
<1>2. CASE call[c].fut = "failed"
  <2>1. call[c].conn = NoConn
    BY <1>1, <1>2, EntryFacts, Zenon
  <2>2. call' = Ends(c, "None") /\ UNCHANGED used
    BY <1>2, Zenon DEF WaitDone
  <2>3. Becomes(c, "done", NoConn, "failed")
    BY <1>2, <2>2, EndsEntry, Zenon DEF PInv, Typed, Results
  <2>4. QED
    BY <1>1, <2>1, <2>2, <2>3, LeavesInv, Zenon DEF Futs
<1>3. CASE call[c].fut = "set"
  <2>1. PICK k \in Conns : k = call[c].conn
    BY <1>1, <1>3, EntryFacts, Zenon DEF Holds
  <2>2. /\ call' = [call EXCEPT ![c].pc = "using"]
        /\ used' = IF open = "active" THEN used \cup {k} ELSE used
    BY <1>3, <2>1, Zenon DEF WaitDone
  <2>3. Becomes(c, "using", k, "set")
    BY <1>3, <2>1, <2>2, Zenon DEF Becomes, PInv, Typed, CallType, Pcs
  <2>4. used' = used
    BY <1>1, <2>1, <2>2, ZenonT(30) DEF PInv, ConnectionsAccounted
  <2>5. Typed'
    BY <1>1, <2>3, <2>4, Zenon DEF PInv, Typed, Becomes
  <2>6. OneHolder'
    BY <1>1, <2>1, <2>3 DEF PInv, OneHolder, Becomes
  <2>7. ConnectionsAccounted'
    BY <1>1, <2>1, <2>3, <2>4 DEF PInv, ConnectionsAccounted, Becomes
  <2>8. PlacesAgree'
    BY <1>1, <2>1, <2>3, Zenon DEF PInv, PlacesAgree, Becomes, Holds
  <2>9. WaitersListed' /\ BoundIsKnown'
    BY <1>1, <2>3, <2>4, Zenon DEF PInv, WaitersListed, BoundIsKnown, Becomes, Pending
  <2>10. InTransit' = InTransit
    BY <1>1, <2>1, <2>3, Zenon DEF InTransit, Becomes
  <2>11. SureWaiters'
    BY <1>1, <2>3, <2>10, Zenon DEF PInv, SureWaiters, Becomes, Pending
  <2>12. QED
    BY <2>5, <2>6, <2>7, <2>8, <2>9, <2>11, Zenon DEF PInv
<1>4. QED
  BY <1>2, <1>3, Zenon DEF WaitDone

\* release hands the connection to the first waiter that still waits.
LEMMA HandOverInv ==
    ASSUME PInv, NEW c \in Callers, NEW n \in Callers, call[c].pc = "using", Pending(n), HandsOver(c, n),
           Dequeued(n), UNCHANGED <<open, free, used, bound, ending, unsure, late>>
    PROVE  PInv'
<1>1. PICK k \in Conns : k = call[c].conn /\ call[c].fut # "pending"
  BY EntryFacts, Zenon DEF Holds
<1>2. n # c /\ call[n].pc = "waiting" /\ call[n].conn = NoConn /\ call[n].fut = "pending"
  BY <1>1, EntryFacts, Zenon DEF PInv, PlacesAgree, Pending
<1>3. Typed'
  <2>1. waiters' \in Seq(Callers)
    BY DEF PInv, Typed, Dequeued
  <2>2. QED
    BY <2>1, Zenon DEF PInv, Typed, HandsOver
<1>4. \A d \in Callers \ {c} : call[d].conn # k
  BY <1>1, NoConnAssumption, Zenon DEF PInv, OneHolder
<1>5. OneHolder'
  <2>1. NoConn \notin free /\ k \notin free
    BY <1>1, NoConnAssumption, Zenon DEF PInv, Typed, OneHolder
  <2>2. /\ call'[c].conn = NoConn /\ call'[n].conn = k
        /\ \A d \in Callers \ {c, n} : call'[d].conn = call[d].conn
    BY <1>1, Zenon DEF HandsOver
  <2>3. \A d, e \in Callers : d # e /\ call[d].conn # NoConn => call[d].conn # call[e].conn
    BY Zenon DEF PInv, OneHolder
  <2>4. \A d, e \in Callers : d # e /\ call'[d].conn # NoConn => call'[d].conn # call'[e].conn
    <3>1. SUFFICES ASSUME NEW d \in Callers, NEW e \in Callers, d # e, call'[d].conn # NoConn
                   PROVE  call'[d].conn # call'[e].conn
      BY Zenon
    <3>2. CASE d = n
      BY <1>4, <2>2, <3>1, <3>2, NoConnAssumption, Zenon
    <3>3. CASE e = n
      BY <1>4, <2>2, <3>1, <3>3, Zenon
    <3>4. CASE d # n /\ e # n
      BY <2>2, <2>3, <3>1, <3>4, Zenon
    <3>5. QED
      BY <3>2, <3>3, <3>4, Zenon
  <2>5. \A d \in Callers : call'[d].conn \notin free
    BY <1>2, <2>1, <2>2, Zenon DEF PInv, OneHolder
  <2>6. QED
    BY <2>4, <2>5, Zenon DEF OneHolder
<1>6. ConnectionsAccounted'
  <2>1. \A j \in Conns : (\E d \in Callers : call[d].conn = j) <=> \E d \in Callers : call'[d].conn = j
    BY <1>1, <1>2, NoConnAssumption, Zenon DEF HandsOver
  <2>2. \A j \in Conns :
           (\E d \in Callers : call[d].conn = j /\ call[d].pc \in {"using", "waiting", "detaching"})
              <=> \E d \in Callers : call'[d].conn = j /\ call'[d].pc \in {"using", "waiting", "detaching"}
    BY <1>1, <1>2, NoConnAssumption DEF HandsOver
  <2>3. QED
    BY <2>1, <2>2 DEF PInv, ConnectionsAccounted
<1>7. PlacesAgree'
  BY <1>1, <1>2, NoConnAssumption DEF PInv, PlacesAgree, Holds, HandsOver
<1>8. BoundIsKnown'
  BY <1>2, Zenon DEF PInv, BoundIsKnown, HandsOver
<1>9. WaitersListed'
  <2>1. \A d \in Callers : Pending(d)' => Pending(d) /\ d # n
    BY <1>1, <1>2, Zenon DEF Pending, HandsOver
  <2>2. SUFFICES ASSUME open # "closed", NEW d \in Callers, Pending(d), d # n
                 PROVE  \E j \in 1 .. Len(waiters') : waiters'[j] = d
    BY <2>1, Zenon DEF WaitersListed
  <2>3. PICK j \in 1 .. Len(waiters) : waiters[j] = d
    BY <2>2, Zenon DEF PInv, WaitersListed
  <2>4. PICK i \in 1 .. Len(waiters) :
            /\ waiters[i] = n /\ \A l \in 1 .. i - 1 : ~Pending(waiters[l])
            /\ waiters' = SubSeq(waiters, i + 1, Len(waiters))
    BY Zenon DEF Dequeued
  <2>5. Len(waiters) \in Nat /\ waiters \in Seq(Callers)
    BY DEF PInv, Typed
  <2>6. j > i
    <3>1. j # i /\ j \notin 1 .. i - 1
      BY <2>2, <2>3, <2>4, Zenon
    <3>2. QED
      BY <2>5, <3>1
  <2>7. QED
    BY <2>3, <2>4, <2>5, <2>6, BehindCut, Zenon
<1>10. InTransit' = InTransit \ {k} /\ k \notin InTransit
  BY <1>1, <1>2, <1>4, NoConnAssumption DEF InTransit, HandsOver
<1>11. SureWaiters'
  BY <1>1, <1>2, <1>10, Zenon DEF PInv, SureWaiters, Pending, HandsOver
<1>12. QED
  BY <1>3, <1>5, <1>6, <1>7, <1>8, <1>9, <1>11, Zenon DEF PInv

\* release finds nobody waiting: the connection is given back to asyncpg first.
LEMMA DetachesInv ==
    ASSUME PInv, NEW c \in Callers, call[c].pc = "using", Becomes(c, "detaching", call[c].conn, call[c].fut),
           \A i \in 1 .. Len(waiters) : ~Pending(waiters[i]), waiters' = << >>,
           bound' = bound \ {call[c].conn}, UNCHANGED <<open, free, used, ending, unsure, late>>
    PROVE  PInv'
<1>1. PICK k \in Conns : k = call[c].conn /\ call[c].fut # "pending"
  BY EntryFacts, Zenon DEF Holds
<1>2. Typed'
  BY DEF PInv, Typed, Becomes
<1>3. OneHolder'
  BY <1>1, ZenonT(30) DEF PInv, OneHolder, Becomes
<1>4. ConnectionsAccounted'
  BY <1>1 DEF PInv, ConnectionsAccounted, Becomes
<1>5. PlacesAgree'
  BY <1>1, Zenon DEF PInv, PlacesAgree, Becomes, Holds
<1>6. BoundIsKnown'
  BY <1>1, Zenon DEF PInv, BoundIsKnown, Becomes
<1>7. open # "closed" => \A d \in Callers : ~Pending(d)
  BY Zenon DEF PInv, WaitersListed
<1>8. open # "closed" => \A d \in Callers : ~Pending(d)'
  BY <1>1, <1>7, Zenon DEF Becomes, Pending
<1>9. WaitersListed' /\ SureWaiters'
  BY <1>8, Zenon DEF WaitersListed, SureWaiters
<1>10. QED
  BY <1>2, <1>3, <1>4, <1>5, <1>6, <1>9, Zenon DEF PInv

\* Handing a connection to a waiter keeps the callers' entries well-typed.
LEMMA HandedEntry ==
    ASSUME NEW f \in [Callers -> CallType], NEW n \in Callers, NEW k \in Conns \cup {NoConn}
    PROVE  [f EXCEPT ![n].fut = "set", ![n].conn = k] \in [Callers -> CallType]
BY Zenon DEF CallType, Futs

\* time_reserve and release up to its first await.
LEMMA RunStatementInv ==
    ASSUME PInv, NEW c \in Callers, RunStatement(c)
    PROVE  PInv'
<1>1. PICK r \in Results : ReleaseWith(c, r)
  BY Zenon DEF RunStatement, Outcome, Results
<1>2. call[c].pc = "using" /\ UNCHANGED <<open, free, used, ending, unsure, late>>
  BY Zenon DEF RunStatement
<1>3. call \in [Callers -> CallType] /\ waiters \in Seq(Callers) /\ Len(waiters) \in Nat
  BY DEF PInv, Typed
<1>4. CASE \E i \in FirstPending :
              /\ waiters' = SubSeq(waiters, i + 1, Len(waiters))
              /\ call' = [Ends(c, r) EXCEPT ![waiters[i]].fut = "set", ![waiters[i]].conn = call[c].conn]
              /\ UNCHANGED bound
  <2>1. PICK i \in FirstPending :
              /\ waiters' = SubSeq(waiters, i + 1, Len(waiters))
              /\ call' = [Ends(c, r) EXCEPT ![waiters[i]].fut = "set", ![waiters[i]].conn = call[c].conn]
              /\ UNCHANGED bound
    BY <1>4, Zenon
  <2>2. PICK n \in Callers : n = waiters[i]
    BY <1>3 DEF FirstPending
  <2>3. i \in 1 .. Len(waiters) /\ Pending(n) /\ \A j \in 1 .. i - 1 : ~Pending(waiters[j])
    BY <2>2, Zenon DEF FirstPending
  <2>4. n # c /\ call[n].pc = "waiting"
    BY <1>2, <2>3, EntryFacts, Zenon DEF PInv, PlacesAgree, Pending
  <2>5. HandsOver(c, n)
    <3> DEFINE f == Ends(c, r)
    <3>1. /\ f \in [Callers -> CallType]
          /\ f[c].pc = "done" /\ f[c].conn = NoConn /\ f[c].fut = call[c].fut
          /\ \A d \in Callers \ {c} : f[d] = call[d]
      BY <1>3, Zenon DEF Ends, CallType, Pcs
    <3>2. call[c].conn \in Conns \cup {NoConn}
      BY <1>3, Zenon DEF CallType
    <3>3. call' = [f EXCEPT ![n].fut = "set", ![n].conn = call[c].conn]
      BY <2>1, <2>2, Zenon
    <3> HIDE DEF f
    <3>4. call' \in [Callers -> CallType]
      BY <3>1, <3>2, <3>3, HandedEntry, Zenon
    <3>5. QED
      BY <2>4, <3>1, <3>3, <3>4, Zenon DEF CallType, HandsOver
  <2>6. Dequeued(n)
    BY <2>1, <2>2, <2>3, Zenon DEF Dequeued
  <2>7. QED
    BY <1>2, <2>1, <2>3, <2>5, <2>6, HandOverInv, Zenon
<1>5. CASE /\ \A i \in 1 .. Len(waiters) : ~Pending(waiters[i])
           /\ waiters' = << >>
           /\ bound' = bound \ {call[c].conn}
           /\ call' = [call EXCEPT ![c].pc = "detaching", ![c].result = r]
  <2>1. Becomes(c, "detaching", call[c].conn, call[c].fut)
    BY <1>3, <1>5, Zenon DEF Becomes, CallType, Pcs
  <2>2. QED
    BY <1>2, <1>5, <2>1, DetachesInv, Zenon
<1>6. QED
  BY <1>1, <1>4, <1>5, Zenon DEF ReleaseWith

\* The end of release: the connection is free again, or the pool is closed.
LEMMA DetachedInv ==
    ASSUME PInv, NEW c \in Callers, Detached(c)
    PROVE  PInv'
<1>1. PICK k \in Conns : k = call[c].conn /\ call[c].fut # "pending"
  BY EntryFacts, Zenon DEF Detached, Holds
<1>2. PICK r \in Results : call' = Ends(c, r)
  BY Zenon DEF Detached, PInv, Typed, CallType, Results
<1>3. Becomes(c, "done", NoConn, call[c].fut)
  BY <1>2, EndsEntry, Zenon DEF PInv, Typed
<1>4. /\ call[c].pc = "detaching"
      /\ UNCHANGED <<open, waiters, bound, ending, unsure, late>>
      /\ \/ open = "active" /\ used' = used \ {k} /\ free' = free \cup {k}
         \/ open # "active" /\ used' = used /\ free' = free
  BY <1>1, Zenon DEF Detached
<1>5. \A d \in Callers \ {c} : call[d].conn # k
  BY <1>1, NoConnAssumption, Zenon DEF PInv, OneHolder
<1>6. Typed'
  BY <1>3, <1>4, Zenon DEF PInv, Typed, Becomes
<1>7. OneHolder'
  <2>1. NoConn \notin free'
    BY <1>1, <1>4, NoConnAssumption, Zenon DEF PInv, Typed
  <2>2. QED
    BY <1>3, <1>4, <1>5, <2>1 DEF PInv, OneHolder, Becomes
<1>8. ConnectionsAccounted'
  BY <1>1, <1>3, <1>4, <1>5, NoConnAssumption DEF PInv, ConnectionsAccounted, Becomes
<1>9. PlacesAgree'
  BY <1>1, <1>3, <1>4, NoConnAssumption, Zenon DEF PInv, PlacesAgree, Becomes, Holds
<1>10. WaitersListed'
  BY <1>1, <1>3, <1>4, Zenon DEF PInv, WaitersListed, Becomes, Pending
<1>11. BoundIsKnown'
  BY <1>1, <1>3, <1>4, Zenon DEF PInv, BoundIsKnown, Becomes
<1>12. SureWaiters'
  <2>1. k \in InTransit
    BY <1>1, <1>4, Zenon DEF InTransit
  <2>2. QED
    BY <1>1, <1>3, <1>4, <2>1, Zenon DEF PInv, SureWaiters, Becomes, Pending
<1>13. QED
  BY <1>6, <1>7, <1>8, <1>9, <1>10, <1>11, <1>12, Zenon DEF PInv

\* close() up to its sleeps, their ends, and its end.
LEMMA CloseInv ==
    ASSUME PInv, Close
    PROVE  PInv'
<1>1. /\ open = "active" /\ open' = "closing" /\ free' = {} /\ used' = {} /\ ending' = used \cap bound
      /\ UNCHANGED <<waiters, bound, call, unsure, late>>
  BY Zenon DEF Close
<1>2. Typed' /\ OneHolder' /\ ConnectionsAccounted' /\ SureWaiters'
  BY <1>1, Zenon DEF PInv, Typed, OneHolder, ConnectionsAccounted, SureWaiters
<1>3. PlacesAgree' /\ WaitersListed' /\ BoundIsKnown'
  BY <1>1, Zenon DEF PInv, PlacesAgree, Holds, WaitersListed, Pending, BoundIsKnown
<1>4. QED
  BY <1>2, <1>3, Zenon DEF PInv

\* A connection is terminated during close.
LEMMA TerminateInv ==
    ASSUME PInv, NEW k \in Conns, Terminate(k)
    PROVE  PInv'
<1>1. /\ ending' = ending \ {k} /\ bound' = bound \ {k} /\ k \in ending
      /\ UNCHANGED <<open, free, used, waiters, call, unsure, late>>
  BY Zenon DEF Terminate
<1>2. Typed' /\ OneHolder' /\ ConnectionsAccounted'
  BY <1>1, Zenon DEF PInv, Typed, OneHolder, ConnectionsAccounted
<1>3. PlacesAgree' /\ WaitersListed' /\ BoundIsKnown'
  BY <1>1, Zenon DEF PInv, PlacesAgree, Holds, WaitersListed, Pending, BoundIsKnown
<1>4. SureWaiters'
  BY <1>1, Zenon DEF PInv, SureWaiters, Pending, InTransit
<1>5. QED
  BY <1>2, <1>3, <1>4, Zenon DEF PInv

\* close tells whoever still waits and ends.
LEMMA CloseEndsInv ==
    ASSUME PInv, CloseEnds
    PROVE  PInv'
<1>1. /\ open = "closing" /\ ending = {} /\ open' = "closed" /\ waiters' = << >>
      /\ UNCHANGED <<free, used, bound, ending, unsure, late>>
  BY Zenon DEF CloseEnds
<1>2. /\ call' \in [Callers -> CallType]
      /\ \A d \in Callers : call'[d].pc = call[d].pc /\ call'[d].conn = call[d].conn
      /\ \A d \in Callers : call'[d].fut = IF Pending(d) THEN "failed" ELSE call[d].fut
  BY Zenon DEF CloseEnds, PInv, Typed, CallType, Futs
<1>3. Typed' /\ OneHolder' /\ ConnectionsAccounted' /\ SureWaiters' /\ WaitersListed'
  BY <1>1, <1>2 DEF PInv, Typed, OneHolder, ConnectionsAccounted, SureWaiters, WaitersListed
<1>4. PlacesAgree'
  BY <1>1, <1>2, Zenon DEF PInv, PlacesAgree, Holds, Pending
<1>5. BoundIsKnown'
  BY <1>1, <1>2, Zenon DEF PInv, BoundIsKnown
<1>6. QED
  BY <1>3, <1>4, <1>5, Zenon DEF PInv

\* Every step of the pool preserves the invariant.
LEMMA PoolStepInv ==
    ASSUME PInv, [PoolNext]_poolVars
    PROVE  PInv'
<1>1. CASE UNCHANGED poolVars
  <2>1. Typed' /\ OneHolder' /\ ConnectionsAccounted'
    BY <1>1, Zenon DEF poolVars, PInv, Typed, OneHolder, ConnectionsAccounted
  <2>2. PlacesAgree' /\ WaitersListed' /\ BoundIsKnown'
    BY <1>1, Zenon DEF poolVars, PInv, PlacesAgree, Holds, WaitersListed, Pending, BoundIsKnown
  <2>3. SureWaiters'
    BY <1>1, Zenon DEF poolVars, PInv, SureWaiters, Pending, InTransit
  <2>4. QED
    BY <2>1, <2>2, <2>3, Zenon DEF PInv
<1>2. ASSUME NEW c \in Callers, CallStep(c)
      PROVE  PInv'
  BY <1>2, AcquireFreeInv, AcquireWaitInv, RefusedInv, BindDoneInv, BindFailsInv, WaitEndsInv, WaitDoneInv,
     RunStatementInv, DetachedInv, Zenon DEF CallStep
<1>3. QED
  BY <1>1, <1>2, CloseInv, TerminateInv, CloseEndsInv, Zenon DEF PoolNext

-----------------------------------------------------------------------------
(* Friend events *)

PostPcs == {"unsent", "idle", "flick", "publishing", "published", "lost", "refused"}
TaskPcs == {"queued", "stuck", "handling", "calling", "answered"}
Statuses == {"none", "SUCCESS", "FAILED"}
PostType == [pc : PostPcs, try : 1 .. Tries]
TaskType == [queue : Queues, copy : Copies, era : Nat, pc : TaskPcs, status : Statuses]

PlanOK(p) ==
    /\ p.queues \subseteq Queues
    /\ \A e \in Events : p.from[e] \in Users /\ p.to[e] \in Users \ {p.from[e]}

\* The part of FriendsTypeOK that the argument needs.
FriendsTyped ==
    /\ PlanOK(plan)
    /\ posted \in [Events -> PostType]
    /\ ready \in [Queues -> SUBSET Copies]
    /\ settled \in [Queues -> SUBSET Copies]
    /\ discarded \in [Queues -> SUBSET Copies]
    /\ task \subseteq TaskType
    /\ era \in [Queues -> Nat]
    /\ orphans \subseteq Events /\ written \subseteq Events
    /\ session \in [Pairs -> Events \cup {NoEvent}]

\* Where the copies of queue q are.
Placed(q) == ready[q] \cup settled[q] \cup discarded[q] \cup {t.copy : t \in Live(q)}

\* What queue q is for is done for event e.
Finished(q, e) == IF q = "psql" THEN e \in written \cup unwritten ELSE e \in pushed \cup offline

\* A delivery that is about to be acknowledged is done.
WorkDone == \A t \in task : t.status = "SUCCESS" => Finished(t.queue, t.copy[1])

\* A session is the id of an accepting answer that was written, and every such answer
\* finds one.
SessionsWritten ==
    /\ \A p \in Pairs : session[p] # NoEvent => session[p] \in written /\ plan.kind[session[p]] = "accept"
    /\ \A e \in written : plan.kind[e] = "accept" => session[PairOf(e)] # NoEvent

FInv == FriendsTyped /\ NothingLost /\ WorkDone /\ SettledIsDone /\ SessionsWritten

\* What was done is not undone.
Grows == written \subseteq written' /\ unwritten \subseteq unwritten' /\ pushed \subseteq pushed' /\ offline \subseteq offline'

\* The pair of an event has a row.
LEMMA PairOfEvent ==
    ASSUME FriendsTyped, NEW e \in Events
    PROVE  PairOf(e) \in Pairs
<1>1. plan.from[e] \in Users /\ plan.to[e] \in Users /\ plan.from[e] # plan.to[e]
  BY Zenon DEF FriendsTyped, PlanOK
<1>2. QED
  BY <1>1, Zenon DEF Pairs, PairOf

\* What is done stays done.
LEMMA FinishedStays ==
    ASSUME Grows, NEW q, NEW e, Finished(q, e)
    PROVE  Finished(q, e)'
BY Zenon DEF Grows, Finished

\* No copy is lost while none leaves its place for nowhere.
LEMMA PlacedKeeps ==
    ASSUME FInv, UNCHANGED <<plan, posted>>, \A q \in Queues : Placed(q) \subseteq Placed(q)'
    PROVE  NothingLost'
<1>1. SUFFICES ASSUME NEW q \in plan.queues, NEW e \in Events, posted[e].pc = "published"
               PROVE  <<e, posted[e].try>> \in Placed(q)'
  BY Zenon DEF NothingLost, Placed
<1>2. q \in Queues
  BY Zenon DEF FInv, FriendsTyped, PlanOK
<1>3. <<e, posted[e].try>> \in Placed(q)
  BY <1>1, Zenon DEF FInv, NothingLost, Placed
<1>4. QED
  BY <1>2, <1>3, Zenon

\* The tables are as they were.
LEMMA SessionsStay ==
    ASSUME FInv, UNCHANGED <<plan, session, written>>
    PROVE  SessionsWritten'
BY Zenon DEF FInv, SessionsWritten, PairOf

\* A statement or transaction: the first accepting answer of a pair gives it its session.
LEMMA WriteKeeps ==
    ASSUME FInv, plan' = plan, NEW e \in Events, Write(e)
    PROVE  /\ session' \in [Pairs -> Events \cup {NoEvent}] /\ written' \subseteq Events
           /\ written \subseteq written' /\ e \in written'
           /\ SessionsWritten'
<1>1. written' = written \cup {e} /\ e \in Events /\ written \subseteq Events
  BY Zenon DEF Write, FInv, FriendsTyped
<1>2. CASE plan.kind[e] # "accept"
  <2>1. session' = session
    BY <1>2, Zenon DEF Write, WriteRequest, WriteRefusal
  <2>2. SessionsWritten'
    <3>1. \A d \in written' : plan.kind[d] = "accept" => d \in written
      BY <1>1, <1>2, Zenon
    <3>2. QED
      BY <1>1, <2>1, <3>1, Zenon DEF FInv, SessionsWritten, PairOf
  <2>3. QED
    BY <1>1, <2>1, <2>2, Zenon DEF FInv, FriendsTyped
<1>3. CASE plan.kind[e] = "accept"
  <2> DEFINE p == PairOf(e)
  <2>1. p \in Pairs
    BY PairOfEvent, Zenon DEF FInv
  <2>2. session' = [session EXCEPT ![p] = IF session[p] = NoEvent THEN e ELSE session[p]]
    BY <1>3, Zenon DEF Write, WriteFriend, CreateFriend
  <2> HIDE DEF p
  <2>3. /\ session' \in [Pairs -> Events \cup {NoEvent}]
        /\ session'[p] = IF session[p] = NoEvent THEN e ELSE session[p]
        /\ \A r \in Pairs : r # p => session'[r] = session[r]
    BY <1>1, <2>1, <2>2, Zenon DEF FInv, FriendsTyped
  <2>4. \A r \in Pairs : session'[r] # NoEvent => session'[r] \in written' /\ plan.kind[session'[r]] = "accept"
    BY <1>1, <1>3, <2>1, <2>3, Zenon DEF FInv, SessionsWritten
  <2>5. session'[p] # NoEvent
    BY <1>1, <2>3, UserRequestsAssumption, Zenon
  <2>6. ASSUME NEW d \in written', plan.kind[d] = "accept"
        PROVE  session'[PairOf(d)] # NoEvent
    <3>1. CASE d = e
      BY <2>5, <3>1, Zenon DEF p
    <3>2. CASE d # e
      <4>1. d \in written /\ session[PairOf(d)] # NoEvent
        BY <1>1, <2>6, <3>2, Zenon DEF FInv, SessionsWritten
      <4>2. PairOf(d) \in Pairs
        BY <1>1, <4>1, PairOfEvent, Zenon DEF FInv
      <4>3. QED
        BY <2>3, <2>5, <4>1, <4>2, Zenon
    <3>3. QED
      BY <3>1, <3>2, Zenon
  <2>7. SessionsWritten'
    BY <2>4, <2>6, Zenon DEF SessionsWritten, PairOf
  <2>8. QED
    BY <1>1, <2>3, <2>7, Zenon
<1>4. QED
  BY <1>2, <1>3, Zenon

\* A delivery goes on in its worker.
LEMMA MovesKeeps ==
    ASSUME FInv, NEW t \in task, NEW pc \in TaskPcs, NEW s \in Statuses, Moves(t, pc, s), Grows,
           UNCHANGED <<plan, posted, ready, settled, discarded, era>>,
           s = "SUCCESS" => Finished(t.queue, t.copy[1])'
    PROVE  task' \subseteq TaskType /\ NothingLost' /\ WorkDone' /\ SettledIsDone'
<1> DEFINE u == [t EXCEPT !.pc = pc, !.status = s]
<1>1. u \in TaskType /\ u.queue = t.queue /\ u.copy = t.copy /\ u.era = t.era /\ u.status = s
  <2>1. t \in TaskType
    BY Zenon DEF FInv, FriendsTyped
  <2>2. QED
    BY <2>1, Zenon DEF TaskType
<1>2. task' = (task \ {t}) \cup {u}
  BY Zenon DEF Moves
<1> HIDE DEF u
<1>3. task' \subseteq TaskType
  BY <1>1, <1>2, Zenon DEF FInv, FriendsTyped
<1>4. \A q \in Queues : Placed(q) \subseteq Placed(q)'
  BY <1>1, <1>2, Zenon DEF Placed, Live
<1>5. NothingLost'
  BY <1>4, PlacedKeeps, Zenon
<1>6. WorkDone'
  <2>1. SUFFICES ASSUME NEW v \in task', v.status = "SUCCESS"
                 PROVE  Finished(v.queue, v.copy[1])'
    BY Zenon DEF WorkDone
  <2>2. CASE v = u
    BY <1>1, <2>1, <2>2, Zenon
  <2>3. CASE v # u
    <3>1. Finished(v.queue, v.copy[1])
      BY <1>2, <2>1, <2>3, Zenon DEF FInv, WorkDone
    <3>2. QED
      BY <3>1, FinishedStays, Zenon
  <2>4. QED
    BY <2>2, <2>3, Zenon
<1>7. SettledIsDone'
  BY Zenon DEF FInv, SettledIsDone, Grows
<1>8. QED
  BY <1>3, <1>5, <1>6, <1>7, Zenon

\* The gateway: what is published is in the queues.
LEMMA PostedKeeps ==
    ASSUME FInv, UNCHANGED <<plan, task, era, settled, discarded, orphans, session, written, unwritten, pushed, offline>>,
           posted' \in [Events -> PostType], ready' \in [Queues -> SUBSET Copies],
           \A q \in Queues : ready[q] \subseteq ready'[q],
           \A e \in Events : posted'[e].pc = "published" =>
               posted'[e] = posted[e] \/ \A q \in plan.queues : <<e, posted'[e].try>> \in ready'[q]
    PROVE  FInv'
<1>1. FriendsTyped'
  BY Zenon DEF FInv, FriendsTyped
<1>2. NothingLost'
  <2>1. SUFFICES ASSUME NEW q \in plan.queues, NEW e \in Events, posted'[e].pc = "published"
                 PROVE  <<e, posted'[e].try>> \in Placed(q)'
    BY Zenon DEF NothingLost, Placed
  <2>2. q \in Queues
    BY Zenon DEF FInv, FriendsTyped, PlanOK
  <2>3. CASE posted'[e] = posted[e]
    <3>1. <<e, posted[e].try>> \in Placed(q)
      BY <2>1, <2>3, Zenon DEF FInv, NothingLost, Placed
    <3>2. Placed(q) \subseteq Placed(q)'
      BY <2>2, Zenon DEF Placed, Live
    <3>3. QED
      BY <2>3, <3>1, <3>2, Zenon
  <2>4. CASE posted'[e] # posted[e]
    BY <2>1, <2>4, Zenon DEF Placed
  <2>5. QED
    BY <2>3, <2>4, Zenon
<1>3. WorkDone'
  BY Zenon DEF FInv, WorkDone, Finished
<1>4. SettledIsDone'
  BY Zenon DEF FInv, SettledIsDone
<1>5. SessionsWritten'
  BY SessionsStay, Zenon
<1>6. QED
  BY <1>1, <1>2, <1>3, <1>4, <1>5, Zenon DEF FInv

\* A request moves on at the gateway.
LEMMA PostedMoves ==
    ASSUME FInv, NEW e \in Events, NEW pc \in PostPcs, Posted(e, pc)
    PROVE  /\ posted' \in [Events -> PostType]
           /\ posted'[e].pc = pc /\ posted'[e].try = posted[e].try
           /\ \A d \in Events : d # e => posted'[d] = posted[d]
BY Zenon DEF FInv, FriendsTyped, PostType, Posted

\* friend_request, friend_confirm and the session id that it waits for.
LEMMA GatewayKeeps ==
    ASSUME FInv, NEW e \in Events, FriendRequest(e) \/ FriendConfirm(e) \/ FlickClock(e)
    PROVE  FInv'
<1>1. UNCHANGED <<plan, task, era, settled, discarded, orphans, session, written, unwritten, pushed, offline, ready>>
  BY Zenon DEF FriendRequest, FriendConfirm, FlickClock, brokerVars, userVars, pushVars
<1>2. \E pc \in PostPcs \ {"published"} : Posted(e, pc)
  BY Zenon DEF FriendRequest, FriendConfirm, FlickClock, PostPcs
<1>3. PICK pc \in PostPcs \ {"published"} : Posted(e, pc)
  BY <1>2, Zenon
<1>4. /\ posted' \in [Events -> PostType] /\ posted'[e].pc = pc
      /\ \A d \in Events : d # e => posted'[d] = posted[d]
  BY <1>3, PostedMoves, Zenon
<1>5. ready' \in [Queues -> SUBSET Copies] /\ \A q \in Queues : ready[q] \subseteq ready'[q]
  BY <1>1, Zenon DEF FInv, FriendsTyped
<1>6. \A d \in Events : posted'[d].pc = "published" => posted'[d] = posted[d]
  BY <1>3, <1>4, Zenon
<1>7. QED
  BY <1>1, <1>4, <1>5, <1>6, PostedKeeps, Zenon

\* publish_friend_request, publish_friend_confirm
LEMMA PublishKeeps ==
    ASSUME FInv, NEW e \in Events, Publish(e)
    PROVE  FInv'
<1> DEFINE c == <<e, posted[e].try>>
<1>1. UNCHANGED <<plan, task, era, settled, discarded, orphans, session, written, unwritten, pushed, offline>>
  BY Zenon DEF Publish, brokerVars, userVars, pushVars
<1>2. c \in Copies /\ posted[e] \in PostType
  BY Zenon DEF FInv, FriendsTyped, PostType, Copies
<1> HIDE DEF c
<1>3. ASSUME Fanout(c) \/ ready' = ready
      PROVE  ready' \in [Queues -> SUBSET Copies] /\ \A q \in Queues : ready[q] \subseteq ready'[q]
  BY <1>2, <1>3, Zenon DEF FInv, FriendsTyped, Fanout
<1>4. CASE Posted(e, "published") /\ Fanout(c)
  <2>1. /\ posted' \in [Events -> PostType] /\ posted'[e].try = posted[e].try
        /\ \A d \in Events : d # e => posted'[d] = posted[d]
    BY <1>4, PostedMoves, Zenon DEF PostPcs
  <2>2. \A q \in plan.queues : c \in ready'[q]
    BY <1>4, Zenon DEF Fanout, FInv, FriendsTyped, PlanOK
  <2>3. \A d \in Events : posted'[d].pc = "published" =>
            posted'[d] = posted[d] \/ \A q \in plan.queues : <<d, posted'[d].try>> \in ready'[q]
    BY <2>1, <2>2, Zenon DEF c
  <2>4. QED
    BY <1>1, <1>3, <1>4, <2>1, <2>3, PostedKeeps, Zenon
<1>5. CASE NextTry(e) /\ (Fanout(c) \/ ready' = ready)
  <2>1. /\ posted' \in [Events -> PostType] /\ posted'[e].pc \in {"publishing", "lost"}
        /\ \A d \in Events : d # e => posted'[d] = posted[d]
    <3> DEFINE new == IF posted[e].try < Tries THEN [pc |-> "publishing", try |-> posted[e].try + 1]
                                               ELSE [posted[e] EXCEPT !.pc = "lost"]
    <3>1. new \in PostType /\ new.pc \in {"publishing", "lost"}
      <4>1. posted[e] \in PostType /\ posted[e].try \in 1 .. Tries
        BY <1>2, Zenon DEF PostType
      <4>2. CASE posted[e].try < Tries
        BY <4>1, <4>2, AnotherTry, Zenon DEF PostType, PostPcs
      <4>3. CASE ~(posted[e].try < Tries)
        BY <4>1, <4>3, Zenon DEF PostType, PostPcs
      <4>4. QED
        BY <4>2, <4>3, Zenon
    <3>2. posted' = [posted EXCEPT ![e] = new]
      BY <1>5, Zenon DEF NextTry
    <3> HIDE DEF new
    <3>3. QED
      BY <3>1, <3>2, Zenon DEF FInv, FriendsTyped
  <2>2. \A d \in Events : posted'[d].pc = "published" => posted'[d] = posted[d]
    BY <2>1, Zenon
  <2>3. QED
    BY <1>1, <1>3, <1>5, <2>1, <2>2, PostedKeeps, Zenon
<1>6. QED
  BY <1>4, <1>5, Zenon DEF Publish, c

\* The tasks that still publish are cancelled; what was published stays published.
LEMMA StopGatewayKeeps ==
    ASSUME FInv, StopGateway
    PROVE  FInv'
<1>1. UNCHANGED <<plan, task, era, settled, discarded, orphans, session, written, unwritten, pushed, offline, ready>>
  BY Zenon DEF StopGateway, brokerVars, userVars, pushVars
<1>2. /\ posted' \in [Events -> PostType]
      /\ \A e \in Events : posted'[e] = posted[e] \/ posted'[e].pc = "lost"
  BY Zenon DEF StopGateway, FInv, FriendsTyped, PostType, PostPcs
<1>3. ready' \in [Queues -> SUBSET Copies] /\ \A q \in Queues : ready[q] \subseteq ready'[q]
  BY <1>1, Zenon DEF FInv, FriendsTyped
<1>4. \A e \in Events : posted'[e].pc = "published" => posted'[e] = posted[e]
  BY <1>2, Zenon
<1>5. QED
  BY <1>1, <1>2, <1>3, <1>4, PostedKeeps, Zenon

\* The broker and the consumers: copies change their places.
LEMMA CopiesKeep ==
    ASSUME FInv, UNCHANGED <<plan, posted, orphans, session, written, unwritten, pushed, offline>>,
           ready' \in [Queues -> SUBSET Copies], settled' \in [Queues -> SUBSET Copies],
           discarded' \in [Queues -> SUBSET Copies], era' \in [Queues -> Nat],
           task' \subseteq TaskType, \A t \in task' : t \in task \/ t.status = "none",
           \A q \in Queues : \A c \in settled'[q] : c \in settled[q] \/ Finished(q, c[1]),
           \A q \in Queues : Placed(q) \subseteq Placed(q)'
    PROVE  FInv'
<1>1. FriendsTyped'
  BY Zenon DEF FInv, FriendsTyped
<1>2. NothingLost'
  BY PlacedKeeps, Zenon
<1>3. WorkDone'
  <2>1. SUFFICES ASSUME NEW t \in task', t.status = "SUCCESS"
                 PROVE  Finished(t.queue, t.copy[1])'
    BY Zenon DEF WorkDone
  <2>2. Finished(t.queue, t.copy[1])
    BY <2>1, Zenon DEF FInv, WorkDone
  <2>3. Grows
    BY Zenon DEF Grows
  <2>4. QED
    BY <2>2, <2>3, FinishedStays, Zenon
<1>4. SettledIsDone'
  <2>1. "psql" \in Queues /\ "push" \in Queues
    BY Zenon DEF Queues
  <2>2. \A c \in settled'["psql"] : c[1] \in written \cup unwritten
    BY <2>1, Zenon DEF FInv, SettledIsDone, Finished
  <2>3. \A c \in settled'["push"] : c[1] \in pushed \cup offline
    BY <2>1, Zenon DEF FInv, SettledIsDone, Finished
  <2>4. QED
    BY <2>2, <2>3, Zenon DEF SettledIsDone
<1>5. SessionsWritten'
  BY SessionsStay, Zenon
<1>6. QED
  BY <1>1, <1>2, <1>3, <1>4, <1>5, Zenon DEF FInv

\* on_consume: a copy goes from the queue to the worker, or away for good.
LEMMA OnConsumeKeeps ==
    ASSUME FInv, NEW q \in Queues, NEW c \in Copies, OnConsume(q, c)
    PROVE  FInv'
<1>1. UNCHANGED <<plan, posted, orphans, session, written, unwritten, pushed, offline, era, settled>>
  BY Zenon DEF OnConsume, userVars, pushVars
<1>2. /\ ready' \in [Queues -> SUBSET Copies] /\ ready'[q] = ready[q] \ {c}
      /\ \A r \in Queues : r # q => ready'[r] = ready[r]
  BY Zenon DEF OnConsume, FInv, FriendsTyped
<1>3. settled' \in [Queues -> SUBSET Copies] /\ era' \in [Queues -> Nat]
  BY <1>1, Zenon DEF FInv, FriendsTyped
<1>4. CASE /\ discarded' = [discarded EXCEPT ![q] = @ \cup {c}] /\ task' = task
  <2>1. /\ discarded' \in [Queues -> SUBSET Copies] /\ discarded'[q] = discarded[q] \cup {c}
        /\ \A r \in Queues : r # q => discarded'[r] = discarded[r]
    BY <1>4, Zenon DEF FInv, FriendsTyped
  <2>2. \A r \in Queues : Placed(r) \subseteq Placed(r)'
    BY <1>1, <1>2, <1>4, <2>1, ZenonT(30) DEF Placed, Live
  <2>3. task' \subseteq TaskType
    BY <1>4, Zenon DEF FInv, FriendsTyped
  <2>4. QED
    BY <1>1, <1>2, <1>3, <1>4, <2>1, <2>2, <2>3, CopiesKeep, Zenon
<1>5. CASE discarded' = discarded /\ \E pc \in {"queued", "stuck"} : task' = task \cup {Delivery(q, c, pc)}
  <2>1. PICK pc \in {"queued", "stuck"} : task' = task \cup {Delivery(q, c, pc)}
    BY <1>5, Zenon
  <2> DEFINE d == Delivery(q, c, pc)
  <2>2. d \in TaskType /\ d.queue = q /\ d.copy = c /\ d.era = era[q] /\ d.status = "none"
    BY Zenon DEF Delivery, TaskType, TaskPcs, Statuses, FInv, FriendsTyped
  <2>3. task' = task \cup {d}
    BY <2>1, Zenon
  <2> HIDE DEF d
  <2>4. discarded' \in [Queues -> SUBSET Copies] /\ task' \subseteq TaskType
    BY <1>5, <2>2, <2>3, Zenon DEF FInv, FriendsTyped
  <2>5. \A r \in Queues : Placed(r) \subseteq Placed(r)'
    <3>1. \A r \in Queues : Live(r) \subseteq Live(r)'
      BY <1>1, <2>3, Zenon DEF Live
    <3>2. d \in Live(q)'
      BY <1>1, <2>2, <2>3, Zenon DEF Live
    <3>3. c \in {t.copy : t \in Live(q)'}
      BY <2>2, <3>2, Zenon
    <3>4. QED
      BY <1>1, <1>2, <1>5, <3>1, <3>3, Zenon DEF Placed
  <2>6. QED
    BY <1>1, <1>2, <1>3, <2>2, <2>3, <2>4, <2>5, CopiesKeep, Zenon
<1>6. QED
  BY <1>4, <1>5, Zenon DEF OnConsume

\* The end of _handler: acknowledged when it is done, otherwise back in the queue.
LEMMA SettleKeeps ==
    ASSUME FInv, NEW t \in task, Settle(t)
    PROVE  FInv'
<1>1. UNCHANGED <<plan, posted, orphans, session, written, unwritten, pushed, offline, era, discarded>> /\ task' = task \ {t}
  BY Zenon DEF Settle, userVars, pushVars
<1>2. t.queue \in Queues /\ t.copy \in Copies
  BY Zenon DEF FInv, FriendsTyped, TaskType
<1>3. discarded' \in [Queues -> SUBSET Copies] /\ era' \in [Queues -> Nat] /\ task' \subseteq TaskType
  BY <1>1, Zenon DEF FInv, FriendsTyped
<1>4. /\ settled' \in [Queues -> SUBSET Copies] /\ ready' \in [Queues -> SUBSET Copies]
      /\ \A r \in Queues : settled[r] \subseteq settled'[r] /\ ready[r] \subseteq ready'[r]
      /\ t.era = era[t.queue] => t.copy \in settled'[t.queue] \cup ready'[t.queue]
      /\ \A q \in Queues : \A c \in settled'[q] : c \in settled[q] \/ (q = t.queue /\ c = t.copy /\ t.status = "SUCCESS")
  <2>1. settled \in [Queues -> SUBSET Copies] /\ ready \in [Queues -> SUBSET Copies]
    BY Zenon DEF FInv, FriendsTyped
  <2>2. CASE t.era # era[t.queue]
    BY <2>1, <2>2, Zenon DEF Settle, Ack, Reject
  <2>3. CASE t.era = era[t.queue] /\ t.status = "SUCCESS"
    <3>1. ready' = ready /\ settled' = [settled EXCEPT ![t.queue] = @ \cup {t.copy}]
      BY <2>3, Zenon DEF Settle, Ack
    <3>2. /\ settled' \in [Queues -> SUBSET Copies] /\ settled'[t.queue] = settled[t.queue] \cup {t.copy}
          /\ \A r \in Queues : r # t.queue => settled'[r] = settled[r]
      BY <1>2, <2>1, <3>1, Zenon
    <3>3. QED
      BY <1>2, <2>1, <2>3, <3>1, <3>2, Zenon
  <2>4. CASE t.era = era[t.queue] /\ t.status # "SUCCESS"
    <3>1. settled' = settled /\ ready' = [ready EXCEPT ![t.queue] = @ \cup {t.copy}]
      BY <2>4, Zenon DEF Settle, Reject
    <3>2. /\ ready' \in [Queues -> SUBSET Copies] /\ ready'[t.queue] = ready[t.queue] \cup {t.copy}
          /\ \A r \in Queues : r # t.queue => ready'[r] = ready[r]
      BY <1>2, <2>1, <3>1, Zenon
    <3>3. QED
      BY <1>2, <2>1, <2>4, <3>1, <3>2, Zenon
  <2>5. QED
    BY <2>2, <2>3, <2>4, Zenon
<1>6. t.status = "SUCCESS" => Finished(t.queue, t.copy[1])
  BY Zenon DEF FInv, WorkDone
<1>7. \A r \in Queues : Placed(r) \subseteq Placed(r)'
  <2>1. \A r \in Queues : \A d \in Live(r) : d \in Live(r)' \/ (d = t /\ r = t.queue /\ t.era = era[t.queue])
    BY <1>1, Zenon DEF Live
  <2>2. QED
    BY <1>1, <1>2, <1>4, <2>1, ZenonT(30) DEF Placed
<1>8. QED
  BY <1>1, <1>3, <1>4, <1>6, <1>7, CopiesKeep, Zenon

\* The channel is lost, or the consumer is stopped: its deliveries are in the queue again.
LEMMA RequeuedKeeps ==
    ASSUME FInv, NEW q \in Queues, LoseChannel(q) \/ CloseConsumer(q)
    PROVE  FInv'
<1>1. /\ UNCHANGED <<plan, posted, orphans, session, written, unwritten, pushed, offline, settled, discarded>>
      /\ task' \subseteq task /\ era' = [era EXCEPT ![q] = @ + 1] /\ Requeued(q)
  BY Zenon DEF LoseChannel, CloseConsumer, userVars, pushVars, brokerVars
<1>2. era' \in [Queues -> Nat] /\ \A r \in Queues : r # q => era'[r] = era[r]
  <2>1. era \in [Queues -> Nat]
    BY Zenon DEF FInv, FriendsTyped
  <2>2. era[q] + 1 \in Nat
    BY <2>1, CountUp, Zenon
  <2>3. QED
    BY <1>1, <2>1, <2>2, Zenon
<1>3. /\ settled' \in [Queues -> SUBSET Copies] /\ discarded' \in [Queues -> SUBSET Copies]
      /\ task' \subseteq TaskType
  BY <1>1, Zenon DEF FInv, FriendsTyped
<1>4. {t.copy : t \in Live(q)} \subseteq Copies
  BY Zenon DEF Live, FInv, FriendsTyped, TaskType
<1>5. /\ ready' \in [Queues -> SUBSET Copies] /\ ready'[q] = ready[q] \cup {t.copy : t \in Live(q)}
      /\ \A r \in Queues : r # q => ready'[r] = ready[r]
  BY <1>1, <1>4, Zenon DEF Requeued, FInv, FriendsTyped
<1>6. \A t \in task : t.queue # q => t \in task'
  BY Zenon DEF LoseChannel, CloseConsumer, Live
<1>7. ASSUME NEW r \in Queues PROVE Placed(r) \subseteq Placed(r)'
  <2>1. CASE r = q
    BY <1>1, <1>5, <2>1, Zenon DEF Placed
  <2>2. CASE r # q
    <3>1. Live(r) \subseteq Live(r)'
      BY <1>2, <1>6, <2>2, Zenon DEF Live
    <3>2. QED
      BY <1>1, <1>5, <2>2, <3>1, Zenon DEF Placed
  <2>3. QED
    BY <2>1, <2>2, Zenon
<1>8. QED
  BY <1>1, <1>2, <1>3, <1>5, <1>7, CopiesKeep, Zenon

\* A delivery goes on, and the tables keep what they promise.
LEMMA TaskKeeps ==
    ASSUME FInv, NEW t \in task, NEW pc \in TaskPcs, NEW s \in Statuses, Moves(t, pc, s), Grows,
           UNCHANGED <<plan, posted, ready, settled, discarded, era>>,
           s = "SUCCESS" => Finished(t.queue, t.copy[1])',
           orphans' \subseteq Events, written' \subseteq Events,
           session' \in [Pairs -> Events \cup {NoEvent}], SessionsWritten'
    PROVE  FInv'
<1>1. task' \subseteq TaskType /\ NothingLost' /\ WorkDone' /\ SettledIsDone'
  BY MovesKeeps, Zenon
<1>2. FriendsTyped'
  BY <1>1, Zenon DEF FInv, FriendsTyped
<1>3. QED
  BY <1>1, <1>2, Zenon DEF FInv

\* Steps of a delivery that do not touch the tables.
LEMMA QuietTaskKeeps ==
    ASSUME FInv, NEW t \in task, Take(t) \/ CallUserService(t) \/ CallLost(t) \/ UserOnlineCheck(t) \/ PushData(t)
    PROVE  FInv'
<1>1. t.queue \in Queues /\ t.copy[1] \in Events
  BY Zenon DEF FInv, FriendsTyped, TaskType, Copies
<1>2. UNCHANGED <<plan, posted, ready, settled, discarded, era, session, written, unwritten>>
  BY Zenon DEF Take, CallUserService, CallLost, UserOnlineCheck, PushData, gatewayVars, brokerVars, userVars
<1>3. Grows
  BY <1>2, Zenon DEF Take, CallUserService, CallLost, UserOnlineCheck, PushData, pushVars, Grows
<1>4. orphans' \subseteq Events
  BY <1>1, Zenon DEF Take, CallUserService, CallLost, UserOnlineCheck, PushData, userVars, FInv, FriendsTyped
<1>5. SessionsWritten' /\ written' \subseteq Events /\ session' \in [Pairs -> Events \cup {NoEvent}]
  BY <1>2, SessionsStay, Zenon DEF FInv, FriendsTyped
<1>6. \E pc \in TaskPcs, s \in Statuses : Moves(t, pc, s) /\ (s = "SUCCESS" => Finished(t.queue, t.copy[1])')
  <2>1. ASSUME Take(t) \/ CallUserService(t) \/ CallLost(t)
        PROVE  \E pc \in TaskPcs : Moves(t, pc, "none")
    BY <2>1, Zenon DEF Take, CallUserService, CallLost, TaskPcs
  <2>2. ASSUME UserOnlineCheck(t) \/ PushData(t)
        PROVE  \/ \E pc \in TaskPcs : Moves(t, pc, "none")
               \/ Moves(t, "answered", "SUCCESS") /\ t.queue = "push" /\ t.copy[1] \in pushed' \cup offline'
    BY <2>2, Zenon DEF UserOnlineCheck, PushData, TaskPcs
  <2>3. "none" \in Statuses /\ "SUCCESS" \in Statuses /\ "answered" \in TaskPcs /\ "none" # "SUCCESS"
    BY Zenon DEF Statuses, TaskPcs
  <2>4. t.queue = "push" /\ t.copy[1] \in pushed' \cup offline' => Finished(t.queue, t.copy[1])'
    BY Zenon DEF Finished
  <2>5. QED
    BY <2>1, <2>2, <2>3, <2>4, Zenon
<1>7. QED
  BY <1>2, <1>3, <1>4, <1>5, <1>6, TaskKeeps, Zenon

\* The user service answers.
LEMMA ServiceKeeps ==
    ASSUME FInv, NEW t \in task, AddFriend(t) \/ ConfirmFriend(t)
    PROVE  FInv'
<1>1. t.queue = "psql" /\ t.copy[1] \in Events
  BY Zenon DEF AddFriend, ConfirmFriend, Calling, FInv, FriendsTyped, TaskType, Copies
<1>2. UNCHANGED <<plan, posted, ready, settled, discarded, era, orphans, pushed, offline>>
  BY Zenon DEF AddFriend, ConfirmFriend, gatewayVars, brokerVars, pushVars
<1>3. orphans' \subseteq Events /\ "answered" \in TaskPcs /\ "SUCCESS" \in Statuses /\ "FAILED" \in Statuses
  BY <1>2, Zenon DEF FInv, FriendsTyped, TaskPcs, Statuses
<1>4. CASE Succeeds(t)
  <2>1. Write(t.copy[1]) /\ Moves(t, "answered", "SUCCESS") /\ unwritten' = unwritten
    BY <1>4, Zenon DEF Succeeds
  <2>2. /\ session' \in [Pairs -> Events \cup {NoEvent}] /\ written' \subseteq Events
        /\ written \subseteq written' /\ t.copy[1] \in written' /\ SessionsWritten'
    BY <1>1, <1>2, <2>1, WriteKeeps, Zenon
  <2>3. Grows /\ Finished(t.queue, t.copy[1])'
    BY <1>1, <1>2, <2>1, <2>2, Zenon DEF Grows, Finished
  <2>4. QED
    BY <1>2, <1>3, <2>1, <2>2, <2>3, TaskKeeps, Zenon
<1>5. CASE ~Succeeds(t)
  <2>1. /\ UNCHANGED <<session, written>> /\ unwritten \subseteq unwritten'
        /\ \/ Moves(t, "answered", "FAILED")
           \/ Moves(t, "answered", "SUCCESS") /\ t.copy[1] \in unwritten'
    BY <1>5, Zenon DEF AddFriend, ConfirmFriend, Refused
  <2>2. SessionsWritten' /\ written' \subseteq Events /\ session' \in [Pairs -> Events \cup {NoEvent}]
    BY <1>2, <2>1, SessionsStay, Zenon DEF FInv, FriendsTyped
  <2>3. Grows /\ (t.copy[1] \in unwritten' => Finished(t.queue, t.copy[1])')
    BY <1>1, <1>2, <2>1, Zenon DEF Grows, Finished
  <2>4. CASE Moves(t, "answered", "FAILED")
    BY <1>2, <1>3, <2>2, <2>3, <2>4, TaskKeeps, Zenon
  <2>5. CASE Moves(t, "answered", "SUCCESS") /\ t.copy[1] \in unwritten'
    BY <1>2, <1>3, <2>2, <2>3, <2>5, TaskKeeps, Zenon
  <2>6. QED
    BY <2>1, <2>4, <2>5, Zenon
<1>6. QED
  BY <1>4, <1>5, Zenon

\* A call that nobody waits for writes, or does not.
LEMMA OrphanKeeps ==
    ASSUME FInv, NEW e \in Events, OrphanEnds(e)
    PROVE  FInv'
<1>1. /\ UNCHANGED <<plan, posted, ready, settled, discarded, task, era, unwritten, pushed, offline>>
      /\ orphans' = orphans \ {e}
  BY Zenon DEF OrphanEnds, gatewayVars, brokerVars, pushVars
<1>2. /\ session' \in [Pairs -> Events \cup {NoEvent}] /\ written' \subseteq Events
      /\ written \subseteq written' /\ SessionsWritten'
  <2>1. CASE Write(e)
    BY <1>1, <2>1, WriteKeeps, Zenon
  <2>2. CASE UNCHANGED <<session, status, written>>
    BY <1>1, <2>2, SessionsStay, Zenon DEF FInv, FriendsTyped
  <2>3. QED
    BY <2>1, <2>2, Zenon DEF OrphanEnds
<1>3. Grows
  BY <1>1, <1>2, Zenon DEF Grows
<1>4. FriendsTyped'
  BY <1>1, <1>2, Zenon DEF FInv, FriendsTyped
<1>5. NothingLost'
  <2>1. \A q \in Queues : Placed(q) \subseteq Placed(q)'
    BY <1>1, Zenon DEF Placed, Live
  <2>2. QED
    BY <1>1, <2>1, PlacedKeeps, Zenon
<1>6. WorkDone'
  <2>1. \A t \in task : t.status = "SUCCESS" => Finished(t.queue, t.copy[1])'
    BY <1>3, FinishedStays, Zenon DEF FInv, WorkDone
  <2>2. QED
    BY <1>1, <2>1, Zenon DEF WorkDone
<1>7. SettledIsDone'
  BY <1>1, <1>2, Zenon DEF FInv, SettledIsDone
<1>8. QED
  BY <1>2, <1>4, <1>5, <1>6, <1>7, Zenon DEF FInv

\* Nothing the invariant is about changes.
LEMMA FriendsRest ==
    ASSUME FInv, UNCHANGED <<plan, posted, ready, task, era, settled, discarded, orphans, session, written, unwritten,
                             pushed, offline>>
    PROVE  FInv'
<1>1. FriendsTyped'
  BY Zenon DEF FInv, FriendsTyped
<1>2. NothingLost'
  <2>1. \A q \in Queues : Placed(q) \subseteq Placed(q)'
    BY Zenon DEF Placed, Live
  <2>2. QED
    BY <2>1, PlacedKeeps, Zenon
<1>3. WorkDone'
  BY Zenon DEF FInv, WorkDone, Finished
<1>4. SettledIsDone'
  BY Zenon DEF FInv, SettledIsDone
<1>5. SessionsWritten'
  BY SessionsStay, Zenon
<1>6. QED
  BY <1>1, <1>2, <1>3, <1>4, <1>5, Zenon DEF FInv

\* Every step keeps the friend events.
LEMMA FriendsStepInv ==
    ASSUME FInv, [FriendsNext]_friendVars
    PROVE  FInv'
<1>1. CASE UNCHANGED friendVars
  BY <1>1, FriendsRest, Zenon DEF friendVars
<1>2. ASSUME NEW e \in Events, GatewayStep(e) \/ OrphanEnds(e) PROVE FInv'
  BY <1>2, GatewayKeeps, PublishKeeps, OrphanKeeps, Zenon DEF GatewayStep
<1>3. ASSUME NEW q \in Queues, StopWorker(q) \/ StartWorker(q) PROVE FInv'
  BY <1>3, FriendsRest, Zenon DEF StopWorker, StartWorker, gatewayVars, brokerVars, userVars, pushVars
<1>4. ASSUME NEW t \in task, TaskStep(t) PROVE FInv'
  BY <1>4, QuietTaskKeeps, ServiceKeeps, SettleKeeps, Zenon DEF TaskStep
<1>5. QED
  BY <1>1, <1>2, <1>3, <1>4, OnConsumeKeeps, RequeuedKeeps, StopGatewayKeeps, Zenon DEF FriendsNext

\* At the start nothing was published or written.
LEMMA FriendsInitInv ==
    ASSUME FriendsInit, PlanOK(plan)
    PROVE  FInv
<1>1. FriendsTyped
  <2>1. posted \in [Events -> PostType]
    BY OneTry, Zenon DEF FriendsInit, PostType, PostPcs
  <2>2. /\ ready \in [Queues -> SUBSET Copies] /\ settled \in [Queues -> SUBSET Copies]
        /\ discarded \in [Queues -> SUBSET Copies] /\ era \in [Queues -> Nat]
    BY Zenon DEF FriendsInit
  <2>3. task \subseteq TaskType /\ orphans \subseteq Events /\ written \subseteq Events
    BY Zenon DEF FriendsInit
  <2>4. session \in [Pairs -> Events \cup {NoEvent}]
    BY Zenon DEF FriendsInit
  <2>5. QED
    BY <2>1, <2>2, <2>3, <2>4, Zenon DEF FriendsTyped
<1>2. NothingLost
  BY Zenon DEF FriendsInit, NothingLost
<1>3. WorkDone /\ SettledIsDone /\ SessionsWritten
  BY Zenon DEF FriendsInit, WorkDone, SettledIsDone, SessionsWritten, Queues
<1>4. QED
  BY <1>1, <1>2, <1>3, Zenon DEF FInv

\* The session of a pair is written once.
LEMMA SessionStep ==
    ASSUME FInv, FriendsNext, NEW p \in Pairs, session[p] # NoEvent
    PROVE  session'[p] = session[p]
<1>1. ASSUME NEW e, Write(e) PROVE session'[p] = session[p]
  <2>1. \/ session' = session
        \/ session' = [session EXCEPT ![PairOf(e)] = IF session[PairOf(e)] = NoEvent THEN e ELSE session[PairOf(e)]]
    BY <1>1, Zenon DEF Write, WriteRequest, WriteRefusal, WriteFriend, CreateFriend
  <2>2. QED
    BY <2>1, Zenon DEF FInv, FriendsTyped
<1>2. ASSUME NEW e \in Events, GatewayStep(e) \/ OrphanEnds(e) PROVE session'[p] = session[p]
  BY <1>1, <1>2, Zenon DEF GatewayStep, OrphanEnds, FriendRequest, FriendConfirm, FlickClock, Publish, userVars
<1>3. ASSUME NEW q \in Queues,
             (\E c \in Copies : OnConsume(q, c)) \/ LoseChannel(q) \/ StopWorker(q) \/ CloseConsumer(q) \/ StartWorker(q)
      PROVE  session'[p] = session[p]
  BY <1>3, Zenon DEF OnConsume, LoseChannel, StopWorker, CloseConsumer, StartWorker, userVars
<1>4. ASSUME NEW t \in task, TaskStep(t) PROVE session'[p] = session[p]
  <2>1. CASE AddFriend(t) \/ ConfirmFriend(t)
    BY <1>1, <2>1, Zenon DEF AddFriend, ConfirmFriend, Succeeds, Refused
  <2>2. CASE ~(AddFriend(t) \/ ConfirmFriend(t))
    BY <1>4, <2>2, Zenon DEF TaskStep, Take, CallUserService, CallLost, UserOnlineCheck, PushData, Settle, userVars
  <2>3. QED
    BY <2>1, <2>2, Zenon
<1>5. QED
  BY <1>2, <1>3, <1>4, Zenon DEF FriendsNext, StopGateway, userVars

-----------------------------------------------------------------------------
(* The requests *)

\* The pool of the user service, side by side with the limiters and the friend events of
\* the gateway, keeps the invariant of the pool.
THEOREM RequestsKeepPool == Spec => []PInv
<1>1. Init => PInv
  BY PoolInitInv, Zenon DEF Init
<1>2. [Next]_vars => [PoolNext]_poolVars
  BY Zenon DEF Next, vars
<1>3. PInv /\ [PoolNext]_poolVars => PInv'
  BY PoolStepInv, Zenon
<1>4. QED
  BY <1>1, <1>2, <1>3, PTL DEF Spec

\* acquire, hand-over and release never give one connection to two handlers; no
\* connection of an open pool is lost, whatever fails or gives up, and `_used` is exact;
\* whoever waits beside a free connection began to wait while one was in transit; and
\* close() leaves no connection behind but those that were being bound meanwhile.
THEOREM PoolCorrect == Spec => []PoolIsKept
<1>1. PInv => OneHolder /\ ConnectionsAccounted
  BY Zenon DEF PInv
<1>2. PInv => IdleOnlyIfUnsure
  BY Zenon DEF PInv, SureWaiters, IdleOnlyIfUnsure
<1>3. PInv => CloseReleasesAll
  BY Zenon DEF PInv, BoundIsKnown, CloseReleasesAll
<1>4. PInv => PoolIsKept
  BY <1>1, <1>2, <1>3, Zenon DEF PoolIsKept
<1>5. QED
  BY <1>4, RequestsKeepPool, PTL

\* So do the friend events, side by side with the pool and the limiters.
THEOREM RequestsKeepFriends == Spec => []FInv
<1>1. Init => FInv
  <2>1. Init => FriendsInit /\ PlanOK(plan)
    BY UserRequestsAssumption, Zenon DEF Init, PlanOK
  <2>2. QED
    BY <2>1, FriendsInitInv, Zenon
<1>2. [Next]_vars => [FriendsNext]_friendVars
  BY Zenon DEF Next, vars
<1>3. FInv /\ [FriendsNext]_friendVars => FInv'
  BY FriendsStepInv, Zenon
<1>4. QED
  BY <1>1, <1>2, <1>3, PTL DEF Spec

\* Whatever calls, channels, workers and publications fail: an event the gateway
\* published is in its queue, at the worker on the present channel, settled or
\* discarded; it is acknowledged only when it was written or pushed, or reported so
\* without a connection; and the session id a client was told is the session of the
\* pair, unless another accepting answer came first.
THEOREM EventsCorrect == Spec => []EventsKept
<1>1. ASSUME FInv PROVE ToldIsSession
  <2>1. SUFFICES ASSUME NEW e \in written, plan.kind[e] = "accept", session[PairOf(e)] # e
                 PROVE  \E d \in written \ {e} : plan.kind[d] = "accept" /\ session[PairOf(e)] = d
    BY Zenon DEF ToldIsSession
  <2>2. PairOf(e) \in Pairs /\ session[PairOf(e)] # NoEvent
    BY <1>1, <2>1, PairOfEvent, Zenon DEF FInv, FriendsTyped, SessionsWritten
  <2>3. QED
    BY <1>1, <2>1, <2>2, Zenon DEF FInv, SessionsWritten
<1>2. FInv => EventsKept
  BY <1>1, Zenon DEF FInv, EventsKept
<1>3. QED
  BY <1>2, RequestsKeepFriends, PTL

\* create_friend.sql under answers that are delivered twice, executed late and sent by
\* both sides: the session of a pair never changes once it is written.
THEOREM SessionCorrect == Spec => SessionKept
<1>1. [Next]_vars => [FriendsNext]_friendVars
  BY Zenon DEF Next, vars
<1>2. FInv /\ [FriendsNext]_friendVars =>
          [\A p \in Pairs : session[p] # NoEvent => session'[p] = session[p]]_friendVars
  BY SessionStep, Zenon
<1>3. QED
  BY <1>1, <1>2, RequestsKeepFriends, PTL DEF Spec, SessionKept
=============================================================================
