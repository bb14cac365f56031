------------------------- MODULE MessagePacerProofs -------------------------
(***************************************************************************)
(* The pacer for every number of processes, messages and repetitions, and  *)
(* whatever Redis does: the lock has one holder, an id is new once, and    *)
(* the watermark passes only ids that somebody was told to handle.         *)
(***************************************************************************)
EXTENDS MessagePacer, WellFoundedInduction, TLAPS

\* A stream holds finitely many messages: there is a largest id.
Bounded(s) == \E n \in Nat : \A m \in DOMAIN s.ids : s.ids[m] <= n

\* Senders number their messages from 1.
SetupOK(s) ==
    /\ s.members \subseteq Consumers
    /\ DOMAIN s.ids \subseteq Offsets
    /\ \A m \in DOMAIN s.ids : s.ids[m] \in Nat \ {0}
    /\ Bounded(s)

PacerAssumption == \A s \in Setups : SetupOK(s)

Pcs == {"idle", "wait", "get", "got", "handling", "setwait", "set", "done"}
Verdicts == {"none", "new", "dup", "old", "retry"}
Effects == {"set", "undo", "del"} \X Nat

PacerTyped ==
    /\ SetupOK(setup)
    /\ next \in [Consumers -> Nat]
    /\ ids \in [Consumers -> SUBSET Ids]
    /\ lock \in [Consumers -> Seq(Offsets)]
    /\ call \in [Consumers -> [Offsets -> Pcs]]
    /\ verdict \in [Consumers -> [Offsets -> Verdicts]]
    /\ target \in [Consumers -> [Offsets -> Nat]]
    /\ redis \in Nat
    /\ late \in [Consumers -> SUBSET Effects]

\* Redis is asked only while the pacer is not set up, and its answer is at least 1;
\* until then no id is remembered.
Fresh ==
    \A w \in Consumers :
        /\ next[w] = 0 => ids[w] = {}
        /\ \A m \in Offsets : call[w][m] \in {"get", "got"} => next[w] = 0
        /\ \A m \in Offsets : call[w][m] = "got" => target[w][m] > 0

\* A new item is remembered as long as its process lives.
Remembered == \A w \in Consumers : \A m \in Published : verdict[w][m] = "new" => DeliveryId(m) \in ids[w]

\* What a pacer remembers, and what is being handled, was claimed.
Claims ==
    \A w \in Consumers :
        /\ ids[w] \subseteq claimed
        /\ \A m \in Published : call[w][m] = "handling" => DeliveryId(m) \in claimed

\* A task that waits for the lock is in its queue.
Queued ==
    \A w \in Consumers, m \in Offsets :
        call[w][m] \in {"wait", "setwait"} => \E i \in 1 .. Len(lock[w]) : lock[w][i] = m

PacerInv == PacerTyped /\ LockExcludes /\ Queued /\ Fresh /\ Remembered /\ NewItemOnce /\ Claims /\ WatermarkIsClaimed

-----------------------------------------------------------------------------
(* The gap that the loop of on_handled_new_item finds *)

\* A set of naturals has a least one.
LEMMA LeastNatural ==
    ASSUME NEW T \in SUBSET Nat, T # {}
    PROVE  \E x \in T : \A y \in T : x <= y
<1> DEFINE R == {ss \in Nat \X Nat : ss[1] < ss[2]}
<1>1. OpToRel(<, Nat) = R
  BY Zenon DEF OpToRel
<1>2. IsWellFoundedOn(R, Nat)
  BY <1>1, NatLessThanWellFounded, Zenon
<1>3. PICK x \in T : \A y \in T : ~ (<<y, x>> \in R)
  BY <1>2, WFMin, Zenon
<1>4. \A y \in T : ~ (y < x)
  BY <1>3, Zenon
<1>5. QED
  BY <1>4

\* The loop ends at the first id from d on that is not remembered.
LEMMA GapFound ==
    ASSUME NEW S \in SUBSET Nat, NEW d \in Nat, NEW n \in Nat, \A j \in S : j <= n
    PROVE  /\ NextGap(S, d) \in Nat /\ NextGap(S, d) >= d
           /\ \A j \in d .. NextGap(S, d) - 1 : j \in S
<1> DEFINE T == {k \in Nat : k >= d /\ k \notin S}
<1>1. d + n + 1 \in T
  OBVIOUS
<1>2. PICK k \in T : \A j \in T : k <= j
  <2>1. T \in SUBSET Nat /\ T # {}
    BY <1>1
  <2>2. QED
    BY <2>1, LeastNatural, Zenon
<1>3. \A j \in d .. k - 1 : j \in S
  BY <1>2
<1>4. k \in {d} \cup {j + 1 : j \in S}
  <2>1. CASE k = d
    BY <2>1
  <2>2. CASE k # d
    <3>1. k - 1 \in d .. k - 1 /\ k = (k - 1) + 1
      BY <1>2, <2>2
    <3>2. QED
      BY <1>3, <3>1
  <2>3. QED
    BY <2>1, <2>2
<1>5. \E x \in {d} \cup {j + 1 : j \in S} : x >= d /\ x \notin S /\ \A j \in d .. x - 1 : j \in S
  BY <1>2, <1>3, <1>4
<1>6. /\ NextGap(S, d) \in {d} \cup {j + 1 : j \in S} /\ NextGap(S, d) >= d
      /\ \A j \in d .. NextGap(S, d) - 1 : j \in S
  BY <1>5, Zenon DEF NextGap
<1>7. QED
  BY <1>6

-----------------------------------------------------------------------------
(* What a step does to the entries of one task *)

\* The task of m in process w goes on at pc; the others stay where they are.
Moved(w, m, pc) ==
    /\ call' \in [Consumers -> [Offsets -> Pcs]]
    /\ call'[w][m] = pc
    /\ \A v \in Consumers, n \in Offsets : v # w \/ n # m => call'[v][n] = call[v][n]

\* It is told verdict x.
Told(w, m, x) ==
    /\ verdict' \in [Consumers -> [Offsets -> Verdicts]]
    /\ verdict'[w][m] = x
    /\ \A v \in Consumers, n \in Offsets : v # w \/ n # m => verdict'[v][n] = verdict[v][n]
    /\ ids' \in [Consumers -> SUBSET Ids]
    /\ ids'[w] = IF x = "new" THEN ids[w] \cup {DeliveryId(m)} ELSE ids[w]
    /\ \A v \in Consumers \ {w} : ids'[v] = ids[v]
    /\ claimed' = IF x \in {"new", "retry"} THEN claimed \cup {DeliveryId(m)} ELSE claimed

\* Delivery ids are positive, and members are processes.
LEMMA PublishedFacts ==
    ASSUME PacerTyped
    PROVE  /\ Published \subseteq Offsets
           /\ \A m \in Published : DeliveryId(m) \in Ids
           /\ \A d \in Ids : d \in Nat /\ d > 0
           /\ setup.members \subseteq Consumers
BY DEF PacerTyped, SetupOK, Ids, DeliveryId, Published

\* Goto moves one task.
LEMMA GotoMoves ==
    ASSUME PacerTyped, NEW w \in Consumers, NEW m \in Offsets, NEW pc \in Pcs, Goto(w, m, pc)
    PROVE  Moved(w, m, pc)
BY Zenon DEF PacerTyped, Goto, Moved

\* An answer moves the task on and records the verdict.
LEMMA AnswerTells ==
    ASSUME PacerTyped, NEW w \in Consumers, NEW m \in Published, NEW x \in Verdicts, Answer(w, m, x)
    PROVE  Told(w, m, x) /\ Moved(w, m, IF x \in {"new", "retry"} THEN "handling" ELSE "done")
<1>1. m \in Offsets /\ DeliveryId(m) \in Ids
  BY PublishedFacts, Zenon
<1>2. Moved(w, m, IF x \in {"new", "retry"} THEN "handling" ELSE "done")
  <2> DEFINE pc == IF x \in {"new", "retry"} THEN "handling" ELSE "done"
  <2>1. pc \in Pcs /\ Goto(w, m, pc)
    BY Zenon DEF Answer, Pcs
  <2> HIDE DEF pc
  <2>2. Moved(w, m, pc)
    BY <1>1, <2>1, GotoMoves, Zenon
  <2>3. QED
    BY <2>2, Zenon DEF pc
<1>3. /\ verdict' \in [Consumers -> [Offsets -> Verdicts]]
      /\ verdict'[w][m] = x
      /\ \A v \in Consumers, n \in Offsets : v # w \/ n # m => verdict'[v][n] = verdict[v][n]
  BY <1>1, Zenon DEF Answer, PacerTyped
<1>4. /\ ids' \in [Consumers -> SUBSET Ids]
      /\ ids'[w] = IF x = "new" THEN ids[w] \cup {DeliveryId(m)} ELSE ids[w]
      /\ \A v \in Consumers \ {w} : ids'[v] = ids[v]
  BY <1>1, Zenon DEF Answer, PacerTyped
<1>5. QED
  BY <1>2, <1>3, <1>4, Zenon DEF Told, Answer

-----------------------------------------------------------------------------
(* The steps *)

\* A verdict that does not call an id new twice keeps what the pacer remembers.
LEMMA ToldKeeps ==
    ASSUME PacerInv, NEW w \in Consumers, NEW m \in Published, NEW x \in Verdicts, Told(w, m, x),
           Moved(w, m, IF x \in {"new", "retry"} THEN "handling" ELSE "done"),
           x = "new" => DeliveryId(m) \notin ids[w], UNCHANGED setup
    PROVE  Remembered' /\ NewItemOnce' /\ Claims'
<1>1. Published' = Published /\ Published \subseteq Offsets /\ \A n \in Published : DeliveryId(n)' = DeliveryId(n)
  BY PublishedFacts, Zenon DEF PacerInv, Published, DeliveryId
<1>2. Remembered'
  BY <1>1 DEF PacerInv, Remembered, Told
<1>3. NewItemOnce'
  BY <1>1 DEF PacerInv, Remembered, NewItemOnce, Told
<1>4. claimed \subseteq claimed'
  BY Zenon DEF Told
<1>5. \A v \in Consumers : ids'[v] \subseteq claimed'
  BY <1>4, Zenon DEF PacerInv, Claims, Told
<1>6. \A v \in Consumers, n \in Published : call'[v][n] = "handling" => DeliveryId(n) \in claimed'
  <2>1. SUFFICES ASSUME NEW v \in Consumers, NEW n \in Published, call'[v][n] = "handling"
                 PROVE  DeliveryId(n) \in claimed'
    BY Zenon
  <2>2. CASE v = w /\ n = m
    BY <1>1, <2>1, <2>2, Zenon DEF Told, Moved
  <2>3. CASE v # w \/ n # m
    BY <1>1, <1>4, <2>1, <2>3, Zenon DEF PacerInv, Claims, Moved
  <2>4. QED
    BY <2>2, <2>3, Zenon
<1>7. Claims'
  BY <1>1, <1>5, <1>6, Zenon DEF Claims
<1>8. QED
  BY <1>2, <1>3, <1>7, Zenon

\* A step without a verdict keeps it too.
LEMMA MovedKeeps ==
    ASSUME PacerInv, NEW w \in Consumers, NEW m \in Offsets, NEW pc \in Pcs, pc # "handling", Moved(w, m, pc),
           UNCHANGED <<setup, verdict, ids, claimed>>
    PROVE  Remembered' /\ NewItemOnce' /\ Claims'
<1>1. Published' = Published /\ Published \subseteq Offsets /\ \A n \in Published : DeliveryId(n)' = DeliveryId(n)
  BY PublishedFacts, Zenon DEF PacerInv, Published, DeliveryId
<1>2. Remembered' /\ NewItemOnce'
  BY <1>1 DEF PacerInv, Remembered, NewItemOnce
<1>3. \A v \in Consumers, n \in Offsets : call'[v][n] = "handling" => call[v][n] = "handling"
  BY Zenon DEF Moved
<1>4. Claims'
  BY <1>1, <1>3, Zenon DEF PacerInv, Claims
<1>5. QED
  BY <1>2, <1>4, Zenon

\* The lock is taken, or queued for.
LEMMA AppendKeepsLock ==
    ASSUME PacerInv, NEW w \in Consumers, NEW m \in Offsets, NEW pc \in Pcs, Moved(w, m, pc),
           lock' = [lock EXCEPT ![w] = Append(@, m)],
           pc \in IF lock[w] = << >> THEN {"get", "set"} ELSE {"wait", "setwait"}
    PROVE  LockExcludes' /\ Queued' /\ lock' \in [Consumers -> Seq(Offsets)]
<1>1. lock \in [Consumers -> Seq(Offsets)]
  BY Zenon DEF PacerInv, PacerTyped
<1>2. /\ lock' \in [Consumers -> Seq(Offsets)] /\ lock'[w] = Append(lock[w], m)
      /\ \A v \in Consumers \ {w} : lock'[v] = lock[v]
  BY <1>1
<1>3. /\ Len(lock[w]) \in Nat /\ Len(lock'[w]) = Len(lock[w]) + 1 /\ lock'[w][Len(lock[w]) + 1] = m
      /\ \A i \in 1 .. Len(lock[w]) : lock'[w][i] = lock[w][i]
      /\ lock'[w] # << >>
      /\ lock[w] = << >> => Head(lock'[w]) = m
      /\ lock[w] # << >> => Head(lock'[w]) = Head(lock[w])
  BY <1>1, <1>2
<1>4. LockExcludes'
  BY <1>2, <1>3 DEF PacerInv, LockExcludes, Moved
<1>5. Queued'
  BY <1>2, <1>3 DEF PacerInv, Queued, Moved
<1>6. QED
  BY <1>2, <1>4, <1>5, Zenon

\* The lock is given back by its holder.
LEMMA ReleaseKeepsLock ==
    ASSUME PacerInv, NEW w \in Consumers, NEW m \in Offsets, NEW pc \in {"handling", "done"}, Moved(w, m, pc),
           lock[w] # << >>, Head(lock[w]) = m, ReleaseLock(w)
    PROVE  LockExcludes' /\ Queued' /\ lock' \in [Consumers -> Seq(Offsets)]
<1>1. lock \in [Consumers -> Seq(Offsets)]
  BY Zenon DEF PacerInv, PacerTyped
<1>2. /\ lock' \in [Consumers -> Seq(Offsets)] /\ lock'[w] = Tail(lock[w])
      /\ \A v \in Consumers \ {w} : lock'[v] = lock[v]
  BY <1>1 DEF ReleaseLock
<1>3. \A n \in Offsets \ {m} : call[w][n] \notin {"get", "got", "set"}
  BY Zenon DEF PacerInv, LockExcludes
<1>4. LockExcludes'
  <2>1. ASSUME NEW v \in Consumers, NEW n \in Offsets, call'[v][n] \in {"get", "got", "set"}
        PROVE  v # w /\ call'[v][n] = call[v][n]
    BY <1>3, <2>1, Zenon DEF Moved
  <2>2. QED
    BY <1>2, <2>1, Zenon DEF PacerInv, LockExcludes
<1>5. Queued'
  <2>1. /\ Len(lock[w]) \in Nat \ {0} /\ lock[w][1] = m /\ Len(lock'[w]) = Len(lock[w]) - 1
        /\ \A i \in 2 .. Len(lock[w]) : lock'[w][i - 1] = lock[w][i]
    BY <1>1, <1>2
  <2>2. ASSUME NEW n \in Offsets, n # m, \E i \in 1 .. Len(lock[w]) : lock[w][i] = n
        PROVE  \E i \in 1 .. Len(lock'[w]) : lock'[w][i] = n
    <3>1. PICK i \in 1 .. Len(lock[w]) : lock[w][i] = n
      BY <2>2, Zenon
    <3>2. i \in 2 .. Len(lock[w]) /\ i - 1 \in 1 .. Len(lock'[w])
      BY <2>1, <2>2, <3>1
    <3>3. QED
      BY <2>1, <3>1, <3>2, Zenon
  <2>3. ASSUME NEW v \in Consumers, NEW n \in Offsets, call'[v][n] \in {"wait", "setwait"}
        PROVE  (v # w \/ n # m) /\ \E i \in 1 .. Len(lock[v]) : lock[v][i] = n
    BY <2>3 DEF PacerInv, Queued, Moved
  <2>4. ASSUME NEW v \in Consumers, NEW n \in Offsets, call'[v][n] \in {"wait", "setwait"}
        PROVE  \E i \in 1 .. Len(lock'[v]) : lock'[v][i] = n
    <3>1. CASE v = w
      BY <2>2, <2>3, <2>4, <3>1, Zenon
    <3>2. CASE v # w
      BY <1>2, <2>3, <2>4, <3>2
    <3>3. QED
      BY <3>1, <3>2, Zenon
  <2>5. QED
    BY <2>4, Zenon DEF Queued
<1>6. QED
  BY <1>2, <1>4, <1>5, Zenon

\* The lock stays as it is; who talks to Redis holds it.
LEMMA StayKeepsLock ==
    ASSUME PacerInv, NEW w \in Consumers, NEW m \in Offsets, NEW pc \in Pcs, Moved(w, m, pc), UNCHANGED lock,
           \/ pc \in {"handling", "done"}
           \/ pc \in {"get", "got", "set"} /\ lock[w] # << >> /\ Head(lock[w]) = m
    PROVE  LockExcludes' /\ Queued'
BY DEF PacerInv, LockExcludes, Queued, Moved

\* Who waits and sees itself at the head has the lock.
LEMMA HeadHolds ==
    ASSUME PacerInv, NEW w \in Consumers, NEW m \in Offsets, call[w][m] \in {"wait", "setwait"}
    PROVE  lock[w] # << >>
<1>1. PICK i \in 1 .. Len(lock[w]) : lock[w][i] = m
  BY Zenon DEF PacerInv, Queued
<1>2. QED
  BY <1>1 DEF PacerInv, PacerTyped

\* What a step of the task of m that goes on at pc may do to the lock.
LockStep(w, m, pc) ==
    \/ /\ lock' = lock
       /\ \/ pc \in {"handling", "done"}
          \/ pc \in {"get", "got", "set"} /\ lock[w] # << >> /\ Head(lock[w]) = m
    \/ ReleaseLock(w) /\ pc \in {"handling", "done"} /\ lock[w] # << >> /\ Head(lock[w]) = m
    \/ /\ lock' = [lock EXCEPT ![w] = Append(@, m)]
       /\ pc \in IF lock[w] = << >> THEN {"get", "set"} ELSE {"wait", "setwait"}

\* Whichever it is, the lock stays exclusive.
LEMMA LockStepKeeps ==
    ASSUME PacerInv, NEW w \in Consumers, NEW m \in Offsets, NEW pc \in Pcs, Moved(w, m, pc), LockStep(w, m, pc)
    PROVE  LockExcludes' /\ Queued' /\ lock' \in [Consumers -> Seq(Offsets)]
<1>1. CASE /\ UNCHANGED lock
           /\ \/ pc \in {"handling", "done"}
              \/ pc \in {"get", "got", "set"} /\ lock[w] # << >> /\ Head(lock[w]) = m
  <2>1. LockExcludes' /\ Queued'
    BY <1>1, StayKeepsLock, Zenon
  <2>2. QED
    BY <1>1, <2>1, Zenon DEF PacerInv, PacerTyped
<1>2. CASE ReleaseLock(w) /\ pc \in {"handling", "done"} /\ lock[w] # << >> /\ Head(lock[w]) = m
  BY <1>2, ReleaseKeepsLock, Zenon
<1>3. CASE /\ lock' = [lock EXCEPT ![w] = Append(@, m)]
           /\ pc \in IF lock[w] = << >> THEN {"get", "set"} ELSE {"wait", "setwait"}
  BY <1>3, AppendKeepsLock, Zenon
<1>4. QED
  BY <1>1, <1>2, <1>3, Zenon DEF LockStep

-----------------------------------------------------------------------------
(* The watermark *)

\* What the invariant says of each copy of the watermark.
LEMMA WatermarkNow ==
    ASSUME WatermarkIsClaimed
    PROVE  \A d \in Ids :
              /\ d < redis => d \in claimed
              /\ \A v \in Consumers :
                    /\ d < next[v] => d \in claimed
                    /\ \A n \in Offsets : d < target[v][n] => d \in claimed
                    /\ \A e \in late[v] : d < e[2] => d \in claimed
BY Zenon DEF WatermarkIsClaimed

\* It is enough to look at the copies that a step changes.
LEMMA WatermarkThen ==
    ASSUME UNCHANGED setup,
           \A d \in Ids :
              /\ d < redis' => d \in claimed'
              /\ \A v \in Consumers :
                    /\ d < next'[v] => d \in claimed'
                    /\ \A n \in Offsets : d < target'[v][n] => d \in claimed'
                    /\ \A e \in late'[v] : d < e[2] => d \in claimed'
    PROVE  WatermarkIsClaimed'
<1>1. Ids' = Ids
  BY Zenon DEF Ids, DeliveryId, Published
<1>2. QED
  BY <1>1, Zenon DEF WatermarkIsClaimed

\* A step that changes no copy keeps them all.
LEMMA WatermarkStays ==
    ASSUME WatermarkIsClaimed, UNCHANGED <<setup, next, target, redis, late>>, claimed \subseteq claimed'
    PROVE  WatermarkIsClaimed'
BY WatermarkNow, WatermarkThen, Zenon

-----------------------------------------------------------------------------
(* The actions *)

\* filter_or_not answers without touching the watermark.
LEMMA AnswerStep ==
    ASSUME PacerInv, NEW w \in Consumers, NEW m \in Published, NEW x \in Verdicts, Answer(w, m, x),
           x = "new" => DeliveryId(m) \notin ids[w] /\ next[w] # 0,
           \/ UNCHANGED lock
           \/ ReleaseLock(w) /\ lock[w] # << >> /\ Head(lock[w]) = m,
           UNCHANGED <<setup, next, target, redis, late>>
    PROVE  PacerInv'
<1> DEFINE pc == IF x \in {"new", "retry"} THEN "handling" ELSE "done"
<1>1. m \in Offsets /\ pc \in Pcs /\ pc \in {"handling", "done"}
  BY PublishedFacts, Zenon DEF PacerInv, Pcs
<1>2. Told(w, m, x) /\ Moved(w, m, pc)
  BY AnswerTells, Zenon DEF PacerInv
<1>3. Remembered' /\ NewItemOnce' /\ Claims'
  BY <1>2, ToldKeeps, Zenon
<1>4. claimed \subseteq claimed'
  BY <1>2, Zenon DEF Told
<1>5. WatermarkIsClaimed'
  BY <1>4, WatermarkStays, Zenon DEF PacerInv
<1> HIDE DEF pc
<1>6. LockExcludes' /\ Queued' /\ lock' \in [Consumers -> Seq(Offsets)]
  <2>1. CASE UNCHANGED lock
    <3>1. LockExcludes' /\ Queued'
      BY <1>1, <1>2, <2>1, StayKeepsLock, Zenon
    <3>2. QED
      BY <2>1, <3>1, Zenon DEF PacerInv, PacerTyped
  <2>2. CASE ReleaseLock(w) /\ lock[w] # << >> /\ Head(lock[w]) = m
    BY <1>1, <1>2, <2>2, ReleaseKeepsLock, Zenon
  <2>3. QED
    BY <2>1, <2>2, Zenon
<1>7. PacerTyped'
  <2>1. Ids' = Ids
    BY Zenon DEF Ids, DeliveryId, Published
  <2>2. QED
    BY <1>2, <1>6, <2>1 DEF PacerInv, PacerTyped, Told, Moved, SetupOK
<1>8. Fresh'
  <2>1. \A v \in Consumers : next'[v] = 0 => ids'[v] = {}
    BY <1>2, Zenon DEF PacerInv, Fresh, Told
  <2>2. ASSUME NEW v \in Consumers, NEW n \in Offsets, call'[v][n] \in {"get", "got"}
        PROVE  call'[v][n] = call[v][n]
    BY <1>1, <1>2, <2>2, Zenon DEF Moved
  <2>3. QED
    BY <2>1, <2>2, Zenon DEF PacerInv, Fresh
<1>9. QED
  BY <1>3, <1>5, <1>6, <1>7, <1>8, Zenon DEF PacerInv

\* A task goes on without a verdict.
LEMMA GotoStep ==
    ASSUME PacerInv, NEW w \in Consumers, NEW m \in Published, NEW pc \in Pcs, Goto(w, m, pc), pc \notin {"handling", "got"},
           pc = "get" => next[w] = 0, LockStep(w, m, pc),
           UNCHANGED <<setup, next, ids, verdict, target, claimed>>,
           redis' \in Nat, late' \in [Consumers -> SUBSET Effects],
           \A d \in Ids : /\ d < redis' => d \in claimed
                          /\ \A v \in Consumers : \A e \in late'[v] : d < e[2] => d \in claimed
    PROVE  PacerInv'
<1>1. m \in Offsets
  BY PublishedFacts, Zenon DEF PacerInv
<1>2. Moved(w, m, pc)
  BY <1>1, GotoMoves, Zenon DEF PacerInv
<1>3. Remembered' /\ NewItemOnce' /\ Claims'
  BY <1>1, <1>2, MovedKeeps, Zenon
<1>4. LockExcludes' /\ Queued' /\ lock' \in [Consumers -> Seq(Offsets)]
  BY <1>1, <1>2, LockStepKeeps, Zenon
<1>5. WatermarkIsClaimed'
  BY WatermarkNow, WatermarkThen, Zenon DEF PacerInv
<1>6. PacerTyped'
  <2>1. Ids' = Ids
    BY Zenon DEF Ids, DeliveryId, Published
  <2>2. QED
    BY <1>2, <1>4, <2>1 DEF PacerInv, PacerTyped, Moved, SetupOK
<1>7. Fresh'
  BY <1>1, <1>2, Zenon DEF PacerInv, Fresh, Moved
<1>8. QED
  BY <1>3, <1>4, <1>5, <1>6, <1>7, Zenon DEF PacerInv

\* filter_or_not up to its first await.
LEMMA FilterOrNotKeeps ==
    ASSUME PacerInv, NEW w \in Consumers, NEW m \in Published, FilterOrNot(w, m)
    PROVE  PacerInv'
<1>1. m \in Offsets /\ DeliveryId(m) \in Nat /\ next[w] \in Nat
  BY PublishedFacts, Zenon DEF PacerInv, PacerTyped
<1>2. CASE next[w] > 0
  <2> DEFINE x == Judge(w, m, next[w])
  <2>1. x \in Verdicts /\ (x = "new" => DeliveryId(m) \notin ids[w])
    BY <1>1 DEF Judge, Verdicts
  <2>2. Answer(w, m, x) /\ UNCHANGED <<lock, setup, next, target, redis, late>>
    BY <1>2, Zenon DEF FilterOrNot
  <2> HIDE DEF x
  <2>3. next[w] # 0
    BY <1>2
  <2>4. QED
    BY <2>1, <2>2, <2>3, AnswerStep, Zenon
<1>3. CASE ~(next[w] > 0)
  <2> DEFINE pc == IF lock[w] = << >> THEN "get" ELSE "wait"
  <2>1. pc \in Pcs /\ pc \notin {"handling", "got"} /\ next[w] = 0
    BY <1>1, <1>3 DEF Pcs
  <2>2. Goto(w, m, pc) /\ UNCHANGED <<setup, next, ids, verdict, target, redis, late, claimed>>
    BY <1>3, Zenon DEF FilterOrNot
  <2>3. LockStep(w, m, pc)
    BY <1>3, Zenon DEF FilterOrNot, LockStep
  <2> HIDE DEF pc
  <2>4. redis' \in Nat /\ late' \in [Consumers -> SUBSET Effects]
    BY <2>2, Zenon DEF PacerInv, PacerTyped
  <2>5. \A d \in Ids : /\ d < redis' => d \in claimed
                       /\ \A v \in Consumers : \A e \in late'[v] : d < e[2] => d \in claimed
    BY <2>2, WatermarkNow, Zenon DEF PacerInv
  <2>6. QED
    BY <2>1, <2>2, <2>3, <2>4, <2>5, GotoStep, Zenon
<1>4. QED
  BY <1>2, <1>3, Zenon

\* The lock arrives in filter_or_not.
LEMMA LockForFilterKeeps ==
    ASSUME PacerInv, NEW w \in Consumers, NEW m \in Published, LockForFilter(w, m)
    PROVE  PacerInv'
<1>1. m \in Offsets /\ DeliveryId(m) \in Nat /\ next[w] \in Nat
  BY PublishedFacts, Zenon DEF PacerInv, PacerTyped
<1>2. lock[w] # << >> /\ Head(lock[w]) = m
  BY <1>1, HeadHolds, Zenon DEF LockForFilter
<1>3. CASE next[w] > 0
  <2> DEFINE x == Judge(w, m, 0)
  <2>1. x \in Verdicts /\ (x = "new" => DeliveryId(m) \notin ids[w])
    BY <1>1 DEF Judge, Verdicts
  <2>2. Answer(w, m, x) /\ ReleaseLock(w) /\ UNCHANGED <<setup, next, target, redis, late>>
    BY <1>3, Zenon DEF LockForFilter
  <2> HIDE DEF x
  <2>3. next[w] # 0
    BY <1>3
  <2>4. QED
    BY <1>2, <2>1, <2>2, <2>3, AnswerStep, Zenon
<1>4. CASE ~(next[w] > 0)
  <2>1. next[w] = 0 /\ "get" \in Pcs
    BY <1>1, <1>4 DEF Pcs
  <2>2. Goto(w, m, "get") /\ UNCHANGED <<setup, next, ids, lock, verdict, target, redis, late, claimed>>
    BY <1>4, Zenon DEF LockForFilter
  <2>3. LockStep(w, m, "get")
    BY <1>2, <2>2, Zenon DEF LockStep
  <2>4. redis' \in Nat /\ late' \in [Consumers -> SUBSET Effects]
    BY <2>2, Zenon DEF PacerInv, PacerTyped
  <2>5. \A d \in Ids : /\ d < redis' => d \in claimed
                       /\ \A v \in Consumers : \A e \in late'[v] : d < e[2] => d \in claimed
    BY <2>2, WatermarkNow, Zenon DEF PacerInv
  <2>6. QED
    BY <2>1, <2>2, <2>3, <2>4, <2>5, GotoStep, Zenon
<1>5. QED
  BY <1>3, <1>4, Zenon

\* The lock arrives in on_handled_new_item.
LEMMA LockForSetKeeps ==
    ASSUME PacerInv, NEW w \in Consumers, NEW m \in Published, LockForSet(w, m)
    PROVE  PacerInv'
<1>1. m \in Offsets
  BY PublishedFacts, Zenon DEF PacerInv
<1>2. lock[w] # << >> /\ Head(lock[w]) = m /\ "set" \in Pcs
  BY <1>1, HeadHolds, Zenon DEF LockForSet, Pcs
<1>3. Goto(w, m, "set") /\ UNCHANGED <<setup, next, ids, lock, verdict, target, redis, late, claimed>>
  BY Zenon DEF LockForSet
<1>4. LockStep(w, m, "set")
  BY <1>2, <1>3, Zenon DEF LockStep
<1>5. redis' \in Nat /\ late' \in [Consumers -> SUBSET Effects]
  BY <1>3, Zenon DEF PacerInv, PacerTyped
<1>6. \A d \in Ids : /\ d < redis' => d \in claimed
                     /\ \A v \in Consumers : \A e \in late'[v] : d < e[2] => d \in claimed
  BY <1>3, WatermarkNow, Zenon DEF PacerInv
<1>7. QED
  BY <1>2, <1>3, <1>4, <1>5, <1>6, GotoStep, Zenon

\* redis_set, confirmed or not.
LEMMA SetKeeps ==
    ASSUME PacerInv, NEW w \in Consumers, NEW m \in Published, SetReply(w, m) \/ SetFailed(w, m)
    PROVE  PacerInv'
<1>1. m \in Offsets /\ "done" \in Pcs /\ target[w][m] \in Nat
  BY PublishedFacts DEF PacerInv, PacerTyped, Pcs
<1>2. lock[w] # << >> /\ Head(lock[w]) = m
  BY <1>1, Zenon DEF PacerInv, LockExcludes, SetReply, SetFailed
<1>3. Goto(w, m, "done") /\ ReleaseLock(w) /\ UNCHANGED <<setup, next, ids, verdict, target, claimed>>
  BY Zenon DEF SetReply, SetFailed
<1>4. LockStep(w, m, "done")
  BY <1>2, <1>3, Zenon DEF LockStep
<1>5. redis' \in {redis, target[w][m]}
  BY Zenon DEF SetReply, SetFailed
<1>6. \E X \in SUBSET {<<"set", target[w][m]>>, <<"undo", target[w][m]>>} : late' = [late EXCEPT ![w] = @ \cup X]
  <2>1. late = [late EXCEPT ![w] = @ \cup {}]
    BY Zenon DEF PacerInv, PacerTyped
  <2>2. QED
    BY <2>1, Zenon DEF SetReply, SetFailed
<1>7. PICK X \in SUBSET {<<"set", target[w][m]>>, <<"undo", target[w][m]>>} : late' = [late EXCEPT ![w] = @ \cup X]
  BY <1>6, Zenon
<1>8. \A e \in X : e \in Effects /\ e[2] = target[w][m]
  BY <1>1, <1>7 DEF Effects
<1>9. /\ late' \in [Consumers -> SUBSET Effects]
      /\ \A v \in Consumers : \A e \in late'[v] : e \in late[v] \/ e[2] = target[w][m]
  BY <1>7, <1>8, Zenon DEF PacerInv, PacerTyped
<1>10. redis' \in Nat
  BY <1>1, <1>5, Zenon DEF PacerInv, PacerTyped
<1>11. \A d \in Ids : /\ d < redis' => d \in claimed
                      /\ \A v \in Consumers : \A e \in late'[v] : d < e[2] => d \in claimed
  BY <1>1, <1>5, <1>9, WatermarkNow DEF PacerInv
<1>12. QED
  BY <1>1, <1>3, <1>4, <1>9, <1>10, <1>11, GotoStep, Zenon

\* Redis reads the key.
LEMMA RedisGetKeeps ==
    ASSUME PacerInv, NEW w \in Consumers, NEW m \in Published, RedisGet(w, m)
    PROVE  PacerInv'
<1> DEFINE r == IF redis = 0 THEN 1 ELSE redis
<1>1. m \in Offsets /\ "got" \in Pcs /\ "got" # "handling"
  BY PublishedFacts, Zenon DEF PacerInv, Pcs
<1>2. UNCHANGED <<setup, next, ids, lock, verdict, redis, late, claimed>> /\ call[w][m] = "get"
  BY Zenon DEF RedisGet
<1>3. Moved(w, m, "got")
  BY <1>1, GotoMoves, Zenon DEF PacerInv, RedisGet
<1>4. r \in Nat /\ r > 0
  BY DEF PacerInv, PacerTyped
<1>5. /\ target' \in [Consumers -> [Offsets -> Nat]] /\ target'[w][m] = r
      /\ \A v \in Consumers, n \in Offsets : v # w \/ n # m => target'[v][n] = target[v][n]
  BY <1>1, <1>4, Zenon DEF PacerInv, PacerTyped, RedisGet
<1>6. \A d \in Ids : d < r => d \in claimed
  BY WatermarkNow, PublishedFacts DEF PacerInv
<1> HIDE DEF r
<1>7. Remembered' /\ NewItemOnce' /\ Claims'
  BY <1>1, <1>2, <1>3, MovedKeeps, Zenon
<1>8. LockExcludes' /\ Queued'
  BY <1>1, <1>2, <1>3, StayKeepsLock, Zenon DEF PacerInv, LockExcludes
<1>9. WatermarkIsClaimed'
  BY <1>1, <1>2, <1>5, <1>6, WatermarkNow, WatermarkThen, Zenon DEF PacerInv
<1>10. PacerTyped'
  <2>1. Ids' = Ids
    BY <1>2, Zenon DEF Ids, DeliveryId, Published
  <2>2. QED
    BY <1>2, <1>3, <1>5, <2>1 DEF PacerInv, PacerTyped, Moved, SetupOK
<1>11. Fresh'
  BY <1>1, <1>2, <1>3, <1>4, <1>5, ZenonT(30) DEF PacerInv, Fresh, Moved
<1>12. QED
  BY <1>7, <1>8, <1>9, <1>10, <1>11, Zenon DEF PacerInv

\* The reply of redis_get sets the pacer up.
LEMMA GetReplyKeeps ==
    ASSUME PacerInv, NEW w \in Consumers, NEW m \in Published, GetReply(w, m)
    PROVE  PacerInv'
<1> DEFINE x == IF DeliveryId(m) < target[w][m] THEN "old" ELSE "new"
           pc == IF x \in {"new", "retry"} THEN "handling" ELSE "done"
<1>1. m \in Offsets /\ x \in Verdicts /\ pc \in {"handling", "done"} /\ pc \in Pcs
  BY PublishedFacts, Zenon DEF PacerInv, Verdicts, Pcs
<1>2. Told(w, m, x) /\ Moved(w, m, pc)
  BY <1>1, AnswerTells, Zenon DEF PacerInv, GetReply
<1>3. UNCHANGED <<setup, target, redis, late>> /\ ReleaseLock(w) /\ call[w][m] = "got"
  BY Zenon DEF GetReply
<1>4. next[w] = 0 /\ ids[w] = {} /\ target[w][m] \in Nat /\ target[w][m] > 0
  BY <1>1, <1>3, Zenon DEF PacerInv, Fresh, PacerTyped
<1>5. /\ next' \in [Consumers -> Nat] /\ next'[w] = target[w][m]
      /\ \A v \in Consumers \ {w} : next'[v] = next[v]
  BY <1>4, Zenon DEF GetReply, PacerInv, PacerTyped
<1>6. Remembered' /\ NewItemOnce' /\ Claims'
  BY <1>1, <1>2, <1>3, <1>4, ToldKeeps, Zenon
<1>7. claimed \subseteq claimed'
  BY <1>2, Zenon DEF Told
<1>8. lock[w] # << >> /\ Head(lock[w]) = m /\ \A n \in Offsets \ {m} : call[w][n] \notin {"get", "got"}
  BY <1>1, <1>3 DEF PacerInv, LockExcludes
<1> HIDE DEF x, pc
<1>9. LockExcludes' /\ Queued' /\ lock' \in [Consumers -> Seq(Offsets)]
  BY <1>1, <1>2, <1>3, <1>8, ReleaseKeepsLock, Zenon
<1>10. WatermarkIsClaimed'
  BY <1>1, <1>3, <1>5, <1>7, WatermarkNow, WatermarkThen, Zenon DEF PacerInv
<1>11. PacerTyped'
  <2>1. Ids' = Ids
    BY <1>3, Zenon DEF Ids, DeliveryId, Published
  <2>2. QED
    BY <1>2, <1>3, <1>5, <1>9, <2>1 DEF PacerInv, PacerTyped, Told, Moved, SetupOK
<1>12. Fresh'
  <2>1. ASSUME NEW v \in Consumers, NEW n \in Offsets, call'[v][n] \in {"get", "got"}
        PROVE  v # w /\ call'[v][n] = call[v][n]
    BY <1>1, <1>2, <1>8, <2>1, Zenon DEF Moved
  <2>2. \A v \in Consumers : next'[v] = 0 => ids'[v] = {}
    BY <1>2, <1>4, <1>5 DEF PacerInv, Fresh, Told
  <2>3. QED
    BY <1>3, <1>5, <2>1, <2>2 DEF PacerInv, Fresh
<1>13. QED
  BY <1>6, <1>9, <1>10, <1>11, <1>12, Zenon DEF PacerInv

\* redis_get fails.
LEMMA GetFailedKeeps ==
    ASSUME PacerInv, NEW w \in Consumers, NEW m \in Published, GetFailed(w, m)
    PROVE  PacerInv'
<1>1. m \in Offsets /\ "retry" \in Verdicts
  BY PublishedFacts, Zenon DEF PacerInv, Verdicts
<1>2. lock[w] # << >> /\ Head(lock[w]) = m
  BY <1>1, Zenon DEF PacerInv, LockExcludes, GetFailed
<1>3. Answer(w, m, "retry") /\ ReleaseLock(w) /\ UNCHANGED <<setup, next, target, redis, late>>
  BY Zenon DEF GetFailed
<1>4. QED
  BY <1>1, <1>2, <1>3, AnswerStep, Zenon

\* The loop leaves ids that the pacer remembers behind it.
LEMMA GapAbove ==
    ASSUME PacerInv, NEW w \in Consumers, NEW m \in Published
    PROVE  /\ NextGap(ids[w], DeliveryId(m) + 1) \in Nat
           /\ NextGap(ids[w], DeliveryId(m) + 1) > DeliveryId(m)
           /\ \A j \in DeliveryId(m) + 1 .. NextGap(ids[w], DeliveryId(m) + 1) - 1 : j \in ids[w]
<1> DEFINE n == NextGap(ids[w], DeliveryId(m) + 1)
<1>1. ids[w] \in SUBSET Ids /\ Ids \subseteq Nat
  BY PublishedFacts, Zenon DEF PacerInv, PacerTyped
<1>2. PICK b \in Nat : \A j \in Ids : j <= b
  BY ZenonT(30) DEF PacerInv, PacerTyped, SetupOK, Bounded, Ids, DeliveryId, Published
<1>3. ids[w] \in SUBSET Nat /\ \A j \in ids[w] : j <= b
  BY <1>1, <1>2, Zenon
<1>4. DeliveryId(m) \in Nat /\ DeliveryId(m) + 1 \in Nat
  BY PublishedFacts DEF PacerInv
<1> HIDE DEF n
<1>5. /\ n \in Nat /\ n >= DeliveryId(m) + 1
      /\ \A j \in DeliveryId(m) + 1 .. n - 1 : j \in ids[w]
  BY <1>2, <1>3, <1>4, GapFound, Zenon DEF n
<1>6. QED
  BY <1>4, <1>5 DEF n

\* A handled item at the watermark: the loop moves it past ids that are all remembered.
LEMMA WatermarkMovesKeeps ==
    ASSUME PacerInv, NEW w \in Consumers, NEW m \in Published, OnHandledNewItem(w, m), DeliveryId(m) = next[w]
    PROVE  PacerInv'
<1> DEFINE n == NextGap(ids[w], DeliveryId(m) + 1)
           pc == IF lock[w] = << >> THEN "set" ELSE "setwait"
<1>1. /\ m \in Offsets /\ DeliveryId(m) \in Ids /\ DeliveryId(m) \in Nat /\ DeliveryId(m) > 0
      /\ pc \in Pcs /\ pc \notin {"handling", "get", "got"}
  BY PublishedFacts, Zenon DEF PacerInv, Pcs
<1>2. UNCHANGED <<setup, ids, verdict, redis, late, claimed>> /\ call[w][m] = "handling"
  BY Zenon DEF OnHandledNewItem
<1>3. /\ n \in Nat /\ n > DeliveryId(m)
      /\ \A j \in DeliveryId(m) + 1 .. n - 1 : j \in ids[w]
  BY GapAbove, Zenon
<1>4. \A d \in Ids : d < n => d \in claimed
  <2>1. \A d \in Ids : d \in Nat
    BY PublishedFacts, Zenon DEF PacerInv
  <2>2. ids[w] \subseteq claimed /\ DeliveryId(m) \in claimed
    BY <1>2, Zenon DEF PacerInv, Claims
  <2>3. \A d \in Ids : d < DeliveryId(m) => d \in claimed
    BY WatermarkNow, Zenon DEF PacerInv
  <2> HIDE DEF n
  <2>4. QED
    BY <1>1, <1>3, <2>1, <2>2, <2>3
<1>5. Moved(w, m, pc)
  BY <1>1, GotoMoves, Zenon DEF PacerInv, OnHandledNewItem
<1>6. /\ next' \in [Consumers -> Nat] /\ next'[w] = n
      /\ \A v \in Consumers \ {w} : next'[v] = next[v]
  <2>1. next' = [next EXCEPT ![w] = n]
    BY Zenon DEF OnHandledNewItem
  <2> HIDE DEF n
  <2>2. QED
    BY <1>3, <2>1, Zenon DEF PacerInv, PacerTyped
<1>7. /\ target' \in [Consumers -> [Offsets -> Nat]] /\ target'[w][m] = n
      /\ \A v \in Consumers, k \in Offsets : v # w \/ k # m => target'[v][k] = target[v][k]
  <2>1. target' = [target EXCEPT ![w][m] = n]
    BY Zenon DEF OnHandledNewItem
  <2> HIDE DEF n
  <2>2. QED
    BY <1>1, <1>3, <2>1, Zenon DEF PacerInv, PacerTyped
<1>8. LockStep(w, m, pc)
  BY Zenon DEF OnHandledNewItem, LockStep
<1> HIDE DEF n, pc
<1>9. Remembered' /\ NewItemOnce' /\ Claims'
  BY <1>1, <1>2, <1>5, MovedKeeps, Zenon
<1>10. LockExcludes' /\ Queued' /\ lock' \in [Consumers -> Seq(Offsets)]
  BY <1>1, <1>5, <1>8, LockStepKeeps, Zenon
<1>11. WatermarkIsClaimed'
  BY <1>1, <1>2, <1>4, <1>6, <1>7, WatermarkNow, WatermarkThen DEF PacerInv
<1>12. PacerTyped'
  <2>1. Ids' = Ids
    BY <1>2, Zenon DEF Ids, DeliveryId, Published
  <2>2. QED
    BY <1>2, <1>5, <1>6, <1>7, <1>10, <2>1 DEF PacerInv, PacerTyped, Moved, SetupOK
<1>13. Fresh'
  <2>1. \A k \in Offsets : call[w][k] \notin {"get", "got"}
    BY <1>1 DEF PacerInv, Fresh
  <2>2. ASSUME NEW v \in Consumers, NEW k \in Offsets, call'[v][k] \in {"get", "got"}
        PROVE  v # w /\ call'[v][k] = call[v][k]
    BY <1>1, <1>5, <2>1, <2>2, Zenon DEF Moved
  <2>3. \A v \in Consumers : next'[v] = 0 => ids'[v] = {}
    BY <1>1, <1>2, <1>3, <1>6 DEF PacerInv, Fresh
  <2>4. QED
    BY <1>6, <1>7, <2>2, <2>3 DEF PacerInv, Fresh
<1>14. QED
  BY <1>9, <1>10, <1>11, <1>12, <1>13, Zenon DEF PacerInv

\* Any other handled item leaves the watermark alone.
LEMMA OnHandledKeeps ==
    ASSUME PacerInv, NEW w \in Consumers, NEW m \in Published, OnHandledNewItem(w, m)
    PROVE  PacerInv'
<1>1. CASE DeliveryId(m) = next[w]
  BY <1>1, WatermarkMovesKeeps, Zenon
<1>2. CASE DeliveryId(m) # next[w]
  <2>1. /\ Goto(w, m, "done") /\ "done" \in Pcs
        /\ UNCHANGED <<setup, next, ids, lock, verdict, target, redis, late, claimed>>
    BY <1>2, Zenon DEF OnHandledNewItem, Pcs
  <2>2. LockStep(w, m, "done")
    BY <2>1, Zenon DEF LockStep
  <2>3. redis' \in Nat /\ late' \in [Consumers -> SUBSET Effects]
    BY <2>1, Zenon DEF PacerInv, PacerTyped
  <2>4. \A d \in Ids : /\ d < redis' => d \in claimed
                       /\ \A v \in Consumers : \A e \in late'[v] : d < e[2] => d \in claimed
    BY <2>1, WatermarkNow, Zenon DEF PacerInv
  <2>5. QED
    BY <2>1, <2>2, <2>3, <2>4, GotoStep, Zenon
<1>3. QED
  BY <1>1, <1>2, Zenon

\* A failed write is applied after all, or undone.
LEMMA LateEffectKeeps ==
    ASSUME PacerInv, NEW w \in Consumers, LateEffect(w)
    PROVE  PacerInv'
<1>1. PICK e \in late[w] :
          /\ redis' = IF e[1] = "del" THEN 0 ELSE e[2]
          /\ late' = [late EXCEPT ![w] = (@ \ {e}) \cup IF e[1] = "undo" THEN {<<"del", 0>>} ELSE {}]
  BY Zenon DEF LateEffect
<1>2. UNCHANGED <<setup, next, ids, lock, call, verdict, target, claimed>>
  BY Zenon DEF LateEffect
<1>3. e \in Effects /\ e[2] \in Nat /\ <<"del", 0>> \in Effects
  BY <1>1 DEF PacerInv, PacerTyped, Effects
<1>4. redis' \in Nat /\ redis' \in {0, e[2]}
  BY <1>1, <1>3, Zenon
<1>5. /\ late' \in [Consumers -> SUBSET Effects]
      /\ \A v \in Consumers : \A f \in late'[v] : f \in late[v] \/ f = <<"del", 0>>
  BY <1>1, <1>3, Zenon DEF PacerInv, PacerTyped
<1>6. Published' = Published /\ Ids' = Ids /\ \A m \in Published : DeliveryId(m)' = DeliveryId(m)
  BY <1>2, Zenon DEF Ids, DeliveryId, Published
<1>7. WatermarkIsClaimed'
  <2>1. \A d \in Ids : d \in Nat /\ d > 0
    BY PublishedFacts, Zenon DEF PacerInv
  <2>2. \A d \in Ids : d < redis' => d \in claimed
    BY <1>1, <1>4, <2>1, WatermarkNow DEF PacerInv
  <2>3. \A d \in Ids : \A v \in Consumers : \A f \in late'[v] : d < f[2] => d \in claimed
    BY <1>5, <2>1, WatermarkNow DEF PacerInv
  <2>4. QED
    BY <1>2, <2>2, <2>3, WatermarkNow, WatermarkThen, Zenon DEF PacerInv
<1>8. PacerTyped'
  BY <1>2, <1>4, <1>5, <1>6, Zenon DEF PacerInv, PacerTyped, SetupOK
<1>9. LockExcludes' /\ Queued' /\ Fresh'
  BY <1>2 DEF PacerInv, LockExcludes, Queued, Fresh
<1>10. Remembered' /\ NewItemOnce' /\ Claims'
  BY <1>2, <1>6 DEF PacerInv, Remembered, NewItemOnce, Claims
<1>11. QED
  BY <1>7, <1>8, <1>9, <1>10, Zenon DEF PacerInv

\* The process dies and starts with an empty pacer.
LEMMA PacerDiesKeeps ==
    ASSUME PacerInv, NEW w \in Consumers, PacerDies(w)
    PROVE  PacerInv'
<1>1. UNCHANGED <<setup, claimed>> /\ (redis' = redis \/ \E m \in Offsets : redis' = target[w][m])
  BY Zenon DEF PacerDies
<1>2. Published' = Published /\ Ids' = Ids /\ \A m \in Published : DeliveryId(m)' = DeliveryId(m)
  BY <1>1, Zenon DEF Ids, DeliveryId, Published
<1>3. /\ call' \in [Consumers -> [Offsets -> Pcs]]
      /\ \A m \in Offsets : call'[w][m] = "idle"
      /\ \A v \in Consumers \ {w} : call'[v] = call[v]
  BY Zenon DEF PacerInv, PacerTyped, Pcs, PacerDies
<1>4. /\ verdict' \in [Consumers -> [Offsets -> Verdicts]]
      /\ \A m \in Offsets : verdict'[w][m] = "none"
      /\ \A v \in Consumers \ {w} : verdict'[v] = verdict[v]
  BY Zenon DEF PacerInv, PacerTyped, Verdicts, PacerDies
<1>5. /\ target' \in [Consumers -> [Offsets -> Nat]]
      /\ \A m \in Offsets : target'[w][m] = 0
      /\ \A v \in Consumers \ {w} : target'[v] = target[v]
  BY Zenon DEF PacerInv, PacerTyped, PacerDies
<1>6. /\ next' \in [Consumers -> Nat] /\ next'[w] = 0 /\ \A v \in Consumers \ {w} : next'[v] = next[v]
      /\ ids' \in [Consumers -> SUBSET Ids] /\ ids'[w] = {} /\ \A v \in Consumers \ {w} : ids'[v] = ids[v]
  BY Zenon DEF PacerInv, PacerTyped, PacerDies
<1>7. /\ lock' \in [Consumers -> Seq(Offsets)] /\ \A v \in Consumers \ {w} : lock'[v] = lock[v]
      /\ late' \in [Consumers -> SUBSET Effects] /\ late'[w] = {} /\ \A v \in Consumers \ {w} : late'[v] = late[v]
  BY DEF PacerInv, PacerTyped, PacerDies
<1>8. PacerTyped'
  <2>1. redis' \in Nat
    BY <1>1 DEF PacerInv, PacerTyped
  <2>2. SetupOK(setup)'
    BY <1>1, Zenon DEF PacerInv, PacerTyped, SetupOK
  <2>3. QED
    BY <1>2, <1>3, <1>4, <1>5, <1>6, <1>7, <2>1, <2>2, Zenon DEF PacerTyped
<1>9. LockExcludes' /\ Queued'
  <2>1. ASSUME NEW v \in Consumers, NEW m \in Offsets, call'[v][m] # "idle"
        PROVE  call'[v][m] = call[v][m] /\ lock'[v] = lock[v]
    BY <1>3, <1>7, <2>1, Zenon
  <2>2. LockExcludes'
    BY <2>1 DEF PacerInv, LockExcludes
  <2>3. Queued'
    BY <2>1 DEF PacerInv, Queued
  <2>4. QED
    BY <2>2, <2>3, Zenon
<1>10. Fresh'
  BY <1>3, <1>5, <1>6, SMTT(30) DEF PacerInv, Fresh
<1>11. Remembered' /\ NewItemOnce' /\ Claims'
  <2>1. Published \subseteq Offsets
    BY PublishedFacts, Zenon DEF PacerInv
  <2>2. Remembered'
    BY <1>2, <1>4, <1>6, <2>1 DEF PacerInv, Remembered
  <2>3. NewItemOnce'
    BY <1>2, <1>4, <2>1 DEF PacerInv, NewItemOnce
  <2>4. Claims'
    BY <1>1, <1>2, <1>3, <1>6, <2>1 DEF PacerInv, Claims
  <2>5. QED
    BY <2>2, <2>3, <2>4, Zenon
<1>12. WatermarkIsClaimed'
  <2>2. \A d \in Ids : d \in Nat /\ d > 0
    BY PublishedFacts, Zenon DEF PacerInv
  <2>3. \A d \in Ids : \A v \in Consumers : d < next'[v] => d \in claimed
    BY <1>6, <2>2, WatermarkNow DEF PacerInv
  <2>4. \A d \in Ids : \A v \in Consumers : \A m \in Offsets : d < target'[v][m] => d \in claimed
    BY <1>5, <2>2, WatermarkNow DEF PacerInv
  <2>5. \A d \in Ids : \A v \in Consumers : \A e \in late'[v] : d < e[2] => d \in claimed
    BY <1>7, WatermarkNow, Zenon DEF PacerInv
  <2>6. \A d \in Ids : d < redis' => d \in claimed
    BY <1>1, WatermarkNow, Zenon DEF PacerInv
  <2>7. QED
    BY <1>1, <2>3, <2>4, <2>5, <2>6, WatermarkThen, Zenon DEF PacerInv
<1>13. QED
  BY <1>8, <1>9, <1>10, <1>11, <1>12, Zenon DEF PacerInv

\* Every step keeps the invariant.
LEMMA PacerKeeps ==
    ASSUME PacerInv, PacerNext
    PROVE  PacerInv'
<1>1. PICK w \in setup.members : (\E m \in Published : PacerStep(w, m)) \/ LateEffect(w) \/ PacerDies(w)
  BY Zenon DEF PacerNext
<1>2. w \in Consumers
  BY PublishedFacts, Zenon DEF PacerInv
<1>3. CASE \E m \in Published : PacerStep(w, m)
  BY <1>2, <1>3, FilterOrNotKeeps, LockForFilterKeeps, RedisGetKeeps, GetReplyKeeps, GetFailedKeeps,
     OnHandledKeeps, LockForSetKeeps, SetKeeps, Zenon DEF PacerStep
<1>4. QED
  BY <1>1, <1>2, <1>3, LateEffectKeeps, PacerDiesKeeps, Zenon

\* While its process lives, a pacer's watermark never moves back.
LEMMA NextAscends ==
    ASSUME PacerInv, PacerNext, crashes \in Nat, crashes' = crashes
    PROVE  \A v \in Consumers : next'[v] >= next[v]
<1>1. PICK w \in setup.members : (\E m \in Published : PacerStep(w, m)) \/ LateEffect(w) \/ PacerDies(w)
  BY Zenon DEF PacerNext
<1>2. w \in Consumers /\ next \in [Consumers -> Nat]
  BY PublishedFacts, Zenon DEF PacerInv, PacerTyped
<1>3. CASE LateEffect(w) \/ PacerDies(w)
  BY <1>2, <1>3 DEF LateEffect, PacerDies
<1>4. ASSUME NEW m \in Published, PacerStep(w, m)
      PROVE  \A v \in Consumers : next'[v] >= next[v]
  <2>1. m \in Offsets
    BY PublishedFacts, Zenon DEF PacerInv
  <2>2. CASE GetReply(w, m)
    <3>1. next[w] = 0 /\ target[w][m] \in Nat
      BY <1>2, <2>1, <2>2, Zenon DEF GetReply, PacerInv, PacerTyped, Fresh
    <3>2. QED
      BY <1>2, <2>2, <3>1 DEF GetReply
  <2>3. CASE OnHandledNewItem(w, m)
    <3>1. CASE DeliveryId(m) = next[w]
      <4> DEFINE n == NextGap(ids[w], DeliveryId(m) + 1)
      <4>1. n \in Nat /\ n > DeliveryId(m)
        BY <1>2, GapAbove, Zenon
      <4>2. next' = [next EXCEPT ![w] = n]
        BY <2>3, <3>1, Zenon DEF OnHandledNewItem
      <4> HIDE DEF n
      <4>3. QED
        BY <1>2, <3>1, <4>1, <4>2
    <3>2. CASE DeliveryId(m) # next[w]
      BY <1>2, <2>3, <3>2 DEF OnHandledNewItem
    <3>3. QED
      BY <3>1, <3>2, Zenon
  <2>4. CASE ~GetReply(w, m) /\ ~OnHandledNewItem(w, m)
    <3>1. next' = next
      BY <1>4, <2>4, Zenon DEF PacerStep, FilterOrNot, LockForFilter, RedisGet, GetFailed, LockForSet, SetReply, SetFailed
    <3>2. QED
      BY <1>2, <3>1
  <2>5. QED
    BY <2>2, <2>3, <2>4, Zenon
<1>5. QED
  BY <1>1, <1>3, <1>4, Zenon

\* A step of others that leaves the pacers alone does, too.
LEMMA PacerRests ==
    ASSUME PacerInv, UNCHANGED <<setup, next, ids, lock, call, verdict, target, redis, late, claimed>>
    PROVE  PacerInv'
<1>1. Published' = Published /\ Ids' = Ids /\ \A m \in Published : DeliveryId(m)' = DeliveryId(m)
  BY Zenon DEF Ids, DeliveryId, Published
<1>2. PacerTyped'
  BY <1>1, Zenon DEF PacerInv, PacerTyped, SetupOK
<1>3. LockExcludes' /\ Queued' /\ Fresh'
  BY Zenon DEF PacerInv, LockExcludes, Queued, Fresh
<1>4. Remembered'
  BY <1>1, Zenon DEF PacerInv, Remembered
<1>5. NewItemOnce'
  BY <1>1 DEF PacerInv, NewItemOnce
<1>6. Claims'
  BY <1>1, Zenon DEF PacerInv, Claims
<1>7. WatermarkIsClaimed'
  BY WatermarkStays, Zenon DEF PacerInv
<1>8. QED
  BY <1>2, <1>3, <1>4, <1>5, <1>6, <1>7, Zenon DEF PacerInv

\* The invariant holds of pacers nobody has used yet.
LEMMA PacerInitHolds ==
    ASSUME PacerAssumption, PacerInit
    PROVE  PacerInv
<1>1. PacerTyped
  <2>1. SetupOK(setup)
    BY Zenon DEF PacerAssumption, PacerInit
  <2>2. /\ next \in [Consumers -> Nat] /\ ids \in [Consumers -> SUBSET Ids] /\ redis \in Nat
        /\ lock \in [Consumers -> Seq(Offsets)] /\ late \in [Consumers -> SUBSET Effects]
    BY DEF PacerInit
  <2>3. call \in [Consumers -> [Offsets -> Pcs]]
    BY Zenon DEF PacerInit, Pcs
  <2>4. verdict \in [Consumers -> [Offsets -> Verdicts]]
    BY Zenon DEF PacerInit, Verdicts
  <2>5. target \in [Consumers -> [Offsets -> Nat]]
    BY Zenon DEF PacerInit
  <2>6. QED
    BY <2>1, <2>2, <2>3, <2>4, <2>5, Zenon DEF PacerTyped
<1>2. LockExcludes /\ Queued /\ Fresh /\ Remembered /\ NewItemOnce /\ Claims
  <2>1. \A w \in Consumers, m \in Offsets : call[w][m] = "idle" /\ verdict[w][m] = "none"
    BY Zenon DEF PacerInit
  <2>2. \A m \in Published : m \in Offsets
    BY <1>1, Zenon DEF PacerTyped, SetupOK, Published
  <2>3. QED
    BY <2>1, <2>2, Zenon DEF PacerInit, LockExcludes, Queued, Fresh, Remembered, NewItemOnce, Claims
<1>3. WatermarkIsClaimed
  <2>1. \A d \in Ids : d \in Nat /\ d > 0
    BY <1>1 DEF PacerTyped, SetupOK, Ids, DeliveryId, Published
  <2>2. QED
    BY <2>1 DEF PacerInit, WatermarkIsClaimed
<1>4. QED
  BY <1>1, <1>2, <1>3, Zenon DEF PacerInv

Waits == {"wait", "get", "got", "set", "setwait"}
Writes == {"set", "setwait"}

\* The lock queues the tasks that hold it or wait for it, each of them once; those
\* that write the watermark stand in the order of what they write.
Line(s, c, t) ==
    /\ \A i \in 1 .. Len(s) : c[s[i]] \in Waits
    /\ \A i, j \in 1 .. Len(s) : i < j =>
          s[i] # s[j] /\ (c[s[i]] \in Writes /\ c[s[j]] \in Writes => t[s[i]] <= t[s[j]])

\* What a task is about to write is not beyond the watermark k of its process.
Within(c, t, k) == \A m \in Offsets : c[m] \in Writes => 0 < t[m] /\ t[m] <= k

\* The stored r is behind the watermark, behind what was read from Redis and behind
\* every write that is still to come.
Behind(c, t, k, r) ==
    /\ k # 0 => r <= k
    /\ \A m \in Offsets : c[m] \in {"got", "set", "setwait"} => r <= t[m]

\* Writes do not fail and nobody else writes the key.
Alone == ~setup.setMayFail /\ \A v, w \in setup.members : v = w

OrderInv ==
    /\ \A w \in Consumers : Line(lock[w], call[w], target[w]) /\ Within(call[w], target[w], next[w])
    /\ Alone => \A w \in setup.members : late[w] = {} /\ Behind(call[w], target[w], next[w], redis)

\* The tasks other than m stay where they are, with what they write.
Others(m, c, d, t, u) == \A n \in Offsets : n # m => d[n] = c[n] /\ u[n] = t[n]

\* Nobody enters or leaves the line.
LEMMA LineStays ==
    ASSUME NEW s \in Seq(Offsets), NEW m \in Offsets, NEW c \in [Offsets -> Pcs], NEW d \in [Offsets -> Pcs],
           NEW t \in [Offsets -> Nat], NEW u \in [Offsets -> Nat], Line(s, c, t), Others(m, c, d, t, u),
           c[m] \in Waits => d[m] \in Waits /\ (d[m] \in Writes => c[m] \in Writes /\ u[m] = t[m])
    PROVE  Line(s, d, u)
<1>1. \A i \in 1 .. Len(s) :
          s[i] \in Offsets /\ d[s[i]] \in Waits /\ (d[s[i]] \in Writes => c[s[i]] \in Writes /\ u[s[i]] = t[s[i]])
  BY DEF Line, Others
<1>2. QED
  BY <1>1, Zenon DEF Line

\* Its head leaves, and everybody moves up.
LEMMA LineMovesUp ==
    ASSUME NEW s \in Seq(Offsets), NEW m \in Offsets, NEW c \in [Offsets -> Pcs], NEW d \in [Offsets -> Pcs],
           NEW t \in [Offsets -> Nat], Line(s, c, t), \A n \in Offsets : n # m => d[n] = c[n],
           s # << >>, Head(s) = m
    PROVE  Line(Tail(s), d, t)
<1> DEFINE r == Tail(s)
<1>1. /\ Len(s) \in Nat \ {0} /\ s[1] = m /\ Len(r) = Len(s) - 1
      /\ \A i \in 1 .. Len(r) : r[i] = s[i + 1] /\ s[i + 1] \in Offsets /\ i + 1 \in 1 .. Len(s)
  OBVIOUS
<1>2. \A i \in 1 .. Len(s) : 1 < i => s[i] # m
  BY <1>1 DEF Line
<1>3. \A i \in 1 .. Len(r) : d[r[i]] = c[s[i + 1]]
  BY <1>1, <1>2
<1> HIDE DEF r
<1>4. \A i \in 1 .. Len(r) : d[r[i]] \in Waits
  BY <1>1, <1>3, Zenon DEF Line
<1>5. ASSUME NEW i \in 1 .. Len(r), NEW j \in 1 .. Len(r), i < j
      PROVE  r[i] # r[j] /\ (d[r[i]] \in Writes /\ d[r[j]] \in Writes => t[r[i]] <= t[r[j]])
  <2>1. i + 1 < j + 1 /\ i + 1 \in 1 .. Len(s) /\ j + 1 \in 1 .. Len(s)
    BY <1>1, <1>5
  <2>2. /\ s[i + 1] # s[j + 1]
        /\ c[s[i + 1]] \in Writes /\ c[s[j + 1]] \in Writes => t[s[i + 1]] <= t[s[j + 1]]
    BY <2>1, Zenon DEF Line
  <2>3. QED
    BY <1>1, <1>3, <2>2, Zenon
<1>6. QED
  BY <1>4, <1>5, Zenon DEF Line, r

\* The positions of a line that has become one longer.
LEMMA OneLonger ==
    ASSUME NEW n \in Nat
    PROVE  /\ \A i \in 1 .. n + 1 : i \in 1 .. n \/ i = n + 1
           /\ \A i, j \in 1 .. n + 1 : i < j => i \in 1 .. n
OBVIOUS

\* A task joins it at the end, with the highest value if it writes.
LEMMA LineGrows ==
    ASSUME NEW s \in Seq(Offsets), NEW m \in Offsets, NEW c \in [Offsets -> Pcs], NEW d \in [Offsets -> Pcs],
           NEW t \in [Offsets -> Nat], NEW u \in [Offsets -> Nat], Line(s, c, t), Others(m, c, d, t, u),
           c[m] \notin Waits, d[m] \in Waits,
           d[m] \in Writes => \A n \in Offsets : c[n] \in Writes => t[n] <= u[m]
    PROVE  Line(Append(s, m), d, u)
<1> DEFINE r == Append(s, m)
<1>1. /\ Len(s) \in Nat /\ Len(r) = Len(s) + 1 /\ r[Len(s) + 1] = m
      /\ \A i \in 1 .. Len(s) : r[i] = s[i] /\ s[i] \in Offsets
  OBVIOUS
<1>2. \A i \in 1 .. Len(s) : s[i] # m
  BY Zenon DEF Line
<1>3. \A i \in 1 .. Len(s) : r[i] = s[i] /\ d[r[i]] = c[s[i]] /\ u[r[i]] = t[s[i]]
  BY <1>1, <1>2, Zenon DEF Others
<1> HIDE DEF r
<1>4. Len(s) \in Nat /\ Len(r) = Len(s) + 1
  BY <1>1, Zenon
<1>5. /\ \A i \in 1 .. Len(r) : i \in 1 .. Len(s) \/ i = Len(s) + 1
      /\ \A i, j \in 1 .. Len(r) : i < j => i \in 1 .. Len(s)
  BY <1>4, OneLonger, Zenon
<1>6. ASSUME NEW i \in 1 .. Len(r)
      PROVE  d[r[i]] \in Waits
  <2>1. CASE i \in 1 .. Len(s)
    <3>1. c[s[i]] \in Waits
      BY <2>1, Zenon DEF Line
    <3>2. QED
      BY <1>3, <2>1, <3>1, Zenon
  <2>2. CASE i = Len(s) + 1
    BY <1>1, <2>2, Zenon
  <2>3. i \in 1 .. Len(s) \/ i = Len(s) + 1
    BY <1>5, Zenon
  <2>4. QED
    BY <2>1, <2>2, <2>3, Zenon
<1>7. ASSUME NEW i \in 1 .. Len(r), NEW j \in 1 .. Len(r), i < j
      PROVE  r[i] # r[j] /\ (d[r[i]] \in Writes /\ d[r[j]] \in Writes => u[r[i]] <= u[r[j]])
  <2>1. i \in 1 .. Len(s) /\ (j \in 1 .. Len(s) \/ j = Len(s) + 1)
    BY <1>7, <1>5, Zenon
  <2>2. CASE j \in 1 .. Len(s)
    <3>1. s[i] # s[j] /\ (c[s[i]] \in Writes /\ c[s[j]] \in Writes => t[s[i]] <= t[s[j]])
      BY <1>7, <2>1, <2>2, Zenon DEF Line
    <3>2. QED
      BY <1>3, <2>1, <2>2, <3>1, Zenon
  <2>3. CASE j = Len(s) + 1
    BY <1>1, <1>2, <1>3, <2>1, <2>3, Zenon
  <2>4. QED
    BY <2>1, <2>2, <2>3, Zenon
<1>8. QED
  BY <1>6, <1>7, Zenon DEF Line, r

\* The watermark rises to l, and with it what m may write.
LEMMA WithinKeeps ==
    ASSUME NEW m \in Offsets, NEW c \in [Offsets -> Pcs], NEW d \in [Offsets -> Pcs],
           NEW t \in [Offsets -> Nat], NEW u \in [Offsets -> Nat], NEW k \in Nat, NEW l \in Nat,
           Within(c, t, k), Others(m, c, d, t, u), k <= l, d[m] \in Writes => 0 < u[m] /\ u[m] <= l
    PROVE  Within(d, u, l)
BY DEF Within, Others

\* Redis stays, or is written the value at the head of the line.
LEMMA BehindKeeps ==
    ASSUME NEW m \in Offsets, NEW c \in [Offsets -> Pcs], NEW d \in [Offsets -> Pcs],
           NEW t \in [Offsets -> Nat], NEW u \in [Offsets -> Nat], NEW k \in Nat, NEW l \in Nat, NEW r \in Nat,
           Behind(c, t, k, r), Others(m, c, d, t, u), k = l \/ r <= l,
           d[m] \in {"got", "set", "setwait"} => r <= u[m]
    PROVE  Behind(d, u, l, r)
BY Zenon DEF Behind, Others

\* Only the task of m in process w gets a new value to write.
Aimed(w, m) ==
    /\ target' \in [Consumers -> [Offsets -> Nat]]
    /\ \A v \in Consumers, n \in Offsets : v # w \/ n # m => target'[v][n] = target[v][n]

\* Only the watermark of process w moves, and not back.
Raised(w) ==
    /\ next' \in [Consumers -> Nat]
    /\ next'[w] >= next[w]
    /\ \A v \in Consumers : v # w => next'[v] = next[v]

\* Nobody enters or leaves the line of process w.
Kept(w, m, pc) ==
    /\ lock' = lock
    /\ \/ call[w][m] \notin Waits
       \/ pc \in Waits /\ (pc \in Writes => call[w][m] \in Writes /\ target'[w][m] = target[w][m])

\* Task m leaves it.
Left(w, m) == ReleaseLock(w) /\ lock[w] # << >> /\ Head(lock[w]) = m /\ target' = target

\* Task m joins it.
Joined(w, m, pc) ==
    /\ lock' = [lock EXCEPT ![w] = Append(@, m)]
    /\ call[w][m] \notin Waits /\ pc \in Waits
    /\ pc \in Writes => target'[w][m] = next'[w]

LineStep(w, m, pc) == Kept(w, m, pc) \/ Left(w, m) \/ Joined(w, m, pc)

\* The types of what one process holds.
LEMMA PacerOwns ==
    ASSUME PacerInv, NEW v \in Consumers
    PROVE  /\ lock[v] \in Seq(Offsets) /\ call[v] \in [Offsets -> Pcs]
           /\ target[v] \in [Offsets -> Nat] /\ next[v] \in Nat /\ redis \in Nat
BY Zenon DEF PacerInv, PacerTyped

\* The step of one task leaves the other processes alone.
LEMMA OthersRest ==
    ASSUME PacerInv, NEW w \in Consumers, NEW m \in Offsets, NEW pc \in Pcs, Moved(w, m, pc), Aimed(w, m),
           NEW v \in Consumers
    PROVE  /\ call'[v] \in [Offsets -> Pcs] /\ target'[v] \in [Offsets -> Nat]
           /\ v = w => call'[v][m] = pc /\ Others(m, call[v], call'[v], target[v], target'[v])
           /\ v # w => call'[v] = call[v] /\ target'[v] = target[v]
<1>1. call'[v] \in [Offsets -> Pcs] /\ target'[v] \in [Offsets -> Nat]
  BY Zenon DEF Moved, Aimed
<1>2. ASSUME v = w
      PROVE  call'[v][m] = pc /\ Others(m, call[v], call'[v], target[v], target'[v])
  BY <1>2, Zenon DEF Moved, Aimed, Others
<1>3. ASSUME v # w PROVE call'[v] = call[v]
  <2>1. \A n \in Offsets : call'[v][n] = call[v][n]
    BY <1>3, Zenon DEF Moved
  <2>2. QED
    BY <1>1, <2>1, PacerOwns
<1>4. ASSUME v # w PROVE target'[v] = target[v]
  <2>1. \A n \in Offsets : target'[v][n] = target[v][n]
    BY <1>4, Zenon DEF Aimed
  <2>2. QED
    BY <1>1, <2>1, PacerOwns
<1>5. QED
  BY <1>1, <1>2, <1>3, <1>4, Zenon

\* The line of the process itself.
LEMMA OwnLine ==
    ASSUME PacerInv, OrderInv, NEW w \in Consumers, NEW m \in Offsets, NEW pc \in Pcs,
           Moved(w, m, pc), Aimed(w, m), LineStep(w, m, pc), Raised(w)
    PROVE  Line(lock'[w], call'[w], target'[w])
<1>1. /\ lock[w] \in Seq(Offsets) /\ call[w] \in [Offsets -> Pcs] /\ call'[w] \in [Offsets -> Pcs]
      /\ target[w] \in [Offsets -> Nat] /\ target'[w] \in [Offsets -> Nat]
  BY PacerOwns, OthersRest, Zenon
<1>2. /\ Line(lock[w], call[w], target[w]) /\ call'[w][m] = pc
      /\ Others(m, call[w], call'[w], target[w], target'[w])
  BY OthersRest DEF OrderInv
<1>3. CASE Kept(w, m, pc)
  <2>1. call[w][m] \in Waits =>
          call'[w][m] \in Waits /\ (call'[w][m] \in Writes => call[w][m] \in Writes /\ target'[w][m] = target[w][m])
    BY <1>2, <1>3, Zenon DEF Kept
  <2>2. lock'[w] = lock[w]
    BY <1>3, Zenon DEF Kept
  <2>3. QED
    BY <1>1, <1>2, <2>1, <2>2, LineStays, Zenon
<1>4. CASE Left(w, m)
  <2>1. lock[w] # << >> /\ Head(lock[w]) = m /\ target'[w] = target[w]
    BY <1>4, Zenon DEF Left
  <2>2. lock'[w] = Tail(lock[w])
    BY <1>4, Zenon DEF Left, ReleaseLock, PacerInv, PacerTyped
  <2>3. \A n \in Offsets : n # m => call'[w][n] = call[w][n]
    BY <1>2, Zenon DEF Others
  <2>4. QED
    BY <1>1, <1>2, <2>1, <2>2, <2>3, LineMovesUp, Zenon
<1>5. CASE Joined(w, m, pc)
  <2>1. call[w][m] \notin Waits /\ call'[w][m] \in Waits
    BY <1>2, <1>5, Zenon DEF Joined
  <2>2. lock'[w] = Append(lock[w], m)
    BY <1>5, Zenon DEF Joined, PacerInv, PacerTyped
  <2>3. ASSUME call'[w][m] \in Writes, NEW n \in Offsets, call[w][n] \in Writes
        PROVE  target[w][n] <= target'[w][m]
    <3>1. target'[w][m] = next'[w]
      BY <1>2, <1>5, <2>3, Zenon DEF Joined
    <3>2. target[w][n] <= next[w]
      BY <2>3, Zenon DEF OrderInv, Within
    <3>3. next[w] <= next'[w] /\ next[w] \in Nat /\ next'[w] \in Nat
      BY PacerOwns, Zenon DEF Raised
    <3>4. QED
      BY <1>1, <3>1, <3>2, <3>3
  <2>4. QED
    BY <1>1, <1>2, <2>1, <2>2, <2>3, LineGrows, Zenon
<1>6. QED
  BY <1>3, <1>4, <1>5, Zenon DEF LineStep

\* The lines of all processes, and what they are about to write.
LEMMA OwnLines ==
    ASSUME PacerInv, OrderInv, NEW w \in Consumers, NEW m \in Offsets, NEW pc \in Pcs,
           Moved(w, m, pc), Aimed(w, m), LineStep(w, m, pc), Raised(w),
           pc \in Writes => 0 < target'[w][m] /\ target'[w][m] <= next'[w],
           NEW v \in Consumers
    PROVE  Line(lock'[v], call'[v], target'[v]) /\ Within(call'[v], target'[v], next'[v])
<1>1. CASE v = w
  <2>1. Line(lock'[w], call'[w], target'[w])
    BY OwnLine, Zenon
  <2>2. /\ call[w] \in [Offsets -> Pcs] /\ call'[w] \in [Offsets -> Pcs]
        /\ target[w] \in [Offsets -> Nat] /\ target'[w] \in [Offsets -> Nat]
        /\ next[w] \in Nat /\ next'[w] \in Nat /\ next[w] <= next'[w]
    BY PacerOwns, OthersRest, Zenon DEF Raised
  <2>3. Within(call[w], target[w], next[w]) /\ Others(m, call[w], call'[w], target[w], target'[w]) /\ call'[w][m] = pc
    BY OthersRest DEF OrderInv
  <2>4. Within(call'[w], target'[w], next'[w])
    BY <2>2, <2>3, WithinKeeps, Zenon
  <2>5. QED
    BY <1>1, <2>1, <2>4, Zenon
<1>2. CASE v # w
  <2>1. call'[v] = call[v] /\ target'[v] = target[v] /\ next'[v] = next[v]
    BY <1>2, OthersRest DEF Raised
  <2>2. lock'[v] = lock[v]
    BY <1>2, Zenon DEF LineStep, Kept, Left, Joined, ReleaseLock, PacerInv, PacerTyped
  <2>3. QED
    BY <2>1, <2>2, Zenon DEF OrderInv
<1>3. QED
  BY <1>1, <1>2, Zenon

\* A step of one task that does not write keeps the order.
LEMMA OrderStep ==
    ASSUME PacerInv, OrderInv, NEW w \in Consumers, NEW m \in Offsets, NEW pc \in Pcs,
           Moved(w, m, pc), Aimed(w, m), LineStep(w, m, pc), Raised(w), UNCHANGED <<setup, redis, late>>,
           Alone => next'[w] = next[w] \/ redis <= next'[w],
           pc \in Writes => 0 < target'[w][m] /\ target'[w][m] <= next'[w],
           Alone /\ w \in setup.members /\ pc \in {"got", "set", "setwait"} => redis <= target'[w][m]
    PROVE  OrderInv'
<1>1. ASSUME NEW v \in Consumers
      PROVE  Line(lock'[v], call'[v], target'[v]) /\ Within(call'[v], target'[v], next'[v])
  BY OwnLines, Zenon
<1>2. ASSUME Alone, NEW v \in setup.members
      PROVE  late[v] = {} /\ Behind(call'[v], target'[v], next'[v], redis)
  <2>1. v \in Consumers /\ late[v] = {} /\ Behind(call[v], target[v], next[v], redis)
    BY <1>2, PublishedFacts, Zenon DEF PacerInv, OrderInv
  <2>2. CASE v = w
    <3>1. /\ call[w] \in [Offsets -> Pcs] /\ call'[w] \in [Offsets -> Pcs] /\ redis \in Nat
          /\ target[w] \in [Offsets -> Nat] /\ target'[w] \in [Offsets -> Nat]
          /\ next[w] \in Nat /\ next'[w] \in Nat
      BY PacerOwns, OthersRest, Zenon DEF Raised
    <3>2. /\ Others(m, call[w], call'[w], target[w], target'[w])
          /\ call'[w][m] \in {"got", "set", "setwait"} => redis <= target'[w][m]
          /\ next[w] = next'[w] \/ redis <= next'[w]
      BY <1>2, <2>2, OthersRest
    <3>3. Behind(call[w], target[w], next[w], redis)
      BY <2>1, <2>2, Zenon
    <3>4. Behind(call'[w], target'[w], next'[w], redis)
      BY <3>1, <3>2, <3>3, BehindKeeps, Zenon
    <3>5. QED
      BY <2>1, <2>2, <3>4, Zenon
  <2>3. CASE v # w
    <3>1. call'[v] = call[v] /\ target'[v] = target[v] /\ next'[v] = next[v]
      BY <2>1, <2>3, OthersRest DEF Raised
    <3>2. QED
      BY <2>1, <3>1, Zenon
  <2>4. QED
    BY <2>2, <2>3, Zenon
<1>3. QED
  BY <1>1, <1>2, Zenon DEF OrderInv, Alone

\* Nor does a step that only moves the task on.
LEMMA OrderQuiet ==
    ASSUME PacerInv, OrderInv, NEW w \in Consumers, NEW m \in Offsets, NEW pc \in Pcs,
           Moved(w, m, pc), LineStep(w, m, pc), UNCHANGED <<setup, next, target, redis, late>>,
           pc # "got", pc \in Writes => call[w][m] \in Writes
    PROVE  OrderInv'
<1>1. Aimed(w, m) /\ target'[w][m] = target[w][m] /\ next'[w] = next[w]
  BY Zenon DEF PacerInv, PacerTyped, Aimed
<1>2. Raised(w)
  BY DEF PacerInv, PacerTyped, Raised
<1>3. pc \in Writes => 0 < target'[w][m] /\ target'[w][m] <= next'[w]
  BY <1>1, Zenon DEF OrderInv, Within
<1>4. ASSUME Alone, w \in setup.members, pc \in {"got", "set", "setwait"} PROVE redis <= target'[w][m]
  <2>1. call[w][m] \in {"got", "set", "setwait"}
    BY <1>4, Zenon DEF Writes
  <2>2. Behind(call[w], target[w], next[w], redis)
    BY <1>4, Zenon DEF OrderInv
  <2>3. QED
    BY <1>1, <2>1, <2>2, Zenon DEF Behind
<1>5. QED
  BY <1>1, <1>2, <1>3, <1>4, OrderStep, Zenon

\* filter_or_not, as far as it does not ask Redis.
LEMMA FilterOrder ==
    ASSUME PacerInv, OrderInv, NEW w \in Consumers, NEW m \in Published,
           FilterOrNot(w, m) \/ LockForFilter(w, m) \/ GetFailed(w, m)
    PROVE  OrderInv'
<1>1. m \in Offsets /\ DeliveryId(m) \in Nat /\ next[w] \in Nat
  BY PublishedFacts, Zenon DEF PacerInv, PacerTyped
<1>2. UNCHANGED <<setup, next, target, redis, late>>
  BY Zenon DEF FilterOrNot, LockForFilter, GetFailed
<1>3. ASSUME NEW x \in Verdicts, Answer(w, m, x),
             \/ lock' = lock /\ call[w][m] \notin Waits
             \/ ReleaseLock(w) /\ lock[w] # << >> /\ Head(lock[w]) = m
      PROVE  OrderInv'
  <2> DEFINE pc == IF x \in {"new", "retry"} THEN "handling" ELSE "done"
  <2>1. Moved(w, m, pc)
    BY <1>3, AnswerTells, Zenon DEF PacerInv
  <2>2. pc \in Pcs /\ pc \notin Writes /\ pc # "got"
    BY Zenon DEF Pcs, Writes
  <2> HIDE DEF pc
  <2>3. LineStep(w, m, pc)
    BY <1>2, <1>3, Zenon DEF LineStep, Kept, Left
  <2>4. QED
    BY <1>1, <1>2, <2>1, <2>2, <2>3, OrderQuiet, Zenon
<1>4. ASSUME NEW pc \in {"get", "wait"}, Goto(w, m, pc), LineStep(w, m, pc)
      PROVE  OrderInv'
  <2>1. pc \in Pcs /\ pc \notin Writes /\ pc # "got"
    BY Zenon DEF Pcs, Writes
  <2>2. Moved(w, m, pc)
    BY <1>1, <1>4, <2>1, GotoMoves, Zenon DEF PacerInv
  <2>3. QED
    BY <1>1, <1>2, <1>4, <2>1, <2>2, OrderQuiet, Zenon
<1>5. CASE FilterOrNot(w, m)
  <2>1. CASE next[w] > 0
    <3>1. Judge(w, m, next[w]) \in Verdicts
      BY <1>1 DEF Judge, Verdicts
    <3>2. Answer(w, m, Judge(w, m, next[w])) /\ lock' = lock /\ call[w][m] \notin Waits
      BY <1>5, <2>1, Zenon DEF FilterOrNot, Waits
    <3>3. QED
      BY <1>3, <3>1, <3>2, Zenon
  <2>2. CASE ~(next[w] > 0)
    <3> DEFINE pc == IF lock[w] = << >> THEN "get" ELSE "wait"
    <3>1. pc \in {"get", "wait"} /\ pc \in Waits /\ pc \notin Writes
      BY Zenon DEF Waits, Writes
    <3>2. /\ Goto(w, m, pc) /\ call[w][m] \notin Waits
          /\ lock' = [lock EXCEPT ![w] = Append(@, m)]
      BY <1>5, <2>2, Zenon DEF FilterOrNot, Waits
    <3> HIDE DEF pc
    <3>3. LineStep(w, m, pc)
      BY <3>1, <3>2, Zenon DEF LineStep, Joined
    <3>4. QED
      BY <1>4, <3>1, <3>2, <3>3, Zenon
  <2>3. QED
    BY <2>1, <2>2, Zenon
<1>6. CASE LockForFilter(w, m)
  <2>1. lock[w] # << >> /\ Head(lock[w]) = m
    BY <1>1, <1>6, HeadHolds, Zenon DEF LockForFilter
  <2>2. CASE next[w] > 0
    <3>1. Judge(w, m, 0) \in Verdicts
      BY <1>1 DEF Judge, Verdicts
    <3>2. Answer(w, m, Judge(w, m, 0)) /\ ReleaseLock(w)
      BY <1>6, <2>2, Zenon DEF LockForFilter
    <3>3. QED
      BY <1>3, <2>1, <3>1, <3>2, Zenon
  <2>3. CASE ~(next[w] > 0)
    <3>1. Goto(w, m, "get") /\ LineStep(w, m, "get")
      BY <1>6, <2>3, Zenon DEF LockForFilter, LineStep, Kept, Waits, Writes
    <3>2. QED
      BY <1>4, <3>1, Zenon
  <2>4. QED
    BY <2>2, <2>3, Zenon
<1>7. CASE GetFailed(w, m)
  <2>1. lock[w] # << >> /\ Head(lock[w]) = m
    BY <1>1, <1>7, Zenon DEF PacerInv, LockExcludes, GetFailed
  <2>2. "retry" \in Verdicts /\ Answer(w, m, "retry") /\ ReleaseLock(w)
    BY <1>7, Zenon DEF GetFailed, Verdicts
  <2>3. QED
    BY <1>3, <2>1, <2>2, Zenon
<1>8. QED
  BY <1>5, <1>6, <1>7, Zenon

\* Redis is read: the answer is not behind it.
LEMMA GetOrder ==
    ASSUME PacerInv, OrderInv, NEW w \in Consumers, NEW m \in Published, RedisGet(w, m)
    PROVE  OrderInv'
<1> DEFINE r == IF redis = 0 THEN 1 ELSE redis
<1>1. m \in Offsets /\ "got" \in Pcs /\ redis \in Nat
  BY PublishedFacts, Zenon DEF PacerInv, PacerTyped, Pcs
<1>2. UNCHANGED <<setup, next, lock, redis, late>>
  BY Zenon DEF RedisGet
<1>3. Moved(w, m, "got")
  BY <1>1, GotoMoves, Zenon DEF PacerInv, RedisGet
<1>4. r \in Nat /\ redis <= r
  BY <1>1
<1>5. Aimed(w, m) /\ target'[w][m] = r
  BY <1>1, <1>4, Zenon DEF PacerInv, PacerTyped, RedisGet, Aimed
<1> HIDE DEF r
<1>6. LineStep(w, m, "got") /\ "got" \notin Writes
  BY <1>2, Zenon DEF LineStep, Kept, Waits, Writes
<1>7. Raised(w) /\ next'[w] = next[w]
  BY <1>2 DEF PacerInv, PacerTyped, Raised
<1>8. QED
  BY <1>1, <1>2, <1>3, <1>4, <1>5, <1>6, <1>7, OrderStep, Zenon

\* The pacer starts from what was read.
LEMMA GetReplyOrder ==
    ASSUME PacerInv, OrderInv, NEW w \in setup.members, NEW m \in Published, GetReply(w, m)
    PROVE  OrderInv'
<1> DEFINE x == IF DeliveryId(m) < target[w][m] THEN "old" ELSE "new"
           pc == IF x \in {"new", "retry"} THEN "handling" ELSE "done"
<1>1. w \in Consumers /\ m \in Offsets /\ x \in Verdicts /\ pc \in Pcs /\ pc \notin Writes /\ pc # "got"
  BY PublishedFacts, Zenon DEF PacerInv, Verdicts, Pcs, Writes
<1>2. Moved(w, m, pc)
  BY <1>1, AnswerTells, Zenon DEF PacerInv, GetReply
<1>3. UNCHANGED <<setup, target, redis, late>> /\ ReleaseLock(w) /\ call[w][m] = "got"
  BY Zenon DEF GetReply
<1>4. next[w] = 0 /\ target[w][m] \in Nat /\ lock[w] # << >> /\ Head(lock[w]) = m
  BY <1>1, <1>3, Zenon DEF PacerInv, Fresh, PacerTyped, LockExcludes
<1>5. /\ next' \in [Consumers -> Nat] /\ next'[w] = target[w][m]
      /\ \A v \in Consumers : v # w => next'[v] = next[v]
  BY <1>1, <1>4, Zenon DEF GetReply, PacerInv, PacerTyped
<1>6. Raised(w)
  BY <1>1, <1>4, <1>5 DEF Raised
<1>7. Alone => redis <= target[w][m]
  BY <1>1, <1>3, Zenon DEF OrderInv, Behind
<1> HIDE DEF x, pc
<1>8. Left(w, m) /\ LineStep(w, m, pc)
  BY <1>3, <1>4, Zenon DEF Left, LineStep
<1>9. Aimed(w, m)
  BY <1>3, Zenon DEF Aimed, PacerInv, PacerTyped
<1>10. pc \notin {"got", "set", "setwait"}
  BY <1>1, Zenon DEF Writes
<1>11. QED
  BY <1>1, <1>2, <1>3, <1>5, <1>6, <1>7, <1>8, <1>9, <1>10, OrderStep, Zenon

\* The watermark moves, and its new value is queued for Redis behind the others.
LEMMA OnHandledOrder ==
    ASSUME PacerInv, OrderInv, NEW w \in setup.members, NEW m \in Published, OnHandledNewItem(w, m)
    PROVE  OrderInv'
<1>1. /\ w \in Consumers /\ m \in Offsets /\ DeliveryId(m) \in Nat /\ DeliveryId(m) > 0 /\ next[w] \in Nat /\ redis \in Nat
      /\ call[w][m] \notin Waits
  BY PublishedFacts, Zenon DEF PacerInv, PacerTyped, OnHandledNewItem, Waits
<1>2. UNCHANGED <<setup, redis, late>>
  BY Zenon DEF OnHandledNewItem
<1>3. CASE DeliveryId(m) = next[w]
  <2> DEFINE n == NextGap(ids[w], DeliveryId(m) + 1)
             pc == IF lock[w] = << >> THEN "set" ELSE "setwait"
  <2>1. n \in Nat /\ n > DeliveryId(m)
    BY <1>1, GapAbove, Zenon
  <2>2. pc \in Pcs /\ pc \in Waits /\ pc \in Writes
    BY Zenon DEF Pcs, Waits, Writes
  <2>3. /\ next' = [next EXCEPT ![w] = n] /\ target' = [target EXCEPT ![w][m] = n]
        /\ lock' = [lock EXCEPT ![w] = Append(@, m)] /\ Goto(w, m, pc)
    BY <1>3, Zenon DEF OnHandledNewItem
  <2> HIDE DEF n, pc
  <2>4. Moved(w, m, pc)
    BY <1>1, <2>2, <2>3, GotoMoves, Zenon DEF PacerInv
  <2>5. /\ next' \in [Consumers -> Nat] /\ next'[w] = n
        /\ \A v \in Consumers : v # w => next'[v] = next[v]
    BY <1>1, <2>1, <2>3, Zenon DEF PacerInv, PacerTyped
  <2>6. Aimed(w, m) /\ target'[w][m] = n
    BY <1>1, <2>1, <2>3, Zenon DEF PacerInv, PacerTyped, Aimed
  <2>7. Raised(w)
    BY <1>1, <1>3, <2>1, <2>5 DEF Raised
  <2>8. Alone => redis <= n
    <3>1. Alone => redis <= next[w]
      BY <1>1, <1>3 DEF OrderInv, Behind
    <3>2. QED
      BY <1>1, <1>3, <2>1, <3>1
  <2>9. LineStep(w, m, pc)
    BY <1>1, <2>2, <2>3, <2>5, <2>6, Zenon DEF LineStep, Joined
  <2>10. 0 < target'[w][m] /\ target'[w][m] <= next'[w]
    BY <1>1, <2>1, <2>5, <2>6
  <2>11. QED
    BY <1>1, <1>2, <2>2, <2>4, <2>5, <2>6, <2>7, <2>8, <2>9, <2>10, OrderStep, Zenon
<1>4. CASE DeliveryId(m) # next[w]
  <2>1. Goto(w, m, "done") /\ UNCHANGED <<next, target, lock>> /\ "done" \in Pcs /\ "done" \notin Writes
    BY <1>4, Zenon DEF OnHandledNewItem, Pcs, Writes
  <2>2. Moved(w, m, "done") /\ LineStep(w, m, "done")
    BY <1>1, <2>1, GotoMoves, Zenon DEF PacerInv, LineStep, Kept
  <2>3. QED
    BY <1>1, <1>2, <2>1, <2>2, OrderQuiet, Zenon
<1>5. QED
  BY <1>3, <1>4, Zenon

\* The lock arrives for a write.
LEMMA LockForSetOrder ==
    ASSUME PacerInv, OrderInv, NEW w \in Consumers, NEW m \in Published, LockForSet(w, m)
    PROVE  OrderInv'
<1>1. m \in Offsets /\ "set" \in Pcs /\ "set" # "got" /\ call[w][m] \in Writes
  BY PublishedFacts, Zenon DEF PacerInv, LockForSet, Pcs, Writes
<1>2. UNCHANGED <<setup, next, lock, target, redis, late>> /\ Goto(w, m, "set")
  BY Zenon DEF LockForSet
<1>3. Moved(w, m, "set") /\ LineStep(w, m, "set")
  BY <1>1, <1>2, GotoMoves, Zenon DEF PacerInv, LineStep, Kept, Waits, Writes
<1>4. QED
  BY <1>1, <1>2, <1>3, OrderQuiet, Zenon

\* What is left in the line when its head has written is not behind that write.
LEMMA SetOrder ==
    ASSUME PacerInv, OrderInv, NEW w \in setup.members, NEW m \in Published, SetReply(w, m) \/ SetFailed(w, m)
    PROVE  OrderInv'
<1>1. w \in Consumers /\ m \in Offsets /\ "done" \in Pcs /\ "done" \notin Writes /\ call[w][m] = "set" /\ setup' = setup
  BY PublishedFacts, Zenon DEF PacerInv, SetReply, SetFailed, Pcs, Writes
<1>2. lock[w] # << >> /\ Head(lock[w]) = m /\ \A n \in Offsets \ {m} : call[w][n] \notin {"get", "got", "set"}
  BY <1>1 DEF PacerInv, LockExcludes
<1>3. UNCHANGED <<setup, next, target>> /\ ReleaseLock(w) /\ Goto(w, m, "done")
  BY Zenon DEF SetReply, SetFailed
<1>4. Moved(w, m, "done")
  BY <1>1, <1>3, GotoMoves, Zenon DEF PacerInv
<1>5. Aimed(w, m) /\ LineStep(w, m, "done")
  BY <1>2, <1>3, Zenon DEF Aimed, PacerInv, PacerTyped, LineStep, Left
<1>6. Raised(w)
  BY <1>1, <1>3 DEF PacerInv, PacerTyped, Raised
<1>7. ASSUME NEW v \in Consumers
      PROVE  Line(lock'[v], call'[v], target'[v]) /\ Within(call'[v], target'[v], next'[v])
  BY <1>1, <1>4, <1>5, <1>6, OwnLines, Zenon
<1>8. ASSUME Alone PROVE late' = late /\ redis' = target[w][m]
  BY <1>8, Zenon DEF Alone, SetReply, SetFailed
<1>9. ASSUME Alone, NEW n \in Offsets, call'[w][n] \in {"got", "set", "setwait"}
      PROVE  target[w][m] <= target[w][n]
  <2>1. n # m /\ call[w][n] = "setwait"
    BY <1>1, <1>2, <1>4, <1>9 DEF Moved
  <2>2. PICK i \in 1 .. Len(lock[w]) : lock[w][i] = n
    BY <1>1, <2>1, Zenon DEF PacerInv, Queued
  <2>3. Len(lock[w]) \in Nat /\ lock[w][1] = m /\ 1 \in 1 .. Len(lock[w])
    BY <1>1, <1>2 DEF PacerInv, PacerTyped
  <2>4. 1 < i
    BY <2>1, <2>2, <2>3
  <2>5. Line(lock[w], call[w], target[w]) /\ call[w][m] \in Writes /\ call[w][n] \in Writes
    BY <1>1, <2>1, Zenon DEF OrderInv, Writes
  <2>6. QED
    BY <2>2, <2>3, <2>4, <2>5, Zenon DEF Line
<1>10. ASSUME Alone PROVE late'[w] = {} /\ Behind(call'[w], target'[w], next'[w], redis')
  <2>1. late[w] = {} /\ target[w][m] <= next[w]
    BY <1>1, <1>10, Zenon DEF OrderInv, Within, Writes
  <2>2. next'[w] = next[w] /\ target'[w] = target[w] /\ late'[w] = late[w] /\ redis' = target[w][m]
    BY <1>3, <1>8, <1>10, Zenon
  <2>3. QED
    BY <1>9, <1>10, <2>1, <2>2, Zenon DEF Behind
<1>11. ASSUME Alone, NEW v \in setup.members PROVE v = w
  BY <1>11, Zenon DEF Alone
<1>12. QED
  BY <1>3, <1>7, <1>10, <1>11, Zenon DEF OrderInv, Alone

\* A late effect is none of a lone process whose writes succeed.
LEMMA LateOrder ==
    ASSUME PacerInv, OrderInv, NEW w \in setup.members, LateEffect(w)
    PROVE  OrderInv'
<1>1. UNCHANGED <<setup, next, lock, call, target>> /\ late[w] # {}
  BY Zenon DEF LateEffect
<1>2. ~Alone
  BY <1>1, Zenon DEF OrderInv
<1>3. QED
  BY <1>1, <1>2, Zenon DEF OrderInv, Alone

\* The process dies; of its writes at most the one under way reaches Redis.
LEMMA PacerDiesOrder ==
    ASSUME PacerInv, OrderInv, NEW w \in setup.members, PacerDies(w)
    PROVE  OrderInv'
<1>1. w \in Consumers /\ setup' = setup
  BY PublishedFacts, Zenon DEF PacerInv, PacerDies
<1>2. /\ \A m \in Offsets : call'[w][m] = "idle"
      /\ \A v \in Consumers : v # w => call'[v] = call[v]
  BY <1>1, Zenon DEF PacerInv, PacerTyped, PacerDies
<1>3. /\ lock'[w] = << >> /\ \A v \in Consumers : v # w => lock'[v] = lock[v]
      /\ next'[w] = 0 /\ \A v \in Consumers : v # w => next'[v] = next[v]
      /\ late'[w] = {}
  BY <1>1, Zenon DEF PacerInv, PacerTyped, PacerDies
<1>4. \A v \in Consumers : v # w => target'[v] = target[v]
  BY <1>1, Zenon DEF PacerInv, PacerTyped, PacerDies
<1>5. Line(lock'[w], call'[w], target'[w])
  <2>1. 1 .. Len(lock'[w]) = {}
    BY <1>3
  <2>2. QED
    BY <2>1, Zenon DEF Line
<1>6. Within(call'[w], target'[w], next'[w])
  BY <1>2, Zenon DEF Within, Writes
<1>7. Behind(call'[w], target'[w], next'[w], redis')
  BY <1>2, <1>3, Zenon DEF Behind
<1>8. ASSUME NEW v \in Consumers
      PROVE  Line(lock'[v], call'[v], target'[v]) /\ Within(call'[v], target'[v], next'[v])
  <2>1. CASE v = w
    BY <1>5, <1>6, <2>1, Zenon
  <2>2. CASE v # w
    BY <1>2, <1>3, <1>4, <2>2, Zenon DEF OrderInv
  <2>3. QED
    BY <2>1, <2>2, Zenon
<1>9. ASSUME Alone, NEW v \in setup.members PROVE v = w
  BY <1>9, Zenon DEF Alone
<1>10. QED
  BY <1>1, <1>3, <1>7, <1>8, <1>9, Zenon DEF OrderInv, Alone

\* Every step keeps the order of the writes.
LEMMA OrderKeeps ==
    ASSUME PacerInv, OrderInv, PacerNext
    PROVE  OrderInv'
<1>1. PICK w \in setup.members : (\E m \in Published : PacerStep(w, m)) \/ LateEffect(w) \/ PacerDies(w)
  BY Zenon DEF PacerNext
<1>2. w \in Consumers
  BY PublishedFacts, Zenon DEF PacerInv
<1>3. CASE \E m \in Published : PacerStep(w, m)
  BY <1>2, <1>3, FilterOrder, GetOrder, GetReplyOrder, OnHandledOrder, LockForSetOrder, SetOrder, Zenon DEF PacerStep
<1>4. QED
  BY <1>1, <1>2, <1>3, LateOrder, PacerDiesOrder, Zenon

\* So does one that leaves the pacers alone.
LEMMA OrderRests ==
    ASSUME OrderInv, UNCHANGED <<setup, next, lock, call, target, redis, late>>
    PROVE  OrderInv'
BY Zenon DEF OrderInv, Alone

\* It holds of pacers nobody has used yet.
LEMMA OrderInit ==
    ASSUME PacerAssumption, PacerInit
    PROVE  OrderInv
<1>1. \A w \in Consumers : lock[w] = << >> /\ next[w] = 0 /\ late[w] = {} /\ \A m \in Offsets : call[w][m] = "idle"
  BY Zenon DEF PacerInit
<1>2. setup.members \subseteq Consumers
  BY Zenon DEF PacerInit, PacerAssumption, SetupOK
<1>3. ASSUME NEW w \in Consumers PROVE Line(lock[w], call[w], target[w])
  <2>1. 1 .. Len(lock[w]) = {}
    BY <1>1
  <2>2. QED
    BY <2>1, Zenon DEF Line
<1>4. ASSUME NEW w \in Consumers
      PROVE  Within(call[w], target[w], next[w]) /\ late[w] = {} /\ Behind(call[w], target[w], next[w], redis)
  BY <1>1, Zenon DEF Within, Behind, Writes
<1>5. QED
  BY <1>2, <1>3, <1>4, Zenon DEF OrderInv

\* A lone process whose writes succeed moves the watermark in Redis forward only.
LEMMA RedisRises ==
    ASSUME PacerInv, OrderInv, PacerNext, Alone
    PROVE  redis' >= redis
<1>1. PICK w \in setup.members : (\E m \in Published : PacerStep(w, m)) \/ LateEffect(w) \/ PacerDies(w)
  BY Zenon DEF PacerNext
<1>2. w \in Consumers /\ redis \in Nat /\ Published \subseteq Offsets
  BY PublishedFacts, Zenon DEF PacerInv, PacerTyped
<1>3. \A m \in Offsets : call[w][m] = "set" => target[w][m] \in Nat /\ redis <= target[w][m]
  BY <1>2, Zenon DEF PacerInv, PacerTyped, OrderInv, Behind
<1>4. CASE LateEffect(w)
  BY <1>4, Zenon DEF LateEffect, OrderInv
<1>5. CASE PacerDies(w)
  BY <1>2, <1>3, <1>5 DEF PacerDies
<1>6. ASSUME NEW m \in Published, PacerStep(w, m) PROVE redis' >= redis
  <2>1. CASE SetReply(w, m)
    BY <1>2, <1>3, <2>1, Zenon DEF SetReply
  <2>2. CASE ~SetReply(w, m)
    <3>1. redis' = redis
      BY <1>6, <2>2, Zenon DEF PacerStep, FilterOrNot, LockForFilter, RedisGet, GetReply, GetFailed, OnHandledNewItem, LockForSet, SetFailed
    <3>2. QED
      BY <1>2, <3>1
  <2>3. QED
    BY <2>1, <2>2, Zenon
<1>7. QED
  BY <1>1, <1>4, <1>5, <1>6, Zenon
=============================================================================
