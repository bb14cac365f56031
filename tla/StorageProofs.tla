--------------------------- MODULE StorageProofs ---------------------------
(***************************************************************************)
(* How full a bucket of a chat becomes, for every number of servers and    *)
(* writes, every block and bucket size, and whichever writes fail or are   *)
(* cancelled.                                                              *)
(***************************************************************************)
EXTENDS MessagePath, FiniteSetTheorems, TLAPS

\* The plan of the storage service is that of a setup: a write goes to a server.
TableFits == \A w \in DOMAIN tablePlan.at : w \in Writes /\ tablePlan.at[w] \in Servers

\* Types, as far as the argument needs them.
WriteStates == {"new", "lock", "recheck", "incr", "write", "orphan", "stored", "answered", "leaked"}
Early == {"new", "lock", "recheck", "incr"}
CacheLines == [curr : Int, end : Int, bucket : Int]
WriteTable == [Writes -> [pc : WriteStates, bucket : Int]]

\* What a cache line can still give.
Spare(l) == IF l.end > 0 THEN (l.curr + 1) .. (l.end - 1) ELSE {}

\* The numbers of bucket b that the servers can still give, and the writes that have one.
Free(l, b) == {x \in Servers \X Int : l[x[1]].bucket = b /\ x[2] \in Spare(l[x[1]])}
Held(wr, b) == {w \in Writes : wr[w].bucket = b}

\* How many numbers of bucket b the counter c has given out.
Capacity(b, c) ==
    IF c <= b * BucketSize THEN 0 ELSE IF c >= b * BucketSize + BucketSize THEN BucketSize ELSE c - b * BucketSize

TableTyped ==
    /\ line \in [Servers -> CacheLines]
    /\ waiters \in [Servers -> Seq(Writes)]
    /\ write \in WriteTable
    /\ count \in Nat /\ undo \in Nat /\ slack \in Nat

\* The counter is a whole number of blocks, and what will be rolled back was added.
WholeBlocks == \E k \in Nat : count = k * Block /\ undo <= k

\* Who waits for the lock of a server waits once, for its own server.
Waiting == {"lock", "recheck"}
InLine(q, s, wr) ==
    /\ \A i \in 1 .. Len(q) :
          q[i] \in DOMAIN tablePlan.at /\ tablePlan.at[q[i]] = s /\ wr[q[i]].pc \in Waiting
    /\ \A i, j \in 1 .. Len(q) : i # j => q[i] # q[j]

Numbered ==
    /\ \A w \in Writes :
          /\ write[w].pc # "new" => w \in DOMAIN tablePlan.at
          /\ write[w].pc \in Early => write[w].bucket = -1
          /\ write[w].pc \in {"write", "orphan"} => write[w].bucket \in Nat
    /\ \A s \in Servers : line[s].end > 0 => line[s].curr < line[s].end /\ line[s].bucket \in Nat
    /\ \A x \in written : x \in Writes \X Nat /\ write[x[1]].bucket = x[2]

\* The numbers of a bucket that are taken or can be taken do not exceed what was given
\* out and given back.
Counted(wr, l, c, n) ==
    \A b \in Nat :
        IsFiniteSet(Free(l, b)) /\ Cardinality(Held(wr, b)) + Cardinality(Free(l, b)) <= Capacity(b, c) + n

\* The inductive invariant.
TableInv ==
    /\ TableTyped /\ WholeBlocks /\ Numbered
    /\ \A s \in Servers : InLine(waiters[s], s, write)
    /\ Counted(write, line, count, slack)

-----------------------------------------------------------------------------
(* Counting *)

\* With one more element.
LEMMA OneMore ==
    ASSUME NEW S, NEW x, IsFiniteSet(S)
    PROVE  IsFiniteSet(S \cup {x}) /\ Cardinality(S \cup {x}) <= Cardinality(S) + 1 /\ Cardinality(S) \in Nat
BY FS_AddElement, FS_CardinalityType

\* Without one of its elements.
LEMMA OneLess ==
    ASSUME NEW S, NEW x \in S, IsFiniteSet(S)
    PROVE  IsFiniteSet(S \ {x}) /\ Cardinality(S \ {x}) = Cardinality(S) - 1
BY FS_RemoveElement, Zenon

\* A number of a bucket that is full is not beyond the bucket.
LEMMA CapacityRises ==
    ASSUME NEW b \in Nat, NEW c \in Nat, NEW d \in Nat, c <= d
    PROVE  Capacity(b, c) \in Nat /\ Capacity(b, c) <= Capacity(b, d) /\ Capacity(b, d) <= Capacity(b, c) + (d - c)
<1>1. b * BucketSize \in Nat /\ BucketSize \in Nat
  BY PathAssumption
<1> DEFINE z == b * BucketSize
<1> HIDE DEF z
<1>2. /\ Capacity(b, c) = IF c <= z THEN 0 ELSE IF c >= z + BucketSize THEN BucketSize ELSE c - z
      /\ Capacity(b, d) = IF d <= z THEN 0 ELSE IF d >= z + BucketSize THEN BucketSize ELSE d - z
      /\ z \in Nat
  BY <1>1, Zenon DEF Capacity, z
<1>3. QED
  BY <1>1, <1>2

\* A block is part of one bucket.
LEMMA BlockFits ==
    ASSUME NEW k \in Nat
    PROVE  LET c == k * Block
               b == c \div BucketSize
           IN  b \in Nat /\ c \in Nat /\ Capacity(b, c + Block) = Capacity(b, c) + Block
<1> DEFINE c == k * Block
           b == c \div BucketSize
<1>1. c \in Nat /\ Block \in Nat \ {0} /\ BucketSize \in Nat \ {0} /\ BucketSize % Block = 0
  <2>1. Block \in Nat \ {0} /\ BucketSize \in Nat \ {0} /\ BucketSize % Block = 0
    BY PathAssumption, Zenon
  <2>2. QED
    BY <2>1
<1>2. PICK q \in Nat : BucketSize = q * Block
  <2>1. BucketSize \div Block \in Nat /\ BucketSize = (BucketSize \div Block) * Block
    BY <1>1
  <2>2. QED
    BY <2>1, Zenon
<1> HIDE DEF c
<1>3. b \in Nat /\ b * BucketSize <= c /\ c < b * BucketSize + BucketSize
  BY <1>1
<1> HIDE DEF b
<1> DEFINE z == b * BucketSize
           y == b * q + q
<1>4. z + BucketSize = y * Block /\ y \in Int /\ z \in Nat
  BY <1>1, <1>2, <1>3
<1>5. k * Block < y * Block
  BY <1>3, <1>4, Zenon DEF c
<1>6. k + 1 <= y
  <2> HIDE DEF y
  <2>1. QED
    BY <1>1, <1>4, <1>5
<1>7. (k + 1) * Block <= y * Block /\ (k + 1) * Block = k * Block + Block
  <2> HIDE DEF y
  <2>1. QED
    BY <1>1, <1>4, <1>6
<1>8. c + Block <= z + BucketSize /\ z <= c
  BY <1>3, <1>4, <1>7, Zenon DEF c
<1>9. /\ Capacity(b, c) = IF c <= z THEN 0 ELSE IF c >= z + BucketSize THEN BucketSize ELSE c - z
      /\ Capacity(b, c + Block) = IF c + Block <= z THEN 0 ELSE IF c + Block >= z + BucketSize THEN BucketSize ELSE c + Block - z
  BY <1>1, <1>3, <1>4 DEF Capacity
<1> HIDE DEF z
<1>10. Capacity(b, c + Block) = Capacity(b, c) + Block
  BY <1>1, <1>4, <1>8, <1>9
<1>11. QED
  BY <1>1, <1>3, <1>10, Zenon DEF b, c

\* A write that gets a number of bucket b.
LEMMA HeldGrows ==
    ASSUME NEW wr \in WriteTable, NEW ws, NEW w \in Writes, wr[w].bucket = -1, NEW b \in Nat,
           \A v \in Writes : ws[v].bucket = IF v = w THEN b ELSE wr[v].bucket
    PROVE  \A a \in Nat : Cardinality(Held(ws, a)) = Cardinality(Held(wr, a)) + (IF a = b THEN 1 ELSE 0)
<1> TAKE a \in Nat
<1>1. IsFiniteSet(Held(wr, a)) /\ w \notin Held(wr, a)
  BY PathAssumption, FS_Subset DEF Held
<1>2. CASE a = b
  <2>1. Held(ws, a) = Held(wr, a) \cup {w}
    BY <1>2, Zenon DEF Held
  <2>2. QED
    BY <1>1, <1>2, <2>1, FS_AddElement, FS_CardinalityType, Zenon
<1>3. CASE a # b
  <2>1. Held(ws, a) = Held(wr, a)
    BY <1>1, <1>3, Zenon DEF Held
  <2>2. QED
    BY <1>1, <1>3, <2>1, FS_CardinalityType
<1>4. QED
  BY <1>2, <1>3, Zenon

\* The pc of a write does not count.
LEMMA HeldStays ==
    ASSUME NEW wr \in WriteTable, NEW w \in Writes, NEW pc
    PROVE  \A a \in Nat : Held([wr EXCEPT ![w].pc = pc], a) = Held(wr, a)
<1>1. \A v \in Writes : [wr EXCEPT ![w].pc = pc][v].bucket = wr[v].bucket
  BY Zenon DEF WriteTable
<1>2. QED
  BY <1>1, Zenon DEF Held

\* A line gives a number.
LEMMA FreeShrinks ==
    ASSUME NEW l \in [Servers -> CacheLines], NEW s \in Servers, l[s].end > 0, l[s].curr + 1 < l[s].end,
           NEW b \in Nat, IsFiniteSet(Free(l, b))
    PROVE  LET m == [l EXCEPT ![s].curr = @ + 1]
           IN  /\ IsFiniteSet(Free(m, b))
               /\ Cardinality(Free(m, b)) = Cardinality(Free(l, b)) - (IF l[s].bucket = b THEN 1 ELSE 0)
<1> DEFINE m == [l EXCEPT ![s].curr = @ + 1]
           n == l[s].curr + 1
<1>1. /\ n \in Int /\ l[s].end \in Int /\ l[s].curr \in Int
      /\ m[s].curr = n /\ m[s].end = l[s].end /\ m[s].bucket = l[s].bucket
      /\ \A t \in Servers : t # s => m[t] = l[t]
  BY DEF CacheLines
<1> HIDE DEF m
<1>2. Spare(m[s]) = Spare(l[s]) \ {n} /\ n \in Spare(l[s])
  BY <1>1 DEF Spare
<1>3. CASE l[s].bucket = b
  <2>1. <<s, n>> \in Free(l, b)
    BY <1>1, <1>2, <1>3, Zenon DEF Free
  <2>2. Free(m, b) = Free(l, b) \ {<<s, n>>}
    <3>1. ASSUME NEW t \in Servers, NEW i \in Int
          PROVE  <<t, i>> \in Free(m, b) <=> <<t, i>> \in Free(l, b) /\ <<t, i>> # <<s, n>>
      <4>1. CASE t = s
        BY <1>1, <1>2, <4>1, Zenon DEF Free
      <4>2. CASE t # s
        BY <1>1, <4>2, Zenon DEF Free
      <4>3. QED
        BY <4>1, <4>2, Zenon
    <3>2. Free(m, b) \subseteq Servers \X Int /\ Free(l, b) \subseteq Servers \X Int
      BY Zenon DEF Free
    <3>3. QED
      BY <3>1, <3>2
  <2> HIDE DEF n
  <2>3. IsFiniteSet(Free(l, b) \ {<<s, n>>}) /\ Cardinality(Free(l, b) \ {<<s, n>>}) = Cardinality(Free(l, b)) - 1
    BY <2>1, OneLess, Zenon
  <2>4. QED
    BY <1>3, <2>2, <2>3, Zenon DEF m
<1>4. CASE l[s].bucket # b
  <2>1. Free(m, b) = Free(l, b)
    <3>1. \A t \in Servers : m[t].bucket = l[t].bucket /\ (m[t].bucket = b => Spare(m[t]) = Spare(l[t]))
      BY <1>1, <1>4, Zenon
    <3>2. QED
      BY <3>1, Zenon DEF Free
  <2>2. QED
    BY <1>4, <2>1, FS_CardinalityType DEF m
<1>5. QED
  BY <1>3, <1>4, Zenon

\* A line takes a number back.
LEMMA FreeGrows ==
    ASSUME NEW l \in [Servers -> CacheLines], NEW s \in Servers, NEW n \in {1, 2},
           NEW b \in Nat, IsFiniteSet(Free(l, b))
    PROVE  LET m == [l EXCEPT ![s].curr = @ - n]
           IN  IsFiniteSet(Free(m, b)) /\ Cardinality(Free(m, b)) <= Cardinality(Free(l, b)) + n
<1> DEFINE m == [l EXCEPT ![s].curr = @ - n]
           c == l[s].curr
           one == Free(l, b) \cup {<<s, c>>}
           two == one \cup {<<s, c - 1>>}
<1>1. /\ c \in Int /\ l[s].end \in Int
      /\ m[s].curr = c - n /\ m[s].end = l[s].end /\ m[s].bucket = l[s].bucket
      /\ \A t \in Servers : t # s => m[t] = l[t]
  BY Zenon DEF CacheLines
<1> HIDE DEF m
<1>2. \A i \in Spare(m[s]) : i \in Spare(l[s]) \/ i = c \/ (n = 2 /\ i = c - 1)
  BY <1>1 DEF Spare
<1>3. ASSUME NEW t \in Servers, NEW i \in Int, <<t, i>> \in Free(m, b)
      PROVE  <<t, i>> \in Free(l, b) \/ <<t, i>> = <<s, c>> \/ (n = 2 /\ <<t, i>> = <<s, c - 1>>)
  <2>1. CASE t = s
    BY <1>1, <1>2, <1>3, <2>1, Zenon DEF Free
  <2>2. CASE t # s
    BY <1>1, <1>3, <2>2, Zenon DEF Free
  <2>3. QED
    BY <2>1, <2>2, Zenon
<1>4. Free(m, b) \subseteq IF n = 1 THEN one ELSE two
  <2>1. Free(m, b) \subseteq Servers \X Int
    BY Zenon DEF Free
  <2>2. QED
    BY <1>3, <2>1
<1>5. IsFiniteSet(one) /\ Cardinality(one) <= Cardinality(Free(l, b)) + 1
  BY OneMore, Zenon
<1>6. IsFiniteSet(two) /\ Cardinality(two) <= Cardinality(one) + 1
  <2> HIDE DEF one
  <2>1. QED
    BY <1>5, OneMore, Zenon
<1>7. Cardinality(one) \in Nat /\ Cardinality(two) \in Nat /\ Cardinality(Free(l, b)) \in Nat
  BY <1>5, <1>6, FS_CardinalityType, Zenon
<1> HIDE DEF one, two
<1>8. CASE n = 1
  <2>1. Free(m, b) \subseteq one
    BY <1>4, <1>8, Zenon
  <2>2. IsFiniteSet(Free(m, b)) /\ Cardinality(Free(m, b)) <= Cardinality(one)
    BY <1>5, <2>1, FS_Subset, Zenon
  <2>3. Cardinality(Free(m, b)) \in Nat
    BY <2>2, FS_CardinalityType, Zenon
  <2>4. QED
    BY <1>5, <1>7, <1>8, <2>2, <2>3 DEF m
<1>9. CASE n = 2
  <2>1. Free(m, b) \subseteq two
    BY <1>4, <1>9
  <2>2. IsFiniteSet(Free(m, b)) /\ Cardinality(Free(m, b)) <= Cardinality(two)
    BY <1>6, <2>1, FS_Subset, Zenon
  <2>3. Cardinality(Free(m, b)) \in Nat
    BY <2>2, FS_CardinalityType, Zenon
  <2>4. QED
    BY <1>5, <1>6, <1>7, <1>9, <2>2, <2>3 DEF m
<1>10. QED
  BY <1>8, <1>9, Zenon

\* A line is refilled with the block after c, of which the first number is used.
LEMMA FreeRefilled ==
    ASSUME NEW l \in [Servers -> CacheLines], NEW s \in Servers, NEW c \in Nat, NEW a \in Nat,
           NEW b \in Nat, IsFiniteSet(Free(l, b))
    PROVE  LET m == [l EXCEPT ![s] = [curr |-> c, end |-> c + Block, bucket |-> a]]
           IN  /\ IsFiniteSet(Free(m, b))
               /\ Cardinality(Free(m, b)) <= Cardinality(Free(l, b)) + (IF a = b THEN Block - 1 ELSE 0)
<1> DEFINE m == [l EXCEPT ![s] = [curr |-> c, end |-> c + Block, bucket |-> a]]
           I == (c + 1) .. (c + Block - 1)
           P == {s} \X I
<1>1. Block \in Nat \ {0}
  BY PathAssumption, Zenon
<1>2. /\ m[s].curr = c /\ m[s].end = c + Block /\ m[s].bucket = a
      /\ \A t \in Servers : t # s => m[t] = l[t]
  BY Zenon
<1> HIDE DEF m
<1>3. Spare(m[s]) = I
  BY <1>1, <1>2 DEF Spare
<1>4. IsFiniteSet(P) /\ Cardinality(P) = Block - 1
  <2>1. IsFiniteSet(I) /\ Cardinality(I) = Block - 1
    <3>1. c + 1 \in Int /\ c + Block - 1 \in Int
      BY <1>1
    <3>2. IsFiniteSet(I) /\ Cardinality(I) = IF c + 1 > c + Block - 1 THEN 0 ELSE (c + Block - 1) - (c + 1) + 1
      BY <3>1, FS_Interval, Zenon
    <3>3. QED
      BY <1>1, <3>2
  <2>2. IsFiniteSet({s}) /\ Cardinality({s}) = 1
    BY FS_Singleton, Zenon
  <2> HIDE DEF I
  <2>3. IsFiniteSet(P) /\ Cardinality(P) = Cardinality({s}) * Cardinality(I)
    BY <2>1, <2>2, FS_Product, Zenon
  <2>4. QED
    BY <1>1, <2>1, <2>2, <2>3
<1>5. ASSUME NEW t \in Servers, NEW i \in Int, <<t, i>> \in Free(m, b)
      PROVE  <<t, i>> \in Free(l, b) \/ (a = b /\ <<t, i>> \in P)
  <2>1. CASE t = s
    BY <1>2, <1>3, <1>5, <2>1, Zenon DEF Free
  <2>2. CASE t # s
    BY <1>2, <1>5, <2>2, Zenon DEF Free
  <2>3. QED
    BY <2>1, <2>2, Zenon
<1>6. Free(m, b) \subseteq Servers \X Int
  BY Zenon DEF Free
<1> HIDE DEF P
<1>7. CASE a = b
  <2>1. Free(m, b) \subseteq Free(l, b) \cup P
    BY <1>5, <1>6
  <2>2. /\ IsFiniteSet(Free(l, b) \cup P)
        /\ Cardinality(Free(l, b) \cup P) = Cardinality(Free(l, b)) + Cardinality(P) - Cardinality(Free(l, b) \cap P)
    BY <1>4, FS_Union, Zenon
  <2>3. Cardinality(Free(l, b) \cap P) \in Nat /\ Cardinality(Free(l, b)) \in Nat
    BY <1>4, FS_Intersection, FS_CardinalityType, Zenon
  <2>4. IsFiniteSet(Free(m, b)) /\ Cardinality(Free(m, b)) <= Cardinality(Free(l, b) \cup P)
    BY <2>1, <2>2, FS_Subset, Zenon
  <2>5. Cardinality(Free(m, b)) \in Nat
    BY <2>4, FS_CardinalityType, Zenon
  <2>6. QED
    BY <1>1, <1>4, <1>7, <2>2, <2>3, <2>4, <2>5 DEF m
<1>8. CASE a # b
  <2>1. Free(m, b) \subseteq Free(l, b)
    BY <1>5, <1>6, <1>8
  <2>2. IsFiniteSet(Free(m, b)) /\ Cardinality(Free(m, b)) <= Cardinality(Free(l, b))
    BY <2>1, FS_Subset, Zenon
  <2>3. Cardinality(Free(m, b)) \in Nat /\ Cardinality(Free(l, b)) \in Nat
    BY <2>2, FS_CardinalityType, Zenon
  <2>4. QED
    BY <1>8, <2>2, <2>3 DEF m
<1>9. QED
  BY <1>7, <1>8, Zenon

\* What is held is finite.
LEMMA HeldIsFinite ==
    ASSUME NEW wr, NEW b
    PROVE  Cardinality(Held(wr, b)) \in Nat
<1>1. IsFiniteSet(Held(wr, b))
  BY PathAssumption, FS_Subset, Zenon DEF Held
<1>2. QED
  BY <1>1, FS_CardinalityType, Zenon

\* A number is taken from a line.
LEMMA TakeCounts ==
    ASSUME NEW wr \in WriteTable, NEW l \in [Servers -> CacheLines], NEW c \in Nat, NEW n \in Nat, Counted(wr, l, c, n),
           NEW w \in Writes, wr[w].bucket = -1, NEW pc,
           NEW s \in Servers, l[s].end > 0, l[s].curr + 1 < l[s].end, l[s].bucket \in Nat
    PROVE  Counted([wr EXCEPT ![w] = [pc |-> pc, bucket |-> l[s].bucket]], [l EXCEPT ![s].curr = @ + 1], c, n)
<1> DEFINE ws == [wr EXCEPT ![w] = [pc |-> pc, bucket |-> l[s].bucket]]
           m == [l EXCEPT ![s].curr = @ + 1]
<1> SUFFICES ASSUME NEW b \in Nat
             PROVE  IsFiniteSet(Free(m, b)) /\ Cardinality(Held(ws, b)) + Cardinality(Free(m, b)) <= Capacity(b, c) + n
  BY Zenon DEF Counted
<1>1. IsFiniteSet(Free(l, b)) /\ Cardinality(Held(wr, b)) + Cardinality(Free(l, b)) <= Capacity(b, c) + n
  BY Zenon DEF Counted
<1>2. Cardinality(Held(ws, b)) = Cardinality(Held(wr, b)) + (IF b = l[s].bucket THEN 1 ELSE 0)
  <2>1. \A v \in Writes : ws[v].bucket = IF v = w THEN l[s].bucket ELSE wr[v].bucket
    BY Zenon DEF WriteTable
  <2> HIDE DEF ws
  <2>2. QED
    BY <2>1, HeldGrows
<1>3. /\ IsFiniteSet(Free(m, b))
      /\ Cardinality(Free(m, b)) = Cardinality(Free(l, b)) - (IF l[s].bucket = b THEN 1 ELSE 0)
  BY <1>1, FreeShrinks, Zenon
<1>4. Cardinality(Held(wr, b)) \in Nat /\ Cardinality(Free(l, b)) \in Nat /\ Capacity(b, c) \in Nat
  BY <1>1, HeldIsFinite, FS_CardinalityType, CapacityRises
<1> HIDE DEF ws, m
<1>5. CASE b = l[s].bucket
  BY <1>1, <1>2, <1>3, <1>4, <1>5
<1>6. CASE b # l[s].bucket
  BY <1>1, <1>2, <1>3, <1>4, <1>6
<1>7. QED
  BY <1>5, <1>6, Zenon

\* A number is given back.
LEMMA BackCounts ==
    ASSUME NEW wr \in WriteTable, NEW l \in [Servers -> CacheLines], NEW c \in Nat, NEW n \in Nat, Counted(wr, l, c, n),
           NEW w \in Writes, NEW pc, NEW s \in Servers, NEW k \in {1, 2}
    PROVE  Counted([wr EXCEPT ![w].pc = pc], [l EXCEPT ![s].curr = @ - k], c, n + k)
<1> DEFINE ws == [wr EXCEPT ![w].pc = pc]
           m == [l EXCEPT ![s].curr = @ - k]
<1> SUFFICES ASSUME NEW b \in Nat
             PROVE  IsFiniteSet(Free(m, b)) /\ Cardinality(Held(ws, b)) + Cardinality(Free(m, b)) <= Capacity(b, c) + (n + k)
  BY Zenon DEF Counted
<1>1. IsFiniteSet(Free(l, b)) /\ Cardinality(Held(wr, b)) + Cardinality(Free(l, b)) <= Capacity(b, c) + n
  BY Zenon DEF Counted
<1>2. Cardinality(Held(ws, b)) = Cardinality(Held(wr, b))
  BY HeldStays
<1>3. IsFiniteSet(Free(m, b)) /\ Cardinality(Free(m, b)) <= Cardinality(Free(l, b)) + k
  BY <1>1, FreeGrows, Zenon
<1>4. Cardinality(Held(wr, b)) \in Nat /\ Cardinality(Free(l, b)) \in Nat /\ Capacity(b, c) \in Nat
  BY <1>1, HeldIsFinite, FS_CardinalityType, CapacityRises
<1>5. Cardinality(Free(m, b)) \in Nat
  BY <1>3, FS_CardinalityType, Zenon
<1> HIDE DEF ws, m
<1>6. QED
  BY <1>1, <1>2, <1>3, <1>4, <1>5

\* The pc changes, and the counter may rise.
LEMMA RiseCounts ==
    ASSUME NEW wr \in WriteTable, NEW l, NEW c \in Nat, NEW d \in Nat, c <= d, NEW n \in Nat, Counted(wr, l, c, n),
           NEW w \in Writes, NEW pc
    PROVE  Counted([wr EXCEPT ![w].pc = pc], l, d, n)
<1> DEFINE ws == [wr EXCEPT ![w].pc = pc]
<1> SUFFICES ASSUME NEW b \in Nat
             PROVE  IsFiniteSet(Free(l, b)) /\ Cardinality(Held(ws, b)) + Cardinality(Free(l, b)) <= Capacity(b, d) + n
  BY Zenon DEF Counted
<1>1. IsFiniteSet(Free(l, b)) /\ Cardinality(Held(wr, b)) + Cardinality(Free(l, b)) <= Capacity(b, c) + n
  BY Zenon DEF Counted
<1>2. Cardinality(Held(ws, b)) = Cardinality(Held(wr, b))
  BY HeldStays
<1>3. /\ Cardinality(Held(wr, b)) \in Nat /\ Cardinality(Free(l, b)) \in Nat
      /\ Capacity(b, c) \in Nat /\ Capacity(b, d) \in Nat /\ Capacity(b, c) <= Capacity(b, d)
  <2>1. d <= d
    OBVIOUS
  <2>2. Capacity(b, c) \in Nat /\ Capacity(b, d) \in Nat /\ Capacity(b, c) <= Capacity(b, d)
    BY <2>1, CapacityRises, Zenon
  <2>3. QED
    BY <1>1, <2>2, HeldIsFinite, FS_CardinalityType, Zenon
<1> HIDE DEF ws
<1>4. QED
  BY <1>1, <1>2, <1>3

\* A block is rolled back.
LEMMA RollCounts ==
    ASSUME NEW wr, NEW l, NEW c \in Nat, NEW d \in Nat, d = c + Block, NEW n \in Nat, Counted(wr, l, d, n)
    PROVE  Counted(wr, l, c, n + Block)
<1> SUFFICES ASSUME NEW b \in Nat
             PROVE  IsFiniteSet(Free(l, b)) /\ Cardinality(Held(wr, b)) + Cardinality(Free(l, b)) <= Capacity(b, c) + (n + Block)
  BY Zenon DEF Counted
<1>1. IsFiniteSet(Free(l, b)) /\ Cardinality(Held(wr, b)) + Cardinality(Free(l, b)) <= Capacity(b, d) + n
  BY Zenon DEF Counted
<1>2. Block \in Nat /\ c <= d /\ d <= d /\ d - c = Block
  BY PathAssumption
<1>3. Capacity(b, c) \in Nat /\ Capacity(b, d) \in Nat /\ Capacity(b, d) <= Capacity(b, c) + (d - c)
  BY <1>2, CapacityRises, Zenon
<1>4. Cardinality(Held(wr, b)) \in Nat /\ Cardinality(Free(l, b)) \in Nat
  BY <1>1, HeldIsFinite, FS_CardinalityType, Zenon
<1>5. QED
  BY <1>1, <1>2, <1>3, <1>4

\* A write takes a block and uses its first number.
LEMMA RefillCounts ==
    ASSUME NEW wr \in WriteTable, NEW l \in [Servers -> CacheLines], NEW k \in Nat, NEW n \in Nat,
           Counted(wr, l, k * Block, n), NEW w \in Writes, wr[w].bucket = -1, NEW pc, NEW s \in Servers
    PROVE  LET c == k * Block
               a == c \div BucketSize
           IN  Counted([wr EXCEPT ![w] = [pc |-> pc, bucket |-> a]],
                       [l EXCEPT ![s] = [curr |-> c, end |-> c + Block, bucket |-> a]], c + Block, n)
<1> DEFINE c == k * Block
           a == c \div BucketSize
           ws == [wr EXCEPT ![w] = [pc |-> pc, bucket |-> a]]
           m == [l EXCEPT ![s] = [curr |-> c, end |-> c + Block, bucket |-> a]]
<1> SUFFICES ASSUME NEW b \in Nat
             PROVE  IsFiniteSet(Free(m, b)) /\ Cardinality(Held(ws, b)) + Cardinality(Free(m, b)) <= Capacity(b, c + Block) + n
  BY Zenon DEF Counted
<1>1. IsFiniteSet(Free(l, b)) /\ Cardinality(Held(wr, b)) + Cardinality(Free(l, b)) <= Capacity(b, c) + n
  BY Zenon DEF Counted
<1>2. c \in Nat /\ a \in Nat /\ Block \in Nat \ {0} /\ Capacity(a, c + Block) = Capacity(a, c) + Block
  BY BlockFits, PathAssumption, Zenon
<1> HIDE DEF c, a
<1>3. c + Block \in Nat /\ c <= c + Block
  BY <1>2
<1>4. Cardinality(Held(ws, b)) = Cardinality(Held(wr, b)) + (IF b = a THEN 1 ELSE 0)
  <2>1. \A v \in Writes : ws[v].bucket = IF v = w THEN a ELSE wr[v].bucket
    BY Zenon DEF WriteTable
  <2> HIDE DEF ws
  <2>2. QED
    BY <1>2, <2>1, HeldGrows
<1>5. /\ IsFiniteSet(Free(m, b))
      /\ Cardinality(Free(m, b)) <= Cardinality(Free(l, b)) + (IF a = b THEN Block - 1 ELSE 0)
  BY <1>1, <1>2, FreeRefilled, Zenon
<1>6. /\ Cardinality(Held(wr, b)) \in Nat /\ Cardinality(Free(l, b)) \in Nat /\ Cardinality(Free(m, b)) \in Nat
      /\ Capacity(b, c) \in Nat /\ Capacity(b, c + Block) \in Nat /\ Capacity(b, c) <= Capacity(b, c + Block)
  BY <1>1, <1>2, <1>3, <1>5, HeldIsFinite, FS_CardinalityType, CapacityRises
<1> HIDE DEF ws, m
<1>7. CASE b = a
  BY <1>1, <1>2, <1>4, <1>5, <1>6, <1>7
<1>8. CASE b # a
  BY <1>1, <1>2, <1>4, <1>5, <1>6, <1>8
<1>9. QED
  BY <1>5, <1>7, <1>8, Zenon

-----------------------------------------------------------------------------
(* The queue of a lock *)

Absent(q, w) == \A i \in 1 .. Len(q) : q[i] # w

\* A write that does not wait is in no queue, and a write is in no queue but that of its server.
LEMMA NotInLine ==
    ASSUME NEW q, NEW s, NEW wr, InLine(q, s, wr), NEW w, wr[w].pc \notin Waiting \/ tablePlan.at[w] # s
    PROVE  Absent(q, w)
BY Zenon DEF InLine, Absent

\* The queue does not notice what becomes of others.
LEMMA LineStays ==
    ASSUME NEW q \in Seq(Writes), NEW s, NEW wr, InLine(q, s, wr), NEW w, Absent(q, w),
           NEW ws, \A v \in Writes : v # w => ws[v] = wr[v]
    PROVE  InLine(q, s, ws)
<1>1. \A i \in 1 .. Len(q) : q[i] \in Writes
  OBVIOUS
<1>2. QED
  BY <1>1, Zenon DEF InLine, Absent

\* A write joins the queue of its server.
LEMMA LineGrows ==
    ASSUME NEW q \in Seq(Writes), NEW s, NEW wr, InLine(q, s, wr), NEW w \in Writes, Absent(q, w),
           w \in DOMAIN tablePlan.at, tablePlan.at[w] = s,
           NEW ws, (\A v \in Writes : v # w => ws[v] = wr[v]), ws[w].pc \in Waiting
    PROVE  InLine(Append(q, w), s, ws)
<1> DEFINE p == Append(q, w)
<1>1. InLine(q, s, ws)
  BY LineStays, Zenon
<1>2. /\ Len(p) = Len(q) + 1 /\ Len(q) \in Nat /\ p[Len(q) + 1] = w
      /\ \A i \in 1 .. Len(q) : p[i] = q[i]
  OBVIOUS
<1>3. \A i \in 1 .. Len(p) : i \in 1 .. Len(q) \/ i = Len(q) + 1
  BY <1>2
<1> HIDE DEF p
<1>4. \A i \in 1 .. Len(p) : p[i] \in DOMAIN tablePlan.at /\ tablePlan.at[p[i]] = s /\ ws[p[i]].pc \in Waiting
  BY <1>1, <1>2, <1>3, Zenon DEF InLine
<1>5. \A i, j \in 1 .. Len(p) : i # j => p[i] # p[j]
  BY <1>1, <1>2, <1>3 DEF InLine, Absent
<1>6. QED
  BY <1>4, <1>5, Zenon DEF InLine, p

\* The first one leaves.
LEMMA LineMoves ==
    ASSUME NEW q \in Seq(Writes), NEW s, NEW wr, InLine(q, s, wr), q # <<>>
    PROVE  /\ Tail(q) \in Seq(Writes) /\ InLine(Tail(q), s, wr) /\ Absent(Tail(q), Head(q)) /\ Head(q) \in Writes
           /\ wr[Head(q)].pc \in Waiting /\ Head(q) \in DOMAIN tablePlan.at /\ tablePlan.at[Head(q)] = s
<1> DEFINE p == Tail(q)
<1>1. /\ Len(p) = Len(q) - 1 /\ Len(q) \in Nat \ {0} /\ p \in Seq(Writes)
      /\ \A i \in 1 .. Len(p) : p[i] = q[i + 1]
      /\ Head(q) = q[1] /\ q[1] \in Writes
  OBVIOUS
<1>2. 1 \in 1 .. Len(q) /\ \A i \in 1 .. Len(p) : i + 1 \in 1 .. Len(q) /\ i + 1 # 1
  BY <1>1
<1>3. \A i, j \in 1 .. Len(p) : i # j => i + 1 # j + 1
  BY <1>1
<1> HIDE DEF p
<1>4. InLine(p, s, wr)
  BY <1>1, <1>2, <1>3 DEF InLine
<1>5. Absent(p, q[1])
  BY <1>1, <1>2 DEF InLine, Absent
<1>6. QED
  BY <1>1, <1>2, <1>4, <1>5, Zenon DEF InLine, p

\* Two sequences, one after the other.
LEMMA Joined ==
    ASSUME NEW f \in Seq(Writes), NEW r \in Seq(Writes)
    PROVE  f \o r \in Seq(Writes) /\ Len(f \o r) = Len(f) + Len(r)
OBVIOUS

\* One in the middle leaves.
LEMMA LineLeft ==
    ASSUME NEW q \in Seq(Writes), NEW s, NEW wr, InLine(q, s, wr), NEW k \in 1 .. Len(q)
    PROVE  LET p == SubSeq(q, 1, k - 1) \o SubSeq(q, k + 1, Len(q))
           IN  p \in Seq(Writes) /\ InLine(p, s, wr) /\ Absent(p, q[k])
<1> DEFINE front == SubSeq(q, 1, k - 1)
           rest == SubSeq(q, k + 1, Len(q))
           p == front \o rest
           From(i) == IF i < k THEN i ELSE i + 1
<1>1. Len(q) \in Nat /\ k \in Nat /\ 1 <= k /\ k <= Len(q)
  OBVIOUS
<1>2. /\ front \in Seq(Writes) /\ Len(front) = k - 1
      /\ rest \in Seq(Writes) /\ Len(rest) = Len(q) - k
      /\ \A i \in 1 .. (k - 1) : front[i] = q[i]
      /\ \A i \in 1 .. (Len(q) - k) : rest[i] = q[i + k]
  BY <1>1
<1> HIDE DEF front, rest
<1>3. /\ p \in Seq(Writes) /\ Len(p) = Len(q) - 1
      /\ \A i \in 1 .. Len(p) : p[i] = q[From(i)]
  <2>1. p \in Seq(Writes) /\ Len(p) = (k - 1) + (Len(q) - k)
    <3>1. p \in Seq(Writes) /\ Len(p) = Len(front) + Len(rest)
      BY <1>2, Joined, Zenon
    <3>2. QED
      BY <1>2, <3>1, Zenon
  <2>2. Len(p) = Len(q) - 1
    BY <1>1, <2>1
  <2>3. ASSUME NEW i \in 1 .. Len(p) PROVE p[i] = q[From(i)]
    <3>1. CASE i < k
      <4>1. i \in 1 .. (k - 1)
        BY <1>1, <3>1
      <4>2. p[i] = front[i]
        BY <1>1, <1>2, <2>1, <4>1
      <4>3. QED
        BY <1>2, <3>1, <4>1, <4>2, Zenon
    <3>2. CASE ~(i < k)
      <4>1. i - (k - 1) \in 1 .. (Len(q) - k) /\ (i - (k - 1)) + k = i + 1
        BY <1>1, <2>2, <3>2
      <4>2. p[i] = rest[i - (k - 1)]
        BY <1>1, <1>2, <2>2, <3>2
      <4>3. rest[i - (k - 1)] = q[(i - (k - 1)) + k]
        BY <1>2, <4>1, Zenon
      <4>4. QED
        BY <3>2, <4>1, <4>2, <4>3, Zenon
    <3>3. QED
      BY <3>1, <3>2, Zenon
  <2>4. QED
    BY <2>1, <2>2, <2>3, Zenon
<1>4. \A i \in 1 .. Len(p) : From(i) \in 1 .. Len(q) /\ From(i) # k
  <2> HIDE DEF p
  <2>1. QED
    BY <1>1, <1>3
<1>5. \A i, j \in 1 .. Len(p) : i # j => From(i) # From(j)
  BY <1>1, <1>3
<1> HIDE DEF p, From
<1>6. InLine(p, s, wr)
  BY <1>3, <1>4, <1>5 DEF InLine
<1>7. Absent(p, q[k])
  BY <1>3, <1>4, Zenon DEF InLine, Absent
<1>8. QED
  BY <1>3, <1>6, <1>7, Zenon DEF p, front, rest

-----------------------------------------------------------------------------
(* The steps of the storage service *)

\* The write w goes on, with its number or with one it had not before.
LEMMA NumberedKeeps ==
    ASSUME Numbered, tablePlan' = tablePlan, NEW w \in Writes, w \in DOMAIN tablePlan.at,
           \A v \in Writes : v # w => write'[v] = write[v],
           write'[w].bucket = write[w].bucket \/ write[w].bucket = -1,
           write'[w].pc \in Early => write'[w].bucket = -1,
           write'[w].pc \in {"write", "orphan"} => write'[w].bucket \in Nat,
           \/ written' = written
           \/ write[w].bucket \in Nat /\ written' = written \cup {<<w, write[w].bucket>>},
           \A s \in Servers : line'[s].end > 0 => line'[s].curr < line'[s].end /\ line'[s].bucket \in Nat
    PROVE  Numbered'
<1>1. ASSUME NEW v \in Writes
      PROVE  /\ write'[v].pc # "new" => v \in DOMAIN tablePlan'.at
             /\ write'[v].pc \in Early => write'[v].bucket = -1
             /\ write'[v].pc \in {"write", "orphan"} => write'[v].bucket \in Nat
  <2>1. CASE v = w
    BY <2>1, Zenon
  <2>2. CASE v # w
    BY <2>2, Zenon DEF Numbered
  <2>3. QED
    BY <2>1, <2>2, Zenon
<1>2. ASSUME NEW x \in written PROVE x \in Writes \X Nat /\ write'[x[1]].bucket = x[2]
  <2>1. x \in Writes \X Nat /\ write[x[1]].bucket = x[2]
    BY <1>2, Zenon DEF Numbered
  <2>2. x[1] \in Writes /\ x[2] \in Nat
    BY <2>1, Zenon
  <2>3. x[1] = w => write[w].bucket # -1
    BY <2>1, <2>2
  <2>4. QED
    BY <2>1, <2>2, <2>3, Zenon
<1>3. ASSUME NEW x \in written' PROVE x \in Writes \X Nat /\ write'[x[1]].bucket = x[2]
  <2>1. CASE x \in written
    BY <1>2, <2>1, Zenon
  <2>2. CASE x \notin written
    <3>1. x = <<w, write[w].bucket>> /\ write[w].bucket \in Nat
      BY <1>3, <2>2, Zenon
    <3>2. write'[w].bucket = write[w].bucket
      BY <3>1
    <3>3. QED
      BY <3>1, <3>2, Zenon
  <2>3. QED
    BY <2>1, <2>2, Zenon
<1>4. QED
  BY <1>1, <1>3, Zenon DEF Numbered

\* The other queues, and the queue of w when w does not wait.
LEMMA QueuesStay ==
    ASSUME TableInv, tablePlan' = tablePlan, NEW w \in Writes, write[w].pc \notin Waiting,
           \A v \in Writes : v # w => write'[v] = write[v], waiters' = waiters
    PROVE  \A s \in Servers : InLine(waiters'[s], s, write')
<1> TAKE s \in Servers
<1>1. waiters[s] \in Seq(Writes) /\ InLine(waiters[s], s, write)
  BY Zenon DEF TableInv, TableTyped
<1>2. Absent(waiters[s], w)
  BY <1>1, NotInLine, Zenon
<1>3. InLine(waiters[s], s, write')
  BY <1>1, <1>2, LineStays, Zenon
<1>4. QED
  BY <1>3, Zenon

\* A number is given to w from the line of s.
LEMMA TakeKeeps ==
    ASSUME TableInv, NEW w \in Writes, w \in DOMAIN tablePlan.at, NEW s \in Servers, tablePlan.at[w] = s,
           write[w].bucket = -1, Ready(s), Left(s), TakeNumber(w)
    PROVE  /\ line' \in [Servers -> CacheLines] /\ write' \in WriteTable
           /\ \A v \in Writes : v # w => write'[v] = write[v]
           /\ write'[w].pc = "write" /\ write'[w].bucket \in Nat
           /\ \A t \in Servers : line'[t].end > 0 => line'[t].curr < line'[t].end /\ line'[t].bucket \in Nat
           /\ Counted(write', line', count, slack)
<1>1. /\ line \in [Servers -> CacheLines] /\ write \in WriteTable /\ count \in Nat /\ slack \in Nat
      /\ Counted(write, line, count, slack) /\ Numbered
  BY Zenon DEF TableInv, TableTyped
<1>2. line[s].end > 0 /\ line[s].curr + 1 < line[s].end
  BY Zenon DEF Ready, Left
<1>3. line[s].bucket \in Nat /\ line[s].curr \in Int
  BY <1>1, <1>2, Zenon DEF Numbered, CacheLines
<1>4. /\ line' = [line EXCEPT ![s].curr = @ + 1]
      /\ write' = [write EXCEPT ![w] = [pc |-> "write", bucket |-> line[s].bucket]]
  BY Zenon DEF TakeNumber, Server
<1>5. Counted(write', line', count, slack)
  BY <1>1, <1>2, <1>3, <1>4, TakeCounts, Zenon
<1>6. line' \in [Servers -> CacheLines] /\ write' \in WriteTable
  BY <1>1, <1>3, <1>4 DEF CacheLines, WriteTable, WriteStates
<1>7. /\ \A v \in Writes : v # w => write'[v] = write[v]
      /\ write'[w].pc = "write" /\ write'[w].bucket \in Nat
  BY <1>1, <1>3, <1>4, Zenon DEF WriteTable
<1>8. \A t \in Servers : line'[t].end > 0 => line'[t].curr < line'[t].end /\ line'[t].bucket \in Nat
  <2>1. /\ line'[s].curr = line[s].curr + 1 /\ line'[s].end = line[s].end /\ line'[s].bucket = line[s].bucket
        /\ \A t \in Servers : t # s => line'[t] = line[t]
    BY <1>1, <1>4, Zenon DEF CacheLines
  <2>2. QED
    BY <1>1, <1>2, <1>3, <2>1, Zenon DEF Numbered
<1>9. QED
  BY <1>5, <1>6, <1>7, <1>8, Zenon

\* The parts of the invariant after a step.
LEMMA TableAssembled ==
    ASSUME tablePlan' = tablePlan, line' \in [Servers -> CacheLines], waiters' \in [Servers -> Seq(Writes)], write' \in WriteTable,
           count' \in Nat, undo' \in Nat, slack' \in Nat, WholeBlocks', Numbered',
           \A s \in Servers : InLine(waiters'[s], s, write'), Counted(write', line', count', slack')
    PROVE  TableInv'
<1>1. TableTyped'
  BY Zenon DEF TableTyped, WriteTable, CacheLines, WriteStates
<1>2. (\A s \in Servers : InLine(waiters[s], s, write))'
  BY Zenon DEF InLine, Waiting
<1>3. Counted(write, line, count, slack)'
  BY Zenon DEF Counted, Free, Held, Capacity, Spare
<1>4. QED
  BY <1>1, <1>2, <1>3, Zenon DEF TableInv

\* A write that does not wait for the lock goes on with the number it has.
LEMMA WriteGoesOn ==
    ASSUME TableInv, tablePlan' = tablePlan, NEW w \in Writes, write[w].pc \notin Waiting \cup {"new"}, NEW pc \in WriteStates \ Early,
           pc = "orphan" => write[w].bucket \in Nat, pc # "write",
           write' = [write EXCEPT ![w].pc = pc], waiters' = waiters,
           \/ written' = written
           \/ write[w].bucket \in Nat /\ written' = written \cup {<<w, write[w].bucket>>},
           line' \in [Servers -> CacheLines],
           \A s \in Servers : line'[s].end > 0 => line'[s].curr < line'[s].end /\ line'[s].bucket \in Nat,
           count' \in Nat, undo' \in Nat, slack' \in Nat, WholeBlocks', Counted(write', line', count', slack')
    PROVE  TableInv'
<1>1. /\ write \in WriteTable /\ waiters \in [Servers -> Seq(Writes)] /\ Numbered
  BY Zenon DEF TableInv, TableTyped
<1>2. /\ write' \in WriteTable /\ \A v \in Writes : v # w => write'[v] = write[v]
      /\ write'[w].pc = pc /\ write'[w].bucket = write[w].bucket
  BY <1>1, Zenon DEF WriteTable
<1>3. w \in DOMAIN tablePlan.at
  BY <1>1, Zenon DEF Numbered
<1>4. Numbered'
  BY <1>1, <1>2, <1>3, NumberedKeeps, Zenon
<1>5. \A s \in Servers : InLine(waiters'[s], s, write')
  BY <1>2, QueuesStay, Zenon
<1>6. QED
  BY <1>1, <1>2, <1>4, <1>5, TableAssembled, Zenon

\* The server of a write.
LEMMA ServerOf ==
    ASSUME TableFits, NEW w, w \in DOMAIN tablePlan.at
    PROVE  w \in Writes /\ tablePlan.at[w] \in Servers /\ Server(w) = tablePlan.at[w]
BY Zenon DEF TableFits, Server

\* What stays of the counter.
LEMMA BlocksStay ==
    ASSUME TableInv, count' = count, undo' = undo
    PROVE  WholeBlocks' /\ count' \in Nat /\ undo' \in Nat
BY Zenon DEF TableInv, TableTyped, WholeBlocks

\* What is added to the counter.
LEMMA BlocksRise ==
    ASSUME TableInv, count' = count + Block, undo' \in {undo, undo + 1}
    PROVE  WholeBlocks' /\ count' \in Nat /\ undo' \in Nat /\ count <= count'
<1>1. count \in Nat /\ undo \in Nat /\ Block \in Nat
  BY PathAssumption, Zenon DEF TableInv, TableTyped
<1>2. PICK k \in Nat : count = k * Block /\ undo <= k
  BY Zenon DEF TableInv, WholeBlocks
<1>3. (k + 1) * Block = k * Block + Block
  BY <1>1
<1>4. k + 1 \in Nat /\ count' = (k + 1) * Block /\ undo' <= k + 1
  BY <1>1, <1>2, <1>3
<1>5. WholeBlocks'
  BY <1>4, Zenon DEF WholeBlocks
<1>6. QED
  BY <1>1, <1>5

\* What is taken back from the counter.
LEMMA BlocksFall ==
    ASSUME TableInv, undo > 0, count' = count - Block, undo' = undo - 1
    PROVE  WholeBlocks' /\ count' \in Nat /\ undo' \in Nat /\ count = count' + Block
<1>1. count \in Nat /\ undo \in Nat /\ Block \in Nat
  BY PathAssumption, Zenon DEF TableInv, TableTyped
<1>2. PICK k \in Nat : count = k * Block /\ undo <= k
  BY Zenon DEF TableInv, WholeBlocks
<1>3. k - 1 \in Nat /\ undo' <= k - 1 /\ undo' \in Nat
  BY <1>1, <1>2
<1>4. (k - 1) * Block = k * Block - Block /\ (k - 1) * Block \in Nat
  BY <1>1, <1>3
<1>5. count' = (k - 1) * Block
  BY <1>2, <1>4, Zenon
<1>6. WholeBlocks'
  BY <1>3, <1>5, Zenon DEF WholeBlocks
<1>7. QED
  BY <1>1, <1>3, <1>4, <1>5, <1>6

\* A number is taken, the lock is taken or waited for.
LEMMA CalBucketKeeps ==
    ASSUME TableInv, TableFits, tablePlan' = tablePlan, NEW w \in Writes, CalBucket(w)
    PROVE  TableInv'
<1> DEFINE s == tablePlan.at[w]
<1>1. /\ line \in [Servers -> CacheLines] /\ write \in WriteTable /\ waiters \in [Servers -> Seq(Writes)]
      /\ count \in Nat /\ slack \in Nat /\ Counted(write, line, count, slack) /\ Numbered
      /\ \A t \in Servers : InLine(waiters[t], t, write)
  BY Zenon DEF TableInv, TableTyped
<1>2. w \in DOMAIN tablePlan.at /\ write[w].pc = "new" /\ count' = count /\ undo' = undo /\ written' = written /\ slack' = slack
  BY Zenon DEF CalBucket
<1>3. s \in Servers /\ Server(w) = s
  BY <1>2, ServerOf, Zenon
<1> HIDE DEF s
<1>4. write[w].bucket = -1 /\ write[w].pc \notin Waiting
  BY <1>1, <1>2, Zenon DEF Numbered, Early, Waiting
<1>5. WholeBlocks' /\ count' \in Nat /\ undo' \in Nat
  BY <1>2, BlocksStay, Zenon
<1>6. CASE Ready(s) /\ Left(s)
  <2>1. TakeNumber(w) /\ waiters' = waiters
    BY <1>3, <1>6, Zenon DEF CalBucket
  <2>2. /\ line' \in [Servers -> CacheLines] /\ write' \in WriteTable
        /\ \A v \in Writes : v # w => write'[v] = write[v]
        /\ write'[w].pc = "write" /\ write'[w].bucket \in Nat
        /\ \A t \in Servers : line'[t].end > 0 => line'[t].curr < line'[t].end /\ line'[t].bucket \in Nat
        /\ Counted(write', line', count, slack)
    BY <1>2, <1>3, <1>4, <1>6, <2>1, TakeKeeps, Zenon DEF s
  <2>3. \A t \in Servers : InLine(waiters'[t], t, write')
    BY <1>4, <2>1, <2>2, QueuesStay, Zenon
  <2>4. Numbered'
    BY <1>1, <1>2, <1>4, <2>2, NumberedKeeps, Zenon DEF Early
  <2>5. QED
    BY <1>1, <1>2, <1>5, <2>1, <2>2, <2>3, <2>4, TableAssembled, Zenon
<1>7. CASE ~(Ready(s) /\ Left(s))
  <2>1. PICK pc \in {"incr", "lock", "recheck"} :
          /\ line' = line /\ write' = [write EXCEPT ![w].pc = pc]
          /\ \/ waiters' = waiters
             \/ pc \in Waiting /\ waiters' = [waiters EXCEPT ![s] = Append(@, w)]
    BY <1>3, <1>7, Zenon DEF CalBucket, At, Waiting
  <2>2. /\ write' \in WriteTable /\ \A v \in Writes : v # w => write'[v] = write[v]
        /\ write'[w].pc = pc /\ write'[w].bucket = -1
    BY <1>1, <1>4, <2>1, Zenon DEF WriteTable, WriteStates
  <2>3. Counted(write', line', count', slack')
    <3>1. count <= count
      BY <1>1
    <3>2. QED
      BY <1>1, <1>2, <2>1, <3>1, RiseCounts, Zenon
  <2>4. Numbered'
    BY <1>1, <1>2, <1>4, <2>1, <2>2, NumberedKeeps, Zenon DEF Numbered
  <2>5. waiters' \in [Servers -> Seq(Writes)] /\ \A t \in Servers : InLine(waiters'[t], t, write')
    <3>1. CASE waiters' = waiters
      BY <1>1, <1>4, <2>2, <3>1, QueuesStay, Zenon
    <3>2. CASE pc \in Waiting /\ waiters' = [waiters EXCEPT ![s] = Append(@, w)]
      <4>1. waiters' \in [Servers -> Seq(Writes)]
        <5>1. Append(waiters[s], w) \in Seq(Writes)
          BY <1>1, <1>3
        <5>2. QED
          BY <1>1, <3>2, <5>1, Zenon
      <4>2. waiters'[s] = Append(waiters[s], w) /\ \A t \in Servers : t # s => waiters'[t] = waiters[t]
        BY <1>1, <1>3, <3>2, Zenon
      <4>3. ASSUME NEW t \in Servers PROVE InLine(waiters'[t], t, write')
        <5>1. waiters[t] \in Seq(Writes) /\ InLine(waiters[t], t, write)
          BY <1>1, Zenon
        <5>2. Absent(waiters[t], w)
          BY <1>4, <5>1, NotInLine, Zenon
        <5>3. CASE t = s
          <6>1. InLine(Append(waiters[s], w), s, write')
            BY <1>2, <2>2, <3>2, <5>1, <5>2, <5>3, LineGrows, Zenon DEF s
          <6>2. QED
            BY <4>2, <5>3, <6>1, Zenon
        <5>4. CASE t # s
          <6>1. InLine(waiters[t], t, write')
            BY <2>2, <5>1, <5>2, LineStays, Zenon
          <6>2. QED
            BY <4>2, <5>4, <6>1, Zenon
        <5>5. QED
          BY <5>3, <5>4, Zenon
      <4>4. QED
        BY <4>1, <4>3, Zenon
    <3>3. QED
      BY <2>1, <3>1, <3>2, Zenon
  <2>6. QED
    BY <1>1, <1>2, <1>5, <2>1, <2>2, <2>3, <2>4, <2>5, TableAssembled, Zenon
<1>8. QED
  BY <1>6, <1>7, Zenon

\* The first of the queue has the lock.
LEMMA LockedKeeps ==
    ASSUME TableInv, TableFits, tablePlan' = tablePlan, NEW s \in Servers, Locked(s)
    PROVE  TableInv'
<1> DEFINE w == Head(waiters[s])
<1>1. /\ line \in [Servers -> CacheLines] /\ write \in WriteTable /\ waiters \in [Servers -> Seq(Writes)]
      /\ count \in Nat /\ slack \in Nat /\ Counted(write, line, count, slack) /\ Numbered
      /\ \A t \in Servers : InLine(waiters[t], t, write)
  BY Zenon DEF TableInv, TableTyped
<1>2. /\ waiters[s] # <<>> /\ waiters' = [waiters EXCEPT ![s] = Tail(@)]
      /\ count' = count /\ undo' = undo /\ written' = written /\ slack' = slack
  BY Zenon DEF Locked
<1>3. /\ Tail(waiters[s]) \in Seq(Writes) /\ InLine(Tail(waiters[s]), s, write) /\ Absent(Tail(waiters[s]), w) /\ w \in Writes
      /\ write[w].pc \in Waiting /\ w \in DOMAIN tablePlan.at /\ tablePlan.at[w] = s
  BY <1>1, <1>2, LineMoves, Zenon
<1>4. write[w].bucket = -1
  BY <1>1, <1>3, Zenon DEF Numbered, Early, Waiting
<1>5. WholeBlocks' /\ count' \in Nat /\ undo' \in Nat
  BY <1>2, BlocksStay, Zenon
<1>6. /\ line' \in [Servers -> CacheLines] /\ write' \in WriteTable
      /\ \A v \in Writes : v # w => write'[v] = write[v]
      /\ \/ write'[w].pc = "write" /\ write'[w].bucket \in Nat
         \/ write'[w].pc = "incr" /\ write'[w].bucket = -1
      /\ \A t \in Servers : line'[t].end > 0 => line'[t].curr < line'[t].end /\ line'[t].bucket \in Nat
      /\ Counted(write', line', count, slack)
  <2>1. CASE write[w].pc = "recheck" /\ Ready(s) /\ Left(s)
    <3>1. TakeNumber(w)
      BY <2>1, Zenon DEF Locked
    <3>2. QED
      BY <1>3, <1>4, <2>1, <3>1, TakeKeeps, Zenon
  <2>2. CASE ~(write[w].pc = "recheck" /\ Ready(s) /\ Left(s))
    <3>1. line' = line /\ write' = [write EXCEPT ![w].pc = "incr"]
      BY <2>2, Zenon DEF Locked, At
    <3> HIDE DEF w
    <3>2. /\ write' \in WriteTable /\ \A v \in Writes : v # w => write'[v] = write[v]
          /\ write'[w].pc = "incr" /\ write'[w].bucket = -1
      BY <1>1, <1>3, <1>4, <3>1, Zenon DEF WriteTable, WriteStates
    <3>3. count <= count
      BY <1>1
    <3>4. Counted(write', line', count, slack)
      BY <1>1, <1>3, <3>1, <3>3, RiseCounts, Zenon
    <3>5. QED
      BY <1>1, <3>1, <3>2, <3>4, Zenon DEF Numbered
  <2>3. QED
    BY <2>1, <2>2, Zenon
<1> HIDE DEF w
<1>7. Numbered'
  BY <1>1, <1>2, <1>3, <1>4, <1>6, NumberedKeeps, Zenon DEF Early
<1>8. waiters' \in [Servers -> Seq(Writes)] /\ waiters'[s] = Tail(waiters[s]) /\ \A t \in Servers : t # s => waiters'[t] = waiters[t]
  BY <1>1, <1>2, <1>3, Zenon
<1>9. ASSUME NEW t \in Servers PROVE InLine(waiters'[t], t, write')
  <2>1. CASE t = s
    <3>1. InLine(Tail(waiters[s]), s, write')
      BY <1>3, <1>6, LineStays, Zenon
    <3>2. QED
      BY <1>8, <2>1, <3>1, Zenon
  <2>2. CASE t # s
    <3>1. waiters[t] \in Seq(Writes) /\ InLine(waiters[t], t, write)
      BY <1>1, Zenon
    <3>2. Absent(waiters[t], w)
      BY <1>3, <2>2, <3>1, NotInLine, Zenon
    <3>3. InLine(waiters[t], t, write')
      BY <1>6, <3>1, <3>2, LineStays, Zenon
    <3>4. QED
      BY <1>8, <2>2, <3>3, Zenon
  <2>3. QED
    BY <2>1, <2>2, Zenon
<1>10. QED
  BY <1>1, <1>2, <1>5, <1>6, <1>7, <1>8, <1>9, TableAssembled, Zenon

\* The line takes a new block.
LEMMA IncrementedKeeps ==
    ASSUME TableInv, TableFits, tablePlan' = tablePlan, NEW w \in Writes, Incremented(w)
    PROVE  TableInv'
<1> DEFINE s == tablePlan.at[w]
           a == count \div BucketSize
<1>1. /\ line \in [Servers -> CacheLines] /\ write \in WriteTable /\ waiters \in [Servers -> Seq(Writes)]
      /\ count \in Nat /\ slack \in Nat /\ undo \in Nat /\ Counted(write, line, count, slack) /\ Numbered
      /\ Block \in Nat \ {0}
  BY PathAssumption, Zenon DEF TableInv, TableTyped
<1>2. write[w].pc = "incr" /\ count' = count + Block /\ undo' = undo /\ written' = written /\ slack' = slack /\ waiters' = waiters
  BY Zenon DEF Incremented
<1>3. w \in DOMAIN tablePlan.at /\ write[w].bucket = -1 /\ write[w].pc \notin Waiting
  BY <1>1, <1>2, Zenon DEF Numbered, Early, Waiting
<1>4. s \in Servers /\ Server(w) = s
  BY <1>3, ServerOf, Zenon
<1>5. /\ line' = [line EXCEPT ![s] = [curr |-> count, end |-> count + Block, bucket |-> a]]
      /\ write' = [write EXCEPT ![w] = [pc |-> "write", bucket |-> a]]
  BY <1>4, Zenon DEF Incremented
<1>6. PICK k \in Nat : count = k * Block
  BY Zenon DEF TableInv, WholeBlocks
<1>7. a \in Nat
  BY <1>6, BlockFits, Zenon
<1>8. Counted(write', line', count', slack')
  BY <1>1, <1>2, <1>3, <1>4, <1>5, <1>6, RefillCounts, Zenon
<1>9. WholeBlocks' /\ count' \in Nat /\ undo' \in Nat
  BY <1>2, BlocksRise, Zenon
<1> HIDE DEF s, a
<1>10. /\ line' \in [Servers -> CacheLines] /\ line'[s] = [curr |-> count, end |-> count + Block, bucket |-> a]
       /\ \A t \in Servers : t # s => line'[t] = line[t]
  BY <1>1, <1>4, <1>5, <1>7 DEF CacheLines
<1>11. /\ write' \in WriteTable /\ \A v \in Writes : v # w => write'[v] = write[v]
       /\ write'[w].pc = "write" /\ write'[w].bucket = a
  BY <1>1, <1>5, <1>7 DEF WriteTable, WriteStates
<1>12. \A t \in Servers : line'[t].end > 0 => line'[t].curr < line'[t].end /\ line'[t].bucket \in Nat
  BY <1>1, <1>7, <1>10 DEF Numbered
<1>13. Numbered'
  BY <1>1, <1>2, <1>3, <1>7, <1>11, <1>12, NumberedKeeps, Zenon DEF Early
<1>14. \A t \in Servers : InLine(waiters'[t], t, write')
  BY <1>2, <1>3, <1>11, QueuesStay, Zenon
<1>15. QED
  BY <1>1, <1>2, <1>8, <1>9, <1>10, <1>11, <1>13, <1>14, TableAssembled, Zenon

\* Without an answer from Redis, or cancelled while it is asked: the counter may have risen.
LEMMA NoBlockKeeps ==
    ASSUME TableInv, TableFits, tablePlan' = tablePlan, NEW w \in Writes, write[w].pc = "incr",
           NEW pc \in {"answered", "leaked"}, At(w, pc),
           \/ count' = count /\ undo' = undo
           \/ count' = count + Block /\ undo' \in {undo, undo + 1},
           line' = line, waiters' = waiters, written' = written, slack' = slack
    PROVE  TableInv'
<1>1. /\ line \in [Servers -> CacheLines] /\ write \in WriteTable
      /\ count \in Nat /\ slack \in Nat /\ Counted(write, line, count, slack) /\ Numbered
  BY Zenon DEF TableInv, TableTyped
<1>2. WholeBlocks' /\ count' \in Nat /\ undo' \in Nat /\ count <= count'
  <2>1. count <= count
    BY <1>1
  <2>2. QED
    BY <2>1, BlocksStay, BlocksRise, Zenon
<1>3. write' = [write EXCEPT ![w].pc = pc]
  BY Zenon DEF At
<1>4. Counted(write', line', count', slack')
  BY <1>1, <1>2, <1>3, RiseCounts, Zenon
<1>5. \A s \in Servers : line'[s].end > 0 => line'[s].curr < line'[s].end /\ line'[s].bucket \in Nat
  BY <1>1, Zenon DEF Numbered
<1>6. pc \in WriteStates \ Early /\ pc # "orphan" /\ pc # "write" /\ write[w].pc \notin Waiting \cup {"new"}
  BY Zenon DEF WriteStates, Early, Waiting
<1>7. QED
  BY <1>1, <1>2, <1>3, <1>4, <1>5, <1>6, WriteGoesOn, Zenon

\* The client rolls an increment back.
LEMMA RolledBackKeeps ==
    ASSUME TableInv, tablePlan' = tablePlan, RolledBack
    PROVE  TableInv'
<1>1. /\ line \in [Servers -> CacheLines] /\ write \in WriteTable /\ waiters \in [Servers -> Seq(Writes)]
      /\ count \in Nat /\ slack \in Nat /\ Counted(write, line, count, slack) /\ Numbered /\ Block \in Nat
      /\ \A t \in Servers : InLine(waiters[t], t, write)
  BY PathAssumption, Zenon DEF TableInv, TableTyped
<1>2. /\ undo > 0 /\ undo' = undo - 1 /\ count' = count - Block /\ slack' = slack + Block
      /\ line' = line /\ waiters' = waiters /\ write' = write /\ written' = written
  BY Zenon DEF RolledBack
<1>3. WholeBlocks' /\ count' \in Nat /\ undo' \in Nat /\ count = count' + Block
  BY <1>2, BlocksFall, Zenon
<1>4. Counted(write', line', count', slack')
  BY <1>1, <1>2, <1>3, RollCounts, Zenon
<1>5. Numbered'
  BY <1>1, <1>2, Zenon DEF Numbered
<1>6. slack' \in Nat
  BY <1>1, <1>2
<1>7. QED
  BY <1>1, <1>2, <1>3, <1>4, <1>5, <1>6, TableAssembled, Zenon

\* A write ends or goes on behind the shield; its number may be given back.
LEMMA EndKeeps ==
    ASSUME TableInv, TableFits, tablePlan' = tablePlan, NEW w \in Writes, write[w].pc \in {"write", "orphan"},
           NEW pc \in {"stored", "answered", "orphan"}, At(w, pc),
           Stored(w) \/ written' = written,
           \/ line' = line /\ slack' = slack
           \/ \E n \in {1, 2} : GiveBack(Server(w), n),
           count' = count, undo' = undo, waiters' = waiters
    PROVE  TableInv'
<1> DEFINE s == tablePlan.at[w]
<1>1. /\ line \in [Servers -> CacheLines] /\ write \in WriteTable
      /\ count \in Nat /\ slack \in Nat /\ Counted(write, line, count, slack) /\ Numbered
  BY Zenon DEF TableInv, TableTyped
<1>2. w \in DOMAIN tablePlan.at /\ write[w].bucket \in Nat
  BY <1>1, Zenon DEF Numbered
<1>3. s \in Servers /\ Server(w) = s
  BY <1>2, ServerOf, Zenon
<1> HIDE DEF s
<1>4. WholeBlocks' /\ count' \in Nat /\ undo' \in Nat
  BY BlocksStay, Zenon
<1>5. write' = [write EXCEPT ![w].pc = pc]
  BY Zenon DEF At
<1>6. /\ line' \in [Servers -> CacheLines] /\ slack' \in Nat /\ Counted(write', line', count', slack')
      /\ \A t \in Servers : line'[t].end > 0 => line'[t].curr < line'[t].end /\ line'[t].bucket \in Nat
  <2>1. CASE line' = line /\ slack' = slack
    <3>1. count <= count
      BY <1>1
    <3>2. Counted(write', line', count', slack')
      BY <1>1, <1>5, <2>1, <3>1, RiseCounts, Zenon
    <3>3. QED
      BY <1>1, <2>1, <3>2, Zenon DEF Numbered
  <2>2. ASSUME NEW n \in {1, 2}, GiveBack(s, n)
        PROVE  /\ line' \in [Servers -> CacheLines] /\ slack' \in Nat /\ Counted(write', line', count', slack')
               /\ \A t \in Servers : line'[t].end > 0 => line'[t].curr < line'[t].end /\ line'[t].bucket \in Nat
    <3>1. line' = [line EXCEPT ![s].curr = @ - n] /\ slack' = slack + n
      BY <2>2, Zenon DEF GiveBack
    <3>2. Counted(write', line', count', slack')
      BY <1>1, <1>3, <1>5, <3>1, BackCounts, Zenon
    <3>3. /\ line' \in [Servers -> CacheLines]
          /\ line'[s].curr = line[s].curr - n /\ line'[s].end = line[s].end /\ line'[s].bucket = line[s].bucket
          /\ line[s].curr \in Int /\ line[s].end \in Int
          /\ \A t \in Servers : t # s => line'[t] = line[t]
      BY <1>1, <1>3, <3>1 DEF CacheLines
    <3>4. \A t \in Servers : line'[t].end > 0 => line'[t].curr < line'[t].end /\ line'[t].bucket \in Nat
      BY <1>1, <3>3 DEF Numbered
    <3>5. slack' \in Nat
      BY <1>1, <3>1
    <3>6. QED
      BY <3>2, <3>3, <3>4, <3>5, Zenon
  <2>3. QED
    BY <1>3, <2>1, <2>2, Zenon
<1>7. \/ written' = written
      \/ write[w].bucket \in Nat /\ written' = written \cup {<<w, write[w].bucket>>}
  BY <1>2, Zenon DEF Stored
<1>8. pc \in WriteStates \ Early /\ pc # "write" /\ write[w].pc \notin Waiting \cup {"new"}
  BY Zenon DEF WriteStates, Early, Waiting
<1>9. QED
  BY <1>2, <1>4, <1>5, <1>6, <1>7, <1>8, WriteGoesOn, Zenon

\* One who waits for the lock leaves the queue.
LEMMA LeaveKeeps ==
    ASSUME TableInv, TableFits, tablePlan' = tablePlan, NEW w \in Writes, write[w].pc \in Waiting, At(w, "answered"),
           NEW i, i \in 1 .. Len(waiters[Server(w)]), waiters[Server(w)][i] = w,
           waiters' = [waiters EXCEPT ![Server(w)] = SubSeq(@, 1, i - 1) \o SubSeq(@, i + 1, Len(@))],
           line' = line, slack' = slack, count' = count, undo' = undo, written' = written
    PROVE  TableInv'
<1> DEFINE s == tablePlan.at[w]
           p == SubSeq(waiters[s], 1, i - 1) \o SubSeq(waiters[s], i + 1, Len(waiters[s]))
<1>1. /\ line \in [Servers -> CacheLines] /\ write \in WriteTable /\ waiters \in [Servers -> Seq(Writes)]
      /\ count \in Nat /\ slack \in Nat /\ Counted(write, line, count, slack) /\ Numbered
      /\ \A t \in Servers : InLine(waiters[t], t, write)
  BY Zenon DEF TableInv, TableTyped
<1>2. w \in DOMAIN tablePlan.at /\ write[w].bucket = -1
  BY <1>1, Zenon DEF Numbered, Waiting, Early
<1>3. s \in Servers /\ Server(w) = s
  BY <1>2, ServerOf, Zenon
<1>4. p \in Seq(Writes) /\ InLine(p, s, write) /\ Absent(p, w)
  BY <1>1, <1>3, LineLeft, Zenon
<1>5. waiters' = [waiters EXCEPT ![s] = p]
  BY <1>3, Zenon
<1> HIDE DEF s, p
<1>6. waiters' \in [Servers -> Seq(Writes)] /\ waiters'[s] = p /\ \A t \in Servers : t # s => waiters'[t] = waiters[t]
  BY <1>1, <1>3, <1>4, <1>5, Zenon
<1>7. write' = [write EXCEPT ![w].pc = "answered"]
  BY Zenon DEF At
<1>8. /\ write' \in WriteTable /\ \A v \in Writes : v # w => write'[v] = write[v]
      /\ write'[w].pc = "answered" /\ write'[w].bucket = write[w].bucket
  BY <1>1, <1>7, Zenon DEF WriteTable, WriteStates
<1>9. Numbered'
  BY <1>1, <1>2, <1>8, NumberedKeeps, Zenon DEF Numbered, Early
<1>10. ASSUME NEW t \in Servers PROVE InLine(waiters'[t], t, write')
  <2>1. CASE t = s
    <3>1. InLine(p, s, write')
      BY <1>4, <1>8, LineStays, Zenon
    <3>2. QED
      BY <1>6, <2>1, <3>1, Zenon
  <2>2. CASE t # s
    <3>1. waiters[t] \in Seq(Writes) /\ InLine(waiters[t], t, write)
      BY <1>1, Zenon
    <3>2. Absent(waiters[t], w)
      BY <2>2, <3>1, NotInLine, Zenon DEF s
    <3>3. InLine(waiters[t], t, write')
      BY <1>8, <3>1, <3>2, LineStays, Zenon
    <3>4. QED
      BY <1>6, <2>2, <3>3, Zenon
  <2>3. QED
    BY <2>1, <2>2, Zenon
<1>11. Counted(write', line', count', slack')
  <2>1. count <= count
    BY <1>1
  <2>2. QED
    BY <1>1, <1>7, <2>1, RiseCounts, Zenon
<1>12. QED
  BY <1>1, <1>6, <1>8, <1>9, <1>10, <1>11, BlocksStay, TableAssembled, Zenon

\* The deadline of a call.
LEMMA CancelKeeps ==
    ASSUME TableInv, TableFits, tablePlan' = tablePlan, NEW w \in Writes, Cancel(w)
    PROVE  TableInv'
<1> DEFINE s == Server(w)
<1>1. undo' = undo /\ written' = written
  BY Zenon DEF Cancel
<1>2. CASE /\ write[w].pc \in {"lock", "recheck"} /\ At(w, "answered")
           /\ \E i \in 1 .. Len(waiters[s]) :
                 waiters[s][i] = w /\ waiters' = [waiters EXCEPT ![s] = SubSeq(@, 1, i - 1) \o SubSeq(@, i + 1, Len(@))]
           /\ UNCHANGED <<line, slack, count>>
  <2>1. PICK i \in 1 .. Len(waiters[s]) :
            waiters[s][i] = w /\ waiters' = [waiters EXCEPT ![s] = SubSeq(@, 1, i - 1) \o SubSeq(@, i + 1, Len(@))]
    BY <1>2, Zenon
  <2>2. write[w].pc \in Waiting /\ line' = line /\ slack' = slack /\ count' = count
    BY <1>2, Zenon DEF Waiting
  <2>3. QED
    BY <1>1, <1>2, <2>1, <2>2, LeaveKeeps, Zenon
<1>3. CASE /\ write[w].pc = "incr" /\ At(w, "leaked") /\ count' \in {count, count + Block}
           /\ UNCHANGED <<line, slack, waiters>>
  BY <1>1, <1>3, NoBlockKeeps, Zenon
<1>4. CASE /\ write[w].pc = "write" /\ At(w, "orphan") /\ (\E n \in {1, 2} : GiveBack(s, n))
           /\ UNCHANGED <<count, waiters>>
  BY <1>1, <1>4, EndKeeps, Zenon
<1>5. QED
  BY <1>2, <1>3, <1>4, Zenon DEF Cancel

\* Every step of the storage service keeps its invariant.
LEMMA TableKeeps ==
    ASSUME TableInv, TableFits, tablePlan' = tablePlan, StorageNext
    PROVE  TableInv'
<1>1. ASSUME NEW w \in Writes, NotIncremented(w) PROVE TableInv'
  <2>1. /\ write[w].pc = "incr" /\ At(w, "answered")
        /\ \/ count' = count /\ undo' = undo
           \/ count' = count + Block /\ undo' = undo + 1
        /\ line' = line /\ waiters' = waiters /\ written' = written /\ slack' = slack
    BY <1>1, Zenon DEF NotIncremented
  <2>2. QED
    BY <2>1, NoBlockKeeps, Zenon
<1>2. ASSUME NEW w \in Writes, Written(w) \/ WriteFails(w) \/ OrphanEnds(w) PROVE TableInv'
  <2>1. /\ write[w].pc \in {"write", "orphan"} /\ (At(w, "stored") \/ At(w, "answered"))
        /\ Stored(w) \/ written' = written
        /\ \/ line' = line /\ slack' = slack
           \/ \E n \in {1, 2} : GiveBack(Server(w), n)
        /\ count' = count /\ undo' = undo /\ waiters' = waiters
    BY <1>2, Zenon DEF Written, WriteFails, OrphanEnds
  <2>2. QED
    BY <2>1, EndKeeps, Zenon
<1>3. QED
  BY <1>1, <1>2, CalBucketKeeps, LockedKeeps, IncrementedKeeps, RolledBackKeeps, CancelKeeps, Zenon DEF StorageNext

\* The other parts leave it alone.
LEMMA TableRests ==
    ASSUME TableInv, tablePlan' = tablePlan, UNCHANGED tableVars
    PROVE  TableInv'
<1>1. /\ line \in [Servers -> CacheLines] /\ write \in WriteTable /\ waiters \in [Servers -> Seq(Writes)]
      /\ count \in Nat /\ slack \in Nat /\ Counted(write, line, count, slack) /\ Numbered
      /\ \A t \in Servers : InLine(waiters[t], t, write)
  BY Zenon DEF TableInv, TableTyped
<1>2. /\ undo' = undo /\ count' = count /\ slack' = slack
      /\ line' = line /\ waiters' = waiters /\ write' = write /\ written' = written
  BY Zenon DEF tableVars
<1>3. Numbered'
  BY <1>1, <1>2, Zenon DEF Numbered
<1>4. QED
  BY <1>1, <1>2, <1>3, BlocksStay, TableAssembled, Zenon

\* No server has a line, no write a number.
LEMMA TableInitHolds ==
    ASSUME StorageInit
    PROVE  TableInv
<1>1. /\ line = [s \in Servers |-> [curr |-> -1, end |-> -1, bucket |-> -1]] /\ waiters = [s \in Servers |-> <<>>]
      /\ count = 0 /\ undo = 0 /\ slack = 0 /\ written = {}
      /\ write = [w \in Writes |-> [pc |-> "new", bucket |-> -1]]
  BY Zenon DEF StorageInit
<1>2. TableTyped
  BY <1>1 DEF TableTyped, CacheLines, WriteTable, WriteStates
<1>3. WholeBlocks
  <2>1. 0 \in Nat /\ 0 = 0 * Block
    BY PathAssumption
  <2>2. QED
    BY <1>1, <2>1 DEF WholeBlocks
<1>4. Numbered
  BY <1>1 DEF Numbered
<1>5. \A s \in Servers : InLine(waiters[s], s, write)
  BY <1>1 DEF InLine
<1>6. ASSUME NEW b \in Nat
      PROVE  IsFiniteSet(Free(line, b)) /\ Cardinality(Held(write, b)) + Cardinality(Free(line, b)) <= Capacity(b, count) + slack
  <2>1. Free(line, b) = {}
    BY <1>1 DEF Free
  <2>2. Held(write, b) = {}
    BY <1>1 DEF Held
  <2>3. Capacity(b, count) \in Nat
    <3>1. count \in Nat /\ count <= count
      BY <1>1
    <3>2. QED
      BY <3>1, CapacityRises, Zenon
  <2>4. IsFiniteSet({}) /\ Cardinality({}) = 0
    BY FS_EmptySet, Zenon
  <2>5. Cardinality(Held(write, b)) = 0 /\ Cardinality(Free(line, b)) = 0 /\ IsFiniteSet(Free(line, b)) /\ slack = 0
    BY <1>1, <2>1, <2>2, <2>4, Zenon
  <2>6. QED
    BY <2>3, <2>5
<1>7. QED
  BY <1>2, <1>3, <1>4, <1>5, <1>6, Zenon DEF TableInv, Counted

\* The rows of a bucket are of writes that hold a number of it.
LEMMA TableIsSafe ==
    ASSUME TableInv
    PROVE  BucketIsBounded
<1> SUFFICES ASSUME NEW b \in {x[2] : x \in written}
             PROVE  Cardinality({x \in written : x[2] = b}) <= BucketSize + slack
  BY Zenon DEF BucketIsBounded
<1> DEFINE R == {y \in written : y[2] = b}
           H == Held(write, b)
           f == [y \in R |-> y[1]]
<1>1. /\ count \in Nat /\ slack \in Nat /\ Numbered /\ Counted(write, line, count, slack)
  BY Zenon DEF TableInv, TableTyped
<1>2. b \in Nat
  BY <1>1, Zenon DEF Numbered
<1>3. \A y \in R : y = <<y[1], b>> /\ y[1] \in H
  BY <1>1 DEF Numbered, Held
<1>4. IsFiniteSet(H)
  BY PathAssumption, FS_Subset, Zenon DEF Held
<1> HIDE DEF R, H
<1>5. f \in Injection(R, H)
  BY <1>3, Zenon DEF Injection, IsInjective
<1>6. IsFiniteSet(R) /\ Cardinality(R) <= Cardinality(H)
  BY <1>4, <1>5, FS_Injection, Zenon
<1>7. IsFiniteSet(Free(line, b)) /\ Cardinality(H) + Cardinality(Free(line, b)) <= Capacity(b, count) + slack
  BY <1>1, <1>2, Zenon DEF Counted, H
<1>8. Cardinality(H) \in Nat /\ Cardinality(Free(line, b)) \in Nat /\ Cardinality(R) \in Nat
  BY <1>4, <1>6, <1>7, FS_CardinalityType, Zenon
<1>9. Capacity(b, count) \in Int /\ Capacity(b, count) <= BucketSize /\ BucketSize \in Nat
  <2>1. b * BucketSize \in Nat /\ BucketSize \in Nat
    BY <1>2, PathAssumption
  <2> DEFINE z == b * BucketSize
  <2>2. Capacity(b, count) = IF count <= z THEN 0 ELSE IF count >= z + BucketSize THEN BucketSize ELSE count - z
    BY Zenon DEF Capacity
  <2> HIDE DEF z
  <2>3. z \in Nat
    BY <2>1, Zenon DEF z
  <2>4. QED
    BY <1>1, <2>1, <2>2, <2>3
<1>10. QED
  BY <1>1, <1>6, <1>7, <1>8, <1>9 DEF R

-----------------------------------------------------------------------------
(* The table beside the other parts *)

\* The numbers of a chat: the invariant of the servers and their writes holds at the
\* start, and no step of any part breaks it.
THEOREM TableInvariant == Spec => [](TableFits /\ TableInv)
<1>1. Init => TableFits /\ TableInv
  <2>1. Init => TableFits
    BY PathAssumption, Zenon DEF Init, TableFits
  <2>2. QED
    BY <2>1, TableInitHolds, Zenon DEF Init
<1>2. ASSUME TableFits, TableInv, [Next]_vars PROVE TableFits' /\ TableInv'
  <2>1. tablePlan' = tablePlan
    BY <1>2, Zenon DEF Next, plans, vars
  <2>2. TableFits'
    BY <1>2, <2>1, Zenon DEF TableFits
  <2>3. CASE TableStep
    BY <1>2, <2>1, <2>2, <2>3, TableKeeps, Zenon DEF TableStep
  <2>4. CASE ~TableStep
    <3>1. UNCHANGED tableVars
      BY <1>2, <2>4, Zenon DEF Next, vars, UpStep, ModelStep, OutboxStep, OnMessage, Filter, Deliver, OnHandled, Mark, WorkerDies
    <3>2. QED
      BY <1>2, <2>1, <2>2, <3>1, TableRests, Zenon
  <2>5. QED
    BY <2>3, <2>4, Zenon
<1>3. TableFits /\ TableInv /\ [Next]_vars => TableFits' /\ TableInv'
  BY <1>2, Zenon
<1>4. QED
  BY <1>1, <1>3, PTL DEF Spec

\* A bucket of a chat holds no more messages than its size, save one for each number that
\* was given back and a block for each increment of the counter that was rolled back.
THEOREM BucketCorrect == Spec => []BucketIsBounded
<1>1. TableInv => BucketIsBounded
  BY TableIsSafe, Zenon
<1>2. QED
  BY <1>1, TableInvariant, PTL
=============================================================================
