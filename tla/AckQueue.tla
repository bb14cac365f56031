---------------------------- MODULE AckQueue ----------------------------
(***************************************************************************)
(* chatp.message.queue.AckQueue: the acknowledged ids of a channel or of a *)
(* stream, kept as half-open spans [start, end).                           *)
(*                                                                         *)
(* A queue is a value here, so that every component that owns one can use  *)
(* these operators.  The code links its RangeSpan nodes in a list that     *)
(* grows only at its tail and loses nodes anywhere.  A span is named by    *)
(* its stamp, the number of the append that linked it, so that the list    *)
(* order is the order of the stamps.  MCAckQueue has the pointers.         *)
(***************************************************************************)
EXTENDS Integers

\* Python's `d[k] = v`, `del d[k]`, and `del d[j]; d[k] = v`.
Put(d, k, v) == [x \in DOMAIN d \cup {k} |-> IF x = k THEN v ELSE d[x]]
Drop(d, k)   == [x \in DOMAIN d \ {k} |-> d[x]]
Move(d, j, k, v) == [x \in (DOMAIN d \ {j}) \cup {k} |-> IF x = k THEN v ELSE d[x]]

NoEntries == [x \in {} |-> 0]

(***************************************************************************)
(* start, end : stamp -> bound of the span                                 *)
(* left       : first id of a span -> its stamp    (_query_left)           *)
(* right      : id after a span    -> its stamp    (_query_right)          *)
(* last       : the stamp given last                                       *)
(***************************************************************************)
EmptyQueue ==
    [start |-> NoEntries, end |-> NoEntries,
     left |-> NoEntries, right |-> NoEntries, last |-> 0]

Linked(q) == DOMAIN q.start

\* Both neighbours exist: the right span is unlinked and the left one grows over it.
MergeSpans(q, id) ==
    LET l == q.right[id]
        r == q.left[id + 1]
        e == q.end[r]
    IN  [start |-> Drop(q.start, r),
         end   |-> Move(q.end, r, l, e),
         left  |-> Drop(q.left, id + 1),
         right |-> Move(q.right, id, e, l),
         last  |-> q.last]

\* Mutant: the table keeps the old end of the span.
GrowLeftKeepsKey(q, id) == [q EXCEPT !.end[q.right[id]] = id + 1]

GrowLeftSpan(q, id) ==
    LET l == q.right[id]
    IN  [start |-> q.start,
         end   |-> Put(q.end, l, id + 1),
         left  |-> q.left,
         right |-> Move(q.right, id, id + 1, l),
         last  |-> q.last]

GrowRightSpan(q, id) ==
    LET r == q.left[id + 1]
    IN  [start |-> Put(q.start, r, id),
         end   |-> q.end,
         left  |-> Move(q.left, id + 1, id, r),
         right |-> q.right,
         last  |-> q.last]

\* No neighbour: a fresh span is linked at the tail, whatever its id.
AppendSpan(q, id) ==
    LET s == q.last + 1
    IN  [start |-> Put(q.start, s, id),
         end   |-> Put(q.end, s, id + 1),
         left  |-> Put(q.left, id, s),
         right |-> Put(q.right, id + 1, s),
         last  |-> s]

Add(q, id) ==
    CASE id < 0 -> q
      [] id >= 0 /\ id \in DOMAIN q.right /\ id + 1 \in DOMAIN q.left -> MergeSpans(q, id)
      [] id >= 0 /\ id \in DOMAIN q.right /\ id + 1 \notin DOMAIN q.left -> GrowLeftSpan(q, id)
      [] id >= 0 /\ id \notin DOMAIN q.right /\ id + 1 \in DOMAIN q.left -> GrowRightSpan(q, id)
      [] id >= 0 /\ id \notin DOMAIN q.right /\ id + 1 \notin DOMAIN q.left -> AppendSpan(q, id)

\* The ids of the spans: what `in` answers and what a feedback would confirm.
Content(q) == UNION {q.start[s] .. (q.end[s] - 1) : s \in Linked(q)}

\* The span next to the root; the root itself is [-1, 0).
IsHead(q, s) == s \in Linked(q) /\ \A t \in Linked(q) : s <= t

\* Mutant: the end of the span at the tail.
TailEnd(q) ==
    IF Linked(q) = {} THEN 0
    ELSE q.end[CHOOSE s \in Linked(q) : \A t \in Linked(q) : t <= s]

FirstEnd(q) ==
    IF Linked(q) = {} THEN 0 ELSE q.end[CHOOSE s \in Linked(q) : IsHead(q, s)]
=============================================================================
