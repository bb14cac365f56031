-------------------------- MODULE AckQueueList --------------------------
(***************************************************************************)
(* chatp.message.queue.AckQueue with its pointers: the circular doubly     *)
(* linked list of RangeSpan nodes around a root, the counter `_cnt`, the   *)
(* two lookup tables and the deque of spans kept for reuse.  A node is an  *)
(* object identity; one that leaves the list keeps its fields, which a     *)
(* suspended iterator still reads.                                         *)
(***************************************************************************)
EXTENDS Integers, Sequences

CONSTANTS Nodes,       \* object identities of RangeSpan, a range 1 .. n
          CacheLen     \* maxlen of _cache_spans (64 in the code)

Root == 0

LOCAL Q == INSTANCE AckQueue
LOCAL S == INSTANCE SequencesExt

EmptyList ==
    [start |-> [n \in Nodes \cup {Root} |-> -1],
     end   |-> [n \in Nodes \cup {Root} |-> 0],
     prev  |-> [n \in Nodes \cup {Root} |-> Root],
     next  |-> [n \in Nodes \cup {Root} |-> Root],
     left  |-> Q!NoEntries, right |-> Q!NoEntries,
     cnt   |-> 0, cache |-> << >>]

\* The nodes in list order: the first `_cnt` ones along the next pointers.
Walk(l) ==
    LET w[i \in 0 .. l.cnt] == IF i = 0 THEN Root ELSE l.next[w[i - 1]]
    IN  [i \in 1 .. l.cnt |-> w[i]]

\* deque(maxlen).append: a full deque loses its oldest element.
CacheAppend(cache, n) ==
    IF CacheLen = 0 THEN << >>
    ELSE Append(IF Len(cache) = CacheLen THEN Tail(cache) ELSE cache, n)

MergeNodes(l, id) ==
    LET ls == l.right[id]
        rs == l.left[id + 1]
    IN  [l EXCEPT !.next[l.prev[rs]] = l.next[rs],
                  !.prev[l.next[rs]] = l.prev[rs],
                  !.left  = Q!Drop(@, id + 1),
                  !.right = Q!Put(Q!Drop(@, id), l.end[rs], ls),
                  !.cnt   = @ - 1,
                  !.end[ls] = l.end[rs],
                  !.cache = CacheAppend(@, rs)]

GrowLeftNode(l, id) ==
    [l EXCEPT !.end[l.right[id]] = @ + 1,
              !.right = Q!Put(Q!Drop(@, id), id + 1, l.right[id])]

GrowRightNode(l, id) ==
    [l EXCEPT !.start[l.left[id + 1]] = @ - 1,
              !.left = Q!Put(Q!Drop(@, id + 1), id, l.left[id + 1])]

\* A cached span is taken first; otherwise an object nobody refers to is created.
NewNode(l, held) ==
    IF l.cache # << >> THEN Head(l.cache)
    ELSE CHOOSE n \in Nodes \ (S!ToSet(Walk(l)) \cup held) :
            \A m \in Nodes \ (S!ToSet(Walk(l)) \cup held) : n <= m

LinkNode(l, id, n) ==
    LET tail == IF l.cnt = 0 THEN Root ELSE l.prev[Root]
    IN  [l EXCEPT !.start[n] = id,
                  !.end[n]   = id + 1,
                  !.next = [@ EXCEPT ![tail] = n, ![n] = Root],
                  !.prev = [@ EXCEPT ![Root] = n, ![n] = tail],
                  !.cnt = @ + 1,
                  !.left  = Q!Put(@, id, n),
                  !.right = Q!Put(@, id + 1, n),
                  !.cache = IF @ # << >> THEN Tail(@) ELSE @]

\* held: the node a suspended iterator refers to, which is not garbage.
ListAdd(l, id, held) ==
    LET hasLeft == id \in DOMAIN l.right
        hasRight == id + 1 \in DOMAIN l.left
    IN  CASE id < 0 -> l
          [] id >= 0 /\ hasLeft /\ hasRight -> MergeNodes(l, id)
          [] id >= 0 /\ hasLeft /\ ~hasRight -> GrowLeftNode(l, id)
          [] id >= 0 /\ ~hasLeft /\ hasRight -> GrowRightNode(l, id)
          [] id >= 0 /\ ~hasLeft /\ ~hasRight -> LinkNode(l, id, NewNode(l, held))

\* Mutant: the lookup tables survive.
ListClearKeepsTables(l) ==
    [l EXCEPT !.next[Root] = Root, !.prev[Root] = Root, !.cnt = 0]

\* The walk of `clear` starts after the root's own pointers were reset.
ListClear(l) ==
    IF l.cnt = 0 THEN l
    ELSE [l EXCEPT !.next[Root] = Root, !.prev[Root] = Root,
                   !.left = Q!NoEntries, !.right = Q!NoEntries, !.cnt = 0,
                   !.cache = S!FoldLeft(CacheAppend, @, Walk(l))]

ListFirstEnd(l) == l.end[l.next[Root]]

ListContains(l, id) == \E n \in S!ToSet(Walk(l)) : l.start[n] <= id /\ id < l.end[n]
=============================================================================
