---------------------------- MODULE MCAckQueue ----------------------------
(***************************************************************************)
(* The linked list of AckQueueList run in lockstep with the spans of       *)
(* AckQueue: both make the same calls, and the list must stay a            *)
(* representation of the spans.  Node reuse, the unlinking and the counter *)
(* are what could go wrong.  Ids are 0 .. MaxId, at most MaxStamp spans    *)
(* are appended between two clears, and the cache is shorter than the list *)
(* can be.                                                                 *)
(***************************************************************************)
EXTENDS AckQueueMachine, AckQueueList

CONSTANTS MaxId, MaxStamp

MCIds == 0 .. MaxId

MCNodes == 1 .. MaxStamp + CacheLen + 1

StampBound == queue.last <= MaxStamp

-----------------------------------------------------------------------------
VARIABLE list

linkedVars == <<list, queueVars>>

LOCAL X == INSTANCE SequencesExt

LinkedInit == QueueInit /\ list = EmptyList

LinkedAdd(id)    == AddId(id)  /\ list' = ListAdd(list, id, {})
LinkedAddNothing == AddNothing /\ list' = ListAdd(list, -1, {})
LinkedClear      == Clear      /\ list' = ListClear(list)

LinkedNext ==
    \/ \E id \in AckIds : LinkedAdd(id)
    \/ LinkedAddNothing
    \/ LinkedClear

LinkedSpec == LinkedInit /\ [][LinkedNext]_linkedVars

-----------------------------------------------------------------------------
\* The stamps of the spans in list order.
StampSeq == X!SetToSortSeq(Linked(queue), <)

\* The list walked along its next pointers is the sequence of spans, node for
\* stamp: same bounds, same lookup tables, same `first_end` and same answer of
\* `in`; its prev pointers mirror it, and no linked node waits in the cache to
\* be handed out again.
ListIsQueue ==
    LET w == Walk(list)
        st == StampSeq
    IN  /\ list.cnt = Len(st)
        /\ \A i \in 1 .. list.cnt :
              /\ list.start[w[i]] = queue.start[st[i]]
              /\ list.end[w[i]] = queue.end[st[i]]
              /\ list.prev[w[i]] = IF i = 1 THEN Root ELSE w[i - 1]
              /\ \A id \in DOMAIN queue.left : queue.left[id] = st[i] <=> list.left[id] = w[i]
              /\ \A id \in DOMAIN queue.right : queue.right[id] = st[i] <=> list.right[id] = w[i]
        /\ DOMAIN list.left = DOMAIN queue.left
        /\ DOMAIN list.right = DOMAIN queue.right
        /\ list.next[IF list.cnt = 0 THEN Root ELSE w[list.cnt]] = Root
        /\ X!ToSet(w) \cap X!ToSet(list.cache) = {}
        /\ Cardinality(X!ToSet(w)) = list.cnt
        /\ X!IsInjective(list.cache)
        /\ ListFirstEnd(list) = FirstEnd(queue)
        /\ \A id \in AckIds : ListContains(list, id) <=> id \in added
=============================================================================
