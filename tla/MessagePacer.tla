--------------------------- MODULE MessagePacer ---------------------------
(***************************************************************************)
(* utils.pacer.MessagePacer of the outbox worker, for one sender.  Every   *)
(* message carries the sender's delivery id.  The pacer remembers the ids  *)
(* it has seen and the next id the sender is expected to use; the latter   *)
(* is kept in Redis as well, so that another process, or this one after a  *)
(* restart, can tell what was handled.  on_message runs as one task per    *)
(* message; a step here is what a task does between two awaits.            *)
(***************************************************************************)
EXTENDS OutboxGroup

(***************************************************************************)
(* ids         message -> delivery id, for the messages of the stream; a   *)
(*             retried message repeats the id of the first copy            *)
(* members     the processes that take part                                *)
(* getMayFail  whether redis_get may fail or time out                      *)
(* setMayFail  whether redis_set may fail or time out                      *)
(* crashes     bound: process crashes                                      *)
(***************************************************************************)

VARIABLES
    next,     \* worker -> DeliveryInfo.next_delivery_id, 0 until initialized
    ids,      \* worker -> keys of DeliveryInfo.delivery_ids
    lock,     \* worker -> holder of DeliveryInfo.lock and, behind it, its waiters
    call,     \* worker -> message -> where its task is
    verdict,  \* worker -> message -> FilterState it got
    target,   \* worker -> message -> the value its task read or writes
    redis,    \* the stored id, 0 when the key does not exist
    late,     \* worker -> effects of failed writes that Redis may still apply
    claimed,  \* history: ids some task was told to handle
    handled   \* history: ids some task has handled

pacerVars == <<next, ids, lock, call, verdict, target, redis, late, claimed, handled>>

DeliveryId(m) == setup.ids[m]
Published == DOMAIN setup.ids
Ids == {DeliveryId(m) : m \in Published}

PacerInit ==
    /\ setup \in Setups
    /\ next = [w \in Consumers |-> 0]
    /\ ids = [w \in Consumers |-> {}]
    /\ lock = [w \in Consumers |-> << >>]
    /\ call = [w \in Consumers |-> [m \in Offsets |-> "idle"]]
    /\ verdict = [w \in Consumers |-> [m \in Offsets |-> "none"]]
    /\ target = [w \in Consumers |-> [m \in Offsets |-> 0]]
    /\ redis = 0
    /\ late = [w \in Consumers |-> {}]
    /\ claimed = {}
    /\ handled = {}
    /\ crashes = 0

-----------------------------------------------------------------------------
Goto(w, m, pc) == call' = [call EXCEPT ![w][m] = pc]

\* Mutant: the id of a new item is not remembered.
AnswerForgetsId(w, m, v) ==
    /\ verdict' = [verdict EXCEPT ![w][m] = v]
    /\ Goto(w, m, IF v \in {"new", "retry"} THEN "handling" ELSE "done")
    /\ claimed' = IF v \in {"new", "retry"} THEN claimed \cup {DeliveryId(m)} ELSE claimed
    /\ UNCHANGED ids

\* The answer of filter_or_not; NEW_ITEM records the id, RETRY_REQUIRED does not.
Answer(w, m, v) ==
    /\ verdict' = [verdict EXCEPT ![w][m] = v]
    /\ Goto(w, m, IF v \in {"new", "retry"} THEN "handling" ELSE "done")
    /\ ids' = IF v = "new" THEN [ids EXCEPT ![w] = @ \cup {DeliveryId(m)}] ELSE ids
    /\ claimed' = IF v \in {"new", "retry"} THEN claimed \cup {DeliveryId(m)} ELSE claimed

\* An initialized pacer compares the id with the value its task read on entry.
Judge(w, m, read) ==
    CASE DeliveryId(m) < read -> "old"
      [] DeliveryId(m) >= read /\ DeliveryId(m) \in ids[w] -> "dup"
      [] DeliveryId(m) >= read /\ DeliveryId(m) \notin ids[w] -> "new"

ReleaseLock(w) == lock' = [lock EXCEPT ![w] = Tail(@)]

\* filter_or_not up to its first await.
FilterOrNot(w, m) ==
    /\ call[w][m] = "idle"
    /\ IF next[w] > 0
       THEN Answer(w, m, Judge(w, m, next[w])) /\ UNCHANGED lock
       ELSE /\ lock' = [lock EXCEPT ![w] = Append(@, m)]
            /\ Goto(w, m, IF lock[w] = << >> THEN "get" ELSE "wait")
            /\ UNCHANGED <<verdict, ids, claimed>>
    /\ UNCHANGED <<setup, next, target, redis, late, handled, crashes>>

\* The lock arrives: the task still compares with the 0 it read before.
LockForFilter(w, m) ==
    /\ call[w][m] = "wait"
    /\ Head(lock[w]) = m
    /\ IF next[w] > 0
       THEN Answer(w, m, Judge(w, m, 0)) /\ ReleaseLock(w)
       ELSE Goto(w, m, "get") /\ UNCHANGED <<verdict, ids, claimed, lock>>
    /\ UNCHANGED <<setup, next, target, redis, late, handled, crashes>>

\* Redis reads the key; a missing key is read as "" and stands for 1.
RedisGet(w, m) ==
    /\ call[w][m] = "get"
    /\ target' = [target EXCEPT ![w][m] = IF redis = 0 THEN 1 ELSE redis]
    /\ Goto(w, m, "got")
    /\ UNCHANGED <<setup, next, ids, lock, verdict, redis, late, claimed, handled, crashes>>

\* redis_get returns: the first task of a sender sets the pacer up.
GetReply(w, m) ==
    /\ call[w][m] = "got"
    /\ ReleaseLock(w)
    /\ next' = [next EXCEPT ![w] = target[w][m]]
    /\ Answer(w, m, IF DeliveryId(m) < target[w][m] THEN "old" ELSE "new")
    /\ UNCHANGED <<setup, target, redis, late, handled, crashes>>

GetFailed(w, m) ==
    /\ setup.getMayFail
    /\ call[w][m] \in {"get", "got"}
    /\ ReleaseLock(w)
    /\ Answer(w, m, "retry")
    /\ UNCHANGED <<setup, next, target, redis, late, handled, crashes>>

\* Mutant: every remembered id counts as consecutive.
NextGapCounts(S, d) == d + Cardinality(S)

\* `while delivery_id in ids`
NextGap(S, d) == CHOOSE k \in {d} \cup {j + 1 : j \in S} :
                    k >= d /\ k \notin S /\ \A j \in d .. k - 1 : j \in S

\* on_handled_new_item up to its first await, right after the message was acked.
OnHandledNewItem(w, m) ==
    /\ call[w][m] = "handling"
    /\ handled' = handled \cup {DeliveryId(m)}
    /\ IF DeliveryId(m) = next[w]
       THEN LET n == NextGap(ids[w], DeliveryId(m) + 1)
            IN  /\ next' = [next EXCEPT ![w] = n]
                /\ target' = [target EXCEPT ![w][m] = n]
                /\ lock' = [lock EXCEPT ![w] = Append(@, m)]
                /\ Goto(w, m, IF lock[w] = << >> THEN "set" ELSE "setwait")
       ELSE Goto(w, m, "done") /\ UNCHANGED <<next, target, lock>>
    /\ UNCHANGED <<setup, ids, verdict, redis, late, claimed, crashes>>

\* Mutant: the write does not wait for its turn.
LockForSetEager(w, m) ==
    /\ call[w][m] = "setwait"
    /\ Goto(w, m, "set")
    /\ UNCHANGED <<setup, next, ids, lock, verdict, target, redis, late, claimed, handled, crashes>>

LockForSet(w, m) ==
    /\ call[w][m] = "setwait"
    /\ Head(lock[w]) = m
    /\ Goto(w, m, "set")
    /\ UNCHANGED <<setup, next, ids, lock, verdict, target, redis, late, claimed, handled, crashes>>

SetReply(w, m) ==
    /\ call[w][m] = "set"
    /\ redis' = target[w][m]
    /\ ReleaseLock(w)
    /\ Goto(w, m, "done")
    /\ UNCHANGED <<setup, next, ids, verdict, target, late, claimed, handled, crashes>>

(***************************************************************************)
(* A redis_set that failed or timed out: never executed, or executed later *)
(* (the task stayed in the write channel), or executed later and then      *)
(* rolled back by a delete because its waiter was gone.                    *)
(***************************************************************************)
SetFailed(w, m) ==
    /\ setup.setMayFail
    /\ call[w][m] = "set"
    /\ late' \in {late, [late EXCEPT ![w] = @ \cup {<<"set", target[w][m]>>}],
                  [late EXCEPT ![w] = @ \cup {<<"undo", target[w][m]>>}]}
    /\ ReleaseLock(w)
    /\ Goto(w, m, "done")
    /\ UNCHANGED <<setup, next, ids, verdict, target, redis, claimed, handled, crashes>>

LateEffect(w) ==
    /\ \E e \in late[w] :
          /\ redis' = IF e[1] = "del" THEN 0 ELSE e[2]
          /\ late' = [late EXCEPT ![w] =
                         (@ \ {e}) \cup IF e[1] = "undo" THEN {<<"del", 0>>} ELSE {}]
    /\ UNCHANGED <<setup, next, ids, lock, call, verdict, target, claimed, handled, crashes>>

\* The process dies, while Redis may still execute the write under way; the stream
\* delivers its messages again to the next one.
PacerDies(w) ==
    /\ w \in setup.members
    /\ crashes < setup.crashes
    /\ crashes' = crashes + 1
    /\ redis' \in {redis} \cup {target[w][m] : m \in {n \in Offsets : call[w][n] = "set"}}
    /\ next' = [next EXCEPT ![w] = 0]
    /\ ids' = [ids EXCEPT ![w] = {}]
    /\ lock' = [lock EXCEPT ![w] = << >>]
    /\ call' = [call EXCEPT ![w] = [m \in Offsets |-> "idle"]]
    /\ verdict' = [verdict EXCEPT ![w] = [m \in Offsets |-> "none"]]
    /\ target' = [target EXCEPT ![w] = [m \in Offsets |-> 0]]
    /\ late' = [late EXCEPT ![w] = {}]
    /\ UNCHANGED <<setup, claimed, handled>>

PacerStep(w, m) ==
    \/ FilterOrNot(w, m)
    \/ LockForFilter(w, m)
    \/ RedisGet(w, m)
    \/ GetReply(w, m)
    \/ GetFailed(w, m)
    \/ OnHandledNewItem(w, m)
    \/ LockForSet(w, m)
    \/ SetReply(w, m)
    \/ SetFailed(w, m)

PacerNext ==
    \E w \in setup.members :
        \/ \E m \in Published : PacerStep(w, m)
        \/ LateEffect(w)
        \/ PacerDies(w)

-----------------------------------------------------------------------------
PacerTypeOK ==
    /\ next \in [Consumers -> Nat]
    /\ ids \in [Consumers -> SUBSET Ids]
    /\ lock \in [Consumers -> Seq(Offsets)]
    /\ call \in [Consumers -> [Offsets ->
          {"idle", "wait", "get", "got", "handling", "setwait", "set", "done"}]]
    /\ verdict \in [Consumers -> [Offsets -> {"none", "new", "dup", "old", "retry"}]]
    /\ target \in [Consumers -> [Offsets -> Nat]]
    /\ redis \in Nat
    /\ \A w \in Consumers : late[w] \subseteq {"set", "undo", "del"} \X Nat
    /\ claimed \subseteq Ids
    /\ handled \subseteq claimed
    /\ crashes \in 0 .. setup.crashes

\* One process is told at most once that an id is a new item, however many
\* copies of it arrive while the first is waiting for the lock, for Redis or for
\* its handler.
NewItemOnce ==
    \A w \in Consumers : \A m, n \in Published :
        m # n /\ verdict[w][m] = "new" /\ verdict[w][n] = "new"
            => DeliveryId(m) # DeliveryId(n)

\* Every id below a watermark, in a pacer, in Redis or on its way there, was
\* given to some task to handle: nothing is skipped that nobody ever saw.
WatermarkIsClaimed ==
    LET Below(v) == {d \in Ids : d < v}
    IN  /\ Below(redis) \subseteq claimed
        /\ \A w \in Consumers :
              /\ Below(next[w]) \subseteq claimed
              /\ \A m \in Offsets : Below(target[w][m]) \subseteq claimed
              /\ \A e \in late[w] : Below(e[2]) \subseteq claimed

\* The lock has one holder, and only a task at its head talks to Redis.
LockExcludes ==
    \A w \in Consumers : \A m \in Offsets :
        call[w][m] \in {"get", "got", "set"} => lock[w] # << >> /\ Head(lock[w]) = m

\* A message dropped as previously handled was handled by someone.
IgnoredWasHandled ==
    \A w \in Consumers : \A m \in Published :
        verdict[w][m] = "old" => DeliveryId(m) \in handled

\* Where nothing fails, the stored watermark of one process ends up past the last
\* id, whatever the order in which its messages are handled.
WatermarkCatchesUp ==
    /\ ~setup.getMayFail /\ ~setup.setMayFail
    /\ setup.crashes = 0 /\ Cardinality(setup.members) = 1
    => <>[](\A d \in Ids : d < redis)
=============================================================================
