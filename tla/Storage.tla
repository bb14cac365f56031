------------------------------ MODULE Storage ------------------------------
(***************************************************************************)
(* WriteToSession of the storage service                                   *)
(* (microservices/cass_msg_storage/cass_storage_service.py) for one chat,  *)
(* on several servers.  A message goes into the bucket its number falls    *)
(* into; a server takes numbers in blocks from a counter in Redis and      *)
(* keeps the rest of a block in its cache line.  A number is given back    *)
(* when the write fails or the call is cancelled.                          *)
(***************************************************************************)
EXTENDS Integers, Sequences, FiniteSets

CONSTANTS
    Servers, Writes,
    None,         \* no write
    Block,        \* numbers taken at a time: 100
    BucketSize    \* MESSAGE_COUNT_ONE_BUCKET, a multiple of Block

VARIABLES
    tablePlan,  \* [at: write -> its server, mayFail: database and Redis, mayCancel: deadlines]
    line,       \* BucketCacheLine: server -> [curr, end, bucket]
    holder,     \* server -> the write that holds the lock of the line
    waiters,    \* server -> writes that wait for the lock
    count,      \* the counter in Redis
    undo,       \* increments that timed out, are executed, and will be rolled back
    write,      \* write -> [pc, bucket]
    written,    \* <<write, bucket>> in the table
    slack       \* numbers given back or rolled back so far

StorageInit ==
    /\ line = [s \in Servers |-> [curr |-> -1, end |-> -1, bucket |-> -1]]
    /\ holder = [s \in Servers |-> None] /\ waiters = [s \in Servers |-> <<>>]
    /\ count = 0 /\ undo = 0
    /\ write = [w \in Writes |-> [pc |-> "new", bucket |-> -1]]
    /\ written = {} /\ slack = 0

At(w, pc) == write' = [write EXCEPT ![w].pc = pc]

Server(w) == tablePlan.at[w]

-----------------------------------------------------------------------------
(* cal_bucket_val *)

Ready(s) == line[s].end > 0

\* Mutant: the last number of a block is taken twice.
LeftOffByOne(s) == line[s].curr + 1 <= line[s].end

Left(s) == line[s].curr + 1 < line[s].end

TakeNumber(w) ==
    /\ line' = [line EXCEPT ![Server(w)].curr = @ + 1]
    /\ write' = [write EXCEPT ![w] = [pc |-> "write", bucket |-> line[Server(w)].bucket]]

\* A number is left, or a block is needed: the lock is free, or waited for.  Who
\* waits because the line is not ready looks at the line again afterwards.
CalBucket(w) ==
    LET s == Server(w)
    IN  /\ w \in DOMAIN tablePlan.at /\ write[w].pc = "new"
        /\ IF Ready(s) /\ Left(s)
           THEN TakeNumber(w) /\ UNCHANGED <<holder, waiters>>
           ELSE /\ IF holder[s] = None /\ waiters[s] = <<>>
                   THEN At(w, "incr") /\ holder' = [holder EXCEPT ![s] = w] /\ UNCHANGED waiters
                   ELSE /\ At(w, IF Ready(s) THEN "lock" ELSE "recheck")
                        /\ waiters' = [waiters EXCEPT ![s] = Append(@, w)] /\ UNCHANGED holder
                /\ UNCHANGED line
        /\ UNCHANGED <<count, undo, written, slack>>

Locked(s) ==
    LET w == Head(waiters[s])
    IN  /\ holder[s] = None /\ waiters[s] # <<>>
        /\ waiters' = [waiters EXCEPT ![s] = Tail(@)]
        /\ IF write[w].pc = "recheck" /\ Ready(s) /\ Left(s)
           THEN TakeNumber(w) /\ UNCHANGED holder
           ELSE At(w, "incr") /\ holder' = [holder EXCEPT ![s] = w] /\ UNCHANGED line
        /\ UNCHANGED <<count, undo, written, slack>>

Release(s) == holder' = [holder EXCEPT ![s] = None]

\* redis_incr returns: the line takes the new block, of which the first number is used.
Incremented(w) ==
    LET s == Server(w)
        bucket == count \div BucketSize
    IN  /\ write[w].pc = "incr"
        /\ Release(s)
        /\ count' = count + Block
        /\ line' = [line EXCEPT ![s] = [curr |-> count, end |-> count + Block, bucket |-> bucket]]
        /\ write' = [write EXCEPT ![w] = [pc |-> "write", bucket |-> bucket]]
        /\ UNCHANGED <<waiters, undo, written, slack>>

\* It fails or times out; after a timeout the client rolls back what was executed.
NotIncremented(w) ==
    /\ write[w].pc = "incr" /\ tablePlan.mayFail
    /\ Release(Server(w))
    /\ At(w, "answered")
    /\ \/ UNCHANGED <<count, undo>>
       \/ count' = count + Block /\ undo' = undo + 1
    /\ UNCHANGED <<line, waiters, written, slack>>

RolledBack ==
    /\ undo > 0
    /\ undo' = undo - 1 /\ count' = count - Block /\ slack' = slack + Block
    /\ UNCHANGED <<line, holder, waiters, write, written>>

-----------------------------------------------------------------------------
(* WriteToSession *)

GiveBack(s, n) ==
    /\ line' = [line EXCEPT ![s].curr = @ - n]
    /\ slack' = slack + n

Stored(w) == written' = written \cup {<<w, write[w].bucket>>}

\* The write is done; when the call has been cancelled meanwhile the number is given back.
Written(w) ==
    /\ write[w].pc = "write"
    /\ Stored(w)
    /\ \/ At(w, "stored") /\ UNCHANGED <<line, slack>>
       \/ tablePlan.mayCancel /\ At(w, "answered") /\ GiveBack(Server(w), 1)
    /\ UNCHANGED <<holder, waiters, count, undo>>

\* An exception, after which the row may be there or not; the number is given back, and
\* given back again when the call has been cancelled meanwhile.
WriteFails(w) ==
    /\ write[w].pc = "write" /\ tablePlan.mayFail
    /\ At(w, "answered")
    /\ Stored(w) \/ UNCHANGED written
    /\ \E n \in {1, 2} : (n = 2 => tablePlan.mayCancel) /\ GiveBack(Server(w), n)
    /\ UNCHANGED <<holder, waiters, count, undo>>

\* The deadline: one who waits for the lock leaves, one who holds it keeps it for
\* ever; a write goes on behind the shield, and its number is given back once, or
\* twice when the context says that the call is cancelled.
Cancel(w) ==
    LET s == Server(w)
    IN  /\ tablePlan.mayCancel
        /\ \/ /\ write[w].pc \in {"lock", "recheck"}
              /\ At(w, "answered")
              /\ \E i \in 1 .. Len(waiters[s]) :
                    waiters[s][i] = w /\ waiters' = [waiters EXCEPT ![s] = SubSeq(@, 1, i - 1) \o SubSeq(@, i + 1, Len(@))]
              /\ UNCHANGED <<line, slack, count>>
           \/ /\ write[w].pc = "incr"
              /\ At(w, "leaked")
              /\ count' \in {count, count + Block}
              /\ UNCHANGED <<line, slack, waiters>>
           \/ /\ write[w].pc = "write"
              /\ At(w, "orphan")
              /\ \E n \in {1, 2} : GiveBack(s, n)
              /\ UNCHANGED <<count, waiters>>
        /\ UNCHANGED <<holder, undo, written>>

OrphanEnds(w) ==
    /\ write[w].pc = "orphan"
    /\ At(w, "answered")
    /\ Stored(w) \/ UNCHANGED written
    /\ UNCHANGED <<line, holder, waiters, count, undo, slack>>

StorageNext ==
    \/ \E w \in Writes :
          CalBucket(w) \/ Incremented(w) \/ NotIncremented(w) \/ Written(w) \/ WriteFails(w) \/ Cancel(w) \/ OrphanEnds(w)
    \/ \E s \in Servers : Locked(s)
    \/ RolledBack

StorageTypeOK ==
    /\ holder \in [Servers -> Writes \cup {None}]
    /\ count \in Nat /\ undo \in Nat /\ slack \in Nat
    /\ \A w \in Writes : write[w].pc \in {"new", "lock", "recheck", "incr", "write", "orphan", "stored", "answered", "leaked"}

\* A bucket holds no more messages than its size, save one for each number that
\* was given back and a block for each increment that was rolled back.
BucketIsBounded ==
    \A b \in {x[2] : x \in written} : Cardinality({x \in written : x[2] = b}) <= BucketSize + slack

\* A write that waits for the lock of its line goes on, unless a call that was
\* cancelled while it asked Redis has kept the lock.
WritersProceed ==
    []<>(\/ \A w \in Writes : write[w].pc \notin {"lock", "recheck"}
         \/ \E v \in Writes : write[v].pc = "leaked")
=============================================================================
