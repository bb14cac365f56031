------------------------------ MODULE Processes ------------------------------
(***************************************************************************)
(* Main processes and their workers: how a service is started, supervised, *)
(* told about other services and stopped, and how the workers of the       *)
(* snowflake service get the instance ids they build message ids from.     *)
(* Several platforms share one etcd and one Redis.  A platform runs its    *)
(* workers as child processes, or one of them inside the main process.     *)
(***************************************************************************)
EXTENDS Naturals, Sequences, FiniteSets, FiniteSetsExt

CONSTANTS
    Platforms,    \* platform ids, kept in a file across restarts
    Events,       \* service changes that a main process announces
    Byte,         \* a cell of shared_array holds numbers below Byte
    MaxWorkers,   \* no platform has more workers
    Setups        \* the situations to start from

\* on        the platforms that are started;  events: what they announce
\* workers   num_workers of each platform;  single: the platforms without child processes
\* ids       whether the service is the snowflake service
\* crashes   how many workers may die;  restarts: how often a platform is started again
\* faults    how often Redis, the etcd lock or the start of a platform may fail
\* stops     the platforms that get a signal
ASSUME ProcessesAssumption ==
    /\ {Byte, MaxWorkers} \subseteq Nat \ {0}
    /\ \A s \in Setups :
          /\ s.workers \in [Platforms -> 1 .. MaxWorkers] /\ s.single \subseteq s.on
          /\ s.on \subseteq Platforms /\ s.events \subseteq Events
          /\ \A p \in s.single : s.workers[p] = 1
          /\ s.ids \in BOOLEAN /\ s.stops \subseteq s.on
          /\ {s.crashes, s.restarts, s.faults} \subseteq Nat

VARIABLES
    setup,       \* the situation, fixed at the start
    main,        \* platform -> the main process: its place, start_id, should_exit
    array,       \* platform -> shared_array: its flag, its count and its instance id
    proc,        \* platform -> processes, by sequence number
    available,   \* platform -> available_sequence
    announced,   \* platform -> the events announced so far
    counter,     \* the Redis key of instance ids
    ranges,      \* the ranges in etcd: platform -> <<start_id, length>>, or NoRange
    lock,        \* the holder of the etcd lock, or Nobody
    crashes, restarts, faults    \* how many so far

procVars == <<main, array, proc, available, announced>>
vars == <<setup, procVars, counter, ranges, lock, crashes, restarts, faults>>

NoRange == <<0, 0>>
Nobody == "nobody"
NoId == 1000
Seqs(p) == IF p \in setup.single THEN {0} ELSE 1 .. setup.workers[p]

\* queue: what dispatch_event fed to the worker;  pipe: what was written to it;  task: main_proc_task runs for it;
\* clean: the instance id was taken from a complete shared_array
NewWorker(task) == [state |-> "running", alive |-> TRUE, pc |-> "sync", id |-> NoId, clean |-> FALSE,
                    queue |-> << >>, pipe |-> << >>, got |-> {}, task |-> task, signal |-> FALSE]

\* A platform whose main process has not entered its event loop; spawn_workers has
\* forked the workers already, and they wait for the flag.
Fresh(p) == [pc |-> "start", start |-> 0, exit |-> FALSE]
NoArray == [flag |-> FALSE, count |-> 0, id |-> 0]
FirstWorkers(p) == [s \in Seqs(p) |-> NewWorker(FALSE)]

Init ==
    /\ setup \in Setups
    /\ main = [p \in Platforms |-> IF p \in setup.on THEN Fresh(p) ELSE [Fresh(p) EXCEPT !.pc = "stopped"]]
    /\ array = [p \in Platforms |-> NoArray]
    /\ proc = [p \in Platforms |-> IF p \in setup.on THEN FirstWorkers(p) ELSE << >>]
    /\ available = [p \in Platforms |-> {}]
    /\ announced = [p \in Platforms |-> {}]
    /\ counter = 0
    /\ ranges = [p \in Platforms |-> NoRange]
    /\ lock = Nobody
    /\ crashes = 0 /\ restarts = 0 /\ faults = 0

Started(p) == main[p].pc \notin {"start", "closing", "waiting", "stopped"}
MayFail == faults < setup.faults
Go(p, pc) == main' = [main EXCEPT ![p].pc = pc]
Ended(w) == [w EXCEPT !.alive = FALSE, !.pc = "exited"]

-----------------------------------------------------------------------------
(* The main process starts *)

\* main_proc_task of a worker runs, or has been cancelled.
WithTask(p, running) == [s \in DOMAIN proc[p] |-> [proc[p][s] EXCEPT !.task = running]]

\* The managers are started, and the flag releases the workers.
EnterForked(p) ==
    /\ main[p].pc = "start" /\ p \notin setup.single
    /\ Go(p, IF setup.ids THEN "get" ELSE "run")
    /\ array' = [array EXCEPT ![p].flag = TRUE]
    /\ proc' = [proc EXCEPT ![p] = WithTask(p, TRUE)]
    /\ UNCHANGED <<setup, available, announced, counter, ranges, lock, crashes, restarts, faults>>

\* Inside one process the worker target becomes a task.
EnterInside(p) ==
    /\ main[p].pc = "start" /\ p \in setup.single
    /\ Go(p, IF setup.ids THEN "get" ELSE "run")
    /\ proc' = [proc EXCEPT ![p][0] = [@ EXCEPT !.pc = IF setup.ids THEN "wait" ELSE "serve", !.task = TRUE]]
    /\ UNCHANGED <<setup, array, available, announced, counter, ranges, lock, crashes, restarts, faults>>

EnterFails(p) ==
    /\ main[p].pc = "start" /\ MayFail
    /\ faults' = faults + 1
    /\ Go(p, "closing")
    /\ UNCHANGED <<setup, array, proc, available, announced, counter, ranges, lock, crashes, restarts>>

\* get_or_flick_instance_id: the range of an earlier start is used again, if it is
\* large enough.
GetRange(p) ==
    /\ main[p].pc = "get"
    /\ main' = [main EXCEPT ![p] =
          CASE ranges[p] = NoRange -> [@ EXCEPT !.pc = "lock"]
            [] ranges[p] # NoRange /\ ranges[p][2] < setup.workers[p] -> [@ EXCEPT !.pc = "closing"]
            [] OTHER -> [@ EXCEPT !.pc = "mask", !.start = ranges[p][1]]]
    /\ UNCHANGED <<setup, array, proc, available, announced, counter, ranges, lock, crashes, restarts, faults>>

AcquireLock(p) ==
    /\ main[p].pc = "lock" /\ lock = Nobody
    /\ lock' = p
    /\ Go(p, "incr")
    /\ UNCHANGED <<setup, array, proc, available, announced, counter, ranges, crashes, restarts, faults>>

\* The lock has a time to live, and its holder goes on.
LockExpires ==
    /\ lock # Nobody /\ MayFail
    /\ faults' = faults + 1
    /\ lock' = Nobody
    /\ UNCHANGED <<setup, procVars, counter, ranges, crashes, restarts>>

Release(p) == lock' = IF lock = p THEN Nobody ELSE lock

\* Mutant: the counter is incremented once for all workers.
IncrByOne(p) ==
    /\ main[p].pc = "incr"
    /\ counter' = counter + 1
    /\ main' = [main EXCEPT ![p] = [@ EXCEPT !.pc = "put", !.start = counter']]
    /\ UNCHANGED <<setup, array, proc, available, announced, ranges, lock, crashes, restarts, faults>>

Incr(p) ==
    /\ main[p].pc = "incr"
    /\ counter' = counter + setup.workers[p]
    /\ main' = [main EXCEPT ![p] = [@ EXCEPT !.pc = "put", !.start = counter' - setup.workers[p] + 1]]
    /\ UNCHANGED <<setup, array, proc, available, announced, ranges, lock, crashes, restarts, faults>>

\* The command fails, with or without effect, and everything is tried again.
IncrFails(p) ==
    /\ main[p].pc = "incr" /\ MayFail
    /\ faults' = faults + 1
    /\ counter' \in {counter, counter + setup.workers[p]}
    /\ Release(p)
    /\ Go(p, "lock")
    /\ UNCHANGED <<setup, array, proc, available, announced, ranges, crashes, restarts>>

PutRange(p) ==
    /\ main[p].pc = "put"
    /\ ranges' = [ranges EXCEPT ![p] = <<main[p].start, setup.workers[p]>>]
    /\ Release(p)
    /\ Go(p, "mask")
    /\ UNCHANGED <<setup, array, proc, available, announced, counter, crashes, restarts, faults>>

PutFails(p) ==
    /\ main[p].pc = "put" /\ MayFail
    /\ faults' = faults + 1
    /\ Release(p)
    /\ Go(p, "closing")
    /\ UNCHANGED <<setup, array, proc, available, announced, counter, ranges, crashes, restarts>>

\* The cells of shared_array are written one after the other, the count first.
WriteMask(p) ==
    /\ main[p].pc = "mask"
    /\ array' = [array EXCEPT ![p].count = setup.workers[p]]
    /\ Go(p, "id")
    /\ UNCHANGED <<setup, proc, available, announced, counter, ranges, lock, crashes, restarts, faults>>

WriteId(p) ==
    /\ main[p].pc = "id"
    /\ array' = [array EXCEPT ![p].id = main[p].start % Byte]
    /\ Go(p, "run")
    /\ UNCHANGED <<setup, proc, available, announced, counter, ranges, lock, crashes, restarts, faults>>

-----------------------------------------------------------------------------
(* The main process supervises *)

Fed(w, e) == [w EXCEPT !.queue = Append(w.queue, e)]

\* dispatch_event: a broadcast to the workers of now.
DispatchEvent(p, e) ==
    /\ main[p].pc \notin {"closing", "waiting", "stopped"} /\ e \notin announced[p]
    /\ announced' = [announced EXCEPT ![p] = @ \cup {e}]
    /\ proc' = [proc EXCEPT ![p] = [s \in DOMAIN @ |->
          IF @[s].state = "running" THEN Fed(@[s], e) ELSE @[s]]]
    /\ UNCHANGED <<setup, main, array, available, counter, ranges, lock, crashes, restarts, faults>>

\* Mutant: a dead worker gives its number back at once, and is discarded later.
ReapedEarly(p) ==
    [discard |-> {s \in DOMAIN proc[p] : ~proc[p][s].alive /\ proc[p][s].state # "running"},
     free |-> {s \in DOMAIN proc[p] : ~proc[p][s].alive}]

\* reap_workers: a worker found dead becomes dirty, and is discarded in a later round.
Reaped(p) ==
    LET discard == {s \in DOMAIN proc[p] : ~proc[p][s].alive /\ proc[p][s].state # "running"}
    IN  [discard |-> discard, free |-> discard]

Tagged(w) == IF w.alive \/ w.state # "running" THEN w ELSE [w EXCEPT !.state = "dirty", !.task = FALSE]

\* A round of the monitor; missing workers are forked again, under free numbers.
Monitor(p) ==
    LET reaped == Reaped(p)
        kept == DOMAIN proc[p] \ reaped.discard
        free == available[p] \cup reaped.free
        n == setup.workers[p] - Cardinality(kept)
    IN  /\ Started(p) /\ p \notin setup.single
        /\ \E new \in kSubset(n, free) :
              /\ proc' = [proc EXCEPT ![p] =
                    [s \in kept \cup new |-> IF s \in new THEN NewWorker(TRUE) ELSE Tagged(proc[p][s])]]
              /\ available' = [available EXCEPT ![p] = free \ new]
        /\ UNCHANGED <<setup, main, array, announced, counter, ranges, lock, crashes, restarts, faults>>

\* StatisticManager.proc_consistency forgets the statistics of a dirty worker.
ProcConsistency(p) ==
    /\ Started(p)
    /\ \E s \in DOMAIN proc[p] : proc[p][s].state = "dirty"
    /\ proc' = [proc EXCEPT ![p] = [s \in DOMAIN @ |->
          IF @[s].state = "dirty" THEN [@[s] EXCEPT !.state = "done"] ELSE @[s]]]
    /\ UNCHANGED <<setup, main, array, available, announced, counter, ranges, lock, crashes, restarts, faults>>

-----------------------------------------------------------------------------
(* The workers *)

Change(p, s, w) == proc' = [proc EXCEPT ![p][s] = w]
Live(p, s, pc) == s \in DOMAIN proc[p] /\ proc[p][s].alive /\ proc[p][s].pc = pc

\* post_fork_wrapper: wait for the flag; then the worker target runs.
Released(p, s) ==
    /\ Live(p, s, "sync") /\ p \notin setup.single /\ array[p].flag
    /\ Change(p, s, [proc[p][s] EXCEPT !.pc = IF setup.ids THEN "wait" ELSE "serve"])
    /\ UNCHANGED <<setup, main, array, available, announced, counter, ranges, lock, crashes, restarts, faults>>

\* wait_for_instance_id: the count is polled without the lock.
SeeCount(p, s) ==
    /\ Live(p, s, "wait") /\ array[p].count # 0
    /\ Change(p, s, [proc[p][s] EXCEPT !.pc = "take"])
    /\ UNCHANGED <<setup, main, array, available, announced, counter, ranges, lock, crashes, restarts, faults>>

\* serve: the worker counts from the id of the array, by its sequence number.
InstanceId(cell, s) == cell + s - 1

\* Mutant: the first worker clears the cells.
TakeAll(p, s) ==
    /\ Live(p, s, "take")
    /\ array' = [array EXCEPT ![p].count = 0, ![p].id = 0]
    /\ Change(p, s, [proc[p][s] EXCEPT !.pc = "serve", !.id = InstanceId(array[p].id, s), !.clean = TRUE])
    /\ UNCHANGED <<setup, main, available, announced, counter, ranges, lock, crashes, restarts, faults>>

\* With the lock: the last worker clears the cells.  When another one has done so
\* since the poll, the count itself is taken for the id.
TakeId(p, s) ==
    LET cell == IF array[p].count = 0 THEN 0 ELSE array[p].id
    IN  /\ Live(p, s, "take")
        /\ array' = [array EXCEPT ![p].count = IF @ > 1 THEN @ - 1 ELSE 0,
                                  ![p].id = IF array[p].count = 1 THEN 0 ELSE @]
        /\ Change(p, s, [proc[p][s] EXCEPT !.pc = "serve", !.id = InstanceId(cell, s),
                             !.clean = (array[p].count # 0 /\ main[p].pc # "id")])
        /\ UNCHANGED <<setup, main, available, announced, counter, ranges, lock, crashes, restarts, faults>>

\* publish_event of main_proc_task writes to the pipe of the worker.
PublishEvent(p, s) ==
    /\ s \in DOMAIN proc[p] /\ p \notin setup.single
    /\ proc[p][s].task /\ proc[p][s].queue # << >>
    /\ Change(p, s, [proc[p][s] EXCEPT !.queue = Tail(@), !.pipe = Append(@, Head(proc[p][s].queue))])
    /\ UNCHANGED <<setup, main, array, available, announced, counter, ranges, lock, crashes, restarts, faults>>

\* child_proc_task handles what comes out of it.
HandleEvent(p, s) ==
    /\ Live(p, s, "serve") /\ proc[p][s].pipe # << >>
    /\ Change(p, s, [proc[p][s] EXCEPT !.pipe = Tail(@), !.got = @ \cup {Head(proc[p][s].pipe)}])
    /\ UNCHANGED <<setup, main, array, available, announced, counter, ranges, lock, crashes, restarts, faults>>

\* A worker inside the main process reads the queue itself.
HandleInside(p) ==
    /\ p \in setup.single /\ Live(p, 0, "serve") /\ proc[p][0].queue # << >>
    /\ Change(p, 0, [proc[p][0] EXCEPT !.queue = Tail(@), !.got = @ \cup {Head(proc[p][0].queue)}])
    /\ UNCHANGED <<setup, main, array, available, announced, counter, ranges, lock, crashes, restarts, faults>>

Crash(p, s) ==
    /\ s \in DOMAIN proc[p] /\ proc[p][s].alive
    /\ p \notin setup.single /\ crashes < setup.crashes
    /\ crashes' = crashes + 1
    /\ Change(p, s, Ended(proc[p][s]))
    /\ UNCHANGED <<setup, main, array, available, announced, counter, ranges, lock, restarts, faults>>

-----------------------------------------------------------------------------
(* The end *)

Told(w) == [w EXCEPT !.signal = w.alive]

\* A signal to the process group, or to the main process only; one process has only
\* the handler that its worker installs.
Signal(p) ==
    /\ p \in setup.stops /\ Started(p) /\ ~main[p].exit
    /\ p \in setup.single => proc[p][0].pc = "serve"
    /\ main' = [main EXCEPT ![p].exit = p \notin setup.single]
    /\ \E told \in {DOMAIN proc[p], DOMAIN proc[p] \cap {0}} :
          proc' = [proc EXCEPT ![p] = [s \in DOMAIN @ |-> IF s \in told THEN Told(@[s]) ELSE @[s]]]
    /\ UNCHANGED <<setup, array, available, announced, counter, ranges, lock, crashes, restarts, faults>>

\* A worker that got a signal stops serving and exits.  Inside the main process its
\* end is the reason for the main process to leave.
Exit(p, s) ==
    /\ s \in DOMAIN proc[p] /\ proc[p][s].alive /\ proc[p][s].signal
    /\ Change(p, s, Ended(proc[p][s]))
    /\ main' = [main EXCEPT ![p].exit = @ \/ p \in setup.single]
    /\ UNCHANGED <<setup, array, available, announced, counter, ranges, lock, crashes, restarts, faults>>

\* should_exit is read in the main loop only, after the ids are there.
Leave(p) ==
    /\ main[p].pc = "run" /\ main[p].exit
    /\ Go(p, "closing")
    /\ UNCHANGED <<setup, array, proc, available, announced, counter, ranges, lock, crashes, restarts, faults>>

\* close_entrypoint stops the managers and the tasks of the workers.
CloseForked(p) ==
    /\ main[p].pc = "closing" /\ p \notin setup.single
    /\ Go(p, "waiting")
    /\ proc' = [proc EXCEPT ![p] = WithTask(p, FALSE)]
    /\ UNCHANGED <<setup, array, available, announced, counter, ranges, lock, crashes, restarts, faults>>

\* A worker inside is cancelled before; there is no one to wait for.
CloseInside(p) ==
    /\ main[p].pc = "closing" /\ p \in setup.single
    /\ Go(p, "stopped")
    /\ proc' = [proc EXCEPT ![p][0] = Ended([@ EXCEPT !.task = FALSE])]
    /\ UNCHANGED <<setup, array, available, announced, counter, ranges, lock, crashes, restarts, faults>>

\* wait_children_to_exit ends when all have exited.
WaitChildren(p) ==
    /\ main[p].pc = "waiting"
    /\ \A s \in DOMAIN proc[p] : ~proc[p][s].alive
    /\ Go(p, "stopped")
    /\ UNCHANGED <<setup, array, proc, available, announced, counter, ranges, lock, crashes, restarts, faults>>

\* Or after ten seconds: kill(0) sends no signal, but daemonic children are
\* terminated when the main process leaves.
WaitTooLong(p) ==
    /\ main[p].pc = "waiting"
    /\ \E s \in DOMAIN proc[p] : proc[p][s].alive /\ ~proc[p][s].signal
    /\ proc' = [proc EXCEPT ![p] = [s \in DOMAIN @ |-> Told(@[s])]]
    /\ UNCHANGED <<setup, main, array, available, announced, counter, ranges, lock, crashes, restarts, faults>>

\* The platform is started again, with the platform id of its file.
Restart(p) ==
    /\ p \in setup.on /\ main[p].pc = "stopped" /\ restarts < setup.restarts
    /\ restarts' = restarts + 1
    /\ main' = [main EXCEPT ![p] = Fresh(p)]
    /\ array' = [array EXCEPT ![p] = NoArray]
    /\ proc' = [proc EXCEPT ![p] = FirstWorkers(p)]
    /\ available' = [available EXCEPT ![p] = {}]
    /\ announced' = [announced EXCEPT ![p] = {}]
    /\ UNCHANGED <<setup, counter, ranges, lock, crashes, faults>>

Steps(p) ==
    \/ EnterForked(p) \/ EnterInside(p) \/ GetRange(p) \/ AcquireLock(p) \/ Incr(p) \/ PutRange(p) \/ WriteMask(p) \/ WriteId(p)
    \/ Leave(p) \/ CloseForked(p) \/ CloseInside(p) \/ WaitChildren(p) \/ WaitTooLong(p)

WorkerSteps(p, s) == Released(p, s) \/ SeeCount(p, s) \/ TakeId(p, s) \/ HandleEvent(p, s) \/ Exit(p, s)

Next ==
    \/ LockExpires
    \/ \E p \in Platforms :
          \/ Steps(p) \/ HandleInside(p) \/ Monitor(p) \/ ProcConsistency(p)
          \/ EnterFails(p) \/ IncrFails(p) \/ PutFails(p) \/ Signal(p) \/ Restart(p)
          \/ \E e \in setup.events : DispatchEvent(p, e)
          \/ \E s \in Seqs(p) : WorkerSteps(p, s) \/ PublishEvent(p, s) \/ Crash(p, s)

\* Every process is scheduled, and the timer of the monitor fires.
Fairness ==
    \A p \in Platforms :
        /\ WF_vars(Steps(p)) /\ WF_vars(Monitor(p)) /\ WF_vars(HandleInside(p))
        /\ \A s \in 0 .. MaxWorkers : WF_vars(WorkerSteps(p, s)) /\ WF_vars(PublishEvent(p, s))

Spec == Init /\ [][Next]_vars /\ Fairness

-----------------------------------------------------------------------------
(* Properties *)

\* Every variable has its type.
TypeOK ==
    /\ lock \in Platforms \cup {Nobody} /\ counter \in Nat
    /\ \A p \in Platforms :
          /\ main[p].pc \in {"start", "get", "lock", "incr", "put", "mask", "id", "run",
                             "closing", "waiting", "stopped"}
          /\ array[p].count \in 0 .. setup.workers[p] /\ array[p].id \in 0 .. (Byte - 1)
          /\ available[p] \subseteq Seqs(p) /\ DOMAIN proc[p] \subseteq Seqs(p)

\* Every sequence number belongs to one process or is available, whatever workers die
\* between the rounds of the monitor, and a process that runs for the manager has its
\* pipe task (reap_workers, spawn_workers).
SeqsPartition ==
    \A p \in setup.on :
        /\ available[p] \cap DOMAIN proc[p] = {}
        /\ available[p] \cup DOMAIN proc[p] = Seqs(p)
        /\ Started(p) => \A s \in DOMAIN proc[p] : proc[p][s].task = (proc[p][s].state = "running")

Serving == {x \in Platforms \X (0 .. MaxWorkers) : Live(x[1], x[2], "serve") /\ proc[x[1]][x[2]].clean}

\* Two snowflake workers that serve at a time never share an instance id, across
\* platforms that start together, lose the lock, repeat the increment or start again
\* with the range in etcd.  Excepted are workers that read shared_array half written
\* or after it was cleared, and a platform with child processes next to one without,
\* whose sequence number zero gives it the id before its range.
IdsDistinct ==
    \A x, y \in Serving :
        x # y /\ (x[1] \in setup.single) = (y[1] \in setup.single)
              /\ counter < Byte
           => proc[x[1]][x[2]].id # proc[y[1]][y[2]].id

\* Without crashes every snowflake worker comes to serve, however the workers and the
\* main process interleave on shared_array, or its platform is closed.
WorkersServe ==
    \A p \in Platforms :
        (main[p].pc = "run" /\ crashes = 0) ~>
            (\/ \A s \in DOMAIN proc[p] : proc[p][s].pc = "serve"
             \/ crashes > 0 \/ main[p].exit \/ ~Started(p))

\* An event fed to a worker is handled by it, unless the worker or its platform ends
\* or the worker waits for an instance id for ever.
EventsHandled ==
    \A p \in Platforms, e \in Events :
        (e \in announced[p]) ~>
            (\/ ~Started(p) \/ crashes > 0 \/ main[p].exit
             \/ \A s \in DOMAIN proc[p] : e \in proc[p][s].got)

\* A worker that died is replaced in the end by one that runs, unless its platform closes.
Replaced ==
    \A p \in Platforms :
        []<>(~Started(p) \/ \A s \in Seqs(p) : s \in DOMAIN proc[p] /\ proc[p][s].state = "running"
                                             /\ proc[p][s].alive)

\* A platform that begins to close stops, and leaves no worker behind.
StopsClean ==
    \A p \in Platforms :
        /\ (main[p].pc = "closing") ~> (main[p].pc = "stopped")
        /\ [](main[p].pc = "stopped" => \A s \in DOMAIN proc[p] : ~proc[p][s].alive)

\* A platform does its work: its workers come to serve, handle what is announced, are
\* replaced when they die, and stop with it.
PlatformsWork == WorkersServe /\ EventsHandled /\ Replaced /\ StopsClean
=============================================================================
