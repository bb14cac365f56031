--------------------------- MODULE ProcessesProofs ---------------------------
(***************************************************************************)
(* The processes of a service for every number of platforms, workers,      *)
(* deaths, restarts and faults: the sequence numbers of a platform are     *)
(* split between its processes and the free ones, and two snowflake        *)
(* workers that serve have different instance ids.                         *)
(***************************************************************************)
EXTENDS Processes, TLAPS

\* Where a main process is, its state and a cell of a shared_array.
Places == {"start", "get", "lock", "incr", "put", "mask", "id", "run", "closing", "waiting", "stopped"}
Mains == [pc : Places, start : Nat, exit : BOOLEAN]
Cells == [flag : BOOLEAN, count : Nat, id : Nat]

\* Before the first round of the monitor, and after its last one.
Away == {"start", "closing", "waiting", "stopped"}

\* The record of a process.
Fields == {"state", "alive", "pc", "id", "clean", "queue", "pipe", "got", "task", "signal"}
IsWorker(w) ==
    /\ DOMAIN w = Fields /\ w = [x \in Fields |-> w[x]]
    /\ w.state \in {"running", "dirty", "done"} /\ w.task \in BOOLEAN /\ w.clean \in BOOLEAN

\* The workers f of platform p and its free numbers v, while its main process is m.
Crew(p, m, f, v) ==
    /\ \A s \in DOMAIN f : IsWorker(f[s])
    /\ p \in setup.on => v \cap DOMAIN f = {} /\ v \cup DOMAIN f = Seqs(p)
    /\ p \notin setup.on => DOMAIN f = {} /\ m.pc = "stopped"
    /\ m.pc = "start" => \A s \in DOMAIN f : f[s].state = "running"
    /\ m.pc \notin Away => \A s \in DOMAIN f : f[s].task = (f[s].state = "running")

\* Its shared_array a is filled from its range r once the range is in etcd, and cleared
\* before the next start; a worker that took its id from the filled array counts from r.
Ids(p, m, a, f, r) ==
    /\ m.pc \in {"lock", "incr", "put"} => r = NoRange
    /\ m.pc \in {"mask", "id"} => r # NoRange /\ m.start = r[1]
    /\ m.pc \in {"start", "get", "lock", "incr", "put", "mask"} => a.count = 0
    /\ a.count # 0 /\ m.pc # "id" => r # NoRange /\ a.id = r[1] % Byte
    /\ \A s \in DOMAIN f : f[s].clean => r # NoRange /\ f[s].id = InstanceId(r[1] % Byte, s)

\* The first number of a range that a platform has in etcd or is about to put there.
Owns(m, r, b) == (m.pc = "put" /\ b = m.start) \/ (r # NoRange /\ b = r[1])

\* The ranges are below the counter and do not meet.
Below == \A p \in Platforms, b \in Nat : Owns(main[p], ranges[p], b) => b > 0 /\ b + setup.workers[p] <= counter + 1
Apart ==
    \A p, q \in Platforms, b, c \in Nat :
        p # q /\ Owns(main[p], ranges[p], b) /\ Owns(main[q], ranges[q], c)
           => b + setup.workers[p] <= c \/ c + setup.workers[q] <= b

\* Types, as far as the argument needs them.
PlatformsTyped ==
    /\ main \in [Platforms -> Mains] /\ array \in [Platforms -> Cells] /\ ranges \in [Platforms -> Nat \X Nat]
    /\ DOMAIN proc = Platforms /\ DOMAIN available = Platforms /\ counter \in Nat

\* The inductive invariant.
PInv ==
    /\ setup \in Setups /\ PlatformsTyped
    /\ \A p \in Platforms : Crew(p, main[p], proc[p], available[p]) /\ Ids(p, main[p], array[p], proc[p], ranges[p])
    /\ Below /\ Apart

-----------------------------------------------------------------------------
(* The steps *)

\* What the setup says of a platform.
LEMMA SetupFacts ==
    ASSUME setup \in Setups, NEW p \in Platforms
    PROVE  /\ setup.workers[p] \in Nat \ {0} /\ setup.workers[p] <= MaxWorkers
           /\ setup.single \subseteq setup.on /\ (p \in setup.single => setup.workers[p] = 1)
BY ProcessesAssumption

\* A platform takes a step: its ranges stay or are new.
LEMMA RangesKeep ==
    ASSUME PInv, setup' = setup, NEW p \in Platforms, NEW m, NEW r,
           \A q \in Platforms : q # p => main'[q] = main[q] /\ ranges'[q] = ranges[q],
           main'[p] = m, ranges'[p] = r, counter' \in Nat, counter <= counter',
           \A b \in Nat : Owns(m, r, b) => \/ Owns(main[p], ranges[p], b)
                                           \/ b > counter /\ b + setup.workers[p] <= counter' + 1
    PROVE  Below' /\ Apart'
<1>1. counter \in Nat /\ setup \in Setups /\ Below /\ Apart
  BY Zenon DEF PInv, PlatformsTyped
<1>2. \A q \in Platforms : setup.workers[q] \in Nat
  BY <1>1, SetupFacts, Zenon
<1>3. ASSUME NEW q \in Platforms, NEW b \in Nat, Owns(main'[q], ranges'[q], b)
      PROVE  b > 0 /\ b + setup.workers[q] <= counter' + 1
  <2>1. CASE Owns(main[q], ranges[q], b)
    BY <1>1, <1>2, <2>1 DEF Below
  <2>2. CASE ~Owns(main[q], ranges[q], b)
    BY <1>1, <1>2, <1>3, <2>2
  <2>3. QED
    BY <2>1, <2>2, Zenon
<1>4. ASSUME NEW q \in Platforms, NEW b \in Nat, NEW c \in Nat, q # p, Owns(main'[p], ranges'[p], b), Owns(main'[q], ranges'[q], c)
      PROVE  b + setup.workers[p] <= c \/ c + setup.workers[q] <= b
  <2>1. Owns(main[q], ranges[q], c)
    BY <1>4, Zenon
  <2>2. CASE Owns(main[p], ranges[p], b)
    BY <1>1, <1>4, <2>1, <2>2, Zenon DEF Apart
  <2>3. CASE b > counter
    <3>1. c + setup.workers[q] <= counter + 1
      BY <1>1, <2>1, Zenon DEF Below
    <3>2. QED
      BY <1>1, <1>2, <2>3, <3>1
  <2>4. QED
    BY <1>4, <2>2, <2>3, Zenon
<1>5. ASSUME NEW q \in Platforms, NEW t \in Platforms, NEW b \in Nat, NEW c \in Nat, q # t,
             Owns(main'[q], ranges'[q], b), Owns(main'[t], ranges'[t], c)
      PROVE  b + setup.workers[q] <= c \/ c + setup.workers[t] <= b
  <2>1. CASE q = p
    BY <1>4, <1>5, <2>1, Zenon
  <2>2. CASE t = p
    BY <1>4, <1>5, <2>2, Zenon
  <2>3. CASE q # p /\ t # p
    BY <1>1, <1>5, <2>3, Zenon DEF Apart
  <2>4. QED
    BY <2>1, <2>2, <2>3, Zenon
<1>6. Below'
  BY <1>3, Zenon DEF Below, Owns
<1>7. Apart'
  BY <1>5, Zenon DEF Apart, Owns
<1>8. QED
  BY <1>6, <1>7, Zenon

\* The step of one platform.
LEMMA OneStep ==
    ASSUME PInv, setup' = setup, NEW p \in Platforms,
           main' \in [Platforms -> Mains], array' \in [Platforms -> Cells], ranges' \in [Platforms -> Nat \X Nat],
           DOMAIN proc' = Platforms, DOMAIN available' = Platforms, counter' \in Nat, counter <= counter',
           \A q \in Platforms : q # p => /\ main'[q] = main[q] /\ array'[q] = array[q] /\ proc'[q] = proc[q]
                                         /\ available'[q] = available[q] /\ ranges'[q] = ranges[q],
           Crew(p, main'[p], proc'[p], available'[p]), Ids(p, main'[p], array'[p], proc'[p], ranges'[p]),
           \A b \in Nat : Owns(main'[p], ranges'[p], b) => \/ Owns(main[p], ranges[p], b)
                                                           \/ b > counter /\ b + setup.workers[p] <= counter' + 1
    PROVE  PInv'
<1>1. Below' /\ Apart'
  BY RangesKeep, Zenon
<1>2. PlatformsTyped'
  BY Zenon DEF PlatformsTyped, Mains, Cells, Places
<1>3. ASSUME NEW q \in Platforms
      PROVE  Crew(q, main'[q], proc'[q], available'[q]) /\ Ids(q, main'[q], array'[q], proc'[q], ranges'[q])
  <2>1. CASE q = p
    BY <2>1, Zenon
  <2>2. CASE q # p
    BY <2>2, Zenon DEF PInv
  <2>3. QED
    BY <2>1, <2>2, Zenon
<1>4. \A q \in Platforms : Crew(q, main[q], proc[q], available[q])' /\ Ids(q, main[q], array[q], proc[q], ranges[q])'
  BY <1>3, Zenon DEF Crew, Ids, Seqs, IsWorker, Fields, Away, NoRange, InstanceId
<1>5. QED
  BY <1>1, <1>2, <1>4, Zenon DEF PInv

\* The main process goes to another place.
LEMMA GoFacts ==
    ASSUME PInv, NEW p \in Platforms, NEW pc \in Places, Go(p, pc)
    PROVE  /\ main' \in [Platforms -> Mains] /\ main'[p].pc = pc /\ main'[p].start = main[p].start
           /\ \A q \in Platforms : q # p => main'[q] = main[q]
<1>1. main \in [Platforms -> Mains]
  BY Zenon DEF PInv, PlatformsTyped
<1>2. main' = [main EXCEPT ![p].pc = pc]
  BY Zenon DEF Go
<1>3. QED
  BY <1>1, <1>2, Zenon DEF Mains

\* A step of the main process that leaves the workers alone.
LEMMA MainStep ==
    ASSUME PInv, setup' = setup, NEW p \in Platforms, proc' = proc, available' = available,
           main' \in [Platforms -> Mains], array' \in [Platforms -> Cells], ranges' \in [Platforms -> Nat \X Nat],
           counter' \in Nat, counter <= counter',
           \A q \in Platforms : q # p => main'[q] = main[q] /\ array'[q] = array[q] /\ ranges'[q] = ranges[q],
           main'[p].pc # "start", main[p].pc # "stopped", main'[p].pc \notin Away => main[p].pc \notin Away,
           Ids(p, main'[p], array'[p], proc[p], ranges'[p]),
           \A b \in Nat : Owns(main'[p], ranges'[p], b) => \/ Owns(main[p], ranges[p], b)
                                                           \/ b > counter /\ b + setup.workers[p] <= counter' + 1
    PROVE  PInv'
<1>1. Crew(p, main[p], proc[p], available[p]) /\ DOMAIN proc = Platforms /\ DOMAIN available = Platforms
  BY Zenon DEF PInv, PlatformsTyped
<1>2. Crew(p, main'[p], proc'[p], available'[p])
  BY <1>1, Zenon DEF Crew
<1>3. QED
  BY <1>1, <1>2, OneStep, Zenon

\* A step from one place to another that leaves the array and the ranges alone.
LEMMA PlaceStep ==
    ASSUME PInv, setup' = setup, NEW p \in Platforms, NEW pc \in Places \ {"start", "put", "mask", "id"}, Go(p, pc),
           UNCHANGED <<proc, available, array, ranges>>, counter' \in Nat, counter <= counter',
           pc \notin Away => main[p].pc \notin Away, main[p].pc \notin {"id", "stopped"},
           pc \in {"lock", "incr"} => ranges[p] = NoRange,
           pc \in {"get", "lock", "incr"} => array[p].count = 0
    PROVE  PInv'
<1>1. /\ main' \in [Platforms -> Mains] /\ main'[p].pc = pc /\ main'[p].start = main[p].start
      /\ \A q \in Platforms : q # p => main'[q] = main[q]
  BY GoFacts, Zenon
<1>2. /\ Ids(p, main[p], array[p], proc[p], ranges[p]) /\ array \in [Platforms -> Cells] /\ ranges \in [Platforms -> Nat \X Nat]
  BY Zenon DEF PInv, PlatformsTyped
<1>3. Ids(p, main'[p], array'[p], proc[p], ranges'[p])
  BY <1>1, <1>2, Zenon DEF Ids
<1>4. \A b \in Nat : Owns(main'[p], ranges'[p], b) => Owns(main[p], ranges[p], b)
  BY <1>1, Zenon DEF Owns
<1>5. QED
  BY <1>1, <1>2, <1>3, <1>4, MainStep, Zenon

\* The start fails, the lock is taken, an increment or the range fails, the main process leaves.
LEMMA PlaceSteps ==
    ASSUME PInv, setup' = setup, NEW p \in Platforms,
           EnterFails(p) \/ AcquireLock(p) \/ IncrFails(p) \/ PutFails(p) \/ Leave(p) \/ WaitChildren(p)
    PROVE  PInv'
<1>1. /\ Ids(p, main[p], array[p], proc[p], ranges[p]) /\ counter \in Nat /\ setup.workers[p] \in Nat
  BY SetupFacts, Zenon DEF PInv, PlatformsTyped
<1>2. counter <= counter
  BY <1>1
<1>3. CASE EnterFails(p) \/ PutFails(p) \/ Leave(p)
  <2>1. Go(p, "closing") /\ UNCHANGED <<proc, available, array, ranges, counter>> /\ main[p].pc \notin {"id", "stopped"}
    BY <1>3, Zenon DEF EnterFails, PutFails, Leave
  <2>2. QED
    BY <1>1, <1>2, <2>1, PlaceStep, Zenon DEF Places, Away
<1>4. CASE WaitChildren(p)
  <2>1. Go(p, "stopped") /\ UNCHANGED <<proc, available, array, ranges, counter>> /\ main[p].pc \notin {"id", "stopped"}
    BY <1>4, Zenon DEF WaitChildren
  <2>2. QED
    BY <1>1, <1>2, <2>1, PlaceStep, Zenon DEF Places, Away
<1>5. CASE AcquireLock(p)
  <2>1. Go(p, "incr") /\ UNCHANGED <<proc, available, array, ranges, counter>> /\ main[p].pc = "lock"
    BY <1>5, Zenon DEF AcquireLock
  <2>2. ranges[p] = NoRange /\ array[p].count = 0
    BY <1>1, <2>1, Zenon DEF Ids
  <2>3. QED
    BY <1>1, <1>2, <2>1, <2>2, PlaceStep, Zenon DEF Places, Away
<1>6. CASE IncrFails(p)
  <2>1. /\ Go(p, "lock") /\ UNCHANGED <<proc, available, array, ranges>> /\ main[p].pc = "incr"
        /\ counter' \in {counter, counter + setup.workers[p]}
    BY <1>6, Zenon DEF IncrFails
  <2>2. ranges[p] = NoRange /\ array[p].count = 0
    BY <1>1, <2>1, Zenon DEF Ids
  <2>3. counter' \in Nat /\ counter <= counter'
    BY <1>1, <2>1
  <2>4. QED
    BY <2>1, <2>2, <2>3, PlaceStep, Zenon DEF Places, Away
<1>7. QED
  BY <1>3, <1>4, <1>5, <1>6, Zenon

\* get_or_flick_instance_id finds a range or not.
LEMMA GetRangeKeeps ==
    ASSUME PInv, setup' = setup, NEW p \in Platforms, GetRange(p)
    PROVE  PInv'
<1> DEFINE r == ranges[p]
<1>1. /\ Ids(p, main[p], array[p], proc[p], r) /\ counter \in Nat /\ main \in [Platforms -> Mains]
      /\ array \in [Platforms -> Cells] /\ ranges \in [Platforms -> Nat \X Nat]
  BY Zenon DEF PInv, PlatformsTyped
<1>2. /\ main[p].pc = "get" /\ UNCHANGED <<proc, available, array, ranges, counter>>
      /\ main' = [main EXCEPT ![p] =
            CASE r = NoRange -> [@ EXCEPT !.pc = "lock"]
              [] r # NoRange /\ r[2] < setup.workers[p] -> [@ EXCEPT !.pc = "closing"]
              [] OTHER -> [@ EXCEPT !.pc = "mask", !.start = r[1]]]
  BY Zenon DEF GetRange
<1>3. r \in Nat \X Nat /\ r[1] \in Nat /\ array[p].count = 0
  BY <1>1, <1>2, Zenon DEF Ids
<1> HIDE DEF r
<1>4. PICK m : /\ main' = [main EXCEPT ![p] = m]
               /\ \/ r = NoRange /\ m = [main[p] EXCEPT !.pc = "lock"]
                  \/ m = [main[p] EXCEPT !.pc = "closing"]
                  \/ r # NoRange /\ m = [main[p] EXCEPT !.pc = "mask", !.start = r[1]]
  BY <1>2, Zenon
<1>5. /\ m \in Mains
      /\ \/ r = NoRange /\ m.pc = "lock"
         \/ m.pc = "closing"
         \/ r # NoRange /\ m.pc = "mask" /\ m.start = r[1]
  <2>1. main[p] \in Mains
    BY <1>1, Zenon
  <2>2. CASE r = NoRange /\ m = [main[p] EXCEPT !.pc = "lock"]
    BY <2>1, <2>2, Zenon DEF Mains, Places
  <2>3. CASE m = [main[p] EXCEPT !.pc = "closing"]
    BY <2>1, <2>3, Zenon DEF Mains, Places
  <2>4. CASE r # NoRange /\ m = [main[p] EXCEPT !.pc = "mask", !.start = r[1]]
    BY <1>3, <2>1, <2>4, Zenon DEF Mains, Places
  <2>5. QED
    BY <1>4, <2>2, <2>3, <2>4, Zenon
<1>6. main' \in [Platforms -> Mains] /\ main'[p] = m /\ \A q \in Platforms : q # p => main'[q] = main[q]
  BY <1>1, <1>4, <1>5, Zenon
<1>7. Ids(p, m, array[p], proc[p], r)
  BY <1>1, <1>2, <1>3, <1>5, Zenon DEF Ids
<1>8. \A b \in Nat : Owns(m, r, b) => Owns(main[p], r, b)
  BY <1>5, Zenon DEF Owns
<1>9. counter' \in Nat /\ counter <= counter'
  BY <1>1, <1>2
<1>10. QED
  BY <1>1, <1>2, <1>5, <1>6, <1>7, <1>8, <1>9, MainStep, Zenon DEF r, Away

\* Redis gives a new block of ids.
LEMMA IncrKeeps ==
    ASSUME PInv, setup' = setup, NEW p \in Platforms, Incr(p)
    PROVE  PInv'
<1> DEFINE n == setup.workers[p]
<1>1. /\ Ids(p, main[p], array[p], proc[p], ranges[p]) /\ counter \in Nat /\ main \in [Platforms -> Mains]
      /\ array \in [Platforms -> Cells] /\ ranges \in [Platforms -> Nat \X Nat]
  BY Zenon DEF PInv, PlatformsTyped
<1>2. n \in Nat
  BY SetupFacts, Zenon DEF PInv
<1>3. /\ main[p].pc = "incr" /\ UNCHANGED <<proc, available, array, ranges>> /\ counter' = counter + n
      /\ main' = [main EXCEPT ![p] = [@ EXCEPT !.pc = "put", !.start = counter' - n + 1]]
  BY Zenon DEF Incr
<1> HIDE DEF n
<1>4. counter' \in Nat /\ counter <= counter' /\ counter' - n + 1 = counter + 1 /\ counter + 1 \in Nat
  BY <1>1, <1>2, <1>3
<1>5. /\ main' \in [Platforms -> Mains] /\ main'[p].pc = "put" /\ main'[p].start = counter + 1
      /\ \A q \in Platforms : q # p => main'[q] = main[q]
  BY <1>1, <1>3, <1>4, Zenon DEF Mains, Places
<1>6. ranges[p] = NoRange /\ array[p].count = 0
  BY <1>1, <1>3, Zenon DEF Ids
<1>7. Ids(p, main'[p], array'[p], proc[p], ranges'[p])
  BY <1>1, <1>3, <1>5, <1>6, Zenon DEF Ids
<1>8. ASSUME NEW b \in Nat, Owns(main'[p], ranges'[p], b) PROVE b > counter /\ b + n <= counter' + 1
  <2>1. b = counter + 1
    BY <1>3, <1>5, <1>6, <1>8, Zenon DEF Owns
  <2>2. QED
    BY <1>1, <1>2, <1>3, <2>1
<1>9. QED
  BY <1>1, <1>3, <1>4, <1>5, <1>7, <1>8, MainStep, Zenon DEF Away, n

\* The block goes to etcd.
LEMMA PutRangeKeeps ==
    ASSUME PInv, setup' = setup, NEW p \in Platforms, PutRange(p)
    PROVE  PInv'
<1>1. /\ Ids(p, main[p], array[p], proc[p], ranges[p]) /\ counter \in Nat /\ main \in [Platforms -> Mains]
      /\ array \in [Platforms -> Cells] /\ ranges \in [Platforms -> Nat \X Nat] /\ Below
  BY Zenon DEF PInv, PlatformsTyped
<1>2. setup.workers[p] \in Nat \ {0}
  BY SetupFacts, Zenon DEF PInv
<1>3. /\ main[p].pc = "put" /\ UNCHANGED <<proc, available, array, counter>> /\ Go(p, "mask")
      /\ ranges' = [ranges EXCEPT ![p] = <<main[p].start, setup.workers[p]>>]
  BY Zenon DEF PutRange
<1>4. /\ main' \in [Platforms -> Mains] /\ main'[p].pc = "mask" /\ main'[p].start = main[p].start
      /\ \A q \in Platforms : q # p => main'[q] = main[q]
  BY <1>3, GoFacts, Zenon DEF Places
<1>5. main[p].start \in Nat
  BY <1>1, Zenon DEF Mains
<1>6. /\ ranges' \in [Platforms -> Nat \X Nat] /\ ranges'[p] # NoRange /\ ranges'[p][1] = main[p].start
      /\ \A q \in Platforms : q # p => ranges'[q] = ranges[q]
  BY <1>1, <1>2, <1>3, <1>5, Zenon DEF NoRange
<1>7. ranges[p] = NoRange /\ array[p].count = 0
  BY <1>1, <1>3, Zenon DEF Ids
<1>8. Ids(p, main'[p], array'[p], proc[p], ranges'[p])
  BY <1>1, <1>3, <1>4, <1>6, <1>7, Zenon DEF Ids
<1>9. \A b \in Nat : Owns(main'[p], ranges'[p], b) => Owns(main[p], ranges[p], b)
  BY <1>3, <1>4, <1>6, Zenon DEF Owns
<1>10. counter' \in Nat /\ counter <= counter'
  BY <1>1, <1>3
<1>11. QED
  BY <1>1, <1>3, <1>4, <1>6, <1>8, <1>9, <1>10, MainStep, Zenon DEF Away

\* The cells of shared_array are written.
LEMMA WriteKeeps ==
    ASSUME PInv, setup' = setup, NEW p \in Platforms, WriteMask(p) \/ WriteId(p)
    PROVE  PInv'
<1>1. /\ Ids(p, main[p], array[p], proc[p], ranges[p]) /\ counter \in Nat /\ main \in [Platforms -> Mains]
      /\ array \in [Platforms -> Cells] /\ ranges \in [Platforms -> Nat \X Nat] /\ Byte \in Nat \ {0}
  BY ProcessesAssumption, Zenon DEF PInv, PlatformsTyped
<1>2. setup.workers[p] \in Nat
  BY SetupFacts, Zenon DEF PInv
<1>3. counter' = counter /\ counter \in Nat /\ counter <= counter' /\ UNCHANGED <<proc, available, ranges>>
  BY <1>1 DEF WriteMask, WriteId
<1>4. CASE WriteMask(p)
  <2>1. main[p].pc = "mask" /\ Go(p, "id") /\ array' = [array EXCEPT ![p].count = setup.workers[p]]
    BY <1>4, Zenon DEF WriteMask
  <2>2. /\ main' \in [Platforms -> Mains] /\ main'[p].pc = "id" /\ main'[p].start = main[p].start
        /\ \A q \in Platforms : q # p => main'[q] = main[q]
    BY <2>1, GoFacts, Zenon DEF Places
  <2>3. array' \in [Platforms -> Cells] /\ \A q \in Platforms : q # p => array'[q] = array[q]
    BY <1>1, <1>2, <2>1, Zenon DEF Cells
  <2>4. Ids(p, main'[p], array'[p], proc[p], ranges[p])
    BY <1>1, <2>1, <2>2, Zenon DEF Ids
  <2>5. \A b \in Nat : Owns(main'[p], ranges[p], b) => Owns(main[p], ranges[p], b)
    BY <2>2, Zenon DEF Owns
  <2>6. QED
    BY <1>1, <1>3, <2>1, <2>2, <2>3, <2>4, <2>5, MainStep, Zenon DEF Away
<1>5. CASE WriteId(p)
  <2>1. main[p].pc = "id" /\ Go(p, "run") /\ array' = [array EXCEPT ![p].id = main[p].start % Byte]
    BY <1>5, Zenon DEF WriteId
  <2>2. /\ main' \in [Platforms -> Mains] /\ main'[p].pc = "run" /\ main'[p].start = main[p].start
        /\ \A q \in Platforms : q # p => main'[q] = main[q]
    BY <2>1, GoFacts, Zenon DEF Places
  <2>3. ranges[p] # NoRange /\ main[p].start = ranges[p][1] /\ main[p].start \in Nat
    BY <1>1, <2>1, Zenon DEF Ids, Mains
  <2>4. main[p].start % Byte \in Nat
    BY <1>1, <2>3
  <2>5. /\ array' \in [Platforms -> Cells] /\ array'[p].id = ranges[p][1] % Byte
        /\ \A q \in Platforms : q # p => array'[q] = array[q]
    BY <1>1, <2>1, <2>3, <2>4, Zenon DEF Cells
  <2>6. Ids(p, main'[p], array'[p], proc[p], ranges[p])
    BY <1>1, <2>2, <2>3, <2>5, Zenon DEF Ids
  <2>7. \A b \in Nat : Owns(main'[p], ranges[p], b) => Owns(main[p], ranges[p], b)
    BY <2>2, Zenon DEF Owns
  <2>8. QED
    BY <1>1, <1>3, <2>1, <2>2, <2>5, <2>6, <2>7, MainStep, Zenon DEF Away
<1>6. QED
  BY <1>4, <1>5, Zenon

\* The workers change together, and neither their kind nor their ids.
Same(f, g) ==
    /\ DOMAIN g = DOMAIN f
    /\ \A s \in DOMAIN f : /\ IsWorker(g[s]) /\ g[s].state = f[s].state /\ g[s].task = f[s].task
                           /\ g[s].clean => f[s].clean /\ g[s].id = f[s].id

\* A step of the workers.
LEMMA CrewStep ==
    ASSUME PInv, setup' = setup, NEW p \in Platforms, NEW g, Same(proc[p], g), proc' = [proc EXCEPT ![p] = g],
           main' \in [Platforms -> Mains], main'[p].pc = main[p].pc, main'[p].start = main[p].start,
           \A q \in Platforms : q # p => main'[q] = main[q],
           UNCHANGED <<available, array, ranges, counter>>
    PROVE  PInv'
<1>1. /\ Crew(p, main[p], proc[p], available[p]) /\ Ids(p, main[p], array[p], proc[p], ranges[p])
      /\ DOMAIN proc = Platforms /\ DOMAIN available = Platforms /\ counter \in Nat
      /\ array \in [Platforms -> Cells] /\ ranges \in [Platforms -> Nat \X Nat]
  BY Zenon DEF PInv, PlatformsTyped
<1>2. DOMAIN proc' = Platforms /\ proc'[p] = g /\ \A q \in Platforms : q # p => proc'[q] = proc[q]
  BY <1>1, Zenon
<1>3. Crew(p, main'[p], g, available[p])
  BY <1>1, Zenon DEF Crew, Same
<1>4. Ids(p, main'[p], array[p], g, ranges[p])
  BY <1>1, Zenon DEF Ids, Same
<1>5. \A b \in Nat : Owns(main'[p], ranges[p], b) => Owns(main[p], ranges[p], b)
  BY Zenon DEF Owns
<1>6. counter' \in Nat /\ counter <= counter'
  BY <1>1
<1>7. QED
  BY <1>1, <1>2, <1>3, <1>4, <1>5, <1>6, OneStep, Zenon

\* One worker changes.
LEMMA WorkerStep ==
    ASSUME PInv, setup' = setup, NEW p \in Platforms, NEW s, s \in DOMAIN proc[p], NEW w, Change(p, s, w), IsWorker(w),
           w.state = proc[p][s].state, w.task = proc[p][s].task, w.clean => proc[p][s].clean /\ w.id = proc[p][s].id,
           main' \in [Platforms -> Mains], main'[p].pc = main[p].pc, main'[p].start = main[p].start,
           \A q \in Platforms : q # p => main'[q] = main[q],
           UNCHANGED <<available, array, ranges, counter>>
    PROVE  PInv'
<1> DEFINE g == [proc[p] EXCEPT ![s] = w]
<1>1. Crew(p, main[p], proc[p], available[p]) /\ DOMAIN proc = Platforms
  BY Zenon DEF PInv, PlatformsTyped
<1>2. proc' = [proc EXCEPT ![p] = g]
  BY <1>1, Zenon DEF Change
<1>3. Same(proc[p], g)
  BY <1>1, Zenon DEF Same, Crew
<1>4. QED
  BY <1>2, <1>3, CrewStep, Zenon

\* What the steps of a worker leave of it.
Alike(v, w) == IsWorker(v) /\ v.state = w.state /\ v.task = w.task /\ v.clean = w.clean /\ v.id = w.id

\* Moving an event along and ending keep the number, the task and the id of a worker.
LEMMA WorkerKept ==
    ASSUME NEW w, IsWorker(w), NEW x, NEW y
    PROVE  /\ Alike([w EXCEPT !.pc = x], w) /\ Alike([w EXCEPT !.queue = x, !.pipe = y], w)
           /\ Alike([w EXCEPT !.pipe = x, !.got = y], w) /\ Alike([w EXCEPT !.queue = x, !.got = y], w)
           /\ Alike(Ended(w), w)
<1>1. /\ DOMAIN w = Fields /\ {"state", "task", "clean", "id"} \subseteq Fields
      /\ w.state \in {"running", "dirty", "done"} /\ w.task \in BOOLEAN /\ w.clean \in BOOLEAN
  BY Zenon DEF IsWorker, Fields
<1>2. Alike([w EXCEPT !.pc = x], w)
  BY <1>1, Zenon DEF IsWorker, Alike
<1>3. Alike([w EXCEPT !.queue = x, !.pipe = y], w)
  BY <1>1, Zenon DEF IsWorker, Alike
<1>4. Alike([w EXCEPT !.pipe = x, !.got = y], w)
  BY <1>1, Zenon DEF IsWorker, Alike
<1>5. Alike([w EXCEPT !.queue = x, !.got = y], w)
  BY <1>1, Zenon DEF IsWorker, Alike
<1>6. Alike(Ended(w), w)
  BY <1>1, Zenon DEF IsWorker, Ended, Alike
<1>7. QED
  BY <1>2, <1>3, <1>4, <1>5, <1>6, Zenon

\* The main processes stay where they are.
LEMMA MainsStay ==
    ASSUME PInv, main' = main
    PROVE  /\ main' \in [Platforms -> Mains]
           /\ \A p \in Platforms : main'[p] = main[p] /\ main'[p].pc = main[p].pc /\ main'[p].start = main[p].start
BY Zenon DEF PInv, PlatformsTyped

\* A worker is released, sees the count, gets or handles an event, or dies.
LEMMA WorkerSteps1 ==
    ASSUME PInv, setup' = setup, NEW p \in Platforms, NEW s,
           \/ Released(p, s) \/ SeeCount(p, s) \/ PublishEvent(p, s) \/ HandleEvent(p, s)
           \/ Crash(p, s) \/ (HandleInside(p) /\ s = 0)
    PROVE  PInv'
<1>1. s \in DOMAIN proc[p] /\ main' = main /\ UNCHANGED <<available, array, ranges, counter>>
  BY Zenon DEF Released, SeeCount, PublishEvent, HandleEvent, Crash, HandleInside, Live
<1>2. IsWorker(proc[p][s])
  BY <1>1, Zenon DEF PInv, Crew
<1>3. \E w : Change(p, s, w) /\ Alike(w, proc[p][s])
  <2>1. CASE Released(p, s) \/ SeeCount(p, s)
    <3>1. PICK pc : Change(p, s, [proc[p][s] EXCEPT !.pc = pc])
      BY <2>1, Zenon DEF Released, SeeCount
    <3>2. Alike([proc[p][s] EXCEPT !.pc = pc], proc[p][s])
      BY <1>2, WorkerKept, Zenon
    <3>3. QED
      BY <3>1, <3>2, Zenon
  <2>2. CASE PublishEvent(p, s)
    <3>1. PICK x, y : Change(p, s, [proc[p][s] EXCEPT !.queue = x, !.pipe = y])
      BY <2>2, Zenon DEF PublishEvent
    <3>2. Alike([proc[p][s] EXCEPT !.queue = x, !.pipe = y], proc[p][s])
      BY <1>2, WorkerKept, Zenon
    <3>3. QED
      BY <3>1, <3>2, Zenon
  <2>3. CASE HandleEvent(p, s)
    <3>1. PICK x, y : Change(p, s, [proc[p][s] EXCEPT !.pipe = x, !.got = y])
      BY <2>3, Zenon DEF HandleEvent
    <3>2. Alike([proc[p][s] EXCEPT !.pipe = x, !.got = y], proc[p][s])
      BY <1>2, WorkerKept, Zenon
    <3>3. QED
      BY <3>1, <3>2, Zenon
  <2>4. CASE HandleInside(p) /\ s = 0
    <3>1. PICK x, y : Change(p, s, [proc[p][s] EXCEPT !.queue = x, !.got = y])
      BY <2>4, Zenon DEF HandleInside
    <3>2. Alike([proc[p][s] EXCEPT !.queue = x, !.got = y], proc[p][s])
      BY <1>2, WorkerKept, Zenon
    <3>3. QED
      BY <3>1, <3>2, Zenon
  <2>5. CASE Crash(p, s)
    <3>1. Change(p, s, Ended(proc[p][s])) /\ Alike(Ended(proc[p][s]), proc[p][s])
      BY <1>2, <2>5, WorkerKept, Zenon DEF Crash
    <3>2. QED
      BY <3>1, Zenon
  <2>6. QED
    BY <2>1, <2>2, <2>3, <2>4, <2>5, Zenon
<1>4. PICK w : Change(p, s, w) /\ Alike(w, proc[p][s])
  BY <1>3, Zenon
<1>5. QED
  BY <1>1, <1>4, MainsStay, WorkerStep, Zenon DEF Alike

\* A worker that got a signal exits.
LEMMA ExitKeeps ==
    ASSUME PInv, setup' = setup, NEW p \in Platforms, NEW s, Exit(p, s)
    PROVE  PInv'
<1>1. /\ s \in DOMAIN proc[p] /\ UNCHANGED <<available, array, ranges, counter>> /\ Change(p, s, Ended(proc[p][s]))
      /\ main' = [main EXCEPT ![p].exit = @ \/ p \in setup.single] /\ main \in [Platforms -> Mains]
  BY Zenon DEF Exit, PInv, PlatformsTyped
<1>2. /\ main' \in [Platforms -> Mains] /\ main'[p].pc = main[p].pc /\ main'[p].start = main[p].start
      /\ \A q \in Platforms : q # p => main'[q] = main[q]
  <2> DEFINE x == main[p].exit \/ p \in setup.single
  <2>1. main' = [main EXCEPT ![p].exit = x] /\ x \in BOOLEAN
    BY <1>1, Zenon
  <2> HIDE DEF x
  <2>2. QED
    BY <1>1, <2>1 DEF Mains
<1>3. IsWorker(proc[p][s])
  BY <1>1, Zenon DEF PInv, Crew
<1>4. Alike(Ended(proc[p][s]), proc[p][s])
  BY <1>3, WorkerKept, Zenon
<1>5. QED
  BY <1>1, <1>2, <1>4, WorkerStep, Zenon DEF Alike

\* A worker takes its id; the last one clears the cells.
LEMMA TakeIdKeeps ==
    ASSUME PInv, setup' = setup, NEW p \in Platforms, NEW s, TakeId(p, s)
    PROVE  PInv'
<1> DEFINE a == array[p]
           cell == IF a.count = 0 THEN 0 ELSE a.id
           clean == a.count # 0 /\ main[p].pc # "id"
           w == [proc[p][s] EXCEPT !.pc = "serve", !.id = InstanceId(cell, s), !.clean = clean]
           g == [proc[p] EXCEPT ![s] = w]
           n == IF a.count > 1 THEN a.count - 1 ELSE 0
           i == IF a.count = 1 THEN 0 ELSE a.id
<1>1. /\ s \in DOMAIN proc[p] /\ main' = main /\ UNCHANGED <<available, ranges, counter>> /\ Change(p, s, w)
      /\ array' = [array EXCEPT ![p].count = n, ![p].id = i]
  <2>1. s \in DOMAIN proc[p] /\ main' = main /\ UNCHANGED <<available, ranges, counter>>
    BY Zenon DEF TakeId, Live
  <2>2. Change(p, s, w)
    BY Zenon DEF TakeId
  <2>3. array' = [array EXCEPT ![p].count = n, ![p].id = i]
    BY Zenon DEF TakeId
  <2>4. QED
    BY <2>1, <2>2, <2>3, Zenon
<1>2. /\ Crew(p, main[p], proc[p], available[p]) /\ Ids(p, main[p], a, proc[p], ranges[p])
      /\ DOMAIN proc = Platforms /\ DOMAIN available = Platforms /\ counter \in Nat
      /\ array \in [Platforms -> Cells] /\ ranges \in [Platforms -> Nat \X Nat] /\ IsWorker(proc[p][s])
  BY <1>1, Zenon DEF PInv, PlatformsTyped, Crew
<1>3. clean \in BOOLEAN /\ a.count \in Nat /\ a.id \in Nat
  BY <1>2, Zenon DEF Cells
<1>4. n \in Nat /\ i \in Nat /\ (n # 0 => a.count # 0 /\ i = a.id) /\ (a.count = 0 => n = 0)
  BY <1>3
<1>5. clean => a.count # 0 /\ cell = a.id /\ main[p].pc # "id"
  BY Zenon
<1> HIDE DEF clean, cell, n, i, a
<1>6. /\ IsWorker(w) /\ w.state = proc[p][s].state /\ w.task = proc[p][s].task
      /\ w.clean = clean /\ w.id = InstanceId(cell, s)
  BY <1>2, <1>3, Zenon DEF IsWorker, Fields
<1> HIDE DEF w
<1>7. /\ array' \in [Platforms -> Cells] /\ array'[p].count = n /\ array'[p].id = i
      /\ \A q \in Platforms : q # p => array'[q] = array[q]
  BY <1>1, <1>2, <1>4, Zenon DEF Cells
<1>8. /\ DOMAIN proc' = Platforms /\ proc'[p] = g /\ \A q \in Platforms : q # p => proc'[q] = proc[q]
  BY <1>1, <1>2, Zenon DEF Change
<1>9. DOMAIN g = DOMAIN proc[p] /\ g[s] = w /\ \A t \in DOMAIN g : t # s => g[t] = proc[p][t]
  BY <1>1, Zenon
<1> HIDE DEF g
<1>10. Crew(p, main[p], g, available[p])
  BY <1>1, <1>2, <1>6, <1>9 DEF Crew
<1>11. Ids(p, main[p], array'[p], g, ranges[p])
  <2>1. clean => ranges[p] # NoRange /\ cell = ranges[p][1] % Byte
    BY <1>2, <1>5, Zenon DEF Ids
  <2>2. \A t \in DOMAIN g : g[t].clean => ranges[p] # NoRange /\ g[t].id = InstanceId(ranges[p][1] % Byte, t)
    BY <1>2, <1>6, <1>9, <2>1, Zenon DEF Ids
  <2>3. QED
    BY <1>2, <1>4, <1>7, <2>2, Zenon DEF Ids
<1>12. counter' \in Nat /\ counter <= counter'
  BY <1>1, <1>2
<1>13. QED
  BY <1>1, <1>2, <1>7, <1>8, <1>10, <1>11, <1>12, MainsStay, OneStep

\* The managers of a platform are started, or stopped, and the tasks of its workers with them.
LEMMA TasksKeep ==
    ASSUME PInv, setup' = setup, NEW p \in Platforms, EnterForked(p) \/ EnterInside(p) \/ CloseForked(p) \/ CloseInside(p)
    PROVE  PInv'
<1> DEFINE f == proc[p]
           g == proc'[p]
<1>1. /\ Crew(p, main[p], f, available[p]) /\ Ids(p, main[p], array[p], f, ranges[p])
      /\ DOMAIN proc = Platforms /\ DOMAIN available = Platforms /\ counter \in Nat
      /\ array \in [Platforms -> Cells] /\ ranges \in [Platforms -> Nat \X Nat]
  BY Zenon DEF PInv, PlatformsTyped
<1>2. /\ main[p].pc \in {"start", "closing"} /\ UNCHANGED <<available, ranges, counter>>
      /\ array' = array \/ array' = [array EXCEPT ![p].flag = TRUE]
  BY Zenon DEF EnterForked, EnterInside, CloseForked, CloseInside
<1>3. PICK pc \in {"get", "run", "waiting", "stopped"} :
          Go(p, pc) /\ (main[p].pc = "closing" => pc \in {"waiting", "stopped"})
  BY Zenon DEF EnterForked, EnterInside, CloseForked, CloseInside
<1>4. /\ main' \in [Platforms -> Mains] /\ main'[p].pc = pc /\ main'[p].start = main[p].start
      /\ \A q \in Platforms : q # p => main'[q] = main[q]
  BY <1>3, GoFacts, Zenon DEF Places
<1>5. /\ array' \in [Platforms -> Cells] /\ array'[p].count = array[p].count /\ array'[p].id = array[p].id
      /\ \A q \in Platforms : q # p => array'[q] = array[q]
  <2>1. CASE array' = array
    BY <1>1, <2>1, Zenon
  <2>2. CASE array' = [array EXCEPT ![p].flag = TRUE]
    BY <1>1, <2>2, Zenon DEF Cells
  <2>3. QED
    BY <1>2, <2>1, <2>2, Zenon
<1>6. /\ DOMAIN proc' = Platforms /\ DOMAIN g = DOMAIN f /\ \A q \in Platforms : q # p => proc'[q] = proc[q]
      /\ \A s \in DOMAIN f : /\ IsWorker(g[s]) /\ g[s].state = f[s].state
                             /\ g[s].clean = f[s].clean /\ g[s].id = f[s].id
                             /\ pc \in {"get", "run"} => g[s].task = TRUE
  <2>1. \A s \in DOMAIN f : DOMAIN f[s] = Fields /\ f[s].state \in {"running", "dirty", "done"} /\ f[s].clean \in BOOLEAN
    BY <1>1, Zenon DEF Crew, IsWorker
  <2>2. CASE EnterForked(p) \/ CloseForked(p)
    <3>1. PICK b \in BOOLEAN : /\ proc' = [proc EXCEPT ![p] = [s \in DOMAIN f |-> [f[s] EXCEPT !.task = b]]]
                               /\ pc \in {"get", "run"} => b = TRUE
      <4>1. CASE EnterForked(p)
        BY <4>1, Zenon DEF EnterForked, WithTask
      <4>2. CASE CloseForked(p)
        <5>1. pc \in {"waiting", "stopped"}
          BY <1>3, <4>2, Zenon DEF CloseForked
        <5>2. QED
          BY <4>2, <5>1, Zenon DEF CloseForked, WithTask
      <4>3. QED
        BY <2>2, <4>1, <4>2, Zenon
    <3>2. g = [s \in DOMAIN f |-> [f[s] EXCEPT !.task = b]] /\ DOMAIN proc' = Platforms /\ \A q \in Platforms : q # p => proc'[q] = proc[q]
      BY <1>1, <3>1, Zenon
    <3> HIDE DEF f, g
    <3>3. QED
      BY <2>1, <3>1, <3>2, Zenon DEF IsWorker, Fields
  <2>3. CASE EnterInside(p) \/ CloseInside(p)
    <3>1. PICK v : /\ proc' = [proc EXCEPT ![p][0] = v]
                   /\ \/ pc \in {"get", "run"} /\ \E x : v = [f[0] EXCEPT !.pc = x, !.task = TRUE]
                      \/ pc = "stopped" /\ v = Ended([f[0] EXCEPT !.task = FALSE])
      <4>1. CASE EnterInside(p)
        <5>1. PICK x : proc' = [proc EXCEPT ![p][0] = [@ EXCEPT !.pc = x, !.task = TRUE]]
          BY <4>1, Zenon DEF EnterInside
        <5>2. proc' = [proc EXCEPT ![p][0] = [f[0] EXCEPT !.pc = x, !.task = TRUE]]
          BY <5>1, Zenon
        <5>3. pc \in {"get", "run"}
          BY <1>1, <1>4, <4>1 DEF EnterInside, Go, PInv, PlatformsTyped, Mains
        <5>4. QED
          BY <5>2, <5>3, Zenon
      <4>2. CASE CloseInside(p)
        <5>1. proc' = [proc EXCEPT ![p][0] = Ended([f[0] EXCEPT !.task = FALSE])]
          BY <4>2, Zenon DEF CloseInside
        <5>2. pc = "stopped"
          BY <1>1, <1>4, <4>2 DEF CloseInside, Go, PInv, PlatformsTyped, Mains
        <5>3. QED
          BY <5>1, <5>2, Zenon
      <4>3. QED
        BY <2>3, <4>1, <4>2, Zenon
    <3>2. p \in setup.single /\ p \in setup.on
      BY <2>3, SetupFacts, Zenon DEF EnterInside, CloseInside, PInv
    <3>3. \A s \in DOMAIN f : s = 0
      BY <1>1, <3>2, Zenon DEF Crew, Seqs
    <3>4. g = [f EXCEPT ![0] = v] /\ DOMAIN proc' = Platforms /\ \A q \in Platforms : q # p => proc'[q] = proc[q]
      BY <1>1, <3>1, Zenon
    <3> HIDE DEF f, g
    <3>5. ASSUME 0 \in DOMAIN f
          PROVE  /\ IsWorker(v) /\ v.state = f[0].state /\ v.clean = f[0].clean /\ v.id = f[0].id
                 /\ pc \in {"get", "run"} => v.task = TRUE
      <4>1. DOMAIN f[0] = Fields /\ f[0].state \in {"running", "dirty", "done"} /\ f[0].clean \in BOOLEAN
        BY <2>1, <3>5, Zenon
      <4>2. ASSUME NEW x, v = [f[0] EXCEPT !.pc = x, !.task = TRUE]
            PROVE  IsWorker(v) /\ v.state = f[0].state /\ v.clean = f[0].clean /\ v.id = f[0].id /\ v.task = TRUE
        BY <4>1, <4>2, Zenon DEF IsWorker, Fields
      <4>3. CASE pc = "stopped" /\ v = Ended([f[0] EXCEPT !.task = FALSE])
        BY <4>1, <4>3, Zenon DEF IsWorker, Fields, Ended
      <4>4. QED
        BY <3>1, <4>2, <4>3, Zenon
    <3>6. QED
      BY <3>3, <3>4, <3>5, Zenon
  <2>4. QED
    BY <2>2, <2>3, Zenon
<1> HIDE DEF f, g
<1>7. Crew(p, main'[p], g, available'[p])
  <2>1. ASSUME pc \notin Away, NEW s \in DOMAIN g PROVE g[s].task = (g[s].state = "running")
    <3>1. pc \in {"get", "run"} /\ main[p].pc = "start"
      BY <1>2, <1>3, <2>1, Zenon DEF Away
    <3>2. g[s].task = TRUE /\ g[s].state = "running"
      BY <1>1, <1>6, <3>1, Zenon DEF Crew
    <3>3. QED
      BY <3>2, Zenon
  <2>2. QED
    BY <1>1, <1>2, <1>3, <1>4, <1>6, <2>1, Zenon DEF Crew
<1>8. Ids(p, main'[p], array'[p], g, ranges'[p])
  BY <1>1, <1>2, <1>3, <1>4, <1>5, <1>6, Zenon DEF Ids
<1>9. \A b \in Nat : Owns(main'[p], ranges'[p], b) => Owns(main[p], ranges[p], b)
  BY <1>2, <1>4, <1>3, Zenon DEF Owns
<1>10. counter' \in Nat /\ counter <= counter'
  BY <1>1, <1>2
<1>11. QED
  BY <1>1, <1>2, <1>4, <1>5, <1>6, <1>7, <1>8, <1>9, <1>10, OneStep, Zenon DEF g

\* The workers of a platform get an event or are told to stop.
LEMMA GroupSteps ==
    ASSUME PInv, setup' = setup, NEW p \in Platforms,
           (\E e : DispatchEvent(p, e)) \/ Signal(p) \/ WaitTooLong(p)
    PROVE  PInv'
<1> DEFINE f == proc[p]
           g == proc'[p]
<1>1. /\ Crew(p, main[p], f, available[p]) /\ DOMAIN proc = Platforms /\ main \in [Platforms -> Mains]
      /\ UNCHANGED <<available, array, ranges, counter>>
  BY Zenon DEF PInv, PlatformsTyped, DispatchEvent, Signal, WaitTooLong
<1>2. /\ main' \in [Platforms -> Mains] /\ main'[p].pc = main[p].pc /\ main'[p].start = main[p].start
      /\ \A q \in Platforms : q # p => main'[q] = main[q]
  <2>1. CASE main' = main
    BY <2>1, MainsStay, Zenon
  <2>2. CASE Signal(p)
    <3> DEFINE x == p \notin setup.single
    <3>1. main' = [main EXCEPT ![p].exit = x] /\ x \in BOOLEAN
      BY <2>2, Zenon DEF Signal
    <3> HIDE DEF x
    <3>2. QED
      BY <1>1, <3>1, Zenon DEF Mains
  <2>3. QED
    BY <2>1, <2>2, Zenon DEF DispatchEvent, WaitTooLong
<1>3. PICK F : /\ proc' = [proc EXCEPT ![p] = [s \in DOMAIN f |-> F[s]]]
               /\ \A s \in DOMAIN f : F[s] = f[s] \/ (\E x : F[s] = [f[s] EXCEPT !.queue = x]) \/ F[s] = Told(f[s])
  <2>1. ASSUME NEW e, DispatchEvent(p, e)
        PROVE  \E F : /\ proc' = [proc EXCEPT ![p] = [s \in DOMAIN f |-> F[s]]]
                      /\ \A s \in DOMAIN f : F[s] = f[s] \/ (\E x : F[s] = [f[s] EXCEPT !.queue = x]) \/ F[s] = Told(f[s])
    <3> DEFINE F == [s \in DOMAIN f |-> IF f[s].state = "running" THEN Fed(f[s], e) ELSE f[s]]
    <3>1. proc' = [proc EXCEPT ![p] = F]
      BY <2>1, Zenon DEF DispatchEvent
    <3>2. \A s \in DOMAIN f : F[s] = f[s] \/ (\E x : F[s] = [f[s] EXCEPT !.queue = x]) \/ F[s] = Told(f[s])
      BY Zenon DEF Fed
    <3>3. F = [s \in DOMAIN f |-> F[s]]
      BY Zenon
    <3> HIDE DEF F
    <3>4. QED
      BY <3>1, <3>2, <3>3, Zenon
  <2>2. ASSUME Signal(p) \/ WaitTooLong(p)
        PROVE  \E F : /\ proc' = [proc EXCEPT ![p] = [s \in DOMAIN f |-> F[s]]]
                      /\ \A s \in DOMAIN f : F[s] = f[s] \/ (\E x : F[s] = [f[s] EXCEPT !.queue = x]) \/ F[s] = Told(f[s])
    <3>1. PICK told : proc' = [proc EXCEPT ![p] = [s \in DOMAIN f |-> IF s \in told THEN Told(f[s]) ELSE f[s]]]
      <4>1. CASE Signal(p)
        BY <4>1, Zenon DEF Signal
      <4>2. CASE WaitTooLong(p)
        <5>1. proc' = [proc EXCEPT ![p] = [s \in DOMAIN f |-> IF s \in DOMAIN f THEN Told(f[s]) ELSE f[s]]]
          BY <4>2, Zenon DEF WaitTooLong
        <5>2. QED
          BY <5>1, Zenon
      <4>3. QED
        BY <2>2, <4>1, <4>2, Zenon
    <3> DEFINE F == [s \in DOMAIN f |-> IF s \in told THEN Told(f[s]) ELSE f[s]]
    <3>2. \A s \in DOMAIN f : F[s] = f[s] \/ (\E x : F[s] = [f[s] EXCEPT !.queue = x]) \/ F[s] = Told(f[s])
      BY Zenon
    <3>3. F = [s \in DOMAIN f |-> F[s]] /\ proc' = [proc EXCEPT ![p] = F]
      BY <3>1, Zenon
    <3> HIDE DEF F
    <3>4. QED
      BY <3>2, <3>3, Zenon
  <2>3. QED
    BY <2>1, <2>2, Zenon
<1> DEFINE h == [s \in DOMAIN f |-> F[s]]
<1>4. ASSUME NEW s \in DOMAIN f
      PROVE  /\ IsWorker(F[s]) /\ F[s].state = f[s].state /\ F[s].task = f[s].task
             /\ F[s].clean = f[s].clean /\ F[s].id = f[s].id
  <2>1. IsWorker(f[s])
    BY <1>1, Zenon DEF Crew
  <2> HIDE DEF f
  <2>2. CASE F[s] = f[s]
    BY <2>1, <2>2, Zenon
  <2>3. ASSUME NEW x, F[s] = [f[s] EXCEPT !.queue = x] PROVE <1>4!2
    BY <2>1, <2>3, Zenon DEF IsWorker, Fields
  <2>4. CASE F[s] = Told(f[s])
    BY <2>1, <2>4, Zenon DEF IsWorker, Fields, Told
  <2>5. QED
    BY <1>3, <2>2, <2>3, <2>4, Zenon
<1>5. Same(f, h)
  BY <1>4, Zenon DEF Same
<1>6. QED
  BY <1>1, <1>2, <1>3, <1>5, CrewStep, Zenon

\* The monitor discards dead workers and forks new ones; the statistics forget the dirty ones.
LEMMA SupervisionKeeps ==
    ASSUME PInv, setup' = setup, NEW p \in Platforms, NEW g, NEW v, p \in setup.on, Started(p),
           proc' = [proc EXCEPT ![p] = g],
           DOMAIN available' = Platforms, available'[p] = v, \A q \in Platforms : q # p => available'[q] = available[q],
           UNCHANGED <<main, array, ranges, counter>>,
           v \cap DOMAIN g = {}, v \cup DOMAIN g = Seqs(p),
           \A s \in DOMAIN g : /\ IsWorker(g[s]) /\ g[s].task = (g[s].state = "running")
                               /\ g[s].clean => s \in DOMAIN proc[p] /\ proc[p][s].clean /\ g[s].id = proc[p][s].id
    PROVE  PInv'
<1>1. /\ Ids(p, main[p], array[p], proc[p], ranges[p])
      /\ DOMAIN proc = Platforms /\ DOMAIN available = Platforms /\ counter \in Nat
      /\ array \in [Platforms -> Cells] /\ ranges \in [Platforms -> Nat \X Nat]
  BY Zenon DEF PInv, PlatformsTyped
<1>2. /\ DOMAIN proc' = Platforms /\ proc'[p] = g /\ \A q \in Platforms : q # p => proc'[q] = proc[q]
  BY <1>1, Zenon
<1>3. main[p].pc # "start"
  BY Zenon DEF Started
<1>4. Crew(p, main[p], g, v)
  BY <1>3, Zenon DEF Crew
<1>5. Ids(p, main[p], array[p], g, ranges[p])
  BY <1>1, Zenon DEF Ids
<1>6. counter' \in Nat /\ counter <= counter'
  BY <1>1
<1>7. QED
  BY <1>1, <1>2, <1>4, <1>5, <1>6, MainsStay, OneStep

\* A round of the monitor.
LEMMA MonitorKeeps ==
    ASSUME PInv, setup' = setup, NEW p \in Platforms, Monitor(p)
    PROVE  PInv'
<1> DEFINE f == proc[p]
           discard == {s \in DOMAIN f : ~f[s].alive /\ f[s].state # "running"}
           kept == DOMAIN f \ discard
           free == available[p] \cup discard
<1>1. Started(p) /\ p \notin setup.single /\ UNCHANGED <<main, array, ranges, counter>>
  BY Zenon DEF Monitor
<1>2. PICK new \in SUBSET free :
         /\ proc' = [proc EXCEPT ![p] = [s \in kept \cup new |-> IF s \in new THEN NewWorker(TRUE) ELSE Tagged(f[s])]]
         /\ available' = [available EXCEPT ![p] = free \ new]
  BY Zenon DEF Monitor, Reaped, kSubset
<1> DEFINE g == [s \in kept \cup new |-> IF s \in new THEN NewWorker(TRUE) ELSE Tagged(f[s])]
           v == free \ new
<1>3. Crew(p, main[p], f, available[p]) /\ main[p].pc \notin Away
  BY <1>1, Zenon DEF PInv, Started, Away
<1>4. p \in setup.on
  BY <1>3, Zenon DEF Crew, Away
<1>5. PInv'
  <2>1. v \cap DOMAIN g = {} /\ v \cup DOMAIN g = Seqs(p)
    <3>1. available[p] \cap DOMAIN f = {} /\ available[p] \cup DOMAIN f = Seqs(p)
      BY <1>3, <1>4, Zenon DEF Crew
    <3>2. DOMAIN g = kept \cup new
      BY Zenon
    <3> HIDE DEF f, g
    <3>3. QED
      BY <3>1, <3>2, Zenon
  <2>2. ASSUME NEW s \in DOMAIN g, s \in new
        PROVE  IsWorker(g[s]) /\ g[s].task = (g[s].state = "running") /\ ~g[s].clean
    <3>1. g[s] = NewWorker(TRUE)
      BY <2>2, Zenon
    <3>2. IsWorker(NewWorker(TRUE)) /\ NewWorker(TRUE).task = TRUE /\ NewWorker(TRUE).state = "running" /\ ~NewWorker(TRUE).clean
      BY Zenon DEF NewWorker, IsWorker, Fields
    <3> HIDE DEF g
    <3>3. QED
      BY <3>1, <3>2, Zenon
  <2>3. ASSUME NEW s \in DOMAIN g, s \notin new
        PROVE  IsWorker(g[s]) /\ g[s].task = (g[s].state = "running") /\ s \in DOMAIN f /\ g[s].clean = f[s].clean /\ g[s].id = f[s].id
    <3>1. s \in DOMAIN f /\ g[s] = Tagged(f[s])
      BY <2>3, Zenon
    <3>2. IsWorker(f[s]) /\ f[s].task = (f[s].state = "running")
      BY <1>3, <3>1, Zenon DEF Crew
    <3> DEFINE w == f[s]
    <3> HIDE DEF f, g
    <3>3. CASE w.alive \/ w.state # "running"
      <4>1. Tagged(w) = w
        BY <3>3, Zenon DEF Tagged
      <4>2. QED
        BY <3>1, <3>2, <4>1, Zenon
    <3>4. CASE ~(w.alive \/ w.state # "running")
      <4>1. Tagged(w) = [w EXCEPT !.state = "dirty", !.task = FALSE]
        BY <3>4, Zenon DEF Tagged
      <4>2. DOMAIN w = Fields /\ w.clean \in BOOLEAN
        BY <3>2, Zenon DEF IsWorker
      <4> HIDE DEF w
      <4>3. /\ IsWorker(Tagged(w)) /\ Tagged(w).task = FALSE /\ Tagged(w).state = "dirty"
            /\ Tagged(w).clean = w.clean /\ Tagged(w).id = w.id
        BY <4>1, <4>2, Zenon DEF IsWorker, Fields
      <4>4. Tagged(w).state # "running"
        BY <4>3, Zenon
      <4>5. QED
        BY <3>1, <4>3, <4>4, Zenon DEF w
    <3>5. QED
      BY <3>3, <3>4, Zenon
  <2>4. /\ proc' = [proc EXCEPT ![p] = g]
        /\ DOMAIN available' = Platforms /\ available'[p] = v /\ \A q \in Platforms : q # p => available'[q] = available[q]
    BY <1>2, Zenon DEF PInv, PlatformsTyped
  <2> HIDE DEF g, v
  <2>5. \A s \in DOMAIN g : /\ IsWorker(g[s]) /\ g[s].task = (g[s].state = "running")
                            /\ g[s].clean => s \in DOMAIN f /\ f[s].clean /\ g[s].id = f[s].id
    BY <2>2, <2>3, Zenon
  <2>6. QED
    BY <1>1, <1>4, <2>1, <2>4, <2>5, SupervisionKeeps, Zenon
<1>6. QED
  BY <1>5, Zenon

\* The statistics forget the dirty workers.
LEMMA ConsistencyKeeps ==
    ASSUME PInv, setup' = setup, NEW p \in Platforms, ProcConsistency(p)
    PROVE  PInv'
<1> DEFINE f == proc[p]
           g == [s \in DOMAIN f |-> IF f[s].state = "dirty" THEN [f[s] EXCEPT !.state = "done"] ELSE f[s]]
<1>1. /\ Started(p) /\ UNCHANGED <<main, array, ranges, counter, available>> /\ proc' = [proc EXCEPT ![p] = g]
  BY Zenon DEF ProcConsistency
<1>2. Crew(p, main[p], f, available[p]) /\ main[p].pc \notin Away /\ DOMAIN available = Platforms
  BY <1>1, Zenon DEF PInv, PlatformsTyped, Started, Away
<1>3. p \in setup.on
  BY <1>2, Zenon DEF Crew, Away
<1>4. available[p] \cap DOMAIN g = {} /\ available[p] \cup DOMAIN g = Seqs(p)
  BY <1>2, <1>3, Zenon DEF Crew
<1>5. ASSUME NEW s \in DOMAIN g
      PROVE  IsWorker(g[s]) /\ g[s].task = (g[s].state = "running") /\ s \in DOMAIN f /\ g[s].clean = f[s].clean /\ g[s].id = f[s].id
  <2>1. s \in DOMAIN f
    BY Zenon
  <2>2. IsWorker(f[s]) /\ f[s].task = (f[s].state = "running")
    BY <1>2, <2>1, Zenon DEF Crew
  <2>3. CASE f[s].state = "dirty"
    <3>1. g[s] = [f[s] EXCEPT !.state = "done"] /\ ~(f[s].state = "running")
      BY <2>1, <2>3, Zenon
    <3>2. DOMAIN f[s] = Fields /\ f[s].clean \in BOOLEAN /\ f[s].task \in BOOLEAN
      BY <2>2, Zenon DEF IsWorker
    <3> HIDE DEF f, g
    <3>3. IsWorker(g[s]) /\ g[s].state = "done" /\ g[s].task = f[s].task /\ g[s].clean = f[s].clean /\ g[s].id = f[s].id
      BY <3>1, <3>2, Zenon DEF IsWorker, Fields
    <3>4. ~(g[s].state = "running")
      BY <3>3, Zenon
    <3>5. QED
      BY <2>1, <2>2, <3>1, <3>3, <3>4, Zenon
  <2>4. CASE f[s].state # "dirty"
    <3>1. g[s] = f[s]
      BY <2>1, <2>4, Zenon
    <3> HIDE DEF f, g
    <3>2. QED
      BY <2>1, <2>2, <3>1, Zenon
  <2>5. QED
    BY <2>3, <2>4, Zenon
<1>6. DOMAIN available' = Platforms /\ available'[p] = available[p] /\ \A q \in Platforms : q # p => available'[q] = available[q]
  BY <1>1, <1>2, Zenon
<1> HIDE DEF g
<1>7. \A s \in DOMAIN g : /\ IsWorker(g[s]) /\ g[s].task = (g[s].state = "running")
                          /\ g[s].clean => s \in DOMAIN f /\ f[s].clean /\ g[s].id = f[s].id
  BY <1>5, Zenon
<1>8. QED
  BY <1>1, <1>3, <1>4, <1>6, <1>7, SupervisionKeeps, Zenon

\* The workers that spawn_workers forks first.
LEMMA FirstCrew ==
    ASSUME NEW p \in Platforms, p \in setup.on
    PROVE  Crew(p, Fresh(p), FirstWorkers(p), {}) /\ \A s \in DOMAIN FirstWorkers(p) : ~FirstWorkers(p)[s].clean
<1> DEFINE f == FirstWorkers(p)
           w == NewWorker(FALSE)
<1>1. DOMAIN f = Seqs(p) /\ \A s \in DOMAIN f : f[s] = w
  BY Zenon DEF FirstWorkers
<1>2. IsWorker(w) /\ w.state = "running" /\ ~w.clean
  BY Zenon DEF NewWorker, IsWorker, Fields
<1>3. Fresh(p).pc = "start"
  BY Zenon DEF Fresh
<1> HIDE DEF f, w
<1>4. Crew(p, Fresh(p), f, {})
  BY <1>1, <1>2, <1>3, Zenon DEF Crew, Away
<1>5. QED
  BY <1>1, <1>2, <1>4, Zenon DEF f

\* A platform is started again.
LEMMA RestartKeeps ==
    ASSUME PInv, setup' = setup, NEW p \in Platforms, Restart(p)
    PROVE  PInv'
<1>1. /\ p \in setup.on /\ UNCHANGED <<counter, ranges>>
      /\ main' = [main EXCEPT ![p] = Fresh(p)] /\ array' = [array EXCEPT ![p] = NoArray]
      /\ proc' = [proc EXCEPT ![p] = FirstWorkers(p)] /\ available' = [available EXCEPT ![p] = {}]
  BY Zenon DEF Restart
<1>2. /\ DOMAIN proc = Platforms /\ DOMAIN available = Platforms /\ counter \in Nat
      /\ main \in [Platforms -> Mains] /\ array \in [Platforms -> Cells] /\ ranges \in [Platforms -> Nat \X Nat]
  BY Zenon DEF PInv, PlatformsTyped
<1>3. /\ Fresh(p) \in Mains /\ Fresh(p).pc = "start" /\ NoArray \in Cells /\ NoArray.count = 0
  BY Zenon DEF Fresh, NoArray, Mains, Places, Cells
<1>4. /\ main' \in [Platforms -> Mains] /\ array' \in [Platforms -> Cells] /\ DOMAIN proc' = Platforms /\ DOMAIN available' = Platforms
      /\ main'[p] = Fresh(p) /\ array'[p] = NoArray /\ proc'[p] = FirstWorkers(p) /\ available'[p] = {}
      /\ \A q \in Platforms : q # p => /\ main'[q] = main[q] /\ array'[q] = array[q] /\ proc'[q] = proc[q]
                                       /\ available'[q] = available[q]
  BY <1>1, <1>2, <1>3, Zenon
<1>5. Ids(p, Fresh(p), NoArray, FirstWorkers(p), ranges[p])
  BY <1>1, <1>3, FirstCrew, Zenon DEF Ids
<1>6. \A b \in Nat : Owns(Fresh(p), ranges[p], b) => Owns(main[p], ranges[p], b)
  BY <1>3, Zenon DEF Owns
<1>7. counter' \in Nat /\ counter <= counter'
  BY <1>1, <1>2
<1>8. QED
  BY <1>1, <1>2, <1>4, <1>5, <1>6, <1>7, FirstCrew, OneStep, Zenon

\* Every step keeps the invariant.
LEMMA StepKeeps ==
    ASSUME PInv, Next
    PROVE  PInv'
<1>1. CASE LockExpires
  BY <1>1 DEF LockExpires, procVars, PInv, PlatformsTyped, Below, Apart, Crew, Ids, Seqs
<1>2. ASSUME NEW p \in Platforms,
             \/ Steps(p) \/ HandleInside(p) \/ Monitor(p) \/ ProcConsistency(p)
             \/ EnterFails(p) \/ IncrFails(p) \/ PutFails(p) \/ Signal(p) \/ Restart(p)
      PROVE  PInv'
  <2>1. setup' = setup
    BY <1>2, Zenon DEF Steps, HandleInside, Monitor, ProcConsistency, EnterFails, IncrFails, PutFails, Signal, Restart,
       EnterForked, EnterInside, GetRange, AcquireLock, Incr, PutRange, WriteMask, WriteId, Leave, CloseForked,
       CloseInside, WaitChildren, WaitTooLong
  <2>2. CASE Steps(p)
    BY <2>1, <2>2, TasksKeep, GetRangeKeeps, PlaceSteps, IncrKeeps, PutRangeKeeps, WriteKeeps, GroupSteps, Zenon DEF Steps
  <2>3. CASE HandleInside(p)
    BY <2>1, <2>3, WorkerSteps1, Zenon
  <2>4. QED
    BY <1>2, <2>1, <2>2, <2>3, MonitorKeeps, ConsistencyKeeps, PlaceSteps, GroupSteps, RestartKeeps, Zenon
<1>3. ASSUME NEW p \in Platforms, NEW e, DispatchEvent(p, e) PROVE PInv'
  <2>1. setup' = setup
    BY <1>3, Zenon DEF DispatchEvent
  <2>2. QED
    BY <1>3, <2>1, GroupSteps, Zenon
<1>4. ASSUME NEW p \in Platforms, NEW s, WorkerSteps(p, s) \/ PublishEvent(p, s) \/ Crash(p, s) PROVE PInv'
  <2>1. setup' = setup
    BY <1>4, Zenon DEF WorkerSteps, Released, SeeCount, TakeId, HandleEvent, Exit, PublishEvent, Crash
  <2>2. QED
    BY <1>4, <2>1, WorkerSteps1, TakeIdKeeps, ExitKeeps, Zenon DEF WorkerSteps
<1>5. QED
  BY <1>1, <1>2, <1>3, <1>4, Zenon DEF Next

\* All platforms are about to start.
LEMMA InitHolds ==
    ASSUME Init
    PROVE  PInv
<1>1. /\ setup \in Setups
      /\ main = [p \in Platforms |-> IF p \in setup.on THEN Fresh(p) ELSE [Fresh(p) EXCEPT !.pc = "stopped"]]
      /\ array = [p \in Platforms |-> NoArray]
      /\ proc = [p \in Platforms |-> IF p \in setup.on THEN FirstWorkers(p) ELSE << >>]
      /\ available = [p \in Platforms |-> {}]
      /\ counter = 0 /\ ranges = [p \in Platforms |-> NoRange]
  BY Zenon DEF Init
<1>2. \A p \in Platforms : /\ main[p] \in Mains /\ main[p].pc \in {"start", "stopped"}
                           /\ p \in setup.on => main[p] = Fresh(p)
                           /\ p \notin setup.on => main[p].pc = "stopped"
  BY <1>1, Zenon DEF Fresh, Mains, Places
<1>3. PlatformsTyped
  <2>1. main \in [Platforms -> Mains]
    BY <1>1, <1>2, Zenon
  <2>2. array \in [Platforms -> Cells] /\ ranges \in [Platforms -> Nat \X Nat]
    BY <1>1, Zenon DEF NoArray, NoRange, Cells
  <2>3. DOMAIN proc = Platforms /\ DOMAIN available = Platforms /\ counter \in Nat
    BY <1>1, Zenon
  <2>4. QED
    BY <2>1, <2>2, <2>3, Zenon DEF PlatformsTyped
<1>4. ASSUME NEW p \in Platforms
      PROVE  Crew(p, main[p], proc[p], available[p]) /\ Ids(p, main[p], array[p], proc[p], ranges[p])
  <2>1. available[p] = {} /\ array[p].count = 0 /\ ranges[p] = NoRange
    BY <1>1, Zenon DEF NoArray
  <2>2. CASE p \in setup.on
    <3>1. proc[p] = FirstWorkers(p) /\ main[p] = Fresh(p) /\ main[p].pc = "start"
      BY <1>1, <1>2, <2>2, Zenon DEF Fresh
    <3>2. QED
      BY <2>1, <2>2, <3>1, FirstCrew, Zenon DEF Ids
  <2>3. CASE p \notin setup.on
    <3>1. proc[p] = << >> /\ main[p].pc = "stopped"
      BY <1>1, <1>2, <2>3, Zenon
    <3> DOMAIN proc[p] = {}
      BY <3>1
    <3>2. QED
      BY <2>1, <2>3, <3>1, Zenon DEF Crew, Ids, Away
  <2>4. QED
    BY <2>2, <2>3, Zenon
<1>5. \A p \in Platforms : \A b : ~Owns(main[p], ranges[p], b)
  BY <1>1, <1>2, Zenon DEF Owns
<1>6. QED
  BY <1>1, <1>3, <1>4, <1>5, Zenon DEF PInv, Below, Apart

\* The sequence numbers are split between the processes and the free ones.
LEMMA CrewIsSafe ==
    ASSUME PInv
    PROVE  SeqsPartition
<1> SUFFICES ASSUME NEW p \in setup.on
             PROVE  /\ available[p] \cap DOMAIN proc[p] = {}
                    /\ available[p] \cup DOMAIN proc[p] = Seqs(p)
                    /\ Started(p) => \A s \in DOMAIN proc[p] : proc[p][s].task = (proc[p][s].state = "running")
  BY Zenon DEF SeqsPartition
<1>1. p \in Platforms
  BY ProcessesAssumption, Zenon DEF PInv
<1>2. Crew(p, main[p], proc[p], available[p])
  BY <1>1, Zenon DEF PInv
<1>3. QED
  BY <1>2, Zenon DEF Crew, Started, Away

\* Two workers that serve with clean ids have different ids.
LEMMA IdsAreSafe ==
    ASSUME PInv
    PROVE  IdsDistinct
<1> SUFFICES ASSUME NEW x \in Serving, NEW y \in Serving, x # y,
                    (x[1] \in setup.single) = (y[1] \in setup.single), counter < Byte,
                    proc[x[1]][x[2]].id = proc[y[1]][y[2]].id
             PROVE  FALSE
  BY Zenon DEF IdsDistinct
<1> DEFINE p == x[1]
           q == y[1]
           s == x[2]
           t == y[2]
           b == ranges[p][1]
           c == ranges[q][1]
<1>1. /\ p \in Platforms /\ q \in Platforms /\ s \in Nat /\ t \in Nat /\ (p # q \/ s # t)
      /\ s \in DOMAIN proc[p] /\ t \in DOMAIN proc[q] /\ proc[p][s].clean /\ proc[q][t].clean
  BY DEF Serving, Live
<1>2. /\ Crew(p, main[p], proc[p], available[p]) /\ Ids(p, main[p], array[p], proc[p], ranges[p])
      /\ Crew(q, main[q], proc[q], available[q]) /\ Ids(q, main[q], array[q], proc[q], ranges[q])
      /\ counter \in Nat /\ ranges \in [Platforms -> Nat \X Nat] /\ Below /\ Apart /\ setup \in Setups
  BY <1>1, Zenon DEF PInv, PlatformsTyped
<1>3. /\ ranges[p] # NoRange /\ ranges[q] # NoRange /\ b \in Nat /\ c \in Nat
      /\ proc[p][s].id = InstanceId(b % Byte, s) /\ proc[q][t].id = InstanceId(c % Byte, t)
  BY <1>1, <1>2, Zenon DEF Ids
<1>4. /\ setup.workers[p] \in Nat \ {0} /\ setup.workers[q] \in Nat \ {0} /\ Byte \in Nat \ {0}
      /\ p \in setup.single => setup.workers[p] = 1
      /\ q \in setup.single => setup.workers[q] = 1
  BY <1>1, <1>2, SetupFacts, ProcessesAssumption, Zenon
<1>5. /\ Owns(main[p], ranges[p], b) /\ Owns(main[q], ranges[q], c)
  BY <1>3, Zenon DEF Owns
<1>6. b > 0 /\ b + setup.workers[p] <= counter + 1 /\ c > 0 /\ c + setup.workers[q] <= counter + 1
  BY <1>1, <1>2, <1>3, <1>5, Zenon DEF Below
<1>7. p # q => b + setup.workers[p] <= c \/ c + setup.workers[q] <= b
  BY <1>1, <1>2, <1>3, <1>5, Zenon DEF Apart
<1>8. /\ p \in setup.single => s = 0
      /\ p \notin setup.single => s >= 1 /\ s <= setup.workers[p]
      /\ q \in setup.single => t = 0
      /\ q \notin setup.single => t >= 1 /\ t <= setup.workers[q]
  <2>1. p \in setup.on /\ q \in setup.on
    BY <1>1, <1>2, Zenon DEF Crew
  <2>2. s \in Seqs(p) /\ t \in Seqs(q)
    BY <1>1, <1>2, <2>1, Zenon DEF Crew
  <2>3. QED
    BY <1>1, <1>4, <2>2 DEF Seqs
<1>9. p = q => b = c /\ s # t
  BY <1>1, Zenon
<1>10. (p \in setup.single) <=> (q \in setup.single)
  BY Zenon
<1> HIDE DEF p, q, s, t, b, c
<1>11. b % Byte = b /\ c % Byte = c
  BY <1>2, <1>3, <1>4, <1>6
<1>12. proc[p][s].id = b + s - 1 /\ proc[q][t].id = c + t - 1
  BY <1>3, <1>11, Zenon DEF InstanceId
<1>13. b + s - 1 = c + t - 1
  BY <1>12, Zenon DEF p, q, s, t
<1> DEFINE m == setup.workers[p]
           n == setup.workers[q]
<1>14. /\ m \in Nat \ {0} /\ n \in Nat \ {0} /\ (p # q => b + m <= c \/ c + n <= b)
       /\ \/ s = 0 /\ t = 0 /\ m = 1 /\ n = 1
          \/ s >= 1 /\ s <= m /\ t >= 1 /\ t <= n
  BY <1>4, <1>7, <1>8, <1>10, Zenon
<1> HIDE DEF m, n
<1>15. s \in Nat /\ t \in Nat /\ b \in Nat /\ c \in Nat
  BY <1>1, <1>3, Zenon
<1>16. CASE p = q
  BY <1>9, <1>13, <1>15, <1>16
<1>17. CASE p # q
  BY <1>13, <1>14, <1>15, <1>17
<1>18. QED
  BY <1>16, <1>17, Zenon

-----------------------------------------------------------------------------
(* The theorems *)

\* The invariant of the processes.
THEOREM ProcessesInvariant == Spec => []PInv
<1>1. PInv /\ UNCHANGED vars => PInv'
  BY DEF PInv, PlatformsTyped, Below, Apart, Crew, Ids, Seqs, vars, procVars
<1>2. PInv /\ [Next]_vars => PInv'
  BY <1>1, StepKeeps, Zenon
<1>3. QED
  BY <1>2, InitHolds, PTL DEF Spec

\* Every sequence number belongs to one process or is available, and who runs for the
\* manager has its pipe task, whatever dies between the rounds of the monitor.
THEOREM SeqsCorrect == Spec => []SeqsPartition
BY ProcessesInvariant, CrewIsSafe, PTL

\* Two snowflake workers that serve never share an instance id.
THEOREM IdsCorrect == Spec => []IdsDistinct
BY ProcessesInvariant, IdsAreSafe, PTL
=============================================================================
