------------------------------- MODULE Registry -------------------------------
(***************************************************************************)
(* Service discovery from etcd to the routing tables: the ServiceManager   *)
(* of a main process, which registers its own service under a lease, reads *)
(* the services that are registered, watches for changes, dispatches them  *)
(* to its workers and re-establishes lease and watch after a failure; and  *)
(* the stub repository of one of its workers, which gets the changes       *)
(* through a pipe.  Other services register through the same code.         *)
(***************************************************************************)
EXTENDS Naturals, Sequences, FiniteSets, SequencesExt

CONSTANTS
    Addrs,        \* the instances of the service, by key and address
    MaxGroups,    \* bound on the stub groups ever created
    Retries,      \* GrpcStub.retries
    Setups        \* the situations to start from

\* before    the instances registered at the start;  arrivals: those that start later
\* purges    whether keys are deleted from etcd by hand
\* failures  how often the lease, the watch or a request to etcd may fail
\* mayStop   whether services and the repository stop
\* channels, createFails  max_channels, and whether creating a channel may fail
\* outages   how often a server may go down or a connection may be lost
ASSUME RegistryAssumption ==
    /\ MaxGroups \in Nat /\ Retries \in Nat \ {0}
    /\ \A s \in Setups :
          /\ s.before \subseteq Addrs /\ s.arrivals \subseteq Addrs
          /\ {s.purges, s.mayStop, s.createFails, s.mayClose} \subseteq BOOLEAN
          /\ s.channels \in Nat \ {0} /\ s.outages \in Nat /\ s.failures \in Nat

VARIABLES
    setup,       \* the situation, fixed at the start
    up,          \* the services that run
    store,       \* the keys in etcd; own: the key of this service
    manager,     \* where start, monitor and stop of the manager are
    found,       \* services read by start_service_discovery and not yet dispatched
    cache,       \* _cache
    watch,       \* the watch stream: its consumer task, its events, listed in watchers
    lease,       \* the refresh task of the lease
    failures,    \* failures so far
    pipe,        \* events on their way to the workers
    told,        \* history: what the workers are told to know
    missed,      \* history: services whose change fell between reading and watching
    repo, group, services, robin, ring, force, monitor, outages, revived  \* of StubRepository

R == INSTANCE StubRepository

managerVars == <<store, manager, found, cache, watch, lease, failures, pipe, told, missed>>
workerVars == <<repo, group, services, robin, ring, force, monitor, outages, revived>>
vars == <<setup, up, managerVars, workerVars>>

-----------------------------------------------------------------------------
(* The service manager *)

Own == "own"

\* listed: the entry in self.watchers, whose task the monitor looks at
NoWatch == [task |-> "none", events |-> << >>, listed |-> FALSE]

DiscoveryInit ==
    /\ store = setup.before
    /\ up = setup.before
    /\ manager = [pc |-> "register", lost |-> FALSE, force |-> FALSE]
    /\ found = << >>
    /\ cache = {}
    /\ watch = NoWatch
    /\ lease = "none"
    /\ failures = 0
    /\ pipe = << >>
    /\ told = {}
    /\ missed = {}

MayFail == failures < setup.failures
Go(pc) == manager' = [manager EXCEPT !.pc = pc]

\* An event of etcd reaches the stream of a watch that is open.
Notify(kind, p) ==
    IF watch.task = "running" THEN watch' = [watch EXCEPT !.events = Append(@, <<kind, p>>)] ELSE UNCHANGED watch

\* dispatch_event: the event is written to every worker.
Dispatch(kind, p) ==
    /\ pipe' = Append(pipe, <<kind, p>>)
    /\ told' = IF kind = "online" THEN told \cup {p} ELSE told \ {p}

\* RLease: a lease is granted and refreshed by a task; it is revoked.
KeepAlive == lease' = "running"
Clear == lease' = "none"

\* kill_watchers: a consumer that runs ends normally, its stream exhausted.
Killed(w) == [w EXCEPT !.task = IF @ = "running" THEN "ended" ELSE @, !.events = << >>]

-----------------------------------------------------------------------------
(* start *)

\* start_service_registry: a lease with its refresh task, then the key, which is put
\* without the lease.
Register ==
    /\ manager.pc = "register"
    /\ KeepAlive
    /\ store' = store \cup {Own}
    /\ Go("discover")
    /\ UNCHANGED <<setup, up, found, cache, watch, failures, pipe, told, missed>>

\* start_service_discovery reads the keys.
Discover ==
    /\ manager.pc = "discover"
    /\ found' = SetToSeq(store \ {Own})
    /\ missed' = {}
    /\ Go("dispatch")
    /\ UNCHANGED <<setup, store, up, cache, watch, lease, failures, pipe, told>>

DispatchFound ==
    /\ manager.pc = "dispatch" /\ found # << >>
    /\ found' = Tail(found)
    /\ Dispatch("online", Head(found))
    /\ cache' = cache \cup {Head(found)}
    /\ UNCHANGED <<setup, store, up, manager, watch, lease, failures, missed>>

\* watch_services: the stream delivers what happens from now on.
Watching == watch' = [task |-> "running", events |-> << >>, listed |-> TRUE]

WatchServices ==
    /\ manager.pc = "dispatch" /\ found = << >>
    /\ Watching
    /\ Go("sleep")
    /\ UNCHANGED <<setup, store, up, found, cache, lease, failures, pipe, told, missed>>

\* An exception in start ends the manager through stop.
StartFails ==
    /\ manager.pc \in {"register", "discover", "dispatch"} /\ MayFail
    /\ failures' = failures + 1
    /\ Clear
    /\ Go("stopped")
    /\ UNCHANGED <<setup, store, up, found, cache, watch, pipe, told, missed>>

-----------------------------------------------------------------------------
(* on_consume *)

Consume ==
    LET kind == Head(watch.events)[1]
        p == Head(watch.events)[2]
    IN  /\ watch.task = "running" /\ watch.events # << >>
        /\ watch' = [watch EXCEPT !.events = Tail(@)]
        /\ \/ /\ kind = "put" /\ p \notin cache
              /\ Dispatch("online", p)
              /\ cache' = cache \cup {p}
           \/ /\ kind = "delete" /\ p \in cache
              /\ Dispatch("offline", p)
              /\ cache' = cache \ {p}
           \/ /\ (kind = "put") = (p \in cache)
              /\ UNCHANGED <<pipe, told, cache>>
        /\ UNCHANGED <<setup, store, up, manager, found, lease, failures, missed>>

-----------------------------------------------------------------------------
(* monitor; a round sleeps, looks at the lease, looks at the watch, rebuilds *)

\* The refresh task ended with a timeout: the service is registered again, with
\* retries; or with another error: the client is connected again below.
CheckLease ==
    /\ manager.pc = "sleep"
    /\ \/ lease \in {"running", "none"} /\ Go("watches") /\ UNCHANGED <<lease, store, failures>>
       \/ /\ lease = "timeout"
          /\ KeepAlive /\ store' = store \cup {Own}
          /\ Go("watches") /\ UNCHANGED failures
       \/ /\ lease = "timeout" /\ MayFail
          /\ failures' = failures + 1
          /\ manager' = [manager EXCEPT !.pc = "watches", !.force = TRUE]
          /\ UNCHANGED <<lease, store>>
       \/ /\ lease = "failed"
          /\ manager' = [manager EXCEPT !.pc = "watches", !.force = TRUE]
          /\ UNCHANGED <<lease, store, failures>>
    /\ UNCHANGED <<setup, up, found, cache, watch, pipe, told, missed>>

\* Without a forced reconnection only a consumer that ended with an exception counts:
\* the watchers are killed and their table is emptied.  With one, the watchers are
\* killed and stay listed.
CheckWatch ==
    /\ manager.pc = "watches"
    /\ \/ /\ ~manager.force /\ ~(watch.listed /\ watch.task = "failed")
          /\ Go("sleep") /\ UNCHANGED watch
       \/ /\ ~manager.force /\ watch.listed /\ watch.task = "failed"
          /\ manager' = [manager EXCEPT !.pc = "reconnect", !.lost = TRUE]
          /\ watch' = [watch EXCEPT !.listed = FALSE]
       \/ /\ manager.force
          /\ manager' = [manager EXCEPT !.pc = "reconnect", !.lost = TRUE]
          /\ watch' = Killed(watch)
    /\ UNCHANGED <<setup, store, up, found, cache, lease, failures, pipe, told, missed>>

Reconnect ==
    /\ manager.pc = "reconnect"
    /\ Go(IF manager.force THEN "reregister" ELSE "rewatch")
    /\ UNCHANGED <<setup, store, up, found, cache, watch, lease, failures, pipe, told, missed>>

Reregister ==
    /\ manager.pc = "reregister"
    /\ KeepAlive
    /\ store' = store \cup {Own}
    /\ manager' = [manager EXCEPT !.pc = "rewatch", !.force = FALSE]
    /\ UNCHANGED <<setup, up, found, cache, watch, failures, pipe, told, missed>>

\* The cache is cleared and the services are watched again; they are not read again.
Rewatch ==
    /\ manager.pc = "rewatch"
    /\ cache' = {}
    /\ Watching
    /\ manager' = [manager EXCEPT !.pc = "sleep", !.lost = FALSE]
    /\ UNCHANGED <<setup, store, up, found, lease, failures, pipe, told, missed>>

\* An exception leaves the inner loop; the next one begins with both variables reset.
RebuildFails ==
    /\ manager.pc \in {"reconnect", "reregister", "rewatch"} /\ MayFail
    /\ failures' = failures + 1
    /\ manager' = [pc |-> "sleep", lost |-> FALSE, force |-> FALSE]
    /\ cache' = IF manager.pc = "rewatch" THEN {} ELSE cache
    /\ UNCHANGED <<setup, store, up, found, watch, lease, pipe, told, missed>>

\* The watchers are killed and the lease is revoked; the key stays in etcd.
Stop ==
    /\ setup.mayStop /\ manager.pc # "stopped"
    /\ Go("stopped")
    /\ watch' = Killed(watch)
    /\ Clear
    /\ UNCHANGED <<setup, store, up, found, cache, failures, pipe, told, missed>>

-----------------------------------------------------------------------------
(* etcd and the other services *)

\* Between reading and watching nobody notices a change.
Unnoticed(p) == missed' = IF manager.pc = "dispatch" THEN missed \cup {p} ELSE missed

ProviderStarts(p) ==
    /\ p \in setup.arrivals \ up
    /\ up' = up \cup {p}
    /\ store' = store \cup {p}
    /\ Notify("put", p) /\ Unnoticed(p)
    /\ UNCHANGED <<setup, manager, found, cache, lease, failures, pipe, told>>

\* exit_service_registry: the lease is revoked, on which the key does not depend.
ProviderExits(p) ==
    /\ setup.mayStop /\ p \in up
    /\ up' = up \ {p}
    /\ UNCHANGED <<setup, store, manager, found, cache, watch, lease, failures, pipe, told, missed>>

Purge(p) ==
    /\ setup.purges /\ p \in store \ {Own}
    /\ store' = store \ {p}
    /\ Notify("delete", p) /\ Unnoticed(p)
    /\ UNCHANGED <<setup, up, manager, found, cache, lease, failures, pipe, told>>

LeaseFails ==
    /\ lease = "running" /\ MayFail
    /\ failures' = failures + 1
    /\ lease' \in {"timeout", "failed"}
    /\ UNCHANGED <<setup, store, up, manager, found, cache, watch, pipe, told, missed>>

WatchFails ==
    /\ watch.task = "running" /\ MayFail
    /\ failures' = failures + 1
    /\ watch' = [watch EXCEPT !.task = "failed", !.events = << >>]
    /\ UNCHANGED <<setup, store, up, manager, found, cache, lease, pipe, told, missed>>

Monitoring == CheckLease \/ CheckWatch \/ Reconnect \/ Reregister \/ Rewatch
Starting == Register \/ Discover \/ DispatchFound \/ WatchServices

DiscoveryNext ==
    \/ Starting \/ StartFails \/ Consume \/ Monitoring \/ RebuildFails \/ Stop
    \/ LeaseFails \/ WatchFails
    \/ \E p \in Addrs : ProviderStarts(p) \/ ProviderExits(p) \/ Purge(p)

-----------------------------------------------------------------------------
(* The manager and a worker *)

Init ==
    /\ setup \in Setups
    /\ DiscoveryInit
    /\ R!RepoInit

\* service_event_cb in the worker: the next event of the pipe.
Deliver ==
    /\ pipe # << >>
    /\ pipe' = Tail(pipe)
    /\ IF Head(pipe)[1] = "online" THEN R!AddAddr(Head(pipe)[2]) ELSE R!RemoveAddr(Head(pipe)[2])
    /\ UNCHANGED <<store, manager, found, cache, watch, lease, failures, told, missed>>

Next ==
    \/ Deliver
    \/ DiscoveryNext /\ UNCHANGED workerVars
    \/ R!RepoNext /\ UNCHANGED managerVars

Managed(A) == A /\ UNCHANGED workerVars
Worked(A) == A /\ UNCHANGED managerVars

\* The tasks of both processes run, timers fire, a connection to a server that runs
\* is made, and one to a server that does not run breaks.
Fairness ==
    /\ WF_vars(Deliver)
    /\ WF_vars(Managed(Starting)) /\ WF_vars(Managed(Consume)) /\ WF_vars(Managed(Monitoring))
    /\ WF_vars(Worked(R!Examine)) /\ WF_vars(Worked(R!Recheck))
    /\ WF_vars(Worked(R!Resume)) /\ WF_vars(Worked(R!Awake))
    /\ \A g \in R!Groups, i \in 1 .. 2 :
          /\ WF_vars(Worked(R!Reconnected(g, i)))
          /\ WF_vars(Worked(R!Connected(g, i)))
          /\ WF_vars(group[g].addr \notin up /\ Worked(R!Disconnected(g, i)))

Spec == Init /\ [][Next]_vars /\ Fairness

-----------------------------------------------------------------------------
(* Properties *)

Flags == {"report up", "report down", "rebuild", "subject down"}

\* Every variable has its type.
TypeOK ==
    /\ store \subseteq Addrs \cup {Own} /\ cache \subseteq Addrs /\ up \subseteq Addrs
    /\ lease \in {"none", "running", "timeout", "failed"}
    /\ \A g \in R!Groups :
          /\ group[g].flags \subseteq Flags
          /\ \A i \in DOMAIN group[g].stubs : group[g].stubs[i].retries \in 0 .. Retries
    /\ services \in [Addrs -> R!Groups \cup {R!NoGroup}]
    /\ ring \subseteq Addrs
    /\ monitor.pc \in {"none", "waiting", "gathering", "paused"}

\* The three tables a call is routed by agree (add, remove and the monitor, which
\* change them one after the other): an address is in the hash ring exactly when it
\* has a group, the round robin goes over these groups, each once, and none of them
\* is closed.  A group that recovered while the monitor waited for others, and lost
\* its entry in services only, is excepted.
TablesAgree ==
    repo = "ready" =>
        LET known == {services[a] : a \in R!Listed}
        IN  /\ ring \ {group[g].addr : g \in revived} \subseteq R!Listed
            /\ R!Listed \subseteq ring
            /\ Range(robin) \ revived = known
            /\ IsInjective(robin)
            /\ \A g \in known : group[g].open

\* What the manager remembers to have announced is what its workers were told, so
\* that a deletion is passed on and a repeated key is not; after a lost watch, which
\* clears the memory, the workers know more.
CacheIsTold ==
    /\ cache \subseteq told
    /\ failures = 0 => cache = told

\* Nothing has come between etcd and the calls so far.  A deletion is excluded too: a
\* round it forces on the monitor finds the groups that were added during the round
\* before judged down by its second pass, and drops them while they connect.
Calm == failures = 0 /\ outages = 0 /\ ~(setup.createFails \/ setup.mayStop \/ setup.purges)

\* A worker that has handled its events routes to every running service it was told
\* of, whatever rounds the monitor made while their channels were still connecting.
ToldIsListed == Calm /\ pipe = << >> => told \cap up \subseteq R!Listed

\* A service whose key stays in etcd is listed in the end by a worker that runs,
\* unless the key came between reading and watching.
RegisteredIsListed ==
    \A p \in Addrs :
        <>[](Calm /\ p \in (store \cap up) \ missed) => <>[](p \in R!Listed)

\* A service whose key was deleted and whose server is gone is dropped from the
\* routing tables in the end, whatever state its channels were in: reconnecting,
\* hibernating or healthy when the deletion was announced.
DeadIsDropped ==
    \A p \in Addrs :
        <>[](failures = 0 /\ repo = "ready" /\ manager.pc # "stopped" /\ p \notin (store \cup up \cup missed))
           => <>[](p \notin R!Listed)

\* The routing tables of a worker follow etcd: what the manager announces is what it
\* remembers, a worker lists what it was told of, and in the end exactly the services
\* that are registered and running.
RoutingFollows == [](CacheIsTold /\ ToldIsListed) /\ RegisteredIsListed /\ DeadIsDropped
=============================================================================
