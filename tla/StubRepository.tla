--------------------------- MODULE StubRepository ---------------------------
(***************************************************************************)
(* GrpcStubRepositorty: the addresses of one service as a process knows    *)
(* them.  Every address has a group of channels; calls are routed by round *)
(* robin over the groups or by a hash ring over the addresses, and a       *)
(* monitor re-examines groups that were reported lost.                     *)
(***************************************************************************)
EXTENDS Naturals, Sequences, FiniteSets, SequencesExt

CONSTANTS
    Addrs,        \* the addresses of the service
    MaxGroups,    \* bound on the groups ever created
    Retries       \* GrpcStub.retries

VARIABLES
    setup,      \* the situation, fixed at the start
    repo,       \* READY or CLOSED
    group,      \* group -> its address, ChannelState flags and channels
    services,   \* address -> its group, or NoGroup
    robin,      \* round_robin.items
    ring,       \* the addresses of the hash ring
    force,      \* whether force_check_waiter is done
    monitor,    \* where the monitor is: its place and needs_pop
    up,         \* the servers that run
    outages,    \* outages so far
    revived     \* history: groups popped from services although no longer down

repoVars == <<repo, group, services, robin, ring, force, monitor, up, outages, revived>>

NoGroup == 0
Groups == 1 .. MaxGroups
Channels == 1 .. setup.channels

\* chan     none: the creation failed; lost: not READY; ready
\* retries, hibernates  of the GrpcStub;  job: a reconnect waits for the channel
NewStub(chan) == [chan |-> chan, retries |-> Retries, hibernates |-> FALSE, job |-> FALSE]

\* The stubs of a closed group: every channel is closed, every hibernation ended.
NoStubs == << >>
Unused == [addr |-> "none", flags |-> {}, stubs |-> NoStubs, open |-> FALSE]

RepoInit ==
    /\ repo = "ready"
    /\ group = [g \in Groups |-> Unused]
    /\ services = [a \in Addrs |-> NoGroup]
    /\ robin = << >>
    /\ ring = {}
    /\ force = FALSE
    /\ monitor = [pc |-> "none", pop |-> << >>]
    /\ outages = 0
    /\ revived = {}

Listed == {a \in Addrs : services[a] # NoGroup}
IsHealth(stub) == stub.chan = "ready"
IsLost(stub) == stub.chan = "none" \/ (~stub.hibernates /\ stub.chan = "lost")
AnyHealthy(k) == \E i \in DOMAIN k.stubs : IsHealth(k.stubs[i])
IsDown(k) == k.flags \cap {"subject down", "report down"} # {}
Closed(k) == [k EXCEPT !.stubs = NoStubs, !.open = FALSE]

-----------------------------------------------------------------------------
(* Events about the service *)

\* create_stub, shielded: a channel that could not be created is created later.
Creation == IF setup.createFails THEN {"none", "lost"} ELSE {"lost"}

NewGroup(a, chans) ==
    [addr |-> a, flags |-> {"report up", "rebuild"}, open |-> TRUE,
     stubs |-> [i \in Channels |-> NewStub(chans[i])]]

\* A new group connects its channels; the monitor is woken up to look at it.
AddNew(a) ==
    \E g \in Groups : \E chans \in [Channels -> Creation] :
        /\ group[g] = Unused /\ \A h \in Groups : h < g => group[h] # Unused
        /\ group' = [group EXCEPT ![g] = NewGroup(a, chans)]
        /\ services' = [services EXCEPT ![a] = g]
        /\ robin' = Append(robin, g)
        /\ ring' = ring \cup {a}
        /\ force' = TRUE
        /\ monitor' = [monitor EXCEPT !.pc = IF @ = "none" THEN "waiting" ELSE @]
        /\ UNCHANGED <<setup, repo, up, outages, revived>>

AddAgain(a) ==
    /\ group' = [group EXCEPT ![services[a]].flags = (@ \cup {"report up"}) \ {"report down"}]
    /\ UNCHANGED <<setup, repo, services, robin, ring, force, monitor, up, outages, revived>>

AddAddr(a) ==
    \/ repo = "ready" /\ services[a] = NoGroup /\ AddNew(a)
    \/ repo = "ready" /\ services[a] # NoGroup /\ AddAgain(a)
    \/ repo # "ready" /\ UNCHANGED <<setup, repoVars>>

\* Mutant: the group stays in the round robin.
RemoveFromServices(a) ==
    LET g == services[a]
    IN  /\ services' = [services EXCEPT ![a] = NoGroup]
        /\ ring' = ring \ {a}
        /\ group' = [group EXCEPT ![g] = Closed(@)]
        /\ UNCHANGED <<setup, repo, robin, force, monitor, up, outages, revived>>

\* An unhealthy group is taken out of all three tables and closed.
RemoveGroup(a) ==
    LET g == services[a]
    IN  /\ services' = [services EXCEPT ![a] = NoGroup]
        /\ robin' = SelectSeq(robin, LAMBDA h : h # g)
        /\ ring' = ring \ {a}
        /\ group' = [group EXCEPT ![g] = Closed(@)]
        /\ UNCHANGED <<setup, repo, force, monitor, up, outages, revived>>

\* A healthy one is left to the monitor.
Suspect(a) ==
    /\ group' = [group EXCEPT ![services[a]].flags = (@ \ {"report up"}) \cup {"report down", "rebuild"}]
    /\ force' = TRUE
    /\ UNCHANGED <<setup, repo, services, robin, ring, monitor, up, outages, revived>>

RemoveAddr(a) ==
    LET k == group[services[a]]
        dead == "subject down" \in k.flags \/ ~AnyHealthy(k)
    IN  \/ repo = "ready" /\ a \in Listed /\ dead /\ RemoveGroup(a)
        \/ repo = "ready" /\ a \in Listed /\ ~dead /\ Suspect(a)
        \/ (repo # "ready" \/ a \notin Listed) /\ UNCHANGED <<setup, repoVars>>

-----------------------------------------------------------------------------
(* Calls *)

\* LoadBalancer.route without a key: the groups are tried in turn from some position
\* on; the ones without a READY channel are marked for the monitor.
Route ==
    \E pos \in 1 .. Len(robin) :
        LET order == SubSeq(robin, pos, Len(robin)) \o SubSeq(robin, 1, pos - 1)
            healthy == {i \in DOMAIN order : AnyHealthy(group[order[i]])}
            used == IF healthy = {} THEN Len(order) + 1
                    ELSE CHOOSE i \in healthy : \A j \in healthy : i <= j
            lost == {order[i] : i \in 1 .. (used - 1)}
        IN  /\ repo = "ready"
            /\ group' = [g \in Groups |->
                  CASE g \in lost -> [group[g] EXCEPT !.flags = @ \cup {"rebuild"}]
                    [] used <= Len(order) /\ g = order[used] -> [group[g] EXCEPT !.flags = @ \ {"subject down"}]
                    [] OTHER -> group[g]]
            /\ force' = (force \/ \E g \in lost : "rebuild" \notin group[g].flags)
            /\ UNCHANGED <<setup, repo, services, robin, ring, monitor, up, outages, revived>>

-----------------------------------------------------------------------------
(* The monitor *)

\* GrpcStub.reconnect up to its wait for the channel: a retry is used up, the last
\* one begins a hibernation; a missing channel is created, which may fail again.
Reconnecting(stub) ==
    CASE stub.hibernates -> {stub}
      [] ~stub.hibernates /\ stub.retries = 1 -> {[stub EXCEPT !.retries = 0, !.hibernates = TRUE]}
      [] ~stub.hibernates /\ stub.retries > 1 /\ stub.chan = "lost" ->
            {[stub EXCEPT !.retries = @ - 1, !.job = TRUE]}
      [] OTHER -> {[stub EXCEPT !.retries = @ - 1],
                   [stub EXCEPT !.retries = @ - 1, !.job = TRUE, !.chan = "lost"]}

\* rebuild_if_needs: the possible stubs of a group after its lost ones reconnect.
Rebuilding(k) ==
    {f \in [DOMAIN k.stubs -> UNION {Reconnecting(k.stubs[i]) \cup {k.stubs[i]} : i \in DOMAIN k.stubs}] :
        \A i \in DOMAIN k.stubs : f[i] \in IF IsLost(k.stubs[i]) THEN Reconnecting(k.stubs[i]) ELSE {k.stubs[i]}}

LostStubs(k) == {i \in DOMAIN k.stubs : IsLost(k.stubs[i])}

\* What the first pass makes of a group's flags; a hibernating stub is not lost.
Examined(k) ==
    CASE "rebuild" \in k.flags /\ LostStubs(k) = DOMAIN k.stubs -> k.flags
      [] "rebuild" \in k.flags /\ LostStubs(k) # DOMAIN k.stubs /\ LostStubs(k) # {} -> k.flags \ {"subject down"}
      [] "rebuild" \in k.flags /\ LostStubs(k) = {} -> k.flags \ {"rebuild", "subject down"}
      [] "rebuild" \notin k.flags /\ AnyHealthy(k) -> k.flags \ {"subject down"}
      [] "rebuild" \notin k.flags /\ ~AnyHealthy(k) /\ IsDown(k) -> k.flags
      [] "rebuild" \notin k.flags /\ ~AnyHealthy(k) /\ ~IsDown(k) -> k.flags \cap {"rebuild"}

NeedsPop(k) == "rebuild" \notin k.flags /\ ~AnyHealthy(k) /\ IsDown(k)

\* The last part of a round: the addresses in needs_pop leave services, and their
\* groups leave the round robin and the ring when they are still down.  An address
\* that is not in services any more raises, and the round is repeated after a pause.
Pop(tables, pop) ==
    LET missing == {i \in DOMAIN pop : tables.services[pop[i]] = NoGroup
                                          \/ \E j \in 1 .. (i - 1) : pop[j] = pop[i]}
        popped == {pop[i] : i \in {j \in DOMAIN pop : \A m \in missing : j < m}}
        gone == {tables.services[a] : a \in popped}
        down == {g \in gone : IsDown(tables.group[g])}
    IN  /\ services' = [a \in Addrs |-> IF a \in popped THEN NoGroup ELSE tables.services[a]]
        /\ robin' = SelectSeq(robin, LAMBDA g : g \notin down)
        /\ ring' = ring \ {tables.group[g].addr : g \in down}
        /\ group' = [g \in Groups |-> IF g \in down THEN Closed(tables.group[g]) ELSE tables.group[g]]
        /\ revived' = revived \cup (gone \ down)
        /\ force' = (missing # {})
        /\ monitor' = [pc |-> IF missing # {} THEN "paused" ELSE "waiting", pop |-> << >>]

\* The first pass over the groups.  Reconnects are waited for; without any the round
\* ends in the same step.
Examine ==
    LET toPop == SetToSeq({a \in Listed : NeedsPop(group[services[a]])})
        rebuilt == {services[a] : a \in {b \in Listed : "rebuild" \in group[services[b]].flags}}
        pending == \E g \in rebuilt : LostStubs(group[g]) # {}
    IN  /\ monitor.pc = "waiting" /\ force
        /\ \E stubs \in [rebuilt -> UNION {Rebuilding(group[g]) : g \in rebuilt}] :
              LET examined == [g \in Groups |->
                    [group[g] EXCEPT !.flags = IF \E a \in Listed : services[a] = g THEN Examined(group[g]) ELSE @,
                                     !.stubs = IF g \in rebuilt THEN stubs[g] ELSE @]]
              IN  /\ \A g \in rebuilt : stubs[g] \in Rebuilding(group[g])
                  /\ IF pending
                     THEN /\ group' = examined
                          /\ monitor' = [pc |-> "gathering", pop |-> toPop]
                          /\ UNCHANGED <<services, robin, ring, force, revived>>
                     ELSE Pop([services |-> services, group |-> examined], toPop)
        /\ UNCHANGED <<setup, repo, up, outages>>

\* A reconnect ends: the channel is ready, or the time is over, because the server is
\* out or slow.
Reconnected(g, i) ==
    /\ group[g].open /\ i \in DOMAIN group[g].stubs
    /\ group[g].stubs[i].job
    /\ \/ (IsHealth(group[g].stubs[i]) \/ group[g].addr \notin up) /\ outages' = outages
       \/ ~IsHealth(group[g].stubs[i]) /\ group[g].addr \in up
             /\ outages < setup.outages /\ outages' = outages + 1
    /\ group' = [group EXCEPT ![g].stubs[i] =
          [@ EXCEPT !.job = FALSE, !.retries = IF IsHealth(group[g].stubs[i]) THEN Retries ELSE @]]
    /\ UNCHANGED <<setup, repo, services, robin, ring, force, monitor, up, revived>>

\* Mutant: a group that is not healthy is dropped, reported down or not.
RecheckEager ==
    LET dead == {a \in Listed : ~AnyHealthy(group[services[a]])}
        rechecked == [g \in Groups |-> IF \E a \in dead : services[a] = g
                        THEN [group[g] EXCEPT !.flags = @ \cup {"subject down"}] ELSE group[g]]
    IN  /\ monitor.pc = "gathering"
        /\ \A g \in Groups : \A i \in DOMAIN group[g].stubs : ~group[g].stubs[i].job
        /\ Pop([services |-> services, group |-> rechecked], monitor.pop \o SetToSeq(dead))
        /\ UNCHANGED <<setup, repo, up, outages>>

\* The second pass, when all reconnects have ended.
Recheck ==
    LET rechecked == [g \in Groups |->
            IF \E a \in Listed : services[a] = g
            THEN [group[g] EXCEPT !.flags =
                    IF AnyHealthy(group[g]) THEN @ \ {"rebuild", "subject down"}
                                            ELSE (@ \ {"rebuild"}) \cup {"subject down"}]
            ELSE group[g]]
        dead == {a \in Listed : ~AnyHealthy(group[services[a]]) /\ "report down" \in group[services[a]].flags}
    IN  /\ monitor.pc = "gathering"
        /\ \A g \in Groups : \A i \in DOMAIN group[g].stubs : ~group[g].stubs[i].job
        /\ Pop([services |-> services, group |-> rechecked], monitor.pop \o SetToSeq(dead))
        /\ UNCHANGED <<setup, repo, up, outages>>

\* The pause after an exception is over.
Resume ==
    /\ monitor.pc = "paused"
    /\ monitor' = [monitor EXCEPT !.pc = "waiting"]
    /\ UNCHANGED <<setup, repo, group, services, robin, ring, force, up, outages, revived>>

\* The timer of the monitor, every sixty seconds, in which the channel to a server
\* that runs connects unless it is slow.
Awake ==
    LET slow == \E g \in Groups : /\ group[g].addr \in up
                                  /\ \E i \in DOMAIN group[g].stubs : group[g].stubs[i].chan = "lost"
    IN  /\ monitor.pc # "none" /\ ~force
        /\ slow => outages < setup.outages
        /\ outages' = IF slow THEN outages + 1 ELSE outages
        /\ force' = TRUE
        /\ UNCHANGED <<setup, repo, group, services, robin, ring, monitor, up, revived>>

ExitHibernate(g, i) ==
    /\ i \in DOMAIN group[g].stubs /\ group[g].stubs[i].hibernates
    /\ group' = [group EXCEPT ![g].stubs[i] = [@ EXCEPT !.hibernates = FALSE, !.retries = Retries]]
    /\ UNCHANGED <<setup, repo, services, robin, ring, force, monitor, up, outages, revived>>

\* The repository is closed; the round robin and the ring are left as they are.
CloseRepository ==
    /\ repo = "ready" /\ setup.mayClose
    /\ repo' = "closed"
    /\ group' = [g \in Groups |-> IF \E a \in Listed : services[a] = g THEN Closed(group[g]) ELSE group[g]]
    /\ services' = [a \in Addrs |-> NoGroup]
    /\ monitor' = [pc |-> "none", pop |-> << >>]
    /\ UNCHANGED <<setup, robin, ring, force, up, outages, revived>>

-----------------------------------------------------------------------------
(* The servers and their connections *)

ServerDown(a) ==
    /\ a \in up /\ outages < setup.outages
    /\ up' = up \ {a}
    /\ outages' = outages + 1
    /\ UNCHANGED <<setup, repo, group, services, robin, ring, force, monitor, revived>>

ServerUp(a) ==
    /\ a \notin up
    /\ up' = up \cup {a}
    /\ UNCHANGED <<setup, repo, group, services, robin, ring, force, monitor, outages, revived>>

Connected(g, i) ==
    /\ i \in DOMAIN group[g].stubs /\ group[g].stubs[i].chan = "lost" /\ group[g].addr \in up
    /\ group' = [group EXCEPT ![g].stubs[i].chan = "ready"]
    /\ UNCHANGED <<setup, repo, services, robin, ring, force, monitor, up, outages, revived>>

\* A channel loses its connection, with its server or without.
Disconnected(g, i) ==
    /\ i \in DOMAIN group[g].stubs /\ group[g].stubs[i].chan = "ready"
    /\ \/ group[g].addr \notin up /\ outages' = outages
       \/ group[g].addr \in up /\ outages < setup.outages /\ outages' = outages + 1
    /\ group' = [group EXCEPT ![g].stubs[i].chan = "lost"]
    /\ UNCHANGED <<setup, repo, services, robin, ring, force, monitor, up, revived>>

RepoNext ==
    \/ Route \/ Examine \/ Recheck \/ Resume \/ Awake \/ CloseRepository
    \/ \E g \in Groups, i \in Channels :
          Reconnected(g, i) \/ ExitHibernate(g, i) \/ Connected(g, i) \/ Disconnected(g, i)
    \/ \E a \in Addrs : ServerDown(a) \/ ServerUp(a)
=============================================================================
