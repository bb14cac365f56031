----------------------------- MODULE RateLimiter -----------------------------
(***************************************************************************)
(* What an HTTP request passes before its handler runs: the check of the   *)
(* blocked addresses, the limit on requests of one address and the tokens  *)
(* of the endpoint.  The two limiters are scripts that Redis runs; their   *)
(* time is the one at which the gateway sent the call.                     *)
(***************************************************************************)
EXTENDS Integers, Sequences, FiniteSets, Functions

CONSTANTS
    Slots,            \* requests of one address at a time
    SlidingWindow, TraceCycle, TraceThreshold, BlockedTime,
    InflowWindow, Capacity, Rate,
    MaxDelay,         \* how long after a call is sent Redis may run its script
    MaxTime           \* bound on the clock

VARIABLES
    now,
    request,      \* per slot, [pc, stamp]
    trace,        \* the sorted set of the address: the times of its requests
    traceEnds,    \* when it expires
    blockedUntil, \* the blocked key of the address: when it expires, 0 without it
    tokens,       \* the token key of the endpoint, -1 before the first request
    refreshed,    \* last_refreshed
    limits,       \* which limiters the requests can meet: "address", "tokens"
    dropped,      \* history: when the trace expired, in the last cycle
    byAddress,    \* history: what the first script allowed in the last cycle, in the order it ran
    byTokens      \* history: [time -> how many requests the second script allowed], for the last window

limiterVars == <<now, request, trace, traceEnds, blockedUntil, tokens, refreshed, limits, dropped, byAddress, byTokens>>

Times == 0..MaxTime

LimiterInit ==
    /\ now = 1
    /\ request = [s \in Slots |-> [pc |-> "new", stamp |-> 0]]
    /\ trace = {} /\ traceEnds = 0 /\ blockedUntil = 0
    /\ tokens = -1 /\ refreshed = 0
    /\ dropped = {} /\ byAddress = << >> /\ byTokens = [t \in Times |-> 0]

Answer(s) == request' = [request EXCEPT ![s].pc = "new", ![s].stamp = 0]
Goes(s, to) == request' = [request EXCEPT ![s] = [pc |-> to, stamp |-> now]]

-----------------------------------------------------------------------------
(* IP_RATELIMITER *)

\* The entries of the sorted set that the script sees, in the window of length w before t.
Within(w, t) == {x \in trace : x <= t /\ t <= x + w}

\* At time t of the gateway: rejected inside the sliding window, blocked above the
\* threshold of the trace cycle, else allowed; the set lives for a cycle from its first entry.
IpScript(t) ==
    IF Within(SlidingWindow, t) # {} THEN [code |-> 1, trace |-> trace, ends |-> traceEnds]
    ELSE LET count == Cardinality(Within(TraceCycle, t) \cup {t})
         IN [code |-> IF count > TraceThreshold THEN 2 ELSE 0,
             trace |-> trace \cup {t},
             ends |-> IF count = 1 /\ count <= TraceThreshold THEN now + TraceCycle ELSE traceEnds]

-----------------------------------------------------------------------------
(* TOKEN_RATELIMITER, with prefetch 1 *)

Least(a, b) == IF a < b THEN a ELSE b

Passed(t) == IF t > refreshed THEN t - refreshed ELSE 0

\* Mutant: tokens flow in whatever time has passed.
TokenScriptEager(t) ==
    LET left == IF tokens = -1 THEN Capacity ELSE tokens
        all == IF left = 0 THEN Capacity ELSE left
    IN [code |-> 0, tokens |-> all - 1, refreshed |-> t]

\* The tokens that are left; when there is none, those that flowed in since the last time,
\* and only after a whole window.
TokenScript(t) ==
    IF tokens = -1 THEN [code |-> 0, tokens |-> Capacity - 1, refreshed |-> t]
    ELSE IF tokens > 0 THEN [code |-> 0, tokens |-> tokens - 1, refreshed |-> refreshed]
    ELSE IF Passed(t) < InflowWindow THEN [code |-> 1, tokens |-> tokens, refreshed |-> refreshed]
    ELSE LET all == Least(Passed(t) * Rate, Capacity)
         IN IF all = 0 THEN [code |-> 1, tokens |-> 0, refreshed |-> t]
            ELSE [code |-> 0, tokens |-> all - 1, refreshed |-> t]

-----------------------------------------------------------------------------
(* The middlewares *)

\* AllowOrDenyMiddleware: 403 for a blocked address.
AllowOrDeny(s) ==
    /\ "address" \in limits /\ request[s].pc = "new"
    /\ blockedUntil = 0
    /\ Goes(s, "checked")
    /\ UNCHANGED <<now, trace, traceEnds, blockedUntil, tokens, refreshed, limits, dropped, byAddress, byTokens>>

\* ip_limiter sends its call, with the time of the gateway.
CallIp(s) ==
    /\ request[s].pc = "checked"
    /\ Goes(s, "ip")
    /\ UNCHANGED <<now, trace, traceEnds, blockedUntil, tokens, refreshed, limits, dropped, byAddress, byTokens>>

\* ip_limiter: the script runs at some time after the call was sent; 0 goes on to the next
\* limiter, 1 is answered 429, 2 blocks the address and is answered 403.
IpLimiter(s) ==
    /\ request[s].pc = "ip"
    /\ LET t == request[s].stamp
           r == IpScript(t)
       IN /\ trace' = r.trace /\ traceEnds' = r.ends
          /\ blockedUntil' = IF r.code = 2 /\ blockedUntil = 0 THEN now + BlockedTime ELSE blockedUntil
          /\ IF r.code = 0 /\ "tokens" \in limits THEN Goes(s, "token") ELSE Answer(s)
          /\ byAddress' = IF r.code = 0 THEN Append(byAddress, [stamp |-> t, at |-> now]) ELSE byAddress
    /\ UNCHANGED <<now, tokens, refreshed, limits, dropped, byTokens>>

\* api_limiter: 0 runs the handler, 1 is answered 403.
ApiLimiter(s) ==
    /\ request[s].pc = "token"
    /\ LET t == request[s].stamp
           r == TokenScript(t)
       IN /\ tokens' = r.tokens /\ refreshed' = r.refreshed
          /\ byTokens' = IF r.code = 0 THEN [byTokens EXCEPT ![now] = @ + 1] ELSE byTokens
    /\ Answer(s)
    /\ UNCHANGED <<now, trace, traceEnds, blockedUntil, limits, dropped, byAddress>>

\* A call of Redis fails, or is not answered in time: 502 or 504.
RedisFails(s) ==
    /\ request[s].pc \in {"ip", "token"}
    /\ Answer(s)
    /\ UNCHANGED <<now, trace, traceEnds, blockedUntil, tokens, refreshed, limits, dropped, byAddress, byTokens>>

\* A script runs and its reply is lost: the library sends the call again, or the
\* request is answered 502 or 504.
ReplyLost(s) ==
    LET t == request[s].stamp
        ip == IpScript(t)
        token == TokenScript(t)
    IN  /\ \/ /\ request[s].pc = "ip"
              /\ trace' = ip.trace /\ traceEnds' = ip.ends
              /\ blockedUntil' = IF ip.code = 2 /\ blockedUntil = 0 THEN now + BlockedTime ELSE blockedUntil
              /\ UNCHANGED <<tokens, refreshed>>
           \/ /\ request[s].pc = "token"
              /\ tokens' = token.tokens /\ refreshed' = token.refreshed
              /\ UNCHANGED <<trace, traceEnds, blockedUntil>>
        /\ UNCHANGED request \/ Answer(s)
        /\ UNCHANGED <<now, limits, dropped, byAddress, byTokens>>

\* A request of another address, whose own limit it keeps.
OtherAddress(s) ==
    /\ "tokens" \in limits /\ request[s].pc = "new"
    /\ Goes(s, "token")
    /\ UNCHANGED <<now, trace, traceEnds, blockedUntil, tokens, refreshed, limits, dropped, byAddress, byTokens>>

Recent(x) == now < x + TraceCycle
RecentlyAllowed(x) == Recent(x.at)

\* Time passes, and Redis drops what has expired.
Tick ==
    /\ limits # {} /\ now < MaxTime
    /\ \A s \in Slots : request[s].pc \in {"ip", "token"} => now < request[s].stamp + MaxDelay
    /\ now' = now + 1
    /\ dropped' = {d \in dropped : Recent(d)} \cup {d \in {now + 1} : trace # {} /\ traceEnds <= d}
    /\ trace' = IF traceEnds <= now + 1 THEN {} ELSE trace
    /\ traceEnds' = IF traceEnds <= now + 1 THEN 0 ELSE traceEnds
    /\ blockedUntil' = IF blockedUntil <= now + 1 THEN 0 ELSE blockedUntil
    /\ byTokens' = [t \in Times |-> IF now + 1 < t + InflowWindow THEN byTokens[t] ELSE 0]
    /\ byAddress' = SelectSeq(byAddress, RecentlyAllowed)
    /\ UNCHANGED <<request, tokens, refreshed, limits>>

LimiterNext ==
    \/ \E s \in Slots : \/ AllowOrDeny(s) \/ CallIp(s) \/ IpLimiter(s) \/ ApiLimiter(s)
                        \/ RedisFails(s) \/ ReplyLost(s) \/ OtherAddress(s)
    \/ Tick

-----------------------------------------------------------------------------
LimiterTypeOK ==
    /\ now \in Times /\ limits \subseteq {"address", "tokens"} /\ dropped \subseteq Times
    /\ request \in [Slots -> [pc : {"new", "checked", "ip", "token"}, stamp : Times]]
    /\ trace \subseteq Times /\ byAddress \in Seq([stamp : Times, at : Times])
    /\ traceEnds \in Nat /\ blockedUntil \in Nat
    /\ tokens \in -1..Capacity /\ refreshed \in Times

\* One request per sliding window: of two requests of an address that are let through
\* and whose times lie within a window, the later one was sent later but overtook the
\* other on the way to Redis, or the trace expired between the two runs of the script:
\* it lives for a cycle from its first entry, and takes its last ones with it.
Spaced ==
    \A i, j \in DOMAIN byAddress :
        LET x == byAddress[i]
            y == byAddress[j]
        IN i < j /\ x.stamp <= y.stamp /\ y.stamp <= x.stamp + SlidingWindow =>
              \E d \in dropped : x.at < d /\ d <= y.at

\* In a trace cycle, an address gets at most twice the threshold of requests through,
\* times the number of requests it has on the way at once: the script does not count the
\* requests that were sent later and ran earlier.
AddressQuota == Len(byAddress) <= 2 * TraceThreshold * Cardinality(Slots)

\* Of all requests for an endpoint, one capacity gets through in an inflow window for the
\* tokens that were left, one for the window, and one for each window that the script may
\* run late: every call that was held up brings an earlier time with it, and tokens flow
\* in for it.
TokenQuota ==
    SumFunction(byTokens) < Capacity * (2 + (InflowWindow + MaxDelay - 1) \div InflowWindow)
=============================================================================
