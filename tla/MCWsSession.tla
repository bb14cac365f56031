---------------------------- MODULE MCWsSession ----------------------------
(* WsSession for TLC: who connects where, and what may go wrong.            *)
EXTENDS WsSession

CONSTANTS e1, e2, e3, g1, g2, k1, k2

\* Three connections of one device, on two gateways.
Handover ==
    [key |-> (e1 :> k1 @@ e2 :> k1 @@ e3 :> k1), gateways |-> {g1, g2}, orderly |-> TRUE,
     faults |-> FALSE, mayShutdown |-> FALSE, pushes |-> FALSE]

\* One gateway whose pool two devices share, in any order.
Shared ==
    [Handover EXCEPT !.key = (e1 :> k1 @@ e2 :> k1 @@ e3 :> k2), !.gateways = {g1},
                     !.orderly = FALSE]

\* Failing calls of Redis, and shutdowns.
Faulty ==
    [Handover EXCEPT !.key = (e1 :> k1 @@ e2 :> k1), !.orderly = FALSE,
                     !.faults = TRUE, !.mayShutdown = TRUE, !.pushes = TRUE]

SessionSetups == {Handover, Shared, Faulty}
=============================================================================
