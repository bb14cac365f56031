--------------------------- MODULE MCPushStream ---------------------------
(* PushStream for TLC: n3 is a kick-off.                                    *)
EXTENDS PushStream

CONSTANTS n1, n2, n3, d1, here, there

\* Three events, so that acks merge spans while feedback is being sent.
Merging == [notes |-> {n1, n2, n3}, gateways |-> {here}, counted |-> 0, faults |-> FALSE]

\* The same across the end of the delivery ids.
Wrapping == [Merging EXCEPT !.counted = 3]

\* One message, requeued and sent again, with everything that may fail.
Faults == [Merging EXCEPT !.notes = {n1}, !.faults = TRUE]

\* Two messages for two gateways.
TwoGateways == [Merging EXCEPT !.notes = {n1, n2}, !.gateways = {here, there}]

PushSetups == {Merging, Wrapping, Faults, TwoGateways}
=============================================================================
