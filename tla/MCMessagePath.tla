--------------------------- MODULE MCMessagePath ---------------------------
(* MessagePath for TLC: the parts one by one, and the whole way. *)
EXTENDS MessagePath, TLC

CONSTANTS p1, p2, s1, s2, w1, w2, w3, w4, w5

\* Message ids grow; 2 repeats the call of 1, 3 is another sender's.
Keys == <<[sender |-> 1, seq |-> 1], [sender |-> 1, seq |-> 1], [sender |-> 2, seq |-> 1]>>
NoCalls == [calls |-> {}, stored |-> {}, key |-> Keys, route |-> <<p1, p1, p1>>, mayClose |-> FALSE]
NoWrites == [at |-> <<>>, mayFail |-> FALSE, mayCancel |-> FALSE]
NoLetters == [key |-> Keys, letters |-> {}, faults |-> 0, visits |-> 0]

Quiet == [up |-> NoCalls, storage |-> NoWrites, model |-> NoLetters, worker |-> FALSE]

\* Calls to one partition, and to two.
Calls == [Quiet EXCEPT !.up = [NoCalls EXCEPT !.calls = {1, 2}, !.mayClose = TRUE]]
TwoPartitions == [Quiet EXCEPT !.up = [NoCalls EXCEPT !.calls = {1, 2}, !.route = <<p1, p2, p1>>]]

\* Writers of one chat on two servers that fill more than a bucket.
OneServer == w1 :> s1 @@ w2 :> s1 @@ w3 :> s1
TwoServers == w1 :> s1 @@ w2 :> s1 @@ w3 :> s2 @@ w4 :> s2
Writing == [Quiet EXCEPT !.storage = [NoWrites EXCEPT !.at = TwoServers @@ w5 :> s1]]
Failing == [Quiet EXCEPT !.storage = [at |-> OneServer, mayFail |-> TRUE, mayCancel |-> FALSE]]
Cancelling == [Quiet EXCEPT !.storage = [at |-> OneServer, mayFail |-> FALSE, mayCancel |-> TRUE]]
Both == [Quiet EXCEPT !.storage = [at |-> w1 :> s1 @@ w2 :> s1, mayFail |-> TRUE, mayCancel |-> TRUE]]

\* Dead letters of both kinds while the receiver comes and goes.
DeadLetters == [Quiet EXCEPT !.model = [NoLetters EXCEPT !.letters = {<<1, "all">>, <<3, "inbox">>}, !.faults = 1, !.visits = 1]]
OneLetter == [Quiet EXCEPT !.model = [NoLetters EXCEPT !.letters = {<<1, "all">>}, !.faults = 2, !.visits = 2]]

\* The whole way of a message; and from the stream on, of a call and its repetition, and of
\* two calls in a row.
InARow == <<[sender |-> 1, seq |-> 1], [sender |-> 1, seq |-> 2], [sender |-> 2, seq |-> 1]>>
Path == [Quiet EXCEPT !.worker = TRUE, !.up.calls = {1}, !.model.faults = 2]
Repeated == [Path EXCEPT !.up.calls = {1, 2}, !.up.stored = {1, 2}, !.model.faults = 1]
OneByOne == [Repeated EXCEPT !.up.key = InARow, !.model.key = InARow]

MCSetups == {Calls, TwoPartitions, Writing, Failing, Cancelling, Both, DeadLetters, OneLetter, Path, Repeated, OneByOne}
=============================================================================
