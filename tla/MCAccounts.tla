----------------------------- MODULE MCAccounts -----------------------------
(* Small instances of Accounts: three requests of one client about one account. *)
EXTENDS Accounts, TLC

CONSTANTS r1, r2, r3, d1, w1, w2

NoAccount ==
    [calls |-> {}, kind |-> r1 :> "register" @@ r2 :> "confirm" @@ r3 :> "login", of |-> [r \in Calls |-> r1],
     device |-> [r \in Calls |-> d1], invalid |-> {}, row |-> "none", owner |-> NoOne, persists |-> FALSE,
     expires |-> FALSE, workers |-> {w1}, failures |-> 0]

\* A client registers, confirms and logs in, and tries again what fails.
Onboard == [NoAccount EXCEPT !.calls = Calls, !.persists = TRUE, !.failures = 2]
\* Two registrations of one address at two auth workers, and a link that may expire.
Twice == [NoAccount EXCEPT !.calls = Calls, !.failures = 1, !.expires = TRUE, !.workers = AuthWorkers,
                      !.kind = r1 :> "register" @@ r2 :> "confirm" @@ r3 :> "register"]
Member == [NoAccount EXCEPT !.calls = Calls, !.failures = 1, !.expires = TRUE,
                      !.row = "confirmed", !.owner = r1]
\* A device logs in again, or uses its tokens; a request is malformed.
Again == [Member EXCEPT !.kind = r1 :> "login" @@ r2 :> "login" @@ r3 :> "token"]
Use == [Member EXCEPT !.kind = r1 :> "login" @@ r2 :> "query" @@ r3 :> "token"]
Malformed == [Use EXCEPT !.invalid = {r2}]

MCSetups == {Onboard, Twice, Again, Use, Malformed}
=============================================================================
