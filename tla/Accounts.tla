------------------------------ MODULE Accounts ------------------------------
(***************************************************************************)
(* One account from its registration to its tokens: the routes of the HTTP *)
(* gateway call the auth service, which calls the user service and Redis,  *)
(* and the confirmation link goes by mail.  Each caller may give up while  *)
(* its callee goes on.  Tokens are made at a login only: the handler that  *)
(* refreshes them has no route, and the check of an access token never     *)
(* finds one that is merely expired.                                       *)
(***************************************************************************)
EXTENDS Naturals

CONSTANTS
    Calls,        \* the requests of the clients
    Devices,
    AuthWorkers,  \* the processes of the auth service
    NoOne,
    MailTries,    \* max_tries of publish_email
    Setups        \* what plan may be

Kinds == {"register", "confirm", "login", "query", "token"}

ASSUME AccountsAssumption ==
    /\ NoOne \notin Calls /\ MailTries \in Nat \ {0}
    /\ \A s \in Setups :
          /\ s.calls \subseteq Calls /\ s.kind \in [Calls -> Kinds] /\ s.device \in [Calls -> Devices]
          /\ s.row \in {"none", "unconfirmed", "confirmed"} /\ s.failures \in Nat

VARIABLES
    plan,         \* [kind, of, device : per request], the row at first, who persists, what expires
    failures,     \* how many steps may still fail
    req,          \* per request, [at, res, answer, seen, token]
    row,          \* the row of the users table: "none", "unconfirmed" or "confirmed"
    password,     \* whose password it holds: that of a registering request
    maker,        \* per registering request, the auth worker that signed its link
    mail,         \* per registering request, [task, try, queued] of its mail
    inbox,        \* the registering requests whose link was mailed
    oldLinks,     \* the links that have expired
    lateRows,     \* statements that may still be executed, though nobody waits
    stored,       \* the token in Redis, 0 for none
    minted,       \* how many pairs of tokens were generated
    lateTokens,   \* tokens that may still be stored, though nobody waits
    device,       \* per device, the pair of tokens that it holds, 0 for none
    oldTokens,    \* the access tokens that have expired
    everStored,   \* history: the tokens that were confirmed as stored
    everHeld,     \* history: the passwords that the row has held
    overtaken,    \* history: registering requests whose row was confirmed under the statement
    overlapped    \* history: two requests made tokens at a time

vars == <<plan, failures, req, row, password, maker, mail, inbox, oldLinks, lateRows, stored,
          minted, lateTokens, device, oldTokens, everStored, everHeld, overtaken, overlapped>>

mailVars == <<maker, mail, inbox, oldLinks>>
rowVars == <<row, password, everHeld, lateRows, overtaken>>
tokenVars == <<stored, minted, lateTokens, oldTokens, everStored, overlapped>>

Kind(r) == plan.kind[r]
Fails == failures > 0 /\ failures' = failures - 1

Fresh == [at |-> "new", res |-> "none", answer |-> "none", seen |-> "none", token |-> 0]

Init ==
    /\ plan \in Setups /\ failures = plan.failures
    /\ req = [r \in Calls |-> IF r \in plan.calls THEN Fresh ELSE [Fresh EXCEPT !.at = "done", !.answer = "none sent"]]
    /\ row = plan.row
    /\ password = IF plan.row = "none" THEN NoOne ELSE plan.owner
    /\ maker = [r \in Calls |-> NoOne]
    /\ mail = [r \in Calls |-> [task |-> "none", try |-> 1, queued |-> 0]]
    /\ inbox = {} /\ oldLinks = {} /\ lateRows = {}
    /\ stored = 0 /\ minted = 0 /\ lateTokens = {}
    /\ device = [d \in Devices |-> 0]
    /\ oldTokens = {} /\ everStored = {} /\ everHeld = {} /\ overtaken = {} /\ overlapped = FALSE

Goes(r, at, res) == req' = [req EXCEPT ![r].at = at, ![r].res = res]
Answered(r, a) == req' = [req EXCEPT ![r].at = "done", ![r].answer = a]

-----------------------------------------------------------------------------
(* What the routes of the gateway make of the reply they get *)

\* What grpc_wrapper makes of a call without an answer.
GrpcFailures == {"GRPC_TIMEOUT", "GRPC_FAILED"}

\* GRPC_TIMEOUT is 504, and every other failed call 400.
GrpcStatus(res) == IF res = "GRPC_TIMEOUT" THEN "504" ELSE "400"

LoginStatus(res) ==
    CASE res = "SUCCESS" -> "200" [] res = "TIMEOUT" -> "504" [] res = "NOT_EXISTS" -> "202"
      [] res \in {"INCORRECT_EMAIL", "INCORRECT_PWD"} -> "401" [] OTHER -> "503"

RegisterStatus(res) ==
    CASE res = "SUCCESS" -> "200" [] res = "TIMEOUT" -> "504" [] res = "ALREADY_EXISTS" -> "202" [] OTHER -> "502"

\* The text for an expired link is sent with status 200 as well.
ConfirmStatus(res) ==
    CASE res = "SUCCESS" -> "200" [] res = "EXPIRED" -> "200 expired" [] res = "TIMEOUT" -> "504" [] OTHER -> "503"

QueryStatus(res) ==
    CASE res = "OK" -> "200" [] res = "DB_TIMEOUT" -> "504" [] res = "NOT_EXISTS" -> "404" [] OTHER -> "502"

\* authenticate_token: the code that auth_token answers for the failure.
TokenStatus(res) == CASE res = "SUCCESS" -> "200" [] res = "TIMEOUT" -> "504" [] OTHER -> "401"

Status(r) ==
    LET res == req[r].res IN
    IF res \in GrpcFailures THEN GrpcStatus(res)
    ELSE CASE Kind(r) = "login" -> LoginStatus(res)
           [] Kind(r) = "register" -> RegisterStatus(res)
           [] Kind(r) = "confirm" -> ConfirmStatus(res)
           [] Kind(r) = "query" -> QueryStatus(res)
           [] Kind(r) = "token" -> TokenStatus(res)

\* A client has a link or tokens before it uses them.
MaySend(r) ==
    CASE Kind(r) = "confirm" -> plan.of[r] \in inbox
      [] Kind(r) = "token" -> device[plan.device[r]] # 0
      [] OTHER -> TRUE

\* The routes up to their first call: a bad form is 400, no service 500.
Send(r) ==
    /\ req[r].at = "new" /\ MaySend(r)
    /\ \/ /\ r \in plan.invalid /\ Answered(r, "400") /\ UNCHANGED failures
       \/ /\ r \notin plan.invalid /\ Answered(r, "500") /\ Fails
       \/ /\ r \notin plan.invalid
          /\ req' = [req EXCEPT ![r].at = IF Kind(r) = "query" THEN "user" ELSE "auth",
                                ![r].token = IF Kind(r) = "token" THEN device[plan.device[r]] ELSE 0]
          /\ UNCHANGED failures
    /\ UNCHANGED <<plan, mailVars, rowVars, tokenVars, device>>

\* The routes after their call: the answer, the task for the mail, the new tokens.
Return(r) ==
    /\ req[r].at = "reply"
    /\ Answered(r, Status(r))
    /\ mail' = IF Status(r) = "200" /\ Kind(r) = "register" THEN [mail EXCEPT ![r].task = "publishing"] ELSE mail
    /\ device' = IF Status(r) = "200" /\ Kind(r) = "login"
                 THEN [device EXCEPT ![plan.device[r]] = req[r].token] ELSE device
    /\ UNCHANGED <<plan, failures, maker, inbox, oldLinks, rowVars, tokenVars>>

\* What the service of a request that is given up may still do.
LeftBehind(r) ==
    /\ lateRows' = IF req[r].at \in {"user", "stmt"} /\ Kind(r) \in {"register", "confirm"}
                   THEN lateRows \cup {r} ELSE lateRows
    /\ lateTokens' = IF req[r].at = "tokens" THEN lateTokens \cup {req[r].token} ELSE lateTokens

\* The deadline of the gateway's call passes, or its connection or circuit breaks.
GatewayGivesUp(r) ==
    /\ req[r].at \in {"auth", "user", "stmt", "answered", "tokens"} /\ Fails
    /\ \E res \in GrpcFailures : Answered(r, GrpcStatus(res))
    /\ LeftBehind(r)
    /\ UNCHANGED <<plan, mailVars, row, password, everHeld, overtaken, stored, minted, oldTokens, everStored, overlapped, device>>

\* A client that persists sends again what was not successful.
Retry(r) ==
    /\ plan.persists /\ r \in plan.calls /\ req[r].at = "done"
    /\ req[r].answer \notin {"200", "200 expired"} /\ r \notin plan.invalid
    /\ Kind(r) = "register" => req[r].answer # "202"
    /\ req' = [req EXCEPT ![r] = Fresh]
    /\ UNCHANGED <<plan, failures, mailVars, rowVars, tokenVars, device>>

-----------------------------------------------------------------------------
(* The user service *)

\* Mutant: the row is taken over whatever it is.
RegisterRowAnyway(r) ==
    /\ row' = IF row = "none" THEN "unconfirmed" ELSE row
    /\ password' = r /\ everHeld' = everHeld \cup {r}

\* register_user.sql: a new row, or the password of one that is not confirmed.
RegisterRow(r) ==
    /\ row' = IF row = "none" THEN "unconfirmed" ELSE row
    /\ password' = IF row = "confirmed" THEN password ELSE r
    /\ everHeld' = everHeld \cup {password'}

\* confirm_user.sql
ConfirmRow(r) == row' = "confirmed" /\ UNCHANGED <<password, everHeld>>

WriteRow(r) == IF Kind(r) = "register" THEN RegisterRow(r) ELSE ConfirmRow(r)

\* Where the reply of the user service goes: to the auth service, or to the gateway.
Reply(r, code) == Goes(r, IF Kind(r) = "query" THEN "reply" ELSE "answered", code)

\* Mutant: a row that is not confirmed is taken for one that is.
LoginCodeUnconfirmed(r) ==
    IF row = "none" THEN "INCORRECT_EMAIL" ELSE IF plan.of[r] # password THEN "INCORRECT_PWD" ELSE "OK"

\* UserLogin, by the row that it reads.
LoginCode(r) ==
    CASE row = "none" -> "INCORRECT_EMAIL"
      [] row = "unconfirmed" -> "NOT_EXISTS"
      [] row = "confirmed" -> IF plan.of[r] = password THEN "OK" ELSE "INCORRECT_PWD"

\* UserQuery
QueryCode == IF row = "confirmed" THEN "OK" ELSE "NOT_EXISTS"

ReadUser(r) ==
    /\ req[r].at = "user" /\ Kind(r) \in {"login", "query"}
    /\ Reply(r, IF Kind(r) = "login" THEN LoginCode(r) ELSE QueryCode)
    /\ UNCHANGED <<plan, failures, mailVars, rowVars, tokenVars, device>>

\* The statement starts with the row that its snapshot shows.
BeginStatement(r) ==
    /\ req[r].at = "user" /\ Kind(r) \in {"register", "confirm"}
    /\ req' = [req EXCEPT ![r].at = "stmt", ![r].seen = row]
    /\ UNCHANGED <<plan, failures, mailVars, rowVars, tokenVars, device>>

\* UserRegister: the row as it is now decides on the write.  When nothing is written, the
\* second SELECT answers from the snapshot; with no row there the handler raises.
UserRegister(r) ==
    /\ req[r].at = "stmt" /\ Kind(r) = "register"
    /\ RegisterRow(r)
    /\ Reply(r, IF row # "confirmed" THEN "OK"
                ELSE CASE req[r].seen = "confirmed" -> "ALREADY_EXISTS"
                       [] req[r].seen = "unconfirmed" -> "OK"
                       [] req[r].seen = "none" -> "GRPC_FAILED")
    /\ overtaken' = IF row = "confirmed" /\ req[r].seen # "confirmed" THEN overtaken \cup {r} ELSE overtaken
    /\ UNCHANGED <<plan, failures, mailVars, lateRows, tokenVars, device>>

UserRegisterConfirm(r) ==
    /\ req[r].at = "stmt" /\ Kind(r) = "confirm"
    /\ ConfirmRow(r)
    /\ Reply(r, "OK")
    /\ UNCHANGED <<plan, failures, mailVars, lateRows, overtaken, tokenVars, device>>

\* What AsyncMyConnection.create, read and update make of the exceptions of the driver.
CreateFailures == {"DUP_ENTRY", "TIMEOUT", "IO_ERROR", "FAILED"}
ReadFailures == {"TIMEOUT", "IO_ERROR", "FAILED"}
UpdateFailures == {"TIMEOUT", "IO_ERROR", "FAILED"}

Failures(r) ==
    CASE Kind(r) = "register" -> CreateFailures [] Kind(r) = "confirm" -> UpdateFailures [] OTHER -> ReadFailures

\* A statement that is not executed, or not in time and perhaps later.  UserRegister tries
\* again when its new uid is taken.
StatementFails(r) ==
    /\ req[r].at = (IF Kind(r) \in {"register", "confirm"} THEN "stmt" ELSE "user") /\ Fails
    /\ \E f \in Failures(r) :
          /\ CASE f = "DUP_ENTRY" -> Goes(r, "user", "none")
               [] f = "TIMEOUT" -> Reply(r, "DB_TIMEOUT")
               [] OTHER -> Reply(r, "UNKNOWN")
          /\ lateRows' = IF f \in {"TIMEOUT", "IO_ERROR"} /\ Kind(r) \in {"register", "confirm"}
                         THEN lateRows \cup {r} ELSE lateRows
    /\ UNCHANGED <<plan, mailVars, row, password, everHeld, overtaken, tokenVars, device>>

\* No connection in time.  The reply of UserRegisterConfirm has the wrong type then.
NoConnection(r) ==
    /\ req[r].at = "user" /\ Fails
    /\ Reply(r, CASE Kind(r) \in {"register", "login"} -> "DB_TIMEOUT"
                  [] Kind(r) = "confirm" -> "GRPC_FAILED"
                  [] Kind(r) = "query" -> "UNKNOWN")
    /\ UNCHANGED <<plan, mailVars, rowVars, tokenVars, device>>

\* The auth service does not wait any longer, or its call breaks.
UserCallLost(r) ==
    /\ req[r].at \in {"user", "stmt"} /\ Kind(r) # "query" /\ Fails
    /\ \E f \in GrpcFailures : Reply(r, f)
    /\ lateRows' = IF Kind(r) = "login" THEN lateRows ELSE lateRows \cup {r}
    /\ UNCHANGED <<plan, mailVars, row, password, everHeld, overtaken, tokenVars, device>>

LateRow(r) ==
    /\ r \in lateRows
    /\ lateRows' = lateRows \ {r}
    /\ WriteRow(r) \/ UNCHANGED <<row, password, everHeld>>
    /\ UNCHANGED <<plan, failures, req, mailVars, overtaken, tokenVars, device>>

-----------------------------------------------------------------------------
(* The auth service *)

\* AuthLogin, AuthRegister up to their call of the user service.
AuthForward(r) ==
    /\ req[r].at = "auth" /\ Kind(r) \in {"login", "register"}
    /\ Goes(r, "user", "none")
    /\ UNCHANGED <<plan, failures, mailVars, rowVars, tokenVars, device>>

\* AuthRegisterConfirm: each worker has keys of its own, and takes no other's link.
AuthRegisterConfirm(r, w) ==
    /\ req[r].at = "auth" /\ Kind(r) = "confirm"
    /\ IF maker[plan.of[r]] # w THEN Goes(r, "reply", "FAILED")
       ELSE IF plan.of[r] \in oldLinks THEN Goes(r, "reply", "EXPIRED")
       ELSE Goes(r, "user", "none")
    /\ UNCHANGED <<plan, failures, mailVars, rowVars, tokenVars, device>>

\* DETAILED_INFO_MAP and the branches around it.
AuthCode(code) ==
    CASE code = "OK" -> "SUCCESS" [] code \in {"DB_TIMEOUT", "GRPC_TIMEOUT"} -> "TIMEOUT"
      [] code = "GRPC_FAILED" -> "UNKNOWN" [] OTHER -> code

\* generate_token in the executor: a new pair.
Generate(r) ==
    /\ minted' = minted + 1
    /\ req' = [req EXCEPT ![r].at = "tokens", ![r].token = minted + 1]
    /\ overlapped' = (overlapped \/ \E q \in Calls \ {r} :
                          req[q].at \in {"tokens", "reply"} /\ Kind(q) = "login")

\* AuthRegister after the call: it signs a link.
AuthRegister(r, w) ==
    /\ req[r].at = "answered" /\ Kind(r) = "register"
    /\ Goes(r, "reply", AuthCode(req[r].res))
    /\ maker' = IF req[r].res = "OK" THEN [maker EXCEPT ![r] = w] ELSE maker
    /\ UNCHANGED <<plan, failures, mail, inbox, oldLinks, rowVars, tokenVars, device>>

\* AuthRegisterConfirm after the call.
AuthConfirmed(r) ==
    /\ req[r].at = "answered" /\ Kind(r) = "confirm"
    /\ Goes(r, "reply", AuthCode(req[r].res))
    /\ UNCHANGED <<plan, failures, mailVars, rowVars, tokenVars, device>>

\* AuthLogin after the call: post_authenticate, or the reason why not.
AuthLogin(r) ==
    /\ req[r].at = "answered" /\ Kind(r) = "login"
    /\ \/ req[r].res = "OK" /\ Generate(r)
       \/ req[r].res # "OK" /\ Goes(r, "reply", AuthCode(req[r].res)) /\ UNCHANGED <<minted, overlapped>>
    /\ UNCHANGED <<plan, failures, mailVars, rowVars, stored, lateTokens, oldTokens, everStored, device>>

\* authenticate: the decoder raises for an expired token, so that its status is InvalidToken
\* before its "exp" is compared with LEEWAY.
Authenticate(n) == IF n \in oldTokens THEN "InvalidToken" ELSE "Success"

AuthToken(r) ==
    /\ req[r].at = "auth" /\ Kind(r) = "token"
    /\ Goes(r, "reply", IF Authenticate(req[r].token) = "Success" THEN "SUCCESS" ELSE "FAILED")
    /\ UNCHANGED <<plan, failures, mailVars, rowVars, tokenVars, device>>

\* Mutant: a token that is there is kept.
StoreTokenOnce(r) ==
    /\ req[r].at = "tokens"
    /\ stored' = IF stored = 0 THEN req[r].token ELSE stored
    /\ everStored' = everStored \cup {req[r].token}
    /\ Goes(r, "reply", "SUCCESS")
    /\ UNCHANGED <<plan, failures, lateTokens, mailVars, rowVars, minted, oldTokens, overlapped, device>>

\* store_refresh_token, the last step of post_authenticate: AUTH_TIMEOUT when it fails.
StoreToken(r) ==
    /\ req[r].at = "tokens"
    /\ \/ stored' = req[r].token /\ everStored' = everStored \cup {req[r].token}
          /\ Goes(r, "reply", "SUCCESS") /\ UNCHANGED <<failures, lateTokens>>
       \/ Fails /\ lateTokens' = lateTokens \cup {req[r].token}
          /\ Goes(r, "reply", "TIMEOUT") /\ UNCHANGED <<stored, everStored>>
    /\ UNCHANGED <<plan, mailVars, rowVars, minted, oldTokens, overlapped, device>>

\* A write that was reported as failed is executed after all, is undone, or never was.
LateToken(n) ==
    /\ n \in lateTokens
    /\ lateTokens' = lateTokens \ {n}
    /\ stored' \in {n, 0, stored}
    /\ UNCHANGED <<plan, failures, req, mailVars, rowVars, minted, oldTokens, everStored, overlapped, device>>

-----------------------------------------------------------------------------
(* The mail, and the passing of time *)

\* Mutant: an exception of kick() ends the task as if it had published.
PublishEmailOnce(r) ==
    /\ mail[r].task = "publishing"
    /\ \/ mail' = [mail EXCEPT ![r].task = "done", ![r].queued = @ + 1] /\ UNCHANGED failures
       \/ Fails /\ mail' = [mail EXCEPT ![r].task = "done"]
    /\ UNCHANGED <<plan, req, maker, inbox, oldLinks, rowVars, tokenVars, device>>

\* publish_email under asyncretry; the broker may have the message of a try that failed.
PublishEmail(r) ==
    /\ mail[r].task = "publishing"
    /\ \/ mail' = [mail EXCEPT ![r].task = "done", ![r].queued = @ + 1] /\ UNCHANGED failures
       \/ /\ Fails
          /\ \E n \in {0, 1} :
                mail' = [mail EXCEPT ![r] = [task |-> IF @.try < MailTries THEN "publishing" ELSE "lost",
                                             try |-> IF @.try < MailTries THEN @.try + 1 ELSE @.try,
                                             queued |-> @.queued + n]]
    /\ UNCHANGED <<plan, req, maker, inbox, oldLinks, rowVars, tokenVars, device>>

\* email_handler: sent and acknowledged; rejected for good after an error of the mail
\* server; back in the queue when the worker is stopped or its channel is lost.
EmailHandler(r) ==
    /\ mail[r].queued > 0
    /\ \/ /\ mail' = [mail EXCEPT ![r].queued = @ - 1] /\ inbox' = inbox \cup {r} /\ UNCHANGED failures
       \/ /\ Fails /\ mail' = [mail EXCEPT ![r].queued = @ - 1, ![r].task = "lost"] /\ UNCHANGED inbox
       \/ /\ Fails /\ inbox' \in {inbox, inbox \cup {r}} /\ UNCHANGED mail
    /\ UNCHANGED <<plan, req, maker, oldLinks, rowVars, tokenVars, device>>

LinkExpires(r) ==
    /\ plan.expires /\ maker[r] # NoOne /\ r \notin oldLinks
    /\ oldLinks' = oldLinks \cup {r}
    /\ UNCHANGED <<plan, failures, req, maker, mail, inbox, rowVars, tokenVars, device>>

TokenExpires(n) ==
    /\ plan.expires /\ n \in everStored \ oldTokens
    /\ oldTokens' = oldTokens \cup {n}
    /\ UNCHANGED <<plan, failures, req, mailVars, rowVars, stored, minted, lateTokens, everStored, overlapped, device>>

-----------------------------------------------------------------------------
ServiceStep(r) ==
    \/ ReadUser(r) \/ BeginStatement(r) \/ UserRegister(r) \/ UserRegisterConfirm(r)
    \/ StatementFails(r) \/ NoConnection(r) \/ UserCallLost(r)
    \/ AuthForward(r) \/ AuthConfirmed(r) \/ AuthLogin(r) \/ AuthToken(r) \/ StoreToken(r)
    \/ \E w \in plan.workers : AuthRegisterConfirm(r, w) \/ AuthRegister(r, w)

Next ==
    \/ \E r \in Calls : \/ Send(r) \/ Return(r) \/ GatewayGivesUp(r) \/ Retry(r) \/ ServiceStep(r)
                           \/ LateRow(r) \/ PublishEmail(r) \/ EmailHandler(r) \/ LinkExpires(r)
    \/ \E n \in lateTokens : LateToken(n)
    \/ \E n \in everStored : TokenExpires(n)

\* Services answer, tasks run, mail is delivered, and a client that persists does.
Fairness ==
    \A r \in Calls :
        /\ WF_vars(Send(r)) /\ WF_vars(Return(r)) /\ WF_vars(Retry(r))
        /\ WF_vars(ServiceStep(r))
        /\ WF_vars(PublishEmail(r)) /\ WF_vars(EmailHandler(r))

Spec == Init /\ [][Next]_vars /\ Fairness

-----------------------------------------------------------------------------
TypeOK ==
    /\ failures \in Nat
    /\ \A r \in Calls : /\ req[r].at \in {"new", "auth", "user", "stmt", "answered", "tokens", "reply", "done"}
                           /\ req[r].at = "done" <=> req[r].answer # "none"
                           /\ req[r].token \in 0..minted
    /\ row \in {"none", "unconfirmed", "confirmed"} /\ password \in Calls \cup {NoOne}
    /\ inbox \cup oldLinks \cup lateRows \cup overtaken \subseteq Calls
    /\ stored \in 0..minted /\ lateTokens \cup oldTokens \cup everStored \subseteq 1..minted
    /\ device \in [Devices -> 0..minted]

\* A confirmed account stays as it was confirmed: no registration, however late its statement
\* is executed, changes the password of its row.
ConfirmedIsFrozen == [][row = "confirmed" => row' = "confirmed" /\ password' = password]_vars

\* What the gateway answers with 200 is so, whichever calls were given up and executed late:
\* the account of a confirmed link is confirmed, a login or a query found it so, and a
\* registration has written its password; except that the account may have been confirmed
\* with another password while its statement ran.
SuccessIsSo ==
    \A r \in Calls : req[r].answer = "200" =>
        /\ Kind(r) \in {"confirm", "login", "query"} => row = "confirmed"
        /\ Kind(r) = "login" => plan.of[r] = password
        /\ Kind(r) = "register" => r \in everHeld \cup overtaken

\* The tokens that a device holds were stored before it got them: no login is answered with
\* tokens whose store was not confirmed.
HeldIsStored == \A d \in Devices : device[d] # 0 => device[d] \in everStored

\* ... and when an account is used from one device, the token it holds is the one that Redis
\* has whenever none of its requests is under way; unless two logins made tokens at the same
\* time, or the store of a token was given up: then it may still be executed, or be undone by
\* deleting the key, after a later login.
HeldIsCurrent ==
    /\ HeldIsStored
    /\ (/\ \A r, q \in plan.calls : plan.device[r] = plan.device[q]
        /\ 1..minted \subseteq everStored /\ ~overlapped
        /\ \A r \in Calls : req[r].at \in {"new", "done"})
       => \A r \in plan.calls : device[plan.device[r]] = stored

\* Every request is answered: no service keeps the client waiting for ever.
EveryRequestAnswered == \A r \in Calls : req[r].at # "new" ~> req[r].at = "done"

MailGone(r) == mail[r].task = "lost" /\ mail[r].queued = 0 /\ r \notin inbox

\* A client that persists comes to its tokens: registered, mailed, confirmed and logged in;
\* unless the mail is given up after its tries, or refused by the mail server.  And every
\* request is answered.
ClientArrives ==
    /\ EveryRequestAnswered
    /\ \A r \in Calls :
        plan.persists /\ r \in plan.calls /\ Kind(r) = "login" ~> req[r].answer = "200" \/ MailGone(plan.of[r])
=============================================================================
