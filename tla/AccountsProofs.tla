--------------------------- MODULE AccountsProofs ---------------------------
(***************************************************************************)
(* What the gateway answers about an account is so, and the tokens that a  *)
(* device holds are stored, for every set of requests, devices and auth    *)
(* workers, whichever calls fail, are given up and executed late.          *)
(***************************************************************************)
EXTENDS Accounts, TLAPS

Ats == {"new", "auth", "user", "stmt", "answered", "tokens", "reply", "done"}
Codes == {"none", "OK", "SUCCESS", "TIMEOUT", "DB_TIMEOUT", "GRPC_TIMEOUT", "GRPC_FAILED", "FAILED", "EXPIRED",
          "UNKNOWN", "ALREADY_EXISTS", "NOT_EXISTS", "INCORRECT_EMAIL", "INCORRECT_PWD"}
Answers == {"none", "none sent", "200", "200 expired", "202", "400", "401", "404", "500", "502", "503", "504"}
Rows == {"none", "unconfirmed", "confirmed"}
ReqType == [at : Ats, res : Codes, answer : Answers, seen : Rows, token : Nat]

\* The part of TypeOK that the argument needs.
Typed ==
    /\ plan \in Setups
    /\ req \in [Calls -> ReqType]
    /\ row \in Rows /\ minted \in Nat /\ overlapped \in BOOLEAN
    /\ device \in [Devices -> Nat]

MakesTokens(r) == Kind(r) = "login"

\* What a success says about the account.
So(r) ==
    /\ Kind(r) \in {"confirm", "login", "query"} => row = "confirmed"
    /\ Kind(r) = "login" => plan.of[r] = password
    /\ Kind(r) = "register" => r \in everHeld \cup overtaken

\* The code that the gateway makes "200" of.
Good(r) == IF Kind(r) = "query" THEN "OK" ELSE "SUCCESS"

\* Whatever is on its way to become a success is so by then.
Sound(r) ==
    /\ req[r].at # "done" => r \in plan.calls
    /\ req[r].answer = "200" => So(r)
    /\ req[r].at \in {"user", "stmt"} => Kind(r) \in {"login", "register", "confirm", "query"}
    /\ req[r].at = "answered" => req[r].res # "SUCCESS" /\ (req[r].res = "OK" => So(r))
    /\ req[r].at = "tokens" => MakesTokens(r) /\ So(r)
    /\ req[r].at = "reply" /\ req[r].res = Good(r) => So(r) /\ (MakesTokens(r) => req[r].token \in everStored)

\* The request has tokens, and those that were stored.
Renews(r) == MakesTokens(r) /\ req[r].at = "reply" /\ req[r].res = "SUCCESS"
Making(r) == (MakesTokens(r) /\ req[r].at = "tokens") \/ Renews(r)

\* The request has generated tokens and waits for their store.
Stores(r) == req[r].at = "tokens"

\* A token is generated once, and then in the hands of one request, or confirmed as stored,
\* or given up.
Counted ==
    /\ lateTokens \subseteq 1..minted /\ everStored \subseteq 1..minted /\ lateTokens \cap everStored = {}
    /\ \A r \in Calls : Stores(r) => req[r].token \in (1..minted) \ (lateTokens \cup everStored)
    /\ \A r, q \in Calls : Stores(r) /\ Stores(q) /\ req[r].token = req[q].token => r = q

\* No token was given up, and no two logins made tokens at a time.
Settled == \A n \in 1..minted : n \in everStored \/ \E r \in Calls : Stores(r) /\ req[r].token = n
Calm == Settled /\ ~overlapped

\* Then Redis has the tokens that the device has or is about to get.
Current ==
    Calm =>
        /\ \A r, q \in Calls : Making(r) /\ Making(q) => r = q
        /\ \A r \in Calls : Renews(r) => stored = req[r].token
        /\ (/\ \A r \in Calls : ~Renews(r)
            /\ \A r, q \in plan.calls : plan.device[r] = plan.device[q])
           => \A r \in plan.calls : device[plan.device[r]] = stored

AInv == Typed /\ (\A r \in Calls : Sound(r)) /\ HeldIsStored /\ Counted /\ Current

-----------------------------------------------------------------------------
(* The account *)

\* The row of a confirmed account stays, and what was once so stays so.
RowKeeps ==
    /\ row = "confirmed" => row' = "confirmed" /\ password' = password
    /\ row' \in Rows /\ everHeld \subseteq everHeld' /\ overtaken \subseteq overtaken'

\* Every step leaves a confirmed row as it is.
LEMMA NextKeepsRow ==
    ASSUME Next, row \in Rows
    PROVE  RowKeeps
<1>1. ASSUME NEW r \in Calls, RegisterRow(r) \/ ConfirmRow(r) \/ UNCHANGED <<row, password, everHeld>>
      PROVE  /\ row = "confirmed" => row' = "confirmed" /\ password' = password
             /\ row' \in Rows /\ everHeld \subseteq everHeld'
  BY <1>1 DEF RegisterRow, ConfirmRow, Rows
<1>2. UNCHANGED <<row, password, everHeld, overtaken>> => RowKeeps
  BY DEF RowKeeps
<1>3. ASSUME NEW r \in Calls, UserRegister(r) \/ UserRegisterConfirm(r) \/ LateRow(r) PROVE RowKeeps
  <2>1. RegisterRow(r) \/ ConfirmRow(r) \/ UNCHANGED <<row, password, everHeld>>
    BY <1>3 DEF UserRegister, UserRegisterConfirm, LateRow, WriteRow
  <2>2. overtaken \subseteq overtaken'
    BY <1>3 DEF UserRegister, UserRegisterConfirm, LateRow
  <2>3. QED
    BY <1>1, <2>1, <2>2 DEF RowKeeps
<1>4. ASSUME NEW r \in Calls, ServiceStep(r), ~(UserRegister(r) \/ UserRegisterConfirm(r))
      PROVE  UNCHANGED <<row, password, everHeld, overtaken>>
  BY <1>4 DEF ServiceStep, ReadUser, BeginStatement, StatementFails, NoConnection, UserCallLost, AuthForward, AuthConfirmed,
       AuthLogin, AuthToken, StoreToken, AuthRegisterConfirm, AuthRegister, rowVars
<1>5. ASSUME NEW r \in Calls,
             Send(r) \/ Return(r) \/ GatewayGivesUp(r) \/ Retry(r) \/ PublishEmail(r) \/ EmailHandler(r) \/ LinkExpires(r)
      PROVE  UNCHANGED <<row, password, everHeld, overtaken>>
  BY <1>5, Zenon DEF Send, Return, GatewayGivesUp, Retry, PublishEmail, EmailHandler, LinkExpires, rowVars
<1>6. ASSUME NEW n, LateToken(n) \/ TokenExpires(n) PROVE UNCHANGED <<row, password, everHeld, overtaken>>
  BY <1>6 DEF LateToken, TokenExpires, rowVars
<1>7. QED
  BY <1>2, <1>3, <1>4, <1>5, <1>6 DEF Next

\* What is so stays so.
LEMMA SoStays ==
    ASSUME RowKeeps, plan' = plan, NEW r, So(r)
    PROVE  So(r)'
BY DEF RowKeeps, So, Kind

\* The status of a reply.
LEMMA GoodStatus ==
    ASSUME NEW r \in Calls, Kind(r) \in Kinds
    PROVE  Status(r) = "200" <=> req[r].res = Good(r)
<1>1. CASE req[r].res \in GrpcFailures
  <2>1. Status(r) = GrpcStatus(req[r].res)
    BY <1>1, Zenon DEF Status
  <2>2. Status(r) # "200" /\ req[r].res # Good(r)
    BY <1>1, <2>1, Zenon DEF GrpcStatus, GrpcFailures, Good
  <2>3. QED
    BY <2>2
<1>2. CASE req[r].res \notin GrpcFailures
  <2>1. CASE Kind(r) = "login"
    BY <1>2, <2>1, Zenon DEF Status, LoginStatus, Good
  <2>2. CASE Kind(r) = "register"
    BY <1>2, <2>2, Zenon DEF Status, RegisterStatus, Good
  <2>3. CASE Kind(r) = "confirm"
    BY <1>2, <2>3, Zenon DEF Status, ConfirmStatus, Good
  <2>4. CASE Kind(r) = "query"
    BY <1>2, <2>4, Zenon DEF Status, QueryStatus, Good
  <2>5. CASE Kind(r) = "token"
    BY <1>2, <2>5, Zenon DEF Status, TokenStatus, Good
  <2>6. QED
    BY <2>1, <2>2, <2>3, <2>4, <2>5 DEF Kinds
<1>3. QED
  BY <1>1, <1>2

\* The request of a step, and the others.
Turns(r) ==
    /\ req' \in [Calls -> ReqType]
    /\ \A q \in Calls : q # r => req'[q] = req[q]

\* A step of request r keeps what is so of all of them.
LEMMA SoundTurns ==
    ASSUME AInv, plan' = plan, RowKeeps, everStored \subseteq everStored',
           NEW r \in Calls, Turns(r), Sound(r)'
    PROVE  \A q \in Calls : Sound(q)'
<1>1. SUFFICES ASSUME NEW q \in Calls, q # r PROVE Sound(q)'
  OBVIOUS
<1>2. req'[q] = req[q] /\ Sound(q)
  BY <1>1 DEF Turns, AInv
<1>3. So(q) => So(q)'
  BY SoStays
<1>4. QED
  BY <1>2, <1>3 DEF Sound, Good, MakesTokens, Kind

\* A step that no request takes.
LEMMA SoundRests ==
    ASSUME AInv, plan' = plan, RowKeeps, everStored \subseteq everStored', req' = req
    PROVE  \A q \in Calls : Sound(q)'
<1>1. SUFFICES ASSUME NEW q \in Calls PROVE Sound(q)'
  OBVIOUS
<1>2. Sound(q)
  BY DEF AInv
<1>3. So(q) => So(q)'
  BY SoStays
<1>4. QED
  BY <1>2, <1>3 DEF Sound, Good, MakesTokens, Kind

\* What Goes and Answered do to a request.
LEMMA GoesTurns ==
    ASSUME AInv, NEW r \in Calls, NEW at \in Ats, NEW res \in Codes, Goes(r, at, res)
    PROVE  /\ Turns(r) /\ req'[r].at = at /\ req'[r].res = res
           /\ req'[r].answer = req[r].answer /\ req'[r].token = req[r].token
BY Zenon DEF AInv, Typed, ReqType, Goes, Turns

\* What an answer does to a request.
LEMMA AnsweredTurns ==
    ASSUME AInv, NEW r \in Calls, NEW a \in Answers, Answered(r, a)
    PROVE  Turns(r) /\ req'[r].at = "done" /\ req'[r].answer = a
BY Zenon DEF AInv, Typed, ReqType, Answered, Turns, Ats

\* A request that is answered other than with "200", or that is not.
LEMMA AnsweredSound ==
    ASSUME AInv, plan' = plan, RowKeeps, everStored \subseteq everStored',
           NEW r \in Calls, NEW a \in Answers, Answered(r, a), a = "200" => So(r)
    PROVE  Turns(r) /\ \A q \in Calls : Sound(q)'
<1>1. Turns(r) /\ req'[r].at = "done" /\ req'[r].answer = a
  BY AnsweredTurns
<1>2. So(r) => So(r)'
  BY SoStays
<1>3. Sound(r)'
  BY <1>1, <1>2 DEF Sound
<1>4. QED
  BY <1>1, <1>3, SoundTurns

\* A request goes on with a code that makes no success, or one that is so.
LEMMA GoesSound ==
    ASSUME AInv, plan' = plan, RowKeeps, everStored \subseteq everStored',
           NEW r \in Calls, NEW at \in Ats, NEW res \in Codes, Goes(r, at, res),
           req[r].at # "done", at # "tokens",
           at \in {"user", "stmt"} => Kind(r) \in {"login", "register", "confirm", "query"},
           at = "answered" => res # "SUCCESS" /\ (res = "OK" => So(r)'),
           at = "reply" /\ res = Good(r) => So(r)' /\ (MakesTokens(r) => req[r].token \in everStored')
    PROVE  Turns(r) /\ \A q \in Calls : Sound(q)'
<1>1. /\ Turns(r) /\ req'[r].at = at /\ req'[r].res = res
      /\ req'[r].answer = req[r].answer /\ req'[r].token = req[r].token
  BY GoesTurns
<1>2. Sound(r) /\ (So(r) => So(r)')
  BY SoStays DEF AInv
<1>3. Good(r)' = Good(r) /\ MakesTokens(r)' = MakesTokens(r) /\ Kind(r)' = Kind(r)
  BY DEF Good, MakesTokens, Kind
<1>4. Sound(r)'
  BY <1>1, <1>2, <1>3 DEF Sound
<1>5. QED
  BY <1>1, <1>4, SoundTurns

-----------------------------------------------------------------------------
(* The tokens *)

\* Steps that leave the tokens alone.
LEMMA CurrentStays ==
    ASSUME AInv, plan' = plan,
           Calm' => Calm /\ UNCHANGED <<stored, device>>,
           \A q \in Calls : req'[q] = req[q] \/ (~Making(q) /\ ~Making(q)')
    PROVE  Current'
<1>1. SUFFICES ASSUME Calm' PROVE Current'
  BY DEF Current
<1>2. Calm /\ UNCHANGED <<stored, device>>
  BY <1>1
<1>3. ASSUME NEW q \in Calls
      PROVE  /\ Making(q)' = Making(q) /\ Renews(q)' = Renews(q)
             /\ Renews(q) => req'[q] = req[q]
  <2>1. CASE req'[q] = req[q]
    BY <2>1 DEF Making, Renews, MakesTokens, Kind
  <2>2. CASE ~Making(q) /\ ~Making(q)'
    BY <2>2 DEF Making, Renews
  <2>3. QED
    BY <2>1, <2>2
<1>4. (\A r, q \in Calls : Making(r) /\ Making(q) => r = q)'
  BY <1>2, <1>3 DEF AInv, Current
<1>5. (\A r \in Calls : Renews(r) => stored = req[r].token)'
  BY <1>2, <1>3 DEF AInv, Current
<1>6. ASSUME \A r \in Calls : ~Renews(r)', \A r, q \in plan.calls : plan.device[r] = plan.device[q]
      PROVE  \A r \in plan.calls : device'[plan.device[r]] = stored'
  BY <1>2, <1>3, <1>6 DEF AInv, Current
<1>7. QED
  BY <1>4, <1>5, <1>6 DEF Current

\* Nobody begins or ends to store a token.
LEMMA CountStays ==
    ASSUME AInv, UNCHANGED <<minted, everStored, lateTokens, overlapped>>,
           \A q \in Calls : Stores(q) \/ Stores(q)' => req'[q] = req[q]
    PROVE  Counted' /\ (Calm' => Calm)
<1>1. \A q \in Calls : (Stores(q)' <=> Stores(q)) /\ (Stores(q) => req'[q].token = req[q].token)
  BY DEF Stores
<1>2. Counted'
  BY <1>1 DEF AInv, Counted
<1>3. Calm' => Calm
  BY <1>1 DEF Calm, Settled
<1>4. QED
  BY <1>2, <1>3

\* The rest of the invariant for a step that stores no tokens and hands none out.
LEMMA QuietKeeps ==
    ASSUME AInv, plan' = plan, RowKeeps,
           UNCHANGED <<minted, overlapped, device, everStored, stored, lateTokens>>,
           req' \in [Calls -> ReqType], \A q \in Calls : Sound(q)',
           \A q \in Calls : req'[q] = req[q] \/ (~Making(q) /\ ~Making(q)')
    PROVE  AInv'
<1>1. \A q \in Calls : Stores(q) \/ Stores(q)' => req'[q] = req[q]
  BY DEF AInv, Sound, Stores, Making
<1>2. Counted' /\ Current'
  BY <1>1, CountStays, CurrentStays
<1>3. Typed'
  BY DEF AInv, Typed, RowKeeps
<1>4. HeldIsStored'
  BY DEF AInv, HeldIsStored
<1>5. QED
  BY <1>2, <1>3, <1>4 DEF AInv

\* The store of a token is given up: from now on something is unsettled.
LEMMA LostKeeps ==
    ASSUME AInv, plan' = plan, RowKeeps, NEW r \in Calls, Turns(r), Stores(r), ~Stores(r)',
           lateTokens' = lateTokens \cup {req[r].token},
           UNCHANGED <<minted, overlapped, device, everStored, stored>>,
           \A q \in Calls : Sound(q)'
    PROVE  AInv'
<1>1. \A q \in Calls : Stores(q)' => q # r /\ Stores(q) /\ req'[q] = req[q]
  BY DEF Turns, Stores
<1>2. Counted
  BY DEF AInv
<1>3. Counted'
  BY <1>1, <1>2 DEF Counted
<1>4. ~Calm'
  BY <1>1, <1>2 DEF Counted, Calm, Settled
<1>5. Typed'
  BY DEF AInv, Typed, RowKeeps, Turns
<1>6. HeldIsStored'
  BY DEF AInv, HeldIsStored
<1>7. QED
  BY <1>3, <1>4, <1>5, <1>6 DEF AInv, Current

\* A request that is not about to make tokens turns into one that is not either.
LEMMA TurnsQuietly ==
    ASSUME AInv, plan' = plan, NEW r \in Calls, Turns(r),
           req[r].at \notin {"tokens", "reply"}, req'[r].at # "tokens",
           req'[r].at = "reply" /\ MakesTokens(r) => req'[r].res # "SUCCESS"
    PROVE  \A q \in Calls : req'[q] = req[q] \/ (~Making(q) /\ ~Making(q)')
BY DEF Turns, Making, Renews, MakesTokens, Kind

\* Both for a request that goes on.
LEMMA GoesKeeps ==
    ASSUME AInv, plan' = plan, RowKeeps,
           UNCHANGED <<minted, overlapped, device, everStored, stored, lateTokens>>,
           NEW r \in Calls, NEW at \in Ats, NEW res \in Codes, Goes(r, at, res),
           req[r].at \notin {"done", "tokens", "reply"}, at # "tokens",
           at \in {"user", "stmt"} => Kind(r) \in {"login", "register", "confirm", "query"},
           at = "answered" => res # "SUCCESS" /\ (res = "OK" => So(r)'),
           at = "reply" /\ res = Good(r) => So(r)' /\ ~MakesTokens(r)
    PROVE  AInv'
<1>1. Turns(r) /\ \A q \in Calls : Sound(q)'
  BY GoesSound
<1>2. req'[r].at = at /\ req'[r].res = res
  BY GoesTurns
<1>3. MakesTokens(r) => Good(r) = "SUCCESS"
  BY DEF MakesTokens, Good
<1>4. \A q \in Calls : req'[q] = req[q] \/ (~Making(q) /\ ~Making(q)')
  BY <1>1, <1>2, <1>3, TurnsQuietly
<1>5. req' \in [Calls -> ReqType]
  BY <1>1 DEF Turns
<1>6. QED
  BY <1>1, <1>4, <1>5, QuietKeeps

\* ... and for the replies of the user service.
LEMMA ReplyKeeps ==
    ASSUME AInv, plan' = plan, RowKeeps,
           UNCHANGED <<minted, overlapped, device, everStored, stored, lateTokens>>,
           NEW r \in Calls, NEW res \in Codes \ {"SUCCESS"}, Reply(r, res),
           req[r].at \in {"user", "stmt"}, res = "OK" => So(r)'
    PROVE  AInv'
<1>1. Goes(r, IF Kind(r) = "query" THEN "reply" ELSE "answered", res)
  BY DEF Reply
<1>2. CASE Kind(r) = "query"
  <2>1. "reply" \in Ats /\ Goes(r, "reply", res) /\ ~MakesTokens(r) /\ Good(r) = "OK"
    BY <1>1, <1>2 DEF Ats, MakesTokens, Good
  <2>2. QED
    BY <2>1, GoesKeeps
<1>3. CASE Kind(r) # "query"
  <2>1. "answered" \in Ats /\ Goes(r, "answered", res)
    BY <1>1, <1>3 DEF Ats
  <2>2. QED
    BY <2>1, GoesKeeps
<1>4. QED
  BY <1>2, <1>3

-----------------------------------------------------------------------------
(* The steps of a request *)

\* The routes up to their first call.
LEMMA SendKeeps ==
    ASSUME AInv, RowKeeps, NEW r \in Calls, Send(r)
    PROVE  AInv'
<1>1. /\ plan' = plan /\ req[r].at = "new"
      /\ UNCHANGED <<minted, overlapped, device, everStored, stored, lateTokens>>
  BY DEF Send, tokenVars
<1>2. CASE \E a \in {"400", "500"} : Answered(r, a)
  <2>1. PICK a \in {"400", "500"} : Answered(r, a)
    BY <1>2
  <2>2. a \in Answers /\ a # "200"
    BY Zenon DEF Answers
  <2>3. Turns(r) /\ \A q \in Calls : Sound(q)'
    BY <1>1, <2>1, <2>2, AnsweredSound
  <2>4. req'[r].at = "done"
    BY <2>1, <2>2, AnsweredTurns
  <2>5. \A q \in Calls : req'[q] = req[q] \/ (~Making(q) /\ ~Making(q)')
    BY <1>1, <2>3, <2>4, TurnsQuietly
  <2>6. QED
    BY <1>1, <2>3, <2>5, QuietKeeps DEF Turns
<1>3. CASE req' = [req EXCEPT ![r].at = IF Kind(r) = "query" THEN "user" ELSE "auth",
                              ![r].token = IF Kind(r) = "token" THEN device[plan.device[r]] ELSE 0]
  <2> DEFINE at == IF Kind(r) = "query" THEN "user" ELSE "auth"
             n == IF Kind(r) = "token" THEN device[plan.device[r]] ELSE 0
  <2>1. n \in Nat /\ at \in {"user", "auth"}
    BY AccountsAssumption DEF AInv, Typed
  <2>2. req' = [req EXCEPT ![r].at = at, ![r].token = n]
    BY <1>3
  <2>3. at = "user" => Kind(r) = "query"
    OBVIOUS
  <2> HIDE DEF at, n
  <2>4. Turns(r) /\ req'[r].at = at /\ req'[r].answer = req[r].answer
    BY <2>1, <2>2, Zenon DEF Turns, AInv, Typed, ReqType, Ats
  <2>5. Sound(r) /\ (So(r) => So(r)') /\ Kind(r)' = Kind(r)
    BY <1>1, SoStays DEF AInv, Kind
  <2>6. Sound(r)'
    BY <1>1, <2>1, <2>3, <2>4, <2>5 DEF Sound
  <2>7. \A q \in Calls : Sound(q)'
    BY <1>1, <2>4, <2>6, SoundTurns
  <2>8. \A q \in Calls : req'[q] = req[q] \/ (~Making(q) /\ ~Making(q)')
    BY <1>1, <2>1, <2>4, TurnsQuietly
  <2>9. QED
    BY <1>1, <2>4, <2>7, <2>8, QuietKeeps DEF Turns
<1>4. QED
  BY <1>2, <1>3 DEF Send

\* The gateway gives up, or a client sends again.
LEMMA GivesUpKeeps ==
    ASSUME AInv, RowKeeps, NEW r \in Calls, GatewayGivesUp(r) \/ Retry(r)
    PROVE  AInv'
<1>1. CASE GatewayGivesUp(r)
  <2>1. /\ plan' = plan /\ UNCHANGED <<minted, overlapped, device, everStored, stored>>
        /\ req[r].at \in {"auth", "user", "stmt", "answered", "tokens"}
        /\ lateTokens' = IF req[r].at = "tokens" THEN lateTokens \cup {req[r].token} ELSE lateTokens
    BY <1>1 DEF GatewayGivesUp, LeftBehind
  <2>2. PICK a \in {"504", "400"} : Answered(r, a)
    BY <1>1 DEF GatewayGivesUp, GrpcStatus
  <2>3. a \in Answers /\ a # "200"
    BY Zenon DEF Answers
  <2>4. Turns(r) /\ \A q \in Calls : Sound(q)'
    BY <2>1, <2>2, <2>3, AnsweredSound
  <2>5. req'[r].at = "done"
    BY <2>2, <2>3, AnsweredTurns
  <2>6. CASE req[r].at = "tokens"
    BY <2>1, <2>4, <2>5, <2>6, LostKeeps DEF Stores
  <2>7. CASE req[r].at # "tokens"
    <3>1. \A q \in Calls : req'[q] = req[q] \/ (~Making(q) /\ ~Making(q)')
      BY <2>1, <2>4, <2>5, <2>7, TurnsQuietly
    <3>2. QED
      BY <2>1, <2>4, <2>7, <3>1, QuietKeeps DEF Turns
  <2>8. QED
    BY <2>6, <2>7
<1>2. CASE Retry(r)
  <2>1. /\ plan' = plan /\ req[r].at = "done" /\ r \in plan.calls
        /\ UNCHANGED <<minted, overlapped, device, everStored, stored, lateTokens>> /\ req' = [req EXCEPT ![r] = Fresh]
    BY <1>2, Zenon DEF Retry, tokenVars
  <2>2. Fresh \in ReqType /\ Fresh.at = "new" /\ Fresh.answer = "none"
    BY DEF Fresh, ReqType, Ats, Codes, Answers, Rows
  <2>3. Turns(r) /\ req'[r] = Fresh
    BY <2>1, <2>2 DEF Turns, AInv, Typed
  <2>4. Sound(r)'
    BY <2>1, <2>2, <2>3 DEF Sound
  <2>5. \A q \in Calls : Sound(q)'
    BY <2>1, <2>3, <2>4, SoundTurns
  <2>6. \A q \in Calls : req'[q] = req[q] \/ (~Making(q) /\ ~Making(q)')
    BY <2>1, <2>2, <2>3, TurnsQuietly
  <2>7. QED
    BY <2>1, <2>3, <2>5, <2>6, QuietKeeps DEF Turns
<1>3. QED
  BY <1>1, <1>2

\* The user service reads the row.
LEMMA ReadUserKeeps ==
    ASSUME AInv, RowKeeps, NEW r \in Calls, ReadUser(r)
    PROVE  AInv'
<1> DEFINE code == IF Kind(r) = "login" THEN LoginCode(r) ELSE QueryCode
<1>1. /\ plan' = plan /\ req[r].at = "user" /\ Kind(r) \in {"login", "query"} /\ Reply(r, code)
      /\ UNCHANGED <<minted, overlapped, device, everStored, stored, lateTokens>>
  BY DEF ReadUser, tokenVars
<1>2. LoginCode(r) \in {"INCORRECT_EMAIL", "NOT_EXISTS", "OK", "INCORRECT_PWD"}
  BY DEF AInv, Typed, Rows, LoginCode
<1>3. LoginCode(r) = "OK" => row = "confirmed" /\ plan.of[r] = password
  BY DEF AInv, Typed, Rows, LoginCode
<1>4. code \in Codes \ {"SUCCESS"}
  BY <1>2 DEF QueryCode, Codes
<1>5. code = "OK" => So(r)
  BY <1>1, <1>3 DEF QueryCode, So
<1> HIDE DEF code
<1>6. So(r) => So(r)'
  BY <1>1, SoStays
<1>7. QED
  BY <1>1, <1>4, <1>5, <1>6, ReplyKeeps

\* The statement starts.
LEMMA BeginKeeps ==
    ASSUME AInv, RowKeeps, NEW r \in Calls, BeginStatement(r)
    PROVE  AInv'
<1>1. /\ plan' = plan /\ req[r].at = "user"
      /\ UNCHANGED <<minted, overlapped, device, everStored, stored, lateTokens>>
      /\ req' = [req EXCEPT ![r].at = "stmt", ![r].seen = row]
  BY DEF BeginStatement, tokenVars
<1>2. Turns(r) /\ req'[r].at = "stmt" /\ req'[r].answer = req[r].answer
  BY <1>1, ZenonT(30) DEF Turns, AInv, Typed, ReqType, Ats
<1>3. Sound(r) /\ (So(r) => So(r)') /\ Kind(r)' = Kind(r)
  BY <1>1, SoStays DEF AInv, Kind
<1>4. Sound(r)'
  BY <1>1, <1>2, <1>3 DEF Sound
<1>5. \A q \in Calls : Sound(q)'
  BY <1>1, <1>2, <1>4, SoundTurns
<1>6. \A q \in Calls : req'[q] = req[q] \/ (~Making(q) /\ ~Making(q)')
  BY <1>1, <1>2, TurnsQuietly, Zenon
<1>7. QED
  BY <1>1, <1>2, <1>5, <1>6, QuietKeeps DEF Turns

\* A registration has written its password, or the account was confirmed under its statement.
LEMMA UserRegisterKeeps ==
    ASSUME AInv, RowKeeps, NEW r \in Calls, UserRegister(r)
    PROVE  AInv'
<1> DEFINE code == IF row # "confirmed" THEN "OK"
                   ELSE CASE req[r].seen = "confirmed" -> "ALREADY_EXISTS"
                          [] req[r].seen = "unconfirmed" -> "OK"
                          [] req[r].seen = "none" -> "GRPC_FAILED"
<1>1. /\ plan' = plan /\ req[r].at = "stmt" /\ Kind(r) = "register" /\ Reply(r, code)
      /\ UNCHANGED <<minted, overlapped, device, everStored, stored, lateTokens>>
  BY Zenon DEF UserRegister, tokenVars
<1>2. req[r].seen \in Rows
  BY DEF AInv, Typed, ReqType
<1>3. code \in {"OK", "ALREADY_EXISTS", "GRPC_FAILED"} /\ (code = "OK" /\ row = "confirmed" => req[r].seen = "unconfirmed")
  BY <1>2 DEF Rows
<1>4. code = "OK" => r \in everHeld' \cup overtaken'
  <2>1. CASE row # "confirmed"
    BY <2>1 DEF UserRegister, RegisterRow
  <2>2. CASE row = "confirmed"
    BY <1>3, <2>2 DEF UserRegister
  <2>3. QED
    BY <2>1, <2>2, Zenon
<1>5. code \in Codes \ {"SUCCESS"}
  BY <1>3, Zenon DEF Codes
<1> HIDE DEF code
<1>6. code = "OK" => So(r)'
  BY <1>1, <1>4 DEF So, Kind
<1>7. QED
  BY <1>1, <1>5, <1>6, ReplyKeeps

\* A confirmation.
LEMMA UserConfirmKeeps ==
    ASSUME AInv, RowKeeps, NEW r \in Calls, UserRegisterConfirm(r)
    PROVE  AInv'
<1>1. /\ plan' = plan /\ req[r].at = "stmt" /\ Kind(r) = "confirm" /\ Reply(r, "OK")
      /\ UNCHANGED <<minted, overlapped, device, everStored, stored, lateTokens>> /\ row' = "confirmed"
  BY DEF UserRegisterConfirm, ConfirmRow, tokenVars
<1>2. So(r)' /\ "OK" \in Codes \ {"SUCCESS"}
  BY <1>1 DEF So, Kind, Codes
<1>3. QED
  BY <1>1, <1>2, ReplyKeeps

\* The user service or the call of it fails.
LEMMA UserFailsKeeps ==
    ASSUME AInv, RowKeeps, NEW r \in Calls, StatementFails(r) \/ NoConnection(r) \/ UserCallLost(r)
    PROVE  AInv'
<1>1. /\ plan' = plan /\ req[r].at \in {"user", "stmt"}
      /\ UNCHANGED <<minted, overlapped, device, everStored, stored, lateTokens>>
  BY DEF StatementFails, NoConnection, UserCallLost, tokenVars
<1>2. Kind(r) \in {"login", "register", "confirm", "query"}
  BY <1>1 DEF AInv, Sound
<1>3. \/ Goes(r, "user", "none")
      \/ \E f \in {"DB_TIMEOUT", "UNKNOWN", "GRPC_FAILED", "GRPC_TIMEOUT"} : Reply(r, f)
  <2>1. CASE StatementFails(r)
    BY <2>1 DEF StatementFails
  <2>2. CASE NoConnection(r)
    BY <1>2, <2>2 DEF NoConnection
  <2>3. CASE UserCallLost(r)
    BY <2>3 DEF UserCallLost, GrpcFailures
  <2>4. QED
    BY <2>1, <2>2, <2>3
<1>4. CASE Goes(r, "user", "none")
  <2>1. "user" \in Ats /\ "none" \in Codes
    BY DEF Ats, Codes
  <2>2. QED
    BY <1>1, <1>2, <1>4, <2>1, GoesKeeps
<1>5. CASE \E f \in {"DB_TIMEOUT", "UNKNOWN", "GRPC_FAILED", "GRPC_TIMEOUT"} : Reply(r, f)
  <2>1. PICK f \in {"DB_TIMEOUT", "UNKNOWN", "GRPC_FAILED", "GRPC_TIMEOUT"} : Reply(r, f)
    BY <1>5
  <2>2. f \in Codes \ {"SUCCESS"} /\ f # "OK"
    BY DEF Codes
  <2>3. QED
    BY <1>1, <2>1, <2>2, ReplyKeeps
<1>6. QED
  BY <1>3, <1>4, <1>5

\* What the auth service makes of the codes of the user service.
LEMMA AuthCodes ==
    ASSUME NEW c \in Codes \ {"SUCCESS"}
    PROVE  AuthCode(c) \in Codes /\ (AuthCode(c) = "SUCCESS" => c = "OK") /\ AuthCode(c) # "OK"
<1>1. CASE c = "OK"
  BY <1>1 DEF AuthCode, Codes
<1>2. CASE c \in {"DB_TIMEOUT", "GRPC_TIMEOUT"}
  BY <1>2 DEF AuthCode, Codes
<1>3. CASE c = "GRPC_FAILED"
  BY <1>3 DEF AuthCode, Codes
<1>4. CASE c \notin {"OK", "DB_TIMEOUT", "GRPC_TIMEOUT", "GRPC_FAILED"}
  <2>1. AuthCode(c) = c
    BY <1>4 DEF AuthCode
  <2>2. QED
    BY <1>4, <2>1
<1>5. QED
  BY <1>1, <1>2, <1>3, <1>4

\* The auth service before and after its call of the user service.
LEMMA AuthKeeps ==
    ASSUME AInv, RowKeeps, NEW r \in Calls, NEW w,
           AuthForward(r) \/ AuthConfirmed(r) \/ AuthToken(r) \/ AuthRegisterConfirm(r, w) \/ AuthRegister(r, w)
    PROVE  AInv'
<1>1. /\ plan' = plan /\ req[r].at \in {"auth", "answered"}
      /\ UNCHANGED <<minted, overlapped, device, everStored, stored, lateTokens>>
  BY DEF AuthForward, AuthConfirmed, AuthToken, AuthRegisterConfirm, AuthRegister, tokenVars
<1>2. {"user", "reply"} \subseteq Ats /\ {"none", "SUCCESS", "FAILED", "EXPIRED"} \subseteq Codes
  BY DEF Ats, Codes
<1>3. So(r) => So(r)'
  BY <1>1, SoStays
<1>4. CASE AuthConfirmed(r) \/ AuthRegister(r, w)
  <2>1. req[r].at = "answered" /\ Kind(r) \in {"confirm", "register"} /\ Goes(r, "reply", AuthCode(req[r].res))
    BY <1>4 DEF AuthConfirmed, AuthRegister
  <2>2. req[r].res \in Codes \ {"SUCCESS"} /\ (req[r].res = "OK" => So(r))
    BY <2>1 DEF AInv, Typed, ReqType, Sound
  <2>3. AuthCode(req[r].res) \in Codes /\ (AuthCode(req[r].res) = "SUCCESS" => req[r].res = "OK")
    BY <2>2, AuthCodes
  <2>4. Good(r) = "SUCCESS" /\ ~MakesTokens(r)
    BY <2>1 DEF Good, MakesTokens
  <2>5. QED
    BY <1>1, <1>2, <1>3, <2>1, <2>2, <2>3, <2>4, GoesKeeps
<1>5. CASE AuthToken(r)
  <2>1. Kind(r) = "token" /\ \E c \in {"SUCCESS", "FAILED"} : Goes(r, "reply", c)
    BY <1>5 DEF AuthToken
  <2>2. So(r)' /\ ~MakesTokens(r)
    BY <1>1, <2>1 DEF So, MakesTokens, Kind
  <2>3. QED
    BY <1>1, <1>2, <2>1, <2>2, GoesKeeps
<1>6. CASE AuthForward(r) \/ AuthRegisterConfirm(r, w)
  <2>1. /\ Kind(r) \in {"login", "register", "confirm"}
        /\ Goes(r, "user", "none") \/ \E c \in {"FAILED", "EXPIRED"} : Goes(r, "reply", c)
    BY <1>6 DEF AuthForward, AuthRegisterConfirm
  <2>2. Good(r) = "SUCCESS"
    BY <2>1 DEF Good
  <2>3. CASE Goes(r, "user", "none")
    BY <1>1, <1>2, <2>1, <2>3, GoesKeeps
  <2>4. CASE \E c \in {"FAILED", "EXPIRED"} : Goes(r, "reply", c)
    <3>1. PICK c \in {"FAILED", "EXPIRED"} : Goes(r, "reply", c)
      BY <2>4
    <3>2. QED
      BY <1>1, <1>2, <2>2, <3>1, GoesKeeps
  <2>5. QED
    BY <2>1, <2>3, <2>4
<1>7. QED
  BY <1>4, <1>5, <1>6

\* New tokens: while all is calm nobody else makes any.
LEMMA GenerateKeeps ==
    ASSUME AInv, plan' = plan, RowKeeps, NEW r \in Calls, Generate(r),
           UNCHANGED <<stored, lateTokens, everStored, device>>,
           req[r].at = "answered", MakesTokens(r), So(r)
    PROVE  AInv'
<1>1. minted \in Nat /\ minted' = minted + 1 /\ req' = [req EXCEPT ![r].at = "tokens", ![r].token = minted + 1]
  BY DEF Generate, AInv, Typed
<1>2. Turns(r) /\ req'[r].at = "tokens" /\ req'[r].answer = req[r].answer /\ req'[r].token = minted + 1
  <2>1. minted + 1 \in Nat /\ "tokens" \in Ats
    BY <1>1 DEF Ats
  <2>2. req \in [Calls -> ReqType]
    BY DEF AInv, Typed
  <2>3. QED
    BY <1>1, <2>1, <2>2, Zenon DEF Turns, ReqType
<1>3. Sound(r) /\ So(r)' /\ MakesTokens(r)'
  BY SoStays DEF AInv, MakesTokens, Kind
<1>4. Sound(r)'
  BY <1>2, <1>3 DEF Sound
<1>5. \A q \in Calls : Sound(q)'
  BY <1>2, <1>4, SoundTurns
<1>6. Typed'
  <2>1. overlapped' \in BOOLEAN
    BY DEF Generate
  <2>2. QED
    BY <1>1, <1>2, <2>1 DEF AInv, Typed, RowKeeps, Turns
<1>7. HeldIsStored'
  BY DEF AInv, HeldIsStored
<1>8. Current'
  <2>1. SUFFICES ASSUME Calm' PROVE Current'
    BY Zenon DEF Current
  <2>2. \A q \in Calls \ {r} : ~(req[q].at \in {"tokens", "reply"} /\ MakesTokens(q))
    BY <2>1, Zenon DEF Calm, Generate, MakesTokens, Kind
  <2>3. \A q \in Calls : q # r => ~Making(q)'
    BY <1>2, <2>2 DEF Turns, Making, Renews, MakesTokens, Kind
  <2>4. \A q \in Calls : ~Renews(q) /\ ~Renews(q)'
    BY <1>2, <2>2, <2>3 DEF Making, Renews, MakesTokens, Kind
  <2>5. Calm
    <3>1. \A n \in 1..minted : n \in 1..minted' /\ n # minted + 1
      BY <1>1
    <3>2. \A q \in Calls : Stores(q)' => q = r \/ (Stores(q) /\ req'[q] = req[q])
      BY <1>2 DEF Turns, Stores
    <3>3. Settled
      BY <1>2, <2>1, <3>1, <3>2 DEF Calm, Settled
    <3>4. ~overlapped
      BY <2>1, Zenon DEF Calm, Generate
    <3>5. QED
      BY <3>3, <3>4 DEF Calm
  <2>6. ASSUME \A p, q \in plan.calls : plan.device[p] = plan.device[q]
        PROVE  \A q \in plan.calls : device[plan.device[q]] = stored
    BY <2>4, <2>5, <2>6 DEF AInv, Current
  <2>7. QED
    BY <2>3, <2>4, <2>6, Zenon DEF Current
<1>9. Counted'
  <2>1. Counted /\ ~Stores(r) /\ 1..minted \subseteq 1..minted' /\ minted + 1 \in (1..minted') \ (1..minted)
    BY <1>1 DEF AInv, Stores
  <2>2. \A q \in Calls : Stores(q)' => q = r \/ (Stores(q) /\ req'[q] = req[q])
    BY <1>2 DEF Turns, Stores
  <2>3. QED
    BY <1>2, <2>1, <2>2 DEF Counted
<1>10. QED
  BY <1>5, <1>6, <1>7, <1>8, <1>9 DEF AInv

\* AuthLogin after what it waits for.
LEMMA AuthLoginKeeps ==
    ASSUME AInv, RowKeeps, NEW r \in Calls, AuthLogin(r)
    PROVE  AInv'
<1>1. /\ plan' = plan /\ req[r].at = "answered" /\ Kind(r) = "login" /\ MakesTokens(r)
      /\ UNCHANGED <<device, everStored, stored, lateTokens>>
  BY DEF AuthLogin, MakesTokens
<1>2. req[r].res \in Codes \ {"SUCCESS"} /\ (req[r].res = "OK" => So(r))
  BY <1>1, Zenon DEF AInv, Typed, ReqType, Sound
<1>3. CASE req[r].res = "OK" /\ Generate(r)
  BY <1>1, <1>2, <1>3, GenerateKeeps
<1>4. CASE req[r].res # "OK" /\ Goes(r, "reply", AuthCode(req[r].res)) /\ UNCHANGED <<minted, overlapped>>
  <2>1. AuthCode(req[r].res) \in Codes \ {"SUCCESS"} /\ Good(r) = "SUCCESS" /\ "reply" \in Ats
    BY <1>1, <1>2, <1>4, AuthCodes DEF Good, Ats
  <2>2. QED
    BY <1>1, <1>4, <2>1, GoesKeeps
<1>5. QED
  BY <1>3, <1>4 DEF AuthLogin

\* store_refresh_token
LEMMA StoreKeeps ==
    ASSUME AInv, RowKeeps, NEW r \in Calls, StoreToken(r)
    PROVE  AInv'
<1>1. /\ plan' = plan /\ req[r].at = "tokens"
      /\ UNCHANGED <<minted, overlapped, device>>
  BY DEF StoreToken
<1>2. Sound(r) /\ MakesTokens(r) /\ So(r) /\ So(r)' /\ Making(r) /\ Good(r) = "SUCCESS"
  BY <1>1, SoStays DEF AInv, Sound, Making, MakesTokens, Good
<1>3. {"SUCCESS", "TIMEOUT"} \subseteq Codes /\ "reply" \in Ats
  BY DEF Codes, Ats
<1>4. CASE stored' = req[r].token /\ everStored' = everStored \cup {req[r].token} /\ Goes(r, "reply", "SUCCESS")
           /\ lateTokens' = lateTokens
  <2>1. /\ Turns(r) /\ req'[r].at = "reply" /\ req'[r].res = "SUCCESS"
        /\ req'[r].answer = req[r].answer /\ req'[r].token = req[r].token
    BY <1>3, <1>4, GoesTurns
  <2>2. \A q \in Calls : Sound(q)'
    BY <1>1, <1>2, <1>3, <1>4, GoesSound
  <2>3. Typed'
    BY <1>1, <1>4, <2>1 DEF AInv, Typed, RowKeeps, Turns
  <2>4. HeldIsStored'
    BY <1>1, <1>4 DEF AInv, HeldIsStored
  <2>5. Current'
    <3>1. SUFFICES ASSUME Calm' PROVE Current'
      BY DEF Current
    <3>2. Calm
      <4>1. \A q \in Calls : Stores(q)' => Stores(q) /\ req'[q] = req[q]
        BY <2>1 DEF Turns, Stores
      <4>2. Settled
        BY <1>1, <1>4, <3>1, <4>1 DEF Calm, Settled, Stores
      <4>3. QED
        BY <1>1, <3>1, <4>2 DEF Calm
    <3>3. \A q \in Calls : q # r => ~Making(q)'
      <4>1. \A q \in Calls : q # r => ~Making(q)
        BY <1>2, <3>2 DEF AInv, Current
      <4>2. QED
        BY <1>1, <2>1, <4>1 DEF Turns, Making, Renews, MakesTokens, Kind
    <3>4. Renews(r)' /\ \A q \in Calls : Renews(q)' => q = r
      BY <1>1, <1>2, <2>1, <3>3 DEF Making, Renews, MakesTokens, Kind
    <3>5. QED
      BY <1>4, <2>1, <3>3, <3>4 DEF Current
  <2>6. Counted'
    <3>1. \A q \in Calls : Stores(q)' => q # r /\ Stores(q) /\ req'[q] = req[q]
      BY <2>1 DEF Turns, Stores
    <3>2. Counted /\ Stores(r)
      BY <1>1 DEF AInv, Stores
    <3>3. QED
      BY <1>1, <1>4, <3>1, <3>2 DEF Counted
  <2>7. QED
    BY <2>2, <2>3, <2>4, <2>5, <2>6 DEF AInv
<1>5. CASE lateTokens' = lateTokens \cup {req[r].token} /\ Goes(r, "reply", "TIMEOUT") /\ UNCHANGED <<stored, everStored>>
  <2>1. Turns(r) /\ req'[r].at = "reply"
    BY <1>3, <1>5, GoesTurns
  <2>2. \A q \in Calls : Sound(q)'
    BY <1>1, <1>2, <1>3, <1>5, GoesSound, Zenon
  <2>3. Stores(r) /\ ~Stores(r)'
    BY <1>1, <2>1 DEF Stores
  <2>4. QED
    BY <1>1, <1>5, <2>1, <2>2, <2>3, LostKeeps
<1>6. QED
  BY <1>4, <1>5 DEF StoreToken

\* What the routes may answer.
LEMMA StatusType ==
    ASSUME NEW r \in Calls, Kind(r) \in Kinds
    PROVE  Status(r) \in Answers
<1>1. CASE req[r].res \in GrpcFailures
  <2>1. Status(r) = GrpcStatus(req[r].res)
    BY <1>1, Zenon DEF Status
  <2>2. QED
    BY <2>1, Zenon DEF GrpcStatus, Answers
<1>2. CASE req[r].res \notin GrpcFailures
  <2>1. CASE Kind(r) = "login"
    BY <1>2, <2>1 DEF Status, LoginStatus, Answers
  <2>2. CASE Kind(r) = "register"
    BY <1>2, <2>2 DEF Status, RegisterStatus, Answers
  <2>3. CASE Kind(r) = "confirm"
    BY <1>2, <2>3 DEF Status, ConfirmStatus, Answers
  <2>4. CASE Kind(r) = "query"
    BY <1>2, <2>4 DEF Status, QueryStatus, Answers
  <2>5. CASE Kind(r) = "token"
    BY <1>2, <2>5 DEF Status, TokenStatus, Answers
  <2>6. QED
    BY <2>1, <2>2, <2>3, <2>4, <2>5 DEF Kinds
<1>3. QED
  BY <1>1, <1>2

\* The routes after their call.
LEMMA ReturnKeeps ==
    ASSUME AInv, RowKeeps, NEW r \in Calls, Return(r)
    PROVE  AInv'
<1> DEFINE a == Status(r)
<1>1. /\ plan' = plan /\ req[r].at = "reply" /\ Answered(r, a)
      /\ UNCHANGED <<minted, overlapped, everStored, stored, lateTokens>>
  BY DEF Return, tokenVars
<1>2. Kind(r) \in Kinds /\ plan.device[r] \in Devices /\ plan.calls \subseteq Calls
  BY AccountsAssumption DEF AInv, Typed, Kind
<1>3. a \in Answers /\ (a = "200" <=> req[r].res = Good(r))
  BY <1>2, StatusType, GoodStatus
<1>4. /\ r \in plan.calls
      /\ a = "200" => So(r) /\ (MakesTokens(r) => req[r].token \in everStored)
  BY <1>1, <1>3 DEF AInv, Sound
<1>5. device' = IF a = "200" /\ MakesTokens(r) THEN [device EXCEPT ![plan.device[r]] = req[r].token] ELSE device
  BY DEF Return, MakesTokens
<1>6. Renews(r) <=> a = "200" /\ MakesTokens(r)
  BY <1>1, <1>3 DEF Renews, Good, MakesTokens
<1> HIDE DEF a
<1>7. Turns(r) /\ \A q \in Calls : Sound(q)'
  BY <1>1, <1>3, <1>4, AnsweredSound
<1>8. req'[r].at = "done"
  BY <1>1, <1>3, AnsweredTurns
<1>9. device' \in [Devices -> Nat]
  BY <1>2, <1>5 DEF AInv, Typed, ReqType
<1>10. HeldIsStored'
  BY <1>1, <1>2, <1>4, <1>5 DEF AInv, Typed, HeldIsStored
<1>11. Typed'
  BY <1>1, <1>7, <1>9 DEF AInv, Typed, RowKeeps, Turns
<1>12. Counted' /\ (Calm' => Calm)
  <2>1. \A q \in Calls : Stores(q) \/ Stores(q)' => req'[q] = req[q]
    BY <1>1, <1>7, <1>8 DEF Turns, Stores
  <2>2. QED
    BY <1>1, <2>1, CountStays
<1>13. Current'
  <2>1. SUFFICES ASSUME Calm' PROVE Current'
    BY DEF Current
  <2>2. Calm
    BY <1>12, <2>1
  <2>3. \A q \in Calls : (Making(q)' => Making(q)) /\ (Renews(q)' <=> Renews(q) /\ q # r)
    BY <1>1, <1>7, <1>8 DEF Turns, Making, Renews, MakesTokens, Kind
  <2>4. (\A p, q \in Calls : Making(p) /\ Making(q) => p = q)'
    BY <2>2, <2>3 DEF AInv, Current
  <2>5. (\A q \in Calls : Renews(q) => stored = req[q].token)'
    BY <1>1, <1>7, <2>2, <2>3 DEF AInv, Current, Turns
  <2>6. ASSUME \A q \in Calls : ~Renews(q)', \A p, q \in plan.calls : plan.device[p] = plan.device[q]
        PROVE  \A q \in plan.calls : device'[plan.device[q]] = stored
    <3>1. CASE Renews(r)
      <4>1. stored = req[r].token /\ device'[plan.device[r]] = req[r].token
        BY <1>2, <1>5, <1>6, <2>2, <3>1, Zenon DEF AInv, Typed, Current
      <4>2. QED
        BY <1>4, <2>6, <4>1
    <3>2. CASE ~Renews(r)
      <4>1. device' = device /\ \A q \in Calls : ~Renews(q)
        BY <1>5, <1>6, <2>3, <2>6, <3>2
      <4>2. QED
        BY <2>2, <2>6, <4>1 DEF AInv, Current
    <3>3. QED
      BY <3>1, <3>2
  <2>7. QED
    BY <1>1, <2>4, <2>5, <2>6 DEF Current
<1>14. QED
  BY <1>7, <1>10, <1>11, <1>12, <1>13 DEF AInv

-----------------------------------------------------------------------------
(* The specification *)

\* Steps that no request takes: late statements and tokens, mail, time.
LEMMA RestKeeps ==
    ASSUME AInv, RowKeeps, plan' = plan, req' = req, UNCHANGED <<minted, overlapped, device, everStored>>,
           \/ UNCHANGED <<stored, lateTokens>>
           \/ \E n \in lateTokens : lateTokens' = lateTokens \ {n}
    PROVE  AInv'
<1>1. \A q \in Calls : Sound(q)'
  BY SoundRests
<1>2. Typed'
  BY DEF AInv, Typed, RowKeeps
<1>3. HeldIsStored'
  BY DEF AInv, HeldIsStored
<1>4. Counted' /\ Current'
  <2>1. CASE UNCHANGED <<stored, lateTokens>>
    BY <2>1, CountStays, CurrentStays
  <2>2. CASE \E n \in lateTokens : lateTokens' = lateTokens \ {n}
    <3>1. Counted /\ \A q \in Calls : Stores(q)' <=> Stores(q)
      BY DEF AInv, Stores
    <3>2. Counted'
      BY <2>2, <3>1 DEF Counted
    <3>3. ~Calm'
      BY <2>2, <3>1 DEF Counted, Calm, Settled
    <3>4. QED
      BY <3>2, <3>3 DEF Current
  <2>3. QED
    BY <2>1, <2>2
<1>5. QED
  BY <1>1, <1>2, <1>3, <1>4 DEF AInv

\* Every step keeps the invariant.
LEMMA AccountsStep ==
    ASSUME AInv, [Next]_vars
    PROVE  AInv'
<1>1. CASE UNCHANGED vars
  <2>1. RowKeeps
    BY <1>1 DEF vars, RowKeeps, AInv, Typed
  <2>2. QED
    BY <1>1, <2>1, RestKeeps DEF vars
<1>2. CASE Next
  <2>1. RowKeeps
    BY <1>2, NextKeepsRow DEF AInv, Typed
  <2>2. ASSUME NEW r \in Calls, Send(r) \/ Return(r) \/ GatewayGivesUp(r) \/ Retry(r) PROVE AInv'
    BY <2>1, <2>2, SendKeeps, ReturnKeeps, GivesUpKeeps
  <2>3. ASSUME NEW r \in Calls, ServiceStep(r) PROVE AInv'
    BY <2>1, <2>3, ReadUserKeeps, BeginKeeps, UserRegisterKeeps, UserConfirmKeeps, UserFailsKeeps, AuthKeeps,
       AuthLoginKeeps, StoreKeeps, Zenon DEF ServiceStep
  <2>4. ASSUME NEW r \in Calls, LateRow(r) \/ PublishEmail(r) \/ EmailHandler(r) \/ LinkExpires(r) PROVE AInv'
    <3>1. /\ plan' = plan /\ req' = req
          /\ UNCHANGED <<minted, overlapped, device, everStored, stored, lateTokens>>
      BY <2>4 DEF LateRow, PublishEmail, EmailHandler, LinkExpires, tokenVars
    <3>2. QED
      BY <2>1, <3>1, RestKeeps
  <2>5. ASSUME NEW n \in lateTokens, LateToken(n) PROVE AInv'
    <3>1. /\ plan' = plan /\ req' = req /\ lateTokens' = lateTokens \ {n}
          /\ UNCHANGED <<minted, overlapped, device, everStored>>
      BY <2>5 DEF LateToken
    <3>2. QED
      BY <2>1, <2>5, <3>1, RestKeeps
  <2>6. ASSUME NEW n \in everStored, TokenExpires(n) PROVE AInv'
    <3>1. /\ plan' = plan /\ req' = req
          /\ UNCHANGED <<minted, overlapped, device, everStored, stored, lateTokens>>
      BY <2>6 DEF TokenExpires
    <3>2. QED
      BY <2>1, <3>1, RestKeeps
  <2>7. QED
    BY <1>2, <2>2, <2>3, <2>4, <2>5, <2>6 DEF Next
<1>3. QED
  BY <1>1, <1>2

\* At the start no request was made.
LEMMA AccountsInit ==
    ASSUME Init
    PROVE  AInv
<1>1. Typed
  <2>1. Fresh \in ReqType /\ [Fresh EXCEPT !.at = "done", !.answer = "none sent"] \in ReqType
    BY Zenon DEF Fresh, ReqType, Ats, Codes, Answers, Rows
  <2>2. req \in [Calls -> ReqType]
    BY <2>1 DEF Init
  <2>3. plan \in Setups /\ plan.row \in Rows
    BY AccountsAssumption DEF Init, Rows
  <2>4. row \in Rows /\ minted \in Nat /\ overlapped \in BOOLEAN
    BY <2>3, Zenon DEF Init
  <2>5. device \in [Devices -> Nat]
    BY DEF Init
  <2>6. QED
    BY <2>2, <2>3, <2>4, <2>5, Zenon DEF Typed
<1>2. ASSUME NEW r \in Calls
      PROVE  req[r].at \in {"new", "done"} /\ (req[r].at # "done" => r \in plan.calls) /\ req[r].answer # "200"
  BY DEF Init, Fresh
<1>3. \A r \in Calls : Sound(r) /\ ~Making(r) /\ ~Renews(r)
  BY <1>2, Zenon DEF Sound, Making, Renews
<1>4. HeldIsStored
  BY DEF Init, HeldIsStored
<1>5. \A r \in plan.calls : device[plan.device[r]] = stored
  BY AccountsAssumption, Zenon DEF Init
<1>6. Current
  BY <1>3, <1>5 DEF Init, Current
<1>7. Counted
  BY <1>2 DEF Init, Counted, Stores
<1>8. QED
  BY <1>1, <1>3, <1>4, <1>6, <1>7 DEF AInv

\* The invariant, for every set of requests, devices and workers and every plan.
THEOREM AccountsInvariant == Spec => []AInv
<1>1. Init => AInv
  BY AccountsInit
<1>2. AInv /\ [Next]_vars => AInv'
  BY AccountsStep
<1>3. QED
  BY <1>1, <1>2, PTL DEF Spec

\* The gateway answers "200" only for what is so: a confirmed account, the right password,
\* a registration that wrote its password or was overtaken by a confirmation; whichever
\* calls are given up and statements executed late.
THEOREM SuccessCorrect == Spec => []SuccessIsSo
<1>1. AInv => SuccessIsSo
  BY DEF AInv, Sound, So, SuccessIsSo
<1>2. QED
  BY <1>1, AccountsInvariant, PTL

\* A device holds tokens whose store was confirmed; and those that Redis has, when the account
\* is used from one device, no two logins made tokens at a time and no store was given up.
THEOREM HeldCorrect == Spec => []HeldIsCurrent
<1>1. ASSUME AInv PROVE HeldIsCurrent
  <2>1. HeldIsStored
    BY <1>1 DEF AInv
  <2>2. ASSUME \A r, q \in plan.calls : plan.device[r] = plan.device[q],
               1..minted \subseteq everStored, ~overlapped, \A r \in Calls : req[r].at \in {"new", "done"}
        PROVE  \A r \in plan.calls : device[plan.device[r]] = stored
    <3>1. \A r \in Calls : ~Renews(r)
      BY <2>2, Zenon DEF Renews
    <3>2. Calm
      BY <2>2 DEF Calm, Settled
    <3>3. QED
      BY <1>1, <2>2, <3>1, <3>2, Zenon DEF AInv, Current
  <2>3. QED
    BY <2>1, <2>2 DEF HeldIsCurrent
<1>2. QED
  BY <1>1, AccountsInvariant, PTL

\* register_user.sql and confirm_user.sql: a confirmed account stays confirmed and keeps
\* its password, however late a registration is executed.
THEOREM FrozenCorrect == Spec => ConfirmedIsFrozen
<1>1. AInv /\ [Next]_vars => [row = "confirmed" => row' = "confirmed" /\ password' = password]_vars
  BY NextKeepsRow DEF AInv, Typed, RowKeeps
<1>2. QED
  BY <1>1, AccountsInvariant, PTL DEF Spec, ConfirmedIsFrozen
=============================================================================
