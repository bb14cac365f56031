---------------------------- MODULE ClientLogin ----------------------------
(***************************************************************************)
(* Logging in and keeping the websocket of the terminal client             *)
(* (front/ui/login_page.py, front/sessions/user.py, front/network/ws.py):  *)
(* the login page, the task that runs ws_connect, and the two futures they *)
(* meet at.  connected_waiter tells the page how the connection went;      *)
(* pending_reconnect_waiter lets the page take over a connection that came *)
(* up too late for an earlier attempt.  Retries of the handshake (open     *)
(* timeout, refused or reset connections) leave the state as it is.        *)
(***************************************************************************)
EXTENDS Naturals

CONSTANTS Users, NoUser

VARIABLES
    plan,       \* [page: "login" or "left", user: who has logged in then, attempts,
                \* mayLose: whether the connection may end]
    attempts,   \* how often the form may still be sent
    form,       \* the login page: "typing", "http", "waiting", then "left" or "gone", or "kicked"
    typed,      \* the e-mail address in the form
    lastEmail,  \* last_email
    user,       \* session._user
    code,       \* connected_waiter: "none" while it is pending
    conn,       \* the ws_connect task: [pc, user whose token it uses, got: the state it holds,
                \* crossed: history, an attempt of another user failed meanwhile]
    link        \* whether the connection that waits to be taken over is open

loginVars == <<attempts, form, typed, lastEmail, user, code, conn, link>>

Codes == {"connected", "rejected", "down", "retry", "timeout", "unknown"}

NewConnector(pc, u) == [pc |-> pc, user |-> u, got |-> "none", crossed |-> FALSE]

LoginInit ==
    /\ attempts = plan.attempts
    /\ lastEmail = NoUser /\ code = "none" /\ link = FALSE
    /\ IF plan.page = "login"
       THEN form = "typing" /\ typed = NoUser /\ user = NoUser /\ conn = NewConnector("none", NoUser)
       ELSE /\ form = "left" /\ typed = plan.user /\ user = plan.user
            /\ conn = NewConnector("reading", plan.user)

ConnectorAt(pc) == conn' = [conn EXCEPT !.pc = pc]

\* wait_connected and not connected_waiter.done()
Awaited == form = "waiting" /\ code = "none"

Tell(c) == code' = IF Awaited THEN c ELSE code

-----------------------------------------------------------------------------
(* The login page *)

Submit(u) ==
    /\ form = "typing" /\ attempts > 0
    /\ attempts' = attempts - 1 /\ typed' = u /\ form' = "http"
    /\ UNCHANGED <<lastEmail, user, code, conn, link>>

\* The end of the loop body: the next attempt compares with this address.
Again == form' = "typing" /\ lastEmail' = typed

\* Any answer but 200 with all of its fields, a timeout, a network error.
LoginFails ==
    /\ form = "http" /\ Again
    /\ conn' = [conn EXCEPT !.crossed = @ \/ conn.user # typed]
    /\ UNCHANGED <<attempts, typed, user, code, link>>

\* can_reconnect: wait_to_reconnect waits for ready_to_reconnect.
CanReconnect == conn.pc = "pending"

\* Mutant: a waiting connection is taken over whoever logs in.
LoginTakesAny ==
    /\ form = "http"
    /\ form' = "waiting" /\ user' = typed
    /\ IF CanReconnect THEN ConnectorAt("resumed") /\ UNCHANGED link
       ELSE conn' = NewConnector("handshake", typed) /\ link' = FALSE
    /\ UNCHANGED <<attempts, typed, lastEmail, code>>

\* A waiting connection is taken over; otherwise the task is cancelled and replaced.
LoginSucceeds ==
    /\ form = "http"
    /\ form' = "waiting" /\ user' = typed
    /\ IF CanReconnect /\ lastEmail = typed
       THEN ConnectorAt("resumed") /\ UNCHANGED link
       ELSE conn' = NewConnector("handshake", typed) /\ link' = FALSE
    /\ UNCHANGED <<attempts, typed, lastEmail, code>>

\* wait_for_ws_connected returns the state it was told, or gives up after 8 s.
\* The timer has just been started when a connection is taken over.
WaitEnds ==
    /\ form = "waiting"
    /\ code = "none" => conn.pc # "resumed"
    /\ code' = "none"
    /\ IF code = "connected" THEN form' = "left" /\ UNCHANGED lastEmail ELSE Again
    /\ UNCHANGED <<attempts, typed, user, conn, link>>

\* Back or quit typed into the form.
Leave ==
    /\ form = "typing"
    /\ form' = "gone" /\ ConnectorAt("over") /\ link' = FALSE
    /\ UNCHANGED <<attempts, typed, lastEmail, user, code>>

-----------------------------------------------------------------------------
(* The ws_connect task *)

Accepted ==
    /\ conn.pc = "handshake"
    /\ ConnectorAt("negotiate") /\ link' = TRUE
    /\ UNCHANGED <<attempts, form, typed, lastEmail, user, code>>

\* 403, 500 or another status; any other exception ends the generator in silence.
HandshakeEnds ==
    /\ conn.pc = "handshake"
    /\ (\E c \in {"rejected", "down", "unknown"} : Tell(c)) \/ UNCHANGED code
    /\ ConnectorAt("over")
    /\ UNCHANGED <<attempts, form, typed, lastEmail, user, link>>

(***************************************************************************)
(* maybe_negotiate_kicked_off has returned a state: the status frame       *)
(* (after a confirmed kick if another device is there), the code the       *)
(* server closed with, or an unreadable frame.  When nobody waits for it,  *)
(* the connection is kept for the next attempt.                            *)
(***************************************************************************)
Negotiated(c) ==
    /\ conn.pc = "negotiate"
    /\ Tell(c)
    /\ conn' = [conn EXCEPT !.got = c,
                            !.pc = IF ~Awaited THEN "pending"
                                   ELSE IF c = "connected" THEN "reading" ELSE "handshake"]
    /\ link' = (c = "connected")
    /\ UNCHANGED <<attempts, form, typed, lastEmail, user>>

NegotiateTimeout ==
    /\ conn.pc = "negotiate"
    /\ Tell("timeout")
    /\ ConnectorAt("over") /\ link' = FALSE
    /\ UNCHANGED <<attempts, form, typed, lastEmail, user>>

\* The server closes a connection nobody has taken over yet.
PendingCloses ==
    /\ conn.pc \in {"pending", "resumed"} /\ link
    /\ link' = FALSE
    /\ UNCHANGED <<attempts, form, typed, lastEmail, user, code, conn>>

\* wait_to_reconnect returns; connected_waiter is the one of the new attempt.
Resume ==
    /\ conn.pc = "resumed"
    /\ IF conn.got = "connected" /\ link
       THEN code' = "connected" /\ ConnectorAt("reading")
       ELSE ConnectorAt("handshake") /\ UNCHANGED code
    /\ UNCHANGED <<attempts, form, typed, lastEmail, user, link>>

\* The reader ends with ConnectionClosed, or with the exception of a handler.
ReaderEnds ==
    /\ conn.pc = "reading"
    /\ ConnectorAt("pause") /\ link' = FALSE
    /\ UNCHANGED <<attempts, form, typed, lastEmail, user, code>>

ConnectionLost == plan.mayLose /\ ReaderEnds

\* Closed with 4007: the pages are left, the task returns.
KickedOff ==
    /\ conn.pc = "reading" /\ plan.mayLose
    /\ ConnectorAt("over") /\ link' = FALSE /\ form' = "kicked" /\ code' = "none"
    /\ UNCHANGED <<attempts, typed, lastEmail, user>>

\* The program ends: its tasks are cancelled.
AppEnds ==
    /\ form' = "gone" /\ ConnectorAt("over") /\ link' = FALSE
    /\ UNCHANGED <<attempts, typed, lastEmail, user, code>>

\* The sleep is over and the generator goes on to the next connection.
Reconnect ==
    /\ conn.pc = "pause"
    /\ ConnectorAt("handshake")
    /\ UNCHANGED <<attempts, form, typed, lastEmail, user, code, link>>

ConnectorStep ==
    \/ Accepted
    \/ \E c \in {"connected", "retry", "unknown"} : Negotiated(c)
    \/ Resume
    \/ Reconnect

LoginNext ==
    \/ \E u \in Users : Submit(u)
    \/ LoginFails
    \/ LoginSucceeds
    \/ WaitEnds
    \/ Leave
    \/ ConnectorStep
    \/ HandshakeEnds
    \/ NegotiateTimeout
    \/ PendingCloses

LoginTypeOK ==
    /\ attempts \in Nat
    /\ form \in {"typing", "http", "waiting", "left", "gone", "kicked"}
    /\ {typed, lastEmail, user} \subseteq Users \cup {NoUser}
    /\ code \in Codes \cup {"none"}
    /\ conn \in [pc: {"none", "handshake", "negotiate", "pending", "resumed", "reading", "pause", "over"},
                 user: Users \cup {NoUser}, got: Codes \cup {"none"}, crossed: BOOLEAN]
    /\ link \in BOOLEAN

\* A connection is read only for a page that is told of it: never one the form
\* has given up on, and never behind the back of a form that is being filled in.
ReadingIsTold ==
    conn.pc = "reading" =>
        /\ form \in {"waiting", "left"}
        /\ form = "waiting" => code = "connected"

\* The connection that is read belongs to the user who is logged in, also when an
\* attempt takes over what an earlier one had started.  The exception is an
\* attempt of another user that failed in between: last_email is the address of
\* the last attempt, not the one of the connection.
SameUser == conn.pc = "reading" /\ ~conn.crossed => conn.user = user
=============================================================================
