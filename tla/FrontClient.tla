---------------------------- MODULE FrontClient ----------------------------
(***************************************************************************)
(* The terminal client: the login and the connection (ClientLogin), the    *)
(* chat that runs over it (UserSession) and the friends (Contacts).  What  *)
(* ends the reader ends the connection, and the other way round; what      *)
(* ends a page ends the program.                                           *)
(***************************************************************************)
EXTENDS Integers, Sequences, FiniteSets

CONSTANTS Users, NoUser, Texts, MaxId, Others, Words,
          Setups      \* records [login, chat, friends]

ASSUME FrontAssumption == NoUser \notin Users /\ MaxId \in Nat \ {0}

VARIABLES
    setup,
    attempts, form, typed, lastEmail, user, code, conn, link,
    app, page, up, nextId, waiters, timers, timeoutLogs, timeoutIds, sessionOf, minId, maxId, mine, acked, shown,
    outgoing, logs, unconfirmed, ackTimer, resent, toDeliver, inflight, incoming, pushed, confirmed,
    requests, timeline, friends, chats, ui, pull, listed, todo, agreed, asked, asking, stored, before, received,
    shifted

Login == INSTANCE ClientLogin WITH plan <- setup.login
Chat == INSTANCE UserSession WITH plan <- setup.chat
Friendship == INSTANCE Contacts WITH plan <- setup.friends

loginVars == <<attempts, form, typed, lastEmail, user, code, conn, link>>
chatVars == <<app, page, up, nextId, waiters, timers, timeoutLogs, timeoutIds, sessionOf, minId, maxId, mine, acked,
              shown, outgoing, logs, unconfirmed, ackTimer, resent, toDeliver, inflight, incoming, pushed, confirmed>>
contactVars == <<requests, timeline, friends, chats, ui, pull, listed, todo, agreed, asked, asking, stored, before,
                 received, shifted>>
vars == <<setup, loginVars, chatVars, contactVars>>

Init ==
    /\ setup \in Setups
    /\ Login!LoginInit
    /\ Chat!ChatInit
    /\ Friendship!ContactsInit

Quiet == Chat!ChatNext /\ UNCHANGED <<loginVars, contactVars>>

Reading ==
    /\ Chat!Read
    /\ IF up' THEN UNCHANGED loginVars ELSE Login!ReaderEnds
    /\ UNCHANGED contactVars

Lost == Login!ConnectionLost /\ Chat!Disconnect /\ UNCHANGED contactVars

Kicked == Login!KickedOff /\ Chat!SessionEnds /\ UNCHANGED contactVars

Crashed == Login!AppEnds /\ (\E id \in Chat!Ids : Chat!ResendRaises(id)) /\ UNCHANGED contactVars

LoggingIn == Login!LoginNext /\ UNCHANGED <<chatVars, contactVars>>

Befriending == Friendship!ContactsNext /\ UNCHANGED <<loginVars, chatVars>>

Stranger == Login!ReaderEnds /\ Chat!Disconnect /\ \E f \in setup.friends.talkers : Friendship!NoChatSession(f)

Slipped == Login!AppEnds /\ Chat!SessionEnds /\ Friendship!PageRaises

Next ==
    /\ UNCHANGED setup
    /\ Quiet \/ Reading \/ Lost \/ Kicked \/ Crashed \/ LoggingIn \/ Befriending \/ Stranger \/ Slipped

\* What runs by itself: timers, the writer, the reader and the deliver task of
\* the gateway, and the connection task.  Users and faults are free.
Fairness ==
    /\ WF_vars(Reading /\ UNCHANGED setup)
    /\ WF_vars(Chat!WriterSend /\ UNCHANGED <<setup, loginVars, contactVars>>)
    /\ WF_vars(Chat!ScheduleAck /\ UNCHANGED <<setup, loginVars, contactVars>>)
    /\ \A id \in Chat!Ids : WF_vars(Chat!OnTimeout(id) /\ UNCHANGED <<setup, loginVars, contactVars>>)
    /\ WF_vars(Login!ConnectorStep /\ UNCHANGED <<setup, chatVars, contactVars>>)

Spec == Init /\ [][Next]_vars /\ Fairness

TypeOK == Login!LoginTypeOK /\ Chat!ChatTypeOK /\ Friendship!ContactsTypeOK

\* A connection is read only for a page that is told of it, and is one of the user who
\* is logged in ("must make sure the same login user"), unless an attempt of another
\* one failed in between.
ReadingIsOwn == Login!ReadingIsTold /\ Login!SameUser

\* A message without an acknowledgement is waiting for one, or offered to be sent again,
\* which it can; and a pushed message that was confirmed is in the timeline.
ChatIsKept == Chat!UnackedIsOffered /\ Chat!OfferedHasLog /\ Chat!ConfirmedIsShown

\* Who is entered as a friend is one for the server too and has a chat; once the chats
\* are loaded, what was stored when the list came is shown.
FriendsAgree == Friendship!FriendIsAgreed /\ Friendship!FriendHasChat /\ Friendship!LoadedIsShown

\* A message that was sent ends up acknowledged or offered again; and while the
\* connection lasts, every pushed message is confirmed.
MessagesSettle == Chat!SentIsSettled /\ Chat!PushIsConfirmed
=============================================================================
