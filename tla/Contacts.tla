----------------------------- MODULE Contacts -----------------------------
(***************************************************************************)
(* The friends of the user of the terminal client: requests and answers    *)
(* through the pages (front/ui/add_friend_page.py,                         *)
(* friend_action_history.py), the events pushed meanwhile, and the friend  *)
(* list and chats loaded after the login (front/sessions/user.py).  The    *)
(* servers are reduced to what they answer: whom they hold for friends and *)
(* what the session table has of a chat.                                   *)
(***************************************************************************)
EXTENDS Integers, Sequences, FiniteSets

CONSTANTS Others, Words

VARIABLES
    plan,       \* [askers, asks, length, talkers, friends, pull, slips]: who asks, whom the user may ask
                \* while the timeline is shorter than length, who writes, who is a
                \* friend already, whether the chats are loaded, whether the user mistypes
    app, up,    \* of UserSession: whether the pages run, and the reader
    requests,   \* pending_friend_requests: other -> "none", "in", "out" or "accepted"
    timeline,   \* the timeline of requests, the latest first
    friends,    \* keys of UserSession.friends
    chats,      \* chat_sessions: other -> words shown, for those with a session
    ui,         \* the page's call: [at: "idle", "asking" or "answering", who, seq]
    pull,       \* pull_session_messages: "off", "list", "collect", "sessions", "done", "failed"
    listed,     \* the friend list as the server answered it
    todo,       \* friends whose chat is still to be loaded
    (* the servers, and what is remembered for the properties *)
    agreed,     \* whom the server holds for friends
    asked,      \* whom the server knows to be asked
    asking,     \* who has not asked yet
    stored,     \* the session table: other -> words
    before,     \* its contents when the list was collected
    received,   \* <<other, word>> pushed and handled
    shifted     \* friends entered in place of the one who was answered

contactVars == <<requests, timeline, friends, chats, ui, pull, listed, todo, agreed, asked, asking, stored,
                 before, received, shifted>>
serverVars == <<agreed, asked, asking, stored>>
noted == <<before, received, shifted>>
loading == <<pull, listed, todo>>

Idle == [at |-> "idle", who |-> {}, seq |-> 0]

ContactsInit ==
    /\ ui = Idle
    /\ requests = [f \in Others |-> "none"] /\ timeline = <<>>
    /\ friends = {} /\ chats = [f \in {} |-> {}]
    /\ pull = IF plan.pull THEN "list" ELSE "off"
    /\ listed = {} /\ todo = {}
    /\ agreed = plan.friends /\ asked = {} /\ asking = plan.askers
    /\ stored = [f \in Others |-> {}] /\ before = stored
    /\ received = {} /\ shifted = {}

\* get_or_create_chat_session
WithChat(f) == [g \in DOMAIN chats \cup {f} |-> IF g \in DOMAIN chats THEN chats[g] ELSE {}]

\* The entry becomes a friend with a chat.
Befriend(f) ==
    /\ requests' = [requests EXCEPT ![f] = "accepted"]
    /\ friends' = friends \cup {f}
    /\ chats' = WithChat(f)

-----------------------------------------------------------------------------
(* The pages *)

Ask(f) ==
    /\ app = "running" /\ ui = Idle /\ f \in plan.asks \ friends /\ Len(timeline) < plan.length
    /\ ui' = [at |-> "asking", who |-> {f}, seq |-> 0]
    /\ UNCHANGED <<requests, timeline, friends, chats, loading, serverVars, noted>>

\* add_friend has returned; write_local_friend_request after a success.
Asked(f, ok) ==
    /\ app = "running" /\ ui.at = "asking" /\ ui.who = {f}
    /\ ui' = Idle
    /\ IF ok
       THEN /\ asked' = asked \cup {f}
            /\ requests' = [requests EXCEPT ![f] = IF @ = "none" THEN "out" ELSE @]
            /\ timeline' = <<f>> \o timeline
       ELSE /\ asked' \in {asked, asked \cup {f}}
            /\ UNCHANGED <<requests, timeline>>
    /\ UNCHANGED <<friends, chats, loading, agreed, asking, stored, noted>>

\* timeline[seq - 1]: 0 is the last entry.
Entry(seq) == timeline[IF seq = 0 THEN Len(timeline) ELSE seq]

\* The number of an entry that waits for an answer is typed.
Answer(seq) ==
    /\ app = "running" /\ ui = Idle /\ timeline # <<>>
    /\ requests[Entry(seq)] = "in"
    /\ ui' = [at |-> "answering", who |-> {Entry(seq)}, seq |-> seq]
    /\ UNCHANGED <<requests, timeline, friends, chats, loading, serverVars, noted>>

\* confirm_friend has returned.  write_local_friend_confirm takes the entry with
\* the number typed before the call: a request pushed meanwhile has moved it.
Accepted(f, ok) ==
    /\ app = "running" /\ ui.at = "answering" /\ ui.who = {f}
    /\ ui' = Idle
    /\ IF ok
       THEN /\ agreed' = agreed \cup {f}
            /\ Befriend(Entry(ui.seq))
            /\ shifted' = shifted \cup ({Entry(ui.seq)} \ {f})
       ELSE /\ agreed' \in {agreed, agreed \cup {f}}
            /\ UNCHANGED <<requests, friends, chats, shifted>>
    /\ UNCHANGED <<timeline, loading, asked, asking, stored, before, received>>

\* An exception ends the page and the program: reject_friend returns no pair to
\* unpack, a number is not in the timeline, something else than "add" is typed.
PageRaises ==
    /\ app = "running"
    /\ ui.at = "answering" \/ plan.slips
    /\ ui' = Idle
    /\ UNCHANGED <<requests, timeline, friends, chats, loading, serverVars, noted>>

-----------------------------------------------------------------------------
(* Pushed events *)

OnPushFriendRequest(f) ==
    /\ up /\ f \in asking
    /\ asking' = asking \ {f}
    /\ IF requests[f] = "none"
       THEN requests' = [requests EXCEPT ![f] = "in"] /\ timeline' = <<f>> \o timeline
       ELSE UNCHANGED <<requests, timeline>>
    /\ UNCHANGED <<friends, chats, ui, loading, agreed, asked, stored, noted>>

\* The one who was asked answers, and the answer is pushed; without a local
\* request it is ignored.
OnPushFriendConfirm(f, yes) ==
    /\ up /\ f \in asked
    /\ asked' = asked \ {f}
    /\ agreed' = IF yes THEN agreed \cup {f} ELSE agreed
    /\ IF f \in friends \/ requests[f] = "none" \/ ~yes
       THEN UNCHANGED <<requests, friends, chats>>
       ELSE Befriend(f)
    /\ UNCHANGED <<timeline, ui, loading, asking, stored, noted>>

\* A message of a friend is shown in their chat (UserSession has the rest).
OnPushUserMessage(f, w) ==
    /\ up /\ f \in agreed /\ <<f, w>> \notin received
    /\ f \in DOMAIN chats
    /\ chats' = [chats EXCEPT ![f] = @ \cup {w}]
    /\ received' = received \cup {<<f, w>>}
    /\ UNCHANGED <<requests, timeline, friends, ui, loading, serverVars, before, shifted>>

\* Without a chat session the look-up ends the reader.
NoChatSession(f) ==
    /\ up /\ f \in agreed /\ f \notin DOMAIN chats
    /\ UNCHANGED contactVars

\* The outbox worker writes a message into the session table.
Store(f, w) ==
    /\ f \in agreed /\ w \notin stored[f]
    /\ stored' = [stored EXCEPT ![f] = @ \cup {w}]
    /\ UNCHANGED <<requests, timeline, friends, chats, ui, loading, agreed, asked, asking, noted>>

-----------------------------------------------------------------------------
(* pull_session_messages *)

\* The server answers with the friends it has, or three tries fail.
ScratchFriendList(ok) ==
    /\ app = "running" /\ pull = "list"
    /\ IF ok THEN pull' = "collect" /\ listed' = agreed ELSE pull' = "failed" /\ UNCHANGED listed
    /\ UNCHANGED <<requests, timeline, friends, chats, ui, todo, serverVars, noted>>

\* Mutant: a chat that is there already is taken for loaded.
CollectKeepsChats ==
    /\ app = "running" /\ pull = "collect"
    /\ friends' = friends \cup listed
    /\ chats' = [f \in DOMAIN chats \cup listed |-> IF f \in DOMAIN chats THEN chats[f] ELSE {}]
    /\ pull' = "sessions" /\ todo' = (friends \cup listed) \ DOMAIN chats
    /\ before' = stored
    /\ UNCHANGED <<requests, timeline, ui, listed, serverVars, received, shifted>>

\* collect_friend_list makes a new chat session for every friend of the list.  To
\* ask for no chats at all is an error of ReadSession.
CollectFriendList ==
    /\ app = "running" /\ pull = "collect"
    /\ friends' = friends \cup listed
    /\ chats' = [f \in DOMAIN chats \cup listed |-> IF f \in listed THEN {} ELSE chats[f]]
    /\ todo' = friends \cup listed
    /\ pull' = IF todo' = {} THEN "failed" ELSE "sessions"
    /\ before' = stored
    /\ UNCHANGED <<requests, timeline, ui, listed, serverVars, received, shifted>>

\* A chunk of pull_sessions, read by ReadSession since the list was collected; a
\* chat without messages raises and ends the task.
CollectSession(f) ==
    /\ app = "running" /\ pull = "sessions" /\ f \in todo
    /\ \E chunk \in SUBSET stored[f] :
          /\ before[f] \subseteq chunk
          /\ IF chunk = {}
             THEN pull' = "failed" /\ UNCHANGED <<todo, chats>>
             ELSE /\ todo' = todo \ {f}
                  /\ chats' = [chats EXCEPT ![f] = @ \cup chunk]
                  /\ pull' = IF todo' = {} THEN "done" ELSE pull
    /\ UNCHANGED <<requests, timeline, friends, ui, listed, serverVars, noted>>

\* A chunk that is not one answer, or an error of the stream, ends the task too.
PullFails ==
    /\ app = "running" /\ pull = "sessions"
    /\ pull' = "failed"
    /\ UNCHANGED <<requests, timeline, friends, chats, ui, listed, todo, serverVars, noted>>

PageStep ==
    \/ \E f \in Others : Ask(f) \/ \E ok \in BOOLEAN : Asked(f, ok) \/ Accepted(f, ok)
    \/ \E seq \in 0 .. Len(timeline) : Answer(seq)

PushStep ==
    \/ \E f \in Others : OnPushFriendRequest(f) \/ \E yes \in BOOLEAN : OnPushFriendConfirm(f, yes)
    \/ \E f \in plan.talkers, w \in Words : OnPushUserMessage(f, w)

ContactsNext ==
    \/ PageStep
    \/ PushStep
    \/ \E f \in plan.talkers, w \in Words : Store(f, w)
    \/ \E ok \in BOOLEAN : ScratchFriendList(ok)
    \/ CollectFriendList
    \/ \E f \in Others : CollectSession(f)
    \/ PullFails

ContactsTypeOK ==
    /\ requests \in [Others -> {"none", "in", "out", "accepted"}]
    /\ timeline \in Seq(Others)
    /\ UNION {friends, listed, todo, agreed, asked, asking, shifted} \subseteq Others
    /\ DOMAIN chats \subseteq Others
    /\ ui.at \in {"idle", "asking", "answering"} /\ ui.seq <= Len(timeline)
    /\ pull \in {"off", "list", "collect", "sessions", "done", "failed"}

\* A friend has a chat, so that a message of theirs can be shown.
FriendHasChat == friends \subseteq DOMAIN chats

\* Who is entered as a friend is one for the server too, save an entry that took
\* the place of the one who was answered.
FriendIsAgreed == friends \subseteq agreed \cup shifted

\* Once the chats are loaded, what was stored when the list came is shown.
LoadedIsShown == pull = "done" => \A f \in listed : before[f] \subseteq chats[f]
=============================================================================
