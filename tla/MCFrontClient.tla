--------------------------- MODULE MCFrontClient ---------------------------
(* FrontClient for TLC: logging in, a chat under way, and friends. *)
EXTENDS FrontClient

CONSTANTS u1, u2, t1, t2, f1, f2

Silent == [sends |-> 0, resends |-> 0, pushes |-> 0, channel |-> 1, mayFail |-> FALSE, pages |-> {"main"}]
Alone == [askers |-> {}, asks |-> {}, length |-> 3, talkers |-> {}, friends |-> {}, pull |-> FALSE, slips |-> FALSE]
LoggedIn == [page |-> "left", user |-> u1, attempts |-> 0, mayLose |-> TRUE]

\* Three attempts of two users.
LogIn == [login |-> [page |-> "login", user |-> NoUser, attempts |-> 3, mayLose |-> TRUE], chat |-> Silent, friends |-> Alone]

\* Three messages, one of them sent again, and deliveries that fail.
Sending == [login |-> LoggedIn, chat |-> [Silent EXCEPT !.sends = 3, !.resends = 1, !.mayFail = TRUE, !.pages = {"chat"}],
            friends |-> Alone]

\* Two texts are pushed, one of them twice, while the user changes pages.
Receiving == [login |-> LoggedIn, chat |-> [Silent EXCEPT !.pushes = 3, !.pages = {"chat", "main", "other"}],
              friends |-> Alone]

\* Both directions.
Talking == [login |-> LoggedIn,
            chat |-> [Silent EXCEPT !.sends = 1, !.resends = 1, !.pushes = 2, !.pages = {"chat", "main"}], friends |-> Alone]

\* Two ask the user, who asks one of them too and answers by number.
Requests == [login |-> LoggedIn, chat |-> Silent,
             friends |-> [Alone EXCEPT !.askers = {f1, f2}, !.asks = {f1}, !.slips = TRUE]]

\* A friend and a new one write while the chats are loaded.
Loading == [login |-> [LoggedIn EXCEPT !.mayLose = FALSE], chat |-> Silent,
            friends |-> [Alone EXCEPT !.asks = {f2}, !.length = 1, !.talkers = {f1, f2}, !.friends = {f1}, !.pull = TRUE]]

MCSetups == {LogIn, Sending, Receiving, Talking, Requests, Loading}
=============================================================================
