------------------------------- MODULE MCClient -------------------------------
(* One user with two possible contacts and groups 1 to 11.  What happens outside *)
(* in a behaviour is one of the budgets, each for one part of the client.        *)
EXTENDS Client

CONSTANTS ann, bob

TwoFriends == {ann, bob}
SomeMisprints == {<<>>, <<"?">>}
Ranks == (ann :> 1) @@ (bob :> 2)

Me == [name |-> <<"m", "e">>, password |-> [i \in 1..6 |-> "x"]]

Nobody == [others |-> 0, peers |-> 0, starts |-> 0, stops |-> 0, ticks |-> 0, clicks |-> 0,
           tabs |-> 0, typing |-> 0, dialogs |-> 0, accounts |-> 0, failures |-> 0,
           losses |-> 0, wedges |-> 0, wipes |-> 0, full |-> FALSE, hover |-> FALSE,
           statuses |-> {0}, times |-> {0}, contacts |-> <<ann>>, groups |-> 11, joined |-> <<1>>,
           names |-> {Me.name}, passwords |-> {Me.password},
           numbers |-> {<<"1">>}, texts |-> {<<"a">>}]

\* Chats that meet second logins and a restart, and a name that is wiped.
TwoLogins == [Nobody EXCEPT !.others = 2, !.peers = 1, !.contacts = <<>>]
Relogin == [Nobody EXCEPT !.others = 1, !.starts = 1, !.contacts = <<>>]
Wiped == [Nobody EXCEPT !.peers = 1, !.wipes = 1, !.clicks = 1, !.tabs = 1, !.contacts = <<>>]

\* More chats with a friend than are shown, a group, and one after the other.
Chats == [Nobody EXCEPT !.peers = 3, !.clicks = 1, !.times = {0, 1}, !.joined = <<>>]
Switch == [Nobody EXCEPT !.peers = 1, !.clicks = 2, !.tabs = 1, !.typing = 1]
Written == [Nobody EXCEPT !.others = 1, !.clicks = 1, !.tabs = 1, !.typing = 1]

\* The server stops, with chats under way and with a chat being written.
Stops == [Nobody EXCEPT !.peers = 1, !.starts = 1, !.stops = 1, !.joined = <<>>]
StopsWritten == [Nobody EXCEPT !.stops = 1, !.clicks = 1, !.tabs = 1, !.typing = 1]

\* It is stuck, or has no slot for the connection.
Stuck == [Nobody EXCEPT !.peers = 1, !.wedges = 1, !.clicks = 1, !.tabs = 1, !.contacts = <<>>]
Full == [Nobody EXCEPT !.starts = 1, !.full = TRUE, !.peers = 1, !.joined = <<>>]

\* A statement of SQLite fails, on either side.
Failing == [Nobody EXCEPT !.failures = 1, !.peers = 1, !.clicks = 1, !.typing = 1, !.joined = <<>>]
FailingAdds == [Nobody EXCEPT !.failures = 1, !.tabs = 1, !.dialogs = 1, !.joined = <<>>]
FailingTwice == [Nobody EXCEPT !.failures = 2, !.accounts = 1]

\* Requests and records are lost, and threads write over each other's requests.
Losing == [Nobody EXCEPT !.losses = 1, !.peers = 1, !.joined = <<>>]
LosingWritten == [Nobody EXCEPT !.losses = 1, !.ticks = 1, !.clicks = 1, !.tabs = 1, !.typing = 1,
                                !.contacts = <<>>]

\* Lists that change while rows are clicked and the pointer moves.
Friendlist == [Nobody EXCEPT !.ticks = 1, !.clicks = 2, !.hover = TRUE, !.statuses = {0, 1},
                             !.contacts = <<bob, ann>>, !.joined = <<>>]
Grouplist == [Nobody EXCEPT !.ticks = 1, !.clicks = 2, !.tabs = 1, !.hover = TRUE,
                            !.contacts = <<>>, !.joined = <<11, 1>>]
Tabs == [Nobody EXCEPT !.clicks = 2, !.tabs = 3]

\* Contacts and groups that are added.
Adds == [Nobody EXCEPT !.tabs = 1, !.dialogs = 2, !.joined = <<>>, !.numbers = {<<"1", "1">>}]

\* A number that is left out, too large for any group, or too long to be read.
NoNumber == [Nobody EXCEPT !.tabs = 1, !.dialogs = 1, !.joined = <<>>,
                           !.numbers = {<<>>, <<"9", "9">>, [i \in 1..9 |-> "1"]}]

\* Names and passwords at the limits of the check.
Accounts == [Nobody EXCEPT !.accounts = 2,
                           !.names = {<<>>, <<"a">>, <<"A">>, [i \in 1..31 |-> "a"]},
                           !.passwords = {<<>>, [i \in 1..5 |-> "x"], [i \in 1..6 |-> "x"],
                                          [i \in 1..16 |-> " "], [i \in 1..17 |-> "x"]}]

\* Texts of up to two letters and stickers.
SomeLetters == {<<"/">>, <<"a">>, <<"%">>, <<"L", "c", "c">>}
Writing == [Nobody EXCEPT !.clicks = 1, !.typing = 2, !.joined = <<>>, !.texts = SomeLetters]

AllBudgets == {TwoLogins, Relogin, Wiped, Chats, Switch, Written, Stops, StopsWritten,
               Stuck, Full, Failing, FailingAdds, FailingTwice, Losing, LosingWritten,
               Friendlist, Grouplist, Tabs, Adds, NoNumber, Accounts, Writing}
=============================================================================
