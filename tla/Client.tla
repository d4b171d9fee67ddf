------------------------------- MODULE Client --------------------------------
(***************************************************************************)
(* The client of one user (src/client/main.c): login, the receive thread,   *)
(* the timer thread, the chat record and what the windows show of it.        *)
(*                                                                           *)
(* ClientLists has the lists and what a click on a row does, ClientInput the *)
(* windows and what is typed.  The other end is the server as this client    *)
(* meets it: the thread of its connection, the send thread, and the logins   *)
(* of the same user from elsewhere.  The inside of the server is the matter  *)
(* of SendQueue, Sessions, OfflineDelivery and Directory, the inside of one  *)
(* request that of RequestPath; here their wedges, races and losses happen   *)
(* as often as the budget says.                                              *)
(***************************************************************************)
EXTENDS ClientLists, ClientInput, SequencesExt, FiniteSetsExt, TLC

CONSTANTS ShowLimit,   \* chats that are shown of a conversation: 50
          TextLimit,   \* bytes a message can have: 1024
          Account,     \* the name and password this user logs in with
          Budgets      \* how much the outside does: one of these per behaviour

\* How often the user, the others and the timer act and how often something
\* goes wrong, and what there is at first and to choose from.  Nobody is a
\* contact or a member twice, and a text is typed letter by letter.
Budget ==
  {b \in [others : Nat, peers : Nat, starts : Nat, stops : Nat, ticks : Nat, clicks : Nat, tabs : Nat,
          typing : Nat, dialogs : Nat, accounts : Nat,
          failures : Nat, losses : Nat, wedges : Nat, wipes : Nat, full : BOOLEAN,
          hover : BOOLEAN, statuses : SUBSET {0, 1}, times : SUBSET Nat,
          contacts : Seq(Friends), groups : Groups, joined : Seq(Groups),
          names : SUBSET Seq(STRING), passwords : SUBSET Seq(STRING),
          numbers : SUBSET Seq(STRING), texts : SUBSET Seq(STRING)] :
     /\ IsInjective(b.contacts) /\ IsInjective(b.joined)
     /\ ToSet(b.joined) \subseteq 1..b.groups
     /\ \A txt \in b.texts : WholeLetters(txt)}

ASSUME ShowLimitAssumption == ShowLimit \in Nat \ {0}
ASSUME TextLimitAssumption == TextLimit \in Nat \ {0}
ASSUME AccountAssumption == LoginAccepts(Account.name, Account.password)
ASSUME BudgetsAssumption == Budgets \subseteq Budget

VARIABLES
  toServer,     \* requests on their way to the server
  inbox,        \* records on their way to the client
  conn,         \* this connection: "up", "refused" when it has no slot, "down"
                \* until the server notices, "none"
  named,        \* the sessions whose slot has the user's name
  stage,        \* where user_login is for each session
  rows,         \* the stored messages it has selected and not yet enqueued
  picked,       \* the chats it has selected (history)
  queue,        \* entries of send_queue for the user
  route,        \* where get_user_fd sends the first of them, "none" before it is called
  stuck,        \* nobody gets queue_lock any more
  stored,       \* rows of offlinemsg for the user
  accounts,     \* rows of alluser
  contacts,     \* the user's rows of contacts
  joined,       \* the user's rows of groupmember
  groupCount,   \* rows of grouplist
  loggedIn,     \* current_username is set and db is open
  recvPc,       \* receive thread: "recv", then the steps of login_action or a list
  inHand,       \* the friend list being unpacked and its next entry
  record,       \* rows of the chat record in client-<username>.db
  view,         \* the rows of record that view1_buffer shows
  members,      \* the group whose members group_friend_list shows
  made,         \* chats written so far (history)
  settled,      \* what became of chats outside the record (history)
  atRisk,       \* chats that a race or a fault may have doubled (history)
  asked,        \* group numbers typed, 0 for none, and groups created (history)
  mishaps,      \* what befell the name of this process and its stored chats (history)
  lost,         \* types of messages of this process that were lost (history)
  budget        \* what the outside may still do

netVars     == <<toServer, inbox, conn>>
loginVars   == <<named, stage, rows, picked>>
sendVars    == <<queue, route, stuck, stored>>
serverVars  == <<loginVars, sendVars>>
tables      == <<accounts, contacts, joined, groupCount>>
sessionVars == <<loggedIn, recvPc, inHand>>
chatVars    == <<record, view, members>>
chatEnds    == <<made, settled>>
chatHistory == <<chatEnds, atRisk>>
runHistory  == <<asked, mishaps, lost>>
clientVars  == <<listVars, inputVars, sessionVars, chatVars>>
vars == <<clientVars, netVars, serverVars, tables, chatHistory, runHistory, budget>>

\* This connection, and any others the same user has.
Sessions == {"us", "other"}

\* A request, an entry of the queue or a record, with what it is about.
Msg(type, about) == [type |-> type, about |-> about]

\* "at" is the sendtime: whole seconds of the clock of whoever writes.
Chat(id, conv, at) == [id |-> id, conv |-> conv, at |-> at]
Single(f) == [kind |-> "single", with |-> f]
Group(g) == [kind |-> "group", with |-> g]
Nothing == [list |-> <<>>, next |-> 0]
NoConv == [kind |-> "none", with |-> 0]

Types(s) == {s[i].type : i \in DOMAIN s}

\* The ids of the chats among the messages of s.
ChatIds(s) == {s[i].about.id : i \in {j \in DOMAIN s : s[j].type = "chat"}}

Spend(what) == budget[what] > 0 /\ budget' = [budget EXCEPT ![what] = @ - 1]

\* A statement of SQLite fails: the disk is full, or a text has an apostrophe.
Fails == Spend("failures")

\* A chat that ends here: "early", "lost", "elsewhere" or "unrecorded".
Settle(ids, how) == settled' = [settled EXCEPT ![how] = @ \union ids]

\* A server with all its slots taken leaves a new connection open.
Opened == IF budget.full THEN {"up", "refused"} ELSE {"up"}

Init ==
  /\ ListsInit /\ InputInit
  /\ budget \in Budgets
  /\ toServer = <<>> /\ inbox = <<>> /\ conn \in Opened
  /\ named = {} /\ stage = [s \in Sessions |-> "idle"]
  /\ rows = [s \in Sessions |-> <<>>] /\ picked = [s \in Sessions |-> {}]
  /\ queue = <<>> /\ route = "none" /\ stuck = FALSE /\ stored = <<>>
  /\ accounts = {Account}
  /\ contacts = budget.contacts /\ joined = budget.joined /\ groupCount = budget.groups
  /\ loggedIn = FALSE /\ recvPc = "recv" /\ inHand = Nothing
  /\ record = <<>> /\ view = <<>> /\ members = 0
  /\ made = 0 /\ atRisk = {} /\ asked = {} /\ mishaps = {} /\ lost = {}
  /\ settled = [early |-> {}, lost |-> {}, elsewhere |-> {}, unrecorded |-> {}]

-----------------------------------------------------------------------------
(* The server's thread of this connection.  What it sends by descriptor goes *)
(* to the connection if it is still there; what it sends by name waits for   *)
(* queue_lock, and goes to whoever has the name when its turn comes.         *)

SendByFd(msg) == inbox' = IF conn = "up" THEN Append(inbox, msg) ELSE inbox

\* A request leaves the socket.
Handle(type) ==
  /\ toServer # <<>> /\ stage["us"] = "idle"
  /\ Head(toServer).type = type
  /\ toServer' = Tail(toServer)
  /\ UNCHANGED <<conn, clientVars, rows, picked, chatHistory, lost>>

\* user_register; the name is the key of the table.
HandleRegister ==
  /\ Handle("register")
  /\ LET account == Head(toServer).about
         fresh == \A a \in accounts : a.name # account.name
     IN  \/ /\ accounts' = IF fresh THEN accounts \union {account} ELSE accounts
            /\ SendByFd(Msg("register-receipt", fresh))
            /\ UNCHANGED budget
         \/ /\ Fails
            /\ SendByFd(Msg("register-receipt", FALSE))
            /\ UNCHANGED accounts
  /\ UNCHANGED <<named, stage, sendVars, contacts, joined, groupCount, asked, mishaps>>

\* user_login has found the name in the slot of p and takes it away there.
TurnAway(p) ==
  /\ named' = named \ {p}
  /\ mishaps' = IF p = "us" THEN mishaps \union {"displaced"} ELSE mishaps

\* A second login is refused without a receipt.
FaultyHandleLogin ==
  /\ Handle("login")
  /\ \/ /\ Head(toServer).about \notin accounts
        /\ SendByFd(Msg("login-receipt", FALSE))
        /\ UNCHANGED <<named, stage, mishaps>>
     \/ /\ Head(toServer).about \in accounts /\ named = {}
        /\ stage' = [stage EXCEPT !["us"] = "set"]
        /\ UNCHANGED <<inbox, named, mishaps>>
     \/ /\ Head(toServer).about \in accounts
        /\ \E p \in named : TurnAway(p)
        /\ UNCHANGED <<inbox, stage>>
  /\ UNCHANGED <<sendVars, tables, asked, budget>>

\* user_login: the password is wrong, get_user_prop finds nobody, or it finds
\* a session that this login ends before it fails.
HandleLogin ==
  /\ Handle("login")
  /\ \/ /\ Head(toServer).about \notin accounts
        /\ SendByFd(Msg("login-receipt", FALSE))
        /\ UNCHANGED <<named, stage, mishaps>>
     \/ /\ Head(toServer).about \in accounts /\ named = {}
        /\ stage' = [stage EXCEPT !["us"] = "set"]
        /\ UNCHANGED <<inbox, named, mishaps>>
     \/ /\ Head(toServer).about \in accounts
        /\ \E p \in named : TurnAway(p)
        /\ SendByFd(Msg("login-receipt", FALSE))
        /\ UNCHANGED stage
  /\ UNCHANGED <<sendVars, tables, asked, budget>>

InLogin(s, label) ==
  /\ stage[s] = label
  /\ UNCHANGED <<toServer, conn, route, stuck, tables, clientVars, made, asked, lost>>

\* The name is written, whoever else has got it since.
SetName(s) ==
  /\ InLogin(s, "set")
  /\ named' = named \union {s}
  /\ mishaps' = IF named = {} THEN mishaps ELSE mishaps \union {"shared"}
  /\ stage' = [stage EXCEPT ![s] = "select"]
  /\ UNCHANGED <<inbox, rows, picked, queue, stored, settled, atRisk, budget>>

\* send_offline_message selects the stored messages, ...
SelectStored(s) ==
  /\ InLogin(s, "select")
  /\ rows' = [rows EXCEPT ![s] = stored]
  /\ picked' = [picked EXCEPT ![s] = ChatIds(stored)]
  /\ atRisk' = atRisk \union (ChatIds(stored) \intersect UNION {picked[t] : t \in Sessions \ {s}})
  /\ stage' = [stage EXCEPT ![s] = "replay"]
  /\ UNCHANGED <<inbox, named, queue, stored, settled, mishaps, budget>>

\* ... enqueues one after the other, ...
ReplayRow(s) ==
  /\ InLogin(s, "replay") /\ ~stuck
  /\ rows[s] # <<>>
  /\ queue' = Append(queue, Head(rows[s]))
  /\ rows' = [rows EXCEPT ![s] = Tail(@)]
  /\ UNCHANGED <<inbox, named, stage, picked, stored, settled, atRisk, mishaps, budget>>

\* The stored messages stay where they are.
FaultyEraseStored(s) ==
  /\ InLogin(s, "replay")
  /\ rows[s] = <<>>
  /\ stage' = [stage EXCEPT ![s] = "receipt"]
  /\ picked' = [picked EXCEPT ![s] = {}]
  /\ UNCHANGED <<inbox, named, rows, queue, stored, settled, atRisk, mishaps, budget>>

\* ... and deletes whatever is stored by then; nobody looks whether it worked.
EraseStored(s) ==
  /\ InLogin(s, "replay")
  /\ rows[s] = <<>>
  /\ \/ /\ stored' = <<>>
        /\ Settle(ChatIds(stored) \ UNION {picked[t] : t \in Sessions}, "lost")
        /\ UNCHANGED <<atRisk, mishaps, budget>>
     \/ /\ Fails
        /\ atRisk' = atRisk \union picked[s]
        /\ mishaps' = mishaps \union {"undeleted"}
        /\ UNCHANGED <<stored, settled>>
  /\ stage' = [stage EXCEPT ![s] = "receipt"]
  /\ picked' = [picked EXCEPT ![s] = {}]
  /\ UNCHANGED <<inbox, named, rows, queue>>

LoginReceipt(s) ==
  /\ InLogin(s, "receipt")
  /\ stage' = [stage EXCEPT ![s] = "idle"]
  /\ IF s = "us" THEN SendByFd(Msg("login-receipt", TRUE)) ELSE UNCHANGED inbox
  /\ UNCHANGED <<named, rows, picked, queue, stored, settled, atRisk, mishaps, budget>>

LoginStep(s) ==
  SetName(s) \/ SelectStored(s) \/ ReplayRow(s) \/ EraseStored(s) \/ LoginReceipt(s)

SendByName(msgs) ==
  /\ ~stuck
  /\ queue' = queue \o msgs
  /\ UNCHANGED <<inbox, named, stage, route, stuck, stored, mishaps>>

\* send_friend_list: who is online changes all the time.
HandleFriends ==
  /\ Handle("friends")
  /\ \E online \in [DOMAIN contacts -> budget.statuses] :
       SendByName(<<Msg("friends", [i \in DOMAIN contacts |->
                                     [name |-> contacts[i], status |-> online[i]]])>>)
  /\ UNCHANGED <<tables, asked, budget>>

\* send_group_list
HandleGroups ==
  /\ Handle("groups")
  /\ SendByName(<<Msg("groups", joined)>>)
  /\ UNCHANGED <<tables, asked, budget>>

\* add_contact: no answer for who is a contact already.  Only this thread
\* writes rows of this user, so nothing comes between the look and the insert;
\* Directory has users with two requests at a time.
HandleAdd ==
  /\ Handle("add")
  /\ LET f == Head(toServer).about
     IN  \/ /\ f \in ToSet(contacts)
            /\ SendByName(<<>>)
            /\ UNCHANGED <<contacts, budget>>
         \/ /\ f \in Friends \ ToSet(contacts)
            /\ contacts' = Append(contacts, f)
            /\ SendByName(<<Msg("add-receipt", TRUE)>>)
            /\ UNCHANGED budget
         \/ /\ f \in Friends \ ToSet(contacts)
            /\ Fails
            /\ SendByName(<<Msg("add-receipt", FALSE)>>)
            /\ UNCHANGED contacts
         \/ /\ f = NoUser
            /\ SendByName(<<Msg("add-receipt", FALSE)>>)
            /\ UNCHANGED <<contacts, budget>>
  /\ UNCHANGED <<accounts, joined, groupCount, asked>>

\* The user becomes a member, or the insert fails; the receipt says which.
Join(g) ==
  \/ joined' = Append(joined, g) /\ UNCHANGED budget
  \/ joined' = joined /\ Fails

JoinReceipt == Msg("join-receipt", joined' # joined)

\* join_group: the group has to exist, and the user not to be a member.
HandleJoin ==
  /\ Handle("join")
  /\ LET g == Head(toServer).about
     IN  IF g \in 1..groupCount /\ g \notin ToSet(joined) THEN Join(g)
         ELSE UNCHANGED <<joined, budget>>
  /\ SendByName(<<JoinReceipt>>)
  /\ UNCHANGED <<accounts, contacts, groupCount, asked>>

\* create_group and its callback.  Groups bounds how many there can be.
HandleCreate ==
  /\ Handle("create")
  /\ groupCount + 1 \in Groups
  /\ groupCount' = groupCount + 1
  /\ Join(groupCount')
  /\ SendByName(<<Msg("create-receipt", TRUE), JoinReceipt>>)
  /\ asked' = asked \union {groupCount'}
  /\ UNCHANGED <<accounts, contacts>>

\* send_group_profile is addressed to the name of the connection; a connection
\* that has lost its name gets it addressed to the empty one.
HandleProfile ==
  /\ Handle("profile")
  /\ SendByName(<<Msg(IF "us" \in named THEN "profile" ELSE "stray", Head(toServer).about)>>)
  /\ UNCHANGED <<tables, asked, budget>>

\* send_group_message: to every member, the sender too.
HandleGroupChat ==
  /\ Handle("chat")
  /\ SendByName(IF Head(toServer).about.conv.kind = "group" THEN <<Head(toServer)>> ELSE <<>>)
  /\ UNCHANGED <<tables, asked, budget>>

\* send_single_message to somebody else
HandleSingle ==
  /\ Handle("single")
  /\ SendByName(<<>>)
  /\ UNCHANGED <<tables, asked, budget>>

HandleRequest ==
  \/ HandleRegister \/ HandleLogin \/ HandleFriends \/ HandleGroups \/ HandleAdd
  \/ HandleJoin \/ HandleCreate \/ HandleProfile \/ HandleGroupChat \/ HandleSingle

\* delete_client, when the requests are done and recv returns 0.
DeleteClient ==
  /\ conn = "down" /\ toServer = <<>> /\ stage["us"] = "idle"
  /\ conn' = "none"
  /\ named' = named \ {"us"}
  /\ UNCHANGED <<toServer, inbox, stage, rows, picked, sendVars, tables, clientVars,
                 chatHistory, runHistory, budget>>

\* The process of the server ends, and comes up again.
ServerEnds ==
  /\ conn' = "none" /\ toServer' = <<>>
  /\ named' = {} /\ stage' = [s \in Sessions |-> "idle"]
  /\ rows' = [s \in Sessions |-> <<>>] /\ picked' = [s \in Sessions |-> {}]
  /\ queue' = <<>> /\ route' = "none" /\ stuck' = FALSE
  /\ Settle(ChatIds(queue) \union ChatIds(toServer), "lost")
  /\ atRisk' = atRisk \union UNION {picked[s] : s \in Sessions}
  /\ UNCHANGED <<inbox, stored, tables, clientVars, made, runHistory>>

\* create_group, when the insert fails: the answer is written through a pointer
\* that was stored in a char.
CreateFails ==
  /\ toServer # <<>> /\ stage["us"] = "idle"
  /\ Head(toServer).type = "create"
  /\ Fails
  /\ ServerEnds

-----------------------------------------------------------------------------
(* The send thread. *)

SndStep ==
  /\ queue # <<>> /\ ~stuck
  /\ UNCHANGED <<toServer, conn, loginVars, stuck, tables, clientVars, made, asked, lost>>

\* get_user_fd: a session that has the name.  The empty name is that of the
\* first slot without a user, free or not: this connection's, or another.
SndLookup ==
  /\ SndStep /\ route = "none"
  /\ \/ /\ Head(queue).type = "stray"
        /\ route' \in IF "us" \in named THEN {"nobody"} ELSE {"us", "nobody"}
     \/ /\ Head(queue).type # "stray"
        /\ route' \in IF named = {} THEN {"nobody"} ELSE named
  /\ UNCHANGED <<inbox, queue, stored, settled, atRisk, mishaps, budget>>

SndTake ==
  /\ SndStep
  /\ queue' = Tail(queue) /\ route' = "none"

\* send on the descriptor of that time
SndSend ==
  /\ SndTake
  /\ LET msg == Head(queue)
     IN  \/ /\ route = "us" /\ conn = "up"
            /\ inbox' = Append(inbox, IF msg.type = "stray" THEN Msg("profile", msg.about) ELSE msg)
            /\ UNCHANGED settled
         \/ /\ route = "us" /\ conn # "up"
            /\ Settle(ChatIds(<<msg>>), "lost")
            /\ UNCHANGED inbox
         \/ /\ route = "other"
            /\ Settle(ChatIds(<<msg>>), "elsewhere")
            /\ UNCHANGED inbox
  /\ UNCHANGED <<stored, atRisk, mishaps, budget>>

\* save_offline_message: only chats are stored.  The user may have logged in
\* since the lookup, or be at the replay this chat comes from, and nobody looks
\* whether the insert worked.
SndSave ==
  /\ SndTake /\ route = "nobody"
  /\ LET msg == Head(queue)
     IN  \/ /\ msg.type = "chat"
            /\ stored' = Append(stored, msg)
            /\ atRisk' = atRisk \union ({msg.about.id} \intersect UNION {picked[s] : s \in Sessions})
            /\ mishaps' = IF "us" \in named THEN mishaps \union {"late"} ELSE mishaps
            /\ UNCHANGED <<settled, budget>>
         \/ /\ msg.type = "chat"
            /\ Fails
            /\ Settle({msg.about.id}, "lost")
            /\ UNCHANGED <<stored, atRisk, mishaps>>
         \/ /\ msg.type # "chat"
            /\ UNCHANGED <<stored, settled, atRisk, mishaps, budget>>
  /\ UNCHANGED inbox

Dispatch == SndLookup \/ SndSend \/ SndSave

-----------------------------------------------------------------------------
(* The others, and what goes wrong. *)

\* The same user logs in elsewhere: the first time this ends the session here
\* and fails, the second time it has the name.
OtherLogin ==
  /\ Spend("others")
  /\ stage["other"] = "idle"
  /\ \/ /\ named = {}
        /\ stage' = [stage EXCEPT !["other"] = "set"]
        /\ UNCHANGED <<inbox, named, mishaps>>
     \/ /\ \E p \in named :
             /\ TurnAway(p)
             /\ IF p = "us" THEN SendByFd(Msg("force-logout", FALSE)) ELSE UNCHANGED inbox
        /\ UNCHANGED stage
  /\ UNCHANGED <<toServer, conn, rows, picked, sendVars, tables, clientVars, chatHistory, asked, lost>>

OtherLeaves ==
  /\ "other" \in named /\ stage["other"] = "idle"
  /\ named' = named \ {"other"}
  /\ UNCHANGED <<netVars, stage, rows, picked, sendVars, tables, clientVars, chatHistory,
                 runHistory, budget>>

\* The delete_client of the connection that had this slot before reaches its
\* memset when this user has logged in.
WipeName ==
  /\ Spend("wipes")
  /\ "us" \in named
  /\ named' = named \ {"us"}
  /\ mishaps' = mishaps \union {"wiped"}
  /\ UNCHANGED <<netVars, stage, rows, picked, sendVars, tables, clientVars, chatHistory, asked, lost>>

\* Somebody writes to the user or to a group of the user's.
PeerSends ==
  /\ Spend("peers") /\ ~stuck
  /\ \E conv \in {Single(f) : f \in ToSet(contacts)} \union {Group(g) : g \in ToSet(joined)},
        at \in budget.times :
       queue' = Append(queue, Msg("chat", Chat(made + 1, conv, at)))
  /\ made' = made + 1
  /\ UNCHANGED <<netVars, loginVars, route, stuck, stored, tables, clientVars, settled, atRisk,
                 runHistory>>

\* queue_lock is kept for good, by one of the wedges of SendQueue or by a send
\* that does not return; the message that found the ring full is dropped.
Wedge ==
  /\ Spend("wedges") /\ ~stuck
  /\ stuck' = TRUE
  /\ \/ UNCHANGED <<queue, settled>>
     \/ /\ queue # <<>> /\ (Len(queue) = 1 => route = "none")
        /\ queue' = Front(queue)
        /\ Settle(ChatIds(<<Last(queue)>>), "lost")
  /\ UNCHANGED <<netVars, loginVars, route, stored, tables, clientVars, made, atRisk, runHistory>>

ServerStops == Spend("stops") /\ ServerEnds

\* A request that two threads of the client have written over each other in
\* send_buffer, or a message that arrives in parts, is no message any more.
LoseMessage ==
  /\ Spend("losses")
  /\ \/ \E i \in DOMAIN toServer :
          /\ toServer' = RemoveAt(toServer, i)
          /\ lost' = lost \union {toServer[i].type}
          /\ Settle(ChatIds(<<toServer[i]>>), "lost")
          /\ UNCHANGED inbox
     \/ \E i \in DOMAIN inbox :
          /\ inbox' = RemoveAt(inbox, i)
          /\ lost' = lost \union {inbox[i].type}
          /\ Settle(ChatIds(<<inbox[i]>>), "lost")
          /\ UNCHANGED toServer
  /\ UNCHANGED <<conn, serverVars, tables, clientVars, made, atRisk, asked, mishaps>>

\* Of two requests built in send_buffer at a time one is sent twice and the
\* other not at all.  One of the two is the timer's or the receive thread's,
\* which ask for lists.
OverwriteRequest ==
  /\ Spend("losses")
  /\ \E i, j \in DOMAIN toServer :
       /\ i = j + 1 \/ j = i + 1
       /\ {toServer[i].type, toServer[j].type} \intersect {"friends", "groups"} # {}
       /\ toServer' = [toServer EXCEPT ![i] = toServer[j]]
       /\ lost' = lost \union {toServer[i].type}
       /\ Settle(ChatIds(<<toServer[i]>>), "lost")
       /\ atRisk' = atRisk \union ChatIds(<<toServer[j]>>)
  /\ UNCHANGED <<inbox, conn, serverVars, tables, clientVars, made, asked, mishaps>>

-----------------------------------------------------------------------------
(* Requests, the chat record, and the end of the process. *)

serverEnd == <<conn, serverVars, tables>>

\* send_function; a connection without a thread swallows what is sent.
SendFunction(msgs) == toServer' = IF conn = "up" THEN toServer \o msgs ELSE toServer

\* exec_cmd, all but registration and login: nothing without current_username.
Ask(msgs) == IF loggedIn THEN SendFunction(msgs) ELSE UNCHANGED toServer

OpenConv == IF talkUser # NoUser THEN Single(talkUser)
            ELSE IF talkGroup # 0 THEN Group(talkGroup) ELSE NoConv

\* The first rows of mine, each of which has those of earlier before it.
Listed(mine, earlier) ==
  [k \in 1..(IF Cardinality(mine) < ShowLimit THEN Cardinality(mine) ELSE ShowLimit) |->
     CHOOSE i \in mine : Cardinality(earlier[i]) = k - 1]

\* The rows come in the order in which they were saved.
FaultyShown(chats, conv) ==
  LET mine == {i \in DOMAIN chats : chats[i].conv = conv}
      earlier == [i \in mine |-> {j \in mine : j < i}]
  IN  Listed(mine, earlier)

\* Row j is shown before row i: by sendtime, and in one second as they were saved.
Before(chats, j, i) == chats[j].at < chats[i].at \/ (chats[j].at = chats[i].at /\ j < i)

\* show_chatrecord_single and _group: the oldest rows.
Shown(chats, conv) ==
  LET mine == {i \in DOMAIN chats : chats[i].conv = conv}
      earlier == [i \in mine |-> {j \in mine : Before(chats, j, i)}]
  IN  Listed(mine, earlier)

\* save_chatrecord_single and _group: nothing is saved before login, and nobody
\* looks whether the insert worked.  After a db_init that failed (the main window
\* is shown to nobody) it may work or not.
Save(c) ==
  /\ \/ /\ loggedIn \/ window = "main"
        /\ record' = Append(record, c)
        /\ UNCHANGED <<settled, budget>>
     \/ /\ loggedIn
        /\ Fails
        /\ Settle({c.id}, "unrecorded")
        /\ UNCHANGED record
     \/ /\ ~loggedIn
        /\ Settle({c.id}, "early")
        /\ UNCHANGED <<record, budget>>
  /\ view' = IF c.conv = OpenConv THEN Shown(record', c.conv) ELSE view
  /\ UNCHANGED members

\* The process is gone, and what it has not read with it; the file stays.
Exit ==
  /\ CloseAll /\ ListsReset
  /\ conn' = CASE conn = "up" -> "down" [] conn = "refused" -> "none" [] OTHER -> conn
  /\ inbox' = <<>>
  /\ Settle(ChatIds(inbox), "lost")
  /\ loggedIn' = FALSE /\ recvPc' = "recv" /\ inHand' = Nothing
  /\ view' = <<>> /\ members' = 0
  /\ UNCHANGED <<toServer, serverVars, tables, record, made, atRisk, runHistory, budget>>

-----------------------------------------------------------------------------
(* The receive thread: recv_thread, handle_message, login_action. *)

Receive(type) ==
  /\ window # "off" /\ recvPc = "recv"
  /\ inbox # <<>> /\ Head(inbox).type = type

Take ==
  /\ inbox' = Tail(inbox)
  /\ UNCHANGED <<toServer, serverEnd, made, atRisk, runHistory>>

ReceiveRegistered ==
  /\ Receive("register-receipt") /\ Take
  /\ PopUp(IF Head(inbox).about THEN "registered" ELSE "failed")
  /\ UNCHANGED <<listVars, sessionVars, chatVars, settled, budget>>

\* The name is not kept.
FaultyReceiveLogin ==
  /\ Receive("login-receipt") /\ Head(inbox).about /\ Take
  /\ loggedIn' = TRUE /\ recvPc' = "recv"
  /\ UNCHANGED <<listVars, inputVars, inHand, chatVars, settled, budget>>

\* login_action: db_init and current_username come before anything is shown.
\* When db_init fails the main window is shown all the same, to nobody.
ReceiveLogin ==
  /\ Receive("login-receipt") /\ Head(inbox).about /\ Take
  /\ \/ loggedIn' = TRUE /\ UNCHANGED budget
     \/ loggedIn' = FALSE /\ Fails
  /\ recvPc' = "show"
  /\ UNCHANGED <<listVars, inputVars, inHand, chatVars, settled>>

\* exit(1)
ReceiveRefusal ==
  /\ Receive("login-receipt") /\ ~Head(inbox).about
  /\ Exit

\* The comparison takes the wrong pointer and logout_action is never reached
\* by a client that is logged in; the receipt of a new group is only printed.
ReceiveNotice ==
  /\ \/ Receive("force-logout")
     \/ Receive("create-receipt")
  /\ Take
  /\ UNCHANGED <<listVars, inputVars, sessionVars, chatVars, settled, budget>>

ReceiveChat ==
  /\ Receive("chat") /\ Take
  /\ Save(Head(inbox).about)
  /\ UNCHANGED <<listVars, inputVars, sessionVars>>

ReceiveFriends ==
  /\ Receive("friends") /\ Take
  /\ FriendListSize(Len(Head(inbox).about))
  /\ recvPc' = "entries" /\ inHand' = [list |-> Head(inbox).about, next |-> 1]
  /\ UNCHANGED <<inputVars, loggedIn, chatVars, settled, budget>>

Busy(pc) ==
  /\ recvPc = pc
  /\ UNCHANGED <<inbox, serverEnd, chatHistory, runHistory, budget, loggedIn, chatVars>>

UnpackEntry ==
  /\ Busy("entries") /\ inHand.next <= Len(inHand.list)
  /\ FriendEntry(inHand.list, inHand.next)
  /\ inHand' = [inHand EXCEPT !.next = @ + 1]
  /\ UNCHANGED <<inputVars, toServer, recvPc>>

ShowFriends ==
  /\ Busy("entries") /\ inHand.next > Len(inHand.list)
  /\ UpdateFriendlist
  /\ recvPc' = "recv" /\ inHand' = Nothing
  /\ UNCHANGED <<inputVars, toServer>>

\* The rows are drawn again from what was received before.
ReceiveAdded ==
  /\ Receive("add-receipt") /\ Take
  /\ UpdateFriendlist
  /\ UNCHANGED <<inputVars, sessionVars, chatVars, settled, budget>>

ReceiveGroups ==
  /\ Receive("groups") /\ Take
  /\ GroupList(Head(inbox).about)
  /\ recvPc' = "groups"
  /\ UNCHANGED <<inputVars, loggedIn, inHand, chatVars, settled, budget>>

ShowGroups ==
  /\ Busy("groups")
  /\ UpdateGrouplist
  /\ recvPc' = "recv"
  /\ UNCHANGED <<inputVars, toServer, inHand>>

ReceiveJoined ==
  /\ Receive("join-receipt") /\ Take
  /\ UpdateGrouplist
  /\ UNCHANGED <<inputVars, sessionVars, chatVars, settled, budget>>

\* update_group_friend_list, whatever conversation is open
ReceiveProfile ==
  /\ Receive("profile") /\ Take
  /\ members' = Head(inbox).about
  /\ UNCHANGED <<listVars, inputVars, sessionVars, record, view, settled, budget>>

ShowMain ==
  /\ Busy("show")
  /\ ShowMainWindow
  /\ recvPc' = "ask friends"
  /\ UNCHANGED <<listVars, toServer, inHand>>

AskFriends ==
  /\ Busy("ask friends")
  /\ Ask(<<Msg("friends", 0)>>)
  /\ recvPc' = "ask groups"
  /\ UNCHANGED <<listVars, inputVars, inHand>>

AskGroups ==
  /\ Busy("ask groups")
  /\ Ask(<<Msg("groups", 0)>>)
  /\ recvPc' = "recv"
  /\ UNCHANGED <<listVars, inputVars, inHand>>

\* recv returns 0: "server offline".
ReceiveEnd ==
  /\ window # "off" /\ recvPc = "recv"
  /\ inbox = <<>> /\ conn = "none"
  /\ Exit

ReceiveThread ==
  \/ ReceiveRegistered \/ ReceiveLogin \/ ReceiveRefusal \/ ReceiveNotice \/ ReceiveChat
  \/ ReceiveFriends \/ UnpackEntry \/ ShowFriends \/ ReceiveAdded
  \/ ReceiveGroups \/ ShowGroups \/ ReceiveJoined \/ ReceiveProfile
  \/ ShowMain \/ AskFriends \/ AskGroups \/ ReceiveEnd

-----------------------------------------------------------------------------
(* The timer and the user.  Handlers run under the GTK lock, as do the parts *)
(* of the receive thread that touch a window.                                *)

\* auto_update_thread: it does nothing until somebody is logged in.
Timer ==
  /\ Spend("ticks")
  /\ loggedIn
  /\ \E type \in {"friends", "groups"} : Ask(<<Msg(type, 0)>>)
  /\ UNCHANGED <<inbox, serverEnd, clientVars, chatHistory, runHistory>>

UserActs ==
  UNCHANGED <<inbox, serverEnd, sessionVars, atRisk, mishaps>>

Login ==
  /\ UserActs /\ window = "login"
  /\ \E u \in budget.names, p \in budget.passwords :
       IF LoginAccepts(u, p)
       THEN LoginClicked /\ SendFunction(<<Msg("login", [name |-> u, password |-> p])>>)
       ELSE CheckFails /\ UNCHANGED toServer
  /\ UNCHANGED <<listVars, chatVars, chatEnds, asked, lost, budget>>

\* The request is sent, and the login window comes back without an answer.
Regist ==
  /\ UserActs /\ window = "regist"
  /\ \E u \in budget.names, p \in budget.passwords, r \in budget.passwords :
       IF RegistAccepts(u, p, r)
       THEN ToLogin /\ SendFunction(<<Msg("register", [name |-> u, password |-> p])>>)
       ELSE CheckFails /\ UNCHANGED toServer
  /\ Spend("accounts")
  /\ UNCHANGED <<listVars, chatVars, chatEnds, asked, lost>>

OtherWindow ==
  /\ UserActs
  /\ budget.accounts > 0
  /\ ToRegist \/ ToLogin \/ HidePopUp
  /\ UNCHANGED <<toServer, listVars, chatVars, chatEnds, asked, lost, budget>>

InMain == UserActs /\ window = "main"

ClickFriend ==
  /\ InMain /\ Spend("clicks")
  /\ \E k \in DOMAIN friendRows : FocusinFriend(k)
  /\ view' = Shown(record, OpenConv')
  /\ UNCHANGED <<inputVars, toServer, record, members, chatEnds, asked, lost>>

\* The members are asked for before the conversation changes.
FaultyClickGroup ==
  /\ InMain /\ Spend("clicks")
  /\ \E k \in DOMAIN groupRows : FocusinGroup(k)
  /\ view' = Shown(record, OpenConv')
  /\ Ask(<<Msg("profile", talkGroup)>>)
  /\ lost' = lost \ {"profile"}
  /\ UNCHANGED <<inputVars, record, members, chatEnds, asked>>

\* The members of the group are asked for; what was lost before is of no
\* concern any more.
ClickGroup ==
  /\ InMain /\ Spend("clicks")
  /\ \E k \in DOMAIN groupRows : FocusinGroup(k)
  /\ view' = Shown(record, OpenConv')
  /\ Ask(<<Msg("profile", talkGroup')>>)
  /\ lost' = lost \ {"profile"}
  /\ UNCHANGED <<inputVars, record, members, chatEnds, asked>>

ChangeTab ==
  /\ InMain /\ Spend("tabs")
  /\ \E aim \in {"friend", "group", "about"} : ClickTab(aim)
  /\ UNCHANGED <<inputVars, toServer, chatVars, chatEnds, asked, lost>>

Hover ==
  /\ InMain /\ budget.hover
  /\ \/ \E k \in DOMAIN friendRows : MovetoFriend(k) \/ LeaveFriend(k)
     \/ \E k \in DOMAIN groupRows : MovetoGroup(k) \/ LeaveGroup(k)
  /\ UNCHANGED <<inputVars, toServer, chatVars, chatEnds, asked, lost, budget>>

Compose ==
  /\ InMain
  /\ \/ Spend("typing") /\ \E txt \in budget.texts : TypeText(txt)
     \/ Spend("typing") /\ OpenStickers
     \/ (LeaveStickers \/ \E code \in StickerCodes : InsertSticker(code)) /\ UNCHANGED budget
  /\ UNCHANGED <<toServer, listVars, chatVars, chatEnds, asked, lost>>

\* A message that is about to be sent, of a size exec_cmd lets pass.
Sendable == window = "main" /\ loggedIn /\ Len(entry) <= TextLimit

\* exec_cmd 5: a chat to a friend is saved and shown where it is written.
SendSingle ==
  /\ UNCHANGED <<inbox, serverEnd, sessionVars, atRisk, runHistory>>
  /\ Sendable /\ talkUser # NoUser
  /\ made' = made + 1
  /\ Ask(<<Msg("single", made')>>)
  /\ \E at \in budget.times : Save(Chat(made', Single(talkUser), at))
  /\ TakeEntry(record' # record /\ Len(record') \in ToSet(view'))
  /\ UNCHANGED listVars

\* A chat to a group is saved when it is written and when it comes back.
FaultySendGroup ==
  /\ UNCHANGED <<inbox, serverEnd, sessionVars, atRisk, runHistory, budget>>
  /\ Sendable /\ talkUser = NoUser /\ talkGroup # 0
  /\ made' = made + 1
  /\ \E at \in budget.times :
       LET chat == Chat(made', Group(talkGroup), at)
       IN  /\ Ask(<<Msg("chat", chat)>>)
           /\ record' = Append(record, chat)
           /\ view' = Shown(record', chat.conv)
  /\ Settle(IF conn = "up" THEN {} ELSE {made'}, "lost")
  /\ TakeEntry(FALSE)
  /\ UNCHANGED <<listVars, members>>

\* exec_cmd 12: a chat to a group is saved when the server sends it back.
SendGroup ==
  /\ UNCHANGED <<inbox, serverEnd, sessionVars, atRisk, runHistory, budget>>
  /\ Sendable /\ talkUser = NoUser /\ talkGroup # 0
  /\ made' = made + 1
  /\ \E at \in budget.times : Ask(<<Msg("chat", Chat(made', Group(talkGroup), at))>>)
  /\ Settle(IF conn = "up" THEN {} ELSE {made'}, "lost")
  /\ TakeEntry(FALSE)
  /\ UNCHANGED <<listVars, chatVars>>

\* No conversation is open, or the text is too long: it is gone.
SendNowhere ==
  /\ InMain
  /\ OpenConv = NoConv \/ ~Sendable
  /\ TakeEntry(FALSE)
  /\ UNCHANGED <<toServer, listVars, chatVars, chatEnds, asked, lost, budget>>

OpenDialog ==
  /\ InMain /\ Spend("dialogs")
  /\ \/ tab = "group" /\ \E kind \in {"join", "create"} : OpenGroupDialog(kind)
     \/ tab = "friend" /\ OpenFriendDialog
  /\ UNCHANGED <<toServer, listVars, chatVars, chatEnds, asked, lost>>

CloseDialog ==
  /\ InMain
  /\ CloseGroupDialog \/ CloseFriendDialog \/ CloseWarning
  /\ UNCHANGED <<toServer, listVars, chatVars, chatEnds, asked, lost, budget>>

ConfirmBadNumber ==
  /\ InMain
  /\ \E txt \in budget.numbers : RefuseNumber(txt)
  /\ UNCHANGED <<toServer, listVars, chatVars, chatEnds, asked, lost, budget>>

\* The number is used before it is read.
FaultyConfirmGroup ==
  /\ InMain /\ groupDialog = "join"
  /\ \E txt \in {t \in budget.numbers : Str2Int(t) # -1} :
       \E n \in Groups \union {0} :
         /\ asked' = asked \union {IF txt = <<>> THEN 0 ELSE ReadNumber(txt)}
         /\ Ask(<<Msg("join", n), Msg("groups", 0)>>)
  /\ CloseGroupDialog
  /\ UNCHANGED <<listVars, chatVars, chatEnds, lost, budget>>

\* confirm_group, confirm_group_callback.  Nothing is read from an empty text,
\* and the number is what the stack holds.
ConfirmGroup ==
  /\ InMain /\ groupDialog = "join"
  /\ \E txt \in {t \in budget.numbers : Str2Int(t) # -1} :
       \E n \in IF txt = <<>> THEN Groups \union {0} ELSE {ReadNumber(txt)} :
         /\ asked' = asked \union {IF txt = <<>> THEN 0 ELSE ReadNumber(txt)}
         /\ Ask(<<Msg("join", n), Msg("groups", 0)>>)
  /\ CloseGroupDialog
  /\ UNCHANGED <<listVars, chatVars, chatEnds, lost, budget>>

\* click_group, create_group_callback
ConfirmCreate ==
  /\ InMain /\ groupDialog = "create"
  /\ Ask(<<Msg("create", 0)>>)
  /\ CloseGroupDialog
  /\ UNCHANGED <<listVars, chatVars, chatEnds, asked, lost, budget>>

\* The list is not asked for: the receipt seems to bring the new contact.
FaultyConfirmFriend ==
  /\ InMain
  /\ \E f \in Friends \union {NoUser} : Ask(<<Msg("add", f)>>)
  /\ CloseFriendDialog
  /\ UNCHANGED <<listVars, chatVars, chatEnds, asked, lost, budget>>

\* confirm_friend, confirm_friend_callback.  NoUser stands for a name nobody has
\* and for the user's own.
ConfirmFriend ==
  /\ InMain
  /\ \E f \in Friends \union {NoUser} : Ask(<<Msg("add", f), Msg("friends", 0)>>)
  /\ CloseFriendDialog
  /\ UNCHANGED <<listVars, chatVars, chatEnds, asked, lost, budget>>

\* gtk_main_quit
Quit ==
  /\ budget.starts > 0
  /\ window # "off"
  /\ Exit

\* What was this process's session is another one's now.
Other(s) == IF s = "us" THEN "other" ELSE s

\* init_client and main.  An old connection the server still has becomes
\* another one; its requests have been handled by then.
Start ==
  /\ Spend("starts")
  /\ window = "off" /\ toServer = <<>> /\ stage["us"] = "idle"
  /\ window' = "login"
  /\ conn' \in Opened
  /\ named' = {Other(s) : s \in named} /\ route' = Other(route)
  /\ mishaps' = {} /\ lost' = {}
  /\ UNCHANGED <<popup, dialogs, composer, toServer, inbox, stage, rows, picked, queue, stuck,
                 stored, tables, listVars, sessionVars, chatVars, chatHistory, asked>>

User ==
  \/ Login \/ Regist \/ OtherWindow \/ ClickFriend \/ ClickGroup \/ ChangeTab \/ Hover
  \/ Compose \/ SendSingle \/ SendGroup \/ SendNowhere
  \/ OpenDialog \/ CloseDialog \/ ConfirmBadNumber \/ ConfirmGroup \/ ConfirmCreate
  \/ ConfirmFriend \/ Quit \/ Start

Outside ==
  \/ OtherLogin \/ LoginStep("other") \/ OtherLeaves \/ WipeName
  \/ PeerSends \/ Wedge \/ ServerStops \/ LoseMessage \/ OverwriteRequest

\* client_thread_function of this connection
ClientThread == HandleRequest \/ CreateFails \/ LoginStep("us") \/ DeleteClient

Next == ClientThread \/ Dispatch \/ ReceiveThread \/ Timer \/ User \/ Outside

\* The two threads of the server go on unless they are stuck, and the receive
\* thread does; the user and the others do as they like.
Fairness ==
  /\ WF_vars(~stuck /\ ClientThread)
  /\ WF_vars(~stuck /\ Dispatch)
  /\ WF_vars(ReceiveThread)

Spec == Init /\ [][Next]_vars /\ Fairness

-----------------------------------------------------------------------------
(* Properties. *)

Requests == {"register", "login", "friends", "groups", "add", "join", "create", "profile",
             "chat", "single"}
Records == {"register-receipt", "login-receipt", "force-logout", "friends", "groups",
            "add-receipt", "join-receipt", "create-receipt", "profile", "chat"}

\* Every variable has its type; somebody who is logged in has the main window,
\* or login_action is about to show it.
TypeOK ==
  /\ ListsTypeOK /\ InputTypeOK
  /\ Types(toServer) \subseteq Requests
  /\ Types(inbox) \subseteq Records /\ Types(queue) \subseteq Records \union {"stray"}
  /\ Types(stored) \subseteq {"chat"}
  /\ conn \in {"up", "refused", "down", "none"}
  /\ named \subseteq Sessions
  /\ stage \in [Sessions -> {"idle", "set", "select", "replay", "receipt"}]
  /\ route \in {"none", "us", "other", "nobody"}
  /\ {stuck, loggedIn} \subseteq BOOLEAN
  /\ recvPc \in {"recv", "show", "ask friends", "ask groups", "entries", "groups"}
  /\ members \in Groups \union {0} /\ made \in Nat /\ groupCount \in Groups
  /\ ToSet(contacts) \subseteq Friends /\ ToSet(joined) \subseteq Groups
  /\ mishaps \subseteq {"displaced", "shared", "wiped", "late", "undeleted"}
  /\ lost \subseteq Requests \union Records
  /\ loggedIn => window = "main" \/ recvPc = "show"

\* Stored chats that no login has enqueued, and those it is about to.
Unread ==
  LET enqueued == UNION {picked[s] \ ChatIds(rows[s]) : s \in Sessions}
  IN  (ChatIds(stored) \ enqueued) \union UNION {ChatIds(rows[s]) : s \in Sessions}

\* Whatever logins, restarts, losses and late deliveries come between, each chat
\* is in exactly one place: under way, put aside, in the chat record once, or
\* with one of the named ends.  In particular a chat of one's own to a group is
\* recorded once.  Out of it are chats that two logins replay at a time, that are
\* stored again before the replay deletes them, whose deletion fails or is cut
\* off by the end of the server, or that two threads of the client send twice.
Placed ==
  LET places(id) ==
        Quantify(DOMAIN record, LAMBDA i : record[i].id = id)
        + Quantify({"toServer", "queue", "stored", "inbox"}, LAMBDA p : id \in
            CASE p = "toServer" -> ChatIds(toServer) [] p = "queue" -> ChatIds(queue)
              [] p = "stored" -> Unread [] p = "inbox" -> ChatIds(inbox))
        + Cardinality({how \in DOMAIN settled : id \in settled[how]})
  IN  \A id \in 1..made \ atRisk : places(id) = 1

\* The chat window shows the record of the open conversation and nothing else,
\* oldest first and up to the limit, although both threads write to it, chats
\* arrive out of order and a conversation is given up by opening another.  Chats
\* of one second stand as they were saved.
ViewIsOpenConversation ==
  LET mine == {i \in DOMAIN record : record[i].conv = OpenConv}
  IN  /\ ToSet(view) \subseteq mine
      /\ \A k, l \in DOMAIN view : k < l => Before(record, view[k], view[l])
      /\ Len(view) < ShowLimit => ToSet(view) = mine
      /\ \A i \in mine \ ToSet(view), j \in ToSet(view) : Before(record, j, i)

\* The server can still reach this process under the user's name.
Reachable == conn = "up" /\ ~stuck /\ mishaps \intersect {"displaced", "shared", "wiped"} = {}

\* The members on the right are those of the group in the title, or their list
\* is on its way, unless it was lost or the server cannot send it to this process.
MembersCurrent ==
  window = "main" /\ talkGroup # 0 /\ Reachable /\ "profile" \notin lost =>
    \/ members = talkGroup
    \/ "profile" \in Types(toServer) \union Types(queue) \union Types(inbox)

\* While the main window is open no chats wait for the next login, unless the
\* name was taken or wiped away and the client did not notice, the delete of
\* the last login failed, or the send thread looked the user up before that
\* login and stored the chat after it.
StoredOnlyIfMishap ==
  window = "main" /\ conn = "up" /\ stored # <<>> =>
    mishaps \intersect {"displaced", "wiped", "undeleted", "late"} # {}

\* A group the user is in was joined before, created, or asked for by its
\* number, unless a number was left out.
JoinedAsAsked ==
  0 \in asked \/ ToSet(joined) \subseteq ToSet(budget.joined) \union asked

\* A number as it stands on a row of the group list, typed into the dialog to
\* join a group, is accepted and read as the number of that row.
NumbersReadBack ==
  \A k \in DOMAIN groupRows :
    LET label == Int2Str(groupRows[k].id)
    IN  Str2Int(label) # -1 /\ ReadNumber(label) = groupRows[k].id

\* An account that can be registered can be used to log in, unless its name is
\* empty.
AccountsUsable ==
  \A a \in accounts : a.name # <<>> => LoginAccepts(a.name, a.password)

\* Who waits for a login gets in or the program ends, also when a second login
\* or the end of the server comes between; unless the server has no slot for
\* the connection or is stuck, or the request or its receipt is lost.
LoginAnswered ==
  window = "waiting" ~>
    \/ window \in {"main", "off"}
    \/ conn = "refused" \/ stuck
    \/ lost \intersect {"login", "login-receipt"} # {}

\* The contacts stored at the server all show up in the list, though the
\* receipt of a new one only draws the old list again; unless a list or the
\* request for it is lost, the server cannot send it to this process, or the
\* record could not be opened and nothing is asked for.
ContactAppears ==
  window = "main" ~>
    \/ ToSet(contacts) \subseteq {friendRows[k].label : k \in DOMAIN friendRows}
    \/ window = "off" \/ ~loggedIn \/ ~Reachable \/ "friends" \in lost
=============================================================================
