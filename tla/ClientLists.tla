----------------------------- MODULE ClientLists -----------------------------
(***************************************************************************)
(* The friend list and the group list of the client (src/client/list.c),     *)
(* the conversation a click on one of their rows opens, and the pane of the  *)
(* main window that goes with it (src/client/cmUI.c, mainUI_notebook.c).     *)
(*                                                                           *)
(* The receive thread writes a list it gets into userdata or groupdata, an   *)
(* entry at a time and without the GTK lock, and then rebuilds the rows      *)
(* under the lock; the handlers of GTK events run under the lock.  A row of  *)
(* the friend list holds a pointer to its entry of userdata, a row of the    *)
(* group list a copy of the number.  Module Client says which lists arrive   *)
(* and does the rest of what a click does.                                   *)
(*                                                                           *)
(* Row numbers begin at 1, and 0 is the code's -1.                           *)
(***************************************************************************)
EXTENDS Naturals, Sequences, FiniteSets

CONSTANTS Friends,   \* the names that can become contacts
          NoUser,    \* the empty name
          NameRank,  \* NameRank[f]: the place of f in the order of strcmp
          Groups     \* group numbers, of groups that exist and of those to be created

ASSUME NoUserAssumption == NoUser \notin Friends
ASSUME RankAssumption == /\ NameRank \in [Friends -> Nat]
                         /\ \A f, g \in Friends : NameRank[f] = NameRank[g] => f = g
ASSUME FriendsAssumption == IsFiniteSet(Friends)
ASSUME GroupsAssumption == IsFiniteSet(Groups) /\ Groups = 1..Cardinality(Groups)

VARIABLES
  userdata,         \* the friend list as received: [name, status] by index
  friendListSize,   \* friend_list_size
  groupdata,        \* the group list as received
  groupListSize,    \* group_list_size
  friendRows,       \* rows of the friend list: [ptr, status, label, colour]
  lastfocusFriend,  \* *lastfocus_friend
  focusUser,        \* focus_user
  groupRows,        \* rows of the group list: [id, colour]
  lastfocus,        \* *lastfocus
  focusGroup,       \* *focus_group
  talkUser,         \* talk_to_user
  talkGroup,        \* *talk_to_group
  tab,              \* now_id: "friend", "group" or "about"
  membersShown,     \* scwinlist, the list of members, is visible
  memberList,       \* group_friend_list, inside scwinlist, is not hidden
  logoShown,        \* cmeventbox2, the logo shown in its place, is visible
  switched          \* the tab was changed since a conversation was opened (history)

lists     == <<userdata, friendListSize, groupdata, groupListSize>>
friendTab == <<friendRows, lastfocusFriend, focusUser>>
groupTab  == <<groupRows, lastfocus, focusGroup>>
talk      == <<talkUser, talkGroup>>
pane      == <<tab, membersShown, memberList, logoShown, switched>>
listVars  == <<lists, friendTab, groupTab, talk, pane>>

Colours == {"blue", "grey", "move", "choose"}

ListsInit ==
  /\ userdata = [i \in 1..Cardinality(Friends) |-> [name |-> NoUser, status |-> 0]]
  /\ friendListSize = 0
  /\ groupdata = [i \in 1..Cardinality(Groups) |-> 0]
  /\ groupListSize = 0
  /\ friendRows = <<>> /\ lastfocusFriend = 0 /\ focusUser = NoUser
  /\ groupRows = <<>> /\ lastfocus = 0 /\ focusGroup = 0
  /\ talkUser = NoUser /\ talkGroup = 0
  /\ tab = "friend" /\ membersShown = FALSE /\ memberList = FALSE /\ logoShown = TRUE
  /\ switched = FALSE

\* A new process begins with the same values.
ListsReset ==
  /\ userdata' = [i \in 1..Cardinality(Friends) |-> [name |-> NoUser, status |-> 0]]
  /\ friendListSize' = 0
  /\ groupdata' = [i \in 1..Cardinality(Groups) |-> 0]
  /\ groupListSize' = 0
  /\ friendRows' = <<>> /\ lastfocusFriend' = 0 /\ focusUser' = NoUser
  /\ groupRows' = <<>> /\ lastfocus' = 0 /\ focusGroup' = 0
  /\ talkUser' = NoUser /\ talkGroup' = 0
  /\ tab' = "friend" /\ membersShown' = FALSE /\ memberList' = FALSE /\ logoShown' = TRUE
  /\ switched' = FALSE

-----------------------------------------------------------------------------
(* The receive thread. *)

\* A definition called Faulty... is its namesake with a bug put in; no action
\* uses it.  Each one shows which property notices that bug.

\* handle_message, "friend-list": the size first, then every entry.
FriendListSize(n) ==
  /\ friendListSize' = n
  /\ UNCHANGED <<userdata, groupdata, groupListSize, friendTab, groupTab, talk, pane>>

\* The entries are stored from the back.
FaultyFriendEntry(list, i) ==
  /\ userdata' = [userdata EXCEPT ![i] = list[Len(list) + 1 - i]]
  /\ UNCHANGED <<friendListSize, groupdata, groupListSize, friendTab, groupTab, talk, pane>>

FriendEntry(list, i) ==
  /\ userdata' = [userdata EXCEPT ![i] = list[i]]
  /\ UNCHANGED <<friendListSize, groupdata, groupListSize, friendTab, groupTab, talk, pane>>

\* "group-list": nothing but the receive thread reads these entries.
GroupList(list) ==
  /\ groupListSize' = Len(list)
  /\ groupdata' = [i \in DOMAIN groupdata |-> IF i <= Len(list) THEN list[i] ELSE groupdata[i]]
  /\ UNCHANGED <<userdata, friendListSize, friendTab, groupTab, talk, pane>>

StatusColour(status) == IF status = 1 THEN "blue" ELSE "grey"

\* The last element of S, and otherwise when S is empty.
LastOf(S, otherwise) == IF S = {} THEN otherwise ELSE CHOOSE k \in S : \A j \in S : j <= k

\* cmp_friendlist: who is online first, then by name.
FriendBefore(p, q) ==
  \/ userdata[p].status > userdata[q].status
  \/ /\ userdata[p].status = userdata[q].status
     /\ NameRank[userdata[p].name] < NameRank[userdata[q].name]

\* qsort: row k holds the entry that k - 1 others go before.
SortedFriends ==
  [k \in 1..friendListSize |->
    CHOOSE p \in 1..friendListSize :
      Cardinality({q \in 1..friendListSize : FriendBefore(q, p)}) = k - 1]

FriendRow(p) ==
  [ptr |-> p, status |-> userdata[p].status, label |-> userdata[p].name,
   colour |-> IF userdata[p].name = focusUser THEN "choose" ELSE StatusColour(userdata[p].status)]

\* The rows are rebuilt and the number of the highlighted row is kept.
FaultyUpdateFriendlist ==
  /\ friendRows' = [k \in 1..friendListSize |-> FriendRow(SortedFriends[k])]
  /\ UNCHANGED <<lists, lastfocusFriend, focusUser, groupTab, talk, pane>>

\* update_friendlist: the rows are built anew and the highlight is looked for
\* by name.
UpdateFriendlist ==
  /\ friendRows' = [k \in 1..friendListSize |-> FriendRow(SortedFriends[k])]
  /\ lastfocusFriend' =
       LastOf({k \in 1..friendListSize : userdata[SortedFriends[k]].name = focusUser}, lastfocusFriend)
  /\ UNCHANGED <<lists, focusUser, groupTab, talk, pane>>

\* cmp_grouplist and qsort
SortedGroups ==
  [k \in 1..groupListSize |->
    CHOOSE g \in {groupdata[i] : i \in 1..groupListSize} :
      Cardinality({i \in 1..groupListSize : groupdata[i] < g}) = k - 1]

\* update_grouplist
UpdateGrouplist ==
  /\ groupRows' = [k \in 1..groupListSize |->
                     [id |-> SortedGroups[k],
                      colour |-> IF SortedGroups[k] = focusGroup THEN "choose" ELSE "blue"]]
  /\ lastfocus' = LastOf({k \in 1..groupListSize : SortedGroups[k] = focusGroup}, lastfocus)
  /\ UNCHANGED <<lists, focusGroup, friendTab, talk, pane>>

-----------------------------------------------------------------------------
(* Events on rows and tabs. *)

\* moveto_friend
MovetoFriend(k) ==
  /\ tab = "friend"
  /\ k \in DOMAIN friendRows
  /\ k # lastfocusFriend
  /\ friendRows' = [friendRows EXCEPT ![k].colour = "move"]
  /\ UNCHANGED <<lists, lastfocusFriend, focusUser, groupTab, talk, pane>>

\* leave_friend
LeaveFriend(k) ==
  /\ tab = "friend"
  /\ k \in DOMAIN friendRows
  /\ k # lastfocusFriend
  /\ friendRows' = [friendRows EXCEPT ![k].colour = StatusColour(friendRows[k].status)]
  /\ UNCHANGED <<lists, lastfocusFriend, focusUser, groupTab, talk, pane>>

\* The list of members stays.
FaultyChangeChatMode(mode) ==
  /\ membersShown' = (membersShown \/ mode = 2)
  /\ logoShown' = (mode = 1)
  /\ switched' = FALSE
  /\ UNCHANGED <<tab, memberList>>

\* change_chat_mode: 1 for a friend, 2 for a group; what is inside scwinlist is
\* left alone.
ChangeChatMode(mode) ==
  /\ membersShown' = (mode = 2)
  /\ logoShown' = (mode = 1)
  /\ switched' = FALSE
  /\ UNCHANGED <<tab, memberList>>

\* The row that was highlighted keeps its colour.
FaultyFocusinFriend(k) ==
  /\ tab = "friend"
  /\ k \in DOMAIN friendRows
  /\ friendRows' = [friendRows EXCEPT ![k].colour = "choose"]
  /\ lastfocusFriend' = k
  /\ focusUser' = userdata[friendRows[k].ptr].name
  /\ talkUser' = focusUser'
  /\ talkGroup' = 0
  /\ ChangeChatMode(1)
  /\ UNCHANGED <<lists, groupTab>>

\* focusin_friend and focusin_friend_callback
FocusinFriend(k) ==
  /\ tab = "friend"
  /\ k \in DOMAIN friendRows
  /\ friendRows' = [j \in DOMAIN friendRows |->
                      IF j = k THEN [friendRows[j] EXCEPT !.colour = "choose"]
                      ELSE IF j = lastfocusFriend
                           THEN [friendRows[j] EXCEPT !.colour = StatusColour(friendRows[j].status)]
                           ELSE friendRows[j]]
  /\ lastfocusFriend' = k
  /\ focusUser' = userdata[friendRows[k].ptr].name
  /\ talkUser' = focusUser'
  /\ talkGroup' = 0
  /\ ChangeChatMode(1)
  /\ UNCHANGED <<lists, groupTab>>

\* moveto_group
MovetoGroup(k) ==
  /\ tab = "group"
  /\ k \in DOMAIN groupRows
  /\ k # lastfocus
  /\ groupRows' = [groupRows EXCEPT ![k].colour = "move"]
  /\ UNCHANGED <<lists, lastfocus, focusGroup, friendTab, talk, pane>>

\* leave_group
LeaveGroup(k) ==
  /\ tab = "group"
  /\ k \in DOMAIN groupRows
  /\ k # lastfocus
  /\ groupRows' = [groupRows EXCEPT ![k].colour = "blue"]
  /\ UNCHANGED <<lists, lastfocus, focusGroup, friendTab, talk, pane>>

\* focusin_group and focusin_group_callback
FocusinGroup(k) ==
  /\ tab = "group"
  /\ k \in DOMAIN groupRows
  /\ groupRows' = [j \in DOMAIN groupRows |->
                     IF j = k THEN [groupRows[j] EXCEPT !.colour = "choose"]
                     ELSE IF j = lastfocus THEN [groupRows[j] EXCEPT !.colour = "blue"]
                     ELSE groupRows[j]]
  /\ lastfocus' = k
  /\ focusGroup' = groupRows[k].id
  /\ talkGroup' = focusGroup'
  /\ talkUser' = NoUser
  /\ ChangeChatMode(2)
  /\ UNCHANGED <<lists, friendTab>>

\* on_main_button_clicked: gtk_widget_show_all on the chat box shows the
\* member list and the logo whatever the mode; on the way to "about" both go.
ClickTab(aim) ==
  /\ tab # aim
  /\ tab' = aim
  /\ membersShown' = (aim # "about")
  /\ memberList' = (aim # "about")
  /\ logoShown' = (aim # "about")
  /\ switched' = TRUE
  /\ UNCHANGED <<lists, friendTab, groupTab, talk>>

-----------------------------------------------------------------------------
\* Every variable has its type; there is never a conversation with a user and
\* one with a group at a time.
ListsTypeOK ==
  /\ userdata \in [1..Cardinality(Friends) -> [name : Friends \union {NoUser}, status : {0, 1}]]
  /\ friendListSize \in 0..Cardinality(Friends)
  /\ groupdata \in [1..Cardinality(Groups) -> Groups \union {0}]
  /\ groupListSize \in 0..Cardinality(Groups)
  /\ friendRows \in Seq([ptr : DOMAIN userdata, status : {0, 1}, label : Friends, colour : Colours])
  /\ lastfocusFriend \in 0..Cardinality(Friends)
  /\ focusUser \in Friends \union {NoUser}
  /\ groupRows \in Seq([id : Groups, colour : Colours])
  /\ lastfocus \in 0..Cardinality(Groups)
  /\ focusGroup \in Groups \union {0}
  /\ talkUser \in Friends \union {NoUser}
  /\ talkGroup \in Groups \union {0}
  /\ talkUser = NoUser \/ talkGroup = 0
  /\ tab \in {"friend", "group", "about"}
  /\ {membersShown, memberList, logoShown, switched} \subseteq BOOLEAN

\* However the rows are sorted anew as people come and go, the number of the
\* highlighted row is that of the person or group whose row was clicked last,
\* so the colours of the next click go to rows that exist.
FocusFollowsRow ==
  /\ focusUser # NoUser =>
       /\ lastfocusFriend \in DOMAIN friendRows
       /\ friendRows[lastfocusFriend].label = focusUser
  /\ focusGroup # 0 =>
       /\ lastfocus \in DOMAIN groupRows
       /\ groupRows[lastfocus].id = focusGroup

\* Exactly that row is drawn as chosen; moving the pointer over the rows while
\* the lists are refreshed does not lose or copy the highlight.  The server is
\* taken to send nobody and no group twice, as Directory shows it does to users
\* who have one request at a time; of two equal rows both would be drawn.
OneHighlight ==
  /\ \A k \in DOMAIN friendRows :
       friendRows[k].colour = "choose" <=> k = lastfocusFriend /\ focusUser # NoUser
  /\ \A k \in DOMAIN groupRows :
       groupRows[k].colour = "choose" <=> k = lastfocus /\ focusGroup # 0

\* The name a row shows is the one its pointer leads to, also while the
\* receive thread is rewriting userdata without the lock: a click opens a
\* conversation with the person on the label.  It holds because a newer list
\* begins with the entries of the older one.
LabelIsTarget ==
  \A k \in DOMAIN friendRows : userdata[friendRows[k].ptr].name = friendRows[k].label

\* The list of members stays out of sight during a conversation with a friend
\* until the tab is changed: change_chat_mode hides it, "show all" brings it
\* back.  During a conversation with a group it can be seen, although the main
\* window hides all of it at first and change_chat_mode shows its frame only:
\* to click on a group one has to change the tab.
MembersFollowConversation ==
  /\ talkUser # NoUser /\ membersShown => switched
  /\ talkGroup # 0 /\ tab # "about" => membersShown /\ memberList
=============================================================================
